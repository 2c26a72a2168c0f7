----------------------------- MODULE MindProofs -----------------------------
(***************************************************************************)
(* The mind for any number of events from outside, any threshold of the    *)
(* breaker and any room in the queues.                                     *)
(***************************************************************************)
EXTENDS Mind, SequenceTheorems, FiniteSetTheorems, TLAPS

(* ------------------------------------------------------------------------*)
(* Types.  An id is a turn, or 0.                                          *)
Ids == 0..MaxInputs
Tasks == Actors \cup {Run(t) : t \in Ids} \cup {Speak(t) : t \in Ids}
Kinds == {"wake", "final", "barge", "done", "reply", "cancel"}
Events == Kinds \X Ids

Typed ==
  /\ ready \in Seq(Tasks) /\ running \in Actors \cup {Nobody}
  /\ cancelled \subseteq Tasks
  /\ queue \in [Actors -> Seq(Events)] /\ at \in [Actors -> Waits]
  /\ state \in TurnStates
  /\ session \in Ids /\ turns \in Ids /\ turnTask \in Ids /\ waiter \in Ids
  /\ turn \in [Turns -> {"none", "new", "thinking", "speaking", "done"}]
  /\ active \in Ids /\ speakTask \in Ids /\ coming \in Ids
  /\ speak \in [Turns -> {"none", "new", "talking", "said", "unsaid"}]
  /\ inputs \in Ids

Distinct(r) == \A i, j \in 1..Len(r) : r[i] = r[j] => i = j
Line(r) == r \in Seq(Tasks) /\ Distinct(r)
Ahead(r, t) ==
  /\ Run(t) \in Range(r)
  /\ \A i, j \in 1..Len(r) : r[i] = Run(t) /\ r[j] = Engine => i < j

LineInv ==
  /\ Distinct(ready)
  /\ \A a \in Actors : at[a] \in {"get", "join"} \/ running = a => ~InLine(a)
  /\ running \in Actors => at[running] \in {"no", "joined"}
  /\ \A t \in Turns : InLine(Run(t)) => Alive(t)
  /\ \A t \in Turns : InLine(Speak(t)) => Speaks(t)

NamesInv ==
  /\ \A a \in Actors : \A e \in Range(queue[a]) : e[2] <= turns
  /\ coming <= turns
  /\ \A t \in Turns : speak[t] # "none" => t <= turns

Starts(q) == {i \in 1..Len(q) : q[i][1] # "done"}
CountInv ==
  turns + Cardinality(Starts(queue[Engine])) + (IF Interrupting THEN 1 ELSE 0) <= inputs

SessionInv ==
  /\ session = IF state = "IDLE" THEN 0 ELSE turns
  /\ state # "IDLE" => turns > 0
  /\ \A t \in Turns : t > turns => turn[t] = "none"
  /\ state = "LISTENING" => turn[session] = "none"

LeftBehind(t) ==
  /\ Ahead(ready, t) /\ state = "LISTENING" /\ ~Interrupting
  /\ running = Engine => \A e \in Range(queue[Engine]) : e[2] # session
TurnInv == \A t \in Turns :
  /\ turn[t] = "new" => InLine(Run(t)) /\ (LeftBehind(t) \/ (t = session /\ state = "COMMITTING"))
  /\ turn[t] = "thinking" => t = session /\ state = "THINKING"
  /\ turn[t] = "speaking" => t = session /\ state = "SPEAKING"
  /\ Alive(t) /\ t = session => turnTask = t
StateInv ==
  ~Interrupting =>
    /\ state = "THINKING" => turn[session] = "thinking"
    /\ state = "SPEAKING" => turn[session] = "speaking"
JoinInv ==
  /\ at[Engine] = "join" => session # 0 /\ turnTask = session /\ Run(session) \in cancelled
  /\ at[Engine] = "joined" => session # 0 /\ ~Alive(session)
  /\ \A t \in Turns : Run(t) \in cancelled => at[Engine] = "join" /\ t = session
CallInv ==
  \A t \in Turns : turn[t] = "thinking" => circuit # "open" /\ (circuit = "half_open" => probing)

EngineInv == Typed /\ LineInv /\ NamesInv /\ CountInv /\ SessionInv /\ TurnInv /\ StateInv /\ JoinInv /\ CallInv

Waiting(t) == coming = t \/ <<"reply", t>> \in Range(queue[Output])
SpeechInv ==
  /\ \A t \in Turns : Speaks(t) => speakTask = t /\ active = t
  /\ at[Output] = "joined" => \A t \in Turns : ~Speaks(t)
  /\ coming # 0 => at[Output] \in {"join", "joined"}
  /\ \A t \in Turns : Speak(t) \in cancelled => at[Output] = "join" /\ t = speakTask
InOrder(q) == \A i, j \in 1..Len(q) :
  i < j /\ q[i][1] = "reply" /\ q[j][1] = "reply" => q[i][2] < q[j][2]
OrderInv ==
  /\ \A e \in Range(queue[Output]) : e[1] = "reply" => e[2] # 0
  /\ \A t \in Turns : Waiting(t) => speak[t] = "none" /\ turn[t] \in {"speaking", "done"}
  /\ \A t \in Turns : speak[t] # "none" => turn[t] \in {"speaking", "done"}
  /\ \A t, u \in Turns : Waiting(t) /\ speak[u] # "none" => u < t
  /\ \A t, u \in Turns : Speaks(t) /\ speak[u] # "none" => u <= t
  /\ InOrder(queue[Output])
  /\ \A e \in Range(queue[Output]) : coming # 0 /\ e[1] = "reply" => coming < e[2]
LastInv == Begun = {} \/ \E m \in Begun : \A u \in Begun : u <= m
OutputInv == SpeechInv /\ OrderInv /\ LastInv

Hushed(q, t) == \E i \in 1..Len(q) :
  /\ q[i] = <<"cancel", t>>
  /\ \A j \in 1..Len(q) : q[j] = <<"reply", t>> => j < i
HushInv ==
  \A t \in Turns : Waiting(t) \/ Speaks(t) =>
    \/ turn[t] = "speaking" /\ Run(t) \notin cancelled
    \/ Hushed(queue[Output], t)
    \/ Speak(t) \in cancelled
Orders == {"reply", "cancel"} \X Turns
ToldInv ==
  /\ Distinct(queue[Output]) /\ Range(queue[Output]) \subseteq Orders
  /\ \A e \in Range(queue[Output]) : e[1] = "cancel" /\ e[2] = session => Interrupting
  /\ at[Output] = "get" => queue[Output] = <<>>
SaidInv ==
  /\ \A t \in Turns : turn[t] = "speaking" /\ InLine(Run(t)) /\ Run(t) \notin cancelled => speak[t] = "said"
  /\ \A e \in Range(queue[Engine]) : e[1] = "done" => e[2] \in Turns /\ speak[e[2]] = "said"
SilenceInv == HushInv /\ ToldInv /\ SaidInv


-----------------------------------------------------------------------------
LEMMA Bounds == MaxInputs \in Nat /\ QueueCap \in Nat \ {0}
BY LoopAssumption DEF LoopAssumption

(* Tasks are told apart.                                                   *)
LEMMA TasksDiffer ==
  /\ Engine # Output /\ Nobody \notin Actors /\ Engine \in Actors /\ Output \in Actors
  /\ \A a \in Actors : a = Engine \/ a = Output
  /\ \A t, u \in Ids : /\ Run(t) = Run(u) => t = u
                       /\ Speak(t) = Speak(u) => t = u
                       /\ Run(t) # Speak(u)
                       /\ Run(t) \notin Actors /\ Speak(t) \notin Actors
                       /\ Run(t) \in Tasks /\ Speak(t) \in Tasks
  /\ Actors \subseteq Tasks /\ Turns \subseteq Ids /\ 0 \in Ids /\ 0 \notin Turns
BY Bounds DEF Engine, Output, Nobody, Actors, Run, Speak, Tasks, Ids, Turns

LEMMA Ranges == Range(<<>>) = {} /\ \A x : Range(<<x>>) = {x} /\ <<x>> # <<>>
BY DEF Range

(* A task that is not in line takes its place at the end of it.            *)
LEMMA Enlists ==
  ASSUME NEW r, Line(r), NEW x \in Tasks, x \notin Range(r)
  PROVE  /\ Line(r \o <<x>>) /\ Range(r \o <<x>>) = Range(r) \cup {x}
         /\ \A t \in Turns : Ahead(r, t) => Ahead(r \o <<x>>, t)
<1> DEFINE s == r \o <<x>>
<1>1. s = Append(r, x)
  BY AppendIsConcat DEF Line
<1>2. /\ s \in Seq(Tasks) /\ Len(s) = Len(r) + 1 /\ Len(r) \in Nat
      /\ \A i \in 1..Len(r) : s[i] = r[i]
      /\ s[Len(r) + 1] = x
      /\ DOMAIN r = 1..Len(r) /\ DOMAIN s = 1..Len(s)
  BY <1>1 DEF Line
<1>3. \A i \in 1..Len(r) : r[i] # x
  BY <1>2 DEF Range
<1>4. Distinct(s)
  BY <1>2, <1>3 DEF Line, Distinct
<1>5. Range(s) = Range(r) \cup {x}
  BY <1>2 DEF Range
<1>6. ASSUME NEW t \in Turns, Ahead(r, t)
      PROVE  Ahead(s, t)
  <2>1. Run(t) \in Range(s) /\ Run(t) # x
    BY <1>5, <1>6 DEF Ahead
  <2>2. PICK k \in 1..Len(r) : r[k] = Run(t)
    BY <1>2, <1>6 DEF Ahead, Range
  <2>3. ASSUME NEW i \in 1..Len(s), NEW j \in 1..Len(s), s[i] = Run(t), s[j] = Engine
        PROVE  i < j
    <3>1. i \in 1..Len(r)
      BY <1>2, <2>1, <2>3
    <3>2. CASE j \in 1..Len(r)
      BY <1>2, <1>6, <2>3, <3>1, <3>2 DEF Ahead
    <3>3. CASE j = Len(r) + 1
      BY <1>2, <3>1, <3>3
    <3>4. QED  BY <1>2, <3>2, <3>3
  <2>4. QED  BY <2>1, <2>3 DEF Ahead
<1>7. QED  BY <1>2, <1>4, <1>5, <1>6 DEF Line

LEMMA EnlistsSome ==
  ASSUME NEW r, Line(r), NEW x \in Tasks, NEW w, w = <<>> \/ (w = <<x>> /\ x \notin Range(r))
  PROVE  /\ Line(r \o w) /\ Range(r \o w) = Range(r) \cup Range(w)
         /\ \A t \in Turns : Ahead(r, t) => Ahead(r \o w, t)
<1>1. CASE w = <<x>> /\ x \notin Range(r)
  <2>1. Range(w) = {x}
    BY <1>1, Ranges
  <2>2. QED  BY <1>1, <2>1, Enlists
<1>2. CASE w = <<>>
  <2>1. r \o w = r
    BY <1>2, ConcatEmptySeq DEF Line
  <2>2. Range(w) = {}
    BY <1>2, Ranges
  <2>3. QED  BY <2>1, <2>2
<1>3. QED  BY <1>1, <1>2

(* The first in line leaves it.                                            *)
LEMMA Leaves ==
  ASSUME NEW r, Line(r), r # <<>>
  PROVE  /\ Line(Tail(r)) /\ Range(Tail(r)) = Range(r) \ {Head(r)} /\ Head(r) \in Range(r)
         /\ \A t \in Turns : Ahead(r, t) => /\ Head(r) # Engine
                                            /\ Head(r) # Run(t) => Ahead(Tail(r), t)
<1> DEFINE s == Tail(r)
<1>1. /\ s \in Seq(Tasks) /\ Len(r) \in Nat \ {0} /\ Len(s) = Len(r) - 1
      /\ \A i \in 1..Len(s) : s[i] = r[i + 1]
      /\ r[1] = Head(r)
      /\ DOMAIN r = 1..Len(r) /\ DOMAIN s = 1..Len(s)
  BY HeadTailProperties, EmptySeq DEF Line
<1>2. Distinct(s)
  BY <1>1 DEF Line, Distinct
<1>3. Head(r) \in Range(r)
  BY <1>1 DEF Range
<1>4. ASSUME NEW x
      PROVE  x \in Range(s) <=> x \in Range(r) /\ x # Head(r)
  <2>1. x \in Range(s) => x \in Range(r) /\ x # Head(r)
    <3>1. ASSUME NEW i \in 1..Len(s), s[i] = x
          PROVE  i + 1 \in 1..Len(r) /\ r[i + 1] = x /\ r[i + 1] # r[1]
      BY <1>1, <3>1 DEF Line, Distinct
    <3>2. QED  BY <1>1, <3>1 DEF Range
  <2>2. x \in Range(r) /\ x # Head(r) => x \in Range(s)
    <3>1. SUFFICES ASSUME x \in Range(r), x # Head(r)
                   PROVE  x \in Range(s)
      OBVIOUS
    <3>2. PICK i \in 1..Len(r) : r[i] = x
      BY <1>1, <3>1 DEF Range
    <3>3. i - 1 \in DOMAIN s /\ s[i - 1] = x
      BY <1>1, <3>1, <3>2
    <3>4. QED
      <4> HIDE DEF s
      <4>1. QED  BY <3>3 DEF Range
  <2>3. QED  BY <2>1, <2>2
<1>5. Range(s) = Range(r) \ {Head(r)}
  BY <1>4
<1>6. ASSUME NEW t \in Turns, Ahead(r, t)
      PROVE  Head(r) # Engine /\ (Head(r) # Run(t) => Ahead(s, t))
  <2>1. PICK k \in 1..Len(r) : r[k] = Run(t)
    BY <1>1, <1>6 DEF Ahead, Range
  <2>2. Head(r) # Engine
    BY <1>1, <1>6, <2>1 DEF Ahead
  <2>3. ASSUME Head(r) # Run(t)
        PROVE  Ahead(s, t)
    <3>1. Run(t) \in Range(s)
      BY <1>4, <1>6, <2>3 DEF Ahead
    <3>2. ASSUME NEW i \in 1..Len(s), NEW j \in 1..Len(s), s[i] = Run(t), s[j] = Engine
          PROVE  i < j
      <4>1. /\ i + 1 \in 1..Len(r) /\ j + 1 \in 1..Len(r)
            /\ r[i + 1] = Run(t) /\ r[j + 1] = Engine
        BY <1>1, <3>2
      <4>2. i + 1 < j + 1
        BY <1>6, <4>1 DEF Ahead
      <4>3. QED  BY <4>2
    <3>3. QED  BY <3>1, <3>2 DEF Ahead
  <2>4. QED  BY <2>2, <2>3
<1>7. QED  BY <1>1, <1>2, <1>3, <1>5, <1>6 DEF Line

(* Who is in line when the engine is not is ahead of it.                   *)
LEMMA AheadOfNobody ==
  ASSUME NEW r, Line(r), NEW t \in Turns, Run(t) \in Range(r), Engine \notin Range(r)
  PROVE  Ahead(r, t)
BY DEF Ahead, Range, Line

-----------------------------------------------------------------------------
(* Queues: what is put is put last, or not at all.                         *)
LEMMA PutAppends ==
  ASSUME NEW q \in Seq(Events), NEW e \in Events
  PROVE  /\ Put(q, e) \in Seq(Events)
         /\ \/ Put(q, e) = q
            \/ /\ Len(Put(q, e)) = Len(q) + 1 /\ Put(q, e)[Len(q) + 1] = e
               /\ \A i \in 1..Len(q) : Put(q, e)[i] = q[i]
         /\ Len(q) < QueueCap => Put(q, e) = Append(q, e)
         /\ Put(q, e) = q \/ Put(q, e) = Append(q, e)
         /\ \A i \in 1..Len(Put(q, e)) : (i \in 1..Len(q) /\ Put(q, e)[i] = q[i]) \/ Put(q, e)[i] = e
BY Bounds DEF Put

LEMMA TailShifts ==
  ASSUME NEW q \in Seq(Events), q # <<>>
  PROVE  /\ Head(q) \in Events /\ Head(q) = q[1]
         /\ Tail(q) \in Seq(Events) /\ Len(q) \in Nat \ {0} /\ Len(Tail(q)) = Len(q) - 1
         /\ \A i \in 1..Len(Tail(q)) : Tail(q)[i] = q[i + 1]
BY HeadTailProperties, EmptySeq

LEMMA EventParts ==
  /\ \A e \in Events : e[1] \in Kinds /\ e[2] \in Ids /\ e = <<e[1], e[2]>>
  /\ \A k \in Kinds, t \in Ids : <<k, t>> \in Events /\ <<k, t>>[1] = k /\ <<k, t>>[2] = t
BY DEF Events

LEMMA ActorsTyped ==
  ASSUME Typed, NEW a \in Actors
  PROVE  /\ queue[a] \in Seq(Events) /\ at[a] \in Waits
         /\ \A q \in Seq(Events) : [queue EXCEPT ![a] = q] \in [Actors -> Seq(Events)]
         /\ \A w \in Waits : [at EXCEPT ![a] = w] \in [Actors -> Waits]
         /\ queue[a] # <<>> => /\ Rest(a) \in [Actors -> Seq(Events)]
                               /\ Rest(a)[a] = Tail(queue[a])
                               /\ \A b \in Actors \ {a} : Rest(a)[b] = queue[b]
                               /\ NextEvent(a) \in Events /\ NextEvent(a) = queue[a][1]
                               /\ NextEvent(a)[2] \in Ids
BY TailShifts, EventParts DEF Typed, Rest, NextEvent

-----------------------------------------------------------------------------
(* The events of a queue that each begin one turn at most.                 *)
LEMMA StartsFinite ==
  ASSUME NEW q \in Seq(Events)
  PROVE  IsFiniteSet(Starts(q)) /\ Cardinality(Starts(q)) \in Nat
<1>1. Starts(q) \subseteq 1..Len(q) /\ IsFiniteSet(1..Len(q))
  BY FS_Interval DEF Starts
<1>2. IsFiniteSet(Starts(q))
  BY <1>1, FS_Subset
<1>3. QED  BY <1>2, FS_CardinalityType

LEMMA StartsPut ==
  ASSUME NEW q \in Seq(Events), NEW e \in Events
  PROVE  LET n == Cardinality(Starts(Put(q, e)))
         IN  n <= Cardinality(Starts(q)) + 1 /\ (e[1] = "done" => n <= Cardinality(Starts(q)))
<1>1. CASE Put(q, e) = q
  BY <1>1, StartsFinite
<1>2. CASE Put(q, e) = Append(q, e)
  <2>1. Starts(Append(q, e)) = IF e[1] = "done" THEN Starts(q) ELSE Starts(q) \cup {Len(q) + 1}
    BY AppendProperties DEF Starts
  <2>2. Len(q) + 1 \notin Starts(q)
    BY DEF Starts
  <2>3. Cardinality(Starts(q) \cup {Len(q) + 1}) = Cardinality(Starts(q)) + 1
    BY <2>2, StartsFinite, FS_AddElement
  <2>4. QED  BY <1>2, <2>1, <2>3, StartsFinite
<1>3. QED  BY <1>1, <1>2, PutAppends

LEMMA StartsTail ==
  ASSUME NEW q \in Seq(Events), q # <<>>
  PROVE  Cardinality(Starts(Tail(q))) =
           Cardinality(Starts(q)) - IF Head(q)[1] = "done" THEN 0 ELSE 1
<1> DEFINE S == Starts(q) \ {1}
           T == Starts(Tail(q))
           f == [i \in T |-> i + 1]
<1>1. /\ Len(q) \in Nat \ {0} /\ Len(Tail(q)) = Len(q) - 1 /\ Head(q) = q[1]
      /\ \A i \in 1..Len(Tail(q)) : Tail(q)[i] = q[i + 1]
      /\ Tail(q) \in Seq(Events)
  BY TailShifts
<1>2. f \in Bijection(T, S)
  <2>1. f \in [T -> S]
    BY <1>1 DEF Starts
  <2>2. \A i, j \in T : f[i] = f[j] => i = j
    BY <1>1 DEF Starts
  <2>3. \A j \in S : \E i \in T : f[i] = j
    <3>1. ASSUME NEW j \in S
          PROVE  j - 1 \in T /\ f[j - 1] = j
      BY <1>1 DEF Starts
    <3>2. QED  BY <3>1
  <2>4. QED  BY <2>1, <2>2, <2>3 DEF Bijection, Injection, IsInjective, Surjection
<1>3. IsFiniteSet(T) /\ IsFiniteSet(Starts(q)) /\ Cardinality(Starts(q)) \in Nat
  BY <1>1, StartsFinite
<1>4. Cardinality(S) = Cardinality(T)
  BY <1>2, <1>3, FS_Bijection DEF ExistsBijection
<1>5. 1 \in Starts(q) <=> Head(q)[1] # "done"
  BY <1>1 DEF Starts
<1>6. Cardinality(S) = IF 1 \in Starts(q) THEN Cardinality(Starts(q)) - 1 ELSE Cardinality(Starts(q))
  BY <1>3, FS_RemoveElement
<1>7. QED  BY <1>3, <1>4, <1>5, <1>6

-----------------------------------------------------------------------------
(* What a queue holds after it was put to, and taken from.                 *)
LEMMA PutHolds ==
  ASSUME NEW q \in Seq(Events), NEW e \in Events
  PROVE  Range(Put(q, e)) \subseteq Range(q) \cup {e} /\ Range(q) \subseteq Range(Put(q, e))
<1>1. CASE Put(q, e) = q
  BY <1>1
<1>2. CASE Put(q, e) = Append(q, e)
  <2>1. /\ DOMAIN Append(q, e) = 1..Len(q) + 1 /\ DOMAIN q = 1..Len(q) /\ Len(q) \in Nat
        /\ \A i \in 1..Len(q) : Append(q, e)[i] = q[i]
        /\ Append(q, e)[Len(q) + 1] = e
    OBVIOUS
  <2>2. QED  BY <1>2, <2>1 DEF Range
<1>3. QED  BY <1>1, <1>2, PutAppends

LEMMA TailHolds ==
  ASSUME NEW q \in Seq(Events), q # <<>>
  PROVE  /\ Head(q) \in Range(q) /\ Range(q) \subseteq Events
         /\ Range(Tail(q)) \subseteq Range(q) /\ Range(q) = Range(Tail(q)) \cup {Head(q)}
<1>1. /\ Len(q) \in Nat \ {0} /\ Len(Tail(q)) = Len(q) - 1 /\ Head(q) = q[1]
      /\ \A i \in 1..Len(Tail(q)) : Tail(q)[i] = q[i + 1]
      /\ Tail(q) \in Seq(Events) /\ DOMAIN q = 1..Len(q) /\ DOMAIN Tail(q) = 1..Len(Tail(q))
      /\ \A i \in 1..Len(q) : q[i] \in Events
  BY TailShifts
<1>2. ASSUME NEW i \in 1..Len(q)
      PROVE  i = 1 \/ (i - 1 \in 1..Len(Tail(q)) /\ Tail(q)[i - 1] = q[i])
  BY <1>1
<1>3. \A i \in 1..Len(Tail(q)) : i + 1 \in 1..Len(q)
  BY <1>1
<1>4. ASSUME NEW e \in Range(q)
      PROVE  e \in Range(Tail(q)) \/ e = Head(q)
  <2>1. PICK i \in 1..Len(q) : q[i] = e
    BY <1>1 DEF Range
  <2>2. QED  BY <1>1, <1>2, <2>1 DEF Range
<1>5. Range(Tail(q)) \subseteq Range(q)
  BY <1>1, <1>3 DEF Range
<1>6. Head(q) \in Range(q) /\ Range(q) \subseteq Events
  BY <1>1 DEF Range
<1>7. QED  BY <1>4, <1>5, <1>6

-----------------------------------------------------------------------------
(* What a step does to the line: some task leaves it, others join it, and  *)
(* who was ahead of the engine stays there.                                *)
Moved(gone, come) ==
  /\ Line(ready') /\ Range(ready') = (Range(ready) \ gone) \cup come
  /\ \A t \in Turns : Run(t) \notin gone /\ Ahead(ready, t) => Ahead(ready', t)

LEMMA LineStays == Line(ready) /\ UNCHANGED ready => Moved({}, {})
BY DEF Moved

LEMMA LineGrows ==
  ASSUME Line(ready), NEW x \in Tasks, NEW w, w = <<>> \/ (w = <<x>> /\ ~InLine(x)),
         ready' = ready \o w
  PROVE  Moved({}, Range(w))
<1>1. w = <<>> \/ (w = <<x>> /\ x \notin Range(ready))
  BY DEF InLine
<1>2. /\ Line(ready \o w) /\ Range(ready \o w) = Range(ready) \cup Range(w)
      /\ \A t \in Turns : Ahead(ready, t) => Ahead(ready \o w, t)
  BY <1>1, EnlistsSome
<1>3. QED  BY <1>2 DEF Moved

LEMMA LineGrowsTwice ==
  ASSUME Line(ready), NEW x \in Tasks, NEW v, v = <<>> \/ (v = <<x>> /\ ~InLine(x)),
         NEW y \in Tasks, NEW w, w = <<>> \/ (w = <<y>> /\ ~InLine(y)),
         x # y, ready' = ready \o v \o w
  PROVE  Moved({}, Range(v) \cup Range(w))
<1> DEFINE r == ready \o v
<1>1. v = <<>> \/ (v = <<x>> /\ x \notin Range(ready))
  BY DEF InLine
<1>2. /\ Line(r) /\ Range(r) = Range(ready) \cup Range(v)
      /\ \A t \in Turns : Ahead(ready, t) => Ahead(r, t)
  BY <1>1, EnlistsSome
<1>3. w = <<>> \/ (w = <<y>> /\ y \notin Range(r))
  BY <1>2, Ranges DEF InLine
<1>4. ready' = r \o w
  OBVIOUS
<1> HIDE DEF r
<1>5. /\ Line(r \o w) /\ Range(r \o w) = Range(r) \cup Range(w)
      /\ \A t \in Turns : Ahead(r, t) => Ahead(r \o w, t)
  BY <1>2, <1>3, EnlistsSome
<1>6. QED  BY <1>2, <1>4, <1>5 DEF Moved

LEMMA LineShrinks ==
  ASSUME Line(ready), ready # <<>>, ready' = Tail(ready)
  PROVE  /\ Moved({Head(ready)}, {}) /\ InLine(Head(ready))
         /\ \A t \in Turns : Ahead(ready, t) => Head(ready) # Engine
BY Leaves DEF Moved, InLine

LEMMA LineTurns ==
  ASSUME Line(ready), ready # <<>>,
         NEW x \in Tasks, NEW w, w = <<>> \/ (w = <<x>> /\ ~InLine(x)),
         ready' = Tail(ready) \o w
  PROVE  /\ Moved({Head(ready)}, Range(w)) /\ InLine(Head(ready))
         /\ \A t \in Turns : Ahead(ready, t) => Head(ready) # Engine
<1> DEFINE r == Tail(ready)
<1>1. /\ Line(r) /\ Range(r) = Range(ready) \ {Head(ready)} /\ Head(ready) \in Range(ready)
      /\ \A t \in Turns : Ahead(ready, t) => /\ Head(ready) # Engine
                                             /\ Head(ready) # Run(t) => Ahead(r, t)
  BY Leaves
<1>2. w = <<>> \/ (w = <<x>> /\ x \notin Range(r))
  BY <1>1 DEF InLine
<1>3. ready' = r \o w
  OBVIOUS
<1> HIDE DEF r
<1>4. /\ Line(r \o w) /\ Range(r \o w) = Range(r) \cup Range(w)
      /\ \A t \in Turns : Ahead(r, t) => Ahead(r \o w, t)
  BY <1>1, <1>2, EnlistsSome
<1>5. QED  BY <1>1, <1>3, <1>4 DEF Moved, InLine

-----------------------------------------------------------------------------
(* What the line of an invariant state is, and who is in it after a step.  *)
LEMMA GoodLine == Typed /\ LineInv => Line(ready)
BY DEF Typed, LineInv, Line

LEMMA MovedIn ==
  ASSUME NEW gone, NEW come, Moved(gone, come)
  PROVE  /\ Line(ready') /\ Distinct(ready)' /\ ready' \in Seq(Tasks)
         /\ \A x : InLine(x)' <=> (InLine(x) /\ x \notin gone) \/ x \in come
         /\ \A t \in Turns : Run(t) \notin gone /\ Ahead(ready, t) => Ahead(ready, t)'
BY DEF Moved, Line, InLine, Distinct, Ahead

(* A turn is begun by an event that came from outside.                     *)
LEMMA RoomForTurn ==
  ASSUME Typed, CountInv,
         \/ queue[Engine] # <<>> /\ NextEvent(Engine)[1] # "done"
         \/ Interrupting
  PROVE  turns + 1 \in Turns /\ turns + 1 \in Ids
<1>1. queue[Engine] \in Seq(Events) /\ turns \in Nat /\ inputs \in Ids
  BY ActorsTyped, TasksDiffer, Bounds DEF Typed, Ids
<1>2. Cardinality(Starts(queue[Engine])) \in Nat
  BY <1>1, StartsFinite
<1>3. CASE Interrupting
  BY <1>1, <1>2, <1>3, Bounds DEF CountInv, Ids, Turns
<1>4. CASE queue[Engine] # <<>> /\ NextEvent(Engine)[1] # "done"
  <2>1. 1 \in Starts(queue[Engine])
    BY <1>1, <1>4, TailShifts DEF NextEvent, Starts
  <2>2. Cardinality(Starts(queue[Engine])) # 0
    BY <1>1, <2>1, StartsFinite, FS_EmptySet
  <2>3. QED  BY <1>1, <1>2, <2>2, Bounds DEF CountInv, Ids, Turns
<1>5. QED  BY <1>3, <1>4

-----------------------------------------------------------------------------
(* What the engine knows does not change when somebody else takes a step   *)
(* that neither takes a task of a turn out of the line nor tells the       *)
(* engine of its session.                                                  *)
LEMMA EngineRests ==
  ASSUME EngineInv, NEW gone, NEW come, Moved(gone, come),
         \A t \in Turns : Run(t) \notin gone,
         UNCHANGED <<state, session, turns, turnTask, turn>>,
         at'[Engine] = "join" <=> at[Engine] = "join",
         at'[Engine] = "joined" <=> at[Engine] = "joined",
         \A t \in Turns : Run(t) \in cancelled' <=> Run(t) \in cancelled,
         running' = Engine =>
           \/ state # "LISTENING"
           \/ \A t \in Turns : ~Ahead(ready, t)
           \/ running = Engine /\ Range(queue'[Engine]) \subseteq Range(queue[Engine])
  PROVE  SessionInv' /\ TurnInv' /\ StateInv' /\ JoinInv'
<1>1. \A t \in Turns : /\ InLine(Run(t)) => InLine(Run(t))'
                       /\ Ahead(ready, t) => Ahead(ready, t)'
                       /\ Alive(t)' <=> Alive(t)
  BY MovedIn DEF Alive
<1>2. Interrupting' <=> Interrupting
  BY DEF Interrupting
<1>3. SessionInv'
  BY DEF EngineInv, SessionInv
<1>4. StateInv'
  BY <1>2 DEF EngineInv, StateInv
<1>5. JoinInv'
  <2>1. session # 0 => session \in Turns
    BY Bounds DEF EngineInv, Typed, Ids, Turns
  <2>2. QED  BY <1>1, <2>1 DEF EngineInv, JoinInv
<1>6. \A t \in Turns : LeftBehind(t) => LeftBehind(t)'
  BY <1>1, <1>2 DEF LeftBehind
<1>7. TurnInv'
  BY <1>1, <1>6 DEF EngineInv, TurnInv
<1>8. QED  BY <1>3, <1>4, <1>5, <1>7

LEMMA CallsRest == CallInv /\ UNCHANGED <<turn, bvars>> => CallInv'
BY DEF CallInv, bvars

-----------------------------------------------------------------------------
(* EngineInv, action by action: first what the loop does for every actor.  *)
LEMMA ResumesKeeps ==
  ASSUME EngineInv, NEW a \in Actors, Resumes(a), UNCHANGED <<evars, bvars, ovars, inputs>>
  PROVE  EngineInv'
<1> USE DEF evars, ovars
<1>1. Moved({a}, {}) /\ InLine(a) /\ \A t \in Turns : Ahead(ready, t) => a # Engine
  BY GoodLine, LineShrinks DEF EngineInv, Resumes, Slice
<1>2. Typed'
  BY <1>1, MovedIn DEF EngineInv, Typed, Resumes
<1>3. LineInv'
  BY <1>1, MovedIn, TasksDiffer DEF EngineInv, LineInv, Typed, Waits, Resumes, Alive, Speaks
<1>4. NamesInv' /\ CountInv'
  BY DEF EngineInv, NamesInv, CountInv, Interrupting, Resumes
<1>5. \A t \in Turns : Run(t) \notin {a}
  BY TasksDiffer
<1>6. SessionInv' /\ TurnInv' /\ StateInv' /\ JoinInv'
  BY <1>1, <1>5, EngineRests DEF Resumes
<1>7. CallInv'
  BY CallsRest DEF EngineInv
<1>8. QED  BY <1>2, <1>3, <1>4, <1>6, <1>7 DEF EngineInv

LEMMA WaitsKeeps ==
  ASSUME EngineInv, NEW a \in Actors, WaitsForEvent(a), UNCHANGED <<evars, bvars, ovars, inputs>>
  PROVE  EngineInv'
<1> USE DEF evars, ovars
<1>1. Moved({}, {})
  BY GoodLine, LineStays DEF EngineInv, WaitsForEvent
<1>2. at \in [Actors -> Waits] /\ at[a] = "no" /\ running = a /\ at' = [at EXCEPT ![a] = "get"]
  BY DEF EngineInv, Typed, WaitsForEvent, Awake
<1>3. Typed'
  BY <1>2 DEF EngineInv, Typed, Waits, WaitsForEvent
<1>4. LineInv'
  BY <1>1, <1>2, MovedIn, TasksDiffer DEF EngineInv, LineInv, Typed, Waits, WaitsForEvent, Alive, Speaks
<1>5. at'[Engine] \in {"join", "joined"} <=> at[Engine] \in {"join", "joined"}
  BY <1>2, TasksDiffer
<1>6. NamesInv' /\ CountInv'
  BY <1>5 DEF EngineInv, NamesInv, CountInv, Interrupting, WaitsForEvent
<1>7. SessionInv' /\ TurnInv' /\ StateInv' /\ JoinInv'
  BY <1>1, <1>2, TasksDiffer, EngineRests DEF WaitsForEvent
<1>8. CallInv'
  BY CallsRest DEF EngineInv
<1>9. QED  BY <1>3, <1>4, <1>6, <1>7, <1>8 DEF EngineInv

LEMMA ReadyKeeps ==
  ASSUME EngineInv, NEW task \in Tasks, Ready(task),
         \E t \in Turns : \/ task = Run(t) /\ Alive(t)
                          \/ task = Speak(t) /\ Speaks(t)
  PROVE  EngineInv'
<1> USE DEF evars, ovars, Ready
<1>1. Moved({}, {task})
  <2>1. ready' = ready \o <<task>> /\ Range(<<task>>) = {task}
    BY AppendIsConcat, Ranges DEF EngineInv, Typed
  <2>2. QED  BY <2>1, GoodLine, LineGrows DEF EngineInv
<1>2. Typed'
  BY <1>1, MovedIn DEF EngineInv, Typed
<1>3. task \notin Actors
  BY TasksDiffer
<1>4. LineInv'
  BY <1>1, <1>3, MovedIn, TasksDiffer DEF EngineInv, LineInv, Alive, Speaks
<1>5. NamesInv' /\ CountInv'
  BY DEF EngineInv, NamesInv, CountInv, Interrupting
<1>6. SessionInv' /\ TurnInv' /\ StateInv' /\ JoinInv'
  BY <1>1, EngineRests, TasksDiffer
<1>7. CallInv'
  BY CallsRest DEF EngineInv
<1>8. QED  BY <1>2, <1>4, <1>5, <1>6, <1>7 DEF EngineInv

(* An event is published to an actor by who runs while no actor does.      *)
LEMMA Published ==
  ASSUME Typed, LineInv, running = Nobody, NEW a \in Actors, NEW e \in Events, Publish(a, e)
  PROVE  /\ queue' \in [Actors -> Seq(Events)] /\ at' \in [Actors -> Waits]
         /\ queue'[a] = Put(queue[a], e) /\ \A b \in Actors \ {a} : queue'[b] = queue[b]
         /\ Range(queue'[a]) \subseteq Range(queue[a]) \cup {e}
         /\ \A b \in Actors : \/ at'[b] = at[b]
                              \/ b = a /\ at[a] = "get" /\ at'[a] = "no"
         /\ \/ Woken(a) = <<>> /\ at[a] # "get" /\ at' = at
            \/ Woken(a) = <<a>> /\ at[a] = "get" /\ at'[a] = "no" /\ ~InLine(a)
<1>1. queue[a] \in Seq(Events) /\ at[a] \in Waits /\ at \in [Actors -> Waits] /\ queue \in [Actors -> Seq(Events)]
  BY DEF Typed
<1>2. Put(queue[a], e) \in Seq(Events) /\ Range(Put(queue[a], e)) \subseteq Range(queue[a]) \cup {e}
  BY <1>1, PutAppends, PutHolds
<1>3. queue' = [queue EXCEPT ![a] = Put(queue[a], e)]
  BY DEF Publish
<1>4. at' = [at EXCEPT ![a] = IF at[a] = "get" THEN "no" ELSE at[a]]
  BY DEF Publish
<1>5. at[a] # "get" => at' = at
  BY <1>1, <1>4
<1>6. QED  BY <1>1, <1>2, <1>3, <1>4, <1>5 DEF Woken, LineInv, Waits

LEMMA InputKeeps ==
  ASSUME EngineInv, NEW e \in Events, e[1] # "done", e[2] <= turns, Input(e)
  PROVE  EngineInv'
<1> USE DEF evars, ovars
<1>1. /\ running = Nobody /\ running' = Nobody /\ inputs < MaxInputs /\ inputs' = inputs + 1
      /\ Publish(Engine, e) /\ ready' = ready \o Woken(Engine)
      /\ UNCHANGED <<running, cancelled, bvars, evars, ovars>>
  BY DEF Input
<1>2. /\ queue' \in [Actors -> Seq(Events)] /\ at' \in [Actors -> Waits]
      /\ queue'[Engine] = Put(queue[Engine], e) /\ \A b \in Actors \ {Engine} : queue'[b] = queue[b]
      /\ Range(queue'[Engine]) \subseteq Range(queue[Engine]) \cup {e}
      /\ \A b \in Actors : \/ at'[b] = at[b]
                           \/ b = Engine /\ at[Engine] = "get" /\ at'[Engine] = "no"
      /\ \/ Woken(Engine) = <<>> /\ at[Engine] # "get" /\ at' = at
         \/ Woken(Engine) = <<Engine>> /\ at[Engine] = "get" /\ at'[Engine] = "no" /\ ~InLine(Engine)
  BY <1>1, Published, TasksDiffer DEF EngineInv
<1>3. Moved({}, Range(Woken(Engine)))
  BY <1>1, <1>2, GoodLine, LineGrows, TasksDiffer DEF EngineInv
<1>4. Typed'
  <2>1. ready' \in Seq(Tasks)
    BY <1>3, MovedIn
  <2>2. inputs' \in Ids
    BY <1>1, Bounds DEF EngineInv, Typed, Ids
  <2>3. QED  BY <1>1, <1>2, <2>1, <2>2 DEF EngineInv, Typed
<1>5. LineInv'
  BY <1>1, <1>2, <1>3, MovedIn, Ranges, TasksDiffer DEF EngineInv, LineInv, Alive, Speaks
<1>6. NamesInv'
  BY <1>1, <1>2, TasksDiffer DEF EngineInv, NamesInv
<1>7. at'[Engine] \in {"join", "joined"} <=> at[Engine] \in {"join", "joined"}
  BY <1>2, TasksDiffer
<1>8. CountInv'
  <2>1. queue[Engine] \in Seq(Events) /\ queue'[Engine] \in Seq(Events)
    BY <1>2, TasksDiffer DEF EngineInv, Typed
  <2>2. Cardinality(Starts(queue'[Engine])) <= Cardinality(Starts(queue[Engine])) + 1
    BY <1>2, <2>1, StartsPut
  <2>3. /\ Cardinality(Starts(queue'[Engine])) \in Nat /\ Cardinality(Starts(queue[Engine])) \in Nat
        /\ turns \in Nat /\ inputs \in Nat
    BY <2>1, StartsFinite, Bounds DEF EngineInv, Typed, Ids
  <2>4. QED  BY <1>1, <1>7, <2>2, <2>3 DEF EngineInv, CountInv, Interrupting
<1>9. SessionInv' /\ TurnInv' /\ StateInv' /\ JoinInv'
  <2>1. /\ at'[Engine] = "join" <=> at[Engine] = "join"
        /\ at'[Engine] = "joined" <=> at[Engine] = "joined"
        /\ running' # Engine
    BY <1>1, <1>2, TasksDiffer
  <2>2. UNCHANGED <<state, session, turns, turnTask, turn, cancelled>>
    BY <1>1
  <2>3. QED  BY <1>3, <2>1, <2>2, EngineRests
<1>10. CallInv'
  BY <1>1, CallsRest DEF EngineInv
<1>11. QED  BY <1>4, <1>5, <1>6, <1>8, <1>9, <1>10 DEF EngineInv

-----------------------------------------------------------------------------
(* Then the engine.                                                        *)
LEMMA Taken ==
  ASSUME Typed, LineInv, NEW a \in Actors, NEW k, Takes(a, k)
  PROVE  /\ running = a /\ at[a] = "no" /\ queue[a] # <<>> /\ queue[a] \in Seq(Events)
         /\ NextEvent(a) = Head(queue[a]) /\ NextEvent(a) \in Events /\ NextEvent(a) \in Range(queue[a])
         /\ NextEvent(a)[1] = k /\ NextEvent(a)[2] \in Ids /\ NextEvent(a) = <<k, NextEvent(a)[2]>>
         /\ Rest(a) \in [Actors -> Seq(Events)] /\ Rest(a)[a] = Tail(queue[a])
         /\ \A b \in Actors \ {a} : Rest(a)[b] = queue[b]
         /\ Range(Rest(a)[a]) \subseteq Range(queue[a])
         /\ ~InLine(a)
<1>1. running = a /\ at[a] = "no" /\ queue[a] # <<>> /\ NextEvent(a)[1] = k
  BY DEF Takes, Awake
<1>2. ~InLine(a)
  BY <1>1 DEF LineInv
<1>3. queue[a] \in Seq(Events)
  BY DEF Typed
<1>4. NextEvent(a) = Head(queue[a]) /\ NextEvent(a) \in Range(queue[a]) /\ Range(Tail(queue[a])) \subseteq Range(queue[a])
  BY <1>1, <1>3, TailHolds DEF NextEvent
<1>5. NextEvent(a) \in Events
  BY <1>1, ActorsTyped
<1>6. NextEvent(a) = <<k, NextEvent(a)[2]>>
  BY <1>1, <1>5, EventParts
<1>7. QED  BY <1>1, <1>2, <1>3, <1>4, <1>6, ActorsTyped

(* How many events of the engine begin a turn.                             *)
LEMMA TakenCounts ==
  ASSUME Typed, LineInv, NEW k, Takes(Engine, k)
  PROVE  LET n == Cardinality(Starts(queue[Engine]))
         IN  /\ n \in Nat
             /\ Cardinality(Starts(Rest(Engine)[Engine])) = n - IF k = "done" THEN 0 ELSE 1
<1>1. /\ queue[Engine] # <<>> /\ queue[Engine] \in Seq(Events)
      /\ Head(queue[Engine])[1] = k /\ Rest(Engine)[Engine] = Tail(queue[Engine])
  BY Taken, TasksDiffer
<1>2. QED  BY <1>1, StartsTail, StartsFinite

(* A new turn is announced, none is under way.                             *)
LEMMA Replaces ==
  ASSUME EngineInv, ReplaceTurn, turns + 1 \in Turns,
         NEW come, Moved({}, come), UNCHANGED turn,
         \A t \in Turns : turn[t] \notin {"thinking", "speaking"},
         \A t \in Turns : Run(t) \notin cancelled',
         at'[Engine] = "no", running' = Engine,
         Engine \notin come, ~InLine(Engine),
         \A e \in Range(queue'[Engine]) : e[2] <= turns
  PROVE  SessionInv' /\ TurnInv' /\ StateInv' /\ JoinInv'
<1>1. /\ turns \in Nat /\ session' = turns + 1 /\ turns' = turns + 1 /\ state' = "LISTENING"
      /\ turns + 1 \in Turns
  BY Bounds DEF EngineInv, Typed, Ids, ReplaceTurn
<1>2. turn[turns + 1] = "none" /\ \A t \in Turns : t > turns + 1 => turn[t] = "none"
  <2>1. \A t \in Turns : t > turns => turn[t] = "none"
    BY DEF EngineInv, SessionInv
  <2>2. QED  BY <1>1, <2>1, Bounds DEF Turns
<1>3. SessionInv'
  BY <1>1, <1>2 DEF SessionInv
<1>4. ~Interrupting' /\ StateInv' /\ JoinInv'
  BY <1>1 DEF Interrupting, StateInv, JoinInv
<1>5. \A t \in Turns : turn[t] = "new" => LeftBehind(t)'
  <2> SUFFICES ASSUME NEW t \in Turns, turn[t] = "new"
               PROVE  LeftBehind(t)'
    OBVIOUS
  <2>1. InLine(Run(t))
    BY DEF EngineInv, TurnInv
  <2>2. Ahead(ready', t)
    <3>1. InLine(Run(t))' /\ ~InLine(Engine)' /\ Line(ready')
      BY <2>1, MovedIn
    <3>2. QED  BY <3>1, AheadOfNobody DEF InLine
  <2>3. \A e \in Range(queue'[Engine]) : e[2] # session'
    <3>1. ASSUME NEW e \in Range(queue'[Engine]), e[2] = turns + 1
          PROVE  FALSE
      BY <1>1, <3>1
    <3>2. QED  BY <1>1, <3>1
  <2>4. QED  BY <1>1, <1>4, <2>2, <2>3 DEF LeftBehind
<1>6. TurnInv'
  <2>1. \A t \in Turns : InLine(Run(t)) => InLine(Run(t))'
    BY MovedIn
  <2>2. \A t \in Turns : Alive(t)' => turn[t] = "new" /\ t <= turns
    BY Bounds DEF EngineInv, Typed, Ids, SessionInv, Alive, Turns
  <2>3. QED  BY <1>1, <1>5, <2>1, <2>2 DEF EngineInv, TurnInv
<1>7. QED  BY <1>3, <1>4, <1>6

(* Nobody thinks or speaks unless the state says so.                       *)
LEMMA OthersAreQuiet ==
  ASSUME EngineInv
  PROVE  /\ session # 0 <=> state # "IDLE"
         /\ session # 0 => session \in Turns /\ session = turns
         /\ state \notin {"THINKING", "SPEAKING"} =>
              \A t \in Turns : turn[t] \notin {"thinking", "speaking"}
<1>1. session \in Ids /\ turns \in Ids /\ SessionInv /\ TurnInv
  BY DEF EngineInv, Typed
<1>2. QED  BY <1>1, Bounds DEF SessionInv, TurnInv, Ids, Turns

LEMMA WakeKeeps ==
  ASSUME EngineInv, OnWake, UNCHANGED <<ovars, inputs>>
  PROVE  EngineInv'
<1> USE DEF ovars
<1>1. /\ running = Engine /\ at[Engine] = "no" /\ queue[Engine] # <<>> /\ queue[Engine] \in Seq(Events)
      /\ NextEvent(Engine)[1] = "wake" /\ Rest(Engine) \in [Actors -> Seq(Events)]
      /\ \A b \in Actors \ {Engine} : Rest(Engine)[b] = queue[b]
      /\ Range(Rest(Engine)[Engine]) \subseteq Range(queue[Engine])
      /\ ~InLine(Engine)
      /\ UNCHANGED <<ready, running, cancelled, at, turnTask, waiter, turn, bvars>>
  BY Taken, TasksDiffer DEF EngineInv, OnWake
<1>2. LET n == Cardinality(Starts(queue[Engine]))
      IN  n \in Nat /\ Cardinality(Starts(Rest(Engine)[Engine])) = n - 1
  BY TakenCounts DEF EngineInv, OnWake
<1>3. Moved({}, {})
  BY <1>1, GoodLine, LineStays DEF EngineInv
<1>4. LineInv'
  BY <1>1 DEF EngineInv, LineInv, InLine, Alive, Speaks
<1>5. /\ turns \in Nat /\ inputs \in Nat /\ session \in Ids
      /\ \A a \in Actors : \A e \in Range(queue[a]) : e \in Events
  BY Bounds, TailHolds DEF EngineInv, Typed, Ids, Range
<1>6. CallInv'
  BY <1>1, CallsRest DEF EngineInv
<1>7. \A t \in Turns : Run(t) \notin cancelled
  BY <1>1 DEF EngineInv, JoinInv
<1>8. CASE state \in {"THINKING", "SPEAKING"} /\ session # 0
  <2> DEFINE e == <<"barge", session>>
  <2>1. queue' = [Rest(Engine) EXCEPT ![Engine] = Put(Rest(Engine)[Engine], e)] /\ UNCHANGED <<state, session, turns>>
    BY <1>8 DEF OnWake
  <2>2. e \in Events /\ e[2] = session /\ session <= turns
    BY <1>5, <1>8, EventParts, OthersAreQuiet DEF Kinds
  <2> HIDE DEF e
  <2>3. Rest(Engine)[Engine] \in Seq(Events)
    BY <1>1, TasksDiffer
  <2>4. /\ Put(Rest(Engine)[Engine], e) \in Seq(Events)
        /\ Range(Put(Rest(Engine)[Engine], e)) \subseteq Range(queue[Engine]) \cup {e}
        /\ Cardinality(Starts(Put(Rest(Engine)[Engine], e))) <= Cardinality(Starts(queue[Engine]))
        /\ Cardinality(Starts(Put(Rest(Engine)[Engine], e))) \in Nat
    <3> DEFINE q == Rest(Engine)[Engine]
    <3>1. q \in Seq(Events) /\ e \in Events
      BY <2>2, <2>3
    <3> HIDE DEF q
    <3>2. Put(q, e) \in Seq(Events) /\ Range(Put(q, e)) \subseteq Range(q) \cup {e}
      BY <3>1, PutAppends, PutHolds
    <3>3. Cardinality(Starts(Put(q, e))) <= Cardinality(Starts(q)) + 1 /\ Cardinality(Starts(Put(q, e))) \in Nat
      BY <3>1, <3>2, StartsPut, StartsFinite
    <3>4. QED  BY <1>1, <1>2, <3>2, <3>3 DEF q
  <2>5. /\ queue' \in [Actors -> Seq(Events)] /\ queue'[Engine] = Put(Rest(Engine)[Engine], e)
        /\ \A b \in Actors \ {Engine} : queue'[b] = queue[b]
    BY <1>1, <2>1, <2>4, TasksDiffer
  <2>6. Typed'
    BY <1>1, <2>1, <2>5 DEF EngineInv, Typed
  <2>7. NamesInv'
    BY <1>1, <2>1, <2>2, <2>4, <2>5 DEF EngineInv, NamesInv
  <2>8. CountInv'
    BY <1>1, <1>2, <1>5, <2>1, <2>4, <2>5 DEF EngineInv, CountInv, Interrupting
  <2>9. SessionInv' /\ TurnInv' /\ StateInv' /\ JoinInv'
    BY <1>1, <1>3, <1>8, <2>1, EngineRests
  <2>10. QED  BY <1>4, <1>6, <2>6, <2>7, <2>8, <2>9 DEF EngineInv
<1>9. CASE ~(state \in {"THINKING", "SPEAKING"} /\ session # 0)
  <2>1. queue' = Rest(Engine) /\ ReplaceTurn
    BY <1>9 DEF OnWake
  <2>2. turns + 1 \in Turns /\ turns + 1 \in Ids
    BY <1>1, RoomForTurn DEF EngineInv
  <2>3. turns' = turns + 1 /\ session' = turns + 1 /\ state' = "LISTENING"
    BY <2>1 DEF ReplaceTurn
  <2>4. Typed'
    BY <1>1, <2>1, <2>2, <2>3 DEF EngineInv, Typed, TurnStates
  <2>5. \A a \in Actors : \A e \in Range(queue'[a]) : e \in Range(queue[a])
    BY <1>1, <2>1
  <2>6. \A a \in Actors : \A e \in Range(queue'[a]) : e[2] <= turns /\ e[2] \in Nat
    BY <1>5, <2>5, EventParts, Bounds DEF EngineInv, NamesInv, Ids
  <2>7. NamesInv'
    <3>1. coming \in Nat /\ coming <= turns /\ \A t \in Turns : t \in Nat /\ (speak[t] # "none" => t <= turns)
      BY Bounds DEF EngineInv, NamesInv, Typed, Ids, Turns
    <3>2. QED  BY <1>5, <2>3, <2>6, <3>1 DEF NamesInv
  <2>8. CountInv'
    BY <1>1, <1>2, <1>5, <2>1, <2>3 DEF EngineInv, CountInv, Interrupting
  <2>9. SessionInv' /\ TurnInv' /\ StateInv' /\ JoinInv'
    <3>1. state \notin {"THINKING", "SPEAKING"}
      BY <1>9, OthersAreQuiet
    <3>2. \A t \in Turns : turn[t] \notin {"thinking", "speaking"}
      BY <3>1, OthersAreQuiet
    <3>3. QED  BY <1>1, <1>3, <1>7, <2>1, <2>2, <2>6, <3>2, Replaces, TasksDiffer
  <2>10. QED  BY <1>4, <1>6, <2>4, <2>7, <2>8, <2>9 DEF EngineInv
<1>10. QED  BY <1>8, <1>9

(* The event it took names the session: nobody is left behind.             *)
LEMMA NobodyLeftBehind ==
  ASSUME EngineInv, running = Engine, NEW e \in Range(queue[Engine]), e[2] = session
  PROVE  \A t \in Turns : ~LeftBehind(t)
BY DEF LeftBehind

LEMMA FinalKeeps ==
  ASSUME EngineInv, OnFinal, UNCHANGED <<ovars, inputs>>
  PROVE  EngineInv'
<1> USE DEF ovars
<1> DEFINE t == NextEvent(Engine)[2]
<1>1. /\ running = Engine /\ at[Engine] = "no" /\ queue[Engine] # <<>> /\ queue[Engine] \in Seq(Events)
      /\ NextEvent(Engine)[1] = "final" /\ NextEvent(Engine) \in Range(queue[Engine]) /\ Rest(Engine) \in [Actors -> Seq(Events)]
      /\ \A b \in Actors \ {Engine} : Rest(Engine)[b] = queue[b]
      /\ Range(Rest(Engine)[Engine]) \subseteq Range(queue[Engine])
      /\ queue' = Rest(Engine)
      /\ UNCHANGED <<running, cancelled, at, session, turns, waiter, bvars>>
  BY Taken, TasksDiffer DEF EngineInv, OnFinal
<1>2. LET n == Cardinality(Starts(queue[Engine]))
      IN  n \in Nat /\ Cardinality(Starts(Rest(Engine)[Engine])) = n - 1
  BY TakenCounts DEF EngineInv, OnFinal
<1>3. \A a \in Actors : Range(queue'[a]) \subseteq Range(queue[a])
  BY <1>1
<1>4. NamesInv'
  BY <1>1, <1>3 DEF EngineInv, NamesInv
<1>5. turns \in Nat /\ inputs \in Nat
  BY Bounds DEF EngineInv, Typed, Ids
<1>6. CountInv'
  BY <1>1, <1>2, <1>5 DEF EngineInv, CountInv, Interrupting
<1>7. CASE t = session /\ state = "LISTENING"
  <2>1. /\ state' = "COMMITTING" /\ turnTask' = session
        /\ turn' = [turn EXCEPT ![session] = "new"]
        /\ ready' = Append(ready, Run(session))
    BY <1>7 DEF OnFinal
  <2>2. session \in Turns /\ session = turns /\ turn[session] = "none"
    BY <1>7, OthersAreQuiet DEF EngineInv, SessionInv
  <2>3. ~InLine(Run(session)) /\ Run(session) \in Tasks /\ session \in Ids
    BY <2>2, TasksDiffer DEF EngineInv, LineInv, Alive
  <2>4. ready' = ready \o <<Run(session)>> /\ Range(<<Run(session)>>) = {Run(session)}
    BY <2>1, AppendIsConcat, Ranges DEF EngineInv, Typed
  <2>5. Moved({}, {Run(session)})
    BY <2>3, <2>4, GoodLine, LineGrows DEF EngineInv
  <2>6. /\ turn \in [Turns -> {"none", "new", "thinking", "speaking", "done"}]
        /\ turn'[session] = "new" /\ \A u \in Turns \ {session} : turn'[u] = turn[u]
    BY <2>1, <2>2 DEF EngineInv, Typed
  <2>7. Typed'
    <3>1. ready' \in Seq(Tasks)
      BY <2>5, MovedIn
    <3>2. turn' \in [Turns -> {"none", "new", "thinking", "speaking", "done"}]
      BY <2>1, <2>6
    <3>3. QED  BY <1>1, <2>1, <2>2, <3>1, <3>2, TasksDiffer DEF EngineInv, Typed, TurnStates
  <2>8. LineInv'
    BY <1>1, <2>2, <2>5, <2>6, MovedIn, TasksDiffer DEF EngineInv, LineInv, Alive, Speaks
  <2>9. \A u \in Turns \ {session} : turn[u] \notin {"new", "thinking", "speaking"}
    BY <1>1, <1>7, NobodyLeftBehind DEF EngineInv, TurnInv
  <2>10. SessionInv'
    <3>1. \A u \in Turns : u > turns => u # session /\ turn[u] = "none"
      BY <1>5, <2>2 DEF EngineInv, SessionInv
    <3>2. QED  BY <1>1, <1>7, <2>1, <2>2, <2>6, <3>1 DEF EngineInv, SessionInv
  <2>11. InLine(Run(session))'
    BY <1>1, <2>5 DEF Moved, InLine
  <2>12. TurnInv'
    BY <1>1, <2>1, <2>6, <2>9, <2>11 DEF TurnInv, Alive
  <2>13. StateInv' /\ JoinInv'
    BY <1>1, <2>1 DEF EngineInv, StateInv, JoinInv
  <2>14. CallInv'
    BY <1>1, <2>6 DEF EngineInv, CallInv, bvars
  <2>15. QED  BY <1>4, <1>6, <2>7, <2>8, <2>10, <2>12, <2>13, <2>14 DEF EngineInv
<1>8. CASE ~(t = session /\ state = "LISTENING")
  <2>1. UNCHANGED <<state, turnTask, turn, ready>>
    BY <1>8 DEF OnFinal
  <2>2. Moved({}, {})
    BY <2>1, GoodLine, LineStays DEF EngineInv
  <2>3. Typed'
    BY <1>1, <2>1 DEF EngineInv, Typed
  <2>4. LineInv'
    BY <1>1, <2>1 DEF EngineInv, LineInv, InLine, Alive, Speaks
  <2>5. SessionInv' /\ TurnInv' /\ StateInv' /\ JoinInv'
    BY <1>1, <1>3, <2>1, <2>2, EngineRests, TasksDiffer
  <2>6. CallInv'
    BY <1>1, <2>1, CallsRest DEF EngineInv
  <2>7. QED  BY <1>4, <1>6, <2>3, <2>4, <2>5, <2>6 DEF EngineInv
<1>9. QED  BY <1>7, <1>8

LEMMA DoneKeeps ==
  ASSUME EngineInv, OnDone, UNCHANGED <<ovars, inputs>>
  PROVE  EngineInv'
<1> USE DEF ovars
<1>1. /\ running = Engine /\ at[Engine] = "no" /\ queue[Engine] # <<>> /\ queue[Engine] \in Seq(Events)
      /\ Rest(Engine) \in [Actors -> Seq(Events)]
      /\ \A b \in Actors \ {Engine} : Rest(Engine)[b] = queue[b]
      /\ Range(Rest(Engine)[Engine]) \subseteq Range(queue[Engine])
      /\ queue' = Rest(Engine)
      /\ UNCHANGED <<running, cancelled, at, state, session, turns, turnTask, turn, bvars>>
  BY Taken, TasksDiffer DEF EngineInv, OnDone
<1>2. LET n == Cardinality(Starts(queue[Engine]))
      IN  n \in Nat /\ Cardinality(Starts(Rest(Engine)[Engine])) = n
  BY TakenCounts DEF EngineInv, OnDone
<1>3. \A a \in Actors : Range(queue'[a]) \subseteq Range(queue[a])
  BY <1>1
<1>4. NamesInv'
  BY <1>1, <1>3 DEF EngineInv, NamesInv
<1>5. CountInv'
  BY <1>1, <1>2 DEF EngineInv, CountInv, Interrupting
<1>6. /\ waiter' \in Ids
      /\ \E come : /\ Moved({}, come)
                   /\ \A x \in come : \E u \in Turns : x = Run(u) /\ Alive(u)
  <2>1. CASE UNCHANGED <<waiter, ready>>
    BY <2>1, GoodLine, LineStays DEF EngineInv, Typed
  <2>2. CASE /\ waiter # 0 /\ waiter' = 0 /\ turn[waiter] = "speaking"
             /\ ready' = ready \o Rushed(Run(waiter))
    <3>1. waiter \in Turns /\ Run(waiter) \in Tasks /\ Alive(waiter)
      BY <2>2, TasksDiffer, Bounds DEF EngineInv, Typed, Ids, Turns, Alive
    <3>2. \/ Rushed(Run(waiter)) = <<>>
          \/ Rushed(Run(waiter)) = <<Run(waiter)>> /\ ~InLine(Run(waiter))
      BY DEF Rushed
    <3>3. Moved({}, Range(Rushed(Run(waiter))))
      BY <2>2, <3>1, <3>2, GoodLine, LineGrows DEF EngineInv
    <3>4. Range(Rushed(Run(waiter))) \subseteq {Run(waiter)}
      BY <3>2, Ranges
    <3>5. QED  BY <2>2, <3>1, <3>3, <3>4, TasksDiffer
  <2>3. CASE waiter' = 0 /\ ready' = ready
    BY <2>3, GoodLine, LineStays, TasksDiffer DEF EngineInv
  <2>4. QED  BY <2>1, <2>2, <2>3 DEF OnDone
<1>7. PICK come : /\ Moved({}, come)
                  /\ \A x \in come : \E u \in Turns : x = Run(u) /\ Alive(u)
  BY <1>6
<1>8. Typed'
  BY <1>1, <1>6, <1>7, MovedIn DEF EngineInv, Typed
<1>9. LineInv'
  BY <1>1, <1>7, MovedIn, TasksDiffer DEF EngineInv, LineInv, Alive, Speaks
<1>10. SessionInv' /\ TurnInv' /\ StateInv' /\ JoinInv'
  BY <1>1, <1>3, <1>7, EngineRests, TasksDiffer
<1>11. CallInv'
  BY <1>1, CallsRest DEF EngineInv
<1>12. QED  BY <1>4, <1>5, <1>8, <1>9, <1>10, <1>11 DEF EngineInv

LEMMA GoesOnKeeps ==
  ASSUME EngineInv, GoesOn, UNCHANGED <<ovars, inputs>>
  PROVE  EngineInv'
<1> USE DEF ovars
<1>1. /\ running = Engine /\ at[Engine] = "joined" /\ at \in [Actors -> Waits]
      /\ at' = [at EXCEPT ![Engine] = "no"] /\ turnTask' = 0 /\ waiter' = 0 /\ ReplaceTurn
      /\ UNCHANGED <<ready, running, cancelled, queue, turn, bvars>>
  BY DEF EngineInv, Typed, GoesOn
<1>2. Moved({}, {}) /\ ~InLine(Engine)
  BY <1>1, GoodLine, LineStays, TasksDiffer DEF EngineInv, LineInv
<1>3. turns + 1 \in Turns /\ turns + 1 \in Ids /\ turns \in Nat /\ inputs \in Nat
  BY <1>1, RoomForTurn, Bounds DEF EngineInv, Interrupting, Typed, Ids
<1>4. turns' = turns + 1 /\ session' = turns + 1 /\ state' = "LISTENING"
  BY <1>1 DEF ReplaceTurn
<1>5. at'[Engine] = "no" /\ at'[Output] = at[Output]
  BY <1>1, TasksDiffer
<1>6. Typed'
  BY <1>1, <1>3, <1>4, TasksDiffer DEF EngineInv, Typed, Waits, TurnStates
<1>7. LineInv'
  BY <1>1, <1>5, TasksDiffer DEF EngineInv, LineInv, InLine, Alive, Speaks
<1>8. \A a \in Actors : \A e \in Range(queue[a]) : e[2] <= turns /\ e[2] \in Nat
  <2>1. \A a \in Actors : \A e \in Range(queue[a]) : e \in Events
    BY DEF EngineInv, Typed, Range
  <2>2. QED  BY <2>1, EventParts, Bounds DEF EngineInv, NamesInv, Ids
<1>9. NamesInv'
  <2>1. coming \in Nat /\ coming <= turns /\ \A t \in Turns : t \in Nat /\ (speak[t] # "none" => t <= turns)
    BY Bounds DEF EngineInv, NamesInv, Typed, Ids, Turns
  <2>2. QED  BY <1>1, <1>3, <1>4, <1>8, <2>1 DEF NamesInv
<1>10. CountInv'
  <2>1. Cardinality(Starts(queue[Engine])) \in Nat
    BY StartsFinite, ActorsTyped, TasksDiffer DEF EngineInv
  <2>2. QED  BY <1>1, <1>3, <1>4, <1>5, <2>1 DEF EngineInv, CountInv, Interrupting
<1>11. \A t \in Turns : turn[t] \notin {"thinking", "speaking"} /\ Run(t) \notin cancelled
  BY <1>1 DEF EngineInv, TurnInv, JoinInv, Alive
<1>12. SessionInv' /\ TurnInv' /\ StateInv' /\ JoinInv'
  BY <1>1, <1>2, <1>3, <1>5, <1>8, <1>11, Replaces, TasksDiffer
<1>13. CallInv'
  BY <1>1, CallsRest DEF EngineInv
<1>14. QED  BY <1>6, <1>7, <1>9, <1>10, <1>12, <1>13 DEF EngineInv

(* What an interruption publishes, whatever it finds.                      *)
LEMMA BargeTells ==
  ASSUME EngineInv, OnBarge, UNCHANGED <<ovars, inputs>>,
         NextEvent(Engine)[2] = session, session # 0
  PROVE  /\ running = Engine /\ at[Engine] = "no" /\ ~InLine(Engine)
         /\ UNCHANGED <<turn, bvars>>
         /\ queue' \in [Actors -> Seq(Events)]
         /\ Range(queue'[Engine]) \subseteq Range(queue[Engine])
         /\ queue'[Output] = Put(queue[Output], <<"cancel", session>>)
         /\ Range(queue'[Output]) \subseteq Range(queue[Output]) \cup {<<"cancel", session>>}
         /\ \A a \in Actors : \A e \in Range(queue'[a]) : e[2] <= turns /\ e[2] \in Nat
         /\ LET n == Cardinality(Starts(queue[Engine]))
            IN  n \in Nat /\ Cardinality(Starts(queue'[Engine])) = n - 1
         /\ \A u \in Turns \ {session} : turn[u] \notin {"new", "thinking", "speaking"}
         /\ [at EXCEPT ![Output] = IF @ = "get" THEN "no" ELSE @] \in [Actors -> Waits]
         /\ \/ Woken(Output) = <<>> /\ at[Output] # "get"
            \/ Woken(Output) = <<Output>> /\ at[Output] = "get" /\ ~InLine(Output)
         /\ turns + 1 \in Turns /\ turns + 1 \in Ids /\ turns \in Nat /\ inputs \in Nat
<1> USE DEF ovars
<1> DEFINE e == <<"cancel", session>>
<1>1. /\ running = Engine /\ at[Engine] = "no" /\ queue[Engine] # <<>> /\ queue[Engine] \in Seq(Events)
      /\ NextEvent(Engine)[1] = "barge" /\ NextEvent(Engine) \in Range(queue[Engine])
      /\ Rest(Engine) \in [Actors -> Seq(Events)]
      /\ Rest(Engine)[Output] = queue[Output]
      /\ Range(Rest(Engine)[Engine]) \subseteq Range(queue[Engine])
      /\ ~InLine(Engine) /\ UNCHANGED <<turn, bvars>>
  BY Taken, TasksDiffer DEF EngineInv, OnBarge
<1>2. session \in Turns /\ session = turns /\ e \in Events /\ e[2] = session
  BY OthersAreQuiet, EventParts, TasksDiffer DEF Kinds
<1>3. queue' = [Rest(Engine) EXCEPT ![Output] = Put(Rest(Engine)[Output], e)]
  BY DEF OnBarge, StopsSpeech
<1> HIDE DEF e
<1>4. Put(queue[Output], e) \in Seq(Events) /\ Range(Put(queue[Output], e)) \subseteq Range(queue[Output]) \cup {e}
  BY <1>2, PutAppends, PutHolds, ActorsTyped, TasksDiffer DEF EngineInv
<1>5. /\ queue' \in [Actors -> Seq(Events)]
      /\ queue'[Engine] = Rest(Engine)[Engine] /\ queue'[Output] = Put(queue[Output], e)
  BY <1>1, <1>3, <1>4, TasksDiffer
<1>6. LET n == Cardinality(Starts(queue[Engine]))
      IN  n \in Nat /\ Cardinality(Starts(queue'[Engine])) = n - 1
  BY <1>5, TakenCounts DEF EngineInv, OnBarge
<1>7. turns + 1 \in Turns /\ turns + 1 \in Ids /\ turns \in Nat /\ inputs \in Nat
  BY <1>1, RoomForTurn, Bounds DEF EngineInv, Typed, Ids
<1>8. \A a \in Actors : \A d \in Range(queue'[a]) : d[2] <= turns /\ d[2] \in Nat
  <2>1. \A a \in Actors : \A d \in Range(queue[a]) : d[2] <= turns /\ d \in Events
    BY DEF EngineInv, NamesInv, Typed, Range
  <2>2. \A a \in Actors : \A d \in Range(queue'[a]) : d = e \/ \E b \in Actors : d \in Range(queue[b])
    BY <1>1, <1>4, <1>5, TasksDiffer
  <2>3. e[2] <= turns
    BY <1>2, <1>7
  <2>4. QED  BY <1>2, <2>1, <2>2, <2>3, EventParts, Bounds DEF Ids
<1>9. \A u \in Turns \ {session} : turn[u] \notin {"new", "thinking", "speaking"}
  BY <1>1, NobodyLeftBehind DEF EngineInv, TurnInv
<1>10. /\ [at EXCEPT ![Output] = IF @ = "get" THEN "no" ELSE @] \in [Actors -> Waits]
       /\ \/ Woken(Output) = <<>> /\ at[Output] # "get"
          \/ Woken(Output) = <<Output>> /\ at[Output] = "get" /\ ~InLine(Output)
  BY TasksDiffer DEF EngineInv, Typed, LineInv, Waits, Woken
<1>11. QED  BY <1>1, <1>4, <1>5, <1>6, <1>7, <1>8, <1>9, <1>10 DEF e

LEMMA BargeKeeps ==
  ASSUME EngineInv, OnBarge, UNCHANGED <<ovars, inputs>>
  PROVE  EngineInv'
<1> USE DEF ovars
<1>1. CASE session # 0 /\ NextEvent(Engine)[2] = session
  <2> DEFINE woken == [at EXCEPT ![Output] = IF @ = "get" THEN "no" ELSE @]
  <2>1. /\ running = Engine /\ at[Engine] = "no" /\ ~InLine(Engine)
        /\ UNCHANGED <<turn, bvars>>
        /\ queue' \in [Actors -> Seq(Events)]
        /\ Range(queue'[Engine]) \subseteq Range(queue[Engine])
        /\ \A a \in Actors : \A e \in Range(queue'[a]) : e[2] <= turns /\ e[2] \in Nat
        /\ \A u \in Turns \ {session} : turn[u] \notin {"new", "thinking", "speaking"}
        /\ turns + 1 \in Turns /\ turns + 1 \in Ids /\ turns \in Nat /\ inputs \in Nat
    BY <1>1, BargeTells
  <2>2. LET n == Cardinality(Starts(queue[Engine]))
        IN  n \in Nat /\ Cardinality(Starts(queue'[Engine])) = n - 1
    BY <1>1, BargeTells
  <2>3. /\ woken \in [Actors -> Waits] /\ woken[Engine] = "no"
        /\ woken[Output] = IF at[Output] = "get" THEN "no" ELSE at[Output]
        /\ \/ Woken(Output) = <<>> /\ at[Output] # "get"
           \/ Woken(Output) = <<Output>> /\ at[Output] = "get" /\ ~InLine(Output)
    BY <1>1, <2>1, BargeTells, TasksDiffer DEF EngineInv, Typed
  <2>4. session \in Turns /\ session = turns
    BY <1>1, OthersAreQuiet
  <2>5. CallInv'
    BY <2>1, CallsRest DEF EngineInv
  <2>6. \A t \in Turns : t \in Nat /\ (speak[t] # "none" => t <= turns) /\ coming \in Nat /\ coming <= turns
    BY Bounds DEF EngineInv, NamesInv, Typed, Ids, Turns
  <2>7. \A t \in Turns : Run(t) \notin cancelled
    BY <2>1 DEF EngineInv, JoinInv
  <2>8. CASE turnTask # 0 /\ Alive(turnTask)
    <3>1. /\ cancelled' = cancelled \cup {Run(turnTask)}
          /\ ready' = ready \o Woken(Output) \o Rushed(Run(turnTask))
          /\ at' = [woken EXCEPT ![Engine] = "join"] /\ running' = Nobody
          /\ UNCHANGED <<state, session, turns, turnTask, waiter>>
      BY <1>1, <2>8 DEF OnBarge, StopsSpeech
    <3> HIDE DEF woken
    <3>2. turnTask = session
      BY <2>1, <2>8, Bounds DEF EngineInv, Typed, Ids, Turns, Alive
    <3>3. /\ Run(session) \in Tasks /\ Output # Run(session)
          /\ \/ Rushed(Run(session)) = <<>> /\ InLine(Run(session))
             \/ Rushed(Run(session)) = <<Run(session)>> /\ ~InLine(Run(session))
      BY <2>4, TasksDiffer DEF Rushed
    <3>4. Moved({}, Range(Woken(Output)) \cup Range(Rushed(Run(session))))
      BY <2>3, <3>1, <3>2, <3>3, GoodLine, LineGrowsTwice, TasksDiffer DEF EngineInv
    <3>5. PICK come : /\ Moved({}, come) /\ Engine \notin come
                      /\ Output \in come => woken[Output] = "no"
                      /\ \A x \in come : x = Output \/ x = Run(session)
      <4>1. Range(Woken(Output)) = {} \/ (Range(Woken(Output)) = {Output} /\ woken[Output] = "no")
        BY <2>3, Ranges
      <4>2. Range(Rushed(Run(session))) \subseteq {Run(session)}
        BY <3>3, Ranges
      <4>3. Engine # Output /\ Engine # Run(session)
        BY <2>4, TasksDiffer
      <4>4. QED  BY <3>3, <3>4, <4>1, <4>2, <4>3
    <3>6. at'[Engine] = "join" /\ at'[Output] = woken[Output] /\ at' \in [Actors -> Waits]
      BY <2>3, <3>1, TasksDiffer DEF Waits
    <3>7. Typed'
      BY <2>1, <3>1, <3>2, <3>3, <3>5, <3>6, MovedIn, TasksDiffer DEF EngineInv, Typed
    <3>8. LineInv'
      <4>1. \A x : InLine(x)' <=> InLine(x) \/ x \in come
        BY <3>5, MovedIn
      <4>2. Distinct(ready)' /\ running' \notin Actors
        BY <3>1, <3>5, MovedIn, TasksDiffer
      <4>3. ~InLine(Engine)' /\ (at'[Output] \in {"get", "join"} => ~InLine(Output)')
        BY <2>1, <2>3, <3>5, <3>6, <4>1, TasksDiffer DEF EngineInv, LineInv
      <4>4. \A t \in Turns : InLine(Run(t))' => Alive(t)
        BY <2>4, <2>8, <3>2, <3>5, <4>1, TasksDiffer DEF EngineInv, LineInv
      <4>5. \A t \in Turns : InLine(Speak(t))' => Speaks(t)
        BY <2>4, <3>5, <4>1, TasksDiffer DEF EngineInv, LineInv
      <4>6. \A t \in Turns : (Alive(t)' <=> Alive(t)) /\ (Speaks(t)' <=> Speaks(t))
        BY <2>1 DEF Alive, Speaks
      <4>7. \A a \in Actors : at'[a] \in {"get", "join"} \/ running' = a => ~InLine(a)'
        BY <4>2, <4>3, TasksDiffer
      <4>8. QED  BY <4>2, <4>4, <4>5, <4>6, <4>7 DEF LineInv
    <3>9. NamesInv'
      BY <2>1, <2>6, <3>1 DEF NamesInv
    <3>10. CountInv'
      BY <2>1, <2>2, <3>1, <3>6 DEF EngineInv, CountInv, Interrupting
    <3>11. SessionInv'
      BY <2>1, <3>1 DEF EngineInv, SessionInv
    <3>12. StateInv'
      BY <3>6 DEF StateInv, Interrupting
    <3>13. JoinInv'
      BY <1>1, <2>4, <2>7, <3>1, <3>2, <3>6, TasksDiffer DEF JoinInv
    <3>14. TurnInv'
      <4>1. turn[session] = "new" => InLine(Run(session))' /\ state = "COMMITTING"
        <5>1. turn[session] = "new" => InLine(Run(session)) /\ (LeftBehind(session) \/ state = "COMMITTING")
          BY <2>4 DEF EngineInv, TurnInv
        <5>2. LeftBehind(session) => state = "LISTENING" /\ turn[session] = "none"
          BY DEF EngineInv, SessionInv, LeftBehind
        <5>3. InLine(Run(session)) => InLine(Run(session))'
          BY <3>1, <3>5 DEF Moved, InLine
        <5>4. QED  BY <5>1, <5>2, <5>3
      <4>2. QED  BY <2>1, <2>4, <3>1, <4>1 DEF EngineInv, TurnInv, Alive
    <3>15. QED  BY <2>5, <3>7, <3>8, <3>9, <3>10, <3>11, <3>12, <3>13, <3>14 DEF EngineInv
  <2>9. CASE ~(turnTask # 0 /\ Alive(turnTask))
    <3>1. /\ ready' = ready \o Woken(Output) /\ at' = woken
          /\ turnTask' = 0 /\ waiter' = 0 /\ ReplaceTurn
          /\ UNCHANGED <<running, cancelled>>
      BY <1>1, <2>9 DEF OnBarge, StopsSpeech
    <3> HIDE DEF woken
    <3>2. Moved({}, Range(Woken(Output)))
      BY <2>3, <3>1, GoodLine, LineGrows, TasksDiffer DEF EngineInv
    <3>3. PICK come : /\ Moved({}, come) /\ Engine \notin come
                      /\ Output \in come => woken[Output] = "no"
                      /\ \A x \in come : x = Output
      BY <2>3, <3>2, Ranges, TasksDiffer
    <3>4. turns' = turns + 1 /\ session' = turns + 1 /\ state' = "LISTENING"
      BY <3>1 DEF ReplaceTurn
    <3>5. Typed'
      BY <2>1, <2>3, <3>1, <3>3, <3>4, MovedIn, TasksDiffer DEF EngineInv, Typed, TurnStates
    <3>6. LineInv'
      BY <2>1, <2>3, <3>1, <3>3, MovedIn, TasksDiffer DEF EngineInv, LineInv, Alive, Speaks
    <3>7. NamesInv'
      BY <2>1, <2>6, <3>4 DEF NamesInv
    <3>8. CountInv'
      BY <2>1, <2>2, <2>3, <3>1, <3>4 DEF EngineInv, CountInv, Interrupting
    <3>9. \A t \in Turns : turn[t] \notin {"thinking", "speaking"}
      BY <1>1, <2>1, <2>4, <2>9 DEF EngineInv, TurnInv, Alive
    <3>10. SessionInv' /\ TurnInv' /\ StateInv' /\ JoinInv'
      BY <2>1, <2>3, <2>7, <3>1, <3>3, <3>9, Replaces, TasksDiffer
    <3>11. QED  BY <2>5, <3>5, <3>6, <3>7, <3>8, <3>10 DEF EngineInv
  <2>10. QED  BY <2>8, <2>9
<1>2. CASE ~(session # 0 /\ NextEvent(Engine)[2] = session)
  <2>1. /\ running = Engine /\ at[Engine] = "no" /\ queue[Engine] # <<>> /\ queue[Engine] \in Seq(Events)
        /\ Rest(Engine) \in [Actors -> Seq(Events)]
        /\ \A b \in Actors \ {Engine} : Rest(Engine)[b] = queue[b]
        /\ Range(Rest(Engine)[Engine]) \subseteq Range(queue[Engine])
    BY Taken, TasksDiffer DEF EngineInv, OnBarge
  <2>2. /\ queue' = Rest(Engine)
        /\ UNCHANGED <<ready, running, cancelled, at, state, session, turns, turnTask, waiter, turn, bvars>>
    BY <1>2 DEF OnBarge
  <2>3. LET n == Cardinality(Starts(queue[Engine]))
        IN  n \in Nat /\ Cardinality(Starts(Rest(Engine)[Engine])) = n - 1
    BY TakenCounts DEF EngineInv, OnBarge
  <2>4. \A a \in Actors : Range(queue'[a]) \subseteq Range(queue[a])
    BY <2>1, <2>2
  <2>5. NamesInv'
    BY <2>2, <2>4 DEF EngineInv, NamesInv
  <2>6. CountInv'
    BY <2>1, <2>2, <2>3, Bounds DEF EngineInv, CountInv, Interrupting, Typed, Ids
  <2>7. Moved({}, {})
    BY <2>2, GoodLine, LineStays DEF EngineInv
  <2>8. Typed'
    BY <2>1, <2>2 DEF EngineInv, Typed
  <2>9. LineInv'
    BY <2>2 DEF EngineInv, LineInv, InLine, Alive, Speaks
  <2>10. SessionInv' /\ TurnInv' /\ StateInv' /\ JoinInv'
    BY <2>1, <2>2, <2>4, <2>7, EngineRests, TasksDiffer
  <2>11. CallInv'
    BY <2>2, CallsRest DEF EngineInv
  <2>12. QED  BY <2>5, <2>6, <2>8, <2>9, <2>10, <2>11 DEF EngineInv
<1>3. QED  BY <1>1, <1>2

-----------------------------------------------------------------------------
(* Then the output, which starts a task only for a turn that had none.     *)
LEMMA CancelSpeakKeeps ==
  ASSUME EngineInv, running = Output, at[Output] = "no", CancelSpeak,
         speakTask \in Turns, Speaks(speakTask),
         queue' \in [Actors -> Seq(Events)], queue'[Engine] = queue[Engine],
         Range(queue'[Output]) \subseteq Range(queue[Output]),
         coming' \in Ids, coming' <= turns, UNCHANGED <<evars, bvars, inputs>>
  PROVE  EngineInv'
<1> USE DEF evars
<1>1. /\ cancelled' = cancelled \cup {Speak(speakTask)}
      /\ ready' = ready \o Rushed(Speak(speakTask))
      /\ at' = [at EXCEPT ![Output] = "join"] /\ running' = Nobody
      /\ UNCHANGED <<active, speakTask, speak>>
  BY DEF CancelSpeak
<1>2. /\ Speak(speakTask) \in Tasks
      /\ \/ Rushed(Speak(speakTask)) = <<>>
         \/ Rushed(Speak(speakTask)) = <<Speak(speakTask)>> /\ ~InLine(Speak(speakTask))
  BY TasksDiffer DEF Rushed
<1>3. Moved({}, Range(Rushed(Speak(speakTask))))
  BY <1>1, <1>2, GoodLine, LineGrows DEF EngineInv
<1>4. Range(Rushed(Speak(speakTask))) \subseteq {Speak(speakTask)}
  BY <1>2, Ranges
<1>5. PICK come : Moved({}, come) /\ come \subseteq {Speak(speakTask)}
  BY <1>3, <1>4
<1>6. at' \in [Actors -> Waits] /\ at'[Engine] = at[Engine] /\ at'[Output] = "join"
  BY <1>1, TasksDiffer DEF EngineInv, Typed, Waits
<1>7. Typed'
  BY <1>1, <1>2, <1>5, <1>6, MovedIn DEF EngineInv, Typed
<1>8. LineInv'
  <2>1. \A x : InLine(x)' <=> InLine(x) \/ x \in come
    BY <1>5, MovedIn
  <2>2. Distinct(ready)' /\ running' \notin Actors
    BY <1>1, <1>5, MovedIn, TasksDiffer
  <2>3. \A a \in Actors : at'[a] \in {"get", "join"} => ~InLine(a)'
    BY <1>5, <1>6, <2>1, TasksDiffer DEF EngineInv, LineInv
  <2>4. \A t \in Turns : InLine(Run(t))' => Alive(t)
    BY <1>5, <2>1, TasksDiffer DEF EngineInv, LineInv
  <2>5. \A t \in Turns : InLine(Speak(t))' => Speaks(t)
    BY <1>5, <2>1, TasksDiffer DEF EngineInv, LineInv
  <2>6. \A t \in Turns : (Alive(t)' <=> Alive(t)) /\ (Speaks(t)' <=> Speaks(t))
    BY <1>1 DEF Alive, Speaks
  <2>7. QED  BY <2>2, <2>3, <2>4, <2>5, <2>6, TasksDiffer DEF LineInv
<1>9. NamesInv'
  BY <1>1, TasksDiffer DEF EngineInv, NamesInv
<1>10. CountInv'
  BY <1>6 DEF EngineInv, CountInv, Interrupting
<1>11. SessionInv' /\ TurnInv' /\ StateInv' /\ JoinInv'
  <2>1. running' # Engine /\ \A t \in Turns : Run(t) \in cancelled' <=> Run(t) \in cancelled
    BY <1>1, TasksDiffer
  <2>2. QED  BY <1>5, <1>6, <2>1, EngineRests
<1>12. CallInv'
  BY CallsRest DEF EngineInv
<1>13. QED  BY <1>7, <1>8, <1>9, <1>10, <1>11, <1>12 DEF EngineInv

LEMMA StartSpeakKeeps ==
  ASSUME EngineInv, running = Output, NEW t \in Turns, t <= turns, speak[t] = "none", StartSpeak(t),
         at' \in [Actors -> Waits], at'[Engine] = at[Engine], at'[Output] = "no",
         queue' \in [Actors -> Seq(Events)], queue'[Engine] = queue[Engine],
         Range(queue'[Output]) \subseteq Range(queue[Output]),
         coming' \in Ids, coming' <= turns, UNCHANGED <<running, cancelled, evars, bvars, inputs>>
  PROVE  EngineInv'
<1> USE DEF evars
<1>1. /\ active' = t /\ speakTask' = t
      /\ speak' = [speak EXCEPT ![t] = "new"]
      /\ ready' = Append(ready, Speak(t))
  BY DEF StartSpeak
<1>2. Speak(t) \in Tasks /\ ~InLine(Speak(t)) /\ ~InLine(Output)
  BY TasksDiffer DEF EngineInv, LineInv, Speaks
<1>3. ready' = ready \o <<Speak(t)>> /\ Range(<<Speak(t)>>) = {Speak(t)}
  BY <1>1, AppendIsConcat, Ranges DEF EngineInv, Typed
<1>4. Moved({}, {Speak(t)})
  BY <1>2, <1>3, GoodLine, LineGrows DEF EngineInv
<1>5. /\ speak' \in [Turns -> {"none", "new", "talking", "said", "unsaid"}]
      /\ speak'[t] = "new" /\ \A u \in Turns \ {t} : speak'[u] = speak[u]
  BY <1>1 DEF EngineInv, Typed
<1>6. Typed'
  BY <1>1, <1>4, <1>5, MovedIn, TasksDiffer DEF EngineInv, Typed
<1>7. LineInv'
  <2>1. \A x : InLine(x)' <=> InLine(x) \/ x = Speak(t)
    BY <1>4, MovedIn
  <2>2. Distinct(ready)' /\ running' = Output
    BY <1>4, MovedIn
  <2>3. \A a \in Actors : at'[a] \in {"get", "join"} \/ running' = a => ~InLine(a)'
    BY <2>1, <2>2, TasksDiffer DEF EngineInv, LineInv
  <2>4. \A u \in Turns : InLine(Run(u))' => Alive(u)'
    BY <2>1, TasksDiffer DEF EngineInv, LineInv, Alive
  <2>5. \A u \in Turns : InLine(Speak(u))' => Speaks(u)'
    BY <1>5, <2>1, TasksDiffer DEF EngineInv, LineInv, Speaks
  <2>6. QED  BY <2>2, <2>3, <2>4, <2>5 DEF LineInv
<1>8. NamesInv'
  BY <1>5, TasksDiffer DEF EngineInv, NamesInv
<1>9. CountInv'
  BY DEF EngineInv, CountInv, Interrupting
<1>10. SessionInv' /\ TurnInv' /\ StateInv' /\ JoinInv'
  BY <1>4, TasksDiffer, EngineRests
<1>11. CallInv'
  BY CallsRest DEF EngineInv
<1>12. QED  BY <1>6, <1>7, <1>8, <1>9, <1>10, <1>11 DEF EngineInv

LEMMA ReplyKeeps ==
  ASSUME EngineInv, OutputInv, OnReply, UNCHANGED <<evars, bvars, inputs>>
  PROVE  EngineInv'
<1> DEFINE t == NextEvent(Output)[2]
<1>1. /\ running = Output /\ at[Output] = "no" /\ queue[Output] # <<>>
      /\ NextEvent(Output) \in Range(queue[Output]) /\ NextEvent(Output) = <<"reply", t>> /\ t \in Ids
      /\ Rest(Output) \in [Actors -> Seq(Events)] /\ Rest(Output)[Engine] = queue[Engine]
      /\ Range(Rest(Output)[Output]) \subseteq Range(queue[Output])
      /\ queue' = Rest(Output)
  BY Taken, TasksDiffer DEF EngineInv, OnReply
<1>2. t # 0 /\ t \in Turns /\ t <= turns /\ speak[t] = "none"
  <2>1. t # 0 /\ t <= turns
    BY <1>1, TasksDiffer DEF EngineInv, NamesInv, OutputInv, OrderInv
  <2>2. t \in Turns
    BY <1>1, <2>1, Bounds DEF Ids, Turns
  <2>3. QED  BY <1>1, <2>1, <2>2 DEF OutputInv, OrderInv, Waiting
<1>3. speakTask \in Ids /\ turns \in Ids /\ coming \in Ids /\ coming <= turns
  BY DEF EngineInv, Typed, NamesInv
<1>4. CASE speakTask # 0 /\ Speaks(speakTask)
  <2>1. CancelSpeak /\ coming' = t
    BY <1>4 DEF OnReply
  <2>2. speakTask \in Turns
    BY <1>3, <1>4, Bounds DEF Ids, Turns
  <2>3. QED  BY <1>1, <1>2, <1>4, <2>1, <2>2, CancelSpeakKeeps
<1>5. CASE ~(speakTask # 0 /\ Speaks(speakTask))
  <2>1. StartSpeak(t) /\ UNCHANGED <<running, cancelled, at, coming>>
    BY <1>5 DEF OnReply
  <2>2. at \in [Actors -> Waits]
    BY DEF EngineInv, Typed
  <2>3. QED  BY <1>1, <1>2, <1>3, <2>1, <2>2, StartSpeakKeeps
<1>6. QED  BY <1>4, <1>5

LEMMA CancelKeeps ==
  ASSUME EngineInv, OnCancel, UNCHANGED <<evars, bvars, inputs>>
  PROVE  EngineInv'
<1>1. /\ running = Output /\ at[Output] = "no"
      /\ Rest(Output) \in [Actors -> Seq(Events)] /\ Rest(Output)[Engine] = queue[Engine]
      /\ Range(Rest(Output)[Output]) \subseteq Range(queue[Output])
      /\ queue' = Rest(Output)
  BY Taken, TasksDiffer DEF EngineInv, OnCancel
<1>2. speakTask \in Ids /\ turns \in Ids /\ coming \in Ids /\ coming <= turns
  BY DEF EngineInv, Typed, NamesInv
<1>3. CASE NextEvent(Output)[2] = active /\ speakTask # 0 /\ Speaks(speakTask)
  <2>1. CancelSpeak /\ UNCHANGED coming
    BY <1>3 DEF OnCancel
  <2>2. speakTask \in Turns
    BY <1>2, <1>3, Bounds DEF Ids, Turns
  <2>3. QED  BY <1>1, <1>2, <1>3, <2>1, <2>2, CancelSpeakKeeps
<1>4. CASE ~(NextEvent(Output)[2] = active /\ speakTask # 0 /\ Speaks(speakTask))
  <2>1. UNCHANGED <<ready, running, cancelled, at, ovars>>
    BY <1>4 DEF OnCancel
  <2> USE DEF evars, ovars
  <2>2. Moved({}, {})
    BY <2>1, GoodLine, LineStays DEF EngineInv
  <2>3. Typed'
    BY <1>1, <2>1 DEF EngineInv, Typed
  <2>4. LineInv'
    BY <2>1 DEF EngineInv, LineInv, InLine, Alive, Speaks
  <2>5. NamesInv' /\ CountInv'
    BY <1>1, <2>1, TasksDiffer DEF EngineInv, NamesInv, CountInv, Interrupting
  <2>6. SessionInv' /\ TurnInv' /\ StateInv' /\ JoinInv'
    BY <1>1, <2>1, <2>2, EngineRests, TasksDiffer
  <2>7. CallInv'
    BY CallsRest DEF EngineInv
  <2>8. QED  BY <2>3, <2>4, <2>5, <2>6, <2>7 DEF EngineInv
<1>5. QED  BY <1>3, <1>4

LEMMA SpeaksNextKeeps ==
  ASSUME EngineInv, OutputInv, SpeaksNext, UNCHANGED <<evars, bvars, inputs>>
  PROVE  EngineInv'
<1>1. /\ running = Output /\ at[Output] = "joined" /\ at' = [at EXCEPT ![Output] = "no"]
      /\ at \in [Actors -> Waits] /\ coming \in Ids /\ coming <= turns /\ turns \in Nat
      /\ queue \in [Actors -> Seq(Events)]
      /\ UNCHANGED <<running, cancelled, queue>> /\ coming' = 0
  BY Bounds DEF SpeaksNext, EngineInv, Typed, NamesInv, Ids
<1>2. at' \in [Actors -> Waits] /\ at'[Engine] = at[Engine] /\ at'[Output] = "no"
  BY <1>1, TasksDiffer DEF Waits
<1>3. 0 \in Ids /\ 0 <= turns
  BY <1>1, TasksDiffer
<1>4. CASE coming # 0
  <2>1. StartSpeak(coming)
    BY <1>4 DEF SpeaksNext
  <2>2. coming \in Turns
    BY <1>1, <1>4, Bounds DEF Ids, Turns
  <2>3. speak[coming] = "none"
    BY <2>2 DEF OutputInv, OrderInv, Waiting
  <2>4. QED  BY <1>1, <1>2, <1>3, <2>1, <2>2, <2>3, StartSpeakKeeps
<1>5. CASE coming = 0
  <2>1. UNCHANGED <<ready, active, speakTask, speak>>
    BY <1>5 DEF SpeaksNext
  <2> USE DEF evars, ovars
  <2>2. Moved({}, {})
    BY <2>1, GoodLine, LineStays DEF EngineInv
  <2>3. Typed'
    BY <1>1, <1>2, <1>3, <2>1 DEF EngineInv, Typed
  <2>4. LineInv'
    BY <1>1, <1>2, <2>1, TasksDiffer DEF EngineInv, LineInv, InLine, Alive, Speaks
  <2>5. NamesInv' /\ CountInv'
    BY <1>1, <1>2, <1>3, <2>1, TasksDiffer DEF EngineInv, NamesInv, CountInv, Interrupting
  <2>6. SessionInv' /\ TurnInv' /\ StateInv' /\ JoinInv'
    BY <1>1, <1>2, <2>1, <2>2, EngineRests, TasksDiffer
  <2>7. CallInv'
    BY CallsRest DEF EngineInv
  <2>8. QED  BY <2>3, <2>4, <2>5, <2>6, <2>7 DEF EngineInv
<1>6. QED  BY <1>4, <1>5

-----------------------------------------------------------------------------
(* Then the tasks that speak.                                              *)
LEMMA SpeakSliceIs ==
  ASSUME EngineInv, NEW t \in Turns, Slice(Speak(t))
  PROVE  /\ running = Nobody /\ ready # <<>> /\ Head(ready) = Speak(t)
         /\ InLine(Speak(t)) /\ Speaks(t) /\ t <= turns
         /\ Line(ready) /\ Speak(t) \in Tasks /\ Speak(t) \notin Actors
         /\ \A u \in Turns : Run(u) \notin {Speak(t)}
<1>1. running = Nobody /\ ready # <<>> /\ Head(ready) = Speak(t) /\ Line(ready)
  BY GoodLine DEF EngineInv, Slice
<1>2. InLine(Speak(t))
  BY <1>1, Leaves DEF InLine
<1>3. QED  BY <1>1, <1>2, TasksDiffer DEF EngineInv, LineInv, NamesInv, Speaks

LEMMA SpeakWaitsKeeps ==
  ASSUME EngineInv, NEW t \in Turns, SpeakWaits(t), UNCHANGED <<evars, bvars, inputs>>
  PROVE  EngineInv'
<1> USE DEF evars
<1>1. /\ speak' = [speak EXCEPT ![t] = "talking"] /\ ready' = Tail(ready)
      /\ UNCHANGED <<running, cancelled, queue, at, active, speakTask, coming>>
      /\ Slice(Speak(t))
  BY DEF SpeakWaits, SpeakSlice
<1>2. /\ running = Nobody /\ ready # <<>> /\ Head(ready) = Speak(t)
      /\ InLine(Speak(t)) /\ Speaks(t) /\ t <= turns
      /\ Line(ready) /\ Speak(t) \in Tasks /\ Speak(t) \notin Actors
      /\ \A u \in Turns : Run(u) \notin {Speak(t)}
  BY <1>1, SpeakSliceIs
<1>3. Moved({Speak(t)}, {})
  BY <1>1, <1>2, LineShrinks
<1>4. speak \in [Turns -> {"none", "new", "talking", "said", "unsaid"}]
  BY DEF EngineInv, Typed
<1>5. Typed'
  BY <1>1, <1>3, <1>4, MovedIn DEF EngineInv, Typed
<1>6. \A u \in Turns : (Speaks(u)' <=> Speaks(u)) /\ (Alive(u)' <=> Alive(u))
  BY <1>1, <1>2, <1>4 DEF Speaks, Alive
<1>7. LineInv'
  BY <1>1, <1>3, <1>6, MovedIn DEF EngineInv, LineInv
<1>8. NamesInv'
  BY <1>1, <1>2, <1>4 DEF EngineInv, NamesInv
<1>9. CountInv'
  BY <1>1 DEF EngineInv, CountInv, Interrupting
<1>10. SessionInv' /\ TurnInv' /\ StateInv' /\ JoinInv'
  BY <1>1, <1>2, <1>3, EngineRests, TasksDiffer
<1>11. CallInv'
  BY CallsRest DEF EngineInv
<1>12. QED  BY <1>5, <1>7, <1>8, <1>9, <1>10, <1>11 DEF EngineInv

LEMMA SpeakEndsKeeps ==
  ASSUME EngineInv, NEW t \in Turns, SpeakEnds(t), UNCHANGED <<evars, bvars, inputs>>
  PROVE  EngineInv'
<1> USE DEF evars
<1> DEFINE e == <<"done", t>>
<1>1. /\ speak' = [speak EXCEPT ![t] = "said"] /\ ready' = Tail(ready) \o Woken(Engine)
      /\ active' = (IF active = t THEN 0 ELSE active)
      /\ Publish(Engine, e)
      /\ UNCHANGED <<running, cancelled, speakTask, coming>>
      /\ Slice(Speak(t))
  BY DEF SpeakEnds, SpeakSlice
<1>2. /\ running = Nobody /\ ready # <<>> /\ Head(ready) = Speak(t)
      /\ InLine(Speak(t)) /\ Speaks(t) /\ t <= turns
      /\ Line(ready) /\ Speak(t) \in Tasks /\ Speak(t) \notin Actors
      /\ \A u \in Turns : Run(u) \notin {Speak(t)}
  BY <1>1, SpeakSliceIs
<1>3. e \in Events /\ e[1] = "done" /\ e[2] = t
  BY TasksDiffer, EventParts DEF Kinds
<1> HIDE DEF e
<1>4. /\ queue' \in [Actors -> Seq(Events)] /\ at' \in [Actors -> Waits]
      /\ queue'[Engine] = Put(queue[Engine], e) /\ \A b \in Actors \ {Engine} : queue'[b] = queue[b]
      /\ Range(queue'[Engine]) \subseteq Range(queue[Engine]) \cup {e}
      /\ \A b \in Actors : \/ at'[b] = at[b]
                           \/ b = Engine /\ at[Engine] = "get" /\ at'[Engine] = "no"
      /\ \/ Woken(Engine) = <<>> /\ at[Engine] # "get" /\ at' = at
         \/ Woken(Engine) = <<Engine>> /\ at[Engine] = "get" /\ at'[Engine] = "no" /\ ~InLine(Engine)
  BY <1>1, <1>2, <1>3, Published, TasksDiffer DEF EngineInv
<1>5. Moved({Speak(t)}, Range(Woken(Engine)))
  BY <1>1, <1>2, <1>4, LineTurns, TasksDiffer
<1>6. PICK come : /\ Moved({Speak(t)}, come)
                  /\ come = {} \/ (come = {Engine} /\ at'[Engine] = "no")
  BY <1>4, <1>5, Ranges
<1>7. speak \in [Turns -> {"none", "new", "talking", "said", "unsaid"}]
  BY DEF EngineInv, Typed
<1>8. Typed'
  <2>1. ready' \in Seq(Tasks)
    BY <1>6, MovedIn
  <2>2. active' \in Ids
    BY <1>1, TasksDiffer DEF EngineInv, Typed
  <2>3. QED  BY <1>1, <1>4, <1>7, <2>1, <2>2 DEF EngineInv, Typed
<1>9. LineInv'
  <2>1. \A x : InLine(x)' <=> (InLine(x) /\ x # Speak(t)) \/ x \in come
    BY <1>6, MovedIn
  <2>2. Distinct(ready)' /\ running' \notin Actors
    BY <1>1, <1>2, <1>6, MovedIn, TasksDiffer
  <2>3. \A a \in Actors : at'[a] \in {"get", "join"} => ~InLine(a)'
    BY <1>4, <1>6, <2>1, TasksDiffer DEF EngineInv, LineInv
  <2>4. \A u \in Turns : InLine(Run(u))' => Alive(u)'
    BY <1>6, <2>1, TasksDiffer DEF EngineInv, LineInv, Alive
  <2>5. \A u \in Turns : InLine(Speak(u))' => Speaks(u)'
    BY <1>1, <1>6, <1>7, <2>1, TasksDiffer DEF EngineInv, LineInv, Speaks
  <2>6. QED  BY <2>2, <2>3, <2>4, <2>5 DEF LineInv
<1>10. NamesInv'
  BY <1>1, <1>2, <1>3, <1>4, <1>7, TasksDiffer DEF EngineInv, NamesInv
<1>11. at'[Engine] \in {"join", "joined"} <=> at[Engine] \in {"join", "joined"}
  BY <1>4, TasksDiffer
<1>12. CountInv'
  <2>1. queue[Engine] \in Seq(Events) /\ queue'[Engine] \in Seq(Events)
    BY <1>4, TasksDiffer DEF EngineInv, Typed
  <2>2. Cardinality(Starts(queue'[Engine])) <= Cardinality(Starts(queue[Engine]))
    BY <1>3, <1>4, <2>1, StartsPut
  <2>3. /\ Cardinality(Starts(queue'[Engine])) \in Nat /\ Cardinality(Starts(queue[Engine])) \in Nat
        /\ turns \in Nat /\ inputs \in Nat
    BY <2>1, StartsFinite, Bounds DEF EngineInv, Typed, Ids
  <2>4. QED  BY <1>1, <1>11, <2>2, <2>3 DEF EngineInv, CountInv, Interrupting
<1>13. SessionInv' /\ TurnInv' /\ StateInv' /\ JoinInv'
  <2>1. /\ at'[Engine] = "join" <=> at[Engine] = "join"
        /\ at'[Engine] = "joined" <=> at[Engine] = "joined"
        /\ running' # Engine
    BY <1>1, <1>2, <1>4, TasksDiffer
  <2>2. QED  BY <1>1, <1>2, <1>6, <2>1, EngineRests
<1>14. CallInv'
  BY CallsRest DEF EngineInv
<1>15. QED  BY <1>8, <1>9, <1>10, <1>12, <1>13, <1>14 DEF EngineInv

(* A task that ends puts whoever waits for it in line.                     *)
LEMMA Joins ==
  ASSUME Typed, LineInv, NEW a \in Actors, NEW awaited,
         at' = Joined(a, awaited)
  PROVE  /\ at' \in [Actors -> Waits] /\ \A b \in Actors \ {a} : at'[b] = at[b]
         /\ \/ /\ at[a] = "join" /\ awaited /\ at'[a] = "joined"
               /\ Joiner(a, awaited) = <<a>> /\ ~InLine(a)
            \/ ~(at[a] = "join" /\ awaited) /\ at' = at /\ Joiner(a, awaited) = <<>>
<1>1. at \in [Actors -> Waits]
  BY DEF Typed
<1>2. CASE at[a] = "join" /\ awaited
  BY <1>1, <1>2 DEF Joined, Joiner, Waits, LineInv
<1>3. CASE ~(at[a] = "join" /\ awaited)
  BY <1>1, <1>3 DEF Joined, Joiner
<1>4. QED  BY <1>2, <1>3

LEMMA SpeakCancelledKeeps ==
  ASSUME EngineInv, NEW t \in Turns, SpeakCancelled(t), UNCHANGED <<evars, bvars, inputs>>
  PROVE  EngineInv'
<1> USE DEF evars
<1>1. /\ Slice(Speak(t)) /\ cancelled' = cancelled \ {Speak(t)}
      /\ \E s \in {"said", "unsaid"} : speak' = [speak EXCEPT ![t] = s]
      /\ active' \in {0, active}
      /\ at' = Joined(Output, speakTask = t)
      /\ ready' = Tail(ready) \o Joiner(Output, speakTask = t)
      /\ UNCHANGED <<running, queue, speakTask, coming>>
  BY DEF SpeakCancelled
<1>2. /\ running = Nobody /\ ready # <<>> /\ Head(ready) = Speak(t)
      /\ InLine(Speak(t)) /\ Speaks(t) /\ t <= turns
      /\ Line(ready) /\ Speak(t) \in Tasks /\ Speak(t) \notin Actors
      /\ \A u \in Turns : Run(u) \notin {Speak(t)}
  BY <1>1, SpeakSliceIs
<1>3. /\ at' \in [Actors -> Waits] /\ at'[Engine] = at[Engine]
      /\ \/ at'[Output] = "joined" /\ Joiner(Output, speakTask = t) = <<Output>> /\ ~InLine(Output)
         \/ at'[Output] = at[Output] /\ Joiner(Output, speakTask = t) = <<>>
  BY <1>1, Joins, TasksDiffer DEF EngineInv
<1>4. Moved({Speak(t)}, Range(Joiner(Output, speakTask = t)))
  BY <1>1, <1>2, <1>3, LineTurns, TasksDiffer
<1>5. PICK come : /\ Moved({Speak(t)}, come)
                  /\ \/ come = {} /\ at'[Output] = at[Output]
                     \/ come = {Output} /\ at'[Output] = "joined"
  BY <1>3, <1>4, Ranges
<1>6. speak \in [Turns -> {"none", "new", "talking", "said", "unsaid"}]
  BY DEF EngineInv, Typed
<1>7. /\ speak' \in [Turns -> {"none", "new", "talking", "said", "unsaid"}]
      /\ speak'[t] \in {"said", "unsaid"} /\ \A u \in Turns \ {t} : speak'[u] = speak[u]
  BY <1>1, <1>6
<1>8. Typed'
  <2>1. ready' \in Seq(Tasks)
    BY <1>5, MovedIn
  <2>2. active' \in Ids
    BY <1>1, TasksDiffer DEF EngineInv, Typed
  <2>3. QED  BY <1>1, <1>3, <1>7, <2>1, <2>2 DEF EngineInv, Typed
<1>9. LineInv'
  <2>1. \A x : InLine(x)' <=> (InLine(x) /\ x # Speak(t)) \/ x \in come
    BY <1>5, MovedIn
  <2>2. Distinct(ready)' /\ running' \notin Actors
    BY <1>1, <1>2, <1>5, MovedIn, TasksDiffer
  <2>3. \A a \in Actors : at'[a] \in {"get", "join"} => ~InLine(a)'
    BY <1>3, <1>5, <2>1, TasksDiffer DEF EngineInv, LineInv
  <2>4. \A u \in Turns : InLine(Run(u))' => Alive(u)'
    BY <1>5, <2>1, TasksDiffer DEF EngineInv, LineInv, Alive
  <2>5. \A u \in Turns : InLine(Speak(u))' => Speaks(u)'
    BY <1>5, <1>7, <2>1, TasksDiffer DEF EngineInv, LineInv, Speaks
  <2>6. QED  BY <2>2, <2>3, <2>4, <2>5 DEF LineInv
<1>10. NamesInv'
  BY <1>1, <1>2, <1>7 DEF EngineInv, NamesInv
<1>11. CountInv'
  BY <1>1, <1>3 DEF EngineInv, CountInv, Interrupting
<1>12. SessionInv' /\ TurnInv' /\ StateInv' /\ JoinInv'
  <2>1. running' # Engine /\ \A u \in Turns : Run(u) \in cancelled' <=> Run(u) \in cancelled
    BY <1>1, <1>2, TasksDiffer
  <2>2. QED  BY <1>2, <1>3, <1>5, <2>1, EngineRests
<1>13. CallInv'
  BY CallsRest DEF EngineInv
<1>14. QED  BY <1>8, <1>9, <1>10, <1>11, <1>12, <1>13 DEF EngineInv

-----------------------------------------------------------------------------
(* Then the tasks of the turns.  A task that runs and is not cancelled is  *)
(* that of the session, and nobody waits for it to end; or it was left     *)
(* behind before it started.                                               *)
LEMMA TurnSliceIs ==
  ASSUME EngineInv, NEW t \in Turns, Slice(Run(t))
  PROVE  /\ running = Nobody /\ ready # <<>> /\ Head(ready) = Run(t)
         /\ InLine(Run(t)) /\ Alive(t) /\ t <= turns
         /\ Line(ready) /\ Run(t) \in Tasks /\ Run(t) \notin Actors
         /\ turns \in Nat /\ t \in Nat
<1>1. running = Nobody /\ ready # <<>> /\ Head(ready) = Run(t) /\ Line(ready)
  BY GoodLine DEF EngineInv, Slice
<1>2. InLine(Run(t))
  BY <1>1, Leaves DEF InLine
<1>3. Alive(t) /\ turns \in Nat /\ t \in Nat
  BY <1>2, Bounds DEF EngineInv, LineInv, Typed, Ids, Turns
<1>4. t <= turns
  BY <1>3 DEF EngineInv, SessionInv, Alive
<1>5. QED  BY <1>1, <1>2, <1>3, <1>4, TasksDiffer

LEMMA RunSliceIs ==
  ASSUME EngineInv, NEW t \in Turns, RunSlice(t)
  PROVE  /\ ~Interrupting
         /\ \/ /\ t = session /\ turnTask = t
               /\ \/ turn[t] = "new" /\ state = "COMMITTING"
                  \/ turn[t] = "thinking" /\ state = "THINKING"
                  \/ turn[t] = "speaking" /\ state = "SPEAKING"
               /\ \A u \in Turns \ {t} : ~Alive(u)
            \/ t # session /\ turn[t] = "new" /\ LeftBehind(t)
<1>1. Run(t) \notin cancelled /\ Alive(t)
  BY TurnSliceIs DEF RunSlice
<1>2. CASE t = session
  <2>1. state # "LISTENING"
    BY <1>1, <1>2 DEF EngineInv, SessionInv, Alive
  <2>2. \A u \in Turns : ~LeftBehind(u)
    BY <2>1 DEF LeftBehind
  <2>3. ~Interrupting
    BY <1>1, <1>2 DEF EngineInv, JoinInv, Interrupting
  <2>4. QED  BY <1>1, <1>2, <2>2, <2>3 DEF EngineInv, TurnInv, Alive
<1>3. CASE t # session
  <2>1. turn[t] = "new" /\ LeftBehind(t)
    BY <1>1, <1>3 DEF EngineInv, TurnInv, Alive
  <2>2. QED  BY <1>3, <2>1 DEF LeftBehind
<1>4. QED  BY <1>2, <1>3

(* The task of the session goes on, the state with it.                     *)
LEMMA SessionGoes ==
  ASSUME EngineInv, NEW t \in Turns, t = session, ~Interrupting,
         \A u \in Turns \ {t} : ~Alive(u),
         NEW how \in {"thinking", "speaking"}, turn' = [turn EXCEPT ![t] = how],
         state' = (IF how = "thinking" THEN "THINKING" ELSE "SPEAKING"),
         turnTask = t, at'[Engine] = at[Engine],
         UNCHANGED <<session, turns, turnTask, cancelled>>
  PROVE  /\ SessionInv' /\ TurnInv' /\ StateInv' /\ JoinInv'
         /\ \A u \in Turns : turn'[u] = "thinking" => u = t /\ how = "thinking"
<1>1. /\ turn \in [Turns -> {"none", "new", "thinking", "speaking", "done"}]
      /\ turn'[t] = how /\ \A u \in Turns \ {t} : turn'[u] = turn[u]
      /\ turns \in Nat /\ t \in Nat
  BY Bounds DEF EngineInv, Typed, Ids, Turns
<1>2. session = turns /\ session # 0
  BY OthersAreQuiet, TasksDiffer
<1>3. SessionInv'
  <2>1. \A u \in Turns : u > turns => u # t /\ turn[u] = "none"
    BY <1>1, <1>2 DEF EngineInv, SessionInv
  <2>2. QED  BY <1>1, <1>2, <2>1 DEF SessionInv
<1>4. TurnInv'
  BY <1>1 DEF EngineInv, TurnInv, Alive
<1>5. StateInv'
  BY <1>1 DEF StateInv
<1>6. JoinInv'
  BY DEF EngineInv, JoinInv, Interrupting
<1>7. QED  BY <1>1, <1>3, <1>4, <1>5, <1>6 DEF Alive

(* A task of a turn takes its place in no line any more, and what the      *)
(* types, the line and the names say holds.                                *)
LEMMA TurnEndsLine ==
  ASSUME EngineInv, NEW t \in Turns, Slice(Run(t)),
         NEW come, Moved({Run(t)}, come), come \subseteq Actors,
         \A a \in come : at'[a] \in {"no", "joined"},
         \A a \in Actors : at'[a] \in {"get", "join"} => at[a] \in {"get", "join"},
         UNCHANGED <<running, speak>>,
         \A u \in Turns \ {t} : Alive(u)' <=> Alive(u)
  PROVE  LineInv'
<1>1. /\ running = Nobody /\ \A x : InLine(x)' <=> (InLine(x) /\ x # Run(t)) \/ x \in come
      /\ Distinct(ready)'
  BY TurnSliceIs, MovedIn
<1>2. \A a \in Actors : at'[a] \in {"get", "join"} => ~InLine(a)'
  BY <1>1 DEF EngineInv, LineInv
<1>3. \A u \in Turns : InLine(Run(u))' => Alive(u)'
  BY <1>1, TasksDiffer DEF EngineInv, LineInv
<1>4. \A u \in Turns : InLine(Speak(u))' => Speaks(u)'
  BY <1>1, TasksDiffer DEF EngineInv, LineInv, Speaks
<1>5. QED  BY <1>1, <1>2, <1>3, <1>4, TasksDiffer DEF LineInv

LEMMA RepliesKeeps ==
  ASSUME EngineInv, NEW t \in Turns, RunSlice(t), Replies(t, "THINKING"),
         t = session, state \in {"COMMITTING", "THINKING"}, UNCHANGED <<ovars, inputs>>
  PROVE  EngineInv'
<1> USE DEF ovars
<1> DEFINE e == <<"reply", t>>
<1>1. /\ waiter' = t /\ state' = "SPEAKING"
      /\ turn' = [turn EXCEPT ![t] = "speaking"]
      /\ Publish(Output, e) /\ ready' = Tail(ready) \o Woken(Output)
      /\ UNCHANGED <<running, cancelled, session, turns, turnTask>>
      /\ Slice(Run(t))
  BY DEF Replies, RunSlice
<1>2. /\ running = Nobody /\ ready # <<>> /\ Head(ready) = Run(t)
      /\ InLine(Run(t)) /\ Alive(t) /\ t <= turns
      /\ Line(ready) /\ Run(t) \in Tasks /\ Run(t) \notin Actors
      /\ turns \in Nat /\ t \in Nat
  BY <1>1, TurnSliceIs
<1>3. ~Interrupting /\ turnTask = t /\ \A u \in Turns \ {t} : ~Alive(u)
  BY RunSliceIs
<1>4. e \in Events /\ e[1] = "reply" /\ e[2] = t
  BY TasksDiffer, EventParts DEF Kinds
<1> HIDE DEF e
<1>5. /\ queue' \in [Actors -> Seq(Events)] /\ at' \in [Actors -> Waits]
      /\ queue'[Output] = Put(queue[Output], e) /\ \A b \in Actors \ {Output} : queue'[b] = queue[b]
      /\ Range(queue'[Output]) \subseteq Range(queue[Output]) \cup {e}
      /\ \A b \in Actors : \/ at'[b] = at[b]
                           \/ b = Output /\ at[Output] = "get" /\ at'[Output] = "no"
      /\ \/ Woken(Output) = <<>> /\ at[Output] # "get" /\ at' = at
         \/ Woken(Output) = <<Output>> /\ at[Output] = "get" /\ at'[Output] = "no" /\ ~InLine(Output)
  BY <1>1, <1>2, <1>4, Published, TasksDiffer DEF EngineInv
<1>6. Moved({Run(t)}, Range(Woken(Output)))
  BY <1>1, <1>2, <1>5, LineTurns, TasksDiffer
<1>7. PICK come : /\ Moved({Run(t)}, come)
                  /\ come = {} \/ (come = {Output} /\ at'[Output] = "no")
  BY <1>5, <1>6, Ranges
<1>8. /\ turn \in [Turns -> {"none", "new", "thinking", "speaking", "done"}]
      /\ turn'[t] = "speaking" /\ \A u \in Turns \ {t} : turn'[u] = turn[u]
  BY <1>1 DEF EngineInv, Typed
<1>9. Typed'
  <2>1. ready' \in Seq(Tasks)
    BY <1>7, MovedIn
  <2>2. turn' \in [Turns -> {"none", "new", "thinking", "speaking", "done"}]
    BY <1>1, <1>8
  <2>3. QED  BY <1>1, <1>5, <2>1, <2>2, TasksDiffer DEF EngineInv, Typed, TurnStates
<1>10. LineInv'
  <2>1. \A u \in Turns \ {t} : Alive(u)' <=> Alive(u)
    BY <1>8 DEF Alive
  <2>2. come \subseteq Actors /\ \A a \in come : at'[a] = "no"
    BY <1>7, TasksDiffer
  <2>3. \A a \in Actors : at'[a] \in {"get", "join"} => at[a] \in {"get", "join"}
    BY <1>5
  <2>4. QED  BY <1>1, <1>7, <2>1, <2>2, <2>3, TurnEndsLine
<1>11. NamesInv'
  BY <1>1, <1>2, <1>4, <1>5, TasksDiffer DEF EngineInv, NamesInv
<1>12. at'[Engine] = at[Engine] /\ queue'[Engine] = queue[Engine]
  BY <1>5, TasksDiffer
<1>13. CountInv'
  BY <1>1, <1>12 DEF EngineInv, CountInv, Interrupting
<1>14. /\ SessionInv' /\ TurnInv' /\ StateInv' /\ JoinInv'
       /\ \A u \in Turns : turn'[u] # "thinking"
  BY <1>1, <1>3, <1>12, SessionGoes
<1>15. CallInv'
  BY <1>14 DEF CallInv
<1>16. QED  BY <1>9, <1>10, <1>11, <1>13, <1>14, <1>15 DEF EngineInv

(* A task that was left behind ends as soon as it starts.                  *)
LEMMA LeftBehindKeeps ==
  ASSUME EngineInv, NEW t \in Turns, RunSlice(t), Replies(t, state), LeftBehind(t), t # session,
         UNCHANGED <<ovars, bvars, inputs>>
  PROVE  EngineInv'
<1> USE DEF ovars
<1>1. /\ Slice(Run(t)) /\ waiter' = t /\ turn' = [turn EXCEPT ![t] = "done"]
      /\ at' = Joined(Engine, turnTask = t)
      /\ ready' = Tail(ready) \o Joiner(Engine, turnTask = t)
      /\ UNCHANGED <<state, queue, running, cancelled, session, turns, turnTask>>
  BY DEF Replies, RunSlice, LeftBehind
<1>2. /\ running = Nobody /\ ready # <<>> /\ Head(ready) = Run(t)
      /\ InLine(Run(t)) /\ Alive(t) /\ t <= turns
      /\ Line(ready) /\ Run(t) \in Tasks /\ Run(t) \notin Actors
  BY <1>1, TurnSliceIs
<1>3. at' = at /\ Joiner(Engine, turnTask = t) = <<>>
  BY <1>1, Joins, TasksDiffer DEF EngineInv, LeftBehind, Interrupting
<1>4. ready' = Tail(ready)
  BY <1>1, <1>2, <1>3, Leaves, ConcatEmptySeq DEF Line
<1>5. Moved({Run(t)}, {})
  BY <1>2, <1>4, LineShrinks
<1>6. /\ turn \in [Turns -> {"none", "new", "thinking", "speaking", "done"}]
      /\ turn'[t] = "done" /\ \A u \in Turns \ {t} : turn'[u] = turn[u]
  BY <1>1 DEF EngineInv, Typed
<1>7. \A u \in Turns \ {t} : (Alive(u)' <=> Alive(u)) /\ ~Alive(t)'
  BY <1>6 DEF Alive
<1>8. Typed'
  <2>1. ready' \in Seq(Tasks)
    BY <1>5, MovedIn
  <2>2. turn' \in [Turns -> {"none", "new", "thinking", "speaking", "done"}]
    BY <1>1, <1>6
  <2>3. QED  BY <1>1, <1>3, <2>1, <2>2, TasksDiffer DEF EngineInv, Typed
<1>9. LineInv'
  BY <1>1, <1>3, <1>5, <1>7, TurnEndsLine
<1>10. NamesInv' /\ CountInv'
  BY <1>1, <1>3 DEF EngineInv, NamesInv, CountInv, Interrupting
<1>11. SessionInv' /\ StateInv' /\ JoinInv'
  <2>1. session \in Ids /\ turns \in Nat /\ t <= turns /\ t \in Nat
    BY <1>1, TurnSliceIs DEF EngineInv, Typed
  <2>2. session # 0 => session \in Turns \ {t}
    BY OthersAreQuiet
  <2>3. SessionInv'
    <3>1. \A u \in Turns : u > turns => u # t /\ turn[u] = "none"
      BY <2>1 DEF EngineInv, SessionInv
    <3>2. state = "LISTENING" /\ session # 0
      BY OthersAreQuiet DEF LeftBehind
    <3>3. QED  BY <1>1, <1>6, <2>2, <3>1, <3>2 DEF EngineInv, SessionInv
  <2>4. StateInv'
    BY <1>1 DEF LeftBehind, StateInv
  <2>5. JoinInv'
    BY <1>1, <1>3 DEF EngineInv, JoinInv, LeftBehind, Interrupting
  <2>6. QED  BY <2>3, <2>4, <2>5
<1>12. TurnInv'
  <2>1. \A u \in Turns \ {t} : /\ InLine(Run(u)) => InLine(Run(u))'
                               /\ Ahead(ready, u) => Ahead(ready, u)'
    BY <1>5, MovedIn, TasksDiffer
  <2>2. \A u \in Turns \ {t} : LeftBehind(u) => LeftBehind(u)'
    BY <1>1, <1>3, <2>1 DEF LeftBehind, Interrupting
  <2>3. QED  BY <1>1, <1>6, <1>7, <2>1, <2>2 DEF EngineInv, TurnInv
<1>13. CallInv'
  BY <1>6 DEF EngineInv, CallInv, bvars
<1>14. QED  BY <1>8, <1>9, <1>10, <1>11, <1>12, <1>13 DEF EngineInv

LEMMA StartsKeeps ==
  ASSUME EngineInv, NEW t \in Turns, TurnStarts(t), UNCHANGED <<ovars, inputs>>
  PROVE  EngineInv'
<1>1. RunSlice(t) /\ turn[t] = "new"
  BY DEF TurnStarts
<1>2. CASE state = "COMMITTING" /\ Replies(t, "THINKING")
  <2>1. t = session
    BY <1>1, <1>2, RunSliceIs DEF LeftBehind
  <2>2. QED  BY <1>1, <1>2, <2>1, RepliesKeeps
<1>3. CASE /\ state = "COMMITTING" /\ Allow
           /\ state' = "THINKING"
           /\ turn' = [turn EXCEPT ![t] = "thinking"]
           /\ ready' = Tail(ready)
           /\ UNCHANGED <<running, cancelled, queue, at, session, turns, turnTask, waiter>>
  <2> USE DEF ovars
  <2>1. t = session /\ ~Interrupting /\ turnTask = t /\ \A u \in Turns \ {t} : ~Alive(u)
    BY <1>1, <1>3, RunSliceIs DEF LeftBehind
  <2>2. /\ Slice(Run(t)) /\ ready # <<>> /\ Head(ready) = Run(t) /\ Line(ready)
    BY <1>1, TurnSliceIs DEF RunSlice
  <2>3. Moved({Run(t)}, {})
    BY <1>3, <2>2, LineShrinks
  <2>4. /\ turn \in [Turns -> {"none", "new", "thinking", "speaking", "done"}]
        /\ turn'[t] = "thinking" /\ \A u \in Turns \ {t} : turn'[u] = turn[u]
    BY <1>3 DEF EngineInv, Typed
  <2>5. Typed'
    <3>1. ready' \in Seq(Tasks)
      BY <2>3, MovedIn
    <3>2. turn' \in [Turns -> {"none", "new", "thinking", "speaking", "done"}]
      BY <1>3, <2>4
    <3>3. QED  BY <1>3, <3>1, <3>2 DEF EngineInv, Typed, TurnStates
  <2>6. \A u \in Turns \ {t} : Alive(u)' <=> Alive(u)
    BY <2>4 DEF Alive
  <2>7. LineInv'
    BY <1>3, <2>2, <2>3, <2>6, TurnEndsLine
  <2>8. NamesInv' /\ CountInv'
    BY <1>3 DEF EngineInv, NamesInv, CountInv, Interrupting
  <2>9. /\ SessionInv' /\ TurnInv' /\ StateInv' /\ JoinInv'
    BY <1>3, <2>1, SessionGoes
  <2>10. CallInv'
    <3>1. circuit' # "open" /\ (circuit' = "half_open" => probing')
      BY <1>3 DEF Allow, Allowed
    <3>2. QED  BY <3>1 DEF CallInv
  <2>11. QED  BY <2>5, <2>7, <2>8, <2>9, <2>10 DEF EngineInv
<1>4. CASE state # "COMMITTING" /\ Replies(t, state) /\ UNCHANGED bvars
  <2>1. t # session /\ LeftBehind(t)
    BY <1>1, <1>4, RunSliceIs
  <2>2. QED  BY <1>1, <1>4, <2>1, LeftBehindKeeps
<1>5. QED  BY <1>2, <1>3, <1>4 DEF TurnStarts

LEMMA AnswersKeeps ==
  ASSUME EngineInv, NEW t \in Turns, TurnAnswers(t), UNCHANGED <<ovars, inputs>>
  PROVE  EngineInv'
<1>1. RunSlice(t) /\ turn[t] = "thinking" /\ Replies(t, state)
  BY DEF TurnAnswers
<1>2. t = session /\ state = "THINKING"
  BY <1>1, RunSliceIs
<1>3. QED  BY <1>1, <1>2, RepliesKeeps

LEMMA SpokenKeeps ==
  ASSUME EngineInv, NEW t \in Turns, TurnSpoken(t), UNCHANGED <<ovars, inputs>>
  PROVE  EngineInv'
<1> USE DEF ovars
<1>1. /\ RunSlice(t) /\ Slice(Run(t)) /\ turn[t] = "speaking"
      /\ turn' = [turn EXCEPT ![t] = "done"]
      /\ at' = Joined(Engine, turnTask = t)
      /\ ready' = Tail(ready) \o Joiner(Engine, turnTask = t)
      /\ UNCHANGED <<running, cancelled, queue, turns, turnTask, waiter, bvars>>
  BY DEF TurnSpoken, RunSlice
<1>2. t = session /\ ~Interrupting /\ \A u \in Turns \ {t} : ~Alive(u)
  BY <1>1, RunSliceIs
<1>3. state' = "IDLE" /\ session' = 0
  BY <1>2 DEF TurnSpoken
<1>4. /\ running = Nobody /\ ready # <<>> /\ Head(ready) = Run(t)
      /\ Line(ready) /\ Run(t) \in Tasks
      /\ turns \in Nat /\ t \in Nat /\ t <= turns
  BY <1>1, TurnSliceIs
<1>5. at' = at /\ Joiner(Engine, turnTask = t) = <<>>
  BY <1>1, <1>2, Joins, TasksDiffer DEF EngineInv, Interrupting
<1>6. ready' = Tail(ready)
  BY <1>1, <1>4, <1>5, Leaves, ConcatEmptySeq DEF Line
<1>7. Moved({Run(t)}, {})
  BY <1>4, <1>6, LineShrinks
<1>8. /\ turn \in [Turns -> {"none", "new", "thinking", "speaking", "done"}]
      /\ turn'[t] = "done" /\ \A u \in Turns \ {t} : turn'[u] = turn[u]
  BY <1>1 DEF EngineInv, Typed
<1>9. \A u \in Turns : ~Alive(u)'
  BY <1>2, <1>8 DEF Alive
<1>10. Typed'
  <2>1. ready' \in Seq(Tasks)
    BY <1>7, MovedIn
  <2>2. turn' \in [Turns -> {"none", "new", "thinking", "speaking", "done"}]
    BY <1>1, <1>8
  <2>3. QED  BY <1>1, <1>3, <1>5, <2>1, <2>2, TasksDiffer DEF EngineInv, Typed, TurnStates
<1>11. LineInv'
  BY <1>1, <1>2, <1>5, <1>7, <1>9, TurnEndsLine
<1>12. NamesInv' /\ CountInv'
  BY <1>1, <1>5 DEF EngineInv, NamesInv, CountInv, Interrupting
<1>13. SessionInv'
  <2>1. \A u \in Turns : u > turns => u # t /\ turn[u] = "none"
    BY <1>4 DEF EngineInv, SessionInv
  <2>2. QED  BY <1>1, <1>3, <1>8, <2>1 DEF SessionInv
<1>14. TurnInv' /\ CallInv'
  BY <1>9 DEF TurnInv, CallInv, Alive
<1>15. StateInv' /\ JoinInv'
  BY <1>1, <1>2, <1>3, <1>5 DEF EngineInv, StateInv, JoinInv, Interrupting
<1>16. QED  BY <1>10, <1>11, <1>12, <1>13, <1>14, <1>15 DEF EngineInv

LEMMA CancelledKeeps ==
  ASSUME EngineInv, NEW t \in Turns, TurnCancelled(t), UNCHANGED <<ovars, inputs>>
  PROVE  EngineInv'
<1> USE DEF ovars
<1>1. /\ Slice(Run(t)) /\ Run(t) \in cancelled /\ cancelled' = cancelled \ {Run(t)}
      /\ turn' = [turn EXCEPT ![t] = "done"]
      /\ at' = Joined(Engine, turnTask = t)
      /\ ready' = Tail(ready) \o Joiner(Engine, turnTask = t)
      /\ UNCHANGED <<running, queue, state, session, turns, turnTask, waiter, bvars>>
  BY DEF TurnCancelled
<1>2. /\ running = Nobody /\ ready # <<>> /\ Head(ready) = Run(t) /\ Alive(t)
      /\ Line(ready) /\ Run(t) \in Tasks /\ turns \in Nat /\ t \in Nat /\ t <= turns
  BY <1>1, TurnSliceIs
<1>3. at[Engine] = "join" /\ t = session /\ turnTask = t /\ Interrupting
  BY <1>1 DEF EngineInv, JoinInv, Interrupting
<1>4. /\ at' \in [Actors -> Waits] /\ at'[Output] = at[Output] /\ at'[Engine] = "joined"
      /\ Joiner(Engine, turnTask = t) = <<Engine>> /\ ~InLine(Engine)
  BY <1>1, <1>3, Joins, TasksDiffer DEF EngineInv
<1>5. Moved({Run(t)}, {Engine})
  <2>1. Moved({Run(t)}, Range(Joiner(Engine, turnTask = t)))
    BY <1>1, <1>2, <1>4, LineTurns, TasksDiffer
  <2>2. QED  BY <1>4, <2>1, Ranges
<1>6. /\ turn \in [Turns -> {"none", "new", "thinking", "speaking", "done"}]
      /\ turn'[t] = "done" /\ \A u \in Turns \ {t} : turn'[u] = turn[u]
  BY <1>1 DEF EngineInv, Typed
<1>7. \A u \in Turns : ~Alive(u)'
  BY <1>3, <1>6 DEF EngineInv, TurnInv, Alive, LeftBehind
<1>8. Typed'
  <2>1. ready' \in Seq(Tasks)
    BY <1>5, MovedIn
  <2>2. turn' \in [Turns -> {"none", "new", "thinking", "speaking", "done"}]
    BY <1>1, <1>6
  <2>3. QED  BY <1>1, <1>4, <2>1, <2>2 DEF EngineInv, Typed
<1>9. LineInv'
  <2>1. \A u \in Turns \ {t} : ~Alive(u)
    BY <1>3 DEF EngineInv, TurnInv, Alive, LeftBehind
  <2>2. \A a \in Actors : at'[a] \in {"get", "join"} => at[a] \in {"get", "join"}
    BY <1>4, TasksDiffer
  <2>3. {Engine} \subseteq Actors /\ \A a \in {Engine} : at'[a] \in {"no", "joined"}
    BY <1>4, TasksDiffer
  <2>4. QED  BY <1>1, <1>5, <1>7, <2>1, <2>2, <2>3, TurnEndsLine
<1>10. Interrupting'
  BY <1>4 DEF Interrupting
<1>11. NamesInv' /\ CountInv'
  BY <1>1, <1>3, <1>10 DEF EngineInv, NamesInv, CountInv
<1>12. SessionInv'
  <2>1. \A u \in Turns : u > turns => u # t /\ turn[u] = "none"
    BY <1>2 DEF EngineInv, SessionInv
  <2>2. state # "LISTENING"
    BY <1>2, <1>3 DEF EngineInv, SessionInv, Alive
  <2>3. QED  BY <1>1, <1>6, <2>1, <2>2 DEF EngineInv, SessionInv
<1>13. TurnInv' /\ CallInv'
  BY <1>7 DEF TurnInv, CallInv, Alive
<1>14. StateInv'
  BY <1>10 DEF StateInv
<1>15. JoinInv'
  <2>1. session # 0 /\ session \in Turns
    BY <1>3, TasksDiffer
  <2>2. \A u \in Turns : Run(u) \notin cancelled'
    BY <1>1, <1>3, TasksDiffer DEF EngineInv, JoinInv
  <2>3. ~Alive(session)'
    BY <1>1, <1>7, <2>1
  <2>4. QED  BY <1>1, <1>4, <2>1, <2>2, <2>3 DEF JoinInv
<1>16. QED  BY <1>8, <1>9, <1>11, <1>12, <1>13, <1>14, <1>15 DEF EngineInv

-----------------------------------------------------------------------------
(* The steps of the mind, one by one.                                      *)
LEMMA Steps ==
  ASSUME Next, Typed
  PROVE  \/ (\E a \in Actors : Resumes(a) \/ WaitsForEvent(a)) /\ UNCHANGED <<evars, bvars, ovars, inputs>>
         \/ (OnWake \/ OnFinal \/ OnBarge \/ GoesOn \/ OnDone) /\ UNCHANGED <<ovars, inputs>>
         \/ (OnReply \/ OnCancel \/ SpeaksNext) /\ UNCHANGED <<evars, bvars, inputs>>
         \/ \E t \in Turns : (TurnStarts(t) \/ TurnAnswers(t) \/ TurnSpoken(t) \/ TurnCancelled(t)) /\ UNCHANGED <<ovars, inputs>>
         \/ \E t \in Turns : (SpeakWaits(t) \/ SpeakEnds(t) \/ SpeakCancelled(t)) /\ UNCHANGED <<evars, bvars, inputs>>
         \/ \E e \in Events : e[1] # "done" /\ e[2] <= turns /\ Input(e)
         \/ \E t \in Turns : \/ turn[t] = "thinking" /\ Ready(Run(t))
                             \/ speak[t] = "talking" /\ Ready(Speak(t))
         \/ Clock
<1>1. CASE EngineActs /\ UNCHANGED <<ovars, inputs>>
  BY <1>1, TasksDiffer DEF EngineActs
<1>2. CASE OutputActs /\ UNCHANGED <<evars, bvars, inputs>>
  BY <1>2, TasksDiffer DEF OutputActs
<1>3. CASE \E t \in Turns : \/ TurnActs(t) /\ UNCHANGED <<ovars, inputs>>
                            \/ SpeakActs(t) /\ UNCHANGED <<evars, bvars, inputs>>
  BY <1>3 DEF TurnActs, SpeakActs
<1> turns \in Nat
  BY Bounds DEF Typed, Ids
<1>4. CASE Outside
  <2>1. <<"wake", 0>> \in Events /\ <<"wake", 0>>[1] = "wake" /\ <<"wake", 0>>[2] = 0 /\ 0 <= turns
    BY <1>4, EventParts, TasksDiffer DEF Kinds
  <2>2. \A t \in Turns : /\ <<"final", t>> \in Events /\ <<"final", t>>[1] = "final" /\ <<"final", t>>[2] = t
                         /\ <<"barge", t>> \in Events /\ <<"barge", t>>[1] = "barge" /\ <<"barge", t>>[2] = t
    BY EventParts, TasksDiffer DEF Kinds
  <2>3. CASE Wake
    BY <2>1, <2>3 DEF Wake
  <2>4. ASSUME NEW t \in Turns, Final(t) \/ BargeIn(t)
        PROVE  \E e \in Events : e[1] # "done" /\ e[2] <= turns /\ Input(e)
    BY <2>2, <2>4 DEF Final, BargeIn
  <2>5. QED  BY <1>4, <2>3, <2>4 DEF Outside, ProviderAnswers, AudioComes
<1>5. QED  BY <1>1, <1>2, <1>3, <1>4 DEF Next, LoopActs

LEMMA EngineStarts == Init => EngineInv
<1> SUFFICES ASSUME Init
             PROVE  EngineInv
  OBVIOUS
<1> USE DEF Init, LoopInit, EngineInit, OutputInit, BreakerInit
<1>1. /\ ready = <<Engine, Output>> /\ running = Nobody /\ cancelled = {} /\ inputs = 0
      /\ \A a \in Actors : queue[a] = <<>> /\ at[a] = "no"
      /\ \A t \in Turns : turn[t] = "none" /\ speak[t] = "none"
  OBVIOUS
<1>2. \A a \in Actors : Range(queue[a]) = {}
  BY <1>1, Ranges
<1>3. ready \in Seq(Tasks) /\ Len(ready) = 2 /\ ready[1] = Engine /\ ready[2] = Output
  BY <1>1, TasksDiffer
<1>4. \A t \in Turns : ~InLine(Run(t)) /\ ~InLine(Speak(t))
  BY <1>3, TasksDiffer DEF InLine, Range
<1>5. Typed
  <2>1. queue \in [Actors -> Seq(Events)] /\ at \in [Actors -> Waits]
    BY DEF Waits
  <2>2. QED  BY <1>1, <1>3, <2>1, TasksDiffer DEF Typed, TurnStates
<1>6. Distinct(ready)
  BY <1>3, TasksDiffer DEF Distinct
<1>7. LineInv
  BY <1>1, <1>4, <1>6, TasksDiffer DEF LineInv
<1>8. NamesInv
  BY <1>1, <1>2 DEF NamesInv
<1>9. CountInv
  <2>1. Starts(queue[Engine]) = {}
    BY <1>1, TasksDiffer DEF Starts
  <2>2. Cardinality(Starts(queue[Engine])) = 0
    BY <2>1, FS_EmptySet
  <2>3. ~Interrupting /\ turns = 0
    BY <1>1, TasksDiffer DEF Interrupting
  <2>4. QED  BY <1>1, <2>2, <2>3 DEF CountInv
<1>10. SessionInv /\ TurnInv /\ StateInv /\ JoinInv /\ CallInv
  BY <1>1, TasksDiffer DEF SessionInv, TurnInv, StateInv, JoinInv, CallInv, Alive
<1>11. QED  BY <1>5, <1>7, <1>8, <1>9, <1>10 DEF EngineInv

LEMMA EngineKeeps == EngineInv /\ OutputInv /\ [Next]_vars => EngineInv'
<1> SUFFICES ASSUME EngineInv, OutputInv, [Next]_vars
             PROVE  EngineInv'
  OBVIOUS
<1>1. CASE UNCHANGED vars
  BY <1>1 DEF vars, lvars, bvars, evars, ovars, EngineInv, Typed, LineInv, NamesInv, CountInv, SessionInv, TurnInv,
     StateInv, JoinInv, CallInv, InLine, Alive, Speaks, Interrupting, LeftBehind, Ahead
<1>2. CASE Next
  <2>1. CASE (\E a \in Actors : Resumes(a) \/ WaitsForEvent(a)) /\ UNCHANGED <<evars, bvars, ovars, inputs>>
    BY <2>1, ResumesKeeps, WaitsKeeps
  <2>2. CASE (OnWake \/ OnFinal \/ OnBarge \/ GoesOn \/ OnDone) /\ UNCHANGED <<ovars, inputs>>
    BY <2>2, WakeKeeps, FinalKeeps, BargeKeeps, GoesOnKeeps, DoneKeeps
  <2>3. CASE (OnReply \/ OnCancel \/ SpeaksNext) /\ UNCHANGED <<evars, bvars, inputs>>
    BY <2>3, ReplyKeeps, CancelKeeps, SpeaksNextKeeps
  <2>4. ASSUME NEW t \in Turns, UNCHANGED <<ovars, inputs>>,
               TurnStarts(t) \/ TurnAnswers(t) \/ TurnSpoken(t) \/ TurnCancelled(t)
        PROVE  EngineInv'
    BY <2>4, StartsKeeps, AnswersKeeps, SpokenKeeps, CancelledKeeps
  <2>5. ASSUME NEW t \in Turns, UNCHANGED <<evars, bvars, inputs>>,
               SpeakWaits(t) \/ SpeakEnds(t) \/ SpeakCancelled(t)
        PROVE  EngineInv'
    BY <2>5, SpeakWaitsKeeps, SpeakEndsKeeps, SpeakCancelledKeeps
  <2>6. ASSUME NEW e \in Events, e[1] # "done", e[2] <= turns, Input(e)
        PROVE  EngineInv'
    BY <2>6, InputKeeps
  <2>7. ASSUME NEW t \in Turns, \/ turn[t] = "thinking" /\ Ready(Run(t))
                                \/ speak[t] = "talking" /\ Ready(Speak(t))
        PROVE  EngineInv'
    BY <2>7, ReadyKeeps, TasksDiffer DEF Alive, Speaks
  <2>8. CASE Clock
    <3>1. UNCHANGED <<lvars, evars, ovars, inputs>> /\ UNCHANGED <<circuit, probing>>
      BY <2>8 DEF Clock, ResetTimeout
    <3>2. QED  BY <3>1 DEF lvars, evars, ovars, EngineInv, Typed, LineInv, NamesInv, CountInv, SessionInv, TurnInv,
                     StateInv, JoinInv, CallInv, InLine, Alive, Speaks, Interrupting, LeftBehind, Ahead
  <2>9. Typed
    BY DEF EngineInv
  <2>10. QED  BY <1>2, <2>1, <2>2, <2>3, <2>4, <2>5, <2>6, <2>7, <2>8, <2>9, Steps
<1>3. QED  BY <1>1, <1>2

-----------------------------------------------------------------------------
(* OutputInv, action by action.  Replies wait in the order of their turns. *)
LEMMA OrderPut ==
  ASSUME NEW q \in Seq(Events), InOrder(q), NEW e \in Events,
         e[1] = "reply" => \A d \in Range(q) : d[1] = "reply" => d[2] < e[2]
  PROVE  InOrder(Put(q, e))
<1>1. CASE Put(q, e) = q
  BY <1>1
<1>2. CASE /\ Len(Put(q, e)) = Len(q) + 1 /\ Put(q, e)[Len(q) + 1] = e
           /\ \A i \in 1..Len(q) : Put(q, e)[i] = q[i]
  <2>1. \A i \in 1..Len(q) : q[i] \in Range(q)
    BY DEF Range
  <2>2. SUFFICES ASSUME NEW i \in 1..Len(q) + 1, NEW j \in 1..Len(q) + 1, i < j,
                        Put(q, e)[i][1] = "reply", Put(q, e)[j][1] = "reply"
                 PROVE  Put(q, e)[i][2] < Put(q, e)[j][2]
    BY <1>2 DEF InOrder
  <2>3. i \in 1..Len(q) /\ Put(q, e)[i] = q[i]
    BY <1>2, <2>2
  <2>4. CASE j \in 1..Len(q)
    BY <1>2, <2>2, <2>3, <2>4 DEF InOrder
  <2>5. CASE j = Len(q) + 1
    BY <1>2, <2>1, <2>2, <2>3, <2>5
  <2>6. QED  BY <2>4, <2>5
<1>3. QED  BY <1>1, <1>2, PutAppends

LEMMA OrderTail ==
  ASSUME NEW q \in Seq(Events), InOrder(q), q # <<>>
  PROVE  /\ InOrder(Tail(q))
         /\ Head(q)[1] = "reply" => \A d \in Range(Tail(q)) : d[1] = "reply" => Head(q)[2] < d[2]
<1>1. /\ Len(q) \in Nat \ {0} /\ Len(Tail(q)) = Len(q) - 1 /\ Head(q) = q[1]
      /\ \A i \in 1..Len(Tail(q)) : Tail(q)[i] = q[i + 1]
      /\ Tail(q) \in Seq(Events) /\ DOMAIN Tail(q) = 1..Len(Tail(q))
  BY TailShifts
<1>2. InOrder(Tail(q))
  <2>1. SUFFICES ASSUME NEW i \in 1..Len(Tail(q)), NEW j \in 1..Len(Tail(q)), i < j,
                        Tail(q)[i][1] = "reply", Tail(q)[j][1] = "reply"
                 PROVE  Tail(q)[i][2] < Tail(q)[j][2]
    BY DEF InOrder
  <2>2. i + 1 \in 1..Len(q) /\ j + 1 \in 1..Len(q) /\ i + 1 < j + 1
    BY <1>1, <2>1
  <2>3. QED  BY <1>1, <2>1, <2>2 DEF InOrder
<1>3. ASSUME NEW d \in Range(Tail(q)), d[1] = "reply", Head(q)[1] = "reply"
      PROVE  Head(q)[2] < d[2]
  <2>1. PICK i \in 1..Len(Tail(q)) : Tail(q)[i] = d
    BY <1>1 DEF Range
  <2>2. 1 \in 1..Len(q) /\ i + 1 \in 1..Len(q) /\ 1 < i + 1 /\ q[i + 1] = d
    BY <1>1, <2>1
  <2>3. QED  BY <1>1, <1>3, <2>2 DEF InOrder
<1>4. QED  BY <1>2, <1>3

(* What the output knows does not change when somebody else takes a step   *)
(* that tells it nothing,                                                  *)
LEMMA OutputRests ==
  ASSUME OutputInv, UNCHANGED ovars, queue'[Output] = queue[Output],
         at'[Output] = "join" <=> at[Output] = "join",
         at'[Output] = "joined" <=> at[Output] = "joined",
         \A t \in Turns : Speak(t) \in cancelled' <=> Speak(t) \in cancelled,
         \A t \in Turns : turn[t] \in {"speaking", "done"} => turn'[t] \in {"speaking", "done"}
  PROVE  OutputInv'
<1> USE DEF ovars
<1>1. \A t \in Turns : (Speaks(t)' <=> Speaks(t)) /\ (Waiting(t)' <=> Waiting(t))
  BY DEF Speaks, Waiting
<1>2. SpeechInv'
  BY <1>1 DEF OutputInv, SpeechInv
<1>3. OrderInv'
  BY <1>1 DEF OutputInv, OrderInv
<1>4. LastInv'
  BY DEF OutputInv, LastInv, Begun
<1>5. QED  BY <1>2, <1>3, <1>4 DEF OutputInv

(* or that tells it of a turn later than all it knows, or to be silent.    *)
LEMMA OutputHears ==
  ASSUME Typed, OutputInv, UNCHANGED ovars, NEW e \in Events, queue'[Output] = Put(queue[Output], e),
         at'[Output] = "join" <=> at[Output] = "join",
         at'[Output] = "joined" <=> at[Output] = "joined",
         \A t \in Turns : Speak(t) \in cancelled' <=> Speak(t) \in cancelled,
         \A t \in Turns : turn[t] \in {"speaking", "done"} => turn'[t] \in {"speaking", "done"},
         e[1] = "reply" => /\ e[2] \in Turns /\ speak[e[2]] = "none" /\ turn'[e[2]] \in {"speaking", "done"}
                           /\ \A t \in Turns : Waiting(t) \/ speak[t] # "none" => t < e[2]
  PROVE  OutputInv'
<1> USE DEF ovars
<1>1. /\ queue[Output] \in Seq(Events)
      /\ Range(queue'[Output]) \subseteq Range(queue[Output]) \cup {e}
      /\ Range(queue[Output]) \subseteq Events
      /\ coming \in Ids
  <2>1. queue[Output] \in Seq(Events) /\ coming \in Ids
    BY TasksDiffer DEF Typed
  <2>2. Range(queue[Output]) \subseteq Events
    BY <2>1 DEF Range
  <2>3. Range(Put(queue[Output], e)) \subseteq Range(queue[Output]) \cup {e}
    BY <2>1, PutHolds
  <2>4. QED  BY <2>1, <2>2, <2>3
<1>2. \A t \in Turns : /\ Speaks(t)' <=> Speaks(t)
                       /\ Waiting(t)' => Waiting(t) \/ e = <<"reply", t>>
  BY <1>1 DEF Speaks, Waiting
<1>3. SpeechInv'
  BY <1>2 DEF OutputInv, SpeechInv
<1>4. LastInv'
  BY DEF OutputInv, LastInv, Begun
<1>5. \A d \in Range(queue[Output]) : d[1] = "reply" => d[2] \in Turns /\ Waiting(d[2])
  <2>1. \A d \in Range(queue[Output]) : d[1] = "reply" => d[2] # 0 /\ d[2] \in Ids /\ d = <<"reply", d[2]>>
    BY <1>1, EventParts DEF OutputInv, OrderInv
  <2>2. QED  BY <2>1, Bounds DEF Waiting, Ids, Turns
<1>6. e[1] = "reply" => e[2] # 0 /\ \A d \in Range(queue[Output]) : d[1] = "reply" => d[2] < e[2]
  BY <1>5, TasksDiffer
<1>7. InOrder(queue'[Output])
  BY <1>1, <1>6, OrderPut DEF OutputInv, OrderInv
<1>8. \A t \in Turns : e = <<"reply", t>> => e[1] = "reply" /\ e[2] = t
  OBVIOUS
<1>9. OrderInv'
  <2>1. \A d \in Range(queue'[Output]) : d[1] = "reply" => d[2] # 0
    BY <1>1, <1>6 DEF OutputInv, OrderInv
  <2>2. \A t \in Turns : Waiting(t)' => speak'[t] = "none" /\ turn'[t] \in {"speaking", "done"}
    BY <1>2, <1>8 DEF OutputInv, OrderInv
  <2>3. \A t \in Turns : speak'[t] # "none" => turn'[t] \in {"speaking", "done"}
    BY DEF OutputInv, OrderInv
  <2>4. \A t, u \in Turns : Waiting(t)' /\ speak'[u] # "none" => u < t
    BY <1>2, <1>8 DEF OutputInv, OrderInv
  <2>5. \A t, u \in Turns : Speaks(t)' /\ speak'[u] # "none" => u <= t
    BY <1>2 DEF OutputInv, OrderInv
  <2>6. \A d \in Range(queue'[Output]) : coming' # 0 /\ d[1] = "reply" => coming' < d[2]
    <3>1. coming # 0 => coming \in Turns /\ Waiting(coming)
      BY <1>1, Bounds DEF Waiting, Ids, Turns
    <3>2. QED  BY <1>1, <1>6, <3>1 DEF OutputInv, OrderInv
  <2>7. QED  BY <1>7, <2>1, <2>2, <2>3, <2>4, <2>5, <2>6 DEF OrderInv
<1>10. QED  BY <1>3, <1>4, <1>9 DEF OutputInv

(* The output starts a task for the first reply that waits.                *)
LEMMA StartSpeakTold ==
  ASSUME Typed, NEW t \in Turns, StartSpeak(t), OutputInv,
         \A u \in Turns : ~Speaks(u), speak[t] = "none", turn[t] \in {"speaking", "done"},
         \A u \in Turns : speak[u] # "none" => u < t,
         coming' = 0, at'[Output] \notin {"join", "joined"},
         UNCHANGED <<cancelled, turn>>,
         \A u \in Turns : Speak(u) \notin cancelled,
         InOrder(queue'[Output]),
         \A d \in Range(queue'[Output]) : d \in Range(queue[Output]) /\ (d[1] = "reply" => t < d[2])
  PROVE  OutputInv'
<1>1. /\ active' = t /\ speakTask' = t /\ speak' = [speak EXCEPT ![t] = "new"] /\ t \in Nat
      /\ speak \in [Turns -> {"none", "new", "talking", "said", "unsaid"}]
  BY Bounds DEF StartSpeak, Typed, Turns
<1>2. speak'[t] = "new" /\ \A u \in Turns \ {t} : speak'[u] = speak[u]
  BY <1>1
<1>3. \A u \in Turns : Speaks(u)' <=> u = t
  BY <1>2 DEF Speaks
<1>4. SpeechInv'
  BY <1>1, <1>3 DEF SpeechInv
<1>5. \A u \in Turns : Waiting(u)' => Waiting(u) /\ t < u
  <2>1. \A u \in Turns : <<"reply", u>>[1] = "reply" /\ <<"reply", u>>[2] = u
    OBVIOUS
  <2>2. QED  BY <2>1, TasksDiffer DEF Waiting
<1>6. OrderInv'
  <2>1. \A u \in Turns : Waiting(u)' => speak'[u] = "none" /\ turn'[u] \in {"speaking", "done"}
    BY <1>1, <1>2, <1>5, Bounds DEF OutputInv, OrderInv, Turns
  <2>2. \A u \in Turns : speak'[u] # "none" => turn'[u] \in {"speaking", "done"} /\ u <= t
    BY <1>1, <1>2, Bounds DEF OutputInv, OrderInv, Turns
  <2>3. \A u, v \in Turns : Waiting(u)' /\ speak'[v] # "none" => v < u
    BY <1>1, <1>2, <1>5 DEF OutputInv, OrderInv
  <2>4. QED  BY <1>3, <2>1, <2>2, <2>3 DEF OutputInv, OrderInv
<1>7. Begun' = Begun
  BY <1>2 DEF Begun
<1>8. LastInv'
  BY <1>7 DEF OutputInv, LastInv
<1>9. QED  BY <1>4, <1>6, <1>8 DEF OutputInv

(* It cancels the one that speaks.                                         *)
LEMMA CancelSpeakTold ==
  ASSUME Typed, CancelSpeak, OutputInv, UNCHANGED turn, \A u \in Turns : Speak(u) \notin cancelled,
         \A u \in Turns : Waiting(u)' => Waiting(u),
         InOrder(queue'[Output]), \A d \in Range(queue'[Output]) : d \in Range(queue[Output]),
         \A d \in Range(queue'[Output]) : coming' # 0 /\ d[1] = "reply" => coming' < d[2]
  PROVE  OutputInv'
<1>1. /\ cancelled' = cancelled \cup {Speak(speakTask)}
      /\ at' = [at EXCEPT ![Output] = "join"]
      /\ UNCHANGED <<active, speakTask, speak>>
  BY DEF CancelSpeak
<1>2. at'[Output] = "join" /\ \A u \in Turns : Speak(u) \in cancelled' => u = speakTask
  BY <1>1, TasksDiffer DEF Typed
<1>3. \A u \in Turns : Speaks(u)' <=> Speaks(u)
  BY <1>1 DEF Speaks
<1>4. SpeechInv'
  BY <1>1, <1>2, <1>3 DEF OutputInv, SpeechInv
<1>5. OrderInv'
  BY <1>1, <1>3 DEF OutputInv, OrderInv
<1>6. LastInv'
  BY <1>1 DEF OutputInv, LastInv, Begun
<1>7. QED  BY <1>4, <1>5, <1>6 DEF OutputInv

LEMMA ReplyTold ==
  ASSUME EngineInv, OutputInv, OnReply, UNCHANGED evars
  PROVE  OutputInv'
<1> DEFINE t == NextEvent(Output)[2]
<1>1. /\ at[Output] = "no" /\ queue[Output] # <<>> /\ queue[Output] \in Seq(Events)
      /\ NextEvent(Output) \in Range(queue[Output]) /\ NextEvent(Output) = <<"reply", t>> /\ t \in Ids
      /\ NextEvent(Output) = Head(queue[Output])
      /\ Rest(Output)[Output] = Tail(queue[Output])
      /\ Range(Rest(Output)[Output]) \subseteq Range(queue[Output])
      /\ queue' = Rest(Output) /\ Typed
  BY Taken, TasksDiffer DEF EngineInv, OnReply
<1>2. t # 0 /\ t \in Turns /\ Waiting(t)
  <2>1. <<"reply", t>>[1] = "reply" /\ <<"reply", t>>[2] = t
    OBVIOUS
  <2>2. t # 0
    BY <1>1, <2>1 DEF OutputInv, OrderInv
  <2>3. QED  BY <1>1, <2>2, Bounds DEF Ids, Turns, Waiting
<1>3. coming = 0 /\ \A u \in Turns : Speak(u) \notin cancelled
  BY <1>1 DEF OutputInv, SpeechInv
<1>4. /\ InOrder(queue'[Output]) /\ \A d \in Range(queue'[Output]) : d \in Range(queue[Output])
      /\ \A d \in Range(queue'[Output]) : d[1] = "reply" => t < d[2]
  BY <1>1, OrderTail DEF OutputInv, OrderInv
<1>5. turn' = turn
  BY DEF evars
<1> HIDE DEF t
<1>6. CASE speakTask # 0 /\ Speaks(speakTask)
  <2>1. CancelSpeak /\ coming' = t
    BY <1>6 DEF OnReply, t
  <2>2. \A u \in Turns : Waiting(u)' => Waiting(u)
    BY <1>2, <1>4, <2>1 DEF Waiting
  <2>3. QED  BY <1>1, <1>3, <1>4, <1>5, <2>1, <2>2, CancelSpeakTold
<1>7. CASE ~(speakTask # 0 /\ Speaks(speakTask))
  <2>1. StartSpeak(t) /\ UNCHANGED <<cancelled, at, coming>>
    BY <1>7 DEF OnReply, t
  <2>2. \A u \in Turns : ~Speaks(u)
    BY <1>7, TasksDiffer DEF OutputInv, SpeechInv
  <2>3. speak[t] = "none" /\ turn[t] \in {"speaking", "done"} /\ \A u \in Turns : speak[u] # "none" => u < t
    BY <1>2 DEF OutputInv, OrderInv
  <2>4. QED  BY <1>1, <1>2, <1>3, <1>4, <1>5, <2>1, <2>2, <2>3, StartSpeakTold
<1>8. QED  BY <1>6, <1>7

LEMMA CancelTold ==
  ASSUME EngineInv, OutputInv, OnCancel, UNCHANGED evars
  PROVE  OutputInv'
<1>1. /\ at[Output] = "no" /\ queue[Output] # <<>> /\ queue[Output] \in Seq(Events)
      /\ Rest(Output)[Output] = Tail(queue[Output])
      /\ Range(Rest(Output)[Output]) \subseteq Range(queue[Output])
      /\ queue' = Rest(Output) /\ Typed
  BY Taken, TasksDiffer DEF EngineInv, OnCancel
<1>2. coming = 0 /\ \A u \in Turns : Speak(u) \notin cancelled
  BY <1>1 DEF OutputInv, SpeechInv
<1>3. InOrder(queue'[Output]) /\ \A d \in Range(queue'[Output]) : d \in Range(queue[Output])
  BY <1>1, OrderTail DEF OutputInv, OrderInv
<1>4. turn' = turn
  BY DEF evars
<1>5. CASE NextEvent(Output)[2] = active /\ speakTask # 0 /\ Speaks(speakTask)
  <2>1. CancelSpeak /\ UNCHANGED coming
    BY <1>5 DEF OnCancel
  <2>2. \A u \in Turns : Waiting(u)' => Waiting(u)
    BY <1>3, <2>1 DEF Waiting
  <2>3. QED  BY <1>1, <1>2, <1>3, <1>4, <2>1, <2>2, CancelSpeakTold
<1>6. CASE ~(NextEvent(Output)[2] = active /\ speakTask # 0 /\ Speaks(speakTask))
  <2>1. UNCHANGED <<cancelled, at, active, speakTask, coming, speak>>
    BY <1>6 DEF OnCancel, ovars
  <2>2. \A u \in Turns : (Speaks(u)' <=> Speaks(u)) /\ (Waiting(u)' => Waiting(u))
    BY <1>3, <2>1 DEF Speaks, Waiting
  <2>3. SpeechInv'
    BY <2>1, <2>2 DEF OutputInv, SpeechInv
  <2>4. OrderInv'
    BY <1>2, <1>3, <1>4, <2>1, <2>2 DEF OutputInv, OrderInv
  <2>5. LastInv'
    BY <2>1 DEF OutputInv, LastInv, Begun
  <2>6. QED  BY <2>3, <2>4, <2>5 DEF OutputInv
<1>7. QED  BY <1>5, <1>6

LEMMA SpeaksNextTold ==
  ASSUME EngineInv, OutputInv, SpeaksNext, UNCHANGED evars
  PROVE  OutputInv'
<1>1. /\ at[Output] = "joined" /\ at' = [at EXCEPT ![Output] = "no"] /\ coming \in Ids
      /\ UNCHANGED <<cancelled, queue>> /\ coming' = 0 /\ Typed
  BY DEF SpeaksNext, EngineInv, Typed
<1>2. /\ at'[Output] = "no" /\ (\A u \in Turns : ~Speaks(u)) /\ \A u \in Turns : Speak(u) \notin cancelled
  BY <1>1, TasksDiffer DEF Typed, OutputInv, SpeechInv
<1>3. turn' = turn
  BY DEF evars
<1>4. CASE coming # 0
  <2>1. StartSpeak(coming) /\ coming \in Turns
    BY <1>1, <1>4, Bounds DEF SpeaksNext, Ids, Turns
  <2>2. Waiting(coming)
    BY DEF Waiting
  <2>3. /\ speak[coming] = "none" /\ turn[coming] \in {"speaking", "done"}
        /\ \A u \in Turns : speak[u] # "none" => u < coming
    BY <2>1, <2>2 DEF OutputInv, OrderInv
  <2>4. /\ InOrder(queue'[Output])
        /\ \A d \in Range(queue'[Output]) : d \in Range(queue[Output]) /\ (d[1] = "reply" => coming < d[2])
    BY <1>1, <1>4 DEF OutputInv, OrderInv
  <2>5. QED  BY <1>1, <1>2, <1>3, <2>1, <2>3, <2>4, StartSpeakTold
<1>5. CASE coming = 0
  <2>1. UNCHANGED <<active, speakTask, speak>>
    BY <1>5 DEF SpeaksNext
  <2>2. \A u \in Turns : (Speaks(u)' <=> Speaks(u)) /\ (Waiting(u)' => Waiting(u))
    BY <1>1, <1>5, <2>1 DEF Speaks, Waiting
  <2>3. SpeechInv'
    BY <1>1, <1>2, <2>1, <2>2 DEF OutputInv, SpeechInv
  <2>4. OrderInv'
    BY <1>1, <1>3, <2>1, <2>2 DEF OutputInv, OrderInv
  <2>5. LastInv'
    BY <2>1 DEF OutputInv, LastInv, Begun
  <2>6. QED  BY <2>3, <2>4, <2>5 DEF OutputInv
<1>6. QED  BY <1>4, <1>5

(* The task that speaks goes on; no other does.                            *)
LEMMA SpeakGoes ==
  ASSUME EngineInv, OutputInv, NEW t \in Turns, Slice(Speak(t)),
         NEW how \in {"talking", "said", "unsaid"}, speak' = [speak EXCEPT ![t] = how],
         how = "unsaid" => speak[t] = "new",
         UNCHANGED <<coming, turn>>, queue'[Output] = queue[Output]
  PROVE  /\ OrderInv' /\ LastInv'
         /\ speakTask = t /\ active = t /\ \A u \in Turns : Speaks(u) <=> u = t
         /\ \A u \in Turns : speak[u] # "none" => u <= t
         /\ speak'[t] = how /\ \A u \in Turns \ {t} : speak'[u] = speak[u]
         /\ \A u \in Turns : Speaks(u)' <=> u = t /\ how = "talking"
<1>1. Speaks(t) /\ t \in Nat /\ speak \in [Turns -> {"none", "new", "talking", "said", "unsaid"}]
  BY SpeakSliceIs, Bounds DEF EngineInv, Typed, Turns
<1>2. speakTask = t /\ active = t /\ \A u \in Turns : Speaks(u) => u = t
  BY <1>1 DEF OutputInv, SpeechInv
<1>3. speak'[t] = how /\ \A u \in Turns \ {t} : speak'[u] = speak[u]
  BY <1>1
<1>4. \A u \in Turns : Speaks(u)' <=> u = t /\ how = "talking"
  BY <1>1, <1>2, <1>3 DEF Speaks
<1>5. \A u \in Turns : speak[u] # "none" => u <= t
  BY <1>1 DEF OutputInv, OrderInv
<1>6. speak[t] # "none" /\ \A u \in Turns : speak'[u] # "none" <=> speak[u] # "none"
  BY <1>1, <1>3 DEF Speaks
<1>7. \A u \in Turns : Waiting(u)' <=> Waiting(u)
  BY DEF Waiting
<1>8. OrderInv'
  <2>1. \A u \in Turns : Waiting(u)' => speak'[u] = "none" /\ turn'[u] \in {"speaking", "done"}
    BY <1>6, <1>7 DEF OutputInv, OrderInv
  <2>2. \A u \in Turns : speak'[u] # "none" => turn'[u] \in {"speaking", "done"}
    BY <1>6 DEF OutputInv, OrderInv
  <2>3. \A u, v \in Turns : Waiting(u)' /\ speak'[v] # "none" => v < u
    BY <1>6, <1>7 DEF OutputInv, OrderInv
  <2>4. \A u, v \in Turns : Speaks(u)' /\ speak'[v] # "none" => v <= u
    BY <1>4, <1>5, <1>6
  <2>5. QED  BY <2>1, <2>2, <2>3, <2>4 DEF OutputInv, OrderInv
<1>9. LastInv'
  <2>1. CASE how \in {"talking", "said"}
    <3>1. t \in Begun' /\ \A u \in Begun' : u \in Turns /\ (u = t \/ speak[u] # "none")
      BY <1>3, <2>1 DEF Begun
    <3>2. t \in Begun' /\ \A u \in Begun' : u <= t
      BY <1>1, <1>5, <3>1
    <3>3. QED  BY <3>2 DEF LastInv
  <2>2. CASE how = "unsaid"
    <3>1. speak[t] = "new" /\ Begun' = Begun
      BY <1>3, <2>2 DEF Begun
    <3>2. QED  BY <3>1 DEF OutputInv, LastInv
  <2>3. QED  BY <2>1, <2>2
<1>10. QED  BY <1>2, <1>3, <1>4, <1>5, <1>8, <1>9, <1>1

LEMMA SpeakWaitsTold ==
  ASSUME EngineInv, OutputInv, NEW t \in Turns, SpeakWaits(t), UNCHANGED evars
  PROVE  OutputInv'
<1>1. /\ speak' = [speak EXCEPT ![t] = "talking"] /\ Slice(Speak(t))
      /\ UNCHANGED <<cancelled, queue, at, active, speakTask, coming, turn>>
  BY DEF SpeakWaits, SpeakSlice, evars
<1>2. /\ OrderInv' /\ LastInv' /\ speakTask = t /\ active = t
      /\ \A u \in Turns : (Speaks(u) <=> u = t) /\ (Speaks(u)' <=> u = t)
  BY <1>1, SpeakGoes
<1>3. SpeechInv'
  BY <1>1, <1>2 DEF OutputInv, SpeechInv
<1>4. QED  BY <1>2, <1>3 DEF OutputInv

LEMMA SpeakEndsTold ==
  ASSUME EngineInv, OutputInv, NEW t \in Turns, SpeakEnds(t), UNCHANGED evars
  PROVE  OutputInv'
<1>1. /\ speak' = [speak EXCEPT ![t] = "said"] /\ Slice(Speak(t)) /\ Publish(Engine, <<"done", t>>)
      /\ UNCHANGED <<cancelled, speakTask, coming, turn>>
  BY DEF SpeakEnds, SpeakSlice, evars
<1>2. <<"done", t>> \in Events /\ running = Nobody
  BY <1>1, EventParts, SpeakSliceIs, TasksDiffer DEF Kinds
<1>3. queue'[Output] = queue[Output] /\ at'[Output] = at[Output]
  BY <1>1, <1>2, Published, TasksDiffer DEF EngineInv
<1>4. OrderInv' /\ LastInv' /\ \A u \in Turns : ~Speaks(u)'
  BY <1>1, <1>3, SpeakGoes
<1>5. SpeechInv'
  BY <1>1, <1>3, <1>4 DEF OutputInv, SpeechInv
<1>6. QED  BY <1>4, <1>5 DEF OutputInv

LEMMA SpeakCancelledTold ==
  ASSUME EngineInv, OutputInv, NEW t \in Turns, SpeakCancelled(t), UNCHANGED evars
  PROVE  OutputInv'
<1>1. /\ Slice(Speak(t)) /\ Speak(t) \in cancelled /\ cancelled' = cancelled \ {Speak(t)}
      /\ at' = Joined(Output, speakTask = t)
      /\ UNCHANGED <<queue, speakTask, coming, turn>>
  BY DEF SpeakCancelled, evars
<1>2. PICK how \in {"said", "unsaid"} :
        speak' = [speak EXCEPT ![t] = how] /\ (how = "unsaid" => speak[t] # "talking")
  BY DEF SpeakCancelled
<1>3. how = "unsaid" => speak[t] = "new"
  BY <1>1, <1>2, SpeakSliceIs DEF Speaks
<1>4. OrderInv' /\ LastInv' /\ speakTask = t /\ \A u \in Turns : ~Speaks(u)'
  BY <1>1, <1>2, <1>3, SpeakGoes
<1>5. at[Output] = "join" /\ \A u \in Turns : Speak(u) \in cancelled => u = t
  BY <1>1, <1>4 DEF OutputInv, SpeechInv
<1>6. at'[Output] = "joined"
  BY <1>1, <1>4, <1>5, Joins, TasksDiffer DEF EngineInv
<1>7. \A u \in Turns : Speak(u) \notin cancelled'
  BY <1>1, <1>5
<1>8. SpeechInv'
  BY <1>1, <1>4, <1>6, <1>7 DEF OutputInv, SpeechInv
<1>9. QED  BY <1>4, <1>8 DEF OutputInv

(* The other steps tell the output nothing, or publish to it.              *)
LEMMA EngineTold ==
  ASSUME EngineInv, OutputInv, OnWake \/ OnFinal \/ GoesOn \/ OnDone, UNCHANGED ovars
  PROVE  OutputInv'
<1>1. /\ queue \in [Actors -> Seq(Events)] /\ at \in [Actors -> Waits]
      /\ turn \in [Turns -> {"none", "new", "thinking", "speaking", "done"}]
  BY DEF EngineInv, Typed
<1>2. \/ Rest(Engine)[Output] = queue[Output] /\ Rest(Engine) \in [Actors -> Seq(Events)]
      \/ GoesOn
  BY Taken, TasksDiffer DEF EngineInv, OnWake, OnFinal, OnDone
<1>3. queue'[Output] = queue[Output]
  BY <1>1, <1>2, TasksDiffer DEF OnWake, OnFinal, OnDone, GoesOn
<1>4. UNCHANGED cancelled /\ at'[Output] = at[Output]
  BY <1>1, TasksDiffer DEF OnWake, OnFinal, OnDone, GoesOn
<1>5. \A t \in Turns : turn[t] \in {"speaking", "done"} => turn'[t] \in {"speaking", "done"}
  <2>1. CASE OnFinal
    <3>1. CASE NextEvent(Engine)[2] = session /\ state = "LISTENING"
      <4>1. session \in Turns /\ turn[session] = "none"
        BY <3>1, OthersAreQuiet DEF EngineInv, SessionInv
      <4>2. turn' = [turn EXCEPT ![session] = "new"]
        BY <2>1, <3>1 DEF OnFinal
      <4>3. QED  BY <1>1, <4>1, <4>2
    <3>2. CASE ~(NextEvent(Engine)[2] = session /\ state = "LISTENING")
      BY <2>1, <3>2 DEF OnFinal
    <3>3. QED  BY <3>1, <3>2
  <2>2. CASE OnWake \/ GoesOn \/ OnDone
    BY <2>2 DEF OnWake, GoesOn, OnDone
  <2>3. QED  BY <2>1, <2>2
<1>6. QED  BY <1>3, <1>4, <1>5, OutputRests

LEMMA BargeTold ==
  ASSUME EngineInv, OutputInv, OnBarge, UNCHANGED <<ovars, inputs>>
  PROVE  OutputInv'
<1>1. at \in [Actors -> Waits] /\ turn' = turn /\ Typed
  BY DEF EngineInv, Typed, OnBarge
<1>2. CASE NextEvent(Engine)[2] = session /\ session # 0
  <2> DEFINE e == <<"cancel", session>>
  <2>1. session \in Turns /\ e \in Events /\ e[1] = "cancel"
    BY <1>2, OthersAreQuiet, EventParts, TasksDiffer DEF Kinds
  <2>2. queue'[Output] = Put(queue[Output], e)
    BY <1>2, BargeTells
  <2>3. at'[Output] = at[Output] \/ (at[Output] = "get" /\ at'[Output] = "no")
    BY <1>1, <1>2, TasksDiffer DEF OnBarge, StopsSpeech
  <2>4. cancelled' = cancelled \/ cancelled' = cancelled \cup {Run(turnTask)}
    BY <1>2 DEF OnBarge, StopsSpeech
  <2>5. \A t \in Turns : Speak(t) \in cancelled' <=> Speak(t) \in cancelled
    BY <1>1, <2>4, TasksDiffer DEF Typed
  <2> HIDE DEF e
  <2>6. QED  BY <1>1, <2>1, <2>2, <2>3, <2>5, OutputHears
<1>3. CASE ~(NextEvent(Engine)[2] = session /\ session # 0)
  <2>1. queue' = Rest(Engine) /\ UNCHANGED <<cancelled, at>>
    BY <1>3 DEF OnBarge
  <2>2. Rest(Engine)[Output] = queue[Output]
    BY Taken, TasksDiffer DEF EngineInv, OnBarge
  <2>3. QED  BY <1>1, <2>1, <2>2, OutputRests
<1>4. QED  BY <1>2, <1>3

LEMMA RepliesTold ==
  ASSUME EngineInv, OutputInv, NEW t \in Turns, RunSlice(t), Replies(t, "THINKING"),
         t = session, turn[t] \in {"new", "thinking"}, UNCHANGED ovars
  PROVE  OutputInv'
<1> DEFINE e == <<"reply", t>>
<1>1. turn' = [turn EXCEPT ![t] = "speaking"] /\ Publish(Output, e) /\ UNCHANGED cancelled
  BY DEF Replies
<1>2. e \in Events /\ e[2] = t /\ running = Nobody
  BY EventParts, TasksDiffer, TurnSliceIs DEF Kinds, RunSlice
<1> HIDE DEF e
<1>3. /\ queue'[Output] = Put(queue[Output], e)
      /\ at'[Output] = at[Output] \/ (at[Output] = "get" /\ at'[Output] = "no")
  BY <1>1, <1>2, Published, TasksDiffer DEF EngineInv
<1>4. /\ turn'[t] = "speaking" /\ \A u \in Turns \ {t} : turn'[u] = turn[u]
  BY <1>1 DEF EngineInv, Typed
<1>5. speak[t] = "none"
  BY DEF OutputInv, OrderInv
<1>6. \A u \in Turns : Waiting(u) \/ speak[u] # "none" => u < t
  <2>1. t = turns /\ turns \in Nat /\ \A u \in Turns : u \in Nat /\ (turn[u] # "none" => u <= turns)
    BY OthersAreQuiet, TasksDiffer, Bounds DEF EngineInv, Typed, Ids, Turns, SessionInv
  <2>2. \A u \in Turns : Waiting(u) \/ speak[u] # "none" => turn[u] \in {"speaking", "done"}
    BY DEF OutputInv, OrderInv
  <2>3. \A u \in Turns : Waiting(u) \/ speak[u] # "none" => u # t /\ u <= turns
    BY <2>1, <2>2
  <2>4. QED  BY <2>1, <2>3
<1>7. \A u \in Turns : turn[u] \in {"speaking", "done"} => turn'[u] \in {"speaking", "done"}
  BY <1>4
<1>8. QED  BY <1>1, <1>2, <1>3, <1>4, <1>5, <1>6, <1>7, OutputHears DEF EngineInv

LEMMA TurnsTold ==
  ASSUME EngineInv, OutputInv, NEW t \in Turns, UNCHANGED ovars,
         TurnStarts(t) \/ TurnAnswers(t) \/ TurnSpoken(t) \/ TurnCancelled(t)
  PROVE  OutputInv'
<1>1. turn \in [Turns -> {"none", "new", "thinking", "speaking", "done"}] /\ Typed /\ LineInv
  BY DEF EngineInv, Typed
<1>2. CASE RunSlice(t) /\ turn[t] = "new" /\ state = "COMMITTING" /\ Replies(t, "THINKING")
  BY <1>2, RunSliceIs, RepliesTold DEF LeftBehind
<1>3. CASE RunSlice(t) /\ turn[t] = "thinking" /\ Replies(t, state)
  <2>1. t = session /\ state = "THINKING"
    BY <1>3, RunSliceIs
  <2>2. QED  BY <1>3, <2>1, RepliesTold
<1>4. CASE /\ \E how \in {"thinking", "done"} : turn' = [turn EXCEPT ![t] = how]
           /\ turn[t] \in {"speaking", "done"} => turn'[t] = "done"
           /\ queue' = queue /\ at'[Output] = at[Output]
           /\ \A u \in Turns : Speak(u) \in cancelled' <=> Speak(u) \in cancelled
  <2>1. \A u \in Turns \ {t} : turn'[u] = turn[u]
    BY <1>1, <1>4
  <2>2. QED  BY <1>4, <2>1, OutputRests
<1>5. CASE /\ RunSlice(t) /\ turn[t] = "new" /\ state = "COMMITTING"
           /\ turn' = [turn EXCEPT ![t] = "thinking"] /\ UNCHANGED <<cancelled, queue, at>>
  BY <1>1, <1>4, <1>5
<1>6. CASE RunSlice(t) /\ turn[t] = "new" /\ state # "COMMITTING" /\ Replies(t, state)
  <2>1. state = "LISTENING"
    BY <1>6, RunSliceIs DEF LeftBehind
  <2>2. turn' = [turn EXCEPT ![t] = "done"] /\ at' = Joined(Engine, turnTask = t) /\ UNCHANGED <<queue, cancelled>>
    BY <1>6, <2>1 DEF Replies
  <2>3. at'[Output] = at[Output]
    BY <1>1, <2>2, Joins, TasksDiffer
  <2>4. turn'[t] = "done"
    BY <1>1, <2>2
  <2>5. QED  BY <1>4, <2>2, <2>3, <2>4
<1>7. CASE TurnSpoken(t) \/ TurnCancelled(t)
  <2>1. turn' = [turn EXCEPT ![t] = "done"] /\ at' = Joined(Engine, turnTask = t) /\ UNCHANGED queue
    BY <1>7 DEF TurnSpoken, TurnCancelled
  <2>2. at'[Output] = at[Output]
    BY <1>1, <2>1, Joins, TasksDiffer
  <2>3. \A u \in Turns : Speak(u) \in cancelled' <=> Speak(u) \in cancelled
    BY <1>7, TasksDiffer DEF TurnSpoken, TurnCancelled
  <2>4. turn'[t] = "done"
    BY <1>1, <2>1
  <2>5. QED  BY <1>4, <2>1, <2>2, <2>3, <2>4
<1>8. QED  BY <1>2, <1>3, <1>5, <1>6, <1>7 DEF TurnStarts, TurnAnswers

LEMMA OthersTold ==
  ASSUME EngineInv, OutputInv, UNCHANGED <<ovars, turn>>,
         \/ \E a \in Actors : Resumes(a) \/ WaitsForEvent(a)
         \/ \E e \in Events : Input(e)
         \/ \E task \in Tasks : Ready(task)
         \/ Clock
  PROVE  OutputInv'
<1>1. /\ queue \in [Actors -> Seq(Events)] /\ at \in [Actors -> Waits] /\ Typed /\ LineInv
  BY DEF EngineInv, Typed
<1>2. UNCHANGED cancelled
  BY DEF Resumes, WaitsForEvent, Input, Ready, Clock, lvars
<1>3. queue'[Output] = queue[Output]
  <2>1. ASSUME NEW e \in Events, Input(e)
        PROVE  queue'[Output] = queue[Output]
    BY <1>1, <2>1, Published, TasksDiffer DEF Input
  <2>2. QED  BY <2>1 DEF Resumes, WaitsForEvent, Ready, Clock, lvars
<1>4. at'[Output] = at[Output] \/ (at[Output] \notin {"join", "joined"} /\ at'[Output] \notin {"join", "joined"})
  <2>1. ASSUME NEW e \in Events, Input(e)
        PROVE  at'[Output] = at[Output]
    BY <1>1, <2>1, Published, TasksDiffer DEF Input
  <2>2. ASSUME NEW a \in Actors, WaitsForEvent(a)
        PROVE  at'[Output] = at[Output] \/ (at[Output] = "no" /\ at'[Output] = "get")
    BY <1>1, <2>2, TasksDiffer DEF WaitsForEvent, Awake
  <2>3. QED  BY <2>1, <2>2 DEF Resumes, Ready, Clock, lvars
<1>5. QED  BY <1>2, <1>3, <1>4, OutputRests

LEMMA OutputStarts == Init => OutputInv
<1> SUFFICES ASSUME Init
             PROVE  OutputInv
  OBVIOUS
<1>1. /\ queue[Output] = <<>> /\ at[Output] = "no" /\ cancelled = {}
      /\ active = 0 /\ speakTask = 0 /\ coming = 0
      /\ \A t \in Turns : speak[t] = "none"
  BY TasksDiffer DEF Init, LoopInit, OutputInit
<1>2. Range(queue[Output]) = {} /\ Begun = {} /\ InOrder(queue[Output])
  BY <1>1, Ranges DEF Begun, InOrder
<1>3. \A t \in Turns : ~Waiting(t) /\ ~Speaks(t)
  BY <1>1, <1>2, TasksDiffer DEF Waiting, Speaks
<1>4. QED  BY <1>1, <1>2, <1>3 DEF OutputInv, SpeechInv, OrderInv, LastInv

LEMMA OutputKeeps == EngineInv /\ OutputInv /\ [Next]_vars => OutputInv'
<1> SUFFICES ASSUME EngineInv, OutputInv, [Next]_vars
             PROVE  OutputInv'
  OBVIOUS
<1>1. CASE UNCHANGED vars
  BY <1>1, OutputRests DEF vars, lvars, evars
<1>2. CASE Next
  <2>1. CASE (\E a \in Actors : Resumes(a) \/ WaitsForEvent(a)) /\ UNCHANGED <<evars, bvars, ovars, inputs>>
    BY <2>1, OthersTold DEF evars
  <2>2. CASE (OnWake \/ OnFinal \/ OnBarge \/ GoesOn \/ OnDone) /\ UNCHANGED <<ovars, inputs>>
    BY <2>2, EngineTold, BargeTold
  <2>3. CASE (OnReply \/ OnCancel \/ SpeaksNext) /\ UNCHANGED <<evars, bvars, inputs>>
    BY <2>3, ReplyTold, CancelTold, SpeaksNextTold
  <2>4. ASSUME NEW t \in Turns, UNCHANGED <<ovars, inputs>>,
               TurnStarts(t) \/ TurnAnswers(t) \/ TurnSpoken(t) \/ TurnCancelled(t)
        PROVE  OutputInv'
    BY <2>4, TurnsTold
  <2>5. ASSUME NEW t \in Turns, UNCHANGED <<evars, bvars, inputs>>,
               SpeakWaits(t) \/ SpeakEnds(t) \/ SpeakCancelled(t)
        PROVE  OutputInv'
    BY <2>5, SpeakWaitsTold, SpeakEndsTold, SpeakCancelledTold
  <2>6. ASSUME NEW e \in Events, Input(e)
        PROVE  OutputInv'
    BY <2>6, OthersTold DEF Input, evars
  <2>7. ASSUME NEW task \in Tasks, Ready(task)
        PROVE  OutputInv'
    BY <2>7, OthersTold DEF Ready, evars
  <2>8. CASE Clock
    BY <2>8, OthersTold DEF Clock, evars
  <2>9. Typed
    BY DEF EngineInv
  <2>10. QED  BY <1>2, <2>1, <2>2, <2>3, <2>4, <2>5, <2>6, <2>7, <2>8, <2>9, Steps, TasksDiffer
<1>3. QED  BY <1>1, <1>2

-----------------------------------------------------------------------------
(* The mind keeps what it promises to whoever plays its speech.            *)
Voices == {t \in Turns : speak[t] = "talking"}
Latest == IF Begun = {} THEN 0 ELSE Max(Begun)

LEMMA Greatest ==
  ASSUME NEW S, S \subseteq Nat, NEW m \in S, \A u \in S : u <= m
  PROVE  Max(S) = m
<1>1. \A y \in S : m >= y
  OBVIOUS
<1>2. Max(S) \in S /\ \A y \in S : Max(S) >= y
  BY <1>1 DEF Max
<1>3. Max(S) \in Nat /\ m \in Nat /\ Max(S) >= m /\ Max(S) <= m
  BY <1>2
<1>4. QED  BY <1>3

(* The turn that speaks comes after every turn that has begun.             *)
LEMMA NextVoice ==
  ASSUME EngineInv, OutputInv, NEW t \in Turns, Speaks(t)
  PROVE  /\ t \in Nat /\ \A u \in Turns : Speaks(u) => u = t
         /\ speak[t] = "new" => Voices = {} /\ t > Latest
         /\ speak[t] = "talking" => Voices = {t} /\ Latest = t
<1>1. t \in Nat /\ Begun \subseteq Nat /\ \A u \in Turns : speak[u] # "none" => u <= t
  BY Bounds DEF OutputInv, OrderInv, Begun, Turns
<1>2. \A u \in Turns : Speaks(u) => u = t
  BY DEF OutputInv, SpeechInv
<1>3. \A u \in Begun : u <= t /\ u \in Nat
  BY <1>1 DEF Begun
<1>4. CASE speak[t] = "new"
  <2>1. Voices = {}
    BY <1>2, <1>4 DEF Voices, Speaks
  <2>2. CASE Begun # {}
    <3>1. PICK m \in Begun : \A u \in Begun : u <= m
      BY <2>2 DEF OutputInv, LastInv
    <3>2. Latest = m
      BY <1>1, <2>2, <3>1, Greatest DEF Latest
    <3>3. m # t /\ m <= t /\ m \in Nat
      BY <1>3, <1>4, <3>1 DEF Begun
    <3>4. QED  BY <1>1, <1>2, <1>4, <2>1, <3>2, <3>3
  <2>3. CASE Begun = {}
    BY <1>1, <1>2, <1>4, <2>1, <2>3, TasksDiffer, Bounds DEF Latest, Turns
  <2>4. QED  BY <2>2, <2>3
<1>5. CASE speak[t] = "talking"
  <2>1. Voices = {t}
    BY <1>2, <1>5 DEF Voices, Speaks
  <2>2. t \in Begun
    BY <1>5 DEF Begun
  <2>3. Latest = t
    BY <1>1, <1>3, <2>2, Greatest DEF Latest
  <2>4. QED  BY <1>1, <1>2, <1>5, <2>1, <2>3
<1>6. QED  BY <1>4, <1>5 DEF Speaks

LEMMA VoiceRests ==
  ASSUME \A t \in Turns : /\ speak'[t] = "talking" <=> speak[t] = "talking"
                          /\ speak'[t] = "said" <=> speak[t] = "said"
  PROVE  UNCHANGED <<Voices, Latest>>
<1>1. Voices' = Voices /\ Begun' = Begun
  BY DEF Voices, Begun
<1>2. QED  BY <1>1 DEF Latest

Said(t) == Voices = {} /\ t > Latest /\ Latest' = t
VoiceStep(t) ==
  \/ Said(t) /\ Voices' = {t}
  \/ Voices # {} /\ Voices' = {} /\ Latest' = Latest
  \/ Said(t) /\ Voices' = Voices

LEMMA SpeakSteps ==
  ASSUME EngineInv, OutputInv, EngineInv', OutputInv', NEW t \in Turns, UNCHANGED evars,
         SpeakWaits(t) \/ SpeakEnds(t) \/ SpeakCancelled(t)
  PROVE  VoiceStep(t) \/ UNCHANGED <<Voices, Latest>>
<1>1. Slice(Speak(t)) /\ speak \in [Turns -> {"none", "new", "talking", "said", "unsaid"}]
  BY DEF SpeakWaits, SpeakEnds, SpeakCancelled, SpeakSlice, EngineInv, Typed
<1>2. /\ Speaks(t) /\ t \in Nat /\ \A u \in Turns : Speaks(u) => u = t
      /\ speak[t] = "new" => Voices = {} /\ t > Latest
      /\ speak[t] = "talking" => Voices = {t} /\ Latest = t
  BY <1>1, SpeakSliceIs, NextVoice
<1>3. /\ Begun \subseteq Nat
      /\ \A u \in Turns : speak[u] # "none" => u <= t
  BY <1>2, Bounds DEF OutputInv, OrderInv, Begun, Turns
<1>4. ASSUME NEW how \in {"talking", "said"}, speak' = [speak EXCEPT ![t] = how]
      PROVE  Latest' = t /\ Voices' = (IF how = "talking" THEN {t} ELSE {})
  <2>1. speak'[t] = how /\ \A u \in Turns \ {t} : speak'[u] = speak[u]
    BY <1>1, <1>4
  <2>2. t \in Begun' /\ Begun' \subseteq Nat /\ \A u \in Begun' : u <= t
    BY <1>2, <1>3, <2>1, Bounds DEF Begun, Turns
  <2>3. Begun' # {} /\ Max(Begun') = t
    BY <2>2, Greatest
  <2>4. Latest' = t
    BY <2>3 DEF Latest
  <2>5. Voices' = IF how = "talking" THEN {t} ELSE {}
    BY <1>2, <2>1 DEF Voices, Speaks
  <2>6. QED  BY <2>4, <2>5
<1>5. CASE SpeakWaits(t)
  <2>1. Latest' = t /\ Voices' = {t}
    BY <1>4, <1>5 DEF SpeakWaits
  <2>2. QED  BY <1>2, <2>1 DEF VoiceStep, Said, Speaks
<1>6. CASE SpeakEnds(t)
  <2>1. Latest' = t /\ Voices' = {}
    BY <1>4, <1>6 DEF SpeakEnds
  <2>2. QED  BY <1>2, <2>1 DEF VoiceStep, Said, Speaks
<1>7. CASE SpeakCancelled(t)
  <2>1. CASE speak[t] = "talking"
    <3>1. Latest' = t /\ Voices' = {}
      BY <1>4, <1>7, <2>1 DEF SpeakCancelled
    <3>2. QED  BY <1>2, <2>1, <3>1 DEF VoiceStep
  <2>2. CASE speak[t] = "new"
    <3>1. speak' = [speak EXCEPT ![t] = "unsaid"]
      BY <1>7, <2>2 DEF SpeakCancelled
    <3>2. QED  BY <1>1, <2>2, <3>1, VoiceRests
  <2>3. QED  BY <1>2, <2>1, <2>2 DEF Speaks
<1>8. QED  BY <1>5, <1>6, <1>7

LEMMA VoiceSteps ==
  ASSUME EngineInv, OutputInv, EngineInv', OutputInv', [Next]_vars
  PROVE  (\E t \in Turns : VoiceStep(t)) \/ UNCHANGED <<Voices, Latest>>
<1>1. CASE UNCHANGED ovars
  BY <1>1, VoiceRests DEF ovars
<1>2. CASE (OnReply \/ OnCancel \/ SpeaksNext) /\ UNCHANGED evars
  <2>1. CASE UNCHANGED speak
    BY <2>1, VoiceRests
  <2>2. ASSUME NEW t \in Turns, StartSpeak(t), speak[t] = "none"
        PROVE  UNCHANGED <<Voices, Latest>>
    <3>1. speak \in [Turns -> {"none", "new", "talking", "said", "unsaid"}] /\ speak' = [speak EXCEPT ![t] = "new"]
      BY <2>2 DEF EngineInv, Typed, StartSpeak
    <3>2. QED  BY <2>2, <3>1, VoiceRests
  <2>3. CASE OnReply
    <3> DEFINE t == NextEvent(Output)[2]
    <3>1. NextEvent(Output) \in Range(queue[Output]) /\ NextEvent(Output) = <<"reply", t>> /\ t \in Ids
      BY <2>3, Taken, TasksDiffer DEF EngineInv, OnReply
    <3>2. <<"reply", t>>[1] = "reply" /\ <<"reply", t>>[2] = t
      OBVIOUS
    <3>3. t \in Turns /\ speak[t] = "none"
      BY <3>1, <3>2, Bounds DEF OutputInv, OrderInv, Waiting, Ids, Turns
    <3>4. StartSpeak(t) \/ UNCHANGED speak
      BY <2>3 DEF OnReply, CancelSpeak
    <3> HIDE DEF t
    <3>5. QED  BY <2>1, <2>2, <3>3, <3>4
  <2>4. CASE OnCancel
    BY <2>1, <2>4 DEF OnCancel, CancelSpeak, ovars
  <2>5. CASE SpeaksNext
    <3>1. coming # 0 => coming \in Turns /\ speak[coming] = "none"
      <4>1. coming # 0 => coming \in Turns
        BY Bounds DEF EngineInv, Typed, Ids, Turns
      <4>2. Waiting(coming)
        BY DEF Waiting
      <4>3. QED  BY <4>1, <4>2 DEF OutputInv, OrderInv
    <3>2. UNCHANGED speak \/ (coming # 0 /\ StartSpeak(coming))
      BY <2>5 DEF SpeaksNext
    <3>3. QED  BY <2>1, <2>2, <3>1, <3>2
  <2>6. QED  BY <1>2, <2>3, <2>4, <2>5
<1>3. ASSUME NEW t \in Turns, UNCHANGED evars, SpeakWaits(t) \/ SpeakEnds(t) \/ SpeakCancelled(t)
      PROVE  VoiceStep(t) \/ UNCHANGED <<Voices, Latest>>
  BY <1>3, SpeakSteps
<1>4. CASE UNCHANGED vars
  BY <1>1, <1>4 DEF vars
<1>5. CASE Next
  <2>1. Typed
    BY DEF EngineInv
  <2>2. QED  BY <1>1, <1>2, <1>3, <1>5, <2>1, Steps DEF Input, Ready, Clock
<1>6. QED  BY <1>4, <1>5

-----------------------------------------------------------------------------
(* Silence.  With a queue that has room for two events of every turn, no   *)
(* order to the output is lost.                                            *)
LEMMA OrdersFit ==
  ASSUME NEW q \in Seq(Events), Distinct(q), Range(q) \subseteq Orders
  PROVE  Len(q) <= 2 * MaxInputs
<1>1. IsFiniteSet(Turns) /\ Cardinality(Turns) = MaxInputs
  <2>1. 1..MaxInputs = {} => MaxInputs = 0
    BY Bounds
  <2>2. QED  BY <2>1, FS_Interval, Bounds DEF Turns
<1>2. IsFiniteSet({"reply", "cancel"}) /\ Cardinality({"reply", "cancel"}) = 2
  <2>1. IsFiniteSet({"reply"}) /\ Cardinality({"reply"}) = 1
    BY FS_Singleton
  <2>2. "cancel" \notin {"reply"} /\ {"reply"} \cup {"cancel"} = {"reply", "cancel"}
    OBVIOUS
  <2>3. IsFiniteSet({"reply"} \cup {"cancel"}) /\ Cardinality({"reply"} \cup {"cancel"}) = 1 + 1
    BY <2>1, <2>2, FS_AddElement
  <2>4. QED  BY <2>2, <2>3
<1>3. IsFiniteSet(Orders) /\ Cardinality(Orders) = 2 * MaxInputs
  BY <1>1, <1>2, FS_Product DEF Orders
<1>4. DOMAIN q = 1..Len(q) /\ Len(q) \in Nat /\ IsFiniteSet(1..Len(q)) /\ Cardinality(1..Len(q)) = Len(q)
  <2>1. Len(q) \in Nat /\ DOMAIN q = 1..Len(q)
    OBVIOUS
  <2>2. QED  BY <2>1, FS_Interval
<1>5. q \in Injection(1..Len(q), Orders)
  <2>1. q \in [1..Len(q) -> Orders]
    BY <1>4 DEF Range
  <2>2. QED  BY <2>1 DEF Injection, IsInjective, Distinct
<1>6. Cardinality(1..Len(q)) <= Cardinality(Orders)
  BY <1>3, <1>5, FS_Injection DEF ExistsInjection
<1>7. QED  BY <1>3, <1>4, <1>6

LEMMA OrderIsPut ==
  ASSUME QueueCap >= 2 * MaxInputs,
         NEW q \in Seq(Events), Distinct(q), Range(q) \subseteq Orders,
         NEW e \in Orders, e \notin Range(q)
  PROVE  /\ Put(q, e) = Append(q, e)
         /\ Distinct(Put(q, e)) /\ Range(Put(q, e)) = Range(q) \cup {e}
<1> DEFINE r == Append(q, e)
<1>1. /\ e \in Events /\ r \in Seq(Events) /\ Len(r) = Len(q) + 1 /\ Len(q) \in Nat
      /\ \A i \in 1..Len(q) : r[i] = q[i]
      /\ r[Len(q) + 1] = e /\ DOMAIN q = 1..Len(q) /\ DOMAIN r = 1..Len(r)
  BY TasksDiffer DEF Orders, Events, Kinds
<1> HIDE DEF r
<1>2. \A i \in 1..Len(q) : q[i] # e
  BY <1>1 DEF Range
<1>3. Distinct(r)
  BY <1>1, <1>2 DEF Distinct
<1>4. Range(r) = Range(q) \cup {e}
  BY <1>1 DEF Range
<1>5. Len(r) <= 2 * MaxInputs
  BY <1>1, <1>3, <1>4, OrdersFit
<1>6. Len(q) < QueueCap
  BY <1>1, <1>5, Bounds
<1>7. Put(q, e) = r
  BY <1>6 DEF Put, r
<1>8. QED  BY <1>3, <1>4, <1>7 DEF r

(* An order to be silent stays behind the reply it is for.                 *)
LEMMA HushAppend ==
  ASSUME NEW q \in Seq(Events), NEW e \in Events, NEW t \in Turns
  PROVE  /\ Hushed(q, t) /\ e # <<"reply", t>> => Hushed(Append(q, e), t)
         /\ e = <<"cancel", t>> => Hushed(Append(q, e), t)
<1> DEFINE r == Append(q, e)
<1>1. /\ Len(r) = Len(q) + 1 /\ Len(q) \in Nat
      /\ \A i \in 1..Len(q) : r[i] = q[i]
      /\ r[Len(q) + 1] = e
  OBVIOUS
<1> HIDE DEF r
<1>2. ASSUME Hushed(q, t), e # <<"reply", t>>
      PROVE  Hushed(r, t)
  <2>1. PICK i \in 1..Len(q) : /\ q[i] = <<"cancel", t>>
                               /\ \A j \in 1..Len(q) : q[j] = <<"reply", t>> => j < i
    BY <1>2 DEF Hushed
  <2>2. i \in 1..Len(r) /\ r[i] = <<"cancel", t>>
    BY <1>1, <2>1
  <2>3. ASSUME NEW j \in 1..Len(r), r[j] = <<"reply", t>>
        PROVE  j < i
    <3>1. j # Len(q) + 1
      BY <1>1, <1>2, <2>3
    <3>2. j \in 1..Len(q) /\ q[j] = <<"reply", t>>
      BY <1>1, <2>3, <3>1
    <3>3. QED  BY <2>1, <3>2
  <2>4. QED  BY <2>2, <2>3 DEF Hushed
<1>3. ASSUME e = <<"cancel", t>>
      PROVE  Hushed(r, t)
  <2>1. e # <<"reply", t>>
    BY <1>3
  <2>2. Len(r) \in 1..Len(r) /\ r[Len(r)] = <<"cancel", t>>
    BY <1>1, <1>3
  <2>3. ASSUME NEW j \in 1..Len(r), r[j] = <<"reply", t>>
        PROVE  j < Len(r)
    <3>1. j # Len(q) + 1
      BY <1>1, <2>1, <2>3
    <3>2. QED  BY <1>1, <3>1
  <2>4. QED  BY <2>2, <2>3 DEF Hushed
<1>4. QED  BY <1>2, <1>3 DEF r

LEMMA HushTail ==
  ASSUME NEW q \in Seq(Events), q # <<>>, NEW t \in Turns, Hushed(q, t)
  PROVE  \/ Hushed(Tail(q), t)
         \/ Head(q) = <<"cancel", t>> /\ <<"reply", t>> \notin Range(q)
<1>1. /\ Len(q) \in Nat \ {0} /\ Len(Tail(q)) = Len(q) - 1 /\ Head(q) = q[1]
      /\ \A i \in 1..Len(Tail(q)) : Tail(q)[i] = q[i + 1]
      /\ DOMAIN q = 1..Len(q)
  BY TailShifts
<1>2. PICK i \in 1..Len(q) : /\ q[i] = <<"cancel", t>>
                             /\ \A j \in 1..Len(q) : q[j] = <<"reply", t>> => j < i
  BY DEF Hushed
<1>3. CASE i = 1
  <2>1. \A j \in 1..Len(q) : q[j] # <<"reply", t>>
    BY <1>2, <1>3
  <2>2. QED  BY <1>1, <1>2, <1>3, <2>1 DEF Range
<1>4. CASE i # 1
  <2>1. i - 1 \in 1..Len(Tail(q)) /\ Tail(q)[i - 1] = <<"cancel", t>>
    BY <1>1, <1>2, <1>4
  <2>2. ASSUME NEW j \in 1..Len(Tail(q)), Tail(q)[j] = <<"reply", t>>
        PROVE  j < i - 1
    <3>1. j + 1 \in 1..Len(q) /\ q[j + 1] = <<"reply", t>>
      BY <1>1, <2>2
    <3>2. j + 1 < i
      BY <1>2, <3>1
    <3>3. QED  BY <1>2, <3>2
  <2>3. QED  BY <2>1, <2>2 DEF Hushed
<1>5. QED  BY <1>3, <1>4

(* A step that tells the output nothing, ends no turn that speaks and puts *)
(* none in line before its speech has ended.                               *)
LEMMA SilenceRests ==
  ASSUME SilenceInv, UNCHANGED ovars, queue'[Output] = queue[Output],
         \A t \in Turns : /\ turn'[t] = "speaking" <=> turn[t] = "speaking"
                          /\ Run(t) \in cancelled' <=> Run(t) \in cancelled
                          /\ Speak(t) \in cancelled' <=> Speak(t) \in cancelled
                          /\ turn[t] = "speaking" /\ InLine(Run(t))' => InLine(Run(t)) \/ speak[t] = "said",
         \A e \in Range(queue'[Engine]) : e[1] = "done" => e \in Range(queue[Engine]),
         \A e \in Range(queue[Output]) : e[1] = "cancel" /\ e[2] = session' => Interrupting',
         at'[Output] = "get" => queue[Output] = <<>>
  PROVE  SilenceInv'
<1> USE DEF ovars
<1>1. \A t \in Turns : (Speaks(t)' <=> Speaks(t)) /\ (Waiting(t)' <=> Waiting(t))
  BY DEF Speaks, Waiting
<1>2. HushInv'
  BY <1>1 DEF SilenceInv, HushInv
<1>3. ToldInv'
  BY DEF SilenceInv, ToldInv
<1>4. SaidInv'
  BY DEF SilenceInv, SaidInv
<1>5. QED  BY <1>2, <1>3, <1>4 DEF SilenceInv

LEMMA LoopSilent ==
  ASSUME EngineInv, SilenceInv, UNCHANGED <<ovars, evars>>,
         \/ \E a \in Actors : Resumes(a) \/ WaitsForEvent(a)
         \/ \E e \in Events : e[1] # "done" /\ Input(e)
         \/ \E t \in Turns : (turn[t] = "thinking" /\ Ready(Run(t))) \/ Ready(Speak(t))
         \/ Clock
  PROVE  SilenceInv'
<1> USE DEF evars
<1>1. /\ queue \in [Actors -> Seq(Events)] /\ at \in [Actors -> Waits] /\ Typed /\ LineInv /\ Line(ready)
  BY GoodLine DEF EngineInv, Typed
<1>2. UNCHANGED cancelled
  BY DEF Resumes, WaitsForEvent, Input, Ready, Clock, lvars
<1>3. /\ queue'[Output] = queue[Output] /\ \A e \in Range(queue'[Engine]) : e[1] = "done" => e \in Range(queue[Engine])
      /\ at'[Output] = "get" => queue[Output] = <<>>
      /\ Interrupting' <=> Interrupting
  <2>1. ASSUME NEW e \in Events, Input(e), e[1] # "done"
        PROVE  /\ queue'[Output] = queue[Output] /\ at'[Output] = at[Output]
               /\ Range(queue'[Engine]) \subseteq Range(queue[Engine]) \cup {e}
               /\ at'[Engine] = at[Engine] \/ (at[Engine] = "get" /\ at'[Engine] = "no")
    BY <1>1, <2>1, Published, TasksDiffer DEF Input
  <2>2. ASSUME NEW a \in Actors, WaitsForEvent(a)
        PROVE  /\ queue' = queue
               /\ at'[Output] = at[Output] \/ queue[Output] = <<>>
               /\ at'[Engine] = at[Engine] \/ (at[Engine] = "no" /\ at'[Engine] = "get")
    BY <1>1, <2>2, TasksDiffer DEF WaitsForEvent, Awake
  <2>3. CASE UNCHANGED <<queue, at>>
    BY <2>3 DEF SilenceInv, ToldInv, Interrupting
  <2>4. QED  BY <2>1, <2>2, <2>3 DEF Resumes, Ready, Clock, lvars, SilenceInv, ToldInv, Interrupting
<1>4. ASSUME NEW t \in Turns, turn[t] = "speaking", InLine(Run(t))'
      PROVE  InLine(Run(t))
  <2>1. ASSUME NEW a \in Actors, Resumes(a)
        PROVE  InLine(Run(t))
    <3>1. Moved({Head(ready)}, {})
      BY <1>1, <2>1, LineShrinks DEF Resumes, Slice
    <3>2. QED  BY <1>4, <3>1, MovedIn
  <2>2. ASSUME NEW e \in Events, Input(e)
        PROVE  InLine(Run(t))
    <3>1. ready' = ready \o Woken(Engine) /\ (Woken(Engine) = <<>> \/ (Woken(Engine) = <<Engine>> /\ ~InLine(Engine)))
      BY <1>1, <2>2, Published, TasksDiffer DEF Input
    <3>2. Moved({}, Range(Woken(Engine)))
      BY <1>1, <3>1, LineGrows, TasksDiffer
    <3>3. Run(t) \notin Range(Woken(Engine))
      BY <3>1, Ranges, TasksDiffer
    <3>4. QED  BY <1>4, <3>2, <3>3, MovedIn
  <2>3. ASSUME NEW task \in Tasks, Ready(task), task # Run(t)
        PROVE  InLine(Run(t))
    <3>1. ready' = ready \o <<task>> /\ Range(<<task>>) = {task} /\ ~InLine(task)
      BY <1>1, <2>3, AppendIsConcat, Ranges DEF Ready, Line
    <3>2. Moved({}, {task})
      BY <1>1, <3>1, LineGrows
    <3>3. QED  BY <1>4, <2>3, <3>2, MovedIn
  <2>4. ASSUME NEW u \in Turns, (turn[u] = "thinking" /\ Ready(Run(u))) \/ Ready(Speak(u))
        PROVE  InLine(Run(t))
    BY <1>4, <2>3, <2>4, TasksDiffer
  <2>5. CASE UNCHANGED ready
    BY <1>4, <2>5 DEF InLine
  <2>6. QED  BY <2>1, <2>2, <2>4, <2>5 DEF WaitsForEvent, Clock, lvars
<1>5. \A e \in Range(queue[Output]) : e[1] = "cancel" /\ e[2] = session' => Interrupting'
  BY <1>3 DEF SilenceInv, ToldInv
<1>6. QED  BY <1>2, <1>3, <1>4, <1>5, SilenceRests

(* No order names a turn that is still to come.                            *)
LEMMA OrdersArePast ==
  ASSUME EngineInv, ReplaceTurn
  PROVE  \A e \in Range(queue[Output]) : e[2] # session'
<1>1. turns \in Nat /\ session' = turns + 1
  BY Bounds DEF EngineInv, Typed, Ids, ReplaceTurn
<1>2. \A e \in Range(queue[Output]) : e[2] <= turns
  BY TasksDiffer DEF EngineInv, NamesInv
<1>3. ASSUME NEW e \in Range(queue[Output]), e[2] = turns + 1
      PROVE  FALSE
  BY <1>1, <1>2, <1>3
<1>4. QED  BY <1>1, <1>3

LEMMA WakeSilent ==
  ASSUME EngineInv, SilenceInv, OnWake, UNCHANGED ovars
  PROVE  SilenceInv'
<1>1. /\ Rest(Engine) \in [Actors -> Seq(Events)] /\ Rest(Engine)[Output] = queue[Output]
      /\ Range(Rest(Engine)[Engine]) \subseteq Range(queue[Engine])
      /\ UNCHANGED <<ready, cancelled, at, turn>>
  BY Taken, TasksDiffer DEF EngineInv, OnWake
<1>2. UNCHANGED ready /\ \A t \in Turns : InLine(Run(t))' <=> InLine(Run(t))
  BY <1>1 DEF InLine
<1>3. at[Output] = "get" => queue[Output] = <<>>
  BY DEF SilenceInv, ToldInv
<1>4. CASE state \in {"THINKING", "SPEAKING"} /\ session # 0
  <2> DEFINE e == <<"barge", session>>
  <2>1. queue' = [Rest(Engine) EXCEPT ![Engine] = Put(Rest(Engine)[Engine], e)] /\ UNCHANGED session
    BY <1>4 DEF OnWake
  <2>2. e \in Events /\ e[1] = "barge"
    BY EventParts DEF EngineInv, Typed, Kinds
  <2> HIDE DEF e
  <2>3. Range(Put(Rest(Engine)[Engine], e)) \subseteq Range(queue[Engine]) \cup {e}
    BY <1>1, <2>2, PutHolds, TasksDiffer
  <2>4. queue'[Output] = queue[Output] /\ queue'[Engine] = Put(Rest(Engine)[Engine], e)
    BY <1>1, <2>1, TasksDiffer
  <2>5. \A d \in Range(queue'[Engine]) : d[1] = "done" => d \in Range(queue[Engine])
    BY <2>2, <2>3, <2>4
  <2>6. \A d \in Range(queue[Output]) : d[1] = "cancel" /\ d[2] = session' => Interrupting'
    BY <1>1, <2>1 DEF SilenceInv, ToldInv, Interrupting
  <2>7. QED  BY <1>1, <1>2, <1>3, <2>4, <2>5, <2>6, SilenceRests
<1>5. CASE ~(state \in {"THINKING", "SPEAKING"} /\ session # 0)
  <2>1. queue' = Rest(Engine) /\ ReplaceTurn
    BY <1>5 DEF OnWake
  <2>2. \A d \in Range(queue[Output]) : d[2] # session'
    BY <2>1, OrdersArePast
  <2>3. queue'[Output] = queue[Output] /\ \A d \in Range(queue'[Engine]) : d \in Range(queue[Engine])
    BY <1>1, <2>1
  <2>4. QED  BY <1>1, <1>2, <1>3, <2>2, <2>3, SilenceRests
<1>6. QED  BY <1>4, <1>5

LEMMA FinalSilent ==
  ASSUME EngineInv, SilenceInv, OnFinal, UNCHANGED ovars
  PROVE  SilenceInv'
<1>1. /\ Rest(Engine) \in [Actors -> Seq(Events)] /\ Rest(Engine)[Output] = queue[Output]
      /\ Range(Rest(Engine)[Engine]) \subseteq Range(queue[Engine])
      /\ queue' = Rest(Engine) /\ UNCHANGED <<cancelled, at, session>>
  BY Taken, TasksDiffer DEF EngineInv, OnFinal
<1>2. turn \in [Turns -> {"none", "new", "thinking", "speaking", "done"}] /\ ready \in Seq(Tasks) /\ Line(ready)
  BY GoodLine DEF EngineInv, Typed
<1>3. \A t \in Turns : /\ turn'[t] = "speaking" <=> turn[t] = "speaking"
                       /\ turn[t] = "speaking" /\ InLine(Run(t))' => InLine(Run(t))
  <2>1. CASE NextEvent(Engine)[2] = session /\ state = "LISTENING"
    <3>1. session \in Turns /\ turn[session] = "none"
      BY <2>1, OthersAreQuiet DEF EngineInv, SessionInv
    <3>2. turn' = [turn EXCEPT ![session] = "new"] /\ ready' = Append(ready, Run(session))
      BY <2>1 DEF OnFinal
    <3>3. ~InLine(Run(session)) /\ Run(session) \in Tasks
      BY <3>1, TasksDiffer DEF EngineInv, LineInv, Alive
    <3>4. ready' = ready \o <<Run(session)>> /\ Range(<<Run(session)>>) = {Run(session)}
      BY <1>2, <3>2, AppendIsConcat, Ranges
    <3>5. Moved({}, {Run(session)})
      BY <1>2, <3>3, <3>4, LineGrows
    <3>6. \A t \in Turns : turn[t] = "speaking" => t # session
      BY <3>1
    <3>7. QED  BY <1>2, <3>1, <3>2, <3>5, <3>6, MovedIn, TasksDiffer
  <2>2. CASE ~(NextEvent(Engine)[2] = session /\ state = "LISTENING")
    BY <2>2 DEF OnFinal, InLine
  <2>3. QED  BY <2>1, <2>2
<1>4. \A d \in Range(queue[Output]) : d[1] = "cancel" /\ d[2] = session' => Interrupting'
  BY <1>1 DEF SilenceInv, ToldInv, Interrupting
<1>5. at[Output] = "get" => queue[Output] = <<>>
  BY DEF SilenceInv, ToldInv
<1>6. queue'[Output] = queue[Output] /\ \A d \in Range(queue'[Engine]) : d \in Range(queue[Engine])
  BY <1>1
<1>7. QED  BY <1>1, <1>3, <1>4, <1>5, <1>6, SilenceRests

LEMMA GoesOnSilent ==
  ASSUME EngineInv, SilenceInv, GoesOn, UNCHANGED ovars
  PROVE  SilenceInv'
<1>1. /\ at' = [at EXCEPT ![Engine] = "no"] /\ ReplaceTurn /\ UNCHANGED <<ready, cancelled, queue, turn>>
      /\ at \in [Actors -> Waits]
  BY DEF GoesOn, EngineInv, Typed
<1>2. at'[Output] = at[Output] /\ \A t \in Turns : InLine(Run(t))' <=> InLine(Run(t))
  BY <1>1, TasksDiffer DEF InLine
<1>3. \A d \in Range(queue[Output]) : d[2] # session'
  BY <1>1, OrdersArePast
<1>4. at[Output] = "get" => queue[Output] = <<>>
  BY DEF SilenceInv, ToldInv
<1>5. QED  BY <1>1, <1>2, <1>3, <1>4, SilenceRests

LEMMA DoneSilent ==
  ASSUME EngineInv, SilenceInv, OnDone, UNCHANGED ovars
  PROVE  SilenceInv'
<1>1. /\ Rest(Engine) \in [Actors -> Seq(Events)] /\ Rest(Engine)[Output] = queue[Output]
      /\ Range(Rest(Engine)[Engine]) \subseteq Range(queue[Engine])
      /\ NextEvent(Engine) \in Range(queue[Engine]) /\ NextEvent(Engine)[1] = "done"
      /\ queue' = Rest(Engine) /\ UNCHANGED <<cancelled, at, session, turn>>
  BY Taken, TasksDiffer DEF EngineInv, OnDone
<1>2. Line(ready) /\ waiter \in Ids
  BY GoodLine DEF EngineInv, Typed
<1>3. ASSUME NEW t \in Turns, turn[t] = "speaking", InLine(Run(t))'
      PROVE  InLine(Run(t)) \/ speak[t] = "said"
  <2>1. CASE UNCHANGED ready
    BY <1>3, <2>1 DEF InLine
  <2>2. CASE /\ NextEvent(Engine)[2] = session /\ waiter # 0 /\ turn[waiter] = "speaking"
             /\ ready' = ready \o Rushed(Run(waiter))
    <3>1. waiter \in Turns /\ Run(waiter) \in Tasks
      BY <1>2, <2>2, TasksDiffer, Bounds DEF Ids, Turns
    <3>2. waiter = session /\ speak[session] = "said"
      BY <1>1, <2>2, <3>1 DEF EngineInv, TurnInv, SilenceInv, SaidInv
    <3>3. \/ Rushed(Run(waiter)) = <<>>
          \/ Rushed(Run(waiter)) = <<Run(waiter)>> /\ ~InLine(Run(waiter))
      BY DEF Rushed
    <3>4. Moved({}, Range(Rushed(Run(waiter))))
      BY <1>2, <2>2, <3>1, <3>3, LineGrows
    <3>5. Range(Rushed(Run(waiter))) \subseteq {Run(waiter)}
      BY <3>3, Ranges
    <3>6. InLine(Run(t)) \/ Run(t) = Run(waiter)
      BY <1>3, <3>4, <3>5, MovedIn
    <3>7. QED  BY <3>1, <3>2, <3>6, TasksDiffer
  <2>3. QED  BY <2>1, <2>2 DEF OnDone
<1>4. \A d \in Range(queue[Output]) : d[1] = "cancel" /\ d[2] = session' => Interrupting'
  BY <1>1 DEF SilenceInv, ToldInv, Interrupting
<1>5. at[Output] = "get" => queue[Output] = <<>>
  BY DEF SilenceInv, ToldInv
<1>6. queue'[Output] = queue[Output] /\ \A d \in Range(queue'[Engine]) : d \in Range(queue[Engine])
  BY <1>1
<1>7. QED  BY <1>1, <1>3, <1>4, <1>5, <1>6, SilenceRests

(* An interruption orders silence for the turn that it ends.               *)
LEMMA BargeSilent ==
  ASSUME QueueCap >= 2 * MaxInputs, EngineInv, OutputInv, SilenceInv, OnBarge, UNCHANGED <<ovars, inputs>>
  PROVE  SilenceInv'
<1> USE DEF ovars
<1>1. /\ at \in [Actors -> Waits] /\ turn' = turn /\ Typed /\ Line(ready)
      /\ queue[Output] \in Seq(Events)
  BY GoodLine, TasksDiffer DEF EngineInv, Typed, OnBarge
<1>2. CASE NextEvent(Engine)[2] = session /\ session # 0
  <2> DEFINE e == <<"cancel", session>>
             q == queue[Output]
  <2>1. /\ session \in Turns /\ e \in Events /\ e[1] = "cancel" /\ e[2] = session
        /\ e \in Orders
    BY <1>2, OthersAreQuiet, EventParts, TasksDiffer DEF Kinds, Orders
  <2>2. /\ running = Engine /\ at[Engine] = "no"
        /\ queue'[Output] = Put(q, e) /\ Range(queue'[Engine]) \subseteq Range(queue[Engine])
        /\ \A u \in Turns \ {session} : turn[u] \notin {"new", "thinking", "speaking"}
        /\ \/ Woken(Output) = <<>>
           \/ Woken(Output) = <<Output>> /\ ~InLine(Output)
    BY <1>2, BargeTells
  <2> HIDE DEF e
  <2>3. e \notin Range(q)
    BY <2>1, <2>2 DEF SilenceInv, ToldInv, Interrupting
  <2>4. Put(q, e) = Append(q, e) /\ Distinct(Put(q, e)) /\ Range(Put(q, e)) = Range(q) \cup {e}
    BY <1>1, <2>1, <2>3, OrderIsPut DEF SilenceInv, ToldInv
  <2>5. \A t \in Turns : /\ Hushed(q, t) => Hushed(queue'[Output], t)
                         /\ t = session => Hushed(queue'[Output], t)
    <3>1. \A t \in Turns : e # <<"reply", t>>
      BY <2>1
    <3>2. e = <<"cancel", session>>
      BY DEF e
    <3>3. QED  BY <1>1, <2>1, <2>2, <2>4, <3>1, <3>2, HushAppend
  <2>6. \A t \in Turns : Waiting(t)' <=> Waiting(t)
    <3>1. \A t \in Turns : e # <<"reply", t>>
      BY <2>1
    <3>2. QED  BY <2>2, <2>4, <3>1 DEF Waiting
  <2>7. at'[Output] # "get"
    BY <1>1, <1>2, TasksDiffer DEF OnBarge, StopsSpeech
  <2>8. /\ cancelled \subseteq cancelled' /\ cancelled' \subseteq cancelled \cup {Run(turnTask)}
    BY <1>2 DEF OnBarge, StopsSpeech
  <2>9. HushInv'
    <3> SUFFICES ASSUME NEW t \in Turns, Waiting(t) \/ Speaks(t)
                 PROVE  \/ turn'[t] = "speaking" /\ Run(t) \notin cancelled'
                        \/ Hushed(queue'[Output], t)
                        \/ Speak(t) \in cancelled'
      BY <2>6 DEF HushInv, Speaks
    <3>1. t = session \/ turn[t] # "speaking"
      BY <2>2
    <3>2. \/ turn[t] = "speaking" /\ Run(t) \notin cancelled
          \/ Hushed(queue[Output], t)
          \/ Speak(t) \in cancelled
      BY DEF SilenceInv, HushInv
    <3>3. QED  BY <2>5, <2>8, <3>1, <3>2
  <2>10. turnTask # 0 /\ Alive(turnTask) => turnTask = session
    BY <2>2, Bounds DEF EngineInv, Typed, Ids, Turns, Alive
  <2>11. ToldInv'
    <3>1. Distinct(queue'[Output]) /\ Range(queue'[Output]) \subseteq Orders
      BY <2>1, <2>2, <2>4 DEF SilenceInv, ToldInv
    <3>2. CASE turnTask # 0 /\ Alive(turnTask)
      <4>1. at'[Engine] = "join"
        BY <1>1, <1>2, <3>2, TasksDiffer DEF OnBarge, StopsSpeech
      <4>2. QED  BY <2>7, <3>1, <4>1 DEF ToldInv, Interrupting
    <3>3. CASE ~(turnTask # 0 /\ Alive(turnTask))
      <4>1. ReplaceTurn
        BY <1>2, <3>3 DEF OnBarge, StopsSpeech
      <4>2. turns \in Nat /\ session' = turns + 1 /\ session = turns
        BY <1>2, <4>1, OthersAreQuiet, Bounds DEF ReplaceTurn, EngineInv, Typed, Ids
      <4>3. e[2] # session'
        BY <2>1, <4>2
      <4>4. \A d \in Range(queue'[Output]) : d[2] # session'
        BY <2>2, <2>4, <4>1, <4>3, OrdersArePast
      <4>5. QED  BY <2>7, <3>1, <4>4 DEF ToldInv
    <3>4. QED  BY <3>2, <3>3
  <2>12. SaidInv'
    <3>1. ASSUME NEW t \in Turns, turn'[t] = "speaking", InLine(Run(t))', Run(t) \notin cancelled'
          PROVE  speak'[t] = "said"
      <4>1. t = session /\ Alive(t) /\ turnTask = t
        BY <1>1, <2>2, <3>1 DEF EngineInv, TurnInv, Alive
      <4>2. cancelled' = cancelled \cup {Run(turnTask)}
        BY <1>2, <4>1, TasksDiffer DEF OnBarge, StopsSpeech
      <4>3. QED  BY <3>1, <4>1, <4>2
    <3>2. QED  BY <2>2, <3>1 DEF SilenceInv, SaidInv
  <2>13. QED  BY <2>9, <2>11, <2>12 DEF SilenceInv
<1>3. CASE ~(NextEvent(Engine)[2] = session /\ session # 0)
  <2>1. queue' = Rest(Engine) /\ UNCHANGED <<ready, cancelled, at, session>>
    BY <1>3 DEF OnBarge
  <2>2. Rest(Engine)[Output] = queue[Output] /\ Range(Rest(Engine)[Engine]) \subseteq Range(queue[Engine])
    BY Taken, TasksDiffer DEF EngineInv, OnBarge
  <2>3. \A d \in Range(queue[Output]) : d[1] = "cancel" /\ d[2] = session' => Interrupting'
    BY <2>1 DEF SilenceInv, ToldInv, Interrupting
  <2>4. at[Output] = "get" => queue[Output] = <<>>
    BY DEF SilenceInv, ToldInv
  <2>5. \A t \in Turns : InLine(Run(t))' <=> InLine(Run(t))
    BY <2>1 DEF InLine
  <2>6. QED  BY <1>1, <2>1, <2>2, <2>3, <2>4, <2>5, SilenceRests
<1>4. QED  BY <1>2, <1>3

(* The output reads its orders.                                            *)
LEMMA OrderTaken ==
  ASSUME EngineInv, OutputInv, SilenceInv, NEW k, Takes(Output, k), queue' = Rest(Output)
  PROVE  LET t == NextEvent(Output)[2]
         IN  /\ t \in Turns /\ NextEvent(Output) = <<k, t>> /\ NextEvent(Output) \in Range(queue[Output])
             /\ at[Output] = "no" /\ coming = 0
             /\ \A u \in Turns : Speak(u) \notin cancelled
             /\ queue'[Engine] = queue[Engine]
             /\ Distinct(queue'[Output]) /\ Range(queue'[Output]) \subseteq Orders
             /\ Range(queue'[Output]) \subseteq Range(queue[Output])
             /\ \A u \in Turns : Hushed(queue[Output], u) =>
                  \/ Hushed(queue'[Output], u)
                  \/ k = "cancel" /\ u = t /\ <<"reply", u>> \notin Range(queue[Output])
<1> DEFINE t == NextEvent(Output)[2]
           q == queue[Output]
<1>1. /\ q # <<>> /\ q \in Seq(Events) /\ NextEvent(Output) = Head(q) /\ NextEvent(Output) \in Range(q)
      /\ NextEvent(Output) = <<k, t>> /\ Rest(Output)[Output] = Tail(q) /\ Rest(Output)[Engine] = queue[Engine]
      /\ Range(Tail(q)) \subseteq Range(q) /\ at[Output] = "no"
  BY Taken, TasksDiffer DEF EngineInv
<1>2. Distinct(q) /\ Range(q) \subseteq Orders
  BY DEF SilenceInv, ToldInv
<1>3. t \in Turns
  BY <1>1, <1>2 DEF Orders
<1>4. coming = 0 /\ \A u \in Turns : Speak(u) \notin cancelled
  BY <1>1 DEF OutputInv, SpeechInv
<1>5. Distinct(Tail(q))
  <2>1. /\ Len(q) \in Nat \ {0} /\ Len(Tail(q)) = Len(q) - 1
        /\ \A i \in 1..Len(Tail(q)) : Tail(q)[i] = q[i + 1]
    BY <1>1, TailShifts
  <2>2. SUFFICES ASSUME NEW i \in 1..Len(Tail(q)), NEW j \in 1..Len(Tail(q)), Tail(q)[i] = Tail(q)[j]
                 PROVE  i = j
    BY DEF Distinct
  <2>3. i + 1 \in 1..Len(q) /\ j + 1 \in 1..Len(q) /\ q[i + 1] = q[j + 1]
    BY <2>1, <2>2
  <2>4. i + 1 = j + 1
    BY <1>2, <2>3 DEF Distinct
  <2>5. QED  BY <2>4
<1>6. ASSUME NEW u \in Turns, Hushed(q, u)
      PROVE  Hushed(Tail(q), u) \/ (k = "cancel" /\ u = t /\ <<"reply", u>> \notin Range(q))
  <2>1. <<k, t>> = <<"cancel", u>> => k = "cancel" /\ u = t
    OBVIOUS
  <2>2. QED  BY <1>1, <1>6, <2>1, HushTail
<1>7. QED  BY <1>1, <1>2, <1>3, <1>4, <1>5, <1>6

LEMMA ReplySilent ==
  ASSUME EngineInv, OutputInv, SilenceInv, OnReply, UNCHANGED evars
  PROVE  SilenceInv'
<1> DEFINE t == NextEvent(Output)[2]
<1>1. /\ t \in Turns /\ NextEvent(Output) = <<"reply", t>> /\ NextEvent(Output) \in Range(queue[Output])
      /\ at[Output] = "no" /\ coming = 0 /\ at \in [Actors -> Waits]
      /\ \A u \in Turns : Speak(u) \notin cancelled
      /\ queue'[Engine] = queue[Engine]
      /\ Distinct(queue'[Output]) /\ Range(queue'[Output]) \subseteq Orders
      /\ Range(queue'[Output]) \subseteq Range(queue[Output])
      /\ UNCHANGED <<turn, session>>
  BY OrderTaken DEF OnReply, evars, EngineInv, Typed
<1>2. \A u \in Turns : Hushed(queue[Output], u) => Hushed(queue'[Output], u)
  BY OrderTaken DEF OnReply
<1>3. Waiting(t) /\ speak[t] = "none"
  BY <1>1 DEF Waiting, OutputInv, OrderInv
<1> HIDE DEF t
<1>4. /\ Line(ready) /\ speak \in [Turns -> {"none", "new", "talking", "said", "unsaid"}]
  BY GoodLine DEF EngineInv, Typed
<1>5. /\ at'[Output] # "get" /\ at'[Engine] = at[Engine]
      /\ \A u \in Turns : Waiting(u)' \/ Speaks(u)' => Waiting(u) \/ Speaks(u)
      /\ cancelled \subseteq cancelled' /\ \A u \in Turns : Run(u) \in cancelled' => Run(u) \in cancelled
      /\ \A u \in Turns : speak[u] = "said" => speak'[u] = "said"
      /\ \A u \in Turns : InLine(Run(u))' => InLine(Run(u))
  <2>1. CASE speakTask # 0 /\ Speaks(speakTask)
    <3>1. /\ cancelled' = cancelled \cup {Speak(speakTask)} /\ coming' = t /\ UNCHANGED speak
          /\ ready' = ready \o Rushed(Speak(speakTask)) /\ at' = [at EXCEPT ![Output] = "join"]
      BY <2>1 DEF OnReply, CancelSpeak, t
    <3>2. speakTask \in Ids /\ Speak(speakTask) \in Tasks
      BY TasksDiffer DEF EngineInv, Typed
    <3>3. /\ Moved({}, Range(Rushed(Speak(speakTask))))
          /\ Range(Rushed(Speak(speakTask))) \subseteq {Speak(speakTask)}
      BY <1>4, <3>1, <3>2, LineGrows, Ranges DEF Rushed
    <3>4. \A u \in Turns : InLine(Run(u))' => InLine(Run(u))
      BY <3>2, <3>3, MovedIn, TasksDiffer
    <3>5. \A u \in Turns : Waiting(u)' \/ Speaks(u)' => Waiting(u) \/ Speaks(u)
      BY <1>1, <1>3, <3>1 DEF Waiting, Speaks
    <3>6. QED  BY <1>1, <3>1, <3>2, <3>4, <3>5, TasksDiffer
  <2>2. CASE ~(speakTask # 0 /\ Speaks(speakTask))
    <3>1. StartSpeak(t) /\ UNCHANGED <<cancelled, at, coming>>
      BY <2>2 DEF OnReply, t
    <3>2. speak' = [speak EXCEPT ![t] = "new"] /\ ready' = Append(ready, Speak(t))
      BY <3>1 DEF StartSpeak
    <3>3. \A u \in Turns : Waiting(u)' \/ Speaks(u)' => Waiting(u) \/ Speaks(u)
      BY <1>1, <1>3, <1>4, <3>1, <3>2 DEF Waiting, Speaks
    <3>4. Speak(t) \in Tasks /\ ~InLine(Speak(t))
      BY <1>1, <1>3, TasksDiffer DEF EngineInv, LineInv, Speaks
    <3>5. ready' = ready \o <<Speak(t)>> /\ Range(<<Speak(t)>>) = {Speak(t)}
      BY <1>4, <3>2, AppendIsConcat, Ranges DEF Line
    <3>6. Moved({}, {Speak(t)})
      BY <1>4, <3>4, <3>5, LineGrows
    <3>7. \A u \in Turns : InLine(Run(u))' => InLine(Run(u))
      BY <1>1, <3>6, MovedIn, TasksDiffer
    <3>8. QED  BY <1>1, <1>3, <1>4, <3>1, <3>2, <3>3, <3>7
  <2>3. QED  BY <2>1, <2>2
<1>6. HushInv'
  BY <1>1, <1>2, <1>5 DEF SilenceInv, HushInv
<1>7. ToldInv'
  BY <1>1, <1>5 DEF SilenceInv, ToldInv, Interrupting
<1>8. SaidInv'
  BY <1>1, <1>5 DEF SilenceInv, SaidInv
<1>9. QED  BY <1>6, <1>7, <1>8 DEF SilenceInv

LEMMA CancelSilent ==
  ASSUME EngineInv, OutputInv, SilenceInv, OnCancel, UNCHANGED evars
  PROVE  SilenceInv'
<1> DEFINE t == NextEvent(Output)[2]
<1>1. /\ t \in Turns /\ NextEvent(Output) = <<"cancel", t>> /\ NextEvent(Output) \in Range(queue[Output])
      /\ at[Output] = "no" /\ coming = 0 /\ at \in [Actors -> Waits]
      /\ \A u \in Turns : Speak(u) \notin cancelled
      /\ queue'[Engine] = queue[Engine]
      /\ Distinct(queue'[Output]) /\ Range(queue'[Output]) \subseteq Orders
      /\ Range(queue'[Output]) \subseteq Range(queue[Output])
      /\ UNCHANGED <<turn, session>>
  BY OrderTaken DEF OnCancel, evars, EngineInv, Typed
<1>2. \A u \in Turns : Hushed(queue[Output], u) =>
        \/ Hushed(queue'[Output], u)
        \/ u = t /\ <<"reply", u>> \notin Range(queue[Output])
  BY OrderTaken DEF OnCancel
<1> HIDE DEF t
<1>3. Line(ready) /\ speakTask \in Ids /\ UNCHANGED <<speak, coming>>
  BY GoodLine DEF EngineInv, Typed, OnCancel, CancelSpeak, ovars
<1>4. \A u \in Turns : (Speaks(u)' <=> Speaks(u)) /\ (Waiting(u)' => Waiting(u))
  BY <1>1, <1>3 DEF Waiting, Speaks
<1>5. ~Waiting(t) \/ <<"reply", t>> \in Range(queue[Output])
  BY <1>1, TasksDiffer DEF Waiting
<1>6. /\ at'[Output] # "get" /\ at'[Engine] = at[Engine]
      /\ cancelled \subseteq cancelled' /\ \A u \in Turns : Run(u) \in cancelled' => Run(u) \in cancelled
      /\ \A u \in Turns : InLine(Run(u))' => InLine(Run(u))
      /\ Speaks(t) => Speak(t) \in cancelled'
  <2>1. CASE t = active /\ speakTask # 0 /\ Speaks(speakTask)
    <3>1. /\ cancelled' = cancelled \cup {Speak(speakTask)}
          /\ ready' = ready \o Rushed(Speak(speakTask)) /\ at' = [at EXCEPT ![Output] = "join"]
      BY <2>1 DEF OnCancel, CancelSpeak, t
    <3>2. Speak(speakTask) \in Tasks
      BY <1>3, TasksDiffer
    <3>3. /\ Moved({}, Range(Rushed(Speak(speakTask))))
          /\ Range(Rushed(Speak(speakTask))) \subseteq {Speak(speakTask)}
      BY <1>3, <3>1, <3>2, LineGrows, Ranges DEF Rushed
    <3>4. \A u \in Turns : InLine(Run(u))' => InLine(Run(u))
      BY <1>3, <3>3, MovedIn, TasksDiffer
    <3>5. Speaks(t) => speakTask = t
      BY <1>1 DEF OutputInv, SpeechInv
    <3>6. QED  BY <1>1, <1>3, <3>1, <3>4, <3>5, TasksDiffer
  <2>2. CASE ~(t = active /\ speakTask # 0 /\ Speaks(speakTask))
    <3>1. UNCHANGED <<ready, cancelled, at>>
      BY <2>2 DEF OnCancel, t
    <3>2. ~Speaks(t)
      BY <1>1, <2>2, TasksDiffer DEF OutputInv, SpeechInv
    <3>3. QED  BY <1>1, <3>1, <3>2 DEF InLine
  <2>3. QED  BY <2>1, <2>2
<1>7. HushInv'
  BY <1>1, <1>2, <1>4, <1>5, <1>6 DEF SilenceInv, HushInv
<1>8. ToldInv'
  BY <1>1, <1>6 DEF SilenceInv, ToldInv, Interrupting
<1>9. SaidInv'
  BY <1>1, <1>3, <1>6 DEF SilenceInv, SaidInv
<1>10. QED  BY <1>7, <1>8, <1>9 DEF SilenceInv

LEMMA SpeaksNextSilent ==
  ASSUME EngineInv, OutputInv, SilenceInv, SpeaksNext, UNCHANGED evars
  PROVE  SilenceInv'
<1>1. /\ at' = [at EXCEPT ![Output] = "no"] /\ UNCHANGED <<cancelled, queue>> /\ coming' = 0
      /\ at \in [Actors -> Waits] /\ coming \in Ids /\ Line(ready)
      /\ speak \in [Turns -> {"none", "new", "talking", "said", "unsaid"}]
      /\ UNCHANGED <<turn, session>>
  BY GoodLine DEF SpeaksNext, EngineInv, Typed, evars
<1>2. at'[Output] = "no" /\ at'[Engine] = at[Engine]
  BY <1>1, TasksDiffer
<1>3. /\ \A u \in Turns : Waiting(u)' \/ Speaks(u)' => Waiting(u) \/ Speaks(u)
      /\ \A u \in Turns : speak[u] = "said" => speak'[u] = "said"
      /\ \A u \in Turns : InLine(Run(u))' => InLine(Run(u))
  <2>1. CASE coming # 0
    <3> DEFINE t == coming
    <3>1. t \in Turns /\ Waiting(t) /\ speak[t] = "none"
      <4>1. t \in Turns /\ Waiting(t)
        BY <1>1, <2>1, Bounds DEF Ids, Turns, Waiting
      <4>2. QED  BY <4>1 DEF OutputInv, OrderInv
    <3>2. speak' = [speak EXCEPT ![t] = "new"] /\ ready' = Append(ready, Speak(t))
      BY <2>1 DEF SpeaksNext, StartSpeak
    <3> HIDE DEF t
    <3>3. \A u \in Turns : Waiting(u)' \/ Speaks(u)' => Waiting(u) \/ Speaks(u)
      BY <1>1, <3>1, <3>2, TasksDiffer DEF Waiting, Speaks
    <3>4. Speak(t) \in Tasks /\ ~InLine(Speak(t))
      BY <3>1, TasksDiffer DEF EngineInv, LineInv, Speaks
    <3>5. ready' = ready \o <<Speak(t)>> /\ Range(<<Speak(t)>>) = {Speak(t)}
      BY <1>1, <3>2, AppendIsConcat, Ranges DEF Line
    <3>6. Moved({}, {Speak(t)})
      BY <1>1, <3>4, <3>5, LineGrows
    <3>7. \A u \in Turns : InLine(Run(u))' => InLine(Run(u))
      BY <3>1, <3>6, MovedIn, TasksDiffer
    <3>8. QED  BY <1>1, <3>1, <3>2, <3>3, <3>7
  <2>2. CASE coming = 0
    <3>1. UNCHANGED <<ready, speak>>
      BY <2>2 DEF SpeaksNext
    <3>2. QED  BY <1>1, <2>2, <3>1 DEF Waiting, Speaks, InLine
  <2>3. QED  BY <2>1, <2>2
<1>4. HushInv'
  BY <1>1, <1>3 DEF SilenceInv, HushInv
<1>5. ToldInv'
  BY <1>1, <1>2 DEF SilenceInv, ToldInv, Interrupting
<1>6. SaidInv'
  BY <1>1, <1>3 DEF SilenceInv, SaidInv
<1>7. QED  BY <1>4, <1>5, <1>6 DEF SilenceInv

(* The tasks of the turns tell the output what to say.                     *)
LEMMA RepliesSilent ==
  ASSUME QueueCap >= 2 * MaxInputs, EngineInv, OutputInv, SilenceInv,
         NEW t \in Turns, RunSlice(t), Replies(t, "THINKING"),
         t = session, turn[t] \in {"new", "thinking"}, UNCHANGED ovars
  PROVE  SilenceInv'
<1> USE DEF ovars
<1> DEFINE e == <<"reply", t>>
           q == queue[Output]
<1>1. /\ turn' = [turn EXCEPT ![t] = "speaking"]
      /\ Publish(Output, e) /\ ready' = Tail(ready) \o Woken(Output)
      /\ UNCHANGED <<cancelled, session>>
      /\ Slice(Run(t)) /\ Run(t) \notin cancelled
  BY DEF Replies, RunSlice
<1>2. /\ running = Nobody /\ ready # <<>> /\ Head(ready) = Run(t)
      /\ Line(ready) /\ Run(t) \in Tasks
  BY <1>1, TurnSliceIs
<1>3. e \in Events /\ e[1] = "reply" /\ e \in Orders /\ \A u \in Turns : e = <<"reply", u>> => u = t
  BY TasksDiffer, EventParts DEF Kinds, Orders
<1>4. ~Waiting(t)
  BY DEF OutputInv, OrderInv
<1>5. e \notin Range(q)
  BY <1>4 DEF Waiting
<1> HIDE DEF e
<1>6. /\ queue'[Output] = Put(q, e) /\ \A b \in Actors \ {Output} : queue'[b] = queue[b]
      /\ \A b \in Actors : \/ at'[b] = at[b]
                           \/ b = Output /\ at[Output] = "get" /\ at'[Output] = "no"
      /\ \/ Woken(Output) = <<>> /\ at[Output] # "get" /\ at' = at
         \/ Woken(Output) = <<Output>> /\ at[Output] = "get" /\ at'[Output] = "no" /\ ~InLine(Output)
  BY <1>1, <1>2, <1>3, Published, TasksDiffer DEF EngineInv
<1>7. at'[Output] # "get" /\ at'[Engine] = at[Engine] /\ queue'[Engine] = queue[Engine]
  BY <1>6, TasksDiffer
<1>8. Moved({Run(t)}, Range(Woken(Output)))
  BY <1>1, <1>2, <1>6, LineTurns, TasksDiffer
<1>9. \A u \in Turns : InLine(Run(u))' => InLine(Run(u)) /\ u # t
  <2>1. \A u \in Turns : Run(u) \notin Range(Woken(Output))
    BY <1>6, Ranges, TasksDiffer
  <2>2. QED  BY <1>8, <2>1, MovedIn
<1>10. /\ turn'[t] = "speaking" /\ \A u \in Turns \ {t} : turn'[u] = turn[u]
  BY <1>1 DEF EngineInv, Typed
<1>11. q \in Seq(Events) /\ Distinct(q) /\ Range(q) \subseteq Orders
  BY TasksDiffer DEF EngineInv, Typed, SilenceInv, ToldInv
<1>12. Put(q, e) = Append(q, e) /\ Distinct(Put(q, e)) /\ Range(Put(q, e)) = Range(q) \cup {e}
  BY <1>3, <1>5, <1>11, OrderIsPut
<1>13. \A u \in Turns \ {t} : /\ Hushed(q, u) => Hushed(queue'[Output], u)
                              /\ (Waiting(u)' <=> Waiting(u)) /\ (Speaks(u)' <=> Speaks(u))
  <2>1. \A u \in Turns \ {t} : Hushed(q, u) => Hushed(queue'[Output], u)
    <3>1. \A u \in Turns \ {t} : e # <<"reply", u>>
      BY <1>3
    <3>2. QED  BY <1>3, <1>6, <1>11, <1>12, <3>1, HushAppend
  <2>2. \A u \in Turns \ {t} : <<"reply", u>> \in Range(queue'[Output]) <=> <<"reply", u>> \in Range(q)
    BY <1>3, <1>6, <1>12
  <2>3. QED  BY <2>1, <2>2 DEF Waiting, Speaks
<1>14. HushInv'
  BY <1>1, <1>10, <1>13 DEF SilenceInv, HushInv
<1>15. ToldInv'
  <2>1. Distinct(queue'[Output]) /\ Range(queue'[Output]) \subseteq Orders
    BY <1>3, <1>6, <1>11, <1>12
  <2>2. \A d \in Range(queue'[Output]) : d[1] = "cancel" => d \in Range(q)
    BY <1>3, <1>6, <1>12
  <2>3. \A d \in Range(queue'[Output]) : d[1] = "cancel" /\ d[2] = session' => Interrupting'
    BY <1>1, <1>7, <2>2 DEF SilenceInv, ToldInv, Interrupting
  <2>4. QED  BY <1>7, <2>1, <2>3 DEF ToldInv
<1>16. SaidInv'
  BY <1>1, <1>7, <1>9, <1>10 DEF SilenceInv, SaidInv
<1>17. QED  BY <1>14, <1>15, <1>16 DEF SilenceInv

(* A turn ends when it has been heard out, or by an interruption, which    *)
(* has told the output before.                                             *)
LEMMA EndsSilent ==
  ASSUME EngineInv, OutputInv, SilenceInv, NEW t \in Turns, TurnSpoken(t) \/ TurnCancelled(t),
         UNCHANGED ovars
  PROVE  SilenceInv'
<1> USE DEF ovars
<1>1. /\ Slice(Run(t)) /\ turn' = [turn EXCEPT ![t] = "done"] /\ UNCHANGED queue
      /\ at' = Joined(Engine, turnTask = t)
      /\ ready' = Tail(ready) \o Joiner(Engine, turnTask = t)
  BY DEF TurnSpoken, TurnCancelled, RunSlice
<1>2. /\ running = Nobody /\ ready # <<>> /\ Head(ready) = Run(t) /\ InLine(Run(t))
      /\ Line(ready) /\ Run(t) \in Tasks
  BY <1>1, TurnSliceIs
<1>3. /\ at'[Output] = at[Output] /\ (Interrupting => Interrupting')
      /\ \/ Joiner(Engine, turnTask = t) = <<Engine>> /\ ~InLine(Engine)
         \/ Joiner(Engine, turnTask = t) = <<>>
  BY <1>1, Joins, TasksDiffer DEF EngineInv, Interrupting
<1>4. Moved({Run(t)}, Range(Joiner(Engine, turnTask = t)))
  BY <1>1, <1>2, <1>3, LineTurns, TasksDiffer
<1>5. \A u \in Turns : InLine(Run(u))' => InLine(Run(u))
  <2>1. \A u \in Turns : Run(u) \notin Range(Joiner(Engine, turnTask = t))
    BY <1>3, Ranges, TasksDiffer
  <2>2. QED  BY <1>4, <2>1, MovedIn
<1>6. /\ turn'[t] = "done" /\ \A u \in Turns \ {t} : turn'[u] = turn[u]
  BY <1>1 DEF EngineInv, Typed
<1>7. /\ cancelled' \subseteq cancelled
      /\ \A u \in Turns : Speak(u) \in cancelled => Speak(u) \in cancelled'
      /\ \A u \in Turns \ {t} : Run(u) \in cancelled => Run(u) \in cancelled'
  BY TasksDiffer DEF TurnSpoken, TurnCancelled
<1>8. \A u \in Turns : (Waiting(u)' <=> Waiting(u)) /\ (Speaks(u)' <=> Speaks(u))
  BY <1>1 DEF Waiting, Speaks
<1>9. /\ session' \in {session, 0}
      /\ Run(t) \in cancelled \/ speak[t] = "said"
  BY <1>2 DEF TurnSpoken, TurnCancelled, RunSlice, SilenceInv, SaidInv
<1>10. HushInv'
  <2> SUFFICES ASSUME NEW u \in Turns, Waiting(u) \/ Speaks(u)
               PROVE  \/ turn'[u] = "speaking" /\ Run(u) \notin cancelled'
                      \/ Hushed(queue'[Output], u)
                      \/ Speak(u) \in cancelled'
    BY <1>8 DEF HushInv
  <2>1. \/ turn[u] = "speaking" /\ Run(u) \notin cancelled
        \/ Hushed(queue[Output], u)
        \/ Speak(u) \in cancelled
    BY DEF SilenceInv, HushInv
  <2>2. CASE u # t
    BY <1>1, <1>6, <1>7, <2>1, <2>2
  <2>3. CASE u = t
    <3>1. speak[t] # "said"
      BY <2>3 DEF OutputInv, OrderInv, Speaks
    <3>2. QED  BY <1>1, <1>7, <1>9, <2>1, <2>3, <3>1
  <2>4. QED  BY <2>2, <2>3
<1>11. ToldInv'
  <2>1. \A e \in Range(queue[Output]) : e[1] = "cancel" /\ e[2] = session' => Interrupting'
    <3>1. \A e \in Range(queue[Output]) : e[2] # 0
      BY TasksDiffer DEF SilenceInv, ToldInv, Orders
    <3>2. QED  BY <1>3, <1>9, <3>1 DEF SilenceInv, ToldInv
  <2>2. QED  BY <1>1, <1>3, <2>1 DEF SilenceInv, ToldInv
<1>12. SaidInv'
  <2>1. ASSUME NEW u \in Turns, turn'[u] = "speaking", InLine(Run(u))', Run(u) \notin cancelled'
        PROVE  speak[u] = "said"
    <3>1. u # t /\ turn[u] = "speaking" /\ InLine(Run(u)) /\ Run(u) \notin cancelled
      BY <1>5, <1>6, <1>7, <2>1
    <3>2. QED  BY <3>1 DEF SilenceInv, SaidInv
  <2>2. QED  BY <1>1, <2>1 DEF SilenceInv, SaidInv
<1>13. QED  BY <1>10, <1>11, <1>12 DEF SilenceInv

LEMMA TurnsSilent ==
  ASSUME QueueCap >= 2 * MaxInputs, EngineInv, OutputInv, SilenceInv, NEW t \in Turns, UNCHANGED ovars,
         TurnStarts(t) \/ TurnAnswers(t) \/ TurnSpoken(t) \/ TurnCancelled(t)
  PROVE  SilenceInv'
<1>1. turn \in [Turns -> {"none", "new", "thinking", "speaking", "done"}] /\ Typed /\ LineInv
  BY DEF EngineInv, Typed
<1>2. CASE RunSlice(t) /\ turn[t] = "new" /\ state = "COMMITTING" /\ Replies(t, "THINKING")
  BY <1>2, RunSliceIs, RepliesSilent DEF LeftBehind
<1>3. CASE RunSlice(t) /\ turn[t] = "thinking" /\ Replies(t, state)
  <2>1. t = session /\ state = "THINKING"
    BY <1>3, RunSliceIs
  <2>2. QED  BY <1>3, <2>1, RepliesSilent
<1>4. CASE /\ RunSlice(t) /\ turn[t] = "new"
           /\ \E how \in {"thinking", "done"} : turn' = [turn EXCEPT ![t] = how]
           /\ ready' = Tail(ready) /\ UNCHANGED <<queue, at, cancelled, session>>
  <2>1. ready # <<>> /\ Line(ready)
    BY <1>4, TurnSliceIs DEF RunSlice
  <2>2. Moved({Head(ready)}, {})
    BY <1>4, <2>1, LineShrinks
  <2>3. \A u \in Turns : InLine(Run(u))' => InLine(Run(u))
    BY <2>2, MovedIn
  <2>4. \A u \in Turns : turn'[u] = "speaking" <=> turn[u] = "speaking"
    BY <1>1, <1>4
  <2>5. \A e \in Range(queue[Output]) : e[1] = "cancel" /\ e[2] = session' => Interrupting'
    BY <1>4 DEF SilenceInv, ToldInv, Interrupting
  <2>6. at[Output] = "get" => queue[Output] = <<>>
    BY DEF SilenceInv, ToldInv
  <2>7. QED  BY <1>4, <2>3, <2>4, <2>5, <2>6, SilenceRests
<1>5. CASE /\ RunSlice(t) /\ turn[t] = "new" /\ state = "COMMITTING" /\ ready' = Tail(ready)
           /\ turn' = [turn EXCEPT ![t] = "thinking"] /\ UNCHANGED <<cancelled, queue, at, session>>
  BY <1>4, <1>5
<1>6. CASE RunSlice(t) /\ turn[t] = "new" /\ state # "COMMITTING" /\ Replies(t, state)
  <2>1. state = "LISTENING" /\ ~Interrupting
    BY <1>6, RunSliceIs DEF LeftBehind
  <2>2. /\ turn' = [turn EXCEPT ![t] = "done"] /\ at' = Joined(Engine, turnTask = t)
        /\ ready' = Tail(ready) \o Joiner(Engine, turnTask = t)
        /\ UNCHANGED <<queue, cancelled, session>>
    BY <1>6, <2>1 DEF Replies
  <2>3. at' = at /\ Joiner(Engine, turnTask = t) = <<>>
    BY <1>1, <2>1, <2>2, Joins, TasksDiffer DEF Interrupting
  <2>4. ready # <<>> /\ Line(ready)
    BY <1>6, TurnSliceIs DEF RunSlice
  <2>5. ready' = Tail(ready)
    BY <2>2, <2>3, <2>4, Leaves, ConcatEmptySeq DEF Line
  <2>6. QED  BY <1>4, <1>6, <2>2, <2>3, <2>5
<1>7. CASE TurnSpoken(t) \/ TurnCancelled(t)
  BY <1>7, EndsSilent
<1>8. QED  BY <1>2, <1>3, <1>5, <1>6, <1>7 DEF TurnStarts, TurnAnswers

(* A task that speaks goes on, or ends.                                    *)
LEMMA SpeakSilent ==
  ASSUME EngineInv, OutputInv, SilenceInv, NEW t \in Turns, Slice(Speak(t)),
         NEW how \in {"talking", "said", "unsaid"}, speak' = [speak EXCEPT ![t] = how],
         how = "unsaid" => speak[t] = "new",
         NEW come, Moved({Speak(t)}, come), come \subseteq Actors,
         queue'[Output] = queue[Output], UNCHANGED <<coming, evars>>,
         \A u \in Turns : Run(u) \in cancelled' <=> Run(u) \in cancelled,
         \A u \in Turns \ {t} : Speak(u) \in cancelled => Speak(u) \in cancelled',
         how = "talking" => cancelled' = cancelled,
         at'[Output] = "get" => at[Output] = "get", Interrupting' <=> Interrupting,
         \A e \in Range(queue'[Engine]) : e \in Range(queue[Engine]) \/ (e = <<"done", t>> /\ how = "said")
  PROVE  SilenceInv'
<1> USE DEF evars
<1>1. /\ speak'[t] = how /\ \A u \in Turns \ {t} : speak'[u] = speak[u]
      /\ \A u \in Turns : (Speaks(u) <=> u = t) /\ (Speaks(u)' <=> u = t /\ how = "talking")
  BY SpeakGoes
<1>2. \A u \in Turns : (Waiting(u)' <=> Waiting(u)) /\ (Waiting(u) => u # t)
  BY <1>1 DEF Waiting, OutputInv, OrderInv, Speaks
<1>3. \A u \in Turns : InLine(Run(u))' => InLine(Run(u))
  BY MovedIn, TasksDiffer
<1>4. HushInv'
  <2> SUFFICES ASSUME NEW u \in Turns, Waiting(u)' \/ Speaks(u)'
               PROVE  \/ turn'[u] = "speaking" /\ Run(u) \notin cancelled'
                      \/ Hushed(queue'[Output], u)
                      \/ Speak(u) \in cancelled'
    BY DEF HushInv
  <2>1. /\ Waiting(u) \/ Speaks(u)
        /\ Speak(u) \in cancelled => Speak(u) \in cancelled'
    BY <1>1, <1>2
  <2>2. QED  BY <2>1 DEF SilenceInv, HushInv
<1>5. ToldInv'
  BY DEF SilenceInv, ToldInv
<1>6. \A u \in Turns : speak[u] = "said" => speak'[u] = "said"
  BY <1>1 DEF Speaks
<1>7. SaidInv'
  <2>1. \A e \in Range(queue'[Engine]) : e[1] = "done" => e[2] \in Turns /\ speak'[e[2]] = "said"
    BY <1>1, <1>6 DEF SilenceInv, SaidInv
  <2>2. QED  BY <1>3, <1>6, <2>1 DEF SilenceInv, SaidInv
<1>8. QED  BY <1>4, <1>5, <1>7 DEF SilenceInv

LEMMA SpeaksSilent ==
  ASSUME EngineInv, OutputInv, SilenceInv, NEW t \in Turns,
         SpeakWaits(t) \/ SpeakEnds(t) \/ SpeakCancelled(t), UNCHANGED evars
  PROVE  SilenceInv'
<1>1. Slice(Speak(t))
  BY DEF SpeakWaits, SpeakEnds, SpeakCancelled, SpeakSlice
<1>2. /\ running = Nobody /\ ready # <<>> /\ Head(ready) = Speak(t)
      /\ Line(ready) /\ Speak(t) \in Tasks /\ Speaks(t)
  BY <1>1, SpeakSliceIs
<1>3. CASE SpeakWaits(t)
  <2>1. /\ speak' = [speak EXCEPT ![t] = "talking"] /\ ready' = Tail(ready)
        /\ UNCHANGED <<cancelled, queue, at, coming>>
    BY <1>3 DEF SpeakWaits
  <2>2. Moved({Speak(t)}, {})
    BY <1>2, <2>1, LineShrinks
  <2>3. /\ Interrupting' <=> Interrupting
        /\ queue'[Output] = queue[Output] /\ (at'[Output] = "get" => at[Output] = "get")
        /\ \A e \in Range(queue'[Engine]) : e \in Range(queue[Engine])
        /\ \A u \in Turns : Run(u) \in cancelled' <=> Run(u) \in cancelled
        /\ \A u \in Turns \ {t} : Speak(u) \in cancelled => Speak(u) \in cancelled'
    BY <2>1 DEF Interrupting
  <2>4. PICK come : Moved({Speak(t)}, come) /\ come \subseteq Actors
    BY <2>2
  <2>5. QED  BY <1>1, <2>1, <2>3, <2>4, SpeakSilent
<1>4. CASE SpeakEnds(t)
  <2>1. /\ speak' = [speak EXCEPT ![t] = "said"] /\ ready' = Tail(ready) \o Woken(Engine)
        /\ Publish(Engine, <<"done", t>>) /\ UNCHANGED <<cancelled, coming>>
    BY <1>4 DEF SpeakEnds
  <2>2. <<"done", t>> \in Events
    BY EventParts, TasksDiffer DEF Kinds
  <2>3. /\ queue'[Output] = queue[Output] /\ at'[Output] = at[Output]
        /\ Range(queue'[Engine]) \subseteq Range(queue[Engine]) \cup {<<"done", t>>}
        /\ at'[Engine] = at[Engine] \/ (at[Engine] = "get" /\ at'[Engine] = "no")
        /\ \/ Woken(Engine) = <<>>
           \/ Woken(Engine) = <<Engine>> /\ ~InLine(Engine)
    BY <1>2, <2>1, <2>2, Published, TasksDiffer DEF EngineInv
  <2>4. Moved({Speak(t)}, Range(Woken(Engine)))
    BY <1>2, <2>1, <2>3, LineTurns, TasksDiffer
  <2>5. Range(Woken(Engine)) \subseteq Actors
    BY <2>3, Ranges, TasksDiffer
  <2>6. Interrupting' <=> Interrupting
    BY <2>3 DEF Interrupting
  <2>7. QED  BY <1>1, <2>1, <2>3, <2>4, <2>5, <2>6, SpeakSilent
<1>5. CASE SpeakCancelled(t)
  <2>1. /\ cancelled' = cancelled \ {Speak(t)} /\ UNCHANGED <<queue, coming>>
        /\ at' = Joined(Output, speakTask = t)
        /\ ready' = Tail(ready) \o Joiner(Output, speakTask = t)
    BY <1>5 DEF SpeakCancelled
  <2>2. PICK how \in {"said", "unsaid"} :
          speak' = [speak EXCEPT ![t] = how] /\ (how = "unsaid" => speak[t] # "talking")
    BY <1>5 DEF SpeakCancelled
  <2>3. how = "unsaid" => speak[t] = "new"
    BY <1>2, <2>2 DEF Speaks
  <2>4. /\ at'[Engine] = at[Engine] /\ (at'[Output] = "get" => at[Output] = "get")
        /\ \/ Joiner(Output, speakTask = t) = <<Output>> /\ ~InLine(Output)
           \/ Joiner(Output, speakTask = t) = <<>>
    BY <2>1, Joins, TasksDiffer DEF EngineInv
  <2>5. Moved({Speak(t)}, Range(Joiner(Output, speakTask = t)))
    BY <1>2, <2>1, <2>4, LineTurns, TasksDiffer
  <2>6. Range(Joiner(Output, speakTask = t)) \subseteq Actors
    BY <2>4, Ranges, TasksDiffer
  <2>7. /\ Interrupting' <=> Interrupting
        /\ \A u \in Turns : Run(u) \in cancelled' <=> Run(u) \in cancelled
        /\ \A u \in Turns \ {t} : Speak(u) \in cancelled => Speak(u) \in cancelled'
    BY <2>1, <2>4, TasksDiffer DEF Interrupting
  <2>8. QED  BY <1>1, <2>1, <2>2, <2>3, <2>4, <2>5, <2>6, <2>7, SpeakSilent
<1>6. QED  BY <1>3, <1>4, <1>5

LEMMA SilenceStarts == Init => SilenceInv
<1> SUFFICES ASSUME Init
             PROVE  SilenceInv
  OBVIOUS
<1>1. /\ queue[Output] = <<>> /\ queue[Engine] = <<>> /\ at[Output] = "no" /\ coming = 0
      /\ \A t \in Turns : speak[t] = "none" /\ turn[t] = "none"
  BY TasksDiffer DEF Init, LoopInit, EngineInit, OutputInit
<1>2. Range(queue[Output]) = {} /\ Range(queue[Engine]) = {} /\ Distinct(queue[Output])
  BY <1>1, Ranges DEF Distinct
<1>3. \A t \in Turns : ~Waiting(t) /\ ~Speaks(t)
  BY <1>1, <1>2, TasksDiffer DEF Waiting, Speaks
<1>4. QED  BY <1>1, <1>2, <1>3 DEF SilenceInv, HushInv, ToldInv, SaidInv

LEMMA SilenceKeeps ==
  ASSUME QueueCap >= 2 * MaxInputs, EngineInv, OutputInv, SilenceInv, [Next]_vars
  PROVE  SilenceInv'
<1>1. CASE UNCHANGED vars
  <2>1. UNCHANGED <<lvars, evars, ovars>> /\ UNCHANGED <<ready, running, cancelled, queue, at>>
    BY <1>1 DEF vars, lvars
  <2>2. \A t \in Turns : InLine(Run(t))' <=> InLine(Run(t))
    BY <2>1 DEF InLine
  <2>3. /\ at[Output] = "get" => queue[Output] = <<>>
        /\ \A e \in Range(queue[Output]) : e[1] = "cancel" /\ e[2] = session' => Interrupting'
    BY <2>1 DEF SilenceInv, ToldInv, Interrupting, evars
  <2>4. QED  BY <2>1, <2>2, <2>3, SilenceRests DEF evars
<1>2. CASE Next
  <2>1. CASE (\E a \in Actors : Resumes(a) \/ WaitsForEvent(a)) /\ UNCHANGED <<evars, bvars, ovars, inputs>>
    BY <2>1, LoopSilent
  <2>2. CASE (OnWake \/ OnFinal \/ OnBarge \/ GoesOn \/ OnDone) /\ UNCHANGED <<ovars, inputs>>
    BY <2>2, WakeSilent, FinalSilent, BargeSilent, GoesOnSilent, DoneSilent
  <2>3. CASE (OnReply \/ OnCancel \/ SpeaksNext) /\ UNCHANGED <<evars, bvars, inputs>>
    BY <2>3, ReplySilent, CancelSilent, SpeaksNextSilent
  <2>4. ASSUME NEW t \in Turns, UNCHANGED <<ovars, inputs>>,
               TurnStarts(t) \/ TurnAnswers(t) \/ TurnSpoken(t) \/ TurnCancelled(t)
        PROVE  SilenceInv'
    BY <2>4, TurnsSilent
  <2>5. ASSUME NEW t \in Turns, UNCHANGED <<evars, bvars, inputs>>,
               SpeakWaits(t) \/ SpeakEnds(t) \/ SpeakCancelled(t)
        PROVE  SilenceInv'
    BY <2>5, SpeaksSilent
  <2>6. ASSUME NEW e \in Events, e[1] # "done", Input(e)
        PROVE  SilenceInv'
    BY <2>6, LoopSilent DEF Input
  <2>7. ASSUME NEW t \in Turns, (turn[t] = "thinking" /\ Ready(Run(t))) \/ Ready(Speak(t))
        PROVE  SilenceInv'
    BY <2>7, LoopSilent DEF Ready
  <2>8. CASE Clock
    BY <2>8, LoopSilent DEF Clock
  <2>9. Typed
    BY DEF EngineInv
  <2>10. QED  BY <1>2, <2>1, <2>2, <2>3, <2>4, <2>5, <2>6, <2>7, <2>8, <2>9, Steps
<1>3. QED  BY <1>1, <1>2

-----------------------------------------------------------------------------
(* The inductive invariant: what the engine knows of the turns, what the   *)
(* output knows of the voices, and that the line and the queues agree with *)
(* both.                                                                   *)
THEOREM MindHolds == Spec => [](EngineInv /\ OutputInv)
<1>1. Init => EngineInv /\ OutputInv
  BY EngineStarts, OutputStarts
<1>2. EngineInv /\ OutputInv /\ [Next]_vars => (EngineInv /\ OutputInv)'
  BY EngineKeeps, OutputKeeps
<1>3. QED  BY <1>1, <1>2, PTL DEF Spec

(* SERVER.md, I-1: the task of a turn that thinks or speaks is the task of *)
(* the session, and the state is its state, however many wakes and stale   *)
(* transcripts came between (_run_turn, _on_barge_in).                     *)
THEOREM TurnIsOwned == Spec => []TurnOwnsState
<1>1. EngineInv => TurnOwnsState
  <2> SUFFICES ASSUME EngineInv
               PROVE  TurnOwnsState
    OBVIOUS
  <2>1. \A t \in Turns : turn[t] \in {"thinking", "speaking"} => session = t
    BY DEF EngineInv, TurnInv
  <2>2. ~Interrupting /\ state \in {"THINKING", "SPEAKING"} =>
          session # 0 /\ turn[session] = (IF state = "THINKING" THEN "thinking" ELSE "speaking")
    BY OthersAreQuiet DEF EngineInv, StateInv
  <2>3. QED  BY <2>1, <2>2 DEF TurnOwnsState
<1>2. QED  BY <1>1, MindHolds, PTL

(* One call to the LLM at a time: the breaker, which admits one probe,     *)
(* never sees two calls under way (_run_turn, allow_request).              *)
THEOREM CallsComeOneByOne == Spec => []CallsAreSequential
<1>1. EngineInv => CallsAreSequential
  BY DEF EngineInv, TurnInv, CallInv, CallsAreSequential
<1>2. QED  BY <1>1, MindHolds, PTL

(* The mind implements Voice: one turn at a time between its SAY_BEGIN and *)
(* its end, each once, none after a later one, whatever is cancelled       *)
(* (_on_reply_ready, _speak).                                              *)
THEOREM MindHasOneVoice == Spec => OneVoice
<1>1. Init => Say!Init
  <2>1. Init => Voices = {} /\ Latest = 0
    BY DEF Init, OutputInit, Voices, Latest, Begun
  <2>2. QED  BY <2>1 DEF Say!Init, Voices, Latest
<1>2. EngineInv /\ OutputInv /\ (EngineInv /\ OutputInv)' /\ [Next]_vars => [Say!Next]_<<Voices, Latest>>
  <2>1. \A t \in Turns : VoiceStep(t) => Say!Next
    BY DEF VoiceStep, Said, Voices, Latest, Say!Next, Say!Begin, Say!End, Say!Whole
  <2>2. QED  BY <2>1, VoiceSteps
<1>3. QED  BY <1>1, <1>2, MindHolds, PTL DEF Spec, OneVoice, Say!Spec, Voices, Latest

(* SERVER.md, I-2: in a turn that listens, and with the queue read, nobody *)
(* speaks (_on_barge_in, _on_cancel).  The queues must have room for the   *)
(* two orders of every turn: publish_nowait drops what does not fit, and   *)
(* with it goes the order to be silent.                                    *)
THEOREM ListensInSilence ==
  ASSUME QueueCap >= 2 * MaxInputs
  PROVE  Spec => []ListeningIsSilent
<1>1. Init => SilenceInv
  BY SilenceStarts
<1>2. EngineInv /\ OutputInv /\ SilenceInv /\ [Next]_vars => SilenceInv'
  BY SilenceKeeps
<1>3. EngineInv /\ OutputInv /\ SilenceInv => ListeningIsSilent
  <2> SUFFICES ASSUME EngineInv, OutputInv, SilenceInv, state = "LISTENING", at[Output] = "get",
                      NEW t \in Turns, Speaks(t)
               PROVE  FALSE
    BY DEF ListeningIsSilent
  <2>1. turn[t] # "speaking"
    BY DEF EngineInv, TurnInv
  <2>2. ~Hushed(queue[Output], t)
    BY DEF SilenceInv, ToldInv, Hushed
  <2>3. Speak(t) \notin cancelled
    BY DEF OutputInv, SpeechInv
  <2>4. QED  BY <2>1, <2>2, <2>3 DEF SilenceInv, HushInv
<1>4. QED  BY <1>1, <1>2, <1>3, MindHolds, PTL DEF Spec
=============================================================================
