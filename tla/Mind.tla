-------------------------------- MODULE Mind --------------------------------
(***************************************************************************)
(* The mind server: the turn engine and the output, each an actor with a   *)
(* queue, and the tasks they start and cancel, all on one event loop       *)
(* (runtime.py).  Wakes, transcripts and interruptions come from outside   *)
(* at any time, stale ones too; providers answer, fail or take their time. *)
(***************************************************************************)
EXTENDS TurnEngine, MindOutput, FiniteSets, FiniteSetsExt

VARIABLE inputs   \* events that came from outside

vars == <<lvars, bvars, evars, ovars, inputs>>

Init ==
  /\ LoopInit /\ BreakerInit /\ EngineInit /\ OutputInit
  /\ inputs = 0

LoopActs ==
  \/ EngineActs /\ UNCHANGED <<ovars, inputs>>
  \/ OutputActs /\ UNCHANGED <<evars, bvars, inputs>>
  \/ \E t \in Turns :
       \/ TurnActs(t) /\ UNCHANGED <<ovars, inputs>>
       \/ SpeakActs(t) /\ UNCHANGED <<evars, bvars, inputs>>

-----------------------------------------------------------------------------
(* Between two slices.  A transcript or an interruption names a turn that  *)
(* was announced, if not the one that is on.                               *)
Input(e) ==
  /\ running = Nobody /\ inputs < MaxInputs
  /\ inputs' = inputs + 1
  /\ Publish(Engine, e)
  /\ ready' = ready \o Woken(Engine)
  /\ UNCHANGED <<running, cancelled, bvars, evars, ovars>>

Wake == Input(<<"wake", 0>>)
Final(t) == t <= turns /\ Input(<<"final", t>>)
BargeIn(t) == t <= turns /\ Input(<<"barge", t>>)

(* What a task waits for comes. *)
Ready(task) ==
  /\ running = Nobody /\ ~InLine(task)
  /\ ready' = Append(ready, task)
  /\ UNCHANGED <<running, cancelled, queue, at, bvars, evars, ovars, inputs>>
ProviderAnswers(t) == turn[t] = "thinking" /\ Ready(Run(t))
AudioComes(t) == speak[t] = "talking" /\ Ready(Speak(t))

Clock == running = Nobody /\ ResetTimeout /\ UNCHANGED <<lvars, evars, ovars, inputs>>

Outside ==
  \/ Wake
  \/ \E t \in Turns : Final(t) \/ BargeIn(t) \/ ProviderAnswers(t) \/ AudioComes(t)
  \/ Clock

Next == LoopActs \/ Outside
Spec == Init /\ [][Next]_vars

(* The loop runs what is in line; a call to the LLM has a timeout, and the *)
(* audio of a sentence is finite.                                          *)
FairSpec ==
  /\ Spec
  /\ WF_vars(LoopActs)
  /\ \A t \in Turns :
       /\ WF_vars(ProviderAnswers(t)) /\ WF_vars(AudioComes(t))
       /\ SF_vars(SpeakEnds(t) /\ UNCHANGED <<evars, bvars, inputs>>)
-----------------------------------------------------------------------------
(* One voice at a time, each turn once and in order, whatever is cancelled *)
(* and whenever.                                                           *)
Begun == {t \in Turns : speak[t] \in {"talking", "said"}}
Say == INSTANCE Voice WITH
         voices <- {t \in Turns : speak[t] = "talking"},
         last <- IF Begun = {} THEN 0 ELSE Max(Begun)
OneVoice == Say!Spec

(* SERVER.md, I-1: the task of a turn that thinks or speaks is the task of *)
(* the session, and the state is its state; a task that a wake left behind *)
(* before it started never gets that far.                                  *)
Interrupting == at[Engine] \in {"join", "joined"}
TurnOwnsState ==
  /\ \A t \in Turns : turn[t] \in {"thinking", "speaking"} => session = t
  /\ ~Interrupting /\ state \in {"THINKING", "SPEAKING"} =>
       /\ session # 0
       /\ turn[session] = (IF state = "THINKING" THEN "thinking" ELSE "speaking")

(* SERVER.md, I-2: whoever listens is not spoken over, once the output has *)
(* read its queue.                                                         *)
ListeningIsSilent ==
  state = "LISTENING" /\ at[Output] = "get" => \A t \in Turns : ~Speaks(t)

(* The breaker lets one call through at a time because the turns make one  *)
(* at a time: a new one starts only when the task of the last has ended.   *)
CallsAreSequential ==
  \A t \in Turns : turn[t] = "thinking" =>
    /\ circuit # "open"
    /\ circuit = "half_open" => probing
    /\ \A u \in Turns \ {t} : turn[u] # "thinking"

(* A wake is answered by listening. *)
WakeAnswered ==
  <<"wake", 0>> \in Range(queue[Engine]) ~> state = "LISTENING"

(* A turn that speaks comes to an end. *)
SpeakingEnds == state = "SPEAKING" ~> state # "SPEAKING"

(* SERVER.md, 4, and the message of CircuitOpenError: a breaker that       *)
(* refuses has a probe to come, or one under way; a probe that was         *)
(* cancelled never gives its place back.                                   *)
RefusalHasProbe ==
  ~Allowed => (circuit = "open" /\ ~rested) \/ \E t \in Turns : turn[t] = "thinking"
=============================================================================
