--------------------------- MODULE PlatformProofs ---------------------------
(***************************************************************************)
(* The volume for every set of its values and any number of boots; the log *)
(* for every capacity of its ring and the watchdog for every width of its  *)
(* clock; the panel for every size of the display, of the cache line and   *)
(* of the staging buffer, every set of faces and any number of failed      *)
(* transfers.                                                              *)
(***************************************************************************)
EXTENDS Display, Boot, Upkeep, SequenceTheorems, WellFoundedInduction, TLAPS

-----------------------------------------------------------------------------
(* The volume.  An order that overlaps the restoring is a race; another is *)
(* heard before app_config has it, and what app_main reads is what is known*)
(* until it is applied.                                                    *)
BootTypes ==
  /\ wanted \in 0..100 /\ hasConfig \in BOOLEAN
  /\ cache \in [Settings -> Int]
RacesAreSeen == order # "none" /\ Restoring => raced
OrderIsHeard == order = "save" /\ ~raced => heard = wanted
KeptIsRead == step = "restore" /\ ~raced => kept = Value("volume")
BootInv ==
  /\ BootTypes /\ RacesAreSeen /\ OrderIsHeard /\ KeptIsRead /\ VolumeIsRestored

LEMMA BootStart == BootInit => BootInv
<1> SUFFICES ASSUME BootInit PROVE BootInv  OBVIOUS
<1>1. cache = [k \in Settings |-> -1] /\ -1 \in Int  BY DEF BootInit, Unset
<1>2. cache \in [Settings -> Int]  BY <1>1
<1>3. step = "logger" /\ order = "none" /\ wanted = 100 /\ ~hasConfig
  BY DEF BootInit
<1>4. BootTypes
  <2>1. hasConfig \in BOOLEAN  BY DEF BootInit
  <2>2. QED  BY <1>2, <1>3, <2>1 DEF BootTypes
<1>5. QED
  BY <1>3, <1>4 DEF BootInv, RacesAreSeen, OrderIsHeard, KeptIsRead, VolumeIsRestored,
     Restoring

(* The steps of app_main and of the face task that leave app_config alone. *)
LEMMA BootQuiet ==
  BootInv /\ (LoggerPhase \/ StartServices \/ ConfirmImage \/ AudioUp \/ CheckInit
              \/ PlaybackInit \/ ReadKept \/ Restore) => BootInv'
<1> SUFFICES ASSUME BootInv,
                    LoggerPhase \/ StartServices \/ ConfirmImage \/ AudioUp \/ CheckInit
                      \/ PlaybackInit \/ ReadKept \/ Restore
             PROVE  BootInv'
  OBVIOUS
<1> USE DEF BootInv
<1>1. /\ order' = order /\ wanted' = wanted /\ hasConfig' = hasConfig /\ cache' = cache
  BY DEF LoggerPhase, StartServices, ConfirmImage, AudioUp, CheckInit, PlaybackInit,
         ReadKept, Restore, face, settings
<1>2. BootTypes' /\ Value("volume")' = Value("volume")  BY <1>1 DEF BootTypes, Value
<1>3. CASE LoggerPhase \/ StartServices \/ ConfirmImage
  <2>1. /\ step \in {"logger", "watchdog", "ota"} /\ step' \in {"config", "ota", "audio"}
        /\ heard' = heard /\ raced' = raced
    BY <1>3 DEF LoggerPhase, StartServices, ConfirmImage, sound
  <2>2. QED
    BY <1>1, <1>2, <2>1
       DEF RacesAreSeen, OrderIsHeard, KeptIsRead, VolumeIsRestored, Restoring
<1>4. CASE AudioUp
  BY <1>1, <1>2, <1>4 DEF AudioUp,
     RacesAreSeen, OrderIsHeard, KeptIsRead, VolumeIsRestored, Restoring
<1>5. CASE CheckInit
  BY <1>1, <1>2, <1>5 DEF CheckInit, sound,
     RacesAreSeen, OrderIsHeard, KeptIsRead, VolumeIsRestored, Restoring
<1>6. CASE PlaybackInit
  BY <1>1, <1>2, <1>6 DEF PlaybackInit,
     RacesAreSeen, OrderIsHeard, KeptIsRead, VolumeIsRestored, Restoring
<1>7. CASE ReadKept
  BY <1>1, <1>2, <1>7 DEF ReadKept,
     RacesAreSeen, OrderIsHeard, KeptIsRead, VolumeIsRestored, Restoring
<1>8. CASE Restore
  BY <1>1, <1>2, <1>8 DEF Restore,
     RacesAreSeen, OrderIsHeard, KeptIsRead, VolumeIsRestored, Restoring
<1>9. QED  BY <1>3, <1>4, <1>5, <1>6, <1>7, <1>8

LEMMA BootOrders ==
  BootInv /\ (OrderComes \/ OrderInit \/ OrderSet) => BootInv'
<1> SUFFICES ASSUME BootInv, OrderComes \/ OrderInit \/ OrderSet PROVE BootInv'
  OBVIOUS
<1> USE DEF BootInv
<1>1. step' = step /\ hasConfig' = hasConfig /\ cache' = cache
  BY DEF OrderComes, OrderInit, OrderSet, settings
<1>2. wanted' \in 0..100
  BY BootAssumption DEF OrderComes, OrderInit, OrderSet, BootTypes
<1>3. BootTypes' /\ Value("volume")' = Value("volume")
  BY <1>1, <1>2 DEF BootTypes, Value
<1>4. CASE OrderComes
  BY <1>1, <1>3, <1>4 DEF OrderComes,
     RacesAreSeen, OrderIsHeard, KeptIsRead, VolumeIsRestored, Restoring
<1>5. CASE OrderInit
  BY <1>1, <1>3, <1>5 DEF OrderInit,
     RacesAreSeen, OrderIsHeard, KeptIsRead, VolumeIsRestored, Restoring
<1>6. CASE OrderSet
  BY <1>1, <1>3, <1>6 DEF OrderSet,
     RacesAreSeen, OrderIsHeard, KeptIsRead, VolumeIsRestored, Restoring
<1>7. QED  BY <1>4, <1>5, <1>6

LEMMA BootSave == BootInv /\ OrderSave => BootInv'
<1> SUFFICES ASSUME BootInv, OrderSave PROVE BootInv'  OBVIOUS
<1> USE DEF BootInv
<1>1. /\ step' = step /\ order = "save" /\ order' = "none" /\ wanted' = wanted
      /\ hasConfig' = hasConfig /\ heard' = heard /\ kept' = kept /\ raced' = raced
      /\ SetU32("volume", wanted)
  BY DEF OrderSave, sound
<1>2. "volume" \in Settings /\ MaxValue["volume"] = 100  BY DEF Settings, MaxValue
<1>3. BootTypes /\ cache \in [Settings -> Int] /\ wanted \in 0..100  BY DEF BootTypes
<1>4. cache' \in {cache, [cache EXCEPT !["volume"] = wanted]}  BY <1>1 DEF SetU32
<1>5. BootTypes'  BY <1>1, <1>3, <1>4 DEF BootTypes
<1>6. hasConfig => Value("volume")' = wanted
  <2> SUFFICES ASSUME hasConfig PROVE Value("volume")' = wanted  OBVIOUS
  <2>1. cache' = [cache EXCEPT !["volume"] = wanted]  BY <1>1, <1>2, <1>3 DEF SetU32
  <2>2. cache'["volume"] = wanted  BY <1>2, <1>3, <2>1
  <2>3. QED  BY <1>3, <2>2 DEF Value, Unset
<1>7. step = "restore" => raced  BY <1>1 DEF RacesAreSeen, Restoring
<1>8. VolumeIsRestored'
  <2>1. ~raced => heard = wanted  BY <1>1 DEF OrderIsHeard
  <2>2. QED  BY <1>1, <1>6, <2>1 DEF VolumeIsRestored
<1>9. QED
  BY <1>1, <1>5, <1>7, <1>8 DEF RacesAreSeen, OrderIsHeard, KeptIsRead

(* Loading the settings, counting the failed boots, and the power that     *)
(* goes, all before app_main restores anything.                            *)
LEMMA BootEarly == BootInv /\ (ConfigPhase \/ RecordStreak \/ Reboot) => BootInv'
<1> SUFFICES ASSUME BootInv, ConfigPhase \/ RecordStreak \/ Reboot PROVE BootInv'
  OBVIOUS
<1> USE DEF BootInv
<1>1. /\ step' \in {"streak", "watchdog", "logger"}
      /\ wanted' \in 0..100 /\ hasConfig' \in BOOLEAN
      /\ order' = "none" \/ (order' = order /\ wanted' = wanted /\ heard' = heard
                               /\ raced' = raced)
  <2>1. CASE ConfigPhase  BY <2>1 DEF ConfigPhase, BootTypes, face, sound
  <2>2. CASE RecordStreak  BY <2>2 DEF RecordStreak, BootTypes, face, sound
  <2>3. CASE Reboot
    <3>1. hasConfig' \in BOOLEAN  BY <2>3 DEF Reboot, Rebooted
    <3>2. step' = "logger" /\ wanted' = 100 /\ order' = "none"
      BY <2>3 DEF Reboot, Rebooted
    <3>3. QED  BY <3>1, <3>2
  <2>4. QED  BY <2>1, <2>2, <2>3
<1>2. cache' \in [Settings -> Int]
  <2>1. CASE cache' = [k \in Settings |-> Unset]
    <3>1. -1 \in Int  OBVIOUS
    <3>2. QED  BY <2>1, <3>1 DEF Unset
  <2>2. CASE RecordStreak
    <3> DEFINE n == IF outcome = "SAFE_MODE" THEN Value("streak") + 1 ELSE 0
    <3>1. SetU32("streak", n) /\ cache \in [Settings -> Int]
      BY <2>2 DEF RecordStreak, BootTypes
    <3>2. n \in Int
      <4>1. cache["streak"] \in Int /\ Default["streak"] \in Int
        BY <3>1 DEF Settings, Default
      <4>2. QED  BY <4>1 DEF Value
    <3> HIDE DEF n
    <3>3. QED  BY <3>1, <3>2 DEF SetU32
  <2>3. QED  BY <2>1, <2>2 DEF ConfigPhase, Reboot, Rebooted
<1>3. BootTypes'  BY <1>1, <1>2 DEF BootTypes
<1>4. QED
  BY <1>1, <1>3 DEF RacesAreSeen, OrderIsHeard, KeptIsRead, VolumeIsRestored, Restoring

LEMMA BootStays == BootInv /\ UNCHANGED bootVars => BootInv'
<1> SUFFICES ASSUME BootInv, UNCHANGED bootVars PROVE BootInv'  OBVIOUS
<1> USE DEF BootInv
<1>1. /\ step' = step /\ order' = order /\ wanted' = wanted /\ raced' = raced
      /\ heard' = heard /\ kept' = kept /\ hasConfig' = hasConfig /\ cache' = cache
  BY DEF bootVars, face, sound, settings
<1>2. BootTypes' /\ Value("volume")' = Value("volume")  BY <1>1 DEF BootTypes, Value
<1>3. QED
  BY <1>1, <1>2
     DEF RacesAreSeen, OrderIsHeard, KeptIsRead, VolumeIsRestored, Restoring

(* Once app_main is done, the volume heard is the one app_config knows,    *)
(* unless an order came while app_main was putting the one it read back    *)
(* (app_main, DEVICE_CONFIG in the shell of reflex_engine).                *)
THEOREM VolumeComesBack == BootSpec => []VolumeIsRestored
<1>1. BootInv /\ [BootNext]_bootVars => BootInv'
  BY BootQuiet, BootOrders, BootSave, BootEarly, BootStays DEF BootNext
<1>2. BootInv => VolumeIsRestored  BY DEF BootInv
<1>3. QED  BY <1>1, <1>2, BootStart, PTL DEF BootSpec

-----------------------------------------------------------------------------
(* The log.  The ring holds the consecutive numbers up to the last one; a  *)
(* reader has nothing past its cursor, and was told of losses before it.   *)
LogTypes ==
  /\ nextSeq \in Nat \ {0} /\ cursor \in Nat /\ cursor < nextSeq
  /\ lines \in Seq(Nat) /\ Len(lines) <= LogCapacity
  /\ got \subseteq 1..cursor /\ told \subseteq 0..cursor - 1
RingIsConsecutive == \A i \in 1..Len(lines) : lines[i] = nextSeq - 1 - Len(lines) + i
LogInv == LogTypes /\ RingIsConsecutive /\ LossesAreTold

(* The tasks: the feeds are those of the true time, cut to the clock.      *)
DogTypes ==
  /\ elapsed \in Nat
  /\ tasks \in Seq([name : Names, fed : 0..Wrap - 1, timeout : Timeouts])
  /\ fedAt \in Seq(Nat) /\ Len(fedAt) = Len(tasks)
FeedsAreTrue ==
  \A i \in 1..Len(tasks) : fedAt[i] <= elapsed /\ tasks[i].fed = fedAt[i] % Wrap
DogInv == DogTypes /\ FeedsAreTrue

LEMMA LeastOf ==
  ASSUME NEW S, S \subseteq Nat, S # {}
  PROVE  \E m \in S : \A k \in S : m <= k
<1> DEFINE below == {ss \in Nat \X Nat : ss[1] < ss[2]}
<1>1. IsWellFoundedOn(below, Nat)  BY NatLessThanWellFounded DEF OpToRel
<1>2. PICK m \in S : \A k \in S : <<k, m>> \notin below  BY <1>1, WFMin
<1>3. ASSUME NEW k \in S PROVE m <= k
  <2>1. m \in Nat /\ k \in Nat /\ <<k, m>> \notin below  BY <1>2
  <2>2. ~(k < m)  BY <2>1
  <2>3. QED  BY <2>1, <2>2
<1>4. QED  BY <1>3

(* Within a turn of the clock the remainder of a difference of remainders  *)
(* is the difference.                                                      *)
LEMMA Elapses ==
  ASSUME NEW m \in Nat \ {0}, NEW a \in Nat, NEW b \in Nat, b <= a, a - b < m
  PROVE  ((a % m) - (b % m)) % m = a - b
<1> DEFINE q == a \div m  r == a % m  p == b \div m  s == b % m
<1>1. /\ q \in Nat /\ r \in 0..m - 1 /\ a = m * q + r
      /\ p \in Nat /\ s \in 0..m - 1 /\ b = m * p + s
  OBVIOUS
<1> HIDE DEF q, r, p, s
<1> DEFINE d == q - p
<1>2. d \in Int /\ m * q = m * p + m * d  BY <1>1
<1> HIDE DEF d
<1>3. m * q \in Int /\ m * p \in Int /\ m * d \in Int  BY <1>1, <1>2
<1>4. a - b = m * d + (r - s)  BY <1>1, <1>2, <1>3
<1>5. d \in {0, 1}
  <2>1. CASE d >= 2
    <3>1. m * d >= m * 2  BY <1>2, <2>1
    <3>2. QED  BY <1>1, <1>3, <1>4, <3>1
  <2>2. CASE d <= -1
    <3>1. m * d <= -m  BY <1>2, <2>2
    <3>2. QED  BY <1>1, <1>3, <1>4, <3>1
  <2>3. QED  BY <1>2, <2>1, <2>2
<1>6. CASE d = 0
  <2>1. a - b = r - s /\ r - s \in 0..m - 1  BY <1>1, <1>4, <1>6
  <2>2. (r - s) % m = r - s  BY <2>1
  <2>3. QED  BY <2>1, <2>2 DEF r, s
<1>7. CASE d = 1
  <2>1. a - b = m + (r - s)  BY <1>1, <1>4, <1>7
  <2>2. r - s \in Int /\ r - s < 0 /\ r - s >= -m /\ m + (r - s) \in 0..m - 1  BY <1>1, <2>1
  <2>3. (r - s) % m = m + (r - s)  BY <2>2
  <2>4. QED  BY <2>1, <2>3 DEF r, s
<1>8. QED  BY <1>5, <1>6, <1>7

-----------------------------------------------------------------------------
LEMMA DogStart == WatchdogInit => DogInv
BY DEF WatchdogInit, DogInv, DogTypes, FeedsAreTrue

LEMMA NowIsClock == ASSUME elapsed \in Nat PROVE NowMs \in 0..Wrap - 1
BY WatchdogAssumption DEF NowMs

LEMMA DogRegister ==
  ASSUME DogInv, NEW n \in Names, NEW t \in Timeouts, Register(n, t)
  PROVE  DogInv'
<1> DEFINE entry == [name |-> n, fed |-> NowMs, timeout |-> t]
<1>1. /\ elapsed \in Nat
      /\ tasks \in Seq([name : Names, fed : 0..Wrap - 1, timeout : Timeouts])
      /\ fedAt \in Seq(Nat) /\ Len(fedAt) = Len(tasks)
  BY DEF DogInv, DogTypes
<1>2. /\ tasks' = Append(tasks, entry) /\ fedAt' = Append(fedAt, elapsed)
      /\ elapsed' = elapsed
  BY DEF Register
<1>3. entry \in [name : Names, fed : 0..Wrap - 1, timeout : Timeouts]
  BY <1>1, NowIsClock
<1>4. entry.fed = elapsed % Wrap  BY DEF NowMs
<1> HIDE DEF entry
<1>5. DogTypes'  BY <1>1, <1>2, <1>3 DEF DogTypes
<1>6. ASSUME NEW i \in 1..Len(tasks')
      PROVE  fedAt'[i] <= elapsed' /\ tasks'[i].fed = fedAt'[i] % Wrap
  <2>1. CASE i \in 1..Len(tasks)
    <3>1. fedAt'[i] = fedAt[i] /\ tasks'[i] = tasks[i]  BY <1>1, <1>2, <1>3, <2>1
    <3>2. QED  BY <1>2, <2>1, <3>1 DEF DogInv, FeedsAreTrue
  <2>2. CASE i = Len(tasks) + 1
    <3>1. fedAt'[i] = elapsed /\ tasks'[i] = entry  BY <1>1, <1>2, <1>3, <2>2
    <3>2. QED  BY <1>1, <1>2, <1>4, <3>1
  <2>3. QED  BY <1>1, <1>2, <1>3, <2>1, <2>2
<1>7. QED  BY <1>5, <1>6 DEF DogInv, FeedsAreTrue

LEMMA DogFeed ==
  ASSUME DogInv, NEW j \in DOMAIN tasks, Feed(j)
  PROVE  DogInv'
<1>1. /\ elapsed \in Nat
      /\ tasks \in Seq([name : Names, fed : 0..Wrap - 1, timeout : Timeouts])
      /\ fedAt \in Seq(Nat) /\ Len(fedAt) = Len(tasks)
  BY DEF DogInv, DogTypes
<1>3. tasks[j] \in [name : Names, fed : 0..Wrap - 1, timeout : Timeouts]
  <2>1. DOMAIN tasks = 1..Len(tasks)  BY <1>1
  <2>2. j \in 1..Len(tasks)  BY <2>1
  <2>3. QED  BY <1>1, <2>2, ElementOfSeq
<1> DEFINE entry == [tasks[j] EXCEPT !.fed = NowMs]
<1>2. /\ j \in 1..Len(tasks)
      /\ tasks' = [tasks EXCEPT ![j] = entry] /\ fedAt' = [fedAt EXCEPT ![j] = elapsed]
      /\ elapsed' = elapsed
  BY <1>1 DEF Feed
<1>4. /\ entry \in [name : Names, fed : 0..Wrap - 1, timeout : Timeouts]
      /\ entry.fed = elapsed % Wrap
  BY <1>1, <1>3, NowIsClock DEF NowMs
<1> HIDE DEF entry
<1>5. /\ tasks' \in Seq([name : Names, fed : 0..Wrap - 1, timeout : Timeouts])
      /\ Len(tasks') = Len(tasks) /\ fedAt' \in Seq(Nat) /\ Len(fedAt') = Len(fedAt)
      /\ tasks'[j] = entry /\ fedAt'[j] = elapsed
      /\ \A i \in 1..Len(tasks) : i # j => tasks'[i] = tasks[i] /\ fedAt'[i] = fedAt[i]
  BY <1>1, <1>2, <1>4
<1>6. DogTypes'  BY <1>1, <1>2, <1>5 DEF DogTypes
<1>7. ASSUME NEW i \in 1..Len(tasks')
      PROVE  fedAt'[i] <= elapsed' /\ tasks'[i].fed = fedAt'[i] % Wrap
  <2>1. CASE i = j  BY <1>1, <1>2, <1>4, <1>5, <2>1
  <2>2. CASE i # j  BY <1>2, <1>5, <2>2 DEF DogInv, FeedsAreTrue
  <2>3. QED  BY <2>1, <2>2
<1>8. QED  BY <1>6, <1>7 DEF DogInv, FeedsAreTrue

LEMMA DogTime == DogInv /\ TimePasses => DogInv'
<1> SUFFICES ASSUME DogInv, TimePasses PROVE DogInv'  OBVIOUS
<1>1. tasks' = tasks /\ fedAt' = fedAt /\ elapsed' = elapsed + 1  BY DEF TimePasses
<1>2. DogTypes'  BY <1>1 DEF DogInv, DogTypes
<1>3. ASSUME NEW i \in 1..Len(tasks)
      PROVE  fedAt[i] <= elapsed + 1 /\ tasks[i].fed = fedAt[i] % Wrap
  <2>1. fedAt[i] \in Nat /\ elapsed \in Nat  BY DEF DogInv, DogTypes
  <2>2. QED  BY <2>1 DEF DogInv, FeedsAreTrue
<1>4. QED  BY <1>1, <1>2, <1>3 DEF DogInv, FeedsAreTrue

LEMMA Watches == WatchdogSpec => []DogInv
<1>1. ASSUME DogInv, [WatchdogNext]_watchdogVars PROVE DogInv'
  <2>1. CASE \E n \in Names, t \in Timeouts : Register(n, t)  BY <1>1, <2>1, DogRegister
  <2>2. CASE \E i \in DOMAIN tasks : Feed(i)  BY <1>1, <2>2, DogFeed
  <2>3. CASE TimePasses  BY <1>1, <2>3, DogTime
  <2>4. CASE UNCHANGED watchdogVars
    BY <1>1, <2>4 DEF watchdogVars, DogInv, DogTypes, FeedsAreTrue
  <2>5. QED  BY <1>1, <2>1, <2>2, <2>3, <2>4 DEF WatchdogNext
<1>2. QED  BY <1>1, DogStart, PTL DEF WatchdogSpec

LEMMA Exact == DogInv => CheckIsExact
<1> SUFFICES ASSUME DogInv, \A i \in DOMAIN tasks : elapsed - fedAt[i] < Wrap
             PROVE  LET starved == {i \in DOMAIN tasks : elapsed - fedAt[i] > tasks[i].timeout}
                    IN  IF starved = {} THEN Checked = 0
                        ELSE Checked \in starved /\ \A i \in starved : Checked <= i
  BY DEF CheckIsExact
<1> DEFINE starved == {i \in DOMAIN tasks : elapsed - fedAt[i] > tasks[i].timeout}
           over == {i \in DOMAIN tasks : Expired(i)}
<1>1. DOMAIN tasks = 1..Len(tasks) /\ Len(tasks) \in Nat  BY DEF DogInv, DogTypes
<1>2. ASSUME NEW i \in DOMAIN tasks
      PROVE  (NowMs - tasks[i].fed) % Wrap = elapsed - fedAt[i]
  <2>1. /\ elapsed \in Nat /\ fedAt[i] \in Nat /\ fedAt[i] <= elapsed
        /\ tasks[i].fed = fedAt[i] % Wrap
    BY <1>1 DEF DogInv, DogTypes, FeedsAreTrue
  <2>2. elapsed - fedAt[i] < Wrap /\ Wrap \in Nat \ {0}  BY WatchdogAssumption
  <2>3. ((elapsed % Wrap) - (fedAt[i] % Wrap)) % Wrap = elapsed - fedAt[i]
    BY <2>1, <2>2, Elapses
  <2>4. QED  BY <2>1, <2>3 DEF NowMs
<1>3. over = starved  BY <1>2 DEF Expired
<1>4. Checked = IF over = {} THEN 0 ELSE CHOOSE i \in over : \A j \in over : i <= j
  BY DEF Checked
<1>5. CASE starved = {}  BY <1>3, <1>4, <1>5
<1>6. CASE starved # {}
  <2>1. starved \subseteq Nat  BY <1>1
  <2>3. Checked = CHOOSE i \in starved : \A j \in starved : i <= j
    <3> HIDE DEF starved, over
    <3>1. QED  BY <1>3, <1>4, <1>6
  <2> HIDE DEF starved
  <2>2. \E m \in starved : \A k \in starved : m <= k  BY <1>6, <2>1, LeastOf
  <2>4. Checked \in starved /\ \A i \in starved : Checked <= i  BY <2>2, <2>3
  <2>5. QED  BY <1>6, <2>4 DEF starved
<1>7. QED  BY <1>5, <1>6

-----------------------------------------------------------------------------
LEMMA LogStart == LoggerInit => LogInv
BY LoggerAssumption
   DEF LoggerInit, LogInv, LogTypes, RingIsConsecutive, LossesAreTold

(* A line goes into the ring after the last one.                           *)
LEMMA LogLine ==
  ASSUME LogInv, NEW level, Log(level)
  PROVE  LogInv'
<1>1. /\ nextSeq \in Nat \ {0} /\ cursor \in Nat /\ cursor < nextSeq
      /\ lines \in Seq(Nat) /\ Len(lines) <= LogCapacity /\ LogCapacity \in Nat \ {0}
  BY LoggerAssumption DEF LogInv, LogTypes
<1>2. /\ nextSeq' = nextSeq + 1 /\ cursor' = cursor /\ got' = got /\ told' = told
      /\ lines' = IF Len(lines) < LogCapacity THEN Append(lines, nextSeq)
                  ELSE Append(Tail(lines), nextSeq)
  BY DEF Log
<1>0. nextSeq' = nextSeq + 1  BY <1>2
<1>3. LossesAreTold'  BY <1>2 DEF LogInv, LossesAreTold
<1>4. CASE Len(lines) < LogCapacity
  <2>1. lines' \in Seq(Nat) /\ Len(lines') = Len(lines) + 1
    BY <1>1, <1>2, <1>4
  <2>2. LogTypes'  BY <1>1, <1>2, <1>4, <2>1 DEF LogInv, LogTypes
  <2>3. ASSUME NEW i \in 1..Len(lines') PROVE lines'[i] = nextSeq' - 1 - Len(lines') + i
    <3>1. CASE i \in 1..Len(lines)
      <4>1. lines'[i] = lines[i]  BY <1>1, <1>2, <1>4, <3>1
      <4>2. QED  BY <1>0, <1>1, <2>1, <3>1, <4>1 DEF LogInv, RingIsConsecutive
    <3>2. CASE i = Len(lines) + 1
      <4>1. lines'[i] = nextSeq  BY <1>1, <1>2, <1>4, <3>2
      <4>2. QED  BY <1>0, <1>1, <2>1, <3>2, <4>1
    <3>3. QED  BY <1>1, <2>1, <3>1, <3>2
  <2>4. QED  BY <1>3, <2>2, <2>3 DEF LogInv, RingIsConsecutive
<1>5. CASE ~(Len(lines) < LogCapacity)
  <2>1. Len(lines) = LogCapacity /\ lines # <<>>  BY <1>1, <1>5
  <2>2. /\ Tail(lines) \in Seq(Nat) /\ Len(Tail(lines)) = Len(lines) - 1
        /\ \A i \in 1..Len(lines) - 1 : Tail(lines)[i] = lines[i + 1]
    BY <1>1, <2>1
  <2> DEFINE rest == Tail(lines)
  <2> HIDE DEF rest
  <2>3. /\ rest \in Seq(Nat) /\ Len(rest) = Len(lines) - 1
        /\ \A i \in 1..Len(rest) : rest[i] = lines[i + 1]
        /\ lines' = Append(rest, nextSeq)
    BY <1>2, <1>5, <2>2 DEF rest
  <2>4. lines' \in Seq(Nat) /\ Len(lines') = Len(lines)  BY <1>1, <2>3
  <2>5. LogTypes'  BY <1>1, <1>2, <2>4 DEF LogInv, LogTypes
  <2>6. ASSUME NEW i \in 1..Len(lines') PROVE lines'[i] = nextSeq' - 1 - Len(lines') + i
    <3>1. CASE i \in 1..Len(rest)
      <4>1. i + 1 \in 1..Len(lines) /\ lines'[i] = lines[i + 1]  BY <1>1, <2>3, <3>1
      <4>2. lines[i + 1] = nextSeq - 1 - Len(lines) + (i + 1)
        BY <4>1 DEF LogInv, RingIsConsecutive
      <4>3. QED  BY <1>0, <1>1, <2>4, <3>1, <4>1, <4>2
    <3>2. CASE i = Len(rest) + 1
      <4>1. lines'[i] = nextSeq  BY <1>1, <2>3, <3>2
      <4>2. lines'[i] = nextSeq /\ Len(lines') = Len(lines) /\ i = Len(lines)
        BY <1>1, <2>3, <2>4, <3>2, <4>1
      <4>3. QED  BY <1>0, <1>1, <4>2
    <3>3. QED  BY <1>1, <2>3, <2>4, <3>1, <3>2
  <2>7. QED  BY <1>3, <2>5, <2>6 DEF LogInv, RingIsConsecutive
<1>6. QED  BY <1>4, <1>5

(* A drain takes the numbers from the cursor, or from the oldest line, up  *)
(* to the last of the ring or as many as it was asked for.                 *)
LEMMA LogDrain ==
  ASSUME LogInv, NEW max \in 1..2, Drain(max)
  PROVE  LogInv'
<1> DEFINE oldest == lines[1]
           from == IF Gap(oldest) THEN oldest - 1 ELSE cursor
           fresh == {n \in {lines[i] : i \in DOMAIN lines} : n > from /\ n <= from + max}
           upto == IF from + max <= nextSeq - 1 THEN from + max ELSE nextSeq - 1
<1>1. /\ nextSeq \in Nat \ {0} /\ cursor \in Nat /\ cursor < nextSeq /\ max \in Nat
      /\ lines \in Seq(Nat) /\ Len(lines) <= LogCapacity /\ LogCapacity \in Nat \ {0}
      /\ got \subseteq 1..cursor /\ told \subseteq 0..cursor - 1
  BY LoggerAssumption DEF LogInv, LogTypes
<1>2. /\ lines # <<>> /\ lines' = lines /\ nextSeq' = nextSeq
      /\ got' = got \union fresh
      /\ cursor' = IF fresh = {} THEN from
                   ELSE CHOOSE n \in fresh : \A o \in fresh : o <= n
      /\ told' = IF Gap(oldest) THEN told \union {cursor} ELSE told
  BY DEF Drain
<1>3. Len(lines) \in Nat \ {0} /\ DOMAIN lines = 1..Len(lines)  BY <1>1, <1>2
<1>4. oldest = nextSeq - Len(lines) /\ oldest \in Nat
  <2>1. 1 \in 1..Len(lines)  BY <1>3
  <2>2. oldest = nextSeq - 1 - Len(lines) + 1  BY <2>1 DEF LogInv, RingIsConsecutive
  <2>3. oldest \in Nat  BY <1>1, <2>1, ElementOfSeq
  <2>4. QED  BY <1>1, <1>3, <2>2, <2>3
<1>5. /\ from \in Nat /\ from >= cursor /\ from <= nextSeq - 1 /\ oldest <= from + 1
      /\ Gap(oldest) => from > cursor
      /\ ~Gap(oldest) => from = cursor
  <2>1. CASE Gap(oldest)  BY <1>1, <1>3, <1>4, <2>1 DEF Gap
  <2>2. CASE ~Gap(oldest)  BY <1>1, <1>3, <1>4, <2>2 DEF Gap
  <2>3. QED  BY <2>1, <2>2
<1>6. {lines[i] : i \in DOMAIN lines} = oldest..nextSeq - 1
  <2>1. \A i \in 1..Len(lines) : lines[i] = oldest - 1 + i
    BY <1>1, <1>3, <1>4 DEF LogInv, RingIsConsecutive
  <2>2. \A i \in 1..Len(lines) : lines[i] \in oldest..nextSeq - 1
    BY <1>1, <1>3, <1>4, <2>1
  <2>3. ASSUME NEW n \in oldest..nextSeq - 1
        PROVE  \E i \in DOMAIN lines : n = lines[i]
    <3>1. n - oldest + 1 \in 1..Len(lines)  BY <1>1, <1>3, <1>4
    <3>2. lines[n - oldest + 1] = oldest - 1 + (n - oldest + 1)  BY <2>1, <3>1
    <3>4. n \in Int /\ oldest \in Int  BY <1>4
    <3>5. lines[n - oldest + 1] = n  BY <3>2, <3>4
    <3>3. QED  BY <1>3, <3>1, <3>5
  <2>4. QED  BY <1>3, <2>2, <2>3
<1> HIDE DEF oldest
<1>7. fresh = from + 1..upto
  <2> HIDE DEF from
  <2>1. QED  BY <1>1, <1>4, <1>5, <1>6
<1>8. upto \in Nat /\ upto >= from /\ upto <= nextSeq - 1 /\ upto <= from + max
  BY <1>1, <1>5
<1> HIDE DEF from, fresh, upto
<1>9. cursor' = upto
  <2>1. CASE fresh = {}
    <3>1. upto = from  BY <1>5, <1>7, <1>8, <2>1
    <3>2. QED  BY <1>2, <2>1, <3>1
  <2>2. CASE fresh # {}
    <3>1. upto \in fresh /\ \A o \in fresh : o <= upto  BY <1>5, <1>7, <1>8, <2>2
    <3>2. \A n \in fresh : (\A o \in fresh : o <= n) => n = upto
      BY <1>5, <1>7, <1>8, <3>1
    <3>3. cursor' \in fresh /\ \A o \in fresh : o <= cursor'  BY <1>2, <2>2, <3>1
    <3>4. QED  BY <3>2, <3>3
  <2>3. QED  BY <2>1, <2>2
<1>10. \A n \in fresh : n > from /\ n <= cursor' /\ n \in Nat
  BY <1>5, <1>7, <1>8, <1>9
<1>0. got' = got \union fresh  BY <1>2
<1>11. LogTypes'
  <2>1. \A n \in got' : n \in 1..cursor'
    <3>1. \A n \in got : n \in 1..cursor'  BY <1>1, <1>5, <1>8, <1>9
    <3>2. \A n \in fresh : n \in 1..cursor'  BY <1>5, <1>8, <1>9, <1>10
    <3>3. QED  BY <1>0, <3>1, <3>2
  <2>2. \A t \in told' : t \in 0..cursor' - 1
    <3>1. \A t \in told : t \in 0..cursor' - 1  BY <1>1, <1>5, <1>8, <1>9
    <3>2. Gap(oldest) => cursor \in 0..cursor' - 1  BY <1>1, <1>5, <1>8, <1>9
    <3>3. \A t \in told' : t \in told \/ (Gap(oldest) /\ t = cursor)  BY <1>2
    <3>4. QED  BY <3>1, <3>2, <3>3
  <2>3. cursor' \in Nat /\ cursor' < nextSeq  BY <1>1, <1>8, <1>9
  <2>4. lines' = lines /\ nextSeq' = nextSeq  BY <1>2
  <2>5. QED  BY <1>1, <2>1, <2>2, <2>3, <2>4 DEF LogTypes
<1>12. ASSUME NEW n \in (1..cursor') \ got'
       PROVE  \E t \in told' : t < n /\ \A k \in t + 1..n : k \notin got'
  <2>1. n \in Nat /\ n \notin got /\ n \notin fresh /\ n >= 1 /\ n <= upto
    BY <1>0, <1>8, <1>9
  <2>2. CASE n <= cursor
    <3>1. PICK t \in told : t < n /\ \A k \in t + 1..n : k \notin got
      BY <1>1, <2>1, <2>2 DEF LogInv, LossesAreTold
    <3>2. t \in Nat /\ t \in told'  BY <1>1, <1>2
    <3>3. \A k \in t + 1..n : k \notin fresh  BY <1>1, <1>5, <1>10, <2>1, <2>2, <3>2
    <3>4. QED  BY <1>2, <3>1, <3>2, <3>3
  <2>3. CASE n > cursor
    <3>1. n <= from  BY <1>5, <1>7, <1>8, <2>1
    <3>2. Gap(oldest)  BY <1>1, <1>5, <2>1, <2>3, <3>1
    <3>3. cursor \in told'  BY <1>2, <3>2
    <3>4. \A k \in cursor + 1..n : k \notin got /\ k \notin fresh
      BY <1>1, <1>5, <1>10, <2>1, <3>1
    <3>5. QED  BY <1>2, <2>3, <3>3, <3>4
  <2>4. QED  BY <1>1, <2>1, <2>2, <2>3
<1>13. ASSUME NEW t \in told' PROVE t + 1 \notin got'
  <2>1. CASE t \in told
    <3>1. t \in Nat /\ t + 1 <= cursor /\ t + 1 \notin got
      BY <1>1, <2>1 DEF LogInv, LossesAreTold
    <3>2. t + 1 \notin fresh  BY <1>1, <1>5, <1>10, <3>1
    <3>3. QED  BY <1>2, <3>1, <3>2
  <2>2. CASE t = cursor /\ Gap(oldest)
    <3>1. cursor + 1 \notin got /\ cursor + 1 \notin fresh
      BY <1>1, <1>5, <1>10, <2>2
    <3>2. QED  BY <1>2, <2>2, <3>1
  <2>3. QED  BY <1>2, <2>1, <2>2
<1>14. RingIsConsecutive'  BY <1>2 DEF LogInv, RingIsConsecutive
<1>15. QED  BY <1>11, <1>12, <1>13, <1>14 DEF LogInv, LossesAreTold

LEMMA Logs == LoggerSpec => []LogInv
<1>1. ASSUME LogInv, [LoggerNext]_loggerVars PROVE LogInv'
  <2>1. CASE \E level \in Levels : Log(level)  BY <1>1, <2>1, LogLine
  <2>2. CASE SetLevel
    BY <1>1, <2>2 DEF SetLevel, LogInv, LogTypes, RingIsConsecutive, LossesAreTold
  <2>3. CASE \E max \in 1..2 : Drain(max)  BY <1>1, <2>3, LogDrain
  <2>4. CASE UNCHANGED loggerVars
    BY <1>1, <2>4 DEF loggerVars, LogInv, LogTypes, RingIsConsecutive, LossesAreTold
  <2>5. QED  BY <1>1, <2>1, <2>2, <2>3, <2>4 DEF LoggerNext
<1>2. QED  BY <1>1, LogStart, PTL DEF LoggerSpec

-----------------------------------------------------------------------------
(* A reader of the log has every line up to its cursor but those it was    *)
(* told of, for every capacity of the ring (nb_logger_drain_since).        *)
THEOREM LossesAreSaid == LoggerSpec => []LossesAreTold
<1>1. LogInv => LossesAreTold  BY DEF LogInv
<1>2. QED  BY <1>1, Logs, PTL

(* The watchdog finds the first task that is overdue in true time, for     *)
(* every width of its clock and whatever its timeouts (nb_watchdog_check). *)
THEOREM OverdueIsFound == WatchdogSpec => []CheckIsExact
BY Exact, Watches, PTL

-----------------------------------------------------------------------------
USE RectsAssumption, DisplayAssumption

-----------------------------------------------------------------------------
(* Rectangles: what clamp, union and the widening keep. *)

Covers(b, a) ==
  /\ b.x <= a.x /\ Right(a) <= Right(b)
  /\ b.y <= a.y /\ Bottom(a) <= Bottom(b)
OnPanel(r) == Right(r) <= Width /\ Bottom(r) <= Height

LEMMA CoversTouches ==
  ASSUME NEW a \in Rect, NEW b \in Rect, Covers(b, a)
  PROVE  Touched(a) \subseteq Touched(b)
<1> SUFFICES ASSUME NEW c \in Touched(a) PROVE c \in Touched(b)  OBVIOUS
<1>1. /\ c \in Cells /\ c[1] * Align < Right(a) /\ (c[1] + 1) * Align > a.x
      /\ a.y <= c[2] /\ c[2] < Bottom(a)
  BY DEF Touched
<1>2. c[1] \in Int /\ c[2] \in Int  BY <1>1 DEF Cells
<1> DEFINE lo == c[1] * Align  hi == (c[1] + 1) * Align
<1>3. lo \in Int /\ hi \in Int  BY <1>2
<1>4. lo < Right(a) /\ hi > a.x  BY <1>1
<1> HIDE DEF lo, hi
<1>5. lo < Right(b) /\ hi > b.x  BY <1>3, <1>4 DEF Covers, Right, Rect
<1>6. b.y <= c[2] /\ c[2] < Bottom(b)  BY <1>1, <1>2 DEF Covers, Bottom, Rect
<1>7. QED  BY <1>1, <1>5, <1>6 DEF Touched, lo, hi

LEMMA EmptyTouches == Touched(EmptyRect) = {}
BY DEF Touched, EmptyRect, Bottom, Cells

LEMMA ClampFacts ==
  ASSUME NEW r \in Rect
  PROVE  /\ Clamp(r) \in Rect /\ OnPanel(Clamp(r))
         /\ IsEmpty(Clamp(r)) => Clamp(r) = EmptyRect
         /\ OnPanel(r) /\ ~IsEmpty(r) => Clamp(r) = r
<1> DEFINE outside == r.x >= Width \/ r.y >= Height \/ IsEmpty(r)
<1>1. CASE outside
  <2>1. Clamp(r) = EmptyRect  BY <1>1 DEF Clamp
  <2>2. EmptyRect \in Rect /\ OnPanel(EmptyRect)
    BY DEF EmptyRect, Rect, OnPanel, Right, Bottom
  <2>3. ~(OnPanel(r) /\ ~IsEmpty(r))
    BY <1>1 DEF OnPanel, IsEmpty, Rect, Right, Bottom
  <2>4. QED  BY <2>1, <2>2, <2>3
<1>2. CASE ~outside
  <2> DEFINE c == Clamp(r)
  <2>1. c = [x |-> r.x, y |-> r.y, w |-> Lower(Right(r), Width) - r.x,
             h |-> Lower(Bottom(r), Height) - r.y]
    BY <1>2 DEF Clamp, Corners
  <2>2. /\ r.x \in Nat /\ r.y \in Nat /\ r.w \in Nat /\ r.h \in Nat
        /\ r = [x |-> r.x, y |-> r.y, w |-> r.w, h |-> r.h]
    BY DEF Rect
  <2>3. r.x < Width /\ r.y < Height /\ r.w > 0 /\ r.h > 0  BY <1>2, <2>2 DEF IsEmpty
  <2>4. c.w \in Nat /\ c.h \in Nat /\ c.w > 0 /\ c.h > 0
        /\ Right(c) <= Width /\ Bottom(c) <= Height
        /\ (OnPanel(r) => c.w = r.w /\ c.h = r.h)
    BY <2>1, <2>2, <2>3 DEF Right, Bottom, Lower, OnPanel
  <2>5. c \in Rect /\ OnPanel(c) /\ ~IsEmpty(c)
    BY <2>1, <2>2, <2>4 DEF Rect, OnPanel, IsEmpty
  <2>6. ASSUME OnPanel(r) PROVE c = r  BY <2>1, <2>2, <2>4, <2>6
  <2>7. QED  BY <2>5, <2>6
<1>3. QED  BY <1>1, <1>2

LEMMA UnionFacts ==
  ASSUME NEW a \in Rect, NEW b \in Rect, ~IsEmpty(Clamp(b))
  PROVE  /\ RectUnion(a, b) \in Rect /\ OnPanel(RectUnion(a, b)) /\ ~IsEmpty(RectUnion(a, b))
         /\ Touched(Clamp(a)) \subseteq Touched(RectUnion(a, b))
         /\ Touched(Clamp(b)) \subseteq Touched(RectUnion(a, b))
<1> DEFINE p == Clamp(a)  q == Clamp(b)  u == RectUnion(a, b)
<1>1. p \in Rect /\ q \in Rect /\ OnPanel(p) /\ OnPanel(q)  BY ClampFacts
<1>2. CASE IsEmpty(p)
  <2>1. u = q  BY <1>2 DEF RectUnion
  <2>2. Touched(p) = {}  BY <1>2, ClampFacts, EmptyTouches
  <2>3. QED  BY <2>1, <2>2, <1>1
<1>3. CASE ~IsEmpty(p)
  <2>1. u = Corners(Lower(p.x, q.x), Lower(p.y, q.y),
                    Upper(Right(p), Right(q)), Upper(Bottom(p), Bottom(q)))
    BY <1>3 DEF RectUnion
  <2> HIDE DEF p, q, u
  <2>2. u \in Rect /\ OnPanel(u) /\ ~IsEmpty(u) /\ Covers(u, p) /\ Covers(u, q)
    <3>1. ~IsEmpty(q)  BY DEF q
    <3>2. QED
      BY <2>1, <3>1, <1>1, <1>3 DEF Rect, OnPanel, IsEmpty, Covers, Corners, Right, Bottom, Lower, Upper
  <2>3. Touched(p) \subseteq Touched(u) /\ Touched(q) \subseteq Touched(u)
    BY <2>2, <1>1, CoversTouches
  <2>4. QED  BY <2>2, <2>3 DEF p, q, u
<1>4. QED  BY <1>2, <1>3

(* Rounding to the cache line, down and up. *)
LEMMA Rounding ==
  ASSUME NEW v \in Nat
  PROVE  /\ (v \div Align) * Align \in Nat /\ (v \div Align) * Align <= v
         /\ ((v + Align - 1) \div Align) * Align \in Nat
         /\ v <= ((v + Align - 1) \div Align) * Align
<1>1. ASSUME NEW n \in Nat
      PROVE  /\ n \div Align \in Nat
             /\ (n \div Align) * Align \in Nat
             /\ (n \div Align) * Align <= n /\ n < (n \div Align) * Align + Align
  <2>1. n \div Align \in Nat /\ n % Align \in 0..(Align - 1)  BY <1>1
  <2>2. n = Align * (n \div Align) + (n % Align)  BY <1>1
  <2>3. Align * (n \div Align) = (n \div Align) * Align  BY <2>1
  <2>4. (n \div Align) * Align \in Nat  BY <2>1
  <2> DEFINE m == (n \div Align) * Align  k == n % Align
  <2>5. n = m + k  BY <2>2, <2>3
  <2>6. m \in Nat /\ k \in 0..(Align - 1)  BY <2>1, <2>4
  <2> HIDE DEF m, k
  <2>7. m <= n /\ n < m + Align  BY <2>5, <2>6
  <2>8. QED  BY <2>7, <2>1, <2>4 DEF m
<1>2. v + Align - 1 \in Nat  OBVIOUS
<1> DEFINE up == ((v + Align - 1) \div Align) * Align
<1>3. up \in Nat /\ v + Align - 1 < up + Align  BY <1>1, <1>2
<1> HIDE DEF up
<1>4. v <= up  BY <1>3
<1>5. QED  BY <1>1, <1>3, <1>4 DEF up

LEMMA AlignedFacts ==
  ASSUME NEW r \in Rect, ~IsEmpty(Clamp(r))
  PROVE  /\ Aligned(r) \in Rect /\ ~IsEmpty(Aligned(r))
         /\ Touched(Clamp(r)) \subseteq Touched(Aligned(r))
<1> DEFINE p == Clamp(r)
           lo == (p.x \div Align) * Align
           hi == ((Right(p) + Align - 1) \div Align) * Align
           u == Aligned(r)
<1>1. p \in Rect /\ OnPanel(p) /\ ~IsEmpty(p)  BY ClampFacts
<1>2. u = Corners(lo, p.y, Lower(hi, Width), Bottom(p))  BY <1>1 DEF Aligned
<1>3. p.x \in Nat /\ Right(p) \in Nat
  <2> HIDE DEF p
  <2>1. QED  BY <1>1 DEF Rect, Right
<1>4. lo \in Nat /\ lo <= p.x /\ hi \in Nat /\ Right(p) <= hi  BY <1>3, Rounding
<1> HIDE DEF p, lo, hi, u
<1>5. u \in Rect /\ ~IsEmpty(u) /\ Covers(u, p)
  BY <1>1, <1>2, <1>4 DEF Rect, OnPanel, IsEmpty, Covers, Corners, Right, Bottom, Lower
<1>6. Touched(p) \subseteq Touched(u)  BY <1>1, <1>5, CoversTouches
<1>7. QED  BY <1>5, <1>6 DEF p, u

LEMMA FullFacts ==
  /\ FullRect \in Rect /\ ~IsEmpty(Clamp(FullRect)) /\ Touched(Clamp(FullRect)) = Cells
<1>1. FullRect \in Rect /\ OnPanel(FullRect) /\ ~IsEmpty(FullRect)
  BY DEF FullRect, Rect, OnPanel, IsEmpty, Right, Bottom
<1>2. Clamp(FullRect) = FullRect  BY <1>1, ClampFacts
<1>3. ASSUME NEW c \in Cells PROVE c \in Touched(FullRect)
  <2>1. c[1] \in Nat /\ c[1] <= Columns - 1 /\ c[2] \in 0..(Height - 1)
    <3>1. Columns \in Nat  BY DEF Columns
    <3>2. QED  BY <3>1 DEF Cells
  <2>2. Columns \in Nat /\ Columns * Align = Width
    <3>1. Width = Align * (Width \div Align) + (Width % Align)  OBVIOUS
    <3>2. QED  BY <3>1 DEF Columns
  <2>3. c[1] * Align \in Nat /\ (c[1] + 1) * Align = c[1] * Align + Align  BY <2>1
  <2>4. (c[1] + 1) * Align <= Columns * Align  BY <2>1, <2>2
  <2> DEFINE lo == c[1] * Align  hi == (c[1] + 1) * Align
  <2>5. lo \in Nat /\ hi = lo + Align /\ hi <= Width  BY <2>2, <2>3, <2>4
  <2> HIDE DEF lo, hi
  <2>6. lo < Width /\ hi > 0  BY <2>5
  <2>7. QED  BY <2>1, <2>6 DEF Touched, FullRect, Right, Bottom, lo, hi
<1>4. QED  BY <1>1, <1>2, <1>3 DEF Touched

(* The rectangle a frame of p flushes: it covers p, and what was there. *)
LEMMA FrameRect ==
  ASSUME NEW p \in Poses, NEW last \in Rect, NEW has \in BOOLEAN, NEW d,
         d = Aligned(IF has THEN RectUnion(last, DirtyBy[p]) ELSE FullRect)
  PROVE  /\ d \in Rect /\ ~IsEmpty(d)
         /\ LitBy[p] \subseteq Touched(d)
         /\ has => Touched(Clamp(last)) \subseteq Touched(d)
         /\ ~has => Touched(d) = Cells
<1>1. DirtyBy[p] \in Rect /\ ~IsEmpty(Clamp(DirtyBy[p])) /\ LitBy[p] \subseteq Touched(Clamp(DirtyBy[p]))
  OBVIOUS
<1>2. CASE has
  <2> DEFINE u == RectUnion(last, DirtyBy[p])
  <2>1. /\ u \in Rect /\ OnPanel(u) /\ ~IsEmpty(u)
        /\ Touched(Clamp(last)) \subseteq Touched(u)
        /\ Touched(Clamp(DirtyBy[p])) \subseteq Touched(u)
    BY <1>1, UnionFacts
  <2>2. Clamp(u) = u  BY <2>1, ClampFacts
  <2>3. d = Aligned(u)  BY <1>2
  <2> HIDE DEF u
  <2>4. d \in Rect /\ ~IsEmpty(d) /\ Touched(u) \subseteq Touched(d)
    BY <2>1, <2>2, <2>3, AlignedFacts
  <2>5. QED  BY <1>1, <1>2, <2>1, <2>4
<1>3. CASE ~has
  <2>1. d = Aligned(FullRect)  BY <1>3
  <2>2. d \in Rect /\ ~IsEmpty(d) /\ Cells \subseteq Touched(d)
    BY <2>1, FullFacts, AlignedFacts
  <2>3. Touched(d) \subseteq Cells /\ Touched(Clamp(DirtyBy[p])) \subseteq Cells  BY DEF Touched
  <2>4. QED  BY <1>1, <1>3, <2>2, <2>3
<1>4. QED  BY <1>2, <1>3

-----------------------------------------------------------------------------
(* The flush.  The staging buffer and the token go together; during a      *)
(* flush, the rows above the band are those of the new face, but for the   *)
(* cells still on their way; between flushes, without a failure, the panel *)
(* is the front buffer and the rectangle of the renderer is about it.      *)
TokenInv ==
  /\ task \in {"draw", "bind"} => token /\ ~dma
  /\ task = "send" => ~token /\ ~dma
  /\ task = "copy" => ~(token /\ dma)

New == buffers[Back]
AboveIsNew ==
  \A c \in Touched(rect) : c[2] < row => (dma /\ c \in stage.cells) \/ (c \in panel <=> c \in LitBy[New])
BandIsStaged ==
  \A c \in Touched(rect) : row <= c[2] /\ c[2] < row + MaxRows => c \in stage.cells

FlushInv ==
  task \in {"copy", "send"} =>
    /\ New \in Poses /\ ~IsEmpty(rect) /\ rect.y <= row
    /\ LitBy[New] \subseteq Touched(rect)
    /\ hasLast /\ lastDirty = DirtyBy[New]
    /\ failures = 0 => panel \subseteq Touched(rect)
    /\ AboveIsNew
    /\ dma \/ task = "send" => stage.pose = New /\ stage.cells \subseteq Touched(rect)
    /\ task = "send" => row < Bottom(rect) /\ BandIsStaged

Shown ==
  /\ buffers[front] \in Poses
  /\ panel = LitBy[buffers[front]] /\ lastDirty = DirtyBy[buffers[front]]
RestInv ==
  /\ task = "draw" => bound = Back
  /\ task \in {"draw", "bind"} /\ failures = 0 /\ hasLast => Shown
  /\ task \in {"draw", "bind"} /\ ~hasLast => buffers[front] = "none"

DisInv == TypeOK /\ TokenInv /\ FlushInv /\ RestInv /\ FaceIsWhole

LEMMA BackIndex == ASSUME TypeOK PROVE Back \in {0, 1} /\ Back # front
BY DEF TypeOK, Back

LEMMA RowsOfABand == ASSUME rect \in Rect, ~IsEmpty(rect) PROVE MaxRows \in Nat \ {0}
BY DEF MaxRows, Rect, IsEmpty

(* A band is inside its rectangle, and is all of the rectangle it can be.  *)
LEMMA BandCells ==
  ASSUME rect \in Rect, ~IsEmpty(rect), row \in Nat, rect.y <= row, row < Bottom(rect)
  PROVE  /\ Touched(Band(BandRows)) \subseteq Touched(rect)
         /\ \A c \in Touched(rect) :
              row <= c[2] /\ c[2] < row + MaxRows => c \in Touched(Band(BandRows))
<1>1. MaxRows \in Nat \ {0}  BY RowsOfABand
<1>2. rect.y \in Nat /\ rect.h \in Nat  BY DEF Rect
<1>3. /\ BandRows \in Nat /\ BandRows <= MaxRows /\ row + BandRows <= Bottom(rect)
      /\ row + BandRows = row + MaxRows \/ row + BandRows = Bottom(rect)
  BY <1>1, <1>2 DEF BandRows, Lower, Bottom
<1> DEFINE b == Band(BandRows)
<1>4. /\ b.x = rect.x /\ Right(b) = Right(rect) /\ b.y = row
      /\ Bottom(b) = row + BandRows
  BY <1>3 DEF Band, Rect, Right, Bottom
<1> HIDE DEF b
<1>5. ASSUME NEW c \in Cells
      PROVE  /\ c \in Touched(b) => c \in Touched(rect)
             /\ c \in Touched(rect) /\ row <= c[2] /\ c[2] < row + MaxRows => c \in Touched(b)
  <2>1. c[2] \in Int  BY DEF Cells
  <2>2. c \in Touched(b) <=> /\ c[1] * Align < Right(rect) /\ (c[1] + 1) * Align > rect.x
                             /\ row <= c[2] /\ c[2] < row + BandRows
    BY <1>4 DEF Touched
  <2>3. c \in Touched(rect) <=> /\ c[1] * Align < Right(rect) /\ (c[1] + 1) * Align > rect.x
                                /\ rect.y <= c[2] /\ c[2] < Bottom(rect)
    BY DEF Touched
  <2>4. Bottom(rect) \in Int  BY <1>2 DEF Bottom
  <2>5. row <= c[2] /\ c[2] < row + BandRows => rect.y <= c[2] /\ c[2] < Bottom(rect)
    BY <2>1, <2>4, <1>2, <1>3
  <2>6. row <= c[2] /\ c[2] < row + MaxRows /\ c[2] < Bottom(rect) => c[2] < row + BandRows
    BY <2>1, <2>4, <1>1, <1>3
  <2>7. QED  BY <2>2, <2>3, <2>5, <2>6
<1>6. Touched(b) \subseteq Cells /\ Touched(rect) \subseteq Cells  BY DEF Touched
<1>7. QED  BY <1>5, <1>6 DEF b

-----------------------------------------------------------------------------
(* One lemma an action. *)

LEMMA InitDis == Init => DisInv
<1> SUFFICES ASSUME Init PROVE DisInv  OBVIOUS
<1>1. EmptyRect \in Rect  BY DEF EmptyRect, Rect
<1>2. TypeOK
  <2>1. hasLast \in BOOLEAN /\ token \in BOOLEAN /\ dma \in BOOLEAN  BY Zenon DEF Init
  <2>2. QED  BY <1>1, <2>1 DEF Init, TypeOK
<1>3. QED
  BY <1>2 DEF Init, DisInv, TokenInv, FlushInv, RestInv, FaceIsWhole, Back

LEMMA DrawDis == ASSUME DisInv, NEW p \in Poses, Draw(p) PROVE DisInv'
<1> DEFINE d == Aligned(IF hasLast THEN RectUnion(lastDirty, DirtyBy[p]) ELSE FullRect)
<1>1. /\ task = "draw" /\ buffers' = [buffers EXCEPT ![bound] = p]
      /\ lastDirty' = DirtyBy[p] /\ hasLast' = TRUE
      /\ rect' = d /\ row' = d.y
      /\ task' = IF IsEmpty(d) THEN "bind" ELSE "copy"
      /\ UNCHANGED <<front, bound, stage, token, dma, panel, failures>>
  BY DEF Draw
<1>2. TypeOK /\ bound = Back /\ token /\ ~dma
  BY <1>1 DEF DisInv, TokenInv, RestInv
<1>3. lastDirty \in Rect /\ hasLast \in BOOLEAN  BY <1>2 DEF TypeOK
<1>4. /\ d \in Rect /\ ~IsEmpty(d) /\ LitBy[p] \subseteq Touched(d)
      /\ hasLast => Touched(Clamp(lastDirty)) \subseteq Touched(d)
      /\ ~hasLast => Touched(d) = Cells
  BY <1>3, FrameRect
<1> HIDE DEF d
<1>5. New' = p  BY <1>1, <1>2, BackIndex DEF New, Back, TypeOK
<1>6. failures = 0 => panel \subseteq Touched(d)
  <2>1. CASE hasLast
    <3>1. failures = 0 => Shown  BY <2>1, <1>1 DEF DisInv, RestInv
    <3>2. Shown => panel \subseteq Touched(Clamp(lastDirty))  BY DEF Shown
    <3>3. QED  BY <3>1, <3>2, <2>1, <1>4
  <2>2. CASE ~hasLast  BY <2>2, <1>2, <1>4 DEF TypeOK
  <2>3. QED  BY <2>1, <2>2
<1>7. \A c \in Touched(d) : ~(c[2] < d.y)  BY <1>4 DEF Touched, Cells, Rect
<1>8. TypeOK'
  <2>1. hasLast' \in BOOLEAN /\ token' \in BOOLEAN /\ dma' \in BOOLEAN
    BY <1>1, <1>2, Zenon DEF TypeOK
  <2>2. d.y \in Nat /\ DirtyBy[p] \in Rect  BY <1>4 DEF Rect
  <2>3. QED  BY <1>1, <1>2, <1>4, <2>1, <2>2 DEF TypeOK
<1>9. task' = "copy"  BY <1>1, <1>4
<1>10. TokenInv'  BY <1>1, <1>2, <1>9 DEF TokenInv
<1>11. FlushInv'
  BY <1>1, <1>2, <1>4, <1>5, <1>6, <1>7, <1>9 DEF FlushInv, AboveIsNew, Rect
<1>12. QED  BY <1>8, <1>9, <1>10, <1>11 DEF DisInv, RestInv, FaceIsWhole

LEMMA CopyDis == ASSUME DisInv, CopyBand PROVE DisInv'
<1> DEFINE cells == Touched(Band(BandRows))
<1>1. /\ task = "copy" /\ row < Bottom(rect) /\ token
      /\ token' = FALSE /\ task' = "send"
      /\ stage' = [pose |-> New, cells |-> cells]
      /\ UNCHANGED <<front, buffers, bound, lastDirty, hasLast, rect, row, dma, panel, failures>>
  BY DEF CopyBand, flushing, New
<1>2. TypeOK /\ ~dma  BY <1>1 DEF DisInv, TokenInv
<1>3. /\ New \in Poses /\ ~IsEmpty(rect) /\ rect.y <= row /\ rect \in Rect /\ row \in Nat
  BY <1>1 DEF DisInv, FlushInv, TypeOK
<1>4. /\ cells \subseteq Touched(rect) /\ Touched(rect) \subseteq Cells
      /\ \A c \in Touched(rect) : row <= c[2] /\ c[2] < row + MaxRows => c \in cells
  <2>1. Touched(rect) \subseteq Cells  BY DEF Touched
  <2>2. QED  BY <2>1, <1>1, <1>3, BandCells
<1> HIDE DEF cells
<1>5. New' = New /\ MaxRows' = MaxRows  BY <1>1 DEF New, Back, MaxRows
<1>6. TypeOK'
  <2>1. token' \in BOOLEAN /\ dma' \in BOOLEAN /\ hasLast' \in BOOLEAN
    BY <1>1, <1>2, Zenon DEF TypeOK
  <2>2. stage' \in [pose : Poses \union {"none"}, cells : SUBSET Cells]  BY <1>1, <1>3, <1>4
  <2>3. QED  BY <1>1, <1>2, <2>1, <2>2 DEF TypeOK
<1>7. AboveIsNew'
  <2>1. AboveIsNew  BY <1>1 DEF DisInv, FlushInv
  <2>2. QED  BY <2>1, <1>1, <1>2, <1>5 DEF AboveIsNew
<1>8. BandIsStaged'  BY <1>1, <1>4, <1>5 DEF BandIsStaged
<1>9. FlushInv'
  BY <1>1, <1>2, <1>3, <1>4, <1>5, <1>7, <1>8 DEF FlushInv, DisInv, Bottom
<1>10. TokenInv'  BY <1>1, <1>2 DEF TokenInv
<1>11. QED  BY <1>1, <1>6, <1>9, <1>10 DEF DisInv, RestInv, FaceIsWhole

LEMMA SendDis == ASSUME DisInv, SendBand PROVE DisInv'
<1>1. /\ task = "send" /\ dma' = TRUE /\ row' = row + MaxRows /\ task' = "copy"
      /\ UNCHANGED <<front, buffers, bound, lastDirty, hasLast, rect, stage, token, panel, failures>>
  BY DEF SendBand, flushing
<1>2. TypeOK /\ ~token /\ ~dma  BY <1>1 DEF DisInv, TokenInv
<1>3. /\ rect \in Rect /\ ~IsEmpty(rect) /\ row \in Nat /\ rect.y <= row
      /\ AboveIsNew /\ BandIsStaged
      /\ stage.pose = New /\ stage.cells \subseteq Touched(rect)
  BY <1>1 DEF DisInv, FlushInv, TypeOK
<1>4. MaxRows \in Nat  BY <1>3, RowsOfABand
<1>5. New' = New  BY <1>1 DEF New, Back
<1>6. rect.y <= row' /\ row' \in Nat  BY <1>1, <1>3, <1>4 DEF Rect
<1>7. AboveIsNew'
  <2> SUFFICES ASSUME NEW c \in Touched(rect), c[2] < row'
               PROVE  c \in stage.cells \/ (c \in panel <=> c \in LitBy[New])
    BY <1>1, <1>5 DEF AboveIsNew
  <2>1. c[2] \in Int  BY DEF Touched, Cells
  <2>2. CASE c[2] < row  BY <2>2, <1>2, <1>3 DEF AboveIsNew
  <2>3. CASE ~(c[2] < row)
    <3>1. row <= c[2] /\ c[2] < row + MaxRows  BY <2>1, <2>3, <1>1, <1>3
    <3>2. QED  BY <3>1, <1>3 DEF BandIsStaged
  <2>4. QED  BY <2>2, <2>3
<1>8. TypeOK'
  <2>1. token' \in BOOLEAN /\ dma' \in BOOLEAN /\ hasLast' \in BOOLEAN
    BY <1>1, <1>2, Zenon DEF TypeOK
  <2>2. QED  BY <1>1, <1>2, <1>6, <2>1 DEF TypeOK
<1>9. FlushInv'
  BY <1>1, <1>3, <1>5, <1>6, <1>7 DEF FlushInv, DisInv
<1>10. TokenInv'  BY <1>1, <1>2 DEF TokenInv
<1>11. QED  BY <1>1, <1>8, <1>9, <1>10 DEF DisInv, RestInv, FaceIsWhole

LEMMA FailDis == ASSUME DisInv, SendFails PROVE DisInv'
<1>1. /\ task = "send" /\ failures < MaxFailures /\ token' = TRUE /\ task' = "bind"
      /\ failures' = failures + 1
      /\ UNCHANGED <<front, buffers, bound, lastDirty, hasLast, rect, row, stage, dma, panel>>
  BY DEF SendFails, flushing
<1>2. TypeOK /\ ~dma /\ row < Bottom(rect) /\ hasLast
  BY <1>1 DEF DisInv, TokenInv, FlushInv
<1>3. failures \in 0..MaxFailures  BY <1>2 DEF TypeOK
<1>4. failures' \in 0..MaxFailures /\ failures' # 0  BY <1>1, <1>3
<1>5. TypeOK'
  <2>1. token' \in BOOLEAN /\ dma' \in BOOLEAN /\ hasLast' \in BOOLEAN
    BY <1>1, <1>2, Zenon DEF TypeOK
  <2>2. QED  BY <1>1, <1>2, <1>4, <2>1 DEF TypeOK
<1>6. FaceIsWhole'
  <2>1. ~(row >= Bottom(rect))  BY <1>2 DEF TypeOK, Rect, Bottom
  <2>2. row' = row /\ Bottom(rect)' = Bottom(rect)  BY <1>1 DEF Bottom
  <2>3. QED  BY <2>1, <2>2 DEF FaceIsWhole
<1>7. QED  BY <1>1, <1>2, <1>4, <1>5, <1>6 DEF DisInv, TokenInv, FlushInv, RestInv

LEMMA DoneDis == ASSUME DisInv, TransDone PROVE DisInv'
<1>1. /\ dma /\ dma' = FALSE /\ token' = TRUE
      /\ panel' = (panel \ stage.cells) \union (LitBy[stage.pose] \intersect stage.cells)
      /\ UNCHANGED <<front, buffers, bound, lastDirty, hasLast, rect, task, row, stage, failures>>
  BY DEF TransDone, flushing
<1>2. TypeOK /\ task = "copy"  BY <1>1 DEF DisInv, TokenInv, TypeOK
<1>3. /\ AboveIsNew /\ stage.pose = New /\ stage.cells \subseteq Touched(rect)
      /\ LitBy[New] \subseteq Touched(rect)
      /\ failures = 0 => panel \subseteq Touched(rect)
  BY <1>1, <1>2 DEF DisInv, FlushInv
<1>4. New' = New  BY <1>1 DEF New, Back
<1>5. \A c : c \in panel' <=> IF c \in stage.cells THEN c \in LitBy[New] ELSE c \in panel
  BY <1>1, <1>3
<1>6. AboveIsNew'  BY <1>1, <1>3, <1>4, <1>5 DEF AboveIsNew
<1>7. panel' \subseteq Cells
  <2>1. stage.cells \subseteq Cells /\ panel \subseteq Cells  BY <1>2 DEF TypeOK
  <2>2. QED  BY <2>1, <1>5
<1>8. TypeOK'
  <2>1. token' \in BOOLEAN /\ dma' \in BOOLEAN /\ hasLast' \in BOOLEAN
    BY <1>1, <1>2, Zenon DEF TypeOK
  <2>2. QED  BY <1>1, <1>2, <1>7, <2>1 DEF TypeOK
<1>9. failures' = 0 => panel' \subseteq Touched(rect')
  BY <1>1, <1>3, <1>5
<1>10. FlushInv'
  BY <1>1, <1>2, <1>4, <1>6, <1>9 DEF FlushInv, DisInv
<1>11. QED  BY <1>1, <1>2, <1>8, <1>10 DEF DisInv, TokenInv, RestInv, FaceIsWhole

LEMMA SwapDis == ASSUME DisInv, Swap PROVE DisInv'
<1>1. /\ task = "copy" /\ row >= Bottom(rect) /\ token /\ front' = Back /\ task' = "bind"
      /\ UNCHANGED <<buffers, bound, lastDirty, hasLast, rect, row, stage, token, dma, panel, failures>>
  BY DEF Swap, Back
<1>2. TypeOK /\ ~dma  BY <1>1 DEF DisInv, TokenInv
<1>3. /\ New \in Poses /\ AboveIsNew /\ LitBy[New] \subseteq Touched(rect)
      /\ hasLast /\ lastDirty = DirtyBy[New]
      /\ failures = 0 => panel \subseteq Touched(rect)
  BY <1>1 DEF DisInv, FlushInv
<1>4. buffers[front]' = New  BY <1>1 DEF New
<1>5. \A c \in Touched(rect) : c \in panel <=> c \in LitBy[New]
  <2> SUFFICES ASSUME NEW c \in Touched(rect) PROVE c \in panel <=> c \in LitBy[New]
    OBVIOUS
  <2>1. c[2] < row
    <3>1. c[2] \in Int /\ c[2] < Bottom(rect)  BY DEF Touched, Cells
    <3>2. Bottom(rect) \in Int /\ row \in Int  BY <1>2 DEF TypeOK, Rect, Bottom
    <3>3. QED  BY <3>1, <3>2, <1>1
  <2>2. QED  BY <2>1, <1>2, <1>3 DEF AboveIsNew
<1>6. failures = 0 => panel = LitBy[New]  BY <1>3, <1>5
<1>7. TypeOK'  BY <1>1, <1>2, BackIndex DEF TypeOK
<1>8. FaceIsWhole'  BY <1>1, <1>4, <1>5 DEF FaceIsWhole
<1>9. RestInv'  BY <1>1, <1>3, <1>4, <1>6 DEF RestInv, Shown
<1>10. QED  BY <1>1, <1>2, <1>7, <1>8, <1>9 DEF DisInv, TokenInv, FlushInv

LEMMA BindDis == ASSUME DisInv, Bind PROVE DisInv'
<1>1. /\ task = "bind" /\ bound' = Back /\ task' = "draw"
      /\ UNCHANGED <<front, buffers, lastDirty, hasLast, rect, row, stage, token, dma, panel, failures>>
  BY DEF Bind
<1>2. TypeOK /\ TokenInv /\ RestInv  BY DEF DisInv
<1>3. TypeOK'  BY <1>1, <1>2, BackIndex DEF TypeOK
<1>4. RestInv'  BY <1>1, <1>2 DEF RestInv, Shown, Back
<1>5. QED  BY <1>1, <1>2, <1>3, <1>4 DEF DisInv, TokenInv, FlushInv, FaceIsWhole

LEMMA SameDis == ASSUME DisInv, UNCHANGED vars PROVE DisInv'
BY DEF DisInv, vars, TypeOK, TokenInv, FlushInv, RestInv, FaceIsWhole, Shown, New, Back,
       AboveIsNew, BandIsStaged, MaxRows, Bottom

LEMMA StepDis == DisInv /\ [Next]_vars => DisInv'
BY DrawDis, CopyDis, SendDis, FailDis, DoneDis, SwapDis, BindDis, SameDis DEF Next, Flush

LEMMA Flushes == Spec => []DisInv
BY InitDis, StepDis, PTL DEF Spec

-----------------------------------------------------------------------------
(* The types of the state of the display. *)
THEOREM DisplayTyped == Spec => []TypeOK
<1>1. DisInv => TypeOK  BY DEF DisInv
<1>2. QED  BY <1>1, Flushes, PTL

(* While every transfer is queued, the panel shows the front buffer and    *)
(* nothing of the frames before (flush_rect_and_swap, draw_dirty).         *)
THEOREM PanelIsFront == Spec => []PanelShowsFront
<1>1. DisInv => PanelShowsFront  BY DEF DisInv, TypeOK, RestInv, Shown, PanelShowsFront
<1>2. QED  BY <1>1, Flushes, PTL

(* Whatever failed before, a flush that ends has the whole face in its     *)
(* rectangle, and nothing else there.                                      *)
THEOREM WholeFace == Spec => []FaceIsWhole
<1>1. DisInv => FaceIsWhole  BY DEF DisInv
<1>2. QED  BY <1>1, Flushes, PTL

(* Nothing the transfer reads is written under it (s_trans_done).          *)
THEOREM StableStage == Spec => StageIsStable
<1>1. ASSUME DisInv, [Next]_vars, stage' # stage \/ buffers' # buffers
      PROVE  ~dma
  <2>1. CopyBand \/ \E p \in Poses : Draw(p)
    BY <1>1 DEF Next, Flush, SendBand, SendFails, TransDone, Swap, Bind, flushing, vars
  <2>2. CASE CopyBand  BY <2>2, <1>1 DEF CopyBand, DisInv, TokenInv
  <2>3. CASE \E p \in Poses : Draw(p)  BY <2>3, <1>1 DEF Draw, DisInv, TokenInv
  <2>4. QED  BY <2>1, <2>2, <2>3
<1>2. DisInv /\ [Next]_vars => [/\ stage' # stage => ~dma
                                /\ buffers' # buffers => ~dma]_vars
  BY <1>1
<1>3. QED  BY <1>2, Flushes, PTL DEF Spec, StageIsStable
=============================================================================
