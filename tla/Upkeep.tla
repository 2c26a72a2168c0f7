------------------------------- MODULE Upkeep -------------------------------
(***************************************************************************)
(* Two services of the platform that every task may call: the ring of log  *)
(* lines (infra/logger) and the watchdog of tasks (infra/watchdog).        *)
(*                                                                         *)
(* The logger never makes a writer wait: it writes over the oldest line,   *)
(* and a reader that was too slow is told so.  A line is its sequence      *)
(* number; `lines` is the ring from the oldest to the newest.              *)
(***************************************************************************)
EXTENDS Integers, Sequences

CONSTANTS LogCapacity, \* NB_LOGGER_CAPACITY
          Levels,      \* NB_LOG_LEVEL_DEBUG up to NB_LOG_LEVEL_FAULT
          MaxLines     \* bound: lines ever accepted, far from the wrap of seq

ASSUME LoggerAssumption ==
  LogCapacity \in Nat \ {0} /\ Levels \subseteq Nat /\ MaxLines \in Nat

VARIABLES lines, nextSeq, minLevel, dropped,
          cursor, \* inout_last_seq of the reader
          (* History: the lines it got, the cursors at which it was told. *)
          got, told

loggerVars == <<lines, nextSeq, minLevel, dropped, cursor, got, told>>

LoggerInit ==
  /\ lines = <<>> /\ nextSeq = 1 /\ dropped = 0
  /\ minLevel \in Levels
  /\ cursor = 0 /\ got = {} /\ told = {}

(* nb_logger_log: a line below the level takes no number.                  *)
Log(level) ==
  /\ nextSeq <= MaxLines /\ level >= minLevel
  /\ IF Len(lines) < LogCapacity
     THEN lines' = Append(lines, nextSeq) /\ UNCHANGED dropped
     ELSE lines' = Append(Tail(lines), nextSeq) /\ dropped' = dropped + 1
  /\ nextSeq' = nextSeq + 1
  /\ UNCHANGED <<minLevel, cursor, got, told>>

SetLevel ==
  /\ minLevel' \in Levels
  /\ UNCHANGED <<lines, nextSeq, dropped, cursor, got, told>>

(* nb_logger_drain_since: past the lines that were overwritten, then at    *)
(* most max of those the reader has not seen.                              *)
(* Mutant: the line right after the cursor counts as a gap. *)
GapEager(oldest) == oldest > cursor
Gap(oldest) == oldest > cursor + 1

Drain(max) ==
  /\ lines # <<>>
  /\ LET oldest == lines[1]
         from == IF Gap(oldest) THEN oldest - 1 ELSE cursor
         fresh == {n \in {lines[i] : i \in DOMAIN lines} : n > from /\ n <= from + max}
     IN  /\ got' = got \union fresh
         /\ cursor' = IF fresh = {} THEN from
                      ELSE CHOOSE n \in fresh : \A o \in fresh : o <= n
         /\ told' = IF Gap(oldest) THEN told \union {cursor} ELSE told
  /\ UNCHANGED <<lines, nextSeq, minLevel, dropped>>

LoggerNext ==
  \/ \E level \in Levels : Log(level)
  \/ SetLevel
  \/ \E max \in 1..2 : Drain(max)
LoggerSpec == LoggerInit /\ [][LoggerNext]_loggerVars

-----------------------------------------------------------------------------
(* Up to its cursor a reader has every line, but for those it was told of: *)
(* each line that is missing lies right after a place where a gap was      *)
(* told, and where one was told a line is missing.                         *)
LossesAreTold ==
  /\ \A n \in (1..cursor) \ got :
       \E t \in told : t < n /\ \A k \in t + 1..n : k \notin got
  /\ \A t \in told : t + 1 \notin got

-----------------------------------------------------------------------------
(* The watchdog: tasks register once with a timeout and feed; the check    *)
(* compares 32-bit milliseconds, which wrap.                               *)
CONSTANTS Names, Timeouts,
          MaxTasks,   \* NB_WATCHDOG_MAX_TASKS
          Wrap,       \* 2^32 milliseconds
          MaxTime     \* bound: the time that passes

ASSUME WatchdogAssumption ==
  /\ Wrap \in Nat \ {0} /\ MaxTime \in Nat /\ MaxTasks \in Nat
  /\ Timeouts \subseteq 1..Wrap - 1

VARIABLES elapsed,  \* the true time, in milliseconds
          tasks,    \* name, last_feed_ms and timeout_ms, in order of registration
          fedAt     \* history: the true time of the last feed of each

watchdogVars == <<elapsed, tasks, fedAt>>

NowMs == elapsed % Wrap

WatchdogInit == elapsed = 0 /\ tasks = <<>> /\ fedAt = <<>>

(* nb_watchdog_register_task: DUPLICATE and FULL change nothing.           *)
Register(name, timeout) ==
  /\ \A i \in DOMAIN tasks : tasks[i].name # name
  /\ Len(tasks) < MaxTasks
  /\ tasks' = Append(tasks, [name |-> name, fed |-> NowMs, timeout |-> timeout])
  /\ fedAt' = Append(fedAt, elapsed)
  /\ UNCHANGED elapsed

Feed(i) ==
  /\ tasks' = [tasks EXCEPT ![i].fed = NowMs]
  /\ fedAt' = [fedAt EXCEPT ![i] = elapsed]
  /\ UNCHANGED elapsed

TimePasses == elapsed < MaxTime /\ elapsed' = elapsed + 1 /\ UNCHANGED <<tasks, fedAt>>

WatchdogNext ==
  \/ \E n \in Names, t \in Timeouts : Register(n, t)
  \/ \E i \in DOMAIN tasks : Feed(i)
  \/ TimePasses
WatchdogSpec == WatchdogInit /\ [][WatchdogNext]_watchdogVars

(* nb_watchdog_check: the unsigned difference, and the first that is over. *)
(* Mutant: the time of expiry, which wraps, compared with the clock. *)
ExpiredByDeadline(i) == NowMs > (tasks[i].fed + tasks[i].timeout) % Wrap
Expired(i) == (NowMs - tasks[i].fed) % Wrap > tasks[i].timeout
Checked ==
  LET over == {i \in DOMAIN tasks : Expired(i)}
  IN  IF over = {} THEN 0 ELSE CHOOSE i \in over : \A j \in over : i <= j

-----------------------------------------------------------------------------
(* The check is right across the wrap of the clock: while no task has been *)
(* starved for a whole turn of it, it finds the first that is overdue in   *)
(* true time, and none when none is.                                       *)
CheckIsExact ==
  (\A i \in DOMAIN tasks : elapsed - fedAt[i] < Wrap)
    => LET starved == {i \in DOMAIN tasks : elapsed - fedAt[i] > tasks[i].timeout}
       IN  IF starved = {} THEN Checked = 0
           ELSE Checked \in starved /\ \A i \in starved : Checked <= i
=============================================================================
