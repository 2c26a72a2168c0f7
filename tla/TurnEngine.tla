----------------------------- MODULE TurnEngine -----------------------------
(***************************************************************************)
(* The owner of the turn of voice (mind/turn_engine.py): an actor that     *)
(* takes wakes, transcripts, interruptions and ends of speech from its     *)
(* queue, and for each turn a task that thinks and then waits for its      *)
(* speech to end.  The clock and the providers are the environment.        *)
(***************************************************************************)
EXTENDS Loop, Breaker

VARIABLES state,     \* of the TurnManager
          session,   \* the turn of _session, 0: None
          turns,     \* _TURN_COUNTER
          turnTask,  \* the turn of _turn_task, 0: None
          waiter,    \* the turn that waits on _speech_done_waiter, 0: None or done
          turn       \* of each turn, where its task _run_turn is

evars == <<state, session, turns, turnTask, waiter, turn>>

TurnStates == {"IDLE", "LISTENING", "COMMITTING", "THINKING", "SPEAKING"}
Run(t) == <<"turn", t>>
Alive(t) == turn[t] \in {"new", "thinking", "speaking"}

EngineInit ==
  /\ state = "IDLE" /\ session = 0 /\ turns = 0
  /\ turnTask = 0 /\ waiter = 0
  /\ turn = [t \in Turns |-> "none"]

-----------------------------------------------------------------------------
(* The handlers of the actor. *)

(* _replace_with_new_turn: whatever the state is, by way of INTERRUPTED    *)
(* and IDLE, or of a ValueError, it ends in LISTENING for a new session.   *)
ReplaceTurn ==
  /\ turns' = turns + 1
  /\ session' = turns + 1
  /\ state' = "LISTENING"

(* Mutant: a wake always starts over, whoever thinks or speaks. *)
OnWakeStartsOver ==
  /\ Takes(Engine, "wake")
  /\ ReplaceTurn /\ queue' = Rest(Engine)
  /\ UNCHANGED <<ready, running, cancelled, at, turnTask, waiter, turn, bvars>>
(* Mutant: a wake is for an idle mind only. *)
OnWakeIdle ==
  /\ Takes(Engine, "wake")
  /\ queue' = Rest(Engine)
  /\ IF state = "IDLE" THEN ReplaceTurn ELSE UNCHANGED <<state, session, turns>>
  /\ UNCHANGED <<ready, running, cancelled, at, turnTask, waiter, turn, bvars>>
(* _on_wake *)
OnWake ==
  /\ Takes(Engine, "wake")
  /\ IF state \in {"THINKING", "SPEAKING"} /\ session # 0
     THEN /\ queue' = [Rest(Engine) EXCEPT ![Engine] = Put(@, <<"barge", session>>)]
          /\ UNCHANGED <<state, session, turns>>
     ELSE ReplaceTurn /\ queue' = Rest(Engine)
  /\ UNCHANGED <<ready, running, cancelled, at, turnTask, waiter, turn, bvars>>

(* Mutant: the transcript of the session starts it again. *)
OnFinalAgain ==
  /\ Takes(Engine, "final")
  /\ queue' = Rest(Engine)
  /\ LET t == NextEvent(Engine)[2]
     IN  IF t = session
         THEN /\ state' = "COMMITTING"
              /\ turnTask' = t
              /\ turn' = [turn EXCEPT ![t] = "new"]
              /\ ready' = Append(ready, Run(t))
         ELSE UNCHANGED <<state, turnTask, turn, ready>>
  /\ UNCHANGED <<running, cancelled, at, session, turns, waiter, bvars>>
(* _on_final_transcript *)
OnFinal ==
  /\ Takes(Engine, "final")
  /\ queue' = Rest(Engine)
  /\ LET t == NextEvent(Engine)[2]
     IN  IF t = session /\ state = "LISTENING"
         THEN /\ state' = "COMMITTING"
              /\ turnTask' = t
              /\ turn' = [turn EXCEPT ![t] = "new"]
              /\ ready' = Append(ready, Run(t))
         ELSE UNCHANGED <<state, turnTask, turn, ready>>
  /\ UNCHANGED <<running, cancelled, at, session, turns, waiter, bvars>>

(* Mutant: the task of the turn is left to itself. *)
StopsSpeechOnly(t) ==
  /\ queue' = [Rest(Engine) EXCEPT ![Output] = Put(@, <<"cancel", t>>)]
  /\ ready' = ready \o Woken(Output)
  /\ at' = [at EXCEPT ![Output] = IF @ = "get" THEN "no" ELSE @]
  /\ turnTask' = 0 /\ waiter' = 0
  /\ ReplaceTurn
  /\ UNCHANGED <<running, cancelled>>
(* _on_barge_in, up to the wait for the task it cancels.  The cancellation *)
(* of speech is published before.                                          *)
StopsSpeech(t) ==
  /\ queue' = [Rest(Engine) EXCEPT ![Output] = Put(@, <<"cancel", t>>)]
  /\ LET woken == [at EXCEPT ![Output] = IF @ = "get" THEN "no" ELSE @]
     IN  IF turnTask # 0 /\ Alive(turnTask)
         THEN /\ cancelled' = cancelled \cup {Run(turnTask)}
              /\ ready' = ready \o Woken(Output) \o Rushed(Run(turnTask))
              /\ at' = [woken EXCEPT ![Engine] = "join"]
              /\ running' = Nobody
              /\ UNCHANGED <<state, session, turns, turnTask, waiter>>
         ELSE /\ ready' = ready \o Woken(Output)
              /\ at' = woken
              /\ turnTask' = 0 /\ waiter' = 0
              /\ ReplaceTurn
              /\ UNCHANGED <<running, cancelled>>

(* Mutant: any turn is taken for the one that is on. *)
OnBargeAny ==
  /\ Takes(Engine, "barge")
  /\ LET t == NextEvent(Engine)[2]
     IN  IF session # 0
         THEN StopsSpeech(t)
         ELSE /\ queue' = Rest(Engine)
              /\ UNCHANGED <<ready, running, cancelled, at,
                             state, session, turns, turnTask, waiter>>
  /\ UNCHANGED <<turn, bvars>>
OnBarge ==
  /\ Takes(Engine, "barge")
  /\ LET t == NextEvent(Engine)[2]
     IN  IF session # 0 /\ t = session
         THEN StopsSpeech(t)
         ELSE /\ queue' = Rest(Engine)
              /\ UNCHANGED <<ready, running, cancelled, at,
                             state, session, turns, turnTask, waiter>>
  /\ UNCHANGED <<turn, bvars>>

(* The rest of _on_barge_in, when the task has ended. *)
GoesOn ==
  /\ running = Engine /\ at[Engine] = "joined"
  /\ at' = [at EXCEPT ![Engine] = "no"]
  /\ turnTask' = 0 /\ waiter' = 0
  /\ ReplaceTurn
  /\ UNCHANGED <<ready, running, cancelled, queue, turn, bvars>>

(* Mutant: the future is given up without its result. *)
OnDoneForgets ==
  /\ Takes(Engine, "done")
  /\ queue' = Rest(Engine)
  /\ waiter' = IF NextEvent(Engine)[2] = session THEN 0 ELSE waiter
  /\ UNCHANGED <<ready, running, cancelled, at, state, session, turns, turnTask, turn, bvars>>
(* _on_speech_done: the turn that waits is put in line. *)
OnDone ==
  /\ Takes(Engine, "done")
  /\ queue' = Rest(Engine)
  /\ IF session # 0 /\ NextEvent(Engine)[2] = session /\ waiter # 0
     THEN /\ waiter' = 0
          /\ ready' = IF turn[waiter] = "speaking" THEN ready \o Rushed(Run(waiter))
                                                   ELSE ready
     ELSE UNCHANGED <<waiter, ready>>
  /\ UNCHANGED <<running, cancelled, at, state, session, turns, turnTask, turn, bvars>>

EngineActs ==
  \/ (Resumes(Engine) \/ WaitsForEvent(Engine)) /\ UNCHANGED <<evars, bvars>>
  \/ OnWake \/ OnFinal \/ OnBarge \/ GoesOn \/ OnDone

-----------------------------------------------------------------------------
(* The slices of _run_turn. *)
RunSlice(t) == Slice(Run(t)) /\ Run(t) \notin cancelled

(* The reply, the fallback of a failure among them: SPEAKING can follow    *)
(* THINKING or SPEAKING only, else the ValueError, the second of the task, *)
(* ends it.                                                                *)
Replies(t, from) ==
  /\ waiter' = t
  /\ IF from \in {"THINKING", "SPEAKING"}
     THEN /\ state' = "SPEAKING"
          /\ turn' = [turn EXCEPT ![t] = "speaking"]
          /\ Publish(Output, <<"reply", t>>)
          /\ ready' = Tail(ready) \o Woken(Output)
     ELSE /\ turn' = [turn EXCEPT ![t] = "done"]
          /\ at' = Joined(Engine, turnTask = t)
          /\ ready' = Tail(ready) \o Joiner(Engine, turnTask = t)
          /\ UNCHANGED <<state, queue>>
  /\ UNCHANGED <<running, cancelled, session, turns, turnTask>>

(* A local intent answers at once, and so does a breaker that refuses; the *)
(* provider makes the task wait.  A task that starts when its turn is no   *)
(* longer COMMITTING fails there.                                          *)
TurnStarts(t) ==
  /\ RunSlice(t) /\ turn[t] = "new"
  /\ IF state = "COMMITTING"
     THEN \/ Replies(t, "THINKING") /\ UNCHANGED bvars
          \/ Replies(t, "THINKING") /\ Refuse
          \/ /\ Allow
             /\ state' = "THINKING"
             /\ turn' = [turn EXCEPT ![t] = "thinking"]
             /\ ready' = Tail(ready)
             /\ UNCHANGED <<running, cancelled, queue, at, session, turns, turnTask, waiter>>
     ELSE Replies(t, state) /\ UNCHANGED bvars

(* The provider answered, or failed. *)
TurnAnswers(t) ==
  /\ RunSlice(t) /\ turn[t] = "thinking"
  /\ Replies(t, state)
  /\ Success \/ Failure

(* The future it waits on has its result. *)
TurnSpoken(t) ==
  /\ RunSlice(t) /\ turn[t] = "speaking"
  /\ turn' = [turn EXCEPT ![t] = "done"]
  /\ IF session = t THEN state' = "IDLE" /\ session' = 0
                    ELSE UNCHANGED <<state, session>>
  /\ at' = Joined(Engine, turnTask = t)
  /\ ready' = Tail(ready) \o Joiner(Engine, turnTask = t)
  /\ UNCHANGED <<running, cancelled, queue, turns, turnTask, waiter, bvars>>

(* CancelledError: the handlers of _run_turn and of the providers let it   *)
(* through (they catch Exception), so a call that was allowed is neither a *)
(* success nor a failure.  A task that had not started never does.         *)
TurnCancelled(t) ==
  /\ Slice(Run(t)) /\ Run(t) \in cancelled
  /\ cancelled' = cancelled \ {Run(t)}
  /\ turn' = [turn EXCEPT ![t] = "done"]
  /\ at' = Joined(Engine, turnTask = t)
  /\ ready' = Tail(ready) \o Joiner(Engine, turnTask = t)
  /\ UNCHANGED <<running, queue, state, session, turns, turnTask, waiter, bvars>>

TurnActs(t) ==
  TurnStarts(t) \/ TurnAnswers(t) \/ TurnSpoken(t) \/ TurnCancelled(t)
=============================================================================
