----------------------------- MODULE MindOutput -----------------------------
(***************************************************************************)
(* The owner of speech (mind/mind_output.py): an actor that takes replies  *)
(* and cancellations from its queue, and for each reply a task that        *)
(* synthesises it and publishes SAY_BEGIN, SAY_AUDIO... and SAY_END or     *)
(* SAY_CANCEL.                                                             *)
(***************************************************************************)
EXTENDS Loop

VARIABLES active,     \* _active_turn_id
          speakTask,  \* the turn of _speak_task, 0: None
          coming,     \* the reply on_reply_ready goes on with after its wait
          speak       \* of each turn, where its task _speak is

ovars == <<active, speakTask, coming, speak>>

Speak(t) == <<"speak", t>>
Speaks(t) == speak[t] \in {"new", "talking"}

OutputInit ==
  /\ active = 0 /\ speakTask = 0 /\ coming = 0
  /\ speak = [t \in Turns |-> "none"]

-----------------------------------------------------------------------------
StartSpeak(t) ==
  /\ active' = t /\ speakTask' = t
  /\ speak' = [speak EXCEPT ![t] = "new"]
  /\ ready' = Append(ready, Speak(t))

(* Cancel the task that speaks and wait for it to end. *)
CancelSpeak ==
  /\ cancelled' = cancelled \cup {Speak(speakTask)}
  /\ ready' = ready \o Rushed(Speak(speakTask))
  /\ at' = [at EXCEPT ![Output] = "join"]
  /\ running' = Nobody
  /\ UNCHANGED <<active, speakTask, speak>>

(* _on_reply_ready *)
OnReply ==
  /\ Takes(Output, "reply") /\ queue' = Rest(Output)
  /\ LET t == NextEvent(Output)[2]
     IN  IF speakTask # 0 /\ Speaks(speakTask)
         THEN CancelSpeak /\ coming' = t
         ELSE StartSpeak(t) /\ UNCHANGED <<running, cancelled, at, coming>>

(* _on_cancel *)
OnCancel ==
  /\ Takes(Output, "cancel") /\ queue' = Rest(Output)
  /\ IF NextEvent(Output)[2] = active /\ speakTask # 0 /\ Speaks(speakTask)
     THEN CancelSpeak /\ UNCHANGED coming
     ELSE UNCHANGED <<ready, running, cancelled, at, ovars>>

(* The rest of either, when the task has ended. *)
SpeaksNext ==
  /\ running = Output /\ at[Output] = "joined"
  /\ at' = [at EXCEPT ![Output] = "no"]
  /\ IF coming # 0 THEN StartSpeak(coming) ELSE UNCHANGED <<ready, active, speakTask, speak>>
  /\ coming' = 0
  /\ UNCHANGED <<running, cancelled, queue>>

OutputActs ==
  \/ (Resumes(Output) \/ WaitsForEvent(Output)) /\ UNCHANGED ovars
  \/ OnReply \/ OnCancel \/ SpeaksNext

-----------------------------------------------------------------------------
(* The slices of _speak. *)
SpeakSlice(t) == Slice(Speak(t)) /\ Speak(t) \notin cancelled

(* SAY_BEGIN, or some SAY_AUDIO, and the provider makes the task wait.     *)
SpeakWaits(t) ==
  /\ SpeakSlice(t)
  /\ speak' = [speak EXCEPT ![t] = "talking"]
  /\ ready' = Tail(ready)
  /\ UNCHANGED <<running, cancelled, queue, at, active, speakTask, coming>>

(* The stream ends, in SAY_END, or the provider fails, in SAY_CANCEL.      *)
SpeakEnds(t) ==
  /\ SpeakSlice(t)
  /\ speak' = [speak EXCEPT ![t] = "said"]
  /\ active' = IF active = t THEN 0 ELSE active
  /\ Publish(Engine, <<"done", t>>)
  /\ ready' = Tail(ready) \o Woken(Engine)
  /\ UNCHANGED <<running, cancelled, speakTask, coming>>

(* CancelledError: SAY_CANCEL, unless the task had not started.            *)
SpeakCancelled(t) ==
  /\ Slice(Speak(t)) /\ Speak(t) \in cancelled
  /\ cancelled' = cancelled \ {Speak(t)}
  /\ IF speak[t] = "talking"
     THEN /\ speak' = [speak EXCEPT ![t] = "said"]
          /\ active' = IF active = t THEN 0 ELSE active
     ELSE /\ speak' = [speak EXCEPT ![t] = "unsaid"]
          /\ UNCHANGED active
  /\ at' = Joined(Output, speakTask = t)
  /\ ready' = Tail(ready) \o Joiner(Output, speakTask = t)
  /\ UNCHANGED <<running, queue, speakTask, coming>>

SpeakActs(t) == SpeakWaits(t) \/ SpeakEnds(t) \/ SpeakCancelled(t)
=============================================================================
