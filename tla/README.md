# Noisebot v2 in TLA+

Noisebot is a desk robot: an ESP32-S3 runs a face, a touch pad, LEDs, a
microphone and a speaker (`src/firmware`, C on FreeRTOS), and a Python server is
its mind: speech to text, a language model, text to speech (`src/server`).  The
two speak NBP/2 (`src/protocol`).  The rule of the design is that the body is
alive without the mind; the hard part of the code is what happens at the seams:
tasks that share a bus, a link that drops in mid-sentence, a reset between two
writes, a coroutine cancelled between two awaits.

This directory models those seams, checks them with TLC on small instances, and
proves the main results with TLAPS for every value of the constants.  Paths
below are relative to `src/`; `components/` stands for
`firmware/components/`.

Contents: [1 the system](#1-the-system), [2 the plan](#2-the-plan),
[3 the modules](#3-the-modules-and-the-code), [4 the runs](#4-the-runs),
[5 the proofs](#5-the-proofs), [6 where code and documents disagree](#6-where-code-and-documents-disagree),
[7 what is not modelled](#7-what-is-not-modelled).

## 1 The system

### 1.1 The robot

Four FreeRTOS tasks matter.  The *face task* (`firmware/main/main.c:335-435`)
runs a frame every 33 ms: the circadian clock, the reflex engine (which drains
the event bus), the arcs and rarities, the timers, and then the face of the mood
with what is laid over it, the drawing, the flush of the display and the LEDs.  The *touch task* samples the pad, the *mind-link task* runs the
connection to the server, the *audio task* plays and listens.  The face task is
the only one that reads the bus, and with it the only one that changes the state
machine, the timers and the clock, so those need no locks; the bus and the
playback have critical sections.

| component | state | operations | what makes it correct |
|---|---|---|---|
| `infra/event_bus` | a pool of 32 slots, 4 of them for safety; a ring per priority; statistics; an audit ring of 64 | `publish` (any task), `poll` (face task) | FIFO in a priority, safety first; no slot lost or held twice; normal traffic never takes the reserve; the statistics agree with the rings |
| `services/audio_playback_service` | state, ring of 8192 samples, active turn, fade | `begin`, `push`, `end`, `cancel`, `server_drop` (mind-link task), `consume` (audio task) | a turn is played in order and once; every stop falls silent, by a fade that does not click; no state the audio task cannot leave |
| `autonomic/tiny_fsm` | one of eight states, quiet mode | an event, by a table | the table, and the faults that outrank it |
| `autonomic/reflex_engine` | claims by band, the press it follows, the emotion's stimuli | drain of the bus, tick of the touch, `apply_stimulus`, `force_clear` | a reaction ends; a claim does not outlive what it is for |
| `services/touch_service` | debounced press, what was published of it | sample; TAP, LONG and SUSTAINED | a press posts each phase once |
| `services/mind_link` | session, heartbeat, receive buffer, voice queue, the turn that is being said | connect, frames, notify, task | the session reaches READY or starts again; the body is told the end of what it was told the start of |
| `services/wake_service` | wake word, listening session, preroll | audio frame, wake, tick | LISTEN_START and LISTEN_END match |
| `autonomic/circadian_core` | anchor of the clock, phase, pending SLEEP and WAKE | tick, TIME_SYNC, restore | asleep at night, awake by day; the clock is meant to survive a restart, and does not |
| `autonomic/schedule_core` | 8 timers, their copy in NVS | set, cancel, tick, restore | a timer fires once, not early, and survives a restart |
| `autonomic/arc_core`, `grumpy_forgive`, `reconcile`, `search` | act, time in it, cooldown; the last taps; the caress | start, tick, abort | an outburst for three taps in a window and no others; a heart only for a caress that lasted |
| `autonomic/peak_core`, `rarity_core` | the glyph shown; what re-arms a rarity | tick, start | one peak at a time; one dream a sleep |
| `autonomic/idle_engine` | a motif, deadlines of blinks and gestures, gaze, posture, drowsiness | tick | the eyes open again |
| `autonomic/emotion_core` | valence, arousal, dominant expression, mouth | stimulus, tick, resolve | a face the renderer can draw |
| `services/face/renderer` | the rectangle of the last frame | draw | nothing is drawn outside the rectangle that is sent |
| `hal/display_hal` | two framebuffers, a staging buffer, a token | flush, swap, interrupt | the panel shows the frame drawn last and nothing of others |
| `infra/boot_manager`, `ota` | outcome and reason of the boot, streak, image state | phases, confirm | a good image is not rolled back; the volume heard is the one known |
| `infra/app_config` | a cache over NVS | load, get, set | what was set is what is read; the next boot is meant to know it, and does not |
| `infra/watchdog` | registered tasks, last feed | register, feed, check | a late task is reported, across the wrap of the clock |
| `infra/logger` | ring of lines with sequence numbers | log, drain since | what a reader missed is told |
| `infra/wifi_setup`, `led_service`, other `hal` | the connection; a picture; devices | connect; draw; I/O | I/O or visual |

### 1.2 The server

One asyncio loop.  Each actor (turn engine, mind output) takes events from a
queue of its own on the bus; `publish` never waits and drops when a queue is full.

| component | state | operations | what makes it correct |
|---|---|---|---|
| `bus.py` | a bounded queue per subscription | publish, get | order per subscription; nobody is blocked |
| `mind/turn_engine.py`, `contracts.py` | session, its state, its task, the future of its speech | Wake, Final, BargeIn, SpeechDone; the turn's task | one turn at a time; what is cancelled falls silent; a wake is answered |
| `mind/mind_output.py` | the task that speaks | ReplyReady, TurnCancelled | one voice; SpeechDone exactly when speech is over |
| `providers/circuit_breaker.py`, `llm.py` | circuit, failures, the probe | allow, succeed, fail | after a rest, one probe |
| `providers/stt.py`, `tts.py`, `factory.py` | subprocesses and requests | transcribe, synthesise | I/O |
| `transport/nbp2_server.py` | the client's connection, the writer | accept, read, send | one client, that of the newest session; commands reach it |
| `mind/local_intents.py`, `stores/conversation_store.py`, `config.py` | none; SQL; none | match; append, read; load | pure, or a transaction each |

### 1.3 How they meet

* *calls*: the face task calls every autonomic component in a fixed order;
  what one does to the state machine the next sees in the same frame;
* *messages*: touch, mind link and wake service post on the bus, and a post may
  be refused; server actors post on their bus, and a full queue drops;
* *shared state*: `is_pressed` of the touch service, the playback's state, the
  pending flag of a fired timer are read by one task while another writes;
* *flash*: the timers are what a restart finds (clock, settings and boot streak are
  written too, under keys that NVS refuses);
* *an interrupt*: the end of a transfer returns the token the flush waits for;
* *cancellation*: a turn's task, and the task that speaks, may be cancelled at
  any await.

The behaviours that a test hardly reaches, each at its line, are the `hazards`
of PROJECT.json: a refused post that nobody repeats; the finger that leaves
between a drain and a tick; a state read in one critical section and used in the
next; two rings of different sizes that wrap over one pool; a link that drops
while the ring is full; a reset between a write and its effect; a cancelled
probe; a band copied over one that is still being sent; a clock that jumps over
dawn.

## 2 The plan

In order of what matters most to the program.  Each step is a group of modules
with runs of their own; the proofs follow the runs.

1. **The bus** (`Ring`, `EventBus`, abstract `TwoLaneBus`): everything the body
   learns goes through it.  *Done: checked, all safety and the refinement proved.*
2. **Playback** (`Playback`, abstract `SpeechLine`): two tasks on one ring.
   *Done: checked; all safety and the refinement proved.*
3. **The body** (`TinyFsm`, `Body`): the face task's frame against three
   publishers.  *Done: checked and proved but for liveness.*
4. **The mind** (`Loop`, `Breaker`, `TurnEngine`, `MindOutput`, composed in
   `Mind`, abstract `Voice`): actors, tasks and cancellation.  *Done: checked; its
   invariants and the refinement proved.*
5. **The agenda** (`Schedule`, `Agenda`, abstract `AlarmClock`): timers and clock
   across restarts.  *Done: checked; the invariants and the refinement proved.*
6. **The night** (`Night`, on `TinyFsm`): the phases of the day, when SLEEP and
   WAKE_HOUR become pending and how the state machine takes them, TIME_SYNC that
   jumps over dawn, restarts, and the rarities that look at the night.  *Done:
   checked; both invariants proved.*
7. **The link** (`Streams`, `WakeSession`, `MindLink`, `Transport`, composed in
   `Link`): a session over connections that may drop at any point, the voice
   queue, the handlers of the server.  *Done: checked; types
   and its three invariants proved.*
8. **The display** (`Rects`, `Display`): frames, dirty rectangles, bands and the
   interrupt, with transfers that fail.  *Done: checked; all its safety proved.*
9. **The character** (`Arcs`, `Idle`, `Face`, `Emotion`, run with `Night` by
   `MCCharacter`): what the face task does beside the reflexes.  *Done: checked;
   `OutburstIsEarned`, `HeartIsEarned`, `EyesReopen` and `FaceInsideDirty` proved.*
10. **The platform** (`Boot`, `Upkeep`, run with `Display` by `MCPlatform`): boot,
    volume, log and watchdog.  *Done: checked; all its invariants proved.*

What would come next: the framing of NBP/2.

Composition: `Body` takes the bus as the sequence `TwoLanes` shows it to be (its
normal lane), instead of slots and rings; `Agenda` takes the bus as the arrival,
event by event, of what the drain dispatches; `Mind` composes two actors and a
breaker on `Loop`.  `Body` and `Playback` are two projections of the same
SAY_* handlers of the mind link; `MindLink` keeps of them what the shell remembers
and which turn the playback has open.
`Link` joins the two ends, and the audio task that feeds one of them.  `Night`
runs the transition table of `TinyFsm` under the clock, with what a frame's events
may do to the body as an input; `Display` and `Emotion` meet in `Rects`: the
renderer promises to cover what it draws (`FaceInsideDirty`), the display assumes
it (`DisplayAssumption`) and promises the panel.  `MCCharacter` and `MCPlatform`
are not compositions but unions: their parts share no state, what one reads of
another is an input taken from all it could be, and a behaviour moves one `part`.

## 3 The modules and the code

`map` in PROJECT.json gives the lines of every definition.  Definitions marked
*Mutant* stand next to the one they damage; nothing uses them, they are there to
show that the property named in PROJECT.json notices the damage.

**Ring** is the index arithmetic of the rings of the firmware (`RingPush`,
`RingPop`, `RingContents`: the elements, oldest first).

**EventBus** has the pool `slots`, `normalQueue` and `safetyQueue` (rings of slot
indices, of 28 and 32), `stats` and `audit`.  `Publish`, `PublishFull`,
`PublishTooLarge` and `PublishBadPriority` are the outcomes of
`nb_event_bus_publish`; `PollSafety` and `PollNormal` of `nb_event_bus_poll`.  The
shell runs each call in one critical section, so each is one step, of any task.
**TwoLaneBus** is the promise: two bounded sequences, safety first, and a log of
the last calls.

**Playback** has the state machine of the core, the ring of samples, the fade,
and of the audio task the state it looked at (`seen`) before it consumes
(`main.c:723` and after): `Look` and `Consume` are two critical sections, and any
SAY_* call may come between.  Amplitudes are integers and a fade is C's division.
**SpeechLine** is the promise: a line of samples that belongs to one turn.

**TinyFsm** is the transition table; **Body** runs it in the frame of the face
task: `CircadianTick`, the drain event by event (`DrainTouch`, `DrainVoice`,
`DrainHint`, `DrainOther`), the reading of the pad (`Look`), `EngineTick`, `Timers`.
Between any two, the touch task presses, holds, releases and publishes, the audio
task publishes the wake word and the mind link what it receives.  A post into a
full lane is lost, as `nb_event_bus_shell_publish` loses it.  Time is abstract: a
claim lapses at some tick, a press goes through its phases (tap, long, and
`Phases` of a sustained one) once a frame looked at each, because a phase lasts
100 ms or more and a frame 33 ms.

**Loop** is asyncio as the server uses it: a line of tasks that can run, one slice
at a time; `get()` waits only on an empty queue and `publish` never; `cancel` puts
a task that waits in line.  **TurnEngine** has the handlers of the actor and the
slices of the turn's task, **MindOutput** those of the speaker, **Breaker** the
circuit breaker as the LLM providers call it, and **Mind** composes them with what
comes from outside: wakes, transcripts and interruptions (stale ones too), the
answers of providers, the clock.  **Voice** is the promise: one voice at a time.

**Schedule** has the array of timers, its copy in `flash`, and writes that may
fail; **Agenda** runs it in the frame with the clock (anchor plus what went by,
`now`), with TIME_SYNC, TIMER_SET and TIMER_CANCEL during the drain, and a
`Restart` between any two steps: what is in flash, nothing because NVS was erased,
or nothing because the blob cannot be read; the clock is back at the seed of the
bench, 20 h, since no time is ever saved.  `hand` is the array of ids that fired
and did not take effect yet.  **AlarmClock** is the promise: an alarm per id, none
early, none twice.

**Streams** is TCP as both ends use it: per connection and direction a bounded
sequence of frames; an end may close (`shut`) or go away without a word (`ghost`).
A slot of `Conns` is used again once both ends let go of it.  **MindLink** is the
loop of `nb_mind_link_shell_task`, one step per call that may come out in more
than one way: connect, HELLO, the tick of the heartbeat, the voice queue item by
item, `recv`, each frame, the end.  As in the code, a session that dies in the tick
or by a frame goes on to the end of the round.  SAY_* frames carry their turn, and two
parts keep it: `saying` is all the shell remembers, and forgets at the end or cancel
of any turn; `playing` is the turn the playback has open, which only its own end
closes.  `stray`, `wire` and `maimed` are history: that the last frame of the speech
was the end of another turn than the open one, what the server was sent on this
connection, and the sessions something was lost of.  **WakeSession** is the listening session, a step per call of the service, and
the frames the sink of `main.c` then pushes.  **Transport** is the server: a
handler per connection (`srv`), the client, the mutex (held across a wait only
while the writer of the old client closes, so `evicting` is "has the mutex"), and
the task that sends commands.  **Link** composes them, with resets of the robot
and losses of the server.

**Night** has the hour, the phase the shell remembers and the two pending events
of `nb_circadian_core_shell_tick`, and the sessions of the rarities.  A frame is
one step (`NightFrame`): clock, body, rarities, in the order of `main.c`; the hour
moves by none or `Stride`.  `TimeSync` may set any hour, `Restart` is at 20 h again.  `late` and `jumped` are history: a sleep that was still pending when day
dawned, a clock that was set since.

**Arcs** has the arithmetic of `arc_core` (`StartArc`, `TickArc`, `AbortArc`), and
with it the outburst (`OnTap`, `GrumpyFrame`) and the peace (`ReconcileTick`), each
fed by a frame of any taps, moods and caresses, and the slot of `peak_core`.  The
arcs' absolute times, of 64 bits, are ages here, so that behaviours come back.
**Idle** is the slot of the lids: a blink at its deadline, an absolute time on a clock
of 32 bits that wraps (`nowMs`, `nextBlink`), or by a leap of the gaze
(`SaccadeBlink`); gestures at any tick, which is more than their own deadlines allow;
`Openness`, what a motif makes of the lids; and `Shut`, what the renderer then draws as
a line: the motif's opening is multiplied with what mood, breath and drowsiness leave
(`Openings`, any in each frame) before it is compared.  The posture only moves the
face and is left out.  **Face** has the
expressions, the overlays of the arcs, and for a pose both what is drawn
(`EyeColumn`, `MouthColumn`) and the rectangle the renderer gives (`FaceDirty`);
floats are hundredths, pixels cut as the casts cut them.  **Emotion** is the mood
on a grid, and the face it blends.

**Rects** is clamp, union and the alignment to cache lines.  **Display** runs a
frame: `Draw` in the back buffer, then band by band `CopyBand` (which takes the
token) and `SendBand` or `SendFails`, while `TransDone` is the interrupt, then
`Swap` and `Bind`.  A buffer holds a pose; `LitBy` says which cells it lights, and a
cell is what a cache line holds of a row.

**Boot** is `app_main` from the logger to its loop, with the face task serving
DEVICE_CONFIG from the moment it may (`Serving`), settings as a cache that every boot
starts empty, and a `Reboot` at any point: NVS refuses the names of the volume and of
the streak for their length, whether or not it had to be erased first.  `raced` is
history.  **Upkeep** has the logger, a line being its number, and the watchdog,
whose clock wraps.

## 4 The runs

Every run checks deadlock but the two of `Mind`, where the server may rest for
ever once the bounded input is spent.

| run | instance | states | what it shows |
|---|---|---|---|
| `EventBus` | 3 slots, 1 reserved, audit of 1, counters mod 2, 2 types | 174,061 | no leak, no slot under the wrong priority; the bus implements `TwoLaneBus`; a reserved slot always comes back |
| `Playback` | ring of 2, fade of 3, blocks of 2, batches to 3, 2 turns, amplitudes -3 and 0 | 4,437 | it implements `SpeechLine`; the tone of the bench never splits speech; a fade neither steps up nor crosses zero; every stop falls silent |
| `Body` | 2 places on the bus, 2 phases | 294,152 | a body that speaks has the end on the way, and stops; a reaction waits for a release; rest is unclaimed |
| `BodyFrozen` | the same | | a violation: a lost hint freezes RESPONDING |
| `Agenda` | 2 slots, 3 ids, times 1 and 3, clock to 3 | 19,328 | it implements `AlarmClock`; flash agrees with memory unless a write failed; what is due fires |
| `Mind` | queues of 10, breaker of 1, 5 inputs | 19,165 | a turn owns the state; silence while listening; one LLM call at a time; one voice; wakes answered; speaking ends |
| `MindProbe` | the same | | a violation: a cancelled probe leaves the breaker closed to all |
| `Link` | 2 connections of 2 frames, 2 missed heartbeats, one loss of either end, no voice | 216,868 | the client of the server has a handler; a silent link is noticed by the heartbeats alone; robot and server find each other again |
| `LinkVoice` | 1 connection of 1 frame, queue of 2, 2 sessions of 2 chunks, SAY_* of 2 turns and commands down, nothing said to the second session | 1,568,141 | what was being said stops with its link, unless the end of another turn came last; the server hears whole sessions, unless an item was lost |
| `LinkSilent` | as `Link` | | a violation: a server lost in the greeting holds the link |
| `Character` | the hours, the code's blinks and gestures at 33 ms on a clock that wraps at 3.3 s, a tap window of 4 frames, arcs of a few, a mood grid of 10, the panel of 320 x 240 | 3,339,095 | asleep in the light for one of two reasons; one dream a sleep; the eyes reopen; nothing is drawn outside the dirty rectangle; outbursts and hearts are earned |
| `Platform` | a panel of 8 x 6, a stage of two rows, 2 failed transfers; 3 volumes; a log of 3 lines; 2 tasks, a clock of 7 ms | 284,330 | the panel shows the front buffer, a frame is whole after a failure and always ends, the stage is stable; the volume is restored; losses are told; the check is exact |

**Why the bounds are enough.**  *EventBus*: three slots make the rings of
different capacity (2 and 3), so their wraps drift apart; one reserved slot is
both taken and missing; the audit ring and the counters wrap at once.  Nothing in
the code depends on the sizes but through those comparisons, and the theorems hold
for all.  *Playback*: a batch of 3 overflows a ring of 2, a block of 2 leaves
one or none of it, a fade of 3 takes two blocks, the second shorter; a second turn
takes over from each state.  -3 rounds in a fade of 3, and 0 is the voice that
needs no fade.  *Body*: two places fill with one post of any task and a hint; the
second phase of a press is the one that repeats the stimulus.  *Mind*: five
inputs allow a turn, an interruption and a stale event of each kind, and a wake
in each state; a queue has two places for each input, so nothing is dropped, as
with 128 places and events a person makes; `Threshold` only decides
how many failures come before the breaker opens (the code's is 3).  *Agenda*:
three ids do not fit two slots; one time is before and one after where the clock
starts, at every start.  *Link*:
with two connections a stale one meets a new one, in any order of their handlers;
a frame of each kind fits a stream of two, and the second heartbeat fills it; a
reset needs no second one, since after it everything is as at the start but what
the first left behind.  A boot id is always the same: within a connection, which
begins empty, no answer to another HELLO can come, so the check of the id is
never what saves the link.  *LinkVoice*: a queue of two overflows with the two
frames that begin a session behind the one that announces it, and holds the end
of one session with the start of the next over a reconnection; two turns are enough
for the end of one to find the other open.  Nothing is said to the second
session (`SpeaksToTheFirst`): the speech and the voice that is heard share nothing but
the task, and each has met the other in the first.  *Character*: the hours of the day are all there, so no phase is stepped
over but by TIME_SYNC.  A lid is a matter of milliseconds, so `Idle` keeps the code's
durations, its tick, its shortest pause and a longer one, with the shortest and the
longest of each random blink; the clock wraps in the second pause, where the code's
runs through millions of them, so that blinks of every phase meet the wrap; and the
openings are the most closed there is, .30 (the least open face, .41, at the
low of the breath, .98, and full drowsiness, .75), and that of a neutral face, .88.  Rests of the gaze
are shortened to two frames, which only lets more leaps meet more blinks.  The acts of
an arc last none to three frames, so that an act may be skipped, and the tap window
is longer than an arc's act; the code's are hundreds of frames.  The mood moves on
tenths of its range, and every one of the 441 moods meets every overlay, lid, and
side of the gaze.  *Platform*: the stage of two rows makes a last band that is
shorter; rectangles overlap, reach past the panel, and begin off a cache line; the
second failure comes after a frame that recovered from the first.  A log of three
lines is overtaken more than twice before its bound of eight, and a clock of seven
milliseconds wraps twice in sixteen, with timeouts on both sides of the half.

**Fairness.**  *EventBus*: the face task polls until the bus is empty in every
frame.  *Playback*: the audio task loops over look and consume and waits for
nothing but the speaker's DMA.  *Body* and *Agenda*: the face task's loop has no
exit, and any step of it is enabled at any time; the touch task publishes what it
saw on its own tick.  Nothing is assumed of fingers, voices, the mind or the
link.  `DueFires` holds of a robot that is not reset for ever
(`<>[][~Restart]_vars`).  *Mind*: the loop runs what is in line; an LLM call has a
total timeout (10 s), so it answers or fails; a synthesised sentence
has an end (strong fairness, since each piece of audio is a wait of its own).
Nothing is assumed of what comes from outside.  *Link*: the link task's loop, the
audio task and the loop of `app_main` run, and so does time.  A handler of the
server gets its turn in strong fairness, because an `asyncio.Lock` is handed over in
order, however often others take it meanwhile; so does the error that TCP reports
in the end of what is never acknowledged, and only while the session is not READY:
`SilenceIsNoticed` rests on the heartbeats.  `LinkComesBack` also assumes of the
network that, from some time on, an answer comes within an interval (`Prompt`);
without it a link may die and come back for ever.
*Platform*: the face task goes on when the token is there, and a transfer that was
queued ends (the driver's promise); nothing makes it draw.  `Character` has no
liveness: its arcs and motifs end by count, which its safety properties see.

## 5 The proofs

TLAPS checks these for every value of the constants that meets the named
assumptions (`BusAssumption`, `PlaybackAssumption`, `BodyAssumption`,
`ScheduleAssumption`, `AgendaAssumption`, and those of `Link` and its modules: sizes
are positive, a connection and a boot id are numbers from 1, a reserve is smaller
than the pool, 0 is an amplitude, the first time of the clock is within its
bound; `NightAssumption`: a frame advances the clock by an hour or two;
`EmotionAssumption`: the grid of the mood divides its range;
`IdleAssumption`: the ranges of idle_engine.c, where every blink is over a frame before
the shortest pause is, the longest pause is shorter than the clock, a frame takes
less than 50 ms, and no face is more closed than .30; `RectsAssumption` and `DisplayAssumption`: a row is whole cache lines, and a
renderer's rectangle is on the panel and covers what it draws).

* **RingProofs**: a push appends to `RingContents`, a pop removes its head,
  whatever the head and the capacity.  All index arithmetic lives there.
* **EventBusProofs**: the inductive invariant is types, the statistics, and that
  each ring holds exactly the slots in use of its priority, each once.  That last
  part is what makes the rest go through: normal events sit in unreserved
  slots, an injection from ring positions to free slots bounds the rings, so an
  allocation implies room.  Theorems `TypeCorrect`, `NoSlotLeaks`,
  `ReserveIsSpared`, `PushNeverFails`, `StatsCorrect`.  `BusImplementsLanes`:
  under that invariant each step maps to a step of `TwoLaneBus` or a stutter.
* **PlaybackProofs**: the invariant is types, `NothingStuck`, and that the tone is
  ruled out once a turn has been heard whatever state was seen.  Theorems
  `TypeCorrect`, `NeverStuck`, `ToneStaysOut`.  *The fade*: a step of a fade is
  compared with what came out before, which only the history knows; `FadeGoesOn` says
  that it is what the counter of the fade gives, and the rest is arithmetic of C's
  division (`FadesDown`).  Theorem `FadeComesDown`.  *The line*: `WaitsWritten` and
  `WaitsDropped` say what the loops over the ring do to the samples that wait;
  `ReasonKnown`, that a turn the link can still name has not lost it, is what End
  and Cut of `SpeechLine` need.  Theorem `SpeechIsALine`.
* **BodyProofs**: `RespondingHasAnEnd` is not inductive, since a SAY_BEGIN that
  waits on the bus will make it true of the future; `TurnsEnd` adds that after
  each of those the bus holds an ending, or the turn is live, or an ending was
  refused.  `ReactionWaitsForRelease` looks at the end of a frame only;
  `PressesNoticed` follows the press through its steps.  Theorems `TypeCorrect`,
  `SpeechHasAnEnd`, `ReactionWaits`, `RestIsUnclaimed`.
  *The night*: `LightSleepHasACause` looks at the hour, the code only at edges
  of the phase it remembers.  `NInv` joins them: without a jump the phase
  remembered is that of the hour (`PhaseIsKnown`), and whoever sleeps, or is to
  sleep, when the night is over has one of the two reasons (`DawnIsLate`,
  `DayHasACause`).  `NightStep` is what is needed of the transition table: only
  SLEEP puts to sleep, WAKE_HOUR always wakes.  `DInv`: a dream uses up what only
  another sleep brings back.  Theorems `SleepIsExplained`, `OneDream`.
  *The peace*: the acts of an arc are counted by elapsed time and the caress by the
  finger, in two places; `PeaceInv` ties them: while the peace runs, the caress has
  lasted at least as long as the arc.  Theorem `HeartsAreEarned`.
  *The outburst*: the ring knows the ages of three taps, the property counts all of
  the window (`tapped`).  `RingTells` says that for every age up to the window both
  tell alike whether one, two or three taps are no older; a tap moves each answer one
  place on, a frame of time moves it one frame on.  Theorem `OutburstsAreEarned`.
  *The lids*: `EyesReopen` counts the frames the eyes are shut, the code only has
  deadlines.  `LidsInv` says that the count is explained by the motif that shuts
  them now (`ShutIsCounted`; of a slow blink, a parabola under a threshold,
  `SlowMiddle`), that a motif does not outlive its length (`WithinMotif`), and that the
  deadline a blink drew is still ahead while it lasts (`BlinkIsAhead`), so that the
  next finds the eyes open: unless the deadline lies past the end of the clock and the
  clock does not, which is what the code gets wrong, and what `BeganAtWrap`
  excludes.  Theorem `EyesOpenAgain`.
  *The face*: the invariant is little, a mood within its bounds and a hub that is one
  of the five (`MoodTypes`); the rest is arithmetic.  `WeightsShare`: the nearest hub
  is never too far to have a weight, and the five share at most 100.  `BlendFits`:
  what is blended by them stays within the ranges of the expressions, less what five
  roundings take.  `ResolvedFits` carries that through the variant and the gate of
  the mouth, `OverlayFits` through the beats of an arc; no mood opens an eye beyond
  .88, which leaves room for lids at 1.10.  `EyeRows` and `MouthRows`: a face within
  those ranges has no pixel further than 62 or 40 rows, the margins of the renderer,
  from the centre it was placed by, after slope, squint, curve, corners and edge.
  `PoseInside` cuts both to the panel, for every gaze, tilt and width and not only
  those of `Pose`.  Theorem `FaceStaysInside`.
* **AgendaProofs**: the invariant adds that no id is in two slots, in memory and
  in flash (a restart makes the second the first).
  Theorems `TypeCorrect`, `FlashIsTrue`, `IdsStayApart`.  With
  the hand empty but while timers ring (`HandInv`), `AgendaKeepsAlarms` maps each
  step to one of `AlarmClock`: what makes it go through is that an id has one
  slot, so a slot is written for one alarm and a free slot means an alarm can be set.
* **LinkProofs**: `Typed` adds to the types that received frames wait only where
  they are handled, and that the task has a connection wherever it uses one.
  `TurnTied`: a turn the playback has open the shell remembers to take back, unless
  the last that came was the end of another (`stray`).
  `HandlerInv`: a connection carries one HELLO, and none is under way once its
  handler is, or is about to make it, the client; without that a second HELLO
  could send the client's handler back among those that wait for the mutex.  Theorems
  `TypeCorrect`, `SpeechEndsWithLink`, `ClientIsHandled`.  *The voice*: what the
  server heard, what is under way on the connection, what the queue holds and what the
  sink is about to add are one pipe, in which the sessions rise and the items of
  a session that lost none follow one another (`Linked`); `VoiceInv` adds how
  each end knows the session it is in (`Known`, `Hearing`) and that one session is
  closed before the next is opened.  Theorem `VoiceComesWhole`.
* **MindProofs**: asyncio decides the order, so the invariant begins with the line
  of what is ready: each task is in it at most once, and only what waits for it
  (`LineInv`).  `EngineInv` says of each turn what its task may still do: a task that
  was left behind before it began stands in line ahead of the engine
  (`TurnInv`); one that thinks or speaks is the session's; and that the engine, when
  it waits for a task it cancelled, waits for that of the session
  (`JoinInv`).  `CountInv` bounds the turns by the inputs.  `OutputInv` orders the
  voices: what waits to speak comes after all that spoke.  Theorems `TurnIsOwned`,
  `CallsComeOneByOne`, and `MindHasOneVoice`, the refinement of `Voice`.
  `ListensInSilence` needs one more, `SilenceInv`: whoever waits to speak or speaks
  belongs to a turn that does so with right, or has its cancellation behind it in
  the queue, or has been cancelled.  It assumes `QueueCap >= 2 * MaxInputs`, since
  `publish_nowait` drops what does not fit a queue, the order to be silent
  with the rest; the code has 128 places.
* **PlatformProofs**, of three independent parts.  *Boot*: an order that overlaps
  the restoring is seen to, any other is heard before it is recorded, and a restore
  that no order overlaps applies what is known (`BootInv`).  Theorem
  `VolumeComesBack`.  *Upkeep*: the ring holds
  consecutive numbers up to the last (`LogInv`), so where a reader starts says what it
  lost; a feed is kept as its true time, wrapped (`DogInv`).  Theorems `LossesAreSaid`,
  `OverdueIsFound`.
  *Display*: lemmas on rectangles (the cells of a union and of an aligned
  rectangle hold those of what they are made from; bands divide them), and an
  invariant with a part for each hazard: who has the token says where the task and
  the transfer are; during a flush the rows above the band are the new frame's,
  and, without failures, what the panel shows elsewhere is the front's.  Theorems
  `DisplayTyped`, `PanelIsFront`, `WholeFace`, `StableStage`.

Some theorems state invariants that no cfg lists, since the proof makes TLC's
answer on one instance redundant: the types of the proved modules,
`NormalSparesReserve`, `RingsFitThePool`, `StatsAgree` and `NothingStuck`.

Only model-checked: all liveness (`ReserveComesBack`, `FallsSilent`,
`RespondingEnds`, `WakeAnswered`, `SpeakingEnds`, `DueFires`, `SilenceIsNoticed`,
`LinkComesBack`, `FrameEnds`: TLAPS does not reason about fairness here).  Every
other property of a passing run is the statement of a theorem.

## 6 Where code and documents disagree

Each is a run that TLC ends with a counterexample, or is marked as read only.

* `docs/PROTOCOL.md:33-34` and the comment at `nb_mind_link_shell.c:129-134`:
  silence ends a session.  Until HELLO_ACK comes nothing counts it, and a server
  lost at that moment holds the link until the robot is reset (`LinkSilent`).
* `docs/BEHAVIOR.md:45-46`: never frozen in RESPONDING.  The hint that ends speech
  is posted once, and a full normal lane loses it (`BodyFrozen`).
* `docs/SERVER.md:72-73`: an open breaker is probed.  A turn cancelled while it
  is the probe records neither success nor failure, and no later call is ever
  allowed (`MindProbe`).
* Without a run of their own, met while modelling.  *Body*: a turn that ends in the
  frame of a short tap clears the engine's memory of the press while the TOUCH event
  is still on the bus, and nothing ends the reaction (`BEHAVIOR.md:20,47`; `forgot` in
  `ReactionWaitsForRelease`); any event that finds the body in IDLE destroys the
  claim of a timer (`reflex_engine.h:26`); ATTENTIVE has no timeout
  (`BEHAVIOR.md:18`); BOOT_OK is sent whatever the boot found (`BEHAVIOR.md:16`).
* *Agenda*: a reset between firing and effect loses a timer
  (`schedule_core/README.md:17-18`; a step of `AlarmClock`); one that came due while
  the robot was off does not fire at the first tick (the same, `18-19`), because the
  clock starts at 20 h; and it does so at every start, since the key of the time that
  is saved every 30 s is one character too long for NVS, which nobody looks at
  (`app_config.c:24`, `BEHAVIOR.md:135-136`; the bring-up log shows it); of two that fire together one may not be
  told to the mind (`BEHAVIOR.md:140-142`).
* *Mind and link*: a turn has no deadline (`SERVER.md:60-61`); a link dropped in
  speech plays the ring out, up to half a second (`VOICE.md:55-56`); with two turns begun
  the end of the first has the shell forget the second, which a lost link then leaves
  open in the playback (the same; `stray` in `NoTurnOutlivesItsLink`); a full voice
  queue drops LISTEN_START or its audio and sends LISTEN_END all the same
  (`VOICE.md:31-32`); a command sent on a connection just lost ends the task that
  sends commands (`nbp2_server.py:69`, `sender` in `Transport`).
* *Night*: a sleep left pending, or a clock set past dawn, has the robot asleep in
  full light (`circadian_core.h:21-23`); the night of the stargaze ends with any
  touch (`rarity_core.h:30-31`); the mood is not lifted when the peace ends
  (`reconcile.h:35-36`).
* *Idle*: the deadline of the next blink is an absolute time of 32 bits, compared with
  `>=`: in the last pause before the clock wraps, every 49.7 days, blinks follow one
  another with the eyes shut from one to the next (`idle_engine.c:408`, against its
  comment at `:102`; `BeganAtWrap` in `EyesReopen`).
* *Display*: a flush that fails leaves pixels of an older frame outside the next
  rectangle (`display_hal/README.md:55-56`).
* *Boot*: the streak of failed boots decides nothing, and a failed `app_config`
  phase is never counted (`app_config.h:36-37`); an image is confirmed before display,
  touch and sound have started (`ota/README.md:6-7`); the names of the volume,
  the quiet mode and the streak are too long for NVS, which refuses them every time
  and unseen, so that no setting outlives a boot (`app_config/README.md:35-36`); an order served while the volume is
  being restored is undone (`main.c:953`); only `app_main` feeds the watchdog
  (`watchdog/README.md:26-28`).

## 7 What is not modelled

*In the modelled parts*: the shutdown of the server, a wrong token, STATUS and
EVENT_TIMER_FIRED, writes of part of a frame and damaged frames, the volume applied
to a sample, the safety band of the reflex engine (no stimulus raises it), quiet mode
in `Night`, the posture in `Idle`, noise in `Emotion`, the hourly limit of
`search`, the lids of an arc's beat in `EyesReopen` (the outburst closes the eyes
as an act of its own; `Face` draws it), a wait for the display's interrupt that times out, the wrap of the
logger's sequence number, and events nobody subscribes to.  The wrap of the
32-bit milliseconds is modelled where the code looks at absolute times and a property
depends on it (`Upkeep`, `Idle`).  It is not in `Arcs`, whose times are of 64 bits but
for that of a tap, of 32 (`main.c:279`): taps on the two sides of the wrap, once in 49.7
days, are not counted together.  Nor is it in `Body`, where a claim may lapse at any
tick.  The wiring between the
server's SAY_* events and the transport does not exist in the code; nor does
anything that raises a fault, so ERROR and SAFE_MODE are never entered.

*Left out for good*: `led_service` (a picture, which nothing reads), the drivers in
`hal`, `wifi_setup` (the vendor's events and a portal), the code generator of the
protocol, `local_intents` (a pure function of text), `conversation_store` (a
transaction each), configuration, and the tools.  The policy of `ota.c` and the
explicit rollback are called only by tests.  The components of PROJECT.json give the
reason for each.
