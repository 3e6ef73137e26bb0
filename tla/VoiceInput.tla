----------------------------- MODULE VoiceInput -----------------------------
(***************************************************************************)
(* Spoken input of one voice session: receive_audio, finalize_audio_turn,  *)
(* the tasks they start and the messages that disturb them in              *)
(* backend/src/kajovodagmar/realtime/websocket.py, and the endpoint        *)
(* detector of realtime/vad.py.                                            *)
(*                                                                         *)
(* The handler takes one message after the other.  Beside it run the task  *)
(* that transcribes what was said so far and the assistant task.  A task   *)
(* takes its first step only when the handler waits; one that is cancelled *)
(* before never enters its body, and so not its "finally".                 *)
(***************************************************************************)
EXTENDS Integers, FiniteSets

CONSTANTS
  StartFrames,      \* voiced frames that start a turn (start_frames)
  SilenceFrames,    \* silent frames that end it (endpoint_silence_ms)
  MaxTurn,          \* frames a turn may have (MAX_TURN_BYTES)
  PartialInterval,  \* frames between two partial transcripts
  MaxFrames,        \* bound: frame numbers of a session
  None              \* no task

Tasks == [kind : {"audio", "text"}, frames : SUBSET (1..MaxFrames), begun : BOOLEAN]

ASSUME ConstantsAssumption ==
  /\ StartFrames \in Nat \ {0} /\ SilenceFrames \in Nat \ {0}
  /\ MaxTurn \in Nat \ {0} /\ PartialInterval \in Nat \ {0}
  /\ MaxFrames \in Nat
  /\ None \notin Tasks

VARIABLES
  started,     \* the session has a conversation
  online,      \* a socket is connected and the session is not suspended
  paused,      \* frames are dropped
  last,        \* last_audio_sequence
  audio,       \* frames in the buffer
  active,      \* the detector is in a turn
  voiced,      \* its voiced frames in a row, before a turn
  silence,     \* its silent frames in a row, in a turn
  partial,     \* frames the partial task transcribes
  partialAt,   \* partial_at_bytes, in frames
  hypothesis,  \* frames partial_text stands for
  finalizing,  \* turn_finalizing
  task,        \* the assistant task: kind, frames, and whether it has begun
  handed,      \* history: frames handed over to a turn of this session
  reason,      \* history: why the last turn was ended
  quiet,       \* history: silent frames since the last voiced one
  skipped,     \* history: a task was cancelled before its first step
  resumed      \* history: the session was resumed during a spoken turn

detector == <<active, voiced, silence>>
buffer   == <<last, audio, detector, partialAt>>
history  == <<handed, reason, quiet, skipped, resumed>>
vars     == <<started, online, paused, buffer, partial, hypothesis, finalizing, task, history>>

Init ==
  /\ started = FALSE /\ online = TRUE /\ paused = FALSE
  /\ last = 0 /\ audio = {}
  /\ active = FALSE /\ voiced = 0 /\ silence = 0
  /\ partial = None /\ partialAt = 0 /\ hypothesis = {}
  /\ finalizing = FALSE /\ task = None
  /\ handed = {} /\ reason = "none" /\ quiet = 0
  /\ skipped = FALSE /\ resumed = FALSE

Task(kind, frames) == [kind |-> kind, frames |-> frames, begun |-> FALSE]

Spoken == task # None /\ task.kind = "audio"

\* What cancel_assistant_task leaves of turn_finalizing and partial_text: the
\* "finally" of a spoken turn that has begun resets both.
Cleared(flag) == flag /\ ~(Spoken /\ task.begun)

CancelTask ==
  /\ hypothesis' = IF Spoken /\ task.begun THEN {} ELSE hypothesis
  /\ skipped' = (skipped \/ (Spoken /\ ~task.begun))

VadReset == active' = FALSE /\ voiced' = 0 /\ silence' = 0

-----------------------------------------------------------------------------
(***************************************************************************)
(* vad.py                                                                  *)
(***************************************************************************)

\* Mutant: a voiced frame does not end a pause within the turn.
SilenceKept(v) == IF v THEN silence ELSE silence + 1

SilenceAfter(v) == IF v THEN 0 ELSE silence + 1

VoicedAfter(v) == IF v THEN voiced + 1 ELSE 0

VadStarts(v) == ~active /\ VoicedAfter(v) >= StartFrames
VadEnds(v)   == active /\ SilenceAfter(v) >= SilenceFrames

\* process: a turn starts after enough voiced frames in a row and ends after
\* enough silent ones in a row.
VadProcess(v) ==
  /\ active' = ((active \/ VadStarts(v)) /\ ~VadEnds(v))
  /\ voiced' = IF VadEnds(v) THEN 0 ELSE IF active THEN voiced ELSE VoicedAfter(v)
  /\ silence' = IF active /\ ~VadEnds(v) THEN SilenceAfter(v) ELSE 0

-----------------------------------------------------------------------------
(***************************************************************************)
(* Frames and turns                                                        *)
(***************************************************************************)

\* Mutant: the partial task goes on.
PartialKept == partial

\* cancel_partial_task.
PartialCancelled == None

\* Mutant: the buffer is copied and not cleared.
BufferKept(frames) == frames

BufferTaken(frames) == {}

\* finalize_audio_turn with the frames of the buffer: the partial task and
\* the assistant task are cancelled, a new assistant task gets the frames.
Finalize(frames, why) ==
  /\ finalizing' = Cleared(TRUE)
  /\ partial' = PartialCancelled
  /\ audio' = BufferTaken(frames)
  /\ VadReset
  /\ partialAt' = 0
  /\ CancelTask
  /\ task' = Task("audio", frames)
  /\ handed' = handed \cup frames
  /\ reason' = why
  /\ UNCHANGED <<started, online, paused, resumed>>

Listening == started /\ online /\ ~paused

\* The next frame in order, captured later than the last one.
Acceptable(n) == n = last + 1

\* A frame that is stored: the detector may start the turn, a partial
\* transcript may be due, and the detector may end the turn, which does
\* nothing while the turn before is being finalized.
Frame(n, v) ==
  LET frames == audio \cup {n} IN
  /\ Listening /\ Acceptable(n)
  /\ Cardinality(frames) <= MaxTurn
  /\ last' = n
  /\ quiet' = IF v THEN 0 ELSE IF quiet < SilenceFrames THEN quiet + 1 ELSE quiet
  /\ IF VadEnds(v) /\ ~finalizing
       THEN Finalize(frames, "server_vad")
       ELSE /\ audio' = frames
            /\ VadProcess(v)
            /\ IF active' /\ Cardinality(frames) - partialAt >= PartialInterval /\ partial = None
                 THEN partialAt' = Cardinality(frames) /\ partial' = frames
                 ELSE UNCHANGED <<partialAt, partial>>
            /\ UNCHANGED <<started, online, paused, hypothesis, finalizing, task,
                           handed, reason, skipped, resumed>>

\* A frame for which the buffer has no room is dropped, and the turn ended.
FrameOverflows(n) ==
  /\ Listening /\ Acceptable(n)
  /\ Cardinality(audio) >= MaxTurn
  /\ last' = n
  /\ IF finalizing
       THEN UNCHANGED <<started, online, paused, audio, detector, partialAt, partial,
                        hypothesis, finalizing, task, history>>
       ELSE Finalize(audio, "maximum_duration") /\ UNCHANGED quiet

\* A gap in the numbers or in the time of capture stops the input.
FrameGap ==
  /\ Listening
  /\ paused' = TRUE
  /\ UNCHANGED <<started, online, buffer, partial, hypothesis, finalizing, task, history>>

\* turn.audio_end.
AudioEnd ==
  /\ started /\ online
  /\ ~finalizing /\ audio # {}
  /\ Finalize(audio, "manual")
  /\ UNCHANGED <<last, quiet>>

-----------------------------------------------------------------------------
(***************************************************************************)
(* Tasks                                                                   *)
(***************************************************************************)

\* emit_partial_transcript: the text came while no turn was being finalized.
PartialTranscript ==
  /\ partial # None
  /\ hypothesis' = IF finalizing THEN hypothesis ELSE partial
  /\ partial' = None
  /\ UNCHANGED <<started, online, paused, buffer, finalizing, task, history>>

PartialFails ==
  /\ partial # None
  /\ partial' = None
  /\ UNCHANGED <<started, online, paused, buffer, hypothesis, finalizing, task, history>>

TaskBegins ==
  /\ task # None /\ ~task.begun
  /\ task' = [task EXCEPT !.begun = TRUE]
  /\ UNCHANGED <<started, online, paused, buffer, partial, hypothesis, finalizing, history>>

\* Mutant: process_audio_turn has no "finally".
FinalizingKept == finalizing

FinalizingReset == Cleared(finalizing)

TaskEnds ==
  /\ task # None /\ task.begun
  /\ finalizing' = FinalizingReset
  /\ hypothesis' = IF Spoken THEN {} ELSE hypothesis
  /\ task' = None
  /\ UNCHANGED <<started, online, paused, buffer, partial, history>>

-----------------------------------------------------------------------------
(***************************************************************************)
(* Other messages                                                          *)
(***************************************************************************)

\* session.start makes a new detector.  It is also accepted in a session,
\* whose buffer and tasks then go on in the new conversation.
StartSession ==
  /\ online
  /\ started' = TRUE
  /\ VadReset
  /\ UNCHANGED <<online, paused, last, audio, partialAt, partial, hypothesis, finalizing,
                 task, history>>

\* turn.text and assistant.audio.retry replace the task, assistant.interrupt
\* cancels it.
Replace(new) ==
  /\ started /\ online
  /\ finalizing' = Cleared(finalizing)
  /\ CancelTask
  /\ task' = new
  /\ UNCHANGED <<started, online, paused, buffer, partial, handed, reason, quiet, resumed>>

TextTurn  == Replace(Task("text", {}))
Interrupt == task # None /\ Replace(None)

MicrophonePause ==
  /\ started /\ online
  /\ paused' = TRUE
  /\ audio' = {}
  /\ VadReset
  /\ UNCHANGED <<started, online, last, partialAt, partial, hypothesis, finalizing, task, history>>

MicrophoneResume ==
  /\ started /\ online /\ paused
  /\ paused' = FALSE
  /\ UNCHANGED <<started, online, buffer, partial, hypothesis, finalizing, task, history>>

\* session.end: frames are numbered anew.
EndSession ==
  /\ started /\ online
  /\ started' = FALSE
  /\ last' = 0 /\ audio' = {} /\ partialAt' = 0
  /\ VadReset
  /\ finalizing' = Cleared(finalizing)
  /\ hypothesis' = {}
  /\ skipped' = (skipped \/ (Spoken /\ ~task.begun))
  /\ task' = None
  /\ handed' = {} /\ quiet' = 0
  /\ UNCHANGED <<online, paused, partial, reason, resumed>>

\* The connection is lost: the partial task is cancelled, the assistant task
\* goes on.
Disconnect ==
  /\ started /\ online
  /\ online' = FALSE /\ paused' = TRUE
  /\ partial' = PartialCancelled
  /\ UNCHANGED <<started, buffer, hypothesis, finalizing, task, history>>

\* session.resume: input that was not finalized is discarded.
ResumeSession ==
  /\ started /\ ~online
  /\ online' = TRUE /\ paused' = FALSE
  /\ audio' = {} /\ partialAt' = 0
  /\ VadReset
  /\ finalizing' = FALSE
  /\ resumed' = (resumed \/ Spoken)
  /\ UNCHANGED <<started, last, partial, hypothesis, task, handed, reason, quiet, skipped>>

Next ==
  \/ \E n \in 1..MaxFrames, v \in BOOLEAN : Frame(n, v)
  \/ \E n \in 1..MaxFrames : FrameOverflows(n)
  \/ FrameGap
  \/ AudioEnd
  \/ PartialTranscript
  \/ PartialFails
  \/ TaskBegins
  \/ TaskEnds
  \/ StartSession
  \/ TextTurn
  \/ Interrupt
  \/ MicrophonePause
  \/ MicrophoneResume
  \/ EndSession
  \/ Disconnect
  \/ ResumeSession

Spec == Init /\ [][Next]_vars

-----------------------------------------------------------------------------
(***************************************************************************)
(* Properties                                                              *)
(***************************************************************************)

Interval(S) == \A m, n \in S : m..n \subseteq S

\* Speech is neither torn nor used twice: the buffer is an unbroken run of
\* frames that come after all those already handed over, whatever the ends
\* of turns, overflows, pauses and reconnects in between.
SpeechIsWhole ==
  /\ Interval(audio)
  /\ \A m \in handed, n \in audio : m < n
  /\ Cardinality(audio) <= MaxTurn
  /\ Spoken => Interval(task.frames)

\* A partial transcript is never shown for a turn whose final transcript was
\* already asked for.
NoStalePartial ==
  [][hypothesis' # hypothesis /\ hypothesis' # {} => hypothesis' \cap handed = {}]_vars

\* turn_finalizing is set exactly while a spoken turn is in the assistant
\* task, so that the next one neither cancels it nor waits for ever.  The
\* exceptions are a task cancelled before its first step, which leaves the
\* flag set, and a session resumed during a spoken turn, which clears it.
FinalizingFollowsTask ==
  ~skipped /\ ~resumed => (finalizing <=> Spoken)

\* A pause within a sentence does not end the turn: the detector ends one
\* only after SilenceFrames silent frames without a voiced one in between.
ShortPauseKeepsTurn ==
  [][handed' \ handed # {} /\ reason' = "server_vad" => quiet' >= SilenceFrames]_vars
=============================================================================
