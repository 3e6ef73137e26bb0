-------------------------- MODULE VoiceInputProofs --------------------------
(***************************************************************************)
(* Proofs about VoiceInput for all thresholds of the detector, all sizes   *)
(* of a turn and sessions of any length.                                   *)
(***************************************************************************)
EXTENDS VoiceInput, FiniteSetTheorems, TLAPS

\* The values the handler keeps of a session.
TypeOK ==
  /\ last \in Nat
  /\ audio \in SUBSET (1..MaxFrames)
  /\ active \in BOOLEAN /\ voiced \in Nat /\ silence \in Nat /\ quiet \in Nat
  /\ finalizing \in BOOLEAN /\ skipped \in BOOLEAN /\ resumed \in BOOLEAN
  /\ task \in Tasks \cup {None}

\* Frames are stored and handed over in the order of their numbers: a new one
\* follows the last of the buffer, unless the buffer is full and takes none.
InOrder ==
  /\ audio \subseteq 1..last /\ handed \subseteq 1..last
  /\ audio = {} \/ last \in audio \/ Cardinality(audio) >= MaxTurn

\* The partial task transcribes nothing that was handed over.
PartialIsNew == partial # None => partial \cap handed = {}

\* The silence the detector counts is really there.
SilenceIsQuiet == silence <= quiet \/ quiet >= SilenceFrames

Inv == TypeOK /\ InOrder /\ SpeechIsWhole /\ PartialIsNew /\ SilenceIsQuiet /\ FinalizingFollowsTask
-----------------------------------------------------------------------------
\* The task a request of the handler starts.
LEMMA NewTask ==
  ASSUME NEW kind \in {"audio", "text"}, NEW frames \in SUBSET (1..MaxFrames)
  PROVE  /\ Task(kind, frames) \in Tasks /\ Task(kind, frames) # None
         /\ Task(kind, frames).kind = kind /\ Task(kind, frames).frames = frames
<1>1. Task(kind, frames) = [kind |-> kind, frames |-> frames, begun |-> FALSE]
  BY DEF Task
<1>2. Task(kind, frames) \in Tasks
  BY <1>1 DEF Tasks
<1>3. Task(kind, frames) # None
  BY <1>2, ConstantsAssumption
<1>4. Task(kind, frames).kind = kind /\ Task(kind, frames).frames = frames
  BY <1>1
<1> QED
  BY <1>2, <1>3, <1>4

\* Sets of frames are finite.
LEMMA FramesFinite ==
  ASSUME NEW S \in SUBSET (1..MaxFrames)
  PROVE  IsFiniteSet(S) /\ Cardinality(S) \in Nat
<1>1. IsFiniteSet(1..MaxFrames)
  BY ConstantsAssumption, FS_Interval
<1> QED
  BY <1>1, FS_Subset, FS_CardinalityType

\* A frame that is stored continues the buffer.
LEMMA FrameContinues ==
  ASSUME Inv, NEW n \in 1..MaxFrames, Acceptable(n), Cardinality(audio \cup {n}) <= MaxTurn
  PROVE  /\ n = last + 1 /\ audio \cup {n} \in SUBSET (1..MaxFrames)
         /\ audio \cup {n} \subseteq 1..n /\ handed \subseteq 1..last
         /\ Interval(audio \cup {n})
         /\ \A m \in handed, k \in audio \cup {n} : m < k
<1> USE DEF Inv, TypeOK, InOrder, SpeechIsWhole
<1>1. n = last + 1 /\ n \notin audio
  BY DEF Acceptable
<1>2. Cardinality(audio \cup {n}) = Cardinality(audio) + 1
  BY <1>1, FramesFinite, FS_AddElement
<1>3. audio = {} \/ last \in audio
  BY <1>2, FramesFinite, ConstantsAssumption
<1>4. Interval(audio \cup {n})
  <2> SUFFICES ASSUME NEW a \in audio \cup {n}, NEW b \in audio \cup {n}, NEW c \in a..b
               PROVE  c \in audio \cup {n}
    BY DEF Interval
  <2>1. CASE b \in audio
    BY <1>1, <2>1 DEF Interval
  <2>2. CASE b = n /\ a = n
    BY <2>2
  <2>3. CASE b = n /\ a \in audio
    BY <1>1, <1>3, <2>3 DEF Interval
  <2> QED
    BY <2>1, <2>2, <2>3
<1>5. audio \cup {n} \subseteq 1..n /\ audio \cup {n} \in SUBSET (1..MaxFrames)
  BY <1>1
<1>6. \A m \in handed, k \in audio \cup {n} : m < k
  <2> SUFFICES ASSUME NEW m \in handed, NEW k \in audio \cup {n}
               PROVE  m < k
    OBVIOUS
  <2>1. CASE k \in audio
    BY <2>1
  <2>2. CASE k = n
    BY <1>1, <2>2
  <2> QED
    BY <2>1, <2>2
<1> QED
  BY <1>1, <1>4, <1>5, <1>6

\* The end of a spoken turn while no other is being finalized.
LEMMA FinalizeStep ==
  ASSUME Inv, NEW frames \in SUBSET (1..MaxFrames), NEW why, Finalize(frames, why), ~finalizing,
         Interval(frames), last' \in Nat, last <= last', frames \subseteq 1..last', quiet' \in Nat
  PROVE  Inv'
<1>1. /\ task' = Task("audio", frames) /\ finalizing' = Cleared(TRUE)
      /\ audio' = {} /\ partial' = None
      /\ active' = FALSE /\ voiced' = 0 /\ silence' = 0 /\ handed' = handed \cup frames
      /\ skipped' = (skipped \/ (Spoken /\ ~task.begun)) /\ resumed' = resumed
  BY DEF Finalize, VadReset, CancelTask, BufferTaken, PartialCancelled
<1>2. /\ task' \in Tasks /\ task' # None /\ task'.kind = "audio" /\ task'.frames = frames
  BY <1>1, NewTask
<1>3. TypeOK'
  BY <1>1, <1>2 DEF Inv, TypeOK, Cleared, Spoken, Tasks
<1>4. InOrder' /\ PartialIsNew' /\ SilenceIsQuiet'
  <2>1. handed' \subseteq 1..last'
    BY <1>1 DEF Inv, TypeOK, InOrder
  <2>2. InOrder'
    BY <1>1, <2>1 DEF InOrder
  <2> QED
    BY <1>1, <2>2 DEF PartialIsNew, SilenceIsQuiet
<1>5. SpeechIsWhole'
  <2>1. Interval(audio') /\ Cardinality(audio') <= MaxTurn
    BY <1>1, FS_EmptySet, ConstantsAssumption DEF Interval
  <2>2. Interval(task'.frames)
    BY <1>2
  <2> QED
    BY <1>1, <2>1, <2>2 DEF SpeechIsWhole
<1>6. FinalizingFollowsTask'
  BY <1>1, <1>2 DEF Inv, FinalizingFollowsTask, Cleared, Spoken
<1> QED
  BY <1>3, <1>4, <1>5, <1>6 DEF Inv

\* A frame that is stored.
LEMMA FrameStep ==
  ASSUME Inv, NEW n \in 1..MaxFrames, NEW v \in BOOLEAN, Frame(n, v)
  PROVE  Inv'
<1> DEFINE frames == audio \cup {n}
<1>1. /\ n = last + 1 /\ frames \in SUBSET (1..MaxFrames) /\ frames \subseteq 1..n
      /\ handed \subseteq 1..last /\ Interval(frames)
      /\ \A m \in handed, k \in frames : m < k
  BY FrameContinues DEF Frame
<1>2. /\ last' = n /\ Cardinality(frames) <= MaxTurn /\ last \in Nat /\ n \in Nat
      /\ quiet' = IF v THEN 0 ELSE IF quiet < SilenceFrames THEN quiet + 1 ELSE quiet
      /\ quiet' \in Nat
  BY DEF Frame, Inv, TypeOK
<1>3. CASE VadEnds(v) /\ ~finalizing
  <2>1. Finalize(frames, "server_vad")
    BY <1>3 DEF Frame
  <2> HIDE DEF frames
  <2> QED
    BY <1>1, <1>2, <1>3, <2>1, FinalizeStep
<1>4. CASE ~(VadEnds(v) /\ ~finalizing)
  <2>1. /\ audio' = frames /\ VadProcess(v) /\ partial' \in {partial, frames}
        /\ UNCHANGED <<finalizing, task, handed, skipped, resumed>>
    BY <1>4 DEF Frame
  <2>2. active' \in BOOLEAN /\ voiced' \in Nat /\ silence' \in Nat /\ SilenceIsQuiet'
    BY <1>2, <2>1, ConstantsAssumption
       DEF Inv, TypeOK, SilenceIsQuiet, VadProcess, VadStarts, VadEnds, SilenceAfter, VoicedAfter
  <2>3. n \in frames
    OBVIOUS
  <2> HIDE DEF frames
  <2>4. TypeOK' /\ InOrder'
    BY <1>1, <1>2, <2>1, <2>2, <2>3 DEF Inv, TypeOK, InOrder
  <2>5. SpeechIsWhole' /\ FinalizingFollowsTask'
    BY <1>1, <1>2, <2>1 DEF Inv, SpeechIsWhole, FinalizingFollowsTask, Spoken
  <2>6. frames \cap handed = {}
    <3>1. \A k \in frames : k \in Nat
      BY <1>1
    <3> QED
      BY <1>1, <3>1
  <2>7. PartialIsNew'
    BY <2>1, <2>6 DEF Inv, PartialIsNew
  <2> QED
    BY <2>2, <2>4, <2>5, <2>7 DEF Inv
<1> QED
  BY <1>3, <1>4

\* The other two ends of a turn.
LEMMA EndOfTurnStep ==
  ASSUME Inv, AudioEnd \/ \E n \in 1..MaxFrames : FrameOverflows(n)
  PROVE  Inv'
<1> USE DEF Inv, TypeOK, InOrder, SpeechIsWhole
<1>1. CASE AudioEnd
  <2>1. Finalize(audio, "manual") /\ ~finalizing /\ last' = last /\ quiet' = quiet
    BY <1>1 DEF AudioEnd
  <2> QED
    BY <2>1, FinalizeStep
<1>2. ASSUME NEW n \in 1..MaxFrames, FrameOverflows(n)
      PROVE  Inv'
  <2>1. last' = n /\ n = last + 1 /\ Cardinality(audio) >= MaxTurn
    BY <1>2 DEF FrameOverflows, Acceptable
  <2>2. CASE finalizing
    <3>1. UNCHANGED <<audio, detector, partial, finalizing, task, history>>
      BY <1>2, <2>2 DEF FrameOverflows
    <3> QED
      BY <2>1, <3>1
         DEF detector, history, PartialIsNew, SilenceIsQuiet, FinalizingFollowsTask,
             Spoken
  <2>3. CASE ~finalizing
    <3>1. Finalize(audio, "maximum_duration") /\ quiet' = quiet
      BY <1>2, <2>3 DEF FrameOverflows
    <3> QED
      BY <2>1, <2>3, <3>1, FinalizeStep
  <2> QED
    BY <2>2, <2>3
<1> QED
  BY <1>1, <1>2

\* A step that leaves the frames alone.
LEMMA SameFrames ==
  ASSUME Inv, UNCHANGED <<last, audio, handed>>, partial' \in {partial, None}
  PROVE  InOrder' /\ PartialIsNew' /\ (task' = task \/ ~Spoken' => SpeechIsWhole')
<1>1. InOrder'
  BY DEF Inv, InOrder
<1>2. PartialIsNew'
  BY DEF Inv, PartialIsNew
<1>3. task' = task \/ ~Spoken' => SpeechIsWhole'
  BY DEF Inv, SpeechIsWhole, Spoken
<1> QED
  BY <1>1, <1>2, <1>3

\* The steps of the tasks.
LEMMA TaskStep ==
  ASSUME Inv, PartialTranscript \/ PartialFails \/ TaskBegins \/ TaskEnds
  PROVE  Inv'
<1> USE DEF buffer, detector, history
<1>1. CASE PartialTranscript \/ PartialFails
  <2>1. /\ UNCHANGED <<last, audio, handed, active, voiced, silence, quiet, finalizing, skipped,
                       resumed, task>>
        /\ partial' = None
    BY <1>1 DEF PartialTranscript, PartialFails
  <2>2. TypeOK' /\ SilenceIsQuiet' /\ FinalizingFollowsTask'
    BY <2>1 DEF Inv, TypeOK, SilenceIsQuiet, FinalizingFollowsTask, Spoken
  <2> QED
    BY <2>1, <2>2, SameFrames DEF Inv
<1>2. CASE TaskBegins
  <2>1. /\ task \in Tasks /\ task' = [task EXCEPT !.begun = TRUE]
        /\ UNCHANGED <<last, audio, active, voiced, silence, partial, finalizing, handed, quiet,
                       skipped, resumed>>
    BY <1>2 DEF TaskBegins, Inv, TypeOK
  <2>2. /\ task' \in Tasks /\ task # None /\ task' # None /\ task'.kind = task.kind
        /\ task'.frames = task.frames
    BY <2>1, ConstantsAssumption DEF Tasks
  <2> QED
    BY <2>1, <2>2 DEF Inv, TypeOK, InOrder, SpeechIsWhole, PartialIsNew,
                      SilenceIsQuiet, FinalizingFollowsTask, Spoken
<1>3. CASE TaskEnds
  BY <1>3 DEF TaskEnds, FinalizingReset, Cleared, Inv, TypeOK, InOrder, SpeechIsWhole, PartialIsNew,
              SilenceIsQuiet, FinalizingFollowsTask, Spoken, Tasks
<1> QED
  BY <1>1, <1>2, <1>3

\* The other messages.
LEMMA MessageStep ==
  ASSUME Inv,
         \/ FrameGap \/ StartSession \/ TextTurn \/ Interrupt \/ MicrophonePause
         \/ MicrophoneResume \/ EndSession \/ Disconnect \/ ResumeSession
  PROVE  Inv'
<1> USE DEF buffer, detector, history, VadReset
<1>1. CASE FrameGap \/ MicrophoneResume \/ StartSession \/ Disconnect
  <2>1. /\ UNCHANGED <<last, audio, handed, quiet, finalizing, skipped, resumed, task>>
        /\ partial' \in {partial, None}
        /\ \/ active' = FALSE /\ voiced' = 0 /\ silence' = 0
           \/ UNCHANGED <<active, voiced, silence>>
    BY <1>1 DEF FrameGap, MicrophoneResume, StartSession, Disconnect, PartialCancelled
  <2>2. active' \in BOOLEAN
    BY <2>1, Zenon DEF Inv, TypeOK
  <2>3. TypeOK'
    BY <2>1, <2>2 DEF Inv, TypeOK
  <2>4. SilenceIsQuiet' /\ FinalizingFollowsTask'
    BY <2>1 DEF Inv, TypeOK, SilenceIsQuiet, FinalizingFollowsTask, Spoken
  <2> QED
    BY <2>1, <2>3, <2>4, SameFrames DEF Inv
<1>2. CASE TextTurn \/ Interrupt
  <2>1. /\ finalizing' = Cleared(finalizing) /\ CancelTask
        /\ task' \in {None, Task("text", {})}
        /\ UNCHANGED <<last, audio, active, voiced, silence, partial, handed, quiet, resumed>>
    BY <1>2 DEF TextTurn, Interrupt, Replace
  <2>2. task' \in Tasks \cup {None} /\ (task' # None => task'.kind = "text")
    BY <2>1, NewTask
  <2>3. TypeOK' /\ InOrder' /\ PartialIsNew' /\ SilenceIsQuiet'
    BY <2>1, <2>2
       DEF Inv, TypeOK, InOrder, PartialIsNew, SilenceIsQuiet, CancelTask, Cleared, Spoken,
           Tasks
  <2>4. SpeechIsWhole' /\ FinalizingFollowsTask'
    BY <2>1, <2>2 DEF Inv, SpeechIsWhole, FinalizingFollowsTask, CancelTask, Cleared, Spoken
  <2> QED
    BY <2>3, <2>4 DEF Inv
<1>3. CASE MicrophonePause \/ ResumeSession \/ EndSession
  <2>1. audio' = {} /\ silence' = 0 /\ active' = FALSE /\ voiced' = 0 /\ partial' = partial
    BY <1>3 DEF MicrophonePause, ResumeSession, EndSession
  <2>2. \/ UNCHANGED <<last, handed, quiet>>
        \/ last' = 0 /\ handed' = {} /\ quiet' = 0
    BY <1>3 DEF MicrophonePause, ResumeSession, EndSession
  <2>3. TypeOK'
    <3>1. /\ finalizing' \in BOOLEAN /\ skipped' \in BOOLEAN /\ resumed' \in BOOLEAN
          /\ task' \in Tasks \cup {None}
      BY <1>3 DEF MicrophonePause, ResumeSession, EndSession, Cleared, Inv, TypeOK
    <3>2. active' \in BOOLEAN
      BY <2>1, Zenon
    <3> QED
      BY <2>1, <2>2, <3>1, <3>2 DEF Inv, TypeOK
  <2>4. InOrder' /\ SilenceIsQuiet' /\ PartialIsNew'
    <3>1. handed' \subseteq 1..last'
      BY <2>2 DEF Inv, InOrder
    <3>2. InOrder'
      BY <2>1, <3>1 DEF InOrder
    <3>3. SilenceIsQuiet'
      BY <2>1, <2>2 DEF Inv, TypeOK, SilenceIsQuiet
    <3>4. PartialIsNew'
      BY <2>1, <2>2 DEF Inv, PartialIsNew
    <3> QED
      BY <3>2, <3>3, <3>4
  <2>5. SpeechIsWhole'
    BY <1>3, <2>1, FS_EmptySet, ConstantsAssumption
       DEF MicrophonePause, ResumeSession, EndSession, Inv, SpeechIsWhole, Interval, Spoken
  <2>6. FinalizingFollowsTask'
    BY <1>3
       DEF MicrophonePause, ResumeSession, EndSession, Inv, FinalizingFollowsTask, Cleared,
           Spoken
  <2> QED
    BY <2>3, <2>4, <2>5, <2>6 DEF Inv
<1> QED
  BY <1>1, <1>2, <1>3

LEMMA Invariance == Spec => []Inv
<1>1. Init => Inv
  <2> SUFFICES ASSUME Init
               PROVE  Inv
    OBVIOUS
  <2>1. active \in BOOLEAN /\ finalizing \in BOOLEAN /\ skipped \in BOOLEAN /\ resumed \in BOOLEAN
    BY Zenon DEF Init
  <2>2. TypeOK /\ SilenceIsQuiet /\ FinalizingFollowsTask
    BY <2>1 DEF Init, TypeOK, SilenceIsQuiet, FinalizingFollowsTask, Spoken
  <2>3. InOrder /\ PartialIsNew
    BY DEF Init, InOrder, PartialIsNew
  <2>4. SpeechIsWhole
    BY FS_EmptySet, ConstantsAssumption DEF Init, SpeechIsWhole, Interval, Spoken
  <2> QED
    BY <2>2, <2>3, <2>4 DEF Inv
<1>2. Inv /\ [Next]_vars => Inv'
  <2> SUFFICES ASSUME Inv, [Next]_vars
               PROVE  Inv'
    OBVIOUS
  <2>1. CASE UNCHANGED vars
    BY <2>1 DEF vars, buffer, detector, history, Inv, TypeOK, InOrder, SpeechIsWhole, PartialIsNew,
                SilenceIsQuiet, FinalizingFollowsTask, Spoken
  <2> QED
    BY <2>1, FrameStep, EndOfTurnStep, TaskStep, MessageStep DEF Next
<1> QED
  BY <1>1, <1>2, PTL DEF Spec

-----------------------------------------------------------------------------
(***************************************************************************)
(* The properties                                                          *)
(***************************************************************************)

\* The buffer is an unbroken run of frames later than all those handed over.
THEOREM WholeSpeech == Spec => []SpeechIsWhole
<1>1. Inv => SpeechIsWhole
  BY DEF Inv
<1> QED
  BY <1>1, Invariance, PTL

\* turn_finalizing is set exactly while a spoken turn is in the assistant task.
THEOREM FinalizingIsSpoken == Spec => []FinalizingFollowsTask
<1>1. Inv => FinalizingFollowsTask
  BY DEF Inv
<1> QED
  BY <1>1, Invariance, PTL

\* No partial transcript of frames that were handed over is shown.
THEOREM PartialIsNotStale == Spec => NoStalePartial
<1> DEFINE Shown == hypothesis' # hypothesis /\ hypothesis' # {} => hypothesis' \cap handed = {}
<1>1. Inv /\ [Next]_vars => [Shown]_vars
  <2> SUFFICES ASSUME Inv, Next
               PROVE  Shown
    OBVIOUS
  <2>1. CASE PartialTranscript
    BY <2>1 DEF PartialTranscript, Inv, PartialIsNew
  <2>2. ASSUME hypothesis' \in {hypothesis, {}}
        PROVE  Shown
    BY <2>2
  <2>3. ASSUME NEW frames, NEW why, Finalize(frames, why)
        PROVE  hypothesis' \in {hypothesis, {}}
    BY <2>3 DEF Finalize, CancelTask
  <2>4. ASSUME NEW n \in 1..MaxFrames, NEW v \in BOOLEAN, Frame(n, v) \/ FrameOverflows(n)
        PROVE  hypothesis' \in {hypothesis, {}}
    BY <2>3, <2>4 DEF Frame, FrameOverflows
  <2>5. CASE AudioEnd
    BY <2>2, <2>3, <2>5 DEF AudioEnd
  <2>6. CASE \/ FrameGap \/ PartialFails \/ TaskBegins \/ TaskEnds \/ StartSession \/ TextTurn
             \/ Interrupt \/ MicrophonePause \/ MicrophoneResume \/ EndSession \/ Disconnect
             \/ ResumeSession
    BY <2>6 DEF FrameGap, PartialFails, TaskBegins, TaskEnds, StartSession, TextTurn, Interrupt,
       Replace, CancelTask, MicrophonePause, MicrophoneResume, EndSession, Disconnect, ResumeSession
  <2> QED
    BY <2>1, <2>2, <2>4, <2>5, <2>6 DEF Next
<1> QED
  BY <1>1, Invariance, PTL DEF Spec, NoStalePartial

\* The detector ends a turn only after SilenceFrames silent frames in a row.
THEOREM PauseKeepsTurn == Spec => ShortPauseKeepsTurn
<1> DEFINE Kept == handed' \ handed # {} /\ reason' = "server_vad" => quiet' >= SilenceFrames
<1>1. Inv /\ [Next]_vars => [Kept]_vars
  <2> SUFFICES ASSUME Inv, Next
               PROVE  Kept
    OBVIOUS
  <2>1. ASSUME NEW n \in 1..MaxFrames, NEW v \in BOOLEAN, Frame(n, v)
        PROVE  Kept
    <3>1. CASE VadEnds(v) /\ ~finalizing
      <4>1. ~v /\ silence + 1 >= SilenceFrames
        BY <3>1, ConstantsAssumption DEF VadEnds, SilenceAfter
      <4>2. quiet' = IF quiet < SilenceFrames THEN quiet + 1 ELSE quiet
        BY <2>1, <4>1 DEF Frame
      <4> QED
        BY <4>1, <4>2, ConstantsAssumption DEF Inv, TypeOK, SilenceIsQuiet
    <3>2. CASE ~(VadEnds(v) /\ ~finalizing)
      BY <2>1, <3>2 DEF Frame
    <3> QED
      BY <3>1, <3>2
  <2>2. ASSUME NEW n \in 1..MaxFrames, FrameOverflows(n)
        PROVE  Kept
    BY <2>2 DEF FrameOverflows, Finalize, history
  <2>3. CASE AudioEnd
    BY <2>3 DEF AudioEnd, Finalize
  <2>4. CASE \/ PartialTranscript
             \/ FrameGap \/ PartialFails \/ TaskBegins \/ TaskEnds \/ StartSession \/ TextTurn
             \/ Interrupt \/ MicrophonePause \/ MicrophoneResume \/ EndSession \/ Disconnect
             \/ ResumeSession
    <3>1. handed' \in {handed, {}}
      BY <2>4 DEF PartialTranscript, FrameGap, PartialFails, TaskBegins, TaskEnds, StartSession,
         TextTurn, Interrupt, Replace, MicrophonePause, MicrophoneResume, EndSession, Disconnect,
         ResumeSession, history
    <3> QED
      BY <3>1
  <2> QED
    BY <2>1, <2>2, <2>3, <2>4 DEF Next
<1> QED
  BY <1>1, Invariance, PTL DEF Spec, ShortPauseKeepsTurn
=============================================================================
