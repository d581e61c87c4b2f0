------------------------------- MODULE Recorder -------------------------------
(***************************************************************************)
(* Recording a boo: RecordActivity (the record button, the countdown, the  *)
(* back key), BooRecorder (one recorder thread per recording, statistics), *)
(* FLACRecorder (the thread that reads the microphone and writes to the    *)
(* encoder).  BooRecorder's handler and the activity's run on the main     *)
(* thread and share its message queue; stop() blocks that thread until the *)
(* recorder has ended.                                                     *)
(*                                                                         *)
(* Time is counted in the chunks AudioRecord delivers, Second of them to a *)
(* second.  Of Amplitudes only the position is kept.  Leaving and resuming *)
(* the activity (onResume makes a new BooRecorder) and publishing are left *)
(* out.                                                                    *)
(***************************************************************************)
EXTENDS Integers, Sequences

CONSTANTS
  Second,      \* the chunks of a second
  Limit,       \* mRecordingTimeLimit, in seconds
  MaxClicks,   \* bound: clicks and back keys
  MaxChunks,   \* bound: chunks the microphone delivers to one recorder
  MaxFailures  \* bound: failures of the microphone, the encoder, a write

ASSUME RecorderAssumption ==
  /\ Second \in Nat \ {0} /\ Limit \in Nat \ {0} /\ MaxClicks \in Nat
  /\ MaxChunks \in Nat /\ MaxFailures \in Nat

VARIABLES
  \* RecordActivity
  checked,          \* the record button is down
  enabled,          \* the record button takes clicks
  dialog,           \* the draft dialog is shown
  open,             \* the activity was not finished
  counting,         \* countdowns under way
  mRecordingOffset,
  \* the main thread
  messages,         \* its queue
  mpc,              \* "idle", or where it waits for the recorder
  \* BooRecorder and the recordings of the boo
  durations,        \* mDuration of every recording
  mRecording,       \* index of the current one, 0 for null
  mRecorder,        \* there is a recorder
  mAmplitudes, mLastAmplitudes,  \* their positions, -1 for null
  aliased,          \* both are the same object
  \* FLACRecorder
  thread,
  \* history
  reported,         \* the position last reported for every recording
  captured,         \* the chunks in the file of every recording
  heard,            \* the current recorder's amplitudes have been handled
  hasty,            \* it began before the END of the last was handled
  odd,              \* the recordings one of which was hasty, or not heard
  behind,           \* a position shown was less than what was recorded
  clicks, failures

uiVars == <<checked, enabled, dialog, open, counting, mRecordingOffset>>
statVars == <<durations, mRecording, mAmplitudes, mLastAmplitudes, aliased>>
vars == <<checked, enabled, dialog, open, counting, mRecordingOffset, messages,
          mpc, durations, mRecording, mRecorder, mAmplitudes, mLastAmplitudes,
          aliased, thread, reported, captured, heard, hasty, odd, behind,
          clicks, failures>>

\* The sum of a sequence, by its partial sums.
Sum(s) == LET f[n \in 0..Len(s)] == IF n = 0 THEN 0 ELSE f[n - 1] + s[n]
          IN f[Len(s)]
TotalDuration == Sum(durations)

\* A recorder: pc is where its run() is.  Its threads follow one another.
Threads == [pc : {"none", "new", "encoder", "loop", "caught", "ended"},
            shouldRun : BOOLEAN, shouldRecord : BOOLEAN,
            rec : Nat, position : Nat]
NoThread == [pc |-> "none", shouldRun |-> FALSE, shouldRecord |-> FALSE,
             rec |-> 0, position |-> 0]

\* Messages to BooRecorder (amp, error, ok, end) and to the activity (ampUp,
\* errorUp, okUp, endUp; start, where a countdown ends).  real: what the files
\* hold.
Msg(what) == [what |-> what, pos |-> 0, real |-> 0]
Kinds == {"amp", "error", "ok", "end", "ampUp", "errorUp", "okUp", "endUp",
          "start"}
Messages == [what : Kinds, pos : Nat, real : Nat]

Init ==
  /\ checked = FALSE /\ enabled = TRUE /\ dialog = FALSE /\ open = TRUE
  /\ counting = 0 /\ mRecordingOffset = 0
  /\ messages = <<>> /\ mpc = "idle"
  /\ durations = <<>> /\ mRecording = 0 /\ mRecorder = FALSE
  /\ mAmplitudes = -1 /\ mLastAmplitudes = -1 /\ aliased = FALSE
  /\ thread = NoThread
  /\ reported = <<>> /\ captured = <<>>
  /\ heard = FALSE /\ hasty = FALSE /\ odd = {} /\ behind = FALSE
  /\ clicks = 0 /\ failures = 0

(***************************************************************************)
(* BooRecorder.stop(): without a recorder nothing happens; else the main   *)
(* thread asks it to end and waits.  `next' says what it does then.        *)
(***************************************************************************)
Stop(next) ==
  IF mRecorder
  THEN /\ thread' = [thread EXCEPT !.shouldRecord = FALSE,
                                   !.shouldRun = FALSE]
       /\ mpc' = next
  ELSE UNCHANGED <<thread, mpc>>

\* Mutated form: the last recording is taken whatever its duration.
ReuseLastAlways == durations # <<>>

\* Boo.getLastEmptyRecording(): the last recording, if it has no duration.
ReuseLast == durations # <<>> /\ durations[Len(durations)] = 0

\* The second half of BooRecorder.start().
Begin(early) ==
  /\ IF ReuseLast
     THEN UNCHANGED <<durations, reported, captured>>
     ELSE /\ durations' = Append(durations, 0)
          /\ reported' = Append(reported, 0)
          /\ captured' = Append(captured, 0)
  /\ mRecording' = Len(durations')
  /\ mRecorder' = TRUE
  /\ heard' = FALSE /\ hasty' = early
  /\ odd' = IF early THEN odd \cup {Len(durations')} ELSE odd
  /\ thread' = [NoThread EXCEPT !.pc = "new", !.shouldRecord = TRUE,
                                !.rec = Len(durations')]

\* The recorder has ended: its END message is posted.
JoinReturns ==
  /\ mpc \in {"join", "joinStart"} /\ thread.pc = "ended"
  /\ mpc' = "idle"
  /\ messages' = Append(messages, [Msg("end") EXCEPT !.real = Sum(captured)])
  /\ IF mpc = "joinStart"
     THEN Begin(TRUE)
     ELSE /\ mRecorder' = FALSE /\ thread' = NoThread
          /\ UNCHANGED <<durations, reported, captured, mRecording, heard, hasty,
                         odd>>
  /\ UNCHANGED <<uiVars, mAmplitudes, mLastAmplitudes, aliased, behind, clicks,
                 failures>>

(***************************************************************************)
(* RecordActivity: the user.                                               *)
(***************************************************************************)
User ==
  /\ open /\ mpc = "idle"
  /\ clicks < MaxClicks /\ clicks' = clicks + 1
  /\ UNCHANGED <<mRecordingOffset, durations, mRecording, mRecorder,
                 mAmplitudes, mLastAmplitudes, aliased, reported, captured,
                 heard, hasty, odd, behind, failures>>

\* The button goes down: a countdown begins, at whose end recording starts.
ClickOn ==
  /\ User /\ enabled /\ ~dialog /\ ~checked
  /\ checked' = TRUE /\ enabled' = FALSE
  /\ counting' = counting + 1
  /\ UNCHANGED <<dialog, open, messages, thread, mpc>>

ClickOff ==
  /\ User /\ enabled /\ ~dialog /\ checked
  /\ checked' = FALSE
  /\ Stop("join")
  /\ UNCHANGED <<enabled, dialog, open, counting, messages>>

IsRecording == mRecorder /\ thread.shouldRun /\ thread.shouldRecord

\* onBackPressedManual(): unchecking the button stops the recording, if any;
\* a countdown goes on.
Back ==
  /\ User /\ ~dialog
  /\ checked' = FALSE
  /\ IF checked THEN Stop("join") ELSE UNCHANGED <<thread, mpc>>
  /\ IF TotalDuration > 0 \/ IsRecording \/ mAmplitudes > 0
     THEN dialog' = TRUE /\ UNCHANGED open
     ELSE open' = FALSE /\ UNCHANGED dialog
  /\ UNCHANGED <<enabled, counting, messages>>

\* The draft is saved or deleted, or the dialog is dismissed.
Answer ==
  /\ dialog /\ mpc = "idle"
  /\ dialog' = FALSE
  /\ open' \in BOOLEAN
  /\ UNCHANGED <<checked, enabled, counting, mRecordingOffset, messages, mpc,
                 statVars, mRecorder, thread, reported, captured, heard, hasty,
                 odd, behind, clicks, failures>>

(***************************************************************************)
(* The main thread takes the next message.                                 *)
(***************************************************************************)
Take(what) ==
  /\ mpc = "idle" /\ messages # <<>>
  /\ Head(messages).what = what

\* The last animation of a countdown is over: the main thread is told.
CountdownElapses ==
  /\ counting > 0 /\ counting' = counting - 1
  /\ messages' = Append(messages, Msg("start"))
  /\ UNCHANGED <<checked, enabled, dialog, open, mRecordingOffset, mpc, statVars,
                 mRecorder, thread, reported, captured, heard, hasty, odd,
                 behind, clicks, failures>>

\* The END of the last recorder is yet to be handled.
EndPending == \E i \in DOMAIN messages : messages[i].what = "end"

\* countDownStep(0) calls startRecording().  A recorder that still runs is
\* stopped first.
StartRecording ==
  /\ Take("start")
  /\ messages' = Tail(messages)
  /\ enabled' = TRUE
  /\ mRecordingOffset' = TotalDuration
  /\ IF mRecorder
     THEN /\ Stop("joinStart")
          /\ UNCHANGED <<durations, reported, captured, mRecording, mRecorder,
                         heard, hasty, odd>>
     ELSE Begin(EndPending) /\ UNCHANGED mpc
  /\ UNCHANGED <<checked, dialog, open, counting, mAmplitudes, mLastAmplitudes,
                 aliased, behind, clicks, failures>>

Offset == IF mAmplitudes = -1 THEN 0 ELSE mAmplitudes

\* Mutated form: the amplitudes are kept without copying them.
HandleAmpShared ==
  /\ Take("amp")
  /\ LET m == Head(messages) IN
     /\ mLastAmplitudes' = m.pos + Offset
     /\ messages' = Append(Tail(messages),
                           [m EXCEPT !.what = "ampUp", !.pos = @ + Offset])
  /\ aliased' = FALSE /\ heard' = TRUE
  /\ UNCHANGED <<uiVars, mpc, durations, mRecording, mRecorder, mAmplitudes,
                 thread, reported, captured, hasty, odd, behind, clicks,
                 failures>>

HandleAmp ==
  /\ Take("amp")
  /\ LET m == Head(messages) IN
     /\ mLastAmplitudes' = m.pos
     /\ messages' = Append(Tail(messages),
                           [m EXCEPT !.what = "ampUp", !.pos = @ + Offset])
  /\ aliased' = FALSE /\ heard' = TRUE
  /\ UNCHANGED <<uiVars, mpc, durations, mRecording, mRecorder, mAmplitudes,
                 thread, reported, captured, hasty, odd, behind, clicks,
                 failures>>

\* Mutated form: there need be no amplitudes.
StoresDurationAlways == mRecording # 0

StoresDuration == mRecording # 0 /\ mLastAmplitudes # -1

\* MSG_END_OF_RECORDING.  accumulate() changes both if they are one object.
HandleEnd ==
  /\ Take("end")
  /\ messages' = Append(Tail(messages), Msg("endUp"))
  /\ IF mAmplitudes = -1
     THEN /\ mAmplitudes' = mLastAmplitudes
          /\ aliased' = (mLastAmplitudes # -1)
          /\ UNCHANGED mLastAmplitudes
     ELSE /\ mAmplitudes' = mAmplitudes + mLastAmplitudes
          /\ mLastAmplitudes' = IF aliased THEN mAmplitudes'
                                ELSE mLastAmplitudes
          /\ UNCHANGED aliased
  /\ IF StoresDuration
     THEN /\ durations' = [durations EXCEPT ![mRecording] = mLastAmplitudes']
          /\ mRecording' = 0
     ELSE UNCHANGED <<durations, mRecording>>
  /\ odd' = IF heard THEN odd ELSE odd \cup {Len(durations)}
  /\ UNCHANGED <<uiVars, mpc, mRecorder, thread, reported, captured, heard,
                 hasty, behind, clicks, failures>>

\* Whatever else the recorder says is passed on.
Up(what) == IF what = "error" THEN "errorUp" ELSE "okUp"
HandleOther ==
  /\ Take("error") \/ Take("ok")
  /\ messages' = Append(Tail(messages), Msg(Up(Head(messages).what)))
  /\ UNCHANGED <<uiVars, mpc, statVars, mRecorder, thread, reported, captured,
                 heard, hasty, odd, behind, clicks, failures>>

\* updateRecordingState(): the position is shown in whole seconds, and recording
\* stops when the limit is reached.
HandleAmpUp ==
  /\ Take("ampUp")
  /\ messages' = Tail(messages)
  /\ LET position == (mRecordingOffset + Head(messages).pos) \div Second IN
     /\ IF position >= Limit THEN Stop("join") ELSE UNCHANGED <<thread, mpc>>
     /\ behind' = (behind \/ position < Head(messages).real \div Second)
  /\ UNCHANGED <<uiVars, statVars, mRecorder, reported, captured, heard,
                 hasty, odd, clicks, failures>>

HandleErrorUp ==
  /\ Take("errorUp")
  /\ messages' = Tail(messages)
  /\ Stop("join")
  /\ UNCHANGED <<uiVars, statVars, mRecorder, reported, captured, heard,
                 hasty, odd, behind, clicks, failures>>

\* MSG_OK is ignored; the end of a recording updates the buttons.
HandleLast ==
  /\ Take("okUp") \/ Take("endUp")
  /\ messages' = Tail(messages)
  /\ enabled' = IF Head(messages).what = "endUp" THEN TotalDuration < Limit * Second
                ELSE enabled
  /\ UNCHANGED <<checked, dialog, open, counting, mRecordingOffset, mpc,
                 statVars, mRecorder, thread, reported, captured, heard, hasty,
                 odd, behind, clicks, failures>>

(***************************************************************************)
(* FLACRecorder.run().                                                     *)
(***************************************************************************)
ThreadOnly ==
  UNCHANGED <<uiVars, mpc, statVars, mRecorder, heard, hasty, odd, behind,
              clicks>>

Post(what, pos) ==
  messages' = Append(messages,
                     [what |-> what, pos |-> pos, real |-> Sum(captured')])

Fail(pc, lost) ==
  /\ failures < MaxFailures /\ failures' = failures + 1
  /\ Post("error", 0)
  /\ thread' = [thread EXCEPT !.pc = pc, !.position = @ + lost]

\* A configuration is found and mShouldRun set, or run() ends at once.
Configure ==
  /\ thread.pc = "new"
  /\ UNCHANGED <<reported, captured>> /\ ThreadOnly
  /\ \/ /\ thread' = [thread EXCEPT !.pc = "encoder", !.shouldRun = TRUE]
        /\ UNCHANGED <<messages, failures>>
     \/ Fail("ended", 0)

\* Mutated form: mShouldRun is set where the loop begins.
OpenEncoderLate(t) == [t EXCEPT !.pc = "loop", !.shouldRun = TRUE]

OpenEncoder(t) == [t EXCEPT !.pc = "loop"]

\* The encoder opens the file, which empties it, or refuses.
MakeEncoder ==
  /\ thread.pc = "encoder"
  /\ \/ /\ thread' = OpenEncoder(thread)
        /\ captured' = [captured EXCEPT ![thread.rec] = 0]
        /\ UNCHANGED <<messages, failures>>
     \/ UNCHANGED captured /\ Fail("caught", 0)
  /\ UNCHANGED reported /\ ThreadOnly

\* Mutated form: the amplitudes are taken before the chunk is added.
AmpPositionBefore == thread.position

AmpPosition == thread.position + 1

\* A chunk is read and written.
Record ==
  /\ thread.pc = "loop" /\ thread.shouldRun /\ thread.shouldRecord
  /\ thread.position < MaxChunks
  /\ captured' = [captured EXCEPT ![thread.rec] = @ + 1]
  /\ thread' = [thread EXCEPT !.position = @ + 1]
  /\ reported' = [reported EXCEPT ![thread.rec] = thread.position + 1]
  /\ Post("amp", AmpPosition)
  /\ UNCHANGED failures /\ ThreadOnly

\* A chunk cannot be read, or it is read and not written as a whole.
RecordFails ==
  /\ thread.pc = "loop" /\ thread.shouldRun /\ thread.shouldRecord
  /\ thread.position < MaxChunks
  /\ UNCHANGED <<captured, reported>> /\ ThreadOnly
  /\ \E lost \in 0..1 : Fail("loop", lost)

\* The thread is asked to end; what the encoder holds is written.
RunEnds ==
  /\ (thread.pc = "loop" /\ ~thread.shouldRun) \/ thread.pc = "caught"
  /\ thread' = [thread EXCEPT !.pc = "ended"]
  /\ UNCHANGED <<captured, reported, failures>> /\ ThreadOnly
  /\ Post("ok", 0)

UserStep == ClickOn \/ ClickOff \/ Back \/ Answer \/ CountdownElapses
MainStep == JoinReturns \/ StartRecording \/ HandleAmp \/ HandleEnd
              \/ HandleOther \/ HandleAmpUp \/ HandleErrorUp \/ HandleLast
ThreadStep == Configure \/ MakeEncoder \/ Record \/ RecordFails \/ RunEnds
Next == UserStep \/ MainStep \/ ThreadStep

Spec == Init /\ [][Next]_vars
FairSpec == Spec /\ WF_vars(MainStep) /\ WF_vars(ThreadStep)

(***************************************************************************)
(* Properties.                                                             *)
(***************************************************************************)
TypeOK ==
  /\ {checked, enabled, dialog, open, mRecorder, aliased, heard, hasty,
      behind} \subseteq BOOLEAN
  /\ counting \in Nat /\ mRecordingOffset \in Nat
  /\ messages \in Seq(Messages)
  /\ mpc \in {"idle", "join", "joinStart"}
  /\ durations \in Seq(Nat) /\ mRecording \in 0..Len(durations)
  /\ reported \in Seq(Nat) /\ Len(reported) = Len(durations)
  /\ captured \in Seq(Nat) /\ Len(captured) = Len(durations)
  /\ mAmplitudes \in Nat \cup {-1} /\ mLastAmplitudes \in Nat \cup {-1}
  /\ odd \subseteq Nat
  /\ thread \in Threads /\ thread.rec \in 0..Len(durations)
  /\ clicks \in 0..MaxClicks /\ failures \in 0..MaxFailures

Quiet == messages = <<>> /\ ~mRecorder

\* Once its messages are handled, every recording has the duration its thread
\* reported last, and the overall statistics are their sum - although the last
\* amplitudes, their copies and the sum are shared objects that are changed in
\* place (BooRecorder's handler, Amplitudes.accumulate), and whatever failed.
\* Excepted are the recordings of which a recorder delivered nothing, those one
\* began before the END of the last was handled, and the sum where there are
\* such recordings.
StatisticsAddUp ==
  Quiet =>
    /\ \A i \in DOMAIN durations \ odd : durations[i] = reported[i]
    /\ odd = {} =>
         mAmplitudes = IF durations = <<>> THEN -1 ELSE TotalDuration

\* A recording in which something was recorded is never recorded over: the
\* next one takes its file only while its duration is 0 (getLastEmptyRecording)
\* - unless the recorder at work began before the END of the last was handled,
\* which is when the duration is set.  Whatever happened before it does not
\* matter.
NeverRecordedOver ==
  [][\A i \in DOMAIN captured :
       captured'[i] < captured[i] => hasty]_vars

\* The position the activity shows, and stops at the limit by, is in whole
\* seconds never less than what the boo's files hold (updateRecordingState),
\* though the durations are set late and files are taken again.  It may be
\* more: both the offset and the position in the amplitudes count the earlier
\* recordings.
NeverBehind == ~behind

\* BooRecorder.start() promises that every recorder "record[s] to a new file".
RecordsToNewFile ==
  [][\A i \in DOMAIN captured : captured'[i] >= captured[i]]_vars

\* MSG_END_OF_RECORDING is handled when "mLastAmp should really be the last set
\* of amplitudes we got from the recorder", and with it the duration of its
\* recording.
LastAmplitudesCount == Quiet => durations = reported

\* Once the recorder has seen that it is to end, or has failed, the main thread
\* does not wait for it forever (stop, run).
StopReturns ==
  (mpc # "idle" /\ thread.pc # "new" /\ ~thread.shouldRun) ~> mpc = "idle"

\* BooRecorder.stop() says that it will "kill recorder", whenever it is called.
StopKillsRecorder == mpc # "idle" ~> mpc = "idle"
===============================================================================
