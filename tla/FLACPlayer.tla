------------------------------ MODULE FLACPlayer ------------------------------
(***************************************************************************)
(* application/FLACPlayer.java: a thread that reads a recording from the   *)
(* decoder and writes it to the AudioTrack, while the owner of the player  *)
(* (FLACPlayerWrapper) pauses, resumes, seeks and stops it through         *)
(* volatile fields and interrupts.  Positions are samples instead of       *)
(* milliseconds.                                                           *)
(***************************************************************************)
EXTENDS StreamDecoder

CONSTANTS
  Targets,  \* positions the owner seeks to
  MaxCalls  \* bound: calls of pausePlayback, resumePlayback and seekTo

ASSUME PlayerAssumption == Targets \subseteq Nat /\ MaxCalls \in Nat

VARIABLES
  mShouldRun,
  mPaused,
  mSeekPos,  \* -1: no request
  seekPos,   \* the thread's copy of mSeekPos
  ppc,       \* where the thread is in run()
  played,    \* history: the spans written to the AudioTrack
  seek,      \* history: the last seek handed to the decoder, and its number
  calls      \* history: calls of the owner

playerVars == <<mShouldRun, mPaused, mSeekPos, seekPos, ppc, played, seek,
                calls>>
vars == <<file, lib, search, m_seek_pos, m_cur_pos, m_buffer, m_buf_used,
          writes, pc, ret, mShouldRun, mPaused, mSeekPos, seekPos, ppc,
          played, seek, calls>>

PlayerPcs == {"start", "loop", "seek", "read", "finish", "done", "error"}

NoSeek == [nr |-> 0, target |-> -1]

Init ==
  /\ DecoderInit
  /\ mShouldRun = TRUE /\ mPaused = TRUE
  /\ mSeekPos = -1 /\ seekPos = -1
  /\ ppc = "start"
  /\ played = <<>> /\ seek = NoSeek /\ calls = 0

(***************************************************************************)
(* The owner.  An interrupt ends the sleep of a paused player; the thread  *)
(* then looks at the fields again, which is what it does here whenever one *)
(* of them lets it go on.                                                  *)
(***************************************************************************)
Call ==
  /\ calls < MaxCalls /\ calls' = calls + 1
  /\ UNCHANGED <<decoderVars, mShouldRun, seekPos, ppc, played, seek>>

PausePlayback  == Call /\ mPaused' = TRUE /\ UNCHANGED mSeekPos
ResumePlayback == Call /\ mPaused' = FALSE /\ UNCHANGED mSeekPos
SeekPlayback   == Call /\ mSeekPos' \in Targets /\ UNCHANGED mPaused

\* FLACPlayerWrapper.stop()
Stop ==
  /\ mShouldRun /\ mShouldRun' = FALSE
  /\ UNCHANGED <<decoderVars, mPaused, mSeekPos, seekPos, ppc, played, seek,
                 calls>>

(***************************************************************************)
(* run().                                                                  *)
(***************************************************************************)
Owner == <<mShouldRun, mPaused, calls>>

\* AudioTrack may refuse as well: the decoder is not released then.
OpenDecoder ==
  /\ ppc = "start"
  /\ Open
  /\ ppc' \in IF pc' = "refused" THEN {"error"} ELSE {"loop", "error"}
  /\ UNCHANGED <<Owner, mSeekPos, seekPos, played, seek>>

\* A paused player sleeps; a target of 0 does not count as a request.
LoopTop ==
  /\ ppc = "loop"
  /\ IF mShouldRun
     THEN /\ ~mPaused
          /\ seekPos' = mSeekPos
          /\ ppc' = IF mSeekPos > 0 THEN "seek" ELSE "read"
     ELSE ppc' = "finish" /\ UNCHANGED seekPos
  /\ UNCHANGED <<decoderVars, Owner, mSeekPos, played, seek>>

\* The request is forgotten after it was handed on, and with it one that was
\* made in between.
ApplySeek ==
  /\ ppc = "seek"
  /\ SeekTo(seekPos)
  /\ mSeekPos' = -1
  /\ seek' = [nr |-> seek.nr + 1, target |-> seekPos]
  /\ ppc' = "read"
  /\ UNCHANGED <<Owner, seekPos, played>>

ReadStep ==
  /\ ppc = "read"
  /\ Read
  /\ UNCHANGED <<playerVars>>

Play(w) == [out |-> w.out, used |-> w.used, first |-> w.first, n |-> w.n,
            seek |-> seek]

ReadDone ==
  /\ ppc = "read"
  /\ ReadReturned
  /\ IF ret > 0
     THEN /\ played' = played \o [i \in DOMAIN writes |-> Play(writes[i])]
          /\ ppc' = "loop"
     ELSE ppc' = "finish" /\ UNCHANGED played
  /\ UNCHANGED <<file, lib, search, m_seek_pos, m_cur_pos, m_buffer,
                 m_buf_used, writes, ret, Owner, mSeekPos, seekPos, seek>>

\* The AudioTrack and the decoder are released, and the listener is told.
Finish ==
  /\ ppc = "finish"
  /\ Release
  /\ ppc' = "done"
  /\ UNCHANGED <<file, lib, search, m_seek_pos, m_cur_pos, m_buffer,
                 m_buf_used, writes, ret, Owner, mSeekPos, seekPos, played,
                 seek>>

Thread == OpenDecoder \/ LoopTop \/ ApplySeek \/ ReadStep \/ ReadDone
            \/ Finish
Next == Thread \/ PausePlayback \/ ResumePlayback \/ SeekPlayback \/ Stop

Spec == Init /\ [][Next]_vars

\* The scheduler runs the player's thread.
FairSpec == Spec /\ WF_vars(Thread)

(***************************************************************************)
(* Properties.                                                             *)
(***************************************************************************)
Span == [out : Nat, used : Nat, first : Nat, n : Nat]
Seek == [nr : Nat, target : Nat \cup {-1}]

TypeOK ==
  /\ file \in Recordings
  /\ lib \in Lib
  /\ m_seek_pos \in Nat \cup {-1}
  /\ m_cur_pos \in Int
  /\ m_buffer \in Nat /\ m_buf_used \in 0..BufSize
  /\ writes \in Seq(Span)
  /\ pc \in {"closed", "refused", "idle", "seek", "probe", "sought",
             "process", "returned", "released"}
  /\ ret \in Int
  /\ mShouldRun \in BOOLEAN /\ mPaused \in BOOLEAN
  /\ mSeekPos \in Nat \cup {-1} /\ seekPos \in Nat \cup {-1}
  /\ ppc \in PlayerPcs
  /\ played \in Seq([out : Nat, used : Nat, first : Nat, n : Nat,
                     seek : Seek])
  /\ seek \in Seek
  /\ calls \in 0..MaxCalls

\* Where the sound goes on after a seek that could be carried out: with the
\* frame behind the one that holds the target.
After(target) == EndSample(target \div Block)

\* Whatever read() stores and delivers goes on where the last one ended, with no
\* frame skipped or decoded twice, unless the decoder was asked to seek; and a
\* seek within the recording goes on within one frame of its target
\* (FLACStreamDecoder.read; stream_decoder.c's bit reader must not hold anything
\* from before the seek).  Where in the buffer a frame is stored is another
\* question: StoredSideBySide.
PlaysInOrder ==
  \A i \in DOMAIN played :
    LET now == played[i]
        before == IF i = 1 THEN [first |-> 0, n |-> 0, seek |-> NoSeek]
                  ELSE played[i - 1]
    IN IF now.seek = before.seek \/ now.seek.target >= Samples
       THEN now.first = before.first + before.n
       ELSE now.first = After(now.seek.target)

\* What "reads data from the decoder, and writes it into the provided buffer"
\* (FLACStreamDecoder.java:105) is meant to say: a frame is stored behind those
\* that are in the buffer already.
StoredSideBySide ==
  \A i \in DOMAIN played : played[i].out = Width * played[i].used

\* "Should never happen" (FLACStreamDecoder.cpp:451): that a frame does not fit
\* into a buffer which has the size it is asked for at least.
EveryFrameFits == lib.state # "frame"

\* Frames of which nothing is missing.
WholeFrames == (Length - Header) \div file.size
PlayedToEnd == ppc = "done" /\ mShouldRun /\ seek.nr = 0

\* Playback that ends by itself has left out no more than the bit reader held
\* when fread() met the end of the file - cb_read sets m_finished although it
\* delivered something, and read() then refuses to go on with it - and the frames
\* that were in the buffer when read() failed with the next one; unless that was
\* a frame that did not fit, which ends playback anywhere (EveryFrameFits).
LossBounded ==
  PlayedToEnd /\ EveryFrameFits =>
    (WholeFrames - Len(played) - (BufSize - 1) \div MinBuffer) * file.size
      <= Capacity

\* What libFLAC asks of a read callback (END_OF_STREAM if and only if nothing
\* was read) is meant to ensure: playback that ends by itself has played every
\* frame.
WholeRecordingPlayed == PlayedToEnd => Len(played) >= WholeFrames

\* Unless it is left paused, playback comes to an end and is reported, however
\* it was sought through: no read() and no search for a target goes on forever
\* (read's loop, seek_to_absolute_sample_).
PlaybackEnds ==
  <>[](~mPaused \/ ~mShouldRun) => <>(ppc \in {"done", "error"})
===============================================================================
