---------------------------- MODULE RecordedStream ----------------------------
(***************************************************************************)
(* What a recording promises its caller: the samples handed to write() are *)
(* accepted in order, they reach the file in that order, each once, and a  *)
(* closed file holds every accepted sample that was not given up after     *)
(* repeated failures of the FLAC library.  No buffers, no threads.         *)
(* Samples are numbered from 0 in the order they are written.              *)
(***************************************************************************)
EXTENDS Integers

VARIABLES
  accepted,   \* how many samples write() has taken
  settled,    \* samples below this number are on disk or given up
  disk,       \* the samples the file holds
  dropped,    \* the samples given up
  closed      \* release() has returned

streamVars == <<accepted, settled, disk, dropped, closed>>

StreamInit ==
  /\ accepted = 0
  /\ settled = 0
  /\ disk = {}
  /\ dropped = {}
  /\ closed = FALSE

\* A call of write() takes more samples.
Accept ==
  /\ ~closed
  /\ accepted' \in Nat /\ accepted' > accepted
  /\ UNCHANGED <<settled, disk, dropped, closed>>

\* The next samples in order reach the file.
Store(upto) ==
  /\ ~closed
  /\ upto \in settled .. accepted
  /\ settled' = upto
  /\ disk' = disk \cup (settled .. upto - 1)
  /\ UNCHANGED <<accepted, dropped, closed>>

\* The next samples in order are given up.
Drop(upto) ==
  /\ ~closed
  /\ upto \in settled .. accepted
  /\ settled' = upto
  /\ dropped' = dropped \cup (settled .. upto - 1)
  /\ UNCHANGED <<accepted, disk, closed>>

\* The recording is closed only when no accepted sample is still under way.
Close ==
  /\ ~closed
  /\ settled = accepted
  /\ closed' = TRUE
  /\ UNCHANGED <<accepted, settled, disk, dropped>>

StreamNext ==
  \/ Accept
  \/ \E upto \in settled .. accepted : Store(upto) \/ Drop(upto)
  \/ Close

StreamSpec == StreamInit /\ [][StreamNext]_streamVars
===============================================================================
