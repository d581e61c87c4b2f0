---------------------------- MODULE MCFLACPlayer -----------------------------
(***************************************************************************)
(* FLACPlayer on recordings of up to five frames of one or two units, read *)
(* ahead by three: the end of the file is met with up to two frames still  *)
(* in the bit reader.  Besides finished recordings there are some whose    *)
(* encoder died: totals unknown, whole, cut in a frame or in the header.   *)
(* AudioTrack wants a buffer of a block or less, one and a half, or two.   *)
(***************************************************************************)
EXTENDS FLACPlayer

MCRecordings ==
  {[frames |-> f, size |-> s, last |-> l, missing |-> 0, declared |-> TRUE,
    buffer |-> b] : f \in {0, 1, 2, 5}, s \in 1..2, l \in 1..2, b \in 2..4}
  \cup {[frames |-> 4, size |-> 2, last |-> 2, missing |-> m,
         declared |-> FALSE, buffer |-> b] : m \in {0, 1, 3, 9}, b \in 2..4}
  \cup {[frames |-> 2, size |-> 4, last |-> 2, missing |-> 1,
         declared |-> FALSE, buffer |-> b] : b \in {2, 4}}
MCTargets == {0, 1, 8, 12}
===============================================================================
