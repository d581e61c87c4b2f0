------------------------------ MODULE MCBooFile -------------------------------
(***************************************************************************)
(* BooFile with audio files numbered up to three, two files of the boo's   *)
(* name, one tick of the clock and four steps: enough to record, stop,     *)
(* submit and get a result, or to record twice; to create the boo and to   *)
(* publish it costs no step.                                               *)
(***************************************************************************)
EXTENDS BooFile
===============================================================================
