------------------------------ MODULE MCRecorder ------------------------------
(***************************************************************************)
(* Recorder with enough clicks for three recordings of up to two chunks,   *)
(* which make a second, a limit that the second recording reaches, and one *)
(* failure.                                                                *)
(***************************************************************************)
EXTENDS Recorder
===============================================================================
