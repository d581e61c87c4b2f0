----------------------------- MODULE MCRequester -----------------------------
(***************************************************************************)
(* Requester with fewer attempts than the four of the code (one or two for *)
(* the status, two for the request) and two retries of the status request  *)
(* instead of three, so that few failures exhaust them.                    *)
(***************************************************************************)
EXTENDS Requester
===============================================================================
