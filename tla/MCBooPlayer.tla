----------------------------- MODULE MCBooPlayer -----------------------------
(***************************************************************************)
(* BooPlayer with one boo of each kind and a few calls of the interface:   *)
(* enough to replace a player while callbacks of the last one are under    *)
(* way, and to call again before the thread has looked.                    *)
(***************************************************************************)
EXTENDS BooPlayer

CONSTANTS remote, local, odd

MCRemote == {remote}
MCLocal == {local}
MCOdd == {odd}
MCPositions == {0, 1}
===============================================================================
