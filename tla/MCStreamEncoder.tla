--------------------------- MODULE MCStreamEncoder ---------------------------
(***************************************************************************)
(* StreamEncoder on a buffer of two samples and a recording of five.  With *)
(* sizes 1 to 3 every path through write() is taken, up to four FIFO       *)
(* entries exist at once, and four failures are enough to give up once.    *)
(***************************************************************************)
EXTENDS StreamEncoder

MCSizes == {1, 2, 3}
===============================================================================
