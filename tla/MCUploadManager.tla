--------------------------- MODULE MCUploadManager ---------------------------
(***************************************************************************)
(* UploadManager with two boos, one with an image; the audio takes one or  *)
(* two chunks, the image one.                                              *)
(***************************************************************************)
EXTENDS UploadManager

CONSTANTS plain, pictured

MCBoos == {plain, pictured}
MCWithImage == {pictured}
MCRecordedAt == [b \in MCBoos |-> IF b = pictured THEN 1 ELSE 2]
MCSize == [k \in Kinds |-> IF k = "audio" THEN 3 ELSE 1]
===============================================================================
