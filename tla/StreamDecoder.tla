---------------------------- MODULE StreamDecoder -----------------------------
(***************************************************************************)
(* The native FLAC decoder (jni/jni/FLACStreamDecoder.cpp) and the part of *)
(* libFLAC that drives it (stream_decoder.c): the bit reader's read-ahead, *)
(* the decoding of one frame, the binary search of a seek.                 *)
(*                                                                         *)
(* A file is a header and frames of equal size, measured in units; the     *)
(* last frame may hold fewer samples and may be cut off, as the encoder    *)
(* leaves it when its process dies.  Samples are numbered from 0.  What is *)
(* encoded in a frame is left out: a frame is recognised by its place.     *)
(***************************************************************************)
EXTENDS Integers, Sequences

CONSTANTS
  Recordings,  \* the files that may be opened
  Header,      \* units of metadata before the first frame
  Capacity,    \* units the bit reader holds (FLAC__BITREADER_DEFAULT_CAPACITY)
  Block,       \* max_blocksize: samples of every frame but the last
  Channels,    \* m_channels
  Width        \* bytes of one value, m_bits_per_sample / 8

Recording == [frames   : Nat,            \* frames begun
              size     : Nat \ {0},      \* units of each
              last     : 1..Block,       \* samples of the last one
              missing  : Nat,            \* units cut off the end
              declared : BOOLEAN,        \* STREAMINFO holds the totals
              buffer   : Nat]            \* values in the smallest buffer that
                                         \* AudioTrack accepts for it

ASSUME DecoderAssumption ==
  /\ Header \in Nat \ {0} /\ Capacity \in Nat /\ Header <= Capacity
  /\ Block \in Nat \ {0} /\ Channels \in {1, 2} /\ Width \in {1, 2}
  /\ Recordings \subseteq Recording
  /\ \A r \in Recordings : r.missing <= r.frames * r.size + Header

VARIABLES
  file,        \* the recording behind m_infile
  lib,         \* the FLAC__StreamDecoder, and m_finished of its callbacks
  search,      \* locals of seek_to_absolute_sample_
  m_seek_pos,
  m_cur_pos,
  m_buffer,    \* bytes m_buffer was advanced by within this read()
  m_buf_used,
  writes,      \* the spans of samples cb_write stored in this read()
  pc,          \* where the thread is in read()
  ret          \* what read() returned

decoderVars == <<file, lib, search, m_seek_pos, m_cur_pos, m_buffer,
                 m_buf_used, writes, pc, ret>>

Min2(a, b) == IF a < b THEN a ELSE b
CeilDiv(a, b) == (a + b - 1) \div b

(***************************************************************************)
(* The file.                                                               *)
(***************************************************************************)
Length == Header + file.frames * file.size - file.missing
FrameStart(f) == Header + f * file.size
FrameAfter(unit) == CeilDiv(unit - Header, file.size)
FirstSample(f) == f * Block
EndSample(f) ==
  IF f = file.frames - 1 THEN FirstSample(f) + file.last ELSE FirstSample(f + 1)
Samples == IF file.frames = 0 THEN 0 ELSE EndSample(file.frames - 1)
Total == IF file.declared THEN Samples ELSE 0

\* FLACPlayer.run: what AudioTrack and the decoder need at least.
MinBuffer == Block * Channels
BufSize == IF file.buffer > MinBuffer THEN file.buffer ELSE MinBuffer

(***************************************************************************)
(* libFLAC.  state: what the decoder looks for next; offset: where fread   *)
(* goes on; at: what of the file is consumed (the rest up to offset waits  *)
(* in the bit reader); decoded: samples_decoded; finished: m_finished.     *)
(***************************************************************************)
States == {"sync", "frame", "end", "seek_error"}
Lib == [state : States, offset : Nat, at : Nat, decoded : Nat,
        finished : BOOLEAN]

\* Mutated form: a refill that ends short of the next one's size counts as the end.
ConsumeEarlyEnd(l, end) ==
  LET wanted == l.offset + Capacity * CeilDiv(end - l.offset, Capacity) IN
  IF end <= l.offset
  THEN [l EXCEPT !.at = end]
  ELSE IF ~l.finished /\ end <= Length
  THEN [l EXCEPT !.at = end, !.offset = Min2(wanted, Length),
                 !.finished = wanted + Capacity > Length]
  ELSE LET stop == IF l.finished THEN l.offset ELSE Length IN
       [l EXCEPT !.at = stop, !.offset = stop, !.finished = TRUE,
                 !.state = "end"]

\* Consumes the file up to `end', refilling the bit reader as often as needed.
\* A refill asks the end-of-file callback first, which reports m_finished; a
\* short fread() sets m_finished although it delivered something.
Consume(l, end) ==
  LET wanted == l.offset + Capacity * CeilDiv(end - l.offset, Capacity) IN
  IF end <= l.offset
  THEN [l EXCEPT !.at = end]
  ELSE IF ~l.finished /\ end <= Length
  THEN [l EXCEPT !.at = end, !.offset = Min2(wanted, Length),
                 !.finished = wanted > Length]
  ELSE LET stop == IF l.finished THEN l.offset ELSE Length IN
       [l EXCEPT !.at = stop, !.offset = stop, !.finished = TRUE,
                 !.state = "end"]

\* What a decoding step returns: the decoder after it, its result, and the
\* frame it decoded, -1 for none.
Decoded(l, result, frame) == [lib |-> l, result |-> result, frame |-> frame]

\* frame_sync_ and read_frame_.  Having to skip something is an error, and the
\* client hears of it unless the decoder is seeking.
DecodeFrame(l, seeking) ==
  LET f      == FrameAfter(l.at)
      begun  == [l EXCEPT !.finished =
                   @ \/ (~seeking /\ FrameStart(f) # l.at)]
      synced == Consume(begun, FrameStart(f) + 1)
      whole  == Consume(begun, FrameStart(f + 1))
  IN IF f >= file.frames
     THEN Decoded(Consume(begun, Length + 1), TRUE, -1)
     ELSE IF whole.state = "end"
     THEN Decoded(whole, synced.state = "end", -1)
     ELSE Decoded([whole EXCEPT !.decoded = EndSample(f)], TRUE, f)

\* In state "frame" and "seek_error" nothing is decoded; a caller that cut a
\* frame got 0 from read() and does not come back.
ProcessSingle(l, seeking) ==
  IF l.state # "sync"
  THEN Decoded(l, l.state = "end", -1)
  ELSE IF Total > 0 /\ l.decoded >= Total
  THEN Decoded([l EXCEPT !.state = "end"], TRUE, -1)
  ELSE DecodeFrame(l, seeking)

\* FLAC__stream_decoder_flush: what the bit reader holds is dropped.
Flush(l) == [l EXCEPT !.at = l.offset, !.decoded = 0, !.state = "sync"]

\* checkState(): its value, and what it does to m_finished.
CheckState(l) ==
  CASE l.finished                                   -> -1
    [] ~l.finished /\ l.state = "end"               -> -2
    [] ~l.finished /\ l.state = "seek_error"        -> -4
    [] ~l.finished /\ l.state \in {"sync", "frame"} -> 0
Checked(l) == [l EXCEPT !.finished = @ \/ l.state = "end"]

(***************************************************************************)
(* init(): the metadata is read, and with it as much of the file as the    *)
(* bit reader holds.  A file without its whole header is refused.          *)
(***************************************************************************)
Fresh == [state |-> "sync", offset |-> 0, at |-> 0, decoded |-> 0,
          finished |-> FALSE]
NoSearch == [lower |-> 0, upper |-> 0, lowerSample |-> 0, upperSample |-> 0,
             approx |-> 0, first |-> TRUE]

DecoderInit ==
  /\ file \in Recordings
  /\ lib = Fresh /\ search = NoSearch
  /\ m_seek_pos = -1 /\ m_cur_pos = -1
  /\ m_buffer = 0 /\ m_buf_used = 0 /\ writes = <<>>
  /\ pc = "closed" /\ ret = 0

Open ==
  /\ pc = "closed"
  /\ lib' = Consume(lib, Header)
  /\ pc' = IF lib'.state = "end" THEN "refused" ELSE "idle"
  /\ UNCHANGED <<file, search, m_seek_pos, m_cur_pos, m_buffer, m_buf_used,
                 writes, ret>>

\* seekTo(): only remembered.
SeekTo(sample) ==
  /\ m_seek_pos' = sample
  /\ UNCHANGED <<file, lib, search, m_cur_pos, m_buffer, m_buf_used, writes,
                 pc, ret>>

(***************************************************************************)
(* read().                                                                 *)
(***************************************************************************)
ReadRefused ==
  /\ pc = "idle" /\ CheckState(lib) # 0
  /\ ret' = CheckState(lib)
  /\ lib' = Checked(lib)
  /\ pc' = "returned"
  /\ UNCHANGED <<file, search, m_seek_pos, m_cur_pos, m_buffer, m_buf_used,
                 writes>>

ReadBegins ==
  /\ pc = "idle" /\ CheckState(lib) = 0
  /\ m_buffer' = 0 /\ m_buf_used' = 0 /\ writes' = <<>>
  /\ pc' = IF m_seek_pos >= 0 THEN "seek" ELSE "process"
  /\ UNCHANGED <<file, lib, search, m_seek_pos, m_cur_pos, ret>>

\* FLAC__stream_decoder_seek_absolute: a target behind the end is refused.
SeekAbsolute ==
  /\ pc = "seek"
  /\ IF Total > 0 /\ m_seek_pos >= Total
     THEN pc' = "sought" /\ UNCHANGED search
     ELSE /\ pc' = "probe"
          /\ search' = [lower |-> Header, upper |-> Length,
                        lowerSample |-> 0,
                        upperSample |-> IF Total > 0 THEN Total
                                        ELSE IF m_seek_pos > 0 THEN m_seek_pos
                                        ELSE 1,
                        approx |-> file.size, first |-> TRUE]
  /\ UNCHANGED <<file, lib, m_seek_pos, m_cur_pos, m_buffer, m_buf_used,
                 writes, ret>>

\* Mutated form: the guess is not kept within the lower bound.
ProbePosUnbounded ==
  LET s == search
      pos == s.lower - s.approx
             + ((m_seek_pos - s.lowerSample) * (s.upper - s.lower))
               \div (s.upperSample - s.lowerSample)
  IN IF pos >= s.upper THEN s.upper - 1 ELSE pos

\* The place to try next: interpolated, a frame or more before the target.
ProbePos ==
  LET s == search
      pos == s.lower - s.approx
             + ((m_seek_pos - s.lowerSample) * (s.upper - s.lower))
               \div (s.upperSample - s.lowerSample)
      capped == IF pos >= s.upper THEN s.upper - 1 ELSE pos
  IN IF capped < s.lower THEN s.lower ELSE capped

Probed == ProcessSingle(Flush([lib EXCEPT !.offset = ProbePos]), TRUE)

InFrame(f, sample) == FirstSample(f) <= sample /\ sample < EndSample(f)

\* write_internal for n samples per channel from `first' on.  The place is
\* taken before m_buffer is moved on, and only once per frame.
Stored(n) == Min2(n * Channels, BufSize - m_buf_used)
WriteInternal(first, n) ==
  /\ writes' = Append(writes, [out |-> m_buffer, used |-> m_buf_used,
                               first |-> first, n |-> n])
  /\ m_buffer' = m_buffer + m_buf_used
  /\ m_buf_used' = m_buf_used + Stored(n)
  /\ m_cur_pos' = m_cur_pos + Stored(n)

\* Nothing could be decoded, not even at the lowest place, or the frame lies
\* before the bounds.
SearchFailed(p) ==
  LET s == search IN
  \/ ~p.result
  \/ p.frame = -1 /\ ProbePos = s.lower
  \/ /\ p.frame # -1 /\ EndSample(p.frame) >= s.upperSample /\ ~s.first
     /\ ~InFrame(p.frame, m_seek_pos) /\ ProbePos = s.lower
  \/ /\ p.frame # -1 /\ ~InFrame(p.frame, m_seek_pos)
     /\ (EndSample(p.frame) < s.upperSample \/ s.first)
     /\ FirstSample(p.frame) < s.lowerSample

\* Mutated form: the bounds stay as they are.
NarrowedNot(p) ==
  [search EXCEPT !.first = FALSE, !.approx = (2 * (p.lib.at - ProbePos)) \div 3 + 1]

\* One step further back, or bounds that are narrower by a frame.
Narrowed(p) ==
  LET s == search
      beyond == p.frame = -1 \/ (EndSample(p.frame) >= s.upperSample /\ ~s.first)
      below  == m_seek_pos < FirstSample(p.frame)
      guess  == (2 * (p.lib.at - ProbePos)) \div 3 + 1
  IN IF beyond THEN [s EXCEPT !.approx = 2 * @]
     ELSE IF below
     THEN [s EXCEPT !.upperSample = EndSample(p.frame), !.upper = p.lib.at,
                    !.approx = guess, !.first = FALSE]
     ELSE [s EXCEPT !.lowerSample = EndSample(p.frame), !.lower = p.lib.at,
                    !.approx = guess, !.first = FALSE]

\* One round of seek_to_absolute_sample_: out of bounds nothing is tried.
SeekProbe ==
  /\ pc = "probe"
  /\ LET tried == search.lowerSample < search.upperSample
                  /\ search.lower <= search.upper
         p == IF tried THEN Probed ELSE Decoded(lib, FALSE, -1)
     IN IF p.frame # -1 /\ InFrame(p.frame, m_seek_pos)
        THEN /\ WriteInternal(m_seek_pos, EndSample(p.frame) - m_seek_pos)
             /\ lib' = p.lib
             /\ pc' = "sought"
             /\ UNCHANGED search
        ELSE /\ UNCHANGED <<writes, m_buffer, m_buf_used, m_cur_pos>>
             /\ IF SearchFailed(p)
                THEN /\ lib' = [p.lib EXCEPT !.state = "seek_error"]
                     /\ pc' = "sought"
                     /\ UNCHANGED search
                ELSE /\ lib' = p.lib
                     /\ search' = Narrowed(p)
                     /\ UNCHANGED pc
  /\ UNCHANGED <<file, m_seek_pos, ret>>

\* Mutated form: what the seek decoded stays in the buffer.
SeekDoneKeeping ==
  /\ pc = "sought"
  /\ m_cur_pos' = m_seek_pos /\ m_seek_pos' = -1
  /\ UNCHANGED <<m_buf_used, writes>>
  /\ IF CheckState(lib) = -4
     THEN lib' = Flush(lib) /\ ret' = 0 /\ pc' = "returned"
     ELSE lib' = Checked(lib) /\ pc' = "process" /\ UNCHANGED ret
  /\ search' = NoSearch
  /\ UNCHANGED <<file, m_buffer>>

\* read() after the seek: what the seek decoded is dropped, and a failed seek
\* leaves the loop, since `continue' tests the result of the seek.
SeekDone ==
  /\ pc = "sought"
  /\ m_cur_pos' = m_seek_pos /\ m_seek_pos' = -1
  /\ m_buf_used' = 0 /\ writes' = <<>>
  /\ IF CheckState(lib) = -4
     THEN lib' = Flush(lib) /\ ret' = 0 /\ pc' = "returned"
     ELSE lib' = Checked(lib) /\ pc' = "process" /\ UNCHANGED ret
  /\ search' = NoSearch
  /\ UNCHANGED <<file, m_buffer>>

\* One frame.  A frame that does not fit is cut, and ends the read() with the
\* decoder still inside the frame.
Process ==
  /\ pc = "process"
  /\ LET p    == ProcessSingle(lib, FALSE)
         n    == EndSample(p.frame) - FirstSample(p.frame)
         full == p.frame # -1 /\ n * Channels > BufSize - m_buf_used
         l    == IF full THEN [p.lib EXCEPT !.state = "frame"] ELSE p.lib
         more == CheckState(l) = 0 /\ p.result /\ ~full
     IN /\ IF p.frame = -1
           THEN UNCHANGED <<writes, m_buffer, m_buf_used, m_cur_pos>>
           ELSE WriteInternal(FirstSample(p.frame), n)
        /\ lib' = Checked(l)
        /\ IF more /\ m_buf_used' < BufSize
           THEN UNCHANGED <<pc, ret>>
           ELSE /\ pc' = "returned"
                /\ ret' = IF p.result /\ ~full THEN m_buf_used'
                          ELSE CheckState(l)
  /\ UNCHANGED <<file, search, m_seek_pos>>

\* The caller takes what read() returned; release() ends the decoder.
ReadReturned == pc = "returned" /\ pc' = "idle"
Release == pc' = "released"

Read == ReadRefused \/ ReadBegins \/ SeekAbsolute \/ SeekProbe \/ SeekDone
          \/ Process
===============================================================================
