-------------------------- MODULE FLACPlayerProofs ---------------------------
(***************************************************************************)
(* Proofs about the local player and its decoder, for every recording,     *)
(* every read-ahead, every buffer and every way the owner pauses, resumes, *)
(* seeks and stops.  The invariants say where in the file the decoder is   *)
(* in terms of what was played: with the frame that is expected next       *)
(* (Ordered), and, without a seek, with as many frames behind it as were   *)
(* played and no more than a refill ahead of it (Kept).                    *)
(***************************************************************************)
EXTENDS FLACPlayer, SequenceTheorems, TLAPS

\* The state of the decoder l makes sense for the file.
Positioned(l) == Header <= l.at /\ l.at <= l.offset /\ l.offset <= Length

\* The bounds of a search lie within the file.
Searching ==
  search \in [lower : Header..Length, upper : Header..Length,
             lowerSample : Int, upperSample : Int, approx : Int,
             first : BOOLEAN]

\* The inductive form of TypeOK: where the thread is in run() and in read(), and
\* what it may rely on there.
Types ==
  /\ TypeOK
  /\ pc = "closed" => lib = Fresh
  /\ pc \notin {"closed", "refused"} => Header <= Length /\ Positioned(lib)
  /\ pc = "probe" => Searching
  /\ pc \in {"seek", "probe"} => m_seek_pos >= 0
  /\ ppc = "start" => pc = "closed"
  /\ ppc = "error" => pc \in {"refused", "idle"}
  /\ ppc \in {"loop", "seek", "finish"} => pc = "idle"
  /\ ppc = "read" => pc \in {"idle", "seek", "probe", "sought", "process",
                            "returned"}
  /\ ppc = "done" => pc = "released"
  /\ ppc = "seek" => seekPos > 0

\* The last span that was played, and the sample the next one is to begin with.
Before == IF played = <<>> THEN [first |-> 0, n |-> 0, seek |-> NoSeek]
          ELSE played[Len(played)]
EndOf(span) == span.first + span.n

Expected == IF seek = Before.seek \/ seek.target >= Samples
            THEN EndOf(Before) ELSE After(seek.target)

\* The decoder l is at its end, or right before the frame that begins with the
\* sample, or behind the last frame.
GoesOnWith(l, sample) ==
  \/ l.state = "end"
  \/ /\ l.state = "sync"
     /\ \E k \in 0..file.frames :
          l.at = FrameStart(k) /\ (k < file.frames => sample = FirstSample(k))

\* What was stored in this read() begins with the sample that is expected and
\* goes on from frame to frame, and Awaited is next.
InOrder ==
  \A i \in DOMAIN writes :
    writes[i].first = IF i = 1 THEN Expected ELSE EndOf(writes[i - 1])
Awaited == IF writes = <<>> THEN Expected ELSE EndOf(writes[Len(writes)])

\* A seek was handed to the decoder since the last span was played, or not.
NoRequest == m_seek_pos = -1 /\ seek = Before.seek
Request == m_seek_pos = seek.target /\ seek # Before.seek

\* PlaysInOrder, and what makes it inductive.  While a search goes on nothing is
\* said of the decoder: it ends with the decoder behind the target's frame, or
\* with an error that ends playback.
Ordered ==
  /\ PlaysInOrder
  /\ seek = Before.seek \/ seek.target >= 0
  /\ ppc = "start" => played = <<>> /\ seek = NoSeek /\ m_seek_pos = -1
  /\ ppc \in {"loop", "seek"} => NoRequest /\ GoesOnWith(lib, EndOf(Before))
  /\ ppc = "read" =>
     /\ pc \in {"idle", "seek"} => GoesOnWith(lib, EndOf(Before))
     /\ pc = "idle" => NoRequest \/ Request
     /\ pc = "seek" => Request
     /\ pc = "probe" => Request /\ ~(Total > 0 /\ m_seek_pos >= Total)
     /\ pc = "sought" => lib.state = "seek_error" \/ GoesOnWith(lib, Expected)
     /\ pc = "process" =>
          /\ m_seek_pos = -1 /\ InOrder
          /\ writes = <<>> => m_buf_used = 0
          /\ lib.state = "seek_error" \/ GoesOnWith(lib, Awaited)
     /\ pc = "returned" /\ ret > 0 =>
          /\ m_seek_pos = -1 /\ InOrder
          /\ writes # <<>> /\ GoesOnWith(lib, Awaited)

\* With k frames played no more is left out than the bit reader holds.
Left(k) == (WholeFrames - k) * file.size <= Capacity
\* The decoder l is at its end with nothing more than that left, or right behind
\* k frames.
At(l, k) ==
  \/ l.state = "end" /\ Left(k)
  \/ /\ l.state = "sync"
     /\ l.at = FrameStart(k) /\ k <= file.frames
     /\ l.offset - l.at <= Capacity
     /\ l.finished => l.offset = Length
     /\ l.decoded = IF k = 0 THEN 0 ELSE EndSample(k - 1)

\* The frames that are in the buffer when read() fails with the next one are lost
\* as well; nothing is said of a frame that does not fit.
GivenUp(k) ==
  \/ lib.state = "frame"
  \/ (WholeFrames - k - (BufSize - 1) \div MinBuffer) * file.size <= Capacity

\* Blocks fill the buffer up, but for the last frame.
Filled(k) ==
  /\ m_buf_used < BufSize
  /\ writes = <<>> <=> m_buf_used = 0
  /\ k < file.frames => m_buf_used = Len(writes) * MinBuffer

\* Without a seek the decoder is behind as many frames as were played, those
\* that are still in the buffer included.
Kept ==
  seek.nr = 0 =>
    /\ m_seek_pos = -1
    /\ pc \notin {"seek", "probe", "sought"}
    /\ ppc \in {"loop", "seek"} \/ (ppc = "read" /\ pc = "idle") => At(lib, Len(played))
    /\ ppc = "read" /\ pc = "process" =>
         /\ lib.state = "sync" /\ At(lib, Len(played) + Len(writes))
         /\ Filled(Len(played) + Len(writes))
    /\ ppc = "read" /\ pc = "returned" =>
         IF ret > 0 THEN At(lib, Len(played) + Len(writes)) ELSE GivenUp(Len(played))
    /\ ppc \in {"finish", "done"} /\ mShouldRun => GivenUp(Len(played))
-------------------------------------------------------------------------------
(* Arithmetic.                                                             *)

LEMMA MultNat == \A a, b \in Nat : a * b \in Nat
OBVIOUS

LEMMA MultNext == \A a, b \in Int : (a + 1) * b = a * b + b
OBVIOUS

LEMMA MultMono ==
  \A a, b, c \in Nat : a <= b => a * c <= b * c
OBVIOUS

LEMMA MultStrict ==
  \A a, b \in Int : \A c \in Nat \ {0} : a * c < b * c => a < b
OBVIOUS

LEMMA Division ==
  ASSUME NEW a \in Int, NEW b \in Nat \ {0}
  PROVE  /\ a \div b \in Int
         /\ (a \div b) * b <= a /\ a < (a \div b + 1) * b
OBVIOUS

LEMMA Quotient ==
  ASSUME NEW a \in Int, NEW b \in Nat \ {0}, NEW q \in Int,
         q * b <= a, a < (q + 1) * b
  PROVE  a \div b = q
OBVIOUS

LEMMA CeilBounds ==
  ASSUME NEW a \in Int, NEW b \in Nat \ {0}
  PROVE  /\ CeilDiv(a, b) \in Int
         /\ a <= CeilDiv(a, b) * b /\ CeilDiv(a, b) * b < a + b
         /\ a >= 0 => CeilDiv(a, b) \in Nat
BY Division DEF CeilDiv

LEMMA CeilExact ==
  ASSUME NEW k \in Nat, NEW b \in Nat \ {0}
  PROVE  CeilDiv(k * b, b) = k
BY Quotient DEF CeilDiv
-------------------------------------------------------------------------------
(* The file, the bit reader and the decoding of a frame.                   *)

LEMMA FileFacts ==
  ASSUME file \in Recordings
  PROVE  /\ file.frames \in Nat /\ file.size \in Nat \ {0}
         /\ file.last \in 1..Block /\ file.missing \in Nat
         /\ file.declared \in BOOLEAN
         /\ Header \in Nat \ {0} /\ Capacity \in Nat \ {0}
         /\ Block \in Nat \ {0}
         /\ Length \in Nat
         /\ Length = Header + file.frames * file.size - file.missing
<1>1. /\ file.frames \in Nat /\ file.size \in Nat \ {0}
      /\ file.last \in 1..Block /\ file.missing \in Nat
      /\ file.declared \in BOOLEAN
      /\ file.missing <= file.frames * file.size + Header
  BY DecoderAssumption DEF Recording
<1>2. Header \in Nat \ {0} /\ Capacity \in Nat \ {0} /\ Block \in Nat \ {0}
  BY DecoderAssumption
<1>3. file.frames * file.size \in Nat
  BY <1>1, MultNat
<1> QED  BY <1>1, <1>2, <1>3 DEF Length

LEMMA FrameStarts ==
  ASSUME file \in Recordings, NEW k \in Nat
  PROVE  /\ FrameStart(k) \in Nat /\ Header <= FrameStart(k)
         /\ FrameStart(k + 1) = FrameStart(k) + file.size
         /\ FrameAfter(FrameStart(k)) = k
<1>1. file.size \in Nat \ {0} /\ Header \in Nat
  BY FileFacts
<1>2. k * file.size \in Nat /\ (k + 1) * file.size = k * file.size + file.size
  BY <1>1, MultNat, MultNext
<1>3. CeilDiv(k * file.size, file.size) = k
  BY <1>1, CeilExact
<1>4. FrameStart(k) - Header = k * file.size
  BY <1>1, <1>2 DEF FrameStart
<1> QED  BY <1>1, <1>2, <1>3, <1>4 DEF FrameStart, FrameAfter

LEMMA FrameSamples ==
  ASSUME file \in Recordings, NEW k \in Nat
  PROVE  /\ FirstSample(k) \in Nat /\ EndSample(k) \in Nat
         /\ FirstSample(k + 1) = FirstSample(k) + Block
         /\ FirstSample(k) < EndSample(k)
         /\ EndSample(k) <= FirstSample(k) + Block
         /\ k + 1 # file.frames => EndSample(k) = FirstSample(k + 1)
<1>1. file.last \in 1..Block /\ Block \in Nat \ {0} /\ file.frames \in Nat
  BY FileFacts
<1>2. k * Block \in Nat /\ (k + 1) * Block = k * Block + Block
  BY <1>1, MultNat, MultNext
<1> QED  BY <1>1, <1>2 DEF FirstSample, EndSample

LEMMA SamplesInAll ==
  ASSUME file \in Recordings
  PROVE  /\ Samples \in Nat /\ Total \in {0, Samples}
         /\ \A k \in 0..file.frames - 1 : EndSample(k) <= Samples
         /\ \A k \in 1..file.frames : EndSample(k - 1) = Samples => k = file.frames
<1>1. file.frames \in Nat /\ Block \in Nat \ {0} /\ file.last \in 1..Block
  BY FileFacts
<1>2. Samples \in Nat
  BY <1>1, FrameSamples DEF Samples
<1>3. ASSUME NEW k \in 0..file.frames - 1
      PROVE  EndSample(k) <= Samples /\ (EndSample(k) = Samples => k + 1 = file.frames)
  <2>1. CASE k = file.frames - 1
    BY <1>1, <1>2, <2>1, <1>3 DEF Samples
  <2>2. CASE k + 1 <= file.frames - 1
    <3>1. EndSample(k) = FirstSample(k + 1)
      BY <1>1, <2>2, FrameSamples
    <3>2. FirstSample(k + 1) <= FirstSample(file.frames - 1)
      BY <1>1, <2>2, MultMono DEF FirstSample
    <3>3. FirstSample(file.frames - 1) < EndSample(file.frames - 1)
      BY <1>1, <2>2, FrameSamples
    <3>4. Samples = EndSample(file.frames - 1)
      BY <1>1, <2>2 DEF Samples
    <3>5. /\ FirstSample(k + 1) \in Nat /\ FirstSample(file.frames - 1) \in Nat
          /\ EndSample(file.frames - 1) \in Nat
      BY <1>1, <2>2, FrameSamples
    <3> QED  BY <3>1, <3>2, <3>3, <3>4, <3>5
  <2> QED  BY <1>1, <1>3, <2>1, <2>2
<1>4. ASSUME NEW k \in 1..file.frames, EndSample(k - 1) = Samples
      PROVE  k = file.frames
  BY <1>1, <1>3, <1>4
<1> QED  BY <1>2, <1>3, <1>4 DEF Total

\* The frame that holds a sample is the one its number is divided into.
LEMMA FrameOfSample ==
  ASSUME file \in Recordings, NEW k \in 0..file.frames - 1, NEW sample \in Nat,
         InFrame(k, sample)
  PROVE  sample < Samples /\ EndSample(k) = After(sample)
<1>1. Block \in Nat \ {0} /\ k \in Nat
  BY FileFacts
<1>2. sample < EndSample(k) /\ FirstSample(k) <= sample
  BY DEF InFrame
<1>3. sample < FirstSample(k) + Block
  BY <1>1, <1>2, FrameSamples
<1>4. sample \div Block = k
  BY <1>1, <1>2, <1>3, MultNext, Quotient DEF FirstSample
<1>5. EndSample(k) = After(sample)
  BY <1>4 DEF After
<1>6. EndSample(k) <= Samples /\ Samples \in Nat /\ EndSample(k) \in Nat
  BY <1>1, SamplesInAll, FrameSamples
<1> QED  BY <1>2, <1>5, <1>6

LEMMA ConsumeWorks ==
  ASSUME file \in Recordings, NEW l \in Lib, NEW end \in Nat,
         l.at <= l.offset, l.offset <= Length
  PROVE  LET c == Consume(l, end) IN
         /\ c \in Lib /\ c.at <= c.offset /\ c.offset <= Length
         /\ c.decoded = l.decoded
         /\ c.state \in {"end", l.state}
         /\ c.at \in {end, l.offset, Length}
         /\ c.state # "end" => c.at = end /\ end <= Length
         /\ end > Length => c.state = "end"
<1> DEFINE wanted == l.offset + Capacity * CeilDiv(end - l.offset, Capacity)
           c == Consume(l, end)
<1>1. Length \in Nat /\ Capacity \in Nat \ {0}
  BY FileFacts
<1>2. l.offset \in Nat /\ l.at \in Nat /\ l.decoded \in Nat
      /\ l.state \in States /\ l.finished \in BOOLEAN
  BY DEF Lib
<1>3. CASE end <= l.offset
  <2>1. c = [l EXCEPT !.at = end]
    BY <1>3 DEF Consume
  <2> QED  BY <1>1, <1>2, <1>3, <2>1 DEF Lib
<1>4. CASE end > l.offset /\ ~l.finished /\ end <= Length
  <2>1. c = [l EXCEPT !.at = end, !.offset = Min2(wanted, Length),
                      !.finished = wanted > Length]
    BY <1>1, <1>2, <1>4 DEF Consume
  <2>2. wanted \in Nat /\ wanted >= end
    <3> DEFINE more == end - l.offset
    <3>0. more \in Int /\ more >= 0
      BY <1>2, <1>4
    <3> HIDE DEF more
    <3>1. CeilDiv(more, Capacity) \in Nat
          /\ more <= CeilDiv(more, Capacity) * Capacity
      BY <1>1, <3>0, CeilBounds
    <3>2. CeilDiv(more, Capacity) * Capacity
            = Capacity * CeilDiv(more, Capacity)
          /\ Capacity * CeilDiv(more, Capacity) \in Nat
      BY <1>1, <3>1, MultNat
    <3>3. wanted = l.offset + Capacity * CeilDiv(more, Capacity)
      BY DEF more
    <3> HIDE DEF wanted
    <3>4. wanted \in Nat /\ wanted >= l.offset + more
      BY <1>2, <3>0, <3>1, <3>2, <3>3
    <3> QED  BY <1>2, <3>4 DEF more
  <2>3. Min2(wanted, Length) \in Nat /\ end <= Min2(wanted, Length)
        /\ Min2(wanted, Length) <= Length
    BY <1>1, <1>4, <2>2 DEF Min2
  <2> DEFINE over == wanted > Length
  <2>5. over \in BOOLEAN
    BY <1>1, <2>2
  <2>6. c = [l EXCEPT !.at = end, !.offset = Min2(wanted, Length),
                      !.finished = over]
    BY <2>1
  <2> HIDE DEF wanted, c, over
  <2>4. c \in Lib /\ c.at = end /\ c.offset = Min2(wanted, Length)
        /\ c.decoded = l.decoded /\ c.state = l.state
    BY <1>2, <2>6, <2>3, <2>5 DEF Lib
  <2> QED  BY <1>4, <2>3, <2>4, <1>1, <1>2 DEF c
<1>5. CASE end > l.offset /\ (l.finished \/ end > Length)
  <2> DEFINE stop == IF l.finished THEN l.offset ELSE Length
  <2>1. c = [l EXCEPT !.at = stop, !.offset = stop, !.finished = TRUE,
                      !.state = "end"]
    BY <1>1, <1>2, <1>5 DEF Consume
  <2>2. stop \in Nat /\ stop <= Length /\ stop \in {l.offset, Length}
    BY <1>1, <1>2
  <2> HIDE DEF stop, c
  <2>3. c \in Lib /\ c.at = stop /\ c.offset = stop
        /\ c.decoded = l.decoded /\ c.state = "end"
    BY <1>2, <2>1, <2>2 DEF Lib, States
  <2> QED  BY <2>2, <2>3 DEF c
<1> QED  BY <1>1, <1>2, <1>3, <1>4, <1>5

\* A decoder that was opened is behind the header.
LEMMA OpenWorks ==
  ASSUME file \in Recordings, Consume(Fresh, Header).state # "end"
  PROVE  Consume(Fresh, Header).state = "sync" /\ Consume(Fresh, Header).at = Header
<1>1. Length \in Nat /\ Header \in Nat
  BY FileFacts
<1>2. Fresh \in Lib /\ Fresh.at = 0 /\ Fresh.offset = 0 /\ Fresh.state = "sync"
  BY DEF Fresh, Lib, States
<1> QED  BY <1>1, <1>2, ConsumeWorks

\* What is read ahead is a refill at most, and the end has been met with it.
ReadAhead(l) ==
  /\ l.offset - l.at <= Capacity
  /\ l.finished => l.offset = Length

LEMMA ConsumeReadsAhead ==
  ASSUME file \in Recordings, NEW l \in Lib, NEW end \in Nat,
         l.at <= l.offset, l.offset <= Length, ReadAhead(l), l.at <= end,
         l.state # "end"
  PROVE  LET c == Consume(l, end) IN
         /\ c.state # "end" => ReadAhead(c)
         /\ c.state = "end" => end > Length
<1> DEFINE more == end - l.offset
           wanted == l.offset + Capacity * CeilDiv(more, Capacity)
           c == Consume(l, end)
<1>1. Length \in Nat /\ Capacity \in Nat \ {0}
  BY FileFacts
<1>2. l.offset \in Nat /\ l.at \in Nat /\ l.decoded \in Nat
      /\ l.state \in States /\ l.finished \in BOOLEAN
  BY DEF Lib
<1>3. CASE end <= l.offset
  <2>1. c = [l EXCEPT !.at = end]
    BY <1>3 DEF Consume
  <2>2. c.at = end /\ c.offset = l.offset /\ c.finished = l.finished
        /\ c.state = l.state
    BY <1>2, <2>1 DEF Lib
  <2> QED  BY <1>1, <1>2, <1>3, <2>2 DEF ReadAhead
<1>4. CASE end > l.offset /\ ~l.finished /\ end <= Length
  <2> DEFINE over == wanted > Length
  <2>1. c = [l EXCEPT !.at = end, !.offset = Min2(wanted, Length),
                      !.finished = over]
    BY <1>1, <1>2, <1>4 DEF Consume
  <2>2. wanted \in Nat /\ wanted <= end + Capacity
    <3>0. more \in Int /\ more >= 0
      BY <1>2, <1>4
    <3> HIDE DEF more
    <3>1. CeilDiv(more, Capacity) \in Nat
          /\ CeilDiv(more, Capacity) * Capacity < more + Capacity
      BY <1>1, <3>0, CeilBounds
    <3>2. CeilDiv(more, Capacity) * Capacity
            = Capacity * CeilDiv(more, Capacity)
          /\ Capacity * CeilDiv(more, Capacity) \in Nat
      BY <1>1, <3>1, MultNat
    <3>3. wanted = l.offset + Capacity * CeilDiv(more, Capacity)
      OBVIOUS
    <3> HIDE DEF wanted
    <3>4. wanted \in Nat /\ wanted <= l.offset + more + Capacity
      BY <1>1, <1>2, <3>0, <3>1, <3>2, <3>3
    <3>5. l.offset + more = end
      BY <1>2 DEF more
    <3> QED  BY <3>4, <3>5
  <2> HIDE DEF wanted, c
  <2>3. Min2(wanted, Length) <= end + Capacity
        /\ (over => Min2(wanted, Length) = Length)
        /\ Min2(wanted, Length) \in Nat /\ over \in BOOLEAN
    BY <1>1, <2>2 DEF Min2
  <2> HIDE DEF over
  <2>4. c.at = end /\ c.offset = Min2(wanted, Length) /\ c.finished = over
        /\ c.state = l.state
    BY <1>2, <2>1, <2>3 DEF Lib
  <2> QED  BY <1>1, <1>2, <2>3, <2>4 DEF ReadAhead, c
<1>5. CASE end > l.offset /\ (l.finished \/ end > Length)
  <2> DEFINE stop == IF l.finished THEN l.offset ELSE Length
  <2>1. c = [l EXCEPT !.at = stop, !.offset = stop, !.finished = TRUE,
                      !.state = "end"]
    BY <1>1, <1>2, <1>5 DEF Consume
  <2>2. c.state = "end"
    BY <1>2, <2>1 DEF Lib
  <2>3. end > Length
    BY <1>1, <1>2, <1>5 DEF ReadAhead
  <2> QED  BY <2>2, <2>3
<1> QED  BY <1>1, <1>2, <1>3, <1>4, <1>5

\* One frame: what is decoded is the frame behind the place the decoder is at,
\* and the decoder is then behind that frame; if none is, it is at its end.
LEMMA DecodeFrameWorks ==
  ASSUME file \in Recordings, NEW l \in Lib, Positioned(l), Header <= Length,
         l.state = "sync", NEW seeking \in BOOLEAN
  PROVE  LET p == DecodeFrame(l, seeking)
             f == FrameAfter(l.at) IN
         /\ p.lib \in Lib /\ Positioned(p.lib) /\ p.result \in BOOLEAN
         /\ f \in Nat
         /\ \/ p.frame = -1 /\ p.lib.state = "end"
               /\ (f >= file.frames => p.result)
            \/ /\ p.frame = f /\ f < file.frames /\ p.result
               /\ p.lib.state = "sync" /\ p.lib.at = FrameStart(f + 1)
               /\ p.lib.decoded = EndSample(f)
<1> DEFINE f == FrameAfter(l.at)
           skips == ~seeking /\ FrameStart(f) # l.at
           begun == [l EXCEPT !.finished = @ \/ skips]
           synced == Consume(begun, FrameStart(f) + 1)
           whole == Consume(begun, FrameStart(f + 1))
           rest == Consume(begun, Length + 1)
           cut == synced.state = "end"
           p == DecodeFrame(l, seeking)
<1>1. /\ Header \in Nat /\ Length \in Nat /\ file.size \in Nat \ {0}
      /\ file.frames \in Nat
  BY FileFacts
<1>2. l.at \in Nat /\ l.offset \in Nat /\ l.decoded \in Nat
      /\ l.finished \in BOOLEAN
  BY DEF Lib
<1>3. f \in Nat
  <2>1. l.at - Header \in Int /\ l.at - Header >= 0
    BY <1>1, <1>2 DEF Positioned
  <2> QED  BY <1>1, <2>1, CeilBounds DEF FrameAfter
<1>4. /\ f + 1 \in Nat
      /\ FrameStart(f) \in Nat /\ FrameStart(f + 1) \in Nat
      /\ Header <= FrameStart(f + 1) /\ EndSample(f) \in Nat
  BY <1>3, FrameStarts, FrameSamples
<1>5. begun \in Lib /\ begun.at = l.at /\ begun.offset = l.offset
      /\ begun.state = "sync" /\ begun.decoded = l.decoded
  <2> DEFINE flag == l.finished \/ skips
  <2>1. begun = [l EXCEPT !.finished = flag] /\ flag \in BOOLEAN
    BY <1>2
  <2> HIDE DEF begun, flag, skips
  <2> QED  BY <2>1 DEF Lib
<1>6. begun.at <= begun.offset /\ begun.offset <= Length
  BY <1>5 DEF Positioned
<1>7. p = IF f >= file.frames THEN Decoded(rest, TRUE, -1)
          ELSE IF whole.state = "end"
          THEN Decoded(whole, cut, -1)
          ELSE Decoded([whole EXCEPT !.decoded = EndSample(f)], TRUE, f)
  BY DEF DecodeFrame
<1>10. cut \in BOOLEAN
  OBVIOUS
<1> HIDE DEF f, begun, synced, whole, rest, cut, p
<1>8. CASE f >= file.frames
  <2>1. /\ rest \in Lib /\ rest.at <= rest.offset /\ rest.offset <= Length
        /\ rest.at \in {Length + 1, begun.offset, Length}
        /\ rest.state = "end"
    <3> DEFINE beyond == Length + 1
    <3>1. beyond \in Nat /\ beyond > Length
      BY <1>1
    <3>2. rest = Consume(begun, beyond)
      BY DEF rest
    <3> HIDE DEF beyond
    <3>3. rest \in Lib /\ rest.at <= rest.offset /\ rest.offset <= Length
          /\ rest.at \in {beyond, begun.offset, Length}
          /\ rest.state = "end"
      BY <1>5, <1>6, <3>1, <3>2, ConsumeWorks
    <3> QED  BY <3>3 DEF beyond
  <2>2. Header <= rest.at
    BY <1>1, <1>2, <1>5, <2>1 DEF Positioned
  <2>3. p.lib = rest /\ p.frame = -1 /\ p.result = TRUE
    BY <1>7, <1>8 DEF Decoded
  <2> QED  BY <1>3, <2>1, <2>2, <2>3 DEF Positioned, p, f
<1>9. CASE f < file.frames
  <2>1. /\ whole \in Lib /\ whole.at <= whole.offset /\ whole.offset <= Length
        /\ whole.at \in {FrameStart(f + 1), begun.offset, Length}
        /\ whole.state \in {"end", "sync"}
        /\ whole.state # "end" => whole.at = FrameStart(f + 1)
    BY <1>4, <1>5, <1>6, ConsumeWorks DEF whole
  <2>2. Header <= whole.at
    BY <1>1, <1>2, <1>4, <1>5, <2>1 DEF Positioned
  <2>3. CASE whole.state = "end"
    <3>1. p.lib = whole /\ p.frame = -1 /\ p.result \in BOOLEAN
      <4>2. ~(f >= file.frames)
        BY <1>1, <1>3, <1>9
      <4>1. p = Decoded(whole, cut, -1)
        BY <1>7, <2>3, <4>2, Zenon
      <4> QED  BY <1>10, <4>1 DEF Decoded
    <3> QED  BY <1>1, <1>3, <1>9, <2>1, <2>2, <2>3, <3>1 DEF Positioned, p, f
  <2>4. CASE whole.state # "end"
    <3>1. p.lib = [whole EXCEPT !.decoded = EndSample(f)] /\ p.frame = f
          /\ p.result = TRUE
      BY <1>1, <1>3, <1>7, <1>9, <2>4 DEF Decoded
    <3>2. /\ p.lib \in Lib /\ p.lib.at = whole.at /\ p.lib.offset = whole.offset
          /\ p.lib.state = whole.state /\ p.lib.decoded = EndSample(f)
      BY <1>4, <2>1, <3>1 DEF Lib
    <3> QED  BY <1>3, <1>9, <2>1, <2>2, <2>4, <3>1, <3>2 DEF Positioned, p, f
  <2> QED  BY <2>3, <2>4
<1> QED  BY <1>1, <1>3, <1>8, <1>9

LEMMA ProcessWorks ==
  ASSUME file \in Recordings, NEW l \in Lib, Positioned(l), Header <= Length,
         NEW seeking \in BOOLEAN
  PROVE  LET p == ProcessSingle(l, seeking)
             f == FrameAfter(l.at) IN
         /\ p.lib \in Lib /\ Positioned(p.lib) /\ p.result \in BOOLEAN
         /\ l.state = "sync" => f \in Nat
         /\ \/ /\ p.frame = -1
               /\ IF l.state = "sync"
                  THEN p.lib.state = "end" /\ (f >= file.frames => p.result)
                  ELSE p.lib = l /\ (p.result <=> l.state = "end")
            \/ /\ l.state = "sync" /\ p.frame = f /\ f < file.frames /\ p.result
               /\ p.lib.state = "sync" /\ p.lib.at = FrameStart(f + 1)
               /\ p.lib.decoded = EndSample(f)
<1> DEFINE p == ProcessSingle(l, seeking)
           f == FrameAfter(l.at)
<1>1. CASE l.state # "sync"
  <2> DEFINE ended == l.state = "end"
  <2>1. p = Decoded(l, ended, -1) /\ ended \in BOOLEAN
    BY <1>1 DEF ProcessSingle
  <2> HIDE DEF ended, p
  <2>2. p.lib = l /\ p.frame = -1 /\ p.result = ended
    BY <2>1 DEF Decoded
  <2>3. p.result \in BOOLEAN /\ (p.result <=> l.state = "end")
    BY <2>1, <2>2 DEF ended
  <2> QED  BY <1>1, <2>2, <2>3 DEF p
<1>2. CASE l.state = "sync" /\ Total > 0 /\ l.decoded >= Total
  <2>1. p = Decoded([l EXCEPT !.state = "end"], TRUE, -1)
    BY <1>2 DEF ProcessSingle
  <2>2. p.lib = [l EXCEPT !.state = "end"] /\ p.frame = -1 /\ p.result = TRUE
    BY <2>1 DEF Decoded
  <2>3. p.lib \in Lib /\ p.lib.at = l.at /\ p.lib.offset = l.offset
        /\ p.lib.state = "end"
    BY <2>2 DEF Lib, States
  <2>4. f \in Nat
    BY <1>2, DecodeFrameWorks
  <2> QED  BY <1>2, <2>2, <2>3, <2>4 DEF Positioned
<1>3. CASE l.state = "sync" /\ ~(Total > 0 /\ l.decoded >= Total)
  <2>1. p = DecodeFrame(l, seeking)
    BY <1>3 DEF ProcessSingle
  <2> HIDE DEF p, f
  <2>2. /\ p.lib \in Lib /\ Positioned(p.lib) /\ p.result \in BOOLEAN
        /\ f \in Nat
        /\ \/ p.frame = -1 /\ p.lib.state = "end"
              /\ (f >= file.frames => p.result)
           \/ /\ p.frame = f /\ f < file.frames /\ p.result
              /\ p.lib.state = "sync" /\ p.lib.at = FrameStart(f + 1)
              /\ p.lib.decoded = EndSample(f)
    BY <1>3, <2>1, DecodeFrameWorks DEF f
  <2> QED  BY <1>3, <2>2 DEF p, f
<1> QED  BY <1>1, <1>2, <1>3

\* The sound goes on where the decoder is.
LEMMA ProcessInOrder ==
  ASSUME file \in Recordings, NEW l \in Lib, Positioned(l), Header <= Length,
         NEW seeking \in BOOLEAN, NEW sample \in Nat,
         l.state = "sync", GoesOnWith(l, sample),
         ProcessSingle(l, seeking).frame # -1
  PROVE  LET p == ProcessSingle(l, seeking) IN
         /\ p.frame \in 0..file.frames - 1
         /\ FirstSample(p.frame) = sample
         /\ GoesOnWith(p.lib, EndSample(p.frame))
         /\ p.frame = file.frames - 1 => p.lib.at = FrameStart(file.frames)
<1> DEFINE p == ProcessSingle(l, seeking)
<1>1. file.frames \in Nat
  BY FileFacts
<1>2. PICK k \in 0..file.frames :
        l.at = FrameStart(k) /\ (k < file.frames => sample = FirstSample(k))
  BY DEF GoesOnWith
<1>3. k \in Nat /\ FrameAfter(l.at) = k
  BY <1>1, <1>2, FrameStarts
<1> HIDE DEF p
<1>4. /\ p.frame = k /\ k < file.frames
      /\ p.lib.state = "sync" /\ p.lib.at = FrameStart(k + 1)
  BY <1>3, ProcessWorks DEF p
<1>5. k + 1 \in 0..file.frames
      /\ (k + 1 < file.frames => EndSample(k) = FirstSample(k + 1))
  BY <1>1, <1>3, <1>4, FrameSamples
<1>6. GoesOnWith(p.lib, EndSample(k))
  BY <1>4, <1>5 DEF GoesOnWith
<1>7. k = file.frames - 1 => k + 1 = file.frames
  BY <1>1, <1>3
<1> QED  BY <1>1, <1>2, <1>3, <1>4, <1>6, <1>7 DEF p

LEMMA NothingLeft ==
  ASSUME file \in Recordings, NEW k \in Nat, WholeFrames <= k
  PROVE  Left(k)
<1>1. WholeFrames \in Int /\ file.size \in Nat \ {0} /\ Capacity \in Nat
  <2>1. Length - Header \in Int /\ file.size \in Nat \ {0} /\ Capacity \in Nat
    BY FileFacts
  <2> QED  BY <2>1, Division DEF WholeFrames
<1>2. k - WholeFrames \in Nat
  BY <1>1
<1>3. (k - WholeFrames) * file.size \in Nat
  BY <1>1, <1>2, MultNat
<1>4. (WholeFrames - k) * file.size = -((k - WholeFrames) * file.size)
  BY <1>1
<1> QED  BY <1>1, <1>3, <1>4 DEF Left

LEMMA WholeFramesFit ==
  ASSUME file \in Recordings
  PROVE  /\ WholeFrames \in Int /\ WholeFrames <= file.frames
         /\ \A k \in Nat : FrameStart(k + 1) > Length => WholeFrames <= k
         /\ \A k \in Nat : (WholeFrames - k) * file.size <= Length - FrameStart(k)
<1> DEFINE room == Length - Header
<1>1. /\ room \in Int /\ file.size \in Nat \ {0} /\ file.frames \in Nat
      /\ Header \in Nat /\ Length \in Nat
      /\ room <= file.frames * file.size /\ file.frames * file.size \in Nat
  BY FileFacts, MultNat
<1>2. WholeFrames = room \div file.size
  BY DEF WholeFrames
<1> HIDE DEF room
<1>3. WholeFrames \in Int /\ WholeFrames * file.size <= room
  BY <1>1, <1>2, Division
<1>4. ASSUME NEW k \in Nat, WholeFrames * file.size < (k + 1) * file.size
      PROVE  WholeFrames <= k
  BY <1>1, <1>3, <1>4, MultStrict
<1>5. WholeFrames <= file.frames
  <2>1. (file.frames + 1) * file.size = file.frames * file.size + file.size
    BY <1>1, MultNext
  <2>2. WholeFrames * file.size \in Int
    BY <1>1, <1>3
  <2>3. WholeFrames * file.size < (file.frames + 1) * file.size
    BY <1>1, <1>3, <2>1, <2>2
  <2> QED  BY <1>1, <1>4, <2>3
<1>6. ASSUME NEW k \in Nat, FrameStart(k + 1) > Length
      PROVE  WholeFrames <= k
  <2>1. (k + 1) * file.size > room /\ (k + 1) * file.size \in Nat
    BY <1>1, <1>6, MultNat DEF FrameStart, room
  <2>2. WholeFrames * file.size \in Int
    BY <1>1, <1>3
  <2>3. WholeFrames * file.size < (k + 1) * file.size
    BY <1>1, <1>3, <2>1, <2>2
  <2> QED  BY <1>4, <2>3
<1>7. ASSUME NEW k \in Nat
      PROVE  (WholeFrames - k) * file.size <= Length - FrameStart(k)
  <2>1. (WholeFrames - k) * file.size = WholeFrames * file.size - k * file.size
    BY <1>1, <1>3
  <2>2. k * file.size \in Nat /\ WholeFrames * file.size \in Int
    BY <1>1, <1>3, MultNat
  <2> QED  BY <1>1, <1>3, <2>1, <2>2 DEF FrameStart, room
<1> QED  BY <1>3, <1>5, <1>6, <1>7

LEMMA ProcessReadsAhead ==
  ASSUME file \in Recordings, NEW l \in Lib, Positioned(l), Header <= Length,
         NEW k \in Nat, At(l, k), l.state = "sync"
  PROVE  LET p == ProcessSingle(l, FALSE) IN
         \/ p.frame = -1 /\ p.lib.state = "end" /\ Left(k)
         \/ p.frame = k /\ p.lib.state = "sync" /\ At(p.lib, k + 1)
<1> DEFINE p == ProcessSingle(l, FALSE)
           f == FrameAfter(l.at)
<1>1. /\ l.at = FrameStart(k) /\ k <= file.frames /\ ReadAhead(l)
      /\ l.decoded = IF k = 0 THEN 0 ELSE EndSample(k - 1)
  BY DEF At, ReadAhead
<1>2. file.frames \in Nat /\ Length \in Nat /\ file.size \in Nat \ {0}
      /\ l.decoded \in Nat /\ l.at \in Nat /\ l.offset \in Nat
  BY FileFacts DEF Lib
<1>3. f = k
  BY <1>1, FrameStarts
<1>4. CASE k = file.frames
  <2> HIDE DEF p, f
  <2>3. ~(f < file.frames)
    BY <1>2, <1>3, <1>4
  <2>1. p.frame = -1 /\ p.lib.state = "end"
    BY <2>3, ProcessWorks DEF p, f
  <2>2. Left(k)
    BY <1>4, WholeFramesFit, NothingLeft
  <2> QED  BY <2>1, <2>2 DEF p
<1>5. CASE k < file.frames
  <2>1. ~(Total > 0 /\ l.decoded >= Total)
    <3>1. CASE k = 0
      BY <1>1, <3>1, SamplesInAll
    <3>2. CASE k # 0
      <4>1. k \in 1..file.frames /\ k - 1 \in 0..file.frames - 1 /\ k - 1 \in Nat
        BY <1>2, <1>5, <3>2
      <4>2. /\ EndSample(k - 1) <= Samples /\ EndSample(k - 1) # Samples
            /\ EndSample(k - 1) \in Nat /\ Samples \in Nat
            /\ Total \in {0, Samples}
        BY <1>5, <1>2, <4>1, SamplesInAll, FrameSamples
      <4>3. l.decoded = EndSample(k - 1)
        BY <1>1, <3>2
      <4> QED  BY <4>2, <4>3
    <3> QED  BY <3>1, <3>2
  <2>2. p = DecodeFrame(l, FALSE)
    BY <2>1 DEF ProcessSingle
  <2> DEFINE skips == ~FALSE /\ FrameStart(f) # l.at
             begun == [l EXCEPT !.finished = @ \/ skips]
             synced == Consume(begun, FrameStart(f) + 1)
             whole == Consume(begun, FrameStart(f + 1))
             cut == synced.state = "end"
  <2>3. begun = l
    BY <1>1, <1>3 DEF Lib
  <2>4. ~(f >= file.frames)
    BY <1>2, <1>3, <1>5
  <2>5. p = IF whole.state = "end" THEN Decoded(whole, cut, -1)
            ELSE Decoded([whole EXCEPT !.decoded = EndSample(f)], TRUE, f)
    BY <2>2, <2>4 DEF DecodeFrame
  <2>6. whole = Consume(l, FrameStart(k + 1))
    BY <1>3, <2>3
  <2> HIDE DEF p, f, whole, cut, begun, synced
  <2>7. FrameStart(k + 1) \in Nat /\ l.at <= FrameStart(k + 1)
        /\ l.at <= l.offset /\ l.offset <= Length
    BY <1>1, <1>2, FrameStarts DEF Positioned
  <2>8. /\ whole \in Lib
        /\ whole.state \in {"end", "sync"}
        /\ whole.state # "end" => whole.at = FrameStart(k + 1)
    BY <2>6, <2>7, ConsumeWorks
  <2>9. /\ whole.state # "end" => ReadAhead(whole)
        /\ whole.state = "end" => FrameStart(k + 1) > Length
    BY <1>1, <2>6, <2>7, ConsumeReadsAhead
  <2>10. CASE whole.state = "end"
    <3>1. p.frame = -1 /\ p.lib = whole
      BY <2>5, <2>10 DEF Decoded
    <3>2. Left(k)
      BY <2>9, <2>10, WholeFramesFit, NothingLeft
    <3> QED  BY <2>10, <3>1, <3>2 DEF p
  <2>11. CASE whole.state # "end"
    <3>1. p.frame = k /\ p.lib = [whole EXCEPT !.decoded = EndSample(k)]
      BY <1>3, <2>5, <2>11 DEF Decoded
    <3>2. /\ p.lib.state = "sync" /\ p.lib.at = FrameStart(k + 1)
          /\ p.lib.offset = whole.offset /\ p.lib.finished = whole.finished
          /\ p.lib.decoded = EndSample(k)
      BY <2>8, <2>11, <3>1 DEF Lib
    <3>3. k + 1 <= file.frames /\ k + 1 # 0 /\ (k + 1) - 1 = k
      BY <1>2, <1>5
    <3>4. At(p.lib, k + 1)
      BY <2>8, <2>9, <2>11, <3>2, <3>3 DEF At, ReadAhead
    <3> QED  BY <3>1, <3>2, <3>4 DEF p
  <2> QED  BY <2>10, <2>11
<1>6. k = file.frames \/ k < file.frames
  BY <1>1, <1>2
<1> QED  BY <1>4, <1>5, <1>6
-------------------------------------------------------------------------------
(* The steps of read(), and the types.                                     *)

LEMMA CheckStateWorks ==
  ASSUME NEW l \in Lib
  PROVE  /\ CheckState(l) \in {0, -1, -2, -4}
         /\ CheckState(l) = 0 <=> ~l.finished /\ l.state \in {"sync", "frame"}
         /\ CheckState(l) = -4 <=> ~l.finished /\ l.state = "seek_error"
<1>1. l.finished \in BOOLEAN /\ l.state \in States
  BY DEF Lib
<1>2. CASE l.finished
  BY <1>2 DEF CheckState
<1>3. CASE ~l.finished /\ l.state = "end"
  BY <1>3 DEF CheckState
<1>4. CASE ~l.finished /\ l.state = "seek_error"
  BY <1>4 DEF CheckState
<1>5. CASE ~l.finished /\ l.state \in {"sync", "frame"}
  BY <1>5 DEF CheckState
<1> QED  BY <1>1, <1>2, <1>3, <1>4, <1>5 DEF States

LEMMA CheckedWorks ==
  ASSUME NEW l \in Lib
  PROVE  /\ Checked(l) \in Lib /\ Checked(l).at = l.at
         /\ Checked(l).offset = l.offset /\ Checked(l).state = l.state
         /\ Checked(l).decoded = l.decoded
         /\ l.state # "end" => Checked(l).finished = l.finished
<1> DEFINE ended == l.finished \/ l.state = "end"
<1>1. Checked(l) = [l EXCEPT !.finished = ended]
  BY DEF Checked
<1>2. ended \in BOOLEAN /\ (l.state # "end" => ended = l.finished)
  BY DEF Lib
<1> HIDE DEF ended
<1> QED  BY <1>1, <1>2 DEF Lib

LEMMA FlushWorks ==
  ASSUME NEW l \in Lib
  PROVE  /\ Flush(l) \in Lib /\ Flush(l).at = l.offset
         /\ Flush(l).offset = l.offset /\ Flush(l).state = "sync"
BY DEF Flush, Lib, States

LEMMA ProbePlace ==
  ASSUME file \in Recordings, Header <= Length, Searching, m_seek_pos \in Int,
         search.lowerSample < search.upperSample
  PROVE  ProbePos \in Header..Length
<1> DEFINE s == search
           span == s.upperSample - s.lowerSample
           share == (m_seek_pos - s.lowerSample) * (s.upper - s.lower)
           pos == s.lower - s.approx + share \div span
           capped == IF pos >= s.upper THEN s.upper - 1 ELSE pos
<1>1. Header \in Nat /\ Length \in Nat
  BY FileFacts
<1>2. /\ s.lower \in Header..Length /\ s.upper \in Header..Length
      /\ s.lowerSample \in Int /\ s.upperSample \in Int /\ s.approx \in Int
  BY DEF Searching
<1>3. span \in Nat \ {0}
  BY <1>2
<1>4. share \in Int
  <2>1. m_seek_pos - s.lowerSample \in Int /\ s.upper - s.lower \in Int
    BY <1>1, <1>2
  <2> QED  BY <2>1
<1>5. ProbePos = IF capped < s.lower THEN s.lower ELSE capped
  BY DEF ProbePos
<1> HIDE DEF share, span
<1>6. share \div span \in Int
  BY <1>3, <1>4, Division
<1>7. pos \in Int
  BY <1>1, <1>2, <1>6
<1> HIDE DEF pos
<1> QED  BY <1>1, <1>2, <1>5, <1>7

\* A round of the search that is tried: a frame of the file or none.
LEMMA ProbedWorks ==
  ASSUME file \in Recordings, lib \in Lib, Header <= Length, Searching,
         m_seek_pos \in Int, search.lowerSample < search.upperSample
  PROVE  /\ Probed.lib \in Lib /\ Positioned(Probed.lib)
         /\ Probed.result \in BOOLEAN
         /\ \/ Probed.frame = -1
            \/ /\ Probed.frame \in 0..file.frames - 1
               /\ Probed.lib.state = "sync"
               /\ Probed.lib.at = FrameStart(Probed.frame + 1)
<1> DEFINE moved == [lib EXCEPT !.offset = ProbePos]
           l == Flush(moved)
<1>1. ProbePos \in Header..Length /\ Header \in Nat /\ Length \in Nat
      /\ file.frames \in Nat
  BY ProbePlace, FileFacts
<1>2. moved \in Lib /\ moved.offset = ProbePos
  BY <1>1 DEF Lib
<1> HIDE DEF moved
<1>3. l \in Lib /\ l.at = ProbePos /\ l.offset = ProbePos /\ l.state = "sync"
  BY <1>2, FlushWorks
<1>4. Probed = ProcessSingle(l, TRUE)
  BY DEF Probed, moved
<1> HIDE DEF l
<1>5. Positioned(l)
  BY <1>1, <1>3 DEF Positioned
<1>6. FrameAfter(l.at) \in Nat
  BY <1>3, <1>5, ProcessWorks
<1> DEFINE f == FrameAfter(l.at)
<1>7. /\ Probed.lib \in Lib /\ Positioned(Probed.lib)
      /\ Probed.result \in BOOLEAN
      /\ \/ Probed.frame = -1
         \/ /\ Probed.frame = f /\ f < file.frames
            /\ Probed.lib.state = "sync" /\ Probed.lib.at = FrameStart(f + 1)
  BY <1>3, <1>4, <1>5, ProcessWorks
<1> HIDE DEF f
<1>8. f \in Nat
  BY <1>6 DEF f
<1> QED  BY <1>1, <1>7, <1>8

\* A round of the search finds the target's frame, fails, or narrows the
\* bounds.
LEMMA SeekProbeCases ==
  ASSUME Types, SeekProbe
  PROVE  /\ lib' \in Lib /\ Positioned(lib') /\ file' = file
         /\ m_seek_pos' = m_seek_pos
         /\ \/ \E f \in 0..file.frames - 1 :
                 /\ InFrame(f, m_seek_pos)
                 /\ WriteInternal(m_seek_pos, EndSample(f) - m_seek_pos)
                 /\ lib'.state = "sync" /\ lib'.at = FrameStart(f + 1)
                 /\ pc' = "sought"
            \/ /\ lib'.state = "seek_error" /\ pc' = "sought"
               /\ UNCHANGED <<writes, m_buffer, m_buf_used, m_cur_pos>>
            \/ /\ Searching' /\ pc' = "probe"
               /\ UNCHANGED <<writes, m_buffer, m_buf_used, m_cur_pos>>
<1> DEFINE tried == search.lowerSample < search.upperSample
                      /\ search.lower <= search.upper
           p == IF tried THEN Probed ELSE Decoded(lib, FALSE, -1)
<1>1. /\ file \in Recordings /\ lib \in Lib /\ Header <= Length /\ Searching
      /\ m_seek_pos \in Nat /\ Positioned(lib) /\ pc = "probe"
  BY DEF Types, TypeOK, SeekProbe
<1>2. file.frames \in Nat /\ Length \in Nat /\ Header \in Nat
  BY <1>1, FileFacts
<1>3. /\ p.lib \in Lib /\ Positioned(p.lib) /\ p.result \in BOOLEAN
      /\ \/ p.frame = -1
         \/ /\ p.frame \in 0..file.frames - 1
            /\ p.lib.state = "sync" /\ p.lib.at = FrameStart(p.frame + 1)
      /\ ~tried => ~p.result /\ p.frame = -1
  <2>1. CASE tried
    <3>1. p = Probed
      BY <2>1
    <3> QED  BY <1>1, <2>1, <3>1, ProbedWorks
  <2>2. CASE ~tried
    BY <1>1, <2>2 DEF Decoded
  <2> QED  BY <2>1, <2>2
<1>4. /\ IF p.frame # -1 /\ InFrame(p.frame, m_seek_pos)
         THEN /\ WriteInternal(m_seek_pos, EndSample(p.frame) - m_seek_pos)
              /\ lib' = p.lib
              /\ pc' = "sought"
         ELSE /\ UNCHANGED <<writes, m_buffer, m_buf_used, m_cur_pos>>
              /\ IF SearchFailed(p)
                 THEN /\ lib' = [p.lib EXCEPT !.state = "seek_error"]
                      /\ pc' = "sought"
                 ELSE /\ lib' = p.lib
                      /\ search' = Narrowed(p)
                      /\ UNCHANGED pc
      /\ file' = file /\ m_seek_pos' = m_seek_pos
  BY DEF SeekProbe
<1>5. ~p.result => SearchFailed(p)
  BY DEF SearchFailed
<1> HIDE DEF p
<1>6. CASE p.frame # -1 /\ InFrame(p.frame, m_seek_pos)
  <2> DEFINE f == p.frame
  <2>1. f \in 0..file.frames - 1 /\ p.lib.state = "sync"
        /\ p.lib.at = FrameStart(f + 1)
    BY <1>3, <1>6
  <2>2. /\ InFrame(f, m_seek_pos) /\ pc' = "sought" /\ lib' = p.lib
        /\ WriteInternal(m_seek_pos, EndSample(f) - m_seek_pos)
    BY <1>4, <1>6
  <2> HIDE DEF f
  <2> QED  BY <1>3, <1>4, <2>1, <2>2
<1>7. CASE ~(p.frame # -1 /\ InFrame(p.frame, m_seek_pos)) /\ SearchFailed(p)
  <2>1. lib' = [p.lib EXCEPT !.state = "seek_error"] /\ pc' = "sought"
        /\ UNCHANGED <<writes, m_buffer, m_buf_used, m_cur_pos>>
    BY <1>4, <1>7
  <2>2. lib' \in Lib /\ Positioned(lib') /\ lib'.state = "seek_error"
    BY <1>3, <2>1 DEF Lib, Positioned, States
  <2> QED  BY <1>4, <2>1, <2>2
<1>8. CASE ~(p.frame # -1 /\ InFrame(p.frame, m_seek_pos)) /\ ~SearchFailed(p)
  <2>1. lib' = p.lib /\ search' = Narrowed(p) /\ pc' = pc
        /\ UNCHANGED <<writes, m_buffer, m_buf_used, m_cur_pos>>
    BY <1>4, <1>8
  <2>2. search.lowerSample < search.upperSample
    BY <1>3, <1>5, <1>8
  <2>3. ProbePos \in Int
    BY <1>1, <1>2, <2>2, ProbePlace
  <2>4. p.lib.at \in Header..Length
    BY <1>2, <1>3 DEF Lib, Positioned
  <2> DEFINE S == [lower : Header..Length, upper : Header..Length,
                   lowerSample : Int, upperSample : Int, approx : Int,
                   first : BOOLEAN]
             guess == (2 * (p.lib.at - ProbePos)) \div 3 + 1
  <2>5. guess \in Int /\ 2 * search.approx \in Int
    <3>1. 2 * (p.lib.at - ProbePos) \in Int
      BY <1>2, <2>3, <2>4
    <3>2. (2 * (p.lib.at - ProbePos)) \div 3 \in Int
      BY <3>1, Division
    <3> QED  BY <1>1, <3>2 DEF Searching
  <2>6. search \in S
    BY <1>1 DEF Searching
  <2>7. \/ p.frame = -1 /\ search' = [search EXCEPT !.approx = 2 * @]
        \/ search' = [search EXCEPT !.approx = 2 * @]
        \/ p.frame # -1
           /\ search' = [search EXCEPT !.upperSample = EndSample(p.frame),
                           !.upper = p.lib.at, !.approx = guess, !.first = FALSE]
        \/ p.frame # -1
           /\ search' = [search EXCEPT !.lowerSample = EndSample(p.frame),
                           !.lower = p.lib.at, !.approx = guess, !.first = FALSE]
    BY <2>1 DEF Narrowed
  <2>8. p.frame # -1 => EndSample(p.frame) \in Int
    BY <1>1, <1>2, <1>3, FrameSamples
  <2> HIDE DEF guess
  <2>9. search' \in S
    <3> DEFINE e == EndSample(p.frame)
    <3>1. p.frame # -1 => e \in Int
      BY <2>8
    <3> HIDE DEF e
    <3>2. CASE search' = [search EXCEPT !.approx = 2 * @]
      <4> DEFINE twice == 2 * search.approx
      <4>1. search' = [search EXCEPT !.approx = twice] /\ twice \in Int
        BY <2>5, <3>2
      <4> HIDE DEF twice
      <4> QED  BY <2>6, <4>1
    <3>3. CASE /\ p.frame # -1
               /\ search' = [search EXCEPT !.upperSample = e,
                             !.upper = p.lib.at, !.approx = guess, !.first = FALSE]
      BY <2>4, <2>5, <2>6, <3>1, <3>3
    <3>4. CASE /\ p.frame # -1
               /\ search' = [search EXCEPT !.lowerSample = e,
                             !.lower = p.lib.at, !.approx = guess, !.first = FALSE]
      BY <2>4, <2>5, <2>6, <3>1, <3>4
    <3> QED  BY <2>7, <3>2, <3>3, <3>4 DEF e
  <2>10. Length' = Length
    BY <1>4 DEF Length
  <2>11. Searching'
    BY <2>9, <2>10 DEF Searching
  <2> QED  BY <1>1, <1>3, <1>4, <2>1, <2>11
<1> QED  BY <1>6, <1>7, <1>8

LEMMA BufferHoldsBlock ==
  ASSUME file \in Recordings
  PROVE  /\ BufSize \in Nat \ {0} /\ MinBuffer \in Nat \ {0}
         /\ MinBuffer <= BufSize /\ MinBuffer = Block * Channels
<1>1. Block \in Nat \ {0} /\ Channels \in {1, 2} /\ file.buffer \in Nat
  BY DecoderAssumption DEF Recording
<1>2. MinBuffer \in Nat \ {0}
  BY <1>1 DEF MinBuffer
<1> QED  BY <1>1, <1>2 DEF BufSize, MinBuffer

LEMMA WritesSpan ==
  ASSUME file \in Recordings,
         NEW first \in Nat, NEW n \in Nat, WriteInternal(first, n),
         m_buffer \in Nat, m_buf_used \in 0..BufSize, writes \in Seq(Span),
         m_cur_pos \in Int
  PROVE  /\ writes' \in Seq(Span)
         /\ m_buffer' \in Nat /\ m_buf_used' \in 0..BufSize /\ m_cur_pos' \in Int
<1>1. BufSize \in Nat /\ Channels \in {1, 2}
  BY BufferHoldsBlock, DecoderAssumption
<1>2. Stored(n) \in Nat /\ m_buf_used + Stored(n) <= BufSize
  <2>1. n * Channels \in Nat
    BY <1>1
  <2> QED  BY <1>1, <2>1 DEF Stored, Min2
<1>3. [out |-> m_buffer, used |-> m_buf_used, first |-> first, n |-> n] \in Span
  BY <1>1 DEF Span
<1> QED  BY <1>1, <1>2, <1>3 DEF WriteInternal

PlayedSpan == [out : Nat, used : Nat, first : Nat, n : Nat, seek : Seek]
Heard == [i \in DOMAIN writes |-> Play(writes[i])]

LEMMA HeardSpans ==
  ASSUME writes \in Seq(Span), seek \in Seek
  PROVE  Heard \in Seq(PlayedSpan) /\ Len(Heard) = Len(writes)
         /\ \A i \in 1..Len(writes) : Heard[i] = Play(writes[i])
<1>1. Len(writes) \in Nat /\ DOMAIN writes = 1..Len(writes)
      /\ \A i \in 1..Len(writes) : writes[i] \in Span
  OBVIOUS
<1>2. \A i \in 1..Len(writes) : Play(writes[i]) \in PlayedSpan
  BY <1>1 DEF Play, Span, PlayedSpan
<1>3. Heard \in [1..Len(writes) -> PlayedSpan]
  BY <1>1, <1>2 DEF Heard
<1>4. Heard \in Seq(PlayedSpan)
  BY <1>1, <1>3, SeqDef
<1>5. DOMAIN Heard = 1..Len(Heard) /\ DOMAIN Heard = 1..Len(writes)
      /\ Len(Heard) \in Nat
  BY <1>3, <1>4
<1>6. Len(Heard) = Len(writes)
  <2> DEFINE a == Len(Heard)
             b == Len(writes)
  <2>1. a \in Nat /\ b \in Nat
    BY <1>1, <1>5
  <2>2. \A i \in Nat : i \in 1..a <=> i \in 1..b
    BY <1>5
  <2> HIDE DEF a, b
  <2>3. a <= b
    BY <2>1, <2>2
  <2>4. b <= a
    BY <2>1, <2>2
  <2> QED  BY <2>1, <2>3, <2>4 DEF a, b
<1> QED  BY <1>1, <1>4, <1>6 DEF Heard

LEMMA TypesInit == Init => Types
<1> SUFFICES ASSUME Init PROVE Types
  OBVIOUS
<1>1. lib \in Lib
  BY DEF Init, DecoderInit, Fresh, Lib, States
<1>2. BufSize \in Nat /\ MaxCalls \in Nat
  BY BufferHoldsBlock, PlayerAssumption DEF Init, DecoderInit
<1>3. NoSeek \in Seek
  BY DEF NoSeek, Seek
<1> QED
  BY <1>1, <1>2, <1>3 DEF Init, DecoderInit, Types, TypeOK, PlayerPcs

\* What a step of the decoder leaves alone.
LEMMA SameFile ==
  ASSUME file' = file
  PROVE  /\ Length' = Length /\ BufSize' = BufSize
         /\ Positioned(lib)' <=> Positioned(lib')
BY DEF Length, Positioned, BufSize, MinBuffer

LEMMA TypesOpen ==
  ASSUME Types, OpenDecoder
  PROVE  Types'
<1>1. /\ file \in Recordings /\ file' = file /\ lib = Fresh /\ pc = "closed"
      /\ lib' = Consume(lib, Header)
  BY DEF Types, TypeOK, OpenDecoder, Open
<1>2. Header \in Nat \ {0} /\ Length \in Nat
  BY <1>1, FileFacts
<1>3. lib \in Lib /\ lib.at = 0 /\ lib.offset = 0 /\ lib.finished = FALSE
      /\ lib.state = "sync"
  BY <1>1 DEF Fresh, Lib, States
<1>4. /\ lib' \in Lib /\ lib'.at <= lib'.offset /\ lib'.offset <= Length
      /\ lib'.state # "end" => lib'.at = Header /\ Header <= Length
  BY <1>1, <1>2, <1>3, ConsumeWorks
<1>5. CASE lib'.state = "end"
  <2>1. pc' = "refused" /\ ppc' = "error"
    BY <1>5 DEF OpenDecoder, Open
  <2> QED  BY <1>1, <1>4, <2>1, SameFile DEF Types, TypeOK, OpenDecoder, Open,
                                             Owner, PlayerPcs
<1>6. CASE lib'.state # "end"
  <2>1. pc' = "idle" /\ ppc' \in {"loop", "error"}
    BY <1>6 DEF OpenDecoder, Open
  <2>2. Header <= Length /\ Positioned(lib')
    BY <1>2, <1>4, <1>6 DEF Positioned
  <2>3. (Header <= Length)' /\ Positioned(lib)'
    BY <1>1, <2>2, SameFile
  <2> QED  BY <1>1, <1>4, <2>1, <2>3, SameFile DEF Types, TypeOK, OpenDecoder,
                                                   Open, Owner, PlayerPcs
<1> QED  BY <1>5, <1>6

LEMMA TypesRead ==
  ASSUME Types, ReadStep
  PROVE  Types'
<1>1. /\ file \in Recordings /\ lib \in Lib /\ ppc = "read"
      /\ Header <= Length /\ Positioned(lib)
      /\ m_seek_pos \in Nat \cup {-1} /\ BufSize \in Nat
  BY BufferHoldsBlock DEF Types, TypeOK, ReadStep
<1>2. Header \in Nat \ {0} /\ Length \in Nat /\ file.frames \in Nat
  BY <1>1, FileFacts
<1>3. ASSUME file' = file, lib' \in Lib, Positioned(lib'),
             m_seek_pos' \in Nat \cup {-1}, m_cur_pos' \in Int,
             m_buffer' \in Nat, m_buf_used' \in 0..BufSize,
             writes' \in Seq(Span), ret' \in Int,
             pc' \in {"idle", "seek", "probe", "sought", "process", "returned"},
             pc' \in {"seek", "probe"} => m_seek_pos' >= 0,
             pc' = "probe" => Searching'
      PROVE  Types'
  <2>1. (Header <= Length)' /\ Positioned(lib)'
    BY <1>1, <1>3, SameFile
  <2>2. TypeOK'
    BY <1>1, <1>3, SameFile DEF Types, TypeOK, ReadStep, playerVars
  <2>3. UNCHANGED <<ppc, seekPos>>
    BY DEF ReadStep, playerVars
  <2> QED  BY <1>1, <1>3, <2>1, <2>2, <2>3 DEF Types
<1>4. CASE ReadRefused
  <2>1. CheckState(lib) \in Int /\ Checked(lib) \in Lib /\ Positioned(Checked(lib))
    BY <1>1, CheckStateWorks, CheckedWorks DEF Positioned
  <2> QED  BY <1>1, <1>3, <1>4, <2>1 DEF ReadRefused, Types, TypeOK
<1>5. CASE ReadBegins
  <2>1. <<>> \in Seq(Span) /\ 0 \in 0..BufSize
    BY <1>1
  <2> QED  BY <1>1, <1>3, <1>5, <2>1 DEF ReadBegins, Types, TypeOK
<1>6. CASE SeekAbsolute
  <2>1. file.size \in Nat \ {0} /\ Total \in Int
    BY <1>1, FileFacts, SamplesInAll
  <2>2. m_seek_pos >= 0 /\ m_seek_pos' = m_seek_pos
    BY <1>6 DEF Types, SeekAbsolute
  <2>3. pc' = "probe" => Searching'
    <3>1. SUFFICES ASSUME pc' = "probe" PROVE Searching'
      OBVIOUS
    <3> DEFINE end == IF Total > 0 THEN Total
                      ELSE IF m_seek_pos > 0 THEN m_seek_pos ELSE 1
    <3>2. search' = [lower |-> Header, upper |-> Length, lowerSample |-> 0,
                     upperSample |-> end, approx |-> file.size, first |-> TRUE]
      BY <1>6, <3>1 DEF SeekAbsolute
    <3>3. end \in Int
      BY <1>1, <2>1
    <3> HIDE DEF end
    <3>4. Length' = Length
      BY <1>6, SameFile DEF SeekAbsolute
    <3> QED  BY <1>1, <1>2, <2>1, <3>2, <3>3, <3>4 DEF Searching
  <2>4. pc' \in {"sought", "probe"}
    BY <1>6 DEF SeekAbsolute
  <2> QED  BY <1>1, <1>3, <1>6, <2>2, <2>3, <2>4 DEF SeekAbsolute, Types, TypeOK
<1>7. CASE SeekProbe
  <2>1. /\ lib' \in Lib /\ Positioned(lib') /\ file' = file
        /\ m_seek_pos' = m_seek_pos /\ ret' = ret
    BY <1>7, SeekProbeCases DEF SeekProbe
  <2>2. m_seek_pos >= 0
    BY <1>7 DEF Types, SeekProbe
  <2>3. CASE pc' \in {"sought", "probe"}
             /\ UNCHANGED <<writes, m_buffer, m_buf_used, m_cur_pos>>
             /\ (pc' = "probe" => Searching')
    BY <1>1, <1>3, <2>1, <2>2, <2>3 DEF Types, TypeOK
  <2>4. ASSUME NEW f \in 0..file.frames - 1, InFrame(f, m_seek_pos),
               WriteInternal(m_seek_pos, EndSample(f) - m_seek_pos),
               pc' = "sought"
        PROVE  Types'
    <3> DEFINE n == EndSample(f) - m_seek_pos
    <3>1. n \in Nat /\ m_seek_pos \in Nat
      BY <1>1, <1>2, <2>2, <2>4, FrameSamples DEF InFrame
    <3>2. WriteInternal(m_seek_pos, n)
      BY <2>4
    <3> HIDE DEF n
    <3>3. /\ writes' \in Seq(Span) /\ m_buffer' \in Nat
          /\ m_buf_used' \in 0..BufSize /\ m_cur_pos' \in Int
      BY <3>1, <3>2, WritesSpan DEF Types, TypeOK
    <3> QED  BY <1>1, <1>3, <2>1, <2>2, <2>4, <3>3 DEF Types, TypeOK
  <2> QED  BY <1>7, <2>3, <2>4, SeekProbeCases
<1>8. CASE SeekDone
  <2>1. Flush(lib) \in Lib /\ Checked(lib) \in Lib
        /\ Positioned(Flush(lib)) /\ Positioned(Checked(lib))
    BY <1>1, <1>2, FlushWorks, CheckedWorks DEF Positioned, Lib
  <2>2. <<>> \in Seq(Span) /\ 0 \in 0..BufSize
    BY <1>1
  <2> QED  BY <1>1, <1>3, <1>8, <2>1, <2>2 DEF SeekDone, Types, TypeOK
<1>9. CASE Process
  <2> DEFINE p == ProcessSingle(lib, FALSE)
             n == EndSample(p.frame) - FirstSample(p.frame)
             full == p.frame # -1 /\ n * Channels > BufSize - m_buf_used
             l == IF full THEN [p.lib EXCEPT !.state = "frame"] ELSE p.lib
  <2>1. /\ p.lib \in Lib /\ Positioned(p.lib)
        /\ p.frame = -1 \/ p.frame \in Nat
    BY <1>1, ProcessWorks
  <2>2. /\ p.frame = -1 => UNCHANGED <<writes, m_buffer, m_buf_used, m_cur_pos>>
        /\ p.frame # -1 => WriteInternal(FirstSample(p.frame), n)
        /\ lib' = Checked(l)
        /\ \/ UNCHANGED <<pc, ret>>
           \/ pc' = "returned" /\ ret' \in {m_buf_used', CheckState(l)}
        /\ UNCHANGED <<file, search, m_seek_pos>> /\ pc = "process"
    BY <1>9 DEF Process
  <2> HIDE DEF p
  <2>3. l \in Lib /\ Positioned(l)
    BY <2>1 DEF Lib, Positioned, States
  <2> HIDE DEF l, full
  <2>4. /\ writes' \in Seq(Span) /\ m_buffer' \in Nat
        /\ m_buf_used' \in 0..BufSize /\ m_cur_pos' \in Int
    <3>1. CASE p.frame = -1
      BY <2>2, <3>1 DEF Types, TypeOK
    <3>2. CASE p.frame # -1
      <4>1. FirstSample(p.frame) \in Nat /\ n \in Nat
        BY <1>1, <2>1, <3>2, FrameSamples
      <4> HIDE DEF n
      <4> QED  BY <2>2, <3>2, <4>1, WritesSpan DEF Types, TypeOK
    <3> QED  BY <3>1, <3>2
  <2> HIDE DEF n
  <2>5. CheckState(l) \in Int /\ lib' \in Lib /\ Positioned(lib')
    BY <2>2, <2>3, CheckStateWorks, CheckedWorks DEF Positioned
  <2> QED  BY <1>1, <1>3, <2>2, <2>4, <2>5 DEF Types, TypeOK
<1> QED  BY <1>4, <1>5, <1>6, <1>7, <1>8, <1>9 DEF ReadStep, Read

LEMMA TypesNext == Types /\ [Next]_vars => Types'
<1> SUFFICES ASSUME Types, [Next]_vars PROVE Types'
  OBVIOUS
<1>1. ASSUME UNCHANGED decoderVars, TypeOK',
             \/ UNCHANGED <<ppc, seekPos>>
             \/ pc = "idle" /\ ppc' \in {"loop", "read", "finish"}
             \/ pc = "idle" /\ ppc' = "seek" /\ seekPos' > 0
      PROVE  Types'
  <2>1. (Header <= Length)' = (Header <= Length)
        /\ Positioned(lib)' = Positioned(lib) /\ Searching' = Searching
    BY <1>1 DEF Length, Positioned, Searching, decoderVars
  <2> QED  BY <1>1, <2>1 DEF Types, decoderVars
<1>2. CASE OpenDecoder
  BY <1>2, TypesOpen
<1>3. CASE LoopTop
  <2>1. TypeOK' /\ UNCHANGED decoderVars
    BY <1>3, SameFile DEF LoopTop, Types, TypeOK, decoderVars, Owner, PlayerPcs
  <2>2. \/ pc = "idle" /\ ppc' \in {"loop", "read", "finish"}
        \/ pc = "idle" /\ ppc' = "seek" /\ seekPos' > 0
    BY <1>3 DEF LoopTop, Types
  <2> QED  BY <1>1, <2>1, <2>2
<1>4. CASE ApplySeek
  <2>1. /\ seekPos \in Nat \cup {-1} /\ seekPos > 0 /\ ppc = "seek"
        /\ m_seek_pos' = seekPos /\ pc = "idle" /\ pc' = "idle"
        /\ UNCHANGED <<file, lib, search, seekPos>> /\ ppc' = "read"
    BY <1>4 DEF ApplySeek, SeekTo, Types, TypeOK
  <2>2. seek' \in Seek
    BY <1>4, <2>1 DEF ApplySeek, Types, TypeOK, Seek
  <2>3. TypeOK'
    BY <1>4, <2>1, <2>2, SameFile DEF ApplySeek, SeekTo, Types, TypeOK, Owner, PlayerPcs
  <2>4. (Header <= Length)' = (Header <= Length)
        /\ Positioned(lib)' = Positioned(lib)
    BY <2>1 DEF Length, Positioned
  <2> QED  BY <2>1, <2>3, <2>4 DEF Types
<1>5. CASE ReadStep
  BY <1>5, TypesRead
<1>6. CASE ReadDone
  <2>1. /\ pc = "returned" /\ pc' = "idle" /\ ppc = "read"
        /\ ppc' \in {"loop", "finish"}
        /\ UNCHANGED <<file, lib, search, seekPos>>
        /\ played' \in {played, played \o Heard}
    BY <1>6 DEF ReadDone, ReadReturned, Heard
  <2>2. played' \in Seq(PlayedSpan)
    <3>1. played \in Seq(PlayedSpan)
      BY DEF Types, TypeOK, PlayedSpan
    <3>2. Heard \in Seq(PlayedSpan)
      BY HeardSpans DEF Types, TypeOK
    <3>3. played \o Heard \in Seq(PlayedSpan)
      BY <3>1, <3>2, ConcatProperties
    <3> QED  BY <2>1, <3>1, <3>3
  <2>3. TypeOK'
    BY <1>6, <2>1, <2>2, SameFile DEF ReadDone, Types, TypeOK, Owner, PlayerPcs,
                            PlayedSpan
  <2>4. (Header <= Length)' = (Header <= Length)
        /\ Positioned(lib)' = Positioned(lib)
    BY <2>1 DEF Length, Positioned
  <2> QED  BY <2>1, <2>3, <2>4 DEF Types
<1>7. CASE Finish
  <2>1. /\ pc' = "released" /\ ppc' = "done" /\ pc = "idle"
        /\ UNCHANGED <<file, lib, search, seekPos>>
    BY <1>7 DEF Finish, Release, Types
  <2>2. TypeOK'
    BY <1>7, <2>1, SameFile DEF Finish, Types, TypeOK, Owner, PlayerPcs
  <2>3. (Header <= Length)' = (Header <= Length)
        /\ Positioned(lib)' = Positioned(lib)
    BY <2>1 DEF Length, Positioned
  <2> QED  BY <2>1, <2>2, <2>3 DEF Types
<1>8. CASE PausePlayback \/ ResumePlayback \/ SeekPlayback \/ Stop
  <2>1. UNCHANGED decoderVars /\ UNCHANGED <<ppc, seekPos>>
    BY <1>8 DEF PausePlayback, ResumePlayback, SeekPlayback, Call, Stop,
                decoderVars
  <2>2. TypeOK'
    <3>1. calls' \in 0..MaxCalls
      BY <1>8, PlayerAssumption DEF PausePlayback, ResumePlayback, SeekPlayback,
                                    Call, Stop, Types, TypeOK
    <3>2. mSeekPos' \in Nat \cup {-1}
      BY <1>8, PlayerAssumption DEF PausePlayback, ResumePlayback, SeekPlayback,
                                    Call, Stop, Types, TypeOK
    <3>3. /\ mShouldRun' \in BOOLEAN /\ mPaused' \in BOOLEAN
          /\ UNCHANGED <<seekPos, ppc, played, seek>>
      BY <1>8 DEF PausePlayback, ResumePlayback, SeekPlayback, Call, Stop, Types,
                  TypeOK
    <3>4. BufSize' = BufSize
      BY <2>1, SameFile DEF decoderVars
    <3> QED  BY <2>1, <3>1, <3>2, <3>3, <3>4 DEF Types, TypeOK, decoderVars
  <2> QED  BY <1>1, <2>1, <2>2
<1>9. CASE UNCHANGED vars
  <2>1. UNCHANGED decoderVars /\ UNCHANGED <<ppc, seekPos>> /\ TypeOK'
    BY <1>9, SameFile DEF vars, decoderVars, Types, TypeOK
  <2> QED  BY <1>1, <2>1
<1> QED
  BY <1>2, <1>3, <1>4, <1>5, <1>6, <1>7, <1>8, <1>9 DEF Next, Thread

LEMMA AlwaysTypes == Spec => []Types
<1> QED  BY TypesInit, TypesNext, PTL DEF Spec

\* No step of the player or the decoder leaves the types: no search leaves the
\* file, no write the buffer (write_internal, seek_to_absolute_sample_).
THEOREM TypeCorrect == Spec => []TypeOK
<1>1. Types => TypeOK
  BY DEF Types
<1> QED  BY <1>1, AlwaysTypes, PTL
-------------------------------------------------------------------------------
(* The order of what is played.                                            *)

LEMMA SpanBefore ==
  ASSUME TypeOK
  PROVE  /\ Before.first \in Nat /\ Before.n \in Nat /\ Before.seek \in Seek
         /\ EndOf(Before) \in Nat
<1>1. CASE played = <<>>
  BY <1>1 DEF Before, EndOf, NoSeek, Seek
<1>2. CASE played # <<>>
  <2>1. played \in Seq(PlayedSpan)
    BY DEF TypeOK, PlayedSpan
  <2>2. Len(played) \in 1..Len(played)
    BY <1>2, <2>1, EmptySeq
  <2>3. played[Len(played)] \in PlayedSpan
    BY <2>1, <2>2, ElementOfSeq
  <2> QED  BY <1>2, <2>3 DEF Before, EndOf, PlayedSpan
<1> QED  BY <1>1, <1>2

LEMMA ExpectedSample ==
  ASSUME TypeOK, seek = Before.seek \/ seek.target >= 0
  PROVE  Expected \in Nat
<1>1. CASE seek = Before.seek \/ seek.target >= Samples
  BY <1>1, SpanBefore DEF Expected
<1>2. CASE ~(seek = Before.seek \/ seek.target >= Samples)
  <2>1. seek.target \in Nat /\ Block \in Nat \ {0} /\ file \in Recordings
    BY <1>2, FileFacts DEF TypeOK, Seek
  <2>2. seek.target \div Block \in Nat
    <3> DEFINE t == seek.target
               q == t \div Block
    <3>1. t \in Nat
      BY <2>1
    <3> HIDE DEF t
    <3>2. q \in Int /\ t < (q + 1) * Block
      BY <2>1, <3>1, Division
    <3> HIDE DEF q
    <3>3. 0 * Block < (q + 1) * Block /\ q + 1 \in Int
      BY <2>1, <3>1, <3>2
    <3>4. 0 < q + 1
      BY <2>1, <3>3, MultStrict
    <3> QED  BY <3>2, <3>4 DEF q, t
  <2> QED  BY <1>2, <2>1, <2>2, FrameSamples DEF Expected, After
<1> QED  BY <1>1, <1>2

LEMMA SameSound ==
  ASSUME file' = file, played' = played, seek' = seek
  PROVE  /\ PlaysInOrder' <=> PlaysInOrder
         /\ Before' = Before /\ Expected' = Expected
         /\ GoesOnWith(lib, EndOf(Before))' <=> GoesOnWith(lib', EndOf(Before))
         /\ GoesOnWith(lib, Expected)' <=> GoesOnWith(lib', Expected)
         /\ Samples' = Samples /\ Total' = Total
<1>1. Samples' = Samples /\ Total' = Total
  BY DEF Samples, Total, EndSample, FirstSample
<1>2. Before' = Before
  BY DEF Before, NoSeek
<1>3. Expected' = Expected
  BY <1>1, <1>2 DEF Expected, EndOf, After, EndSample, FirstSample
<1>4. PlaysInOrder' <=> PlaysInOrder
  BY <1>1 DEF PlaysInOrder, After, EndSample, FirstSample, NoSeek
<1>5. /\ GoesOnWith(lib, EndOf(Before))' <=> GoesOnWith(lib', EndOf(Before))
      /\ GoesOnWith(lib, Expected)' <=> GoesOnWith(lib', Expected)
  BY <1>2, <1>3 DEF GoesOnWith, EndOf, FrameStart, FirstSample
<1> QED  BY <1>1, <1>2, <1>3, <1>4, <1>5

LEMMA AwaitedSample ==
  ASSUME TypeOK, seek = Before.seek \/ seek.target >= 0
  PROVE  Awaited \in Nat
<1>1. Expected \in Nat
  BY ExpectedSample
<1>2. CASE writes = <<>>
  BY <1>1, <1>2 DEF Awaited
<1>3. CASE writes # <<>>
  <2>1. writes \in Seq(Span)
    BY DEF TypeOK
  <2>2. Len(writes) \in 1..Len(writes)
    BY <1>3, <2>1, EmptySeq
  <2>3. writes[Len(writes)] \in Span
    BY <2>1, <2>2, ElementOfSeq
  <2> QED  BY <1>3, <2>3 DEF Awaited, EndOf, Span
<1> QED  BY <1>2, <1>3

LEMMA NothingStored ==
  ASSUME writes' = <<>>
  PROVE  InOrder' /\ Awaited' = Expected'
BY DEF InOrder, Awaited

\* A frame that begins where the last one ended is in order.
LEMMA AppendedInOrder ==
  ASSUME InOrder, writes \in Seq(Span), NEW w \in Span, w.first = Awaited,
         writes' = Append(writes, w), Expected' = Expected
  PROVE  InOrder' /\ Awaited' = EndOf(w) /\ writes' # <<>>
<1> DEFINE m == Len(writes)
<1>1. /\ m \in Nat /\ Len(writes') = m + 1 /\ DOMAIN writes' = 1..m + 1
      /\ DOMAIN writes = 1..m
      /\ \A i \in 1..m : writes'[i] = writes[i]
      /\ writes'[m + 1] = w
  OBVIOUS
<1>2. writes = <<>> <=> m = 0
  BY EmptySeq
<1>3. ASSUME NEW i \in 1..m + 1
      PROVE  writes'[i].first = IF i = 1 THEN Expected ELSE EndOf(writes'[i - 1])
  <2>1. CASE i \in 1..m
    <3>1. writes[i].first = IF i = 1 THEN Expected ELSE EndOf(writes[i - 1])
      BY <1>1, <2>1 DEF InOrder
    <3>2. i # 1 => i - 1 \in 1..m
      BY <1>1, <2>1
    <3> QED  BY <1>1, <2>1, <3>1, <3>2
  <2>2. CASE i = m + 1
    <3>1. CASE m = 0
      BY <1>1, <1>2, <2>2, <3>1 DEF Awaited
    <3>2. CASE m # 0
      <4>1. i # 1 /\ i - 1 = m /\ m \in 1..m
        BY <1>1, <2>2, <3>2
      <4>2. Awaited = EndOf(writes[m])
        BY <1>2, <3>2 DEF Awaited
      <4> QED  BY <1>1, <2>2, <4>1, <4>2
    <3> QED  BY <3>1, <3>2
  <2> QED  BY <1>1, <2>1, <2>2
<1>4. writes' # <<>>
  BY <1>1
<1>5. Awaited' = EndOf(w)
  BY <1>1, <1>4 DEF Awaited, EndOf
<1>6. InOrder'
  BY <1>1, <1>3 DEF InOrder, EndOf
<1> QED  BY <1>4, <1>5, <1>6

\* What process_single() gives to a step of read()'s loop.
Step == ProcessSingle(lib, FALSE)

\* The three things such a step may do: it meets the end or an error, it cuts a
\* frame that does not fit, or it stores the frame that is awaited.
Ends ==
  /\ Step.frame = -1 /\ UNCHANGED <<writes, m_buf_used>> /\ pc' = "returned"
  /\ lib'.state = Step.lib.state
  /\ lib'.state = "end" \/ (lib'.state = "seek_error" /\ ~Step.result)
  /\ IF Step.result THEN ret' = m_buf_used ELSE ret' <= 0
Cuts == lib'.state = "frame" /\ pc' = "returned" /\ ret' <= 0
Stores(w) ==
  LET f == Step.frame IN
  /\ lib.state = "sync" /\ f \in 0..file.frames - 1
  /\ GoesOnWith(lib', EndSample(f)) /\ lib'.state = "sync"
  /\ lib' = Checked(Step.lib)
  /\ w.first = Awaited /\ EndOf(w) = EndSample(f)
  /\ writes' = Append(writes, w)
  /\ m_buf_used' = m_buf_used + (EndSample(f) - FirstSample(f)) * Channels
  /\ m_buf_used' > m_buf_used
  /\ \/ pc' = "returned" /\ ret' = m_buf_used'
     \/ pc' = "process" /\ m_buf_used' < BufSize

LEMMA ProcessCases ==
  ASSUME Types, Ordered, Process, ppc = "read"
  PROVE  /\ UNCHANGED <<file, search, m_seek_pos>> /\ m_seek_pos = -1
         /\ InOrder
         /\ Ends \/ Cuts \/ \E w \in Span : Stores(w)
<1> DEFINE p == ProcessSingle(lib, FALSE)
           f == p.frame
           n == EndSample(f) - FirstSample(f)
           full == f # -1 /\ n * Channels > BufSize - m_buf_used
           l == IF full THEN [p.lib EXCEPT !.state = "frame"] ELSE p.lib
           more == CheckState(l) = 0 /\ p.result /\ ~full
<1>1. /\ file \in Recordings /\ lib \in Lib /\ pc = "process"
      /\ Header <= Length /\ Positioned(lib) /\ m_buf_used \in 0..BufSize
      /\ writes \in Seq(Span) /\ m_buffer \in Nat
  BY DEF Types, TypeOK, Process
<1>2. /\ BufSize \in Nat \ {0} /\ Block \in Nat \ {0} /\ Channels \in {1, 2}
  BY <1>1, BufferHoldsBlock, DecoderAssumption
<1>3. /\ IF f = -1
         THEN UNCHANGED <<writes, m_buffer, m_buf_used, m_cur_pos>>
         ELSE WriteInternal(FirstSample(f), n)
      /\ lib' = Checked(l)
      /\ IF more /\ m_buf_used' < BufSize
         THEN UNCHANGED <<pc, ret>>
         ELSE /\ pc' = "returned"
              /\ ret' = IF p.result /\ ~full THEN m_buf_used' ELSE CheckState(l)
      /\ UNCHANGED <<file, search, m_seek_pos>>
  BY DEF Process
<1>4. /\ m_seek_pos = -1 /\ InOrder
      /\ lib.state = "seek_error" \/ GoesOnWith(lib, Awaited)
  BY <1>1 DEF Ordered
<1>5. /\ p.lib \in Lib /\ p.result \in BOOLEAN
      /\ lib.state # "sync" =>
           f = -1 /\ p.lib = lib /\ (p.result <=> lib.state = "end")
      /\ lib.state = "sync" /\ f = -1 => p.lib.state = "end"
      /\ f # -1 => p.result /\ p.lib.state = "sync"
  <2> DEFINE g == FrameAfter(lib.at)
  <2> HIDE DEF p
  <2>1. /\ p.lib \in Lib /\ p.result \in BOOLEAN
        /\ \/ /\ p.frame = -1
              /\ IF lib.state = "sync" THEN p.lib.state = "end"
                 ELSE p.lib = lib /\ (p.result <=> lib.state = "end")
           \/ /\ lib.state = "sync" /\ p.frame = g /\ p.result
              /\ p.lib.state = "sync"
        /\ lib.state = "sync" => g \in Nat
    BY <1>1, ProcessWorks DEF p
  <2> HIDE DEF g
  <2> QED  BY <2>1
<1>6. Awaited \in Nat
  BY AwaitedSample DEF Types, Ordered
<1>7. CASE f = -1
  <2>1. ~full
    BY <1>7
  <2>2. l = p.lib
    BY <2>1
  <2>3. lib.state \in {"sync", "end", "seek_error"}
    BY <1>4 DEF GoesOnWith
  <2>4. p.lib.state = "end" \/ (p.lib.state = "seek_error" /\ ~p.result)
    BY <1>5, <1>7, <2>3
  <2>8. lib' = Checked(p.lib) /\ lib'.state = p.lib.state
    BY <1>3, <1>5, <2>2, CheckedWorks
  <2> HIDE DEF p, f, n, full, l
  <2>5. CheckState(l) \in {-1, -2, -4}
    BY <1>5, <2>2, <2>4, CheckStateWorks
  <2>6. ~more
    BY <2>5
  <2> HIDE DEF more
  <2>7. /\ UNCHANGED <<writes, m_buf_used>> /\ pc' = "returned"
        /\ ret' = IF p.result THEN m_buf_used ELSE CheckState(l)
    <3>1. UNCHANGED <<writes, m_buf_used>>
      BY <1>3, <1>7
    <3>2. pc' = "returned"
          /\ ret' = IF p.result /\ ~full THEN m_buf_used' ELSE CheckState(l)
      BY <1>3, <2>6
    <3> QED  BY <2>1, <3>1, <3>2
  <2>9. IF p.result THEN ret' = m_buf_used ELSE ret' <= 0
    BY <1>5, <2>5, <2>7
  <2>10. Step = p /\ p.frame = -1
    BY <1>7 DEF Step, p, f
  <2>11. Ends
    BY <2>4, <2>7, <2>8, <2>9, <2>10 DEF Ends
  <2> QED  BY <1>3, <1>4, <2>11
<1>8. CASE f # -1
  <2>1. lib.state = "sync" /\ GoesOnWith(lib, Awaited)
    BY <1>4, <1>5, <1>8
  <2>2. /\ f \in 0..file.frames - 1 /\ FirstSample(f) = Awaited
        /\ GoesOnWith(p.lib, EndSample(f))
    BY <1>1, <1>6, <1>8, <2>1, ProcessInOrder
  <2> HIDE DEF p, f
  <2>3. file.frames \in Nat /\ f \in Nat
    BY <1>1, <2>2, FileFacts
  <2>4. FirstSample(f) \in Nat /\ EndSample(f) \in Nat /\ n \in Nat /\ n > 0
    <3> DEFINE a == FirstSample(f)
               b == EndSample(f)
    <3>1. a \in Nat /\ b \in Nat /\ a < b
      BY <1>1, <2>3, FrameSamples
    <3>2. n = b - a
      OBVIOUS
    <3> HIDE DEF a, b, n
    <3>3. n \in Nat /\ n > 0
      BY <3>1, <3>2
    <3> QED  BY <3>1, <3>3 DEF a, b
  <2>5. CASE full
    <3>1. l = [p.lib EXCEPT !.state = "frame"]
      BY <2>5
    <3>2. l \in Lib /\ l.state = "frame"
      BY <1>5, <3>1 DEF Lib, States
    <3>3. pc' = "returned" /\ ret' = CheckState(l) /\ lib' = Checked(l)
      BY <1>3, <2>5
    <3> HIDE DEF l
    <3>4. CheckState(l) <= 0 /\ Checked(l).state = "frame"
      BY <3>2, CheckStateWorks, CheckedWorks
    <3>5. Cuts
      BY <3>3, <3>4 DEF Cuts
    <3> QED  BY <1>3, <1>4, <3>5
  <2>6. CASE ~full
    <3> DEFINE w == [out |-> m_buffer, used |-> m_buf_used, first |-> Awaited,
                     n |-> n]
    <3>1. l = p.lib
      BY <2>6
    <3>2. n * Channels <= BufSize - m_buf_used /\ n * Channels \in Nat
          /\ n * Channels > 0
      <4> HIDE DEF n
      <4>1. n * Channels \in Nat /\ n * Channels > 0
        BY <1>2, <2>4
      <4>2. ~(n * Channels > BufSize - m_buf_used)
        BY <1>8, <2>6
      <4> QED  BY <1>1, <1>2, <4>1, <4>2
    <3>3. WriteInternal(FirstSample(f), n)
      BY <1>3, <1>8
    <3>4. writes' = Append(writes, w)
      BY <2>2, <3>3 DEF WriteInternal
    <3>5. m_buf_used' = m_buf_used + n * Channels /\ m_buf_used' > m_buf_used
      <4> HIDE DEF n
      <4>1. Stored(n) = n * Channels
        BY <1>1, <1>2, <3>2 DEF Stored, Min2
      <4> QED  BY <1>1, <1>2, <3>2, <3>3, <4>1 DEF WriteInternal
    <3>6. w \in Span /\ w.first = Awaited /\ EndOf(w) = EndSample(f)
      <4>1. w.first = Awaited /\ w.n = n /\ Awaited + n = EndSample(f)
        BY <1>6, <2>2, <2>4
      <4>2. w \in Span
        BY <1>1, <1>2, <1>6, <2>4 DEF Span
      <4> QED  BY <4>1, <4>2 DEF EndOf
    <3>7. /\ lib' = Checked(p.lib) /\ lib'.state = "sync"
          /\ lib'.at = p.lib.at /\ p.lib.state = "sync"
      BY <1>3, <1>5, <1>8, <3>1, CheckedWorks
    <3>8. GoesOnWith(lib', EndSample(f))
      BY <2>2, <3>7 DEF GoesOnWith
    <3>9. \/ pc' = "returned" /\ ret' = m_buf_used'
          \/ pc' = "process" /\ m_buf_used' < BufSize
      <4>1. CASE more /\ m_buf_used' < BufSize
        <5>1. pc' = pc
          BY <1>3, <4>1
        <5> QED  BY <1>1, <4>1, <5>1
      <4>2. CASE ~(more /\ m_buf_used' < BufSize)
        <5> HIDE DEF more
        <5>1. pc' = "returned"
              /\ ret' = IF p.result /\ ~full THEN m_buf_used' ELSE CheckState(l)
          BY <1>3, <4>2
        <5> QED  BY <1>5, <1>8, <2>6, <5>1
      <4> QED  BY <4>1, <4>2
    <3>10. Step = p /\ Step.frame = f
      BY DEF Step, p, f
    <3> HIDE DEF w, l, full, more
    <3>11. Stores(w)
      BY <2>1, <2>2, <3>4, <3>5, <3>6, <3>7, <3>8, <3>9, <3>10 DEF Stores, n
    <3> QED  BY <1>3, <1>4, <3>6, <3>11
  <2> QED  BY <2>5, <2>6
<1> QED  BY <1>7, <1>8

LEMMA OrderedInit == Init => Ordered
<1> SUFFICES ASSUME Init PROVE Ordered
  OBVIOUS
<1>1. played = <<>> /\ seek = NoSeek /\ m_seek_pos = -1 /\ ppc = "start"
  BY DEF Init, DecoderInit
<1>2. PlaysInOrder
  BY <1>1 DEF PlaysInOrder
<1>3. Before.seek = NoSeek
  BY <1>1 DEF Before
<1> QED  BY <1>1, <1>2, <1>3 DEF Ordered

\* What holds of the decoder where the player hands something to it.
LEMMA OrderedRead ==
  ASSUME Types, Ordered, ReadStep
  PROVE  Ordered'
<1>1. /\ file \in Recordings /\ lib \in Lib /\ ppc = "read"
      /\ Header <= Length /\ Positioned(lib)
      /\ m_seek_pos \in Nat \cup {-1}
      /\ PlaysInOrder
      /\ seek = Before.seek \/ seek.target >= 0
      /\ seek.target \in Nat \cup {-1}
  BY DEF Types, TypeOK, ReadStep, Ordered, Seek
<1>2. /\ UNCHANGED <<played, seek, ppc>> /\ ppc' = "read"
  BY <1>1 DEF ReadStep, playerVars
<1>3. file' = file
  BY DEF ReadStep, Read, ReadRefused, ReadBegins, SeekAbsolute, SeekProbe,
         SeekDone, Process
<1>4. /\ PlaysInOrder' <=> PlaysInOrder
      /\ Before' = Before /\ Expected' = Expected
      /\ GoesOnWith(lib, EndOf(Before))' <=> GoesOnWith(lib', EndOf(Before))
      /\ GoesOnWith(lib, Expected)' <=> GoesOnWith(lib', Expected)
      /\ Samples' = Samples /\ Total' = Total
  BY <1>2, <1>3, SameSound
<1>12. /\ GoesOnWith(lib, Awaited)' <=> GoesOnWith(lib', Awaited')
       /\ writes' = <<>> => InOrder' /\ Awaited' = Expected
  BY <1>3, <1>4, NothingStored DEF GoesOnWith, FrameStart, FirstSample
<1>5. PlaysInOrder' /\ (seek = Before.seek \/ seek.target >= 0)'
      /\ ppc' \notin {"start", "loop", "seek"}
  BY <1>1, <1>2, <1>4
<1>6. CASE ReadRefused
  <2>1. pc' = "returned" /\ ret' \in {-1, -2, -4}
    BY <1>1, <1>6, CheckStateWorks DEF ReadRefused
  <2>2. ~(ret' > 0)
    BY <2>1
  <2> QED  BY <1>5, <2>1, <2>2 DEF Ordered
<1>7. CASE ReadBegins
  <2>1. /\ pc = "idle" /\ pc' = IF m_seek_pos >= 0 THEN "seek" ELSE "process"
        /\ m_buf_used' = 0 /\ writes' = <<>>
        /\ UNCHANGED <<lib, m_seek_pos>>
    BY <1>7 DEF ReadBegins
  <2>2. GoesOnWith(lib, EndOf(Before)) /\ (NoRequest \/ Request)
    BY <1>1, <2>1 DEF Ordered
  <2>3. CASE m_seek_pos >= 0
    <3>1. Request
      BY <2>2, <2>3 DEF NoRequest
    <3>2. Request' /\ GoesOnWith(lib, EndOf(Before))' /\ pc' = "seek"
      BY <1>2, <1>4, <2>1, <2>2, <2>3, <3>1 DEF Request
    <3> QED  BY <1>5, <2>1, <3>2 DEF Ordered
  <2>4. CASE m_seek_pos = -1
    <3>1. seek = Before.seek
      BY <1>1, <2>2, <2>4 DEF NoRequest, Request
    <3>2. Expected = EndOf(Before)
      BY <3>1 DEF Expected
    <3>3. GoesOnWith(lib, Awaited)' /\ InOrder'
      BY <1>12, <2>1, <2>2, <3>2
    <3>4. m_buf_used' = 0 /\ pc' = "process" /\ m_seek_pos' = -1
      BY <2>1, <2>4
    <3> QED  BY <1>5, <3>3, <3>4 DEF Ordered
  <2> QED  BY <1>1, <2>3, <2>4
<1>8. CASE SeekAbsolute
  <2>1. /\ pc = "seek" /\ UNCHANGED <<lib, m_seek_pos>>
        /\ IF Total > 0 /\ m_seek_pos >= Total
           THEN pc' = "sought" ELSE pc' = "probe"
    BY <1>8 DEF SeekAbsolute
  <2>2. GoesOnWith(lib, EndOf(Before)) /\ Request
    BY <1>1, <2>1 DEF Ordered
  <2>3. CASE Total > 0 /\ m_seek_pos >= Total
    <3>1. Total = Samples
      BY <1>1, <2>3, SamplesInAll
    <3>2. Expected = EndOf(Before)
      BY <2>2, <2>3, <3>1 DEF Expected, Request
    <3>3. GoesOnWith(lib, Expected)' /\ pc' = "sought"
      BY <1>4, <2>1, <2>2, <2>3, <3>2
    <3> QED  BY <1>5, <2>1, <2>2, <3>3 DEF Ordered
  <2>4. CASE ~(Total > 0 /\ m_seek_pos >= Total)
    <3>1. Request' /\ pc' = "probe" /\ ~(Total > 0 /\ m_seek_pos >= Total)'
      BY <1>2, <1>4, <2>1, <2>2, <2>4 DEF Request
    <3> QED  BY <1>5, <2>1, <2>2, <3>1 DEF Ordered
  <2> QED  BY <2>3, <2>4
<1>9. CASE SeekProbe
  <2>1. /\ pc = "probe" /\ m_seek_pos >= 0
        /\ Request /\ ~(Total > 0 /\ m_seek_pos >= Total)
    BY <1>1, <1>9 DEF Ordered, SeekProbe, Types
  <2>2. m_seek_pos' = m_seek_pos
    BY <1>9, SeekProbeCases
  <2>3. ASSUME NEW f \in 0..file.frames - 1,
               InFrame(f, m_seek_pos),
               WriteInternal(m_seek_pos, EndSample(f) - m_seek_pos),
               lib'.state = "sync", lib'.at = FrameStart(f + 1), pc' = "sought"
        PROVE  Ordered'
    <3>1. file.frames \in Nat /\ f \in Nat /\ m_seek_pos \in Nat
      BY <1>1, <2>1, FileFacts
    <3>2. m_seek_pos < Samples /\ EndSample(f) = After(m_seek_pos)
      BY <1>1, <2>3, <3>1, FrameOfSample
    <3>3. Expected = EndSample(f)
      <4>1. Samples \in Nat
        BY <1>1, SamplesInAll
      <4> QED  BY <2>1, <3>1, <3>2, <4>1 DEF Expected, Request
    <3>4. GoesOnWith(lib', EndSample(f))
      <4>1. f + 1 \in 0..file.frames
            /\ (f + 1 < file.frames => EndSample(f) = FirstSample(f + 1))
        BY <1>1, <3>1, FrameSamples
      <4> QED  BY <2>3, <4>1 DEF GoesOnWith
    <3>5. GoesOnWith(lib, Expected)'
      BY <1>4, <3>3, <3>4
    <3> QED  BY <1>5, <2>3, <3>5 DEF Ordered
  <2>4. CASE /\ lib'.state = "seek_error" /\ pc' = "sought"
             /\ UNCHANGED <<writes, m_buffer, m_buf_used, m_cur_pos>>
    BY <1>5, <2>1, <2>4 DEF Ordered
  <2>5. CASE /\ Searching' /\ pc' = "probe"
             /\ UNCHANGED <<writes, m_buffer, m_buf_used, m_cur_pos>>
    <3>1. Request' /\ ~(Total > 0 /\ m_seek_pos >= Total)'
      BY <1>2, <1>4, <2>1, <2>2 DEF Request
    <3> QED  BY <1>5, <2>1, <2>5, <3>1 DEF Ordered
  <2> QED  BY <1>9, <2>3, <2>4, <2>5, SeekProbeCases
<1>10. CASE SeekDone
  <2>1. /\ pc = "sought" /\ m_seek_pos' = -1 /\ m_buf_used' = 0
        /\ writes' = <<>>
        /\ \/ ret' = 0 /\ pc' = "returned"
           \/ lib' = Checked(lib) /\ pc' = "process"
    BY <1>10 DEF SeekDone
  <2>2. lib.state = "seek_error" \/ GoesOnWith(lib, Expected)
    BY <1>1, <2>1 DEF Ordered
  <2>3. CASE ret' = 0 /\ pc' = "returned"
    BY <1>5, <2>3 DEF Ordered
  <2>4. CASE lib' = Checked(lib) /\ pc' = "process"
    <3>1. lib'.state = lib.state /\ lib'.at = lib.at
      BY <1>1, <2>4, CheckedWorks
    <3>2. (lib.state = "seek_error")' \/ GoesOnWith(lib', Expected)
      BY <2>2, <3>1 DEF GoesOnWith
    <3>3. (lib.state = "seek_error")' \/ GoesOnWith(lib, Awaited)'
      BY <1>12, <2>1, <3>2
    <3>4. InOrder'
      BY <1>12, <2>1
    <3> QED  BY <1>5, <2>1, <2>4, <3>3, <3>4 DEF Ordered
  <2> QED  BY <2>1, <2>3, <2>4
<1>11. CASE Process
  <2>1. /\ m_seek_pos' = -1 /\ InOrder
        /\ Ends \/ Cuts \/ \E w \in Span : Stores(w)
    BY <1>1, <1>11, ProcessCases
  <2>2. /\ ret' \in Int /\ m_buf_used \in Int /\ writes \in Seq(Span)
        /\ writes = <<>> => m_buf_used = 0
    <3>1. ret' \in Int
      BY TypesRead DEF Types, TypeOK
    <3>2. m_buf_used \in Int /\ writes \in Seq(Span)
      BY <1>1, BufferHoldsBlock DEF Types, TypeOK
    <3>3. writes = <<>> => m_buf_used = 0
      BY <1>1, <1>11 DEF Ordered, Process
    <3> QED  BY <3>1, <3>2, <3>3
  <2>3. CASE Ends
    <3>1. pc' = "returned" /\ UNCHANGED writes
      BY <2>3 DEF Ends
    <3>2. CASE ret' > 0
      <4>1. Step.result /\ ret' = m_buf_used /\ lib'.state = "end"
        BY <2>2, <2>3, <3>2 DEF Ends
      <4>2. writes' # <<>>
        BY <2>2, <3>1, <3>2, <4>1
      <4>3. InOrder'
        BY <1>4, <2>1, <3>1 DEF InOrder, EndOf
      <4>4. GoesOnWith(lib, Awaited)'
        BY <4>1 DEF GoesOnWith
      <4> QED  BY <1>5, <2>1, <3>1, <4>2, <4>3, <4>4 DEF Ordered
    <3>3. CASE ~(ret' > 0)
      BY <1>5, <3>1, <3>3 DEF Ordered
    <3> QED  BY <3>2, <3>3
  <2>4. CASE Cuts
    <3>1. pc' = "returned" /\ ~(ret' > 0)
      BY <2>2, <2>4 DEF Cuts
    <3> QED  BY <1>5, <3>1 DEF Ordered
  <2>5. ASSUME NEW w \in Span, Stores(w)
        PROVE  Ordered'
    <3>1. /\ pc' \in {"returned", "process"}
          /\ w.first = Awaited /\ writes' = Append(writes, w)
          /\ GoesOnWith(lib', EndOf(w))
      BY <2>5 DEF Stores
    <3>2. InOrder' /\ Awaited' = EndOf(w) /\ writes' # <<>>
      BY <1>4, <2>1, <2>2, <3>1, AppendedInOrder
    <3>3. GoesOnWith(lib, Awaited)'
      BY <1>12, <3>1, <3>2
    <3> QED  BY <1>5, <2>1, <3>1, <3>2, <3>3 DEF Ordered
  <2> QED  BY <2>1, <2>3, <2>4, <2>5
<1> QED
  BY <1>6, <1>7, <1>8, <1>9, <1>10, <1>11 DEF ReadStep, Read

\* The span before the i-th of s, and that a span goes on where it ought to
\* behind another one.
Preceding(s, i) ==
  IF i = 1 THEN [first |-> 0, n |-> 0, seek |-> NoSeek] ELSE s[i - 1]
Follows(now, before) ==
  IF now.seek = before.seek \/ now.seek.target >= Samples
  THEN now.first = before.first + before.n
  ELSE now.first = After(now.seek.target)

LEMMA EachFollows ==
  PlaysInOrder <=>
    \A i \in DOMAIN played : Follows(played[i], Preceding(played, i))
BY DEF PlaysInOrder, Follows, Preceding

LEMMA EachFollowsThen ==
  ASSUME file' = file
  PROVE  PlaysInOrder' <=>
           \A i \in DOMAIN played' : Follows(played'[i], Preceding(played', i))
<1>1. Samples' = Samples /\ \A t : After(t)' = After(t)
  BY DEF Samples, After, EndSample, FirstSample
<1> QED
  BY <1>1 DEF PlaysInOrder, Follows, Preceding, NoSeek, After, EndSample,
              FirstSample

\* What was read is heard where it is expected.
LEMMA OrderedReadDone ==
  ASSUME Types, Ordered, ReadDone
  PROVE  Ordered'
<1>1. /\ ppc = "read" /\ pc = "returned" /\ UNCHANGED <<file, lib, seek, m_seek_pos>>
      /\ PlaysInOrder
      /\ seek = Before.seek \/ seek.target >= 0
      /\ writes \in Seq(Span) /\ played \in Seq(PlayedSpan) /\ seek \in Seek
  BY DEF ReadDone, ReadReturned, Ordered, Types, TypeOK, PlayedSpan
<1>2. CASE ret > 0
  <2>1. /\ m_seek_pos = -1 /\ InOrder /\ writes # <<>>
        /\ GoesOnWith(lib, Awaited)
    BY <1>1, <1>2 DEF Ordered
  <2>2. played' = played \o Heard /\ ppc' = "loop"
    BY <1>2 DEF ReadDone, Heard
  <2> DEFINE len == Len(played)
             m == Len(writes)
  <2>3. /\ Heard \in Seq(PlayedSpan) /\ Len(Heard) = m
        /\ \A j \in 1..m : Heard[j] = Play(writes[j])
    BY <1>1, HeardSpans
  <2>4. len \in Nat /\ m \in Nat \ {0} /\ DOMAIN writes = 1..m
    BY <1>1, <2>1, EmptySeq
  <2>5. /\ played' \in Seq(PlayedSpan) /\ Len(played') = len + m
        /\ \A i \in 1..len + m :
             played'[i] = IF i <= len THEN played[i] ELSE Heard[i - len]
    <3>1. /\ played' \in Seq(PlayedSpan) /\ Len(played') = len + Len(Heard)
          /\ \A i \in 1..len + Len(Heard) :
               played'[i] = IF i <= len THEN played[i] ELSE Heard[i - len]
      BY <1>1, <2>2, <2>3, ConcatProperties
    <3> HIDE DEF len, m
    <3> QED  BY <2>3, <3>1
  <2>6. \A j \in 1..m : /\ Heard[j].first = writes[j].first
                        /\ Heard[j].n = writes[j].n /\ Heard[j].seek = seek
                        /\ EndOf(Heard[j]) = EndOf(writes[j])
    <3>1. \A w : /\ Play(w).first = w.first /\ Play(w).n = w.n
                 /\ Play(w).seek = seek
      BY DEF Play
    <3> QED  BY <2>3, <3>1 DEF EndOf
  <2> HIDE DEF len, m
  <2>7. Before' = Heard[m]
    <3>1. played' # <<>>
      BY <2>4, <2>5
    <3>2. played'[len + m] = Heard[m]
      BY <2>4, <2>5
    <3> QED  BY <2>5, <3>1, <3>2 DEF Before
  <2>8. PlaysInOrder'
    <3>1. \A i \in DOMAIN played : Follows(played[i], Preceding(played, i))
      BY <1>1, EachFollows
    <3>2. DOMAIN played = 1..len /\ DOMAIN played' = 1..len + m
      BY <1>1, <2>5 DEF len
    <3>3. ASSUME NEW i \in 1..len
          PROVE  Follows(played'[i], Preceding(played', i))
      <4>1. played'[i] = played[i] /\ Preceding(played', i) = Preceding(played, i)
        BY <2>4, <2>5, <3>3 DEF Preceding
      <4> QED  BY <3>1, <3>2, <3>3, <4>1
    <3>4. Follows(Heard[1], Before)
      <4>1. writes[1].first = Expected /\ 1 \in 1..m
        BY <2>1, <2>4 DEF InOrder
      <4>2. Heard[1].first = Expected /\ Heard[1].seek = seek
        BY <2>6, <4>1
      <4> QED  BY <4>2 DEF Follows, Expected, EndOf
    <3>5. ASSUME NEW i \in len + 1..len + m
          PROVE  Follows(played'[i], Preceding(played', i))
      <4> DEFINE j == i - len
      <4>1. j \in 1..m /\ i = len + j /\ i \in 1..len + m
        BY <2>4, <3>5
      <4>2. played'[i] = Heard[j]
        <5>1. ~(i <= len)
          BY <2>4, <3>5
        <5> QED  BY <2>5, <4>1, <5>1
      <4>3. CASE j = 1
        <5>1. Preceding(played', i) = Before
          <6>1. CASE len = 0
            <7>1. played = <<>> /\ i = 1
              BY <1>1, <4>1, <4>3, <6>1, EmptySeq DEF len
            <7> QED  BY <7>1 DEF Before, Preceding
          <6>2. CASE len # 0
            <7>1. i # 1 /\ i - 1 = len /\ len \in 1..len + m /\ len <= len
              BY <2>4, <4>1, <4>3, <6>2
            <7>2. played # <<>>
              BY <6>2 DEF len
            <7> QED  BY <2>5, <7>1, <7>2 DEF Before, Preceding, len
          <6> QED  BY <6>1, <6>2
        <5> QED  BY <3>4, <4>2, <4>3, <5>1
      <4>4. CASE j # 1
        <5>1. /\ j - 1 \in 1..m /\ i - 1 \in 1..len + m /\ ~(i - 1 <= len)
              /\ (i - 1) - len = j - 1 /\ i # 1
          BY <2>4, <4>1, <4>4
        <5>2. Preceding(played', i) = Heard[j - 1]
          BY <2>5, <5>1 DEF Preceding
        <5>3. writes[j].first = EndOf(writes[j - 1])
          BY <2>1, <2>4, <4>1, <4>4 DEF InOrder
        <5>4. /\ Heard[j].first = writes[j].first /\ Heard[j].seek = seek
              /\ Heard[j - 1].seek = seek
              /\ EndOf(Heard[j - 1]) = EndOf(writes[j - 1])
          BY <2>6, <4>1, <5>1
        <5> HIDE DEF j
        <5>5. Follows(Heard[j], Heard[j - 1])
          BY <5>3, <5>4 DEF Follows, EndOf
        <5> QED  BY <4>2, <5>2, <5>5
      <4> QED  BY <4>3, <4>4
    <3>6. \A i \in 1..len + m : i \in 1..len \/ i \in len + 1..len + m
      BY <2>4
    <3>7. \A i \in DOMAIN played' : Follows(played'[i], Preceding(played', i))
      BY <3>2, <3>3, <3>5, <3>6
    <3> QED  BY <1>1, <3>7, EachFollowsThen
  <2>9. GoesOnWith(lib, EndOf(Before))'
    <3>1. m \in 1..m /\ Awaited = EndOf(writes[m])
      BY <2>1, <2>4 DEF Awaited, m
    <3>2. EndOf(Heard[m]) = Awaited
      BY <2>6, <3>1
    <3>3. EndOf(Before)' = Awaited
      BY <2>7, <3>2 DEF EndOf
    <3> QED  BY <1>1, <2>1, <3>3 DEF GoesOnWith, FrameStart, FirstSample
  <2>10. NoRequest' /\ (seek = Before.seek)'
    <3>1. Heard[m].seek = seek
      BY <2>4, <2>6
    <3> QED  BY <1>1, <2>1, <2>7, <3>1 DEF NoRequest
  <2> QED  BY <2>2, <2>8, <2>9, <2>10 DEF Ordered
<1>3. CASE ~(ret > 0)
  <2>1. ppc' = "finish" /\ played' = played
    BY <1>3 DEF ReadDone
  <2>3. (PlaysInOrder' <=> PlaysInOrder) /\ Before' = Before
    BY <1>1, <2>1, SameSound
  <2>2. PlaysInOrder' /\ Before' = Before
    BY <1>1, <2>3
  <2> QED  BY <1>1, <2>1, <2>2 DEF Ordered
<1> QED  BY <1>2, <1>3

LEMMA OrderedNext == Types /\ Ordered /\ [Next]_vars => Ordered'
<1> SUFFICES ASSUME Types, Ordered, [Next]_vars PROVE Ordered'
  OBVIOUS
<1>1. PlaysInOrder /\ (seek = Before.seek \/ seek.target >= 0)
  BY DEF Ordered
<1>2. ASSUME UNCHANGED <<file, played, seek>>
      PROVE  /\ PlaysInOrder' /\ Before' = Before
             /\ (seek = Before.seek \/ seek.target >= 0)'
             /\ GoesOnWith(lib, EndOf(Before))' <=> GoesOnWith(lib', EndOf(Before))
  BY <1>1, <1>2, SameSound
<1>3. CASE OpenDecoder
  <2>1. /\ ppc = "start" /\ UNCHANGED <<file, played, seek, m_seek_pos>>
        /\ ppc' \in {"loop", "error"}
        /\ ppc' = "loop" => lib'.state # "end"
        /\ lib' = Consume(lib, Header) /\ lib = Fresh /\ file \in Recordings
    BY <1>3 DEF OpenDecoder, Open, Types, TypeOK
  <2>2. played = <<>> /\ seek = NoSeek /\ m_seek_pos = -1
    BY <2>1 DEF Ordered
  <2>3. EndOf(Before) = 0 /\ Before.seek = NoSeek
    BY <2>2 DEF Before, EndOf
  <2>4. CASE ppc' = "error"
    BY <1>2, <2>1, <2>4 DEF Ordered
  <2>5. CASE ppc' = "loop"
    <3>1. Header \in Nat /\ file.frames \in Nat /\ Length \in Nat
          /\ file.size \in Nat /\ Block \in Nat
      BY <2>1, FileFacts
    <3>2. Consume(Fresh, Header).state # "end"
      BY <2>1, <2>5
    <3>3. lib'.state = "sync" /\ lib'.at = Header
      BY <2>1, <3>2, OpenWorks
    <3>4. FrameStart(0) = Header /\ FirstSample(0) = 0 /\ 0 \in 0..file.frames
      BY <3>1 DEF FrameStart, FirstSample
    <3>5. GoesOnWith(lib', EndOf(Before))
      BY <2>3, <3>3, <3>4 DEF GoesOnWith
    <3>6. GoesOnWith(lib, EndOf(Before))' /\ NoRequest'
      BY <1>2, <2>1, <2>2, <2>3, <3>5 DEF NoRequest
    <3> QED  BY <1>2, <2>1, <2>5, <3>6 DEF Ordered
  <2> QED  BY <2>1, <2>4, <2>5
<1>4. CASE LoopTop
  <2>1. /\ ppc = "loop" /\ UNCHANGED <<file, played, seek, m_seek_pos, lib, pc>>
        /\ ppc' \in {"seek", "read", "finish"} /\ pc = "idle"
    BY <1>4 DEF LoopTop, decoderVars, Types
  <2>2. NoRequest /\ GoesOnWith(lib, EndOf(Before))
    BY <2>1 DEF Ordered
  <2>3. NoRequest' /\ GoesOnWith(lib, EndOf(Before))'
    BY <1>2, <2>1, <2>2 DEF NoRequest
  <2> QED  BY <1>2, <2>1, <2>3 DEF Ordered
<1>5. CASE ApplySeek
  <2>1. /\ ppc = "seek" /\ UNCHANGED <<file, played, lib, pc>>
        /\ m_seek_pos' = seekPos /\ ppc' = "read" /\ pc = "idle" /\ seekPos > 0
        /\ seek' = [nr |-> seek.nr + 1, target |-> seekPos]
        /\ seek.nr \in Nat /\ seekPos \in Nat \cup {-1}
    BY <1>5 DEF ApplySeek, SeekTo, Types, TypeOK, Seek
  <2>2. seek = Before.seek /\ GoesOnWith(lib, EndOf(Before))
    BY <2>1 DEF Ordered, NoRequest
  <2>3. Before' = Before
    BY <2>1 DEF Before, NoSeek
  <2>4. PlaysInOrder'
    BY <1>1, <2>1 DEF PlaysInOrder, Samples, After, EndSample, FirstSample,
                      NoSeek
  <2>5. seek'.nr # seek.nr /\ seek'.target = seekPos
    BY <2>1
  <2>6. Request'
    BY <2>1, <2>2, <2>3, <2>5 DEF Request
  <2>7. GoesOnWith(lib, EndOf(Before))'
    BY <2>1, <2>2, <2>3 DEF GoesOnWith, FrameStart, FirstSample, EndOf
  <2>8. (seek.target >= 0)'
    BY <2>1, <2>5
  <2> QED  BY <2>1, <2>4, <2>6, <2>7, <2>8 DEF Ordered
<1>6. CASE ReadStep
  BY <1>6, OrderedRead
<1>7. CASE ReadDone
  BY <1>7, OrderedReadDone
<1>8. CASE Finish
  <2>1. UNCHANGED <<file, played, seek>> /\ ppc' = "done"
    BY <1>8 DEF Finish
  <2> QED  BY <1>2, <2>1 DEF Ordered
<1>9. CASE PausePlayback \/ ResumePlayback \/ SeekPlayback \/ Stop
             \/ UNCHANGED vars
  <2>1. UNCHANGED <<decoderVars, ppc, played, seek>>
    BY <1>9 DEF PausePlayback, ResumePlayback, SeekPlayback, Call, Stop, vars,
                decoderVars
  <2>2. /\ NoRequest' = NoRequest /\ Request' = Request
        /\ InOrder' = InOrder /\ Total' = Total
        /\ GoesOnWith(lib, EndOf(Before))' = GoesOnWith(lib, EndOf(Before))
        /\ GoesOnWith(lib, Expected)' = GoesOnWith(lib, Expected)
        /\ GoesOnWith(lib, Awaited)' = GoesOnWith(lib, Awaited)
    BY <2>1 DEF NoRequest, Request, InOrder, Awaited, Total, GoesOnWith, EndOf,
                Before, Expected, FrameStart, FirstSample, Samples, EndSample,
                After, NoSeek, decoderVars
  <2>3. PlaysInOrder' /\ (seek = Before.seek \/ seek.target >= 0)'
    BY <1>2, <2>1 DEF decoderVars
  <2> QED  BY <2>1, <2>2, <2>3 DEF Ordered, decoderVars
<1> QED
  BY <1>3, <1>4, <1>5, <1>6, <1>7, <1>8, <1>9 DEF Next, Thread

\* Whatever is played goes on where the last span ended, or in the frame of the
\* target after a seek that could be carried out (FLACStreamDecoder.read), for
\* every recording, every buffer and every way the owner pauses, resumes and
\* seeks.
THEOREM HeardInOrder == Spec => []PlaysInOrder
<1>1. Spec => []Types
  BY AlwaysTypes
<1>2. Init => Ordered
  BY OrderedInit
<1>3. Types /\ Ordered /\ [Next]_vars => Ordered'
  BY OrderedNext
<1>4. Ordered => PlaysInOrder
  BY DEF Ordered
<1> QED  BY <1>1, <1>2, <1>3, <1>4, PTL DEF Spec
-------------------------------------------------------------------------------
(* What is left out at the end.                                            *)

LEMMA KeptInit == Init => Kept
BY DEF Init, DecoderInit, Kept

\* Refused are a decoder at its end and one that has met it while reading ahead.
LEMMA NothingLeftBehind ==
  ASSUME file \in Recordings, NEW l \in Lib, NEW k \in Nat, At(l, k),
         CheckState(l) # 0
  PROVE  Left(k)
<1>1. CASE l.state = "end"
  BY <1>1 DEF At, States
<1>2. CASE l.state # "end"
  <2>1. l.state = "sync" /\ l.at = FrameStart(k) /\ l.offset - l.at <= Capacity
        /\ (l.finished => l.offset = Length)
    BY <1>2 DEF At
  <2>2. l.finished
    BY <2>1, CheckStateWorks
  <2>3. (WholeFrames - k) * file.size <= Length - FrameStart(k)
    BY WholeFramesFit
  <2>4. /\ WholeFrames \in Int /\ file.size \in Nat /\ Length \in Nat
        /\ FrameStart(k) \in Nat /\ Capacity \in Nat
    BY FileFacts, WholeFramesFit, FrameStarts
  <2>5. (WholeFrames - k) * file.size \in Int
    BY <2>4
  <2>6. Length - FrameStart(k) <= Capacity
    BY <2>1, <2>2
  <2> QED  BY <2>3, <2>4, <2>5, <2>6 DEF Left
<1> QED  BY <1>1, <1>2

\* Frames that are lost with the buffer count as left out.
LEMMA LeftWithBuffer ==
  ASSUME file \in Recordings, NEW k \in Nat, NEW n \in Nat, Left(k + n),
         n <= (BufSize - 1) \div MinBuffer
  PROVE  GivenUp(k)
<1> DEFINE q == (BufSize - 1) \div MinBuffer
<1>1. /\ WholeFrames \in Int /\ file.size \in Nat /\ Capacity \in Nat
      /\ BufSize - 1 \in Int /\ MinBuffer \in Nat \ {0}
  BY FileFacts, WholeFramesFit, BufferHoldsBlock
<1>2. q \in Int
  BY <1>1, Division
<1> HIDE DEF q
<1>3. q - n \in Nat /\ (q - n) * file.size \in Nat
  <2>1. q - n \in Nat
    BY <1>2 DEF q
  <2> QED  BY <1>1, <2>1, MultNat
<1>4. (WholeFrames - k - q) * file.size
        = (WholeFrames - (k + n)) * file.size - (q - n) * file.size
  BY <1>1, <1>2
<1>5. (WholeFrames - (k + n)) * file.size \in Int
  BY <1>1
<1>6. (WholeFrames - k - q) * file.size <= Capacity
  BY <1>1, <1>3, <1>4, <1>5 DEF Left
<1> QED  BY <1>6 DEF GivenUp, q

\* What is given up is known from the decoder's state and what was played.
LEMMA GivenUpThen ==
  ASSUME file' = file, played' = played, lib'.state = lib.state \/ lib.state # "frame",
         GivenUp(Len(played))
  PROVE  GivenUp(Len(played))'
BY DEF GivenUp, WholeFrames, Length, BufSize, MinBuffer

LEMMA AtThen ==
  ASSUME file' = file, NEW k \in Nat, At(lib', k), Len(played') + Len(writes') = k
  PROVE  At(lib, Len(played) + Len(writes))'
BY DEF At, Left, WholeFrames, Length, FrameStart, EndSample, FirstSample

LEMMA KeptRead ==
  ASSUME Types, Ordered, Kept, ReadStep, seek.nr = 0
  PROVE  Kept'
<1> DEFINE k == Len(played)
           m == Len(writes)
<1>1. /\ file \in Recordings /\ lib \in Lib /\ ppc = "read"
      /\ Header <= Length /\ Positioned(lib) /\ m_seek_pos = -1
      /\ pc \in {"idle", "process", "returned"}
      /\ k \in Nat /\ m \in Nat /\ writes \in Seq(Span)
      /\ UNCHANGED <<played, seek, ppc>>
  BY DEF Types, TypeOK, ReadStep, Kept, playerVars
<1>2. CASE ReadRefused
  <2>1. /\ pc = "idle" /\ CheckState(lib) # 0 /\ pc' = "returned"
        /\ ret' = CheckState(lib) /\ file' = file /\ m_seek_pos' = m_seek_pos
        /\ lib' = Checked(lib)
    BY <1>2 DEF ReadRefused
  <2>2. At(lib, k)
    BY <1>1, <2>1 DEF Kept
  <2>3. Left(k)
    BY <1>1, <2>1, <2>2, NothingLeftBehind
  <2>4. GivenUp(k)
    <3>1. /\ BufSize - 1 \in Nat /\ MinBuffer \in Nat \ {0}
      BY <1>1, BufferHoldsBlock
    <3>2. k + 0 = k
      BY <1>1
    <3>3. 0 <= (BufSize - 1) \div MinBuffer
      BY <3>1
    <3> QED  BY <1>1, <2>3, <3>2, <3>3, LeftWithBuffer
  <2>5. lib'.state = lib.state
    BY <1>1, <2>1, CheckedWorks
  <2>6. GivenUp(Len(played))'
    BY <1>1, <2>1, <2>4, <2>5, GivenUpThen
  <2>7. ~(ret' > 0)
    BY <1>1, <2>1, CheckStateWorks
  <2> QED  BY <1>1, <2>1, <2>6, <2>7 DEF Kept
<1>3. CASE ReadBegins
  <2>1. /\ pc = "idle" /\ CheckState(lib) = 0 /\ pc' = "process"
        /\ m_buf_used' = 0 /\ writes' = <<>> /\ UNCHANGED <<file, lib, m_seek_pos>>
    BY <1>1, <1>3 DEF ReadBegins
  <2>2. At(lib, k)
    BY <1>1, <2>1 DEF Kept
  <2>3. lib.state = "sync"
    BY <1>1, <2>1, <2>2, CheckStateWorks DEF At
  <2>4. Len(played') + Len(writes') = k
    BY <1>1, <2>1
  <2>5. At(lib, Len(played) + Len(writes))'
    BY <1>1, <2>1, <2>2, <2>4, AtThen
  <2>6. BufSize \in Nat \ {0} /\ MinBuffer \in Nat /\ BufSize' = BufSize
        /\ MinBuffer' = MinBuffer
    BY <1>1, <2>1, BufferHoldsBlock, SameFile DEF MinBuffer
  <2>7. m_buf_used' < BufSize' /\ (writes' = <<>> <=> m_buf_used' = 0)
        /\ m_buf_used' = Len(writes') * MinBuffer'
    BY <2>1, <2>6
  <2>8. Filled(Len(played) + Len(writes))'
    BY <2>7 DEF Filled
  <2> QED  BY <1>1, <2>1, <2>3, <2>5, <2>8 DEF Kept
<1>4. CASE Process
  <2>1. pc = "process"
    BY <1>4 DEF Process
  <2>2. lib.state = "sync" /\ At(lib, k + m) /\ Filled(k + m)
    BY <1>1, <2>1 DEF Kept
  <2>3. /\ UNCHANGED <<file, m_seek_pos>>
        /\ Ends \/ Cuts \/ \E w \in Span : Stores(w)
    BY <1>1, <1>4, ProcessCases
  <2>4. /\ BufSize \in Nat \ {0} /\ MinBuffer \in Nat \ {0}
        /\ MinBuffer = Block * Channels /\ Channels \in {1, 2}
        /\ m_buf_used \in Nat /\ ret' \in Int
        /\ Block \in Nat /\ file.frames \in Nat
    <3>1. m_buf_used \in 0..BufSize
      BY DEF Types, TypeOK
    <3>2. ret' \in Int
      BY TypesRead DEF Types, TypeOK
    <3> QED  BY <1>1, <3>1, <3>2, BufferHoldsBlock, DecoderAssumption, FileFacts
  <2> DEFINE done == k + m
  <2>5. done \in Nat
    BY <1>1
  <2>6. \/ Step.frame = -1 /\ Step.lib.state = "end" /\ Left(done)
        \/ Step.frame = done /\ Step.lib.state = "sync" /\ At(Step.lib, done + 1)
    BY <1>1, <2>2, <2>5, ProcessReadsAhead DEF Step
  <2>7. Step.lib \in Lib
    BY <1>1, ProcessWorks DEF Step
  <2>8. CASE Ends
    <3>1. /\ Step.frame = -1 /\ UNCHANGED <<writes, m_buf_used>>
          /\ pc' = "returned" /\ lib'.state = Step.lib.state
          /\ IF Step.result THEN ret' = m_buf_used ELSE ret' <= 0
      BY <2>8 DEF Ends
    <3>2. lib'.state = "end" /\ Left(done)
      BY <2>5, <2>6, <3>1
    <3>3. CASE ret' > 0
      <4>1. At(lib', done) /\ Len(played') + Len(writes') = done
        BY <1>1, <3>1, <3>2 DEF At
      <4>2. At(lib, Len(played) + Len(writes))'
        BY <2>3, <2>5, <4>1, AtThen
      <4> QED  BY <1>1, <2>3, <3>1, <3>3, <4>2 DEF Kept
    <3>4. CASE ~(ret' > 0)
      <4>1. m <= (BufSize - 1) \div MinBuffer
        <5>1. CASE m = 0
          <6>1. BufSize - 1 \in Nat
            BY <2>4
          <6> QED  BY <2>4, <5>1, <6>1
        <5>2. CASE m # 0
          <6>1. m_buf_used # 0
            BY <1>1, <2>2, <5>2, EmptySeq DEF Filled
          <6>2. ~Step.result
            BY <2>4, <3>1, <3>4, <6>1
          <6>3. lib.at = FrameStart(done)
            BY <2>2 DEF At
          <6>4. FrameAfter(lib.at) = done
            BY <1>1, <2>5, <6>3, FrameStarts
          <6>5. done < file.frames
            <7>1. ~(FrameAfter(lib.at) >= file.frames)
              BY <1>1, <2>2, <3>1, <6>2, ProcessWorks DEF Step
            <7> QED  BY <2>4, <2>5, <6>4, <7>1
          <6>6. m * MinBuffer <= BufSize - 1
            BY <2>2, <2>4, <6>5 DEF Filled
          <6>7. BufSize - 1 < ((BufSize - 1) \div MinBuffer + 1) * MinBuffer
                /\ (BufSize - 1) \div MinBuffer \in Int
            <7>1. BufSize - 1 \in Int
              BY <2>4
            <7> QED  BY <2>4, <7>1, Division
          <6> DEFINE q == (BufSize - 1) \div MinBuffer
          <6>8. m * MinBuffer < (q + 1) * MinBuffer
            <7>1. m * MinBuffer \in Int /\ (q + 1) * MinBuffer \in Int
              BY <1>1, <2>4, <6>7
            <7> HIDE DEF q, m
            <7> QED  BY <2>4, <6>6, <6>7, <7>1 DEF q
          <6> HIDE DEF q, m
          <6>9. m < q + 1
            BY <1>1, <2>4, <6>7, <6>8, MultStrict DEF q
          <6> QED  BY <1>1, <6>7, <6>9 DEF q
        <5> QED  BY <5>1, <5>2
      <4>2. GivenUp(k)
        BY <1>1, <3>2, <4>1, LeftWithBuffer
      <4>3. GivenUp(Len(played))'
        BY <1>1, <2>2, <2>3, <4>2, GivenUpThen
      <4> QED  BY <1>1, <2>3, <3>1, <3>4, <4>3 DEF Kept
    <3> QED  BY <3>3, <3>4
  <2>9. CASE Cuts
    <3>1. pc' = "returned" /\ ~(ret' > 0) /\ GivenUp(Len(played))'
      BY <2>4, <2>9 DEF Cuts, GivenUp
    <3> QED  BY <1>1, <2>3, <3>1 DEF Kept
  <2>10. ASSUME NEW w \in Span, Stores(w)
         PROVE  Kept'
    <3> DEFINE f == Step.frame
               n == EndSample(f) - FirstSample(f)
    <3>1. /\ f \in 0..file.frames - 1 /\ lib'.state = "sync"
          /\ lib' = Checked(Step.lib)
          /\ writes' = Append(writes, w)
          /\ m_buf_used' = m_buf_used + n * Channels
          /\ m_buf_used' > m_buf_used
          /\ \/ pc' = "returned" /\ ret' = m_buf_used'
             \/ pc' = "process" /\ m_buf_used' < BufSize
      BY <2>10 DEF Stores
    <3>2. f # -1
      BY <2>4, <3>1
    <3>3. f = done /\ Step.lib.state = "sync" /\ At(Step.lib, done + 1)
      BY <2>6, <3>2
    <3>4. At(lib', done + 1)
      <4>1. /\ lib'.at = Step.lib.at /\ lib'.offset = Step.lib.offset
            /\ lib'.state = Step.lib.state /\ lib'.decoded = Step.lib.decoded
            /\ lib'.finished = Step.lib.finished
        BY <2>7, <3>1, <3>3, CheckedWorks
      <4> QED  BY <3>3, <4>1 DEF At
    <3>5. Len(writes') = m + 1 /\ writes' # <<>>
      BY <1>1, <3>1
    <3>6. Len(played') + Len(writes') = done + 1 /\ done + 1 \in Nat
      BY <1>1, <2>5, <3>5
    <3>7. At(lib, Len(played) + Len(writes))'
      BY <2>3, <3>4, <3>6, AtThen
    <3>8. m_buf_used' \in Int
      BY TypesRead, <1>1, <2>3, SameFile, BufferHoldsBlock DEF Types, TypeOK
    <3>9. CASE pc' = "returned" /\ ret' = m_buf_used'
      <4>1. ret' > 0
        BY <2>4, <3>1, <3>8, <3>9
      <4> QED  BY <1>1, <2>3, <3>7, <3>9, <4>1 DEF Kept
    <3>10. CASE pc' = "process" /\ m_buf_used' < BufSize
      <4>1. BufSize' = BufSize /\ MinBuffer' = MinBuffer
        BY <2>3, SameFile DEF MinBuffer
      <4>2. ASSUME done + 1 < file.frames
            PROVE  m_buf_used' = (m + 1) * MinBuffer
        <5>1. n = Block
          <6>1. /\ EndSample(done) = FirstSample(done + 1)
                /\ FirstSample(done + 1) = FirstSample(done) + Block
                /\ FirstSample(done) \in Nat
            BY <1>1, <2>4, <2>5, <4>2, FrameSamples
          <6> QED  BY <2>4, <3>3, <6>1
        <5>2. m_buf_used = m * MinBuffer
          BY <2>2, <2>4, <2>5, <4>2 DEF Filled
        <5>3. (m + 1) * MinBuffer = m * MinBuffer + MinBuffer
          BY <1>1, <2>4, MultNext
        <5> QED  BY <2>4, <3>1, <5>1, <5>2, <5>3
      <4>3. m_buf_used' # 0
        BY <2>4, <3>1, <3>8
      <4>4. Filled(Len(played) + Len(writes))'
        <5>1. (Len(played) + Len(writes))' = done + 1 /\ Len(writes') = m + 1
          BY <3>5, <3>6
        <5> QED  BY <2>3, <3>5, <3>10, <4>1, <4>2, <4>3, <5>1 DEF Filled
      <4> QED  BY <1>1, <2>3, <3>1, <3>7, <3>10, <4>4 DEF Kept
    <3> QED  BY <3>1, <3>9, <3>10
  <2> QED  BY <2>3, <2>8, <2>9, <2>10
<1>5. CASE SeekAbsolute \/ SeekProbe \/ SeekDone
  BY <1>1, <1>5 DEF SeekAbsolute, SeekProbe, SeekDone
<1> QED  BY <1>2, <1>3, <1>4, <1>5 DEF ReadStep, Read

LEMMA KeptNext == Types /\ Ordered /\ Kept /\ [Next]_vars => Kept'
<1> SUFFICES ASSUME Types, Ordered, Kept, [Next]_vars PROVE Kept'
  OBVIOUS
<1> DEFINE k == Len(played)
<1>1. k \in Nat /\ file \in Recordings /\ lib \in Lib /\ seek.nr \in Nat
  BY DEF Types, TypeOK, Seek
<1>2. CASE OpenDecoder
  <2>1. /\ UNCHANGED <<file, played, seek, m_seek_pos>> /\ ppc = "start"
        /\ lib' = Consume(lib, Header) /\ lib = Fresh
        /\ pc' = IF lib'.state = "end" THEN "refused" ELSE "idle"
        /\ ppc' \in IF pc' = "refused" THEN {"error"} ELSE {"loop", "error"}
    BY <1>2 DEF OpenDecoder, Open, Types
  <2>2. played = <<>> /\ m_seek_pos = -1 /\ k = 0
    BY <2>1 DEF Ordered
  <2>3. CASE lib'.state = "end"
    BY <2>1, <2>2, <2>3 DEF Kept
  <2>4. CASE lib'.state # "end"
    <3>1. Header \in Nat /\ file.frames \in Nat /\ Length \in Nat
          /\ file.size \in Nat /\ Capacity \in Nat
      BY <1>1, FileFacts
    <3>2. lib.at = 0 /\ lib.offset = 0 /\ lib.state = "sync"
          /\ lib.decoded = 0 /\ lib.finished = FALSE
      BY <2>1 DEF Fresh
    <3>3. ReadAhead(lib)
      BY <3>1, <3>2 DEF ReadAhead
    <3>4. /\ lib'.state = "sync" /\ lib'.at = Header /\ lib'.decoded = 0
          /\ ReadAhead(lib')
      <4> DEFINE c == Consume(lib, Header)
      <4>1. c.state # "end" /\ lib' = c
        BY <2>1, <2>4
      <4>2. /\ c.decoded = lib.decoded /\ c.state \in {"end", lib.state}
            /\ c.state # "end" => c.at = Header
        <5>1. lib.at <= lib.offset /\ lib.offset <= Length
          BY <3>1, <3>2
        <5> QED  BY <1>1, <3>1, <5>1, ConsumeWorks
      <4>3. ReadAhead(c)
        BY <1>1, <3>1, <3>2, <3>3, <4>1, ConsumeReadsAhead
      <4> HIDE DEF c
      <4> QED  BY <3>2, <4>1, <4>2, <4>3
    <3>5. FrameStart(0) = Header
      BY <3>1 DEF FrameStart
    <3>6. At(lib', 0)
      BY <3>1, <3>4, <3>5 DEF At, ReadAhead
    <3>7. At(lib, Len(played))'
      BY <2>1, <2>2, <3>6 DEF At, Left, WholeFrames, Length, FrameStart,
                              EndSample, FirstSample
    <3> QED  BY <2>1, <2>2, <2>4, <3>7 DEF Kept
  <2> QED  BY <2>3, <2>4
<1>3. CASE LoopTop
  <2>1. /\ ppc = "loop" /\ UNCHANGED <<decoderVars, mShouldRun, played, seek>>
        /\ pc = "idle"
        /\ \/ ppc' \in {"seek", "read"}
           \/ ppc' = "finish" /\ ~mShouldRun
    BY <1>3 DEF LoopTop, Owner, Types
  <2>2. At(lib, Len(played))' <=> At(lib, Len(played))
    BY <2>1 DEF At, Left, WholeFrames, Length, FrameStart, EndSample,
                FirstSample, decoderVars
  <2> QED  BY <2>1, <2>2 DEF Kept, decoderVars
<1>4. CASE ApplySeek
  <2>1. seek' = [nr |-> seek.nr + 1, target |-> seekPos]
    BY <1>4 DEF ApplySeek
  <2>2. seek'.nr # 0
    BY <1>1, <2>1
  <2> QED  BY <2>2 DEF Kept
<1>5. CASE ReadStep
  <2>1. CASE seek.nr = 0
    BY <1>5, <2>1, KeptRead
  <2>2. CASE seek.nr # 0
    <3>1. seek' = seek
      BY <1>5 DEF ReadStep, playerVars
    <3> QED  BY <2>2, <3>1 DEF Kept
  <2> QED  BY <2>1, <2>2
<1>6. CASE ReadDone
  <2>1. /\ ppc = "read" /\ pc = "returned" /\ pc' = "idle"
        /\ UNCHANGED <<file, lib, seek, m_seek_pos, mShouldRun>>
    BY <1>6 DEF ReadDone, ReadReturned, Owner
  <2>2. CASE seek.nr # 0
    BY <2>1, <2>2 DEF Kept
  <2>3. CASE seek.nr = 0 /\ ret > 0
    <3>1. /\ played' = played \o Heard /\ ppc' = "loop"
          /\ m_seek_pos = -1 /\ At(lib, k + Len(writes))
      BY <1>6, <2>1, <2>3 DEF ReadDone, Heard, Kept
    <3>2. Len(played') = k + Len(writes)
      <4>1. Heard \in Seq(PlayedSpan) /\ Len(Heard) = Len(writes)
            /\ played \in Seq(PlayedSpan)
        BY HeardSpans DEF Types, TypeOK, PlayedSpan
      <4>2. Len(played \o Heard) = Len(played) + Len(Heard)
        BY <4>1, ConcatProperties
      <4> QED  BY <3>1, <4>1, <4>2
    <3>3. At(lib, Len(played))'
      BY <2>1, <3>1, <3>2 DEF At, Left, WholeFrames, Length, FrameStart,
                              EndSample, FirstSample
    <3> QED  BY <2>1, <3>1, <3>3 DEF Kept
  <2>4. CASE seek.nr = 0 /\ ~(ret > 0)
    <3>1. played' = played /\ ppc' = "finish" /\ m_seek_pos = -1
      BY <1>6, <2>1, <2>4 DEF ReadDone, Kept
    <3>2. ret <= 0
      BY <2>4 DEF Types, TypeOK
    <3>3. GivenUp(k)
      BY <2>1, <2>4, <3>2 DEF Kept
    <3>4. GivenUp(Len(played))'
      BY <2>1, <3>1, <3>3, GivenUpThen
    <3> QED  BY <2>1, <3>1, <3>4 DEF Kept
  <2> QED  BY <2>2, <2>3, <2>4
<1>7. CASE Finish
  <2>1. /\ ppc = "finish" /\ ppc' = "done" /\ pc' = "released"
        /\ UNCHANGED <<file, lib, m_seek_pos, mShouldRun, played, seek>>
    BY <1>7 DEF Finish, Release, Owner
  <2>2. GivenUp(Len(played)) => GivenUp(Len(played))'
    BY <2>1, GivenUpThen
  <2> QED  BY <2>1, <2>2 DEF Kept
<1>8. CASE PausePlayback \/ ResumePlayback \/ SeekPlayback \/ Stop
             \/ UNCHANGED vars
  <2>1. /\ UNCHANGED <<decoderVars, ppc, played, seek>>
        /\ mShouldRun' => mShouldRun
    BY <1>8 DEF PausePlayback, ResumePlayback, SeekPlayback, Call, Stop, vars,
                decoderVars
  <2>2. /\ At(lib, Len(played))' <=> At(lib, Len(played))
        /\ At(lib, Len(played) + Len(writes))'
             <=> At(lib, Len(played) + Len(writes))
        /\ GivenUp(Len(played))' <=> GivenUp(Len(played))
        /\ Filled(Len(played) + Len(writes))'
             <=> Filled(Len(played) + Len(writes))
    BY <2>1 DEF At, Left, GivenUp, Filled, WholeFrames, Length, FrameStart,
                EndSample, FirstSample, BufSize, MinBuffer, decoderVars
  <2> QED  BY <2>1, <2>2 DEF Kept, decoderVars
<1> QED
  BY <1>2, <1>3, <1>4, <1>5, <1>6, <1>7, <1>8 DEF Next, Thread

\* Playback that ends by itself, without a seek, has left out no more than what
\* the bit reader held when it met the end of the file (cb_read sets m_finished
\* with data delivered) and the blocks that were in the buffer when the next frame
\* failed, whatever the sizes of header, frames, read-ahead and buffer and
\* wherever the file is cut off - unless it ended with a frame that did not fit
\* into the buffer (EveryFrameFits).
THEOREM LossIsReadAhead == Spec => []LossBounded
<1>1. Spec => []Types
  BY AlwaysTypes
<1>2. Init => Ordered /\ Kept
  BY OrderedInit, KeptInit
<1>3. Types /\ Ordered /\ [Next]_vars => Ordered'
  BY OrderedNext
<1>4. Types /\ Ordered /\ Kept /\ [Next]_vars => Kept'
  BY KeptNext
<1>5. Kept => LossBounded
  BY DEF Kept, LossBounded, PlayedToEnd, GivenUp, EveryFrameFits
<1> QED  BY <1>1, <1>2, <1>3, <1>4, <1>5, PTL DEF Spec
===============================================================================
