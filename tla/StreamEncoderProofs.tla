------------------------- MODULE StreamEncoderProofs -------------------------
(***************************************************************************)
(* Proofs about StreamEncoder, for every buffer size, every set of write   *)
(* sizes and any number of failures.                                       *)
(***************************************************************************)
EXTENDS StreamEncoder, TLAPS

-------------------------------------------------------------------------------
(* Types and control.                                                      *)

\* Which values go with which program counters.
Control ==
  /\ buffer # 0 => buffer = BufferSize /\ offset <= buffer /\ offset <= written
  /\ jpc \in {"spill", "copyBig", "push", "signalWrite"} => pending > 0
  /\ jpc \in {"push", "signalWrite"} => pending <= BufferSize
  /\ jpc \in {"copyBig", "signalWrite", "kill", "broadcast", "join", "released"}
       => buffer = 0
  /\ jpc \in {"new", "refused", "undefined"} => wpc = "none"
  /\ kill => jpc \in {"broadcast", "join", "released"}
  /\ jpc = "released" => wpc = "exited"
  /\ wpc = "exited" => kill /\ fifo = <<>>
  /\ wpc # "encoding" => batch = <<>>

\* flush_to_fifo() appends an entry and leaves no buffer.
LEMMA FlushType ==
  ASSUME TypeOK, Control, FlushToFifo
  PROVE  fifo' \in Seq(Entry) /\ buffer' = 0
<1>1. CASE buffer = 0
  BY <1>1 DEF FlushToFifo, TypeOK
<1>2. CASE buffer # 0
  <2>1. [first |-> written - offset, fill |-> offset, room |-> buffer] \in Entry
    BY <1>2 DEF Entry, TypeOK, Control
  <2>2. fifo \in Seq(Entry)
    BY DEF TypeOK
  <2>3. QED
    BY <1>2, <2>1, <2>2 DEF FlushToFifo
<1>3. QED
  BY <1>1, <1>2

\* Every value has its type and the program counters of the two threads fit the
\* buffers they own (the JNI thread's write buffer, the writer's batch).
THEOREM TypeAndControl == Spec => [](TypeOK /\ Control)
<1> USE SizesAssumption DEF SizesAssumption
<1>1. Init => TypeOK /\ Control
  <2>1. ASSUME Init PROVE TypeOK
    <3>1. <<>> \in Seq(Entry) /\ <<>> \in Seq(Span)
      OBVIOUS
    <3>2. {} \in SUBSET Nat /\ FALSE \in BOOLEAN /\ 0 \in 0 .. MaxRetries
      BY DEF MaxRetries
    <3>3. <<>> \in Seq(Nat)
      OBVIOUS
    <3>4. QED
      BY <2>1, <3>1, <3>2, <3>3 DEF Init, TypeOK, JniPcs, WriterPcs
  <2>2. ASSUME Init PROVE Control
    BY <2>2 DEF Init, Control
  <2>3. QED
    BY <2>1, <2>2
<1>2. TypeOK /\ Control /\ [Next]_vars => TypeOK' /\ Control'
  <2> SUFFICES ASSUME TypeOK, Control, [Next]_vars
               PROVE  TypeOK' /\ Control'
    OBVIOUS
  <2> USE DEF TypeOK, Control, JniPcs, WriterPcs, jniVars, writerVars
  <2>1. ASSUME FlushToFifo PROVE fifo' \in Seq(Entry) /\ buffer' = 0
    BY <2>1, FlushType
  <2>2. CASE Open
    <3>1. TypeOK'
      BY <2>2 DEF Open
    <3>2. Control'
      BY <2>2 DEF Open
    <3>3. QED
      BY <3>1, <3>2
  <2>3. CASE OpenFails
    BY <2>3 DEF OpenFails
  <2>4. ASSUME NEW n \in Sizes, Write(n) PROVE TypeOK' /\ Control'
    <3>1. n \in Nat \ {0}
      OBVIOUS
    <3>2. UNCHANGED <<fifo, kill, wpc, missed, batch, retry, file, lost, failed, stray>>
      BY <2>4 DEF Write
    <3>3. jpc = "idle"
      BY <2>4 DEF Write
    <3>4. CASE /\ n > BufferSize \/ n <= BufferSize
               /\ jpc' = IF n > BufferSize THEN "spill" ELSE "push"
               /\ pending' = n
               /\ UNCHANGED <<buffer, offset, written>>
      BY <3>1, <3>2, <3>3, <3>4
    <3>5. CASE /\ Fits(n)
               /\ buffer' = IF buffer = 0 THEN BufferSize ELSE buffer
               /\ offset' = (IF buffer = 0 THEN 0 ELSE offset) + n
               /\ written' = written + n
               /\ UNCHANGED <<jpc, pending>>
      <4>1. CASE buffer = 0
        BY <3>1, <3>2, <3>3, <3>5, <4>1 DEF Fits
      <4>2. CASE buffer # 0
        BY <3>1, <3>2, <3>3, <3>5, <4>2 DEF Fits
      <4> QED
        BY <4>1, <4>2
    <3>6. QED
      BY <2>4, <3>1, <3>4, <3>5 DEF Write
  <2>5. CASE Spill
    BY <2>5, <2>1 DEF Spill
  <2>6. CASE CopyBig
    <3>1. [first |-> written, fill |-> pending, room |-> pending] \in Entry
      BY DEF Entry
    <3>2. fifo' \in Seq(Entry)
      BY <2>6, <3>1 DEF CopyBig
    <3>3. QED
      BY <2>6, <3>2 DEF CopyBig
  <2>7. CASE Push
    BY <2>7, <2>1 DEF Push
  <2>8. CASE SignalWrite
    BY <2>8 DEF SignalWrite, Signal
  <2>9. CASE Flush
    BY <2>9, <2>1 DEF Flush
  <2>10. CASE SignalWriter
    BY <2>10 DEF SignalWriter, Signal
  <2>11. CASE Release
    BY <2>11, <2>1 DEF Release
  <2>12. CASE Kill
    BY <2>12 DEF Kill
  <2>13. CASE Broadcast
    BY <2>13 DEF Broadcast, Signal
  <2>14. CASE Join
    BY <2>14 DEF Join
  <2>15. CASE StartWriter
    BY <2>15 DEF StartWriter
  <2>16. CASE SpuriousWakeup
    BY <2>16 DEF SpuriousWakeup
  <2>17. CASE TakeFifo
    BY <2>17 DEF TakeFifo, HasMutex, MaxRetries
  <2>18. CASE WaitOrExit
    BY <2>18 DEF WaitOrExit, HasMutex
  <2>19. CASE EncodeSucceeds
    <3>1. Head(batch) \in Entry /\ Tail(batch) \in Seq(Entry)
      BY <2>19 DEF EncodeSucceeds
    <3>2. [first |-> Head(batch).first, fill |-> Head(batch).fill, whole |-> TRUE] \in Span
      BY <3>1 DEF Entry, Span
    <3>3. file' \in Seq(Span)
      BY <2>19, <3>2 DEF EncodeSucceeds
    <3>4. Head(batch).fill \in Nat
      BY <3>1 DEF Entry
    <3>5. stray' \in Nat
      <4> DEFINE n == Head(batch).fill
      <4>1. stray' = stray + Channels * n - n /\ stray \in Nat /\ n \in Nat
        BY <2>19, <3>4 DEF EncodeSucceeds, ReadBy
      <4> HIDE DEF n
      <4>2. CASE Channels = 1
        BY ONLY <4>1, <4>2
      <4>3. CASE Channels = 2
        BY ONLY <4>1, <4>3
      <4>4. QED
        BY <4>2, <4>3
    <3>6. QED
      BY <2>19, <3>1, <3>3, <3>5 DEF EncodeSucceeds, MaxRetries
  <2>20. CASE EncodeFails
    <3>1. Head(batch) \in Entry
      BY <2>20 DEF EncodeFails
    <3>2. Head(batch).first \in Nat /\ Head(batch).fill \in Nat
      BY <3>1 DEF Entry
    <3>3. PICK k \in 0 .. Head(batch).fill :
            file' = IF k = 0 THEN file
                    ELSE Append(file, [first |-> Head(batch).first,
                                       fill |-> k, whole |-> FALSE])
      BY <2>20 DEF EncodeFails
    <3>4. [first |-> Head(batch).first, fill |-> k, whole |-> FALSE] \in Span
      BY <3>2 DEF Span
    <3>5. file' \in Seq(Span)
      BY <3>3, <3>4
    <3>6. GivesUp \in SUBSET Nat
      <4>1. \A i \in DOMAIN batch : batch[i] \in Entry
        OBVIOUS
      <4>2. \A i \in DOMAIN batch : Samples(batch[i]) \in SUBSET Nat
        BY <4>1 DEF Samples, Entry
      <4>3. QED
        BY <4>2 DEF GivesUp
    <3>7. retry' \in 0 .. MaxRetries /\ batch' \in Seq(Entry) /\ lost' \in SUBSET Nat
      <4>1. CASE Exhausted
        <5>1. batch' = <<>> /\ lost' = lost \cup GivesUp /\ retry' = retry
          BY <2>20, <4>1 DEF EncodeFails
        <5>2. QED
          BY <5>1, <3>6
      <4>2. CASE ~Exhausted
        <5>1. batch' = batch /\ lost' = lost /\ retry' = retry + 1
          BY <2>20, <4>2 DEF EncodeFails
        <5>2. retry \in 0 .. 2
          BY <4>2 DEF Exhausted, MaxRetries
        <5>3. QED
          BY <5>1, <5>2 DEF MaxRetries
      <4>3. QED
        BY <4>1, <4>2
    <3>8. failed' \in Seq(Nat)
      BY <2>20, <3>2 DEF EncodeFails
    <3>9. QED
      BY <2>20, <3>5, <3>7, <3>8 DEF EncodeFails
  <2>21. CASE UNCHANGED vars
    BY <2>21 DEF vars
  <2>22. QED
    BY <2>2, <2>3, <2>4, <2>5, <2>6, <2>7, <2>8, <2>9, <2>10, <2>11, <2>12,
       <2>13, <2>14, <2>15, <2>16, <2>17, <2>18, <2>19, <2>20, <2>21
    DEF Next, Call, JniStep, WriterStep
<1>3. QED
  BY <1>1, <1>2, PTL DEF Spec

\* Type correctness of the encoder.
THEOREM TypeCorrect == Spec => []TypeOK
BY TypeAndControl, PTL

-------------------------------------------------------------------------------
(* The hand-over.  That a tiled sequence is ordered, stays inside its      *)
(* range and covers it are facts about sequences of every length, so they  *)
(* are carried along as parts of the invariant instead of being derived.   *)

Covered(s) == UNION {Samples(s[i]) : i \in DOMAIN s}

\* s tiles a .. b - 1, in order, inside that range and covering it.
Layout(s, a, b) ==
  /\ Tiles(s, a, b)
  /\ a <= b
  /\ \A i \in 1 .. Len(s) : a <= s[i].first /\ End(s[i]) <= b
  /\ \A i, j \in 1 .. Len(s) : i < j => End(s[i]) <= s[j].first
  /\ Covered(s) = a .. b - 1

\* Nothing tiles the empty range.
LEMMA LayoutEmpty ==
  ASSUME NEW a \in Nat
  PROVE  Layout(<<>>, a, a)
BY DEF Layout, Tiles, Covered

\* The numbers an entry holds.
LEMMA EntryEnd ==
  ASSUME NEW e \in Entry
  PROVE  /\ e.first \in Nat /\ e.fill \in Nat /\ End(e) \in Nat
         /\ \A x \in Samples(e) : x \in Int /\ e.first <= x /\ x < End(e)
<1>1. e.first \in Nat /\ e.fill \in Nat
  BY DEF Entry
<1> QED
  BY <1>1 DEF End, Samples

\* An entry that begins where the sequence ends extends it.
LEMMA LayoutAppend ==
  ASSUME NEW s \in Seq(Entry), NEW e \in Entry, NEW a \in Nat, NEW b \in Nat,
         Layout(s, a, b), e.first = b
  PROVE  Layout(Append(s, e), a, End(e)) /\ Append(s, e)[1].first = a
<1> DEFINE t == Append(s, e)
<1>1. /\ t \in Seq(Entry) /\ Len(s) \in Nat /\ Len(t) = Len(s) + 1
      /\ \A i \in 1 .. Len(s) : t[i] = s[i]
      /\ t[Len(t)] = e
  OBVIOUS
<1>2. \A i \in 1 .. Len(s) : s[i] \in Entry
  OBVIOUS
<1> HIDE DEF t
<1>3. End(e) \in Nat /\ e.first \in Nat /\ e.fill \in Nat /\ b <= End(e)
  BY DEF Entry, End
<1>4. t[1].first = a
  <2>1. CASE s = <<>>
    BY <1>1, <2>1 DEF Layout, Tiles
  <2>2. CASE s # <<>>
    BY <1>1, <2>2 DEF Layout, Tiles
  <2>3. QED
    BY <2>1, <2>2
<1>5. Tiles(t, a, End(e))
  <2>1. t # <<>>
    BY <1>1
  <2>2. \A i \in 1 .. Len(t) - 1 : End(t[i]) = t[i + 1].first
    <3> TAKE i \in 1 .. Len(t) - 1
    <3>1. CASE i < Len(s)
      <4>1. i \in 1 .. Len(s) - 1 /\ t[i] = s[i] /\ t[i + 1] = s[i + 1] /\ s # <<>>
        BY <1>1, <3>1
      <4>2. End(s[i]) = s[i + 1].first
        BY <4>1 DEF Layout, Tiles
      <4>3. QED
        BY <4>1, <4>2
    <3>2. CASE i = Len(s)
      <4>1. t[i] = s[Len(s)] /\ t[i + 1] = e /\ s # <<>>
        BY <1>1, <3>2
      <4>2. End(s[Len(s)]) = b
        BY <4>1 DEF Layout, Tiles
      <4>3. QED
        BY <4>1, <4>2
    <3>3. QED
      BY <1>1, <3>1, <3>2
  <2>3. QED
    BY <1>1, <1>4, <2>1, <2>2 DEF Tiles
<1>6. \A i \in 1 .. Len(t) : a <= t[i].first /\ End(t[i]) <= End(e)
  <2> TAKE i \in 1 .. Len(t)
  <2>1. CASE i <= Len(s)
    <3>1. t[i] = s[i] /\ End(s[i]) \in Nat /\ s[i].first \in Nat
      <4>1. t[i] = s[i] /\ s[i] \in Entry
        BY <1>1, <1>2, <2>1
      <4>2. QED
        BY ONLY <4>1, EntryEnd
    <3>2. a <= s[i].first /\ End(s[i]) <= b
      BY <2>1 DEF Layout
    <3>3. QED
      BY <1>3, <3>1, <3>2
  <2>2. CASE i = Len(t)
    BY <1>1, <1>3, <2>2 DEF Layout
  <2>3. QED
    BY <1>1, <2>1, <2>2
<1>7. Covered(t) = a .. End(e) - 1
  <2>1. Covered(t) = Covered(s) \cup Samples(e)
    <3>1. DOMAIN t = 1 .. Len(s) + 1 /\ DOMAIN s = 1 .. Len(s)
      BY <1>1
    <3>2. QED
      BY <1>1, <3>1 DEF Covered
  <2>2. Samples(e) = b .. End(e) - 1
    BY <1>3 DEF Samples, End
  <2>3. Covered(s) = a .. b - 1 /\ a <= b
    BY DEF Layout
  <2>4. QED
    BY <1>3, <2>1, <2>2, <2>3
<1>8. \A i, j \in 1 .. Len(t) : i < j => End(t[i]) <= t[j].first
  <2> TAKE i, j \in 1 .. Len(t)
  <2> HAVE i < j
  <2>1. i \in 1 .. Len(s) /\ t[i] = s[i]
    BY <1>1
  <2>2. CASE j <= Len(s)
    BY <1>1, <2>1, <2>2 DEF Layout
  <2>3. CASE j = Len(t)
    BY <1>1, <2>1, <2>3 DEF Layout
  <2>4. QED
    BY <1>1, <2>2, <2>3
<1>9. a <= End(e)
  BY <1>3 DEF Layout
<1>10. Layout(t, a, End(e)) /\ t[1].first = a
  BY <1>4, <1>5, <1>6, <1>7, <1>8, <1>9 DEF Layout
<1>11. QED
  BY <1>10 DEF t

\* Without its first entry a tiled sequence begins where that entry ends.
LEMMA LayoutTail ==
  ASSUME NEW s \in Seq(Entry), s # <<>>, NEW a \in Nat, NEW b \in Nat,
         Layout(s, a, b)
  PROVE  /\ Layout(Tail(s), End(s[1]), b)
         /\ Tail(s) # <<>> => Tail(s)[1].first = End(s[1])
         /\ End(s[1]) \in Nat /\ a <= End(s[1]) /\ End(s[1]) <= b
<1> DEFINE t == Tail(s)
           c == End(s[1])
<1>1. /\ t \in Seq(Entry) /\ Len(s) \in Nat \ {0} /\ Len(t) = Len(s) - 1
      /\ \A i \in 1 .. Len(t) : t[i] = s[i + 1]
  OBVIOUS
<1>2. \A i \in 1 .. Len(s) : s[i] \in Entry
  OBVIOUS
<1> HIDE DEF t
<1>3. \A i \in 1 .. Len(s) : s[i].first \in Nat /\ s[i].fill \in Nat /\ End(s[i]) \in Nat
  BY <1>2, EntryEnd
<1>4. s[1].first = a /\ c \in Nat /\ a <= c /\ c <= b
  BY <1>1, <1>3 DEF Layout, Tiles, End
<1> HIDE DEF c
<1>5. t # <<>> => t[1].first = c
  BY <1>1 DEF Layout, Tiles, c
<1>6. Tiles(t, c, b)
  <2>1. CASE t = <<>>
    <3>1. Len(s) = 1 /\ s # <<>>
      BY <1>1, <2>1
    <3>2. End(s[Len(s)]) = b
      BY DEF Layout, Tiles
    <3>3. QED
      BY <2>1, <3>1, <3>2 DEF Tiles, c
  <2>2. CASE t # <<>>
    <3>1. Len(t) \in 1 .. Len(s) /\ t[Len(t)] = s[Len(s)]
      BY <1>1, <2>2
    <3>2. ASSUME NEW i \in 1 .. Len(t) - 1 PROVE End(t[i]) = t[i + 1].first
      <4>1. i + 1 \in 1 .. Len(s) - 1 /\ t[i] = s[i + 1] /\ t[i + 1] = s[i + 1 + 1]
        BY <1>1
      <4>2. End(s[i + 1]) = s[i + 1 + 1].first
        BY <4>1 DEF Layout, Tiles
      <4>3. QED
        BY <4>1, <4>2
    <3>3. End(s[Len(s)]) = b
      BY DEF Layout, Tiles
    <3>4. QED
      BY <1>5, <2>2, <3>1, <3>2, <3>3 DEF Tiles
  <2>3. QED
    BY <2>1, <2>2
<1>7. ASSUME NEW i \in 1 .. Len(t)
      PROVE  /\ i + 1 \in 1 .. Len(s) /\ t[i] = s[i + 1]
             /\ c <= t[i].first /\ End(t[i]) <= b
  <2>1. i + 1 \in 1 .. Len(s) /\ 1 \in 1 .. Len(s) /\ 1 < i + 1 /\ t[i] = s[i + 1]
    BY <1>1
  <2>2. End(s[1]) <= s[i + 1].first /\ End(s[i + 1]) <= b
    BY <2>1 DEF Layout
  <2>3. QED
    BY <2>1, <2>2 DEF c
<1>8. \A i, j \in 1 .. Len(t) : i < j => End(t[i]) <= t[j].first
  <2> TAKE i, j \in 1 .. Len(t)
  <2> HAVE i < j
  <2>1. i + 1 < j + 1
    BY <1>1
  <2>2. End(s[i + 1]) <= s[j + 1].first
    BY <1>7, <2>1 DEF Layout
  <2>3. QED
    BY <1>7, <2>2
<1>9. Covered(t) = c .. b - 1
  <2>1. DOMAIN t = 1 .. Len(t) /\ DOMAIN s = 1 .. Len(s)
    BY <1>1
  <2>2. Covered(s) = a .. b - 1
    BY DEF Layout
  <2>3. ASSUME NEW x \in Covered(t) PROVE x \in c .. b - 1
    <3>1. PICK i \in 1 .. Len(t) : x \in Samples(t[i])
      BY <2>1, <2>3 DEF Covered
    <3>2. t[i] \in Entry
      BY <1>1
    <3>3. t[i].first \in Nat /\ t[i].fill \in Nat
      BY <3>2 DEF Entry
    <3>4. x \in Int /\ t[i].first <= x /\ x < End(t[i]) /\ End(t[i]) \in Nat
      BY ONLY <3>1, <3>2, EntryEnd
    <3>5. QED
      BY <1>4, <1>7, <3>3, <3>4
  <2>4. ASSUME NEW x \in c .. b - 1 PROVE x \in Covered(t)
    <3>1. x \in a .. b - 1
      BY <1>4
    <3>2. PICK i \in 1 .. Len(s) : x \in Samples(s[i])
      BY <2>1, <2>2, <3>1 DEF Covered
    <3>3. i # 1
      <4>1. s[1] \in Entry
        BY <1>1, <1>2
      <4>2. x >= End(s[1]) /\ x \in Int
        BY <1>4 DEF c
      <4>3. ~(x \in Samples(s[1]))
        BY ONLY <4>1, <4>2, EntryEnd
      <4>4. QED
        BY <3>2, <4>3
    <3>4. i - 1 \in 1 .. Len(t) /\ t[i - 1] = s[i]
      BY <1>1, <3>3
    <3>5. QED
      BY <2>1, <3>2, <3>4 DEF Covered
  <2>5. QED
    BY <2>3, <2>4
<1>10. QED
  BY <1>4, <1>5, <1>6, <1>7, <1>8, <1>9 DEF Layout, t, c

\* What a step can do to the batch, the FIFO and the write buffer: nothing; the
\* JNI thread appends the entry that begins where the FIFO ends; the writer
\* takes the FIFO; it settles the first entry; it settles its whole batch.
Unmoved == batch' = batch /\ fifo' = fifo /\ BufferStart' = BufferStart

Appends(e) ==
  /\ e.first = BufferStart /\ End(e) = BufferStart'
  /\ fifo' = Append(fifo, e) /\ batch' = batch

Takes == batch = <<>> /\ fifo # <<>> /\ batch' = fifo /\ fifo' = <<>> /\ BufferStart' = BufferStart

StoresFirst ==
  /\ batch # <<>> /\ batch' = Tail(batch) /\ fifo' = fifo /\ BufferStart' = BufferStart
  /\ file' = Append(file, [first |-> batch[1].first, fill |-> batch[1].fill, whole |-> TRUE])
  /\ lost' = lost /\ written' = written /\ jpc' = jpc

GivesUpBatch ==
  /\ batch # <<>> /\ batch' = <<>> /\ fifo' = fifo /\ BufferStart' = BufferStart
  /\ lost' = lost \cup Covered(batch) /\ written' = written /\ jpc' = jpc

\* The file stays as it is, or a failed attempt leaves a torn span.
TearsAtMost ==
  \/ file' = file
  \/ /\ batch # <<>>
     /\ \E k \in 1 .. batch[1].fill :
          file' = Append(file, [first |-> batch[1].first, fill |-> k, whole |-> FALSE])

\* flush_to_fifo() moves nothing or appends the open buffer.
LEMMA FlushMoves ==
  ASSUME TypeOK, Control, FlushToFifo,
         written' = written, batch' = batch
  PROVE  Unmoved \/ \E e \in Entry : Appends(e)
<1>1. CASE buffer = 0
  BY <1>1 DEF FlushToFifo, Unmoved, BufferStart
<1>2. CASE buffer # 0
  <2> DEFINE e == [first |-> written - offset, fill |-> offset, room |-> buffer]
  <2>1. e \in Entry
    BY <1>2 DEF Entry, TypeOK, Control
  <2>2. e.first = written - offset /\ e.fill = offset
    OBVIOUS
  <2>3. fifo' = Append(fifo, e) /\ buffer' = 0
    BY <1>2 DEF FlushToFifo
  <2> HIDE DEF e
  <2>4. e.first = BufferStart /\ End(e) = BufferStart'
    BY <1>2, <2>2, <2>3 DEF BufferStart, End, TypeOK
  <2>5. QED
    BY <2>1, <2>3, <2>4 DEF Appends
<1>3. QED
  BY <1>1, <1>2

\* Every step of the encoder is one of these.
LEMMA StepCases ==
  ASSUME TypeOK, Control, [Next]_vars
  PROVE  \/ (Unmoved \/ (\E e \in Entry : Appends(e)) \/ Takes) /\ TearsAtMost /\ lost' = lost
         \/ StoresFirst
         \/ GivesUpBatch /\ TearsAtMost
<1> USE SizesAssumption DEF SizesAssumption, TypeOK, Control, jniVars, writerVars
<1> DEFINE Same == batch' = batch /\ file' = file /\ lost' = lost
<1>1. Same => TearsAtMost
  BY DEF TearsAtMost
<1>2. ASSUME Open \/ OpenFails \/ SignalWriter \/ Kill \/ Broadcast \/ Join
             \/ StartWriter \/ SpuriousWakeup \/ WaitOrExit \/ UNCHANGED vars
      PROVE  Unmoved /\ Same
  BY <1>2 DEF Open, OpenFails, SignalWriter, Kill, Broadcast, Join, StartWriter,
              SpuriousWakeup, WaitOrExit, vars, Unmoved, BufferStart
<1>3. ASSUME Spill \/ Push \/ Flush \/ Release
      PROVE  Same /\ (Unmoved \/ \E e \in Entry : Appends(e))
  <2>1. Same /\ FlushToFifo /\ written' = written
    BY <1>3 DEF Spill, Push, Flush, Release
  <2>2. QED
    BY <2>1, FlushMoves
<1>4. ASSUME NEW n \in Sizes, Write(n) PROVE Unmoved /\ Same
  BY <1>4 DEF Write, Fits, Unmoved, BufferStart
<1>5. ASSUME SignalWrite PROVE Unmoved /\ Same
  BY <1>5 DEF SignalWrite, Unmoved, BufferStart
<1>6. ASSUME CopyBig PROVE Same /\ \E e \in Entry : Appends(e)
  <2> DEFINE e == [first |-> written, fill |-> pending, room |-> pending]
  <2>1. e \in Entry /\ e.first = written /\ e.fill = pending
    BY DEF Entry
  <2>2. fifo' = Append(fifo, e)
    BY <1>6 DEF CopyBig
  <2> HIDE DEF e
  <2>3. e.first = BufferStart /\ End(e) = BufferStart'
    BY <1>6, <2>1 DEF CopyBig, BufferStart, End
  <2>4. Same
    BY <1>6 DEF CopyBig
  <2>5. QED
    BY <2>1, <2>2, <2>3, <2>4 DEF Appends
<1>7. ASSUME TakeFifo PROVE Takes /\ TearsAtMost /\ lost' = lost
  BY <1>7 DEF TakeFifo, HasMutex, Takes, TearsAtMost, BufferStart
<1>8. ASSUME EncodeSucceeds PROVE StoresFirst
  <2>1. Head(batch) = batch[1]
    BY <1>8 DEF EncodeSucceeds
  <2>2. QED
    BY <1>8, <2>1 DEF EncodeSucceeds, StoresFirst, BufferStart
<1>9. ASSUME EncodeFails
      PROVE  \/ Unmoved /\ TearsAtMost /\ lost' = lost
             \/ GivesUpBatch /\ TearsAtMost
  <2>1. TearsAtMost
    <3>1. Head(batch) = batch[1] /\ batch # <<>> /\ batch[1] \in Entry
      BY <1>9 DEF EncodeFails
    <3>2. batch[1].fill \in Nat
      BY <3>1 DEF Entry
    <3>3. PICK k \in 0 .. batch[1].fill :
            file' = IF k = 0 THEN file
                    ELSE Append(file, [first |-> batch[1].first, fill |-> k, whole |-> FALSE])
      BY <1>9, <3>1 DEF EncodeFails
    <3>4. CASE k = 0
      BY <3>3, <3>4 DEF TearsAtMost
    <3>5. CASE k # 0
      <4>1. k \in 1 .. batch[1].fill
        BY <3>2, <3>5
      <4>2. file' = Append(file, [first |-> batch[1].first, fill |-> k, whole |-> FALSE])
        BY <3>3, <3>5
      <4>3. QED
        BY <3>1, <4>1, <4>2 DEF TearsAtMost
    <3>6. QED
      BY <3>4, <3>5
  <2>2. fifo' = fifo /\ BufferStart' = BufferStart
    BY <1>9 DEF EncodeFails, BufferStart
  <2>3. CASE Exhausted
    BY <1>9, <2>1, <2>2, <2>3 DEF EncodeFails, GivesUpBatch, GivesUp, Covered
  <2>4. CASE ~Exhausted
    BY <1>9, <2>1, <2>2, <2>4 DEF EncodeFails, Unmoved
  <2>5. QED
    BY <2>3, <2>4
<1>10. QED
  BY <1>1, <1>2, <1>3, <1>4, <1>5, <1>6, <1>7, <1>8, <1>9
  DEF Next, Call, JniStep, WriterStep

-------------------------------------------------------------------------------
(* The order of the hand-over and the accounting of the writer.            *)

\* The samples in memory are laid out in order, from Settled to written.
Ordered ==
  /\ Settled \in Nat /\ FifoStart \in Nat /\ BufferStart \in Nat
  /\ BufferStart <= written
  /\ Layout(batch, Settled, FifoStart)
  /\ Layout(fifo, FifoStart, BufferStart)

\* The first write begins at sample 0.
LEMMA OrderedInit == Init => Ordered
<1> SUFFICES ASSUME Init PROVE Ordered
  OBVIOUS
<1>1. batch = <<>> /\ fifo = <<>> /\ Settled = 0 /\ FifoStart = 0 /\ BufferStart = 0
  BY DEF Init, Settled, FifoStart, BufferStart
<1>2. QED
  BY <1>1, LayoutEmpty DEF Ordered, Init

\* What the step cases do to the boundaries between the three places.
LEMMA OrderedStep ==
  ASSUME TypeOK, TypeOK', Control, Control', Ordered, [Next]_vars
  PROVE  /\ Ordered'
         /\ StoresFirst => /\ Settled = batch[1].first
                           /\ Settled' = End(batch[1]) /\ Settled <= Settled'
         /\ GivesUpBatch => Settled' = FifoStart /\ Settled <= Settled'
         /\ (Unmoved \/ (\E e \in Entry : Appends(e)) \/ Takes) => Settled' = Settled
<1> USE DEF Ordered
<1>1. BufferStart' \in Nat /\ BufferStart' <= written'
  <2>1. buffer' \in Nat /\ offset' \in Nat /\ written' \in Nat
    BY DEF TypeOK
  <2>2. buffer' # 0 => offset' <= written'
    BY DEF Control
  <2>3. CASE buffer' = 0
    BY <2>1, <2>3 DEF BufferStart
  <2>4. CASE buffer' # 0
    <3>1. BufferStart' = written' - offset'
      BY <2>4 DEF BufferStart
    <3>2. offset' <= written'
      BY <2>2, <2>4
    <3>3. written' - offset' \in Nat /\ written' - offset' <= written'
      <4>1. \A a, b \in Nat : b <= a => a - b \in Nat /\ a - b <= a
        OBVIOUS
      <4>2. QED
        BY <2>1, <3>2, <4>1
    <3>4. QED
      BY <3>1, <3>3
  <2>5. QED
    BY <2>3, <2>4
<1>2. batch \in Seq(Entry) /\ fifo \in Seq(Entry)
  BY DEF TypeOK
<1>3. ASSUME Unmoved PROVE Ordered' /\ Settled' = Settled
  <2>1. FifoStart' = FifoStart /\ Settled' = Settled
    BY <1>3 DEF Unmoved, FifoStart, Settled
  <2>2. QED
    BY <1>1, <1>3, <2>1 DEF Unmoved, Layout, Tiles
<1>4. ASSUME NEW e \in Entry, Appends(e) PROVE Ordered' /\ Settled' = Settled
  <2>1. Layout(fifo', FifoStart, BufferStart') /\ fifo'[1].first = FifoStart
    BY <1>2, <1>4, LayoutAppend DEF Appends
  <2>2. FifoStart' = FifoStart
    BY <1>2, <1>4, <2>1 DEF Appends, FifoStart
  <2>3. Settled' = Settled
    BY <1>4, <2>2 DEF Appends, Settled
  <2>4. QED
    BY <1>1, <1>4, <2>1, <2>2, <2>3 DEF Appends, Layout, Tiles
<1>5. ASSUME Takes PROVE Ordered' /\ Settled' = Settled
  <2>1. FifoStart' = BufferStart
    BY <1>5 DEF Takes, FifoStart
  <2>2. Settled = FifoStart
    BY <1>5 DEF Takes, Settled
  <2>3. Settled' = FifoStart
    BY <1>5 DEF Takes, Settled, FifoStart
  <2>4. Layout(fifo', FifoStart', BufferStart')
    BY <1>5, <2>1, LayoutEmpty DEF Takes
  <2>5. QED
    BY <1>1, <1>5, <2>1, <2>2, <2>3, <2>4 DEF Takes
<1>6. ASSUME StoresFirst
      PROVE  /\ Ordered' /\ Settled = batch[1].first
             /\ Settled' = End(batch[1]) /\ Settled <= Settled'
  <2>1. Settled = batch[1].first
    BY <1>6 DEF StoresFirst, Settled
  <2>2. FifoStart' = FifoStart
    BY <1>6 DEF StoresFirst, FifoStart
  <2>3. /\ Layout(batch', End(batch[1]), FifoStart)
        /\ batch' # <<>> => batch'[1].first = End(batch[1])
        /\ End(batch[1]) \in Nat /\ Settled <= End(batch[1])
    BY <1>2, <1>6, LayoutTail DEF StoresFirst
  <2>4. Settled' = End(batch[1])
    <3>1. CASE batch' = <<>>
      BY <2>2, <2>3, <3>1 DEF Settled, Layout, Tiles
    <3>2. CASE batch' # <<>>
      BY <2>3, <3>2 DEF Settled
    <3>3. QED
      BY <3>1, <3>2
  <2>5. Layout(fifo', FifoStart', BufferStart')
    BY <1>6, <2>2 DEF StoresFirst
  <2>6. QED
    BY <1>1, <2>1, <2>2, <2>3, <2>4, <2>5
<1>7. ASSUME GivesUpBatch PROVE Ordered' /\ Settled' = FifoStart /\ Settled <= Settled'
  <2>1. FifoStart' = FifoStart /\ Settled' = FifoStart
    BY <1>7 DEF GivesUpBatch, FifoStart, Settled
  <2>2. Layout(batch', Settled', FifoStart')
    BY <1>7, <2>1, LayoutEmpty DEF GivesUpBatch
  <2>3. QED
    BY <1>1, <1>7, <2>1, <2>2 DEF GivesUpBatch, Layout
<1>8. QED
  BY <1>3, <1>4, <1>5, <1>6, <1>7, StepCases

\* The hand-over between the two threads keeps the samples in order, whatever
\* the sizes of the writes and of the buffer.
THEOREM HandOverInOrder == Spec => []InTransitInOrder
<1>1. Init => Ordered
  BY OrderedInit
<1>2. TypeOK /\ TypeOK' /\ Control /\ Control' /\ Ordered /\ [Next]_vars => Ordered'
  BY OrderedStep
<1>3. Ordered => InTransitInOrder
  BY DEF Ordered, InTransitInOrder, Layout
<1>4. QED
  BY <1>1, <1>2, <1>3, TypeAndControl, PTL DEF Spec

\* The file and the list of lost samples account for everything settled.
Accounted ==
  /\ StoredOrLost
  /\ FileInOrder
  /\ \A i \in DOMAIN file : file[i].whole => End(file[i]) <= Settled

\* A span more in the file adds its samples if it is whole.
LEMMA StoredAppend ==
  ASSUME file \in Seq(Span), NEW sp \in Span, file' = Append(file, sp)
  PROVE  /\ sp.whole => Stored' = Stored \cup Samples(sp)
         /\ ~sp.whole => Stored' = Stored
<1>1. /\ DOMAIN file = 1 .. Len(file) /\ DOMAIN file' = 1 .. Len(file) + 1
      /\ Len(file) \in Nat
      /\ \A i \in 1 .. Len(file) : file'[i] = file[i]
      /\ file'[Len(file) + 1] = sp
  OBVIOUS
<1>2. ASSUME sp.whole PROVE Stored' = Stored \cup Samples(sp)
  <2>1. \A x : x \in Stored' <=> x \in Stored \/ x \in Samples(sp)
    BY <1>1, <1>2 DEF Stored, Samples
  <2>2. QED
    BY <2>1
<1>3. ASSUME ~sp.whole PROVE Stored' = Stored
  <2>1. \A x : x \in Stored' <=> x \in Stored
    BY <1>1, <1>3 DEF Stored, Samples
  <2>2. QED
    BY <2>1
<1>4. QED
  BY <1>2, <1>3

\* A span that begins where the settled samples end keeps the file in order.
LEMMA FileAppend ==
  ASSUME file \in Seq(Span), Accounted, NEW sp \in Span, file' = Append(file, sp),
         sp.first = Settled, Settled \in Nat, Settled' \in Nat, Settled <= Settled',
         sp.whole => End(sp) <= Settled'
  PROVE  /\ FileInOrder'
         /\ \A i \in DOMAIN file' : file'[i].whole => End(file'[i]) <= Settled'
<1>1. /\ DOMAIN file = 1 .. Len(file) /\ DOMAIN file' = 1 .. Len(file) + 1
      /\ Len(file) \in Nat
      /\ \A i \in 1 .. Len(file) : file'[i] = file[i] /\ file[i] \in Span
      /\ file'[Len(file) + 1] = sp
  OBVIOUS
<1>2. \A i \in 1 .. Len(file) : End(file[i]) \in Nat /\ file[i].first \in Nat
  <2> TAKE i \in 1 .. Len(file)
  <2>1. file[i].first \in Nat /\ file[i].fill \in Nat
    BY <1>1 DEF Span
  <2>2. QED
    BY <2>1 DEF End
<1>3. ASSUME NEW i \in DOMAIN file', NEW j \in DOMAIN file', i < j, file'[i].whole
      PROVE  End(file'[i]) <= file'[j].first
  <2>1. i \in 1 .. Len(file) /\ file'[i] = file[i] /\ file[i].whole
    BY <1>1, <1>3
  <2>2. CASE j <= Len(file)
    BY <1>1, <1>3, <2>1, <2>2 DEF Accounted, FileInOrder
  <2>3. CASE j = Len(file) + 1
    BY <1>1, <2>1, <2>3 DEF Accounted
  <2>4. QED
    BY <1>1, <2>2, <2>3
<1>4. ASSUME NEW i \in DOMAIN file', file'[i].whole
      PROVE  End(file'[i]) <= Settled'
  <2>1. CASE i <= Len(file)
    <3>1. i \in 1 .. Len(file) /\ file'[i] = file[i]
      BY <1>1, <2>1
    <3>2. End(file[i]) <= Settled /\ End(file[i]) \in Nat
      BY <1>1, <1>2, <1>4, <3>1 DEF Accounted
    <3>3. QED
      BY <3>1, <3>2
  <2>2. CASE i = Len(file) + 1
    BY <1>1, <1>4, <2>2
  <2>3. QED
    BY <1>1, <2>1, <2>2
<1>5. QED
  BY <1>3, <1>4 DEF FileInOrder

\* Nothing is in the file at first.
LEMMA AccountedInit == Init => Accounted
<1> SUFFICES ASSUME Init PROVE Accounted
  OBVIOUS
<1>1. file = <<>> /\ lost = {} /\ Settled = 0
  BY DEF Init, Settled, FifoStart, BufferStart
<1>2. Stored = {}
  BY <1>1 DEF Stored
<1>3. QED
  BY <1>1, <1>2 DEF Accounted, StoredOrLost, FileInOrder

\* How a step changes the two sides of the account.
LEMMA AccountedStep ==
  ASSUME TypeOK, TypeOK', Control, Control', Ordered, Accounted, [Next]_vars
  PROVE  /\ Accounted'
         /\ \/ Settled' = Settled /\ Stored' = Stored /\ lost' = lost
            \/ /\ Stored' = Stored \cup (Settled .. Settled' - 1) /\ lost' = lost
               /\ Settled' \in Settled .. written /\ written' = written /\ jpc' = jpc
            \/ /\ Stored' = Stored /\ lost' = lost \cup (Settled .. Settled' - 1)
               /\ Settled' \in Settled .. written /\ written' = written /\ jpc' = jpc
<1>1. Ordered' /\ Settled \in Nat /\ Settled' \in Nat
  BY OrderedStep DEF Ordered
<1>2. Settled' <= written'
  BY <1>1 DEF Ordered, Layout, TypeOK
<1>3. file \in Seq(Span) /\ batch \in Seq(Entry) /\ written \in Nat
  BY DEF TypeOK
<1>4. batch # <<>> => /\ batch[1].first = Settled
                      /\ batch[1].first \in Nat /\ batch[1].fill \in Nat
  <2> SUFFICES ASSUME batch # <<>>
               PROVE  batch[1].first = Settled /\ batch[1].first \in Nat /\ batch[1].fill \in Nat
    OBVIOUS
  <2>1. batch[1] \in Entry
    BY <1>3
  <2>2. QED
    BY <2>1 DEF Entry, Settled
<1>5. ASSUME TearsAtMost, Settled <= Settled'
      PROVE  /\ Stored' = Stored /\ FileInOrder'
             /\ \A i \in DOMAIN file' : file'[i].whole => End(file'[i]) <= Settled'
  <2>1. CASE file' = file
    <3>1. \A i \in DOMAIN file : End(file[i]) \in Nat
      <4> TAKE i \in DOMAIN file
      <4>1. file[i] \in Span
        BY <1>3
      <4>2. QED
        BY <4>1 DEF Span, End
    <3>2. Stored' = Stored /\ FileInOrder'
      BY <2>1 DEF Stored, FileInOrder, Accounted
    <3>3. ASSUME NEW i \in DOMAIN file', file'[i].whole PROVE End(file'[i]) <= Settled'
      BY <1>1, <1>5, <2>1, <3>1, <3>3 DEF Accounted
    <3>4. QED
      BY <3>2, <3>3
  <2>2. CASE file' # file
    <3>1. PICK k \in 1 .. batch[1].fill :
            file' = Append(file, [first |-> batch[1].first, fill |-> k, whole |-> FALSE])
      BY <1>5, <2>2 DEF TearsAtMost
    <3>2. batch # <<>>
      BY <1>5, <2>2 DEF TearsAtMost
    <3> DEFINE sp == [first |-> batch[1].first, fill |-> k, whole |-> FALSE]
    <3>3. sp \in Span /\ sp.first = Settled /\ ~sp.whole /\ file' = Append(file, sp)
      BY <1>4, <3>1, <3>2 DEF Span
    <3> HIDE DEF sp
    <3>4. QED
      BY <1>1, <1>3, <1>5, <3>3, StoredAppend, FileAppend
  <2>3. QED
    BY <2>1, <2>2
<1>6. CASE Settled' = Settled /\ TearsAtMost /\ lost' = lost
  BY <1>1, <1>5, <1>6 DEF Accounted, StoredOrLost
<1>7. CASE StoresFirst
  <2> DEFINE sp == [first |-> batch[1].first, fill |-> batch[1].fill, whole |-> TRUE]
  <2>1. /\ sp \in Span /\ sp.first = Settled /\ sp.fill = batch[1].fill /\ sp.whole
        /\ file' = Append(file, sp)
    BY <1>4, <1>7 DEF StoresFirst, Span
  <2>2. Settled' = End(batch[1]) /\ Settled <= Settled'
    BY <1>7, OrderedStep
  <2>3. End(sp) = Settled' /\ Samples(sp) = Settled .. Settled' - 1
    <3>1. batch[1].first = Settled /\ batch[1].first \in Nat /\ batch[1].fill \in Nat
      BY <1>4, <1>7 DEF StoresFirst
    <3>2. Settled' = Settled + sp.fill /\ sp.first = Settled /\ sp.fill \in Nat
          /\ Settled \in Nat
      BY <2>1, <2>2, <3>1 DEF End
    <3> HIDE DEF sp
    <3> QED
      BY ONLY <3>2 DEF End, Samples
  <2> HIDE DEF sp
  <2>4. /\ FileInOrder'
        /\ \A i \in DOMAIN file' : file'[i].whole => End(file'[i]) <= Settled'
    BY <1>1, <1>3, <2>1, <2>2, <2>3, FileAppend
  <2>5. Stored' = Stored \cup (Settled .. Settled' - 1)
    BY <1>3, <2>1, <2>3, StoredAppend
  <2>6. lost' = lost /\ written' = written /\ jpc' = jpc
    BY <1>7 DEF StoresFirst
  <2>7. StoredOrLost'
    BY <1>1, <2>2, <2>5, <2>6 DEF Accounted, StoredOrLost
  <2>8. QED
    BY <1>1, <1>2, <2>2, <2>4, <2>5, <2>6, <2>7 DEF Accounted
<1>8. CASE GivesUpBatch /\ TearsAtMost
  <2>1. Settled' = FifoStart /\ Settled <= Settled'
    BY <1>8, OrderedStep
  <2>2. Covered(batch) = Settled .. Settled' - 1
    BY <2>1 DEF Ordered, Layout
  <2>3. lost' = lost \cup (Settled .. Settled' - 1) /\ written' = written /\ jpc' = jpc
    BY <1>8, <2>2 DEF GivesUpBatch
  <2>4. /\ Stored' = Stored /\ FileInOrder'
        /\ \A i \in DOMAIN file' : file'[i].whole => End(file'[i]) <= Settled'
    BY <1>5, <1>8, <2>1
  <2>5. StoredOrLost'
    BY <1>1, <2>1, <2>3, <2>4 DEF Accounted, StoredOrLost
  <2>6. QED
    BY <1>1, <1>2, <2>1, <2>3, <2>4, <2>5 DEF Accounted
<1>9. QED
  BY <1>6, <1>7, <1>8, StepCases, OrderedStep

\* Every settled sample is in the file or was given up, never both.
THEOREM WriterAccounting == Spec => []StoredOrLost
<1>1. Init => Ordered /\ Accounted
  BY OrderedInit, AccountedInit
<1>2. TypeOK /\ TypeOK' /\ Control /\ Control' /\ Ordered /\ Accounted /\ [Next]_vars
        => Ordered' /\ Accounted'
  BY OrderedStep, AccountedStep
<1>3. Accounted => StoredOrLost
  BY DEF Accounted
<1>4. QED
  BY <1>1, <1>2, <1>3, TypeAndControl, PTL DEF Spec

\* What was encoded is in the file in the order of the recording.
THEOREM FileOrder == Spec => []FileInOrder
<1>1. Init => Ordered /\ Accounted
  BY OrderedInit, AccountedInit
<1>2. TypeOK /\ TypeOK' /\ Control /\ Control' /\ Ordered /\ Accounted /\ [Next]_vars
        => Ordered' /\ Accounted'
  BY OrderedStep, AccountedStep
<1>3. Accounted => FileInOrder
  BY DEF Accounted
<1>4. QED
  BY <1>1, <1>2, <1>3, TypeAndControl, PTL DEF Spec

-------------------------------------------------------------------------------
(* The encoder implements the recorded stream.                             *)

\* Until release() returns samples are only added; afterwards nothing moves.
LEMMA CallCases ==
  ASSUME TypeOK, Control, [Next]_vars
  PROVE  \/ jpc = "released" /\ UNCHANGED vars
         \/ Join
         \/ jpc # "released" /\ jpc' # "released" /\ written' >= written
<1> USE SizesAssumption DEF SizesAssumption, TypeOK, Control, jniVars, writerVars
<1>1. CASE jpc = "released"
  BY <1>1 DEF Next, Call, JniStep, WriterStep, Open, OpenFails, Write, Flush,
              Release, Spill, CopyBig, Push, SignalWrite, SignalWriter, Kill,
              Broadcast, Join, StartWriter, SpuriousWakeup, TakeFifo, WaitOrExit,
              HasMutex, EncodeSucceeds, EncodeFails
<1>2. CASE jpc # "released" /\ ~Join
  <2>1. ASSUME NEW n \in Sizes, Write(n) PROVE jpc' # "released" /\ written' >= written
    BY <1>2, <2>1 DEF Write
  <2>2. QED
    BY <1>2, <2>1 DEF Next, Call, JniStep, WriterStep, Open, OpenFails, Flush,
              Release, Spill, CopyBig, Push, SignalWrite, SignalWriter, Kill,
              Broadcast, StartWriter, SpuriousWakeup, TakeFifo, WaitOrExit,
              EncodeSucceeds, EncodeFails, vars
<1>3. QED
  BY <1>1, <1>2

\* Every step of the encoder is a step of the stream or leaves it alone: samples
\* reach the file in order, once, and release() returns only when all did.
THEOREM EncoderRefinesStream == Spec => RefinesStream
<1>1. Init => Ordered /\ Accounted
  BY OrderedInit, AccountedInit
<1>2. TypeOK /\ TypeOK' /\ Control /\ Control' /\ Ordered /\ Accounted /\ [Next]_vars
        => Ordered' /\ Accounted'
  BY OrderedStep, AccountedStep
<1>3. Init => Stream!StreamInit
  <2> SUFFICES ASSUME Init PROVE Stream!StreamInit
    OBVIOUS
  <2>1. Settled = 0 /\ Stored = {}
    BY DEF Init, Settled, FifoStart, BufferStart, Stored
  <2>2. QED
    BY <2>1 DEF Init, Stream!StreamInit
<1>4. TypeOK /\ TypeOK' /\ Control /\ Control' /\ Ordered /\ Accounted /\ [Next]_vars
        => [Stream!StreamNext]_(Stream!streamVars)
  <2> SUFFICES ASSUME TypeOK, TypeOK', Control, Control', Ordered, Accounted, [Next]_vars
               PROVE  [Stream!StreamNext]_(Stream!streamVars)
    OBVIOUS
  <2> USE DEF Stream!StreamNext, Stream!streamVars
  <2>1. CASE jpc = "released" /\ UNCHANGED vars
    BY <2>1 DEF vars, Settled, FifoStart, BufferStart, Stored
  <2>2. CASE Join
    <3>1. Settled' = Settled /\ Stored' = Stored /\ lost' = lost /\ written' = written
      BY <2>2 DEF Join, writerVars, Settled, FifoStart, BufferStart, Stored
    <3>2. Settled = written
      BY <2>2 DEF Join, Control, Settled, FifoStart, BufferStart
    <3>3. Stream!Close
      BY <2>2, <3>1, <3>2 DEF Join, Stream!Close
    <3>4. QED
      BY <3>3
  <2>3. CASE jpc # "released" /\ jpc' # "released" /\ written' >= written
    <3>1. CASE Settled' = Settled /\ Stored' = Stored /\ lost' = lost
      <4>1. CASE written' = written
        BY <2>3, <3>1, <4>1
      <4>2. CASE written' # written
        <5>1. written' \in Nat /\ written' > written
          BY <2>3, <4>2 DEF TypeOK
        <5>2. Stream!Accept
          BY <2>3, <3>1, <5>1 DEF Stream!Accept
        <5>3. QED
          BY <5>2
      <4>3. QED
        BY <4>1, <4>2
    <3>2. CASE /\ Stored' = Stored \cup (Settled .. Settled' - 1) /\ lost' = lost
               /\ Settled' \in Settled .. written /\ written' = written
      <4>1. Stream!Store(Settled')
        BY <2>3, <3>2 DEF Stream!Store
      <4>2. QED
        BY <3>2, <4>1
    <3>3. CASE /\ Stored' = Stored /\ lost' = lost \cup (Settled .. Settled' - 1)
               /\ Settled' \in Settled .. written /\ written' = written
      <4>1. Stream!Drop(Settled')
        BY <2>3, <3>3 DEF Stream!Drop
      <4>2. QED
        BY <3>3, <4>1
    <3>4. QED
      BY <3>1, <3>2, <3>3, AccountedStep
  <2>4. QED
    BY <2>1, <2>2, <2>3, CallCases
<1>5. QED
  BY <1>1, <1>2, <1>3, <1>4, TypeAndControl, PTL
  DEF Spec, RefinesStream, Stream!StreamSpec

-------------------------------------------------------------------------------
(* The buffers, and the retries.                                           *)

Roomy(s) == \A i \in DOMAIN s : s[i].fill <= s[i].room

LEMMA RoomyAppend ==
  ASSUME NEW s \in Seq(Entry), Roomy(s), NEW e \in Entry, e.fill <= e.room
  PROVE  Roomy(Append(s, e))
<1>1. DOMAIN Append(s, e) = 1 .. Len(s) + 1 /\ DOMAIN s = 1 .. Len(s) /\ Len(s) \in Nat
  OBVIOUS
<1>2. /\ \A i \in 1 .. Len(s) : Append(s, e)[i] = s[i]
      /\ Append(s, e)[Len(s) + 1] = e
  OBVIOUS
<1>3. ASSUME NEW i \in 1 .. Len(s) + 1
      PROVE  Append(s, e)[i].fill <= Append(s, e)[i].room
  <2>1. CASE i = Len(s) + 1
    BY <1>2, <2>1
  <2>2. CASE i # Len(s) + 1
    <3>1. i \in 1 .. Len(s)
      BY <1>1, <2>2
    <3> QED
      BY <1>1, <1>2, <3>1 DEF Roomy
  <2> QED
    BY <2>1, <2>2
<1> QED
  BY <1>1, <1>3 DEF Roomy

LEMMA RoomyTail ==
  ASSUME NEW s \in Seq(Entry), Roomy(s), s # <<>>
  PROVE  Roomy(Tail(s))
<1>1. /\ DOMAIN Tail(s) = 1 .. Len(s) - 1 /\ DOMAIN s = 1 .. Len(s)
      /\ Len(s) \in Nat
      /\ \A i \in 1 .. Len(s) - 1 : Tail(s)[i] = s[i + 1] /\ i + 1 \in 1 .. Len(s)
  OBVIOUS
<1> QED
  BY <1>1 DEF Roomy

\* What flush_to_fifo() appends has the room of the write buffer.
LEMMA FlushRoomy ==
  ASSUME TypeOK, Control, FlushToFifo, Roomy(fifo)
  PROVE  Roomy(fifo')
<1>1. CASE buffer = 0
  BY <1>1 DEF FlushToFifo
<1>2. CASE buffer # 0
  <2> DEFINE e == [first |-> written - offset, fill |-> offset, room |-> buffer]
  <2>1. e \in Entry /\ e.fill <= e.room
    BY <1>2 DEF Entry, TypeOK, Control
  <2>2. fifo' = Append(fifo, e) /\ fifo \in Seq(Entry)
    BY <1>2 DEF FlushToFifo, TypeOK
  <2> HIDE DEF e
  <2> QED
    BY <2>1, <2>2, RoomyAppend
<1> QED
  BY <1>1, <1>2

LEMMA RoomyStep ==
  ASSUME TypeOK, Control, Roomy(fifo), Roomy(batch), [Next]_vars
  PROVE  Roomy(fifo') /\ Roomy(batch')
<1> USE DEF jniVars, writerVars
<1>1. Roomy(<<>>) /\ fifo \in Seq(Entry) /\ batch \in Seq(Entry)
  BY DEF Roomy, TypeOK
<1>2. CASE fifo' = fifo /\ batch' \in {batch, <<>>}
  BY <1>1, <1>2
<1>3. CASE Spill \/ Push \/ Flush \/ Release
  BY <1>3, FlushRoomy DEF Spill, Push, Flush, Release
<1>4. CASE CopyBig
  <2> DEFINE e == [first |-> written, fill |-> pending, room |-> pending]
  <2>1. e \in Entry /\ e.fill <= e.room
    BY DEF Entry, TypeOK
  <2>2. fifo' = Append(fifo, e) /\ batch' = batch
    BY <1>4 DEF CopyBig
  <2> HIDE DEF e
  <2> QED
    BY <1>1, <2>1, <2>2, RoomyAppend
<1>5. CASE TakeFifo
  BY <1>1, <1>5 DEF TakeFifo
<1>6. CASE EncodeSucceeds
  BY <1>1, <1>6, RoomyTail DEF EncodeSucceeds
<1>7. CASE EncodeFails
  BY <1>2, <1>7 DEF EncodeFails
<1>8. CASE \/ Open \/ OpenFails \/ SignalWrite \/ SignalWriter \/ Kill \/ Broadcast
           \/ Join \/ StartWriter \/ SpuriousWakeup \/ WaitOrExit \/ UNCHANGED vars
           \/ \E n \in Sizes : Write(n)
  BY <1>2, <1>8 DEF Open, OpenFails, SignalWrite, SignalWriter, Kill, Broadcast, Join,
                    StartWriter, SpuriousWakeup, WaitOrExit, vars, Write
<1> QED
  BY <1>3, <1>4, <1>5, <1>6, <1>7, <1>8 DEF Next, Call, JniStep, WriterStep

\* copyBuffer checks nothing: of the four paths through write() each makes room
\* before it copies, for every size of the buffer and of what is written.
THEOREM BuffersHold == Spec => []NoBufferOverrun
<1>1. Init => Roomy(fifo) /\ Roomy(batch)
  BY DEF Init, Roomy
<1>2. TypeOK /\ Control /\ Roomy(fifo) /\ Roomy(batch) /\ [Next]_vars
        => Roomy(fifo)' /\ Roomy(batch)'
  BY RoomyStep DEF Roomy
<1>3. TypeOK /\ Control /\ Roomy(fifo) /\ Roomy(batch) => NoBufferOverrun
  BY DEF NoBufferOverrun, Roomy, Control
<1> QED
  BY <1>1, <1>2, <1>3, TypeAndControl, PTL DEF Spec

-------------------------------------------------------------------------------
(* What the writer gives up.                                               *)

\* The failures since the last success, of this batch, are those of its first
\* entry, and they are as many as the writer has counted.
Retried ==
  /\ retry <= Len(failed)
  /\ batch # <<>> => \A j \in Len(failed) - retry + 1 .. Len(failed) :
                        failed[j] = batch[1].first

\* An entry that was refused stays so.
LEMMA RefusedLasts ==
  ASSUME failed \in Seq(Nat), NEW x \in Nat, failed' \in {failed, Append(failed, x)},
         NEW f, Refused(f)
  PROVE  Refused(f)'
<1>1. PICK i \in DOMAIN failed :
        i > MaxRetries /\ \A j \in i - MaxRetries .. i : failed[j] = f
  BY DEF Refused
<1>2. i \in DOMAIN failed' /\ i \in Nat
  OBVIOUS
<1>3. \A j \in i - MaxRetries .. i : j \in 1 .. Len(failed)
  BY <1>1, <1>2 DEF MaxRetries
<1>4. \A j \in 1 .. Len(failed) : failed'[j] = failed[j]
  OBVIOUS
<1> QED  BY <1>1, <1>2, <1>3, <1>4 DEF Refused

\* One failure more, of the entry all counted failures are of.
LEMMA FailureCounts ==
  ASSUME failed \in Seq(Nat), NEW f \in Nat, NEW k \in Nat, k <= Len(failed),
         \A j \in Len(failed) - k + 1 .. Len(failed) : failed[j] = f,
         failed' = Append(failed, f)
  PROVE  /\ Len(failed') = Len(failed) + 1
         /\ \A j \in Len(failed') - k .. Len(failed') : failed'[j] = f
  OBVIOUS

LEMMA RetriedStep ==
  ASSUME TypeOK, Control, Retried, [Next]_vars
  PROVE  /\ Retried'
         /\ \/ lost' = lost
            \/ \E f \in Nat : batch # <<>> /\ f = batch[1].first /\ Refused(f)'
<1>1. retry \in Nat /\ failed \in Seq(Nat) /\ batch \in Seq(Entry) /\ MaxRetries = 3
  BY DEF TypeOK, MaxRetries
<1>2. ASSUME UNCHANGED <<retry, failed, batch, lost>>
      PROVE  Retried' /\ lost' = lost
  BY <1>2 DEF Retried
<1>3. ASSUME TakeFifo \/ EncodeSucceeds
      PROVE  Retried' /\ lost' = lost
  <2>1. retry' = 0 /\ failed' = failed /\ lost' = lost
    BY <1>3 DEF TakeFifo, EncodeSucceeds
  <2> QED  BY <1>1, <2>1 DEF Retried
<1>4. CASE EncodeFails
  <2>0. batch # <<>>
    BY <1>4 DEF EncodeFails
  <2>1. PICK f \in Nat : f = batch[1].first /\ Head(batch).first = f
    <3>1. Head(batch) = batch[1] /\ batch[1] \in Entry
      BY <1>1, <2>0
    <3> QED  BY <3>1 DEF Entry
  <2>2. failed' = Append(failed, f)
    BY <1>4, <2>1 DEF EncodeFails
  <2>3. /\ Len(failed') = Len(failed) + 1
        /\ \A j \in Len(failed') - retry .. Len(failed') : failed'[j] = f
    <3>1. /\ retry <= Len(failed)
          /\ \A j \in Len(failed) - retry + 1 .. Len(failed) : failed[j] = f
      BY <2>0, <2>1 DEF Retried
    <3> QED  BY <1>1, <2>1, <2>2, <3>1, FailureCounts
  <2>4. Len(failed) \in Nat /\ retry <= Len(failed)
    BY <1>1 DEF Retried
  <2>5. CASE Exhausted
    <3>1. batch' = <<>> /\ retry' = retry
      BY <1>4, <2>5 DEF EncodeFails
    <3>2. retry = 3
      BY <1>1, <2>5 DEF Exhausted, TypeOK
    <3>3. Len(failed') \in DOMAIN failed' /\ Len(failed') > MaxRetries
      BY <1>1, <2>1, <2>2, <2>3, <2>4, <3>2
    <3>4. \A j \in Len(failed') - MaxRetries .. Len(failed') : failed'[j] = f
      BY <1>1, <2>3, <3>2
    <3>5. Refused(f)'
      BY <3>3, <3>4 DEF Refused
    <3>6. Retried'
      BY <2>3, <2>4, <3>1, <1>1 DEF Retried
    <3> QED  BY <2>0, <2>1, <3>5, <3>6
  <2>6. CASE ~Exhausted
    <3>1. batch' = batch /\ retry' = retry + 1 /\ lost' = lost
      BY <1>4, <2>6 DEF EncodeFails
    <3>2. retry' <= Len(failed') /\ Len(failed') - retry' + 1 = Len(failed') - retry
      BY <1>1, <2>3, <2>4, <3>1
    <3>3. \A j \in Len(failed') - retry' + 1 .. Len(failed') : failed'[j] = batch'[1].first
      BY <2>1, <2>3, <3>1, <3>2
    <3> QED  BY <3>1, <3>2, <3>3 DEF Retried
  <2> QED  BY <2>5, <2>6
<1>5. CASE \/ Call \/ JniStep \/ StartWriter \/ WaitOrExit \/ SpuriousWakeup
           \/ UNCHANGED vars
  BY <1>2, <1>5 DEF Call, JniStep, Open, OpenFails, Write, Flush, Release, Spill,
                    CopyBig, Push, SignalWrite, SignalWriter, Kill, Broadcast, Join,
                    StartWriter, WaitOrExit, SpuriousWakeup, vars, writerVars
<1> QED  BY <1>2, <1>3, <1>4, <1>5 DEF Next, WriterStep

\* A step adds at most one attempt to those that failed.
LEMMA FailedGrows ==
  ASSUME TypeOK, [Next]_vars
  PROVE  \E x \in Nat : failed' \in {failed, Append(failed, x)}
<1>1. CASE EncodeFails
  <2>1. batch \in Seq(Entry) /\ batch # <<>>
    BY <1>1 DEF EncodeFails, TypeOK
  <2>2. Head(batch) \in Entry
    BY <2>1
  <2>3. Head(batch).first \in Nat
    BY <2>2 DEF Entry
  <2> QED  BY <1>1, <2>3 DEF EncodeFails
<1>2. CASE UNCHANGED failed
  BY <1>2
<1>3. CASE \/ Call \/ JniStep \/ StartWriter \/ TakeFifo \/ WaitOrExit \/ EncodeSucceeds
           \/ SpuriousWakeup \/ UNCHANGED vars
  BY <1>2, <1>3 DEF Call, JniStep, Open, OpenFails, Write, Flush, Release, Spill,
                    CopyBig, Push, SignalWrite, SignalWriter, Kill, Broadcast, Join,
                    StartWriter, WaitOrExit, SpuriousWakeup, TakeFifo, EncodeSucceeds,
                    vars, writerVars
<1> QED  BY <1>1, <1>3 DEF Next, WriterStep

LEMMA GivenUpStep ==
  ASSUME TypeOK, TypeOK', Control, Control', Ordered, Retried, GivenUpAfterRetries, [Next]_vars
  PROVE  GivenUpAfterRetries'
<1>1. PICK x \in Nat : failed' \in {failed, Append(failed, x)}
  BY FailedGrows
<1>2. failed \in Seq(Nat) /\ batch \in Seq(Entry) /\ lost \in SUBSET Nat
  BY DEF TypeOK
<1>3. \A f : Refused(f) => Refused(f)'
  BY <1>1, <1>2, RefusedLasts
<1>4. ASSUME NEW n \in lost, lost \subseteq lost'
      PROVE  \E f \in 0 .. n : Refused(f)' /\ f .. n \subseteq lost'
  BY <1>3, <1>4 DEF GivenUpAfterRetries
<1>5. CASE lost' = lost
  BY <1>4, <1>5 DEF GivenUpAfterRetries
<1>6. CASE GivesUpBatch /\ lost' # lost
  <2>1. PICK g \in Nat : batch # <<>> /\ g = batch[1].first /\ Refused(g)'
    BY <1>6, RetriedStep
  <2>2. Settled = g /\ FifoStart \in Nat
    BY <2>1 DEF Settled, Ordered
  <2>3. lost' = lost \cup (g .. FifoStart - 1)
    BY <1>6, <2>2 DEF GivesUpBatch, Ordered, Layout
  <2>4. ASSUME NEW n \in g .. FifoStart - 1
        PROVE  \E f \in 0 .. n : Refused(f)' /\ f .. n \subseteq lost'
    <3>1. g \in 0 .. n /\ g .. n \subseteq lost'
      BY <2>1, <2>2, <2>3
    <3> QED  BY <2>1, <3>1
  <2> QED  BY <1>4, <2>3, <2>4 DEF GivenUpAfterRetries
<1> QED  BY <1>5, <1>6, StepCases DEF StoresFirst

\* Nothing is given up before an entry has failed MaxRetries + 1 times in a row,
\* and then nothing before that entry: however the failures fall on the entries
\* and batches, they are counted for each entry by itself.
THEOREM GivenUpWhenRefused == Spec => []GivenUpAfterRetries
<1>1. Init => Ordered /\ Retried /\ GivenUpAfterRetries
  <2>1. Init => Retried /\ GivenUpAfterRetries
    BY DEF Init, Retried, GivenUpAfterRetries
  <2> QED  BY <2>1, OrderedInit
<1>2. TypeOK /\ TypeOK' /\ Control /\ Control' /\ Ordered /\ Retried
      /\ GivenUpAfterRetries /\ [Next]_vars
        => Ordered' /\ Retried' /\ GivenUpAfterRetries'
  <2> SUFFICES ASSUME TypeOK, TypeOK', Control, Control',
                      Ordered, Retried, GivenUpAfterRetries, [Next]_vars
               PROVE  Ordered' /\ Retried' /\ GivenUpAfterRetries'
    OBVIOUS
  <2>1. Ordered'
    BY OrderedStep
  <2>2. Retried'
    BY RetriedStep
  <2>3. GivenUpAfterRetries'
    BY GivenUpStep
  <2> QED  BY <2>1, <2>2, <2>3
<1> QED  BY <1>1, <1>2, TypeAndControl, PTL DEF Spec
===============================================================================
