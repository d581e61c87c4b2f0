---------------------------- MODULE StreamEncoder -----------------------------
(***************************************************************************)
(* The native FLAC encoder (jni/jni/FLACStreamEncoder.cpp).  The JNI       *)
(* thread (FLACRecorder, Boo.flattenAudio) fills a write buffer; a full    *)
(* buffer is appended to the write FIFO under m_fifo_mutex; the writer     *)
(* thread takes the whole FIFO, encodes it outside the mutex and sleeps on *)
(* m_writer_condition.                                                     *)
(*                                                                         *)
(* Samples are numbered from 0 in the order write() copies them.  A        *)
(* critical section is one step: nothing it does is visible before the     *)
(* mutex is released.  Signals are steps of their own, because the code    *)
(* sends them after unlocking, and they are lost on a thread that does not *)
(* wait.                                                                   *)
(***************************************************************************)
EXTENDS Integers, Sequences

CONSTANTS
  BufferSize,  \* m_write_buffer_size, in samples
  Channels,    \* m_channels
  Sizes,       \* the sizes, in samples, of the buffers passed to write()
  MaxSamples,  \* bound: write() is not called beyond this many samples
  MaxFailures  \* bound: how often the FLAC library fails

ASSUME SizesAssumption ==
  /\ BufferSize \in Nat \ {0}
  /\ Channels \in {1, 2}
  /\ Sizes \subseteq Nat \ {0}
  /\ MaxSamples \in Nat
  /\ MaxFailures \in Nat

MaxRetries == 3   \* retries of one FIFO entry

VARIABLES
  jpc,       \* where the JNI thread is
  pending,   \* size of the buffer being written, 0 outside write()
  buffer,    \* samples allocated for m_write_buffer, 0 when it is NULL
  offset,    \* m_write_buffer_offset (stale while the buffer is NULL)
  written,   \* samples copied so far
  fifo,      \* m_fifo
  kill,      \* m_kill_writer
  wpc,       \* where the writer thread is
  batch,     \* what is left of the FIFO the writer has taken
  retry,     \* failed attempts at the entry the writer is at
  file,      \* history: the spans of samples handed to the file
  lost,      \* history: the samples given up
  failed,    \* history: the first samples of the entries that failed, by attempt
  stray,     \* history: values encoded that were never written
  missed     \* history: a signal was sent before the writer first waited

jniVars     == <<jpc, pending, buffer, offset, written>>
writerVars  == <<batch, retry, file, lost, failed, stray>>
vars == <<jpc, pending, buffer, offset, written, fifo, kill, wpc,
          batch, retry, file, lost, failed, stray, missed>>

JniPcs == {"new", "idle", "spill", "copyBig", "push", "signalWrite",
           "signal", "kill", "broadcast", "join", "released", "refused",
           "undefined"}
WriterPcs == {"none", "start", "waiting", "woken", "encoding", "exited"}

\* write_fifo_t: a buffer with samples first .. first + fill - 1, of `room'.
Entry == [first : Nat, fill : Nat, room : Nat]
Span  == [first : Nat, fill : Nat, whole : BOOLEAN]

Samples(e) == e.first .. e.first + e.fill - 1
End(e) == e.first + e.fill

Init ==
  /\ jpc = "new" /\ pending = 0
  /\ buffer = 0 /\ offset = 0 /\ written = 0
  /\ fifo = <<>> /\ kill = FALSE
  /\ wpc = "none" /\ batch = <<>> /\ retry = 0
  /\ file = <<>> /\ lost = {} /\ failed = <<>> /\ stray = 0
  /\ missed = FALSE

-------------------------------------------------------------------------------
(* The JNI thread.                                                         *)

\* init() succeeds: the writer thread is created, though it need not run yet.
Open ==
  /\ jpc = "new"
  /\ jpc' = "idle" /\ wpc' = "start"
  /\ UNCHANGED <<pending, buffer, offset, written, fifo, kill, missed>>
  /\ UNCHANGED writerVars

\* init() fails before the thread exists; the JNI wrapper deletes the encoder,
\* whose destructor locks a mutex and joins a thread that were never
\* initialised.  The caller may see the exception, or anything else.
OpenFails ==
  /\ jpc = "new"
  /\ jpc' \in {"refused", "undefined"}
  /\ UNCHANGED <<pending, buffer, offset, written, fifo, kill, wpc, missed>>
  /\ UNCHANGED writerVars

\* Mutated form: the entry is put in front of the list.
FlushToFifoInFront ==
  IF buffer = 0
    THEN UNCHANGED <<fifo, buffer>>
    ELSE /\ fifo' = <<[first |-> written - offset,
                       fill |-> offset, room |-> buffer]>> \o fifo
         /\ buffer' = 0

\* flush_to_fifo(): the buffer becomes the last entry of the FIFO.
FlushToFifo ==
  IF buffer = 0
    THEN UNCHANGED <<fifo, buffer>>
    ELSE /\ fifo' = Append(fifo, [first |-> written - offset,
                                  fill |-> offset, room |-> buffer])
         /\ buffer' = 0

\* pthread_cond_signal and pthread_cond_broadcast: there is one waiter.
Signal ==
  /\ wpc' = IF wpc = "waiting" THEN "woken" ELSE wpc
  /\ missed' = (missed \/ wpc = "start")

\* Mutated form: the room already used is forgotten.
FitsEmptyBuffer(n) == n <= BufferSize

\* The data fits the open buffer, or a new one.
Fits(n) == n <= BufferSize /\ (buffer = 0 \/ offset + n <= BufferSize)

\* write() with n samples: choose the path.
Write(n) ==
  /\ jpc = "idle"
  /\ written + n <= MaxSamples
  /\ \/ /\ n > BufferSize
        /\ jpc' = "spill" /\ pending' = n
        /\ UNCHANGED <<buffer, offset, written>>
     \/ /\ n <= BufferSize /\ ~Fits(n)
        /\ jpc' = "push" /\ pending' = n
        /\ UNCHANGED <<buffer, offset, written>>
     \/ /\ Fits(n)
        /\ buffer' = IF buffer = 0 THEN BufferSize ELSE buffer
        /\ offset' = (IF buffer = 0 THEN 0 ELSE offset) + n
        /\ written' = written + n
        /\ UNCHANGED <<jpc, pending>>
  /\ UNCHANGED <<fifo, kill, wpc, missed>>
  /\ UNCHANGED writerVars

\* The oversized path: the open buffer goes first, so that order is kept.
Spill ==
  /\ jpc = "spill"
  /\ FlushToFifo
  /\ jpc' = "copyBig"
  /\ UNCHANGED <<pending, offset, written, kill, wpc, missed>>
  /\ UNCHANGED writerVars

\* A buffer of the caller's size is filled and appended at once.
CopyBig ==
  /\ jpc = "copyBig"
  /\ fifo' = Append(fifo, [first |-> written, fill |-> pending, room |-> pending])
  /\ buffer' = 0 /\ offset' = pending
  /\ written' = written + pending
  /\ jpc' = "signal" /\ pending' = 0
  /\ UNCHANGED <<kill, wpc, missed>>
  /\ UNCHANGED writerVars

\* The open buffer cannot hold the data: push it onto the FIFO.
Push ==
  /\ jpc = "push"
  /\ FlushToFifo
  /\ jpc' = "signalWrite"
  /\ UNCHANGED <<pending, offset, written, kill, wpc, missed>>
  /\ UNCHANGED writerVars

\* Wake the writer, then copy into a new buffer.
SignalWrite ==
  /\ jpc = "signalWrite"
  /\ Signal
  /\ buffer' = BufferSize
  /\ offset' = pending
  /\ written' = written + pending
  /\ jpc' = "idle" /\ pending' = 0
  /\ UNCHANGED <<fifo, kill>>
  /\ UNCHANGED writerVars

\* flush(): hand the open buffer over ...
Flush ==
  /\ jpc = "idle"
  /\ FlushToFifo
  /\ jpc' = "signal"
  /\ UNCHANGED <<pending, offset, written, kill, wpc, missed>>
  /\ UNCHANGED writerVars

\* ... and wake the writer; also the end of the oversized path.
SignalWriter ==
  /\ jpc = "signal"
  /\ Signal
  /\ jpc' = "idle"
  /\ UNCHANGED <<pending, buffer, offset, written, fifo, kill>>
  /\ UNCHANGED writerVars

\* deinit(): the destructor hands over what is left,
Release ==
  /\ jpc = "idle"
  /\ FlushToFifo
  /\ jpc' = "kill"
  /\ UNCHANGED <<pending, offset, written, kill, wpc, missed>>
  /\ UNCHANGED writerVars

\* sets the flag under the mutex,
Kill ==
  /\ jpc = "kill"
  /\ kill' = TRUE
  /\ jpc' = "broadcast"
  /\ UNCHANGED <<pending, buffer, offset, written, fifo, wpc, missed>>
  /\ UNCHANGED writerVars

\* Mutated form: nobody wakes the writer.
JoinWithoutBroadcast ==
  /\ jpc = "broadcast"
  /\ jpc' = "join"
  /\ UNCHANGED <<pending, buffer, offset, written, fifo, kill, wpc, missed>>
  /\ UNCHANGED writerVars

\* broadcasts after unlocking,
Broadcast ==
  /\ jpc = "broadcast"
  /\ Signal
  /\ jpc' = "join"
  /\ UNCHANGED <<pending, buffer, offset, written, fifo, kill>>
  /\ UNCHANGED writerVars

\* joins the writer, and finishes the FLAC file.
Join ==
  /\ jpc = "join"
  /\ wpc = "exited"
  /\ jpc' = "released"
  /\ UNCHANGED <<pending, buffer, offset, written, fifo, kill, wpc, missed>>
  /\ UNCHANGED writerVars
-------------------------------------------------------------------------------
(* The writer thread.                                                      *)

\* It locks the mutex and waits, before it looks at the FIFO or the flag.
StartWriter ==
  /\ wpc = "start"
  /\ wpc' = "waiting"
  /\ UNCHANGED <<fifo, kill, missed>>
  /\ UNCHANGED jniVars /\ UNCHANGED writerVars

\* pthread_cond_wait may return without a signal.
SpuriousWakeup ==
  /\ wpc = "waiting"
  /\ wpc' = "woken"
  /\ UNCHANGED <<fifo, kill, missed>>
  /\ UNCHANGED jniVars /\ UNCHANGED writerVars

\* The writer holds the mutex when it was woken and when a batch is done.
HasMutex == wpc = "woken" \/ (wpc = "encoding" /\ batch = <<>>)

\* It takes the whole FIFO and unlocks,
TakeFifo ==
  /\ HasMutex
  /\ fifo # <<>>
  /\ batch' = fifo /\ fifo' = <<>> /\ retry' = 0
  /\ wpc' = "encoding"
  /\ UNCHANGED <<kill, missed, file, lost, failed, stray>>
  /\ UNCHANGED jniVars

\* Mutated form: the flag is obeyed before the FIFO is empty.
ExitWithFifo ==
  /\ HasMutex
  /\ kill \/ fifo = <<>>
  /\ wpc' = IF kill THEN "exited" ELSE "waiting"
  /\ UNCHANGED <<fifo, kill, missed>>
  /\ UNCHANGED jniVars /\ UNCHANGED writerVars

\* Mutated form: after a batch the FIFO is not looked at again.
WaitWithFifo ==
  /\ HasMutex
  /\ fifo = <<>> \/ wpc = "encoding"
  /\ wpc' = IF kill THEN "exited" ELSE "waiting"
  /\ UNCHANGED <<fifo, kill, missed>>
  /\ UNCHANGED jniVars /\ UNCHANGED writerVars

\* or, if there is none, waits again, or ends when it was told to.
WaitOrExit ==
  /\ HasMutex
  /\ fifo = <<>>
  /\ wpc' = IF kill THEN "exited" ELSE "waiting"
  /\ UNCHANGED <<fifo, kill, missed>>
  /\ UNCHANGED jniVars /\ UNCHANGED writerVars

\* FLAC__stream_encoder_process_interleaved is told the number of values of the
\* entry where it expects the number of samples of one channel, so it reads
\* Channels times as many values.
ReadBy(e) == Channels * e.fill

\* Mutated form: the failures of all entries of a batch are counted together.
EncodeSucceedsKeepingRetry ==
  /\ wpc = "encoding" /\ batch # <<>>
  /\ file' = Append(file, [first |-> Head(batch).first,
                           fill |-> Head(batch).fill, whole |-> TRUE])
  /\ stray' = stray + ReadBy(Head(batch)) - Head(batch).fill
  /\ batch' = Tail(batch)
  /\ UNCHANGED <<fifo, kill, wpc, retry, lost, failed, missed>>
  /\ UNCHANGED jniVars

EncodeSucceeds ==
  /\ wpc = "encoding" /\ batch # <<>>
  /\ file' = Append(file, [first |-> Head(batch).first,
                           fill |-> Head(batch).fill, whole |-> TRUE])
  /\ stray' = stray + ReadBy(Head(batch)) - Head(batch).fill
  /\ batch' = Tail(batch) /\ retry' = 0
  /\ UNCHANGED <<fifo, kill, wpc, lost, failed, missed>>
  /\ UNCHANGED jniVars

\* Mutated form: one retry too many.
ExhaustedLate == retry > MaxRetries

\* One more failure makes the writer give up.
Exhausted == retry >= MaxRetries

\* Mutated form: only the entry that failed counts as given up.
GivesUpHead == Samples(Head(batch))

\* The samples of the whole rest of the batch.
GivesUp == UNION {Samples(batch[i]) : i \in DOMAIN batch}

\* A failed attempt may leave a prefix of the entry behind.  After MaxRetries
\* retries the writer gives up on the entry and on the rest of its batch.
EncodeFails ==
  /\ wpc = "encoding" /\ batch # <<>>
  /\ Len(failed) < MaxFailures
  /\ failed' = Append(failed, Head(batch).first)
  /\ \E k \in 0 .. Head(batch).fill :
       file' = IF k = 0 THEN file
               ELSE Append(file, [first |-> Head(batch).first,
                                  fill |-> k, whole |-> FALSE])
  /\ \/ /\ ~Exhausted
        /\ retry' = retry + 1
        /\ UNCHANGED <<batch, lost>>
     \/ /\ Exhausted
        /\ batch' = <<>>
        /\ lost' = lost \cup GivesUp
        /\ UNCHANGED retry
  /\ UNCHANGED <<fifo, kill, wpc, stray, missed>>
  /\ UNCHANGED jniVars
-------------------------------------------------------------------------------
\* Calls a user of the encoder makes.
Call == Open \/ OpenFails \/ (\E n \in Sizes : Write(n)) \/ Flush \/ Release

\* Steps of a call under way.
JniStep == \/ Spill \/ CopyBig \/ Push \/ SignalWrite \/ SignalWriter
           \/ Kill \/ Broadcast \/ Join

WriterStep == StartWriter \/ TakeFifo \/ WaitOrExit \/ EncodeSucceeds \/ EncodeFails

Next == Call \/ JniStep \/ WriterStep \/ SpuriousWakeup

Spec == Init /\ [][Next]_vars

\* Both threads are scheduled; nobody has to call, and no wakeup is spurious.
FairSpec == Spec /\ WF_vars(JniStep) /\ WF_vars(WriterStep)
-------------------------------------------------------------------------------
(* Properties.                                                             *)

TypeOK ==
  /\ jpc \in JniPcs /\ wpc \in WriterPcs
  /\ pending \in Nat /\ buffer \in Nat /\ offset \in Nat /\ written \in Nat
  /\ fifo \in Seq(Entry) /\ batch \in Seq(Entry)
  /\ kill \in BOOLEAN /\ missed \in BOOLEAN
  /\ retry \in 0 .. MaxRetries
  /\ file \in Seq(Span)
  /\ lost \in SUBSET Nat
  /\ failed \in Seq(Nat)
  /\ stray \in Nat

\* The number of the first sample that is still in the write buffer, in the
\* FIFO, and anywhere in memory.
BufferStart == IF buffer = 0 THEN written ELSE written - offset
FifoStart == IF fifo = <<>> THEN BufferStart ELSE fifo[1].first
Settled == IF batch = <<>> THEN FifoStart ELSE batch[1].first

\* The entries of s hold samples a .. b - 1 in order.
Tiles(s, a, b) ==
  IF s = <<>> THEN a = b
  ELSE /\ s[1].first = a
       /\ End(s[Len(s)]) = b
       /\ \A i \in 1 .. Len(s) - 1 : End(s[i]) = s[i + 1].first

\* The samples of the entries that were encoded without an error.
Stored == UNION {Samples(file[i]) : i \in {j \in DOMAIN file : file[j].whole}}

\* Batch, FIFO and write buffer hold consecutive runs of samples: the hand-over
\* between the two threads reorders, repeats and forgets nothing, whichever of
\* the four paths through write(), flush() and release() appended an entry.
InTransitInOrder ==
  /\ Tiles(batch, Settled, FifoStart)
  /\ Tiles(fifo, FifoStart, BufferStart)

\* Every sample the writer is done with is in the file or was given up, never
\* both: the accounting of writer_thread's retry loop.
StoredOrLost ==
  /\ Stored \cup lost = 0 .. Settled - 1
  /\ Stored \cap lost = {}

\* The entries that were encoded are in the file in the order of the recording.
FileInOrder ==
  \A i, j \in DOMAIN file :
    i < j /\ file[i].whole => End(file[i]) <= file[j].first

\* copyBuffer never writes past the buffer it was given, though it checks
\* nothing itself: write() chose the path that makes room.
NoBufferOverrun ==
  /\ buffer # 0 => offset <= buffer
  /\ \A i \in DOMAIN fifo : fifo[i].fill <= fifo[i].room
  /\ \A i \in DOMAIN batch : batch[i].fill <= batch[i].room

\* An entry is refused when MaxRetries + 1 attempts in a row have failed.
Refused(f) == \E i \in DOMAIN failed :
                /\ i > MaxRetries
                /\ \A j \in i - MaxRetries .. i : failed[j] = f

\* What is given up begins with an entry that was refused: however the failures
\* of the FLAC library fall on entries and batches, nothing of a batch is lost
\* before one of its entries has failed MaxRetries + 1 times in a row.
GivenUpAfterRetries ==
  \A n \in lost : \E f \in 0 .. n : Refused(f) /\ f .. n \subseteq lost

\* release() returns if the writer had begun to wait when the flag was set.
ReleaseReturns == (jpc = "broadcast" /\ wpc # "start") ~> (jpc = "released")

\* A flushed FIFO is emptied, if no signal was missed.  Signals are sent outside
\* the mutex, so this rests on the writer looking at the FIFO again before it
\* waits.
FlushReachesFile ==
  (jpc = "idle" /\ fifo # <<>> /\ ~missed) ~> (fifo = <<>> /\ batch = <<>>)

\* "Destroys encoder instance, releases outfile" (FLACStreamEncoder.cpp:211):
\* a call of release() returns.
ReleaseAlwaysReturns == (jpc = "kill") ~> (jpc = "released")

Stream == INSTANCE RecordedStream WITH
  accepted <- written, settled <- Settled, disk <- Stored,
  dropped <- lost, closed <- jpc = "released"

\* The encoder keeps the promise of a recorded stream: samples reach the file
\* in order, each once, and release() returns only when none is under way.
RefinesStream == Stream!StreamSpec

\* Only values that were written are encoded.
EncodesOnlyWritten == stray = 0
===============================================================================
