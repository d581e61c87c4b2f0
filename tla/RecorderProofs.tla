---------------------------- MODULE RecorderProofs ----------------------------
(***************************************************************************)
(* Theorems about Recorder, for every limit and every number of clicks,    *)
(* chunks and failures.                                                    *)
(*                                                                         *)
(* What is said of the position (Told) holds in every state: each END in   *)
(* the queue tells all that the files hold, which is at most what the      *)
(* amplitudes before it, or the statistics, add up to; what amplitudes     *)
(* claim is counted from the END before them.  What is said of the         *)
(* durations is about one recording at a time: those of which a recorder   *)
(* was hasty, or was not heard, are odd, and a recorder that was not hasty *)
(* is alone - its END is the only one, and the newest amplitudes are its   *)
(* own (One).                                                              *)
(***************************************************************************)
EXTENDS Recorder, SequenceTheorems, WellFoundedInduction, TLAPS

(***************************************************************************)
(* The queue of the main thread, as a value.                               *)
(***************************************************************************)
Has(q, what) == \E i \in 1..Len(q) : q[i].what = what

\* The END of a recording is behind all its amplitudes, and the only one.
EndsLast(q) ==
  \A i, j \in 1..Len(q) :
    i < j /\ q[i].what = "end" => q[j].what \notin {"amp", "end"}

\* Behind amplitudes is an END.
AmpsFollowed(q) ==
  \A i \in 1..Len(q) : q[i].what = "amp" =>
     \E j \in 1..Len(q) : i < j /\ q[j].what = "end"

Newest(q, i) ==
  /\ q[i].what = "amp"
  /\ \A j \in 1..Len(q) : i < j => q[j].what # "amp"

\* The newest amplitudes are at the position v.
Tells(q, hrd, last, v) ==
  /\ \A i \in 1..Len(q) : Newest(q, i) => q[i].pos = v
  /\ ~Has(q, "amp") /\ hrd => last = v

AmpsPositive(q) == \A i \in 1..Len(q) : q[i].what = "amp" => q[i].pos >= 1

\* The last END of the first n messages.
LastEnd(q, n, i) ==
  /\ i \in 1..n /\ q[i].what = "end"
  /\ \A j \in 1..n : i < j => q[j].what # "end"

\* v is at most p more than what that END says the files held - or, if there is
\* none, than off.
BaseOk(q, n, off, v, p) ==
  /\ \A i \in 1..n : LastEnd(q, n, i) => v <= q[i].real + p
  /\ (\A i \in 1..n : q[i].what # "end") => v <= off + p

\* The last of the first n messages that is about a recording.
LastSaid(q, n, i) ==
  /\ i \in 1..n /\ q[i].what \in {"amp", "end"}
  /\ \A j \in 1..n : i < j => q[j].what \notin {"amp", "end"}

\* v is at most what that message tells - or, if there is none, what the
\* statistics have, off, and the last amplitudes.
EndOk(q, n, off, last, v) ==
  /\ \A i \in 1..n : LastSaid(q, n, i) =>
       /\ q[i].what = "end" => v <= q[i].real
       /\ q[i].what = "amp" => BaseOk(q, i - 1, off, v, q[i].pos)
  /\ (\A i \in 1..n : q[i].what \notin {"amp", "end"}) => v <= off + last

\* So are every message, the files (v), and the recorder at work (p).
AmpsOk(q, off) ==
  \A i \in 1..Len(q) : q[i].what = "amp" =>
     BaseOk(q, i - 1, off, q[i].real, q[i].pos)
EndsOk(q, off, last) ==
  \A i \in 1..Len(q) : q[i].what = "end" =>
     EndOk(q, i - 1, off, last, q[i].real)
UpsOk(q) == \A i \in 1..Len(q) : q[i].what = "ampUp" => q[i].real <= q[i].pos
ChainOk(q, off, last, v, p) ==
  /\ AmpsOk(q, off) /\ EndsOk(q, off, last) /\ UpsOk(q)
  /\ EndOk(q, Len(q), off, last, v) /\ BaseOk(q, Len(q), off, v, p)

(***************************************************************************)
(* The inductive invariants.                                               *)
(***************************************************************************)
Flags ==
  /\ checked \in BOOLEAN /\ enabled \in BOOLEAN /\ dialog \in BOOLEAN
  /\ open \in BOOLEAN /\ mRecorder \in BOOLEAN /\ aliased \in BOOLEAN
  /\ heard \in BOOLEAN /\ hasty \in BOOLEAN /\ behind \in BOOLEAN

Queued == messages \in Seq(Messages)

Bookkeeping ==
  /\ durations \in Seq(Nat) /\ mRecording \in 0..Len(durations)
  /\ reported \in Seq(Nat) /\ Len(reported) = Len(durations)
  /\ captured \in Seq(Nat) /\ Len(captured) = Len(durations)

Statistics ==
  /\ mAmplitudes \in Nat \cup {-1} /\ mLastAmplitudes \in Nat \cup {-1}
  /\ mAmplitudes # -1 => mLastAmplitudes # -1

\* The recorder's thread is there exactly while the recorder is.
Running ==
  /\ mpc \in {"idle", "join", "joinStart"}
  /\ thread \in Threads
  /\ mRecorder <=> thread.pc # "none"
  /\ mRecorder => thread.rec \in 1..Len(durations)
  /\ ~mRecorder => thread = NoThread
  /\ mpc # "idle" => mRecorder

Bounded ==
  /\ counting \in Nat /\ mRecordingOffset \in Nat
  /\ odd \subseteq Nat
  /\ clicks \in 0..MaxClicks /\ failures \in 0..MaxFailures

Types == Flags /\ Queued /\ Bookkeeping /\ Statistics /\ Running /\ Bounded

Pending == mRecorder \/ Has(messages, "end")
Last == Len(durations)

\* Something was recorded, or reported, and no duration is set.
Undone ==
  /\ durations # <<>> /\ durations[Last] = 0
  /\ captured[Last] > 0 \/ reported[Last] > 0

\* The duration of what was recorded will be set, whoever is hasty.
Kept ==
  /\ mRecording \in {0, Last}
  /\ mRecorder => thread.rec = Last
  /\ mRecorder /\ durations[Last] = 0 => mRecording = Last
  /\ mRecorder \/ AmpsFollowed(messages)
  /\ AmpsPositive(messages) /\ mLastAmplitudes # 0 /\ mAmplitudes # 0
  /\ Undone => /\ mRecording = Last /\ Pending
               /\ mLastAmplitudes # -1 \/ Has(messages, "amp")
  /\ ~hasty /\ thread.pc \in {"new", "encoder"} => captured[thread.rec] = 0

Known == IF mLastAmplitudes = -1 THEN 0 ELSE mLastAmplitudes

\* What the queue, the statistics and the recorder say of the files.
Told == ChainOk(messages, Offset, Known, Sum(captured), thread.position)

One ==
  /\ mRecorder => ~Has(messages, "end")
  /\ EndsLast(messages)
  /\ Pending =>
       /\ mRecording = Last /\ durations # <<>> /\ durations[Last] = 0
       /\ Tells(messages, heard, mLastAmplitudes, reported[Last])
       /\ heard => ~aliased /\ mLastAmplitudes # -1

Alone ==
  /\ hasty => Last \in odd
  /\ ~hasty => One

Reported ==
  \A i \in 1..Last :
    i \notin odd /\ ~(Pending /\ i = Last) => durations[i] = reported[i]

Counted ==
  odd = {} =>
    /\ \A i \in 1..Last : ~(Pending /\ i = Last) => durations[i] >= 1
    /\ mAmplitudes = IF durations = <<>> \/ (Pending /\ Last = 1) THEN -1
                     ELSE TotalDuration

(***************************************************************************)
(* Sums.                                                                   *)
(***************************************************************************)
\* Induction over the naturals, from the library's theorem that they have no
\* infinite descent.
LEMMA Induction ==
  ASSUME NEW S \in SUBSET Nat, 0 \in S, \A n \in S : n + 1 \in S
  PROVE  S = Nat
<1>1. SUFFICES ASSUME Nat \ S # {} PROVE FALSE
  OBVIOUS
<1>2. PICK x \in Nat \ S :
        \A y \in Nat \ S : <<y, x>> \notin OpToRel(<, Nat)
  <2>1. Nat \ S \subseteq Nat
    OBVIOUS
  <2>2. \E x \in Nat \ S :
          \A y \in Nat \ S : ~(<<y, x>> \in OpToRel(<, Nat))
    BY <1>1, <2>1, WFMin, NatLessThanWellFounded
  <2> QED
    BY <2>2
<1>3. x - 1 \in Nat /\ (x - 1) + 1 = x /\ x - 1 < x
  <2>1. x \in Nat /\ x # 0
    BY <1>2
  <2> QED
    BY <2>1
<1>4. x - 1 \in Nat \ S
  BY <1>2, <1>3
<1>5. <<x - 1, x>> \in OpToRel(<, Nat)
  BY <1>2, <1>3 DEF OpToRel
<1> QED
  BY <1>2, <1>4, <1>5

\* The function that Sum is defined by.
Partial(s) == LET f[n \in 0..Len(s)] == IF n = 0 THEN 0 ELSE f[n - 1] + s[n]
              IN f

LEMMA SumIsPartial == \A s : Sum(s) = Partial(s)[Len(s)]
  BY DEF Sum, Partial

PartialUpTo(s, m) ==
  \E f \in [0..m -> Nat] :
     f[0] = 0 /\ \A n \in 1..m : f[n] = f[n - 1] + s[n]

LEMMA PartialExists ==
  ASSUME NEW s \in Seq(Nat)
  PROVE  \E f : f = [n \in 0..Len(s) |-> IF n = 0 THEN 0 ELSE f[n - 1] + s[n]]
<1> DEFINE G == {m \in Nat : m <= Len(s) => PartialUpTo(s, m)}
<1>0. Len(s) \in Nat
  OBVIOUS
<1>1. 0 \in G
  <2> DEFINE f == [n \in 0..0 |-> 0]
  <2>1. f \in [0..0 -> Nat] /\ f[0] = 0 /\ \A n \in 1..0 : f[n] = f[n - 1] + s[n]
    OBVIOUS
  <2>2. PartialUpTo(s, 0)
    BY <2>1 DEF PartialUpTo
  <2> QED
    BY <2>2
<1>2. ASSUME NEW m \in G PROVE m + 1 \in G
  <2>1. m \in Nat /\ m + 1 \in Nat
    OBVIOUS
  <2>2. SUFFICES ASSUME m + 1 <= Len(s) PROVE PartialUpTo(s, m + 1)
    BY <2>1
  <2>3. PartialUpTo(s, m)
    BY <1>0, <2>1, <2>2
  <2>4. PICK f \in [0..m -> Nat] :
          f[0] = 0 /\ \A n \in 1..m : f[n] = f[n - 1] + s[n]
    BY <2>3 DEF PartialUpTo
  <2> DEFINE g == [n \in 0..(m + 1) |-> IF n = m + 1 THEN f[m] + s[m + 1] ELSE f[n]]
  <2>5. s[m + 1] \in Nat /\ f[m] \in Nat
    BY <1>0, <2>1, <2>2
  <2>6. g \in [0..(m + 1) -> Nat]
    <3>1. ASSUME NEW n \in 0..(m + 1), n # m + 1 PROVE f[n] \in Nat
      BY <2>1, <3>1
    <3>2. f[m] + s[m + 1] \in Nat
      BY <2>5
    <3> QED
      BY <3>1, <3>2
  <2>7. g[0] = 0
    BY <2>1, <2>4
  <2>8. ASSUME NEW n \in 1..(m + 1) PROVE g[n] = g[n - 1] + s[n]
    <3>1. n \in 0..(m + 1) /\ n - 1 \in 0..(m + 1) /\ n - 1 # m + 1
      BY <2>1
    <3>2. g[n - 1] = f[n - 1]
      BY <3>1
    <3>3. CASE n = m + 1
      <4>1. g[n] = f[m] + s[m + 1] /\ n - 1 = m
        BY <2>1, <3>1, <3>3
      <4> QED
        BY <4>1, <3>2, <3>3
    <3>4. CASE n # m + 1
      <4>1. n \in 1..m /\ g[n] = f[n]
        BY <2>1, <3>1, <3>4
      <4> QED
        BY <4>1, <3>2, <2>4
    <3> QED
      BY <3>3, <3>4
  <2> QED
    BY <2>6, <2>7, <2>8 DEF PartialUpTo
<1>3. G = Nat
  <2>1. G \in SUBSET Nat
    OBVIOUS
  <2> HIDE DEF G
  <2> QED
    BY <1>1, <1>2, <2>1, Induction
<1>4. PartialUpTo(s, Len(s))
  BY <1>0, <1>3
<1>5. PICK f \in [0..Len(s) -> Nat] :
        f[0] = 0 /\ \A n \in 1..Len(s) : f[n] = f[n - 1] + s[n]
  BY <1>4 DEF PartialUpTo
<1>6. ASSUME NEW n \in 0..Len(s)
      PROVE  f[n] = IF n = 0 THEN 0 ELSE f[n - 1] + s[n]
  BY <1>0, <1>5
<1>7. f = [n \in 0..Len(s) |-> IF n = 0 THEN 0 ELSE f[n - 1] + s[n]]
  BY <1>5, <1>6
<1> QED
  BY <1>7

\* Each partial sum is the one before it and a further element.
LEMMA PartialSums ==
  ASSUME NEW s \in Seq(Nat)
  PROVE  /\ Partial(s)[0] = 0
         /\ \A n \in 1..Len(s) : Partial(s)[n] = Partial(s)[n - 1] + s[n]
         /\ \A n \in 0..Len(s) : Partial(s)[n] \in Nat
<1> DEFINE p == Partial(s)
<1>0. Len(s) \in Nat
  OBVIOUS
<1>1. p = [n \in 0..Len(s) |-> IF n = 0 THEN 0 ELSE p[n - 1] + s[n]]
  BY PartialExists DEF Partial
<1> HIDE DEF p
<1>2. p[0] = 0
  BY <1>0, <1>1
<1>3. ASSUME NEW n \in 1..Len(s) PROVE p[n] = p[n - 1] + s[n]
  <2>1. n \in 0..Len(s) /\ n # 0
    BY <1>0
  <2>2. \A k \in 0..Len(s) : p[k] = IF k = 0 THEN 0 ELSE p[k - 1] + s[k]
    BY <1>1, Zenon
  <2> QED
    BY <2>1, <2>2
<1> DEFINE G == {n \in Nat : n <= Len(s) => p[n] \in Nat}
<1>4. 0 \in G
  BY <1>2
<1>5. ASSUME NEW n \in G PROVE n + 1 \in G
  <2>1. n \in Nat /\ n + 1 \in Nat
    OBVIOUS
  <2>2. SUFFICES ASSUME n + 1 <= Len(s) PROVE p[n + 1] \in Nat
    BY <2>1
  <2>3. p[n] \in Nat
    BY <1>0, <2>1, <2>2
  <2>4. n + 1 \in 1..Len(s) /\ (n + 1) - 1 = n
    BY <1>0, <2>1, <2>2
  <2>5. s[n + 1] \in Nat
    BY <2>4
  <2>6. p[n + 1] = p[n] + s[n + 1]
    BY <1>3, <2>4
  <2> QED
    BY <2>3, <2>5, <2>6
<1>6. G = Nat
  <2>1. G \in SUBSET Nat
    OBVIOUS
  <2> HIDE DEF G
  <2> QED
    BY <1>4, <1>5, <2>1, Induction
<1>7. \A n \in 0..Len(s) : p[n] \in Nat
  BY <1>0, <1>6
<1> QED
  BY <1>2, <1>3, <1>7 DEF p

LEMMA SumNat ==
  ASSUME NEW s \in Seq(Nat)
  PROVE  Sum(s) \in Nat
<1>1. Len(s) \in 0..Len(s)
  OBVIOUS
<1> QED
  BY <1>1, PartialSums, SumIsPartial

LEMMA SumEmpty == Sum(<<>>) = 0
<1>1. <<>> \in Seq(Nat) /\ Len(<<>>) = 0
  OBVIOUS
<1> QED
  BY <1>1, PartialSums, SumIsPartial

LEMMA SumOne ==
  ASSUME NEW s \in Seq(Nat), Len(s) = 1
  PROVE  Sum(s) = s[1]
<1>1. 1 \in 1..Len(s)
  OBVIOUS
<1>2. s[1] \in Nat
  BY <1>1, ElementOfSeq
<1>3. Partial(s)[1] = Partial(s)[1 - 1] + s[1]
  BY <1>1, PartialSums
<1>4. 1 - 1 = 0
  OBVIOUS
<1>5. Partial(s)[1] = 0 + s[1]
  BY <1>3, <1>4, PartialSums
<1>6. Sum(s) = Partial(s)[1]
  BY SumIsPartial
<1> QED
  BY <1>2, <1>5, <1>6

LEMMA AddLess ==
  \A a, b, c, d \in Nat : a <= b /\ c <= d => a + c <= b + d
  OBVIOUS

LEMMA Reorder ==
  \A a, b, c, d \in Nat : (a + c - d) + b = (a + b) + c - d
  OBVIOUS

\* The partial sums of a sequence that is nowhere greater are not greater.
LEMMA PartialMonotone ==
  ASSUME NEW s \in Seq(Nat), NEW r \in Seq(Nat),
         NEW m \in Nat, m <= Len(s), m <= Len(r),
         \A i \in 1..m : s[i] <= r[i]
  PROVE  \A n \in 0..m : Partial(s)[n] <= Partial(r)[n]
<1> DEFINE G == {n \in Nat : n <= m => Partial(s)[n] <= Partial(r)[n]}
<1>0. Len(s) \in Nat /\ Len(r) \in Nat
  OBVIOUS
<1>1. 0 \in G
  <2>1. Partial(s)[0] = 0 /\ Partial(r)[0] = 0
    BY PartialSums
  <2> QED
    BY <2>1
<1>2. ASSUME NEW n \in G PROVE n + 1 \in G
  <2>1. n \in Nat /\ n + 1 \in Nat
    OBVIOUS
  <2>2. SUFFICES ASSUME n + 1 <= m
                 PROVE  Partial(s)[n + 1] <= Partial(r)[n + 1]
    BY <2>1
  <2>3. Partial(s)[n] <= Partial(r)[n]
    BY <1>0, <2>1, <2>2
  <2>4. /\ n + 1 \in 1..m /\ n + 1 \in 1..Len(s) /\ n + 1 \in 1..Len(r) /\ (n + 1) - 1 = n
        /\ n \in 0..Len(s) /\ n \in 0..Len(r)
    BY <1>0, <2>1, <2>2
  <2>5. s[n + 1] \in Nat /\ r[n + 1] \in Nat /\ s[n + 1] <= r[n + 1]
    BY <2>4, ElementOfSeq
  <2>6. Partial(s)[n + 1] = Partial(s)[n] + s[n + 1] /\ Partial(s)[n] \in Nat
    BY ONLY s \in Seq(Nat), <2>4, PartialSums
  <2>7. Partial(r)[n + 1] = Partial(r)[n] + r[n + 1] /\ Partial(r)[n] \in Nat
    BY ONLY r \in Seq(Nat), <2>4, PartialSums
  <2>8. Partial(s)[n] + s[n + 1] <= Partial(r)[n] + r[n + 1]
    BY <2>3, <2>5, <2>6, <2>7, AddLess
  <2> QED
    BY <2>6, <2>7, <2>8, Zenon
<1>3. G = Nat
  <2>1. G \in SUBSET Nat
    OBVIOUS
  <2> HIDE DEF G
  <2> QED
    BY <1>1, <1>2, <2>1, Induction
<1>4. ASSUME NEW n \in 0..m PROVE Partial(s)[n] <= Partial(r)[n]
  <2>1. n \in Nat /\ n <= m
    OBVIOUS
  <2>2. n \in G
    BY <1>3, <2>1
  <2> QED
    BY <2>1, <2>2
<1> QED
  BY <1>4

LEMMA SumMonotone ==
  ASSUME NEW s \in Seq(Nat), NEW r \in Seq(Nat), Len(s) = Len(r),
         \A i \in 1..Len(s) : s[i] <= r[i]
  PROVE  Sum(s) <= Sum(r)
<1>1. /\ Len(s) \in 0..Len(s) /\ Len(s) <= Len(s) /\ Len(s) <= Len(r)
      /\ Len(s) \in Nat
  OBVIOUS
<1> QED
  BY <1>1, PartialMonotone, SumIsPartial

LEMMA SumAppend ==
  ASSUME NEW s \in Seq(Nat), NEW x \in Nat
  PROVE  Sum(Append(s, x)) = Sum(s) + x
<1> DEFINE t == Append(s, x)
           n == Len(s)
<1>1. /\ t \in Seq(Nat) /\ Len(t) = n + 1 /\ n \in Nat /\ t[n + 1] = x
      /\ \A i \in 1..n : t[i] = s[i]
  OBVIOUS
<1>2. \A i \in 1..n : s[i] \in Nat
  OBVIOUS
<1> HIDE DEF t
<1>3. n <= Len(s) /\ n \in 0..n /\ n <= Len(t) /\ n + 1 \in 1..Len(t) /\ (n + 1) - 1 = n
      /\ n \in 0..Len(t)
  BY <1>1
<1>4. \A i \in 1..n : s[i] <= t[i] /\ t[i] <= s[i]
  BY <1>1, <1>2
<1>5. Partial(s)[n] <= Partial(t)[n]
  BY <1>1, <1>3, <1>4, PartialMonotone
<1>6. Partial(t)[n] <= Partial(s)[n]
  BY <1>1, <1>3, <1>4, PartialMonotone
<1>7. Partial(t)[n + 1] = Partial(t)[n] + x /\ Partial(t)[n] \in Nat
  BY <1>1, <1>3, PartialSums
<1>8. Partial(s)[n] \in Nat
  BY <1>3, PartialSums
<1>9. Sum(s) = Partial(s)[n] /\ Sum(t) = Partial(t)[n + 1]
  BY <1>1, SumIsPartial
<1> QED
  BY <1>5, <1>6, <1>7, <1>8, <1>9 DEF t
LEMMA SumExcept ==
  ASSUME NEW s \in Seq(Nat), NEW k \in 1..Len(s), NEW v \in Nat
  PROVE  Sum([s EXCEPT ![k] = v]) = Sum(s) + v - s[k]
<1> DEFINE t == [s EXCEPT ![k] = v]
           G == {n \in Nat : n <= Len(s) =>
                   Partial(t)[n] = IF n < k THEN Partial(s)[n]
                                   ELSE Partial(s)[n] + v - s[k]}
<1>0. /\ Len(s) \in Nat /\ k \in Nat /\ k >= 1 /\ k <= Len(s)
      /\ s[k] \in Nat
  OBVIOUS
<1>1. /\ t \in Seq(Nat) /\ Len(t) = Len(s)
      /\ \A i \in 1..Len(s) : t[i] = IF i = k THEN v ELSE s[i]
  BY ExceptSeq
<1> HIDE DEF t
<1>2. 0 \in G
  <2>1. Partial(s)[0] = 0 /\ Partial(t)[0] = 0
    BY <1>1, PartialSums
  <2> QED
    BY <1>0, <2>1
<1>3. ASSUME NEW n \in G PROVE n + 1 \in G
  <2>1. n \in Nat /\ n + 1 \in Nat
    OBVIOUS
  <2>2. SUFFICES ASSUME n + 1 <= Len(s)
                 PROVE  Partial(t)[n + 1] =
                          IF n + 1 < k THEN Partial(s)[n + 1]
                          ELSE Partial(s)[n + 1] + v - s[k]
    BY <2>1
  <2>3. Partial(t)[n] = IF n < k THEN Partial(s)[n]
                        ELSE Partial(s)[n] + v - s[k]
    BY <1>0, <2>1, <2>2
  <2>4. n + 1 \in 1..Len(s) /\ (n + 1) - 1 = n /\ n \in 0..Len(s)
    BY <1>0, <2>1, <2>2
  <2>5. s[n + 1] \in Nat
    BY <2>4, ElementOfSeq
  <2>6. Partial(s)[n + 1] = Partial(s)[n] + s[n + 1] /\ Partial(s)[n] \in Nat
    BY <2>4, PartialSums
  <2>7. Partial(t)[n + 1] = Partial(t)[n] + t[n + 1]
    BY <1>1, <2>4, PartialSums
  <2>8. CASE n + 1 = k
    <3>1. t[n + 1] = v /\ n < k /\ s[k] = s[n + 1]
      BY <1>0, <1>1, <2>1, <2>4, <2>8
    <3>2. Partial(t)[n + 1] = Partial(s)[n] + v
      BY <2>3, <2>7, <3>1
    <3>3. Partial(s)[n + 1] + v - s[k] = Partial(s)[n] + v
      BY <2>5, <2>6, <3>1
    <3>4. ~(n + 1 < k)
      BY <1>0, <2>1, <2>8
    <3> QED
      BY <3>2, <3>3, <3>4
  <2>9. CASE n + 1 # k
    <3>1. t[n + 1] = s[n + 1]
      BY <1>1, <2>4, <2>9
    <3>2. n < k <=> n + 1 < k
      BY <1>0, <2>1, <2>9
    <3>3. Partial(t)[n + 1] = Partial(t)[n] + s[n + 1]
      BY <2>7, <3>1
    <3>4. CASE n + 1 < k
      BY <2>3, <2>6, <3>2, <3>3, <3>4
    <3>5. CASE ~(n + 1 < k)
      <4>1. Partial(t)[n] = Partial(s)[n] + v - s[k]
        BY <2>3, <3>2, <3>5
      <4>2. Partial(t)[n + 1] = (Partial(s)[n] + v - s[k]) + s[n + 1]
        BY <3>3, <4>1
      <4>3. Partial(t)[n + 1] = (Partial(s)[n] + s[n + 1]) + v - s[k]
        <5>1. /\ Partial(s)[n] \in Nat /\ s[n + 1] \in Nat /\ v \in Nat
              /\ s[k] \in Nat
          BY <1>0, <2>5, <2>6
        <5> QED
          BY <4>2, <5>1, Reorder
      <4> QED
        BY <2>6, <3>5, <4>3
    <3> QED
      BY <3>4, <3>5
  <2> QED
    BY <2>8, <2>9
<1>4. G = Nat
  <2>1. G \in SUBSET Nat
    OBVIOUS
  <2> HIDE DEF G
  <2> QED
    BY <1>2, <1>3, <2>1, Induction
<1>5. Partial(t)[Len(s)] = Partial(s)[Len(s)] + v - s[k]
  <2>1. Len(s) \in G
    BY <1>0, <1>4
  <2> QED
    BY <1>0, <2>1
<1> QED
  BY <1>1, <1>5, SumIsPartial DEF t

\* Where only one element may be greater, so is the sum by at most as much.
LEMMA SumBound ==
  ASSUME NEW s \in Seq(Nat), NEW r \in Seq(Nat), Len(s) = Len(r),
         NEW k \in 1..Len(s),
         \A i \in 1..Len(s) : i # k => s[i] <= r[i]
  PROVE  Sum(s) <= Sum(r) + s[k]
<1> DEFINE t == [s EXCEPT ![k] = 0]
<1>1. /\ t \in Seq(Nat) /\ Len(t) = Len(s)
      /\ \A i \in 1..Len(s) : t[i] = IF i = k THEN 0 ELSE s[i]
  BY ExceptSeq
<1>2. Sum(t) = Sum(s) + 0 - s[k]
  BY SumExcept
<1> HIDE DEF t
<1>3. ASSUME NEW i \in 1..Len(t) PROVE t[i] <= r[i]
  <2>1. i \in 1..Len(s) /\ i \in 1..Len(r) /\ r[i] \in Nat
    BY <1>1, ElementOfSeq
  <2>2. i = k => t[i] = 0
    BY <1>1, <2>1
  <2>3. i # k => t[i] = s[i] /\ s[i] <= r[i]
    BY <1>1, <2>1
  <2>4. i = k => t[i] <= r[i]
    BY <2>1, <2>2
  <2> QED
    BY <2>3, <2>4
<1>4. Len(t) = Len(r)
  BY <1>1
<1>5. Sum(t) <= Sum(r)
  BY <1>1, <1>3, <1>4, SumMonotone
<1>6. Sum(s) \in Nat /\ Sum(r) \in Nat /\ s[k] \in Nat
  BY SumNat, ElementOfSeq
<1> QED
  BY <1>2, <1>5, <1>6


(***************************************************************************)
(* The queue: what taking its head and adding a message do.                *)
(***************************************************************************)
LEMMA MessageFields ==
  ASSUME NEW q \in Seq(Messages), NEW i \in 1..Len(q)
  PROVE  q[i].what \in Kinds /\ q[i].pos \in Nat /\ q[i].real \in Nat
<1>1. q[i] \in Messages
  BY ElementOfSeq
<1> QED
  BY <1>1 DEF Messages

LEMMA QueueTail ==
  ASSUME NEW q \in Seq(Messages), q # <<>>
  PROVE  /\ Head(q) = q[1] /\ 1 \in 1..Len(q)
         /\ Tail(q) \in Seq(Messages) /\ Len(q) \in Nat
         /\ Len(Tail(q)) = Len(q) - 1
         /\ \A i \in 1..(Len(q) - 1) : Tail(q)[i] = q[i + 1]
<1>1. Len(q) \in Nat \ {0}
  BY EmptySeq
<1>2. /\ Tail(q) \in Seq(Messages) /\ Len(Tail(q)) = Len(q) - 1
      /\ \A i \in 1..Len(Tail(q)) : Tail(q)[i] = q[i + 1]
  BY HeadTailProperties
<1> QED
  BY <1>1, <1>2

LEMMA QueueAppend ==
  ASSUME NEW q \in Seq(Messages), NEW m \in Messages
  PROVE  /\ Append(q, m) \in Seq(Messages) /\ Len(q) \in Nat
         /\ Len(Append(q, m)) = Len(q) + 1
         /\ \A i \in 1..Len(q) : Append(q, m)[i] = q[i]
         /\ Append(q, m)[Len(q) + 1] = m
  OBVIOUS
LEMMA TailHas ==
  ASSUME NEW q \in Seq(Messages), q # <<>>
  PROVE  \A w : Has(q, w) <=> q[1].what = w \/ Has(Tail(q), w)
<1> DEFINE t == Tail(q)
<1>1. /\ 1 \in 1..Len(q) /\ Len(q) \in Nat /\ Len(t) = Len(q) - 1
      /\ \A i \in 1..(Len(q) - 1) : t[i] = q[i + 1]
  BY QueueTail
<1> HIDE DEF t
<1>2. SUFFICES ASSUME NEW w
               PROVE  Has(q, w) <=> q[1].what = w \/ Has(t, w)
  BY DEF t
<1>3. ASSUME NEW i \in 1..Len(q), q[i].what = w, i # 1 PROVE Has(t, w)
  <2>1. i - 1 \in 1..Len(t) /\ i - 1 \in 1..(Len(q) - 1) /\ (i - 1) + 1 = i
    BY <1>1, <1>3
  <2> QED
    BY <1>1, <1>3, <2>1 DEF Has
<1>4. ASSUME NEW i \in 1..Len(t), t[i].what = w PROVE Has(q, w)
  <2>1. i + 1 \in 1..Len(q) /\ i \in 1..(Len(q) - 1)
    BY <1>1
  <2> QED
    BY <1>1, <1>4, <2>1 DEF Has
<1> QED
  BY <1>1, <1>3, <1>4 DEF Has

LEMMA AppendHas ==
  ASSUME NEW q \in Seq(Messages), NEW m \in Messages
  PROVE  \A w : Has(Append(q, m), w) <=> m.what = w \/ Has(q, w)
<1> DEFINE t == Append(q, m)
<1>1. /\ Len(q) \in Nat /\ Len(t) = Len(q) + 1
      /\ \A i \in 1..Len(q) : t[i] = q[i]
      /\ t[Len(q) + 1] = m
  BY QueueAppend
<1> HIDE DEF t
<1>2. /\ \A i \in 1..Len(q) : i \in 1..Len(t)
      /\ Len(q) + 1 \in 1..Len(t)
      /\ \A i \in 1..Len(t) : i \in 1..Len(q) \/ i = Len(q) + 1
  BY <1>1
<1> QED
  BY <1>1, <1>2 DEF Has, t

LEMMA TailNewest ==
  ASSUME NEW q \in Seq(Messages), q # <<>>, NEW i \in 1..Len(Tail(q))
  PROVE  /\ i + 1 \in 1..Len(q) /\ Tail(q)[i] = q[i + 1]
         /\ Newest(Tail(q), i) => Newest(q, i + 1)
<1> DEFINE t == Tail(q)
<1>1. /\ Len(q) \in Nat /\ Len(t) = Len(q) - 1
      /\ \A j \in 1..(Len(q) - 1) : t[j] = q[j + 1]
  BY QueueTail
<1>0. i \in 1..Len(t)
  OBVIOUS
<1> HIDE DEF t
<1>2. i \in Nat /\ i + 1 \in 1..Len(q) /\ t[i] = q[i + 1]
  BY <1>0, <1>1
<1>3. ASSUME Newest(t, i), NEW j \in 1..Len(q), i + 1 < j
      PROVE  q[j].what # "amp"
  <2>1. j - 1 \in 1..Len(t) /\ i < j - 1 /\ (j - 1) + 1 = j
        /\ j - 1 \in 1..(Len(q) - 1)
    BY <1>1, <1>2, <1>3
  <2>2. t[j - 1].what # "amp"
    BY <1>3, <2>1 DEF Newest
  <2>3. t[j - 1] = q[j]
    BY <1>1, <2>1
  <2> QED
    BY <2>2, <2>3
<1>4. Newest(t, i) => Newest(q, i + 1)
  BY <1>2, <1>3 DEF Newest
<1> QED
  BY <1>2, <1>4 DEF t

LEMMA AppendNewest ==
  ASSUME NEW q \in Seq(Messages), NEW m \in Messages,
         NEW i \in 1..Len(Append(q, m)), Newest(Append(q, m), i)
  PROVE  \/ i = Len(q) + 1 /\ m.what = "amp"
         \/ i \in 1..Len(q) /\ Newest(q, i) /\ m.what # "amp"
<1> DEFINE t == Append(q, m)
<1>1. /\ Len(q) \in Nat /\ Len(t) = Len(q) + 1
      /\ \A j \in 1..Len(q) : t[j] = q[j]
      /\ t[Len(q) + 1] = m
  BY QueueAppend
<1>0. i \in 1..Len(t) /\ Newest(t, i)
  OBVIOUS
<1> HIDE DEF t
<1>2. CASE i = Len(q) + 1
  BY <1>0, <1>1, <1>2 DEF Newest
<1>3. CASE i # Len(q) + 1
  <2>1. i \in 1..Len(q) /\ Len(q) + 1 \in 1..Len(t) /\ i < Len(q) + 1
    BY <1>0, <1>1, <1>3
  <2>2. m.what # "amp"
    BY <1>0, <1>1, <2>1 DEF Newest
  <2>3. \A j \in 1..Len(q) : j \in 1..Len(t)
    BY <1>1
  <2>4. Newest(q, i)
    BY <1>0, <1>1, <2>1, <2>3 DEF Newest
  <2> QED
    BY <2>1, <2>2, <2>4
<1> QED
  BY <1>2, <1>3

\* Whatever the head is.
LEMMA TailAny ==
  ASSUME NEW q \in Seq(Messages), q # <<>>
  PROVE  /\ EndsLast(q) => EndsLast(Tail(q))
         /\ AmpsPositive(q) => AmpsPositive(Tail(q))
         /\ AmpsFollowed(q) => AmpsFollowed(Tail(q))
<1> DEFINE t == Tail(q)
<1>1. /\ Len(q) \in Nat /\ Len(t) = Len(q) - 1
      /\ \A j \in 1..(Len(q) - 1) : t[j] = q[j + 1]
  BY QueueTail
<1> HIDE DEF t
<1>2. \A i \in 1..Len(t) : i + 1 \in 1..Len(q) /\ t[i] = q[i + 1]
  BY <1>1
<1>3. \A i, j \in 1..Len(t) : i < j => i + 1 < j + 1
  BY <1>1
<1>4. EndsLast(q) => EndsLast(t)
  BY <1>2, <1>3 DEF EndsLast
<1>6. AmpsPositive(q) => AmpsPositive(t)
  BY <1>2 DEF AmpsPositive
<1>7. AmpsFollowed(q) => AmpsFollowed(t)
  <2>1. ASSUME AmpsFollowed(q), NEW i \in 1..Len(t), t[i].what = "amp"
        PROVE  \E j \in 1..Len(t) : i < j /\ t[j].what = "end"
    <3>1. PICK j \in 1..Len(q) : i + 1 < j /\ q[j].what = "end"
      BY <1>2, <2>1 DEF AmpsFollowed
    <3>2. /\ j - 1 \in 1..Len(t) /\ i < j - 1 /\ (j - 1) + 1 = j
          /\ j - 1 \in 1..(Len(q) - 1)
      BY <1>1, <3>1
    <3>3. t[j - 1].what = "end"
      BY <1>1, <3>1, <3>2
    <3> QED
      BY <3>2, <3>3
  <2> QED
    BY <2>1 DEF AmpsFollowed
<1> QED
  BY <1>4, <1>6, <1>7 DEF t

\* A head that is not about the recorder's amplitudes or its end.
LEMMA TailKeeps ==
  ASSUME NEW q \in Seq(Messages), q # <<>>,
         q[1].what \notin {"amp", "end"}
  PROVE  /\ Has(Tail(q), "amp") <=> Has(q, "amp")
         /\ Has(Tail(q), "end") <=> Has(q, "end")
         /\ \A h, l, v : Tells(q, h, l, v) => Tells(Tail(q), h, l, v)
<1>1. /\ Has(Tail(q), "amp") <=> Has(q, "amp")
      /\ Has(Tail(q), "end") <=> Has(q, "end")
  BY TailHas
<1>3. ASSUME NEW h, NEW l, NEW v, Tells(q, h, l, v)
      PROVE  Tells(Tail(q), h, l, v)
  <2>1. ASSUME NEW i \in 1..Len(Tail(q)), Newest(Tail(q), i)
        PROVE  Tail(q)[i].pos = v
    BY <1>3, <2>1, TailNewest DEF Tells
  <2> QED
    BY <1>1, <1>3, <2>1 DEF Tells
<1> QED
  BY <1>1, <1>3

LEMMA TailAmp ==
  ASSUME NEW q \in Seq(Messages), q # <<>>, q[1].what = "amp"
  PROVE  /\ Has(q, "amp")
         /\ Has(Tail(q), "end") <=> Has(q, "end")
         /\ \A h, l, v : Tells(q, h, l, v)
                          => Tells(Tail(q), TRUE, q[1].pos, v)
<1>1. Has(q, "amp") /\ (Has(Tail(q), "end") <=> Has(q, "end"))
  BY TailHas
<1>2. ASSUME ~Has(Tail(q), "amp") PROVE Newest(q, 1) /\ 1 \in 1..Len(q)
  <2>1. /\ Len(q) \in Nat /\ Len(Tail(q)) = Len(q) - 1 /\ 1 \in 1..Len(q)
        /\ \A i \in 1..(Len(q) - 1) : Tail(q)[i] = q[i + 1]
    BY QueueTail
  <2>2. ASSUME NEW j \in 1..Len(q), 1 < j PROVE q[j].what # "amp"
    <3>1. j - 1 \in 1..(Len(q) - 1) /\ (j - 1) + 1 = j
      BY <2>1, <2>2
    <3>2. j - 1 \in 1..Len(Tail(q)) /\ Tail(q)[j - 1] = q[j]
      BY <2>1, <3>1
    <3> QED
      BY <1>2, <3>2 DEF Has
  <2> QED
    BY <2>1, <2>2 DEF Newest
<1>4. ASSUME NEW h, NEW l, NEW v, Tells(q, h, l, v)
      PROVE  Tells(Tail(q), TRUE, q[1].pos, v)
  <2>1. ASSUME NEW i \in 1..Len(Tail(q)), Newest(Tail(q), i)
        PROVE  Tail(q)[i].pos = v
    BY <1>4, <2>1, TailNewest DEF Tells
  <2> QED
    BY <1>2, <1>4, <2>1 DEF Tells
<1> QED
  BY <1>1, <1>4

LEMMA TailEnd ==
  ASSUME NEW q \in Seq(Messages), q # <<>>, q[1].what = "end", EndsLast(q)
  PROVE  /\ Has(q, "end") /\ ~Has(q, "amp")
         /\ ~Has(Tail(q), "end") /\ ~Has(Tail(q), "amp")
<1>1. Has(q, "end")
  BY TailHas
<1>2. /\ Len(q) \in Nat /\ Len(Tail(q)) = Len(q) - 1 /\ 1 \in 1..Len(q)
      /\ \A i \in 1..(Len(q) - 1) : Tail(q)[i] = q[i + 1]
  BY QueueTail
<1>3. ASSUME NEW i \in 1..Len(Tail(q))
      PROVE  Tail(q)[i].what \notin {"amp", "end"}
  <2>1. i + 1 \in 1..Len(q) /\ 1 < i + 1 /\ Tail(q)[i] = q[i + 1]
    BY <1>2
  <2> QED
    BY <1>2, <2>1 DEF EndsLast
<1>4. ~Has(Tail(q), "end") /\ ~Has(Tail(q), "amp")
  BY <1>3 DEF Has
<1> QED
  BY <1>1, <1>4, TailHas
\* Adding a message that is not about the amplitudes of the recorder.
LEMMA AppendKeeps ==
  ASSUME NEW q \in Seq(Messages), NEW m \in Messages, m.what # "amp"
  PROVE  /\ Has(Append(q, m), "amp") <=> Has(q, "amp")
         /\ \A h, l, v : Tells(q, h, l, v) => Tells(Append(q, m), h, l, v)
         /\ AmpsPositive(q) => AmpsPositive(Append(q, m))
         /\ AmpsFollowed(q) \/ m.what = "end" => AmpsFollowed(Append(q, m))
<1> DEFINE t == Append(q, m)
<1>1. Has(t, "amp") <=> Has(q, "amp")
  BY AppendHas
<1>2. /\ Len(q) \in Nat /\ Len(t) = Len(q) + 1
      /\ \A i \in 1..Len(q) : t[i] = q[i]
      /\ t[Len(q) + 1] = m
  BY QueueAppend
<1>3. ASSUME NEW i \in 1..Len(t), Newest(t, i)
      PROVE  i \in 1..Len(q) /\ Newest(q, i) /\ t[i] = q[i]
  BY <1>2, <1>3, AppendNewest
<1> HIDE DEF t
<1>5. \A h, l, v : Tells(q, h, l, v) => Tells(t, h, l, v)
  BY <1>1, <1>3 DEF Tells
<1>6. \A i \in 1..Len(t) : i \in 1..Len(q) \/ i = Len(q) + 1
  BY <1>2
<1>7. AmpsPositive(q) => AmpsPositive(t)
  BY <1>2, <1>6 DEF AmpsPositive
<1>8. \A i \in 1..Len(q) : i \in 1..Len(t) /\ i < Len(q) + 1
  BY <1>2
<1>9. ASSUME AmpsFollowed(q) PROVE AmpsFollowed(t)
  <2>1. ASSUME NEW i \in 1..Len(t), t[i].what = "amp"
        PROVE  \E j \in 1..Len(t) : i < j /\ t[j].what = "end"
    <3>1. i \in 1..Len(q) /\ q[i].what = "amp"
      BY <1>2, <1>6, <2>1
    <3>2. PICK j \in 1..Len(q) : i < j /\ q[j].what = "end"
      BY <1>9, <3>1 DEF AmpsFollowed
    <3> QED
      BY <1>2, <1>8, <3>2
  <2> QED
    BY <2>1 DEF AmpsFollowed
<1>10. m.what = "end" => AmpsFollowed(t)
  BY <1>2, <1>6, <1>8 DEF AmpsFollowed
<1> QED
  BY <1>1, <1>5, <1>7, <1>9, <1>10 DEF t

LEMMA AppendEnds ==
  ASSUME NEW q \in Seq(Messages), NEW m \in Messages, EndsLast(q),
         m.what \in {"amp", "end"} => ~Has(q, "end")
  PROVE  EndsLast(Append(q, m))
<1> DEFINE t == Append(q, m)
<1>1. /\ Len(q) \in Nat /\ Len(t) = Len(q) + 1
      /\ \A i \in 1..Len(q) : t[i] = q[i]
      /\ t[Len(q) + 1] = m
  BY QueueAppend
<1> HIDE DEF t
<1>2. ASSUME NEW i \in 1..Len(t), NEW j \in 1..Len(t),
             i < j, t[i].what = "end"
      PROVE  t[j].what \notin {"amp", "end"}
  <2>1. i \in 1..Len(q) /\ (j \in 1..Len(q) \/ j = Len(q) + 1)
    BY <1>1, <1>2
  <2>2. Has(q, "end")
    BY <1>1, <1>2, <2>1 DEF Has
  <2>3. CASE j \in 1..Len(q)
    BY <1>1, <1>2, <2>1, <2>3 DEF EndsLast
  <2>4. CASE j = Len(q) + 1
    BY <1>1, <2>2, <2>4
  <2> QED
    BY <2>1, <2>3, <2>4
<1> QED
  BY <1>2 DEF EndsLast, t

LEMMA AppendAmp ==
  ASSUME NEW q \in Seq(Messages), NEW m \in Messages, m.what = "amp"
  PROVE  /\ Has(Append(q, m), "amp")
         /\ Has(Append(q, m), "end") <=> Has(q, "end")
         /\ \A h, l : Tells(Append(q, m), h, l, m.pos)
         /\ AmpsPositive(q) /\ m.pos >= 1 => AmpsPositive(Append(q, m))
<1> DEFINE t == Append(q, m)
<1>1. Has(t, "amp") /\ (Has(t, "end") <=> Has(q, "end"))
  BY AppendHas
<1>2. /\ Len(q) \in Nat /\ Len(t) = Len(q) + 1
      /\ \A i \in 1..Len(q) : t[i] = q[i]
      /\ t[Len(q) + 1] = m
  BY QueueAppend
<1>3. ASSUME NEW i \in 1..Len(t), Newest(t, i) PROVE t[i] = m
  BY <1>2, <1>3, AppendNewest
<1> HIDE DEF t
<1>5. \A h, l : Tells(t, h, l, m.pos)
  BY <1>1, <1>3 DEF Tells
<1>6. \A i \in 1..Len(t) : i \in 1..Len(q) \/ i = Len(q) + 1
  BY <1>2
<1>7. AmpsPositive(q) /\ m.pos >= 1 => AmpsPositive(t)
  BY <1>2, <1>6 DEF AmpsPositive
<1> QED
  BY <1>1, <1>5, <1>7 DEF t

\* Amplitudes with an END behind them.
LEMMA FollowedHas ==
  ASSUME NEW q, AmpsFollowed(q), Has(q, "amp")
  PROVE  Has(q, "end")
  BY DEF AmpsFollowed, Has

(***************************************************************************)
(* The queue: what its messages say of the files.                          *)
(***************************************************************************)
\* What is said of the first messages depends on them only.
LEMMA SamePrefix ==
  ASSUME NEW q, NEW t, NEW n \in Nat, \A i \in 1..n : t[i] = q[i]
  PROVE  /\ \A off, v, p : BaseOk(q, n, off, v, p) => BaseOk(t, n, off, v, p)
         /\ \A off, last, v : EndOk(q, n, off, last, v)
                               => EndOk(t, n, off, last, v)
<1>1. ASSUME NEW k \in 0..n, NEW off, NEW v, NEW p, BaseOk(q, k, off, v, p)
      PROVE  BaseOk(t, k, off, v, p)
  <2>1. \A i \in 1..k : t[i] = q[i]
    BY <1>1
  <2>2. \A i \in 1..k : LastEnd(t, k, i) => LastEnd(q, k, i)
    BY <2>1 DEF LastEnd
  <2> QED
    BY <1>1, <2>1, <2>2 DEF BaseOk
<1>2. ASSUME NEW off, NEW last, NEW v, EndOk(q, n, off, last, v)
      PROVE  EndOk(t, n, off, last, v)
  <2>1. \A i \in 1..n : LastSaid(t, n, i) => LastSaid(q, n, i)
    BY DEF LastSaid
  <2>2. ASSUME NEW i \in 1..n, LastSaid(t, n, i)
        PROVE  /\ t[i].what = "end" => v <= t[i].real
               /\ t[i].what = "amp" => BaseOk(t, i - 1, off, v, t[i].pos)
    <3>1. /\ q[i].what = "end" => v <= q[i].real
          /\ q[i].what = "amp" => BaseOk(q, i - 1, off, v, q[i].pos)
      BY <1>2, <2>1, <2>2 DEF EndOk
    <3>2. i - 1 \in 0..n
      OBVIOUS
    <3> QED
      BY <1>1, <3>1, <3>2
  <2>3. (\A i \in 1..n : t[i].what \notin {"amp", "end"}) => v <= off + last
    BY <1>2 DEF EndOk
  <2> QED
    BY <2>2, <2>3 DEF EndOk
<1> QED
  BY <1>1, <1>2

LEMMA BaseWeaken ==
  ASSUME NEW q \in Seq(Messages), NEW n \in 0..Len(q), NEW off \in Nat,
         NEW v \in Nat, NEW p \in Nat, NEW w \in Nat, NEW r \in Nat,
         w <= v, p <= r, BaseOk(q, n, off, v, p)
  PROVE  BaseOk(q, n, off, w, r)
<1>0. Len(q) \in Nat
  OBVIOUS
<1>1. ASSUME NEW i \in 1..n, LastEnd(q, n, i) PROVE w <= q[i].real + r
  <2>1. i \in 1..Len(q)
    BY <1>0
  <2>2. v <= q[i].real + p
    BY <1>1 DEF BaseOk
  <2>3. q[i].real \in Nat
    BY <2>1, MessageFields
  <2> QED
    BY <2>2, <2>3
<1>2. (\A i \in 1..n : q[i].what # "end") => w <= off + r
  BY DEF BaseOk
<1> QED
  BY <1>1, <1>2 DEF BaseOk

LEMMA EndWeaken ==
  ASSUME NEW q \in Seq(Messages), NEW n \in 0..Len(q), NEW off \in Nat,
         NEW last \in Nat, NEW v \in Nat, NEW w \in Nat, w <= v,
         EndOk(q, n, off, last, v)
  PROVE  EndOk(q, n, off, last, w)
<1>0. Len(q) \in Nat
  OBVIOUS
<1>1. ASSUME NEW i \in 1..n, LastSaid(q, n, i)
      PROVE  /\ q[i].what = "end" => w <= q[i].real
             /\ q[i].what = "amp" => BaseOk(q, i - 1, off, w, q[i].pos)
  <2>1. i \in 1..Len(q) /\ i - 1 \in 0..Len(q)
    BY <1>0
  <2>2. q[i].real \in Nat /\ q[i].pos \in Nat
    BY <2>1, MessageFields
  <2>3. /\ q[i].what = "end" => v <= q[i].real
        /\ q[i].what = "amp" => BaseOk(q, i - 1, off, v, q[i].pos)
    BY <1>1 DEF EndOk
  <2>4. ASSUME BaseOk(q, i - 1, off, v, q[i].pos)
        PROVE  BaseOk(q, i - 1, off, w, q[i].pos)
    <3>1. q[i].pos <= q[i].pos
      BY <2>2
    <3> QED
      BY <2>1, <2>2, <2>4, <3>1, BaseWeaken
  <2>5. v <= q[i].real => w <= q[i].real
    BY <2>2
  <2> QED
    BY <2>3, <2>4, <2>5
<1>2. (\A i \in 1..n : q[i].what \notin {"amp", "end"}) => w <= off + last
  BY DEF EndOk
<1> QED
  BY <1>1, <1>2 DEF EndOk

LEMMA ChainWeaken ==
  ASSUME NEW q \in Seq(Messages), NEW off \in Nat, NEW last \in Nat,
         NEW v \in Nat, NEW p \in Nat, NEW w \in Nat, NEW r \in Nat,
         w <= v, p <= r, ChainOk(q, off, last, v, p)
  PROVE  ChainOk(q, off, last, w, r)
<1>1. Len(q) \in 0..Len(q)
  OBVIOUS
<1>2. BaseOk(q, Len(q), off, w, r)
  BY <1>1, BaseWeaken DEF ChainOk
<1>3. EndOk(q, Len(q), off, last, w)
  BY <1>1, EndWeaken DEF ChainOk
<1> QED
  BY <1>2, <1>3 DEF ChainOk

\* Adding a message leaves what is said of those before it.
LEMMA ChainAppend ==
  ASSUME NEW q \in Seq(Messages), NEW m \in Messages, NEW off \in Nat,
         NEW last \in Nat, AmpsOk(q, off), EndsOk(q, off, last), UpsOk(q),
         m.what = "amp" => BaseOk(q, Len(q), off, m.real, m.pos),
         m.what = "end" => EndOk(q, Len(q), off, last, m.real),
         m.what = "ampUp" => m.real <= m.pos
  PROVE  LET t == Append(q, m)
         IN  AmpsOk(t, off) /\ EndsOk(t, off, last) /\ UpsOk(t)
<1> DEFINE t == Append(q, m)
<1>1. /\ Len(q) \in Nat /\ Len(t) = Len(q) + 1
      /\ \A i \in 1..Len(q) : t[i] = q[i]
      /\ t[Len(q) + 1] = m
  BY QueueAppend
<1> HIDE DEF t
<1>2. \A i \in 1..Len(t) : i \in 1..Len(q) \/ i = Len(q) + 1
  BY <1>1
<1>3. ASSUME NEW k \in 0..Len(q)
      PROVE  /\ \A v, p : BaseOk(q, k, off, v, p) => BaseOk(t, k, off, v, p)
             /\ \A v : EndOk(q, k, off, last, v) => EndOk(t, k, off, last, v)
  <2>1. k \in Nat /\ \A i \in 1..k : t[i] = q[i]
    BY <1>1
  <2> QED
    BY <2>1, SamePrefix
<1>4. /\ \A i \in 1..Len(q) : i - 1 \in 0..Len(q)
      /\ (Len(q) + 1) - 1 = Len(q) /\ Len(q) \in 0..Len(q)
  BY <1>1
<1>5. AmpsOk(t, off)
  <2>1. ASSUME NEW i \in 1..Len(t), t[i].what = "amp"
        PROVE  BaseOk(t, i - 1, off, t[i].real, t[i].pos)
    <3>1. CASE i \in 1..Len(q)
      <4>1. BaseOk(q, i - 1, off, q[i].real, q[i].pos)
        BY <1>1, <2>1, <3>1 DEF AmpsOk
      <4> QED
        BY <1>1, <1>3, <1>4, <3>1, <4>1
    <3>2. CASE i = Len(q) + 1
      <4>1. BaseOk(q, Len(q), off, m.real, m.pos)
        BY <1>1, <2>1, <3>2
      <4>2. BaseOk(t, Len(q), off, m.real, m.pos)
        BY <1>3, <1>4, <4>1
      <4> QED
        BY <1>1, <1>4, <3>2, <4>2
    <3> QED
      BY <1>2, <3>1, <3>2
  <2> QED
    BY <2>1 DEF AmpsOk
<1>6. EndsOk(t, off, last)
  <2>1. ASSUME NEW i \in 1..Len(t), t[i].what = "end"
        PROVE  EndOk(t, i - 1, off, last, t[i].real)
    <3>1. CASE i \in 1..Len(q)
      <4>1. EndOk(q, i - 1, off, last, q[i].real)
        BY <1>1, <2>1, <3>1 DEF EndsOk
      <4> QED
        BY <1>1, <1>3, <1>4, <3>1, <4>1
    <3>2. CASE i = Len(q) + 1
      <4>1. EndOk(q, Len(q), off, last, m.real)
        BY <1>1, <2>1, <3>2
      <4>2. EndOk(t, Len(q), off, last, m.real)
        BY <1>3, <1>4, <4>1
      <4> QED
        BY <1>1, <1>4, <3>2, <4>2
    <3> QED
      BY <1>2, <3>1, <3>2
  <2> QED
    BY <2>1 DEF EndsOk
<1>7. UpsOk(t)
  BY <1>1, <1>2 DEF UpsOk
<1> QED
  BY <1>5, <1>6, <1>7 DEF t

\* The last END and the last word after a message was added.
LEMMA AppendLast ==
  ASSUME NEW q \in Seq(Messages), NEW m \in Messages, NEW off, NEW last, NEW v,
         NEW p
  PROVE  /\ m.what # "end" /\ BaseOk(q, Len(q), off, v, p)
              => BaseOk(Append(q, m), Len(q) + 1, off, v, p)
         /\ m.what = "end" /\ v <= m.real + p
              => BaseOk(Append(q, m), Len(q) + 1, off, v, p)
         /\ m.what \notin {"amp", "end"} /\ EndOk(q, Len(q), off, last, v)
              => EndOk(Append(q, m), Len(q) + 1, off, last, v)
         /\ m.what = "end" /\ v <= m.real
              => EndOk(Append(q, m), Len(q) + 1, off, last, v)
         /\ m.what = "amp" /\ BaseOk(q, Len(q), off, v, m.pos)
              => EndOk(Append(q, m), Len(q) + 1, off, last, v)
<1> DEFINE t == Append(q, m)
           n == Len(q)
<1>1. /\ n \in Nat
      /\ \A i \in 1..n : t[i] = q[i]
      /\ t[n + 1] = m
  BY QueueAppend
<1> HIDE DEF t, n
<1>2. /\ \A i \in 1..(n + 1) : i \in 1..n \/ i = n + 1
      /\ \A i \in 1..n : i \in 1..(n + 1) /\ i < n + 1
      /\ n + 1 \in 1..(n + 1) /\ (n + 1) - 1 = n
  BY <1>1
<1>3. ASSUME m.what # "end", BaseOk(q, n, off, v, p)
      PROVE  BaseOk(t, n + 1, off, v, p)
  <2>1. ASSUME NEW i \in 1..(n + 1), LastEnd(t, n + 1, i)
        PROVE  v <= t[i].real + p
    <3>1. i \in 1..n
      BY <1>1, <1>2, <1>3, <2>1 DEF LastEnd
    <3>2. LastEnd(q, n, i)
      BY <1>1, <1>2, <2>1, <3>1 DEF LastEnd
    <3> QED
      BY <1>1, <1>3, <3>1, <3>2 DEF BaseOk
  <2>2. (\A i \in 1..(n + 1) : t[i].what # "end") => v <= off + p
    BY <1>1, <1>2, <1>3 DEF BaseOk
  <2> QED
    BY <2>1, <2>2 DEF BaseOk
<1>4. ASSUME m.what = "end", v <= m.real + p
      PROVE  BaseOk(t, n + 1, off, v, p)
  <2>1. ASSUME NEW i \in 1..(n + 1), LastEnd(t, n + 1, i)
        PROVE  i = n + 1
    BY <1>1, <1>2, <1>4, <2>1 DEF LastEnd
  <2>2. t[n + 1].what = "end"
    BY <1>1, <1>4
  <2> QED
    BY <1>1, <1>2, <1>4, <2>1, <2>2 DEF BaseOk
<1>5. ASSUME m.what \notin {"amp", "end"}, EndOk(q, n, off, last, v)
      PROVE  EndOk(t, n + 1, off, last, v)
  <2>1. ASSUME NEW i \in 1..(n + 1), LastSaid(t, n + 1, i)
        PROVE  /\ t[i].what = "end" => v <= t[i].real
               /\ t[i].what = "amp" => BaseOk(t, i - 1, off, v, t[i].pos)
    <3>1. i \in 1..n
      BY <1>1, <1>2, <1>5, <2>1 DEF LastSaid
    <3>2. LastSaid(q, n, i)
      BY <1>1, <1>2, <2>1, <3>1 DEF LastSaid
    <3>3. /\ q[i].what = "end" => v <= q[i].real
          /\ q[i].what = "amp" => BaseOk(q, i - 1, off, v, q[i].pos)
      BY <1>5, <3>1, <3>2 DEF EndOk
    <3>4. i - 1 \in Nat /\ \A j \in 1..(i - 1) : t[j] = q[j]
      BY <1>1, <3>1
    <3>5. BaseOk(q, i - 1, off, v, q[i].pos) => BaseOk(t, i - 1, off, v, q[i].pos)
      BY <3>4, SamePrefix
    <3> QED
      BY <1>1, <3>1, <3>3, <3>5
  <2>2. (\A i \in 1..(n + 1) : t[i].what \notin {"amp", "end"})
          => v <= off + last
    BY <1>1, <1>2, <1>5 DEF EndOk
  <2> QED
    BY <2>1, <2>2 DEF EndOk
<1>6. ASSUME m.what \in {"amp", "end"}, NEW i \in 1..(n + 1),
             LastSaid(t, n + 1, i)
      PROVE  i = n + 1 /\ t[i] = m /\ i - 1 = n
  BY <1>1, <1>2, <1>6 DEF LastSaid
<1>7. m.what = "end" /\ v <= m.real => EndOk(t, n + 1, off, last, v)
  BY <1>1, <1>2, <1>6 DEF EndOk
<1>8. ASSUME m.what = "amp", BaseOk(q, n, off, v, m.pos)
      PROVE  EndOk(t, n + 1, off, last, v)
  <2>1. BaseOk(t, n, off, v, m.pos)
    BY <1>1, <1>8, SamePrefix
  <2>2. t[n + 1].what = "amp"
    BY <1>1, <1>8
  <2> QED
    BY <1>1, <1>2, <1>6, <1>8, <2>1, <2>2 DEF EndOk
<1> QED
  BY <1>3, <1>4, <1>5, <1>7, <1>8 DEF t, n

LEMMA ChainAppendOther ==
  ASSUME NEW q \in Seq(Messages), NEW m \in Messages, NEW off \in Nat,
         NEW last \in Nat, NEW v, NEW p, ChainOk(q, off, last, v, p),
         m.what \notin {"amp", "end"}, m.what = "ampUp" => m.real <= m.pos
  PROVE  ChainOk(Append(q, m), off, last, v, p)
<1>1. Len(Append(q, m)) = Len(q) + 1
  BY QueueAppend
<1>2. /\ AmpsOk(Append(q, m), off) /\ EndsOk(Append(q, m), off, last)
      /\ UpsOk(Append(q, m))
  BY ChainAppend DEF ChainOk
<1>3. EndOk(Append(q, m), Len(q) + 1, off, last, v)
  BY AppendLast DEF ChainOk
<1>4. BaseOk(Append(q, m), Len(q) + 1, off, v, p)
  BY AppendLast DEF ChainOk
<1> QED
  BY <1>1, <1>2, <1>3, <1>4 DEF ChainOk

\* A chunk more in the files, and amplitudes that tell it.
LEMMA ChainAppendAmp ==
  ASSUME NEW q \in Seq(Messages), NEW m \in Messages, NEW off \in Nat,
         NEW last \in Nat, NEW v \in Nat, NEW p \in Nat,
         ChainOk(q, off, last, v, p),
         m.what = "amp", m.real = v + 1, m.pos = p + 1
  PROVE  ChainOk(Append(q, m), off, last, v + 1, p + 1)
<1>1. Len(Append(q, m)) = Len(q) + 1 /\ Len(q) \in Nat
  BY QueueAppend
<1>2. BaseOk(q, Len(q), off, v + 1, p + 1)
  <2>1. ASSUME NEW i \in 1..Len(q), LastEnd(q, Len(q), i)
        PROVE  v + 1 <= q[i].real + (p + 1)
    <3>1. v <= q[i].real + p /\ q[i].real \in Nat
      BY <2>1, MessageFields DEF ChainOk, BaseOk
    <3> QED
      BY <3>1
  <2>2. (\A i \in 1..Len(q) : q[i].what # "end") => v + 1 <= off + (p + 1)
    BY DEF ChainOk, BaseOk
  <2> QED
    BY <2>1, <2>2 DEF BaseOk
<1>3. /\ AmpsOk(Append(q, m), off) /\ EndsOk(Append(q, m), off, last)
      /\ UpsOk(Append(q, m))
  <2>1. AmpsOk(q, off) /\ EndsOk(q, off, last) /\ UpsOk(q)
    BY DEF ChainOk
  <2>2. /\ m.what = "amp" => BaseOk(q, Len(q), off, m.real, m.pos)
        /\ m.what # "end" /\ m.what # "ampUp"
    BY <1>2
  <2> QED
    BY <2>1, <2>2, ChainAppend
<1>4. EndOk(Append(q, m), Len(q) + 1, off, last, v + 1)
  BY <1>2, AppendLast
<1>5. BaseOk(Append(q, m), Len(q) + 1, off, v + 1, p + 1)
  BY <1>2, AppendLast
<1> QED
  BY <1>1, <1>3, <1>4, <1>5 DEF ChainOk

LEMMA ChainAppendEnd ==
  ASSUME NEW q \in Seq(Messages), NEW m \in Messages, NEW off \in Nat,
         NEW last \in Nat, NEW v \in Nat, NEW p \in Nat, NEW r \in Nat,
         ChainOk(q, off, last, v, p), m.what = "end", m.real = v
  PROVE  ChainOk(Append(q, m), off, last, v, r)
<1>1. Len(Append(q, m)) = Len(q) + 1
  BY QueueAppend
<1>2. v <= m.real /\ v <= m.real + r
  OBVIOUS
<1>3. /\ AmpsOk(Append(q, m), off) /\ EndsOk(Append(q, m), off, last)
      /\ UpsOk(Append(q, m))
  <2>1. AmpsOk(q, off) /\ EndsOk(q, off, last) /\ UpsOk(q)
    BY DEF ChainOk
  <2>2. /\ m.what = "end" => EndOk(q, Len(q), off, last, m.real)
        /\ m.what # "amp" /\ m.what # "ampUp"
    BY DEF ChainOk
  <2> QED
    BY <2>1, <2>2, ChainAppend
<1>4. EndOk(Append(q, m), Len(q) + 1, off, last, v)
  BY <1>2, AppendLast
<1>5. BaseOk(Append(q, m), Len(q) + 1, off, v, r)
  BY <1>2, AppendLast
<1> QED
  BY <1>1, <1>3, <1>4, <1>5 DEF ChainOk

\* What an END that is handled adds to the statistics covers what it said.
Covers(m, off, new) ==
  /\ m.what = "end" => m.real <= new
  /\ m.what # "end" => off <= new

LEMMA TailBase ==
  ASSUME NEW q \in Seq(Messages), q # <<>>, NEW n \in 1..Len(q),
         NEW off \in Nat, NEW new \in Nat, NEW v \in Nat, NEW p \in Nat,
         BaseOk(q, n, off, v, p), Covers(q[1], off, new)
  PROVE  BaseOk(Tail(q), n - 1, new, v, p)
<1> DEFINE t == Tail(q)
<1>1. /\ Len(q) \in Nat /\ 1 \in 1..Len(q)
      /\ \A i \in 1..(Len(q) - 1) : t[i] = q[i + 1]
  BY QueueTail
<1> HIDE DEF t
<1>2. /\ n \in Nat /\ 1 \in 1..n
      /\ \A i \in 1..(n - 1) : i + 1 \in 1..n /\ t[i] = q[i + 1] /\ 1 < i + 1
      /\ \A j \in 1..n : j # 1 => j - 1 \in 1..(n - 1) /\ t[j - 1] = q[j]
  BY <1>1
<1>3. ASSUME NEW i \in 1..(n - 1), LastEnd(t, n - 1, i)
      PROVE  v <= t[i].real + p
  <2>1. LastEnd(q, n, i + 1)
    <3>1. ASSUME NEW j \in 1..n, i + 1 < j PROVE q[j].what # "end"
      <4>1. j # 1 /\ i < j - 1
        BY <1>2, <3>1
      <4>2. j - 1 \in 1..(n - 1) /\ t[j - 1] = q[j]
        BY <1>2, <4>1
      <4> QED
        BY <1>3, <4>1, <4>2 DEF LastEnd
    <3> QED
      BY <1>2, <1>3, <3>1 DEF LastEnd
  <2> QED
    BY <1>2, <2>1 DEF BaseOk
<1>4. ASSUME \A i \in 1..(n - 1) : t[i].what # "end"
      PROVE  v <= new + p
  <2>1. \A j \in 1..n : j # 1 => q[j].what # "end"
    BY <1>2, <1>4
  <2>2. CASE q[1].what = "end"
    <3>1. LastEnd(q, n, 1)
      BY <1>2, <2>1, <2>2 DEF LastEnd
    <3>2. v <= q[1].real + p
      BY <1>2, <3>1 DEF BaseOk
    <3>3. q[1].real <= new /\ q[1].real \in Nat
      BY <1>1, <2>2, MessageFields DEF Covers
    <3> QED
      BY <3>2, <3>3
  <2>3. CASE q[1].what # "end"
    <3>1. \A j \in 1..n : q[j].what # "end"
      BY <2>1, <2>3
    <3>2. v <= off + p
      BY <3>1 DEF BaseOk
    <3>3. off <= new
      BY <2>3 DEF Covers
    <3> QED
      BY <3>2, <3>3
  <2> QED
    BY <2>2, <2>3
<1> QED
  BY <1>3, <1>4 DEF BaseOk, t

\* What handling m adds to the statistics and the last amplitudes covers what
\* it said.
Takes(m, off, last, new, known) ==
  /\ Covers(m, off, new)
  /\ m.what = "amp" => off + m.pos <= new + known
  /\ m.what = "end" => m.real <= new + known
  /\ m.what \notin {"amp", "end"} => off + last <= new + known

LEMMA TailSaid ==
  ASSUME NEW q \in Seq(Messages), q # <<>>, NEW n \in 1..Len(q),
         NEW off \in Nat, NEW new \in Nat, NEW last \in Nat,
         NEW known \in Nat, NEW v \in Nat,
         EndOk(q, n, off, last, v), Takes(q[1], off, last, new, known)
  PROVE  EndOk(Tail(q), n - 1, new, known, v)
<1> DEFINE t == Tail(q)
<1>1. /\ Len(q) \in Nat /\ 1 \in 1..Len(q)
      /\ \A i \in 1..(Len(q) - 1) : t[i] = q[i + 1]
  BY QueueTail
<1>0. Covers(q[1], off, new)
  BY DEF Takes
<1>11. ASSUME NEW k \in 1..Len(q), NEW p \in Nat, BaseOk(q, k, off, v, p)
       PROVE  BaseOk(t, k - 1, new, v, p)
  BY <1>0, <1>11, TailBase
<1> HIDE DEF t
<1>2. /\ n \in Nat /\ 1 \in 1..n
      /\ \A i \in 1..(n - 1) : i + 1 \in 1..n /\ t[i] = q[i + 1] /\ 1 < i + 1
      /\ \A j \in 1..n : j # 1 => j - 1 \in 1..(n - 1) /\ t[j - 1] = q[j]
  BY <1>1
<1>3. ASSUME NEW i \in 1..(n - 1), LastSaid(t, n - 1, i)
      PROVE  /\ t[i].what = "end" => v <= t[i].real
             /\ t[i].what = "amp" => BaseOk(t, i - 1, new, v, t[i].pos)
  <2>1. LastSaid(q, n, i + 1)
    <3>1. ASSUME NEW j \in 1..n, i + 1 < j PROVE q[j].what \notin {"amp", "end"}
      <4>1. j # 1 /\ i < j - 1
        BY <1>2, <3>1
      <4>2. j - 1 \in 1..(n - 1) /\ t[j - 1] = q[j]
        BY <1>2, <4>1
      <4> QED
        BY <1>3, <4>1, <4>2 DEF LastSaid
    <3> QED
      BY <1>2, <1>3, <3>1 DEF LastSaid
  <2>2. /\ i + 1 \in 1..n /\ t[i] = q[i + 1] /\ (i + 1) - 1 = i
        /\ i \in 1..Len(q) /\ i + 1 \in 1..Len(q)
    BY <1>1, <1>2
  <2>3. /\ t[i].what = "end" => v <= t[i].real
        /\ t[i].what = "amp" => BaseOk(q, i, off, v, t[i].pos)
    BY <2>1, <2>2 DEF EndOk
  <2>4. t[i].pos \in Nat
    BY <2>2, MessageFields
  <2> QED
    BY <1>11, <2>2, <2>3, <2>4
<1>4. ASSUME \A i \in 1..(n - 1) : t[i].what \notin {"amp", "end"}
      PROVE  v <= new + known
  <2>1. \A j \in 1..n : j # 1 => q[j].what \notin {"amp", "end"}
    BY <1>2, <1>4
  <2>2. q[1].real \in Nat /\ q[1].pos \in Nat
    BY <1>1, MessageFields
  <2>3. CASE q[1].what \in {"amp", "end"}
    <3>1. LastSaid(q, n, 1)
      BY <1>2, <2>1, <2>3 DEF LastSaid
    <3>2. /\ q[1].what = "end" => v <= q[1].real
          /\ q[1].what = "amp" => BaseOk(q, 0, off, v, q[1].pos)
      BY <1>2, <3>1 DEF EndOk
    <3>3. BaseOk(q, 0, off, v, q[1].pos) => v <= off + q[1].pos
      BY DEF BaseOk
    <3> QED
      BY <2>2, <2>3, <3>2, <3>3 DEF Takes
  <2>4. CASE q[1].what \notin {"amp", "end"}
    <3>1. \A j \in 1..n : q[j].what \notin {"amp", "end"}
      BY <2>1, <2>4
    <3>2. v <= off + last
      BY <3>1 DEF EndOk
    <3> QED
      BY <2>4, <3>2 DEF Takes
  <2> QED
    BY <2>3, <2>4
<1> QED
  BY <1>3, <1>4 DEF EndOk, t

LEMMA ChainTail ==
  ASSUME NEW q \in Seq(Messages), q # <<>>,
         NEW off \in Nat, NEW new \in Nat, NEW last \in Nat,
         NEW known \in Nat, NEW v \in Nat, NEW p \in Nat,
         ChainOk(q, off, last, v, p), Takes(q[1], off, last, new, known)
  PROVE  ChainOk(Tail(q), new, known, v, p)
<1> DEFINE t == Tail(q)
<1>1. /\ Len(q) \in Nat /\ 1 \in 1..Len(q) /\ Len(t) = Len(q) - 1
      /\ \A i \in 1..(Len(q) - 1) : t[i] = q[i + 1]
  BY QueueTail
<1>0. Covers(q[1], off, new)
  BY DEF Takes
<1>2. ASSUME NEW k \in 1..Len(q), NEW w \in Nat, NEW r \in Nat
      PROVE  /\ BaseOk(q, k, off, w, r) => BaseOk(t, k - 1, new, w, r)
             /\ EndOk(q, k, off, last, w) => EndOk(t, k - 1, new, known, w)
  BY <1>0, TailBase, TailSaid
<1> HIDE DEF t
<1>3. ASSUME NEW i \in 1..Len(t)
      PROVE  /\ i + 1 \in 1..Len(q) /\ t[i] = q[i + 1] /\ (i + 1) - 1 = i
             /\ i \in 1..Len(q)
             /\ t[i].real \in Nat /\ t[i].pos \in Nat
  <2>1. /\ i + 1 \in 1..Len(q) /\ t[i] = q[i + 1] /\ (i + 1) - 1 = i
        /\ i \in 1..Len(q)
    BY <1>1
  <2> QED
    BY <2>1, MessageFields
<1>4. AmpsOk(t, new)
  <2>1. ASSUME NEW i \in 1..Len(t), t[i].what = "amp"
        PROVE  BaseOk(t, i - 1, new, t[i].real, t[i].pos)
    <3>1. BaseOk(q, i, off, t[i].real, t[i].pos)
      BY <1>3, <2>1 DEF ChainOk, AmpsOk
    <3> QED
      BY <1>2, <1>3, <3>1
  <2> QED
    BY <2>1 DEF AmpsOk
<1>5. EndsOk(t, new, known)
  <2>1. ASSUME NEW i \in 1..Len(t), t[i].what = "end"
        PROVE  EndOk(t, i - 1, new, known, t[i].real)
    <3>1. EndOk(q, i, off, last, t[i].real)
      BY <1>3, <2>1 DEF ChainOk, EndsOk
    <3> QED
      BY <1>2, <1>3, <3>1
  <2> QED
    BY <2>1 DEF EndsOk
<1>6. UpsOk(t)
  BY <1>3 DEF ChainOk, UpsOk
<1>7. Len(q) \in 1..Len(q)
  BY <1>1
<1>8. EndOk(t, Len(t), new, known, v) /\ BaseOk(t, Len(t), new, v, p)
  BY <1>1, <1>2, <1>7 DEF ChainOk
<1> QED
  BY <1>4, <1>5, <1>6, <1>8 DEF ChainOk, t

\* What the first message says.
LEMMA ChainHead ==
  ASSUME NEW q \in Seq(Messages), q # <<>>, NEW off \in Nat, NEW last \in Nat,
         NEW v, NEW p, ChainOk(q, off, last, v, p)
  PROVE  /\ q[1].what = "amp" => q[1].real <= off + q[1].pos
         /\ q[1].what = "end" => q[1].real <= off + last
         /\ q[1].what = "ampUp" => q[1].real <= q[1].pos
<1>1. 1 \in 1..Len(q)
  BY QueueTail
<1>2. ASSUME q[1].what = "amp" PROVE q[1].real <= off + q[1].pos
  <2>1. BaseOk(q, 0, off, q[1].real, q[1].pos)
    BY <1>1, <1>2 DEF ChainOk, AmpsOk
  <2> QED
    BY <2>1 DEF BaseOk
<1>3. ASSUME q[1].what = "end" PROVE q[1].real <= off + last
  <2>1. EndOk(q, 0, off, last, q[1].real)
    BY <1>1, <1>3 DEF ChainOk, EndsOk
  <2> QED
    BY <2>1 DEF EndOk
<1> QED
  BY <1>1, <1>2, <1>3 DEF ChainOk, UpsOk

(***************************************************************************)
(* Types.                                                                  *)
(***************************************************************************)
LEMMA TypesOK == Types => TypeOK
<1> SUFFICES ASSUME Types PROVE TypeOK
  OBVIOUS
<1>1. {checked, enabled, dialog, open, mRecorder, aliased, heard, hasty,
       behind} \subseteq BOOLEAN
  BY DEF Types, Flags
<1>2. Len(durations) \in Nat
  BY DEF Types, Bookkeeping
<1>3. thread.rec \in 0..Len(durations)
  <2>1. CASE mRecorder
    BY <1>2, <2>1 DEF Types, Running
  <2>2. CASE ~mRecorder
    BY <1>2, <2>2 DEF Types, Running, NoThread
  <2> QED
    BY <2>1, <2>2
<1> QED
  BY <1>1, <1>3
  DEF Types, Queued, Bookkeeping, Statistics, Running, Bounded, TypeOK

LEMMA InitTypes == Init => Types
<1> SUFFICES ASSUME Init PROVE Types
  OBVIOUS
<1>1. Flags
  BY DEF Init, Flags
<1>2. Queued
  BY DEF Init, Queued
<1>3. Bookkeeping
  BY DEF Init, Bookkeeping
<1>4. Statistics
  BY DEF Init, Statistics
<1>5. Running
  BY DEF Init, Running, Threads, NoThread
<1>6. Bounded
  BY RecorderAssumption DEF Init, Bounded
<1> QED
  BY <1>1, <1>2, <1>3, <1>4, <1>5, <1>6 DEF Types

LEMMA MsgType == \A w \in Kinds : Msg(w) \in Messages /\ Msg(w).what = w
  BY DEF Msg, Messages

LEMMA QueuedNext ==
  ASSUME Queued
  PROVE  /\ UNCHANGED messages => Queued'
         /\ messages # <<>> => Tail(messages) \in Seq(Messages)
         /\ \A m \in Messages : messages' = Append(messages, m) => Queued'
         /\ \A m \in Messages : messages # <<>>
              /\ messages' = Append(Tail(messages), m) => Queued'
<1>1. messages # <<>> => Tail(messages) \in Seq(Messages)
  BY QueueTail DEF Queued
<1> QED
  BY <1>1, QueueAppend DEF Queued

\* Asking the recorder to end.
LEMMA StopTypes ==
  ASSUME Types, NEW next \in {"join", "joinStart"}, mpc = "idle", Stop(next),
         UNCHANGED <<mRecorder, durations>>
  PROVE  Running'
<1> DEFINE t == [thread EXCEPT !.shouldRecord = FALSE, !.shouldRun = FALSE]
<1>1. CASE mRecorder
  <2>1. thread' = t /\ mpc' = next
    BY <1>1 DEF Stop
  <2>2. t \in Threads /\ t.pc = thread.pc /\ t.rec = thread.rec
    BY DEF Types, Running, Threads
  <2> QED
    BY <1>1, <2>1, <2>2 DEF Types, Running
<1>2. CASE ~mRecorder
  BY <1>2 DEF Stop, Types, Running
<1> QED
  BY <1>1, <1>2

LEMMA BeginTypes ==
  ASSUME Types, NEW early \in BOOLEAN, Begin(early)
  PROVE  /\ Bookkeeping'
         /\ hasty' = early /\ odd' \subseteq Nat
         /\ thread' \in Threads /\ thread'.pc = "new"
         /\ thread'.rec = Len(durations') /\ thread'.position = 0
         /\ Len(durations') \in 1..Len(durations')
         /\ heard' = FALSE /\ mRecorder' = TRUE
<1>1. Bookkeeping' /\ Len(durations') \in Nat /\ Len(durations') >= 1
  <2>0. Len(durations) \in Nat
    BY DEF Types, Bookkeeping
  <2>1. CASE ReuseLast
    <3>1. UNCHANGED <<durations, reported, captured>> /\ mRecording' = Len(durations')
      BY <2>1 DEF Begin
    <3>2. Len(durations) # 0
      BY <2>1, EmptySeq DEF ReuseLast, Types, Bookkeeping
    <3> QED
      BY <2>0, <3>1, <3>2 DEF Types, Bookkeeping
  <2>2. CASE ~ReuseLast
    <3>1. /\ durations' = Append(durations, 0) /\ reported' = Append(reported, 0)
          /\ captured' = Append(captured, 0) /\ mRecording' = Len(durations')
      BY <2>2 DEF Begin
    <3>2. /\ durations' \in Seq(Nat) /\ reported' \in Seq(Nat)
          /\ captured' \in Seq(Nat)
          /\ Len(durations') = Len(durations) + 1
          /\ Len(reported') = Len(durations) + 1
          /\ Len(captured') = Len(durations) + 1
      BY <3>1 DEF Types, Bookkeeping
    <3> QED
      BY <2>0, <3>1, <3>2 DEF Bookkeeping
  <2> QED
    BY <2>1, <2>2
<1>2. thread' = [NoThread EXCEPT !.pc = "new", !.shouldRecord = TRUE,
                                 !.rec = Len(durations')]
  BY DEF Begin
<1>3. /\ thread' \in Threads /\ thread'.pc = "new"
      /\ thread'.rec = Len(durations') /\ thread'.position = 0
  BY <1>1, <1>2 DEF NoThread, Threads
<1>4. hasty' = early /\ odd' \subseteq Nat
  <2>1. odd' = IF early THEN odd \cup {Len(durations')} ELSE odd
    BY DEF Begin
  <2> QED
    BY <1>1, <2>1 DEF Begin, Types, Bounded
<1> QED
  BY <1>1, <1>3, <1>4 DEF Begin

LEMMA UserTypes ==
  ASSUME Types, UserStep
  PROVE  Types'
<1> USE RecorderAssumption
<1>1. CASE ClickOn
  <2>1. Flags'
    BY <1>1 DEF ClickOn, User, Types, Flags
  <2>2. Queued' /\ Bookkeeping' /\ Statistics' /\ Running' /\ Bounded'
    BY <1>1 DEF ClickOn, User, Types, Queued, Bookkeeping, Statistics, Running,
                Bounded
  <2> QED
    BY <2>1, <2>2 DEF Types
<1>2. CASE ClickOff
  <2>1. Flags'
    BY <1>2 DEF ClickOff, User, Types, Flags
  <2>2. Queued' /\ Bookkeeping' /\ Statistics' /\ Bounded'
    BY <1>2 DEF ClickOff, User, Types, Queued, Bookkeeping, Statistics, Bounded
  <2>3. Running'
    <3>1. mpc = "idle" /\ Stop("join") /\ UNCHANGED <<mRecorder, durations>>
      BY <1>2 DEF ClickOff, User
    <3> QED
      BY <3>1, StopTypes
  <2> QED
    BY <2>1, <2>2, <2>3 DEF Types
<1>3. CASE Back
  <2>1. Flags'
    <3>1. dialog' \in BOOLEAN /\ open' \in BOOLEAN
      BY <1>3 DEF Back, Types, Flags
    <3> QED
      BY <1>3, <3>1 DEF Back, User, Types, Flags
  <2>2. Queued' /\ Bookkeeping' /\ Statistics' /\ Bounded'
    BY <1>3 DEF Back, User, Types, Queued, Bookkeeping, Statistics, Bounded
  <2>3. Running'
    <3>1. mpc = "idle" /\ UNCHANGED <<mRecorder, durations>>
      BY <1>3 DEF Back, User
    <3>2. CASE Stop("join")
      BY <3>1, <3>2, StopTypes
    <3>3. CASE UNCHANGED <<thread, mpc>>
      BY <3>1, <3>3 DEF Types, Running
    <3> QED
      BY <1>3, <3>2, <3>3 DEF Back
  <2> QED
    BY <2>1, <2>2, <2>3 DEF Types
<1>4. CASE Answer
  <2>1. Flags'
    BY <1>4 DEF Answer, uiVars, statVars, Types, Flags
  <2>2. Queued' /\ Bookkeeping' /\ Statistics' /\ Running' /\ Bounded'
    BY <1>4 DEF Answer, statVars, Types, Queued, Bookkeeping, Statistics,
                Running, Bounded
  <2> QED
    BY <2>1, <2>2 DEF Types
<1>5. CASE CountdownElapses
  <2>1. Flags' /\ Bookkeeping' /\ Statistics' /\ Running'
    BY <1>5 DEF CountdownElapses, statVars, Types, Flags, Bookkeeping,
                Statistics, Running
  <2>2. Bounded'
    BY <1>5 DEF CountdownElapses, statVars, Types, Bounded
  <2>3. Queued'
    BY <1>5, MsgType, QueuedNext DEF CountdownElapses, Types, Kinds
  <2> QED
    BY <2>1, <2>2, <2>3 DEF Types
<1> QED
  BY <1>1, <1>2, <1>3, <1>4, <1>5 DEF UserStep

\* The END of a recorder.
EndMsg == [Msg("end") EXCEPT !.real = Sum(captured)]

LEMMA EndMsgType ==
  ASSUME Types
  PROVE  /\ EndMsg \in Messages /\ EndMsg.what = "end"
         /\ EndMsg.real = Sum(captured) /\ Sum(captured) \in Nat
<1>1. Sum(captured) \in Nat
  BY SumNat DEF Types, Bookkeeping
<1>2. EndMsg = [what |-> "end", pos |-> 0, real |-> Sum(captured)]
  BY DEF EndMsg, Msg
<1> QED
  BY <1>1, <1>2 DEF Messages, Kinds

LEMMA JoinReturnsTypes == ASSUME Types, JoinReturns PROVE Types'
<1>1. messages' = Append(messages, EndMsg) /\ mpc' = "idle"
  BY DEF JoinReturns, EndMsg
<1>2. Queued'
  BY <1>1, EndMsgType, QueuedNext DEF Types
<1>3. Statistics'
  BY DEF JoinReturns, Types, Statistics
<1>4. CASE mpc = "joinStart"
  <2>1. Begin(TRUE)
    BY <1>4 DEF JoinReturns
  <2>2. /\ Bookkeeping' /\ thread' \in Threads /\ thread'.pc = "new"
        /\ thread'.rec \in 1..Len(durations')
        /\ heard' = FALSE /\ mRecorder' = TRUE
        /\ hasty' = TRUE /\ odd' \subseteq Nat
    BY <2>1, BeginTypes
  <2>3. Running'
    BY <1>1, <2>2 DEF Running
  <2>4. Flags'
    BY <2>2 DEF JoinReturns, uiVars, Types, Flags
  <2>5. Bounded'
    BY <2>2 DEF JoinReturns, uiVars, Types, Bounded
  <2> QED
    BY <1>2, <1>3, <2>2, <2>3, <2>4, <2>5 DEF Types
<1>5. CASE mpc # "joinStart"
  <2>1. /\ mRecorder' = FALSE /\ thread' = NoThread
        /\ UNCHANGED <<durations, reported, captured, mRecording, heard, hasty,
                       odd>>
    BY <1>5 DEF JoinReturns
  <2>2. Running'
    BY <1>1, <2>1 DEF Running, NoThread, Threads
  <2>3. Flags'
    BY <2>1 DEF JoinReturns, uiVars, Types, Flags
  <2>4. Bounded' /\ Bookkeeping'
    BY <2>1 DEF JoinReturns, uiVars, Types, Bounded, Bookkeeping
  <2> QED
    BY <1>2, <1>3, <2>2, <2>3, <2>4 DEF Types
<1> QED
  BY <1>4, <1>5

\* There is an END in the queue.
LEMMA EndPendingHas ==
  ASSUME Types
  PROVE  (EndPending <=> Has(messages, "end")) /\ EndPending \in BOOLEAN
<1>1. DOMAIN messages = 1..Len(messages)
  BY DEF Types, Queued
<1>2. EndPending \in BOOLEAN
  BY Zenon DEF EndPending
<1> QED
  BY <1>1, <1>2 DEF EndPending, Has

LEMMA StartRecordingTypes == ASSUME Types, StartRecording PROVE Types'
<1>0. messages # <<>> /\ messages' = Tail(messages) /\ mpc = "idle"
  BY DEF StartRecording, Take
<1>1. TotalDuration \in Nat
  BY SumNat DEF TotalDuration, Types, Bookkeeping
<1>2. Statistics'
  BY DEF StartRecording, Types, Statistics
<1>3. Queued'
  BY <1>0, QueuedNext DEF Types, Queued
<1>4. CASE mRecorder
  <2>1. /\ Stop("joinStart")
        /\ UNCHANGED <<durations, reported, captured, mRecording, mRecorder,
                       heard, hasty, odd>>
    BY <1>4 DEF StartRecording
  <2>2. Running'
    BY <1>0, <2>1, StopTypes
  <2>3. Flags'
    BY <2>1 DEF StartRecording, Types, Flags
  <2>4. Bookkeeping'
    BY <2>1 DEF Types, Bookkeeping
  <2>5. Bounded'
    BY <1>1, <2>1 DEF StartRecording, Types, Bounded
  <2> QED
    BY <1>2, <1>3, <2>2, <2>3, <2>4, <2>5 DEF Types
<1>5. CASE ~mRecorder
  <2>1. Begin(EndPending) /\ mpc' = "idle"
    BY <1>0, <1>5 DEF StartRecording
  <2>2. /\ Bookkeeping' /\ thread' \in Threads /\ thread'.pc = "new"
        /\ thread'.rec \in 1..Len(durations')
        /\ heard' = FALSE /\ mRecorder' = TRUE
        /\ hasty' = EndPending /\ odd' \subseteq Nat
    BY <2>1, BeginTypes, EndPendingHas
  <2>3. Running'
    BY <2>1, <2>2 DEF Running
  <2>4. Flags'
    BY <2>2, EndPendingHas DEF StartRecording, Types, Flags
  <2>5. Bounded'
    BY <1>1, <2>2 DEF StartRecording, Types, Bounded
  <2> QED
    BY <1>2, <1>3, <2>2, <2>3, <2>4, <2>5 DEF Types
<1> QED
  BY <1>4, <1>5

\* The first message of the queue.
LEMMA HeadType ==
  ASSUME Types, messages # <<>>
  PROVE  /\ Head(messages) = messages[1] /\ messages[1] \in Messages
         /\ messages[1].what \in Kinds /\ messages[1].pos \in Nat
         /\ messages[1].real \in Nat
<1>1. Head(messages) = messages[1] /\ 1 \in 1..Len(messages)
  BY QueueTail DEF Types, Queued
<1>2. messages[1] \in Messages
  BY <1>1, ElementOfSeq DEF Types, Queued
<1> QED
  BY <1>1, <1>2 DEF Messages

\* What HandleAmp puts into the queue.
AmpUp == [messages[1] EXCEPT !.what = "ampUp", !.pos = @ + Offset]

LEMMA AmpUpType ==
  ASSUME Types, messages # <<>>
  PROVE  /\ AmpUp \in Messages /\ AmpUp.what = "ampUp"
         /\ AmpUp.pos = messages[1].pos + Offset
         /\ AmpUp.real = messages[1].real /\ Offset \in Nat
<1>1. Offset \in Nat
  BY DEF Offset, Types, Statistics
<1>2. messages[1] \in Messages /\ messages[1].pos + Offset \in Nat
  BY <1>1, HeadType
<1> HIDE DEF Offset
<1> QED
  BY <1>1, <1>2 DEF AmpUp, Messages, Kinds

LEMMA HandleAmpTypes == ASSUME Types, HandleAmp PROVE Types'
<1>1. messages # <<>>
  BY DEF HandleAmp, Take
<1>2. /\ mLastAmplitudes' = messages[1].pos
      /\ messages' = Append(Tail(messages), AmpUp)
  BY <1>1, HeadType DEF HandleAmp, AmpUp
<1>3. Queued'
  BY <1>1, <1>2, AmpUpType, QueuedNext DEF Types
<1>4. Statistics'
  BY <1>1, <1>2, HeadType DEF HandleAmp, Types, Statistics
<1>5. Flags'
  BY DEF HandleAmp, uiVars, Types, Flags
<1>6. Bookkeeping' /\ Bounded' /\ Running'
  BY DEF HandleAmp, uiVars, Types, Bookkeeping, Bounded, Running
<1> QED
  BY <1>3, <1>4, <1>5, <1>6 DEF Types

LEMMA HandleEndTypes == ASSUME Types, HandleEnd PROVE Types'
<1>1. messages # <<>> /\ messages' = Append(Tail(messages), Msg("endUp"))
  BY DEF HandleEnd, Take
<1>2. Queued'
  BY <1>1, MsgType, QueuedNext DEF Types, Kinds
<1>3. Statistics' /\ aliased' \in BOOLEAN
  <2>1. CASE mAmplitudes = -1
    <3>1. /\ mAmplitudes' = mLastAmplitudes
          /\ aliased' = (mLastAmplitudes # -1)
          /\ mLastAmplitudes' = mLastAmplitudes
      BY <2>1 DEF HandleEnd
    <3>2. Statistics'
      BY <3>1 DEF Types, Statistics
    <3>3. aliased' \in BOOLEAN
      BY <3>1, Zenon
    <3> QED
      BY <3>2, <3>3
  <2>2. CASE mAmplitudes # -1
    <3>1. /\ mAmplitudes' = mAmplitudes + mLastAmplitudes
          /\ mLastAmplitudes' = IF aliased THEN mAmplitudes'
                                ELSE mLastAmplitudes
          /\ aliased' = aliased
      BY <2>2 DEF HandleEnd
    <3>2. mAmplitudes \in Nat /\ mLastAmplitudes \in Nat
      BY <2>2 DEF Types, Statistics
    <3>3. mAmplitudes' \in Nat /\ mLastAmplitudes' \in Nat
      BY <3>1, <3>2
    <3> QED
      BY <3>1, <3>3 DEF Types, Statistics, Flags
  <2> QED
    BY <2>1, <2>2
<1>4. Bookkeeping'
  <2>1. UNCHANGED <<reported, captured>>
    BY DEF HandleEnd
  <2>2. CASE StoresDuration
    <3>1. /\ durations' = [durations EXCEPT ![mRecording] = mLastAmplitudes']
          /\ mRecording' = 0
      BY <2>2 DEF HandleEnd
    <3>2. mLastAmplitudes' \in Nat
      BY <2>2 DEF HandleEnd, StoresDuration, Types, Statistics
    <3>3. mRecording \in 1..Len(durations) /\ Len(durations) \in Nat
      BY <2>2 DEF StoresDuration, Types, Bookkeeping
    <3>4. durations' \in Seq(Nat) /\ Len(durations') = Len(durations)
      BY <3>1, <3>2, <3>3, ExceptSeq DEF Types, Bookkeeping
    <3> QED
      BY <2>1, <3>1, <3>3, <3>4 DEF Types, Bookkeeping
  <2>3. CASE ~StoresDuration
    BY <2>1, <2>3 DEF HandleEnd, Types, Bookkeeping
  <2> QED
    BY <2>2, <2>3
<1>5. Flags'
  BY <1>3 DEF HandleEnd, uiVars, Types, Flags
<1>6. Len(durations') = Len(durations)
  <2>1. Len(durations) \in Nat
    BY DEF Types, Bookkeeping
  <2>2. CASE StoresDuration
    BY <1>4, <2>2 DEF HandleEnd, Types, Bookkeeping
  <2> QED
    BY <2>2 DEF HandleEnd
<1>7. Running'
  BY <1>6 DEF HandleEnd, uiVars, Types, Running
<1>8. odd' \subseteq Nat
  <2>1. odd' = odd \/ odd' = odd \cup {Len(durations)}
    BY DEF HandleEnd
  <2>2. odd \subseteq Nat /\ Len(durations) \in Nat
    BY DEF Types, Bounded, Bookkeeping
  <2> QED
    BY <2>1, <2>2
<1>9. Bounded'
  BY <1>8 DEF HandleEnd, uiVars, Types, Bounded
<1> QED
  BY <1>2, <1>3, <1>4, <1>5, <1>7, <1>9 DEF Types

LEMMA HandleOtherTypes == ASSUME Types, HandleOther PROVE Types'
<1>1. /\ messages # <<>>
      /\ messages' = Append(Tail(messages), Msg(Up(Head(messages).what)))
  BY DEF HandleOther, Take
<1>2. Queued'
  BY <1>1, MsgType, QueuedNext DEF Types, Kinds, Up
<1>3. Flags'
  BY DEF HandleOther, uiVars, statVars, Types, Flags
<1>4. Bookkeeping' /\ Bounded' /\ Running' /\ Statistics'
  BY DEF HandleOther, uiVars, statVars, Types, Bookkeeping, Bounded, Running,
         Statistics
<1> QED
  BY <1>2, <1>3, <1>4 DEF Types

LEMMA HandleUpTypes ==
  ASSUME Types, HandleAmpUp \/ HandleErrorUp \/ HandleLast
  PROVE  Types'
<1>1. messages # <<>> /\ messages' = Tail(messages) /\ mpc = "idle"
  BY DEF HandleAmpUp, HandleErrorUp, HandleLast, Take
<1>2. Queued'
  BY <1>1, QueuedNext DEF Types, Queued
<1>3. UNCHANGED <<uiVars, statVars>> \/ HandleLast
  BY DEF HandleAmpUp, HandleErrorUp
<1>4. Bookkeeping' /\ Bounded' /\ Statistics'
  BY DEF HandleAmpUp, HandleErrorUp, HandleLast, uiVars, statVars, Types,
         Bookkeeping, Bounded, Statistics
<1>5. Flags'
  <2>1. behind' \in BOOLEAN
    <3>1. CASE HandleAmpUp
      <4> DEFINE c == (mRecordingOffset + Head(messages).pos) \div Second
                        < Head(messages).real \div Second
      <4>1. behind' = (behind \/ c)
        BY <3>1 DEF HandleAmpUp
      <4> HIDE DEF c
      <4> QED
        BY <4>1, Zenon
    <3>2. CASE HandleErrorUp \/ HandleLast
      BY <3>2 DEF HandleErrorUp, HandleLast, Types, Flags
    <3> QED
      BY <3>1, <3>2
  <2>2. enabled' \in BOOLEAN
    <3>1. CASE HandleLast
      <4> DEFINE c == TotalDuration < Limit * Second
      <4>1. enabled' = IF Head(messages).what = "endUp" THEN c ELSE enabled
        BY <3>1 DEF HandleLast
      <4>2. c \in BOOLEAN
        OBVIOUS
      <4> HIDE DEF c
      <4> QED
        BY <4>1, <4>2 DEF Types, Flags
    <3>2. CASE UNCHANGED uiVars
      BY <3>2 DEF uiVars, Types, Flags
    <3> QED
      BY <1>3, <3>1, <3>2
  <2> QED
    BY <2>1, <2>2 DEF HandleAmpUp, HandleErrorUp, HandleLast, uiVars, statVars,
                      Types, Flags
<1>6. Running'
  <2>1. UNCHANGED <<mRecorder, durations>>
    BY DEF HandleAmpUp, HandleErrorUp, HandleLast, statVars
  <2>2. Stop("join") \/ UNCHANGED <<thread, mpc>>
    BY DEF HandleAmpUp, HandleErrorUp, HandleLast
  <2>3. CASE Stop("join")
    BY <1>1, <2>1, <2>3, StopTypes
  <2>4. CASE UNCHANGED <<thread, mpc>>
    BY <2>1, <2>4 DEF Types, Running
  <2> QED
    BY <2>2, <2>3, <2>4
<1> QED
  BY <1>2, <1>4, <1>5, <1>6 DEF Types
LEMMA PostTypes ==
  ASSUME Types, NEW w \in Kinds, NEW p \in Nat, Post(w, p), Bookkeeping'
  PROVE  Queued'
<1> DEFINE m == [what |-> w, pos |-> p, real |-> Sum(captured')]
<1>1. Sum(captured') \in Nat
  BY SumNat DEF Bookkeeping
<1>2. m \in Messages
  BY <1>1 DEF Messages
<1>3. messages' = Append(messages, m)
  BY DEF Post
<1> HIDE DEF m
<1> QED
  BY <1>2, <1>3, QueuedNext DEF Types

LEMMA FailTypes ==
  ASSUME Types, NEW pc \in {"loop", "caught", "ended"}, NEW lost \in 0..1,
         thread.pc # "none",
         UNCHANGED <<captured, reported>>, ThreadOnly, Fail(pc, lost)
  PROVE  Types'
<1>1. Flags' /\ Bookkeeping' /\ Statistics'
  BY DEF ThreadOnly, uiVars, statVars, Types, Flags, Bookkeeping, Statistics
<1>2. Queued'
  BY <1>1, PostTypes DEF Fail, Kinds
<1>3. Bounded'
  BY RecorderAssumption DEF Fail, ThreadOnly, uiVars, Types, Bounded
<1>4. Running'
  <2>1. thread' = [thread EXCEPT !.pc = pc, !.position = @ + lost]
    BY DEF Fail
  <2>2. thread \in Threads /\ thread.position + lost \in Nat
    BY DEF Types, Running, Threads
  <2>3. thread' \in Threads /\ thread'.pc = pc /\ thread'.rec = thread.rec
    BY <2>1, <2>2 DEF Threads
  <2>4. UNCHANGED <<mpc, mRecorder, durations>>
    BY DEF ThreadOnly, statVars
  <2> QED
    BY <2>3, <2>4 DEF Types, Running
<1> QED
  BY <1>1, <1>2, <1>3, <1>4 DEF Types

\* A step of the thread that changes its place, its flags and its position.
LEMMA ThreadTypes ==
  ASSUME Types, ThreadOnly, Bookkeeping', Queued',
         UNCHANGED failures, thread.pc # "none",
         thread' \in Threads, thread'.pc # "none", thread'.rec = thread.rec
  PROVE  Types'
<1>1. Flags' /\ Statistics' /\ Bounded'
  BY DEF ThreadOnly, uiVars, statVars, Types, Flags, Statistics, Bounded
<1>2. Running'
  <2>1. UNCHANGED <<mpc, mRecorder, durations>>
    BY DEF ThreadOnly, statVars
  <2> QED
    BY <2>1 DEF Types, Running
<1> QED
  BY <1>1, <1>2 DEF Types

LEMMA ConfigureTypes == ASSUME Types, Configure PROVE Types'
<1>1. /\ thread.pc = "new" /\ UNCHANGED <<reported, captured>> /\ ThreadOnly
  BY DEF Configure
<1>2. CASE Fail("ended", 0)
  BY <1>1, <1>2, FailTypes
<1>3. CASE /\ thread' = [thread EXCEPT !.pc = "encoder", !.shouldRun = TRUE]
           /\ UNCHANGED <<messages, failures>>
  <2>1. thread' \in Threads /\ thread'.pc = "encoder"
        /\ thread'.rec = thread.rec
    BY <1>3 DEF Types, Running, Threads
  <2>2. Bookkeeping' /\ Queued'
    BY <1>1, <1>3 DEF ThreadOnly, statVars, Types, Bookkeeping, Queued
  <2> QED
    BY <1>1, <1>3, <2>1, <2>2, ThreadTypes
<1> QED
  BY <1>2, <1>3 DEF Configure

\* The number of chunks in the recorder's file changes.
LEMMA BookkeepingExcept ==
  ASSUME Types, thread.pc # "none", UNCHANGED statVars,
         NEW c \in Nat, NEW r \in Nat,
         captured' = [captured EXCEPT ![thread.rec] = c],
         \/ reported' = [reported EXCEPT ![thread.rec] = r]
         \/ UNCHANGED reported
  PROVE  Bookkeeping'
<1>1. thread.rec \in 1..Len(durations) /\ Len(durations) \in Nat
  BY DEF Types, Running, Bookkeeping
<1>2. /\ captured \in Seq(Nat) /\ reported \in Seq(Nat)
      /\ thread.rec \in 1..Len(captured) /\ thread.rec \in 1..Len(reported)
  BY <1>1 DEF Types, Bookkeeping
<1>3. captured' \in Seq(Nat) /\ Len(captured') = Len(captured)
  BY <1>2, ExceptSeq
<1>4. reported' \in Seq(Nat) /\ Len(reported') = Len(reported)
  <2>1. CASE reported' = [reported EXCEPT ![thread.rec] = r]
    BY <1>2, <2>1, ExceptSeq
  <2>2. CASE UNCHANGED reported
    BY <1>2, <2>2
  <2> QED
    BY <2>1, <2>2
<1> QED
  BY <1>3, <1>4 DEF statVars, Types, Bookkeeping

LEMMA MakeEncoderTypes == ASSUME Types, MakeEncoder PROVE Types'
<1>1. thread.pc = "encoder" /\ UNCHANGED reported /\ ThreadOnly
  BY DEF MakeEncoder
<1>2. CASE UNCHANGED captured /\ Fail("caught", 0)
  BY <1>1, <1>2, FailTypes
<1>3. CASE /\ thread' = OpenEncoder(thread)
           /\ captured' = [captured EXCEPT ![thread.rec] = 0]
           /\ UNCHANGED <<messages, failures>>
  <2>1. thread' \in Threads /\ thread'.pc = "loop"
        /\ thread'.rec = thread.rec
    BY <1>3 DEF OpenEncoder, Types, Running, Threads
  <2>2. UNCHANGED statVars
    BY <1>1 DEF ThreadOnly
  <2>3. Bookkeeping'
    BY <1>1, <1>3, <2>2, BookkeepingExcept
  <2>4. Queued'
    BY <1>3 DEF Types, Queued
  <2> QED
    BY <1>1, <1>3, <2>1, <2>3, <2>4, ThreadTypes
<1> QED
  BY <1>2, <1>3 DEF MakeEncoder

LEMMA RecordTypes == ASSUME Types, Record PROVE Types'
<1>1. /\ thread.pc = "loop" /\ UNCHANGED failures /\ ThreadOnly
      /\ thread' = [thread EXCEPT !.position = @ + 1]
      /\ captured' = [captured EXCEPT ![thread.rec] = @ + 1]
      /\ reported' = [reported EXCEPT ![thread.rec] = thread.position + 1]
      /\ Post("amp", thread.position + 1)
  BY DEF Record, AmpPosition
<1>2. thread.position + 1 \in Nat
  BY DEF Types, Running, Threads
<1>3. captured[thread.rec] + 1 \in Nat
  <2>1. thread.rec \in 1..Len(captured)
    BY <1>1 DEF Types, Running, Bookkeeping
  <2>2. captured \in Seq(Nat)
    BY DEF Types, Bookkeeping
  <2>3. captured[thread.rec] \in Nat
    BY <2>1, <2>2, ElementOfSeq
  <2> QED
    BY <2>3
<1>4. Bookkeeping'
  <2>1. UNCHANGED statVars /\ thread.pc # "none"
    BY <1>1 DEF ThreadOnly
  <2>2. captured' = [captured EXCEPT ![thread.rec] = captured[thread.rec] + 1]
    BY <1>1
  <2> QED
    BY <1>1, <1>2, <1>3, <2>1, <2>2, BookkeepingExcept
<1>5. Queued'
  BY <1>1, <1>2, <1>4, PostTypes DEF Kinds
<1>6. thread' \in Threads /\ thread'.pc = "loop" /\ thread'.rec = thread.rec
  BY <1>1, <1>2 DEF Types, Running, Threads
<1> QED
  BY <1>1, <1>4, <1>5, <1>6, ThreadTypes

LEMMA RecordFailsTypes == ASSUME Types, RecordFails PROVE Types'
<1>1. thread.pc = "loop" /\ UNCHANGED <<captured, reported>> /\ ThreadOnly
  BY DEF RecordFails
<1>2. PICK lost \in 0..1 : Fail("loop", lost)
  BY DEF RecordFails
<1> QED
  BY <1>1, <1>2, FailTypes

LEMMA RunEndsTypes == ASSUME Types, RunEnds PROVE Types'
<1>1. /\ thread.pc # "none" /\ thread' = [thread EXCEPT !.pc = "ended"]
      /\ UNCHANGED <<captured, reported, failures>> /\ ThreadOnly
      /\ Post("ok", 0)
  BY DEF RunEnds
<1>2. Bookkeeping'
  BY <1>1 DEF ThreadOnly, statVars, Types, Bookkeeping
<1>3. Queued'
  BY <1>1, <1>2, PostTypes DEF Kinds
<1>4. thread' \in Threads /\ thread'.pc = "ended" /\ thread'.rec = thread.rec
  BY <1>1 DEF Types, Running, Threads
<1> QED
  BY <1>1, <1>2, <1>3, <1>4, ThreadTypes

LEMMA StutterTypes == ASSUME Types, UNCHANGED vars PROVE Types'
<1>1. Flags' /\ Queued' /\ Bookkeeping' /\ Statistics'
  BY DEF vars, Types, Flags, Queued, Bookkeeping, Statistics
<1>2. Running' /\ Bounded'
  BY DEF vars, Types, Running, Bounded
<1> QED
  BY <1>1, <1>2 DEF Types

LEMMA TypesNext == ASSUME Types, [Next]_vars PROVE Types'
<1>1. CASE UserStep
  BY <1>1, UserTypes DEF UserStep
<1>2. CASE MainStep
  BY <1>2, JoinReturnsTypes, StartRecordingTypes, HandleAmpTypes, HandleEndTypes,
     HandleOtherTypes, HandleUpTypes DEF MainStep
<1>3. CASE ThreadStep
  BY <1>3, ConfigureTypes, MakeEncoderTypes, RecordTypes, RecordFailsTypes,
     RunEndsTypes DEF ThreadStep
<1>4. CASE UNCHANGED vars
  BY <1>4, StutterTypes
<1> QED
  BY <1>1, <1>2, <1>3, <1>4 DEF Next

LEMMA AlwaysTypes == Spec => []Types
  BY InitTypes, TypesNext, PTL DEF Spec

\* The variables keep their types: in particular a recorder's thread always has
\* a recording of its own, and the durations, the reports and the files of the
\* boo go together (BooRecorder.start, stop; RecordActivity).
THEOREM TypeCorrect == Spec => []TypeOK
  BY AlwaysTypes, TypesOK, PTL

(***************************************************************************)
(* Steps that change nothing the invariants speak of but the queue, which  *)
(* says the same afterwards, and the thread's place.                       *)
(***************************************************************************)
Keeps(q, r) ==
  /\ Has(r, "amp") <=> Has(q, "amp")
  /\ Has(r, "end") <=> Has(q, "end")
  /\ EndsLast(q) => EndsLast(r)
  /\ AmpsFollowed(q) => AmpsFollowed(r)
  /\ AmpsPositive(q) => AmpsPositive(r)
  /\ \A h, l, v : Tells(q, h, l, v) => Tells(r, h, l, v)

KeepsChain(q, r) ==
  \A off, last, v, p \in Nat :
    ChainOk(q, off, last, v, p) => ChainOk(r, off, last, v, p)

Calm ==
  /\ UNCHANGED <<durations, mRecording, captured, reported, mRecorder>>
  /\ UNCHANGED <<mAmplitudes, mLastAmplitudes, aliased, heard, hasty, odd>>
  /\ Keeps(messages, messages') /\ KeepsChain(messages, messages')
  /\ thread'.rec = thread.rec
  /\ thread'.position \in Nat /\ thread.position <= thread'.position
  /\ thread'.pc \in {"new", "encoder"} => thread.pc \in {"new", "encoder"}

\* A message that is not about a recording.
Aside(m) == m \in Messages /\ m.what \notin {"amp", "end", "ampUp"}

LEMMA KeepsSame == \A q : Keeps(q, q) /\ KeepsChain(q, q)
  BY DEF Keeps, KeepsChain

LEMMA KeepsThrough ==
  ASSUME NEW q, NEW r, NEW u, Keeps(q, r), Keeps(r, u),
         KeepsChain(q, r), KeepsChain(r, u)
  PROVE  Keeps(q, u) /\ KeepsChain(q, u)
<1>1. Keeps(q, u)
  BY DEF Keeps
<1>2. KeepsChain(q, u)
  BY DEF KeepsChain
<1> QED
  BY <1>1, <1>2

LEMMA AppendAside ==
  ASSUME NEW q \in Seq(Messages), NEW m, Aside(m)
  PROVE  Keeps(q, Append(q, m)) /\ KeepsChain(q, Append(q, m))
<1>0. m \in Messages /\ m.what \notin {"amp", "end", "ampUp"}
  BY DEF Aside
<1>1. Has(Append(q, m), "end") <=> Has(q, "end")
  BY <1>0, AppendHas
<1>2. EndsLast(q) => EndsLast(Append(q, m))
  BY <1>0, AppendEnds
<1>3. Keeps(q, Append(q, m))
  BY <1>0, <1>1, <1>2, AppendKeeps DEF Keeps
<1>4. KeepsChain(q, Append(q, m))
  BY <1>0, ChainAppendOther DEF KeepsChain
<1> QED
  BY <1>3, <1>4

LEMMA TailAside ==
  ASSUME NEW q \in Seq(Messages), q # <<>>, q[1].what \notin {"amp", "end"}
  PROVE  Keeps(q, Tail(q)) /\ KeepsChain(q, Tail(q))
<1>1. Keeps(q, Tail(q))
  BY TailKeeps, TailAny DEF Keeps
<1>2. ASSUME NEW off \in Nat, NEW last \in Nat, NEW v \in Nat, NEW p \in Nat,
             ChainOk(q, off, last, v, p)
      PROVE  ChainOk(Tail(q), off, last, v, p)
  <2>1. Takes(q[1], off, last, off, last)
    BY DEF Takes, Covers
  <2> QED
    BY <1>2, <2>1, ChainTail
<1>3. KeepsChain(q, Tail(q))
  BY <1>2 DEF KeepsChain
<1> QED
  BY <1>1, <1>3

LEMMA PassAside ==
  ASSUME NEW q \in Seq(Messages), q # <<>>, q[1].what \notin {"amp", "end"},
         NEW m, Aside(m)
  PROVE  Keeps(q, Append(Tail(q), m)) /\ KeepsChain(q, Append(Tail(q), m))
<1>1. Tail(q) \in Seq(Messages)
  BY QueueTail
<1>2. Keeps(q, Tail(q)) /\ KeepsChain(q, Tail(q))
  BY TailAside
<1>3. /\ Keeps(Tail(q), Append(Tail(q), m))
      /\ KeepsChain(Tail(q), Append(Tail(q), m))
  BY <1>1, AppendAside
<1> QED
  BY <1>2, <1>3, KeepsThrough

\* Asking the recorder to end leaves its recording and its place alone.
SameThread ==
  /\ thread'.rec = thread.rec /\ thread'.position = thread.position
  /\ thread'.pc = thread.pc

LEMMA StopThread ==
  ASSUME Types, NEW next, Stop(next) \/ UNCHANGED <<thread, mpc>>
  PROVE  SameThread
<1> DEFINE t == [thread EXCEPT !.shouldRecord = FALSE, !.shouldRun = FALSE]
<1>1. /\ t.pc = thread.pc /\ t.rec = thread.rec
      /\ t.position = thread.position
  BY DEF Types, Running, Threads
<1> HIDE DEF t
<1> QED
  BY <1>1 DEF Stop, t, SameThread

LEMMA SameThreadCalm ==
  ASSUME Types, SameThread
  PROVE  /\ thread'.rec = thread.rec
         /\ thread'.position \in Nat /\ thread.position <= thread'.position
         /\ thread'.pc \in {"new", "encoder"} => thread.pc \in {"new", "encoder"}
<1>1. thread.position \in Nat
  BY DEF Types, Running, Threads
<1> QED
  BY <1>1 DEF SameThread

LEMMA MsgAside ==
  ASSUME NEW w \in {"error", "ok", "errorUp", "okUp", "endUp", "start"}
  PROVE  Aside(Msg(w))
  BY MsgType DEF Aside, Kinds

LEMMA UserCalm ==
  ASSUME Types, UserStep
  PROVE  Calm /\ UNCHANGED behind
<1>1. CASE ClickOn \/ ClickOff \/ Back \/ Answer
  <2>1. Stop("join") \/ UNCHANGED <<thread, mpc>>
    BY <1>1 DEF ClickOn, ClickOff, Back, Answer
  <2>2. UNCHANGED messages
    BY <1>1 DEF ClickOn, ClickOff, Back, Answer
  <2>3. Keeps(messages, messages') /\ KeepsChain(messages, messages')
    BY <2>2, KeepsSame
  <2>4. /\ UNCHANGED <<durations, mRecording, captured, reported, mRecorder>>
        /\ UNCHANGED <<mAmplitudes, mLastAmplitudes, aliased, heard, hasty, odd>>
        /\ UNCHANGED behind
    BY <1>1 DEF ClickOn, ClickOff, Back, Answer, User, statVars
  <2>5. SameThread
    BY <2>1, StopThread
  <2> QED
    BY <2>3, <2>4, <2>5, SameThreadCalm DEF Calm
<1>2. CASE CountdownElapses
  <2>1. messages' = Append(messages, Msg("start"))
    BY <1>2 DEF CountdownElapses
  <2>2. Keeps(messages, messages') /\ KeepsChain(messages, messages')
    BY <2>1, MsgAside, AppendAside DEF Types, Queued
  <2>3. /\ UNCHANGED <<durations, mRecording, captured, reported, mRecorder>>
        /\ UNCHANGED <<mAmplitudes, mLastAmplitudes, aliased, heard, hasty, odd>>
        /\ UNCHANGED <<thread, behind>>
    BY <1>2 DEF CountdownElapses, statVars
  <2>4. SameThread
    BY <2>3 DEF SameThread
  <2> QED
    BY <2>2, <2>3, <2>4, SameThreadCalm DEF Calm
<1> QED
  BY <1>1, <1>2 DEF UserStep

LEMMA PassedCalm ==
  ASSUME Types, HandleOther \/ HandleAmpUp \/ HandleErrorUp \/ HandleLast
  PROVE  Calm
<1>0. messages # <<>> /\ Head(messages) = messages[1]
  BY HeadType DEF HandleOther, HandleAmpUp, HandleErrorUp, HandleLast, Take
<1>1. messages[1].what \notin {"amp", "end"}
  BY <1>0 DEF HandleOther, HandleAmpUp, HandleErrorUp, HandleLast, Take
<1>2. Keeps(messages, messages') /\ KeepsChain(messages, messages')
  <2>1. CASE HandleOther
    <3>1. /\ messages' = Append(Tail(messages), Msg(Up(messages[1].what)))
          /\ Up(messages[1].what) \in {"errorUp", "okUp"}
      BY <1>0, <2>1 DEF HandleOther, Up
    <3>2. Aside(Msg(Up(messages[1].what)))
      BY <3>1, MsgAside
    <3> QED
      BY <1>0, <1>1, <3>1, <3>2, PassAside DEF Types, Queued
  <2>2. CASE HandleAmpUp \/ HandleErrorUp \/ HandleLast
    <3>1. messages' = Tail(messages)
      BY <2>2 DEF HandleAmpUp, HandleErrorUp, HandleLast
    <3> QED
      BY <1>0, <1>1, <3>1, TailAside DEF Types, Queued
  <2> QED
    BY <2>1, <2>2
<1>3. Stop("join") \/ UNCHANGED <<thread, mpc>>
  BY DEF HandleOther, HandleAmpUp, HandleErrorUp, HandleLast
<1>4. SameThread
  BY <1>3, StopThread
<1>5. /\ UNCHANGED <<durations, mRecording, captured, reported, mRecorder>>
      /\ UNCHANGED <<mAmplitudes, mLastAmplitudes, aliased, heard, hasty, odd>>
  BY DEF HandleOther, HandleAmpUp, HandleErrorUp, HandleLast, uiVars, statVars
<1> QED
  BY <1>2, <1>4, <1>5, SameThreadCalm DEF Calm

\* A recorder that still runs is asked to end before the next begins.
LEMMA StartCalm ==
  ASSUME Types, StartRecording, mRecorder
  PROVE  Calm /\ UNCHANGED behind
<1>0. messages # <<>> /\ Head(messages) = messages[1]
  BY HeadType DEF StartRecording, Take
<1>1. messages[1].what = "start" /\ messages' = Tail(messages)
  BY <1>0 DEF StartRecording, Take
<1>2. Keeps(messages, messages') /\ KeepsChain(messages, messages')
  BY <1>0, <1>1, TailAside DEF Types, Queued
<1>3. SameThread
  BY StopThread DEF StartRecording
<1>4. /\ UNCHANGED <<durations, mRecording, captured, reported, mRecorder>>
      /\ UNCHANGED <<mAmplitudes, mLastAmplitudes, aliased, heard, hasty, odd>>
      /\ UNCHANGED behind
  BY DEF StartRecording
<1> QED
  BY <1>2, <1>3, <1>4, SameThreadCalm DEF Calm

\* A message of the thread that is not about its amplitudes.
LEMMA PostAside ==
  ASSUME Types, NEW w \in {"error", "ok"}, Post(w, 0), UNCHANGED captured
  PROVE  Keeps(messages, messages') /\ KeepsChain(messages, messages')
<1> DEFINE m == [what |-> w, pos |-> 0, real |-> Sum(captured')]
<1>1. Sum(captured') \in Nat
  BY SumNat DEF Types, Bookkeeping
<1>2. Aside(m)
  BY <1>1 DEF Aside, Messages, Kinds
<1>3. messages' = Append(messages, m)
  BY DEF Post
<1> HIDE DEF m
<1> QED
  BY <1>2, <1>3, AppendAside DEF Types, Queued

LEMMA ThreadCalm ==
  ASSUME Types, ThreadStep
  PROVE  /\ \/ Calm
            \/ Record
            \/ MakeEncoder /\ thread' = OpenEncoder(thread)
         /\ UNCHANGED behind
<1> DEFINE goal == \/ Calm
                   \/ Record
                   \/ MakeEncoder /\ thread' = OpenEncoder(thread)
<1>0. ThreadOnly /\ UNCHANGED behind
  BY DEF ThreadStep, Configure, MakeEncoder, Record, RecordFails, RunEnds,
         ThreadOnly
<1>1. /\ UNCHANGED <<durations, mRecording, mRecorder>>
      /\ UNCHANGED <<mAmplitudes, mLastAmplitudes, aliased, heard, hasty, odd>>
  BY <1>0 DEF ThreadOnly, statVars
<1>2. thread \in Threads /\ thread.position \in Nat
  BY DEF Types, Running, Threads
<1>3. ASSUME UNCHANGED <<captured, reported>>, NEW pc \in {"loop", "caught", "ended"},
             NEW lost \in 0..1, Fail(pc, lost)
      PROVE  Calm
  <2>1. thread' = [thread EXCEPT !.pc = pc, !.position = @ + lost]
    BY <1>3 DEF Fail
  <2>2. /\ thread'.pc = pc /\ thread'.rec = thread.rec
        /\ thread'.position = thread.position + lost
    BY <1>2, <2>1 DEF Threads
  <2>3. Keeps(messages, messages') /\ KeepsChain(messages, messages')
    BY <1>3, PostAside DEF Fail
  <2>4. thread'.position \in Nat /\ thread.position <= thread'.position
    BY <1>2, <2>2
  <2> QED
    BY <1>1, <1>3, <2>2, <2>3, <2>4 DEF Calm
<1>4. ASSUME Configure PROVE goal
  <2>1. CASE Fail("ended", 0)
    <3>1. UNCHANGED <<captured, reported>>
      BY <1>4 DEF Configure
    <3>2. Calm
      BY <1>3, <2>1, <3>1
    <3> QED
      BY <3>2
  <2>2. CASE /\ thread' = [thread EXCEPT !.pc = "encoder", !.shouldRun = TRUE]
             /\ UNCHANGED <<messages, failures>>
    <3>1. /\ thread'.rec = thread.rec /\ thread'.position = thread.position
          /\ thread.pc = "new" /\ UNCHANGED <<captured, reported>>
      BY <1>2, <1>4, <2>2 DEF Configure, Threads
    <3>2. Keeps(messages, messages') /\ KeepsChain(messages, messages')
      BY <2>2, KeepsSame
    <3>3. thread'.position \in Nat /\ thread.position <= thread'.position
      BY <1>2, <3>1
    <3>4. Calm
      BY <1>1, <3>1, <3>2, <3>3 DEF Calm
    <3> QED
      BY <3>4
  <2> QED
    BY <1>4, <2>1, <2>2 DEF Configure
<1>5. ASSUME MakeEncoder PROVE goal
  <2>1. CASE UNCHANGED captured /\ Fail("caught", 0)
    <3>1. Calm
      BY <1>3, <1>5, <2>1 DEF MakeEncoder
    <3> QED
      BY <3>1
  <2>2. CASE thread' = OpenEncoder(thread)
    BY <1>5, <2>2
  <2>3. (UNCHANGED captured /\ Fail("caught", 0))
        \/ thread' = OpenEncoder(thread)
    BY <1>5 DEF MakeEncoder
  <2> QED
    BY <2>1, <2>2, <2>3
<1>6. ASSUME RecordFails PROVE goal
  <2>1. PICK lost \in 0..1 : Fail("loop", lost)
    BY <1>6 DEF RecordFails
  <2>2. UNCHANGED <<captured, reported>>
    BY <1>6 DEF RecordFails
  <2>3. Calm
    BY <1>3, <2>1, <2>2
  <2> QED
    BY <2>3
<1>7. ASSUME RunEnds PROVE goal
  <2>1. thread' = [thread EXCEPT !.pc = "ended"] /\ Post("ok", 0)
        /\ UNCHANGED <<captured, reported>>
    BY <1>7 DEF RunEnds
  <2>2. /\ thread'.pc = "ended" /\ thread'.rec = thread.rec
        /\ thread'.position = thread.position
    BY <1>2, <2>1 DEF Threads
  <2>3. Keeps(messages, messages') /\ KeepsChain(messages, messages')
    BY <2>1, PostAside
  <2>4. thread'.position \in Nat /\ thread.position <= thread'.position
    BY <1>2, <2>2
  <2>5. Calm
    BY <1>1, <2>1, <2>2, <2>3, <2>4 DEF Calm
  <2> QED
    BY <2>5
<1>8. goal
  <2>1. Configure \/ MakeEncoder \/ Record \/ RecordFails \/ RunEnds
    BY DEF ThreadStep
  <2> HIDE DEF goal
  <2>2. Record => goal
    BY DEF goal
  <2> QED
    BY <1>4, <1>5, <1>6, <1>7, <2>1, <2>2
<1> QED
  BY <1>0, <1>8

(***************************************************************************)
(* What the other steps do.                                                *)
(***************************************************************************)
LEMMA Counts ==
  ASSUME Types
  PROVE  /\ durations \in Seq(Nat) /\ reported \in Seq(Nat)
         /\ captured \in Seq(Nat) /\ Last \in Nat
         /\ Len(durations) = Last /\ Len(reported) = Last
         /\ Len(captured) = Last
         /\ \A i \in 1..Last : /\ durations[i] \in Nat /\ reported[i] \in Nat
                              /\ captured[i] \in Nat
         /\ durations = <<>> <=> Last = 0
         /\ durations # <<>> => Last \in 1..Last
<1>1. /\ durations \in Seq(Nat) /\ reported \in Seq(Nat)
      /\ captured \in Seq(Nat) /\ Last \in Nat
      /\ Len(durations) = Last /\ Len(reported) = Last
      /\ Len(captured) = Last
  BY DEF Types, Bookkeeping, Last
<1>2. \A i \in 1..Last : /\ durations[i] \in Nat /\ reported[i] \in Nat
                        /\ captured[i] \in Nat
  BY <1>1, ElementOfSeq
<1>3. durations = <<>> <=> Last = 0
  BY <1>1, EmptySeq
<1> QED
  BY <1>1, <1>2, <1>3

\* The recording a new recorder takes.
LEMMA BeginEffect ==
  ASSUME Types, NEW early \in BOOLEAN, Begin(early)
  PROVE  /\ Last' \in Nat \ {0} /\ mRecording' = Last' /\ durations' # <<>>
         /\ durations'[Last'] = 0
         /\ Sum(captured') = Sum(captured) /\ Sum(durations') = Sum(durations)
         /\ \A i \in 1..Last' : i # Last' =>
               /\ i \in 1..Last /\ durations'[i] = durations[i]
               /\ reported'[i] = reported[i]
         /\ \/ /\ ReuseLast /\ Last' = Last
               /\ UNCHANGED <<durations, reported, captured>>
            \/ /\ ~ReuseLast /\ Last' = Last + 1
               /\ captured'[Last'] = 0 /\ reported'[Last'] = 0
         /\ Undone' => Undone
         /\ ~Undone => captured'[Last'] = 0 /\ reported'[Last'] = 0
         /\ thread'.rec = Last' /\ thread'.position = 0 /\ thread'.pc = "new"
         /\ mRecorder' /\ ~heard' /\ hasty' = early
         /\ odd' = IF early THEN odd \cup {Last'} ELSE odd
<1>0. /\ thread'.pc = "new" /\ thread'.rec = Last' /\ thread'.position = 0
      /\ heard' = FALSE /\ mRecorder' = TRUE /\ hasty' = early
      /\ odd' = IF early THEN odd \cup {Last'} ELSE odd
      /\ mRecording' = Last'
  BY BeginTypes DEF Begin, Last
<1>1. CASE ReuseLast
  <2>1. UNCHANGED <<durations, reported, captured>> /\ Last' = Last
        /\ durations # <<>> /\ durations[Last] = 0
    BY <1>1 DEF Begin, ReuseLast, Last
  <2>2. Last \in Nat \ {0} /\ Last \in 1..Last
    BY <2>1, Counts
  <2>3. captured[Last] \in Nat /\ reported[Last] \in Nat
    BY <2>2, Counts
  <2>4. (Undone' <=> Undone) /\ Sum(captured') = Sum(captured)
        /\ Sum(durations') = Sum(durations)
    BY <2>1 DEF Undone
  <2>5. ~Undone => captured'[Last'] = 0 /\ reported'[Last'] = 0
    BY <2>1, <2>3 DEF Undone
  <2> QED
    BY <1>0, <1>1, <2>1, <2>2, <2>4, <2>5
<1>2. CASE ~ReuseLast
  <2>1. /\ durations' = Append(durations, 0) /\ reported' = Append(reported, 0)
        /\ captured' = Append(captured, 0)
    BY <1>2 DEF Begin
  <2>2. /\ Last' = Last + 1 /\ Last \in Nat
        /\ durations'[Last + 1] = 0 /\ reported'[Last + 1] = 0
        /\ captured'[Last + 1] = 0
        /\ \A i \in 1..Last : /\ durations'[i] = durations[i]
                             /\ reported'[i] = reported[i]
        /\ durations' \in Seq(Nat) /\ Len(durations') = Last + 1
    BY <2>1, Counts DEF Last
  <2>3. durations' # <<>>
    BY <2>2, EmptySeq
  <2>4. Sum(captured') = Sum(captured) /\ Sum(durations') = Sum(durations)
    <3>1. /\ Sum(captured') = Sum(captured) + 0 /\ Sum(captured) \in Nat
          /\ Sum(durations') = Sum(durations) + 0 /\ Sum(durations) \in Nat
      BY <2>1, Counts, SumAppend, SumNat
    <3> QED
      BY <3>1
  <2>5. \A i \in 1..(Last + 1) : i # Last + 1 => i \in 1..Last
    BY <2>2
  <2>6. ~Undone'
    BY <2>2 DEF Undone
  <2>7. Last' \in Nat \ {0} /\ durations'[Last'] = 0
        /\ captured'[Last'] = 0 /\ reported'[Last'] = 0
    BY <2>2
  <2>8. \A i \in 1..Last' : i # Last' =>
          /\ i \in 1..Last /\ durations'[i] = durations[i]
          /\ reported'[i] = reported[i]
    BY <2>2, <2>5
  <2> QED
    BY <1>0, <1>2, <2>2, <2>3, <2>4, <2>6, <2>7, <2>8
<1> QED
  BY <1>1, <1>2

\* MSG_END_OF_RECORDING: the duration is set, or it is not.
Stores ==
  /\ mRecording # 0 /\ mRecording = Last /\ Last \in 1..Last
  /\ mLastAmplitudes # -1 /\ mRecording' = 0
  /\ durations' = [durations EXCEPT ![Last] = mLastAmplitudes']
  /\ durations' \in Seq(Nat) /\ durations'[Last] >= 1
  /\ durations'[Last] = mLastAmplitudes'
  /\ \A i \in 1..Last : i # Last => durations'[i] = durations[i]

Skips ==
  /\ mRecording = 0 \/ mLastAmplitudes = -1
  /\ UNCHANGED <<durations, mRecording>>

\* What becomes of the statistics.
LEMMA EndEffect ==
  ASSUME Types, Kept, HandleEnd
  PROVE  /\ Offset' = Offset + Known /\ Known \in Nat /\ Offset \in Nat
         /\ mLastAmplitudes' = -1 <=> mLastAmplitudes = -1
         /\ mLastAmplitudes' # 0 /\ mAmplitudes' # 0
         /\ Last' = Last /\ UNCHANGED <<reported, captured, mRecorder, thread>>
         /\ UNCHANGED <<heard, hasty>>
         /\ odd' = IF heard THEN odd ELSE odd \cup {Last}
         /\ Stores \/ Skips
<1>1. /\ mAmplitudes \in Nat \cup {-1} /\ mLastAmplitudes \in Nat \cup {-1}
      /\ mAmplitudes # -1 => mLastAmplitudes # -1
      /\ mAmplitudes # 0 /\ mLastAmplitudes # 0
  BY DEF Types, Statistics, Kept
<1>2. \/ /\ mAmplitudes = -1 /\ mAmplitudes' = mLastAmplitudes
         /\ mLastAmplitudes' = mLastAmplitudes
      \/ /\ mAmplitudes # -1 /\ mAmplitudes' = mAmplitudes + mLastAmplitudes
         /\ mLastAmplitudes' \in {mLastAmplitudes, mAmplitudes'}
  BY DEF HandleEnd
<1>3. /\ Offset' = Offset + Known /\ Known \in Nat /\ Offset \in Nat
      /\ mLastAmplitudes' = -1 <=> mLastAmplitudes = -1
      /\ mLastAmplitudes' # 0 /\ mAmplitudes' # 0
      /\ mLastAmplitudes' \in Nat \cup {-1}
  <2>1. Known \in Nat /\ Offset \in Nat
    BY <1>1 DEF Offset, Known
  <2>2. CASE /\ mAmplitudes = -1 /\ mAmplitudes' = mLastAmplitudes
             /\ mLastAmplitudes' = mLastAmplitudes
    <3>1. Offset = 0 /\ Offset' = Known
      BY <2>2 DEF Offset, Known
    <3>2. Offset' = Offset + Known
      BY <2>1, <3>1
    <3> QED
      BY <1>1, <2>1, <2>2, <3>2
  <2>3. CASE /\ mAmplitudes # -1 /\ mAmplitudes' = mAmplitudes + mLastAmplitudes
             /\ mLastAmplitudes' \in {mLastAmplitudes, mAmplitudes'}
    <3>1. /\ mAmplitudes \in Nat /\ mLastAmplitudes \in Nat
          /\ mAmplitudes >= 1 /\ mLastAmplitudes >= 1
      BY <1>1, <2>3
    <3>2. /\ Offset = mAmplitudes /\ Known = mLastAmplitudes
          /\ mAmplitudes' \in Nat /\ mAmplitudes' >= 1
      BY <2>3, <3>1 DEF Offset, Known
    <3>3. Offset' = mAmplitudes'
      BY <3>2 DEF Offset
    <3>4. /\ mLastAmplitudes' \in Nat /\ mLastAmplitudes' >= 1
      BY <2>3, <3>1, <3>2
    <3> QED
      BY <2>1, <2>3, <3>1, <3>2, <3>3, <3>4
  <2> QED
    BY <1>2, <2>2, <2>3
<1>4. /\ UNCHANGED <<reported, captured, mRecorder, thread, heard, hasty>>
      /\ odd' = IF heard THEN odd ELSE odd \cup {Last}
  BY DEF HandleEnd, Last
<1>5. ASSUME StoresDuration PROVE Stores /\ Last' = Last
  <2>1. /\ mRecording # 0 /\ mLastAmplitudes # -1 /\ mRecording' = 0
        /\ durations' = [durations EXCEPT ![mRecording] = mLastAmplitudes']
    BY <1>5 DEF HandleEnd, StoresDuration
  <2>2. mRecording = Last
    BY <2>1 DEF Kept
  <2>3. mLastAmplitudes' \in Nat /\ mLastAmplitudes' >= 1
    BY <1>3, <2>1
  <2>4. Last \in 1..Last /\ durations \in Seq(Nat) /\ Len(durations) = Last
    BY <2>1, <2>2, Counts
  <2>5. /\ Len(durations') = Last /\ durations' \in Seq(Nat)
        /\ \A i \in 1..Last :
             durations'[i] = IF i = Last THEN mLastAmplitudes' ELSE durations[i]
    BY <2>1, <2>2, <2>3, <2>4, ExceptSeq
  <2>6. Last' = Last
    BY <2>5 DEF Last
  <2>7. /\ durations'[Last] >= 1 /\ durations'[Last] = mLastAmplitudes'
        /\ \A i \in 1..Last : i # Last => durations'[i] = durations[i]
    BY <2>3, <2>4, <2>5
  <2>8. Stores
    BY <2>1, <2>2, <2>4, <2>5, <2>7 DEF Stores
  <2> QED
    BY <2>6, <2>8
<1>6. ASSUME ~StoresDuration PROVE Skips /\ Last' = Last
  <2>1. UNCHANGED <<durations, mRecording>>
    BY <1>6 DEF HandleEnd
  <2>2. Last' = Last
    BY <2>1 DEF Last
  <2>3. mRecording = 0 \/ mLastAmplitudes = -1
    BY <1>6 DEF StoresDuration
  <2> QED
    BY <2>1, <2>2, <2>3 DEF Skips
<1>7. (Stores \/ Skips) /\ Last' = Last
  BY <1>5, <1>6
<1> QED
  BY <1>3, <1>4, <1>7

LEMMA AmpEffect ==
  ASSUME Types, HandleAmp
  PROVE  /\ messages # <<>> /\ messages \in Seq(Messages)
         /\ messages[1].what = "amp" /\ messages[1].pos \in Nat
         /\ messages[1].real \in Nat /\ Offset \in Nat
         /\ messages' = Append(Tail(messages), AmpUp)
         /\ Tail(messages) \in Seq(Messages) /\ 1 \in 1..Len(messages)
         /\ AmpUp \in Messages /\ AmpUp.what = "ampUp"
         /\ AmpUp.pos = messages[1].pos + Offset
         /\ AmpUp.real = messages[1].real
         /\ mLastAmplitudes' = messages[1].pos /\ ~aliased' /\ heard'
         /\ UNCHANGED <<durations, mRecording, mRecorder, mAmplitudes, thread>>
         /\ UNCHANGED <<reported, captured, hasty, odd, behind>>
         /\ Has(messages, "amp")
         /\ Has(messages', "end") <=> Has(messages, "end")
<1>0. messages # <<>> /\ messages \in Seq(Messages) /\ messages[1].what = "amp"
  BY HeadType DEF HandleAmp, Take, Types, Queued
<1>1. /\ mLastAmplitudes' = messages[1].pos
      /\ messages' = Append(Tail(messages), AmpUp)
      /\ ~aliased' /\ heard'
      /\ UNCHANGED <<durations, mRecording, mRecorder, mAmplitudes, thread>>
      /\ UNCHANGED <<reported, captured, hasty, odd, behind>>
  BY <1>0, HeadType DEF HandleAmp, AmpUp
<1>2. /\ Tail(messages) \in Seq(Messages) /\ 1 \in 1..Len(messages)
      /\ AmpUp \in Messages /\ AmpUp.what = "ampUp"
      /\ AmpUp.pos = messages[1].pos + Offset
      /\ AmpUp.real = messages[1].real
      /\ messages[1].pos \in Nat /\ messages[1].real \in Nat /\ Offset \in Nat
  BY <1>0, QueueTail, AmpUpType, HeadType
<1>3. Has(messages, "amp") /\ (Has(messages', "end") <=> Has(messages, "end"))
  BY <1>0, <1>1, <1>2, TailAmp, AppendHas
<1> QED
  BY <1>0, <1>1, <1>2, <1>3

LEMMA EndQueue ==
  ASSUME Types, HandleEnd
  PROVE  /\ messages # <<>> /\ messages \in Seq(Messages)
         /\ messages[1].what = "end" /\ Tail(messages) \in Seq(Messages)
         /\ messages' = Append(Tail(messages), Msg("endUp"))
         /\ Aside(Msg("endUp")) /\ UNCHANGED behind
         /\ \A w \in {"amp", "end"} : Has(messages', w) <=> Has(Tail(messages), w)
         /\ Has(messages, "end")
         /\ Has(messages', "amp") <=> Has(messages, "amp")
<1>0. messages # <<>> /\ messages \in Seq(Messages) /\ messages[1].what = "end"
  BY HeadType DEF HandleEnd, Take, Types, Queued
<1>1. messages' = Append(Tail(messages), Msg("endUp")) /\ UNCHANGED behind
  BY DEF HandleEnd
<1>2. Tail(messages) \in Seq(Messages) /\ Aside(Msg("endUp"))
  BY <1>0, QueueTail, MsgAside
<1>3. \A w \in {"amp", "end"} : Has(messages', w) <=> Has(Tail(messages), w)
  BY <1>1, <1>2, AppendHas DEF Aside
<1>4. Has(messages, "end") /\ (Has(messages', "amp") <=> Has(messages, "amp"))
  BY <1>0, <1>3, TailHas
<1> QED
  BY <1>0, <1>1, <1>2, <1>3, <1>4

\* What a chunk that was recorded is told by.
RecAmp == [what |-> "amp", pos |-> thread.position + 1, real |-> Sum(captured')]

LEMMA RecordEffect ==
  ASSUME Types, Types', Kept, Record
  PROVE  /\ messages \in Seq(Messages) /\ messages' = Append(messages, RecAmp)
         /\ RecAmp \in Messages /\ RecAmp.what = "amp"
         /\ RecAmp.pos = thread.position + 1 /\ thread.position \in Nat
         /\ RecAmp.real = Sum(captured) + 1 /\ Sum(captured') = Sum(captured) + 1
         /\ Sum(captured) \in Nat
         /\ mRecorder /\ mRecorder' /\ thread.rec = Last /\ Last \in 1..Last
         /\ thread'.rec = Last /\ thread'.pc = "loop" /\ Last' = Last
         /\ thread'.position = thread.position + 1
         /\ reported'[Last] = thread.position + 1
         /\ \A i \in 1..Last : i # Last => reported'[i] = reported[i]
         /\ UNCHANGED <<durations, mRecording, mRecorder, mAmplitudes>>
         /\ UNCHANGED <<mLastAmplitudes, aliased, heard, hasty, odd, behind>>
<1>1. /\ thread.pc = "loop" /\ ThreadOnly
      /\ thread' = [thread EXCEPT !.position = @ + 1]
      /\ captured' = [captured EXCEPT ![thread.rec] = @ + 1]
      /\ reported' = [reported EXCEPT ![thread.rec] = thread.position + 1]
      /\ messages' = Append(messages, RecAmp)
  BY DEF Record, Post, AmpPosition, RecAmp
<1>2. mRecorder /\ thread.rec = Last /\ thread \in Threads
      /\ thread.position \in Nat /\ Last \in 1..Last
  BY <1>1 DEF Types, Running, Threads, Kept, Last
<1>3. /\ UNCHANGED <<durations, mRecording, mRecorder, mAmplitudes>>
      /\ UNCHANGED <<mLastAmplitudes, aliased, heard, hasty, odd, behind>>
  BY <1>1 DEF ThreadOnly, statVars
<1>4. /\ thread'.rec = Last /\ thread'.pc = "loop"
      /\ thread'.position = thread.position + 1
  BY <1>1, <1>2 DEF Threads
<1>5. /\ captured \in Seq(Nat) /\ reported \in Seq(Nat) /\ Len(reported) = Last
      /\ captured[Last] \in Nat /\ Len(captured) = Last
  BY <1>2, Counts
<1>6. Sum(captured') = Sum(captured) + 1 /\ Sum(captured) \in Nat
  <2>1. captured' = [captured EXCEPT ![Last] = captured[Last] + 1]
    BY <1>1, <1>2
  <2> DEFINE c == captured[Last]
             d == [captured EXCEPT ![Last] = c + 1]
  <2>2. c \in Nat /\ c + 1 \in Nat /\ Last \in 1..Len(captured)
    BY <1>2, <1>5
  <2>3. d = captured'
    BY <2>1
  <2> HIDE DEF c
  <2>4. Sum(d) = Sum(captured) + (c + 1) - captured[Last]
    BY <1>5, <2>2, SumExcept
  <2>5. Sum(captured) \in Nat
    BY <1>5, SumNat
  <2> HIDE DEF d
  <2>6. Sum(captured') = Sum(captured) + (c + 1) - c
    BY <2>3, <2>4 DEF c
  <2> QED
    BY <2>2, <2>5, <2>6
<1>7. /\ RecAmp \in Messages /\ RecAmp.what = "amp"
      /\ RecAmp.pos = thread.position + 1 /\ RecAmp.real = Sum(captured) + 1
  BY <1>2, <1>6 DEF RecAmp, Messages, Kinds
<1>8. /\ reported'[Last] = thread.position + 1
      /\ \A i \in 1..Last : i # Last => reported'[i] = reported[i]
  BY <1>1, <1>2, <1>5
<1>9. messages \in Seq(Messages) /\ Last' = Last
  BY <1>3 DEF Types, Queued, Last
<1> QED
  BY <1>1, <1>2, <1>3, <1>4, <1>6, <1>7, <1>8, <1>9

LEMMA OpenEffect ==
  ASSUME Types, Kept, MakeEncoder, thread' = OpenEncoder(thread)
  PROVE  /\ mRecorder /\ thread.rec = Last /\ Last \in 1..Last
         /\ thread'.rec = Last /\ thread'.pc = "loop"
         /\ thread'.position = thread.position /\ thread.position \in Nat
         /\ captured' = [captured EXCEPT ![Last] = 0]
         /\ captured'[Last] = 0 /\ thread.pc = "encoder" /\ Last' = Last
         /\ Sum(captured') <= Sum(captured)
         /\ Sum(captured') \in Nat /\ Sum(captured) \in Nat
         /\ UNCHANGED <<messages, reported, durations, mRecording, mRecorder>>
         /\ UNCHANGED <<mAmplitudes, mLastAmplitudes, aliased, heard, hasty, odd>>
         /\ UNCHANGED behind
<1>1. thread.pc = "encoder" /\ ThreadOnly /\ UNCHANGED reported
  BY DEF MakeEncoder
<1>2. mRecorder /\ thread.rec = Last /\ thread \in Threads
      /\ thread.position \in Nat /\ Last \in 1..Last
  BY <1>1 DEF Types, Running, Threads, Kept, Last
<1>3. /\ thread'.rec = Last /\ thread'.pc = "loop"
      /\ thread'.position = thread.position
  BY <1>2 DEF Threads, OpenEncoder
<1>4. /\ captured' = [captured EXCEPT ![thread.rec] = 0] /\ UNCHANGED messages
  <2>1. ~Fail("caught", 0)
    <3>1. Fail("caught", 0) => thread'.pc = "caught"
      BY <1>2 DEF Fail, Threads
    <3> QED
      BY <1>3, <3>1
  <2> QED
    BY <2>1 DEF MakeEncoder
<1>5. /\ UNCHANGED <<durations, mRecording, mRecorder, behind>>
      /\ UNCHANGED <<mAmplitudes, mLastAmplitudes, aliased, heard, hasty, odd>>
  BY <1>1 DEF ThreadOnly, statVars
<1>6. captured \in Seq(Nat) /\ captured[Last] \in Nat /\ Len(captured) = Last
  BY <1>2, Counts
<1>7. captured' = [captured EXCEPT ![Last] = 0] /\ captured'[Last] = 0
  BY <1>2, <1>4, <1>6
<1>8. /\ Sum(captured') <= Sum(captured)
      /\ Sum(captured') \in Nat /\ Sum(captured) \in Nat
  <2>1. Sum(captured') = Sum(captured) + 0 - captured[Last]
    BY <1>2, <1>6, <1>7, SumExcept
  <2>2. captured' \in Seq(Nat)
    BY <1>2, <1>6, <1>7, ExceptSeq
  <2>3. Sum(captured) \in Nat /\ Sum(captured') \in Nat
    BY <1>6, <2>2, SumNat
  <2> QED
    BY <1>6, <2>1, <2>3
<1>9. Last' = Last
  BY <1>5 DEF Last
<1> QED
  BY <1>1, <1>2, <1>3, <1>4, <1>5, <1>7, <1>8, <1>9

\* The step is one of these.
LEMMA Steps ==
  ASSUME Types, [Next]_vars
  PROVE  \/ Calm
         \/ MakeEncoder /\ thread' = OpenEncoder(thread)
         \/ Record \/ JoinReturns \/ HandleAmp \/ HandleEnd
         \/ StartRecording /\ ~mRecorder
<1>1. CASE UserStep
  BY <1>1, UserCalm
<1>2. CASE MainStep
  <2>1. CASE StartRecording
    BY <2>1, StartCalm
  <2>2. CASE HandleOther \/ HandleAmpUp \/ HandleErrorUp \/ HandleLast
    BY <2>2, PassedCalm
  <2> QED
    BY <1>2, <2>1, <2>2 DEF MainStep
<1>3. CASE ThreadStep
  BY <1>3, ThreadCalm
<1>4. CASE UNCHANGED vars
  <2>1. Keeps(messages, messages') /\ KeepsChain(messages, messages')
    BY <1>4, KeepsSame DEF vars
  <2>2. /\ UNCHANGED <<durations, mRecording, captured, reported, mRecorder>>
        /\ UNCHANGED <<mAmplitudes, mLastAmplitudes, aliased, heard, hasty, odd>>
        /\ UNCHANGED thread
    BY <1>4 DEF vars
  <2>3. SameThread
    BY <2>2 DEF SameThread
  <2>4. Calm
    BY <2>1, <2>2, <2>3, SameThreadCalm DEF Calm
  <2> QED
    BY <2>4
<1> QED
  BY <1>1, <1>2, <1>3, <1>4 DEF Next

\* The END that the main thread posts, with a new recorder or without.
LEMMA JoinEffect ==
  ASSUME Types, JoinReturns
  PROVE  /\ messages \in Seq(Messages) /\ messages' = Append(messages, EndMsg)
         /\ EndMsg \in Messages /\ EndMsg.what = "end"
         /\ EndMsg.real = Sum(captured) /\ mRecorder /\ Has(messages', "end")
         /\ UNCHANGED <<mAmplitudes, mLastAmplitudes, aliased, behind>>
         /\ \/ Begin(TRUE)
            \/ /\ ~mRecorder' /\ thread' = NoThread
               /\ UNCHANGED <<durations, reported, captured, mRecording>>
               /\ UNCHANGED <<heard, hasty, odd>>
<1>1. messages' = Append(messages, EndMsg) /\ messages \in Seq(Messages)
  BY DEF JoinReturns, EndMsg, Types, Queued
<1>2. EndMsg \in Messages /\ EndMsg.what = "end" /\ EndMsg.real = Sum(captured)
  BY EndMsgType
<1>3. Has(messages', "end")
  BY <1>1, <1>2, AppendHas
<1>4. mRecorder
  BY DEF JoinReturns, Types, Running
<1>5. UNCHANGED <<mAmplitudes, mLastAmplitudes, aliased, behind>>
  BY DEF JoinReturns
<1>6. \/ Begin(TRUE)
      \/ /\ ~mRecorder' /\ thread' = NoThread
         /\ UNCHANGED <<durations, reported, captured, mRecording>>
         /\ UNCHANGED <<heard, hasty, odd>>
  BY DEF JoinReturns
<1> QED
  BY <1>1, <1>2, <1>3, <1>4, <1>5, <1>6

\* A recorder begins while there is none.
LEMMA StartEffect ==
  ASSUME Types, StartRecording, ~mRecorder
  PROVE  /\ messages # <<>> /\ messages \in Seq(Messages)
         /\ messages[1].what = "start" /\ messages' = Tail(messages)
         /\ EndPending \in BOOLEAN /\ Begin(EndPending)
         /\ EndPending <=> Pending
         /\ UNCHANGED <<mAmplitudes, mLastAmplitudes, aliased, behind>>
<1>1. messages # <<>> /\ messages \in Seq(Messages) /\ Head(messages) = messages[1]
  BY HeadType DEF StartRecording, Take, Types, Queued
<1>2. /\ messages[1].what = "start" /\ messages' = Tail(messages)
      /\ Begin(EndPending)
      /\ UNCHANGED <<mAmplitudes, mLastAmplitudes, aliased, behind>>
  BY <1>1 DEF StartRecording, Take
<1>3. (EndPending <=> Pending) /\ EndPending \in BOOLEAN
  BY EndPendingHas DEF Pending, EndPending
<1> QED
  BY <1>1, <1>2, <1>3

(***************************************************************************)
(* Kept.                                                                   *)
(***************************************************************************)
LEMMA InitKept == Init => Kept
<1> SUFFICES ASSUME Init PROVE Kept
  OBVIOUS
<1>1. messages = <<>> /\ Len(messages) = 0
  BY DEF Init
<1>2. AmpsFollowed(messages) /\ AmpsPositive(messages)
  BY <1>1 DEF AmpsFollowed, AmpsPositive
<1>3. thread.pc = "none" /\ durations = <<>> /\ mRecording = 0 /\ ~mRecorder
      /\ mAmplitudes = -1 /\ mLastAmplitudes = -1
  BY DEF Init, NoThread
<1>4. ~Undone
  BY <1>3 DEF Undone
<1> QED
  BY <1>2, <1>3, <1>4 DEF Kept

LEMMA KeptCalm ==
  ASSUME Types, Kept, Calm
  PROVE  Kept'
<1>1. /\ UNCHANGED <<durations, mRecording, captured, reported, mRecorder>>
      /\ UNCHANGED <<mAmplitudes, mLastAmplitudes, hasty>>
      /\ thread'.rec = thread.rec
      /\ thread'.pc \in {"new", "encoder"} => thread.pc \in {"new", "encoder"}
  BY DEF Calm
<1>2. /\ Has(messages', "amp") <=> Has(messages, "amp")
      /\ Has(messages', "end") <=> Has(messages, "end")
      /\ AmpsFollowed(messages) => AmpsFollowed(messages')
      /\ AmpsPositive(messages) => AmpsPositive(messages')
  BY DEF Calm, Keeps
<1>3. Last' = Last /\ (Undone' <=> Undone) /\ (Pending' <=> Pending)
  BY <1>1, <1>2 DEF Last, Undone, Pending
<1>4. /\ mRecording' \in {0, Last'}
      /\ mRecorder' => thread'.rec = Last'
      /\ mRecorder' /\ durations'[Last'] = 0 => mRecording' = Last'
  BY <1>1, <1>3 DEF Kept
<1>5. /\ mRecorder' \/ AmpsFollowed(messages')
      /\ AmpsPositive(messages') /\ mLastAmplitudes' # 0 /\ mAmplitudes' # 0
  BY <1>1, <1>2 DEF Kept
<1>6. Undone' => /\ mRecording' = Last' /\ Pending'
                 /\ mLastAmplitudes' # -1 \/ Has(messages', "amp")
  BY <1>1, <1>2, <1>3 DEF Kept
<1>7. ~hasty' /\ thread'.pc \in {"new", "encoder"} => captured'[thread'.rec] = 0
  BY <1>1 DEF Kept
<1> QED
  BY <1>4, <1>5, <1>6, <1>7 DEF Kept

LEMMA KeptOpen ==
  ASSUME Types, Kept, MakeEncoder, thread' = OpenEncoder(thread)
  PROVE  Kept'
<1>1. /\ mRecorder /\ thread'.rec = Last /\ thread'.pc = "loop"
      /\ captured'[Last] = 0 /\ Last' = Last
      /\ UNCHANGED <<messages, reported, durations, mRecording, mRecorder>>
      /\ UNCHANGED <<mAmplitudes, mLastAmplitudes>>
  BY OpenEffect
<1>2. Pending' /\ (Undone' => Undone)
  BY <1>1 DEF Undone, Pending
<1>3. /\ mRecording' \in {0, Last'}
      /\ mRecorder' /\ durations'[Last'] = 0 => mRecording' = Last'
      /\ mRecorder' \/ AmpsFollowed(messages')
      /\ AmpsPositive(messages') /\ mLastAmplitudes' # 0 /\ mAmplitudes' # 0
  BY <1>1 DEF Kept
<1>4. Undone' => /\ mRecording' = Last' /\ Pending'
                 /\ mLastAmplitudes' # -1 \/ Has(messages', "amp")
  BY <1>1, <1>2 DEF Kept
<1> QED
  BY <1>1, <1>3, <1>4 DEF Kept

LEMMA KeptRecord ==
  ASSUME Types, Types', Kept, Record
  PROVE  Kept'
<1>1. /\ messages \in Seq(Messages) /\ messages' = Append(messages, RecAmp)
      /\ RecAmp \in Messages /\ RecAmp.what = "amp"
      /\ RecAmp.pos = thread.position + 1 /\ thread.position \in Nat
      /\ mRecorder /\ mRecorder' /\ thread'.rec = Last /\ thread'.pc = "loop"
      /\ Last' = Last /\ UNCHANGED <<durations, mRecording, mAmplitudes>>
      /\ UNCHANGED mLastAmplitudes
  BY RecordEffect
<1>2. RecAmp.pos >= 1
  BY <1>1
<1>3. Has(messages', "amp") /\ (AmpsPositive(messages) => AmpsPositive(messages'))
  BY <1>1, <1>2, AppendAmp
<1>4. /\ mRecording' \in {0, Last'}
      /\ mRecorder' /\ durations'[Last'] = 0 => mRecording' = Last'
      /\ AmpsPositive(messages') /\ mLastAmplitudes' # 0 /\ mAmplitudes' # 0
  BY <1>1, <1>3 DEF Kept
<1>5. Undone' => mRecording' = Last' /\ Pending'
  BY <1>1, <1>4 DEF Undone, Pending
<1> QED
  BY <1>1, <1>3, <1>4, <1>5 DEF Kept

LEMMA KeptJoin ==
  ASSUME Types, Kept, JoinReturns
  PROVE  Kept'
<1>1. /\ messages \in Seq(Messages) /\ messages' = Append(messages, EndMsg)
      /\ EndMsg \in Messages /\ EndMsg.what = "end"
      /\ mRecorder /\ Has(messages', "end")
      /\ UNCHANGED <<mAmplitudes, mLastAmplitudes>>
  BY JoinEffect
<1>2. /\ Has(messages', "amp") <=> Has(messages, "amp")
      /\ AmpsPositive(messages) => AmpsPositive(messages')
      /\ AmpsFollowed(messages')
  <2>1. /\ Has(Append(messages, EndMsg), "amp") <=> Has(messages, "amp")
        /\ AmpsPositive(messages) => AmpsPositive(Append(messages, EndMsg))
        /\ AmpsFollowed(messages) \/ EndMsg.what = "end"
             => AmpsFollowed(Append(messages, EndMsg))
    BY <1>1, AppendKeeps
  <2> QED
    BY <1>1, <2>1
<1>3. /\ mRecorder' \/ AmpsFollowed(messages')
      /\ AmpsPositive(messages') /\ mLastAmplitudes' # 0 /\ mAmplitudes' # 0
  BY <1>1, <1>2 DEF Kept
<1>4. Pending'
  BY <1>1 DEF Pending
<1>5. CASE Begin(TRUE)
  <2>1. /\ mRecording' = Last' /\ (Undone' => Undone) /\ thread'.rec = Last'
        /\ hasty' = TRUE
    BY <1>5, BeginEffect
  <2>2. Undone' => mLastAmplitudes' # -1 \/ Has(messages', "amp")
    BY <1>1, <1>2, <2>1 DEF Kept
  <2> QED
    BY <1>3, <1>4, <2>1, <2>2 DEF Kept
<1>6. CASE /\ ~mRecorder' /\ thread' = NoThread
           /\ UNCHANGED <<durations, reported, captured, mRecording>>
           /\ UNCHANGED <<heard, hasty, odd>>
  <2>1. Last' = Last /\ (Undone' => Undone) /\ thread'.pc = "none"
    BY <1>6 DEF Last, Undone, NoThread
  <2>2. mRecording' \in {0, Last'}
    BY <1>6, <2>1 DEF Kept
  <2>3. Undone' => /\ mRecording' = Last' /\ Pending'
                   /\ mLastAmplitudes' # -1 \/ Has(messages', "amp")
    BY <1>1, <1>2, <1>4, <1>6, <2>1 DEF Kept
  <2> QED
    BY <1>3, <1>6, <2>1, <2>2, <2>3 DEF Kept
<1> QED
  BY <1>5, <1>6, JoinEffect

LEMMA KeptStart ==
  ASSUME Types, Kept, StartRecording, ~mRecorder
  PROVE  Kept'
<1>1. /\ messages # <<>> /\ messages \in Seq(Messages)
      /\ messages[1].what = "start" /\ messages' = Tail(messages)
      /\ EndPending \in BOOLEAN /\ Begin(EndPending)
      /\ EndPending <=> Pending
      /\ UNCHANGED <<mAmplitudes, mLastAmplitudes>>
  BY StartEffect
<1>2. /\ Has(messages', "amp") <=> Has(messages, "amp")
      /\ AmpsPositive(messages) => AmpsPositive(messages')
  BY <1>1, TailAside DEF Keeps
<1>3. /\ mRecording' = Last' /\ (Undone' => Undone) /\ thread'.rec = Last'
      /\ hasty' = EndPending /\ mRecorder'
      /\ ~Undone => captured'[Last'] = 0
  BY <1>1, BeginEffect
<1>4. Pending'
  BY <1>3 DEF Pending
<1>5. /\ mRecorder' \/ AmpsFollowed(messages')
      /\ AmpsPositive(messages') /\ mLastAmplitudes' # 0 /\ mAmplitudes' # 0
  BY <1>1, <1>2, <1>3 DEF Kept
<1>6. Undone' => mLastAmplitudes' # -1 \/ Has(messages', "amp")
  BY <1>1, <1>2, <1>3 DEF Kept
<1>7. ~hasty' => captured'[thread'.rec] = 0
  <2>1. ~Pending => ~Undone
    BY DEF Kept
  <2> QED
    BY <1>1, <1>3, <2>1
<1> QED
  BY <1>3, <1>4, <1>5, <1>6, <1>7 DEF Kept

LEMMA KeptAmp ==
  ASSUME Types, Kept, HandleAmp
  PROVE  Kept'
<1>1. /\ messages # <<>> /\ messages \in Seq(Messages)
      /\ messages[1].what = "amp" /\ messages[1].pos \in Nat
      /\ 1 \in 1..Len(messages)
      /\ messages' = Append(Tail(messages), AmpUp)
      /\ Tail(messages) \in Seq(Messages)
      /\ AmpUp \in Messages /\ AmpUp.what = "ampUp"
      /\ mLastAmplitudes' = messages[1].pos
      /\ UNCHANGED <<durations, mRecording, mRecorder, mAmplitudes, thread>>
      /\ UNCHANGED <<reported, captured, hasty>>
      /\ Has(messages', "end") <=> Has(messages, "end")
  BY AmpEffect
<1>2. messages[1].pos >= 1
  BY <1>1 DEF Kept, AmpsPositive
<1>3. /\ AmpsPositive(messages) => AmpsPositive(messages')
      /\ AmpsFollowed(messages) => AmpsFollowed(messages')
  <2>1. /\ AmpsPositive(messages) => AmpsPositive(Tail(messages))
        /\ AmpsFollowed(messages) => AmpsFollowed(Tail(messages))
    BY <1>1, TailAny
  <2>2. /\ AmpsPositive(Tail(messages)) => AmpsPositive(messages')
        /\ AmpsFollowed(Tail(messages)) => AmpsFollowed(messages')
    BY <1>1, AppendKeeps
  <2> QED
    BY <2>1, <2>2
<1>4. Last' = Last /\ (Undone' <=> Undone) /\ (Pending' <=> Pending)
  BY <1>1 DEF Last, Undone, Pending
<1>5. /\ mRecording' \in {0, Last'}
      /\ mRecorder' => thread'.rec = Last'
      /\ mRecorder' /\ durations'[Last'] = 0 => mRecording' = Last'
  BY <1>1, <1>4 DEF Kept
<1>6. /\ mRecorder' \/ AmpsFollowed(messages')
      /\ AmpsPositive(messages') /\ mAmplitudes' # 0
  BY <1>1, <1>3 DEF Kept
<1>7. mLastAmplitudes' # 0 /\ mLastAmplitudes' # -1
  BY <1>1, <1>2
<1>8. Undone' => mRecording' = Last' /\ Pending'
  BY <1>1, <1>4 DEF Kept
<1>9. ~hasty' /\ thread'.pc \in {"new", "encoder"} => captured'[thread'.rec] = 0
  BY <1>1 DEF Kept
<1> QED
  BY <1>5, <1>6, <1>7, <1>8, <1>9 DEF Kept

LEMMA KeptEnd ==
  ASSUME Types, Kept, HandleEnd
  PROVE  Kept'
<1>1. /\ messages # <<>> /\ messages \in Seq(Messages)
      /\ Tail(messages) \in Seq(Messages)
      /\ messages' = Append(Tail(messages), Msg("endUp"))
      /\ Aside(Msg("endUp"))
      /\ \A w \in {"amp", "end"} : Has(messages', w) <=> Has(Tail(messages), w)
      /\ Has(messages', "amp") <=> Has(messages, "amp")
  BY EndQueue
<1>2. /\ mLastAmplitudes' = -1 <=> mLastAmplitudes = -1
      /\ mLastAmplitudes' # 0 /\ mAmplitudes' # 0
      /\ Last' = Last /\ UNCHANGED <<reported, captured, mRecorder, thread>>
      /\ UNCHANGED hasty
      /\ Stores \/ Skips
  BY EndEffect
<1>3. /\ AmpsPositive(messages) => AmpsPositive(messages')
      /\ AmpsFollowed(messages) => AmpsFollowed(messages')
  <2>1. /\ AmpsPositive(messages) => AmpsPositive(Tail(messages))
        /\ AmpsFollowed(messages) => AmpsFollowed(Tail(messages))
    BY <1>1, TailAny
  <2>2. /\ AmpsPositive(Tail(messages)) => AmpsPositive(messages')
        /\ AmpsFollowed(Tail(messages)) => AmpsFollowed(messages')
    BY <1>1, AppendAside DEF Keeps
  <2> QED
    BY <2>1, <2>2
<1>4. /\ mRecorder' \/ AmpsFollowed(messages')
      /\ AmpsPositive(messages')
  BY <1>2, <1>3 DEF Kept
<1>5. mRecording' \in {0, Last'} /\ (mRecorder' => thread'.rec = Last')
  BY <1>2 DEF Kept, Stores, Skips
<1>6. ASSUME durations'[Last'] = 0 PROVE Skips
  BY <1>2, <1>6 DEF Stores
<1>7. mRecorder' /\ durations'[Last'] = 0 => mRecording' = Last'
  BY <1>2, <1>6 DEF Kept, Skips
<1>8. ASSUME Undone'
      PROVE  /\ mRecording' = Last' /\ Pending'
             /\ mLastAmplitudes' # -1 \/ Has(messages', "amp")
  <2>1. Skips
    BY <1>6, <1>8 DEF Undone
  <2>2. Undone
    BY <1>2, <1>8, <2>1 DEF Undone, Skips
  <2>3. mRecording = Last /\ (mLastAmplitudes # -1 \/ Has(messages, "amp"))
    BY <2>2 DEF Kept
  <2>4. mRecording # 0
    <3>1. Last # 0
      BY <2>2, Counts DEF Undone
    <3> QED
      BY <2>3, <3>1
  <2>5. Has(messages', "amp")
    BY <1>1, <2>1, <2>3, <2>4 DEF Skips
  <2>6. mRecorder' \/ Has(messages', "end")
    BY <1>4, <2>5, FollowedHas
  <2> QED
    BY <1>2, <2>1, <2>3, <2>5, <2>6 DEF Skips, Pending
<1>9. ~hasty' /\ thread'.pc \in {"new", "encoder"} => captured'[thread'.rec] = 0
  BY <1>2 DEF Kept
<1> QED
  BY <1>2, <1>4, <1>5, <1>7, <1>8, <1>9 DEF Kept

LEMMA KeptNext ==
  ASSUME Types, Types', Kept, [Next]_vars
  PROVE  Kept'
  BY Steps, KeptCalm, KeptOpen, KeptRecord, KeptJoin, KeptStart, KeptAmp,
     KeptEnd

(***************************************************************************)
(* Told.                                                                   *)
(***************************************************************************)
LEMMA DivMonotone ==
  ASSUME NEW a \in Nat, NEW b \in Nat, a <= b, NEW s \in Nat \ {0}
  PROVE  ~(b \div s < a \div s)
  OBVIOUS

LEMMA Amounts ==
  ASSUME Types
  PROVE  /\ Offset \in Nat /\ Known \in Nat /\ Sum(captured) \in Nat
         /\ thread.position \in Nat /\ messages \in Seq(Messages)
<1>1. Offset \in Nat /\ Known \in Nat
  BY DEF Types, Statistics, Offset, Known
<1>2. Sum(captured) \in Nat
  BY SumNat DEF Types, Bookkeeping
<1> QED
  BY <1>1, <1>2 DEF Types, Running, Threads, Queued

LEMMA InitTold == Init => Told /\ ~behind
<1> SUFFICES ASSUME Init PROVE Told /\ ~behind
  OBVIOUS
<1>1. messages = <<>> /\ Len(messages) = 0
  BY DEF Init
<1>2. Sum(captured) = 0 /\ thread.position = 0 /\ Offset = 0 /\ Known = 0
  BY SumEmpty DEF Init, NoThread, Offset, Known
<1>3. AmpsOk(messages, 0) /\ EndsOk(messages, 0, 0) /\ UpsOk(messages)
  BY <1>1 DEF AmpsOk, EndsOk, UpsOk
<1>4. EndOk(messages, 0, 0, 0, 0) /\ BaseOk(messages, 0, 0, 0, 0)
  BY DEF EndOk, BaseOk
<1>5. ChainOk(messages, 0, 0, 0, 0)
  BY <1>1, <1>3, <1>4 DEF ChainOk
<1> QED
  BY <1>2, <1>5 DEF Told, Init

LEMMA ToldCalm ==
  ASSUME Types, Types', Told, Calm
  PROVE  Told'
<1>1. /\ UNCHANGED <<captured, mAmplitudes, mLastAmplitudes>>
      /\ thread.position <= thread'.position
      /\ KeepsChain(messages, messages')
  BY DEF Calm
<1>2. Offset' = Offset /\ Known' = Known
  BY <1>1 DEF Offset, Known
<1>3. ChainOk(messages', Offset, Known, Sum(captured), thread.position)
  BY <1>1, Amounts DEF KeepsChain, Told
<1>4. /\ Offset \in Nat /\ Known \in Nat /\ Sum(captured) \in Nat
      /\ thread.position \in Nat
  BY Amounts
<1>5. thread'.position \in Nat /\ messages' \in Seq(Messages)
  BY DEF Types, Running, Threads, Queued
<1>6. Sum(captured) <= Sum(captured)
  BY <1>4
<1>7. ChainOk(messages', Offset, Known, Sum(captured), thread'.position)
  BY <1>1, <1>3, <1>4, <1>5, <1>6, ChainWeaken
<1> QED
  BY <1>1, <1>2, <1>7 DEF Told

LEMMA ToldOpen ==
  ASSUME Types, Kept, Told, MakeEncoder, thread' = OpenEncoder(thread)
  PROVE  Told'
<1>1. /\ thread'.position = thread.position
      /\ Sum(captured') <= Sum(captured)
      /\ Sum(captured') \in Nat /\ Sum(captured) \in Nat
      /\ UNCHANGED <<messages, mAmplitudes, mLastAmplitudes>>
  BY OpenEffect
<1>2. Offset' = Offset /\ Known' = Known
  BY <1>1 DEF Offset, Known
<1>3. /\ Offset \in Nat /\ Known \in Nat /\ thread.position \in Nat
      /\ messages \in Seq(Messages)
  BY Amounts
<1>4. thread.position <= thread.position
  BY <1>3
<1>5. ChainOk(messages, Offset, Known, Sum(captured'), thread.position)
  BY <1>1, <1>3, <1>4, ChainWeaken DEF Told
<1> QED
  BY <1>1, <1>2, <1>5 DEF Told

LEMMA ToldRecord ==
  ASSUME Types, Types', Kept, Told, Record
  PROVE  Told'
<1>1. /\ messages \in Seq(Messages) /\ messages' = Append(messages, RecAmp)
      /\ RecAmp \in Messages /\ RecAmp.what = "amp"
      /\ RecAmp.pos = thread.position + 1
      /\ RecAmp.real = Sum(captured) + 1 /\ Sum(captured') = Sum(captured) + 1
      /\ thread'.position = thread.position + 1
      /\ UNCHANGED <<mAmplitudes, mLastAmplitudes>>
  BY RecordEffect
<1>2. Offset' = Offset /\ Known' = Known
  BY <1>1 DEF Offset, Known
<1>3. /\ Offset \in Nat /\ Known \in Nat /\ thread.position \in Nat
      /\ Sum(captured) \in Nat
  BY Amounts
<1>4. ChainOk(Append(messages, RecAmp), Offset, Known, Sum(captured) + 1,
              thread.position + 1)
  BY <1>1, <1>3, ChainAppendAmp DEF Told
<1> QED
  BY <1>1, <1>2, <1>4 DEF Told

LEMMA ToldJoin ==
  ASSUME Types, Told, JoinReturns
  PROVE  Told'
<1>1. /\ messages \in Seq(Messages) /\ messages' = Append(messages, EndMsg)
      /\ EndMsg \in Messages /\ EndMsg.what = "end"
      /\ EndMsg.real = Sum(captured)
      /\ UNCHANGED <<mAmplitudes, mLastAmplitudes>>
      /\ \/ Begin(TRUE)
         \/ thread' = NoThread /\ UNCHANGED captured
  BY JoinEffect
<1>2. Offset' = Offset /\ Known' = Known
  BY <1>1 DEF Offset, Known
<1>3. /\ Offset \in Nat /\ Known \in Nat /\ thread.position \in Nat
      /\ Sum(captured) \in Nat
  BY Amounts
<1>4. ChainOk(Append(messages, EndMsg), Offset, Known, Sum(captured), 0)
  BY <1>1, <1>3, ChainAppendEnd DEF Told
<1>5. Sum(captured') = Sum(captured) /\ thread'.position = 0
  <2>1. CASE Begin(TRUE)
    BY <2>1, BeginEffect
  <2>2. CASE thread' = NoThread /\ UNCHANGED captured
    BY <2>2 DEF NoThread
  <2> QED
    BY <1>1, <2>1, <2>2
<1> QED
  BY <1>1, <1>2, <1>4, <1>5 DEF Told

LEMMA ToldStart ==
  ASSUME Types, Told, StartRecording, ~mRecorder
  PROVE  Told'
<1>1. /\ messages # <<>> /\ messages \in Seq(Messages)
      /\ messages[1].what = "start" /\ messages' = Tail(messages)
      /\ EndPending \in BOOLEAN /\ Begin(EndPending)
      /\ UNCHANGED <<mAmplitudes, mLastAmplitudes>>
  BY StartEffect
<1>2. Offset' = Offset /\ Known' = Known
  BY <1>1 DEF Offset, Known
<1>3. thread.position = 0
  BY DEF Types, Running, NoThread
<1>4. Sum(captured') = Sum(captured) /\ thread'.position = 0
  BY <1>1, BeginEffect
<1>5. KeepsChain(messages, Tail(messages))
  BY <1>1, TailAside
<1>6. ChainOk(Tail(messages), Offset, Known, Sum(captured), 0)
  BY <1>3, <1>5, Amounts DEF KeepsChain, Told
<1> QED
  BY <1>1, <1>2, <1>4, <1>6 DEF Told

LEMMA ToldAmp ==
  ASSUME Types, Told, HandleAmp
  PROVE  Told'
<1>1. /\ messages # <<>> /\ messages \in Seq(Messages)
      /\ messages[1].what = "amp" /\ messages[1].pos \in Nat
      /\ messages[1].real \in Nat /\ Offset \in Nat
      /\ messages' = Append(Tail(messages), AmpUp)
      /\ Tail(messages) \in Seq(Messages)
      /\ AmpUp \in Messages /\ AmpUp.what = "ampUp"
      /\ AmpUp.pos = messages[1].pos + Offset
      /\ AmpUp.real = messages[1].real
      /\ mLastAmplitudes' = messages[1].pos
      /\ UNCHANGED <<mAmplitudes, thread, captured>>
  BY AmpEffect
<1> DEFINE pos == messages[1].pos
<1>2. Offset' = Offset /\ Known' = pos
  BY <1>1 DEF Offset, Known
<1>3. /\ Offset \in Nat /\ Known \in Nat /\ thread.position \in Nat
      /\ Sum(captured) \in Nat
  BY Amounts
<1>4. Takes(messages[1], Offset, Known, Offset, pos)
  BY <1>1, <1>3 DEF Takes, Covers
<1>5. ChainOk(Tail(messages), Offset, pos, Sum(captured), thread.position)
  BY <1>1, <1>3, <1>4, ChainTail DEF Told
<1>6. messages[1].real <= Offset + pos
  BY <1>1, ChainHead, Amounts DEF Told
<1>7. AmpUp.real <= AmpUp.pos
  BY <1>1, <1>6
<1>8. ChainOk(Append(Tail(messages), AmpUp), Offset, pos, Sum(captured),
              thread.position)
  BY <1>1, <1>3, <1>5, <1>7, ChainAppendOther
<1> QED
  BY <1>1, <1>2, <1>8 DEF Told

LEMMA ToldEnd ==
  ASSUME Types, Types', Kept, Told, HandleEnd
  PROVE  Told'
<1>1. /\ messages # <<>> /\ messages \in Seq(Messages)
      /\ messages[1].what = "end" /\ Tail(messages) \in Seq(Messages)
      /\ messages' = Append(Tail(messages), Msg("endUp"))
      /\ Aside(Msg("endUp"))
  BY EndQueue
<1>2. /\ Offset' = Offset + Known /\ Known \in Nat /\ Offset \in Nat
      /\ UNCHANGED <<captured, thread>>
  BY EndEffect
<1>3. thread.position \in Nat /\ Sum(captured) \in Nat
  BY Amounts
<1>4. Known' \in Nat
  BY DEF Types, Statistics, Known
<1> DEFINE new == Offset + Known
           known == Known'
<1>5. messages[1].real <= new /\ messages[1].real \in Nat
  BY <1>1, <1>2, ChainHead, HeadType, Amounts DEF Told
<1>6. new \in Nat /\ known \in Nat
  BY <1>2, <1>4
<1> HIDE DEF new, known
<1>7. Takes(messages[1], Offset, Known, new, known)
  BY <1>1, <1>5, <1>6 DEF Takes, Covers
<1>8. ChainOk(Tail(messages), new, known, Sum(captured), thread.position)
  BY <1>1, <1>2, <1>3, <1>6, <1>7, ChainTail DEF Told
<1>9. ChainOk(Append(Tail(messages), Msg("endUp")), new, known, Sum(captured),
              thread.position)
  BY <1>1, <1>3, <1>6, <1>8, ChainAppendOther DEF Aside
<1> QED
  BY <1>1, <1>2, <1>9 DEF Told, new, known

\* A position that is shown was told by amplitudes that have been handled.
LEMMA NotBehind ==
  ASSUME Types, Told, ~behind, [Next]_vars
  PROVE  ~behind'
<1>1. CASE HandleAmpUp
  <2>1. messages # <<>> /\ Head(messages) = messages[1]
    BY <1>1, HeadType DEF HandleAmpUp, Take
  <2>2. messages[1].what = "ampUp"
    BY <1>1, <2>1 DEF HandleAmpUp, Take
  <2>3. /\ messages[1].real <= messages[1].pos
        /\ messages[1].real \in Nat /\ messages[1].pos \in Nat
    BY <2>1, <2>2, Amounts, ChainHead, HeadType DEF Told
  <2>4. mRecordingOffset \in Nat /\ Second \in Nat \ {0}
    BY RecorderAssumption DEF Types, Bounded
  <2> DEFINE a == messages[1].real
             b == mRecordingOffset + messages[1].pos
  <2>5. a \in Nat /\ b \in Nat /\ a <= b
    BY <2>3, <2>4
  <2> HIDE DEF a, b
  <2>6. ~(b \div Second < a \div Second)
    BY <2>4, <2>5, DivMonotone
  <2>7. behind' = (behind \/ b \div Second < a \div Second)
    BY <1>1, <2>1 DEF HandleAmpUp, a, b
  <2> QED
    BY <2>6, <2>7
<1>2. CASE UserStep
  BY <1>2, UserCalm
<1>3. CASE ThreadStep
  BY <1>3, ThreadCalm
<1>4. CASE UNCHANGED vars
  BY <1>4 DEF vars
<1>5. CASE JoinReturns \/ StartRecording \/ HandleAmp \/ HandleEnd
             \/ HandleOther \/ HandleErrorUp \/ HandleLast
  BY <1>5 DEF JoinReturns, StartRecording, HandleAmp, HandleEnd, HandleOther,
              HandleErrorUp, HandleLast
<1> QED
  BY <1>1, <1>2, <1>3, <1>4, <1>5 DEF Next, MainStep

LEMMA ToldNext ==
  ASSUME Types, Types', Kept, Told, [Next]_vars
  PROVE  Told'
  BY Steps, ToldCalm, ToldOpen, ToldRecord, ToldJoin, ToldStart, ToldAmp,
     ToldEnd

(***************************************************************************)
(* Alone.                                                                  *)
(***************************************************************************)
LEMMA InitAlone == Init => Alone /\ Reported /\ Counted
<1> SUFFICES ASSUME Init PROVE Alone /\ Reported /\ Counted
  OBVIOUS
<1>1. /\ messages = <<>> /\ Len(messages) = 0 /\ Last = 0 /\ durations = <<>>
      /\ ~mRecorder /\ ~hasty /\ mAmplitudes = -1
  BY DEF Init, Last
<1>2. ~Has(messages, "end") /\ EndsLast(messages) /\ ~Pending
  BY <1>1 DEF Has, EndsLast, Pending
<1>3. Alone
  BY <1>1, <1>2 DEF Alone, One
<1>4. Reported /\ Counted
  BY <1>1 DEF Reported, Counted
<1> QED
  BY <1>3, <1>4

\* Nothing changes of what the last three invariants speak of but the queue.
Same ==
  /\ Last' = Last /\ (Pending' <=> Pending)
  /\ UNCHANGED <<durations, mRecording, reported, mRecorder, mAmplitudes>>
  /\ UNCHANGED <<hasty, odd>>

LEMMA SameReported ==
  ASSUME Reported, Counted, Same
  PROVE  Reported' /\ Counted'
<1>1. Reported'
  BY DEF Same, Reported
<1>2. TotalDuration' = TotalDuration
  BY DEF Same, TotalDuration
<1>3. Counted'
  BY <1>2 DEF Same, Counted
<1> QED
  BY <1>1, <1>3

LEMMA CalmSame ==
  ASSUME Calm
  PROVE  /\ Same /\ UNCHANGED <<mLastAmplitudes, aliased, heard>>
         /\ Has(messages', "end") <=> Has(messages, "end")
         /\ EndsLast(messages) => EndsLast(messages')
         /\ \A h, l, v : Tells(messages, h, l, v) => Tells(messages', h, l, v)
<1>1. /\ UNCHANGED <<durations, mRecording, reported, mRecorder, mAmplitudes>>
      /\ UNCHANGED <<hasty, odd, mLastAmplitudes, aliased, heard>>
  BY DEF Calm
<1>2. /\ Has(messages', "end") <=> Has(messages, "end")
      /\ EndsLast(messages) => EndsLast(messages')
      /\ \A h, l, v : Tells(messages, h, l, v) => Tells(messages', h, l, v)
  BY DEF Calm, Keeps
<1>3. Last' = Last /\ (Pending' <=> Pending)
  BY <1>1, <1>2 DEF Last, Pending
<1>4. Same
  BY <1>1, <1>3 DEF Same
<1> QED
  BY <1>1, <1>2, <1>4

LEMMA AloneCalm ==
  ASSUME Alone, Calm
  PROVE  Alone'
<1>1. /\ UNCHANGED <<mLastAmplitudes, aliased, heard>>
      /\ Has(messages', "end") <=> Has(messages, "end")
      /\ EndsLast(messages) => EndsLast(messages')
      /\ \A h, l, v : Tells(messages, h, l, v) => Tells(messages', h, l, v)
  BY CalmSame
<1>2. /\ Last' = Last /\ (Pending' <=> Pending)
      /\ UNCHANGED <<durations, mRecording, reported, mRecorder, hasty, odd>>
  BY CalmSame DEF Same
<1>3. ASSUME One PROVE One'
  <2>1. (mRecorder' => ~Has(messages', "end")) /\ EndsLast(messages')
    BY <1>1, <1>2, <1>3 DEF One
  <2>2. ASSUME Pending'
        PROVE  /\ mRecording' = Last' /\ durations' # <<>> /\ durations'[Last'] = 0
               /\ Tells(messages', heard', mLastAmplitudes', reported'[Last'])
               /\ heard' => ~aliased' /\ mLastAmplitudes' # -1
    BY <1>1, <1>2, <1>3, <2>2 DEF One
  <2> QED
    BY <2>1, <2>2 DEF One
<1> QED
  BY <1>2, <1>3 DEF Alone

LEMMA OpenSame ==
  ASSUME Types, Kept, MakeEncoder, thread' = OpenEncoder(thread)
  PROVE  Same /\ UNCHANGED <<messages, mLastAmplitudes, aliased, heard>>
<1>1. /\ Last' = Last
      /\ UNCHANGED <<messages, reported, durations, mRecording, mRecorder>>
      /\ UNCHANGED <<mAmplitudes, mLastAmplitudes, aliased, heard, hasty, odd>>
  BY OpenEffect
<1>2. Pending' <=> Pending
  BY <1>1 DEF Pending
<1> QED
  BY <1>1, <1>2 DEF Same

LEMMA AloneOpen ==
  ASSUME Types, Kept, Alone, MakeEncoder, thread' = OpenEncoder(thread)
  PROVE  Alone'
<1>1. /\ Last' = Last /\ (Pending' <=> Pending)
      /\ UNCHANGED <<messages, mLastAmplitudes, aliased, heard>>
      /\ UNCHANGED <<durations, mRecording, reported, mRecorder, hasty, odd>>
  BY OpenSame DEF Same
<1>2. One => One'
  BY <1>1 DEF One
<1> QED
  BY <1>1, <1>2 DEF Alone

LEMMA AloneRecord ==
  ASSUME Types, Types', Kept, Alone, Record
  PROVE  Alone'
<1>1. /\ messages \in Seq(Messages) /\ messages' = Append(messages, RecAmp)
      /\ RecAmp \in Messages /\ RecAmp.what = "amp"
      /\ RecAmp.pos = thread.position + 1
      /\ mRecorder /\ mRecorder' /\ Last' = Last
      /\ reported'[Last] = thread.position + 1
      /\ UNCHANGED <<durations, mRecording>>
      /\ UNCHANGED <<mLastAmplitudes, aliased, heard, hasty, odd>>
  BY RecordEffect
<1>2. Pending /\ Pending'
  BY <1>1 DEF Pending
<1>3. ASSUME One PROVE One'
  <2>1. /\ ~Has(messages, "end") /\ EndsLast(messages)
        /\ mRecording = Last /\ durations # <<>> /\ durations[Last] = 0
        /\ heard => ~aliased /\ mLastAmplitudes # -1
    BY <1>1, <1>2, <1>3 DEF One
  <2>2. ~Has(messages', "end")
    BY <1>1, <2>1, AppendAmp
  <2>3. EndsLast(messages')
    BY <1>1, <2>1, AppendEnds
  <2>4. Tells(messages', heard, mLastAmplitudes, RecAmp.pos)
    BY <1>1, AppendAmp
  <2>5. Tells(messages', heard', mLastAmplitudes', reported'[Last'])
    BY <1>1, <2>4
  <2> QED
    BY <1>1, <2>1, <2>2, <2>3, <2>5 DEF One
<1> QED
  BY <1>1, <1>3 DEF Alone

LEMMA AloneJoin ==
  ASSUME Types, Alone, JoinReturns
  PROVE  Alone'
<1>1. /\ messages \in Seq(Messages) /\ messages' = Append(messages, EndMsg)
      /\ EndMsg \in Messages /\ EndMsg.what = "end" /\ mRecorder
      /\ UNCHANGED <<mLastAmplitudes, aliased>>
  BY JoinEffect
<1>2. CASE Begin(TRUE)
  <2>1. hasty' = TRUE /\ odd' = odd \cup {Last'}
    BY <1>2, BeginEffect
  <2> QED
    BY <2>1 DEF Alone
<1>3. CASE /\ ~mRecorder' /\ thread' = NoThread
           /\ UNCHANGED <<durations, reported, captured, mRecording>>
           /\ UNCHANGED <<heard, hasty, odd>>
  <2>1. Last' = Last /\ Pending
    BY <1>1, <1>3 DEF Last, Pending
  <2>2. ASSUME One PROVE One'
    <3>1. /\ ~Has(messages, "end") /\ EndsLast(messages)
          /\ mRecording = Last /\ durations # <<>> /\ durations[Last] = 0
          /\ Tells(messages, heard, mLastAmplitudes, reported[Last])
          /\ heard => ~aliased /\ mLastAmplitudes # -1
      BY <1>1, <2>1, <2>2 DEF One
    <3>2. EndsLast(messages')
      BY <1>1, <3>1, AppendEnds
    <3>3. Tells(messages', heard, mLastAmplitudes, reported[Last])
      BY <1>1, <3>1, AppendKeeps
    <3>4. Tells(messages', heard', mLastAmplitudes', reported'[Last'])
      BY <1>1, <1>3, <2>1, <3>3
    <3>5. /\ mRecording' = Last' /\ durations' # <<>> /\ durations'[Last'] = 0
          /\ heard' => ~aliased' /\ mLastAmplitudes' # -1
      BY <1>1, <1>3, <2>1, <3>1
    <3> QED
      BY <1>3, <3>2, <3>4, <3>5 DEF One
  <2> QED
    BY <1>3, <2>1, <2>2 DEF Alone
<1> QED
  BY <1>2, <1>3, JoinEffect

LEMMA AloneStart ==
  ASSUME Types, Kept, Alone, StartRecording, ~mRecorder
  PROVE  Alone'
<1>1. /\ messages # <<>> /\ messages \in Seq(Messages)
      /\ messages[1].what = "start" /\ messages' = Tail(messages)
      /\ EndPending \in BOOLEAN /\ Begin(EndPending)
      /\ EndPending <=> Pending
  BY StartEffect
<1>2. /\ Last' \in Nat \ {0} /\ mRecording' = Last' /\ durations' # <<>>
      /\ durations'[Last'] = 0 /\ ~heard' /\ hasty' = EndPending
      /\ odd' = IF EndPending THEN odd \cup {Last'} ELSE odd
  BY <1>1, BeginEffect
<1>3. CASE EndPending
  BY <1>2, <1>3 DEF Alone
<1>4. CASE ~EndPending
  <2>1. ~Has(messages, "end") /\ ~Has(messages, "amp")
    BY <1>1, <1>4, FollowedHas DEF Pending, Kept
  <2>2. ~Has(messages', "end") /\ ~Has(messages', "amp")
    BY <1>1, <2>1, TailHas
  <2>3. EndsLast(messages')
    BY <2>2 DEF EndsLast, Has
  <2>4. Tells(messages', heard', mLastAmplitudes', reported'[Last'])
    BY <1>2, <2>2 DEF Tells, Newest, Has
  <2>5. One'
    BY <1>2, <2>2, <2>3, <2>4 DEF One
  <2> QED
    BY <1>2, <1>4, <2>5 DEF Alone
<1> QED
  BY <1>3, <1>4

LEMMA AmpSame ==
  ASSUME Types, HandleAmp
  PROVE  Same
<1>1. /\ UNCHANGED <<durations, mRecording, mRecorder, mAmplitudes, thread>>
      /\ UNCHANGED <<reported, captured, hasty, odd, behind>>
      /\ Has(messages', "end") <=> Has(messages, "end")
  BY AmpEffect
<1>2. Last' = Last /\ (Pending' <=> Pending)
  BY <1>1 DEF Last, Pending
<1> QED
  BY <1>1, <1>2 DEF Same

LEMMA AloneAmp ==
  ASSUME Types, Alone, HandleAmp
  PROVE  Alone'
<1>1. /\ messages # <<>> /\ messages \in Seq(Messages)
      /\ messages[1].what = "amp" /\ messages[1].pos \in Nat
      /\ messages' = Append(Tail(messages), AmpUp)
      /\ Tail(messages) \in Seq(Messages)
      /\ AmpUp \in Messages /\ AmpUp.what = "ampUp"
      /\ mLastAmplitudes' = messages[1].pos /\ ~aliased' /\ heard'
      /\ Has(messages', "end") <=> Has(messages, "end")
  BY AmpEffect
<1>2. /\ Last' = Last /\ (Pending' <=> Pending)
      /\ UNCHANGED <<durations, mRecording, reported, mRecorder, hasty, odd>>
  BY AmpSame DEF Same
<1>3. ASSUME One PROVE One'
  <2>1. (mRecorder' => ~Has(messages', "end")) /\ EndsLast(messages)
    BY <1>1, <1>2, <1>3 DEF One
  <2>2. EndsLast(messages')
    <3>1. EndsLast(Tail(messages))
      BY <1>1, <2>1, TailAny
    <3> QED
      BY <1>1, <3>1, AppendEnds
  <2>3. ASSUME Pending'
        PROVE  /\ mRecording' = Last' /\ durations' # <<>> /\ durations'[Last'] = 0
               /\ Tells(messages', heard', mLastAmplitudes', reported'[Last'])
               /\ heard' => ~aliased' /\ mLastAmplitudes' # -1
    <3>1. /\ mRecording = Last /\ durations # <<>> /\ durations[Last] = 0
          /\ Tells(messages, heard, mLastAmplitudes, reported[Last])
      BY <1>2, <1>3, <2>3 DEF One
    <3>2. Tells(Tail(messages), TRUE, messages[1].pos, reported[Last])
      BY <1>1, <3>1, TailAmp
    <3>3. Tells(messages', TRUE, messages[1].pos, reported[Last])
      BY <1>1, <3>2, AppendKeeps
    <3>4. heard' = TRUE
      BY <1>1 DEF HandleAmp
    <3>5. Tells(messages', heard', mLastAmplitudes', reported'[Last'])
      BY <1>1, <1>2, <3>3, <3>4
    <3>6. mRecording' = Last' /\ durations' # <<>> /\ durations'[Last'] = 0
      BY <1>2, <3>1
    <3>7. heard' => ~aliased' /\ mLastAmplitudes' # -1
      BY <1>1
    <3> QED
      BY <3>5, <3>6, <3>7
  <2> QED
    BY <2>1, <2>2, <2>3 DEF One
<1> QED
  BY <1>2, <1>3 DEF Alone

\* The END of a recorder that is alone leaves nothing to come.
LEMMA EndAlone ==
  ASSUME Types, One, HandleEnd
  PROVE  /\ ~mRecorder /\ Pending /\ ~Has(messages, "amp")
         /\ ~Has(messages', "end") /\ EndsLast(messages')
         /\ mRecording = Last /\ durations # <<>> /\ durations[Last] = 0
         /\ heard => /\ mLastAmplitudes = reported[Last]
                     /\ mLastAmplitudes # -1
                     /\ mLastAmplitudes' = mLastAmplitudes
<1>1. /\ messages # <<>> /\ messages \in Seq(Messages)
      /\ messages[1].what = "end" /\ Tail(messages) \in Seq(Messages)
      /\ messages' = Append(Tail(messages), Msg("endUp"))
      /\ Aside(Msg("endUp"))
      /\ \A w \in {"amp", "end"} : Has(messages', w) <=> Has(Tail(messages), w)
      /\ Has(messages, "end")
  BY EndQueue
<1>2. ~mRecorder /\ Pending /\ EndsLast(messages)
  BY <1>1 DEF One, Pending
<1>3. /\ ~Has(messages, "amp") /\ ~Has(Tail(messages), "end")
      /\ EndsLast(Tail(messages))
  BY <1>1, <1>2, TailEnd, TailAny
<1>4. ~Has(messages', "end")
  BY <1>1, <1>3
<1>5. EndsLast(messages')
  BY <1>1, <1>3, AppendAside DEF Keeps
<1>6. /\ mRecording = Last /\ durations # <<>> /\ durations[Last] = 0
      /\ Tells(messages, heard, mLastAmplitudes, reported[Last])
      /\ heard => ~aliased /\ mLastAmplitudes # -1
  BY <1>2 DEF One
<1>7. heard => mLastAmplitudes = reported[Last]
  BY <1>3, <1>6 DEF Tells
<1>8. ~aliased => mLastAmplitudes' = mLastAmplitudes
  BY DEF HandleEnd
<1> QED
  BY <1>2, <1>3, <1>4, <1>5, <1>6, <1>7, <1>8

LEMMA AloneEnd ==
  ASSUME Types, Kept, Alone, HandleEnd
  PROVE  Alone'
<1>1. /\ Last' = Last /\ UNCHANGED <<mRecorder, hasty>>
      /\ odd' = IF heard THEN odd ELSE odd \cup {Last}
  BY EndEffect
<1>2. ASSUME One PROVE One'
  <2>1. ~mRecorder' /\ ~Has(messages', "end") /\ EndsLast(messages')
    BY <1>1, <1>2, EndAlone
  <2> QED
    BY <2>1 DEF One, Pending
<1> QED
  BY <1>1, <1>2 DEF Alone

LEMMA AloneNext ==
  ASSUME Types, Types', Kept, Alone, [Next]_vars
  PROVE  Alone'
  BY Steps, AloneCalm, AloneOpen, AloneRecord, AloneJoin, AloneStart, AloneAmp,
     AloneEnd

(***************************************************************************)
(* Reported and Counted.                                                   *)
(***************************************************************************)
\* A recorder that follows one that was not odd at once takes its recording.
LEMMA FollowsAlone ==
  ASSUME Types, Alone, Pending, Last \notin odd
  PROVE  ReuseLast
<1>1. One
  BY DEF Alone
<1> QED
  BY <1>1 DEF One, ReuseLast, Last

LEMMA ReportedRecord ==
  ASSUME Types, Types', Kept, Reported, Counted, Record
  PROVE  Reported' /\ Counted'
<1>1. /\ mRecorder /\ mRecorder' /\ Last' = Last
      /\ \A i \in 1..Last : i # Last => reported'[i] = reported[i]
      /\ UNCHANGED <<durations, mAmplitudes, odd>>
  BY RecordEffect
<1>2. Pending /\ Pending' /\ TotalDuration' = TotalDuration
  BY <1>1 DEF Pending, TotalDuration
<1>3. Reported'
  BY <1>1, <1>2 DEF Reported
<1>4. Counted'
  BY <1>1, <1>2 DEF Counted
<1> QED
  BY <1>3, <1>4

LEMMA ReportedBegin ==
  ASSUME Types, Alone, Reported, NEW early \in BOOLEAN, Begin(early)
  PROVE  Reported'
<1>1. /\ \A i \in 1..Last' : i # Last' =>
           /\ i \in 1..Last /\ durations'[i] = durations[i]
           /\ reported'[i] = reported[i]
      /\ mRecorder' /\ odd \subseteq odd'
      /\ ReuseLast => Last' = Last
  BY BeginEffect
<1>2. Pending'
  BY <1>1 DEF Pending
<1>3. ASSUME NEW i \in 1..Last', i \notin odd', i # Last'
      PROVE  durations'[i] = reported'[i]
  <2>1. /\ i \in 1..Last /\ durations'[i] = durations[i]
        /\ reported'[i] = reported[i] /\ i \notin odd
    BY <1>1, <1>3
  <2>2. ~(Pending /\ i = Last)
    BY <1>1, <1>3, <2>1, FollowsAlone
  <2> QED
    BY <2>1, <2>2 DEF Reported
<1> QED
  BY <1>2, <1>3 DEF Reported

LEMMA ReportedJoin ==
  ASSUME Types, Alone, Reported, Counted, JoinReturns
  PROVE  Reported' /\ Counted'
<1>1. CASE Begin(TRUE)
  <2>1. odd' # {}
    BY <1>1, BeginEffect
  <2> QED
    BY <1>1, <2>1, ReportedBegin DEF Counted
<1>2. CASE /\ ~mRecorder' /\ thread' = NoThread
           /\ UNCHANGED <<durations, reported, captured, mRecording>>
           /\ UNCHANGED <<heard, hasty, odd>>
  <2>1. mRecorder /\ Has(messages', "end") /\ UNCHANGED mAmplitudes
    BY JoinEffect
  <2>2. /\ Pending /\ Pending' /\ TotalDuration' = TotalDuration
        /\ Last' = Last
    BY <1>2, <2>1 DEF Pending, TotalDuration, Last
  <2>3. Reported'
    BY <1>2, <2>2 DEF Reported
  <2>4. Counted'
    BY <1>2, <2>1, <2>2 DEF Counted
  <2> QED
    BY <2>3, <2>4
<1> QED
  BY <1>1, <1>2, JoinEffect

LEMMA CountedStart ==
  ASSUME Types, Counted, StartRecording, ~mRecorder
  PROVE  Counted'
<1>1. /\ EndPending \in BOOLEAN /\ Begin(EndPending)
      /\ (EndPending <=> Pending) /\ UNCHANGED mAmplitudes
  BY StartEffect
<1>2. /\ Last' \in Nat \ {0} /\ durations' # <<>>
      /\ Sum(durations') = Sum(durations)
      /\ \A i \in 1..Last' : i # Last' =>
           i \in 1..Last /\ durations'[i] = durations[i]
      /\ ReuseLast \/ Last' = Last + 1
      /\ mRecorder'
      /\ odd' = IF EndPending THEN odd \cup {Last'} ELSE odd
  BY <1>1, BeginEffect
<1>3. SUFFICES ASSUME odd' = {}
               PROVE  /\ \A i \in 1..Last' :
                           ~(Pending' /\ i = Last') => durations'[i] >= 1
                      /\ mAmplitudes' =
                           IF durations' = <<>> \/ (Pending' /\ Last' = 1) THEN -1
                           ELSE TotalDuration'
  BY DEF Counted
<1>4. odd = {} /\ ~Pending /\ Pending'
  BY <1>1, <1>2, <1>3 DEF Pending
<1>5. /\ \A i \in 1..Last : durations[i] >= 1
      /\ mAmplitudes = IF durations = <<>> THEN -1 ELSE TotalDuration
  BY <1>4 DEF Counted
<1>6. Last' = Last + 1
  <2>1. ASSUME ReuseLast PROVE FALSE
    BY <1>5, <2>1, Counts DEF ReuseLast, Last
  <2> QED
    BY <1>2, <2>1
<1>7. durations = <<>> <=> Last' = 1
  BY <1>6, Counts
<1>8. \A i \in 1..Last' : ~(Pending' /\ i = Last') => durations'[i] >= 1
  BY <1>2, <1>4, <1>5
<1>9. mAmplitudes' = IF durations' = <<>> \/ (Pending' /\ Last' = 1) THEN -1
                     ELSE TotalDuration'
  BY <1>1, <1>2, <1>4, <1>5, <1>7 DEF TotalDuration
<1> QED
  BY <1>8, <1>9

LEMMA ReportedEnd ==
  ASSUME Types, Kept, Alone, Reported, HandleEnd
  PROVE  Reported'
<1>1. /\ Last' = Last /\ UNCHANGED <<reported, mRecorder>>
      /\ odd' = IF heard THEN odd ELSE odd \cup {Last}
      /\ Stores \/ Skips
  BY EndEffect
<1>2. \A i \in 1..Last : i # Last => durations'[i] = durations[i]
  BY <1>1 DEF Stores, Skips
<1>3. ASSUME NEW i \in 1..Last, i \notin odd', i # Last
      PROVE  durations'[i] = reported[i]
  BY <1>1, <1>2, <1>3 DEF Reported
<1>4. ASSUME Last \in 1..Last, Last \notin odd'
      PROVE  durations'[Last] = reported[Last]
  <2>1. heard /\ Last \notin odd
    BY <1>1, <1>4
  <2>2. One
    BY <2>1 DEF Alone
  <2>3. /\ mRecording = Last /\ mLastAmplitudes # -1
        /\ mLastAmplitudes = reported[Last] /\ mLastAmplitudes' = mLastAmplitudes
    BY <2>1, <2>2, EndAlone
  <2>4. mRecording # 0
    BY <1>4, <2>3, Counts
  <2>5. durations'[Last] = mLastAmplitudes'
    BY <1>1, <2>3, <2>4 DEF Stores, Skips
  <2> QED
    BY <2>3, <2>5
<1>5. \A i \in 1..Last : i \notin odd' => durations'[i] = reported[i]
  BY <1>3, <1>4
<1> QED
  BY <1>1, <1>5 DEF Reported

LEMMA CountedEnd ==
  ASSUME Types, Types', Kept, Alone, Counted, HandleEnd
  PROVE  Counted'
<1>1. /\ Last' = Last /\ UNCHANGED <<reported, mRecorder>>
      /\ odd' = IF heard THEN odd ELSE odd \cup {Last}
      /\ Stores \/ Skips
  BY EndEffect
<1>2. SUFFICES ASSUME odd' = {}
               PROVE  /\ \A i \in 1..Last' :
                           ~(Pending' /\ i = Last') => durations'[i] >= 1
                      /\ mAmplitudes' =
                           IF durations' = <<>> \/ (Pending' /\ Last' = 1) THEN -1
                           ELSE TotalDuration'
  BY DEF Counted
<1>3. heard /\ odd = {}
  BY <1>1, <1>2
<1>4. One
  BY <1>3 DEF Alone
<1>5. /\ ~mRecorder /\ Pending /\ ~Has(messages', "end")
      /\ mRecording = Last /\ durations # <<>> /\ durations[Last] = 0
      /\ mLastAmplitudes # -1 /\ mLastAmplitudes' = mLastAmplitudes
  BY <1>3, <1>4, EndAlone
<1>6. ~Pending'
  BY <1>1, <1>5 DEF Pending
<1>7. /\ durations \in Seq(Nat) /\ Len(durations) = Last /\ Last \in 1..Last
      /\ Last \in Nat \ {0}
  BY <1>5, Counts
<1>8. /\ durations' = [durations EXCEPT ![Last] = mLastAmplitudes]
      /\ durations'[Last] >= 1
      /\ \A i \in 1..Last : i # Last => durations'[i] = durations[i]
  BY <1>1, <1>5, <1>7 DEF Stores, Skips
<1>9. durations' # <<>>
  BY <1>1, <1>7, EmptySeq DEF Last
<1>10. mLastAmplitudes \in Nat /\ Sum(durations) \in Nat
  BY <1>5, <1>7, SumNat DEF Types, Statistics
<1>11. Sum(durations') = Sum(durations) + mLastAmplitudes
  <2> DEFINE v == mLastAmplitudes
  <2>1. v \in Nat /\ Last \in 1..Len(durations)
    BY <1>7, <1>10
  <2> HIDE DEF v
  <2>2. Sum([durations EXCEPT ![Last] = v]) = Sum(durations) + v - durations[Last]
    BY <1>7, <2>1, SumExcept
  <2>3. Sum(durations') = Sum(durations) + v - 0
    BY <1>5, <1>8, <2>2 DEF v
  <2> QED
    BY <1>10, <2>1, <2>3 DEF v
<1>12. \A i \in 1..Last : durations'[i] >= 1
  <2>1. \A i \in 1..Last : i # Last => durations[i] >= 1
    BY <1>3, <1>5 DEF Counted
  <2> QED
    BY <1>8, <2>1
<1>13. mAmplitudes = IF Last = 1 THEN -1 ELSE Sum(durations)
  BY <1>3, <1>5 DEF Counted, TotalDuration
<1>14. mAmplitudes' = Sum(durations')
  <2>1. CASE Last = 1
    <3>1. mAmplitudes' = mLastAmplitudes
      BY <1>13, <2>1 DEF HandleEnd
    <3>2. Sum(durations) = 0
      BY <1>5, <1>7, <2>1, SumOne
    <3> QED
      BY <1>10, <1>11, <3>1, <3>2
  <2>2. CASE Last # 1
    <3>1. mAmplitudes = Sum(durations) /\ mAmplitudes # -1
      BY <1>10, <1>13, <2>2
    <3>2. mAmplitudes' = mAmplitudes + mLastAmplitudes
      BY <3>1 DEF HandleEnd
    <3> QED
      BY <1>11, <3>1, <3>2
  <2> QED
    BY <2>1, <2>2
<1> QED
  BY <1>1, <1>6, <1>9, <1>12, <1>14 DEF TotalDuration

LEMMA ReportedNext ==
  ASSUME Types, Types', Kept, Alone, Reported, Counted, [Next]_vars
  PROVE  Reported' /\ Counted'
<1>1. CASE Calm
  BY <1>1, CalmSame, SameReported
<1>2. CASE MakeEncoder /\ thread' = OpenEncoder(thread)
  BY <1>2, OpenSame, SameReported
<1>3. CASE Record
  BY <1>3, ReportedRecord
<1>4. CASE JoinReturns
  BY <1>4, ReportedJoin
<1>5. CASE HandleAmp
  BY <1>5, AmpSame, SameReported
<1>6. CASE HandleEnd
  BY <1>6, ReportedEnd, CountedEnd
<1>7. CASE StartRecording /\ ~mRecorder
  BY <1>7, StartEffect, ReportedBegin, CountedStart
<1> QED
  BY <1>1, <1>2, <1>3, <1>4, <1>5, <1>6, <1>7, Steps

(***************************************************************************)
(* The theorems.                                                           *)
(***************************************************************************)
IInv == Types /\ Kept /\ Told /\ ~behind /\ Alone /\ Reported /\ Counted

LEMMA Invariance == Spec => []IInv
<1>1. Init => IInv
  BY InitTypes, InitKept, InitTold, InitAlone DEF IInv
<1>2. ASSUME IInv, [Next]_vars PROVE IInv'
  <2>1. /\ Types /\ Kept /\ Told /\ ~behind /\ Alone /\ Reported /\ Counted
    BY <1>2 DEF IInv
  <2>2. Types'
    BY <1>2, <2>1, TypesNext
  <2>3. Kept' /\ Told' /\ ~behind' /\ Alone'
    BY <1>2, <2>1, <2>2, KeptNext, ToldNext, NotBehind, AloneNext
  <2>4. Reported' /\ Counted'
    BY <1>2, <2>1, <2>2, ReportedNext
  <2> QED
    BY <2>2, <2>3, <2>4 DEF IInv
<1> QED
  BY <1>1, <1>2, PTL DEF Spec

\* The position shown, in whole seconds, is never less than the whole seconds
\* the boo's files hold - however recorders follow one another, whatever fails,
\* and though the offset and the amplitudes are brought up to date by different
\* messages (BooRecorder's handler, RecordActivity.updateRecordingState).
THEOREM PositionCovers == Spec => []NeverBehind
<1>1. IInv => NeverBehind
  BY DEF IInv, NeverBehind
<1> QED
  BY <1>1, Invariance, PTL

\* No step of a recorder that began after the END of the last was handled makes
\* a file hold less than before: such a recorder never opens a file in which
\* something was recorded (Boo.getLastEmptyRecording, BooRecorder.start).  One
\* that began earlier may: it is excepted.
THEOREM RecordingsKept == Spec => NeverRecordedOver
<1>1. ASSUME IInv, [Next]_vars
      PROVE  [\A i \in DOMAIN captured : captured'[i] < captured[i] => hasty]_vars
  <2>1. Types /\ Kept
    BY <1>1 DEF IInv
  <2>2. Types'
    BY <1>1, <2>1, TypesNext
  <2>3. SUFFICES ASSUME NEW i \in DOMAIN captured, captured'[i] < captured[i]
                 PROVE  hasty
    OBVIOUS
  <2>4. /\ captured \in Seq(Nat) /\ i \in 1..Last /\ Len(captured) = Last
        /\ captured[i] \in Nat
    BY <2>1, Counts
  <2>5. captured' # captured
    BY <2>3, <2>4
  <2>6. ASSUME NEW early \in BOOLEAN, Begin(early)
        PROVE  captured'[i] = captured[i]
    BY <2>4, <2>6 DEF Begin
  <2>0. captured'[i] # captured[i]
    BY <2>3, <2>4
  <2>7. CASE MakeEncoder /\ thread' = OpenEncoder(thread)
    <3>1. /\ mRecorder /\ thread.rec = Last /\ thread.pc = "encoder"
          /\ captured' = [captured EXCEPT ![Last] = 0]
      BY <2>1, <2>7, OpenEffect
    <3>2. i # Last => captured'[i] = captured[i]
      BY <2>4, <3>1
    <3>3. captured'[Last] = 0
      BY <2>1, <2>7, OpenEffect
    <3>4. i = Last /\ captured[Last] # 0
      BY <2>3, <2>4, <3>2, <3>3
    <3> QED
      BY <2>1, <3>1, <3>4 DEF Kept
  <2>8. CASE Record
    <3>1. captured' = [captured EXCEPT ![thread.rec] = captured[thread.rec] + 1]
      BY <2>8 DEF Record
    <3>2. captured'[i] = captured[i] \/ captured'[i] = captured[i] + 1
      BY <2>4, <3>1
    <3> QED
      BY <2>3, <2>4, <3>2
  <2>9. CASE JoinReturns
    <3>1. Begin(TRUE) \/ UNCHANGED captured
      BY <2>1, <2>9, JoinEffect
    <3>2. ~Begin(TRUE)
      BY <2>0, <2>6
    <3> QED
      BY <2>5, <3>1, <3>2
  <2>10. CASE StartRecording /\ ~mRecorder
    <3>1. EndPending \in BOOLEAN /\ Begin(EndPending)
      BY <2>1, <2>10, StartEffect
    <3> QED
      BY <2>0, <2>6, <3>1
  <2>11. CASE Calm
    BY <2>5, <2>11 DEF Calm
  <2>12. CASE HandleAmp \/ HandleEnd
    BY <2>5, <2>12 DEF HandleAmp, HandleEnd
  <2> QED
    BY <1>1, <2>1, <2>7, <2>8, <2>9, <2>10, <2>11, <2>12, Steps
<1> QED
  BY <1>1, Invariance, PTL DEF Spec, NeverRecordedOver

\* At rest - no recorder, no message - each recording has the duration reported
\* last, except those of which a recorder was hasty or reported nothing that was
\* heard (odd); and if there is none of these, the statistics are the sum of the
\* durations (BooRecorder's handler of MSG_END_OF_RECORDING).
THEOREM DurationsAddUp == Spec => []StatisticsAddUp
<1>1. IInv => StatisticsAddUp
  <2> SUFFICES ASSUME IInv, Quiet
               PROVE  /\ \A i \in DOMAIN durations \ odd : durations[i] = reported[i]
                      /\ odd = {} =>
                           mAmplitudes = IF durations = <<>> THEN -1
                                         ELSE TotalDuration
    BY DEF StatisticsAddUp
  <2>1. ~Pending
    BY DEF Quiet, Pending, Has
  <2>2. DOMAIN durations = 1..Last
    BY Counts DEF IInv
  <2>3. \A i \in 1..Last : i \notin odd => durations[i] = reported[i]
    BY <2>1 DEF IInv, Reported
  <2>4. odd = {} => mAmplitudes = IF durations = <<>> THEN -1 ELSE TotalDuration
    BY <2>1 DEF IInv, Counted
  <2> QED
    BY <2>2, <2>3, <2>4
<1> QED
  BY <1>1, Invariance, PTL
===============================================================================
