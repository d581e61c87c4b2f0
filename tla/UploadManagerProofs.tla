------------------------- MODULE UploadManagerProofs -------------------------
(***************************************************************************)
(* Proofs about UploadManager: its type, and that what is saved of an      *)
(* upload is true of the server, for every set of boos, sizes of files and *)
(* chunks, and number of failures.                                         *)
(*                                                                         *)
(* The invariant speaks of one message, request or upload at a time, and   *)
(* is kept by whatever the server does because attachments only grow.      *)
(***************************************************************************)
EXTENDS UploadManager, SequenceTheorems, WellFoundedInduction, TLAPS

USE UploadAssumption DEF UploadAssumption

\* The server has an attachment under this id, of that boo and kind.
Holds(id, b, k) ==
  /\ id \in DOMAIN attached
  /\ attached[id].boo = b /\ attached[id].kind = k

\* The file of kind k is on the server from end to end.
Whole(ids, k) ==
  /\ ids[k] \in DOMAIN attached
  /\ attached[ids[k]].kind = k /\ attached[ids[k]].got = Size[k]

Complete(b, ids) == Whole(ids, "audio") /\ (b \in WithImage => Whole(ids, "image"))

\* A file id is none, or one the server gave out.
Known(id) == id = NoId \/ id \in DOMAIN attached

\* What the upload info i of boo b says is so.
UploadTrue(b, i) ==
  /\ \A k \in Kinds : Known(i.id[k])
  /\ ~strayed =>
       /\ \A k \in Kinds : i.id[k] # NoId =>
            Holds(i.id[k], b, k) /\ i.uploaded[k] <= attached[i.id[k]].got
       /\ i.stage # "audio" => Whole(i.id, "audio")
       /\ i.stage = "metadata" /\ b \in WithImage => Whole(i.id, "image")

\* A request is about attachments of its boo, and publishes whole files only.
RequestTrue(r) ==
  /\ \A k \in Kinds : Known(r.id[k])
  /\ ~strayed =>
       /\ \A k \in Kinds : r.id[k] # NoId => Holds(r.id[k], r.boo, k)
       /\ r.stage = "metadata" => Complete(r.boo, r.id)

\* What a message reports has happened.
MessageTrue(m) ==
  m.ok =>
    /\ m.stage = "metadata" => m.received = 0 /\ \E c \in clips : c.boo = m.boo
    /\ m.stage \in Kinds =>
         /\ m.id \in DOMAIN attached
         /\ m.complete => m.received = Size[m.stage]
         /\ ~strayed => Holds(m.id, m.boo, m.stage) /\ m.received <= attached[m.id].got

Asked(r) == \E n \in DOMAIN requests : requests[n] = r
Sent(m)  == \E n \in DOMAIN messages : messages[n] = m

UploadsTrue  == \A b \in Boos, i \in Infos : info[b] = i => UploadTrue(b, i)
RequestsTrue == \A r \in Requests : Asked(r) => RequestTrue(r)
MessagesTrue == \A m \in Results : Sent(m) => MessageTrue(m)

\* No file on the server is longer than the one on the phone.
NothingBeyond ==
  ~strayed => \A id \in DOMAIN attached : attached[id].got <= Size[attached[id].kind]

ClipsComplete == ~strayed => \A c \in clips : Complete(c.boo, c.id)

\* The inductive invariant.
UploadInv ==
  /\ TypeOK
  /\ UploadsTrue /\ RequestsTrue /\ MessagesTrue
  /\ NothingBeyond /\ ClipsComplete
  /\ DeletedIsPublished

-------------------------------------------------------------------------------
(* Lemmas about the operators.                                             *)

LEMMA NewInfoFits == NewInfo \in Infos /\ \A b \in Boos : UploadTrue(b, NewInfo)
  BY DEF NewInfo, Infos, Kinds, Stages, NoId, UploadTrue, Known

LEMMA SettleFits ==
  ASSUME NEW b \in Boos, NEW i \in Infos
  PROVE  /\ Settle(b, i) \in Infos
         /\ Settle(b, i).id = i.id /\ Settle(b, i).uploaded = i.uploaded
         /\ Settle(b, i).stage = IF i.stage = "image" /\ b \notin WithImage
                                 THEN "metadata" ELSE i.stage
  BY DEF Settle, Infos, Stages, Kinds

LEMMA AcceptedFits ==
  ASSUME NEW i \in Infos, i.stage \in Kinds, NEW m \in Results
  PROVE  LET j == Accepted(i, m)
         IN  /\ j \in Infos
             /\ j.id = [i.id EXCEPT ![i.stage] = m.id]
             /\ j.uploaded = [i.uploaded EXCEPT ![i.stage] = m.received]
             /\ j.stage = IF ~m.complete THEN i.stage ELSE NextStage(i.stage)
<1> DEFINE j == Accepted(i, m)
           s == IF ~m.complete THEN i.stage ELSE NextStage(i.stage)
           d == [i.id EXCEPT ![i.stage] = m.id]
           u == [i.uploaded EXCEPT ![i.stage] = m.received]
<1>1. m.id \in Nat /\ m.received \in Nat
  BY DEF Results
<1>2. /\ i.id \in [Kinds -> Nat \cup {NoId}] /\ i.uploaded \in [Kinds -> Nat]
      /\ i.stage \in Stages
  BY DEF Infos
<1>3. s \in Stages
  BY <1>2 DEF Stages, Kinds, NextStage
<1>4. d \in [Kinds -> Nat \cup {NoId}] /\ u \in [Kinds -> Nat]
  BY <1>1, <1>2
<1>5. j = [i EXCEPT !.id = d, !.uploaded = u, !.failed = FALSE, !.stage = s]
  BY DEF Accepted
<1> HIDE DEF s, d, u, j
<1>6. j \in Infos /\ j.id = d /\ j.uploaded = u /\ j.stage = s
  BY <1>3, <1>4, <1>5 DEF Infos
<1> QED BY <1>6 DEF j, s, d, u

LEMMA RequestFits ==
  ASSUME NEW b \in Boos, NEW i \in Infos, NEW n \in 1 .. MaxChunk
  PROVE  LET r == RequestFor(b, i, n)
         IN  r \in Requests /\ r.boo = b /\ r.stage = i.stage /\ r.id = i.id
  BY DEF RequestFor, Infos, Requests, Stages, Kinds

LEMMA ErrorFits ==
  ASSUME NEW r \in Requests
  PROVE  Error(r) \in Results /\ Error(r).ok = FALSE
  BY DEF Error, Requests, Results

LEMMA AttachedFits ==
  ASSUME TypeOK, NEW id \in DOMAIN attached
  PROVE  attached[id].boo \in Boos /\ attached[id].kind \in Kinds /\ attached[id].got \in Nat
<1> DEFINE A == [boo : Boos, kind : Kinds, got : Nat]
<1>1. attached \in Seq(A)
  BY DEF TypeOK
<1>2. attached[id] \in A
  <2> HIDE DEF A
  <2> QED BY <1>1
<1> QED BY <1>2

\* An upload in which a result was used that was meant for it tells the truth.
LEMMA AcceptedTrue ==
  ASSUME TypeOK, NothingBeyond,
         NEW b \in Boos, NEW i \in Infos, i.stage \in Kinds, UploadTrue(b, i),
         NEW m \in Results, m.ok, m.stage \in Kinds, MessageTrue(m),
         m.id \in DOMAIN attached,
         ~strayed => m.boo = b /\ m.stage = i.stage
  PROVE  UploadTrue(b, Accepted(i, m))
<1> DEFINE j == Accepted(i, m)
<1>1. /\ j \in Infos
      /\ j.id = [i.id EXCEPT ![i.stage] = m.id]
      /\ j.uploaded = [i.uploaded EXCEPT ![i.stage] = m.received]
      /\ j.stage = IF ~m.complete THEN i.stage ELSE NextStage(i.stage)
  BY AcceptedFits
<1>2. i.id \in [Kinds -> Nat \cup {NoId}] /\ i.uploaded \in [Kinds -> Nat]
  BY DEF Infos
<1> HIDE DEF j
<1>3. \A k \in Kinds : Known(j.id[k])
  BY <1>1, <1>2 DEF Known, UploadTrue
<1>4. ASSUME ~strayed PROVE
      \A k \in Kinds : j.id[k] # NoId =>
            Holds(j.id[k], b, k) /\ j.uploaded[k] <= attached[j.id[k]].got
  BY <1>1, <1>2, <1>4 DEF UploadTrue, MessageTrue
<1>5. ASSUME ~strayed, m.complete PROVE Whole(j.id, i.stage)
  <2>1. j.id[i.stage] = m.id /\ attached[m.id].kind = i.stage
    BY <1>1, <1>2, <1>5 DEF MessageTrue, Holds
  <2>2. Size[i.stage] <= attached[m.id].got /\ attached[m.id].got <= Size[i.stage]
    BY <1>5, <2>1 DEF MessageTrue, NothingBeyond
  <2>3. attached[m.id].got \in Nat /\ Size[i.stage] \in Nat
    BY AttachedFits
  <2> QED BY <2>1, <2>2, <2>3 DEF Whole
<1>6. ASSUME ~strayed PROVE i.stage = "image" => Whole(j.id, "audio")
  BY <1>1, <1>2, <1>6 DEF UploadTrue, Kinds, Whole
<1>7. ASSUME ~strayed PROVE
      /\ j.stage # "audio" => Whole(j.id, "audio")
      /\ j.stage = "metadata" /\ b \in WithImage => Whole(j.id, "image")
  <2>1. CASE i.stage = "audio"
    BY <1>1, <1>5, <1>7, <2>1 DEF NextStage
  <2>2. CASE i.stage = "image"
    BY <1>1, <1>5, <1>6, <1>7, <2>2 DEF NextStage
  <2> QED BY <2>1, <2>2 DEF Kinds
<1> QED BY <1>3, <1>4, <1>7 DEF UploadTrue, j
-------------------------------------------------------------------------------
(* What is true stays true, as the server only gets more.                  *)

Grows ==
  /\ \A id \in DOMAIN attached :
       /\ id \in DOMAIN attached'
       /\ attached'[id].boo = attached[id].boo /\ attached'[id].kind = attached[id].kind
       /\ attached[id].got <= attached'[id].got
  /\ clips \subseteq clips'
  /\ strayed => strayed'

LEMMA ServerIdle ==
  ASSUME TypeOK, UNCHANGED Server, strayed => strayed'
  PROVE  Grows
<1>1. \A id \in DOMAIN attached : attached[id].got <= attached[id].got
  BY AttachedFits
<1> QED BY <1>1 DEF Server, Grows

LEMMA WholeStays ==
  ASSUME TypeOK, TypeOK', Grows, NothingBeyond', ~strayed',
         NEW ids, NEW k \in Kinds, Whole(ids, k)
  PROVE  Whole(ids, k)'
<1> DEFINE id == ids[k]
<1>1. /\ id \in DOMAIN attached /\ attached[id].kind = k /\ attached[id].got = Size[k]
      /\ id \in DOMAIN attached' /\ attached'[id].kind = k
      /\ attached[id].got <= attached'[id].got
  BY DEF Whole, Grows
<1>2. attached'[id].got <= Size[k]
  BY <1>1 DEF NothingBeyond
<1>3. attached'[id].got \in Nat /\ Size[k] \in Nat
  <2> DEFINE A == [boo : Boos, kind : Kinds, got : Nat]
  <2>1. attached' \in Seq(A)
    BY DEF TypeOK
  <2>2. attached'[id] \in A
    <3> HIDE DEF A
    <3> QED BY <1>1, <2>1
  <2> QED BY <2>2
<1>4. attached'[id].got = Size[k]
  BY <1>1, <1>2, <1>3
<1> QED BY <1>1, <1>4 DEF Whole

LEMMA UploadStays ==
  ASSUME TypeOK, TypeOK', Grows, NothingBeyond',
         NEW b \in Boos, NEW i \in Infos, UploadTrue(b, i)
  PROVE  UploadTrue(b, i)'
<1>1. \A k \in Kinds : Known(i.id[k])'
  BY DEF UploadTrue, Known, Grows
<1>2. ASSUME ~strayed'
      PROVE \A k \in Kinds : i.id[k] # NoId =>
              (Holds(i.id[k], b, k) /\ i.uploaded[k] <= attached[i.id[k]].got)'
  <2> TAKE k \in Kinds
  <2> DEFINE id == i.id[k]
  <2> HAVE id # NoId
  <2>1. Holds(id, b, k) /\ i.uploaded[k] <= attached[id].got
    BY <1>2 DEF UploadTrue, Grows
  <2>2. /\ id \in DOMAIN attached' /\ attached'[id].boo = b /\ attached'[id].kind = k
        /\ attached[id].got <= attached'[id].got /\ id \in DOMAIN attached
    BY <2>1 DEF Holds, Grows
  <2>3. i.uploaded[k] \in Nat /\ attached[id].got \in Nat /\ attached'[id].got \in Nat
    <3> DEFINE A == [boo : Boos, kind : Kinds, got : Nat]
    <3>1. attached' \in Seq(A) /\ attached \in Seq(A)
      BY DEF TypeOK
    <3>2. attached'[id] \in A /\ attached[id] \in A
      <4> HIDE DEF A
      <4> QED BY <2>2, <3>1
    <3> QED BY <3>2 DEF Infos
  <2>4. i.uploaded[k] <= attached'[id].got
    BY <2>1, <2>2, <2>3
  <2> QED BY <2>2, <2>4 DEF Holds
<1>3. ASSUME ~strayed'
      PROVE  /\ i.stage # "audio" => Whole(i.id, "audio")'
             /\ i.stage = "metadata" /\ b \in WithImage => Whole(i.id, "image")'
  BY <1>3, WholeStays DEF UploadTrue, Grows, Kinds
<1> QED BY <1>1, <1>2, <1>3 DEF UploadTrue

LEMMA CompleteStays ==
  ASSUME TypeOK, TypeOK', Grows, NothingBeyond', ~strayed',
         NEW b, NEW ids, Complete(b, ids)
  PROVE  Complete(b, ids)'
  BY WholeStays DEF Complete, Kinds

LEMMA RequestStays ==
  ASSUME TypeOK, TypeOK', Grows, NothingBeyond',
         NEW r \in Requests, RequestTrue(r)
  PROVE  RequestTrue(r)'
<1>1. \A k \in Kinds : Known(r.id[k])'
  BY DEF RequestTrue, Known, Grows
<1>2. ASSUME ~strayed', r.stage = "metadata" PROVE Complete(r.boo, r.id)'
  BY <1>2, CompleteStays DEF RequestTrue, Grows
<1>3. ASSUME ~strayed'
      PROVE  \A k \in Kinds : r.id[k] # NoId => Holds(r.id[k], r.boo, k)'
  BY <1>3 DEF RequestTrue, Holds, Grows
<1> QED BY <1>1, <1>2, <1>3 DEF RequestTrue

LEMMA MessageStays ==
  ASSUME TypeOK, TypeOK', Grows, NothingBeyond',
         NEW m \in Results, MessageTrue(m)
  PROVE  MessageTrue(m)'
<1> SUFFICES ASSUME m.ok PROVE MessageTrue(m)'
  BY DEF MessageTrue
<1>1. m.stage = "metadata" => m.received = 0 /\ \E c \in clips' : c.boo = m.boo
  BY DEF MessageTrue, Grows
<1>2. ASSUME m.stage \in Kinds
      PROVE  m.id \in DOMAIN attached' /\ (m.complete => m.received = Size[m.stage])
  BY <1>2 DEF MessageTrue, Grows
<1>3. ASSUME m.stage \in Kinds, ~strayed'
      PROVE  (Holds(m.id, m.boo, m.stage) /\ m.received <= attached[m.id].got)'
  <2> DEFINE id == m.id
  <2>1. Holds(id, m.boo, m.stage) /\ m.received <= attached[id].got
    BY <1>3 DEF MessageTrue, Grows
  <2>2. /\ id \in DOMAIN attached' /\ attached'[id].boo = m.boo /\ attached'[id].kind = m.stage
        /\ attached[id].got <= attached'[id].got /\ id \in DOMAIN attached
    BY <2>1 DEF Holds, Grows
  <2>3. m.received \in Nat /\ attached[id].got \in Nat /\ attached'[id].got \in Nat
    <3> DEFINE A == [boo : Boos, kind : Kinds, got : Nat]
    <3>1. attached' \in Seq(A) /\ attached \in Seq(A)
      BY DEF TypeOK
    <3>2. attached'[id] \in A /\ attached[id] \in A
      <4> HIDE DEF A
      <4> QED BY <2>2, <3>1
    <3> QED BY <3>2 DEF Results
  <2>4. m.received <= attached'[id].got
    BY <2>1, <2>2, <2>3
  <2> QED BY <2>2, <2>4 DEF Holds
<1> QED BY <1>1, <1>2, <1>3 DEF MessageTrue
-------------------------------------------------------------------------------
(* What process() does keeps the invariant.                                *)

\* What the steps of the queue have in common: the server is left alone, and the
\* messages too, or one is taken.
QueueStep ==
  /\ UNCHANGED Server
  /\ failures' = failures
  /\ messages' = messages \/ (messages # <<>> /\ messages' = Tail(messages))
  /\ strayed => strayed'

\* What is true before such a step is true after it.
LEMMA IdleKeepsTrue ==
  ASSUME QueueStep
  PROVE  /\ \A b \in Boos, i \in Infos : UploadTrue(b, i) => UploadTrue(b, i)'
         /\ \A r \in Requests : RequestTrue(r) => RequestTrue(r)'
<1>1. attached' = attached /\ clips' = clips /\ (strayed => strayed')
  BY DEF QueueStep, Server
<1>2. \A b \in Boos, i \in Infos : UploadTrue(b, i) => UploadTrue(b, i)'
  BY <1>1 DEF UploadTrue, Known, Holds, Whole
<1>3. \A r \in Requests : RequestTrue(r) => RequestTrue(r)'
  BY <1>1 DEF RequestTrue, Known, Holds, Whole, Complete
<1> QED BY <1>2, <1>3

\* An upload whose info is true is sent on: saved, and asked for.
LEMMA SendKeeps ==
  ASSUME TypeOK, UploadsTrue, RequestsTrue, QueueStep,
         NEW b \in Boos, NEW i \in Infos, NEW n \in 1 .. MaxChunk,
         UploadTrue(b, i)', Send(b, i, n)
  PROVE  /\ info' \in [Boos -> Infos] /\ requests' \in Seq(Requests) /\ crashed' \in BOOLEAN
         /\ \A c \in Boos, j \in Infos : info'[c] = j => UploadTrue(c, j)'
         /\ \A r \in Requests : Asked(r)' => RequestTrue(r)'
<1> DEFINE S == Settle(b, i)
           Q == RequestFor(b, S, n)
<1>1. PICK s \in Infos : /\ s = S /\ s.id = i.id /\ s.uploaded = i.uploaded
                         /\ s.stage = IF i.stage = "image" /\ b \notin WithImage
                                      THEN "metadata" ELSE i.stage
  BY SettleFits
<1>2. UploadTrue(b, s)'
  BY <1>1 DEF UploadTrue
<1>3. PICK q \in Requests : q = Q /\ q.boo = b /\ q.stage = s.stage /\ q.id = s.id
  <2> HIDE DEF S
  <2> QED BY <1>1, RequestFits
<1>4. RequestTrue(q)'
  BY <1>2, <1>3 DEF UploadTrue, RequestTrue, Complete
<1>5. /\ info' = [info EXCEPT ![b] = s]
      /\ requests' = Append(requests, q) \/ requests' = requests
      /\ crashed' \in {TRUE, crashed}
  BY <1>1, <1>3 DEF Send
<1> HIDE DEF S, Q
<1>6. info \in [Boos -> Infos] /\ requests \in Seq(Requests) /\ crashed \in BOOLEAN
  BY DEF TypeOK
<1>7. info' \in [Boos -> Infos] /\ crashed' \in BOOLEAN
  BY <1>5, <1>6
<1>8. requests' \in Seq(Requests)
  <2>1. CASE requests' = requests
    BY <1>6, <2>1
  <2>2. CASE requests' = Append(requests, q)
    BY <1>6, <2>2
  <2> QED BY <1>5, <2>1, <2>2
<1>9. \A c \in Boos, j \in Infos : info'[c] = j => UploadTrue(c, j)'
  <2> TAKE c \in Boos, j \in Infos
  <2> HAVE info'[c] = j
  <2>1. CASE c = b
    BY <1>2, <1>5, <1>6, <2>1
  <2>2. CASE c # b
    BY <1>5, <1>6, <2>2, IdleKeepsTrue DEF UploadsTrue
  <2> QED BY <2>1, <2>2
<1>10. \A r \in Requests : Asked(r)' => Asked(r) \/ r = q
  <2> TAKE r \in Requests
  <2>1. CASE requests' = requests
    BY <2>1 DEF Asked
  <2>2. CASE requests' = Append(requests, q)
    BY <1>6, <2>2 DEF Asked
  <2> QED BY <1>5, <2>1, <2>2
<1>11. \A r \in Requests : Asked(r)' => RequestTrue(r)'
  BY <1>4, <1>10, IdleKeepsTrue DEF RequestsTrue
<1> QED BY <1>7, <1>8, <1>9, <1>11

\* Such a step keeps the invariant if what it saves and asks for is true.
LEMMA QueueKeeps ==
  ASSUME UploadInv, QueueStep,
         place' \in [Boos -> {"draft", "queued", "gone"}], info' \in [Boos -> Infos],
         current' \in Boos \cup {None}, chunk' \in 1 .. MaxChunk,
         requests' \in Seq(Requests), crashed' \in BOOLEAN, strayed' \in BOOLEAN,
         \A b \in Boos, i \in Infos : info'[b] = i => UploadTrue(b, i)',
         \A r \in Requests : Asked(r)' => RequestTrue(r)',
         DeletedIsPublished'
  PROVE  UploadInv'
<1> USE DEF UploadInv
<1>1. UNCHANGED <<attached, clips, failures>>
  BY DEF QueueStep, Server
<1>2. messages \in Seq(Results)
  BY DEF TypeOK
<1>3. messages' \in Seq(Results) /\ \A m \in Results : Sent(m)' => Sent(m)
  <2>1. CASE messages' = messages
    BY <1>2, <2>1 DEF Sent
  <2>2. CASE messages # <<>> /\ messages' = Tail(messages)
    <3>1. messages' \in Seq(Results)
      BY <1>2, <2>2
    <3>2. \A n \in DOMAIN messages' : n + 1 \in DOMAIN messages /\ messages'[n] = messages[n + 1]
      BY <1>2, <2>2
    <3> QED BY <3>1, <3>2 DEF Sent
  <2> QED BY <2>1, <2>2 DEF QueueStep
<1>4. TypeOK'
  BY <1>1, <1>3 DEF TypeOK
<1>5. Grows
  BY ServerIdle DEF QueueStep
<1>6. NothingBeyond'
  BY <1>1 DEF NothingBeyond, QueueStep
<1>7. UploadsTrue' /\ RequestsTrue' /\ MessagesTrue'
  BY <1>3, <1>4, <1>5, <1>6, MessageStays
     DEF UploadsTrue, RequestsTrue, MessagesTrue
<1>8. ClipsComplete'
  BY <1>1, <1>4, <1>5, <1>6, CompleteStays DEF ClipsComplete, QueueStep
<1> QED BY <1>4, <1>6, <1>7, <1>8

\* Saved and asked for stays true when nothing is saved or asked for.
LEMMA NothingNew ==
  ASSUME UploadInv, QueueStep, UNCHANGED <<info, requests>>
  PROVE  /\ info' \in [Boos -> Infos] /\ requests' \in Seq(Requests)
         /\ \A b \in Boos, i \in Infos : info'[b] = i => UploadTrue(b, i)'
         /\ \A r \in Requests : Asked(r)' => RequestTrue(r)'
  BY IdleKeepsTrue DEF UploadInv, TypeOK, UploadsTrue, RequestsTrue, Asked

\* The least recorded of the uploads exists: recording dates are numbers.
LEMMA LeastDate ==
  ASSUME NEW Dates, Dates # {}, Dates \subseteq Nat
  PROVE  \E x \in Dates : \A y \in Dates : x <= y
<1> DEFINE R == OpToRel(<, Nat)
<1>1. IsWellFoundedOn(R, Nat)
  BY NatLessThanWellFounded
<1>2. \A y, x \in Nat : y < x => <<y, x>> \in R
  BY DEF OpToRel
<1> HIDE DEF R
<1>3. PICK x \in Dates : \A y \in Dates : ~(<<y, x>> \in R)
  BY <1>1, WFMin
<1>4. \A y \in Dates : ~(y < x)
  BY <1>2, <1>3
<1>5. \A y \in Dates : x <= y
  BY <1>4
<1> QED BY <1>5

LEMMA OldestFits == Uploads # {} => Oldest \in Uploads
<1>1. Uploads \subseteq Boos
  BY DEF Uploads
<1>2. ASSUME Uploads # {}
      PROVE  \E b \in Uploads : \A c \in Uploads : RecordedAt[b] <= RecordedAt[c]
  <2> DEFINE Dates == {RecordedAt[b] : b \in Uploads}
  <2>1. Dates # {} /\ Dates \subseteq Nat
    BY <1>1, <1>2
  <2>2. \A b \in Uploads : RecordedAt[b] \in Dates
    OBVIOUS
  <2>3. \A x \in Dates : \E b \in Uploads : RecordedAt[b] = x
    OBVIOUS
  <2> HIDE DEF Dates
  <2>4. PICK x \in Dates : \A y \in Dates : x <= y
    BY <2>1, LeastDate
  <2> QED BY <2>2, <2>3, <2>4
<1> QED BY <1>2 DEF Oldest

-------------------------------------------------------------------------------
(* The actions keep the invariant.                                         *)

\* Nothing is deleted, or taken for published, that is not.
LEMMA NothingDeleted ==
  ASSUME UploadInv, QueueStep, \A b \in Boos : place'[b] = "gone" => place[b] = "gone"
  PROVE  DeletedIsPublished'
  BY DEF UploadInv, DeletedIsPublished, QueueStep, Server

LEMMA GiveUpKeeps ==
  ASSUME UploadInv, QueueStep, GiveUp
  PROVE  UploadInv'
<1>1. DeletedIsPublished'
  BY NothingDeleted DEF GiveUp
<1>2. /\ place \in [Boos -> {"draft", "queued", "gone"}] /\ info \in [Boos -> Infos]
      /\ current \in Boos \cup {None} /\ chunk \in 1 .. MaxChunk
      /\ requests \in Seq(Requests) /\ crashed \in BOOLEAN /\ strayed \in BOOLEAN
  BY DEF UploadInv, TypeOK
<1>3. /\ UNCHANGED <<place, chunk, requests, crashed, strayed>>
      /\ current' = None
  BY DEF GiveUp
<1>4. /\ info' \in [Boos -> Infos]
      /\ \A b \in Boos, i \in Infos : info'[b] = i => UploadTrue(b, i)
  <2>1. CASE current = None
    BY <1>2, <2>1 DEF GiveUp, UploadInv, UploadsTrue
  <2>2. CASE current # None
    <3> DEFINE j == [info[current] EXCEPT !.failed = TRUE]
    <3>1. current \in Boos /\ info[current] \in Infos
      BY <1>2, <2>2
    <3>2. info' = [info EXCEPT ![current] = j]
      BY <2>2 DEF GiveUp
    <3>3. /\ j \in Infos /\ j.id = info[current].id /\ j.uploaded = info[current].uploaded
          /\ j.stage = info[current].stage
      BY <3>1 DEF Infos
    <3> HIDE DEF j
    <3>4. UploadTrue(current, info[current]) => UploadTrue(current, j)
      BY <3>3 DEF UploadTrue
    <3>5. \A b \in Boos : UploadTrue(b, info[b])
      BY <1>2 DEF UploadInv, UploadsTrue
    <3>6. UploadTrue(current, j)
      BY <3>1, <3>4, <3>5
    <3> QED BY <1>2, <3>1, <3>2, <3>3, <3>5, <3>6
  <2> QED BY <2>1, <2>2
<1>5. \A r \in Requests : Asked(r)' => RequestTrue(r)
  BY <1>3 DEF UploadInv, RequestsTrue, Asked
<1>6. /\ \A b \in Boos, i \in Infos : info'[b] = i => UploadTrue(b, i)'
      /\ \A r \in Requests : Asked(r)' => RequestTrue(r)'
  BY <1>4, <1>5, IdleKeepsTrue
<1> QED BY <1>1, <1>2, <1>3, <1>4, <1>6, QueueKeeps

LEMMA WakeKeeps ==
  ASSUME UploadInv, Wake
  PROVE  UploadInv'
<1>1. ProcessQueue /\ UNCHANGED <<place, chunk, strayed, messages, failures>>
      /\ UNCHANGED Server
  BY DEF Wake, ProcessQueue
<1>2. QueueStep
  BY <1>1 DEF QueueStep
<1>3. DeletedIsPublished'
  BY <1>1, <1>2, NothingDeleted
<1>4. /\ place \in [Boos -> {"draft", "queued", "gone"}] /\ info \in [Boos -> Infos]
      /\ current \in Boos \cup {None} /\ chunk \in 1 .. MaxChunk
      /\ requests \in Seq(Requests) /\ crashed \in BOOLEAN /\ strayed \in BOOLEAN
  BY DEF UploadInv, TypeOK
<1>5. PICK b \in Boos \cup {None} :
         /\ current' = b
         /\ IF b = None THEN UNCHANGED <<info, requests, crashed>> ELSE Send(b, info[b], chunk)
  BY <1>1, <1>4, OldestFits DEF ProcessQueue, Uploads
<1>6. CASE b = None
  <2>1. UNCHANGED <<info, requests, crashed>>
    BY <1>5, <1>6
  <2> QED BY <1>1, <1>2, <1>3, <1>4, <1>5, <2>1, NothingNew, QueueKeeps
<1>7. CASE b # None
  <2>1. b \in Boos
    BY <1>7
  <2>2. PICK i \in Infos : i = info[b]
    BY <1>4, <2>1
  <2>3. PICK n \in 1 .. MaxChunk : n = chunk
    BY <1>4
  <2>4. UploadTrue(b, i)'
    BY <1>2, <2>1, <2>2, IdleKeepsTrue DEF UploadInv, UploadsTrue
  <2>5. Send(b, i, n)
    BY <1>5, <1>7, <2>2, <2>3
  <2>6. /\ info' \in [Boos -> Infos] /\ requests' \in Seq(Requests) /\ crashed' \in BOOLEAN
        /\ \A c \in Boos, j \in Infos : info'[c] = j => UploadTrue(c, j)'
        /\ \A r \in Requests : Asked(r)' => RequestTrue(r)'
    BY <1>2, <2>1, <2>4, <2>5, SendKeeps DEF UploadInv
  <2> QED BY <1>1, <1>2, <1>3, <1>4, <1>5, <2>6, QueueKeeps
<1> QED BY <1>6, <1>7

LEMMA SubmitKeeps ==
  ASSUME UploadInv, NEW b \in Boos, Submit(b)
  PROVE  UploadInv'
<1>1. /\ place' = [place EXCEPT ![b] = "queued"] /\ info' = [info EXCEPT ![b] = NewInfo]
      /\ UNCHANGED <<current, chunk, requests, messages, failures, crashed, strayed>>
      /\ UNCHANGED Server
  BY DEF Submit
<1>2. QueueStep
  BY <1>1 DEF QueueStep
<1>3. /\ place \in [Boos -> {"draft", "queued", "gone"}] /\ info \in [Boos -> Infos]
      /\ current \in Boos \cup {None} /\ chunk \in 1 .. MaxChunk
      /\ requests \in Seq(Requests) /\ crashed \in BOOLEAN /\ strayed \in BOOLEAN
  BY DEF UploadInv, TypeOK
<1>4. /\ place' \in [Boos -> {"draft", "queued", "gone"}]
      /\ \A c \in Boos : place'[c] = "gone" => place[c] = "gone"
  BY <1>1, <1>3
<1>5. DeletedIsPublished'
  BY <1>2, <1>4, NothingDeleted
<1>6. /\ info' \in [Boos -> Infos]
      /\ \A c \in Boos, i \in Infos : info'[c] = i => UploadTrue(c, i)
  BY <1>1, <1>3, NewInfoFits DEF UploadInv, UploadsTrue
<1>7. \A r \in Requests : Asked(r)' => RequestTrue(r)
  BY <1>1 DEF UploadInv, RequestsTrue, Asked
<1>8. /\ \A c \in Boos, i \in Infos : info'[c] = i => UploadTrue(c, i)'
      /\ \A r \in Requests : Asked(r)' => RequestTrue(r)'
  BY <1>2, <1>6, <1>7, IdleKeepsTrue
<1> QED BY <1>1, <1>2, <1>3, <1>4, <1>5, <1>6, <1>8, QueueKeeps

\* A result for the chunk stage the upload is in.
LEMMA ProcessChunkKeeps ==
  ASSUME UploadInv, QueueStep, NEW m \in Results, m.ok, MessageTrue(m),
         current # None, info[current].stage \in Kinds, ProcessChunk(m)
  PROVE  UploadInv'
<1>1. /\ place \in [Boos -> {"draft", "queued", "gone"}] /\ info \in [Boos -> Infos]
      /\ current \in Boos /\ chunk \in 1 .. MaxChunk
      /\ requests \in Seq(Requests) /\ crashed \in BOOLEAN /\ strayed \in BOOLEAN
  BY DEF UploadInv, TypeOK
<1>2. PICK b \in Boos : b = current
  BY <1>1
<1>3. PICK i \in Infos : i = info[b]
  BY <1>1
<1>4. UploadTrue(b, i) /\ i.stage \in Kinds
  BY <1>2, <1>3 DEF UploadInv, UploadsTrue
<1>5. CASE GiveUp
  BY <1>5, GiveUpKeeps
<1>6. CASE UNCHANGED <<place, info, current, chunk, requests, crashed, strayed>>
  BY <1>1, <1>6, NothingDeleted, NothingNew, QueueKeeps
<1>7. CASE /\ MatchesId(i, m) /\ m.received > i.uploaded[i.stage]
           /\ strayed' = (strayed \/ m.boo # b \/ m.stage # i.stage)
           /\ AdjustChunkSize(m)
           /\ Send(b, Accepted(i, m), chunk')
           /\ UNCHANGED <<place, current>>
  <2>1. PICK j \in Infos : /\ j = Accepted(i, m)
                           /\ j.id = [i.id EXCEPT ![i.stage] = m.id]
    <3> DEFINE a == Accepted(i, m)
    <3>1. a \in Infos /\ a.id = [i.id EXCEPT ![i.stage] = m.id]
      BY <1>4, AcceptedFits
    <3> HIDE DEF a
    <3>2. \E j \in Infos : j = a /\ j.id = [i.id EXCEPT ![i.stage] = m.id]
      BY <3>1
    <3> QED BY <3>2 DEF a
  <2>2. chunk' \in 1 .. MaxChunk
    BY <1>1, <1>7 DEF AdjustChunkSize
  <2>3. PICK n \in 1 .. MaxChunk : n = chunk'
    BY <2>2
  <2>4. strayed' \in BOOLEAN /\ (strayed => strayed') /\ UNCHANGED <<place, current>>
    BY <1>1, <1>7
  <2>5. DeletedIsPublished'
    BY <2>4, NothingDeleted
  <2>6. m.stage \in Kinds /\ m.id \in DOMAIN attached
    <3>1. m.received # 0
      BY <1>4, <1>7 DEF Infos, Results
    <3> QED BY <3>1 DEF MessageTrue, Results, Stages
  <2>7. UploadTrue(b, j)'
    <3>1. CASE ~strayed'
      <4>1. m.boo = b /\ m.stage = i.stage
        BY <1>7, <3>1
      <4>2. UploadTrue(b, j)
        BY <1>4, <2>1, <2>6, <4>1, AcceptedTrue DEF UploadInv
      <4> QED BY <4>2, IdleKeepsTrue
    <3>2. CASE strayed'
      <4>1. i.id \in [Kinds -> Nat \cup {NoId}]
        BY DEF Infos
      <4>2. \A k \in Kinds : j.id[k] = NoId \/ j.id[k] \in DOMAIN attached
        BY <1>4, <2>1, <2>6, <4>1 DEF UploadTrue, Known
      <4>3. attached' = attached
        BY DEF QueueStep, Server
      <4> QED BY <3>2, <4>2, <4>3 DEF UploadTrue, Known
    <3> QED BY <3>1, <3>2
  <2>8. Send(b, j, n)
    BY <1>7, <2>1, <2>3
  <2>9. /\ info' \in [Boos -> Infos] /\ requests' \in Seq(Requests) /\ crashed' \in BOOLEAN
        /\ \A c \in Boos, k \in Infos : info'[c] = k => UploadTrue(c, k)'
        /\ \A r \in Requests : Asked(r)' => RequestTrue(r)'
    BY <2>7, <2>8, SendKeeps DEF UploadInv
  <2> QED BY <1>1, <2>2, <2>4, <2>5, <2>9, QueueKeeps
<1> QED BY <1>2, <1>3, <1>5, <1>6, <1>7 DEF ProcessChunk

\* A result in the last stage.
LEMMA ProcessMetadataKeeps ==
  ASSUME UploadInv, QueueStep, NEW m \in Results, m.ok, MessageTrue(m),
         current # None, ProcessMetadata(m)
  PROVE  UploadInv'
<1>1. /\ place \in [Boos -> {"draft", "queued", "gone"}] /\ current \in Boos
      /\ chunk \in 1 .. MaxChunk /\ crashed \in BOOLEAN /\ strayed \in BOOLEAN
  BY DEF UploadInv, TypeOK
<1>2. /\ place' = [place EXCEPT ![current] = "gone"] /\ current' = None
      /\ strayed' = (strayed \/ m.boo # current \/ m.stage # "metadata")
      /\ UNCHANGED <<info, chunk, requests, crashed>>
  BY DEF ProcessMetadata
<1>3. DeletedIsPublished'
  <2>1. clips' = clips
    BY DEF QueueStep, Server
  <2>2. ASSUME ~strayed', NEW b \in Boos, place'[b] = "gone"
        PROVE  \E c \in clips : c.boo = b
    <3>1. m.boo = current /\ m.stage = "metadata" /\ ~strayed
      BY <1>2, <2>2
    <3>2. CASE b = current
      BY <3>1, <3>2 DEF MessageTrue
    <3>3. CASE b # current
      BY <1>1, <1>2, <2>2, <3>1, <3>3 DEF UploadInv, DeletedIsPublished
    <3> QED BY <3>2, <3>3
  <2> QED BY <2>1, <2>2 DEF DeletedIsPublished
<1>4. place' \in [Boos -> {"draft", "queued", "gone"}] /\ strayed' \in BOOLEAN
  BY <1>1, <1>2
<1> QED BY <1>1, <1>2, <1>3, <1>4, NothingNew, QueueKeeps

LEMMA HandleKeeps ==
  ASSUME UploadInv, Handle
  PROVE  UploadInv'
<1>1. messages \in Seq(Results) /\ messages # <<>>
  BY DEF UploadInv, TypeOK, Handle
<1>2. Head(messages) \in Results /\ Head(messages) = messages[1] /\ 1 \in DOMAIN messages
  BY <1>1
<1>3. PICK m \in Results : m = Head(messages)
  BY <1>2
<1>4. MessageTrue(m)
  BY <1>2, <1>3 DEF UploadInv, MessagesTrue, Sent
<1>5. messages' = Tail(messages) /\ failures' = failures /\ UNCHANGED Server
  BY DEF Handle
<1>6. CASE GiveUp
  <2>1. QueueStep
    BY <1>1, <1>5, <1>6 DEF QueueStep, GiveUp
  <2> QED BY <1>6, <2>1, GiveUpKeeps
<1>7. CASE UNCHANGED <<place, info, current, chunk, requests, crashed, strayed>>
  <2>1. QueueStep
    BY <1>1, <1>5, <1>7 DEF QueueStep
  <2>2. /\ place \in [Boos -> {"draft", "queued", "gone"}] /\ current \in Boos \cup {None}
        /\ chunk \in 1 .. MaxChunk /\ crashed \in BOOLEAN /\ strayed \in BOOLEAN
    BY DEF UploadInv, TypeOK
  <2>3. DeletedIsPublished'
    BY <1>7, <2>1, NothingDeleted
  <2> QED BY <1>7, <2>1, <2>2, <2>3, NothingNew, QueueKeeps
<1>8. CASE m.ok /\ current # None /\ info[current].stage \in Kinds /\ ProcessChunk(m)
  <2>1. strayed => strayed'
    BY <1>8 DEF ProcessChunk, GiveUp
  <2>2. QueueStep
    BY <1>1, <1>5, <2>1 DEF QueueStep
  <2> QED BY <1>4, <1>8, <2>2, ProcessChunkKeeps
<1>9. CASE m.ok /\ current # None /\ ProcessMetadata(m)
  <2>1. QueueStep
    BY <1>1, <1>5, <1>9 DEF QueueStep, ProcessMetadata
  <2> QED BY <1>4, <1>9, <2>1, ProcessMetadataKeeps
<1> QED BY <1>3, <1>6, <1>7, <1>8, <1>9 DEF Handle

LEMMA KillKeeps ==
  ASSUME UploadInv, Kill
  PROVE  UploadInv'
<1> USE DEF UploadInv
<1>1. /\ current' = None /\ chunk' = 1 /\ requests' = <<>> /\ messages' = <<>>
      /\ failures' = failures + 1
      /\ UNCHANGED <<place, info, crashed, strayed, attached, clips>>
  BY DEF Kill, Server
<1>2. TypeOK'
  BY <1>1 DEF TypeOK
<1>3. UploadsTrue' /\ RequestsTrue' /\ MessagesTrue'
  BY <1>1 DEF UploadsTrue, RequestsTrue, MessagesTrue, Asked, Sent, UploadTrue, Known, Holds, Whole
<1>4. NothingBeyond' /\ ClipsComplete' /\ DeletedIsPublished'
  BY <1>1 DEF NothingBeyond, ClipsComplete, DeletedIsPublished, Complete, Whole
<1> QED BY <1>2, <1>3, <1>4

-------------------------------------------------------------------------------
(* The server and the API keep it.                                         *)

Attachment == [boo : Boos, kind : Kinds, got : Nat]

\* A request never shortens a file, nor lets it grow beyond its end.
LEMMA ReachFits ==
  ASSUME TypeOK, NothingBeyond, NEW r \in Requests, RequestTrue(r), r.stage \in Kinds
  PROVE  /\ Reach(r) \in Nat
         /\ ~Creates(r) => /\ r.id[r.stage] \in DOMAIN attached
                           /\ attached[r.id[r.stage]].got <= Reach(r)
         /\ ~strayed => Reach(r) <= Size[r.stage]
<1> DEFINE id  == r.id[r.stage]
           end == Smaller(Size[r.stage], r.from + r.size)
<1>1. Size[r.stage] \in Nat /\ r.from \in Nat /\ r.size \in Nat
  BY DEF Requests
<1>2. end \in Nat /\ end <= Size[r.stage]
  BY <1>1 DEF Smaller
<1> HIDE DEF end
<1>3. CASE Creates(r)
  <2>1. Reach(r) = end
    BY <1>3 DEF Reach, end
  <2> QED BY <1>2, <1>3, <2>1
<1>4. CASE ~Creates(r)
  <2>1. id \in DOMAIN attached
    BY <1>4 DEF RequestTrue, Known, Creates
  <2>2. attached[id].got \in Nat
    BY <2>1, AttachedFits
  <2>3. Reach(r) = Larger(attached[id].got, end)
    BY <1>4 DEF Reach, end
  <2>4. Reach(r) \in Nat /\ attached[id].got <= Reach(r)
    BY <1>2, <2>2, <2>3 DEF Larger
  <2>5. ASSUME ~strayed PROVE attached[id].got <= Size[r.stage]
    <3>1. attached[id].kind = r.stage
      BY <1>4, <2>5 DEF RequestTrue, Holds, Creates
    <3> QED BY <2>1, <2>5, <3>1 DEF NothingBeyond
  <2>6. ~strayed => Reach(r) <= Size[r.stage]
    BY <1>2, <2>2, <2>3, <2>5 DEF Larger
  <2> QED BY <2>1, <2>4, <2>6
<1> QED BY <1>3, <1>4

\* Carrying out a request only adds to what the server has, and the answer
\* reports it.
LEMMA PerformChunk ==
  ASSUME TypeOK, NothingBeyond, NEW r \in Requests, RequestTrue(r), r.stage \in Kinds,
         Perform(r), strayed' = strayed
  PROVE  /\ attached' \in Seq(Attachment) /\ clips' = clips
         /\ Grows /\ NothingBeyond'
         /\ Answer(r) \in Results
         /\ \A m \in Results : m = Answer(r) => MessageTrue(m)'
<1>1. attached \in Seq(Attachment)
  BY DEF TypeOK, Attachment
<1>2. PICK g \in Nat : /\ g = Reach(r)
                       /\ ~Creates(r) => /\ r.id[r.stage] \in DOMAIN attached
                                         /\ attached[r.id[r.stage]].got <= g
                       /\ ~strayed => g <= Size[r.stage]
  BY ReachFits
<1>3. r.boo \in Boos /\ r.stage # "metadata" /\ r.stage \in Stages
  BY DEF Requests, Kinds, Stages
<1>4. clips' = clips
  BY <1>3 DEF Perform
<1>5. PICK id \in Nat : /\ Creates(r) => id = Len(attached) + 1
                        /\ ~Creates(r) => id = r.id[r.stage]
  <2>1. Len(attached) + 1 \in Nat /\ \A k \in DOMAIN attached : k \in Nat
    BY <1>1
  <2>2. CASE Creates(r)
    BY <2>1, <2>2
  <2>3. CASE ~Creates(r)
    BY <1>2, <2>1, <2>3
  <2> QED BY <2>2, <2>3
<1>6. PICK a \in Results :
        /\ a = Answer(r)
        /\ a.ok = TRUE /\ a.boo = r.boo /\ a.stage = r.stage /\ a.id = id
        /\ a.received = g /\ (a.complete <=> g = Size[r.stage])
  <2> DEFINE b == [ok |-> TRUE, boo |-> r.boo, stage |-> r.stage, id |-> id, received |-> g,
                   complete |-> g = Size[r.stage]]
  <2>1. b = Answer(r)
    <3>1. Answer(r) = [ok |-> TRUE, boo |-> r.boo, stage |-> r.stage,
                       id |-> IF Creates(r) THEN Len(attached) + 1 ELSE r.id[r.stage],
                       received |-> Reach(r), complete |-> Reach(r) = Size[r.stage]]
      BY <1>3 DEF Answer
    <3>2. id = IF Creates(r) THEN Len(attached) + 1 ELSE r.id[r.stage]
      BY <1>5
    <3> QED BY <1>2, <3>1, <3>2
  <2>2. b \in Results
    BY <1>3 DEF Results
  <2>3. /\ b.ok = TRUE /\ b.boo = r.boo /\ b.stage = r.stage /\ b.id = id /\ b.received = g
        /\ (b.complete <=> g = Size[r.stage])
    OBVIOUS
  <2> HIDE DEF b
  <2> QED BY <2>1, <2>2, <2>3
<1> DEFINE Effect ==
      /\ attached' \in Seq(Attachment)
      /\ DOMAIN attached' = DOMAIN attached \cup {id}
      /\ \A k \in DOMAIN attached : k # id => attached'[k] = attached[k]
      /\ id \in DOMAIN attached =>
           /\ attached'[id].boo = attached[id].boo /\ attached'[id].kind = attached[id].kind
           /\ attached[id].got <= g
      /\ id \notin DOMAIN attached => attached'[id].boo = r.boo /\ attached'[id].kind = r.stage
      /\ attached'[id].got = g
<1>7. Effect
  <2>1. CASE Creates(r)
    <3> DEFINE e == [boo |-> r.boo, kind |-> r.stage, got |-> g]
    <3>1. e \in Attachment /\ e.boo = r.boo /\ e.kind = r.stage /\ e.got = g
      BY <1>3 DEF Attachment
    <3>2. attached' = Append(attached, e) /\ id = Len(attached) + 1
      <4>1. attached' = Append(attached, [boo |-> r.boo, kind |-> r.stage, got |-> Reach(r)])
        BY <1>3, <2>1 DEF Perform
      <4> QED BY <1>2, <1>5, <2>1, <4>1
    <3> HIDE DEF e
    <3>3. /\ attached' \in Seq(Attachment) /\ id \notin DOMAIN attached
          /\ DOMAIN attached' = DOMAIN attached \cup {id}
          /\ \A k \in DOMAIN attached : attached'[k] = attached[k]
          /\ attached'[id] = e
      BY <1>1, <3>1, <3>2
    <3> QED BY <3>1, <3>3
  <2>2. CASE ~Creates(r)
    <3>1. id \in DOMAIN attached /\ attached[id].got <= g
      BY <1>2, <1>5, <2>2
    <3> DEFINE e == [attached[id] EXCEPT !.got = g]
    <3>2. attached[id] \in Attachment
      BY <1>1, <3>1
    <3>3. /\ e \in Attachment /\ e.got = g
          /\ e.boo = attached[id].boo /\ e.kind = attached[id].kind
      BY <3>2 DEF Attachment
    <3>4. attached' = [attached EXCEPT ![id] = e]
      <4>1. attached' = [attached EXCEPT ![r.id[r.stage]].got = Reach(r)]
        BY <1>3, <2>2 DEF Perform
      <4>2. attached' = [attached EXCEPT ![id].got = g]
        BY <1>2, <1>5, <2>2, <4>1
      <4> QED BY <4>2
    <3> HIDE DEF e
    <3>5. attached' \in Seq(Attachment) /\ DOMAIN attached' = DOMAIN attached
      BY <1>1, <3>1, <3>3, <3>4
    <3>6. attached'[id] = e /\ \A k \in DOMAIN attached : k # id => attached'[k] = attached[k]
      BY <1>1, <3>1, <3>4
    <3> QED BY <3>1, <3>3, <3>5, <3>6
  <2> QED BY <2>1, <2>2
<1> HIDE DEF Effect
<1>8. Grows
  <2>1. \A k \in DOMAIN attached : attached[k].got <= attached[k].got
    BY AttachedFits
  <2> QED BY <1>4, <1>7, <2>1 DEF Grows, Effect
<1>9. ~strayed => attached'[id].boo = r.boo /\ attached'[id].kind = r.stage
  <2>1. ASSUME ~strayed, id \in DOMAIN attached
        PROVE  attached[id].boo = r.boo /\ attached[id].kind = r.stage
    <3>1. ~Creates(r)
      BY <1>1, <1>5, <2>1
    <3> QED BY <1>5, <2>1, <3>1 DEF RequestTrue, Holds, Creates
  <2> QED BY <1>7, <2>1 DEF Effect
<1>10. NothingBeyond'
  <2> SUFFICES ASSUME ~strayed, NEW k \in DOMAIN attached'
               PROVE  attached'[k].got <= Size[attached'[k].kind]
    BY DEF NothingBeyond
  <2>1. CASE k = id
    <3>1. attached'[id].got = g /\ attached'[id].kind = r.stage
      BY <1>7, <1>9 DEF Effect
    <3>2. g <= Size[r.stage]
      BY <1>2
    <3> QED BY <2>1, <3>1, <3>2
  <2>2. CASE k # id
    <3>1. k \in DOMAIN attached /\ attached'[k] = attached[k]
      BY <1>7, <2>2 DEF Effect
    <3> QED BY <3>1 DEF NothingBeyond
  <2> QED BY <2>1, <2>2
<1>11. MessageTrue(a)'
  <2>1. attached'[id].got = g /\ g <= g /\ id \in DOMAIN attached'
    BY <1>7 DEF Effect
  <2>2. a.complete => a.received = Size[a.stage]
    BY <1>6
  <2>3. ~strayed => (Holds(a.id, a.boo, a.stage) /\ a.received <= attached[a.id].got)'
    BY <1>6, <1>9, <2>1 DEF Holds
  <2> QED BY <1>3, <1>6, <2>1, <2>2, <2>3 DEF MessageTrue
<1>12. \A m \in Results : m = Answer(r) => MessageTrue(m)'
  BY <1>6, <1>11
<1>13. attached' \in Seq(Attachment)
  BY <1>7 DEF Effect
<1> QED BY <1>4, <1>6, <1>8, <1>10, <1>12, <1>13

LEMMA PerformMetadata ==
  ASSUME TypeOK, NothingBeyond, NEW r \in Requests, r.stage = "metadata",
         Perform(r), strayed' = strayed
  PROVE  /\ attached' = attached /\ clips' = clips \cup {[boo |-> r.boo, id |-> r.id]}
         /\ Grows /\ NothingBeyond'
         /\ Answer(r) \in Results
         /\ \A m \in Results : m = Answer(r) => MessageTrue(m)'
<1>1. attached' = attached /\ clips' = clips \cup {[boo |-> r.boo, id |-> r.id]}
  BY DEF Perform
<1>2. Grows /\ NothingBeyond'
  <2>1. \A k \in DOMAIN attached : attached[k].got <= attached[k].got
    BY AttachedFits
  <2> QED BY <1>1, <2>1 DEF Grows, NothingBeyond
<1>3. Answer(r) = [ok |-> TRUE, boo |-> r.boo, stage |-> r.stage, id |-> 1, received |-> 0,
                   complete |-> FALSE]
  BY DEF Answer
<1>4. Answer(r) \in Results
  BY <1>3 DEF Results, Requests
<1>5. ASSUME NEW m \in Results, m = Answer(r)
      PROVE  MessageTrue(m)'
  <2>1. m.stage = "metadata" /\ m.boo = r.boo /\ m.received = 0
    BY <1>3, <1>5
  <2>2. \E c \in clips' : c.boo = r.boo
    <3> DEFINE c == [boo |-> r.boo, id |-> r.id]
    <3>1. c \in clips' /\ c.boo = r.boo
      BY <1>1
    <3> QED BY <3>1
  <2>3. m.stage \notin Kinds
    BY <2>1 DEF Kinds
  <2> QED BY <2>1, <2>2, <2>3 DEF MessageTrue
<1> QED BY <1>1, <1>2, <1>4, <1>5

\* v holds nothing but what s and t hold.
Joins(v, s, t) ==
  /\ v \in Seq(Results)
  /\ \A k \in DOMAIN v :
       (\E j \in DOMAIN s : v[k] = s[j]) \/ (\E j \in DOMAIN t : v[k] = t[j])

\* What is in two sequences put together is in one of them.
LEMMA ConcatElements ==
  ASSUME NEW s \in Seq(Results), NEW t \in Seq(Results)
  PROVE  Joins(s \o t, s, t)
<1> DEFINE v == s \o t
<1>1. /\ v \in Seq(Results) /\ Len(v) = Len(s) + Len(t)
      /\ \A i \in 1 .. Len(s) + Len(t) : v[i] = IF i <= Len(s) THEN s[i] ELSE t[i - Len(s)]
  BY ConcatProperties
<1> HIDE DEF v
<1>2. /\ Len(s) \in Nat /\ Len(t) \in Nat
      /\ DOMAIN s = 1 .. Len(s) /\ DOMAIN t = 1 .. Len(t) /\ DOMAIN v = 1 .. Len(v)
  BY <1>1
<1>3. ASSUME NEW k \in DOMAIN v
      PROVE  (\E j \in DOMAIN s : v[k] = s[j]) \/ (\E j \in DOMAIN t : v[k] = t[j])
  <2>1. CASE k <= Len(s)
    <3>1. k \in DOMAIN s /\ v[k] = s[k]
      BY <1>1, <1>2, <2>1
    <3> QED BY <3>1
  <2>2. CASE ~(k <= Len(s))
    <3>1. k - Len(s) \in DOMAIN t /\ v[k] = t[k - Len(s)]
      BY <1>1, <1>2, <2>2
    <3> QED BY <3>1
  <2> QED BY <2>1, <2>2
<1>4. Joins(v, s, t)
  BY <1>1, <1>3 DEF Joins
<1> QED BY <1>4 DEF v

LEMMA ErrorsFit ==
  ASSUME NEW r \in Requests, NEW n \in Nat
  PROVE  /\ Errors(r, n) \in Seq(Results)
         /\ \A k \in DOMAIN Errors(r, n) : Errors(r, n)[k] = Error(r)
<1>1. Error(r) \in Results
  BY ErrorFits
<1>2. Errors(r, n) = [k \in 1 .. n |-> Error(r)]
  BY DEF Errors
<1> DEFINE e == [k \in 1 .. n |-> Error(r)]
<1>3. e \in [1 .. n -> Results] /\ DOMAIN e = 1 .. n
  BY <1>1
<1>4. \A k \in DOMAIN e : e[k] = Error(r)
  OBVIOUS
<1> HIDE DEF e
<1>5. e \in Seq(Results)
  BY <1>3, SeqDef
<1> QED BY <1>2, <1>4, <1>5 DEF e

\* Messages are only added, and no more than a request makes.
LEMMA MessagesAdded ==
  ASSUME messages \in Seq(Results), NEW r \in Requests, NEW n \in Nat,
         NEW t \in Seq(Results), messages' = messages \o Errors(r, n) \o t
  PROVE  /\ messages' \in Seq(Results)
         /\ \A m \in Results : Sent(m)' =>
              Sent(m) \/ m = Error(r) \/ \E k \in DOMAIN t : m = t[k]
<1>1. PICK e \in Seq(Results) : e = Errors(r, n) /\ \A k \in DOMAIN e : e[k] = Error(r)
  BY ErrorsFit
<1>2. Joins(messages \o e, messages, e)
  BY ConcatElements
<1>3. PICK u \in Seq(Results) : u = messages \o e /\ Joins(u, messages, e)
  <2>1. messages \o e \in Seq(Results)
    BY <1>2 DEF Joins
  <2> QED BY <1>2, <2>1
<1>4. Joins(u \o t, u, t)
  BY ConcatElements
<1>5. Joins(messages', u, t)
  BY <1>1, <1>3, <1>4
<1>6. ASSUME NEW m \in Results, Sent(m)'
      PROVE  Sent(m) \/ m = Error(r) \/ \E k \in DOMAIN t : m = t[k]
  <2>1. PICK k \in DOMAIN messages' : messages'[k] = m
    BY <1>6 DEF Sent
  <2>2. CASE \E j \in DOMAIN t : messages'[k] = t[j]
    BY <2>1, <2>2
  <2>3. CASE \E j \in DOMAIN u : messages'[k] = u[j]
    BY <1>1, <1>3, <2>1, <2>3 DEF Sent, Joins
  <2> QED BY <1>5, <2>1, <2>2, <2>3 DEF Joins
<1> QED BY <1>5, <1>6 DEF Joins

LEMMA ServeKeeps ==
  ASSUME UploadInv, Serve
  PROVE  UploadInv'
<1> USE DEF UploadInv
<1>1. requests \in Seq(Requests) /\ requests # <<>> /\ messages \in Seq(Results)
  BY DEF TypeOK, Serve
<1>2. Head(requests) \in Requests /\ Head(requests) = requests[1] /\ 1 \in DOMAIN requests
  BY <1>1
<1>3. PICK r \in Requests : r = Head(requests)
  BY <1>2
<1>4. RequestTrue(r)
  BY <1>2, <1>3 DEF RequestsTrue, Asked
<1>5. /\ requests' = Tail(requests)
      /\ UNCHANGED <<place, info, current, chunk, crashed, strayed>>
  BY DEF Serve
<1>6. PICK n \in Nat :
       \/ /\ messages' = messages \o Errors(r, n) \o <<Answer(r)>>
          /\ Perform(r)
          /\ failures' \in {failures, failures + 1}
       \/ /\ messages' = messages \o Errors(r, n)
          /\ Perform(r)
          /\ failures' = failures + 1
       \/ /\ messages' = messages \o Errors(r, n)
          /\ failures' = failures + 1
          /\ UNCHANGED Server
  <2>1. PICK n \in 0 .. MaxMessages :
          \/ /\ messages' = messages \o Errors(r, n) \o <<Answer(r)>>
             /\ Perform(r)
             /\ failures' = IF n = 0 THEN failures ELSE failures + 1
          \/ /\ messages' = messages \o Errors(r, n)
             /\ Perform(r)
             /\ failures' = failures + 1
          \/ /\ messages' = messages \o Errors(r, n)
             /\ failures' = failures + 1
             /\ UNCHANGED Server
    BY <1>3 DEF Serve
  <2>2. n \in Nat
    OBVIOUS
  <2> QED BY <2>1, <2>2
<1>7. requests' \in Seq(Requests) /\ \A q \in Requests : Asked(q)' => Asked(q)
  <2>1. requests' \in Seq(Requests)
    BY <1>1, <1>5
  <2>2. \A k \in DOMAIN requests' : k + 1 \in DOMAIN requests /\ requests'[k] = requests[k + 1]
    BY <1>1, <1>5
  <2> QED BY <2>1, <2>2 DEF Asked
\* The server.
<1> DEFINE Answered == /\ Answer(r) \in Results
                       /\ \A m \in Results : m = Answer(r) => MessageTrue(m)'
           NewClips == \A c \in clips' : c \in clips \/ (/\ r.stage = "metadata"
                                                         /\ c = [boo |-> r.boo, id |-> r.id])
<1>8. /\ attached' \in Seq(Attachment) /\ NewClips /\ Grows /\ NothingBeyond'
      /\ Perform(r) => Answered
  <2>1. CASE Perform(r) /\ r.stage \in Kinds
    BY <1>4, <1>5, <2>1, PerformChunk
  <2>2. CASE Perform(r) /\ r.stage = "metadata"
    BY <1>5, <2>2, PerformMetadata DEF TypeOK, Attachment
  <2>3. CASE UNCHANGED Server /\ ~Perform(r)
    BY <1>5, <2>3, ServerIdle DEF TypeOK, Attachment, Server, NothingBeyond
  <2>4. r.stage \in Kinds \/ r.stage = "metadata"
    BY DEF Requests, Stages
  <2> QED BY <1>6, <2>1, <2>2, <2>3, <2>4
<1> HIDE DEF Answered, NewClips
<1>9. /\ messages' \in Seq(Results)
      /\ \A m \in Results : Sent(m)' =>
           Sent(m) \/ m = Error(r) \/ (Perform(r) /\ m = Answer(r))
  <2>1. CASE messages' = messages \o Errors(r, n) \o <<Answer(r)>> /\ Perform(r)
    <3>1. Answer(r) \in Results
      BY <1>8, <2>1 DEF Answered
    <3> DEFINE t == <<Answer(r)>>
    <3>2. t \in Seq(Results) /\ \A k \in DOMAIN t : t[k] = Answer(r)
      BY <3>1
    <3> HIDE DEF t
    <3>3. messages' = messages \o Errors(r, n) \o t
      BY <2>1 DEF t
    <3>4. /\ messages' \in Seq(Results)
          /\ \A m \in Results : Sent(m)' =>
               Sent(m) \/ m = Error(r) \/ \E k \in DOMAIN t : m = t[k]
      BY <1>1, <3>2, <3>3, MessagesAdded
    <3> QED BY <2>1, <3>2, <3>4
  <2>2. CASE messages' = messages \o Errors(r, n)
    <3> DEFINE t == <<>>
    <3>1. t \in Seq(Results) /\ DOMAIN t = {}
      OBVIOUS
    <3>2. messages \o Errors(r, n) \in Seq(Results)
      <4>1. Errors(r, n) \in Seq(Results)
        BY ErrorsFit
      <4> QED BY <1>1, <4>1, ConcatElements DEF Joins
    <3>3. messages' = messages \o Errors(r, n) \o t
      BY <2>2, <3>2
    <3> HIDE DEF t
    <3> QED BY <1>1, <3>1, <3>3, MessagesAdded
  <2> QED BY <1>6, <2>1, <2>2
<1>10. clips' \subseteq [boo : Boos, id : [Kinds -> Nat \cup {NoId}]]
  <2> SUFFICES ASSUME NEW c \in clips'
               PROVE  c \in [boo : Boos, id : [Kinds -> Nat \cup {NoId}]]
    OBVIOUS
  <2>1. CASE c \in clips
    BY <2>1 DEF TypeOK
  <2>2. CASE c = [boo |-> r.boo, id |-> r.id]
    BY <2>2 DEF Requests
  <2> QED BY <1>8, <2>1, <2>2 DEF NewClips
<1>11. TypeOK'
  <2>1. failures' \in Nat
    BY <1>6 DEF TypeOK
  <2> QED BY <1>5, <1>7, <1>8, <1>9, <1>10, <2>1 DEF TypeOK, Attachment
<1>12. UploadsTrue'
  BY <1>5, <1>8, <1>11, UploadStays DEF UploadsTrue
<1>13. RequestsTrue'
  BY <1>7, <1>8, <1>11, RequestStays DEF RequestsTrue
<1>14. MessagesTrue'
  <2>1. MessageTrue(Error(r))'
    BY ErrorFits DEF MessageTrue
  <2> SUFFICES ASSUME NEW m \in Results, Sent(m)' PROVE MessageTrue(m)'
    BY DEF MessagesTrue
  <2>2. CASE Sent(m)
    BY <1>8, <1>11, <2>2, MessageStays DEF MessagesTrue
  <2>3. CASE m = Error(r)
    <3>1. m.ok = FALSE
      BY <2>3, ErrorFits
    <3> QED BY <3>1 DEF MessageTrue
  <2>4. CASE Perform(r) /\ m = Answer(r)
    BY <1>8, <2>4 DEF Answered
  <2> QED BY <1>9, <2>2, <2>3, <2>4
<1>15. ClipsComplete'
  <2> SUFFICES ASSUME ~strayed', NEW c \in clips' PROVE Complete(c.boo, c.id)'
    BY DEF ClipsComplete
  <2>1. CASE c \in clips
    BY <1>5, <1>8, <1>11, <2>1, CompleteStays DEF ClipsComplete
  <2>2. CASE r.stage = "metadata" /\ c = [boo |-> r.boo, id |-> r.id]
    <3>1. Complete(r.boo, r.id)
      BY <1>4, <1>5, <2>2 DEF RequestTrue
    <3>2. Complete(r.boo, r.id)'
      BY <1>8, <1>11, <3>1, CompleteStays
    <3>3. c.boo = r.boo /\ c.id = r.id
      BY <2>2
    <3> QED BY <3>2, <3>3
  <2> QED BY <1>8, <2>1, <2>2 DEF NewClips
<1>16. DeletedIsPublished'
  BY <1>5, <1>8 DEF DeletedIsPublished, Grows
<1> QED BY <1>8, <1>11, <1>12, <1>13, <1>14, <1>15, <1>16

-------------------------------------------------------------------------------
(* The theorems.                                                           *)

LEMMA UploadInit == Init => UploadInv
<1> SUFFICES ASSUME Init PROVE UploadInv
  OBVIOUS
<1>1. TypeOK
  <2>1. /\ place \in [Boos -> {"draft", "queued", "gone"}]
        /\ info \in [Boos -> Infos] /\ current \in Boos \cup {None}
    BY NewInfoFits DEF Init
  <2>2. chunk \in 1 .. MaxChunk /\ failures \in Nat
    BY DEF Init
  <2>3. /\ requests \in Seq(Requests) /\ messages \in Seq(Results)
        /\ attached \in Seq([boo : Boos, kind : Kinds, got : Nat])
        /\ clips \subseteq [boo : Boos, id : [Kinds -> Nat \cup {NoId}]]
    BY DEF Init
  <2>4. crashed \in BOOLEAN /\ strayed \in BOOLEAN
    BY DEF Init
  <2> QED BY <2>1, <2>2, <2>3, <2>4 DEF TypeOK
<1>2. UploadsTrue
  BY NewInfoFits DEF Init, UploadsTrue
<1>3. RequestsTrue /\ MessagesTrue
  BY DEF Init, RequestsTrue, MessagesTrue, Asked, Sent
<1>4. NothingBeyond /\ ClipsComplete /\ DeletedIsPublished
  BY DEF Init, NothingBeyond, ClipsComplete, DeletedIsPublished
<1> QED BY <1>1, <1>2, <1>3, <1>4 DEF UploadInv

LEMMA UploadStep == UploadInv /\ [Next]_vars => UploadInv'
<1> SUFFICES ASSUME UploadInv, [Next]_vars PROVE UploadInv'
  OBVIOUS
<1>1. ASSUME NEW b \in Boos, Submit(b) PROVE UploadInv'
  BY <1>1, SubmitKeeps
<1>2. CASE Wake
  BY <1>2, WakeKeeps
<1>3. CASE Handle
  BY <1>3, HandleKeeps
<1>4. CASE Kill
  BY <1>4, KillKeeps
<1>5. CASE Serve
  BY <1>5, ServeKeeps
<1>6. CASE UNCHANGED vars
  <2>1. UNCHANGED <<place, info, current, chunk, requests, messages, failures, crashed, strayed>>
        /\ UNCHANGED Server
    BY <1>6 DEF vars, Server
  <2>2. QueueStep
    BY <2>1 DEF QueueStep
  <2>3. /\ place \in [Boos -> {"draft", "queued", "gone"}] /\ current \in Boos \cup {None}
        /\ chunk \in 1 .. MaxChunk /\ crashed \in BOOLEAN /\ strayed \in BOOLEAN
    BY DEF UploadInv, TypeOK
  <2>4. DeletedIsPublished'
    BY <2>1, <2>2, NothingDeleted
  <2> QED BY <2>1, <2>2, <2>3, <2>4, NothingNew, QueueKeeps
<1> QED BY <1>1, <1>2, <1>3, <1>4, <1>5, <1>6 DEF Next

\* The strengthening is an invariant of every behaviour.
THEOREM UploadsAreTrue == Spec => []UploadInv
  BY UploadInit, UploadStep, PTL DEF Spec

\* Every variable keeps its type: whatever answers process() is given, the saved
\* upload info stays one that it can go on from.
THEOREM UploadTypeCorrect == Spec => []TypeOK
  BY UploadsAreTrue, PTL DEF UploadInv

\* What the phone believes to be uploaded, the server has, though answers get
\* lost, come twice or come after the process died.
THEOREM SavedIsTrue == Spec => []UploadedWasReceived
<1>1. UploadInv => UploadedWasReceived
  <2> SUFFICES ASSUME UploadInv, ~strayed, NEW b \in Boos, NEW k \in Kinds, info[b].id[k] # NoId
               PROVE  /\ info[b].id[k] \in DOMAIN attached
                      /\ attached[info[b].id[k]].boo = b /\ attached[info[b].id[k]].kind = k
                      /\ info[b].uploaded[k] <= attached[info[b].id[k]].got
    BY DEF UploadedWasReceived
  <2>1. UploadTrue(b, info[b])
    BY DEF UploadInv, TypeOK, UploadsTrue
  <2> QED BY <2>1 DEF UploadTrue, Holds
<1> QED BY <1>1, UploadsAreTrue, PTL

\* What is published has all of its audio, and of its image if it has one.
THEOREM PublishedIsWhole == Spec => []PublishedWhole
<1>1. UploadInv => PublishedWhole
  <2> SUFFICES ASSUME UploadInv, ~strayed, NEW c \in clips, NEW k \in Kinds,
                      k = "audio" \/ c.boo \in WithImage
               PROVE  c.id[k] # NoId /\ attached[c.id[k]].got = Size[k]
    BY DEF PublishedWhole
  <2>1. Whole(c.id, k)
    BY DEF UploadInv, ClipsComplete, Complete, Kinds
  <2>2. NoId \notin DOMAIN attached
    BY DEF UploadInv, TypeOK, NoId
  <2> QED BY <2>1, <2>2 DEF Whole
<1> QED BY <1>1, UploadsAreTrue, PTL

\* No boo is deleted before the server has published it, as long as no result
\* is used for a request it does not answer.
THEOREM DeletedWasPublished == Spec => []DeletedIsPublished
  BY UploadsAreTrue, PTL DEF UploadInv

\* An upload goes on with its attachment, and never back, through errors, late
\* results, retries and deaths of the process.
THEOREM AttachmentIsKept == Spec => AttachmentKept
<1> DEFINE Keeps(i, j, k) == i.id[k] # NoId => /\ j.id[k] = i.id[k]
                                               /\ j.uploaded[k] >= i.uploaded[k]
           Kept == \A b \in Boos, k \in Kinds :
                     place[b] = "queued" /\ info[b].id[k] # NoId =>
                       /\ info'[b].id[k] = info[b].id[k]
                       /\ info'[b].uploaded[k] >= info[b].uploaded[k]
<1>1. ASSUME TypeOK, [Next]_vars
      PROVE  Kept
  <2>1. info \in [Boos -> Infos] /\ current \in Boos \cup {None}
    BY <1>1 DEF TypeOK
  <2>2. \A i \in Infos, k \in Kinds : i.uploaded[k] \in Nat /\ i.uploaded[k] >= i.uploaded[k]
    BY DEF Infos
  <2>3. CASE info' = info
    BY <2>1, <2>2, <2>3
  <2>4. ASSUME NEW b \in Boos, NEW j, info' = [info EXCEPT ![b] = j],
               place[b] = "queued" => \A k \in Kinds : Keeps(info[b], j, k)
        PROVE  Kept
    <3> SUFFICES ASSUME NEW c \in Boos, NEW k \in Kinds,
                        place[c] = "queued", info[c].id[k] # NoId
                 PROVE  /\ info'[c].id[k] = info[c].id[k]
                        /\ info'[c].uploaded[k] >= info[c].uploaded[k]
      OBVIOUS
    <3>1. CASE c = b
      BY <2>1, <2>4, <3>1
    <3>2. CASE c # b
      BY <2>1, <2>2, <2>4, <3>2
    <3> QED BY <3>1, <3>2
  <2> HIDE DEF Kept
  <2>5. ASSUME NEW b \in Boos, Submit(b)
        PROVE  Kept
    BY <2>4, <2>5 DEF Submit
  <2>6. CASE Wake
    <3>1. PICK b \in Boos \cup {None} :
            info' = info \/ (b \in Boos /\ info' = [info EXCEPT ![b] = Settle(b, info[b])])
      BY <2>1, <2>6, OldestFits DEF Wake, ProcessQueue, Send, Uploads
    <3>2. CASE b \in Boos /\ info' = [info EXCEPT ![b] = Settle(b, info[b])]
      <4>1. \A k \in Kinds : Keeps(info[b], Settle(b, info[b]), k)
        BY <2>1, <2>2, <3>2, SettleFits
      <4> QED BY <2>4, <3>2, <4>1
    <3> QED BY <2>3, <3>1, <3>2
  <2>7. CASE Handle
    <3>1. CASE GiveUp
      <4>1. CASE current = None
        BY <2>3, <3>1, <4>1 DEF GiveUp
      <4>2. CASE current # None
        <5> DEFINE j == [info[current] EXCEPT !.failed = TRUE]
        <5>1. info[current] \in Infos /\ current \in Boos
          BY <2>1, <4>2
        <5>2. j.id = info[current].id /\ j.uploaded = info[current].uploaded
          BY <5>1 DEF Infos
        <5>3. info' = [info EXCEPT ![current] = j]
          BY <3>1, <4>2 DEF GiveUp
        <5> HIDE DEF j
        <5>4. \A k \in Kinds : Keeps(info[current], j, k)
          BY <2>2, <5>1, <5>2
        <5> QED BY <2>4, <5>1, <5>3, <5>4
      <4> QED BY <4>1, <4>2
    <3>2. ASSUME NEW m \in Results, current \in Boos, info[current].stage \in Kinds,
                 MatchesId(info[current], m),
                 m.received > info[current].uploaded[info[current].stage],
                 Send(current, Accepted(info[current], m), chunk')
          PROVE  Kept
      <4>1. PICK i \in Infos : i = info[current]
        BY <2>1, <3>2
      <4> DEFINE a == Accepted(i, m)
                 j == Settle(current, a)
      <4>2. /\ a \in Infos
            /\ a.id = [i.id EXCEPT ![i.stage] = m.id]
            /\ a.uploaded = [i.uploaded EXCEPT ![i.stage] = m.received]
        BY <3>2, <4>1, AcceptedFits
      <4> HIDE DEF a
      <4>3. j.id = a.id /\ j.uploaded = a.uploaded
        BY <3>2, <4>2, SettleFits
      <4>4. info' = [info EXCEPT ![current] = j]
        BY <3>2, <4>1 DEF Send, a
      <4> HIDE DEF j
      <4>5. \A k \in Kinds : Keeps(i, j, k)
        <5> SUFFICES ASSUME NEW k \in Kinds, i.id[k] # NoId
                     PROVE  j.id[k] = i.id[k] /\ j.uploaded[k] >= i.uploaded[k]
          OBVIOUS
        <5>1. /\ i.id \in [Kinds -> Nat \cup {NoId}] /\ i.uploaded \in [Kinds -> Nat]
              /\ m.received \in Nat
          BY DEF Infos, Results
        <5>2. CASE k = i.stage
          <6>1. j.id[k] = m.id /\ j.uploaded[k] = m.received
            BY <4>2, <4>3, <5>1, <5>2
          <6>2. i.id[k] = m.id /\ m.received > i.uploaded[k]
            BY <3>2, <4>1, <5>2 DEF MatchesId
          <6>3. i.uploaded[k] \in Nat
            BY <5>1
          <6> QED BY <5>1, <6>1, <6>2, <6>3
        <5>3. CASE k # i.stage
          <6>1. j.id[k] = i.id[k] /\ j.uploaded[k] = i.uploaded[k]
            BY <4>2, <4>3, <5>1, <5>3
          <6> QED BY <2>2, <6>1
        <5> QED BY <5>2, <5>3
      <4> QED BY <2>4, <3>2, <4>1, <4>4, <4>5
    <3>3. Head(messages) \in Results
      BY <1>1, <2>7 DEF TypeOK, Handle
    <3>4. CASE /\ current # None /\ info[current].stage \in Kinds
               /\ ProcessChunk(Head(messages))
      <4>1. current \in Boos
        BY <2>1, <3>4
      <4>2. \/ GiveUp
            \/ info' = info
            \/ /\ MatchesId(info[current], Head(messages))
               /\ Head(messages).received > info[current].uploaded[info[current].stage]
               /\ Send(current, Accepted(info[current], Head(messages)), chunk')
        BY <3>4 DEF ProcessChunk
      <4> QED BY <2>3, <3>1, <3>2, <3>3, <3>4, <4>1, <4>2
    <3> QED BY <2>3, <2>7, <3>1, <3>4 DEF Handle, ProcessMetadata
  <2>8. CASE Kill
    BY <2>3, <2>8 DEF Kill
  <2>9. CASE Serve
    BY <2>3, <2>9 DEF Serve
  <2>10. CASE UNCHANGED vars
    BY <2>3, <2>10 DEF vars
  <2> QED BY <1>1, <2>5, <2>6, <2>7, <2>8, <2>9, <2>10 DEF Next
<1>2. TypeOK /\ [Next]_vars => [Kept]_vars
  BY <1>1
<1> QED BY <1>2, UploadTypeCorrect, PTL DEF Spec, AttachmentKept
===============================================================================
