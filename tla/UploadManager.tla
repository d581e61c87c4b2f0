---------------------------- MODULE UploadManager ----------------------------
(***************************************************************************)
(* The upload queue (service/UploadManager.java), with the request queue   *)
(* it talks through (API.java) and the server behind that.                 *)
(*                                                                         *)
(* A boo is uploaded in stages: its audio and then its image, chunk by     *)
(* chunk, then its metadata, which publishes it.  What is known of the     *)
(* upload is saved with the boo after every result, so that an upload goes *)
(* on where it was after the process died.  process() holds mUploadLock    *)
(* throughout and is one step; it is entered by the queue thread (woken or *)
(* after five minutes) and by the handler, for every message of the API.   *)
(***************************************************************************)
EXTENDS Integers, Sequences

CONSTANTS
  Boos,         \* boos that may be submitted
  WithImage,    \* those of them that have an image
  RecordedAt,   \* recording dates
  None,         \* no boo: mBooUpload is null
  Size,         \* length of the files of each kind, in units
  MaxChunk,     \* largest mChunkSize, in units; the smallest is one unit
  MaxMessages,  \* bound: error messages for one request
  MaxPending,   \* bound: requests and messages under way when the thread wakes
  MaxFailures   \* bound: requests that do not just succeed, and deaths of the process

Kinds  == {"audio", "image"}
Stages == Kinds \cup {"metadata"}
NoId   == -1

ASSUME UploadAssumption ==
  /\ None \notin Boos /\ WithImage \subseteq Boos
  /\ RecordedAt \in [Boos -> Nat]
  /\ \A a, b \in Boos : RecordedAt[a] = RecordedAt[b] => a = b
  /\ Size \in [Kinds -> Nat \ {0}] /\ MaxChunk \in Nat \ {0}
  /\ MaxMessages \in Nat /\ MaxPending \in Nat
  /\ MaxFailures \in Nat

VARIABLES
  place,     \* of each boo: "draft", "queued" (saved with upload info), "gone"
  info,      \* its UploadInfo: in the file and, for mBooUpload, in memory
  current,   \* mBooUpload
  chunk,     \* mChunkSize
  requests,  \* mRequestQueue of the API
  messages,  \* messages on their way to the handler
  attached,  \* external: the server's attachments, by their id
  clips,     \* external: the server's clips
  failures,  \* requests so far that did not just succeed, and deaths
  crashed,   \* the process died of an exception, as it will when started again
  strayed    \* history: a result was used for a request it does not answer

vars == <<place, info, current, chunk, requests, messages, attached, clips, failures,
          crashed, strayed>>

Infos == [stage : Stages, id : [Kinds -> Nat \cup {NoId}],
          uploaded : [Kinds -> Nat], failed : BOOLEAN]

\* new UploadInfo(data)
NewInfo == [stage |-> "audio", id |-> [k \in Kinds |-> NoId],
            uploaded |-> [k \in Kinds |-> 0], failed |-> FALSE]

\* A request notes what it was made of; the answer echoes boo and stage, which
\* the code does not do, only to tell whose answer it is.
Requests == [boo : Boos, stage : Stages, id : [Kinds -> Nat \cup {NoId}],
             from : Nat, size : 1 .. MaxChunk]
Results  == [ok : BOOLEAN, boo : Boos, stage : Stages, id : Nat,
             received : Nat, complete : BOOLEAN]

Init ==
  /\ place = [b \in Boos |-> "draft"]
  /\ info = [b \in Boos |-> NewInfo]
  /\ current = None /\ chunk = 1
  /\ requests = <<>> /\ messages = <<>>
  /\ attached = <<>> /\ clips = {}
  /\ failures = 0 /\ crashed = FALSE /\ strayed = FALSE

Server == <<attached, clips>>
-------------------------------------------------------------------------------
(* Processing.  b is the current boo, i its upload info.                   *)

\* The request that the stage of i calls for, with chunks of n units.
RequestFor(b, i, n) ==
  [boo |-> b, stage |-> i.stage, id |-> i.id,
   from |-> IF i.stage \in Kinds THEN i.uploaded[i.stage] ELSE 0, size |-> n]

\* A boo without image passes over that stage.
Settle(b, i) ==
  IF i.stage = "image" /\ b \notin WithImage THEN [i EXCEPT !.stage = "metadata"] ELSE i

\* Part of a file that starts behind its end cannot be asked for.
Sendable(r) == r.stage \in Kinds => r.from <= Size[r.stage]

\* Saves i for b and sends the next request, with chunks of n units.
Send(b, i, n) ==
  /\ info' = [info EXCEPT ![b] = Settle(b, i)]
  /\ LET r == RequestFor(b, Settle(b, i), n) IN
       \/ Sendable(r) /\ requests' = Append(requests, r) /\ UNCHANGED crashed
       \/ ~Sendable(r) /\ crashed' = TRUE /\ UNCHANGED requests

\* The boos to upload, and the one that was recorded first.
Uploads == {b \in Boos : place[b] = "queued"}
Oldest == CHOOSE b \in Uploads : \A c \in Uploads : RecordedAt[b] <= RecordedAt[c]

\* Mutated form: the thread leaves an upload alone that has begun.
ProcessQueueIfIdle ==
  LET b == IF Uploads # {} THEN Oldest ELSE None
  IN /\ current' = IF current = None THEN b ELSE current
     /\ IF current # None \/ b = None THEN UNCHANGED <<info, requests, crashed>>
                                    ELSE Send(b, info[b], chunk)
     /\ UNCHANGED <<place, chunk, strayed>>

\* process() of the queue thread: there is no result to use.
ProcessQueue ==
  LET b == IF current # None THEN current
           ELSE IF Uploads # {} THEN Oldest ELSE None
  IN /\ current' = b
     /\ IF b = None THEN UNCHANGED <<info, requests, crashed>> ELSE Send(b, info[b], chunk)
     /\ UNCHANGED <<place, chunk, strayed>>

\* Mutated form: an upload that failed is taken out of the queue.
GiveUpForGood ==
  /\ current' = None
  /\ place' = IF current = None THEN place ELSE [place EXCEPT ![current] = "gone"]
  /\ UNCHANGED <<info, chunk, requests, crashed, strayed>>

\* Mutated form: the error is noted as a stage.
GiveUpStage ==
  /\ current' = None
  /\ info' = IF current = None THEN info ELSE [info EXCEPT ![current].stage = "error"]
  /\ UNCHANGED <<place, chunk, requests, crashed, strayed>>

\* Mutated form: an upload that failed starts over.
GiveUpAndStartOver ==
  /\ current' = None
  /\ info' = IF current = None THEN info
             ELSE [info EXCEPT ![current] = [NewInfo EXCEPT !.failed = TRUE]]
  /\ UNCHANGED <<place, chunk, requests, crashed, strayed>>

\* The upload ends with an error notification, which is saved with the boo.
GiveUp ==
  /\ current' = None
  /\ info' = IF current = None THEN info ELSE [info EXCEPT ![current].failed = TRUE]
  /\ UNCHANGED <<place, chunk, requests, crashed, strayed>>

\* The stage after a chunk stage.
NextStage(stage) == IF stage = "audio" THEN "image" ELSE "metadata"

\* Mutated form: the attachment counts as complete when the first chunk arrived.
AcceptedEarly(i, m) ==
  [i EXCEPT !.id[i.stage] = m.id, !.uploaded[i.stage] = m.received, !.failed = FALSE,
            !.stage = NextStage(i.stage)]

\* Mutated form: what the server has is taken for what it has just got.
AcceptedTwice(i, m) ==
  [i EXCEPT !.id[i.stage] = m.id, !.uploaded[i.stage] = @ + m.received, !.failed = FALSE,
            !.stage = IF ~m.complete THEN i.stage ELSE NextStage(i.stage)]

\* The upload info once the result m was used in a chunk stage.
Accepted(i, m) ==
  [i EXCEPT !.id[i.stage] = m.id, !.uploaded[i.stage] = m.received, !.failed = FALSE,
            !.stage = IF ~m.complete THEN i.stage ELSE NextStage(i.stage)]

\* The result is for the attachment this upload uses, if it uses one already.
MatchesId(i, m) == i.id[i.stage] = NoId \/ i.id[i.stage] = m.id

\* The size of chunks follows the time the last one took, while the attachment
\* goes on.
AdjustChunkSize(m) == chunk' \in IF m.complete THEN {chunk} ELSE 1 .. MaxChunk

\* A result in one of the chunk stages.  One that adds nothing is dropped: it
\* answers a request that was sent twice.
ProcessChunk(m) ==
  LET i == info[current] IN
  \/ /\ ~MatchesId(i, m)
     /\ GiveUp
  \/ /\ MatchesId(i, m) /\ m.received <= i.uploaded[i.stage]
     /\ UNCHANGED <<place, info, current, chunk, requests, crashed, strayed>>
  \/ /\ MatchesId(i, m) /\ m.received > i.uploaded[i.stage]
     /\ strayed' = (strayed \/ m.boo # current \/ m.stage # i.stage)
     /\ AdjustChunkSize(m)
     /\ Send(current, Accepted(i, m), chunk')
     /\ UNCHANGED <<place, current>>

\* A result in the last stage: the boo is published, and deleted here.
ProcessMetadata(m) ==
  /\ strayed' = (strayed \/ m.boo # current \/ m.stage # "metadata")
  /\ place' = [place EXCEPT ![current] = "gone"]
  /\ current' = None
  /\ UNCHANGED <<info, chunk, requests, crashed>>
-------------------------------------------------------------------------------
(* Steps.                                                                  *)

\* PublishActivity.onSubmit(); the queue thread may be woken, see Wake.
Submit(b) ==
  /\ place[b] = "draft"
  /\ place' = [place EXCEPT ![b] = "queued"]
  /\ info' = [info EXCEPT ![b] = NewInfo]
  /\ UNCHANGED <<current, chunk, requests, messages, failures, crashed, strayed>>
  /\ UNCHANGED Server

Pending == Len(requests) + Len(messages)

\* The queue thread wakes up: after five minutes or because somebody called
\* processQueue(), whether or not a request is under way.
Wake ==
  /\ Pending < MaxPending
  /\ ProcessQueue
  /\ UNCHANGED <<messages, failures>> /\ UNCHANGED Server

\* The handler takes a message.
Handle ==
  /\ messages # <<>>
  /\ messages' = Tail(messages)
  /\ LET m == Head(messages) IN
     \/ /\ ~m.ok
        /\ GiveUp
     \/ /\ m.ok /\ current = None
        /\ UNCHANGED <<place, info, current, chunk, requests, crashed, strayed>>
     \/ /\ m.ok /\ current # None /\ info[current].stage \in Kinds
        /\ ProcessChunk(m)
     \/ /\ m.ok /\ current # None /\ info[current].stage = "metadata"
        /\ ProcessMetadata(m)
  /\ UNCHANGED failures /\ UNCHANGED Server

\* The process dies and is started again: what is not in a file is lost, and
\* with it the answers to what was asked.
Kill ==
  /\ failures < MaxFailures
  /\ failures' = failures + 1
  /\ current' = None
  /\ chunk' = 1
  /\ requests' = <<>> /\ messages' = <<>>
  /\ UNCHANGED <<place, info, crashed, strayed>> /\ UNCHANGED Server
-------------------------------------------------------------------------------
(* The API and the server.                                                 *)

Smaller(m, n) == IF m < n THEN m ELSE n
Larger(m, n) == IF m > n THEN m ELSE n

Creates(r) == r.id[r.stage] = NoId

\* How far the file of request r is on the server once r was carried out.
Reach(r) == LET end == Smaller(Size[r.stage], r.from + r.size)
            IN IF Creates(r) THEN end ELSE Larger(attached[r.id[r.stage]].got, end)

\* The server carries out request r.
Perform(r) ==
  IF r.stage = "metadata"
    THEN /\ clips' = clips \cup {[boo |-> r.boo, id |-> r.id]}
         /\ UNCHANGED attached
    ELSE /\ attached' = IF Creates(r)
              THEN Append(attached, [boo |-> r.boo, kind |-> r.stage, got |-> Reach(r)])
              ELSE [attached EXCEPT ![r.id[r.stage]].got = Reach(r)]
         /\ UNCHANGED clips

\* What it answers.  From an answer to the metadata only the id is read.
Answer(r) ==
  IF r.stage = "metadata"
    THEN [ok |-> TRUE, boo |-> r.boo, stage |-> r.stage, id |-> 1, received |-> 0,
          complete |-> FALSE]
    ELSE [ok |-> TRUE, boo |-> r.boo, stage |-> r.stage,
          id |-> IF Creates(r) THEN Len(attached) + 1 ELSE r.id[r.stage],
          received |-> Reach(r), complete |-> Reach(r) = Size[r.stage]]

Error(r) == [ok |-> FALSE, boo |-> r.boo, stage |-> r.stage, id |-> 0,
             received |-> 0, complete |-> FALSE]

Errors(r, n) == [k \in 1 .. n |-> Error(r)]

\* The requester takes the next request.  Every attempt to find out the status
\* first may send an error of its own; then the request succeeds, or the server
\* carries it out and the answer is lost, or it does not get there at all.  Of
\* neither need there be a message: an answer that breaks off is only logged.
Serve ==
  /\ requests # <<>>
  /\ requests' = Tail(requests)
  /\ LET r == Head(requests) IN
     \E n \in 0 .. MaxMessages :
       \/ /\ messages' = messages \o Errors(r, n) \o <<Answer(r)>>
          /\ Perform(r)
          /\ failures' = IF n = 0 THEN failures ELSE failures + 1
       \/ /\ messages' = messages \o Errors(r, n)
          /\ Perform(r)
          /\ failures' = failures + 1
       \/ /\ messages' = messages \o Errors(r, n)
          /\ failures' = failures + 1
          /\ UNCHANGED Server
  /\ failures' <= MaxFailures
  /\ UNCHANGED <<place, info, current, chunk, crashed, strayed>>

Next ==
  /\ ~crashed
  /\ \/ \E b \in Boos : Submit(b)
     \/ Wake \/ Handle \/ Kill \/ Serve

Spec == Init /\ [][Next]_vars

\* The queue thread wakes up every five minutes, the main thread handles its
\* messages, and the requester takes requests as long as there are any.
FairSpec ==
  /\ Spec
  /\ WF_vars(~crashed /\ Wake) /\ WF_vars(~crashed /\ Handle) /\ WF_vars(~crashed /\ Serve)
-------------------------------------------------------------------------------
(* Properties.                                                             *)

TypeOK ==
  /\ place \in [Boos -> {"draft", "queued", "gone"}]
  /\ info \in [Boos -> Infos]
  /\ current \in Boos \cup {None}
  /\ chunk \in 1 .. MaxChunk
  /\ requests \in Seq(Requests)
  /\ messages \in Seq(Results)
  /\ attached \in Seq([boo : Boos, kind : Kinds, got : Nat])
  /\ clips \subseteq [boo : Boos, id : [Kinds -> Nat \cup {NoId}]]
  /\ failures \in Nat /\ crashed \in BOOLEAN /\ strayed \in BOOLEAN

\* What the phone believes to be uploaded, the server has: of that boo, in that
\* attachment, at least that much, though answers get lost, come twice, or
\* come for a request made before the process died.
UploadedWasReceived ==
  ~strayed => \A b \in Boos, k \in Kinds :
    info[b].id[k] # NoId =>
      /\ info[b].id[k] \in DOMAIN attached
      /\ attached[info[b].id[k]].boo = b /\ attached[info[b].id[k]].kind = k
      /\ info[b].uploaded[k] <= attached[info[b].id[k]].got

\* A published clip has all of its audio, and of its image if it has one.
PublishedWhole ==
  ~strayed => \A c \in clips, k \in Kinds :
    k = "audio" \/ c.boo \in WithImage =>
      c.id[k] # NoId /\ attached[c.id[k]].got = Size[k]

\* No boo is deleted before the server has published it, unless a result was
\* used for a request it does not answer.
DeletedIsPublished ==
  ~strayed => \A b \in Boos : place[b] = "gone" => \E c \in clips : c.boo = b

\* An upload goes on with the attachment it began, where it was: no error, late
\* result, retry or death of the process moves it to another one or back.
AttachmentKept ==
  [][\A b \in Boos, k \in Kinds :
       place[b] = "queued" /\ info[b].id[k] # NoId =>
         /\ info'[b].id[k] = info[b].id[k]
         /\ info'[b].uploaded[k] >= info[b].uploaded[k]]_vars

\* With a network that fails only so often, every submitted boo leaves the
\* queue, however often the thread wakes up in between.  A result that strayed
\* may leave the phone and the server with different ideas of an attachment.
UploadsEnd == \A b \in Boos : place[b] = "queued" ~> place[b] = "gone" \/ strayed

\* "We treat this case as "completed". It's in the list, but it's not on disk
\* any longer." (BooListAdapter.java:243): an upload that is no longer on disk is
\* published, or will be by a request that is still under way.
NotOnDiskIsCompleted ==
  \A b \in Boos : place[b] = "gone" =>
    \/ \E c \in clips : c.boo = b
    \/ \E k \in DOMAIN requests : requests[k].boo = b /\ requests[k].stage = "metadata"
===============================================================================
