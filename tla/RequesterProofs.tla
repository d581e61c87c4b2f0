---------------------------- MODULE RequesterProofs ----------------------------
(***************************************************************************)
(* Proofs about Requester, for any number of attempts, calls and failures: *)
(* its type, that a success is the last word on a request and keeps the    *)
(* data it came with, and that credentials outlive the retries.            *)
(*                                                                         *)
(* A request is in the queue once, and until the thread has sent its       *)
(* success; so nobody sends anything for it afterwards, and the slot its   *)
(* messages share is left alone.  The errors Globals has counted and those *)
(* that wait to be counted are no more than requests that came to nothing. *)
(***************************************************************************)
EXTENDS Requester, SequenceTheorems, FunctionTheorems, FiniteSetTheorems, TLAPS

USE RequesterAssumption DEF RequesterAssumption

Request == [kind : Kinds, baton : Batons, sent : {"open", "succeeded", "overtaken"}]
Message == [to : {"api", "status", "account"}, req : Nat, what : Whats]

Working == thread.at \notin {"sleep", "poll"}

\* The type of whatever does not grow.
ThreadStates == [at : Places, req : Nat, http : {0, 200, 401},
                 statusTries : 0 .. StatusTries - 1,
                 requestTries : 0 .. RequestTries - 1]

ThreadFits ==
  /\ thread \in ThreadStates
  /\ Working => thread.req # 0

Flags ==
  /\ key \in {"service", "source"} /\ stored \in BOOLEAN
  /\ status \in Statuses /\ expired \in BOOLEAN
  /\ session \in [onwards : BOOLEAN, retries : Nat, authErrors : Nat,
                  account : BOOLEAN]
  /\ silent \in BOOLEAN /\ refused \in BOOLEAN /\ crashed \in BOOLEAN

Counters ==
  /\ calls \in 0 .. MaxCalls /\ failures \in 0 .. MaxFailures
  /\ exhausted \in Nat

Registers == ThreadFits /\ Flags /\ Counters

\* The type of what does, and who is known.
Ledger ==
  /\ requests \in Seq(Request) /\ queue \in Seq(1 .. Len(requests))
  /\ messages \in Seq(Message) /\ thread.req <= Len(requests)
  /\ \A i \in 1 .. Len(messages) :
       /\ messages[i].req \in 0 .. Len(requests)
       /\ messages[i].to = "api" => messages[i].req # 0

\* What is still to be done has had no success, and is to be done once.
QueueOpen ==
  /\ \A i \in 1 .. Len(queue) : requests[queue[i]].sent = "open"
  /\ \A i, j \in 1 .. Len(queue) : queue[i] = queue[j] => i = j

WorkOpen ==
  Working => /\ requests[thread.req].sent = "open"
             /\ \A i \in 1 .. Len(queue) : queue[i] # thread.req

\* A success that waits to be handled has its data in the request.
SuccessStored ==
  \A i \in 1 .. Len(messages) :
    messages[i].to = "api" /\ messages[i].what = "success" =>
      /\ requests[messages[i].req].sent = "succeeded"
      /\ requests[messages[i].req].kind # "status" =>
           requests[messages[i].req].baton = "data"

\* The inductive invariant.
RequesterInv ==
  /\ TypeOK
  /\ QueueOpen /\ WorkOpen /\ SuccessStored /\ SuccessIsLast

-------------------------------------------------------------------------------
(* Lemmas about sequences and operators.                                   *)

LEMMA AppendAt ==
  ASSUME NEW S, NEW s \in Seq(S), NEW e \in S
  PROVE  /\ Append(s, e) \in Seq(S)
         /\ Len(Append(s, e)) = Len(s) + 1
         /\ \A i \in 1 .. Len(s) : Append(s, e)[i] = s[i]
         /\ Append(s, e)[Len(s) + 1] = e
  BY AppendProperties

LEMMA TailAt ==
  ASSUME NEW S, NEW s \in Seq(S), s # <<>>
  PROVE  /\ Head(s) = s[1] /\ Head(s) \in S /\ Len(s) \in Nat \ {0}
         /\ Tail(s) \in Seq(S) /\ Len(Tail(s)) = Len(s) - 1
         /\ \A i \in 1 .. Len(Tail(s)) : Tail(s)[i] = s[i + 1] /\ i + 1 \in 1 .. Len(s)
  BY HeadTailProperties

LEMMA ConcatAt ==
  ASSUME NEW S, NEW s \in Seq(S), NEW t \in Seq(S)
  PROVE  /\ s \o t \in Seq(S)
         /\ Len(s \o t) = Len(s) + Len(t)
         /\ \A i \in 1 .. Len(s \o t) :
              \/ i \in 1 .. Len(s) /\ (s \o t)[i] = s[i]
              \/ i - Len(s) \in 1 .. Len(t) /\ (s \o t)[i] = t[i - Len(s)]
  BY ConcatProperties

LEMMA WiderSeq ==
  ASSUME NEW S, NEW T, S \subseteq T, NEW s \in Seq(S)
  PROVE  s \in Seq(T) /\ \A i \in 1 .. Len(s) : s[i] \in S
  OBVIOUS

\* Messages know of requests that were made.
LEMMA MessagesFit ==
  ASSUME TypeOK
  PROVE  /\ requests \in Seq(Request) /\ Len(requests) \in Nat
         /\ messages \in Seq(Message)
         /\ queue \in Seq(1 .. Len(requests))
         /\ thread.req \in 0 .. Len(requests) /\ (Working => thread.req # 0)
         /\ \A i \in 1 .. Len(messages) :
              /\ messages[i].req \in 0 .. Len(requests)
              /\ messages[i].to = "api" => messages[i].req # 0
         /\ \A i \in 1 .. Len(queue) : queue[i] \in 1 .. Len(requests)
<1> DEFINE Here == [to : {"api", "status", "account"}, req : 0 .. Len(requests),
                    what : Whats]
<1>1. requests \in Seq(Request) /\ Len(requests) \in Nat
  BY DEF TypeOK, Request
<1>2. messages \in Seq(Here)
  BY DEF TypeOK
<1>3. Here \subseteq Message
  BY <1>1 DEF Message
<1>4. messages \in Seq(Message) /\ \A i \in 1 .. Len(messages) : messages[i] \in Here
  <2> HIDE DEF Here
  <2> QED
    BY <1>2, <1>3, WiderSeq
<1>5. /\ queue \in Seq(1 .. Len(requests))
      /\ thread.req \in 0 .. Len(requests) /\ (Working => thread.req # 0)
      /\ \A i \in 1 .. Len(messages) : messages[i].to = "api" => messages[i].req # 0
  BY DEF TypeOK, Working
<1>6. \A i \in 1 .. Len(queue) : queue[i] \in 1 .. Len(requests)
  BY <1>5, WiderSeq
<1> QED
  BY <1>1, <1>4, <1>5, <1>6

LEMMA RegistersFit ==
  ASSUME TypeOK
  PROVE  Registers
  BY DEF TypeOK, Registers, ThreadFits, ThreadStates, Flags, Counters, Working

\* The type again, from its parts, here and after a step.
LEMMA PartsFit == Registers /\ Ledger => TypeOK
<1> SUFFICES ASSUME Registers, Ledger PROVE TypeOK
  OBVIOUS
<1> DEFINE Here == [to : {"api", "status", "account"}, req : 0 .. Len(requests),
                    what : Whats]
<1>1. \A i \in 1 .. Len(messages) : messages[i] \in Message
  BY WiderSeq DEF Ledger
<1>2. \A i \in 1 .. Len(messages) : messages[i] \in Here
  BY <1>1 DEF Message, Ledger
<1>3. messages \in Seq(Here)
  <2> HIDE DEF Here
  <2> QED
    BY <1>2 DEF Ledger
<1>4. requests \in Seq([kind : Kinds, baton : Batons,
                       sent : {"open", "succeeded", "overtaken"}])
  BY DEF Request, Ledger
<1> QED
  BY <1>3, <1>4 DEF TypeOK, Registers, ThreadFits, ThreadStates, Flags, Counters, Ledger, Working

LEMMA InvParts ==
  ASSUME RequesterInv
  PROVE  Registers /\ Ledger
  BY RegistersFit, MessagesFit DEF RequesterInv, Ledger

LEMMA NextPartsFit == Registers' /\ Ledger' => TypeOK'
  BY PartsFit, PTL

LEMMA NewRequestFits ==
  ASSUME NEW kind \in Kinds
  PROVE  NewRequest(kind) \in Request /\ NewRequest(kind).sent = "open"
  BY DEF NewRequest, Request, Batons

\* Something that is sent before the success of a request is either that success
\* or leaves it open.
LEMMA SentFits ==
  ASSUME NEW r \in Request, NEW what \in Whats, NEW baton \in Batons
  PROVE  /\ Sent(r, what, baton) \in Request
         /\ Sent(r, what, baton).kind = r.kind
         /\ Sent(r, what, baton).baton = baton
         /\ r.sent = "open" => Sent(r, what, baton).sent =
              IF what = "success" THEN "succeeded" ELSE "open"
  BY DEF Sent, Request

LEMMA AfterFetchFits ==
  ASSUME NEW r \in Request, NEW o \in Outcomes
  PROVE  /\ AfterFetch(r, o) \in Request
         /\ AfterFetch(r, o).kind = r.kind
         /\ r.sent = "open" => AfterFetch(r, o).sent = "open"
  BY SentFits DEF AfterFetch, Outcomes, Whats, Batons

-------------------------------------------------------------------------------
(* The thread's steps change its request and add messages about it; the    *)
(* main thread's take a message, or add a request.                         *)

\* What is sent about thread.req, with x for it afterwards: a success only if x
\* has succeeded and keeps its data.
Tells(ms, x) ==
  \A i \in 1 .. Len(ms) :
    /\ ms[i].to = "api" /\ ms[i].req = thread.req
    /\ ms[i].what = "success" =>
         x.sent = "succeeded" /\ (x.kind # "status" => x.baton = "data")

LEMMA WorkKeeps ==
  ASSUME RequesterInv, Working, Registers',
         NEW x \in Request, x.sent \in {"open", "succeeded"},
         requests' = [requests EXCEPT ![thread.req] = x],
         queue' = queue, thread'.req = thread.req,
         NEW ms \in Seq(Message), Tells(ms, x),
         messages' = messages \o ms,
         Working' => x.sent = "open"
  PROVE  RequesterInv'
<1>0. /\ requests \in Seq(Request) /\ messages \in Seq(Message)
      /\ queue \in Seq(1 .. Len(requests))
      /\ thread.req \in 1 .. Len(requests)
      /\ \A i \in 1 .. Len(messages) :
           messages[i].to = "api" => messages[i].req \in 1 .. Len(requests)
  BY MessagesFit DEF RequesterInv
<1>1. /\ DOMAIN requests = 1 .. Len(requests) /\ Len(requests) \in Nat
      /\ Len(requests') = Len(requests)
      /\ requests'[thread.req] = x
      /\ \A r \in 1 .. Len(requests) : r # thread.req => requests'[r] = requests[r]
  BY <1>0
<1>6. TypeOK'
  <2>1. requests' \in Seq(Request) /\ queue' \in Seq(1 .. Len(requests'))
    BY <1>0, <1>1
  <2>2. messages' \in Seq(Message) /\ thread'.req <= Len(requests')
    BY <1>0, <1>1, ConcatAt
  <2>3. \A i \in 1 .. Len(messages') :
          /\ messages'[i].req \in 0 .. Len(requests')
          /\ messages'[i].to = "api" => messages'[i].req # 0
    <3> SUFFICES ASSUME NEW i \in 1 .. Len(messages')
                 PROVE  /\ messages'[i].req \in 0 .. Len(requests')
                        /\ messages'[i].to = "api" => messages'[i].req # 0
      OBVIOUS
    <3>1. CASE i \in 1 .. Len(messages) /\ messages'[i] = messages[i]
      BY <1>1, <3>1, MessagesFit DEF RequesterInv
    <3>2. CASE i - Len(messages) \in 1 .. Len(ms) /\ messages'[i] = ms[i - Len(messages)]
      <4>1. messages'[i].req = thread.req
        BY <3>2 DEF Tells
      <4> QED
        BY <1>0, <1>1, <4>1
    <3>3. \/ i \in 1 .. Len(messages) /\ messages'[i] = messages[i]
          \/ i - Len(messages) \in 1 .. Len(ms) /\ messages'[i] = ms[i - Len(messages)]
      <4>1. messages \in Seq(Message)
        BY <1>0
      <4> QED
        BY <4>1, ConcatAt
    <3> QED
      BY <3>1, <3>2, <3>3
  <2> QED
    BY <2>1, <2>2, <2>3, NextPartsFit DEF Ledger
<1>2. QueueOpen'
  BY <1>0, <1>1 DEF RequesterInv, QueueOpen, WorkOpen
<1>3. WorkOpen'
  BY <1>0, <1>1 DEF RequesterInv, WorkOpen
<1>4. SuccessStored'
  <2> SUFFICES ASSUME NEW i \in 1 .. Len(messages'),
                      messages'[i].to = "api", messages'[i].what = "success"
               PROVE  /\ requests'[messages'[i].req].sent = "succeeded"
                      /\ requests'[messages'[i].req].kind # "status" =>
                           requests'[messages'[i].req].baton = "data"
    BY DEF SuccessStored
  <2>1. CASE i \in 1 .. Len(messages) /\ messages'[i] = messages[i]
    <3>1. /\ requests[messages[i].req].sent = "succeeded"
          /\ requests[messages[i].req].kind # "status" =>
               requests[messages[i].req].baton = "data"
      BY <2>1 DEF RequesterInv, SuccessStored
    <3>2. messages[i].req \in 1 .. Len(requests) /\ messages[i].req # thread.req
      BY <1>0, <2>1, <3>1 DEF RequesterInv, WorkOpen
    <3> QED
      BY <1>1, <2>1, <3>1, <3>2
  <2>2. CASE i - Len(messages) \in 1 .. Len(ms) /\ messages'[i] = ms[i - Len(messages)]
    <3>1. /\ messages'[i].req = thread.req
          /\ x.sent = "succeeded" /\ (x.kind # "status" => x.baton = "data")
      BY <2>2 DEF Tells
    <3>2. requests'[messages'[i].req] = x
      BY <1>1, <3>1
    <3> QED
      BY <3>1, <3>2
  <2>3. \/ i \in 1 .. Len(messages) /\ messages'[i] = messages[i]
        \/ i - Len(messages) \in 1 .. Len(ms) /\ messages'[i] = ms[i - Len(messages)]
    <3>1. messages \in Seq(Message)
      BY <1>0
    <3> QED
      BY <3>1, ConcatAt
  <2> QED
    BY <2>1, <2>2, <2>3
<1>5. SuccessIsLast'
  BY <1>1 DEF RequesterInv, SuccessIsLast
<1> QED
  BY <1>6, <1>2, <1>3, <1>4, <1>5 DEF RequesterInv

\* A message is taken, or none, and others that are no success of the API are
\* added: the rest of the invariant follows.
LEMMA HandleKeeps ==
  ASSUME RequesterInv, Registers',
         UNCHANGED thread,
         \/ UNCHANGED <<requests, queue>>
         \/ \E kind \in Kinds : Schedule(kind),
         messages # <<>> \/ UNCHANGED messages,
         \/ UNCHANGED messages
         \/ messages' = Rest
         \/ \E m \in Message :
              messages' = Append(Rest, m) /\ m.to # "api" /\ m.req = 0
  PROVE  RequesterInv'
<1>0. /\ requests \in Seq(Request) /\ messages \in Seq(Message)
      /\ queue \in Seq(1 .. Len(requests))
      /\ thread.req \in 0 .. Len(requests) /\ Len(requests) \in Nat
      /\ Working => thread.req # 0
      /\ \A i \in 1 .. Len(queue) : queue[i] \in 1 .. Len(requests)
  BY MessagesFit DEF RequesterInv
<1>1. /\ \A r \in 1 .. Len(requests) : r \in 1 .. Len(requests') /\ requests'[r] = requests[r]
      /\ \A r \in 1 .. Len(requests') : r \notin 1 .. Len(requests) =>
           requests'[r].sent = "open"
  <2>1. CASE UNCHANGED <<requests, queue>>
    BY <2>1
  <2>2. CASE \E kind \in Kinds : Schedule(kind)
    <3>1. PICK kind \in Kinds : requests' = Append(requests, NewRequest(kind))
      BY <2>2 DEF Schedule
    <3> QED
      BY <1>0, <3>1, NewRequestFits, AppendAt
  <2> QED
    BY <2>1, <2>2
<1>2. /\ \A i \in 1 .. Len(queue) : i \in 1 .. Len(queue') /\ queue'[i] = queue[i]
      /\ \A i \in 1 .. Len(queue') : i \notin 1 .. Len(queue) =>
           i = Len(queue) + 1 /\ queue'[i] = Len(requests) + 1
                              /\ queue'[i] \in 1 .. Len(requests')
  <2>1. CASE UNCHANGED <<requests, queue>>
    BY <2>1
  <2>2. CASE \E kind \in Kinds : Schedule(kind)
    <3>1. PICK kind \in Kinds : /\ requests' = Append(requests, NewRequest(kind))
                                /\ queue' = Append(queue, Len(requests) + 1)
      BY <2>2 DEF Schedule
    <3>2. queue \in Seq(Nat) /\ Len(requests) + 1 \in Nat /\ Len(queue) \in Nat
      BY <1>0
    <3>3. Len(requests') = Len(requests) + 1
      BY <1>0, <3>1, NewRequestFits, AppendAt
    <3> QED
      BY <1>0, <3>1, <3>2, <3>3, AppendAt
  <2> QED
    BY <2>1, <2>2
<1>3. QueueOpen'
  <2>1. \A i \in 1 .. Len(queue') : requests'[queue'[i]].sent = "open"
    BY <1>0, <1>1, <1>2 DEF RequesterInv, QueueOpen
  <2>2. \A i, j \in 1 .. Len(queue') : queue'[i] = queue'[j] => i = j
    <3> SUFFICES ASSUME NEW i \in 1 .. Len(queue'), NEW j \in 1 .. Len(queue'),
                        queue'[i] = queue'[j]
                 PROVE  i = j
      OBVIOUS
    <3>1. CASE i \in 1 .. Len(queue) /\ j \in 1 .. Len(queue)
      BY <1>2, <3>1 DEF RequesterInv, QueueOpen
    <3>2. CASE i \notin 1 .. Len(queue) \/ j \notin 1 .. Len(queue)
      <4>1. i \notin 1 .. Len(queue) => i = Len(queue) + 1 /\ queue'[i] = Len(requests) + 1
        BY <1>2
      <4>2. j \notin 1 .. Len(queue) => j = Len(queue) + 1 /\ queue'[j] = Len(requests) + 1
        BY <1>2
      <4>3. /\ i \in 1 .. Len(queue) => queue'[i] \in 1 .. Len(requests)
            /\ j \in 1 .. Len(queue) => queue'[j] \in 1 .. Len(requests)
        BY <1>0, <1>2
      <4> QED
        BY <1>0, <3>2, <4>1, <4>2, <4>3
    <3> QED
      BY <3>1, <3>2
  <2> QED
    BY <2>1, <2>2 DEF QueueOpen
<1>4. WorkOpen'
  <2> SUFFICES ASSUME Working
               PROVE  /\ requests'[thread.req].sent = "open"
                      /\ \A i \in 1 .. Len(queue') : queue'[i] # thread.req
    BY DEF WorkOpen, Working
  <2>1. /\ thread.req \in 1 .. Len(requests)
        /\ requests[thread.req].sent = "open"
        /\ \A i \in 1 .. Len(queue) : queue[i] # thread.req
    BY <1>0 DEF RequesterInv, WorkOpen
  <2>2. requests'[thread.req].sent = "open"
    BY <1>1, <2>1
  <2>3. \A i \in 1 .. Len(queue') : queue'[i] # thread.req
    BY <1>0, <1>2, <2>1
  <2> QED
    BY <2>2, <2>3
<1>5. \A i \in 1 .. Len(messages') :
        messages'[i].to = "api" => \E j \in 1 .. Len(messages) : messages'[i] = messages[j]
  <2>1. CASE UNCHANGED messages
    BY <2>1
  <2>2. CASE messages # <<>> /\ messages' = Rest
    <3>1. \A i \in 1 .. Len(messages') :
            messages'[i] = messages[i + 1] /\ i + 1 \in 1 .. Len(messages)
      BY <1>0, <2>2, TailAt DEF Rest
    <3> QED
      BY <3>1
  <2>3. CASE /\ messages # <<>>
             /\ \E m \in Message :
                  messages' = Append(Rest, m) /\ m.to # "api" /\ m.req = 0
    <3>1. PICK m \in Message : messages' = Append(Rest, m) /\ m.to # "api"
      BY <2>3
    <3>2. Rest \in Seq(Message) /\ \A i \in 1 .. Len(Rest) :
            Rest[i] = messages[i + 1] /\ i + 1 \in 1 .. Len(messages)
      BY <1>0, <2>3, TailAt DEF Rest
    <3>3. Len(Rest) \in Nat
      BY <3>2
    <3> QED
      BY <3>1, <3>2, <3>3, AppendAt
  <2> QED
    BY <2>1, <2>2, <2>3
<1>6. SuccessStored'
  <2>1. \A j \in 1 .. Len(messages) :
          messages[j].to = "api" => messages[j].req \in 1 .. Len(requests)
    BY MessagesFit DEF RequesterInv
  <2> QED
    BY <1>1, <1>5, <2>1 DEF RequesterInv, SuccessStored
<1>7. SuccessIsLast'
  BY <1>1 DEF RequesterInv, SuccessIsLast
<1>8. Ledger'
  <2>1. requests' \in Seq(Request) /\ queue' \in Seq(1 .. Len(requests'))
        /\ Len(requests) <= Len(requests') /\ Len(requests') \in Nat
    <3>1. CASE UNCHANGED <<requests, queue>>
      BY <1>0, <3>1
    <3>2. CASE \E kind \in Kinds : Schedule(kind)
      <4>1. PICK kind \in Kinds : /\ requests' = Append(requests, NewRequest(kind))
                                  /\ queue' = Append(queue, Len(requests) + 1)
        BY <3>2 DEF Schedule
      <4>2. requests' \in Seq(Request) /\ Len(requests') = Len(requests) + 1
        BY <1>0, <4>1, NewRequestFits, AppendAt
      <4>3. queue \in Seq(1 .. Len(requests'))
        <5>1. 1 .. Len(requests) \subseteq 1 .. Len(requests')
          BY <1>0, <4>2
        <5> QED
          BY <1>0, <5>1, WiderSeq
      <4>4. Len(requests) + 1 \in 1 .. Len(requests')
        BY <1>0, <4>2
      <4> QED
        BY <1>0, <4>1, <4>2, <4>3, <4>4, AppendAt
    <3> QED
      BY <3>1, <3>2
  <2>2. /\ messages' \in Seq(Message)
        /\ \A i \in 1 .. Len(messages') :
             \/ \E j \in 1 .. Len(messages) : messages'[i] = messages[j]
             \/ messages'[i].to # "api" /\ messages'[i].req = 0
    <3>1. CASE UNCHANGED messages
      BY <1>0, <3>1
    <3>2. CASE messages # <<>> /\ messages' = Rest
      <4>1. \A i \in 1 .. Len(messages') :
              messages'[i] = messages[i + 1] /\ i + 1 \in 1 .. Len(messages)
        BY <1>0, <3>2, TailAt DEF Rest
      <4> QED
        BY <1>0, <3>2, <4>1, TailAt DEF Rest
    <3>3. CASE /\ messages # <<>>
               /\ \E m \in Message :
                    messages' = Append(Rest, m) /\ m.to # "api" /\ m.req = 0
      <4>1. PICK m \in Message : messages' = Append(Rest, m) /\ m.to # "api" /\ m.req = 0
        BY <3>3
      <4>2. Rest \in Seq(Message) /\ \A i \in 1 .. Len(Rest) :
              Rest[i] = messages[i + 1] /\ i + 1 \in 1 .. Len(messages)
        BY <1>0, <3>3, TailAt DEF Rest
      <4>3. Len(Rest) \in Nat
        BY <4>2
      <4> QED
        BY <4>1, <4>2, <4>3, AppendAt
    <3> QED
      BY <3>1, <3>2, <3>3
  <2>3. \A j \in 1 .. Len(messages) :
          /\ messages[j].req \in 0 .. Len(requests)
          /\ messages[j].to = "api" => messages[j].req # 0
    BY MessagesFit DEF RequesterInv
  <2>4. \A i \in 1 .. Len(messages') :
          /\ messages'[i].req \in 0 .. Len(requests')
          /\ messages'[i].to = "api" => messages'[i].req # 0
    <3> SUFFICES ASSUME NEW i \in 1 .. Len(messages')
                 PROVE  /\ messages'[i].req \in 0 .. Len(requests')
                        /\ messages'[i].to = "api" => messages'[i].req # 0
      OBVIOUS
    <3>1. CASE \E j \in 1 .. Len(messages) : messages'[i] = messages[j]
      <4>1. PICK j \in 1 .. Len(messages) : messages'[i] = messages[j]
        BY <3>1
      <4>2. /\ messages'[i].req \in 0 .. Len(requests)
            /\ messages'[i].to = "api" => messages'[i].req # 0
        BY <2>3, <4>1
      <4> QED
        BY <1>0, <2>1, <4>2
    <3>2. CASE messages'[i].to # "api" /\ messages'[i].req = 0
      BY <2>1, <3>2
    <3> QED
      BY <2>2, <3>1, <3>2
  <2>5. thread'.req <= Len(requests')
    BY <1>0, <2>1
  <2> QED
    BY <2>1, <2>2, <2>4, <2>5 DEF Ledger
<1> QED
  BY <1>3, <1>4, <1>6, <1>7, <1>8, NextPartsFit DEF RequesterInv

-------------------------------------------------------------------------------
(* The steps of the thread.                                                *)

LEMMA WakeKeeps == RequesterInv /\ Wake => RequesterInv'
<1> SUFFICES ASSUME RequesterInv, Wake PROVE RequesterInv'
  OBVIOUS
<1>0. Registers /\ Ledger
  BY InvParts
<1>1. Flags' /\ Counters'
  BY <1>0 DEF Wake, Counts, Registers, Flags, Counters
<1>2. ThreadFits'
  BY <1>0 DEF Wake, Registers, ThreadFits, ThreadStates, Working, Places
<1>3. Ledger'
  BY <1>0 DEF Wake, Registers, ThreadFits, ThreadStates, Ledger
<1>4. ~Working' /\ UNCHANGED <<requests, queue, messages>>
  BY <1>0 DEF Wake, Working, Registers, ThreadFits, ThreadStates
<1> QED
  BY <1>1, <1>2, <1>3, <1>4, NextPartsFit
     DEF Registers, RequesterInv, QueueOpen, WorkOpen, SuccessStored, SuccessIsLast

LEMMA PollKeeps == RequesterInv /\ Poll => RequesterInv'
<1> SUFFICES ASSUME RequesterInv, Poll PROVE RequesterInv'
  OBVIOUS
<1>0. /\ UNCHANGED <<requests, messages>>
      /\ SuccessStored' /\ SuccessIsLast'
  BY DEF Poll, RequesterInv, SuccessStored, SuccessIsLast
<1>3. Registers /\ Ledger
  BY InvParts
<1>1. CASE /\ queue = <<>> /\ UNCHANGED <<queue, key>>
           /\ thread' = [thread EXCEPT !.at = "sleep"]
  <2>1. Flags' /\ Counters'
    BY <1>1, <1>3 DEF Poll, Counts, Registers, Flags, Counters
  <2>2. thread \in ThreadStates /\ "sleep" \in Places
    BY <1>3 DEF Registers, ThreadFits, Places
  <2>3. thread' \in ThreadStates /\ thread'.at = "sleep" /\ thread'.req = thread.req
    BY <1>1, <2>2 DEF ThreadStates
  <2>4. ThreadFits' /\ ~Working'
    BY <2>3 DEF ThreadFits, Working
  <2>5. Ledger'
    BY <1>0, <1>1, <1>3, <2>3 DEF Ledger
  <2> QED
    BY <1>0, <1>1, <2>1, <2>4, <2>5, NextPartsFit
       DEF Registers, RequesterInv, QueueOpen, WorkOpen
<1>2. CASE /\ queue # <<>> /\ queue' = Tail(queue)
           /\ key' = IF stored THEN "source" ELSE key
           /\ thread' = [at |-> IF key' = "source" THEN "status" ELSE "register",
                         req |-> Head(queue), http |-> 0, statusTries |-> 0,
                         requestTries |-> 0]
  <2>1. queue \in Seq(1 .. Len(requests)) /\ Len(requests) \in Nat
    BY MessagesFit DEF RequesterInv
  <2>2. /\ Head(queue) = queue[1] /\ Head(queue) \in 1 .. Len(requests)
        /\ 1 \in 1 .. Len(queue) /\ queue' \in Seq(1 .. Len(requests))
        /\ \A i \in 1 .. Len(queue') : queue'[i] = queue[i + 1] /\ i + 1 \in 1 .. Len(queue)
    BY <1>2, <2>1, TailAt
  <2>3. Registers'
    <3>1. key' \in {"service", "source"}
      BY <1>2, <1>3 DEF Registers, Flags
    <3>2. Flags' /\ Counters'
      BY <1>3, <3>1 DEF Poll, Counts, Registers, Flags, Counters
    <3>3. ThreadFits'
      BY <1>2, <2>1, <2>2 DEF ThreadFits, ThreadStates, Working, Places
    <3> QED
      BY <3>2, <3>3 DEF Registers
  <2>4. Ledger'
    BY <1>0, <1>2, <1>3, <2>1, <2>2 DEF Ledger
  <2>5. QueueOpen'
    <3>1. \A i \in 1 .. Len(queue') : requests[queue'[i]].sent = "open"
      BY <2>2 DEF RequesterInv, QueueOpen
    <3>2. \A i, j \in 1 .. Len(queue') : queue'[i] = queue'[j] => i = j
      <4> SUFFICES ASSUME NEW i \in 1 .. Len(queue'), NEW j \in 1 .. Len(queue'),
                          queue'[i] = queue'[j]
                   PROVE  i = j
        OBVIOUS
      <4>1. queue[i + 1] = queue[j + 1] /\ i + 1 \in 1 .. Len(queue) /\ j + 1 \in 1 .. Len(queue)
        BY <2>2
      <4>2. i + 1 = j + 1
        BY <4>1 DEF RequesterInv, QueueOpen
      <4> QED
        BY <4>2
    <3> QED
      BY <1>0, <3>1, <3>2 DEF QueueOpen
  <2>6. WorkOpen'
    <3>1. thread'.req = queue[1] /\ requests[queue[1]].sent = "open"
      BY <1>2, <2>2 DEF RequesterInv, QueueOpen
    <3>2. \A i \in 1 .. Len(queue') : queue'[i] # queue[1]
      BY <2>2 DEF RequesterInv, QueueOpen
    <3> QED
      BY <1>0, <3>1, <3>2 DEF WorkOpen
  <2> QED
    BY <1>0, <2>3, <2>4, <2>5, <2>6, NextPartsFit DEF RequesterInv
<1> QED
  BY <1>1, <1>2 DEF Poll

\* What may be said of the request at hand.
LEMMA ErrorTells ==
  ASSUME NEW x, NEW what \in Whats \ {"success"}, thread.req \in Nat
  PROVE  <<ToApi(what)>> \in Seq(Message) /\ Tells(<<ToApi(what)>>, x)
  BY DEF ToApi, Tells, Message

LEMMA SuccessTells ==
  ASSUME NEW x, x.sent = "succeeded", x.kind # "status" => x.baton = "data",
         thread.req \in Nat
  PROVE  <<ToApi("success")>> \in Seq(Message) /\ Tells(<<ToApi("success")>>, x)
  BY DEF ToApi, Tells, Message, Whats

LEMMA FetchTellsErrors ==
  ASSUME NEW x, NEW o, thread.req \in Nat
  PROVE  FetchTells(o) \in Seq(Message) /\ Tells(FetchTells(o), x)
<1>1. CASE o.tells
  BY <1>1, ErrorTells DEF FetchTells, Whats
<1>2. CASE ~o.tells
  BY <1>2 DEF FetchTells, Tells
<1> QED
  BY <1>1, <1>2

LEMMA TellsBoth ==
  ASSUME NEW x, NEW s \in Seq(Message), NEW t \in Seq(Message),
         Tells(s, x), Tells(t, x)
  PROVE  s \o t \in Seq(Message) /\ Tells(s \o t, x)
<1>1. /\ s \o t \in Seq(Message)
      /\ \A i \in 1 .. Len(s \o t) :
           \/ i \in 1 .. Len(s) /\ (s \o t)[i] = s[i]
           \/ i - Len(s) \in 1 .. Len(t) /\ (s \o t)[i] = t[i - Len(s)]
  BY ConcatAt
<1>2. \A i \in 1 .. Len(s \o t) :
        \/ \E j \in 1 .. Len(s) : (s \o t)[i] = s[j]
        \/ \E j \in 1 .. Len(t) : (s \o t)[i] = t[j]
  BY <1>1
<1> QED
  BY <1>1, <1>2 DEF Tells

\* A fetch that is made keeps the counters' types.
LEMMA FetchedFits ==
  ASSUME Registers, NEW o \in Outcomes, Fetched(o)
  PROVE  failures' \in 0 .. MaxFailures /\ refused' \in BOOLEAN
<1>1. failures' \in 0 .. MaxFailures
  BY DEF Fetched, Registers, Counters
<1>2. refused' \in BOOLEAN
  BY DEF Fetched
<1> QED
  BY <1>1, <1>2

LEMMA WorkAtHand ==
  ASSUME RequesterInv, Working
  PROVE  /\ Req \in Request /\ Req.sent = "open" /\ thread.req \in Nat \ {0}
         /\ messages \in Seq(Message)
         /\ \A o \in Outcomes : Http(o) \in {0, 200, 401}
<1>1. /\ requests \in Seq(Request) /\ thread.req \in 1 .. Len(requests)
      /\ messages \in Seq(Message)
  BY MessagesFit DEF RequesterInv
<1>2. Req \in Request
  BY <1>1 DEF Req
<1>3. thread.http \in {0, 200, 401}
  BY InvParts DEF Registers, ThreadFits, ThreadStates
<1>4. \A o \in Outcomes : o.code \in {0, 200, 401}
  <2> TAKE o \in Outcomes
  <2>1. CASE o = [code |-> 0, tells |-> TRUE, data |-> FALSE]
    BY <2>1
  <2>2. CASE o \in [code : {200}, tells : {FALSE}, data : BOOLEAN]
    BY <2>2
  <2>3. CASE \/ o = [code |-> 200, tells |-> TRUE, data |-> FALSE]
             \/ o = [code |-> 401, tells |-> FALSE, data |-> TRUE]
    BY <2>3
  <2> QED
    BY <2>1, <2>2, <2>3 DEF Outcomes
<1> QED
  BY <1>1, <1>2, <1>3, <1>4 DEF Req, Http, RequesterInv, WorkOpen

\* The two ways to go on from a status.
LEMMA GoOnKeeps ==
  ASSUME RequesterInv, thread.at = "status", queue' = queue, Flags', Counters',
         NEW r \in Request, r.sent = "open", NEW http \in {0, 200, 401},
         GoOn(r, http)
  PROVE  RequesterInv'
<1>1. Working /\ ThreadFits
  BY InvParts DEF Working, Registers
<1>2. /\ thread.req \in Nat \ {0} /\ messages \in Seq(Message)
  BY <1>1, WorkAtHand
<1>3. CASE r.kind = "status"
  <2> DEFINE x == Sent(r, "success", "none")
             ms == <<ToApi("success")>>
  <2>1. x \in Request /\ x.sent = "succeeded" /\ x.kind = "status"
    BY <1>3, SentFits DEF Whats, Batons
  <2>2. ms \in Seq(Message) /\ Tells(ms, x)
    BY <1>2, <2>1, SuccessTells
  <2>3. ToApi("success") \in Message
    BY <1>2 DEF ToApi, Message, Whats
  <2>4. messages' = messages \o ms
    <3>1. messages' = Append(messages, ToApi("success"))
      BY <1>3 DEF GoOn
    <3>2. Append(messages, ToApi("success")) = messages \o <<ToApi("success")>>
      BY <1>2, <2>3, AppendIsConcat
    <3> QED
      BY <3>1, <3>2
  <2>5. ThreadFits' /\ ~Working' /\ thread'.req = thread.req
    <3>1. thread' = [thread EXCEPT !.at = "poll", !.http = http]
      BY <1>3 DEF GoOn
    <3>2. thread' \in ThreadStates /\ thread'.at = "poll" /\ thread'.req = thread.req
      BY <1>1, <3>1 DEF ThreadFits, ThreadStates, Places
    <3> QED
      BY <1>1, <3>2 DEF ThreadFits, Working
  <2>6. requests' = [requests EXCEPT ![thread.req] = x]
    BY <1>3 DEF GoOn
  <2> HIDE DEF x, ms
  <2> QED
    BY <1>1, <2>1, <2>2, <2>4, <2>5, <2>6, WorkKeeps DEF Registers
<1>4. CASE r.kind # "status"
  <2> DEFINE ms == <<>>
  <2>1. ms \in Seq(Message) /\ Tells(ms, r)
    BY DEF Tells
  <2>2. messages' = messages \o ms
    BY <1>2, <1>4, ConcatEmptySeq DEF GoOn
  <2>3. ThreadFits' /\ thread'.req = thread.req
    <3>1. thread' = [thread EXCEPT !.at = "request", !.http = http]
      BY <1>4 DEF GoOn
    <3>2. thread' \in ThreadStates /\ thread'.at = "request" /\ thread'.req = thread.req
      BY <1>1, <3>1 DEF ThreadFits, ThreadStates, Places
    <3> QED
      BY <1>1, <3>2 DEF ThreadFits, Working
  <2>4. requests' = [requests EXCEPT ![thread.req] = r]
    BY <1>4 DEF GoOn
  <2> HIDE DEF ms
  <2> QED
    BY <1>1, <2>1, <2>2, <2>3, <2>4, WorkKeeps DEF Registers
<1> QED
  BY <1>3, <1>4

LEMMA NoStatusKeeps ==
  ASSUME RequesterInv, thread.at = "status", queue' = queue, Flags', Counters',
         NEW r \in Request, r.sent = "open", NEW http \in {0, 200, 401},
         NEW ms \in Seq(Message), \A x : Tells(ms, x),
         NoStatus(r, http, ms)
  PROVE  RequesterInv'
<1>1. Working /\ ThreadFits
  BY InvParts DEF Working, Registers
<1>2. /\ thread.req \in Nat \ {0} /\ messages \in Seq(Message)
  BY <1>1, WorkAtHand
<1>3. CASE thread.statusTries + 1 < StatusTries
  <2>1. ThreadFits' /\ thread'.req = thread.req
    <3>1. thread.statusTries + 1 \in 0 .. StatusTries - 1
      BY <1>1, <1>3 DEF ThreadFits, ThreadStates
    <3>2. thread' = [thread EXCEPT !.statusTries = thread.statusTries + 1,
                                   !.http = http]
      BY <1>3 DEF NoStatus
    <3>3. thread' \in ThreadStates /\ thread'.at = thread.at /\ thread'.req = thread.req
      BY <1>1, <3>1, <3>2 DEF ThreadFits, ThreadStates
    <3> QED
      BY <1>1, <3>3 DEF ThreadFits, Working
  <2>2. /\ requests' = [requests EXCEPT ![thread.req] = r]
        /\ messages' = messages \o ms
    BY <1>3 DEF NoStatus
  <2>3. Tells(ms, r) /\ r.sent \in {"open", "succeeded"}
    OBVIOUS
  <2> QED
    BY <1>1, <2>1, <2>2, <2>3, WorkKeeps DEF Registers
<1>4. CASE ~(thread.statusTries + 1 < StatusTries)
  <2> DEFINE x == Sent(r, "authentication", "none")
             last == <<ToApi("authentication")>>
             all == ms \o last
  <2>1. x \in Request /\ x.sent = "open"
    BY SentFits DEF Whats, Batons
  <2>2. last \in Seq(Message) /\ Tells(last, x)
    BY <1>2, ErrorTells DEF Whats
  <2>3. ThreadFits' /\ ~Working' /\ thread'.req = thread.req
    <3>1. thread' = [thread EXCEPT !.at = "sleep", !.http = http]
      BY <1>4 DEF NoStatus
    <3>2. thread' \in ThreadStates /\ thread'.at = "sleep" /\ thread'.req = thread.req
      BY <1>1, <3>1 DEF ThreadFits, ThreadStates, Places
    <3> QED
      BY <1>1, <3>2 DEF ThreadFits, Working
  <2>4. requests' = [requests EXCEPT ![thread.req] = x]
    BY <1>4 DEF NoStatus
  <2>5. messages' = (messages \o ms) \o last
    BY <1>4 DEF NoStatus
  <2> HIDE DEF x, last
  <2>6. all \in Seq(Message) /\ Tells(all, x)
    BY <2>2, TellsBoth
  <2>7. messages' = messages \o all
    BY <1>2, <2>2, <2>5, ConcatAssociative
  <2> HIDE DEF all
  <2> QED
    BY <1>1, <2>1, <2>3, <2>4, <2>6, <2>7, WorkKeeps DEF Registers
<1> QED
  BY <1>3, <1>4

LEMMA RegisterKeeps == RequesterInv /\ Register => RequesterInv'
<1> SUFFICES ASSUME RequesterInv, Register PROVE RequesterInv'
  OBVIOUS
<1>1. Registers /\ Working
  BY InvParts DEF Register, Working
<1>2. PICK o \in Outcomes :
        /\ Fetched(o)
        /\ thread' = [thread EXCEPT !.at = "status", !.http = Http(o)]
        /\ \/ /\ Proper(o)
              /\ key' = "source" /\ stored' = TRUE
              /\ requests' = [requests EXCEPT ![thread.req] = AfterFetch(Req, o)]
              /\ UNCHANGED messages
           \/ /\ ~Proper(o) /\ o.data
              /\ requests' = [requests EXCEPT
                   ![thread.req] = Sent(AfterFetch(Req, o), "api_error", "exception")]
              /\ messages' = Append(messages, ToApi("api_error"))
              /\ UNCHANGED <<key, stored>>
           \/ /\ ~o.data
              /\ requests' = [requests EXCEPT ![thread.req] = AfterFetch(Req, o)]
              /\ messages' = messages \o FetchTells(o)
              /\ UNCHANGED <<key, stored>>
  BY DEF Register
<1>3. /\ Req \in Request /\ Req.sent = "open" /\ thread.req \in Nat \ {0}
      /\ messages \in Seq(Message) /\ Http(o) \in {0, 200, 401}
  BY <1>1, WorkAtHand
<1>4. ThreadFits' /\ thread'.req = thread.req
  <2>1. /\ thread' \in ThreadStates /\ thread'.at = "status"
        /\ thread'.req = thread.req
    <3>1. /\ thread \in ThreadStates /\ "status" \in Places
          /\ thread' = [thread EXCEPT !.at = "status", !.http = Http(o)]
      BY <1>1, <1>2 DEF Registers, ThreadFits, Places
    <3> QED
      <4>1. thread' = [at |-> "status", req |-> thread.req, http |-> Http(o),
                       statusTries |-> thread.statusTries,
                       requestTries |-> thread.requestTries]
        BY ONLY <3>1 DEF ThreadStates
      <4>2. /\ thread.req \in Nat /\ thread.statusTries \in 0 .. StatusTries - 1
            /\ thread.requestTries \in 0 .. RequestTries - 1
        BY ONLY <3>1 DEF ThreadStates
      <4> QED
        BY ONLY <1>3, <3>1, <4>1, <4>2 DEF ThreadStates
  <2> QED
    BY <1>1, <2>1 DEF Registers, ThreadFits, Working
<1>5. Registers'
  <2>1. failures' \in 0 .. MaxFailures /\ refused' \in BOOLEAN
    BY <1>1, <1>2, FetchedFits
  <2>2. key' \in {"service", "source"} /\ stored' \in BOOLEAN
    BY <1>1, <1>2 DEF Registers, Flags
  <2>3. Flags' /\ Counters'
    BY <1>1, <2>1, <2>2 DEF Register, Registers, Flags, Counters
  <2> QED
    BY <1>4, <2>3 DEF Registers
<1>6. queue' = queue
  BY DEF Register
<1>7. /\ AfterFetch(Req, o) \in Request
      /\ AfterFetch(Req, o).sent = "open"
  BY <1>3, AfterFetchFits
<1>8. CASE /\ requests' = [requests EXCEPT ![thread.req] = AfterFetch(Req, o)]
           /\ UNCHANGED messages
  <2> DEFINE ms == <<>>
  <2>1. ms \in Seq(Message) /\ Tells(ms, AfterFetch(Req, o))
    BY DEF Tells
  <2>2. messages' = messages \o ms
    BY <1>3, <1>8, ConcatEmptySeq
  <2> HIDE DEF ms
  <2> QED
    BY <1>1, <1>4, <1>5, <1>6, <1>7, <1>8, <2>1, <2>2, WorkKeeps
<1>9. CASE /\ requests' = [requests EXCEPT
                ![thread.req] = Sent(AfterFetch(Req, o), "api_error", "exception")]
           /\ messages' = Append(messages, ToApi("api_error"))
  <2> DEFINE x == Sent(AfterFetch(Req, o), "api_error", "exception")
             ms == <<ToApi("api_error")>>
  <2>1. x \in Request /\ x.sent = "open"
    BY <1>7, SentFits DEF Whats, Batons
  <2>2. ms \in Seq(Message) /\ Tells(ms, x)
    BY <1>3, ErrorTells DEF Whats
  <2>3. messages' = messages \o ms
    <3>1. ToApi("api_error") \in Message
      BY <1>3 DEF ToApi, Message, Whats
    <3>2. Append(messages, ToApi("api_error")) = messages \o <<ToApi("api_error")>>
      BY <1>3, <3>1, AppendIsConcat
    <3> QED
      BY <1>9, <3>2
  <2>4. requests' = [requests EXCEPT ![thread.req] = x]
    BY <1>9
  <2> HIDE DEF x, ms
  <2> QED
    BY <1>1, <1>4, <1>5, <1>6, <2>1, <2>2, <2>3, <2>4, WorkKeeps
<1>10. CASE /\ requests' = [requests EXCEPT ![thread.req] = AfterFetch(Req, o)]
            /\ messages' = messages \o FetchTells(o)
  <2>1. FetchTells(o) \in Seq(Message) /\ Tells(FetchTells(o), AfterFetch(Req, o))
    BY <1>3, FetchTellsErrors
  <2> QED
    BY <1>1, <1>4, <1>5, <1>6, <1>7, <1>10, <2>1, WorkKeeps
<1> QED
  BY <1>2, <1>8, <1>9, <1>10

LEMMA UseStatusKeeps == RequesterInv /\ UseStatus => RequesterInv'
<1> SUFFICES ASSUME RequesterInv, UseStatus PROVE RequesterInv'
  OBVIOUS
<1>1. Registers /\ Working /\ thread.at = "status" /\ queue' = queue
  BY InvParts DEF UseStatus, Working
<1>2. Flags' /\ Counters'
  BY <1>1 DEF UseStatus, Counts, Registers, Flags, Counters
<1>3. Req \in Request /\ Req.sent = "open"
  BY <1>1, WorkAtHand
<1>4. thread.http \in {0, 200, 401}
  BY <1>1 DEF Registers, ThreadFits, ThreadStates
<1>5. GoOn(Req, thread.http)
  BY DEF UseStatus
<1> QED
  BY <1>1, <1>2, <1>3, <1>4, <1>5, GoOnKeeps

LEMMA FetchStatusKeeps == RequesterInv /\ FetchStatus => RequesterInv'
<1> SUFFICES ASSUME RequesterInv, FetchStatus PROVE RequesterInv'
  OBVIOUS
<1>1. Registers /\ Working /\ thread.at = "status" /\ queue' = queue
  BY InvParts DEF FetchStatus, Working
<1>2. PICK o \in Outcomes :
        /\ Fetched(o)
        /\ \/ /\ NoStatus(AfterFetch(Req, o), Http(o), FetchTells(o))
              /\ UNCHANGED expired
           \/ /\ \E s \in Statuses \ {"none"} : status' = s
              /\ expired' = FALSE
              /\ GoOn(AfterFetch(Req, o), Http(o))
              /\ UNCHANGED exhausted
  BY DEF FetchStatus
<1>3. /\ Req \in Request /\ Req.sent = "open" /\ thread.req \in Nat
      /\ Http(o) \in {0, 200, 401}
  BY <1>1, WorkAtHand
<1>4. AfterFetch(Req, o) \in Request /\ AfterFetch(Req, o).sent = "open"
  BY <1>3, AfterFetchFits
<1>5. failures' \in 0 .. MaxFailures /\ refused' \in BOOLEAN
  BY <1>1, <1>2, FetchedFits
<1>6. CASE /\ NoStatus(AfterFetch(Req, o), Http(o), FetchTells(o))
           /\ UNCHANGED expired
  <2>1. FetchTells(o) \in Seq(Message) /\ \A x : Tells(FetchTells(o), x)
    BY <1>3, FetchTellsErrors
  <2>2. status' = "none" /\ exhausted' \in Nat
    BY <1>1, <1>6 DEF NoStatus, Registers, Counters
  <2>3. Flags' /\ Counters'
    <3>1. UNCHANGED <<key, stored, session, calls, silent, crashed, expired>>
      BY <1>6 DEF FetchStatus
    <3>2. Flags'
      BY <1>1, <1>5, <2>2, <3>1 DEF Registers, Flags, Statuses
    <3>3. Counters'
      BY <1>1, <1>5, <2>2, <3>1 DEF Registers, Counters
    <3> QED
      BY <3>2, <3>3
  <2> QED
    BY <1>1, <1>3, <1>4, <1>6, <2>1, <2>3, NoStatusKeeps
<1>7. CASE /\ \E s \in Statuses \ {"none"} : status' = s
           /\ expired' = FALSE
           /\ GoOn(AfterFetch(Req, o), Http(o))
           /\ UNCHANGED exhausted
  <2>1. Flags' /\ Counters'
    <3>1. UNCHANGED <<key, stored, session, calls, silent, crashed>>
      BY <1>7 DEF FetchStatus
    <3>2. status' \in Statuses /\ expired' \in BOOLEAN
      BY <1>7
    <3>3. Flags'
      BY <1>1, <1>5, <3>1, <3>2 DEF Registers, Flags
    <3>4. Counters'
      BY <1>1, <1>5, <1>7, <3>1 DEF Registers, Counters
    <3> QED
      BY <3>3, <3>4
  <2> QED
    BY <1>1, <1>3, <1>4, <1>7, <2>1, GoOnKeeps
<1> QED
  BY <1>2, <1>6, <1>7

LEMMA BadStatusKeeps == RequesterInv /\ BadStatus => RequesterInv'
<1> SUFFICES ASSUME RequesterInv, BadStatus PROVE RequesterInv'
  OBVIOUS
<1>1. Registers /\ Working /\ thread.at = "status" /\ queue' = queue
  BY InvParts DEF BadStatus, Working
<1>2. Req \in Request /\ Req.sent = "open" /\ thread.req \in Nat
  BY <1>1, WorkAtHand
<1> DEFINE r == Sent(Req, "api_error", "exception")
           ms == <<ToApi("api_error")>>
<1>3. r \in Request /\ r.sent = "open"
  BY <1>2, SentFits DEF Whats, Batons
<1>4. ms \in Seq(Message) /\ \A x : Tells(ms, x)
  BY <1>2, ErrorTells DEF Whats
<1>5. NoStatus(r, 200, ms)
  BY DEF BadStatus
<1> HIDE DEF r, ms
<1>6. status' = "none" /\ exhausted' \in Nat
  BY <1>1, <1>5 DEF NoStatus, Registers, Counters
<1>7. failures' \in 0 .. MaxFailures
  BY <1>1 DEF BadStatus, Registers, Counters
<1>8. Flags' /\ Counters'
  BY <1>1, <1>6, <1>7 DEF BadStatus, Registers, Flags, Counters, Statuses
<1> QED
  BY <1>1, <1>3, <1>4, <1>5, <1>8, NoStatusKeeps

\* A request that was refused is begun again.
Again(http) ==
  \E k \in 0 .. RequestTries - 1 :
    thread' = [thread EXCEPT !.at = "status", !.http = http,
                             !.statusTries = 0, !.requestTries = k]

LEMMA AgainFits ==
  ASSUME ThreadFits, Working, NEW http \in {0, 200, 401}, Again(http)
  PROVE  ThreadFits' /\ thread'.req = thread.req
<1>0. 0 \in 0 .. StatusTries - 1 /\ "status" \in Places /\ thread \in ThreadStates
  BY DEF Places, ThreadFits
<1>1. thread' \in ThreadStates /\ thread'.at = "status" /\ thread'.req = thread.req
  <2> PICK k \in 0 .. RequestTries - 1 :
        thread' = [thread EXCEPT !.at = "status", !.http = http,
                                 !.statusTries = 0, !.requestTries = k]
    BY DEF Again
  <2>1. thread' = [at |-> "status", req |-> thread.req, http |-> http,
                   statusTries |-> 0, requestTries |-> k]
    BY <1>0 DEF ThreadStates
  <2>2. thread.req \in Nat
    BY <1>0 DEF ThreadStates
  <2> QED
    BY <1>0, <2>1, <2>2 DEF ThreadStates
<1> QED
  BY <1>1 DEF ThreadFits, Working

\* A request that is done with leaves the thread asleep or polling.
Done(http) ==
  \E at \in {"sleep", "poll"} : thread' = [thread EXCEPT !.at = at, !.http = http]

LEMMA DoneFits ==
  ASSUME ThreadFits, NEW http \in {0, 200, 401}, Done(http)
  PROVE  ThreadFits' /\ ~Working' /\ thread'.req = thread.req
<1>1. PICK at \in {"sleep", "poll"} :
        thread' = [thread EXCEPT !.at = at, !.http = http]
  BY DEF Done
<1>2. at \in Places
  BY DEF Places
<1>3. thread' \in ThreadStates /\ thread'.at = at /\ thread'.req = thread.req
  BY <1>1, <1>2 DEF ThreadFits, ThreadStates
<1> QED
  BY <1>3 DEF ThreadFits, Working

LEMMA FetchRequestKeeps == RequesterInv /\ FetchRequest => RequesterInv'
<1> SUFFICES ASSUME RequesterInv, FetchRequest PROVE RequesterInv'
  OBVIOUS
<1>1. Registers /\ Working /\ thread.at = "request" /\ queue' = queue
  BY InvParts DEF FetchRequest, Working
<1> DEFINE r(o) == AfterFetch(Req, o)
           again(o) == Http(o) = 401
           last(o) == again(o) /\ thread.requestTries + 1 = RequestTries
           answer(o) == ~again(o) /\ o.data
<1>2. PICK o \in Outcomes :
        /\ Fetched(o)
        /\ requests' = [requests EXCEPT ![thread.req] =
                          IF answer(o) THEN Sent(r(o), "success", "data") ELSE r(o)]
        /\ messages' = messages \o IF answer(o) THEN <<ToApi("success")>>
                                                ELSE FetchTells(o)
        /\ silent' = (silent \/ last(o) \/ (~again(o) /\ ~o.data /\ ~o.tells))
        /\ thread' = IF again(o) /\ ~last(o)
                     THEN [thread EXCEPT !.at = "status", !.http = Http(o),
                                         !.statusTries = 0, !.requestTries = @ + 1]
                     ELSE [thread EXCEPT !.at = IF last(o) THEN "sleep" ELSE "poll",
                                         !.http = Http(o)]
  BY DEF FetchRequest
<1>3. /\ Req \in Request /\ Req.sent = "open" /\ thread.req \in Nat \ {0}
      /\ messages \in Seq(Message) /\ Http(o) \in {0, 200, 401}
  BY <1>1, WorkAtHand
<1>4. r(o) \in Request /\ r(o).sent = "open"
  BY <1>3, AfterFetchFits
<1>5. Flags' /\ Counters'
  <2>1. failures' \in 0 .. MaxFailures /\ refused' \in BOOLEAN
    BY <1>1, <1>2, FetchedFits
  <2>2. silent' \in BOOLEAN
    BY <1>2
  <2>3. UNCHANGED <<key, stored, status, expired, session, calls, exhausted, crashed>>
    BY DEF FetchRequest
  <2>4. Flags'
    BY <1>1, <2>1, <2>2, <2>3 DEF Registers, Flags
  <2>5. Counters'
    BY <1>1, <2>1, <2>3 DEF Registers, Counters
  <2> QED
    BY <2>4, <2>5
<1>6. CASE answer(o)
  <2> DEFINE x == Sent(r(o), "success", "data")
             ms == <<ToApi("success")>>
  <2>1. x \in Request /\ x.sent = "succeeded" /\ x.baton = "data"
    BY <1>4, SentFits DEF Whats, Batons
  <2>2. ms \in Seq(Message) /\ Tells(ms, x)
    BY <1>3, <2>1, SuccessTells
  <2>3. requests' = [requests EXCEPT ![thread.req] = x] /\ messages' = messages \o ms
    BY <1>2, <1>6
  <2>4. ThreadFits' /\ ~Working' /\ thread'.req = thread.req
    <3>1. thread' = [thread EXCEPT !.at = "poll", !.http = Http(o)]
      BY <1>2, <1>6
    <3>2. ThreadFits /\ Http(o) \in {0, 200, 401}
      BY <1>1, <1>3 DEF Registers
    <3>3. Done(Http(o))
      BY <3>1 DEF Done
    <3> QED
      BY ONLY <3>2, <3>3, DoneFits
  <2> HIDE DEF x, ms
  <2> QED
    BY <1>1, <1>5, <2>1, <2>2, <2>3, <2>4, WorkKeeps DEF Registers
<1>7. CASE ~answer(o)
  <2>1. requests' = [requests EXCEPT ![thread.req] = r(o)]
    BY <1>2, <1>7
  <2>2. messages' = messages \o FetchTells(o)
    BY <1>2, <1>7
  <2>3. FetchTells(o) \in Seq(Message) /\ Tells(FetchTells(o), r(o))
    BY <1>3, FetchTellsErrors
  <2>4. ThreadFits' /\ thread'.req = thread.req
    <3>1. CASE again(o) /\ ~last(o)
      <4>1. thread.requestTries + 1 \in 0 .. RequestTries - 1
        BY <1>1, <3>1 DEF Registers, ThreadFits, ThreadStates
      <4>2. thread' = [thread EXCEPT !.at = "status", !.http = Http(o), !.statusTries = 0,
                                     !.requestTries = thread.requestTries + 1]
        BY <1>2, <3>1
      <4> HIDE DEF r, again, last, answer
      <4>3. ThreadFits /\ Working /\ Http(o) \in {0, 200, 401}
        BY <1>1, <1>3 DEF Registers
      <4>4. Again(Http(o))
        BY <4>1, <4>2 DEF Again
      <4> QED
        BY ONLY <4>3, <4>4, AgainFits
    <3>2. CASE ~(again(o) /\ ~last(o))
      <4>1. Done(Http(o))
        BY <1>2, <3>2 DEF Done
      <4>2. ThreadFits /\ Http(o) \in {0, 200, 401}
        BY <1>1, <1>3 DEF Registers
      <4> QED
        BY ONLY <4>1, <4>2, DoneFits
    <3> QED
      BY <3>1, <3>2
  <2> HIDE DEF r, again, last, answer
  <2> QED
    BY <1>1, <1>4, <1>5, <2>1, <2>2, <2>3, <2>4, WorkKeeps DEF Registers
<1> QED
  BY <1>6, <1>7

-------------------------------------------------------------------------------
(* The steps of the main thread.                                           *)

LEMMA CallsKeep ==
  RequesterInv /\ (UpdateStatus \/ Unlink \/ Call \/ Expire) => RequesterInv'
<1> SUFFICES ASSUME RequesterInv, UpdateStatus \/ Unlink \/ Call \/ Expire
             PROVE  RequesterInv'
  OBVIOUS
<1>1. Registers
  BY InvParts
<1>2. UNCHANGED <<thread, messages>>
  BY DEF UpdateStatus, Unlink, Call, Expire
<1>3. \/ UNCHANGED <<requests, queue>>
      \/ \E kind \in Kinds : Schedule(kind)
  BY DEF UpdateStatus, Unlink, Call, Expire, Kinds
<1>4. Flags'
  <2>1. CASE UpdateStatus
    BY <1>1, <2>1 DEF UpdateStatus, Registers, Flags, Statuses
  <2>2. CASE Unlink \/ Call
    BY <1>1, <2>2 DEF Unlink, Call, Registers, Flags
  <2>3. CASE Expire
    BY <1>1, <2>3 DEF Expire, Counts, Registers, Flags
  <2> QED
    BY <2>1, <2>2, <2>3
<1>5. Counters'
  BY <1>1 DEF UpdateStatus, Unlink, Call, Expire, Counts, Calls, Registers, Counters
<1>6. ThreadFits'
  BY <1>1, <1>2 DEF Registers, ThreadFits, Working
<1> QED
  BY <1>2, <1>3, <1>4, <1>5, <1>6, HandleKeeps DEF Registers

\* A handler takes a message and may post another, which names no request.
LEMMA PostedFits ==
  ASSUME NEW to \in {"status", "account"}, NEW what \in Whats, Post(to, what)
  PROVE  \E m \in Message : messages' = Append(Rest, m) /\ m.to # "api" /\ m.req = 0
<1>1. [to |-> to, req |-> 0, what |-> what] \in Message
  BY DEF Message
<1> QED
  BY <1>1 DEF Post

LEMMA HandleStepKeeps == RequesterInv /\ Handle => RequesterInv'
<1> SUFFICES ASSUME RequesterInv, Handle PROVE RequesterInv'
  OBVIOUS
<1>1. Registers
  BY InvParts
<1>2. UNCHANGED thread /\ ThreadFits'
  <2>1. UNCHANGED thread
    BY DEF Handle, HandleApi, HandleStatus, HandleStatusError, HandleAccount
  <2> QED
    BY <1>1, <2>1 DEF Registers, ThreadFits, Working
<1>3. messages # <<>>
  BY DEF Handle, HandleApi, HandleStatus, HandleStatusError, HandleAccount, Handling
<1>4. /\ messages \in Seq(Message) /\ Head(messages) \in Message
  BY <1>3, TailAt, MessagesFit DEF RequesterInv
<1>5. \/ UNCHANGED <<requests, queue>>
      \/ \E kind \in Kinds : Schedule(kind)
  BY DEF Handle, HandleApi, HandleStatus, HandleStatusError, HandleAccount, Kinds
<1>6. \/ messages' = Rest
      \/ \E m \in Message : messages' = Append(Rest, m) /\ m.to # "api" /\ m.req = 0
  <2>1. CASE HandleApi
    <3>1. Head(messages).what \in Whats /\ "error" \in Whats
      BY <1>4 DEF Message, Whats
    <3>2. \/ messages' = Rest
          \/ Post("status", Head(messages).what)
          \/ Post("account", Head(messages).what)
          \/ Post("account", "error")
      BY <2>1 DEF HandleApi
    <3> QED
      BY <3>1, <3>2, PostedFits
  <2>2. CASE HandleStatus \/ HandleStatusError \/ HandleAccount
    BY <2>2 DEF HandleStatus, HandleStatusError, HandleAccount
  <2> QED
    BY <2>1, <2>2 DEF Handle
<1>7. Flags' /\ Counters'
  <2>1. CASE HandleApi
    BY <1>1, <2>1 DEF HandleApi, Counts, Registers, Flags, Counters, Statuses
  <2>2. CASE HandleStatus
    BY <1>1, <2>2 DEF HandleStatus, Known, Counts, Registers, Flags, Counters, Statuses
  <2>3. CASE HandleStatusError
    <3>1. PICK n \in Nat, a \in Nat :
            \/ session' = [session EXCEPT !.retries = n, !.authErrors = a]
            \/ session' = [session EXCEPT !.retries = n, !.authErrors = a,
                                          !.onwards = FALSE]
      <4>1. session.retries + 1 \in Nat /\ session.authErrors \in Nat
            /\ session.authErrors + 1 \in Nat
        BY <1>1 DEF Registers, Flags
      <4>2. session.authErrors + (IF Head(messages).what = "authentication" THEN 1 ELSE 0)
              \in Nat
        BY <4>1
      <4> QED
        BY <2>3, <4>1, <4>2 DEF HandleStatusError
    <3>2. session' \in [onwards : BOOLEAN, retries : Nat, authErrors : Nat,
                        account : BOOLEAN]
      BY <1>1, <3>1 DEF Registers, Flags
    <3>3. /\ key' \in {key, "service"} /\ stored' \in {stored, FALSE}
          /\ status' \in {status, "none"}
          /\ UNCHANGED <<expired, failures, Counts>>
      BY <2>3 DEF HandleStatusError
    <3> QED
      BY <1>1, <3>2, <3>3 DEF Counts, Registers, Flags, Counters, Statuses
  <2>4. CASE HandleAccount
    BY <1>1, <2>4 DEF HandleAccount, Counts, Registers, Flags, Counters, Statuses
  <2> QED
    BY <2>1, <2>2, <2>3, <2>4 DEF Handle
<1> QED
  BY <1>2, <1>3, <1>5, <1>6, <1>7, HandleKeeps DEF Registers

-------------------------------------------------------------------------------
(* The invariant and what follows from it.                                 *)

LEMMA InitFits == Init => RequesterInv
<1> SUFFICES ASSUME Init PROVE RequesterInv
  OBVIOUS
<1>1. NewRequest("status") \in Request /\ NewRequest("status").sent = "open"
  BY NewRequestFits DEF Kinds
<1>2. /\ requests \in Seq(Request) /\ Len(requests) = 1
      /\ requests[1].sent = "open"
  BY <1>1 DEF Init
<1>3. /\ queue \in Seq(1 .. 1) /\ Len(queue) = 1 /\ queue[1] = 1
      /\ messages \in Seq(Message) /\ Len(messages) = 0
      /\ thread.req = 0 /\ ~Working
  BY DEF Init, Working
<1>4. Ledger
  BY <1>2, <1>3 DEF Ledger
<1>5. ThreadFits /\ Counters
  BY DEF Init, ThreadFits, ThreadStates, Counters, Places, Working
<1>6. Flags
  BY DEF Init, Flags, Statuses
<1>7. QueueOpen /\ WorkOpen /\ SuccessStored /\ SuccessIsLast
  BY <1>2, <1>3 DEF QueueOpen, WorkOpen, SuccessStored, SuccessIsLast
<1> QED
  BY <1>4, <1>5, <1>6, <1>7, PartsFit DEF RequesterInv, Registers

LEMMA StepKeeps == RequesterInv /\ [Next]_vars => RequesterInv'
<1> SUFFICES ASSUME RequesterInv, [Next]_vars PROVE RequesterInv'
  OBVIOUS
<1>1. CASE RequesterNext
  BY <1>1, WakeKeeps, PollKeeps, RegisterKeeps, UseStatusKeeps, FetchStatusKeeps,
     BadStatusKeeps, FetchRequestKeeps DEF RequesterNext
<1>2. CASE UpdateStatus \/ Unlink \/ Call \/ Expire
  BY <1>2, CallsKeep
<1>3. CASE Handle
  BY <1>3, HandleStepKeeps
<1>4. CASE UNCHANGED vars
  <2>1. Registers /\ Ledger
    BY InvParts
  <2>2. Registers' /\ Ledger'
    BY <1>4, <2>1 DEF vars, Registers, ThreadFits, Flags, Counters, Working, Ledger
  <2> QED
    BY <1>4, <2>2, NextPartsFit
       DEF vars, RequesterInv, QueueOpen, WorkOpen, SuccessStored, SuccessIsLast, Working
<1> QED
  BY <1>1, <1>2, <1>3, <1>4 DEF Next

THEOREM RequesterInvariant == Spec => []RequesterInv
  BY InitFits, StepKeeps, PTL DEF Spec

\* Every variable of the requester and the session keeps its type, and the queue,
\* the thread and the messages only know of requests that were made
\* (API.java, Requester.run).
THEOREM RequesterTypeCorrect == Spec => []TypeOK
<1>1. RequesterInv => TypeOK
  BY DEF RequesterInv
<1> QED
  BY <1>1, RequesterInvariant, PTL

\* Whatever number of attempts, errors and repetitions: nothing is sent for a
\* request after its success, and when the success is handled the request holds
\* the data it came with (sendMessage, API.java:1857-1877).
THEOREM SuccessStaysFinal == Spec => []SuccessIsFinal
<1>1. RequesterInv => SuccessIsFinal
  <2> SUFFICES ASSUME RequesterInv PROVE SuccessIsLast /\ SuccessKeepsItsData
    BY DEF SuccessIsFinal
  <2>1. SuccessKeepsItsData
    BY DEF RequesterInv, SuccessStored, SuccessKeepsItsData
  <2> QED
    BY <2>1 DEF RequesterInv
<1> QED
  BY <1>1, RequesterInvariant, PTL

-------------------------------------------------------------------------------
(* Counting the errors of authentication.                                  *)

\* Globals will count this message.
Counts1(m, rs) ==
  /\ m.what = "authentication"
  /\ m.to = "status" \/ (m.to = "api" /\ rs[m.req].kind = "status")

Pending(ms, rs) == {i \in 1 .. Len(ms) : Counts1(ms[i], rs)}

\* What was counted and what is going to be came from requests that failed.
Accounted ==
  session.authErrors + Cardinality(Pending(messages, requests)) <= exhausted

LEMMA PendingFinite ==
  ASSUME NEW ms \in Seq(Message), NEW rs
  PROVE  /\ IsFiniteSet(Pending(ms, rs)) /\ Cardinality(Pending(ms, rs)) \in Nat
<1>1. Len(ms) \in Nat
  OBVIOUS
<1>2. IsFiniteSet(1 .. Len(ms))
  BY <1>1, FS_Interval
<1>3. Pending(ms, rs) \in SUBSET (1 .. Len(ms))
  BY DEF Pending
<1>4. IsFiniteSet(Pending(ms, rs))
  BY <1>2, <1>3, FS_Subset
<1> QED
  BY <1>4, FS_CardinalityType

Quiet(ms) == \A i \in 1 .. Len(ms) : ms[i].what # "authentication"

LEMMA QuietAdds ==
  ASSUME NEW ms \in Seq(Message), NEW more \in Seq(Message), Quiet(more), NEW rs
  PROVE  Pending(ms \o more, rs) = Pending(ms, rs)
<1>1. /\ Len(ms \o more) = Len(ms) + Len(more) /\ Len(ms) \in Nat /\ Len(more) \in Nat
      /\ \A i \in 1 .. Len(ms) : (ms \o more)[i] = ms[i]
  BY ConcatProperties
<1>2. ASSUME NEW i \in 1 .. Len(ms \o more), i \notin 1 .. Len(ms)
      PROVE  (ms \o more)[i].what # "authentication"
  <2>1. i - Len(ms) \in 1 .. Len(more) /\ (ms \o more)[i] = more[i - Len(ms)]
    BY <1>1, <1>2, ConcatAt
  <2> QED
    BY <2>1 DEF Quiet
<1>3. 1 .. Len(ms) \subseteq 1 .. Len(ms \o more)
  BY <1>1
<1> QED
  BY <1>1, <1>2, <1>3 DEF Pending, Counts1

LEMMA OneAdds ==
  ASSUME NEW ms \in Seq(Message), NEW m \in Message, NEW rs
  PROVE  Cardinality(Pending(ms \o <<m>>, rs)) =
           Cardinality(Pending(ms, rs)) + (IF Counts1(m, rs) THEN 1 ELSE 0)
<1>0. ms \o <<m>> = Append(ms, m) /\ Len(ms) \in Nat
  BY AppendIsConcat
<1>1. /\ Len(Append(ms, m)) = Len(ms) + 1
      /\ \A i \in 1 .. Len(ms) : Append(ms, m)[i] = ms[i]
      /\ Append(ms, m)[Len(ms) + 1] = m
  BY AppendAt
<1>2. CASE Counts1(m, rs)
  <2>1. Pending(Append(ms, m), rs) = Pending(ms, rs) \cup {Len(ms) + 1}
    BY <1>0, <1>1, <1>2 DEF Pending
  <2>2. Len(ms) + 1 \notin Pending(ms, rs)
    BY <1>0 DEF Pending
  <2>3. IsFiniteSet(Pending(ms, rs))
    BY PendingFinite
  <2>4. Cardinality(Pending(ms, rs) \cup {Len(ms) + 1}) = Cardinality(Pending(ms, rs)) + 1
    BY <2>2, <2>3, FS_AddElement
  <2>5. Pending(ms \o <<m>>, rs) = Pending(ms, rs) \cup {Len(ms) + 1}
    BY <1>0, <2>1
  <2> QED
    BY <1>2, <2>4, <2>5
<1>3. CASE ~Counts1(m, rs)
  <2>1. Pending(Append(ms, m), rs) = Pending(ms, rs)
    BY <1>0, <1>1, <1>3 DEF Pending
  <2>2. Pending(ms \o <<m>>, rs) = Pending(ms, rs)
    BY <1>0, <2>1
  <2>3. Cardinality(Pending(ms, rs)) \in Nat
    BY PendingFinite
  <2> QED
    BY <1>3, <2>2, <2>3
<1> QED
  BY <1>2, <1>3

LEMMA TakenAway ==
  ASSUME NEW ms \in Seq(Message), ms # <<>>, NEW rs
  PROVE  Cardinality(Pending(ms, rs)) = Cardinality(Pending(Tail(ms), rs))
           + (IF Counts1(Head(ms), rs) THEN 1 ELSE 0)
<1>1. /\ Head(ms) = ms[1] /\ Len(ms) \in Nat \ {0}
      /\ Tail(ms) \in Seq(Message) /\ Len(Tail(ms)) = Len(ms) - 1
      /\ \A i \in 1 .. Len(Tail(ms)) : Tail(ms)[i] = ms[i + 1]
  BY TailAt
<1> DEFINE S == Pending(Tail(ms), rs)
           T == Pending(ms, rs) \ {1}
           f == [i \in S |-> i + 1]
<1>2. S \subseteq 1 .. Len(ms) - 1 /\ S \subseteq Nat
  BY <1>1 DEF Pending
<1>3. \A i \in S : i + 1 \in T
  BY <1>1, <1>2 DEF Pending
<1>4. \A j \in T : j - 1 \in S /\ (j - 1) + 1 = j
  <2> SUFFICES ASSUME NEW j \in T PROVE j - 1 \in S /\ (j - 1) + 1 = j
    OBVIOUS
  <2>1. j \in 1 .. Len(ms) /\ j # 1 /\ Counts1(ms[j], rs)
    BY DEF Pending
  <2>2. j - 1 \in 1 .. Len(Tail(ms)) /\ (j - 1) + 1 = j
    BY <1>1, <2>1
  <2>3. Tail(ms)[j - 1] = ms[j]
    BY <1>1, <2>2
  <2> QED
    BY <2>1, <2>2, <2>3 DEF Pending
<1> HIDE DEF S, T
<1>5. f \in Bijection(S, T)
  <2>1. f \in [S -> T]
    BY <1>3
  <2>2. \A a, b \in S : f[a] = f[b] => a = b
    BY <1>2
  <2>3. \A t \in T : \E s \in S : f[s] = t
    BY <1>4
  <2> HIDE DEF f
  <2> QED
    BY <2>1, <2>2, <2>3, Fun_IsBij
<1>6. ExistsBijection(S, T)
  BY <1>5 DEF ExistsBijection
<1>7. IsFiniteSet(S)
  BY <1>1, PendingFinite DEF S
<1>8. Cardinality(T) = Cardinality(S)
  BY <1>6, <1>7, FS_Bijection
<1>9. IsFiniteSet(Pending(ms, rs)) /\ Cardinality(Pending(ms, rs)) \in Nat
  BY PendingFinite
<1>10. Cardinality(T) = IF 1 \in Pending(ms, rs) THEN Cardinality(Pending(ms, rs)) - 1
                        ELSE Cardinality(Pending(ms, rs))
  BY <1>9, FS_RemoveElement DEF T
<1>11. 1 \in Pending(ms, rs) <=> Counts1(Head(ms), rs)
  BY <1>1 DEF Pending
<1> QED
  BY <1>8, <1>9, <1>10, <1>11 DEF S

\* What is pending depends on nothing but the kinds of the requests.
LEMMA KindsMatter ==
  ASSUME NEW ms \in Seq(Message), NEW rs, NEW rs2,
         \A i \in 1 .. Len(ms) :
           ms[i].to = "api" => rs2[ms[i].req].kind = rs[ms[i].req].kind
  PROVE  Pending(ms, rs2) = Pending(ms, rs)
  BY DEF Pending, Counts1

KindsKept == \A i \in 1 .. Len(requests) : requests'[i].kind = requests[i].kind

LEMMA PendingKept ==
  ASSUME RequesterInv, KindsKept
  PROVE  /\ Pending(messages, requests') = Pending(messages, requests)
         /\ messages # <<>> =>
              Pending(Tail(messages), requests') = Pending(Tail(messages), requests)
<1>1. /\ messages \in Seq(Message)
      /\ \A i \in 1 .. Len(messages) :
           messages[i].to = "api" => messages[i].req \in 1 .. Len(requests)
  BY MessagesFit DEF RequesterInv
<1>2. \A i \in 1 .. Len(messages) : messages[i].to = "api" =>
        requests'[messages[i].req].kind = requests[messages[i].req].kind
  BY <1>1 DEF KindsKept
<1>3. Pending(messages, requests') = Pending(messages, requests)
  BY <1>1, <1>2, KindsMatter
<1>4. ASSUME messages # <<>>
      PROVE  Pending(Tail(messages), requests') = Pending(Tail(messages), requests)
  <2>1. /\ Tail(messages) \in Seq(Message)
        /\ \A i \in 1 .. Len(Tail(messages)) :
             Tail(messages)[i] = messages[i + 1] /\ i + 1 \in 1 .. Len(messages)
    BY <1>1, <1>4, TailAt
  <2>2. \A i \in 1 .. Len(Tail(messages)) : Tail(messages)[i].to = "api" =>
          requests'[Tail(messages)[i].req].kind = requests[Tail(messages)[i].req].kind
    BY <1>2, <2>1
  <2> QED
    BY <2>1, <2>2, KindsMatter
<1> QED
  BY <1>3, <1>4

\* A step of the thread sends no error of authentication, or one as its last message.
SendsQuietly ==
  \E more \in Seq(Message) :
    Quiet(more) /\ messages' = messages \o more /\ exhausted' = exhausted

SendsLast ==
  \E more \in Seq(Message) :
    /\ Quiet(more) /\ thread.req \in 1 .. Len(requests)
    /\ messages' = (messages \o more) \o <<ToApi("authentication")>>
    /\ exhausted' = exhausted + (IF Req.kind = "status" THEN 1 ELSE 0)

LEMMA SendingAccounts ==
  ASSUME RequesterInv, Accounted, KindsKept, session' = session,
         SendsQuietly \/ SendsLast
  PROVE  Accounted'
<1>1. messages \in Seq(Message) /\ exhausted \in Nat /\ session.authErrors \in Nat
  BY MessagesFit, InvParts DEF RequesterInv, Registers, Flags, Counters
<1>2. /\ Pending(messages, requests') = Pending(messages, requests)
      /\ Cardinality(Pending(messages, requests)) \in Nat
  BY <1>1, PendingKept, PendingFinite
<1>3. CASE SendsQuietly
  <2>1. PICK more \in Seq(Message) :
          Quiet(more) /\ messages' = messages \o more /\ exhausted' = exhausted
    BY <1>3 DEF SendsQuietly
  <2>2. Pending(messages', requests') = Pending(messages, requests)
    BY <1>1, <1>2, <2>1, QuietAdds
  <2> QED
    BY <2>1, <2>2 DEF Accounted
<1>4. CASE SendsLast
  <2>1. PICK more \in Seq(Message) :
          /\ Quiet(more) /\ thread.req \in 1 .. Len(requests)
          /\ messages' = (messages \o more) \o <<ToApi("authentication")>>
          /\ exhausted' = exhausted + (IF Req.kind = "status" THEN 1 ELSE 0)
    BY <1>4 DEF SendsLast
  <2> DEFINE m == ToApi("authentication")
             ms == messages \o more
  <2>2. m \in Message
    BY <2>1 DEF ToApi, Message, Whats
  <2>3. Counts1(m, requests') <=> Req.kind = "status"
    BY <2>1 DEF ToApi, Counts1, KindsKept, Req
  <2>4. ms \in Seq(Message) /\ Pending(ms, requests') = Pending(messages, requests)
    BY <1>1, <1>2, <2>1, QuietAdds, ConcatAt
  <2>5. messages' = ms \o <<m>>
    BY <2>1
  <2> HIDE DEF m, ms
  <2>6. Cardinality(Pending(messages', requests')) =
          Cardinality(Pending(ms, requests')) + (IF Counts1(m, requests') THEN 1 ELSE 0)
    BY <2>2, <2>4, <2>5, OneAdds
  <2>7. CASE Req.kind = "status"
    BY <1>1, <1>2, <2>1, <2>3, <2>4, <2>6, <2>7 DEF Accounted
  <2>8. CASE Req.kind # "status"
    BY <1>1, <1>2, <2>1, <2>3, <2>4, <2>6, <2>8 DEF Accounted
  <2> QED
    BY <2>7, <2>8
<1> QED
  BY <1>3, <1>4

\* The thread changes nothing but the request at hand, and not its kind.
AtHand(x) == requests' = [requests EXCEPT ![thread.req] = x] /\ x.kind = Req.kind

LEMMA AtHandKeepsKinds ==
  ASSUME RequesterInv, Working, NEW x, AtHand(x)
  PROVE  KindsKept
<1>1. requests \in Seq(Request) /\ thread.req \in 1 .. Len(requests)
  BY MessagesFit DEF RequesterInv
<1>2. \A i \in 1 .. Len(requests) :
        requests'[i] = IF i = thread.req THEN x ELSE requests[i]
  BY <1>1 DEF AtHand
<1> QED
  BY <1>1, <1>2 DEF KindsKept, AtHand, Req

LEMMA ErrorsAreQuiet ==
  ASSUME thread.req \in Nat
  PROVE  /\ \A what \in Whats \ {"authentication"} :
              /\ ToApi(what) \in Message
              /\ <<ToApi(what)>> \in Seq(Message) /\ Quiet(<<ToApi(what)>>)
         /\ \A o : FetchTells(o) \in Seq(Message) /\ Quiet(FetchTells(o))
<1>1. ASSUME NEW what \in Whats \ {"authentication"}
      PROVE  /\ ToApi(what) \in Message
             /\ <<ToApi(what)>> \in Seq(Message) /\ Quiet(<<ToApi(what)>>)
  BY DEF ToApi, Message, Quiet
<1>2. ASSUME NEW o PROVE FetchTells(o) \in Seq(Message) /\ Quiet(FetchTells(o))
  <2>1. <<>> \in Seq(Message) /\ Quiet(<<>>)
    BY DEF Quiet
  <2>2. <<ToApi("error")>> \in Seq(Message) /\ Quiet(<<ToApi("error")>>)
    BY <1>1 DEF Whats
  <2>3. FetchTells(o) = <<ToApi("error")>> \/ FetchTells(o) = <<>>
    BY DEF FetchTells
  <2> HIDE DEF FetchTells
  <2> QED
    BY <2>1, <2>2, <2>3
<1> QED
  BY <1>1, <1>2

LEMMA NothingIsQuiet ==
  ASSUME RequesterInv, UNCHANGED <<messages, exhausted>>
  PROVE  SendsQuietly
<1>1. messages \in Seq(Message)
  BY MessagesFit DEF RequesterInv
<1>2. <<>> \in Seq(Message) /\ messages \o <<>> = messages
  BY <1>1, ConcatEmptySeq
<1>3. Quiet(<<>>)
  BY DEF Quiet
<1> QED
  BY <1>2, <1>3 DEF SendsQuietly

LEMMA GoOnSends ==
  ASSUME RequesterInv, Working, UNCHANGED exhausted,
         NEW r \in Request, r.kind = Req.kind, NEW http, GoOn(r, http)
  PROVE  KindsKept /\ SendsQuietly
<1>1. messages \in Seq(Message) /\ thread.req \in Nat \ {0}
  BY WorkAtHand
<1>2. CASE r.kind = "status"
  <2>1. AtHand(Sent(r, "success", "none"))
    BY <1>2, SentFits DEF GoOn, AtHand, Whats, Batons
  <2>2. /\ ToApi("success") \in Message
        /\ <<ToApi("success")>> \in Seq(Message) /\ Quiet(<<ToApi("success")>>)
    BY <1>1, ErrorsAreQuiet DEF Whats
  <2>3. messages' = messages \o <<ToApi("success")>>
    BY <1>1, <1>2, <2>2, AppendIsConcat DEF GoOn
  <2> QED
    BY <2>1, <2>2, <2>3, AtHandKeepsKinds DEF SendsQuietly
<1>3. CASE r.kind # "status"
  <2>1. AtHand(r) /\ UNCHANGED messages
    BY <1>3 DEF GoOn, AtHand
  <2> QED
    BY <2>1, AtHandKeepsKinds, NothingIsQuiet
<1> QED
  BY <1>2, <1>3

LEMMA NoStatusSends ==
  ASSUME RequesterInv, Working, NEW r \in Request, r.kind = Req.kind, NEW http,
         NEW more \in Seq(Message), Quiet(more), NoStatus(r, http, more)
  PROVE  KindsKept /\ (SendsQuietly \/ SendsLast)
<1>1. thread.req \in 1 .. Len(requests)
  BY MessagesFit DEF RequesterInv
<1>2. CASE thread.statusTries + 1 < StatusTries
  <2>1. AtHand(r) /\ messages' = messages \o more /\ exhausted' = exhausted
    BY <1>2 DEF NoStatus, AtHand
  <2> QED
    BY <2>1, AtHandKeepsKinds DEF SendsQuietly
<1>3. CASE ~(thread.statusTries + 1 < StatusTries)
  <2>1. /\ AtHand(Sent(r, "authentication", "none"))
        /\ messages' = (messages \o more) \o <<ToApi("authentication")>>
        /\ exhausted' = exhausted + (IF Req.kind = "status" THEN 1 ELSE 0)
    BY <1>3, SentFits DEF NoStatus, AtHand, Whats, Batons
  <2> QED
    BY <1>1, <2>1, AtHandKeepsKinds DEF SendsLast
<1> QED
  BY <1>2, <1>3

LEMMA ThreadAccounts == RequesterInv /\ Accounted /\ RequesterNext => Accounted'
<1> SUFFICES ASSUME RequesterInv, Accounted, RequesterNext PROVE Accounted'
  OBVIOUS
<1>0. session' = session
  BY DEF RequesterNext, Wake, Poll, Register, UseStatus, FetchStatus, BadStatus, FetchRequest
<1>1. CASE Wake \/ Poll
  <2>1. UNCHANGED <<requests, messages, exhausted>>
    BY <1>1 DEF Wake, Poll, Counts
  <2> QED
    BY <1>0, <2>1, NothingIsQuiet, SendingAccounts DEF KindsKept
<1>2. CASE Register
  <2>1. Working /\ UNCHANGED exhausted
    BY <1>2 DEF Register, Working
  <2>2. Req \in Request /\ thread.req \in Nat \ {0}
    BY <2>1, WorkAtHand
  <2>3. PICK o \in Outcomes :
          \/ /\ Proper(o)
             /\ AtHand(AfterFetch(Req, o)) /\ UNCHANGED messages
          \/ /\ AtHand(Sent(AfterFetch(Req, o), "api_error", "exception"))
             /\ messages' = Append(messages, ToApi("api_error"))
          \/ /\ AtHand(AfterFetch(Req, o))
             /\ messages' = messages \o FetchTells(o)
    BY <1>2, <2>2, AfterFetchFits, SentFits DEF Register, AtHand, Whats, Batons
  <2>4. KindsKept
    BY <2>1, <2>3, AtHandKeepsKinds
  <2>5. SendsQuietly
    <3>1. messages \in Seq(Message)
      BY <2>1, WorkAtHand
    <3>2. /\ FetchTells(o) \in Seq(Message) /\ Quiet(FetchTells(o))
          /\ ToApi("api_error") \in Message
          /\ <<ToApi("api_error")>> \in Seq(Message) /\ Quiet(<<ToApi("api_error")>>)
      BY <2>2, ErrorsAreQuiet DEF Whats
    <3>3. CASE UNCHANGED messages
      BY <2>1, <3>3, NothingIsQuiet
    <3>4. CASE messages' = Append(messages, ToApi("api_error"))
      <4>1. messages' = messages \o <<ToApi("api_error")>>
        BY <3>1, <3>2, <3>4, AppendIsConcat
      <4> QED
        BY <2>1, <3>2, <4>1 DEF SendsQuietly
    <3>5. CASE messages' = messages \o FetchTells(o)
      BY <2>1, <3>2, <3>5 DEF SendsQuietly
    <3> QED
      BY <2>3, <3>3, <3>4, <3>5
  <2> QED
    BY <1>0, <2>4, <2>5, SendingAccounts
<1>3. CASE UseStatus
  <2>1. Working /\ UNCHANGED exhausted /\ GoOn(Req, thread.http)
    BY <1>3 DEF UseStatus, Working, Counts
  <2>2. Req \in Request
    BY <2>1, WorkAtHand
  <2> QED
    BY <1>0, <2>1, <2>2, GoOnSends, SendingAccounts
<1>4. CASE FetchStatus
  <2>1. Working
    BY <1>4 DEF FetchStatus, Working
  <2>2. PICK o \in Outcomes :
          \/ NoStatus(AfterFetch(Req, o), Http(o), FetchTells(o))
          \/ GoOn(AfterFetch(Req, o), Http(o)) /\ UNCHANGED exhausted
    BY <1>4 DEF FetchStatus
  <2>3. Req \in Request /\ thread.req \in Nat \ {0}
    BY <2>1, WorkAtHand
  <2>4. AfterFetch(Req, o) \in Request /\ AfterFetch(Req, o).kind = Req.kind
    BY <2>3, AfterFetchFits
  <2>5. FetchTells(o) \in Seq(Message) /\ Quiet(FetchTells(o))
    BY <2>3, ErrorsAreQuiet
  <2>6. KindsKept /\ (SendsQuietly \/ SendsLast)
    BY <2>1, <2>2, <2>4, <2>5, GoOnSends, NoStatusSends
  <2> QED
    BY <1>0, <2>6, SendingAccounts
<1>5. CASE BadStatus
  <2>1. Working /\ NoStatus(Sent(Req, "api_error", "exception"), 200, <<ToApi("api_error")>>)
    BY <1>5 DEF BadStatus, Working
  <2>2. Req \in Request /\ thread.req \in Nat \ {0}
    BY <2>1, WorkAtHand
  <2>3. /\ Sent(Req, "api_error", "exception") \in Request
        /\ Sent(Req, "api_error", "exception").kind = Req.kind
    BY <2>2, SentFits DEF Whats, Batons
  <2>4. <<ToApi("api_error")>> \in Seq(Message) /\ Quiet(<<ToApi("api_error")>>)
    BY <2>2, ErrorsAreQuiet DEF Whats
  <2> QED
    BY <1>0, <2>1, <2>3, <2>4, NoStatusSends, SendingAccounts
<1>6. CASE FetchRequest
  <2>1. Working /\ UNCHANGED exhausted
    BY <1>6 DEF FetchRequest, Working
  <2>2. Req \in Request /\ thread.req \in Nat \ {0}
    BY <2>1, WorkAtHand
  <2>3. PICK o \in Outcomes, answer \in BOOLEAN :
          /\ requests' = [requests EXCEPT ![thread.req] =
                            IF answer THEN Sent(AfterFetch(Req, o), "success", "data")
                                      ELSE AfterFetch(Req, o)]
          /\ messages' = messages \o IF answer THEN <<ToApi("success")>>
                                                ELSE FetchTells(o)
    <3>1. PICK o \in Outcomes :
            LET again == Http(o) = 401
                answer == ~again /\ o.data IN
            /\ requests' = [requests EXCEPT ![thread.req] =
                              IF answer THEN Sent(AfterFetch(Req, o), "success", "data")
                                        ELSE AfterFetch(Req, o)]
            /\ messages' = messages \o IF answer THEN <<ToApi("success")>>
                                                  ELSE FetchTells(o)
      BY <1>6 DEF FetchRequest
    <3>2. CASE Http(o) # 401 /\ o.data
      BY <3>1, <3>2
    <3>3. CASE ~(Http(o) # 401 /\ o.data)
      BY <3>1, <3>3
    <3> QED
      BY <3>2, <3>3
  <2>4. KindsKept
    <3>1. /\ AfterFetch(Req, o) \in Request /\ AfterFetch(Req, o).kind = Req.kind
          /\ Sent(AfterFetch(Req, o), "success", "data").kind = Req.kind
      BY <2>2, AfterFetchFits, SentFits DEF Whats, Batons
    <3>2. CASE answer
      <4>1. AtHand(Sent(AfterFetch(Req, o), "success", "data"))
        BY <2>3, <3>1, <3>2 DEF AtHand
      <4> QED
        BY <2>1, <4>1, AtHandKeepsKinds
    <3>3. CASE ~answer
      <4>1. AtHand(AfterFetch(Req, o))
        BY <2>3, <3>1, <3>3 DEF AtHand
      <4> QED
        BY <2>1, <4>1, AtHandKeepsKinds
    <3> QED
      BY <3>2, <3>3
  <2>5. /\ FetchTells(o) \in Seq(Message) /\ Quiet(FetchTells(o))
        /\ <<ToApi("success")>> \in Seq(Message) /\ Quiet(<<ToApi("success")>>)
    BY <2>2, ErrorsAreQuiet DEF Whats
  <2>6. SendsQuietly
    BY <2>1, <2>3, <2>5 DEF SendsQuietly
  <2> QED
    BY <1>0, <2>4, <2>6, SendingAccounts
<1> QED
  BY <1>1, <1>2, <1>3, <1>4, <1>5, <1>6 DEF RequesterNext

\* The main thread adds requests and takes messages.
LEMMA ScheduleKeepsKinds ==
  ASSUME RequesterInv,
         UNCHANGED requests \/ \E kind \in Kinds : Schedule(kind)
  PROVE  KindsKept
<1>1. requests \in Seq(Request)
  BY MessagesFit DEF RequesterInv
<1>2. CASE \E kind \in Kinds : Schedule(kind)
  BY <1>1, <1>2, NewRequestFits, AppendAt DEF Schedule, KindsKept
<1> QED
  BY <1>2 DEF KindsKept

LEMMA CallsAccount ==
  ASSUME RequesterInv, Accounted, UpdateStatus \/ Unlink \/ Call \/ Expire
  PROVE  Accounted'
<1>1. /\ messages \in Seq(Message) /\ exhausted \in Nat /\ session.authErrors \in Nat
  BY MessagesFit, InvParts DEF RequesterInv, Registers, Flags, Counters
<1>2. KindsKept
  BY ScheduleKeepsKinds DEF UpdateStatus, Unlink, Call, Expire, Kinds
<1>3. /\ UNCHANGED <<messages, exhausted>>
      /\ session'.authErrors \in {0, session.authErrors}
  BY DEF UpdateStatus, Unlink, Call, Expire, Counts
<1>4. /\ Pending(messages', requests') = Pending(messages, requests)
      /\ Cardinality(Pending(messages, requests)) \in Nat
  BY <1>1, <1>2, <1>3, PendingKept, PendingFinite
<1> QED
  BY <1>1, <1>3, <1>4 DEF Accounted

\* What a handler counts, or leaves for another to count, it has taken.
LEMMA HandleAccounts == RequesterInv /\ Accounted /\ Handle => Accounted'
<1> SUFFICES ASSUME RequesterInv, Accounted, Handle PROVE Accounted'
  OBVIOUS
<1> DEFINE p  == Cardinality(Pending(messages, requests))
           q  == Cardinality(Pending(Tail(messages), requests))
           p2 == Cardinality(Pending(messages', requests'))
           h  == Counts1(Head(messages), requests)
<1>1. /\ messages \in Seq(Message) /\ exhausted \in Nat
      /\ session \in [onwards : BOOLEAN, retries : Nat, authErrors : Nat,
                       account : BOOLEAN]
  BY MessagesFit, InvParts DEF RequesterInv, Registers, Flags, Counters
<1>2. messages # <<>> /\ exhausted' = exhausted
  BY DEF Handle, HandleApi, HandleStatus, HandleStatusError, HandleAccount, Handling,
         Counts
<1>3. KindsKept
  BY ScheduleKeepsKinds
     DEF Handle, HandleApi, HandleStatus, HandleStatusError, HandleAccount, Kinds
<1>4. Rest \in Seq(Message) /\ Head(messages) \in Message
  BY <1>1, <1>2, TailAt DEF Rest
<1>5. /\ p \in Nat /\ q \in Nat
      /\ p = q + (IF h THEN 1 ELSE 0)
  BY <1>1, <1>2, <1>4, PendingFinite, TakenAway DEF Rest
<1>6. Pending(Rest, requests') = Pending(Tail(messages), requests)
  BY <1>2, <1>3, PendingKept DEF Rest
<1>7. session.authErrors + p <= exhausted
  BY DEF Accounted
<1>8. CASE HandleApi
  <2>1. session' = session
    BY <1>8 DEF HandleApi
  <2>2. CASE messages' = Rest
    <3>1. p2 = q
      BY <1>6, <2>2
    <3> HIDE DEF p, q, p2, h
    <3>2. session.authErrors + p2 <= exhausted
      BY <1>1, <1>5, <1>7, <3>1
    <3> QED
      BY <1>2, <2>1, <3>2 DEF p2, Accounted
  <2>3. CASE messages' # Rest
    <3>1. PICK to \in {"status", "account"}, what \in Whats :
            /\ Post(to, what)
            /\ to = "status" => /\ what = Head(messages).what
                               /\ requests[Head(messages).req].kind = "status"
      BY <1>4, <1>8, <2>3 DEF HandleApi, Message, Whats
    <3> DEFINE m == [to |-> to, req |-> 0, what |-> what]
    <3>2. m \in Message /\ messages' = Rest \o <<m>>
      BY <1>4, <3>1, AppendIsConcat DEF Post, Message
    <3>3. Head(messages).to = "api"
      BY <1>8 DEF HandleApi, Handling
    <3>4. Counts1(m, requests') => h
      BY <3>1, <3>3 DEF Counts1
    <3> HIDE DEF m
    <3>5. p2 = Cardinality(Pending(Rest, requests'))
                 + (IF Counts1(m, requests') THEN 1 ELSE 0)
      BY <1>4, <3>2, OneAdds
    <3>6. p2 = q + (IF Counts1(m, requests') THEN 1 ELSE 0)
      BY <1>6, <3>5
    <3> HIDE DEF p, q, p2, h
    <3>7. session.authErrors + p2 <= exhausted
      BY <1>1, <1>5, <1>7, <3>4, <3>6
    <3> QED
      BY <1>2, <2>1, <3>7 DEF p2, Accounted
  <2> QED
    BY <2>2, <2>3
<1>9. CASE HandleStatus \/ HandleStatusError \/ HandleAccount
  <2>1. messages' = Rest
    BY <1>9 DEF HandleStatus, HandleStatusError, HandleAccount
  <2>2. p2 = q
    BY <1>6, <2>1
  <2>3. \/ session'.authErrors = session.authErrors
        \/ h /\ session'.authErrors = session.authErrors + 1
    <3>1. CASE HandleStatus \/ HandleAccount
      BY <1>1, <3>1 DEF HandleStatus, HandleAccount
    <3>2. CASE HandleStatusError
      <4> DEFINE a == session.authErrors
                        + (IF Head(messages).what = "authentication" THEN 1 ELSE 0)
      <4>1. session'.authErrors = a
        BY <1>1, <3>2 DEF HandleStatusError
      <4>2. CASE Head(messages).what = "authentication"
        <5>1. h
          BY <3>2, <4>2 DEF HandleStatusError, Handling, Counts1
        <5> QED
          BY <4>1, <4>2, <5>1
      <4>3. CASE Head(messages).what # "authentication"
        BY <1>1, <4>1, <4>3
      <4> QED
        BY <4>2, <4>3
    <3> QED
      BY <1>9, <3>1, <3>2
  <2> HIDE DEF p, q, p2, h
  <2>4. session'.authErrors + p2 <= exhausted
    BY <1>1, <1>5, <1>7, <2>2, <2>3
  <2> QED
    BY <1>2, <2>4 DEF p2, Accounted
<1> QED
  BY <1>8, <1>9 DEF Handle

\* Credentials are dropped with as many errors counted as may be retried.
LEMMA DropCounts ==
  ASSUME RequesterInv, Accounted, [Next]_vars, stored, ~stored'
  PROVE  exhausted >= MaxRetries
<1>1. /\ messages \in Seq(Message) /\ exhausted \in Nat /\ session.authErrors \in Nat
  BY MessagesFit, InvParts DEF RequesterInv, Registers, Flags, Counters
<1>2. HandleStatusError
  BY DEF Next, RequesterNext, Wake, Poll, Register, UseStatus, FetchStatus, BadStatus,
         FetchRequest, UpdateStatus, Unlink, Call, Expire, Handle, HandleApi,
         HandleStatus, HandleAccount, vars
<1>3. messages # <<>> /\ Head(messages).to = "status"
  BY <1>2 DEF HandleStatusError, Handling
<1>4. session.authErrors + (IF Head(messages).what = "authentication" THEN 1 ELSE 0)
        >= MaxRetries
  BY <1>2 DEF HandleStatusError
<1>5. /\ Cardinality(Pending(messages, requests)) =
           Cardinality(Pending(Tail(messages), requests))
             + (IF Counts1(Head(messages), requests) THEN 1 ELSE 0)
      /\ Cardinality(Pending(Tail(messages), requests)) \in Nat
  BY <1>1, <1>3, TailAt, TakenAway, PendingFinite
<1>6. Counts1(Head(messages), requests) <=> Head(messages).what = "authentication"
  BY <1>3 DEF Counts1
<1>7. CASE Head(messages).what = "authentication"
  BY <1>1, <1>4, <1>5, <1>6, <1>7 DEF Accounted
<1>8. CASE Head(messages).what # "authentication"
  BY <1>1, <1>4, <1>5, <1>6, <1>8 DEF Accounted
<1> QED
  BY <1>7, <1>8

\* However the messages of several rounds mix, the source's key is dropped only
\* after MaxRetries status requests ended in ERR_AUTHENTICATION (Globals.java:222-236).
THEOREM CredentialsOutliveRetries == Spec => DroppedAfterRetries
<1>1. Init => Accounted
  <2> SUFFICES ASSUME Init PROVE Accounted
    OBVIOUS
  <2>1. Pending(messages, requests) = {}
    BY DEF Init, Pending
  <2> QED
    BY <2>1, FS_EmptySet DEF Init, Accounted
<1>2. RequesterInv /\ Accounted /\ [Next]_vars => Accounted'
  <2>1. ASSUME Accounted, UNCHANGED vars PROVE Accounted'
    BY <2>1 DEF vars, Accounted
  <2> QED
    BY <2>1, ThreadAccounts, CallsAccount, HandleAccounts DEF Next
<1>3. RequesterInv /\ Accounted /\ [Next]_vars
        => [stored /\ ~stored' => exhausted >= MaxRetries]_vars
  BY DropCounts
<1> QED
  BY <1>1, <1>2, <1>3, RequesterInvariant, PTL DEF Spec, DroppedAfterRetries
===============================================================================
