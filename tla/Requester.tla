------------------------------- MODULE Requester -------------------------------
(***************************************************************************)
(* The API requester (application/API.java) and the session that lives off *)
(* its answers (application/Globals.java).                                 *)
(*                                                                         *)
(* One thread takes requests off a queue, obtains keys and the link status *)
(* first, and repeats what the server refuses (401).  Its messages share   *)
(* one slot for their data (mBaton) in the request, and are handled later  *)
(* on the main thread.  There Globals keeps status and account, retries    *)
(* the status request, and drops the credentials if it keeps failing.      *)
(***************************************************************************)
EXTENDS Integers, Sequences

CONSTANTS
  StatusTries,  \* attempts for the status: 4 in the code
  RequestTries, \* attempts for the request: 4 in the code
  MaxRetries,   \* STATUS_UPDATE_MAX_RETRIES: 3 in the code
  MaxCalls,     \* bound: calls of the activities
  MaxFailures   \* bound: fetches without a proper answer

ASSUME RequesterAssumption ==
  /\ StatusTries \in Nat \ {0} /\ RequestTries \in Nat \ {0}
  /\ MaxRetries \in Nat \ {0}
  /\ MaxCalls \in Nat /\ MaxFailures \in Nat

VARIABLES
  requests,   \* every Request made, by its number: kind, mBaton, and as history
              \* whether a success, or more after that, was sent
  queue,      \* mRequestQueue
  thread,     \* Requester: where it is, its request and the httpStatus of that,
              \* statusTries, requestTries
  key,        \* mAPIKey: the key of the "service" or of this "source"
  stored,     \* the source's key is in the preferences
  status,     \* mStatus of the API
  expired,    \* mStatusTimeout has passed
  messages,   \* messages to handlers on the main thread
  session,    \* Globals: mOnwardsHandler, mStatusRetries, mStatusAuthErrors, mAccount
  calls,      \* calls so far
  failures,   \* fetches so far without a proper answer
  silent,     \* history: a request was given up without a last message
  refused,    \* history: the server has answered 401
  exhausted,  \* history: number of status requests that ended with ERR_AUTHENTICATION
  crashed     \* a handler has thrown

vars == <<requests, queue, thread, key, stored, status, expired, messages, session,
          calls, failures, silent, refused, exhausted, crashed>>

Kinds    == {"status", "account", "unlink", "call"}
Statuses == {"none", "linked", "unlinked"}
Whats    == {"success", "error", "api_error", "authentication"}
Batons   == {"none", "data", "exception"}
Places   == {"sleep", "poll", "register", "status", "request"}

NewRequest(kind) == [kind |-> kind, baton |-> "none", sent |-> "open"]

\* Globals' constructor has asked for the status; nobody waits for it.
Init ==
  /\ requests = <<NewRequest("status")>> /\ queue = <<1>>
  /\ thread = [at |-> "sleep", req |-> 0, http |-> 0, statusTries |-> 0, requestTries |-> 0]
  /\ stored \in BOOLEAN /\ key = "service"
  /\ status = "none" /\ expired = FALSE /\ messages = <<>>
  /\ session = [onwards |-> FALSE, retries |-> 0, authErrors |-> 0, account |-> FALSE]
  /\ calls = 0 /\ failures = 0
  /\ silent = FALSE /\ refused = FALSE /\ exhausted = 0 /\ crashed = FALSE

Counts == <<calls, silent, exhausted, refused, crashed>>
-------------------------------------------------------------------------------
(* The requester thread.                                                   *)

\* What fetchRawSynchronous() may find: the code it stores (0: none, as after an
\* exception or a 405), whether it sends an error, whether it returns data.  A
\* refusal (401) has a body.
Outcomes ==
  {[code |-> 0, tells |-> TRUE, data |-> FALSE]} \cup
  [code : {200}, tells : {FALSE}, data : BOOLEAN] \cup
  {[code |-> 200, tells |-> TRUE, data |-> FALSE], [code |-> 401, tells |-> FALSE, data |-> TRUE]}

Proper(o) == o.code = 200 /\ o.data

Fetched(o) ==
  /\ failures + (IF Proper(o) THEN 0 ELSE 1) <= MaxFailures
  /\ failures' = failures + (IF Proper(o) THEN 0 ELSE 1)
  /\ refused' = (refused \/ o.code = 401)

\* sendMessage(): the data goes with the request, which its messages share.
Sent(r, what, baton) ==
  [r EXCEPT !.baton = baton,
            !.sent = IF @ = "open" THEN IF what = "success" THEN "succeeded" ELSE "open"
                     ELSE "overtaken"]

ToApi(what) == [to |-> "api", req |-> thread.req, what |-> what]

\* httpStatus, the request and the message sent, after a fetch.
Http(o) == IF o.code # 0 THEN o.code ELSE thread.http
AfterFetch(r, o) == IF o.tells THEN Sent(r, "error", "none") ELSE r
FetchTells(o) == IF o.tells THEN <<ToApi("error")>> ELSE <<>>

Req == requests[thread.req]

\* getStatus(): what is left of the status.
Known == IF expired THEN "none" ELSE status

Wake ==
  /\ thread.at = "sleep" /\ ~crashed
  /\ thread' = [thread EXCEPT !.at = "poll"]
  /\ UNCHANGED <<requests, queue, key, stored, status, expired, messages, session,
                 failures, Counts>>

\* Takes the next request and the keys, which may be known, stored or missing.
Poll ==
  /\ thread.at = "poll" /\ ~crashed
  /\ \/ /\ queue = <<>>
        /\ thread' = [thread EXCEPT !.at = "sleep"]
        /\ UNCHANGED <<queue, key>>
     \/ /\ queue # <<>>
        /\ queue' = Tail(queue)
        /\ key' = IF stored THEN "source" ELSE key
        /\ thread' = [at |-> IF key' = "source" THEN "status" ELSE "register",
                      req |-> Head(queue), http |-> 0, statusTries |-> 0, requestTries |-> 0]
  /\ UNCHANGED <<requests, stored, status, expired, messages, session,
                 failures, Counts>>

\* initializeAPIKeys(): registers the source and stores what it got.
Register ==
  /\ thread.at = "register" /\ ~crashed
  /\ \E o \in Outcomes :
       /\ Fetched(o)
       /\ thread' = [thread EXCEPT !.at = "status", !.http = Http(o)]
       /\ \/ /\ Proper(o)
             /\ key' = "source" /\ stored' = TRUE
             /\ requests' = [requests EXCEPT ![thread.req] = AfterFetch(Req, o)]
             /\ UNCHANGED messages
          \/ /\ ~Proper(o) /\ o.data   \* the body is an error
             /\ requests' = [requests EXCEPT
                               ![thread.req] = Sent(AfterFetch(Req, o), "api_error", "exception")]
             /\ messages' = Append(messages, ToApi("api_error"))
             /\ UNCHANGED <<key, stored>>
          \/ /\ ~o.data
             /\ requests' = [requests EXCEPT ![thread.req] = AfterFetch(Req, o)]
             /\ messages' = messages \o FetchTells(o)
             /\ UNCHANGED <<key, stored>>
  /\ UNCHANGED <<queue, status, expired, session, calls, silent, exhausted, crashed>>

\* Goes on with a status: a status request is answered, any other is made.
GoOn(r, http) ==
  IF r.kind = "status"
  THEN /\ thread' = [thread EXCEPT !.at = "poll", !.http = http]
       /\ requests' = [requests EXCEPT ![thread.req] = Sent(r, "success", "none")]
       /\ messages' = Append(messages, ToApi("success"))
  ELSE /\ thread' = [thread EXCEPT !.at = "request", !.http = http]
       /\ requests' = [requests EXCEPT ![thread.req] = r]
       /\ UNCHANGED messages

\* updateStatus() with a status that is still known.
UseStatus ==
  /\ thread.at = "status" /\ ~crashed /\ Known # "none"
  /\ GoOn(Req, thread.http)
  /\ UNCHANGED <<queue, key, stored, status, expired, session, failures, Counts>>

\* Mutated form: one attempt too many.
NoStatusOnceMore(r, http, ms) ==
  /\ status' = "none"
  /\ IF thread.statusTries < StatusTries
     THEN /\ thread' = [thread EXCEPT !.statusTries = @ + 1, !.http = http]
          /\ requests' = [requests EXCEPT ![thread.req] = r]
          /\ messages' = messages \o ms
          /\ UNCHANGED exhausted
     ELSE /\ thread' = [thread EXCEPT !.at = "sleep", !.http = http]
          /\ requests' = [requests EXCEPT ![thread.req] = Sent(r, "authentication", "none")]
          /\ messages' = (messages \o ms) \o <<ToApi("authentication")>>
          /\ exhausted' = exhausted + (IF r.kind = "status" THEN 1 ELSE 0)

\* No status after an attempt for which r and the messages ms are left: another
\* attempt, or the request ends with ERR_AUTHENTICATION, whatever went wrong.
NoStatus(r, http, ms) ==
  /\ status' = "none"
  /\ IF thread.statusTries + 1 < StatusTries
     THEN /\ thread' = [thread EXCEPT !.statusTries = @ + 1, !.http = http]
          /\ requests' = [requests EXCEPT ![thread.req] = r]
          /\ messages' = messages \o ms
          /\ UNCHANGED exhausted
     ELSE /\ thread' = [thread EXCEPT !.at = "sleep", !.http = http]
          /\ requests' = [requests EXCEPT ![thread.req] = Sent(r, "authentication", "none")]
          /\ messages' = (messages \o ms) \o <<ToApi("authentication")>>
          /\ exhausted' = exhausted + (IF r.kind = "status" THEN 1 ELSE 0)

\* updateStatus() asks for the status.  httpStatus may be that of an earlier fetch.
FetchStatus ==
  /\ thread.at = "status" /\ ~crashed /\ Known = "none"
  /\ \E o \in Outcomes :
       /\ Fetched(o)
       /\ LET r == AfterFetch(Req, o) IN
          \/ /\ Http(o) = 401 \/ ~o.data
             /\ NoStatus(r, Http(o), FetchTells(o))
             /\ UNCHANGED expired
          \/ /\ Http(o) # 401 /\ o.data
             /\ \E s \in Statuses \ {"none"} : status' = s
             /\ expired' = FALSE
             /\ GoOn(r, Http(o))
             /\ UNCHANGED exhausted
  /\ UNCHANGED <<queue, key, stored, session, calls, silent, crashed>>

\* updateStatus() gets a body that is an error, or none it can parse.
BadStatus ==
  /\ thread.at = "status" /\ ~crashed /\ Known = "none"
  /\ failures < MaxFailures /\ failures' = failures + 1
  /\ NoStatus(Sent(Req, "api_error", "exception"), 200, <<ToApi("api_error")>>)
  /\ UNCHANGED <<queue, key, stored, expired, session, calls, silent, refused, crashed>>

\* Mutated form: what the server sends is passed on even if it refused.
FetchRequestAlwaysTelling ==
  /\ thread.at = "request" /\ ~crashed
  /\ \E o \in Outcomes :
       /\ Fetched(o)
       /\ LET r == AfterFetch(Req, o)
              again == Http(o) = 401
              last  == again /\ thread.requestTries + 1 = RequestTries
          IN /\ requests' = [requests EXCEPT ![thread.req] =
                               IF o.data THEN Sent(r, "success", "data") ELSE r]
             /\ messages' = messages \o IF o.data THEN <<ToApi("success")>>
                                                  ELSE FetchTells(o)
             /\ silent' = silent
             /\ thread' = IF again /\ ~last
                          THEN [thread EXCEPT !.at = "status", !.http = Http(o),
                                              !.statusTries = 0, !.requestTries = @ + 1]
                          ELSE [thread EXCEPT !.at = IF last THEN "sleep" ELSE "poll",
                                              !.http = Http(o)]
  /\ UNCHANGED <<queue, key, stored, status, expired, session, calls, exhausted, crashed>>

\* Makes the request; what was refused is tried again from the status on, and
\* given up without a message in the end.
FetchRequest ==
  /\ thread.at = "request" /\ ~crashed
  /\ \E o \in Outcomes :
       /\ Fetched(o)
       /\ LET r == AfterFetch(Req, o)
              again  == Http(o) = 401
              last   == again /\ thread.requestTries + 1 = RequestTries
              answer == ~again /\ o.data
          IN /\ requests' = [requests EXCEPT ![thread.req] =
                               IF answer THEN Sent(r, "success", "data") ELSE r]
             /\ messages' = messages \o IF answer THEN <<ToApi("success")>>
                                                  ELSE FetchTells(o)
             /\ silent' = (silent \/ last \/ (~again /\ ~o.data /\ ~o.tells))
             /\ thread' = IF again /\ ~last
                          THEN [thread EXCEPT !.at = "status", !.http = Http(o),
                                              !.statusTries = 0, !.requestTries = @ + 1]
                          ELSE [thread EXCEPT !.at = IF last THEN "sleep" ELSE "poll",
                                              !.http = Http(o)]
  /\ UNCHANGED <<queue, key, stored, status, expired, session, calls, exhausted, crashed>>

RequesterNext ==
  Wake \/ Poll \/ Register \/ UseStatus \/ FetchStatus \/ BadStatus \/ FetchRequest
-------------------------------------------------------------------------------
(* The main thread: calls of the activities.                               *)

\* scheduleRequest()
Schedule(kind) ==
  /\ requests' = Append(requests, NewRequest(kind))
  /\ queue' = Append(queue, Len(requests) + 1)

Calls(n) == ~crashed /\ calls + n <= MaxCalls /\ calls' = calls + n

\* Globals.updateStatus() of an activity that waits for the outcome.
UpdateStatus ==
  /\ Calls(1)
  /\ session' = [onwards |-> TRUE, retries |-> 0, authErrors |-> 0, account |-> FALSE]
  /\ status' = "none"
  /\ Schedule("status")
  /\ UNCHANGED <<thread, key, stored, expired, messages, failures,
                 silent, refused, exhausted, crashed>>

\* unlinkDevice() looks at mStatus itself, which may have expired.
Unlink ==
  /\ Calls(1) /\ status = "linked"
  /\ Schedule("unlink")
  /\ UNCHANGED <<thread, key, stored, status, expired, messages, session, failures,
                 silent, refused, exhausted, crashed>>

\* Any other request.
Call ==
  /\ Calls(1)
  /\ Schedule("call")
  /\ UNCHANGED <<thread, key, stored, status, expired, messages, session, failures,
                 silent, refused, exhausted, crashed>>

\* mStatusTimeout passes.
Expire ==
  /\ ~crashed /\ status # "none" /\ ~expired
  /\ expired' = TRUE
  /\ UNCHANGED <<requests, queue, thread, key, stored, status, messages, session,
                 failures, Counts>>
-------------------------------------------------------------------------------
(* The main thread: messages.                                              *)

Rest == Tail(messages)
Handling(to) == ~crashed /\ messages # <<>> /\ Head(messages).to = to
Post(to, what) == messages' = Append(Rest, [to |-> to, req |-> 0, what |-> what])

\* mHandler of the API calls the request's callback.  Those of Globals' requests
\* post on to its handlers; an account may not parse; an unlink drops the status.
HandleApi ==
  /\ Handling("api")
  /\ LET m == Head(messages)
         k == requests[m.req].kind
     IN \/ /\ k = "status"
           /\ Post("status", m.what)
           /\ UNCHANGED status
        \/ /\ k = "account"
           /\ \/ Post("account", m.what)
              \/ m.what = "success" /\ Post("account", "error")
           /\ UNCHANGED status
        \/ /\ k = "unlink"
           /\ messages' = Rest
           /\ \/ UNCHANGED status
              \/ m.what = "success" /\ status' = "none"
        \/ /\ k = "call"
           /\ messages' = Rest
           /\ UNCHANGED status
  /\ UNCHANGED <<requests, queue, thread, key, stored, expired, session, failures,
                 Counts>>

\* mStatusHandler, when the status is there: the account is next, or all is done.
HandleStatus ==
  /\ Handling("status") /\ Head(messages).what = "success"
  /\ messages' = Rest
  /\ status' = Known
  /\ \/ /\ Known = "none"              \* it has expired or been dropped since
        /\ crashed' = TRUE
        /\ UNCHANGED <<requests, queue, session>>
     \/ /\ Known = "linked"
        /\ Schedule("account")
        /\ UNCHANGED <<session, crashed>>
     \/ /\ Known = "unlinked"
        /\ session' = [session EXCEPT !.onwards = FALSE]
        /\ UNCHANGED <<requests, queue, crashed>>
  /\ UNCHANGED <<thread, key, stored, expired, failures, calls, silent, refused, exhausted>>

\* Mutated form: any error counts as one of authentication.
HandleStatusErrorAsRefusal ==
  /\ Handling("status") /\ Head(messages).what # "success"
  /\ messages' = Rest
  /\ LET n == session.retries + 1
         a == session.authErrors + 1
     IN \/ /\ n < MaxRetries
           /\ session' = [session EXCEPT !.retries = n, !.authErrors = a]
           /\ status' = "none" /\ Schedule("status")
           /\ UNCHANGED <<key, stored>>
        \/ /\ n >= MaxRetries
           /\ session' = [session EXCEPT !.retries = n, !.authErrors = a, !.onwards = FALSE]
           /\ IF a >= MaxRetries
              THEN key' = "service" /\ stored' = FALSE /\ status' = "none"
              ELSE UNCHANGED <<key, stored, status>>
           /\ UNCHANGED <<requests, queue>>
  /\ UNCHANGED <<thread, expired, failures, Counts>>

\* mStatusHandler, for every error message of a status request: it asks again, or
\* gives up, and then drops the credentials if enough were of authentication.
HandleStatusError ==
  /\ Handling("status") /\ Head(messages).what # "success"
  /\ messages' = Rest
  /\ LET n == session.retries + 1
         a == session.authErrors + (IF Head(messages).what = "authentication" THEN 1 ELSE 0)
     IN \/ /\ n < MaxRetries
           /\ session' = [session EXCEPT !.retries = n, !.authErrors = a]
           /\ status' = "none" /\ Schedule("status")
           /\ UNCHANGED <<key, stored>>
        \/ /\ n >= MaxRetries
           /\ session' = [session EXCEPT !.retries = n, !.authErrors = a, !.onwards = FALSE]
           /\ IF a >= MaxRetries
              THEN key' = "service" /\ stored' = FALSE /\ status' = "none"
              ELSE UNCHANGED <<key, stored, status>>
           /\ UNCHANGED <<requests, queue>>
  /\ UNCHANGED <<thread, expired, failures, Counts>>

\* Mutated form: only an account that came is passed on.
HandleAccountQuietly ==
  /\ Handling("account")
  /\ messages' = Rest
  /\ session' = IF Head(messages).what = "success"
                THEN [session EXCEPT !.account = TRUE, !.onwards = FALSE] ELSE session
  /\ UNCHANGED <<requests, queue, thread, key, stored, status, expired, failures,
                 Counts>>

\* mAccountHandler
HandleAccount ==
  /\ Handling("account")
  /\ messages' = Rest
  /\ session' = [session EXCEPT !.account = (@ \/ Head(messages).what = "success"),
                                !.onwards = FALSE]
  /\ UNCHANGED <<requests, queue, thread, key, stored, status, expired, failures,
                 Counts>>

Handle == HandleApi \/ HandleStatus \/ HandleStatusError \/ HandleAccount

Next == RequesterNext \/ UpdateStatus \/ Unlink \/ Call \/ Expire \/ Handle

Spec == Init /\ [][Next]_vars

\* The thread goes on (a fetch times out) and so do the handlers; nobody has to call.
FairSpec == Spec /\ WF_vars(RequesterNext) /\ WF_vars(Handle)
-------------------------------------------------------------------------------
(* Properties.                                                             *)

\* The variables keep their types; queue, thread and messages only know of requests
\* that were made, and the thread works on one unless it sleeps or polls.
TypeOK ==
  /\ requests \in Seq([kind : Kinds, baton : Batons, sent : {"open", "succeeded", "overtaken"}])
  /\ queue \in Seq(1 .. Len(requests))
  /\ thread \in [at : Places, req : 0 .. Len(requests),
                 http : {0, 200, 401}, statusTries : 0 .. StatusTries - 1,
                 requestTries : 0 .. RequestTries - 1]
  /\ thread.at \notin {"sleep", "poll"} => thread.req # 0
  /\ key \in {"service", "source"} /\ stored \in BOOLEAN
  /\ status \in Statuses /\ expired \in BOOLEAN
  /\ messages \in Seq([to : {"api", "status", "account"}, req : 0 .. Len(requests), what : Whats])
  /\ \A i \in 1 .. Len(messages) : messages[i].to = "api" => messages[i].req # 0
  /\ session \in [onwards : BOOLEAN, retries : Nat, authErrors : Nat, account : BOOLEAN]
  /\ calls \in 0 .. MaxCalls /\ failures \in 0 .. MaxFailures
  /\ silent \in BOOLEAN /\ refused \in BOOLEAN /\ crashed \in BOOLEAN /\ exhausted \in Nat

\* A success is the last that is sent for a request ...
SuccessIsLast ==
  \A r \in 1 .. Len(requests) : requests[r].sent # "overtaken"

\* ... and is handled with the data it was sent with, although errors before it
\* shared its slot.
SuccessKeepsItsData ==
  \A i \in 1 .. Len(messages) :
    LET m == messages[i] IN
      (m.to = "api" /\ m.what = "success" /\ requests[m.req].kind # "status")
        => requests[m.req].baton = "data"

\* However many errors its attempts sent, whoever made a request takes a success as
\* final (API.java:445-462, sendMessage 1857-1877).
SuccessIsFinal == SuccessIsLast /\ SuccessKeepsItsData

\* The stored credentials are dropped only after as many status requests as may be
\* retried have come to nothing (Globals.java:222-236): late messages of an
\* earlier round and the several messages of one request do not count for more.
DroppedAfterRetries ==
  [][stored /\ ~stored' => exhausted >= MaxRetries]_vars

\* Who waits for the outcome of updateStatus() is told in the end (Globals.java:199-271),
\* unless a request was given up in silence or a handler has thrown.
OnwardsTold == session.onwards ~> (~session.onwards \/ silent \/ crashed)

\* Violated: credentials that are dropped for errors of authentication have been
\* refused by the server (Globals.java:233-236).
DroppedOnlyIfRefused ==
  [][stored /\ ~stored' => refused]_vars
===============================================================================
