------------------------------ MODULE Transport ------------------------------
(***************************************************************************)
(* VergeClient and VergeConnection: the session's life cycle (connect,     *)
(* _validate_connection, disconnect), one _request at a time (the client   *)
(* is documented as not thread-safe), the urllib3 Retry that               *)
(* VergeConnection mounts on the session, and the exception each request   *)
(* ends in.                                                                *)
(*                                                                         *)
(* The network may refuse a connection, lose an answer or deliver an       *)
(* attempt late: an attempt the client gave up on stays in `abandoned' and *)
(* the server may still serve it after the call, or later calls, returned. *)
(* The server holds one row; a write stores the number of the call that    *)
(* made it, so that the row's value tells who wrote last.                  *)
(***************************************************************************)
EXTENDS Naturals

CONSTANTS MaxCalls,    \* bound: calls to connect and _request in a behaviour
          RETRY_TOTAL, \* retries after the first attempt (constants.RETRY_TOTAL)
          UniqueNames  \* whether the server refuses a second row (409)

ASSUME RetryAssumption == RETRY_TOTAL \in Nat
ASSUME CallsAssumption == MaxCalls \in Nat \ {0}
ASSUME UniqueAssumption == UniqueNames \in BOOLEAN

VARIABLES
    session,  \* "none", "unvalidated" or "open": _connection and is_connected
    calls,    \* calls made so far; the last one is the current one
    method,   \* method[c]: the HTTP method of call c
    phase,    \* where the current call is
    left,     \* retries the current call has left (Retry.total)
    sent,     \* sent[c]: attempts of c that reached the wire
    answer,   \* the server's answer to the current attempt
    outcome,  \* outcome[c]: "pending", "ok" or the name of an exception
    abandoned,\* abandoned[c]: attempts the client gave up on, still unserved
    row,      \* the server's row: 0 when absent, else the call that wrote it
    applied   \* applied[c]: how often c took effect on the server

client == <<session, calls, method, phase, left, sent, outcome>>
server == <<row, applied>>
vars == <<client, answer, abandoned, server>>

Call == 1 .. MaxCalls
RETRY_METHODS == {"GET", "PUT", "DELETE", "POST"}
Methods == RETRY_METHODS \cup {"PATCH"}
Connecting == "CONNECT"  \* the GET of _validate_connection

Phases == {"idle", "sending", "waiting", "answered"}

Busy == "busy"           \* a status of RETRY_STATUS_CODES
Answers == {"ok", "garbled", "auth", "missing", "conflict", "invalid", "other", Busy}

VergeErrors == {"VergeConnectionError", "NotConnectedError", "VergeTimeoutError",
                "AuthenticationError", "NotFoundError", "ConflictError",
                "ValidationError", "APIError"}
\* What escapes _request without being a VergeError.
ForeignErrors == {"RetryError", "JSONDecodeError", "ValueError"}
Outcomes == {"pending", "ok"} \cup VergeErrors \cup ForeignErrors

Writes == {"POST", "PUT", "PATCH", "DELETE"}

Init == /\ session = "none"
        /\ calls = 0
        /\ method = [c \in Call |-> Connecting]
        /\ phase = "idle"
        /\ left = 0
        /\ sent = [c \in Call |-> 0]
        /\ answer = "ok"
        /\ outcome = [c \in Call |-> "pending"]
        /\ abandoned = [c \in Call |-> 0]
        /\ row = 0
        /\ applied = [c \in Call |-> 0]

-----------------------------------------------------------------------------
(* The caller's operations.                                                *)

Begin(m) == /\ phase = "idle"
            /\ calls < MaxCalls
            /\ calls' = calls + 1
            /\ method' = [method EXCEPT ![calls + 1] = m]

\* A call that ends before anything is sent.
RaiseAtOnce(e) == /\ outcome' = [outcome EXCEPT ![calls + 1] = e]
                  /\ UNCHANGED <<phase, left, sent, answer, abandoned, server>>

MutGoOut == /\ phase' = "sending"
            /\ left' = RETRY_TOTAL + 1
            /\ UNCHANGED <<sent, outcome, answer, abandoned, server>>
GoOut == /\ phase' = "sending"
         /\ left' = RETRY_TOTAL
         /\ UNCHANGED <<sent, outcome, answer, abandoned, server>>

\* connect(): the previous connection is dropped before the new one is valid.
MutConnect == /\ Begin(Connecting)
              /\ session' = IF session = "none" THEN "unvalidated" ELSE session
              /\ GoOut
Connect == /\ Begin(Connecting)
           /\ session' = "unvalidated"
           /\ GoOut

ConnectWithoutCredentials == /\ Begin(Connecting)
                             /\ session' = "unvalidated"
                             /\ RaiseAtOnce("ValueError")

Disconnect == /\ phase = "idle"
              /\ session # "none"
              /\ session' = "none"
              /\ UNCHANGED <<calls, method, phase, left, sent, outcome, answer, abandoned, server>>

Request(m) == /\ Begin(m)
              /\ session = "open"
              /\ GoOut
              /\ UNCHANGED session

RequestUnconnected(m) == /\ Begin(m)
                         /\ session # "open"
                         /\ RaiseAtOnce("NotConnectedError")
                         /\ UNCHANGED session

-----------------------------------------------------------------------------
(* One attempt after another: the session's adapter.                       *)

\* _validate_connection turns every failure but 401/403 into one exception.
Classify(e) == IF method[calls] = Connecting /\ e \notin {"ok", "AuthenticationError"}
                 THEN "VergeConnectionError"
                 ELSE e

Return(e) == /\ phase' = "idle"
             /\ outcome' = [outcome EXCEPT ![calls] = Classify(e)]
             /\ session' = IF method[calls] = Connecting /\ e = "ok" THEN "open" ELSE session
             /\ UNCHANGED <<calls, method, left>>

MayRetry == method[calls] \in RETRY_METHODS \cup {Connecting}

MutRetryOr(exhausted) ==
    /\ left' = left - 1
    /\ phase' = "sending"
    /\ UNCHANGED <<session, calls, method, outcome>>

\* Retry.increment: give up when no retry is left, else send again.
RetryOr(exhausted) ==
    \/ /\ left > 0
       /\ left' = left - 1
       /\ phase' = "sending"
       /\ UNCHANGED <<session, calls, method, outcome>>
    \/ /\ left = 0
       /\ Return(exhausted)

\* No connection: nothing was sent, so every method is retried.
ConnectFails(exhausted) == /\ phase = "sending"
                           /\ RetryOr(exhausted)
                           /\ UNCHANGED <<sent, answer, abandoned, server>>
Refused == ConnectFails("VergeConnectionError")
ConnectTimeout == ConnectFails("VergeTimeoutError")

Send == /\ phase = "sending"
        /\ phase' = "waiting"
        /\ sent' = [sent EXCEPT ![calls] = @ + 1]
        /\ UNCHANGED <<session, calls, method, left, outcome, answer, abandoned, server>>

\* No timeout on the request: a hung attempt is never given up.
MutNoAnswer(atOnce, exhausted) ==
    /\ phase = "answered"
    /\ IF MayRetry THEN RetryOr(exhausted) ELSE Return(atOnce)
    /\ UNCHANGED <<sent, answer, abandoned, server>>
\* A request that was sent passes for one that was carried out.
MutNoAnswerOk(atOnce, exhausted) ==
    /\ phase \in {"waiting", "answered"}
    /\ abandoned' = IF phase = "waiting" THEN [abandoned EXCEPT ![calls] = @ + 1]
                                         ELSE abandoned
    /\ Return("ok")
    /\ UNCHANGED <<sent, answer, server>>
\* The answer does not arrive: the attempt is unserved, or its answer is lost.
NoAnswer(atOnce, exhausted) ==
    /\ phase \in {"waiting", "answered"}
    /\ abandoned' = IF phase = "waiting" THEN [abandoned EXCEPT ![calls] = @ + 1]
                                         ELSE abandoned
    /\ IF MayRetry THEN RetryOr(exhausted) ELSE Return(atOnce)
    /\ UNCHANGED <<sent, answer, server>>
ReadTimeout == NoAnswer("VergeTimeoutError", "VergeConnectionError")
ConnectionReset == NoAnswer("VergeConnectionError", "VergeConnectionError")

\* A 404 passes for success, a body that is not JSON for a rejection.
MutHandleResponseMissing == IF answer \in {"ok", "missing"} THEN "ok" ELSE "APIError"
MutHandleResponseGarbled == IF answer = "ok" THEN "ok" ELSE "ValidationError"
\* _handle_response
HandleResponse == CASE answer = "ok"       -> "ok"
                    [] answer = "garbled"  -> "JSONDecodeError"
                    [] answer = "auth"     -> "AuthenticationError"
                    [] answer = "missing"  -> "NotFoundError"
                    [] answer = "conflict" -> "ConflictError"
                    [] answer = "invalid"  -> "ValidationError"
                    [] OTHER               -> "APIError"

Receive == /\ phase = "answered"
           /\ IF answer = Busy /\ MayRetry THEN RetryOr("RetryError")
                                           ELSE Return(HandleResponse)
           /\ UNCHANGED <<sent, answer, abandoned, server>>

-----------------------------------------------------------------------------
(* The server: serves an attempt, or refuses it.                           *)

\* Whether call c's request can take effect on the row as it is.
Possible(c) == CASE method[c] = "POST"     -> row = 0 \/ ~UniqueNames
                 [] method[c] = Connecting -> TRUE
                 [] OTHER                  -> row # 0

Perform(c) == /\ applied' = [applied EXCEPT ![c] = @ + 1]
              /\ row' = CASE method[c] \in {"POST", "PUT", "PATCH"} -> c
                          [] method[c] = "DELETE"                   -> 0
                          [] OTHER                                  -> row

Serve(c, a) ==
    \/ /\ Possible(c)
       /\ a \in {"ok", "garbled", Busy}   \* Busy: a gateway gave up on a served request
       /\ Perform(c)
    \/ /\ ~Possible(c)
       /\ a = IF method[c] = "POST" THEN "conflict" ELSE "missing"
       /\ UNCHANGED server
    \/ /\ a \in {"auth", "invalid", "other", Busy}
       /\ UNCHANGED server

ServeCurrent == /\ phase = "waiting"
                /\ phase' = "answered"
                /\ \E a \in Answers : Serve(calls, a) /\ answer' = a
                /\ UNCHANGED <<session, calls, method, left, sent, outcome, abandoned>>

ServeAbandoned(c) == /\ abandoned[c] > 0
                     /\ abandoned' = [abandoned EXCEPT ![c] = @ - 1]
                     /\ \E a \in Answers : Serve(c, a)
                     /\ UNCHANGED <<client, answer>>

-----------------------------------------------------------------------------
\* What happens to the current attempt.
Attempt == Refused \/ ConnectTimeout \/ Send \/ ReadTimeout \/ ConnectionReset \/ Receive

Next == \/ Connect \/ ConnectWithoutCredentials \/ Disconnect
        \/ \E m \in Methods : Request(m) \/ RequestUnconnected(m)
        \/ Attempt
        \/ ServeCurrent
        \/ \E c \in Call : ServeAbandoned(c)

Spec == Init /\ [][Next]_vars

\* The call's own thread keeps running: an attempt is sent, answered, refused or
\* times out.  Nothing obliges the server to answer or to serve late attempts.
FairSpec == Spec /\ WF_vars(Attempt)

-----------------------------------------------------------------------------
TypeOK == /\ session \in {"none", "unvalidated", "open"}
          /\ calls \in 0 .. MaxCalls
          /\ method \in [Call -> Methods \cup {Connecting}]
          /\ phase \in Phases
          /\ left \in 0 .. RETRY_TOTAL
          /\ sent \in [Call -> Nat]
          /\ answer \in Answers
          /\ outcome \in [Call -> Outcomes]
          /\ abandoned \in [Call -> Nat]
          /\ row \in 0 .. MaxCalls
          /\ applied \in [Call -> Nat]
          /\ phase # "idle" => calls > 0

\* _request returns normally only for a call the server has carried out: no
\* mixture of retries, lost answers and late attempts yields a false success.
AckedWasApplied == \A c \in Call : outcome[c] = "ok" => applied[c] > 0

\* However attempts are lost, repeated and served late, a call takes effect at
\* most once per attempt, and no call makes more than 1 + RETRY_TOTAL of them.
EffectsWithinBudget == \A c \in Call : /\ applied[c] + abandoned[c] <= sent[c]
                                       /\ sent[c] <= RETRY_TOTAL + 1

Rejections == {"AuthenticationError", "NotFoundError", "ConflictError", "ValidationError"}

\* An exception that says the server rejected the call tells the truth when the
\* call made a single attempt.  (A retried DELETE may report NotFoundError, and a
\* retried POST ConflictError, because of its own first attempt.)
CleanRejectionHadNoEffect ==
    \A c \in Call : sent[c] = 1 /\ outcome[c] \in Rejections => applied[c] = 0

\* While no attempt was ever retried or given up, the row is what the last write
\* that returned success left: writes take effect in the order they were made.
Written(c) == IF method[c] = "DELETE" THEN 0 ELSE c
Clean == \A c \in 1 .. calls : sent[c] <= 1 /\ outcome[c] = "ok"
LastWriteWins ==
    Clean => \A c \in 1 .. calls :
        method[c] \in Writes /\ (\A d \in c + 1 .. calls : method[d] \notin Writes)
            => row = Written(c)

\* A client is connected only while the last connect() of its history succeeded:
\* a failed reconnect never leaves the earlier session usable.
Connects == {c \in 1 .. calls : method[c] = Connecting}
ConnectedMeansValidated ==
    session = "open" => \E c \in Connects : /\ outcome[c] = "ok"
                                            /\ \A d \in Connects : d <= c

\* Whatever the network and the server do, a call comes to an end.
CallsReturn == [](phase # "idle" => <>(phase = "idle"))

\* What the caller has been told of each call.
Verdict == [c \in Call |-> IF outcome[c] = "pending" THEN "open"
                          ELSE IF outcome[c] = "ok" THEN "ok" ELSE "error"]

Contract == INSTANCE RemoteCall WITH Calls <- Call, Limit <- RETRY_TOTAL + 1,
                                     effects <- applied, verdict <- Verdict

\* Every caller of _request may build on RemoteCall: success means done, and a call
\* acts at most 1 + RETRY_TOTAL times, possibly after it has returned.
ImplementsContract == Contract!Spec

-----------------------------------------------------------------------------
(* Statements of the sources that the runs refute.                         *)

\* constants.py: RETRY_METHODS are the "HTTP methods that are safe to retry", so a
\* retried call should act on the server as one call does.
SafeToRetry == \A c \in Call : method[c] = "POST" => applied[c] <= 1

\* docs/error_handling.rst: "Use the base VergeError to catch any pyvergeos
\* exception", so no call made on an open session ends in another exception.
OnlyVergeErrors == \A c \in Call :
    method[c] # Connecting => outcome[c] \notin ForeignErrors
=============================================================================
