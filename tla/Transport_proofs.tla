-------------------------- MODULE Transport_proofs --------------------------
(***************************************************************************)
(* Proofs about Transport, for every number of calls and of retries: type  *)
(* correctness, EffectsWithinBudget, AckedWasApplied,                      *)
(* ConnectedMeansValidated, CleanRejectionHadNoEffect, LastWriteWins, and  *)
(* that _request implements RemoteCall.                                    *)
(***************************************************************************)
EXTENDS Transport, TLAPS

One(P) == IF P THEN 1 ELSE 0

\* An attempt that reached the wire is unserved, given up on, or has had its effect.
EveryAttemptOnce ==
    \A c \in Call : applied[c] + abandoned[c] + One(c = calls /\ phase = "waiting") <= sent[c]

\* A running call has used up one retry for every attempt but the first.
RetriesCount ==
    /\ \A c \in Call : sent[c] <= RETRY_TOTAL + 1
    /\ phase # "idle" => sent[calls] + left + One(phase = "sending") <= RETRY_TOTAL + 1

\* A call that has not begun has left no trace, and a running one has no outcome.
NotBegun == \A c \in Call : c > calls => sent[c] = 0 /\ outcome[c] = "pending"
NotEnded == phase # "idle" => outcome[calls] = "pending"

\* An affirmative answer on its way back means the call has taken effect.
AnswerIsTrue == phase = "answered" /\ answer = "ok" => applied[calls] > 0

\* A session is being validated only while it is not open.
NotOpenYet == phase # "idle" /\ method[calls] = Connecting => session # "open"

IInv == /\ TypeOK
        /\ EveryAttemptOnce /\ RetriesCount
        /\ NotBegun /\ NotEnded
        /\ AnswerIsTrue /\ AckedWasApplied
        /\ NotOpenYet /\ ConnectedMeansValidated

USE RetryAssumption, CallsAssumption

\* The session begins in the invariant.
LEMMA InitInvariant == Init => IInv
<1> SUFFICES ASSUME Init PROVE IInv
  OBVIOUS
<1>1. TypeOK
  BY DEF Init, TypeOK, Call, Phases, Answers, Outcomes
<1>2. EveryAttemptOnce /\ RetriesCount
  BY DEF Init, EveryAttemptOnce, RetriesCount, One, Call
<1>3. NotBegun /\ NotEnded /\ AnswerIsTrue /\ AckedWasApplied /\ NotOpenYet /\ ConnectedMeansValidated
  BY DEF Init, NotBegun, NotEnded, AnswerIsTrue, AckedWasApplied, NotOpenYet,
         ConnectedMeansValidated
<1> QED BY <1>1, <1>2, <1>3 DEF IInv

\* The ways a call ends are outcomes.
LEMMA OutcomeTypes ==
    /\ {"ok", "VergeConnectionError", "VergeTimeoutError", "NotConnectedError",
        "RetryError", "ValueError", HandleResponse} \subseteq Outcomes
    /\ \A e \in Outcomes : Classify(e) \in Outcomes
<1>1. {"ok", "VergeConnectionError", "VergeTimeoutError", "NotConnectedError", "RetryError",
       "ValueError", "JSONDecodeError", "AuthenticationError", "NotFoundError", "ConflictError",
       "ValidationError", "APIError"} \subseteq Outcomes
  BY DEF Outcomes, VergeErrors, ForeignErrors
<1>2. HandleResponse \in Outcomes
  BY <1>1 DEF HandleResponse
<1> QED BY <1>1, <1>2 DEF Classify

\* A call that ends, or that tries again, keeps the types of what it changes.
LEMMA EndTypes ==
    ASSUME TypeOK, phase # "idle", NEW e \in Outcomes, Return(e) \/ RetryOr(e)
    PROVE  /\ session' \in {"none", "unvalidated", "open"}
           /\ calls' = calls /\ method' = method
           /\ phase' \in Phases
           /\ left' \in 0 .. RETRY_TOTAL
           /\ outcome' \in [Call -> Outcomes]
           /\ phase' # "idle" => calls > 0
<1>1. CASE Return(e)
  <2>1. Classify(e) \in Outcomes
    BY OutcomeTypes
  <2> QED BY <1>1, <2>1 DEF Return, TypeOK, Phases
<1>2. CASE RetryOr(e) /\ ~Return(e)
  BY <1>2 DEF RetryOr, TypeOK, Phases
<1> QED BY <1>1, <1>2

\* Type correctness is preserved by every step.
LEMMA TypeStep == TypeOK /\ [Next]_vars => TypeOK'
<1> SUFFICES ASSUME TypeOK, [Next]_vars PROVE TypeOK'
  OBVIOUS
<1> USE DEF client, server
<1>1. ASSUME NEW m \in Methods \cup {Connecting}, Begin(m), session' \in {"none", "unvalidated", "open"},
             \/ GoOut
             \/ \E e \in Outcomes : RaiseAtOnce(e)
      PROVE  TypeOK'
  <2>1. calls' \in 0 .. MaxCalls /\ calls' \in Call /\ calls' > 0
    BY <1>1 DEF Begin, TypeOK, Call
  <2> QED BY <1>1, <2>1 DEF Begin, GoOut, RaiseAtOnce, TypeOK, Phases
<1>2. CASE Connect
  BY <1>1, <1>2 DEF Connect
<1>3. CASE ConnectWithoutCredentials
  BY <1>1, <1>3, OutcomeTypes DEF ConnectWithoutCredentials
<1>4. ASSUME NEW m \in Methods, Request(m) \/ RequestUnconnected(m) PROVE TypeOK'
  BY <1>1, <1>4, OutcomeTypes DEF Request, RequestUnconnected, TypeOK
<1>5. CASE Disconnect
  BY <1>5 DEF Disconnect, TypeOK
<1>6. CASE Refused \/ ConnectTimeout
  <2>1. PICK e \in Outcomes : RetryOr(e)
    BY <1>6, OutcomeTypes DEF Refused, ConnectTimeout, ConnectFails
  <2> QED BY <1>6, <2>1, EndTypes DEF Refused, ConnectTimeout, ConnectFails, TypeOK
<1>7. CASE Send
  <2>1. calls \in Call
    BY <1>7 DEF Send, TypeOK, Call
  <2> QED BY <1>7, <2>1 DEF Send, TypeOK, Phases
<1>8. CASE ReadTimeout \/ ConnectionReset
  <2>1. PICK e \in Outcomes : Return(e) \/ RetryOr(e)
    BY <1>8, OutcomeTypes DEF ReadTimeout, ConnectionReset, NoAnswer
  <2>2. abandoned' \in [Call -> Nat]
    BY <1>8 DEF ReadTimeout, ConnectionReset, NoAnswer, TypeOK
  <2> QED BY <1>8, <2>1, <2>2, EndTypes DEF ReadTimeout, ConnectionReset, NoAnswer, TypeOK
<1>9. CASE Receive
  <2>1. PICK e \in Outcomes : Return(e) \/ RetryOr(e)
    BY <1>9, OutcomeTypes DEF Receive
  <2>2. phase # "idle"
    BY <1>9 DEF Receive
  <2> QED BY <1>9, <2>1, <2>2, EndTypes DEF Receive, TypeOK
<1>10. ASSUME NEW c \in Call, NEW a, Serve(c, a) PROVE row' \in 0 .. MaxCalls /\ applied' \in [Call -> Nat]
  <2>1. CASE UNCHANGED server
    BY <2>1 DEF TypeOK
  <2>2. CASE Perform(c)
    <3>1. row' \in {c, 0, row}
      BY <2>2 DEF Perform
    <3>2. applied' \in [Call -> Nat]
      BY <2>2 DEF Perform, TypeOK
    <3> QED BY <3>1, <3>2 DEF TypeOK, Call
  <2> QED BY <1>10, <2>1, <2>2 DEF Serve
<1>11. CASE ServeCurrent
  <2>1. calls \in Call
    BY <1>11 DEF ServeCurrent, TypeOK, Call
  <2>2. PICK a \in Answers : Serve(calls, a) /\ answer' = a
    BY <1>11 DEF ServeCurrent
  <2>3. row' \in 0 .. MaxCalls /\ applied' \in [Call -> Nat]
    BY <1>10, <2>1, <2>2
  <2> QED BY <1>11, <2>1, <2>2, <2>3 DEF ServeCurrent, TypeOK, Phases
<1>12. ASSUME NEW c \in Call, ServeAbandoned(c) PROVE TypeOK'
  <2>1. row' \in 0 .. MaxCalls /\ applied' \in [Call -> Nat]
    BY <1>10, <1>12 DEF ServeAbandoned
  <2>2. abandoned[c] - 1 \in Nat
    BY <1>12 DEF ServeAbandoned, TypeOK
  <2>3. abandoned' \in [Call -> Nat]
    BY <1>12, <2>2 DEF ServeAbandoned, TypeOK
  <2> QED BY <1>12, <2>1, <2>3 DEF ServeAbandoned, TypeOK
<1>13. CASE UNCHANGED vars
  <2>1. /\ UNCHANGED <<session, calls, method, phase, left, sent, outcome>>
        /\ UNCHANGED <<answer, abandoned, row, applied>>
    BY <1>13 DEF vars
  <2> QED BY <2>1 DEF TypeOK
<1> QED BY <1>2, <1>3, <1>4, <1>5, <1>6, <1>7, <1>8, <1>9, <1>11, <1>12, <1>13 DEF Next, Attempt

-----------------------------------------------------------------------------
\* What the steps of an attempt have in common: the running call is a call.
LEMMA RunningCall == ASSUME TypeOK, phase # "idle" PROVE calls \in Call
BY DEF TypeOK, Call

\* Attempts are neither lost nor counted twice.
LEMMA AttemptStep == IInv /\ [Next]_vars => EveryAttemptOnce' /\ RetriesCount'
<1> SUFFICES ASSUME IInv, [Next]_vars PROVE EveryAttemptOnce' /\ RetriesCount'
  OBVIOUS
<1>0. TypeOK /\ TypeOK'
  BY TypeStep DEF IInv
<1> USE DEF client, server, One, EveryAttemptOnce, RetriesCount
<1>1. ASSUME NEW m, Begin(m), phase' = phase \/ GoOut, UNCHANGED <<sent, abandoned, server>>
      PROVE  EveryAttemptOnce' /\ RetriesCount'
  <2>1. phase = "idle" /\ calls' \in Call /\ sent[calls'] = 0
    BY <1>0, <1>1 DEF Begin, IInv, NotBegun, TypeOK, Call
  <2>2. phase' \in {"idle", "sending"}
    BY <1>1, <2>1 DEF GoOut
  <2>3. phase' = "sending" => left' = RETRY_TOTAL
    BY <1>1, <2>1 DEF GoOut
  <2>4. EveryAttemptOnce'
    BY <1>0, <1>1, <2>1, <2>2 DEF IInv, TypeOK
  <2>5. \A c \in Call : sent'[c] <= RETRY_TOTAL + 1
    BY <1>1 DEF IInv
  <2>6. phase' # "idle" => sent'[calls'] + left' + One(phase' = "sending") <= RETRY_TOTAL + 1
    BY <1>1, <2>1, <2>2, <2>3
  <2> QED BY <2>4, <2>5, <2>6
<1>2. CASE Connect \/ ConnectWithoutCredentials \/ \E m \in Methods : Request(m) \/ RequestUnconnected(m)
  BY <1>1, <1>2 DEF Connect, ConnectWithoutCredentials, Request, RequestUnconnected, GoOut, RaiseAtOnce
<1>3. CASE Disconnect
  BY <1>3 DEF Disconnect, IInv
<1>4. ASSUME NEW e, RetryOr(e) \/ Return(e), phase # "idle", UNCHANGED <<sent, applied>>,
             \/ phase # "waiting" /\ UNCHANGED abandoned
             \/ phase = "waiting" /\ abandoned' = [abandoned EXCEPT ![calls] = @ + 1]
      PROVE  EveryAttemptOnce' /\ RetriesCount'
  <2>1. calls \in Call /\ calls' = calls
    BY <1>0, <1>4, RunningCall DEF RetryOr, Return
  <2>2. \/ phase' = "idle"
        \/ phase' = "sending" /\ left > 0 /\ left' = left - 1 /\ phase # "sending"
        \/ phase' = "sending" /\ left > 0 /\ left' = left - 1 /\ phase = "sending"
    BY <1>4 DEF RetryOr, Return
  <2>3. EveryAttemptOnce'
    BY <1>0, <1>4, <2>1, <2>2 DEF IInv, TypeOK
  <2>4. RetriesCount'
    BY <1>0, <1>4, <2>1, <2>2 DEF IInv, TypeOK
  <2> QED BY <2>3, <2>4
<1>5. CASE Refused \/ ConnectTimeout
  BY <1>4, <1>5 DEF Refused, ConnectTimeout, ConnectFails
<1>6. CASE ReadTimeout \/ ConnectionReset
  BY <1>4, <1>6 DEF ReadTimeout, ConnectionReset, NoAnswer
<1>7. CASE Receive
  BY <1>4, <1>7 DEF Receive
<1>8. CASE Send
  <2>1. calls \in Call
    BY <1>0, <1>8, RunningCall DEF Send
  <2> QED BY <1>0, <1>8, <2>1 DEF Send, IInv, TypeOK
<1>9. ASSUME NEW c \in Call, NEW a, Serve(c, a)
      PROVE  applied' = applied \/ applied' = [applied EXCEPT ![c] = @ + 1]
  BY <1>9 DEF Serve, Perform
<1>10. CASE ServeCurrent
  <2>1. calls \in Call
    BY <1>0, <1>10, RunningCall DEF ServeCurrent
  <2>2. applied' = applied \/ applied' = [applied EXCEPT ![calls] = @ + 1]
    BY <1>9, <1>10, <2>1 DEF ServeCurrent
  <2> QED BY <1>0, <1>10, <2>1, <2>2 DEF ServeCurrent, IInv, TypeOK
<1>11. ASSUME NEW c \in Call, ServeAbandoned(c) PROVE EveryAttemptOnce' /\ RetriesCount'
  <2>1. applied' = applied \/ applied' = [applied EXCEPT ![c] = @ + 1]
    BY <1>9, <1>11 DEF ServeAbandoned
  <2> QED BY <1>0, <1>11, <2>1 DEF ServeAbandoned, IInv, TypeOK
<1>12. CASE UNCHANGED vars
  <2>1. UNCHANGED <<calls, phase, left, sent, abandoned, applied>>
    BY <1>12 DEF vars
  <2> QED BY <2>1 DEF IInv
<1> QED BY <1>2, <1>3, <1>5, <1>6, <1>7, <1>8, <1>10, <1>11, <1>12 DEF Next, Attempt

\* What the calls have become, and what the session is, agree.
History == NotBegun /\ NotEnded /\ AnswerIsTrue /\ AckedWasApplied /\ NotOpenYet /\ ConnectedMeansValidated

\* A call that ends, or tries again, keeps the history true.
LEMMA HistoryOfEnd ==
    ASSUME IInv, phase # "idle", NEW e, Return(e) \/ RetryOr(e), UNCHANGED <<applied, sent>>,
           e = "ok" => applied[calls] > 0
    PROVE  History'
<1>1. calls \in Call /\ outcome \in [Call -> Outcomes] /\ outcome[calls] = "pending"
  BY RunningCall DEF IInv, TypeOK, NotEnded
<1>2. UNCHANGED <<calls, method>> /\ phase' \in {"idle", "sending"}
  BY DEF Return, RetryOr
<1>3. CASE RetryOr(e) /\ ~Return(e)
  <2>1. UNCHANGED <<session, calls, method, outcome>> /\ phase' = "sending"
    BY <1>3 DEF RetryOr
  <2> QED BY <1>1, <2>1 DEF IInv, History, NotBegun, NotEnded, AnswerIsTrue, AckedWasApplied,
                          NotOpenYet, ConnectedMeansValidated, Connects
<1>4. CASE Return(e)
  <2>1. outcome' = [outcome EXCEPT ![calls] = Classify(e)] /\ phase' = "idle"
    BY <1>4 DEF Return
  <2>2. Classify(e) = "ok" => e = "ok"
    BY DEF Classify
  <2>3. NotBegun' /\ NotEnded' /\ AnswerIsTrue' /\ NotOpenYet'
    BY <1>1, <1>2, <2>1 DEF IInv, TypeOK, Call, NotBegun, NotEnded, AnswerIsTrue, NotOpenYet
  <2>4. AckedWasApplied'
    BY <1>1, <2>1, <2>2 DEF IInv, AckedWasApplied
  <2>5. CASE method[calls] = Connecting /\ e = "ok"
    <3>1. calls \in Connects' /\ outcome'[calls] = "ok" /\ \A d \in Connects' : d <= calls
      BY <1>1, <1>2, <2>1, <2>5 DEF Connects, Classify, Call
    <3> QED BY <3>1, <2>3, <2>4 DEF History, ConnectedMeansValidated
  <2>6. CASE ~(method[calls] = Connecting /\ e = "ok")
    <3>1. session' = session /\ Connects' = Connects
      BY <1>2, <1>4, <2>6 DEF Return, Connects
    <3>2. ASSUME session = "open" PROVE calls \notin Connects
      BY <3>2 DEF IInv, NotOpenYet, Connects
    <3>3. ASSUME NEW c \in Connects, c # calls PROVE outcome'[c] = outcome[c]
      BY <1>1, <2>1, <3>3
    <3>4. ConnectedMeansValidated'
      BY <3>1, <3>2, <3>3 DEF IInv, ConnectedMeansValidated
    <3> QED BY <3>4, <2>3, <2>4 DEF History
  <2> QED BY <2>5, <2>6
<1> QED BY <1>3, <1>4

\* A call that begins keeps the history true.
LEMMA HistoryOfBegin ==
    ASSUME IInv, NEW m \in Methods \cup {Connecting}, Begin(m), UNCHANGED <<applied, sent>>,
           \/ GoOut
           \/ RaiseAtOnce("ValueError") \/ RaiseAtOnce("NotConnectedError"),
           session' = "open" => m # Connecting /\ session' = session
    PROVE  History'
<1>1. /\ calls + 1 \in Call /\ calls \in 0 .. MaxCalls /\ calls' = calls + 1
      /\ method' = [method EXCEPT ![calls + 1] = m]
      /\ outcome \in [Call -> Outcomes] /\ method \in [Call -> Methods \cup {Connecting}]
  BY DEF Begin, IInv, TypeOK, Call
<1>2. /\ \A c \in Call : c # calls + 1 => outcome'[c] = outcome[c] /\ method'[c] = method[c]
      /\ outcome'[calls + 1] # "ok"
      /\ phase' # "idle" => outcome'[calls + 1] = "pending"
      /\ phase' \in {"idle", "sending"}
  BY <1>1 DEF GoOut, RaiseAtOnce, Begin, IInv, NotBegun
<1>3. NotBegun' /\ NotEnded' /\ AnswerIsTrue' /\ AckedWasApplied'
  BY <1>1, <1>2 DEF IInv, Call, NotBegun, NotEnded, AnswerIsTrue, AckedWasApplied
<1>4. NotOpenYet'
  BY <1>1 DEF NotOpenYet
<1>5. CASE session' = "open"
  <2>1. m # Connecting /\ session = "open"
    BY <1>5
  <2>2. Connects' = Connects
    BY <1>1, <2>1 DEF Connects, Call
  <2>3. ConnectedMeansValidated'
    BY <1>1, <1>2, <2>1, <2>2 DEF IInv, ConnectedMeansValidated, Connects, Call
  <2> QED BY <1>3, <1>4, <2>3 DEF History
<1> QED BY <1>3, <1>4, <1>5 DEF History, ConnectedMeansValidated

\* The history stays true, step after step.
LEMMA HistoryStep == IInv /\ [Next]_vars => History'
<1> SUFFICES ASSUME IInv, [Next]_vars PROVE History'
  OBVIOUS
<1> USE DEF client, server
<1>0. TypeOK
  BY DEF IInv
<1>1. CASE Connect \/ ConnectWithoutCredentials
  <2> DEFINE m == Connecting
  <2>1. m \in Methods \cup {Connecting} /\ Begin(m)
    BY <1>1 DEF Connect, ConnectWithoutCredentials
  <2>2. session' = "unvalidated"
    BY <1>1 DEF Connect, ConnectWithoutCredentials
  <2>3. UNCHANGED <<applied, sent>>
    BY <1>1 DEF Connect, ConnectWithoutCredentials, GoOut, RaiseAtOnce
  <2>4. GoOut \/ RaiseAtOnce("ValueError") \/ RaiseAtOnce("NotConnectedError")
    BY <1>1 DEF Connect, ConnectWithoutCredentials
  <2>5. session' # "open"
    BY <2>2
  <2> QED BY <2>1, <2>3, <2>4, <2>5, HistoryOfBegin
<1>2. ASSUME NEW m \in Methods, Request(m) \/ RequestUnconnected(m) PROVE History'
  <2>1. m # Connecting
    BY DEF Methods, RETRY_METHODS, Connecting
  <2> QED BY <1>2, <2>1, HistoryOfBegin DEF Request, RequestUnconnected, GoOut, RaiseAtOnce
<1>3. CASE Disconnect
  BY <1>3 DEF Disconnect, IInv, History, NotBegun, NotEnded, AnswerIsTrue, AckedWasApplied,
              NotOpenYet, ConnectedMeansValidated
<1>4. CASE Refused \/ ConnectTimeout
  BY <1>4, HistoryOfEnd DEF Refused, ConnectTimeout, ConnectFails
<1>5. CASE ReadTimeout \/ ConnectionReset
  BY <1>5, HistoryOfEnd DEF ReadTimeout, ConnectionReset, NoAnswer
<1>6. CASE Receive
  <2>1. HandleResponse = "ok" => answer = "ok"
    BY DEF HandleResponse
  <2> QED BY <1>6, <2>1, HistoryOfEnd DEF Receive, IInv, AnswerIsTrue
<1>7. ASSUME NEW c \in Call, NEW a, Serve(c, a)
      PROVE  /\ \A d \in Call : applied[d] > 0 => applied'[d] > 0
             /\ a = "ok" => applied'[c] > 0
  BY <1>0, <1>7 DEF Serve, Perform, TypeOK, Busy
<1>8. CASE Send
  BY <1>8 DEF Send, IInv, History, NotBegun, NotEnded, AnswerIsTrue, AckedWasApplied, NotOpenYet,
              ConnectedMeansValidated, Connects, TypeOK, Call
<1>9. CASE ServeCurrent
  <2>1. calls \in Call
    BY <1>0, <1>9, RunningCall DEF ServeCurrent
  <2>2. PICK a \in Answers : Serve(calls, a) /\ answer' = a
    BY <1>9 DEF ServeCurrent
  <2> QED BY <1>7, <1>9, <2>1, <2>2
          DEF ServeCurrent, IInv, History, NotBegun, NotEnded, AnswerIsTrue, AckedWasApplied,
              NotOpenYet, ConnectedMeansValidated, Connects
<1>10. ASSUME NEW c \in Call, ServeAbandoned(c) PROVE History'
  <2>1. PICK a \in Answers : Serve(c, a)
    BY <1>10 DEF ServeAbandoned
  <2>2. calls \in Call \/ phase = "idle"
    BY <1>0, RunningCall
  <2> QED BY <1>7, <1>10, <2>1, <2>2
          DEF ServeAbandoned, IInv, History, NotBegun, NotEnded, AnswerIsTrue, AckedWasApplied,
              NotOpenYet, ConnectedMeansValidated, Connects
<1>11. CASE UNCHANGED vars
  <2>1. UNCHANGED <<session, calls, method, phase, sent, outcome, answer, applied>>
    BY <1>11 DEF vars
  <2> QED BY <2>1 DEF IInv, History, NotBegun, NotEnded, AnswerIsTrue, AckedWasApplied,
                      NotOpenYet, ConnectedMeansValidated, Connects
<1> QED BY <1>1, <1>2, <1>3, <1>4, <1>5, <1>6, <1>8, <1>9, <1>10, <1>11 DEF Next, Attempt

-----------------------------------------------------------------------------
\* Every state of the transport satisfies the invariant.
THEOREM TransportInvariant == Spec => []IInv
<1>1. IInv /\ [Next]_vars => IInv'
  BY TypeStep, AttemptStep, HistoryStep DEF IInv, History
<1> QED BY <1>1, InitInvariant, PTL DEF Spec

\* Type correctness.
THEOREM TransportTypes == Spec => []TypeOK
<1>1. IInv => TypeOK BY DEF IInv
<1> QED BY <1>1, TransportInvariant, PTL

\* _request reports success only of a call the server carried out.
THEOREM TransportAckedWasApplied == Spec => []AckedWasApplied
<1>1. IInv => AckedWasApplied BY DEF IInv
<1> QED BY <1>1, TransportInvariant, PTL

\* No call takes effect more often than its attempts, nor makes more of them than
\* the retry budget allows.
THEOREM TransportEffectsWithinBudget == Spec => []EffectsWithinBudget
<1>1. IInv => EffectsWithinBudget
  BY DEF IInv, TypeOK, EveryAttemptOnce, RetriesCount, One, EffectsWithinBudget
<1> QED BY <1>1, TransportInvariant, PTL

\* The client is connected only while its last connect() succeeded.
THEOREM TransportConnectedMeansValidated == Spec => []ConnectedMeansValidated
<1>1. IInv => ConnectedMeansValidated BY DEF IInv
<1> QED BY <1>1, TransportInvariant, PTL

-----------------------------------------------------------------------------
(* The order of the effects: what a single attempt leaves, and what the row *)
(* holds while nothing was retried.                                          *)
\* Answers that become the exceptions of Rejections.
RejectingAnswers == {"auth", "missing", "conflict", "invalid"}

\* A call that made one attempt has given none up by the time it is answered; a
\* rejection on its way back means that the attempt did nothing.
OneAttempt ==
    phase = "answered" =>
        /\ sent[calls] > 0
        /\ sent[calls] <= 1 =>
             /\ abandoned[calls] = 0
             /\ answer \in RejectingAnswers => applied[calls] = 0

\* Nothing more will come of a call that made one attempt and was answered.
OverAndDone ==
    \A c \in Call : sent[c] <= 1 =>
        /\ outcome[c] = "ok" => abandoned[c] = 0
        /\ outcome[c] \in Rejections => abandoned[c] = 0 /\ applied[c] = 0

\* The first n calls succeeded at their first attempt; the row is what the last
\* write among them left.
CleanUpTo(n) == \A c \in 1 .. n : sent[c] <= 1 /\ outcome[c] = "ok"
Settled(n) == \A c \in 1 .. n :
    method[c] \in Writes /\ (\A d \in c + 1 .. n : method[d] \notin Writes) => row = Written(c)

\* The row holds the last write: of the ended calls until the running one's only
\* attempt is served, and of all calls from then on.
RowInOrder ==
    /\ phase = "idle" /\ CleanUpTo(calls) => Settled(calls)
    /\ phase = "sending" /\ sent[calls] = 0 /\ CleanUpTo(calls - 1) => Settled(calls - 1)
    /\ phase = "waiting" /\ sent[calls] <= 1 /\ CleanUpTo(calls - 1) => Settled(calls - 1)
    /\ phase = "answered" /\ sent[calls] <= 1 /\ answer = "ok" /\ CleanUpTo(calls - 1) => Settled(calls)

OrderInv == OneAttempt /\ OverAndDone /\ RowInOrder

\* The order holds before the first call.
LEMMA OrderInit == Init => OrderInv
BY DEF Init, OrderInv, OneAttempt, OverAndDone, RowInOrder, CleanUpTo, Settled, Rejections

\* No outcome a call can have before it was answered is a rejection, and a call
\* is told of one only when a rejecting answer was received.
LEMMA RejectionsAreAnswers ==
    /\ \A e : Classify(e) \in Rejections => e \in Rejections
    /\ \A e : Classify(e) = "ok" => e = "ok"
    /\ {"ok", "pending", "VergeConnectionError", "VergeTimeoutError", "NotConnectedError",
        "RetryError", "ValueError"} \cap Rejections = {}
    /\ HandleResponse \in Rejections => answer \in RejectingAnswers
    /\ HandleResponse = "ok" => answer = "ok"
    /\ "ok" \notin RejectingAnswers /\ "garbled" \notin RejectingAnswers /\ Busy \notin RejectingAnswers
<1>1. \A e : Classify(e) \in Rejections => e \in Rejections
  BY DEF Classify, Rejections
<1>2. \A e : Classify(e) = "ok" => e = "ok"
  BY DEF Classify
<1>3. {"ok", "pending", "VergeConnectionError", "VergeTimeoutError", "NotConnectedError",
       "RetryError", "ValueError"} \cap Rejections = {}
  BY DEF Rejections
<1>4. HandleResponse \in Rejections => answer \in RejectingAnswers
  BY DEF HandleResponse, Rejections, RejectingAnswers
<1>5. HandleResponse = "ok" => answer = "ok"
  BY DEF HandleResponse
<1>6. "ok" \notin RejectingAnswers /\ "garbled" \notin RejectingAnswers /\ Busy \notin RejectingAnswers
  BY DEF RejectingAnswers, Busy
<1> QED BY <1>1, <1>2, <1>3, <1>4, <1>5, <1>6

\* The ways a step ends or repeats the running call: what it may report.
LEMMA EndOfAttempt ==
    ASSUME IInv, Refused \/ ConnectTimeout \/ ReadTimeout \/ ConnectionReset \/ Receive
    PROVE  /\ phase # "idle" /\ calls \in Call
           /\ UNCHANGED <<calls, method, sent, answer, row, applied>>
           /\ \A c \in Call : c # calls => abandoned'[c] = abandoned[c]
           /\ phase \in {"sending", "answered"} => abandoned' = abandoned
           /\ \/ /\ phase' = "sending"
                 /\ outcome' = outcome
              \/ /\ phase' = "idle"
                 /\ \E e : /\ outcome' = [outcome EXCEPT ![calls] = e]
                           /\ e = "ok" => phase = "answered" /\ answer = "ok"
                           /\ e \in Rejections => phase = "answered" /\ answer \in RejectingAnswers
<1> DEFINE Reported == \E e : /\ outcome' = [outcome EXCEPT ![calls] = e]
                              /\ e = "ok" => phase = "answered" /\ answer = "ok"
                              /\ e \in Rejections => phase = "answered" /\ answer \in RejectingAnswers
<1> USE DEF server
<1>1. phase # "idle"
  BY DEF Refused, ConnectTimeout, ConnectFails, ReadTimeout, ConnectionReset, NoAnswer, Receive
<1>2. calls \in Call /\ abandoned \in [Call -> Nat]
  BY <1>1, RunningCall DEF IInv, TypeOK
<1>3. UNCHANGED <<calls, method, sent, answer, row, applied>>
  BY DEF Refused, ConnectTimeout, ConnectFails, ReadTimeout, ConnectionReset, NoAnswer, Receive,
         RetryOr, Return
<1>4. \A c \in Call : c # calls => abandoned'[c] = abandoned[c]
  BY <1>2 DEF Refused, ConnectTimeout, ConnectFails, ReadTimeout, ConnectionReset, NoAnswer, Receive
<1>5. phase \in {"sending", "answered"} => abandoned' = abandoned
  BY DEF Refused, ConnectTimeout, ConnectFails, ReadTimeout, ConnectionReset, NoAnswer, Receive
<1>6. ASSUME NEW e, RetryOr(e) \/ Return(e), 
             \/ e \in {"VergeConnectionError", "VergeTimeoutError", "RetryError"}
             \/ e = HandleResponse /\ phase = "answered"
      PROVE  \/ phase' = "sending" /\ outcome' = outcome
             \/ phase' = "idle" /\ Reported
  <2>1. CASE Return(e)
    <3>1. outcome' = [outcome EXCEPT ![calls] = Classify(e)] /\ phase' = "idle"
      BY <2>1 DEF Return
    <3>2. Classify(e) = "ok" => phase = "answered" /\ answer = "ok"
      BY <1>6, RejectionsAreAnswers
    <3>3. Classify(e) \in Rejections => phase = "answered" /\ answer \in RejectingAnswers
      <4>1. ASSUME Classify(e) \in Rejections PROVE e \in Rejections
        BY <4>1, RejectionsAreAnswers
      <4>2. ASSUME e \in Rejections PROVE e = HandleResponse /\ phase = "answered"
        BY <1>6, <4>2, RejectionsAreAnswers
      <4> QED BY <4>1, <4>2, RejectionsAreAnswers
    <3> QED BY <3>1, <3>2, <3>3
  <2>2. CASE RetryOr(e) /\ ~Return(e)
    BY <2>2 DEF RetryOr
  <2> QED BY <1>6, <2>1, <2>2
<1>7. CASE Refused \/ ConnectTimeout
  BY <1>1, <1>2, <1>3, <1>4, <1>5, <1>6, <1>7 DEF Refused, ConnectTimeout, ConnectFails
<1>8. CASE ReadTimeout \/ ConnectionReset
  BY <1>1, <1>2, <1>3, <1>4, <1>5, <1>6, <1>8 DEF ReadTimeout, ConnectionReset, NoAnswer
<1>9. CASE Receive
  BY <1>1, <1>2, <1>3, <1>4, <1>5, <1>6, <1>9 DEF Receive
<1> QED BY <1>7, <1>8, <1>9

\* How serving an attempt of c changes the server, and what it answers.
LEMMA ServeEffects ==
    ASSUME TypeOK, NEW c \in Call, NEW a, Serve(c, a)
    PROVE  /\ \A d \in Call : d # c => applied'[d] = applied[d]
           /\ a \in RejectingAnswers => UNCHANGED <<row, applied>>
           /\ a = "ok" => row' = IF method[c] \in Writes THEN Written(c) ELSE row
<1> USE DEF server
<1>1. \A d \in Call : d # c => applied'[d] = applied[d]
  BY DEF Serve, Perform, TypeOK
<1>2. a \in RejectingAnswers => UNCHANGED <<row, applied>>
  BY RejectionsAreAnswers DEF Serve
<1>3. ASSUME a = "ok" PROVE row' = IF method[c] \in Writes THEN Written(c) ELSE row
  <2>1. Perform(c)
    BY <1>3 DEF Serve, Busy
  <2>2. method[c] \in {"GET", "PUT", "DELETE", "POST", "PATCH", "CONNECT"}
    BY DEF TypeOK, Methods, RETRY_METHODS, Connecting
  <2> QED BY <2>1, <2>2 DEF Perform, Writes, Written
<1> QED BY <1>1, <1>2, <1>3

\* While the calls so far made no second attempt and succeeded, no attempt is late.
LEMMA NothingLate ==
    ASSUME IInv, OrderInv, NEW c \in Call, abandoned[c] > 0
    PROVE  /\ ~(sent[c] <= 1 /\ outcome[c] = "ok")
           /\ ~(sent[c] <= 1 /\ outcome[c] \in Rejections)
           /\ c <= calls
           /\ c = calls => /\ ~(phase = "sending" /\ sent[calls] = 0)
                           /\ ~(phase = "waiting" /\ sent[calls] <= 1)
                           /\ ~(phase = "answered" /\ sent[calls] <= 1)
<1>1. /\ calls \in Nat /\ sent \in [Call -> Nat] /\ abandoned \in [Call -> Nat]
      /\ applied \in [Call -> Nat]
  BY DEF IInv, TypeOK
<1>2. ~(sent[c] <= 1 /\ outcome[c] = "ok") /\ ~(sent[c] <= 1 /\ outcome[c] \in Rejections)
  BY DEF OrderInv, OverAndDone
<1>3. applied[c] + abandoned[c] + One(c = calls /\ phase = "waiting") <= sent[c]
  BY DEF IInv, EveryAttemptOnce
<1>4. sent[c] > 0
  BY <1>1, <1>3 DEF One
<1>5. c <= calls
  BY <1>1, <1>4 DEF IInv, NotBegun, Call
<1>6. c = calls => ~(phase = "waiting" /\ sent[calls] <= 1)
  BY <1>1, <1>3 DEF One
<1>7. c = calls => ~(phase = "answered" /\ sent[calls] <= 1)
  BY DEF OrderInv, OneAttempt
<1> QED BY <1>2, <1>4, <1>5, <1>6, <1>7

\* A single attempt that was rejected did nothing, and none is left behind.
LEMMA OneAttemptStep == IInv /\ OrderInv /\ [Next]_vars => OneAttempt'
<1> SUFFICES ASSUME IInv, OrderInv, [Next]_vars, phase' = "answered"
             PROVE  /\ sent'[calls'] > 0
                    /\ sent'[calls'] <= 1 =>
                         /\ abandoned'[calls'] = 0
                         /\ answer' \in RejectingAnswers => applied'[calls'] = 0
  BY DEF OneAttempt
<1> USE DEF client, server
<1>0. TypeOK
  BY DEF IInv
<1>1. \/ phase = "answered" /\ UNCHANGED <<calls, sent, answer, applied, abandoned>>
      \/ ServeCurrent
      \/ \E c \in Call : ServeAbandoned(c)
  <2>1. ASSUME NEW m, Begin(m), phase' = phase \/ GoOut PROVE FALSE
    BY <2>1 DEF Begin, GoOut
  <2>2. ~(Connect \/ ConnectWithoutCredentials
            \/ \E m \in Methods : Request(m) \/ RequestUnconnected(m))
    BY <2>1 DEF Connect, ConnectWithoutCredentials, Request, RequestUnconnected, RaiseAtOnce
  <2>3. ~Send /\ ~Disconnect
    BY DEF Send, Disconnect
  <2>4. ~(Refused \/ ConnectTimeout \/ ReadTimeout \/ ConnectionReset \/ Receive)
    BY EndOfAttempt
  <2>5. CASE UNCHANGED vars
    BY <2>5 DEF vars
  <2> QED BY <2>2, <2>3, <2>4, <2>5 DEF Next, Attempt
<1>2. CASE phase = "answered" /\ UNCHANGED <<calls, sent, answer, applied, abandoned>>
  BY <1>2 DEF OrderInv, OneAttempt
<1>3. CASE ServeCurrent
  <2>1. calls \in Call /\ phase = "waiting" /\ UNCHANGED <<calls, sent, abandoned>>
    BY <1>0, <1>3, RunningCall DEF ServeCurrent
  <2>2. sent[calls] > 0 /\ (sent[calls] <= 1 => applied[calls] = 0 /\ abandoned[calls] = 0)
    <3>1. applied[calls] \in Nat /\ abandoned[calls] \in Nat /\ sent[calls] \in Nat
      BY <1>0, <2>1 DEF TypeOK
    <3>2. applied[calls] + abandoned[calls] + 1 <= sent[calls]
      BY <2>1 DEF IInv, EveryAttemptOnce, One
    <3>3. \A x, y, z \in Nat : x + y + 1 <= z => z > 0 /\ (z <= 1 => x = 0 /\ y = 0)
      OBVIOUS
    <3> QED BY <3>1, <3>2, <3>3
  <2>3. PICK a \in Answers : Serve(calls, a) /\ answer' = a
    BY <1>3 DEF ServeCurrent
  <2>4. answer' \in RejectingAnswers => applied' = applied
    BY <1>0, <2>1, <2>3, ServeEffects
  <2> QED BY <2>1, <2>2, <2>4
<1>4. ASSUME NEW c \in Call, ServeAbandoned(c)
      PROVE  /\ sent'[calls'] > 0
             /\ sent'[calls'] <= 1 =>
                  /\ abandoned'[calls'] = 0
                  /\ answer' \in RejectingAnswers => applied'[calls'] = 0
  <2>1. abandoned[c] > 0 /\ UNCHANGED <<calls, phase, sent, answer>>
    BY <1>4 DEF ServeAbandoned
  <2>2. calls \in Call /\ sent[calls] > 0
    BY <1>0, <2>1, RunningCall DEF OrderInv, OneAttempt
  <2>3. ASSUME sent[calls] <= 1 PROVE c # calls
    BY <2>1, <2>3, NothingLate
  <2>4. ASSUME c # calls PROVE abandoned'[calls] = abandoned[calls]
    BY <1>0, <1>4, <2>2, <2>4 DEF ServeAbandoned, TypeOK
  <2>5. ASSUME c # calls PROVE applied'[calls] = applied[calls]
    BY <1>0, <1>4, <2>2, <2>5, ServeEffects DEF ServeAbandoned
  <2> QED BY <2>1, <2>2, <2>3, <2>4, <2>5 DEF OrderInv, OneAttempt
<1> QED BY <1>1, <1>2, <1>3, <1>4

\* Of a call that ended after one attempt, nothing is left.
LEMMA OverAndDoneStep == IInv /\ OrderInv /\ [Next]_vars => OverAndDone'
<1> SUFFICES ASSUME IInv, OrderInv, [Next]_vars, NEW c \in Call, sent'[c] <= 1
             PROVE  /\ outcome'[c] = "ok" => abandoned'[c] = 0
                    /\ outcome'[c] \in Rejections => abandoned'[c] = 0 /\ applied'[c] = 0
  BY DEF OverAndDone
<1> USE DEF client, server
<1>0. /\ TypeOK /\ OverAndDone
      /\ outcome \in [Call -> Outcomes] /\ sent \in [Call -> Nat] /\ abandoned \in [Call -> Nat]
      /\ applied \in [Call -> Nat] /\ calls \in Nat
  BY DEF IInv, OrderInv, TypeOK
<1>1. CASE outcome'[c] \notin {"ok"} \cup Rejections
  BY <1>1
<1>2. CASE UNCHANGED <<outcome, sent, abandoned, applied>>
  BY <1>0, <1>2 DEF OverAndDone
<1>3. ASSUME NEW m, Begin(m), GoOut PROVE UNCHANGED <<outcome, sent, abandoned, applied>>
  BY <1>3 DEF GoOut
<1>4. ASSUME NEW m, Begin(m), NEW e \in {"ValueError", "NotConnectedError"}, RaiseAtOnce(e)
      PROVE  \/ outcome'[c] \notin {"ok"} \cup Rejections
             \/ /\ outcome'[c] = outcome[c]
                /\ UNCHANGED <<sent, abandoned, applied>>
  <2>1. outcome' = [outcome EXCEPT ![calls + 1] = e] /\ UNCHANGED <<sent, abandoned, applied>>
    BY <1>4 DEF RaiseAtOnce
  <2>2. e \notin {"ok"} \cup Rejections
    BY <1>4, RejectionsAreAnswers
  <2> QED BY <1>0, <2>1, <2>2
<1>5. CASE \/ Connect \/ ConnectWithoutCredentials
           \/ \E m \in Methods : Request(m) \/ RequestUnconnected(m)
  <2>1. \E m : Begin(m) /\ (GoOut \/ RaiseAtOnce("ValueError") \/ RaiseAtOnce("NotConnectedError"))
    BY <1>5 DEF Connect, ConnectWithoutCredentials, Request, RequestUnconnected
  <2> QED BY <1>0, <1>1, <1>2, <1>3, <1>4, <2>1 DEF OverAndDone
<1>6. CASE Disconnect
  BY <1>2, <1>6 DEF Disconnect
<1>7. CASE Send
  <2>1. phase = "sending" /\ UNCHANGED <<outcome, abandoned, applied>>
        /\ sent' = [sent EXCEPT ![calls] = @ + 1]
    BY <1>7 DEF Send
  <2>2. CASE c = calls
    <3>1. outcome'[c] = "pending"
      BY <2>1, <2>2 DEF IInv, NotEnded
    <3> QED BY <1>1, <3>1, RejectionsAreAnswers
  <2>3. CASE c # calls
    <3>1. sent'[c] = sent[c]
      BY <1>0, <2>1, <2>3
    <3> QED BY <1>0, <2>1, <3>1 DEF OverAndDone
  <2> QED BY <2>2, <2>3
<1>8. CASE Refused \/ ConnectTimeout \/ ReadTimeout \/ ConnectionReset \/ Receive
  <2>1. /\ phase # "idle" /\ calls \in Call /\ UNCHANGED <<sent, answer, applied>>
        /\ c # calls => abandoned'[c] = abandoned[c]
        /\ phase \in {"sending", "answered"} => abandoned' = abandoned
    BY <1>8, EndOfAttempt
  <2>2. c # calls => outcome'[c] = outcome[c]
    BY <1>0, <1>8, EndOfAttempt
  <2>3. CASE c # calls
    BY <1>0, <2>1, <2>2, <2>3 DEF OverAndDone
  <2>4. CASE c = calls
    <3>1. outcome[c] = "pending" /\ "pending" \notin {"ok"} \cup Rejections
      BY <2>1, <2>4, RejectionsAreAnswers DEF IInv, NotEnded
    <3>2. /\ outcome'[c] = "ok" => phase = "answered" /\ answer = "ok"
          /\ outcome'[c] \in Rejections => phase = "answered" /\ answer \in RejectingAnswers
      BY <1>0, <1>8, <2>4, <3>1, EndOfAttempt
    <3>3. CASE phase = "answered"
      BY <1>0, <2>1, <2>4, <3>2, <3>3 DEF OrderInv, OneAttempt
    <3> QED BY <3>2, <3>3
  <2> QED BY <2>3, <2>4
<1>9. CASE ServeCurrent
  <2>1. phase = "waiting" /\ calls \in Call /\ UNCHANGED <<outcome, sent, abandoned>>
    BY <1>0, <1>9, RunningCall DEF ServeCurrent
  <2>2. CASE c = calls
    <3>1. outcome'[c] = "pending"
      BY <2>1, <2>2 DEF IInv, NotEnded
    <3> QED BY <1>1, <3>1, RejectionsAreAnswers
  <2>3. CASE c # calls
    <3>1. applied'[c] = applied[c]
      BY <1>0, <1>9, <2>1, <2>3, ServeEffects DEF ServeCurrent
    <3> QED BY <1>0, <2>1, <3>1 DEF OverAndDone
  <2> QED BY <2>2, <2>3
<1>10. ASSUME NEW d \in Call, ServeAbandoned(d)
       PROVE  /\ outcome'[c] = "ok" => abandoned'[c] = 0
              /\ outcome'[c] \in Rejections => abandoned'[c] = 0 /\ applied'[c] = 0
  <2>1. abandoned[d] > 0 /\ UNCHANGED <<outcome, sent>>
        /\ abandoned' = [abandoned EXCEPT ![d] = @ - 1]
    BY <1>10 DEF ServeAbandoned
  <2>2. CASE c = d
    BY <2>1, <2>2, NothingLate
  <2>3. CASE c # d
    <3>1. applied'[c] = applied[c]
      BY <1>0, <1>10, <2>3, ServeEffects DEF ServeAbandoned
    <3> QED BY <1>0, <2>1, <2>3, <3>1 DEF OverAndDone
  <2> QED BY <2>2, <2>3
<1>11. CASE UNCHANGED vars
  BY <1>2, <1>11 DEF vars
<1> QED BY <1>5, <1>6, <1>7, <1>8, <1>9, <1>10, <1>11 DEF Next, Attempt

\* What is clean and settled depends on the calls it speaks of, and on the row.
LEMMA SamePast ==
    ASSUME NEW n \in Nat, \A c \in 1 .. n : UNCHANGED <<sent[c], outcome[c], method[c]>>
    PROVE  /\ CleanUpTo(n)' => CleanUpTo(n)
           /\ row' = row /\ Settled(n) => Settled(n)'
<1>1. CleanUpTo(n)' => CleanUpTo(n)
  BY DEF CleanUpTo
<1>2. ASSUME row' = row, Settled(n) PROVE Settled(n)'
  <2> SUFFICES ASSUME NEW c \in 1 .. n, method'[c] \in Writes,
                      \A d \in c + 1 .. n : method'[d] \notin Writes
               PROVE  row' = Written(c)'
    BY DEF Settled
  <2>1. \A d \in c + 1 .. n : d \in 1 .. n
    OBVIOUS
  <2>2. method[c] \in Writes /\ \A d \in c + 1 .. n : method[d] \notin Writes
    BY <2>1
  <2> QED BY <1>2, <2>2 DEF Settled, Written
<1> QED BY <1>1, <1>2

\* A call that is carried out after the others is settled with them.
LEMMA NextSettled ==
    ASSUME NEW n \in Nat, Settled(n - 1), n > 0, method' = method,
           row' = IF method[n] \in Writes THEN Written(n) ELSE row
    PROVE  Settled(n)'
<1> SUFFICES ASSUME NEW c \in 1 .. n, method[c] \in Writes,
                    \A d \in c + 1 .. n : method[d] \notin Writes
             PROVE  row' = Written(c)
  BY DEF Settled, Written
<1>1. CASE c = n
  BY <1>1
<1>2. CASE c # n
  <2>1. c \in 1 .. n - 1 /\ n \in c + 1 .. n /\ \A d \in c + 1 .. n - 1 : d \in c + 1 .. n
    BY <1>2
  <2>2. method[n] \notin Writes
    BY <2>1
  <2> QED BY <2>1, <2>2 DEF Settled
<1> QED BY <1>1, <1>2

\* The row is what the last of the clean calls left, step after step.
LEMMA RowStep == IInv /\ OrderInv /\ [Next]_vars => RowInOrder'
<1> SUFFICES ASSUME IInv, OrderInv, [Next]_vars PROVE RowInOrder'
  OBVIOUS
<1> USE DEF client, server
<1>0. /\ TypeOK /\ RowInOrder
      /\ calls \in Nat /\ calls <= MaxCalls /\ (phase # "idle" => calls > 0)
      /\ sent \in [Call -> Nat] /\ outcome \in [Call -> Outcomes]
      /\ method \in [Call -> Methods \cup {Connecting}]
  BY DEF IInv, OrderInv, TypeOK
<1>1. ASSUME NEW m, Begin(m), GoOut PROVE RowInOrder'
  <2>1. phase = "idle" /\ phase' = "sending" /\ calls' = calls + 1
        /\ method' = [method EXCEPT ![calls + 1] = m] /\ UNCHANGED <<sent, outcome, row>>
    BY <1>1 DEF Begin, GoOut
  <2>2. \A c \in 1 .. calls : UNCHANGED <<sent[c], outcome[c], method[c]>>
    BY <1>0, <2>1 DEF Call
  <2>3. PICK n \in Nat : n = calls
    BY <1>0
  <2>4. CleanUpTo(n) => Settled(n)
    BY <1>0, <2>1, <2>3 DEF RowInOrder
  <2>5. CleanUpTo(n)' => Settled(n)'
    BY <2>1, <2>2, <2>3, <2>4, SamePast
  <2>6. calls' - 1 = n
    BY <1>0, <2>1, <2>3
  <2>7. CleanUpTo(calls - 1)' => Settled(calls - 1)'
    BY <2>5, <2>6
  <2> QED BY <2>1, <2>7 DEF RowInOrder
<1>2. ASSUME NEW m, Begin(m), NEW e \in {"ValueError", "NotConnectedError"}, RaiseAtOnce(e)
      PROVE  RowInOrder'
  <2>1. phase' = "idle" /\ calls' = calls + 1 /\ calls' \in Call /\ outcome'[calls'] # "ok"
    BY <1>0, <1>2 DEF Begin, RaiseAtOnce, Call
  <2>2. ~CleanUpTo(calls)'
    BY <2>1 DEF CleanUpTo, Call
  <2> QED BY <2>1, <2>2 DEF RowInOrder
<1>3. CASE \/ Connect \/ ConnectWithoutCredentials
           \/ \E m \in Methods : Request(m) \/ RequestUnconnected(m)
  BY <1>1, <1>2, <1>3 DEF Connect, ConnectWithoutCredentials, Request, RequestUnconnected
<1>4. CASE Disconnect
  BY <1>0, <1>4 DEF Disconnect, RowInOrder, CleanUpTo, Settled, Written
<1>5. CASE Send
  <2>1. phase = "sending" /\ phase' = "waiting" /\ UNCHANGED <<calls, method, outcome, row>>
        /\ sent' = [sent EXCEPT ![calls] = @ + 1] /\ calls \in Call
    BY <1>0, <1>5, RunningCall DEF Send
  <2>2. \A c \in 1 .. calls - 1 : UNCHANGED <<sent[c], outcome[c], method[c]>>
    BY <1>0, <2>1 DEF Call
  <2>3. ASSUME sent'[calls'] <= 1 PROVE sent[calls] = 0
    BY <1>0, <2>1, <2>3
  <2>4. calls - 1 \in Nat
    BY <1>0, <2>1
  <2>5. ASSUME sent[calls] = 0, CleanUpTo(calls - 1)' PROVE Settled(calls - 1)'
    <3> DEFINE n == calls - 1
    <3>1. n \in Nat /\ CleanUpTo(n)' /\ \A c \in 1 .. n : UNCHANGED <<sent[c], outcome[c], method[c]>>
      BY <2>2, <2>4, <2>5, <2>1
    <3>2. CleanUpTo(n) => Settled(n)
      BY <1>0, <2>1, <2>5 DEF RowInOrder
    <3> QED BY <2>1, <3>1, <3>2, SamePast
  <2> QED BY <2>1, <2>3, <2>5 DEF RowInOrder
<1>6. CASE Refused \/ ConnectTimeout \/ ReadTimeout \/ ConnectionReset \/ Receive
  <2>1. phase # "idle" /\ calls \in Call /\ UNCHANGED <<calls, method, sent, answer, row>>
    BY <1>6, EndOfAttempt
  <2>2. \/ phase' = "sending" /\ outcome' = outcome
        \/ phase' = "idle" /\ \E e : /\ outcome' = [outcome EXCEPT ![calls] = e]
                                     /\ e = "ok" => phase = "answered" /\ answer = "ok"
    BY <1>6, EndOfAttempt
  <2>3. \A c \in 1 .. calls - 1 : UNCHANGED <<sent[c], outcome[c], method[c]>>
    BY <1>0, <2>1, <2>2 DEF Call
  <2>4. PICK n \in Nat : n = calls - 1
    BY <1>0, <2>1 DEF Call
  <2>5. CleanUpTo(n)' => CleanUpTo(n)
    BY <2>3, <2>4, SamePast
  <2>6. CASE phase' = "sending" /\ outcome' = outcome
    <3>1. ASSUME sent[calls] = 0 PROVE phase = "sending"
      <4>1. phase # "answered"
        BY <3>1 DEF OrderInv, OneAttempt
      <4>2. phase # "waiting"
        <5>1. applied[calls] \in Nat /\ abandoned[calls] \in Nat
          BY <1>0, <2>1 DEF TypeOK
        <5>2. phase = "waiting" => applied[calls] + abandoned[calls] + 1 <= 0
          BY <2>1, <3>1 DEF IInv, EveryAttemptOnce, One
        <5> QED BY <5>1, <5>2
      <4> QED BY <1>0, <2>1, <4>1, <4>2 DEF TypeOK, Phases
    <3>2. ASSUME sent[calls] = 0, CleanUpTo(n) PROVE Settled(n)
      BY <1>0, <2>4, <3>1, <3>2 DEF RowInOrder
    <3>3. ASSUME sent[calls] = 0, CleanUpTo(n)' PROVE Settled(n)'
      BY <2>1, <2>3, <2>4, <2>5, <3>2, <3>3, SamePast
    <3>4. calls' - 1 = n
      BY <2>1, <2>4
    <3> QED BY <2>1, <2>6, <3>3, <3>4 DEF RowInOrder
  <2>7. CASE phase' = "idle" /\ \E e : /\ outcome' = [outcome EXCEPT ![calls] = e]
                                       /\ e = "ok" => phase = "answered" /\ answer = "ok"
    <3> SUFFICES ASSUME CleanUpTo(calls)' PROVE Settled(calls)'
      BY <2>7 DEF RowInOrder
    <3>1. outcome'[calls] = "ok" /\ sent'[calls] <= 1
      BY <2>1 DEF CleanUpTo, Call
    <3>2. phase = "answered" /\ answer = "ok"
      BY <1>0, <2>1, <2>7, <3>1
    <3>3. CleanUpTo(n)'
      BY <1>0, <2>1, <2>4 DEF CleanUpTo
    <3>4. Settled(calls)
      BY <1>0, <2>1, <2>4, <2>5, <3>1, <3>2, <3>3 DEF RowInOrder
    <3> QED BY <2>1, <3>4 DEF Settled, Written
  <2> QED BY <2>2, <2>6, <2>7
<1>7. CASE ServeCurrent
  <2>1. calls \in Call /\ phase = "waiting" /\ phase' = "answered"
        /\ UNCHANGED <<calls, method, sent, outcome>>
    BY <1>0, <1>7, RunningCall DEF ServeCurrent
  <2>2. PICK a \in Answers : Serve(calls, a) /\ answer' = a
    BY <1>7 DEF ServeCurrent
  <2> SUFFICES ASSUME sent[calls] <= 1, answer' = "ok", CleanUpTo(calls - 1)' PROVE Settled(calls)'
    BY <2>1 DEF RowInOrder
  <2>3. row' = IF method[calls] \in Writes THEN Written(calls) ELSE row
    BY <1>0, <2>1, <2>2, ServeEffects
  <2>4. CleanUpTo(calls - 1)
    BY <2>1 DEF CleanUpTo
  <2>5. Settled(calls - 1)
    BY <1>0, <2>1, <2>4 DEF RowInOrder
  <2>6. PICK n \in Nat : n = calls /\ n > 0
    BY <1>0, <2>1
  <2>7. Settled(n)'
    BY <2>1, <2>3, <2>5, <2>6, NextSettled
  <2> QED BY <2>1, <2>6, <2>7
<1>8. ASSUME NEW d \in Call, ServeAbandoned(d) PROVE RowInOrder'
  <2>1. abandoned[d] > 0 /\ UNCHANGED <<calls, method, phase, sent, outcome, answer>>
    BY <1>8 DEF ServeAbandoned
  <2>2. /\ ~(sent[d] <= 1 /\ outcome[d] = "ok")
        /\ d <= calls
        /\ d = calls => /\ ~(phase = "sending" /\ sent[calls] = 0)
                        /\ ~(phase = "waiting" /\ sent[calls] <= 1)
                        /\ ~(phase = "answered" /\ sent[calls] <= 1)
    BY <2>1, NothingLate
  <2>3. ~CleanUpTo(calls)' /\ (d # calls => ~CleanUpTo(calls - 1)')
    BY <1>0, <2>1, <2>2 DEF CleanUpTo, Call
  <2> QED BY <2>1, <2>2, <2>3 DEF RowInOrder
<1>9. CASE UNCHANGED vars
  <2>1. UNCHANGED <<calls, method, phase, sent, outcome, answer, row>>
    BY <1>9 DEF vars
  <2> QED BY <1>0, <2>1 DEF RowInOrder, CleanUpTo, Settled, Written
<1> QED BY <1>3, <1>4, <1>5, <1>6, <1>7, <1>8, <1>9 DEF Next, Attempt

-----------------------------------------------------------------------------
\* Every state of the transport satisfies the order of its effects.
THEOREM TransportOrder == Spec => []OrderInv
<1>1. IInv /\ OrderInv /\ [Next]_vars => OrderInv'
  BY OneAttemptStep, OverAndDoneStep, RowStep DEF OrderInv
<1> QED BY <1>1, OrderInit, TransportInvariant, PTL DEF Spec

\* An exception that says the server rejected the call is true of a single attempt.
THEOREM TransportCleanRejection == Spec => []CleanRejectionHadNoEffect
<1>1. OrderInv => CleanRejectionHadNoEffect
  BY DEF OrderInv, OverAndDone, CleanRejectionHadNoEffect
<1> QED BY <1>1, TransportOrder, PTL

\* Without retries the row is what the last successful write left.
THEOREM TransportLastWriteWins == Spec => []LastWriteWins
<1>1. IInv /\ OrderInv => LastWriteWins
  <2> SUFFICES ASSUME IInv, OrderInv, Clean
               PROVE  \A c \in 1 .. calls :
                        method[c] \in Writes /\ (\A d \in c + 1 .. calls : method[d] \notin Writes)
                          => row = Written(c)
    BY DEF LastWriteWins
  <2>1. CleanUpTo(calls)
    BY DEF Clean, CleanUpTo
  <2>2. phase = "idle"
    BY <2>1 DEF IInv, TypeOK, NotEnded, CleanUpTo
  <2> QED BY <2>1, <2>2 DEF OrderInv, RowInOrder, Settled
<1> QED BY <1>1, TransportOrder, TransportInvariant, PTL

-----------------------------------------------------------------------------
\* The transport begins as its contract does.
LEMMA ContractInit == Init => Contract!Init
BY DEF Init, Contract!Init, Verdict

\* A call that ends returns in the contract, and one that tries again is invisible.
LEMMA ContractEnd ==
    ASSUME IInv, IInv', phase # "idle", NEW e, Return(e) \/ RetryOr(e), UNCHANGED applied
    PROVE  [Contract!Next]_(Contract!contract)
<1>1. calls \in Call /\ outcome \in [Call -> Outcomes] /\ outcome[calls] = "pending"
  BY RunningCall DEF IInv, TypeOK, NotEnded
<1>2. CASE UNCHANGED outcome
  BY <1>2 DEF Contract!contract, Verdict
<1>3. CASE outcome' = [outcome EXCEPT ![calls] = Classify(e)]
  <2>1. Verdict' = [Verdict EXCEPT ![calls] = Verdict'[calls]]
    BY <1>1, <1>3 DEF Verdict
  <2>2. Verdict[calls] = "open" /\ Verdict'[calls] \in {"open", "ok", "error"}
    BY <1>1 DEF Verdict
  <2>3. Verdict'[calls] = "ok" => applied[calls] > 0
    BY <1>1 DEF Verdict, IInv, AckedWasApplied
  <2>4. CASE Verdict'[calls] = "open"
    <3>1. Verdict' = Verdict
      BY <1>1, <2>1, <2>2, <2>4 DEF Verdict
    <3> QED BY <3>1 DEF Contract!contract
  <2>5. CASE Verdict'[calls] # "open"
    BY <1>1, <2>1, <2>2, <2>3, <2>5 DEF Contract!Next, Contract!Return
  <2> QED BY <2>4, <2>5
<1> QED BY <1>2, <1>3 DEF Return, RetryOr

\* Serving an attempt takes effect once in the contract, or is invisible.
LEMMA ContractServe ==
    ASSUME IInv, IInv', NEW c \in Call, NEW a, Serve(c, a), UNCHANGED <<outcome, sent>>
    PROVE  [Contract!Next]_(Contract!contract)
<1>1. CASE UNCHANGED applied
  BY <1>1 DEF Contract!contract, Verdict
<1>2. CASE applied' = [applied EXCEPT ![c] = @ + 1]
  <2>1. applied[c] < RETRY_TOTAL + 1
    BY <1>2 DEF IInv, TypeOK, EveryAttemptOnce, RetriesCount, One
  <2>2. UNCHANGED Verdict
    BY DEF Verdict
  <2> QED BY <1>2, <2>1, <2>2 DEF Contract!Next, Contract!TakeEffect
<1> QED BY <1>1, <1>2 DEF Serve, Perform, server

\* Every step of the transport is a step of the contract, or invisible in it.
LEMMA ContractStep == IInv /\ IInv' /\ [Next]_vars => [Contract!Next]_(Contract!contract)
<1> SUFFICES ASSUME IInv, IInv', [Next]_vars PROVE [Contract!Next]_(Contract!contract)
  OBVIOUS
<1> USE DEF client, server
<1>1. ASSUME NEW m, Begin(m), GoOut PROVE [Contract!Next]_(Contract!contract)
  BY <1>1 DEF GoOut, Contract!contract, Verdict
<1>2. ASSUME NEW m, Begin(m), NEW e \in {"ValueError", "NotConnectedError"}, RaiseAtOnce(e)
      PROVE  [Contract!Next]_(Contract!contract)
  <2>1. calls + 1 \in Call /\ outcome \in [Call -> Outcomes] /\ outcome[calls + 1] = "pending"
    BY <1>2 DEF Begin, IInv, TypeOK, NotBegun, Call
  <2>2. outcome' = [outcome EXCEPT ![calls + 1] = e] /\ UNCHANGED applied
    BY <1>2 DEF RaiseAtOnce
  <2>3. Verdict' = [Verdict EXCEPT ![calls + 1] = "error"] /\ Verdict[calls + 1] = "open"
    BY <1>2, <2>1, <2>2 DEF Verdict
  <2> QED BY <2>1, <2>2, <2>3 DEF Contract!Next, Contract!Return
<1>3. CASE Connect \/ ConnectWithoutCredentials
  BY <1>1, <1>2, <1>3 DEF Connect, ConnectWithoutCredentials
<1>4. ASSUME NEW m, Request(m) \/ RequestUnconnected(m) PROVE [Contract!Next]_(Contract!contract)
  BY <1>1, <1>2, <1>4 DEF Request, RequestUnconnected
<1>5. CASE Disconnect \/ Send
  BY <1>5 DEF Disconnect, Send, Contract!contract, Verdict
<1>6. CASE Refused \/ ConnectTimeout
  BY <1>6, ContractEnd DEF Refused, ConnectTimeout, ConnectFails
<1>7. CASE ReadTimeout \/ ConnectionReset
  BY <1>7, ContractEnd DEF ReadTimeout, ConnectionReset, NoAnswer
<1>8. CASE Receive
  BY <1>8, ContractEnd DEF Receive
<1>9. CASE ServeCurrent
  <2>1. calls \in Call
    BY <1>9, RunningCall DEF ServeCurrent, IInv
  <2> QED BY <1>9, <2>1, ContractServe DEF ServeCurrent
<1>10. ASSUME NEW c \in Call, ServeAbandoned(c) PROVE [Contract!Next]_(Contract!contract)
  BY <1>10, ContractServe DEF ServeAbandoned
<1>11. CASE UNCHANGED vars
  BY <1>11 DEF vars, Contract!contract, Verdict
<1> QED BY <1>3, <1>4, <1>5, <1>6, <1>7, <1>8, <1>9, <1>10, <1>11 DEF Next, Attempt

\* A call of _request implements the contract of a remote call.
THEOREM TransportImplementsContract == Spec => ImplementsContract
<1>1. Spec => Contract!Spec
  BY ContractInit, ContractStep, TransportInvariant, PTL DEF Spec, Contract!Spec
<1> QED BY <1>1 DEF ImplementsContract
=============================================================================
