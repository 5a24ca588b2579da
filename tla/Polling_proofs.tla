----------------------------- MODULE Polling_proofs -----------------------------
(***************************************************************************)
(* That the wait loops of Polling never return too early, never give up    *)
(* too early and never run on too long, for any timeout, poll interval,    *)
(* request time and step of the wall clock.                                *)
(***************************************************************************)
EXTENDS Polling, TLAPS

\* The count of polls that the browser's loop makes, and the longest that a sleep and a
\* poll take.
Intervals == timeout \div PollInterval
Slowest == PollInterval + MaxPoll

(* The strengthening: what is true of the time, of the status seen and of the      *)
(* job at each place of a loop.                                                     *)

\* The browser has slept once for every poll, and is not past its last interval unless
\* it is about to give up.
BrowseTime ==
    /\ pc = "attempt" => attempts = 0 /\ elapsed = 0
    /\ pc = "sleep"  => /\ attempts < Intervals
                        /\ attempts * PollInterval <= elapsed
                        /\ elapsed <= attempts * Slowest
    /\ pc = "poll"   => /\ attempts < Intervals
                        /\ attempts * PollInterval + PollInterval <= elapsed
                        /\ elapsed <= attempts * Slowest + PollInterval
    /\ pc = "decide" => /\ attempts <= Intervals
                        /\ attempts * PollInterval <= elapsed
                        /\ elapsed <= attempts * Slowest
    /\ pc = "done"   => elapsed <= Intervals * Slowest
    /\ result = "timeout" => Intervals * PollInterval <= elapsed

\* The loops with a deadline sleep only before it, as far as their clock can tell.
DeadlineTime ==
    /\ pc # "attempt"
    /\ pc = "sleep" => elapsed <= timeout + MaxSkew
    /\ pc = "poll" => elapsed <= timeout + MaxSkew + PollInterval
    /\ pc \in {"decide", "done"} => elapsed <= timeout + MaxSkew + PollInterval + MaxPoll
    /\ result = "timeout" => elapsed + Cheated >= timeout

TimeInv == /\ loop = "browse" => BrowseTime
           /\ loop # "browse" /\ ~Unlimited => DeadlineTime
           /\ Unlimited => result # "timeout" /\ pc # "attempt"

\* What the last poll saw became of some run of the job, whatever the job does now.
SeenInv == /\ begun => job # "queued"
           /\ job = "gone" => loop = "task"
           /\ job \in {"complete", "gone"} => "complete" \in ends
           /\ job = "error" => "error" \in ends
           /\ pc = "decide" /\ Told /\ Complete => "complete" \in ends
           /\ pc = "decide" /\ seen = "error" => "error" \in ends
           /\ result = "returned" /\ Told => \/ "complete" \in ends
                                             \/ "error" \in ends /\ ~ErrorRaises

\* A loop that saw the job running, has not looked, or gave up on an answer.
Unaware == \/ pc = "attempt"
           \/ pc = "decide" /\ seen = "running"
           \/ result = "timeout" /\ seen # "nothing"

\* A job that is not finished has no time at which it finished; and a loop that does not
\* know of its end is not ahead of the moment at which it finished.
FinishInv == /\ job \in {"queued", "running"} => finishedAt = Never
             /\ Unaware /\ finishedAt # Never => finishedAt >= elapsed

IInv == TypeOK /\ TimeInv /\ SeenInv /\ FinishInv

-----------------------------------------------------------------------------
(* Arithmetic.                                                             *)

\* Whole intervals and the time left over make up a timeout.
LEMMA Division ==
    ASSUME NEW t \in Nat, NEW p \in Nat \ {0}
    PROVE  /\ t \div p \in Nat
           /\ t % p \in 0 .. p - 1
           /\ p * (t \div p) + (t % p) = t
  OBVIOUS

\* A time of all the whole intervals falls short of the timeout by what is left over.
LEMMA RoundedDown ==
    ASSUME NEW t \in Nat, NEW p \in Nat \ {0}, NEW e \in Nat, (t \div p) * p <= e
    PROVE  /\ e >= t - (t % p)
           /\ e + p > t
  <1>1. /\ t % p \in 0 .. p - 1
        /\ p * (t \div p) + (t % p) = t
        /\ t \div p \in Nat
    BY Division
  <1>2. p * (t \div p) = (t \div p) * p
    BY <1>1
  <1>3. \A x, r \in Int : x + r = t /\ x <= e /\ r < p => e >= t - r /\ e + p > t
    OBVIOUS
  <1> QED BY <1>1, <1>2, <1>3

\* One more round fits as long as the rounds are not used up.
LEMMA OneMore ==
    ASSUME NEW a \in Nat, NEW n \in Nat, NEW c \in Nat, a < n
    PROVE  a * c + c <= n * c
  <1>1. (a + 1) * c = a * c + c
    OBVIOUS
  <1>2. (a + 1) * c <= n * c
    OBVIOUS
  <1> QED BY <1>1, <1>2

\* Rounds made take no longer than all the rounds.
LEMMA NoMore ==
    ASSUME NEW a \in Nat, NEW n \in Nat, NEW c \in Nat, a <= n
    PROVE  a * c <= n * c
  OBVIOUS

\* Products of naturals are naturals, and a round more adds its length.
LEMMA Product ==
    ASSUME NEW a \in Nat, NEW c \in Nat
    PROVE  a * c \in Nat /\ (a + 1) * c = a * c + c
  OBVIOUS

\* The bounds on time are natural numbers.
LEMMA Bounds ==
    ASSUME TypeOK
    PROVE  /\ timeout \in Nat /\ PollInterval \in Nat \ {0} /\ MaxPoll \in Nat
           /\ MaxSkew \in Nat /\ Intervals \in Nat /\ Slowest \in Nat /\ Horizon \in Nat
           /\ loop = "browse" => Horizon = Intervals * Slowest + 1
           /\ loop # "browse" => Horizon = timeout + PollInterval + MaxPoll + MaxSkew + 2
           /\ elapsed \in 0 .. Horizon /\ elapsed \in Nat /\ attempts \in Nat
           /\ skew \in -MaxSkew .. MaxSkew /\ skew \in Int
  <1>1. /\ timeout \in Nat /\ PollInterval \in Nat \ {0} /\ MaxPoll \in Nat
        /\ MaxSkew \in Nat
    BY TimeAssumption DEF TypeOK
  <1>2. Intervals \in Nat /\ Slowest \in Nat
    BY <1>1, Division DEF Intervals, Slowest
  <1>3. /\ loop = "browse" => Horizon = Intervals * Slowest + 1
        /\ loop # "browse" => Horizon = timeout + PollInterval + MaxPoll + MaxSkew + 2
    BY DEF Horizon, Intervals, Slowest
  <1>4. Intervals * Slowest \in Nat
    BY <1>2, Product
  <1>5. Horizon \in Nat
    BY <1>1, <1>3, <1>4
  <1>6. elapsed \in 0 .. Horizon /\ attempts \in Nat /\ skew \in -MaxSkew .. MaxSkew
    BY DEF TypeOK
  <1> QED BY <1>1, <1>2, <1>3, <1>5, <1>6

-----------------------------------------------------------------------------
(* Types.                                                                  *)

\* A poll returns one of the statuses.
LEMMA StatusType == TypeOK => Status \in Statuses
  BY DEF TypeOK, Jobs, Status, Statuses

\* The call, and so the horizon, is the same after every step.
LEMMA SameCall ==
    [Next]_vars => /\ UNCHANGED call
                   /\ Horizon' = Horizon /\ Intervals' = Intervals
                   /\ Unlimited' = Unlimited /\ Cheated' = Cheated
                   /\ ErrorRaises' = ErrorRaises
  <1>1. [Next]_vars => UNCHANGED call
    BY DEF Next, vars, work, Wait, Poll, PollEmpty, Learn, PollFails, Decide, Attempt, Sleep, Start, Finish,
           Restart, Vanish, JobStep, StepClock
  <1>2. UNCHANGED call => /\ Horizon' = Horizon /\ Intervals' = Intervals
                          /\ Unlimited' = Unlimited /\ Cheated' = Cheated
                          /\ ErrorRaises' = ErrorRaises
    BY DEF call, Horizon, Intervals, Unlimited, Cheated, ErrorRaises
  <1> QED BY <1>1, <1>2

\* Advancing the clock keeps it below the horizon.
LEMMA AdvanceType ==
    ASSUME TypeOK, Horizon' = Horizon, NEW d \in Nat, Advance(d)
    PROVE  elapsed' \in 0 .. Horizon'
  <1>1. Horizon \in Nat /\ elapsed \in Nat
    BY Bounds
  <1> QED BY <1>1 DEF Advance

\* Every step preserves the types.
LEMMA NextType == TypeOK /\ [Next]_vars => TypeOK'
  <1> SUFFICES ASSUME TypeOK, [Next]_vars PROVE TypeOK'
    OBVIOUS
  <1>1. Horizon' = Horizon
    BY SameCall
  <1>2. UNCHANGED elapsed => elapsed' \in 0 .. Horizon'
    BY <1>1 DEF TypeOK
  <1>3. UNCHANGED call => loop' \in Loops /\ timeout' \in Timeouts /\ raiseOnError' \in BOOLEAN
    BY DEF TypeOK, call
  <1>4. elapsed \in Nat /\ PollInterval \in Nat /\ MaxPoll \in Nat
    BY Bounds
  <1>5. CASE Poll \/ PollEmpty
    <2>1. PICK d \in 0 .. MaxPoll : Advance(d)
      BY <1>5 DEF Poll, PollEmpty, Learn
    <2>2. elapsed' \in 0 .. Horizon'
      BY <1>1, <1>4, <2>1, AdvanceType
    <2>3. seen' \in Statuses
      BY <1>5, StatusType DEF Poll, PollEmpty, Learn, Statuses
    <2>4. /\ pc = "poll" /\ pc' = "decide" /\ attempts' \in {attempts, attempts + 1}
          /\ UNCHANGED <<call, result, skew, work>>
      BY <1>5 DEF Poll, PollEmpty, Learn
    <2> QED BY <1>3, <2>2, <2>3, <2>4 DEF work, TypeOK
  <1>6. CASE Sleep
    <2>1. elapsed' \in 0 .. Horizon'
      BY <1>1, <1>4, <1>6, AdvanceType DEF Sleep
    <2> QED BY <1>3, <1>6, <2>1 DEF Sleep, work, TypeOK
  <1>7. CASE Decide
    BY <1>2, <1>3, <1>7 DEF Decide, End, work, TypeOK, Results
  <1>8. CASE Attempt
    BY <1>2, <1>3, <1>8 DEF Attempt, End, work, TypeOK, Results
  <1>9. CASE PollFails
    BY <1>2, <1>3, <1>9 DEF PollFails, End, work, TypeOK, Results
  <1>10. CASE Start \/ Finish \/ Restart \/ Vanish
    <2>1. PICK to \in Jobs : \E from \in Jobs : JobStep(from, to)
      BY <1>10 DEF Start, Finish, Restart, Vanish, Jobs
    <2>2. finishedAt' \in {Never} \cup Nat
      BY <1>4, <2>1 DEF JobStep, TypeOK
    <2>3. ends' \subseteq {"complete", "error"}
      BY <2>1 DEF JobStep, TypeOK
    <2> QED BY <1>2, <1>3, <2>1, <2>2, <2>3 DEF JobStep, TypeOK
  <1>11. CASE StepClock
    BY <1>2, <1>3, <1>11 DEF StepClock, work, TypeOK
  <1>12. CASE UNCHANGED vars
    BY <1>2, <1>3, <1>12 DEF vars, work, TypeOK
  <1> QED BY <1>5, <1>6, <1>7, <1>8, <1>9, <1>10, <1>11, <1>12 DEF Next, Wait

\* Waits begin well typed.
LEMMA InitType == Init => TypeOK
  <1> SUFFICES ASSUME Init PROVE TypeOK
    OBVIOUS
  <1>1. timeout \in Nat /\ PollInterval \in Nat \ {0} /\ MaxPoll \in Nat /\ MaxSkew \in Nat
    BY TimeAssumption DEF Init
  <1>2. Intervals \in Nat /\ Slowest \in Nat
    BY <1>1, Division DEF Intervals, Slowest
  <1>3. Intervals * Slowest \in Nat
    BY <1>2, Product
  <1>4. Horizon \in Nat
    BY <1>1, <1>3 DEF Horizon, Intervals, Slowest
  <1> QED BY <1>1, <1>4 DEF Init, TypeOK, Statuses, Results, Jobs

\* TypeOK is an invariant of the wait loops.
THEOREM PollingTypes == Spec => []TypeOK
  BY InitType, NextType, PTL DEF Spec

-----------------------------------------------------------------------------
(* Time.                                                                   *)

\* Short of the horizon the clock advances by exactly as long as a step takes.
LEMMA AdvanceExact ==
    ASSUME TypeOK, NEW d \in Nat, Advance(d), elapsed + d < Horizon
    PROVE  elapsed' = elapsed + d
  BY DEF Advance

\* A browser's poll ends before the horizon, and accounts for its own round.
LEMMA BrowsePoll ==
    ASSUME TypeOK, TimeInv, loop = "browse", Poll \/ PollEmpty
    PROVE  /\ attempts' = attempts + 1 /\ attempts' <= Intervals
           /\ attempts' * PollInterval <= elapsed'
           /\ elapsed' <= attempts' * Slowest
  <1>1. /\ attempts < Intervals
        /\ attempts * PollInterval + PollInterval <= elapsed
        /\ elapsed <= attempts * Slowest + PollInterval
        /\ attempts' = attempts + 1
    BY DEF TimeInv, BrowseTime, Poll, PollEmpty, Learn
  <1>2. PICK d \in 0 .. MaxPoll : Advance(d)
    BY DEF Poll, PollEmpty, Learn
  <1>3. /\ attempts * Slowest + Slowest <= Intervals * Slowest
        /\ attempts' * Slowest = attempts * Slowest + Slowest
        /\ attempts' * PollInterval = attempts * PollInterval + PollInterval
        /\ attempts * Slowest \in Nat /\ attempts * PollInterval \in Nat
        /\ Intervals * Slowest \in Nat
    BY <1>1, Bounds, OneMore, Product
  <1>4. elapsed + d <= attempts' * Slowest /\ elapsed + d < Horizon
    BY <1>1, <1>2, <1>3, Bounds DEF Slowest
  <1>5. elapsed' = elapsed + d
    BY <1>2, <1>4, Bounds, AdvanceExact
  <1> QED BY <1>1, <1>2, <1>3, <1>4, <1>5, Bounds

\* A browser's sleep opens the round of the poll that follows it.
LEMMA BrowseSleep ==
    ASSUME TypeOK, TimeInv, loop = "browse", Sleep
    PROVE  /\ attempts < Intervals
           /\ attempts * PollInterval + PollInterval <= elapsed'
           /\ elapsed' <= attempts * Slowest + PollInterval
  <1>1. /\ attempts < Intervals
        /\ attempts * PollInterval <= elapsed
        /\ elapsed <= attempts * Slowest
    BY DEF TimeInv, BrowseTime, Sleep
  <1>2. /\ attempts * Slowest + Slowest <= Intervals * Slowest
        /\ attempts * Slowest \in Nat /\ attempts * PollInterval \in Nat
        /\ Intervals * Slowest \in Nat
    BY <1>1, Bounds, OneMore, Product
  <1>3. elapsed + PollInterval < Horizon
    BY <1>1, <1>2, Bounds DEF Slowest
  <1>4. elapsed' = elapsed + PollInterval
    BY <1>3, Bounds, AdvanceExact DEF Sleep
  <1> QED BY <1>1, <1>2, <1>4, Bounds

\* Wherever a browser's wait is, its rounds bound the time it took.
LEMMA BrowseBounded ==
    ASSUME TypeOK, TimeInv, loop = "browse"
    PROVE  elapsed <= Intervals * Slowest
  <1>1. CASE pc = "attempt"
    BY <1>1, Bounds, Product DEF TimeInv, BrowseTime
  <1>2. CASE pc \in {"sleep", "decide"}
    <2>1. attempts <= Intervals /\ elapsed <= attempts * Slowest
      BY <1>2, Bounds DEF TimeInv, BrowseTime
    <2>2. /\ attempts * Slowest <= Intervals * Slowest
          /\ attempts * Slowest \in Nat /\ Intervals * Slowest \in Nat
      BY <2>1, Bounds, NoMore, Product
    <2> QED BY <2>1, <2>2, Bounds
  <1>3. CASE pc = "poll"
    <2>1. attempts < Intervals /\ elapsed <= attempts * Slowest + PollInterval
      BY <1>3 DEF TimeInv, BrowseTime
    <2>2. /\ attempts * Slowest + Slowest <= Intervals * Slowest
          /\ attempts * Slowest \in Nat /\ Intervals * Slowest \in Nat
      BY <2>1, Bounds, OneMore, Product
    <2> QED BY <2>1, <2>2, Bounds DEF Slowest
  <1>4. CASE pc = "done"
    BY <1>4 DEF TimeInv, BrowseTime
  <1> QED BY <1>1, <1>2, <1>3, <1>4 DEF TypeOK

\* When the polls are used up, so are the intervals of the timeout.
LEMMA BrowseSpent ==
    ASSUME TypeOK, TimeInv, loop = "browse", TimedOut, pc \in {"attempt", "decide"}
    PROVE  Intervals * PollInterval <= elapsed
  <1>1. attempts >= Intervals
    BY DEF TimedOut, Intervals
  <1>2. CASE pc = "decide"
    <2>1. attempts = Intervals /\ attempts * PollInterval <= elapsed
      BY <1>1, <1>2, Bounds DEF TimeInv, BrowseTime
    <2> QED BY <2>1
  <1>3. CASE pc = "attempt"
    <2>1. Intervals = 0 /\ elapsed = 0
      BY <1>1, <1>3, Bounds DEF TimeInv, BrowseTime
    <2>2. Intervals * PollInterval = 0
      BY <2>1, Bounds
    <2> QED BY <2>1, <2>2
  <1> QED BY <1>2, <1>3

\* Every step of a browser's wait keeps its account of time.
LEMMA NextBrowse ==
    ASSUME TypeOK, TypeOK', TimeInv, [Next]_vars, loop = "browse"
    PROVE  BrowseTime'
  <1>1. Intervals' = Intervals
    BY SameCall
  <1>2. BrowseTime
    BY DEF TimeInv
  <1>3. pc # "done" => result = "none"
    BY DEF TypeOK
  <1>4. CASE Poll \/ PollEmpty
    <2>1. pc' = "decide" /\ result' = "none"
      BY <1>3, <1>4 DEF Poll, PollEmpty, Learn
    <2> QED BY <1>1, <1>4, <2>1, BrowsePoll DEF BrowseTime
  <1>5. CASE Sleep
    <2>1. pc' = "poll" /\ result' = "none" /\ attempts' = attempts
      BY <1>3, <1>5 DEF Sleep
    <2> QED BY <1>1, <1>5, <2>1, BrowseSleep DEF BrowseTime
  <1>6. CASE Decide
    <2>1. UNCHANGED <<elapsed, attempts>> /\ pc = "decide" /\ pc' \in {"sleep", "done"}
      BY <1>6 DEF Decide, End
    <2>2. CASE pc' = "sleep"
      <3>1. ~TimedOut /\ result' = "none"
        BY <1>3, <1>6, <2>2 DEF Decide, End
      <3>2. attempts < Intervals
        BY <3>1, Bounds DEF TimedOut, Intervals
      <3> QED BY <1>1, <1>2, <2>1, <2>2, <3>1, <3>2 DEF BrowseTime
    <2>3. CASE pc' = "done"
      <3>1. result' = "timeout" => TimedOut
        BY <1>6, <2>3 DEF Decide, End
      <3>2. result' = "timeout" => Intervals * PollInterval <= elapsed
        BY <2>1, <3>1, BrowseSpent
      <3>3. elapsed <= Intervals * Slowest
        BY BrowseBounded
      <3> QED BY <1>1, <2>1, <2>3, <3>2, <3>3 DEF BrowseTime
    <2> QED BY <2>1, <2>2, <2>3
  <1>7. CASE Attempt
    <2>1. UNCHANGED <<elapsed, attempts>> /\ pc = "attempt" /\ pc' \in {"sleep", "done"}
      BY <1>7 DEF Attempt, End
    <2>2. CASE pc' = "sleep"
      <3>1. ~TimedOut /\ result' = "none"
        BY <1>3, <1>7, <2>2 DEF Attempt, End
      <3>2. attempts < Intervals
        BY <3>1, Bounds DEF TimedOut, Intervals
      <3>3. attempts = 0 /\ elapsed = 0
        BY <1>2, <2>1 DEF BrowseTime
      <3>4. attempts * PollInterval = 0 /\ attempts * Slowest = 0
        BY <3>3, Bounds
      <3> QED BY <1>1, <2>1, <2>2, <3>1, <3>2, <3>3, <3>4 DEF BrowseTime
    <2>3. CASE pc' = "done"
      <3>1. result' = "timeout" => TimedOut
        BY <1>7, <2>3 DEF Attempt, End
      <3>2. result' = "timeout" => Intervals * PollInterval <= elapsed
        BY <2>1, <3>1, BrowseSpent
      <3>3. elapsed <= Intervals * Slowest
        BY BrowseBounded
      <3> QED BY <1>1, <2>1, <2>3, <3>2, <3>3 DEF BrowseTime
    <2> QED BY <2>1, <2>2, <2>3
  <1>8. CASE PollFails
    <2>1. pc' = "done" /\ result' = "failed" /\ UNCHANGED elapsed
      BY <1>8 DEF PollFails, End
    <2>2. elapsed <= Intervals * Slowest
      BY BrowseBounded
    <2> QED BY <1>1, <2>1, <2>2 DEF BrowseTime
  <1>9. CASE Start \/ Finish \/ Restart \/ Vanish \/ StepClock \/ UNCHANGED vars
    <2>1. UNCHANGED <<pc, attempts, elapsed, result>>
      BY <1>9 DEF Start, Finish, Restart, Vanish, JobStep, StepClock, vars, work
    <2> QED BY <1>1, <1>2, <2>1 DEF BrowseTime
  <1> QED BY <1>4, <1>5, <1>6, <1>7, <1>8, <1>9 DEF Next, Wait

\* Every step of a loop with a deadline keeps to it.
LEMMA NextDeadline ==
    ASSUME TypeOK, TypeOK', TimeInv, [Next]_vars, loop # "browse", ~Unlimited
    PROVE  DeadlineTime'
  <1>1. UNCHANGED <<loop, timeout>> /\ Cheated' = Cheated
    BY SameCall DEF call
  <1>2. DeadlineTime
    BY DEF TimeInv
  <1>3. pc # "done" => result = "none"
    BY DEF TypeOK
  <1>4. Horizon = timeout + PollInterval + MaxPoll + MaxSkew + 2
    BY Bounds
  <1>5. CASE Poll \/ PollEmpty
    <2>1. pc' = "decide" /\ result' = "none" /\ elapsed <= timeout + MaxSkew + PollInterval
      BY <1>2, <1>3, <1>5 DEF Poll, PollEmpty, Learn, DeadlineTime
    <2>2. PICK d \in 0 .. MaxPoll : Advance(d)
      BY <1>5 DEF Poll, PollEmpty, Learn
    <2>3. elapsed' = elapsed + d
      BY <1>4, <2>1, <2>2, Bounds, AdvanceExact
    <2>4. elapsed' <= timeout + MaxSkew + PollInterval + MaxPoll
      BY <2>1, <2>2, <2>3, Bounds
    <2> QED BY <1>1, <2>1, <2>4 DEF DeadlineTime
  <1>6. CASE Sleep
    <2>1. pc' = "poll" /\ result' = "none" /\ elapsed <= timeout + MaxSkew
      BY <1>2, <1>3, <1>6 DEF Sleep, DeadlineTime
    <2>2. elapsed' = elapsed + PollInterval
      BY <1>4, <1>6, <2>1, Bounds, AdvanceExact DEF Sleep
    <2>3. elapsed' <= timeout + MaxSkew + PollInterval
      BY <2>1, <2>2, Bounds
    <2> QED BY <1>1, <2>1, <2>3 DEF DeadlineTime
  <1>7. CASE Decide
    <2>1. /\ elapsed' = elapsed /\ pc' \in {"sleep", "done"}
          /\ elapsed <= timeout + MaxSkew + PollInterval + MaxPoll
      BY <1>2, <1>7 DEF Decide, End, DeadlineTime
    <2>2. CASE pc' = "sleep"
      <3>1. ~TimedOut /\ result' = "none"
        BY <1>3, <1>7, <2>2 DEF Decide, End
      <3>2. elapsed <= timeout + MaxSkew
        BY <3>1, Bounds, LoopAssumption DEF TimedOut, Clock, Unlimited, TypeOK
      <3> QED BY <1>1, <2>1, <2>2, <3>1, <3>2 DEF DeadlineTime
    <2>3. CASE pc' = "done"
      <3>1. result' = "timeout" => TimedOut
        BY <1>7, <2>3 DEF Decide, End
      <3>2. TimedOut => elapsed + Cheated >= timeout
        BY Bounds, LoopAssumption DEF TimedOut, Clock, Cheated, Unlimited, TypeOK
      <3> QED BY <1>1, <2>1, <2>3, <3>1, <3>2 DEF DeadlineTime
    <2> QED BY <2>1, <2>2, <2>3
  <1>8. CASE Attempt
    BY <1>2, <1>8 DEF Attempt, DeadlineTime
  <1>9. CASE PollFails
    <2>1. /\ pc' = "done" /\ result' = "failed" /\ elapsed' = elapsed
          /\ elapsed <= timeout + MaxSkew + PollInterval
      BY <1>2, <1>9 DEF PollFails, End, DeadlineTime
    <2>2. elapsed <= timeout + MaxSkew + PollInterval + MaxPoll
      BY <2>1, Bounds
    <2> QED BY <1>1, <2>1, <2>2 DEF DeadlineTime
  <1>10. CASE Start \/ Finish \/ Restart \/ Vanish \/ StepClock \/ UNCHANGED vars
    <2>1. UNCHANGED <<pc, elapsed, result>>
      BY <1>10 DEF Start, Finish, Restart, Vanish, JobStep, StepClock, vars, work
    <2> QED BY <1>1, <1>2, <2>1 DEF DeadlineTime
  <1> QED BY <1>5, <1>6, <1>7, <1>8, <1>9, <1>10 DEF Next, Wait

\* A wait for a task without a timeout never times out.
LEMMA NextUnlimited ==
    ASSUME TypeOK, TimeInv, [Next]_vars, Unlimited
    PROVE  result' # "timeout" /\ pc' # "attempt"
  <1>1. result # "timeout" /\ pc # "attempt"
    BY DEF TimeInv
  <1>2. ~TimedOut
    BY DEF Unlimited, TimedOut
  <1>3. CASE Decide
    BY <1>1, <1>2, <1>3 DEF Decide, End
  <1>4. CASE Poll \/ PollEmpty \/ Sleep \/ PollFails
    BY <1>1, <1>4 DEF Poll, PollEmpty, Learn, Sleep, PollFails, End
  <1>5. CASE Attempt
    BY <1>1, <1>5 DEF Attempt
  <1>6. CASE Start \/ Finish \/ Restart \/ Vanish \/ StepClock \/ UNCHANGED vars
    BY <1>1, <1>6 DEF Start, Finish, Restart, Vanish, JobStep, StepClock, vars, work
  <1> QED BY <1>3, <1>4, <1>5, <1>6 DEF Next, Wait

\* TimeInv is inductive, given the types.
LEMMA NextTime == TypeOK /\ TypeOK' /\ TimeInv /\ [Next]_vars => TimeInv'
  <1> SUFFICES ASSUME TypeOK, TypeOK', TimeInv, [Next]_vars PROVE TimeInv'
    OBVIOUS
  <1>1. loop' = loop /\ Unlimited' = Unlimited
    BY SameCall DEF call
  <1>2. loop = "browse" => BrowseTime'
    BY NextBrowse
  <1>3. loop # "browse" /\ ~Unlimited => DeadlineTime'
    BY NextDeadline
  <1>4. Unlimited => result' # "timeout" /\ pc' # "attempt"
    BY NextUnlimited
  <1> QED BY <1>1, <1>2, <1>3, <1>4 DEF TimeInv

\* Waits begin with no time spent.
LEMMA InitTime == Init => TimeInv
  <1> SUFFICES ASSUME Init PROVE TimeInv
    OBVIOUS
  <1>1. TypeOK
    BY InitType
  <1>2. loop = "browse" => pc = "attempt" /\ attempts = 0 /\ elapsed = 0 /\ result = "none"
    BY DEF Init
  <1>3. loop # "browse" => pc = "poll" /\ elapsed = 0 /\ result = "none"
    BY DEF Init
  <1>4. loop = "browse" => BrowseTime
    BY <1>2 DEF BrowseTime
  <1>5. loop # "browse" => DeadlineTime
    BY <1>1, <1>3, Bounds DEF DeadlineTime
  <1> QED BY <1>3, <1>4, <1>5 DEF TimeInv, Unlimited

-----------------------------------------------------------------------------
(* What a wait knows of its job.                                           *)

\* What is known of the ends of a job's runs stays known, one that was running is never
\* queued again, and every end is noted.
LEMMA EndsAreKept ==
    ASSUME [Next]_vars
    PROVE  /\ UNCHANGED begun
           /\ ends \subseteq ends'
           /\ job # "queued" => job' # "queued"
           /\ job' = "gone" => job = "gone" \/ loop = "task"
           /\ job' \in {"complete", "error"} => job' = job \/ job' \in ends'
           /\ job' = "gone" => job \in {"complete", "gone"}
  <1>1. CASE Start \/ Finish \/ Restart \/ Vanish
    BY <1>1 DEF Start, Finish, Restart, Vanish, JobStep
  <1>2. CASE Poll \/ PollEmpty \/ Decide \/ Attempt \/ Sleep \/ PollFails \/ StepClock
             \/ UNCHANGED vars
    <2>1. UNCHANGED work
      BY <1>2 DEF Poll, PollEmpty, Learn, Decide, Attempt, Sleep, PollFails, StepClock, vars
    <2> QED BY <2>1 DEF work
  <1> QED BY <1>1, <1>2 DEF Next, Wait

\* What a poll says of a job that was running when the wait began.
LEMMA StatusTells ==
    ASSUME TypeOK, SeenInv
    PROVE  /\ Told /\ Status \in {"idle", "complete"} => "complete" \in ends
           /\ Status = "error" => "error" \in ends
           /\ Status = "running" => job \in {"queued", "running"}
  BY DEF TypeOK, SeenInv, Told, Status, Jobs

\* SeenInv is inductive, given the types.
LEMMA NextSeen == TypeOK /\ SeenInv /\ [Next]_vars => SeenInv'
  <1> SUFFICES ASSUME TypeOK, SeenInv, [Next]_vars PROVE SeenInv'
    OBVIOUS
  <1>1. /\ loop' = loop /\ ErrorRaises' = ErrorRaises /\ begun' = begun /\ Told' = Told
        /\ begun' => job' # "queued"
        /\ job' = "gone" => loop' = "task"
        /\ job' \in {"complete", "gone"} => "complete" \in ends'
        /\ job' = "error" => "error" \in ends'
        /\ ends \subseteq ends'
    <2>1. loop' = loop /\ ErrorRaises' = ErrorRaises /\ begun' = begun /\ Told' = Told
      BY SameCall, EndsAreKept DEF call, Told
    <2>2. begun' => job' # "queued"
      BY EndsAreKept DEF SeenInv
    <2>3. job' = "gone" => loop' = "task"
      BY <2>1, EndsAreKept DEF SeenInv
    <2>4. ends \subseteq ends'
      BY EndsAreKept
    <2>5. job' \in {"complete", "gone"} => "complete" \in ends'
      BY <2>4, EndsAreKept DEF SeenInv
    <2>6. job' = "error" => "error" \in ends'
      BY <2>4, EndsAreKept DEF SeenInv
    <2> QED BY <2>1, <2>2, <2>3, <2>4, <2>5, <2>6
  <1>2. pc # "done" => result = "none"
    BY DEF TypeOK
  <1>3. CASE Poll \/ PollEmpty
    <2>1. pc' = "decide" /\ result' = "none"
      BY <1>2, <1>3 DEF Poll, PollEmpty, Learn
    <2>2. seen' = Status \/ seen' \in {"nothing", "missing"}
      BY <1>3 DEF Poll, PollEmpty, Learn
    <2> QED BY <1>1, <2>1, <2>2, StatusTells DEF SeenInv, Complete
  <1>4. CASE Decide
    <2>1. pc = "decide" /\ pc' # "decide"
      BY <1>4 DEF Decide, End
    <2>2. result' = "returned" => Complete \/ (seen = "error" /\ ~ErrorRaises)
      BY <1>2, <1>4 DEF Decide, End
    <2> QED BY <1>1, <2>1, <2>2 DEF SeenInv
  <1>5. CASE Attempt \/ Sleep \/ PollFails
    <2>1. pc' # "decide" /\ result' # "returned"
      BY <1>2, <1>5 DEF Attempt, Sleep, PollFails, End
    <2> QED BY <1>1, <2>1 DEF SeenInv
  <1>6. CASE Start \/ Finish \/ Restart \/ Vanish \/ StepClock \/ UNCHANGED vars
    <2>1. UNCHANGED <<pc, seen, result>> /\ Complete' = Complete
      BY <1>6 DEF Start, Finish, Restart, Vanish, JobStep, StepClock, vars, Complete
    <2> QED BY <1>1, <2>1 DEF SeenInv
  <1> QED BY <1>3, <1>4, <1>5, <1>6 DEF Next, Wait

\* FinishInv is inductive, given the types and SeenInv.
LEMMA NextFinish == TypeOK /\ SeenInv /\ FinishInv /\ [Next]_vars => FinishInv'
  <1> SUFFICES ASSUME TypeOK, SeenInv, FinishInv, [Next]_vars PROVE FinishInv'
    OBVIOUS
  <1>1. pc # "done" => result = "none"
    BY DEF TypeOK
  <1>2. elapsed \in Nat
    BY Bounds
  <1>3. CASE Poll \/ PollEmpty
    <2>1. UNCHANGED <<job, finishedAt>> /\ pc' = "decide" /\ result' = "none"
      BY <1>1, <1>3 DEF Poll, PollEmpty, Learn, work
    <2>2. seen' = "running" => Status = "running"
      BY <1>3 DEF Poll, PollEmpty, Learn
    <2>3. Unaware' => finishedAt' = Never
      BY <2>1, <2>2, StatusTells DEF Unaware, FinishInv
    <2> QED BY <2>1, <2>3 DEF FinishInv
  <1>4. CASE Sleep \/ PollFails
    <2>1. UNCHANGED <<job, finishedAt>> /\ ~Unaware'
      BY <1>1, <1>4 DEF Sleep, PollFails, End, Unaware, work
    <2> QED BY <2>1 DEF FinishInv
  <1>5. CASE Decide \/ Attempt
    <2>1. UNCHANGED <<job, finishedAt, elapsed>>
      BY <1>5 DEF Decide, Attempt, work
    <2>2. seen \in Statuses
      BY DEF TypeOK
    <2>3. Unaware' => Unaware
      BY <1>1, <1>5, <2>2 DEF Decide, Attempt, End, Unaware, Complete, Statuses
    <2> QED BY <2>1, <2>3 DEF FinishInv
  <1>6. CASE Start \/ Finish \/ Restart \/ Vanish
    <2>1. UNCHANGED elapsed /\ Unaware' = Unaware
      BY <1>6 DEF Start, Finish, Restart, Vanish, JobStep, Unaware
    <2>2. finishedAt' \in {finishedAt, elapsed, Never}
      BY <1>6 DEF Start, Finish, Restart, Vanish, JobStep
    <2>3. job' \in {"queued", "running"} => finishedAt' = Never
      BY <1>6 DEF Start, Finish, Restart, Vanish, JobStep
    <2> QED BY <1>2, <2>1, <2>2, <2>3 DEF FinishInv
  <1>7. CASE StepClock \/ UNCHANGED vars
    <2>1. UNCHANGED <<job, finishedAt, elapsed>> /\ Unaware' = Unaware
      BY <1>7 DEF StepClock, vars, work, Unaware
    <2> QED BY <2>1 DEF FinishInv
  <1> QED BY <1>3, <1>4, <1>5, <1>6, <1>7 DEF Next, Wait

-----------------------------------------------------------------------------
(* The inductive invariant and what follows from it.                       *)

\* The strengthening is an invariant of the wait loops.
LEMMA Invariant == Spec => []IInv
  <1>1. Init => IInv
    BY InitType, InitTime DEF IInv, Init, SeenInv, FinishInv, Complete, Told
  <1>2. IInv /\ [Next]_vars => IInv'
    BY NextType, NextTime, NextSeen, NextFinish DEF IInv
  <1> QED BY <1>1, <1>2, PTL DEF Spec

\* A wait that returns has waited for a run of the job to end: wait in tasks.py, system.py,
\* queries.py and diagnostics.py, and _poll_for_result in nas_volume_browser.py.
THEOREM PollingReturnMeansFinished == Spec => []ReturnMeansFinished
  <1>1. IInv => ReturnMeansFinished
    BY DEF IInv, SeenInv, ReturnMeansFinished
  <1> QED BY <1>1, Invariant, PTL

\* A wait that promises to raise when the job fails returns only if a run of it went well.
THEOREM PollingFailureIsRaised == Spec => []FailureIsRaised
  <1>1. IInv => FailureIsRaised
    BY DEF IInv, SeenInv, FailureIsRaised
  <1> QED BY <1>1, Invariant, PTL

\* No wait gives up before its timeout, but for what a step of the wall clock can cheat
\* it of and what is left of the timeout after whole intervals.
THEOREM PollingTimeoutIsHonest == Spec => []TimeoutIsHonest
  <1>1. ASSUME IInv, result = "timeout"
        PROVE  elapsed >= timeout - Cheated - RoundedOff
    <2>1. TypeOK /\ TimeInv
      BY <1>1 DEF IInv
    <2>2. CASE loop = "browse"
      <3>1. Intervals * PollInterval <= elapsed
        BY <1>1, <2>1, <2>2 DEF TimeInv, BrowseTime
      <3>2. elapsed >= timeout - (timeout % PollInterval)
        BY <2>1, <3>1, Bounds, RoundedDown DEF Intervals
      <3>3. Cheated = 0 /\ RoundedOff = timeout % PollInterval
        BY <2>2 DEF Cheated, RoundedOff
      <3>4. timeout % PollInterval \in Int
        BY <2>1, Bounds, Division
      <3> QED BY <2>1, <3>2, <3>3, <3>4, Bounds
    <2>3. CASE loop # "browse"
      <3>1. elapsed + Cheated >= timeout
        BY <1>1, <2>1, <2>3 DEF TimeInv, DeadlineTime
      <3>2. Cheated \in Nat /\ RoundedOff = 0
        BY <2>1, <2>3, Bounds DEF Cheated, RoundedOff
      <3> QED BY <2>1, <3>1, <3>2, Bounds
    <2> QED BY <2>2, <2>3
  <1>2. IInv => TimeoutIsHonest
    BY <1>1 DEF TimeoutIsHonest
  <1> QED BY <1>2, Invariant, PTL

\* A wait outlasts its timeout by at most one sleep, one poll and a step of the clock it
\* reads; the browser's takes at most as many slow rounds as its timeout has intervals.
THEOREM PollingWaitIsBounded == Spec => []WaitIsBounded
  <1>1. ASSUME IInv, ~Unlimited
        PROVE  elapsed < Horizon
    <2>1. TypeOK /\ TimeInv
      BY <1>1 DEF IInv
    <2>2. CASE loop = "browse"
      <3>1. elapsed <= Intervals * Slowest /\ Intervals * Slowest \in Nat
        BY <2>1, <2>2, BrowseBounded, Bounds, Product
      <3> QED BY <2>1, <2>2, <3>1, Bounds
    <2>3. CASE loop # "browse"
      <3>1. elapsed <= timeout + MaxSkew + PollInterval + MaxPoll
        BY <1>1, <2>1, <2>3, Bounds DEF TimeInv, DeadlineTime, TypeOK
      <3> QED BY <2>1, <2>3, <3>1, Bounds
    <2> QED BY <2>2, <2>3
  <1>2. IInv => WaitIsBounded
    BY <1>1 DEF WaitIsBounded
  <1> QED BY <1>2, Invariant, PTL

\* A job that finished early enough for the last poll to see it, and was not started
\* again, is reported as timed out only by a browser whose last poll got an empty answer.
THEOREM PollingPromptJob == Spec => []PromptJobNeverTimesOut
  <1>1. ASSUME IInv, result = "timeout", finishedAt # Never, seen # "nothing"
        PROVE  ~Seen(finishedAt)
    <2>1. TypeOK /\ TimeInv /\ finishedAt >= elapsed /\ finishedAt \in Nat
      BY <1>1 DEF IInv, FinishInv, Unaware, TypeOK
    <2>2. CASE loop = "browse"
      <3>1. Intervals * PollInterval <= elapsed
        BY <1>1, <2>1, <2>2 DEF TimeInv, BrowseTime
      <3>2. elapsed + PollInterval > timeout
        BY <2>1, <3>1, Bounds, RoundedDown DEF Intervals
      <3> QED BY <2>1, <2>2, <3>2, Bounds DEF Seen
    <2>3. CASE loop # "browse"
      <3>1. elapsed + Cheated >= timeout
        BY <1>1, <2>1, <2>3 DEF TimeInv, DeadlineTime
      <3>2. Cheated \in Nat /\ Cheated <= MaxSkew
        BY <2>1, Bounds DEF Cheated
      <3> QED BY <2>1, <2>3, <3>1, <3>2, Bounds DEF Seen
    <2> QED BY <2>2, <2>3
  <1>2. IInv => PromptJobNeverTimesOut
    BY <1>1 DEF PromptJobNeverTimesOut
  <1> QED BY <1>2, Invariant, PTL
=============================================================================
