------------------------------- MODULE Polling -------------------------------
(***************************************************************************)
(* The wait loops of the library: they poll a job on the server until it   *)
(* is finished or time is up.                                              *)
(*   "task"   TaskManager.wait                    (resources/tasks.py)     *)
(*   "report" SystemDiagnostic.wait_for_completion (resources/system.py)   *)
(*   "query"  QueryManager.wait, VsanQueryManager.wait and                 *)
(*            SystemDiagnosticManager.wait  (queries, vsan_queries,        *)
(*            diagnostics)                                                 *)
(*   "browse" NASVolumeFileManager._poll_for_result (nas_volume_browser.py)*)
(* They differ in the clock they read, in how they compare, in whether     *)
(* they sleep first, and in what an error becomes.                         *)
(*                                                                         *)
(* Time is discrete and saturates at Horizon, beyond every deadline.       *)
(***************************************************************************)
EXTENDS Integers

CONSTANTS Loops,        \* the loops to be explored
          Timeouts,     \* timeout arguments
          PollInterval,
          MaxPoll,      \* longest time one status request takes
          MaxSkew       \* how far time.time() may be stepped while a loop runs

ASSUME LoopAssumption == Loops \subseteq {"task", "report", "query", "browse"}
ASSUME TimeAssumption == /\ Timeouts \subseteq Nat
                         /\ PollInterval \in Nat \ {0}
                         /\ MaxPoll \in Nat /\ MaxSkew \in Nat

VARIABLES
    loop, timeout, raiseOnError, \* the call: which loop, with which arguments
    pc,         \* where the loop is
    seen,       \* what the last poll returned
    attempts,   \* polls made
    result,     \* how the wait ended
    elapsed,    \* time since the wait began
    skew,       \* how much the wall clock was stepped since then
    job,        \* the job on the server
    begun,      \* whether it was running when the wait began
    ends,       \* how its runs ended since then
    finishedAt  \* when the last of them ended, unless it runs again

call == <<loop, timeout, raiseOnError>>
work == <<job, begun, ends, finishedAt>>
vars == <<call, pc, seen, attempts, result, elapsed, skew, work>>

Never == -1
Statuses == {"idle", "running", "complete", "error", "missing", "nothing"}
Results == {"none", "returned", "raised", "timeout", "not_found", "failed"}
Jobs == {"queued", "running", "complete", "error", "gone"}
Finished == job \in {"complete", "error", "gone"}

\* Time the loop at hand can never reach, by which elapsed is bounded.
Horizon == IF loop = "browse" THEN (timeout \div PollInterval) * (PollInterval + MaxPoll) + 1
                              ELSE timeout + PollInterval + MaxPoll + MaxSkew + 2
Advance(d) == elapsed' = IF elapsed + d < Horizon THEN elapsed + d ELSE Horizon

Init == /\ loop \in Loops
        /\ timeout \in Timeouts
        /\ raiseOnError \in BOOLEAN
        /\ pc = IF loop = "browse" THEN "attempt" ELSE "poll"
        /\ seen = "running"
        /\ attempts = 0
        /\ result = "none"
        /\ elapsed = 0 /\ skew = 0
        /\ job \in {"queued", "running"}
        /\ begun = (job = "running")
        /\ ends = {} /\ finishedAt = Never

-----------------------------------------------------------------------------
(* The loop.                                                               *)

\* A task is idle before it runs as well as after; the other jobs say "complete".
Status == CASE job = "queued"   -> IF loop = "task" THEN "idle" ELSE "running"
            [] job = "complete" -> IF loop = "task" THEN "idle" ELSE "complete"
            [] job = "gone"     -> "missing"
            [] OTHER            -> job

MutEnd(r) == pc' = "sleep" /\ result' = r
End(r) == pc' = "done" /\ result' = r

Learn(s) == /\ pc = "poll"
            /\ seen' = s
            /\ attempts' = IF loop = "browse" THEN attempts + 1 ELSE attempts
            /\ pc' = "decide"
            /\ \E d \in 0 .. MaxPoll : Advance(d)
            /\ UNCHANGED <<call, result, skew, work>>
Poll == Learn(Status)

\* An empty answer: the browser goes on without a status, get() takes it for a missing row.
PollEmpty == Learn(IF loop = "browse" THEN "nothing" ELSE "missing")

\* The request itself raises; no loop retries it.
PollFails == /\ pc = "poll"
             /\ End("failed")
             /\ UNCHANGED <<call, seen, attempts, elapsed, skew, work>>

\* time.time() for the first two loops, time.monotonic() or a count of polls else.
Clock == IF loop \in {"task", "report"} THEN elapsed + skew ELSE elapsed

MutTimedOutEarly == Clock + PollInterval >= timeout
MutTimedOutNever == loop = "browse" /\ attempts >= timeout \div PollInterval
MutTimedOutLate == Clock > timeout + PollInterval
TimedOut == CASE loop = "task"   -> timeout > 0 /\ Clock > timeout
              [] loop = "browse" -> attempts >= timeout \div PollInterval
              [] OTHER           -> Clock >= timeout

ErrorRaises == loop = "browse" \/ (loop = "task" /\ raiseOnError)

MutCompleteError == seen \in {"idle", "complete", "error"}
MutCompleteTold == seen = "complete"
Complete == seen \in {"idle", "complete"}

\* Gives up before it looks at what the poll returned.
MutDecide == /\ pc = "decide"
             /\ CASE TimedOut         -> End("timeout")
                  [] ~TimedOut /\ Complete -> End("returned")
                  [] OTHER            -> pc' = "sleep" /\ UNCHANGED result
             /\ UNCHANGED <<call, seen, attempts, elapsed, skew, work>>
\* Returns what the last poll saw when time is up.
MutDecideReturns == /\ pc = "decide"
                    /\ IF Complete \/ TimedOut THEN End("returned")
                                               ELSE pc' = "sleep" /\ UNCHANGED result
                    /\ UNCHANGED <<call, seen, attempts, elapsed, skew, work>>
Decide == /\ pc = "decide"
          /\ CASE seen = "missing" -> End("not_found")
               [] Complete         -> End("returned")
               [] seen = "error"   -> End(IF ErrorRaises THEN "raised" ELSE "returned")
               [] OTHER            -> IF TimedOut THEN End("timeout")
                                                  ELSE pc' = "sleep" /\ UNCHANGED result
          /\ UNCHANGED <<call, seen, attempts, elapsed, skew, work>>

\* for _attempt in range(int(timeout / poll_interval)), which sleeps first.
Attempt == /\ pc = "attempt"
           /\ IF TimedOut THEN End("timeout") ELSE pc' = "sleep" /\ UNCHANGED result
           /\ UNCHANGED <<call, seen, attempts, elapsed, skew, work>>

Sleep == /\ pc = "sleep"
         /\ pc' = "poll"
         /\ Advance(PollInterval)
         /\ UNCHANGED <<call, seen, attempts, result, skew, work>>

-----------------------------------------------------------------------------
(* The job and the wall clock.                                             *)

JobStep(from, to) == /\ job = from
                     /\ job' = to
                     /\ ends' = ends \cup ({to} \cap {"complete", "error"})
                     /\ finishedAt' = CASE to \in {"complete", "error"} -> elapsed
                                        [] to = "running"             -> Never
                                        [] OTHER                      -> finishedAt
                     /\ UNCHANGED <<call, pc, seen, attempts, result, elapsed, skew, begun>>

Start == JobStep("queued", "running")
Finish == JobStep("running", "complete") \/ JobStep("running", "error")
\* A schedule, an event or another client runs the task again.
Restart == loop = "task" /\ (JobStep("complete", "running") \/ JobStep("error", "running"))
\* A task created with delete_after_run.
Vanish == loop = "task" /\ JobStep("complete", "gone")

StepClock == /\ pc # "done"
             /\ skew' \in -MaxSkew .. MaxSkew
             /\ UNCHANGED <<call, pc, seen, attempts, result, elapsed, work>>

Wait == Poll \/ PollEmpty \/ Decide \/ Attempt \/ Sleep

Next == Wait \/ PollFails \/ Start \/ Finish \/ Restart \/ Vanish \/ StepClock

Spec == Init /\ [][Next]_vars

\* The waiting thread runs; nothing obliges the job to start or to finish.
FairSpec == Spec /\ WF_vars(Wait)

-----------------------------------------------------------------------------
TypeOK == /\ loop \in Loops /\ timeout \in Timeouts /\ raiseOnError \in BOOLEAN
          /\ pc \in {"attempt", "poll", "decide", "sleep", "done"}
          /\ seen \in Statuses
          /\ attempts \in Nat
          /\ result \in Results
          /\ elapsed \in 0 .. Horizon
          /\ skew \in -MaxSkew .. MaxSkew
          /\ job \in Jobs /\ begun \in BOOLEAN
          /\ ends \subseteq {"complete", "error"} /\ finishedAt \in {Never} \cup Nat
          /\ pc = "done" <=> result # "none"

\* A task is idle before it runs as well as after, so that a wait for a task just told
\* to execute may return at once; what follows is promised of a task that was running.
Told == loop = "task" => begun

\* A wait that returns has waited for a run of the job to end ("Wait for a task to
\* complete ... Returns: Completed Task object"); the task may be running again by then.
ReturnMeansFinished == result = "returned" /\ Told => ends # {}

\* A wait that promises to raise when the job fails returns only if a run of it went well:
\* a failure may stay unseen only behind a later run that completed.
FailureIsRaised == result = "returned" /\ ErrorRaises /\ Told => "complete" \in ends

\* No wait gives up before its timeout.  A step of the wall clock can cheat the two
\* loops that read it, and the count of polls rounds down to whole intervals.
Cheated == IF loop \in {"task", "report"} THEN MaxSkew ELSE 0
RoundedOff == IF loop = "browse" THEN timeout % PollInterval ELSE 0
TimeoutIsHonest == result = "timeout" => elapsed >= timeout - Cheated - RoundedOff

\* A wait outlasts its timeout by at most one sleep, one poll and a step of the clock
\* it reads.  The browser counts its sleeps and not the time its requests take, so that
\* slow requests stretch its wait by a factor.
Unlimited == loop = "task" /\ timeout = 0
WaitIsBounded == ~Unlimited => elapsed < Horizon

\* A job that finished early enough for the last poll to see it, and was not started
\* again, is reported as timed out only by a browser whose last poll got an empty answer:
\* the loops look at the status before they look at the clock.
Seen(t) == t + MaxPoll + MaxSkew + (IF loop = "browse" THEN PollInterval ELSE 0) < timeout
PromptJobNeverTimesOut ==
    result = "timeout" /\ finishedAt # Never /\ Seen(finishedAt) => seen = "nothing"

\* A wait with a timeout ends, and one without ends once the job has finished for good.
WaitsEnd == /\ ~Unlimited ~> pc = "done"
            /\ Finished ~> pc = "done" \/ ~Finished
=============================================================================
