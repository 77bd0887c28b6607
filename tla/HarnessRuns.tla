------------------------------ MODULE HarnessRuns ------------------------------
(***************************************************************************)
(* One research goal of one user and the runs made for it:                 *)
(* apps/api/services/harness_run_service.py, the state machine of          *)
(* packages/harness/state_machine.py and the Celery task around them.      *)
(*                                                                         *)
(* Runs.  The idempotency key of a run is made of its goal.  Run 1 is the  *)
(* goal as asked; retrying run n asks for run n + 1, whose name has one    *)
(* more "(retry)".  The daily quota bounds the chain.                      *)
(*                                                                         *)
(* Sessions.  A request creates or retries a run and hands it to the       *)
(* queue, a worker executes it, a canceler cancels it.  A step ends where  *)
(* the code commits, rolls back, loads the row or waits for a service.     *)
(* `seen` is the status of the run the session has loaded and works with:  *)
(* transition_run checks it and updates the row only WHERE status = seen;  *)
(* a lost update is silent (the object that is read again is the one in    *)
(* the identity map), no caller looks at the result, and `seen` is loaded  *)
(* again after the next commit.                                            *)
(*                                                                         *)
(* Delivery.  The task is acknowledged late: a worker that dies hands its  *)
(* message back to the queue, or loses it (hard time limit).               *)
(*                                                                         *)
(* Time.  A run lapses when its timeout_at passes.  Tasks are killed long  *)
(* before a reservation is stale, so the recovery never meets a run a      *)
(* worker has accepted and still executes.                                 *)
(***************************************************************************)
EXTENDS Naturals, FiniteSets

CONSTANTS
    Requests, Workers, Cancelers,  \* sessions, by role
    RunsPerDay,      \* settings.harness_max_runs_per_user_per_day
    MaxMessages,     \* bound: messages of one run waiting in the queue
    Faults,          \* "raise", "die", "queue_down": the faults considered
    None             \* no run, nothing loaded

Runs == 1 .. RunsPerDay
Sessions == Requests \cup Workers \cup Cancelers

\* HARNESS_RUN_STATES
Active == {"preparing", "running", "validating"}
Unconcluded == {"failed", "canceled", "timed_out"}
Terminal == Unconcluded \cup {"completed", "degraded"}
States == {"queued"} \cup Active \cup Terminal

ASSUME HarnessConstants ==
    /\ RunsPerDay \in Nat /\ MaxMessages \in Nat
    /\ Faults \subseteq {"raise", "die", "queue_down"}
    /\ Requests \cap Workers = {} /\ Requests \cap Cancelers = {}
    /\ Workers \cap Cancelers = {}
    /\ None \notin Sessions /\ None \notin Nat
    /\ None \notin States \cup {"none", "some", "empty"}

VARIABLES
    status,     \* HarnessResearchRun.status, "none" where there is no row
    hold,       \* status of the run's credit reservation, "NONE" without one
    reported,   \* runs whose ResearchArtifact exists
    empties,    \* an EvidenceSnapshot of the user without items exists
    lapsed,     \* runs whose timeout_at has passed
    queue,      \* Celery messages waiting for a run
    lost,       \* history: runs a worker died on, or lost its last transaction for
    pc, job     \* where a session is, and what it holds in memory

books == <<hold, reported>>
vars == <<status, books, empties, lapsed, queue, lost, pc, job>>

-----------------------------------------------------------------------------
(* The state machine *)

\* ALLOWED_TRANSITIONS
Allowed(from) ==
    CASE from = "queued"     -> {"preparing"} \cup Unconcluded
      [] from = "preparing"  -> {"running"} \cup Unconcluded
      [] from = "running"    -> {"validating"} \cup Unconcluded
      [] from = "validating" -> Terminal
      [] OTHER               -> {}

\* transition_run does not raise IllegalStateTransition.
Accepts(seen, to) == seen = to \/ to \in Allowed(seen)

\* An update without WHERE status = seen.
UpdateBlindly(r, seen, to) ==
    status' = IF seen = to THEN status ELSE [status EXCEPT ![r] = to]

\* The conditional UPDATE of transition_run: applied, or without effect.
Update(r, seen, to) ==
    status' = IF seen # to /\ status[r] = seen THEN [status EXCEPT ![r] = to] ELSE status

\* A settlement that stores the kind of its ledger entry.
SettleAsEntry(r) == hold' = IF hold[r] = "RESERVED" THEN [hold EXCEPT ![r] = "SETTLE"] ELSE hold

\* _refund_run and _settle_run: only a reservation that is still RESERVED moves.
Refund(r) == hold' = IF hold[r] = "RESERVED" THEN [hold EXCEPT ![r] = "REFUNDED"] ELSE hold

Settle(r) == hold' = IF hold[r] = "RESERVED" THEN [hold EXCEPT ![r] = "SETTLED"] ELSE hold

Blank == [run |-> None, seen |-> None, items |-> None, again |-> FALSE]

Goto(s, label, j) ==
    /\ pc' = [pc EXCEPT ![s] = label]
    /\ job' = [job EXCEPT ![s] = j]

\* A worker goes on to its next message; a request is over.
Finish(s) == Goto(s, IF s \in Workers THEN "idle" ELSE "done", Blank)

\* The session goes on in a new transaction.
Commit(s, label) == Goto(s, label, [job[s] EXCEPT !.seen = None])

\* It does, and loads the row again at once.
Reload(s, label) == Goto(s, label, [job[s] EXCEPT !.seen = status'[job[s].run]])

Init ==
    /\ status = [r \in Runs |-> "none"] /\ hold = [r \in Runs |-> "NONE"]
    /\ reported = {}
    /\ empties = FALSE /\ lapsed = {} /\ lost = {}
    /\ queue = [r \in Runs |-> 0]
    /\ pc = [s \in Sessions |-> "idle"]
    /\ job = [s \in Sessions |-> Blank]

\* The row is loaded by the first access to it in a transaction.
Load(s) ==
    /\ pc[s] \in {"queueing", "starting", "concluding", "aborting"} /\ job[s].seen = None
    /\ job' = [job EXCEPT ![s].seen = status[job[s].run]]
    /\ UNCHANGED <<status, books, empties, lapsed, queue, lost, pc>>

At(s, label) == pc[s] = label /\ job[s].seen # None

-----------------------------------------------------------------------------
(* Create, retry and queue *)

\* A degraded run can be retried too.
RetryableAndDegraded == {"degraded", "failed", "canceled", "timed_out"}

\* RETRYABLE_STATUSES
Retryable == {"failed", "canceled", "timed_out"}

\* The goal is asked for, or the run before this one is retried.
Asked(r) == \A p \in Runs : p + 1 = r => status[p] \in Retryable

\* No run with this key: its credits are to be reserved.
Ask(q, r) ==
    /\ pc[q] = "idle" /\ Asked(r) /\ status[r] = "none"
    /\ Cardinality({x \in Runs : status[x] # "none"}) < RunsPerDay
    /\ Goto(q, "reserving", [Blank EXCEPT !.run = r])
    /\ UNCHANGED <<status, books, empties, lapsed, queue, lost>>

\* A run with this key is still queued: it is queued here and by the caller again.
AskAgain(q, r) ==
    /\ pc[q] = "idle" /\ Asked(r) /\ status[r] = "queued"
    /\ Goto(q, "queueing", [Blank EXCEPT !.run = r, !.seen = "queued", !.again = TRUE])
    /\ UNCHANGED <<status, books, empties, lapsed, queue, lost>>

\* The run and its reservation are committed together.
Create(q) ==
    /\ pc[q] = "reserving" /\ status[job[q].run] = "none"
    /\ status' = [status EXCEPT ![job[q].run] = "queued"]
    /\ hold' = [hold EXCEPT ![job[q].run] = "RESERVED"]
    /\ Commit(q, "queueing")
    /\ UNCHANGED <<reported, empties, lapsed, queue, lost>>

\* The key exists by now (unique constraint): everything is rolled back.
CreateRefused(q) ==
    /\ pc[q] = "reserving" /\ status[job[q].run] # "none"
    /\ Finish(q)
    /\ UNCHANGED <<status, books, empties, lapsed, queue, lost>>

\* execute_harness_research_run.delay
Enqueue(q) ==
    /\ At(q, "queueing") /\ job[q].seen = "queued"
    /\ queue[job[q].run] < MaxMessages
    /\ queue' = [queue EXCEPT ![job[q].run] = @ + 1]
    /\ IF job[q].again THEN Goto(q, "queueing", [job[q] EXCEPT !.again = FALSE]) ELSE Finish(q)
    /\ UNCHANGED <<status, books, empties, lapsed, lost>>

\* The row that was read again is not queued any more.
EnqueueNothing(q) ==
    /\ At(q, "queueing") /\ job[q].seen # "queued"
    /\ Finish(q)
    /\ UNCHANGED <<status, books, empties, lapsed, queue, lost>>

\* Redis is down: the run fails, and is refunded whether or not it did.
QueueUnavailable(q) ==
    /\ "queue_down" \in Faults
    /\ At(q, "queueing") /\ job[q].seen = "queued"
    /\ Update(job[q].run, "queued", "failed")
    /\ Refund(job[q].run)
    /\ Finish(q)
    /\ UNCHANGED <<reported, empties, lapsed, queue, lost>>

\* The API process dies, or the client is gone.
DropRequest(q) ==
    /\ "die" \in Faults
    /\ pc[q] \in {"reserving", "queueing"}
    /\ Finish(q)
    /\ UNCHANGED <<status, books, empties, lapsed, queue, lost>>

-----------------------------------------------------------------------------
(* cancel_harness_run *)

AskCancel(c, r) ==
    /\ pc[c] = "idle" /\ status[r] \in States \ Terminal
    /\ Goto(c, "canceling", [Blank EXCEPT !.run = r, !.seen = status[r]])
    /\ UNCHANGED <<status, books, empties, lapsed, queue, lost>>

\* A cancellation that keeps the credits.
CancelUnrefunded(c) ==
    /\ At(c, "canceling")
    /\ Update(job[c].run, job[c].seen, "canceled")
    /\ Finish(c)
    /\ UNCHANGED <<books, empties, lapsed, queue, lost>>

\* Refunded whether or not the update was applied; one commit.
Cancel(c) ==
    /\ At(c, "canceling")
    /\ Update(job[c].run, job[c].seen, "canceled")
    /\ Refund(job[c].run)
    /\ Finish(c)
    /\ UNCHANGED <<reported, empties, lapsed, queue, lost>>

\* _refund_run swallows an error of the database, which has ended the transaction:
\* the commit that follows is a rollback nobody notices, and nothing is canceled.
CancelLost(c) ==
    /\ "raise" \in Faults
    /\ At(c, "canceling")
    /\ Finish(c)
    /\ UNCHANGED <<status, books, empties, lapsed, queue, lost>>

-----------------------------------------------------------------------------
(* execute_queued_run and _execute_run *)

Take(w, r) ==
    /\ pc[w] = "idle" /\ queue[r] > 0
    /\ queue' = [queue EXCEPT ![r] = @ - 1]
    /\ Goto(w, "taken", [Blank EXCEPT !.run = r, !.seen = status[r]])
    /\ UNCHANGED <<status, books, empties, lapsed, lost>>

\* The run is not queued any more: the message is dropped.
Ignore(w) ==
    /\ At(w, "taken") /\ job[w].seen # "queued"
    /\ Finish(w)
    /\ UNCHANGED <<status, books, empties, lapsed, queue, lost>>

\* The deadline passed before the start.
TimeOut(w) ==
    /\ At(w, "taken") /\ job[w].seen = "queued" /\ job[w].run \in lapsed
    /\ Update(job[w].run, "queued", "timed_out")
    /\ Refund(job[w].run)
    /\ Finish(w)
    /\ UNCHANGED <<reported, empties, lapsed, queue, lost>>

\* A worker that loses the update goes on all the same.
Accept(w) ==
    /\ At(w, "taken") /\ job[w].seen = "queued" /\ job[w].run \notin lapsed
    /\ Update(job[w].run, "queued", "preparing")
    /\ Reload(w, "gathering")
    /\ UNCHANGED <<books, empties, lapsed, queue, lost>>

\* _gather_evidence; build_research_events commits.
Gather(w, items) ==
    /\ At(w, "gathering")
    /\ Goto(w, "freezing", [job[w] EXCEPT !.items = items, !.seen = None])
    /\ UNCHANGED <<status, books, empties, lapsed, queue, lost>>

\* The evidence is frozen.
Freeze(w) ==
    /\ pc[w] = "freezing" /\ ~(job[w].items = "empty" /\ empties)
    /\ empties' = (empties \/ job[w].items = "empty")
    /\ Commit(w, "starting")
    /\ UNCHANGED <<status, books, lapsed, queue, lost>>

\* The hash of a bundle without items is always the same, and unique per user.
FreezeRefused(w) ==
    /\ pc[w] = "freezing" /\ job[w].items = "empty" /\ empties
    /\ Commit(w, "aborting")
    /\ UNCHANGED <<status, books, empties, lapsed, queue, lost>>

\* The transitions that lead from one stage of the run to the next.
Advance(w, from, to) ==
    /\ At(w, from) /\ Accepts(job[w].seen, to)
    /\ Update(job[w].run, job[w].seen, to)
    /\ UNCHANGED <<books, empties, lapsed, queue, lost>>

Start(w) == Advance(w, "starting", "running") /\ Reload(w, "calling")

\* The gateway has answered; the status is the one loaded before the call.
Validate(w) == Advance(w, "calling", "validating") /\ Commit(w, "concluding")

\* Completed only with evidence the answer cites.
Conclude(w, final) ==
    /\ final = "completed" => job[w].items = "some"
    /\ Advance(w, "concluding", final) /\ Commit(w, "delivering")

\* IllegalStateTransition: somebody else has moved the run.
Illegal(w) ==
    /\ \/ At(w, "starting") /\ ~Accepts(job[w].seen, "running")
       \/ At(w, "calling") /\ ~Accepts(job[w].seen, "validating")
       \/ /\ At(w, "concluding")
          /\ \/ ~Accepts(job[w].seen, "degraded")
             \/ job[w].items = "some" /\ ~Accepts(job[w].seen, "completed")
    /\ Commit(w, "aborting")
    /\ UNCHANGED <<status, books, empties, lapsed, queue, lost>>

\* The artifact and the settlement, in one commit.
Deliver(w) ==
    /\ pc[w] = "delivering"
    /\ reported' = reported \cup {job[w].run}
    /\ Settle(job[w].run)
    /\ Finish(w)
    /\ UNCHANGED <<status, empties, lapsed, queue, lost>>

\* The evidence pipeline or the gateway fails: so does the run, and it is refunded
\* whether or not the update was applied.
ServiceFails(w) ==
    /\ At(w, "gathering") \/ At(w, "calling")
    /\ Accepts(job[w].seen, "failed")
    /\ Update(job[w].run, job[w].seen, "failed")
    /\ Refund(job[w].run)
    /\ Finish(w)
    /\ UNCHANGED <<reported, empties, lapsed, queue, lost>>

\* It fails, and the run has ended meanwhile.
ServiceFailsLate(w) ==
    /\ At(w, "gathering") \/ At(w, "calling")
    /\ ~Accepts(job[w].seen, "failed")
    /\ Commit(w, "aborting")
    /\ UNCHANGED <<status, books, empties, lapsed, queue, lost>>

Executing == {"gathering", "freezing", "starting", "calling", "concluding", "delivering", "aborting"}

\* The soft time limit, or an exception of the database: rolled back.
Raise(w) ==
    /\ "raise" \in Faults /\ pc[w] \in Executing \ {"aborting"}
    /\ Commit(w, "aborting")
    /\ UNCHANGED <<status, books, empties, lapsed, queue, lost>>

\* An exception handler that only logs.
AbortQuietly(w) ==
    /\ At(w, "aborting")
    /\ Finish(w)
    /\ UNCHANGED <<status, books, empties, lapsed, queue, lost>>

\* The exception handler of execute_queued_run.
Abort(w) ==
    /\ At(w, "aborting") /\ job[w].seen \notin Terminal
    /\ Update(job[w].run, job[w].seen, "failed")
    /\ Refund(job[w].run)
    /\ Finish(w)
    /\ UNCHANGED <<reported, empties, lapsed, queue, lost>>

AbortEnded(w) ==
    /\ At(w, "aborting") /\ job[w].seen \in Terminal
    /\ Finish(w)
    /\ UNCHANGED <<status, books, empties, lapsed, queue, lost>>

\* The same error in the credits of an outcome, a time-out or an abort: the status
\* goes the way of the credits, and the worker is done with the run.
OutcomeLost(w) ==
    /\ "raise" \in Faults
    /\ \/ At(w, "taken") /\ job[w].seen = "queued" /\ job[w].run \in lapsed
       \/ (At(w, "gathering") \/ At(w, "calling")) /\ Accepts(job[w].seen, "failed")
       \/ pc[w] = "delivering"
       \/ At(w, "aborting") /\ job[w].seen \notin Terminal
    /\ lost' = lost \cup {job[w].run}
    /\ Finish(w)
    /\ UNCHANGED <<status, books, empties, lapsed, queue>>

\* The worker process is lost, or killed at the hard time limit.  Bound: a run
\* loses one worker.
Die(w) ==
    /\ "die" \in Faults /\ pc[w] # "idle" /\ job[w].run \notin lost
    /\ lost' = lost \cup {job[w].run}
    /\ \/ queue' = [queue EXCEPT ![job[w].run] = @ + 1]
       \/ UNCHANGED queue
    /\ Finish(w)
    /\ UNCHANGED <<status, books, empties, lapsed>>

-----------------------------------------------------------------------------
(* Time *)

Lapse(r) ==
    /\ status[r] # "none" /\ r \notin lapsed
    /\ lapsed' = lapsed \cup {r}
    /\ UNCHANGED <<status, books, empties, queue, lost, pc, job>>

\* recover_stale_reservations, for the reservation of a run.
RecoverStale(r) ==
    /\ hold[r] = "RESERVED" /\ r \in lapsed
    /\ \A w \in Workers : job[w].run = r => pc[w] \notin Executing
    /\ Refund(r)
    /\ UNCHANGED <<status, reported, empties, lapsed, queue, lost, pc, job>>

-----------------------------------------------------------------------------
RequestStep(q) ==
    Create(q) \/ CreateRefused(q) \/ Enqueue(q) \/ EnqueueNothing(q)

WorkerStep(w) ==
    \/ Ignore(w) \/ TimeOut(w) \/ Accept(w)
    \/ \E items \in {"some", "empty"} : Gather(w, items)
    \/ Freeze(w) \/ FreezeRefused(w) \/ Start(w) \/ Validate(w)
    \/ \E final \in {"completed", "degraded"} : Conclude(w, final)
    \/ Illegal(w) \/ Deliver(w)
    \/ ServiceFails(w) \/ ServiceFailsLate(w)
    \/ Abort(w) \/ AbortEnded(w)

Next ==
    \/ \E s \in Sessions : Load(s)
    \/ \E q \in Requests :
        \/ RequestStep(q) \/ QueueUnavailable(q) \/ DropRequest(q)
        \/ \E r \in Runs : Ask(q, r) \/ AskAgain(q, r)
    \/ \E c \in Cancelers : Cancel(c) \/ CancelLost(c) \/ \E r \in Runs : AskCancel(c, r)
    \/ \E w \in Workers :
        WorkerStep(w) \/ Raise(w) \/ OutcomeLost(w) \/ Die(w) \/ \E r \in Runs : Take(w, r)
    \/ \E r \in Runs : Lapse(r) \/ RecoverStale(r)

Spec == Init /\ [][Next]_vars

\* A worker goes on with the run it executes, time passes and the recovery is
\* scheduled.  Nothing makes a request reach the queue, or a worker take a message.
Fairness ==
    /\ \A w \in Workers : WF_vars(Load(w) \/ WorkerStep(w))
    /\ \A r \in Runs : WF_vars(Lapse(r)) /\ WF_vars(RecoverStale(r))

FairSpec == Spec /\ Fairness

-----------------------------------------------------------------------------
(* Properties *)

Jobs == [run : Runs \cup {None}, seen : States \cup {"none", None},
         items : {"some", "empty", None}, again : BOOLEAN]

TypeOK ==
    /\ status \in [Runs -> States \cup {"none"}]
    /\ hold \in [Runs -> {"NONE", "RESERVED", "SETTLED", "REFUNDED"}]
    /\ reported \subseteq Runs
    /\ empties \in BOOLEAN /\ lapsed \subseteq Runs /\ lost \subseteq Runs
    /\ queue \in [Runs -> Nat]
    /\ pc \in [Sessions -> {"idle", "reserving", "queueing", "canceling", "taken", "done"} \cup Executing]
    /\ job \in [Sessions -> Jobs]

\* The credits follow the outcome, whoever ended the run and whoever lost the race
\* with him: a run that failed, was canceled or timed out is refunded, and credits
\* are kept only for a concluded run whose report exists.
HoldFollowsOutcome ==
    \A r \in Runs :
        /\ status[r] \in Unconcluded => hold[r] = "REFUNDED"
        /\ hold[r] = "SETTLED" => status[r] \in {"completed", "degraded"} /\ r \in reported

\* However often a goal is retried, asked for again or executed twice, at most one
\* of its runs is charged.
GoalChargedOnce ==
    \A r, s \in Runs : hold[r] = "SETTLED" /\ hold[s] = "SETTLED" => r = s

\* A run in the middle of its execution has a worker, unless one died on it or lost
\* the transaction that was to end it: no other error path and no lost race leaves
\* it there.
ActiveRunHasWorker ==
    \A r \in Runs : status[r] \in Active =>
        r \in lost \/ \E w \in Workers : job[w].run = r /\ pc[w] \in Executing

\* The status moves along ALLOWED_TRANSITIONS only, and never out of a terminal
\* state, although sessions act on a status they read before others moved it.
LegalTransitions ==
    [][\A r \in Runs : status'[r] # status[r] =>
          \/ status[r] = "none" /\ status'[r] = "queued"
          \/ status'[r] \in Allowed(status[r])]_vars

\* harness_run_service.py:566: no evidence makes the run degraded, not failed.
EmptyEvidenceDegrades ==
    [][\A w \in Workers : pc[w] = "freezing" /\ job[w].items = "empty" => pc'[w] # "aborting"]_vars

\* docs/operations/HARNESS_RUNBOOK.md:39: a run beyond its timeout_at is marked
\* timed_out.
StuckRunsTimeOut == \A r \in Runs : (r \in lapsed) ~> (status[r] \in Terminal)
=============================================================================
