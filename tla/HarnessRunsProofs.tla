--------------------------- MODULE HarnessRunsProofs ---------------------------
(***************************************************************************)
(* The runs of a goal, for any number of requests, workers, cancelers and  *)
(* retries: every status moves along the transition table, the credits     *)
(* follow the outcome, a goal is charged once, and a run that is active    *)
(* has a worker or lost one.                                               *)
(***************************************************************************)
EXTENDS HarnessRuns, TLAPS

\* A session between its first and its last step has a run.
Handling == {"queueing", "canceling", "taken"} \cup Executing

\* What a session saw of a run, and what the row says by now: a run is not
\* unmade, does not leave a terminal state, and concludes after validating.
Behind(seen, now) ==
    /\ seen # "none" /\ now # "none"
    /\ seen \in Terminal => now = seen
    /\ seen = "validating" => now \in Terminal \cup {"validating"}

SessionOK(s) ==
    /\ pc[s] \in Handling =>
        job[s].run \in Runs /\ Behind(job[s].seen, status[job[s].run])
    /\ pc[s] = "canceling" => job[s].seen \in States \ Terminal
    /\ pc[s] = "delivering" => status[job[s].run] \in Terminal
    /\ pc[s] = "reserving" => job[s].run \in Runs /\ Asked(job[s].run)

SessionInv == TypeOK /\ \A s \in Sessions : SessionOK(s)

\* One move of the state machine for each run, or none.
StatusMoves ==
    \A r \in Runs :
        \/ status'[r] = status[r]
        \/ status[r] = "none" /\ status'[r] = "queued"
        \/ status'[r] \in Allowed(status[r])

\* What every step does.
Kept == SessionInv' /\ StatusMoves

\* What the transition table says, one status at a time.
LEMMA TableFacts ==
    /\ \A from \in Terminal \cup {"none"} : Allowed(from) = {}
    /\ \A from \in States : Allowed(from) \subseteq States \ {"queued"}
    /\ Allowed("queued") = {"preparing"} \cup Unconcluded
    /\ Allowed("validating") = Terminal
    /\ Terminal \subseteq States /\ "none" \notin States
    /\ \A from \in States \ Terminal : Unconcluded \subseteq Allowed(from)
    /\ \A from \in States : "completed" \in Allowed(from) \/ "degraded" \in Allowed(from) => from = "validating"
BY DEF Allowed, Terminal, Unconcluded, States, Active

\* The conditional update with a legal target moves one run legally.
LEMMA UpdateMoves ==
    ASSUME SessionInv, NEW r \in Runs, NEW seen \in States, NEW to \in States,
           Accepts(seen, to), Update(r, seen, to)
    PROVE  /\ StatusMoves
           /\ status' \in [Runs -> States \cup {"none"}]
           /\ seen # to /\ status[r] = seen => status'[r] = to
           /\ \A x \in Runs : status'[x] = status[x] \/ (x = r /\ status[r] = seen /\ status'[r] = to)
BY DEF SessionInv, TypeOK, Accepts, Update, StatusMoves

\* Legal moves keep what is known of the sessions that do not move.
LEMMA OthersKeep ==
    ASSUME SessionInv, StatusMoves, NEW t \in Sessions,
           status' \in [Runs -> States \cup {"none"}],
           pc'[t] = pc[t], job'[t] = job[t]
    PROVE  SessionOK(t)'
<1>1. \A r \in Runs : /\ status[r] \in Terminal => status'[r] = status[r]
                      /\ status[r] # "none" => status'[r] # "none"
                      /\ status[r] = "validating" => status'[r] \in Terminal \cup {"validating"}
  BY TableFacts DEF StatusMoves, SessionInv, TypeOK
<1>2. \A r \in Runs : Asked(r) => Asked(r)'
  BY <1>1 DEF Asked, Retryable, Terminal, Unconcluded
<1>3. SessionOK(t)
  BY DEF SessionInv
<1>4. pc[t] \in Handling => job[t].run \in Runs /\ Behind(job[t].seen, status[job[t].run])'
  BY <1>1, <1>3 DEF SessionOK, Behind
<1> QED BY <1>1, <1>2, <1>3, <1>4 DEF SessionOK, Handling, Executing

Labels == {"idle", "reserving", "queueing", "canceling", "taken", "done"} \cup Executing

\* The types of what is shared besides the statuses.
SharedOK ==
    /\ hold \in [Runs -> {"NONE", "RESERVED", "SETTLED", "REFUNDED"}]
    /\ reported \subseteq Runs
    /\ empties \in BOOLEAN /\ lapsed \subseteq Runs /\ lost \subseteq Runs
    /\ queue \in [Runs -> Nat]

StatusOK == StatusMoves /\ status' \in [Runs -> States \cup {"none"}]

\* A step of one session.
LEMMA SessionSteps ==
    ASSUME SessionInv, StatusOK, SharedOK', NEW s \in Sessions,
           NEW label \in Labels, NEW j \in Jobs, Goto(s, label, j), SessionOK(s)'
    PROVE  Kept
<1>1. ASSUME NEW t \in Sessions PROVE SessionOK(t)'
  <2>1. CASE t = s
    BY <2>1
  <2>2. CASE t # s
    <3>1. pc'[t] = pc[t] /\ job'[t] = job[t]
      BY <2>2 DEF Goto, SessionInv, TypeOK
    <3> QED BY <3>1, OthersKeep DEF StatusOK
  <2> QED BY <2>1, <2>2
<1>2. pc' \in [Sessions -> Labels] /\ job' \in [Sessions -> Jobs]
  BY DEF Goto, SessionInv, TypeOK, Labels
<1> QED BY <1>1, <1>2 DEF Kept, SessionInv, TypeOK, SharedOK, StatusOK, Labels

\* A session that has finished.
LEMMA FinishSteps ==
    ASSUME SessionInv, StatusOK, SharedOK', NEW s \in Sessions, Finish(s)
    PROVE  Kept
<1> DEFINE label == IF s \in Workers THEN "idle" ELSE "done"
<1>1. label \in Labels /\ label \in {"idle", "done"}
  BY DEF Labels
<1>2. Blank \in Jobs
  BY DEF Blank, Jobs
<1>3. Goto(s, label, Blank)
  BY DEF Finish
<1> HIDE DEF label
<1>4. SessionOK(s)'
  BY <1>1, <1>3 DEF Goto, SessionOK, SessionInv, TypeOK, Handling, Executing
<1> QED BY <1>1, <1>2, <1>3, <1>4, SessionSteps

\* One that has committed, and loads the row again when it needs it.
LEMMA CommitSteps ==
    ASSUME SessionInv, StatusOK, SharedOK', NEW s \in Sessions, pc[s] \in Handling,
           NEW label \in (Labels \ {"idle", "done", "reserving", "canceling"}), Commit(s, label),
           label = "delivering" => status'[job[s].run] \in Terminal
    PROVE  Kept
<1> DEFINE j == [job[s] EXCEPT !.seen = None]
<1>1. job[s] \in Jobs /\ job[s].run \in Runs /\ status[job[s].run] # "none"
  BY DEF SessionInv, TypeOK, SessionOK, Behind
<1>2. j \in Jobs /\ j.run = job[s].run /\ j.seen = None
  BY <1>1 DEF Jobs
<1>3. Goto(s, label, j)
  BY DEF Commit
<1> HIDE DEF j
<1>4. status'[job[s].run] # "none"
  BY <1>1, TableFacts DEF StatusOK, StatusMoves, SessionInv, TypeOK
<1>5. pc'[s] = label /\ job'[s] = j
  BY <1>3 DEF Goto, SessionInv, TypeOK
<1>6. Behind(None, status'[job[s].run])
  BY <1>4, HarnessConstants DEF Behind, States, Active, Terminal
<1>7. SessionOK(s)'
  BY <1>1, <1>2, <1>5, <1>6 DEF SessionOK
<1> QED BY <1>2, <1>3, <1>7, SessionSteps

\* One that has moved the row and loaded it again.
LEMMA ReloadSteps ==
    ASSUME SessionInv, StatusOK, SharedOK', NEW s \in Sessions, pc[s] \in Handling,
           NEW label \in {"gathering", "calling"}, Reload(s, label)
    PROVE  Kept
<1> DEFINE j == [job[s] EXCEPT !.seen = status'[job[s].run]]
<1>1. job[s] \in Jobs /\ job[s].run \in Runs /\ status[job[s].run] # "none"
  BY DEF SessionInv, TypeOK, SessionOK, Behind
<1>2. status'[job[s].run] \in States
  BY <1>1, TableFacts DEF StatusOK, StatusMoves, SessionInv, TypeOK
<1>3. j \in Jobs /\ j.run = job[s].run /\ j.seen = status'[job[s].run]
  BY <1>1, <1>2 DEF Jobs
<1>4. Goto(s, label, j)
  BY DEF Reload
<1> HIDE DEF j
<1>5. pc'[s] = label /\ job'[s] = j
  BY <1>4 DEF Goto, SessionInv, TypeOK
<1>6. Behind(status'[job[s].run], status'[job[s].run])
  BY <1>2, TableFacts DEF Behind
<1>7. SessionOK(s)'
  BY <1>1, <1>3, <1>5, <1>6 DEF SessionOK
<1>8. label \in Labels
  BY DEF Labels, Executing
<1> QED BY <1>3, <1>4, <1>7, <1>8, SessionSteps

\* Nobody has a run in the beginning.
LEMMA SessionInit == Init => SessionInv
<1> SUFFICES ASSUME Init PROVE SessionInv
  OBVIOUS
<1>1. Blank \in Jobs
  BY DEF Blank, Jobs
<1>2. TypeOK
  BY <1>1 DEF Init, TypeOK
<1>3. \A s \in Sessions : SessionOK(s)
  BY DEF Init, SessionOK, Handling, Executing
<1> QED BY <1>2, <1>3 DEF SessionInv

\* A step that leaves the statuses alone.
LEMMA Unmoved == ASSUME SessionInv, UNCHANGED status PROVE StatusOK
BY DEF StatusOK, StatusMoves, SessionInv, TypeOK

\* Where the run of a session stands, and that refunds and settlements keep the types.
LEMMA BooksKeepTypes ==
    ASSUME SessionInv, NEW r \in Runs, Refund(r) \/ Settle(r) \/ UNCHANGED hold
    PROVE  hold' \in [Runs -> {"NONE", "RESERVED", "SETTLED", "REFUNDED"}]
BY DEF SessionInv, TypeOK, Refund, Settle

\* A step that touches only statuses and sessions keeps the other types.
LEMMA SharedUnmoved ==
    ASSUME SessionInv, UNCHANGED <<books, empties, lapsed, queue, lost>> PROVE SharedOK'
BY DEF SessionInv, TypeOK, SharedOK, books

\* A worker or a canceler that ends its run: the update is legal, and refunded.
LEMMA EndingSteps ==
    ASSUME SessionInv, NEW s \in Sessions, pc[s] \in Handling,
           NEW to \in Unconcluded, job[s].seen \in States, Accepts(job[s].seen, to),
           Update(job[s].run, job[s].seen, to), Refund(job[s].run), Finish(s),
           UNCHANGED <<reported, empties, lapsed, queue, lost>>
    PROVE  Kept
<1>1. job[s].run \in Runs
  BY DEF SessionInv, SessionOK
<1>2. StatusOK
  BY <1>1, UpdateMoves DEF StatusOK, States, Terminal
<1>3. SharedOK'
  BY <1>1, BooksKeepTypes DEF SharedOK, SessionInv, TypeOK
<1> QED BY <1>2, <1>3, FinishSteps

\* Creating, queueing and retrying, up to each commit.
LEMMA RequestSteps ==
    ASSUME SessionInv, NEW q \in Requests,
           \/ RequestStep(q) \/ QueueUnavailable(q) \/ DropRequest(q)
           \/ \E r \in Runs : Ask(q, r) \/ AskAgain(q, r)
    PROVE  Kept
<1>q. q \in Sessions /\ job[q] \in Jobs /\ Blank \in Jobs
  BY DEF Sessions, SessionInv, TypeOK, Blank, Jobs
<1>1. CASE Create(q)
  <2> DEFINE j == [job[q] EXCEPT !.seen = None]
  <2>1. job[q].run \in Runs /\ status[job[q].run] = "none" /\ Asked(job[q].run)
    BY <1>1, <1>q DEF Create, SessionInv, SessionOK
  <2>2. StatusOK
    BY <1>1, <2>1 DEF Create, StatusOK, StatusMoves, SessionInv, TypeOK, States
  <2>3. SharedOK'
    BY <1>1, <2>1 DEF Create, SharedOK, SessionInv, TypeOK
  <2>4. j \in Jobs /\ j.run = job[q].run /\ j.seen = None
    BY <1>q DEF Jobs
  <2>5. Goto(q, "queueing", j)
    BY <1>1 DEF Create, Commit
  <2> HIDE DEF j
  <2>6. pc'[q] = "queueing" /\ job'[q] = j /\ status'[job[q].run] = "queued"
    BY <1>1, <1>q, <2>1, <2>5 DEF Create, Goto, SessionInv, TypeOK
  <2>7. Behind(None, "queued")
    BY HarnessConstants DEF Behind, States, Active, Terminal
  <2>8. SessionOK(q)'
    BY <2>1, <2>4, <2>6, <2>7 DEF SessionOK
  <2> QED BY <1>q, <2>2, <2>3, <2>4, <2>5, <2>8, SessionSteps DEF Labels
<1>2. CASE Enqueue(q)
  <2>1. StatusOK
    BY <1>2, Unmoved DEF Enqueue
  <2>2. pc[q] = "queueing" /\ job[q].seen = "queued" /\ job[q].run \in Runs
    BY <1>2, <1>q DEF Enqueue, At, SessionInv, SessionOK, Handling
  <2>3. SharedOK'
    BY <1>2, <2>2 DEF Enqueue, SharedOK, SessionInv, TypeOK, books
  <2>4. CASE ~job[q].again
    BY <1>2, <1>q, <2>1, <2>3, <2>4, FinishSteps DEF Enqueue
  <2>5. CASE job[q].again
    <3> DEFINE j == [job[q] EXCEPT !.again = FALSE]
    <3>1. j \in Jobs /\ j.run = job[q].run /\ j.seen = job[q].seen
      BY <1>q DEF Jobs
    <3>2. Goto(q, "queueing", j)
      BY <1>2, <2>5 DEF Enqueue
    <3> HIDE DEF j
    <3>3. pc'[q] = "queueing" /\ job'[q] = j /\ status' = status
      BY <1>2, <1>q, <3>2 DEF Enqueue, Goto, SessionInv, TypeOK
    <3>4. SessionOK(q)'
      BY <1>q, <2>2, <3>1, <3>3 DEF SessionOK, SessionInv, Handling
    <3> QED BY <1>q, <2>1, <2>3, <3>1, <3>2, <3>4, SessionSteps DEF Labels
  <2> QED BY <2>4, <2>5
<1>3. CASE CreateRefused(q) \/ EnqueueNothing(q) \/ DropRequest(q)
  BY <1>3, <1>q, Unmoved, SharedUnmoved, FinishSteps
     DEF CreateRefused, EnqueueNothing, DropRequest
<1>4. CASE QueueUnavailable(q)
  BY <1>4, <1>q, EndingSteps
     DEF QueueUnavailable, At, Handling, Accepts, Allowed, Unconcluded, States
<1>5. ASSUME NEW r \in Runs, Ask(q, r) PROVE Kept
  <2> DEFINE j == [Blank EXCEPT !.run = r]
  <2>1. j \in Jobs /\ j.run = r
    BY DEF Blank, Jobs
  <2>2. Goto(q, "reserving", j) /\ Asked(r) /\ status' = status
    BY <1>5 DEF Ask
  <2> HIDE DEF j
  <2>3. pc'[q] = "reserving" /\ job'[q] = j
    BY <1>q, <2>2 DEF Goto, SessionInv, TypeOK
  <2>4. SessionOK(q)'
    BY <2>1, <2>2, <2>3 DEF SessionOK, Handling, Executing, Asked
  <2>5. StatusOK /\ SharedOK'
    BY <1>5, Unmoved, SharedUnmoved DEF Ask
  <2> QED BY <1>q, <2>1, <2>2, <2>4, <2>5, SessionSteps DEF Labels
<1>6. ASSUME NEW r \in Runs, AskAgain(q, r) PROVE Kept
  <2> DEFINE j == [Blank EXCEPT !.run = r, !.seen = "queued", !.again = TRUE]
  <2>1. j \in Jobs /\ j.run = r /\ j.seen = "queued"
    BY DEF Blank, Jobs, States
  <2>2. Goto(q, "queueing", j) /\ status[r] = "queued" /\ status' = status
    BY <1>6 DEF AskAgain
  <2> HIDE DEF j
  <2>3. pc'[q] = "queueing" /\ job'[q] = j
    BY <1>q, <2>2 DEF Goto, SessionInv, TypeOK
  <2>4. SessionOK(q)'
    BY <2>1, <2>2, <2>3 DEF SessionOK, Behind, Terminal, Unconcluded
  <2>5. StatusOK /\ SharedOK'
    BY <1>6, Unmoved, SharedUnmoved DEF AskAgain
  <2> QED BY <1>q, <2>1, <2>2, <2>4, <2>5, SessionSteps DEF Labels
<1> QED BY <1>1, <1>2, <1>3, <1>4, <1>5, <1>6 DEF RequestStep

\* A cancellation, from the request to its refund.
LEMMA CancelerSteps ==
    ASSUME SessionInv, NEW c \in Cancelers, Cancel(c) \/ CancelLost(c) \/ \E r \in Runs : AskCancel(c, r)
    PROVE  Kept
<1>c. c \in Sessions
  BY DEF Sessions
<1>1. ASSUME NEW r \in Runs, AskCancel(c, r) PROVE Kept
  <2> DEFINE j == [Blank EXCEPT !.run = r, !.seen = status[r]]
  <2>1. status[r] \in States \ Terminal
    BY <1>1 DEF AskCancel
  <2>2. j \in Jobs /\ j.run = r /\ j.seen = status[r]
    BY <2>1 DEF Blank, Jobs
  <2>3. Goto(c, "canceling", j) /\ status' = status
    BY <1>1 DEF AskCancel
  <2> HIDE DEF j
  <2>4. pc'[c] = "canceling" /\ job'[c] = j
    BY <1>c, <2>3 DEF Goto, SessionInv, TypeOK
  <2>5. Behind(status[r], status[r])
    BY <2>1, TableFacts DEF Behind
  <2>6. SessionOK(c)'
    BY <2>1, <2>2, <2>3, <2>4, <2>5 DEF SessionOK
  <2>7. StatusOK /\ SharedOK'
    BY <1>1, Unmoved, SharedUnmoved DEF AskCancel
  <2> QED BY <1>c, <2>2, <2>3, <2>6, <2>7, SessionSteps DEF Labels
<1>2. CASE Cancel(c)
  <2>1. pc[c] = "canceling" /\ job[c].seen \in States \ Terminal
    BY <1>2, <1>c DEF Cancel, At, SessionInv, SessionOK
  <2>2. Accepts(job[c].seen, "canceled")
    BY <2>1, TableFacts DEF Accepts, Unconcluded
  <2> QED BY <1>2, <1>c, <2>1, <2>2, EndingSteps DEF Cancel, Handling, Unconcluded
<1>3. CASE CancelLost(c)
  BY <1>3, <1>c, Unmoved, SharedUnmoved, FinishSteps DEF CancelLost
<1> QED BY <1>1, <1>2, <1>3

\* The stages of execute_queued_run and its exception handler.
LEMMA WorkerSteps ==
    ASSUME SessionInv, NEW w \in Workers, WorkerStep(w) \/ Raise(w)
    PROVE  Kept
<1>w. w \in Sessions /\ job[w] \in Jobs
  BY DEF Sessions, SessionInv, TypeOK
<1>r. pc[w] \in Handling => job[w].run \in Runs /\ Behind(job[w].seen, status[job[w].run])
  BY <1>w DEF SessionInv, SessionOK
<1>s. pc[w] \in Handling /\ job[w].seen # None => job[w].seen \in States
  BY <1>w, <1>r DEF Jobs, Behind
<1>1. CASE Ignore(w) \/ AbortEnded(w)
  BY <1>1, <1>w, Unmoved, SharedUnmoved, FinishSteps DEF Ignore, AbortEnded
<1>2. CASE TimeOut(w)
  BY <1>2, <1>w, EndingSteps
     DEF TimeOut, At, Handling, Accepts, Allowed, Unconcluded, States
<1>3. CASE Accept(w)
  <2>1. pc[w] \in Handling /\ job[w].seen = "queued"
    BY <1>3 DEF Accept, At, Handling
  <2>2. StatusOK
    BY <1>3, <1>r, <2>1, UpdateMoves DEF Accept, StatusOK, Accepts, Allowed, States, Active
  <2> QED BY <1>3, <1>w, <2>1, <2>2, SharedUnmoved, ReloadSteps DEF Accept
<1>4. ASSUME NEW items \in {"some", "empty"}, Gather(w, items) PROVE Kept
  <2> DEFINE j == [job[w] EXCEPT !.items = items, !.seen = None]
  <2>1. j \in Jobs /\ j.run = job[w].run /\ j.seen = None
    BY <1>w DEF Jobs
  <2>2. Goto(w, "freezing", j) /\ status' = status /\ pc[w] \in Handling
    BY <1>4 DEF Gather, At, Handling, Executing
  <2> HIDE DEF j
  <2>3. pc'[w] = "freezing" /\ job'[w] = j
    BY <1>w, <2>2 DEF Goto, SessionInv, TypeOK
  <2>4. Behind(None, status[job[w].run])
    BY <1>r, <2>2, HarnessConstants DEF Behind, States, Active, Terminal
  <2>5. SessionOK(w)'
    BY <1>r, <2>1, <2>2, <2>3, <2>4 DEF SessionOK
  <2>6. StatusOK /\ SharedOK'
    BY <1>4, Unmoved, SharedUnmoved DEF Gather
  <2> QED BY <1>w, <2>1, <2>2, <2>5, <2>6, SessionSteps DEF Labels, Executing
<1>5. CASE Freeze(w)
  <2>1. SharedOK'
    BY <1>5 DEF Freeze, SharedOK, SessionInv, TypeOK, books
  <2> QED BY <1>5, <1>w, <2>1, Unmoved, CommitSteps DEF Freeze, Handling, Executing, Labels
<1>6. CASE FreezeRefused(w) \/ Illegal(w) \/ ServiceFailsLate(w) \/ Raise(w)
  BY <1>6, <1>w, Unmoved, SharedUnmoved, CommitSteps
     DEF FreezeRefused, Illegal, ServiceFailsLate, Raise, At, Handling, Executing, Labels
<1>7. ASSUME NEW from \in {"starting", "calling", "concluding"}, NEW to \in States, Advance(w, from, to)
      PROVE  /\ pc[w] \in Handling /\ StatusOK /\ SharedOK'
             /\ job[w].run \in Runs /\ job[w].seen \in States
             /\ to \in {"completed", "degraded"} => status'[job[w].run] \in Terminal
  <2>1. pc[w] \in Handling /\ job[w].seen \in States /\ job[w].run \in Runs
    BY <1>7, <1>s, <1>r DEF Advance, At, Handling, Executing
  <2>2. StatusOK /\ SharedOK'
    BY <1>7, <2>1, UpdateMoves, SharedUnmoved DEF Advance, StatusOK
  <2>3. ASSUME to \in {"completed", "degraded"} PROVE status'[job[w].run] \in Terminal
    <3>1. job[w].seen \in Terminal \cup {"validating"}
      <4>1. CASE job[w].seen = to
        BY <2>3, <4>1 DEF Terminal
      <4>2. CASE to \in Allowed(job[w].seen)
        <5>1. \/ "completed" \in Allowed(job[w].seen)
              \/ "degraded" \in Allowed(job[w].seen)
          BY <2>3, <4>2
        <5> QED BY <2>1, <5>1, TableFacts
      <4> QED BY <1>7, <4>1, <4>2 DEF Advance, Accepts
    <3>2. \/ status[job[w].run] \in Terminal
          \/ job[w].seen = "validating" /\ status[job[w].run] = "validating"
      BY <1>r, <2>1, <3>1 DEF Behind
    <3>3. CASE status[job[w].run] \in Terminal
      BY <2>1, <2>2, <3>3, TableFacts DEF StatusOK, StatusMoves
    <3>4. CASE job[w].seen = "validating" /\ status[job[w].run] = "validating"
      BY <1>7, <2>1, <2>3, <3>4 DEF Advance, Update, Terminal, SessionInv, TypeOK
    <3> QED BY <3>2, <3>3, <3>4
  <2> QED BY <2>1, <2>2, <2>3
<1>8. CASE Start(w)
  BY <1>8, <1>7, <1>w, ReloadSteps DEF Start, States, Active
<1>9. CASE Validate(w)
  BY <1>9, <1>7, <1>w, CommitSteps DEF Validate, States, Active, Labels, Executing
<1>10. ASSUME NEW final \in {"completed", "degraded"}, Conclude(w, final) PROVE Kept
  BY <1>10, <1>7, <1>w, CommitSteps DEF Conclude, States, Terminal, Labels, Executing
<1>11. CASE Deliver(w)
  <2>1. pc[w] \in Handling
    BY <1>11 DEF Deliver, Handling, Executing
  <2>2. SharedOK'
    BY <1>11, <1>r, <2>1, BooksKeepTypes DEF Deliver, SharedOK, SessionInv, TypeOK
  <2> QED BY <1>11, <1>w, <2>2, Unmoved, FinishSteps DEF Deliver
<1>12. CASE ServiceFails(w)
  <2>1. pc[w] \in Handling /\ job[w].seen # None
    BY <1>12 DEF ServiceFails, At, Handling, Executing
  <2> QED BY <1>12, <1>w, <1>s, <2>1, EndingSteps DEF ServiceFails, Unconcluded
<1>13. CASE Abort(w)
  <2>1. pc[w] \in Handling /\ job[w].seen # None /\ job[w].seen \notin Terminal
    BY <1>13 DEF Abort, At, Handling, Executing
  <2>2. job[w].seen \in States /\ Accepts(job[w].seen, "failed")
    BY <1>s, <2>1, TableFacts DEF Accepts, Unconcluded
  <2> QED BY <1>13, <1>w, <2>1, <2>2, EndingSteps DEF Abort, Unconcluded
<1> QED BY <1>1, <1>2, <1>3, <1>4, <1>5, <1>6, <1>8, <1>9, <1>10, <1>11, <1>12, <1>13
        DEF WorkerStep

\* A worker waits, has a message or executes; a message is about a run.
MessageInv ==
    /\ \A w \in Workers : pc[w] \in {"idle", "taken"} \cup Executing
    /\ \A r \in Runs : queue[r] > 0 => status[r] # "none"

\* Every step keeps what the sessions know, and moves statuses by the table.
LEMMA SessionNext == SessionInv /\ MessageInv /\ [Next]_vars => Kept
<1> SUFFICES ASSUME SessionInv, MessageInv, [Next]_vars PROVE Kept
  OBVIOUS
<1>1. ASSUME NEW s \in Sessions, Load(s) PROVE Kept
  <2> DEFINE j == [job[s] EXCEPT !.seen = status[job[s].run]]
  <2>1. pc[s] \in Handling \ {"canceling", "delivering"} /\ status' = status /\ pc' = pc
    BY <1>1 DEF Load, Handling, Executing
  <2>2. job[s] \in Jobs /\ job[s].run \in Runs /\ status[job[s].run] \in States
    BY <2>1 DEF SessionInv, TypeOK, SessionOK, Behind
  <2>3. j \in Jobs /\ j.run = job[s].run /\ j.seen = status[job[s].run]
    BY <2>2 DEF Jobs
  <2>4. Goto(s, pc[s], j) /\ pc[s] \in Labels
    BY <1>1 DEF Load, Goto, SessionInv, TypeOK, Labels, Executing
  <2> HIDE DEF j
  <2>5. job'[s] = j
    BY <2>4 DEF Goto, SessionInv, TypeOK
  <2>6. Behind(status[job[s].run], status[job[s].run])
    BY <2>2, TableFacts DEF Behind
  <2>7. SessionOK(s)'
    BY <2>1, <2>2, <2>3, <2>5, <2>6 DEF SessionOK, Handling, Executing
  <2>8. StatusOK /\ SharedOK'
    BY <1>1, Unmoved, SharedUnmoved DEF Load
  <2> QED BY <2>3, <2>4, <2>7, <2>8, SessionSteps
<1>2. ASSUME NEW w \in Workers, NEW r \in Runs, Take(w, r) PROVE Kept
  <2> DEFINE j == [Blank EXCEPT !.run = r, !.seen = status[r]]
  <2>0. status[r] \in States
    BY <1>2, TableFacts DEF Take, MessageInv, SessionInv, TypeOK
  <2>1. w \in Sessions /\ j \in Jobs /\ j.run = r /\ j.seen = status[r]
    BY <2>0 DEF Sessions, Blank, Jobs
  <2>2. Goto(w, "taken", j) /\ status' = status
    BY <1>2 DEF Take
  <2> HIDE DEF j
  <2>3. pc'[w] = "taken" /\ job'[w] = j
    BY <2>1, <2>2 DEF Goto, SessionInv, TypeOK
  <2>4. SessionOK(w)'
    BY <2>0, <2>1, <2>2, <2>3, TableFacts DEF SessionOK, Behind
  <2>5. StatusOK /\ SharedOK'
    BY <1>2, Unmoved DEF Take, SharedOK, SessionInv, TypeOK, books
  <2> QED BY <2>1, <2>2, <2>4, <2>5, SessionSteps DEF Labels
<1>3. ASSUME NEW w \in Workers, Die(w) \/ OutcomeLost(w) PROVE Kept
  <2>1. job[w].run \in Runs
    BY <1>3 DEF Die, OutcomeLost, At, MessageInv, SessionInv, SessionOK, Handling, Executing, Sessions
  <2>2. SharedOK'
    BY <1>3, <2>1 DEF Die, OutcomeLost, SharedOK, SessionInv, TypeOK, books
  <2> QED BY <1>3, <2>2, Unmoved, FinishSteps DEF Die, OutcomeLost, Sessions
<1>4. ASSUME NEW r \in Runs, Lapse(r) \/ RecoverStale(r) PROVE Kept
  <2>1. StatusOK /\ SharedOK' /\ pc' = pc /\ job' = job
    BY <1>4, Unmoved, BooksKeepTypes DEF Lapse, RecoverStale, SharedOK, SessionInv, TypeOK, books
  <2>2. \A t \in Sessions : SessionOK(t)'
    BY <2>1, OthersKeep DEF StatusOK
  <2> QED BY <2>1, <2>2 DEF Kept, SessionInv, TypeOK, SharedOK, StatusOK
<1>5. CASE UNCHANGED vars
  BY <1>5 DEF vars, books, Kept, StatusMoves, SessionInv, TypeOK, SessionOK, Asked
<1> QED BY <1>1, <1>2, <1>3, <1>4, <1>5, RequestSteps, CancelerSteps, WorkerSteps
        DEF Next

-----------------------------------------------------------------------------
\* A run is not unmade and does not leave a terminal state.
LEMMA StaysMade ==
    ASSUME SessionInv, Kept
    PROVE  \A r \in Runs : /\ status[r] # "none" => status'[r] # "none"
                           /\ status[r] \in Terminal => status'[r] = status[r]
BY TableFacts DEF Kept, StatusMoves, SessionInv, TypeOK

\* Requests and cancelers are not workers; a worker goes where a worker may be.
LEMMA WorkersStay ==
    ASSUME SessionInv, MessageInv, Next, NEW v \in Workers
    PROVE  pc'[v] \in {"idle", "taken"} \cup Executing
<1> DEFINE Places == {"idle", "taken"} \cup Executing
<1>1. v \in Sessions /\ pc[v] \in Places
  BY DEF Sessions, MessageInv
<1>2. ASSUME NEW s \in Sessions, NEW label, NEW j, Goto(s, label, j),
             s = v => label \in Places
      PROVE  pc'[v] \in Places
  BY <1>1, <1>2 DEF Goto, SessionInv, TypeOK
<1>3. CASE UNCHANGED pc
  BY <1>1, <1>3
<1>4. ASSUME NEW q \in Requests, RequestStep(q) \/ QueueUnavailable(q) \/ DropRequest(q)
             \/ \E r \in Runs : Ask(q, r) \/ AskAgain(q, r)
      PROVE  pc'[v] \in Places
  <2>1. q \in Sessions /\ q # v
    BY HarnessConstants DEF Sessions
  <2> QED BY <1>2, <1>4, <2>1
       DEF RequestStep, QueueUnavailable, DropRequest, Ask, AskAgain, Create, CreateRefused,
           Enqueue, EnqueueNothing, Commit, Finish
<1>5. ASSUME NEW c \in Cancelers, Cancel(c) \/ CancelLost(c) \/ \E r \in Runs : AskCancel(c, r)
      PROVE  pc'[v] \in Places
  <2>1. c \in Sessions /\ c # v
    BY HarnessConstants DEF Sessions
  <2> QED BY <1>2, <1>5, <2>1 DEF Cancel, CancelLost, AskCancel, Finish
<1>6. ASSUME NEW w \in Workers,
             WorkerStep(w) \/ Raise(w) \/ OutcomeLost(w) \/ Die(w) \/ \E r \in Runs : Take(w, r)
      PROVE  pc'[v] \in Places
  <2>1. ASSUME NEW label \in Places, NEW j, Goto(w, label, j) PROVE pc'[v] \in Places
    BY <1>2, <2>1 DEF Sessions
  <2>2. ASSUME NEW label \in Places, Commit(w, label) \/ Reload(w, label)
        PROVE  pc'[v] \in Places
    BY <2>1, <2>2 DEF Commit, Reload
  <2>3. CASE Finish(w)
    BY <2>1, <2>3 DEF Finish
  <2>4. CASE ~Finish(w)
    BY <1>6, <2>1, <2>2, <2>4
       DEF WorkerStep, Raise, OutcomeLost, Die, Take, Ignore, TimeOut, Accept, Gather, Freeze, FreezeRefused,
           Start, Validate, Conclude, Illegal, Deliver, ServiceFails, ServiceFailsLate, Abort,
           AbortEnded, Executing
  <2> QED BY <2>3, <2>4
<1> QED BY <1>3, <1>4, <1>5, <1>6 DEF Next, Load, Lapse, RecoverStale

\* Every step keeps it that a message, and a worker, has a run that was made.
LEMMA MessageNext == SessionInv /\ MessageInv /\ [Next]_vars => MessageInv'
<1> SUFFICES ASSUME SessionInv, MessageInv, [Next]_vars PROVE MessageInv'
  OBVIOUS
<1>1. CASE UNCHANGED vars
  BY <1>1 DEF vars, books, MessageInv
<1>2. CASE Next
  <2>0. \A r \in Runs : status[r] # "none" => status'[r] # "none"
    BY SessionNext, StaysMade
  <2>1. ASSUME NEW r \in Runs, queue'[r] > 0 PROVE queue[r] > 0 \/ status[r] # "none"
    <3>1. ASSUME NEW q \in Requests, Enqueue(q) PROVE queue[r] > 0 \/ status[r] # "none"
      <4>1. job[q].run \in Runs /\ status[job[q].run] # "none"
        BY <3>1 DEF Enqueue, At, SessionInv, SessionOK, Handling, Behind, Sessions
      <4> QED BY <2>1, <3>1, <4>1 DEF Enqueue, SessionInv, TypeOK
    <3>2. ASSUME NEW w \in Workers, Die(w) PROVE queue[r] > 0 \/ status[r] # "none"
      <4>1. job[w].run \in Runs /\ status[job[w].run] # "none"
        BY <3>2 DEF Die, MessageInv, SessionInv, SessionOK, Handling, Behind, Sessions
      <4> QED BY <2>1, <3>2, <4>1 DEF Die, SessionInv, TypeOK
    <3>3. ASSUME NEW w \in Workers, NEW x \in Runs, Take(w, x) PROVE queue[r] > 0
      BY <2>1, <3>3 DEF Take, SessionInv, TypeOK
    <3>4. CASE UNCHANGED queue
      BY <2>1, <3>4
    <3>5. ASSUME NEW q \in Requests, ~Enqueue(q),
                 RequestStep(q) \/ QueueUnavailable(q) \/ DropRequest(q)
                 \/ \E x \in Runs : Ask(q, x) \/ AskAgain(q, x)
          PROVE  UNCHANGED queue
      BY <3>5 DEF RequestStep, QueueUnavailable, DropRequest, Ask, AskAgain, Create,
                  CreateRefused, EnqueueNothing
    <3>6. ASSUME NEW w \in Workers, WorkerStep(w) \/ Raise(w) \/ OutcomeLost(w)
          PROVE  UNCHANGED queue
      BY <3>6 DEF WorkerStep, Raise, OutcomeLost, Ignore, TimeOut, Accept, Gather, Freeze, FreezeRefused,
                  Advance, Start, Validate, Conclude, Illegal, Deliver, ServiceFails,
                  ServiceFailsLate, Abort, AbortEnded
    <3> QED BY <1>2, <3>1, <3>2, <3>3, <3>4, <3>5, <3>6
         DEF Next, Load, Cancel, CancelLost, AskCancel, Lapse, RecoverStale
  <2>2. \A r \in Runs : queue[r] > 0 => status[r] # "none"
    BY DEF MessageInv
  <2> QED BY <1>2, <2>0, <2>1, <2>2, WorkersStay DEF MessageInv
<1> QED BY <1>1, <1>2

\* There are no messages in the beginning.
LEMMA MessageInit == Init => MessageInv
BY DEF Init, MessageInv, Sessions

RunsInv == SessionInv /\ MessageInv

\* The two invariants together are inductive.
LEMMA RunsInvariant == Spec => []RunsInv
<1>1. Init => RunsInv
  BY SessionInit, MessageInit DEF RunsInv
<1>2. RunsInv /\ [Next]_vars => RunsInv'
  BY SessionNext, MessageNext DEF RunsInv, Kept
<1> QED BY <1>1, <1>2, PTL DEF Spec

\* Type correctness: rows, reservations, messages and what each session has read.
THEOREM TypeCorrect == Spec => []TypeOK
<1>1. RunsInv => TypeOK
  BY DEF RunsInv, SessionInv
<1> QED BY <1>1, RunsInvariant, PTL

\* No interleaving of requests, workers and cancelers moves a run off the table.
THEOREM EveryMoveLegal == Spec => LegalTransitions
<1>1. RunsInv /\ [Next]_vars =>
        [\A r \in Runs : status'[r] # status[r] =>
            \/ status[r] = "none" /\ status'[r] = "queued"
            \/ status'[r] \in Allowed(status[r])]_vars
  BY SessionNext DEF RunsInv, Kept, StatusMoves
<1> QED BY <1>1, RunsInvariant, PTL DEF Spec, LegalTransitions

-----------------------------------------------------------------------------
(* The credits *)

\* HoldFollowsOutcome, and a reservation exists just where the run does.
HoldInv ==
    /\ HoldFollowsOutcome
    /\ \A r \in Runs : status[r] = "none" <=> hold[r] = "NONE"

\* A step that touches no reservation and ends no run.
LEMMA HoldUnmoved ==
    ASSUME RunsInv, HoldInv, Kept, UNCHANGED books,
           \A r \in Runs : status'[r] # status[r] => status[r] # "none" /\ status'[r] \notin Unconcluded
    PROVE  HoldInv'
<1>1. \A r \in Runs : hold[r] = "SETTLED" => status'[r] = status[r]
  BY StaysMade DEF RunsInv, HoldInv, HoldFollowsOutcome, Terminal
<1>2. \A r \in Runs : status[r] # "none" => status'[r] # "none"
  BY StaysMade DEF RunsInv
<1> QED BY <1>1, <1>2 DEF HoldInv, HoldFollowsOutcome, books

\* A session that ends its run, and refunds it whether or not its update was applied.
LEMMA HoldEnding ==
    ASSUME RunsInv, HoldInv, Kept, NEW s \in Sessions, pc[s] \in Handling,
           NEW to \in Unconcluded, job[s].seen \in States, Accepts(job[s].seen, to),
           Update(job[s].run, job[s].seen, to), Refund(job[s].run), UNCHANGED reported
    PROVE  HoldInv'
<1> DEFINE r == job[s].run
<1>1. r \in Runs /\ Behind(job[s].seen, status[r])
  BY DEF RunsInv, SessionInv, SessionOK
<1>2. \A x \in Runs : x # r => status'[x] = status[x] /\ hold'[x] = hold[x]
  BY <1>1 DEF Update, Refund, RunsInv, SessionInv, TypeOK
<1>3. hold[r] # "NONE" /\ status'[r] # "none"
  BY <1>1, StaysMade DEF Behind, HoldInv, RunsInv
<1>4. hold'[r] = IF hold[r] = "RESERVED" THEN "REFUNDED" ELSE hold[r]
  BY <1>1 DEF Refund, RunsInv, SessionInv, TypeOK
<1>5. hold[r] = "SETTLED" => status'[r] = status[r]
  BY <1>1, StaysMade DEF RunsInv, HoldInv, HoldFollowsOutcome, Terminal
<1>6. hold[r] \in {"RESERVED", "SETTLED", "REFUNDED"}
  BY <1>1, <1>3 DEF RunsInv, SessionInv, TypeOK
<1> HIDE DEF r
<1>7. /\ status'[r] \in Unconcluded => hold'[r] = "REFUNDED"
      /\ hold'[r] = "SETTLED" => status'[r] \in {"completed", "degraded"} /\ r \in reported'
      /\ hold'[r] # "NONE"
  BY <1>1, <1>3, <1>4, <1>5, <1>6 DEF HoldInv, HoldFollowsOutcome, Unconcluded
<1> QED BY <1>2, <1>3, <1>7 DEF HoldInv, HoldFollowsOutcome

\* Every step keeps the reservation of a run in line with its outcome.
LEMMA HoldNext == RunsInv /\ HoldInv /\ [Next]_vars => HoldInv'
<1> SUFFICES ASSUME RunsInv, HoldInv, [Next]_vars PROVE HoldInv'
  OBVIOUS
<1>k. Kept /\ SessionInv
  BY SessionNext DEF RunsInv
<1>1. CASE UNCHANGED <<status, books>>
  BY <1>k, <1>1, HoldUnmoved
<1>2. ASSUME NEW q \in Requests, Create(q) PROVE HoldInv'
  <2>1. job[q].run \in Runs /\ status[job[q].run] = "none"
    BY <1>2, <1>k DEF Create, SessionInv, SessionOK, Sessions
  <2> QED BY <1>2, <1>k, <2>1
       DEF Create, HoldInv, HoldFollowsOutcome, SessionInv, TypeOK, Unconcluded
<1>3. ASSUME NEW q \in Requests, QueueUnavailable(q) PROVE HoldInv'
  BY <1>3, <1>k, HoldEnding
     DEF QueueUnavailable, At, Handling, Accepts, Allowed, Unconcluded, States, Sessions
<1>4. ASSUME NEW c \in Cancelers, Cancel(c) PROVE HoldInv'
  <2>1. c \in Sessions /\ pc[c] = "canceling" /\ job[c].seen \in States \ Terminal
    BY <1>4, <1>k DEF Cancel, At, SessionInv, SessionOK, Sessions
  <2>2. Accepts(job[c].seen, "canceled")
    BY <2>1, TableFacts DEF Accepts, Unconcluded
  <2> QED BY <1>4, <1>k, <2>1, <2>2, HoldEnding DEF Cancel, Handling, Unconcluded
<1>5. ASSUME NEW w \in Workers, TimeOut(w) PROVE HoldInv'
  BY <1>5, <1>k, HoldEnding
     DEF TimeOut, At, Handling, Accepts, Allowed, Unconcluded, States, Sessions
<1>6. ASSUME NEW w \in Workers, ServiceFails(w) \/ Abort(w) PROVE HoldInv'
  <2>1. w \in Sessions /\ pc[w] \in Handling /\ job[w].seen # None
    BY <1>6 DEF ServiceFails, Abort, At, Handling, Executing, Sessions
  <2>2. job[w].seen \in States
    BY <1>k, <2>1 DEF SessionInv, TypeOK, SessionOK, Behind, Jobs
  <2>3. Accepts(job[w].seen, "failed")
    BY <1>6, <2>2, TableFacts DEF ServiceFails, Abort, Accepts, Unconcluded
  <2> QED BY <1>6, <1>k, <2>1, <2>2, <2>3, HoldEnding DEF ServiceFails, Abort, Unconcluded
<1>7. ASSUME NEW w \in Workers, NEW seen, NEW to \in States \ Unconcluded,
             Update(job[w].run, seen, to), UNCHANGED books, pc[w] \in Handling
      PROVE  HoldInv'
  <2>1. job[w].run \in Runs /\ status[job[w].run] # "none"
    BY <1>7, <1>k DEF SessionInv, SessionOK, Behind, Sessions
  <2> QED BY <1>7, <1>k, <2>1, HoldUnmoved DEF Update, SessionInv, TypeOK
<1>8. ASSUME NEW w \in Workers, Accept(w) \/ Start(w) \/ Validate(w) PROVE HoldInv'
  BY <1>7, <1>8 DEF Accept, Start, Validate, Advance, At, Handling, Executing, States, Active,
                    Unconcluded
<1>9. ASSUME NEW w \in Workers, NEW final \in {"completed", "degraded"}, Conclude(w, final)
      PROVE  HoldInv'
  BY <1>7, <1>9 DEF Conclude, Advance, At, Handling, Executing, States, Terminal, Unconcluded
<1>10. ASSUME NEW w \in Workers, Deliver(w) PROVE HoldInv'
  <2> DEFINE r == job[w].run
  <2>1. r \in Runs /\ status[r] \in Terminal /\ UNCHANGED status
    BY <1>10, <1>k DEF Deliver, SessionInv, SessionOK, Handling, Executing, Sessions
  <2>2. hold[r] = "RESERVED" => status[r] \in {"completed", "degraded"}
    BY <2>1 DEF HoldInv, HoldFollowsOutcome, Terminal
  <2>3. /\ \A x \in Runs : x # r => hold'[x] = hold[x]
        /\ hold'[r] = IF hold[r] = "RESERVED" THEN "SETTLED" ELSE hold[r]
        /\ reported' = reported \cup {r}
    BY <1>10, <1>k, <2>1 DEF Deliver, Settle, SessionInv, TypeOK
  <2> HIDE DEF r
  <2> QED BY <2>1, <2>2, <2>3 DEF HoldInv, HoldFollowsOutcome, Unconcluded, Terminal
<1>11. ASSUME NEW r \in Runs, RecoverStale(r) PROVE HoldInv'
  BY <1>11, <1>k DEF RecoverStale, Refund, HoldInv, HoldFollowsOutcome, SessionInv, TypeOK
<1>12. ASSUME NEW w \in Workers, WorkerStep(w) \/ Raise(w) PROVE HoldInv'
  BY <1>1, <1>5, <1>6, <1>8, <1>9, <1>10, <1>12
     DEF WorkerStep, Raise, Ignore, Gather, Freeze, FreezeRefused, Illegal,
         ServiceFailsLate, AbortEnded
<1>13. ASSUME NEW q \in Requests,
              RequestStep(q) \/ DropRequest(q) \/ \E r \in Runs : Ask(q, r) \/ AskAgain(q, r)
       PROVE  HoldInv'
  BY <1>1, <1>2, <1>13
     DEF RequestStep, DropRequest, Ask, AskAgain, CreateRefused, Enqueue, EnqueueNothing
<1>14. ASSUME NEW w \in Workers, OutcomeLost(w) \/ Die(w) \/ \E r \in Runs : Take(w, r)
       PROVE  HoldInv'
  BY <1>1, <1>14 DEF OutcomeLost, Die, Take
<1>15. CASE UNCHANGED vars
  BY <1>1, <1>15 DEF vars
<1> QED BY <1>1, <1>3, <1>4, <1>11, <1>12, <1>13, <1>14, <1>15
     DEF Next, Load, CancelLost, AskCancel, Lapse

\* Reservations are always in line with the outcomes.
LEMMA HoldInvariant == Spec => []HoldInv
<1>1. Init => HoldInv
  BY DEF Init, HoldInv, HoldFollowsOutcome, Unconcluded
<1> QED BY <1>1, HoldNext, RunsInvariant, PTL DEF Spec

\* The credits follow the outcome of a run, whoever ended it: nothing is kept of a
\* run that failed, was canceled or timed out, also when the last update was lost.
THEOREM HoldSafety == Spec => []HoldFollowsOutcome
<1>1. HoldInv => HoldFollowsOutcome
  BY DEF HoldInv
<1> QED BY <1>1, HoldInvariant, PTL

\* A run is asked for only after the runs before it were given up.
ChainInv ==
    \A p, r \in Runs : p < r /\ status[r] # "none" => status[p] \in Retryable

\* A run is made only after all its predecessors have ended without success.
LEMMA ChainNext == RunsInv /\ ChainInv /\ [Next]_vars => ChainInv'
<1> SUFFICES ASSUME RunsInv, ChainInv, [Next]_vars PROVE ChainInv'
  OBVIOUS
<1>k. Kept /\ SessionInv
  BY SessionNext DEF RunsInv
<1>1. \A p \in Runs : status[p] \in Retryable => status'[p] \in Retryable
  BY <1>k, StaysMade DEF Retryable, Terminal, Unconcluded
<1>2. ASSUME NEW r \in Runs, status[r] = "none", status'[r] # "none"
      PROVE  Asked(r)
  <2>1. \A x \in Runs : \A seen, to : Update(x, seen, to) /\ seen # "none" => status'[r] = status[r]
    BY <1>2, <1>k DEF Update, SessionInv, TypeOK
  <2>2. PICK q \in Requests : Create(q)
    <3>1. ASSUME NEW s \in Sessions, pc[s] \in Handling \/ pc[s] = "queueing",
                 NEW to, Update(job[s].run, job[s].seen, to)
          PROVE  FALSE
      BY <1>2, <1>k, <2>1, <3>1 DEF SessionInv, SessionOK, Behind, Handling
    <3>2. ASSUME NEW w \in Workers, WorkerStep(w) PROVE UNCHANGED status
      <4>1. w \in Sessions
        BY DEF Sessions
      <4>2. ~TimeOut(w) /\ ~Accept(w)
        BY <3>1, <4>1 DEF TimeOut, Accept, At, Handling
      <4>3. ~ServiceFails(w) /\ ~Abort(w)
        BY <3>1, <4>1 DEF ServiceFails, Abort, At, Handling, Executing
      <4>4. ~Start(w) /\ ~Validate(w) /\ \A final \in {"completed", "degraded"} : ~Conclude(w, final)
        BY <3>1, <4>1 DEF Start, Validate, Conclude, Advance, At, Handling, Executing
      <4> QED BY <3>2, <4>2, <4>3, <4>4
           DEF WorkerStep, Ignore, Gather, Freeze, FreezeRefused, Illegal, Deliver,
               ServiceFailsLate, AbortEnded
    <3>3. ASSUME NEW c \in Cancelers, Cancel(c) PROVE FALSE
      BY <3>1, <3>3 DEF Cancel, At, Handling, Sessions
    <3>4. ASSUME NEW q \in Requests, QueueUnavailable(q) PROVE FALSE
      BY <3>1, <3>4 DEF QueueUnavailable, At, Handling, Sessions
    <3> QED BY <1>2, <3>2, <3>3, <3>4
         DEF Next, vars, Load, RequestStep, DropRequest, Ask, AskAgain, CreateRefused, Enqueue,
             EnqueueNothing, CancelLost, AskCancel, Raise, OutcomeLost, Die, Take, Lapse, RecoverStale
  <2>3. job[q].run \in Runs /\ Asked(job[q].run) /\ pc[q] = "reserving"
    BY <1>k, <2>2 DEF Create, SessionInv, SessionOK, Sessions
  <2>4. job[q].run = r
    BY <1>2, <1>k, <2>2, <2>3 DEF Create, SessionInv, TypeOK
  <2> QED BY <2>3, <2>4
<1>3. ASSUME NEW p \in Runs, NEW r \in Runs, p < r, status'[r] # "none"
      PROVE  status'[p] \in Retryable
  <2>1. CASE status[r] # "none"
    BY <1>1, <1>3, <2>1 DEF ChainInv
  <2>2. CASE status[r] = "none"
    <3>1. r - 1 \in Runs /\ (r - 1) + 1 = r /\ p <= r - 1
      BY <1>3, HarnessConstants DEF Runs
    <3>2. status[r - 1] \in Retryable
      BY <1>2, <1>3, <2>2, <3>1 DEF Asked
    <3>3. p = r - 1 \/ p < r - 1
      BY <3>1, HarnessConstants DEF Runs
    <3>4. status[p] \in Retryable
      BY <3>1, <3>2, <3>3 DEF ChainInv, Retryable
    <3> QED BY <1>1, <3>4
  <2> QED BY <2>1, <2>2
<1> QED BY <1>3 DEF ChainInv

\* A goal is charged once, however its runs are retried and delivered again: only a
\* run that ended without success gets a successor, and its credits were given back.
THEOREM ChargedAtMostOnce == Spec => []GoalChargedOnce
<1>1. Init => ChainInv
  BY DEF Init, ChainInv
<1>2. ChainInv /\ HoldInv => GoalChargedOnce
  <2> SUFFICES ASSUME ChainInv, HoldInv, NEW r \in Runs, NEW s \in Runs,
                      hold[r] = "SETTLED", hold[s] = "SETTLED", r # s
               PROVE  FALSE
    BY DEF GoalChargedOnce
  <2>1. status[r] \in {"completed", "degraded"} /\ status[s] \in {"completed", "degraded"}
    BY DEF HoldInv, HoldFollowsOutcome
  <2>2. r < s \/ s < r
    BY HarnessConstants DEF Runs
  <2> QED BY <2>1, <2>2 DEF ChainInv, Retryable
<1> QED BY <1>1, <1>2, ChainNext, HoldInvariant, RunsInvariant, PTL DEF Spec

-----------------------------------------------------------------------------
(* The worker of an active run *)

\* The worker knows the status by which its next update takes effect.
Drives(w, r) ==
    job[w].run = r /\ pc[w] \in Executing /\ job[w].seen \in {None, status[r]}

DrivenInv ==
    \A r \in Runs : status[r] \in Active /\ r \notin lost => \E w \in Workers : Drives(w, r)

\* Whoever makes a run active drives it from then on.
LEMMA MoverDrives ==
    ASSUME RunsInv, Next, NEW r \in Runs, status'[r] # status[r], status'[r] \in Active
    PROVE  \E w \in Workers : Drives(w, r)'
<1>k. SessionInv
  BY DEF RunsInv
<1>1. ASSUME NEW x, NEW seen, NEW to \in States \ Active, Update(x, seen, to) PROVE FALSE
  BY <1>1, <1>k DEF Update, SessionInv, TypeOK
<1>2. ASSUME NEW to \in Unconcluded \cup {"completed", "degraded"}
      PROVE  to \in States \ Active
  BY DEF States, Active, Terminal, Unconcluded
<1>3. ASSUME NEW w \in Workers, NEW to \in States, Update(job[w].run, job[w].seen, to)
      PROVE  job[w].run = r /\ status'[r] = to
  BY <1>3, <1>k DEF Update, SessionInv, TypeOK
<1>4. ASSUME NEW w \in Workers, NEW label \in {"gathering", "calling"}, NEW to \in States,
             Update(job[w].run, job[w].seen, to), Reload(w, label)
      PROVE  Drives(w, r)'
  <2>1. w \in Sessions /\ job[w].run = r /\ job[w] \in Jobs
    BY <1>3, <1>4, <1>k DEF Sessions, SessionInv, TypeOK
  <2> QED BY <1>4, <1>k, <2>1 DEF Reload, Goto, Drives, SessionInv, TypeOK, Jobs, Executing
<1>5. ASSUME NEW w \in Workers, Accept(w) \/ Start(w) PROVE Drives(w, r)'
  BY <1>4, <1>5 DEF Accept, Start, Advance, States, Active
<1>6. ASSUME NEW w \in Workers, Validate(w) PROVE Drives(w, r)'
  <2>1. w \in Sessions /\ job[w].run = r /\ job[w] \in Jobs
    BY <1>3, <1>6, <1>k DEF Validate, Advance, Sessions, SessionInv, TypeOK, States, Active
  <2> QED BY <1>6, <1>k, <2>1 DEF Validate, Commit, Goto, Drives, SessionInv, TypeOK, Jobs, Executing
<1>7. ASSUME NEW w \in Workers, WorkerStep(w) \/ Raise(w) PROVE Drives(w, r)'
  <2>1. ~TimeOut(w) /\ ~ServiceFails(w) /\ ~Abort(w)
    BY <1>1, <1>2 DEF TimeOut, ServiceFails, Abort, Unconcluded
  <2>2. \A final \in {"completed", "degraded"} : ~Conclude(w, final)
    BY <1>1, <1>2 DEF Conclude, Advance
  <2> QED BY <1>5, <1>6, <1>7, <2>1, <2>2
       DEF WorkerStep, Raise, Ignore, Gather, Freeze, FreezeRefused, Illegal, Deliver,
           ServiceFailsLate, AbortEnded
<1>8. ASSUME NEW q \in Requests,
             RequestStep(q) \/ QueueUnavailable(q) \/ DropRequest(q)
             \/ \E x \in Runs : Ask(q, x) \/ AskAgain(q, x)
      PROVE  FALSE
  <2>1. ~QueueUnavailable(q)
    BY <1>1, <1>2 DEF QueueUnavailable, Unconcluded
  <2>2. ~Create(q)
    BY <1>k DEF Create, SessionInv, TypeOK, Active
  <2> QED BY <1>8, <2>1, <2>2
       DEF RequestStep, DropRequest, Ask, AskAgain, CreateRefused, Enqueue, EnqueueNothing
<1>9. ASSUME NEW c \in Cancelers, Cancel(c) \/ CancelLost(c) \/ \E x \in Runs : AskCancel(c, x) PROVE FALSE
  BY <1>1, <1>2, <1>9 DEF Cancel, CancelLost, AskCancel, Unconcluded
<1> QED BY <1>7, <1>8, <1>9 DEF Next, Load, OutcomeLost, Die, Take, Lapse, RecoverStale

\* It drives the run until the run is over, somebody else has moved it, it dies or
\* loses its last transaction.
LEMMA DriverStays ==
    ASSUME RunsInv, Next, NEW r \in Runs, status'[r] = status[r], status[r] \in Active,
           r \notin lost', NEW w \in Workers, Drives(w, r)
    PROVE  Drives(w, r)'
<1>k. SessionInv /\ w \in Sessions /\ job[w] \in Jobs /\ status[r] \in States \ Terminal
  BY DEF RunsInv, SessionInv, TypeOK, Sessions, States, Active, Terminal, Unconcluded
<1>o. Behind(job[w].seen, status[r]) /\ pc[w] \notin {"idle", "taken"}
  BY <1>k DEF Drives, SessionInv, SessionOK, Handling, Executing
<1>1. CASE UNCHANGED <<pc, job>>
  BY <1>1 DEF Drives
<1>2. ASSUME NEW s \in Sessions, NEW label, NEW j, Goto(s, label, j), s # w
      PROVE  Drives(w, r)'
  BY <1>2, <1>k DEF Goto, SessionInv, TypeOK, Drives
<1>3. ASSUME NEW label \in Executing, NEW j, j.run = r, j.seen \in {None, status[r]},
             Goto(w, label, j)
      PROVE  Drives(w, r)'
  BY <1>3, <1>k DEF Goto, SessionInv, TypeOK, Drives
<1>4. ASSUME NEW label \in Executing, Commit(w, label) \/ Reload(w, label)
      PROVE  Drives(w, r)'
  <2>1. job[w].run = r
    BY DEF Drives
  <2> QED BY <1>3, <1>4, <1>k, <2>1 DEF Commit, Reload, Jobs
<1>5. ASSUME NEW s \in Sessions, Load(s) PROVE Drives(w, r)'
  BY <1>5, <1>k DEF Load, Drives, SessionInv, TypeOK, Jobs
<1>6. ASSUME NEW to \in Terminal, Update(job[w].run, job[w].seen, to), job[w].seen # None
      PROVE  FALSE
  BY <1>6, <1>k DEF Drives, Update, SessionInv, TypeOK
<1>7. ASSUME WorkerStep(w) \/ Raise(w) PROVE Drives(w, r)'
  <2>1. ~Ignore(w) /\ ~TimeOut(w) /\ ~Accept(w)
    BY <1>o DEF Ignore, TimeOut, Accept, At
  <2>2. ~ServiceFails(w) /\ ~Abort(w)
    BY <1>6 DEF ServiceFails, Abort, At, Terminal, Unconcluded
  <2>3. \A final \in {"completed", "degraded"} : ~Conclude(w, final)
    BY <1>6 DEF Conclude, Advance, At, Terminal
  <2>4. ~AbortEnded(w)
    BY <1>k DEF AbortEnded, At, Drives
  <2>5. ~Deliver(w)
    BY <1>k DEF Deliver, Drives, SessionInv, SessionOK
  <2>6. ASSUME NEW items \in {"some", "empty"}, Gather(w, items) PROVE Drives(w, r)'
    BY <1>3, <1>k, <2>6 DEF Gather, Drives, Jobs, Executing
  <2> QED BY <1>4, <1>7, <2>1, <2>2, <2>3, <2>4, <2>5, <2>6
       DEF WorkerStep, Raise, Freeze, FreezeRefused, Start, Validate, Illegal,
           ServiceFailsLate, Executing
<1>8. ~Die(w) /\ ~OutcomeLost(w) /\ \A x \in Runs : ~Take(w, x)
  BY <1>o DEF Die, OutcomeLost, Take, Drives
<1>9. ASSUME NEW v \in Workers, v # w,
             WorkerStep(v) \/ Raise(v) \/ OutcomeLost(v) \/ Die(v) \/ \E x \in Runs : Take(v, x)
      PROVE  Drives(w, r)'
  <2>1. v \in Sessions
    BY DEF Sessions
  <2> QED BY <1>2, <1>9, <2>1
       DEF WorkerStep, Raise, OutcomeLost, Die, Take, Ignore, TimeOut, Accept, Gather, Freeze, FreezeRefused,
           Start, Validate, Conclude, Illegal, Deliver, ServiceFails, ServiceFailsLate, Abort,
           AbortEnded, Commit, Reload, Finish
<1>10. ASSUME NEW q \in Requests,
              RequestStep(q) \/ QueueUnavailable(q) \/ DropRequest(q)
              \/ \E x \in Runs : Ask(q, x) \/ AskAgain(q, x)
       PROVE  Drives(w, r)'
  <2>1. q \in Sessions /\ q # w
    BY HarnessConstants DEF Sessions
  <2> QED BY <1>2, <1>10, <2>1
       DEF RequestStep, QueueUnavailable, DropRequest, Ask, AskAgain, Create, CreateRefused,
           Enqueue, EnqueueNothing, Commit, Finish
<1>11. ASSUME NEW c \in Cancelers, Cancel(c) \/ CancelLost(c) \/ \E x \in Runs : AskCancel(c, x)
       PROVE  Drives(w, r)'
  <2>1. c \in Sessions /\ c # w
    BY HarnessConstants DEF Sessions
  <2> QED BY <1>2, <1>11, <2>1 DEF Cancel, CancelLost, AskCancel, Finish
<1> QED BY <1>1, <1>5, <1>7, <1>8, <1>9, <1>10, <1>11 DEF Next, Lapse, RecoverStale

\* An active run is driven by a worker of execute_queued_run, unless one died on it
\* or lost the transaction that was to end it: no other error path and no lost update
\* leaves a run in the middle.
THEOREM ActiveRunIsDriven == Spec => []ActiveRunHasWorker
<1>1. Init => DrivenInv
  BY DEF Init, DrivenInv, Active
<1>2. RunsInv /\ DrivenInv /\ [Next]_vars => DrivenInv'
  <2> SUFFICES ASSUME RunsInv, DrivenInv, [Next]_vars PROVE DrivenInv'
    OBVIOUS
  <2>1. CASE UNCHANGED vars
    BY <2>1 DEF vars, DrivenInv, Drives
  <2>2. CASE Next
    <3> SUFFICES ASSUME NEW r \in Runs, status'[r] \in Active, r \notin lost'
                 PROVE  \E w \in Workers : Drives(w, r)'
      BY DEF DrivenInv
    <3>1. CASE status'[r] # status[r]
      BY <2>2, <3>1, MoverDrives
    <3>2. CASE status'[r] = status[r]
      <4>1. lost \subseteq lost'
        BY <2>2 DEF Next, Load, RequestStep, QueueUnavailable, DropRequest, Ask, AskAgain, Create,
             CreateRefused, Enqueue, EnqueueNothing, Cancel, CancelLost, AskCancel, WorkerStep, Raise, OutcomeLost, Die, Take,
             Ignore, TimeOut, Accept, Gather, Freeze, FreezeRefused, Advance, Start, Validate,
             Conclude, Illegal, Deliver, ServiceFails, ServiceFailsLate, Abort, AbortEnded, Lapse,
             RecoverStale
      <4>2. PICK w \in Workers : Drives(w, r)
        BY <3>2, <4>1 DEF DrivenInv
      <4> QED BY <2>2, <3>2, <4>2, DriverStays
    <3> QED BY <3>1, <3>2
  <2> QED BY <2>1, <2>2
<1>3. DrivenInv => ActiveRunHasWorker
  BY DEF DrivenInv, Drives, ActiveRunHasWorker
<1> QED BY <1>1, <1>2, <1>3, RunsInvariant, PTL DEF Spec
=============================================================================
