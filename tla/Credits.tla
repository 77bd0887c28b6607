-------------------------------- MODULE Credits --------------------------------
(***************************************************************************)
(* The credit account of one user: apps/api/services/credit_service.py,    *)
(* the automation budgets of packages/billing/budgets.py, and the writers  *)
(* of the balance around them (Stripe grants, admin adjustments, refunds). *)
(*                                                                         *)
(* Sessions.  A caller is a request or job that reserves credits, works    *)
(* and settles or refunds; a webhook grants the credits of a period; an    *)
(* adjuster and an admin are console requests; a recoverer is the          *)
(* scheduled refund of stale reservations.  A step ends where the code     *)
(* commits, rolls back or waits for a row lock.                            *)
(*                                                                         *)
(* Identity map.  SELECT ... FOR UPDATE locks the users row but does not   *)
(* refresh a User the SQLAlchemy session has already loaded: `cached` is   *)
(* the balance a session loaded and still holds, and the balance it works  *)
(* with under the lock is that one.  A changed balance is written as an    *)
(* absolute value.                                                         *)
(*                                                                         *)
(* Data.  The idempotency key of a task and its derived retry keys are     *)
(* the pairs <<task, 1>>, <<task, 2>>, ...; a ledger entry is its key and  *)
(* its credits_delta, and `replayed` is what the ledger adds up to.        *)
(***************************************************************************)
EXTENDS Integers, FiniteSets, FiniteSetsExt

CONSTANTS
    Callers, Webhooks, Adjusters, Admins, Recoverers,  \* sessions, by role
    Preloading,        \* callers whose session loads the User before reserving
    Tasks,             \* idempotency keys of billable work
    Serialized,        \* tasks that make a report, one at a time per report
    Automated,         \* tasks that carry an automation_key
    Quotes, Actuals,   \* credits estimated before the work, and used by it
    Opening,           \* balance of the account at first
    Adjustments,       \* amounts an admin adds or deducts
    MonthlyCredits, CarryoverCap,
    PerRunLimit, DailyLimit, MonthlyLimit,  \* CreditBudgetPolicy
    Enforced,          \* settings.credit_usage_enforced
    MaxAttempts,       \* bound: reservations of one task
    MaxDay,            \* bound: days of the month that pass
    None               \* no session, no task, nothing loaded

Sessions == Callers \cup Webhooks \cup Adjusters \cup Admins \cup Recoverers
Holds == Tasks \X (1 .. MaxAttempts)

ASSUME CreditConstants ==
    /\ Preloading \subseteq Callers
    /\ Webhooks \cap Admins = {} /\ Adjusters \cap Recoverers = {}
    /\ IsFiniteSet(Tasks)
    /\ Serialized \subseteq Tasks /\ Automated \subseteq Tasks
    /\ Quotes \subseteq Nat /\ Actuals \subseteq Nat /\ Adjustments \subseteq Int
    /\ {Opening, MonthlyCredits, CarryoverCap} \subseteq Nat
    /\ {PerRunLimit, DailyLimit, MonthlyLimit} \subseteq Nat
    /\ Enforced \in BOOLEAN
    /\ MaxAttempts \in Nat /\ MaxDay \in Nat \ {0}
    /\ None \notin Sessions /\ None \notin Tasks /\ None \notin Int

VARIABLES
    balance,      \* User.credit_balance
    replayed,     \* opening balance and every credits_delta of the ledger
    ledger,       \* CreditLedger: key and delta of every entry
    hold,         \* CreditReservationRecord, status "NONE" where there is no row
    paused,       \* CreditBudgetPolicy.paused, or not enabled
    day,          \* day of the month
    delivered,    \* serialized tasks whose Report row exists
    user_lock, row_lock, report_lock,  \* sessions that hold the row and advisory locks
    pc, req       \* where a session is, and what it holds in memory

account == <<balance, replayed, ledger>>
locks == <<user_lock, row_lock, report_lock>>
vars == <<account, hold, paused, day, delivered, locks, pc, req>>

-----------------------------------------------------------------------------
(* Reservations *)

LiveStatus == {"NONE", "RESERVED"}
SettledStatus == {"SETTLED", "SETTLED_CAPPED"}

NoHold == [status |-> "NONE", reserved |-> 0, settled |-> 0, day |-> 0]

\* The reservation _reusable_reservation stops at: the first of the task's retry
\* keys that has no row, or a row that is still RESERVED.
Reusable(t, h) ==
    /\ h[1] = t
    /\ hold[h].status \in LiveStatus
    /\ \A n \in 1 .. h[2] - 1 : hold[<<t, n>>].status \notin LiveStatus

\* What budget_usage counts for a reservation, and for the automation on the given
\* days.
Usage == [h \in Holds |-> IF hold[h].status = "RESERVED" THEN hold[h].reserved
                                                       ELSE hold[h].settled]

Used(days) ==
    SumFunctionOnSet(Usage, {h \in Holds : /\ h[1] \in Automated
                                           /\ hold[h].status \in SettledStatus \cup {"RESERVED"}
                                           /\ hold[h].day \in days})

\* A budget that leaves the run at hand out of the month's usage.
OverBudgetByUsageOnly(t, credits) ==
    /\ t \in Automated
    /\ paused \/ credits > PerRunLimit \/ Used({day}) + credits > DailyLimit
              \/ Used(0 .. MaxDay) > MonthlyLimit

\* assert_automation_budget refuses a run of this many credits.
OverBudget(t, credits) ==
    /\ t \in Automated
    /\ \/ paused
       \/ credits > PerRunLimit
       \/ Used({day}) + credits > DailyLimit
       \/ Used(0 .. MaxDay) + credits > MonthlyLimit

\* What consume_credits and refund_credits move for an amount.
Moved(amount) == IF Enforced THEN amount ELSE 0

-----------------------------------------------------------------------------
(* Sessions and transactions *)

\* A session that works for a task, on reservations, with a balance in memory or
\* None, and an amount.
Request(task, holds, cached, amount) ==
    [task |-> task, holds |-> holds, todo |-> {}, cached |-> cached, view |-> 0,
     amount |-> amount, key |-> None]

Blank == Request(None, {}, None, 0)

Goto(s, label, r) ==
    /\ pc' = [pc EXCEPT ![s] = label]
    /\ req' = [req EXCEPT ![s] = r]

\* A transaction whose row locks outlive it.
EndTransactionKeepingRows(s) ==
    /\ user_lock' = IF user_lock = s THEN None ELSE user_lock
    /\ report_lock' = IF report_lock = s THEN None ELSE report_lock
    /\ UNCHANGED row_lock

\* Commit or rollback: every lock of the transaction is released.
EndTransaction(s) ==
    /\ user_lock' = IF user_lock = s THEN None ELSE user_lock
    /\ row_lock' = [h \in Holds |-> IF row_lock[h] = s THEN None ELSE row_lock[h]]
    /\ report_lock' = IF report_lock = s THEN None ELSE report_lock

Finish(s) ==
    /\ Goto(s, IF s \in Recoverers THEN "idle" ELSE "done", Blank)
    /\ EndTransaction(s)

\* The balance a session has in memory once it has loaded the User.
Loaded(s) == IF s \in Preloading \cup Webhooks THEN balance ELSE None

\* The balance the session works with under the lock.
Seen(s) == IF req[s].cached = None THEN balance ELSE req[s].cached

\* The same SELECT without FOR UPDATE.
ReadUser(s, label, r) ==
    /\ user_lock' = s
    /\ Goto(s, label, [r EXCEPT !.view = Seen(s)])
    /\ UNCHANGED <<row_lock, report_lock>>

\* SELECT ... FROM users ... FOR UPDATE.
LockUser(s, label, r) ==
    /\ user_lock = None
    /\ user_lock' = s
    /\ Goto(s, label, [r EXCEPT !.view = Seen(s)])
    /\ UNCHANGED <<row_lock, report_lock>>

\* A transaction's balance and ledger writes.  An unchanged attribute is not
\* written.
Post(s, delta, entries) ==
    /\ balance' = IF delta = 0 THEN balance ELSE req[s].view + delta
    /\ replayed' = replayed + delta
    /\ ledger' = ledger \cup entries

Entry(kind, of, delta) == [key |-> <<kind, of>>, delta |-> delta]
Posted(key) == \E e \in ledger : e.key = key

Init ==
    /\ balance = Opening /\ replayed = Opening /\ ledger = {}
    /\ hold = [h \in Holds |-> NoHold]
    /\ paused = FALSE /\ day = 1 /\ delivered = {}
    /\ user_lock = None /\ row_lock = [h \in Holds |-> None] /\ report_lock = None
    /\ pc = [s \in Sessions |-> "idle"]
    /\ req = [s \in Sessions |-> Blank]

-----------------------------------------------------------------------------
(* reserve_task and the callers around it *)

\* A report request takes the advisory lock and finds no report yet.
Ask(s, t, q) ==
    /\ pc[s] = "idle"
    /\ t \in Serialized => report_lock = None /\ t \notin delivered
    /\ Goto(s, "lookup", Request(t, {}, Loaded(s), q))
    /\ report_lock' = IF t \in Serialized THEN s ELSE report_lock
    /\ UNCHANGED <<account, hold, paused, day, delivered, user_lock, row_lock>>

\* The report exists already.
AskDelivered(s, t) ==
    /\ pc[s] = "idle" /\ t \in Serialized \cap delivered /\ report_lock = None
    /\ Finish(s)
    /\ UNCHANGED <<account, hold, paused, day, delivered>>

\* A live reservation for the key is returned, by the lookup without a lock or by
\* the one that follows it under the account lock.
ReuseHold(s, h) ==
    /\ pc[s] = "lookup" \/ (pc[s] = "wait" /\ user_lock = None)
    /\ Reusable(req[s].task, h) /\ hold[h].status = "RESERVED"
    /\ Goto(s, "held", Request(req[s].task, {h}, None, 0))
    /\ EndTransaction(s)
    /\ UNCHANGED <<account, hold, paused, day, delivered>>

NoLiveHold(s, h) ==
    /\ pc[s] = "lookup"
    /\ Reusable(req[s].task, h) /\ hold[h].status = "NONE"
    /\ Goto(s, "wait", req[s])
    /\ UNCHANGED <<account, hold, paused, day, delivered, locks>>

\* A reservation without the balance check of consume_credits, and one without the
\* second lookup.
LockAccountUnfunded(s, h) ==
    /\ pc[s] = "wait"
    /\ Reusable(req[s].task, h) /\ hold[h].status = "NONE"
    /\ ~OverBudget(req[s].task, req[s].amount)
    /\ LockUser(s, "reserving", [req[s] EXCEPT !.holds = {h}])
    /\ UNCHANGED <<account, hold, paused, day, delivered>>

LockAccountAnyKey(s, h) ==
    /\ pc[s] = "wait"
    /\ h[1] = req[s].task /\ hold[h].status = "NONE"
    /\ ~OverBudget(req[s].task, req[s].amount)
    /\ Seen(s) >= Moved(req[s].amount)
    /\ LockUser(s, "reserving", [req[s] EXCEPT !.holds = {h}])
    /\ UNCHANGED <<account, hold, paused, day, delivered>>

\* The account lock, the second lookup, the budget and the balance.
LockAccount(s, h) ==
    /\ pc[s] = "wait"
    /\ Reusable(req[s].task, h) /\ hold[h].status = "NONE"
    /\ ~OverBudget(req[s].task, req[s].amount)
    /\ Seen(s) >= Moved(req[s].amount)
    /\ LockUser(s, "reserving", [req[s] EXCEPT !.holds = {h}])
    /\ UNCHANGED <<account, hold, paused, day, delivered>>

\* InsufficientCreditsError: rolled back.
Insufficient(s, h) ==
    /\ pc[s] = "wait" /\ user_lock = None
    /\ Reusable(req[s].task, h) /\ hold[h].status = "NONE"
    /\ ~OverBudget(req[s].task, req[s].amount)
    /\ Seen(s) < Moved(req[s].amount)
    /\ Finish(s)
    /\ UNCHANGED <<account, hold, paused, day, delivered>>

\* AutomationBudgetExceeded: rolled back, the pause included.
BudgetExceeded(s, h) ==
    /\ pc[s] = "wait" /\ user_lock = None
    /\ Reusable(req[s].task, h) /\ hold[h].status = "NONE"
    /\ OverBudget(req[s].task, req[s].amount)
    /\ Goto(s, "denied", Blank)
    /\ EndTransaction(s)
    /\ UNCHANGED <<account, hold, paused, day, delivered>>

\* _persist_budget_pause, in a transaction of its own.
PauseBudget(s) ==
    /\ pc[s] = "denied" /\ user_lock = None
    /\ paused' = TRUE
    /\ Finish(s)
    /\ UNCHANGED <<account, hold, day, delivered>>

\* The hold is taken and the caller commits.
Reserve(s) ==
    /\ pc[s] = "reserving"
    /\ \E h \in req[s].holds :
        LET credits == Moved(req[s].amount) IN
        /\ Post(s, -credits, {Entry("hold", h, -credits)})
        /\ hold' = [hold EXCEPT ![h] = [status |-> "RESERVED", reserved |-> credits,
                                        settled |-> 0, day |-> day]]
    /\ Goto(s, "held", Request(req[s].task, req[s].holds, None, 0))
    /\ EndTransaction(s)
    /\ UNCHANGED <<paused, day, delivered>>

\* The work starts; for a report, once the reservation row is locked and only if
\* nobody delivered the report meanwhile.
StartWork(s) ==
    /\ pc[s] = "held"
    /\ \E h \in req[s].holds :
        IF req[s].task \in Serialized
        THEN /\ row_lock[h] = None /\ req[s].task \notin delivered
             /\ row_lock' = [row_lock EXCEPT ![h] = s]
        ELSE UNCHANGED row_lock
    /\ Goto(s, "working", Request(req[s].task, req[s].holds, Loaded(s), 0))
    /\ UNCHANGED <<account, hold, paused, day, delivered, user_lock, report_lock>>

\* The work of a report that finds no fresh market intelligence writes it and
\* commits, in the session that holds the row: the lock is gone, and what the
\* session has loaded expires.
CommitWork(s) ==
    /\ pc[s] = "working" /\ \E h \in req[s].holds : row_lock[h] = s
    /\ Goto(s, "working", Request(req[s].task, req[s].holds, Loaded(s), 0))
    /\ EndTransaction(s)
    /\ UNCHANGED <<account, hold, paused, day, delivered>>

\* Another caller delivered the report: it is returned, the hold is left alone.
ReturnDelivered(s) ==
    /\ pc[s] = "held" /\ req[s].task \in Serialized \cap delivered
    /\ \A h \in req[s].holds : row_lock[h] = None
    /\ Finish(s)
    /\ UNCHANGED <<account, hold, paused, day, delivered>>

Succeed(s, actual) ==
    /\ pc[s] = "working"
    /\ Goto(s, "settle", [req[s] EXCEPT !.amount = actual])
    /\ UNCHANGED <<account, hold, paused, day, delivered, locks>>

Fail(s) ==
    /\ pc[s] = "working"
    /\ Goto(s, "refund", req[s])
    /\ UNCHANGED <<account, hold, paused, day, delivered, locks>>

-----------------------------------------------------------------------------
(* settle_task *)

RowFree(s, h) == row_lock[h] \in {None, s}

\* A settlement without its Report row.
DeliverNothing(s) == UNCHANGED delivered

\* The Report row and the settlement are committed together.
Deliver(s) == delivered' = delivered \cup ({req[s].task} \cap Serialized)

\* The row is locked and still RESERVED: the difference to the hold is to be moved.
SettleLock(s) ==
    /\ pc[s] = "settle"
    /\ \E h \in req[s].holds :
        /\ RowFree(s, h) /\ hold[h].status = "RESERVED"
        /\ row_lock' = [row_lock EXCEPT ![h] = s]
        /\ Goto(s, IF req[s].amount = hold[h].reserved THEN "settling" ELSE "settle_account",
                req[s])
    /\ UNCHANGED <<account, hold, paused, day, delivered, user_lock, report_lock>>

\* The reservation is settled or refunded already: nothing is charged, and the
\* work is delivered.
SettleAgain(s) ==
    /\ pc[s] = "settle" /\ req[s].task \notin Serialized \cap delivered
    /\ \E h \in req[s].holds : RowFree(s, h) /\ hold[h].status # "RESERVED"
    /\ Deliver(s)
    /\ Finish(s)
    /\ UNCHANGED <<account, hold, paused, day>>

SettleAccount(s) ==
    /\ pc[s] = "settle_account"
    /\ LockUser(s, "settling", req[s])
    /\ UNCHANGED <<account, hold, paused, day, delivered>>

\* An overage the balance cannot pay is capped at the hold.
SettleCommit(s) ==
    /\ pc[s] = "settling" /\ req[s].task \notin Serialized \cap delivered
    /\ \E h \in req[s].holds :
        LET extra == req[s].amount - hold[h].reserved
            capped == Enforced /\ extra > 0 /\ req[s].view < extra
            delta == IF capped THEN 0 ELSE -Moved(extra)
        IN
        /\ Post(s, delta, IF capped \/ extra = 0 THEN {} ELSE {Entry("settle", h, delta)})
        /\ hold' = [hold EXCEPT
              ![h].status = IF capped THEN "SETTLED_CAPPED" ELSE "SETTLED",
              ![h].settled = IF capped THEN hold[h].reserved ELSE req[s].amount]
    /\ Deliver(s)
    /\ Finish(s)
    /\ UNCHANGED <<paused, day>>

\* A second Report row with the same idempotency key is refused: rolled back.
DeliverConflict(s) ==
    /\ pc[s] \in {"settle", "settling"} /\ req[s].task \in Serialized \cap delivered
    /\ Finish(s)
    /\ UNCHANGED <<account, hold, paused, day, delivered>>

-----------------------------------------------------------------------------
(* refund_task, called by a failed caller, an admin or the recovery *)

\* A refund that does not look at the state of the reservation.
RefundLockAnyStatus(s) ==
    /\ pc[s] = "refund"
    /\ \E h \in req[s].holds :
        /\ RowFree(s, h)
        /\ row_lock' = [row_lock EXCEPT ![h] = s]
    /\ Goto(s, "refund_account", req[s])
    /\ UNCHANGED <<account, hold, paused, day, delivered, user_lock, report_lock>>

RefundLock(s) ==
    /\ pc[s] = "refund"
    /\ \E h \in req[s].holds :
        /\ RowFree(s, h) /\ hold[h].status = "RESERVED"
        /\ row_lock' = [row_lock EXCEPT ![h] = s]
    /\ Goto(s, "refund_account", req[s])
    /\ UNCHANGED <<account, hold, paused, day, delivered, user_lock, report_lock>>

\* Already refunded, or settled (ValueError): nothing is moved.
RefundAgain(s) ==
    /\ pc[s] = "refund"
    /\ \E h \in req[s].holds : RowFree(s, h) /\ hold[h].status # "RESERVED"
    /\ Finish(s)
    /\ UNCHANGED <<account, hold, paused, day, delivered>>

RefundAccount(s) ==
    /\ pc[s] = "refund_account"
    /\ LockUser(s, "refunding", [req[s] EXCEPT !.todo = req[s].holds])
    /\ UNCHANGED <<account, hold, paused, day, delivered>>

\* The recovery refunds the rows of its batch one after the other ...
RefundRow(s, h) ==
    /\ pc[s] = "refunding" /\ h \in req[s].todo
    /\ Goto(s, "refunding", [req[s] EXCEPT !.todo = req[s].todo \ {h},
                                           !.amount = req[s].amount + Moved(hold[h].reserved)])
    /\ UNCHANGED <<account, hold, paused, day, delivered, locks>>

\* A refund whose transaction is never committed.
RefundCommitMissing(s) ==
    /\ pc[s] = "refunding" /\ req[s].todo = {}
    /\ Finish(s)
    /\ UNCHANGED <<account, hold, paused, day, delivered>>

\* ... and commits them together.
RefundCommit(s) ==
    /\ pc[s] = "refunding" /\ req[s].todo = {}
    /\ Post(s, req[s].amount,
            {Entry("refund", h, Moved(hold[h].reserved)) : h \in req[s].holds})
    /\ hold' = [h \in Holds |->
          IF h \in req[s].holds THEN [hold[h] EXCEPT !.status = "REFUNDED", !.settled = 0]
          ELSE hold[h]]
    /\ Finish(s)
    /\ UNCHANGED <<paused, day, delivered>>

\* refund_credit_reservation of the admin console.
AdminRefund(a, h) ==
    /\ pc[a] = "idle" /\ hold[h].status # "NONE"
    /\ Goto(a, "refund", Request(None, {h}, None, 0))
    /\ UNCHANGED <<account, hold, paused, day, delivered, locks>>

\* recover_stale_reservations: a batch of RESERVED rows nobody has locked
\* (SKIP LOCKED), refunded in one transaction.
Sweep(w, batch) ==
    /\ pc[w] = "idle" /\ batch # {}
    /\ \A h \in batch : hold[h].status = "RESERVED" /\ row_lock[h] = None
    /\ row_lock' = [h \in Holds |-> IF h \in batch THEN w ELSE row_lock[h]]
    /\ Goto(w, "refund_account", Request(None, batch, None, 0))
    /\ UNCHANGED <<account, hold, paused, day, delivered, user_lock, report_lock>>

-----------------------------------------------------------------------------
(* Grants and adjustments *)

\* A Stripe event of the billing period, possibly delivered more than once.
GrantRead(w) ==
    /\ pc[w] = "idle" /\ ~Posted(<<"grant", None>>)
    /\ Goto(w, "grant", [Request(None, {}, Loaded(w), 0) EXCEPT !.key = <<"grant", None>>])
    /\ UNCHANGED <<account, hold, paused, day, delivered, locks>>

Undoing(kind) ==
    CASE kind = "hold" -> "undo hold"
      [] kind = "settle" -> "undo settle"
      [] OTHER -> "undo adjust"

\* A ledger refund of the whole debit, whatever its reservation settled at.
AdminUndoInFull(a, e) ==
    /\ pc[a] = "idle" /\ e.delta < 0
    /\ \/ /\ e.key[1] = "hold" /\ hold[e.key[2]].status \in SettledStatus
          /\ Goto(a, "grant", [Request(None, {}, None, -e.delta) EXCEPT
                                 !.key = <<Undoing("hold"), e.key[2]>>])
       \/ /\ e.key[1] \in {"settle", "adjust"}
          /\ Goto(a, "grant", [Request(None, {}, None, -e.delta) EXCEPT
                                    !.key = <<Undoing(e.key[1]), e.key[2]>>])
    /\ UNCHANGED <<account, hold, paused, day, delivered, locks>>

\* refund_credit_ledger_entry of the admin console: a debit whose reservation is
\* settled, or that no reservation refers to, is given back.
AdminUndo(a, e) ==
    /\ pc[a] = "idle" /\ e.delta < 0
    /\ \/ /\ e.key[1] = "hold" /\ hold[e.key[2]].status \in SettledStatus
          /\ LET amount == Min({-e.delta, hold[e.key[2]].settled}) IN
             /\ amount > 0
             /\ Goto(a, "grant", [Request(None, {}, None, amount) EXCEPT
                                    !.key = <<Undoing("hold"), e.key[2]>>])
       \/ /\ e.key[1] \in {"settle", "adjust"}
          /\ Goto(a, "grant", [Request(None, {}, None, -e.delta) EXCEPT
                                    !.key = <<Undoing(e.key[1]), e.key[2]>>])
    /\ UNCHANGED <<account, hold, paused, day, delivered, locks>>

\* A grant without the second lookup.
GrantAccountOnce(s) ==
    /\ pc[s] = "grant"
    /\ LockUser(s, "granting",
         IF s \in Webhooks
         THEN [req[s] EXCEPT !.amount =
                 IF CarryoverCap = 0 THEN MonthlyCredits
                 ELSE Min({MonthlyCredits, Max({0, CarryoverCap - Seen(s)})})]
         ELSE req[s])
    /\ UNCHANGED <<account, hold, paused, day, delivered>>

\* The account lock and the second lookup; the period's credits are cut to the
\* carryover cap.
GrantAccount(s) ==
    /\ pc[s] = "grant" /\ ~Posted(req[s].key)
    /\ LockUser(s, "granting",
         IF s \in Webhooks
         THEN [req[s] EXCEPT !.amount =
                 IF CarryoverCap = 0 THEN MonthlyCredits
                 ELSE Min({MonthlyCredits, Max({0, CarryoverCap - Seen(s)})})]
         ELSE req[s])
    /\ UNCHANGED <<account, hold, paused, day, delivered>>

GrantKnown(s) ==
    /\ \/ pc[s] = "idle" /\ s \in Webhooks /\ Posted(<<"grant", None>>)
       \/ pc[s] = "grant" /\ user_lock = None /\ Posted(req[s].key)
    /\ Finish(s)
    /\ UNCHANGED <<account, hold, paused, day, delivered>>

GrantCommit(s) ==
    /\ pc[s] = "granting"
    /\ Post(s, req[s].amount, {[key |-> req[s].key, delta |-> req[s].amount]})
    /\ Finish(s)
    /\ UNCHANGED <<hold, paused, day, delivered>>

\* adjust_user_credits reads the balance without a lock ...
AdjustRead(a, amount) ==
    /\ pc[a] = "idle" /\ amount # 0 /\ balance + amount >= 0
    /\ Goto(a, "adjusting", [Request(None, {}, None, amount) EXCEPT !.view = balance])
    /\ UNCHANGED <<account, hold, paused, day, delivered, locks>>

\* ... and its UPDATE waits for whoever holds the row.
AdjustWrite(a) ==
    /\ pc[a] = "adjusting" /\ user_lock = None
    /\ Post(a, req[a].amount, {Entry("adjust", a, req[a].amount)})
    /\ Finish(a)
    /\ UNCHANGED <<hold, paused, day, delivered>>

-----------------------------------------------------------------------------
(* Budget settings, time, and sessions that die *)

\* update_budget enables the automation, which lifts a pause, or disables it.
update_budget ==
    /\ Automated # {} /\ user_lock = None
    /\ \E enabled \in BOOLEAN : paused' = ~enabled
    /\ UNCHANGED <<account, hold, day, delivered, locks, pc, req>>

NextDay ==
    /\ day < MaxDay
    /\ day' = day + 1
    /\ UNCHANGED <<account, hold, paused, delivered, locks, pc, req>>

\* A process dies or its request fails: nothing of an open transaction remains.
Die(s) ==
    /\ pc[s] \notin {"idle", "done"}
    /\ Finish(s)
    /\ UNCHANGED <<account, hold, paused, day, delivered>>

ReserveStep(s) ==
    \/ \E t \in Tasks : AskDelivered(s, t) \/ \E q \in Quotes : Ask(s, t, q)
    \/ \E h \in Holds : \/ ReuseHold(s, h) \/ NoLiveHold(s, h) \/ LockAccount(s, h)
                        \/ Insufficient(s, h) \/ BudgetExceeded(s, h)
    \/ PauseBudget(s) \/ Reserve(s) \/ StartWork(s) \/ CommitWork(s)
    \/ ReturnDelivered(s) \/ Fail(s) \/ \E a \in Actuals : Succeed(s, a)

SettleStep(s) ==
    SettleLock(s) \/ SettleAgain(s) \/ SettleAccount(s) \/ SettleCommit(s) \/ DeliverConflict(s)

RefundStep(s) ==
    \/ RefundLock(s) \/ RefundAgain(s) \/ RefundAccount(s) \/ RefundCommit(s)
    \/ \E h \in Holds : RefundRow(s, h)

GrantStep(s) == GrantAccount(s) \/ GrantKnown(s) \/ GrantCommit(s)

Next ==
    \/ \E s \in Callers : ReserveStep(s) \/ SettleStep(s)
    \/ \E s \in Callers \cup Admins \cup Recoverers : RefundStep(s)
    \/ \E s \in Webhooks \cup Admins : GrantStep(s)
    \/ \E w \in Webhooks : GrantRead(w)
    \/ \E a \in Admins : (\E h \in Holds : AdminRefund(a, h)) \/ \E e \in ledger : AdminUndo(a, e)
    \/ \E w \in Recoverers : \E batch \in SUBSET Holds : Sweep(w, batch)
    \/ \E a \in Adjusters : AdjustWrite(a) \/ \E n \in Adjustments : AdjustRead(a, n)
    \/ \E s \in Sessions : Die(s)
    \/ update_budget \/ NextDay

Spec == Init /\ [][Next]_vars

-----------------------------------------------------------------------------
(* Properties *)

HoldRecord == [status : LiveStatus \cup SettledStatus \cup {"REFUNDED"},
               reserved : Nat, settled : Nat, day : 0 .. MaxDay]

Labels == {"idle", "lookup", "wait", "denied", "reserving", "held", "working",
           "settle", "settle_account", "settling", "refund", "refund_account", "refunding",
           "grant", "granting", "adjusting", "done"}

GrantKeys ==
    {"grant", "undo hold", "undo settle", "undo adjust"} \X (Holds \cup Sessions \cup {None})

Requests == [task : Tasks \cup {None}, holds : SUBSET Holds, todo : SUBSET Holds,
             cached : Nat \cup {None}, view : Nat, amount : Int,
             key : GrantKeys \cup {None}]

\* The balance is never negative, whatever is stale when it is written.
TypeOK ==
    /\ balance \in Nat /\ replayed \in Int
    /\ \A e \in ledger : e.delta \in Int
    /\ hold \in [Holds -> HoldRecord]
    /\ paused \in BOOLEAN /\ day \in 1 .. MaxDay /\ delivered \subseteq Serialized
    /\ {user_lock, report_lock} \subseteq Sessions \cup {None}
    /\ row_lock \in [Holds -> Sessions \cup {None}]
    /\ pc \in [Sessions -> Labels]
    /\ req \in [Sessions -> Requests]

\* What the ledger moved for a reservation, by the kinds of entry given.
Net(h, kinds) ==
    SumFunction([e \in {f \in ledger : f.key \in kinds \X {h}} |-> e.delta])

\* The ledger charges a reservation exactly what its row says: the hold while it
\* is RESERVED, what was settled (the hold, if capped) once it is settled, and
\* nothing before it exists or after it is refunded, whoever settles, refunds or
\* recovers it, in whatever order, and however often.
ChargedOnce ==
    \A h \in Holds :
        Net(h, {"hold", "settle", "refund"}) =
            CASE hold[h].status = "RESERVED" -> -hold[h].reserved
              [] hold[h].status \in SettledStatus -> -Moved(hold[h].settled)
              [] OTHER -> 0

\* refund_task, the settlement's refund and the console's ledger refund never give
\* back more for a reservation than was taken for it.
NeverOverRefunded ==
    \A h \in Holds :
        Net(h, {"hold", "settle", "refund", "undo hold", "undo settle"}) <= 0

\* An idempotency key moves credits once: the ledger's entries, one per key, are
\* all that was ever added to the account, duplicate Stripe events and repeated
\* refunds included.
KeysMoveOnce ==
    /\ \A e, f \in ledger : e.key = f.key => e = f
    /\ replayed = Opening + SumFunction([e \in ledger |-> e.delta])

\* A task has one live hold: requests that race for its key share the reservation
\* or take a retry key one after another, and a retry key is used only when every
\* earlier attempt is terminal.
OneHoldPerTask ==
    \A t \in Tasks : \A n \in 1 .. MaxAttempts :
        hold[<<t, n>>].status # "NONE" =>
            \A m \in 1 .. n - 1 : hold[<<t, m>>].status \notin LiveStatus

\* A report is charged at most once, however many requests for it work at the same
\* time (the work drops the row lock), fail, die or are refunded on the way.
ReportChargedOnce ==
    \A h, g \in Holds :
        /\ h[1] = g[1] /\ h[1] \in Serialized
        /\ hold[h].status \in SettledStatus /\ hold[g].status \in SettledStatus
        => h = g

\* An automated hold is never taken while its budget is paused, and leaves the
\* usage of the day and of the month within their limits.
BudgetKept ==
    [][\A h \in Holds :
         /\ h[1] \in Automated
         /\ hold[h].status = "NONE" /\ hold'[h].status = "RESERVED"
         => /\ ~paused
            /\ Used({day})' <= DailyLimit
            /\ Used(0 .. MaxDay)' <= MonthlyLimit]_vars

\* A session that loads the User under the account lock and not before moves the
\* balance by what it writes to the ledger, whoever else reserves, settles, grants,
\* refunds or adjusts: what a write discards, a session with an older User in
\* memory or an adjustment has discarded.
FreshPosts ==
    [][\A s \in Sessions :
         /\ pc[s] \in {"reserving", "settling", "refunding", "granting"}
         /\ pc'[s] # pc[s] /\ req[s].cached = None
         => balance' - balance = replayed' - replayed]_vars

-----------------------------------------------------------------------------
(* What the documentation says, and the code does not do *)

\* The account is what its ledger replays to: no session's write of the balance
\* discards another's.
BalanceIsLedger == balance = replayed

\* A report that was delivered is paid for: one of its reservations is settled.
DeliveredIsPaid ==
    \A t \in delivered : \E h \in Holds : h[1] = t /\ hold[h].status \in SettledStatus

-----------------------------------------------------------------------------
(* Liveness *)

\* A statement that waits for a row lock gets it, a request that has its locks goes
\* on, the work ends in one way or the other, and the recovery keeps running even
\* if some of its transactions die.
Fairness ==
    /\ \A s \in Callers :
        /\ WF_vars(ReserveStep(s) /\ pc[s] # "idle")
        /\ SF_vars(SettleStep(s))
    /\ \A s \in Callers \cup Admins : SF_vars(RefundStep(s))
    /\ \A s \in Webhooks \cup Admins : SF_vars(GrantStep(s) /\ pc[s] # "idle")
    /\ \A s \in Adjusters : SF_vars(AdjustWrite(s))
    /\ \A w \in Recoverers :
        /\ WF_vars(\E batch \in SUBSET Holds : Sweep(w, batch))
        /\ SF_vars(RefundAccount(w)) /\ SF_vars(RefundCommit(w))
        /\ \A n \in 1 .. Cardinality(Tasks) :
            SF_vars(Cardinality(req[w].todo) = n /\ \E h \in Holds : RefundRow(w, h))

FairSpec == Spec /\ Fairness

\* Credits are not withheld for ever: a hold whose caller died, or returned without
\* settling it, is settled or refunded in the end.
HoldsResolve == \A h \in Holds : hold[h].status = "RESERVED" ~> hold[h].status # "RESERVED"

\* Reservation rows are locked before the account: no set of sessions waits for
\* one another for ever.
SessionsEnd ==
    \A s \in Sessions \ Recoverers : pc[s] # "idle" ~> pc[s] = "done"

=============================================================================
