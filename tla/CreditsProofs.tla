----------------------------- MODULE CreditsProofs -----------------------------
(***************************************************************************)
(* The safety of the credit account, for any number of sessions, tasks,    *)
(* amounts and limits.  The argument goes up in layers, each inductive     *)
(* given the ones below it:                                                *)
(*   TypeInv    types, and what a session has checked about its amounts;   *)
(*   HoldInv    which reservations a session works on, and one live        *)
(*              reservation for each task;                                 *)
(*   RowInv     who has a reservation's row locked, and what it read of it;*)
(*   LedgerInv  which entries a reservation has by its status;             *)
(*   FreshInv   what a session that loaded the User under the lock has of  *)
(*              the balance;                                               *)
(*   BudgetInv  the room a session about to reserve has found.             *)
(***************************************************************************)
EXTENDS Credits, Sums, TLAPS

\* What a session has checked about the amounts it holds in memory.
Bookkeeping ==
    \A s \in Sessions :
        /\ pc[s] # "adjusting" => req[s].amount >= 0
        /\ pc[s] = "adjusting" => req[s].view + req[s].amount >= 0
        /\ pc[s] = "reserving" => req[s].view >= Moved(req[s].amount)
        /\ pc[s] \in {"grant", "granting"} => req[s].key \in GrantKeys

\* The console looks up the reservation of a debit in its ledger entry.
KeyTyped(e) ==
    /\ e.key[1] \in {"hold", "settle"} => e.key[2] \in Holds
    /\ e.key[1] = "adjust" => e.key[2] \in Sessions

LedgerKeys == \A e \in ledger : KeyTyped(e)

TypeInv == TypeOK /\ Bookkeeping /\ LedgerKeys

\* Its parts, by who writes them: the sessions, the locks, the account, the rows.
SessionsTyped == pc \in [Sessions -> Labels] /\ req \in [Sessions -> Requests] /\ Bookkeeping

LocksTyped ==
    /\ {user_lock, report_lock} \subseteq Sessions \cup {None}
    /\ row_lock \in [Holds -> Sessions \cup {None}]

AccountTyped ==
    /\ balance \in Nat /\ replayed \in Int
    /\ \A e \in ledger : e.delta \in Int
    /\ LedgerKeys

RowsTyped ==
    /\ hold \in [Holds -> HoldRecord]
    /\ paused \in BOOLEAN /\ day \in 1 .. MaxDay /\ delivered \subseteq Serialized

LEMMA TypeParts ==
    ASSUME SessionsTyped', LocksTyped', AccountTyped', RowsTyped'
    PROVE  TypeInv'
BY DEF TypeInv, TypeOK, SessionsTyped, LocksTyped, AccountTyped, RowsTyped

\* A step that leaves the account and the rows, or all but the sessions, alone.
LEMMA SessionOnly ==
    ASSUME TypeInv, SessionsTyped', LocksTyped',
           UNCHANGED <<account, hold, paused, day, delivered>>
    PROVE  TypeInv'
<1>1. AccountTyped'
  BY DEF TypeInv, TypeOK, AccountTyped, LedgerKeys, account
<1>2. RowsTyped'
  BY DEF TypeInv, TypeOK, RowsTyped
<1> QED BY <1>1, <1>2, TypeParts

LEMMA LocalOnly ==
    ASSUME TypeInv, SessionsTyped', UNCHANGED <<account, hold, paused, day, delivered, locks>>
    PROVE  TypeInv'
<1>1. LocksTyped'
  BY DEF TypeInv, TypeOK, LocksTyped, locks
<1>2. UNCHANGED <<account, hold, paused, day, delivered>>
  OBVIOUS
<1> QED BY <1>1, <1>2, SessionOnly

LEMMA MinOfTwo ==
    ASSUME NEW a \in Int, NEW b \in Int
    PROVE  Min({a, b}) \in {a, b} /\ Min({a, b}) <= a /\ Min({a, b}) <= b
<1>1. PICK x \in {a, b} : \A y \in {a, b} : x <= y
  BY SMT
<1> QED BY <1>1 DEF Min

LEMMA MaxOfTwo ==
    ASSUME NEW a \in Int, NEW b \in Int
    PROVE  Max({a, b}) \in {a, b} /\ Max({a, b}) >= a /\ Max({a, b}) >= b
<1>1. PICK x \in {a, b} : \A y \in {a, b} : x >= y
  BY SMT
<1> QED BY <1>1 DEF Max

LEMMA TypeInit == Init => TypeInv
<1> SUFFICES ASSUME Init PROVE TypeInv
  OBVIOUS
<1>1. Blank \in Requests /\ Blank.amount = 0
  BY CreditConstants DEF Blank, Request, Requests
<1>2. NoHold \in HoldRecord
  BY CreditConstants DEF NoHold, HoldRecord, LiveStatus
<1>3. TypeOK
  <2>1. balance \in Nat /\ replayed \in Int /\ \A e \in ledger : e.delta \in Int
    BY CreditConstants DEF Init
  <2>2. hold \in [Holds -> HoldRecord]
    BY <1>2 DEF Init
  <2>3. paused \in BOOLEAN
    BY DEF Init
  <2>6. day \in 1 .. MaxDay /\ delivered \subseteq Serialized
    BY CreditConstants DEF Init
  <2>4. /\ {user_lock, report_lock} \subseteq Sessions \cup {None}
        /\ row_lock \in [Holds -> Sessions \cup {None}]
    BY DEF Init
  <2>5. pc \in [Sessions -> Labels] /\ req \in [Sessions -> Requests]
    BY <1>1 DEF Init, Labels
  <2> QED BY <2>1, <2>2, <2>3, <2>4, <2>5, <2>6 DEF TypeOK
<1>4. Bookkeeping /\ LedgerKeys
  BY <1>1 DEF Init, Bookkeeping, LedgerKeys
<1> QED BY <1>3, <1>4 DEF TypeInv

\* What a session's own variables look like after a step to another label, and
\* after the end of its transaction.
LEMMA GotoTyped ==
    ASSUME TypeInv, NEW s \in Sessions, NEW label \in Labels, NEW r \in Requests,
           Goto(s, label, r),
           label # "adjusting" => r.amount >= 0,
           label = "adjusting" => r.view + r.amount >= 0,
           label = "reserving" => r.view >= Moved(r.amount),
           label \in {"grant", "granting"} => r.key \in GrantKeys
    PROVE  SessionsTyped'
<1>1. pc' = [pc EXCEPT ![s] = label] /\ req' = [req EXCEPT ![s] = r]
  BY DEF Goto
<1>2. pc' \in [Sessions -> Labels] /\ req' \in [Sessions -> Requests]
  BY <1>1 DEF TypeInv, TypeOK
<1>3. ASSUME NEW q \in Sessions
      PROVE  /\ pc'[q] = IF q = s THEN label ELSE pc[q]
             /\ req'[q] = IF q = s THEN r ELSE req[q]
  BY <1>1 DEF TypeInv, TypeOK
<1>4. Bookkeeping'
  BY <1>3 DEF TypeInv, Bookkeeping, Moved
<1> QED BY <1>2, <1>4 DEF SessionsTyped

LEMMA FinishTyped ==
    ASSUME TypeInv, NEW s \in Sessions, Finish(s)
    PROVE  SessionsTyped' /\ LocksTyped'
<1>1. Blank \in Requests /\ Blank.amount = 0
  BY CreditConstants DEF Blank, Request, Requests
<1>2. Goto(s, IF s \in Recoverers THEN "idle" ELSE "done", Blank)
  BY DEF Finish
<1>3. (IF s \in Recoverers THEN "idle" ELSE "done") \in Labels \ {"adjusting", "reserving", "grant", "granting"}
  BY DEF Labels
<1>4. SessionsTyped'
  BY <1>1, <1>2, <1>3, GotoTyped
<1> QED
  BY <1>4 DEF Finish, EndTransaction, TypeInv, TypeOK, LocksTyped

LEMMA SeenTyped ==
    ASSUME TypeInv, NEW s \in Sessions
    PROVE  Seen(s) \in Nat /\ Loaded(s) \in Nat \cup {None}
BY DEF TypeInv, TypeOK, Requests, Seen, Loaded

LEMMA LockUserTyped ==
    ASSUME TypeInv, NEW s \in Sessions, NEW label \in Labels \ {"adjusting"}, NEW r \in Requests,
           LockUser(s, label, r), r.amount >= 0,
           label = "reserving" => Seen(s) >= Moved(r.amount),
           label \in {"grant", "granting"} => r.key \in GrantKeys
    PROVE  SessionsTyped' /\ LocksTyped'
<1> DEFINE q == [r EXCEPT !.view = Seen(s)]
<1>1. q \in Requests /\ q.amount = r.amount /\ q.key = r.key /\ q.view = Seen(s)
  BY SeenTyped DEF Requests
<1>2. Goto(s, label, q)
  BY DEF LockUser
<1>3. SessionsTyped'
  <2> HIDE DEF q
  <2> QED BY <1>1, <1>2, GotoTyped
<1> QED
  BY <1>3 DEF LockUser, TypeInv, TypeOK, LocksTyped

\* What a transaction posts keeps the account well-formed if the balance it writes
\* is not negative.
LEMMA PostTyped ==
    ASSUME TypeInv, NEW s \in Sessions, NEW delta \in Int, NEW entries,
           \A e \in entries : e.delta \in Int /\ KeyTyped(e),
           Post(s, delta, entries), delta # 0 => req[s].view + delta >= 0
    PROVE  AccountTyped'
<1>1. req[s].view \in Nat
  BY DEF TypeInv, TypeOK, Requests
<1>2. balance' \in Nat /\ replayed' \in Int
  BY <1>1 DEF Post, TypeInv, TypeOK
<1>3. ledger' = ledger \cup entries
  BY DEF Post
<1>4. (\A e \in ledger' : e.delta \in Int) /\ LedgerKeys'
  BY <1>3 DEF TypeInv, TypeOK, LedgerKeys
<1> QED BY <1>2, <1>4 DEF AccountTyped

\* A reservation row that is written is a well-formed one.
LEMMA WriteHold ==
    ASSUME TypeInv, NEW h \in Holds, NEW row \in HoldRecord, hold' = [hold EXCEPT ![h] = row]
    PROVE  hold' \in [Holds -> HoldRecord]
BY DEF TypeInv, TypeOK

LEMMA ReserveStepTyped ==
    ASSUME TypeInv, NEW s \in Callers, ReserveStep(s)
    PROVE  TypeInv'
<1> s \in Sessions
  BY DEF Sessions
<1>r. req[s] \in Requests /\ pc[s] \in Labels
  BY DEF TypeInv, TypeOK
<1>a. pc[s] # "adjusting" => req[s].amount >= 0
  BY DEF TypeInv, Bookkeeping
<1>0. Blank \in Requests /\ Blank.amount = 0
  BY CreditConstants DEF Blank, Request, Requests
<1>1. ASSUME NEW t \in Tasks, AskDelivered(s, t) PROVE TypeInv'
  BY <1>1, FinishTyped, SessionOnly DEF AskDelivered
<1>2. ASSUME NEW t \in Tasks, NEW q \in Quotes, Ask(s, t, q) PROVE TypeInv'
  <2> DEFINE r == Request(t, {}, Loaded(s), q)
  <2>1. r \in Requests /\ r.amount >= 0
    <3>1. Loaded(s) \in Nat \cup {None} /\ q \in Nat
      BY SeenTyped, CreditConstants
    <3> QED BY <3>1 DEF Request, Requests
  <2>2. Goto(s, "lookup", r)
    BY <1>2 DEF Ask
  <2>3. SessionsTyped'
    <3> HIDE DEF r
    <3> QED BY <2>1, <2>2, GotoTyped DEF Labels
  <2>4. LocksTyped'
    BY <1>2 DEF Ask, TypeInv, TypeOK, LocksTyped
  <2> QED BY <1>2, <2>3, <2>4, SessionOnly DEF Ask
<1>3. ASSUME NEW h \in Holds, ReuseHold(s, h) PROVE TypeInv'
  <2> DEFINE r == Request(req[s].task, {h}, None, 0)
  <2>1. r \in Requests /\ r.amount >= 0
    BY <1>r DEF Request, Requests
  <2>2. Goto(s, "held", r)
    BY <1>3 DEF ReuseHold
  <2>3. SessionsTyped'
    <3> HIDE DEF r
    <3> QED BY <2>1, <2>2, GotoTyped DEF Labels
  <2>4. LocksTyped'
    BY <1>3 DEF ReuseHold, EndTransaction, TypeInv, TypeOK, LocksTyped
  <2> QED BY <1>3, <2>3, <2>4, SessionOnly DEF ReuseHold
<1>4. ASSUME NEW h \in Holds, NoLiveHold(s, h) PROVE TypeInv'
  BY <1>4, <1>r, <1>a, GotoTyped, LocalOnly DEF NoLiveHold, Labels
<1>5. ASSUME NEW h \in Holds, LockAccount(s, h) PROVE TypeInv'
  <2> DEFINE r == [req[s] EXCEPT !.holds = {h}]
  <2>1. r \in Requests /\ r.amount >= 0 /\ r.amount = req[s].amount
    BY <1>5, <1>r, <1>a DEF Requests, LockAccount
  <2>2. LockUser(s, "reserving", r) /\ Seen(s) >= Moved(r.amount)
    BY <1>5, <2>1 DEF LockAccount
  <2>3. SessionsTyped' /\ LocksTyped'
    <3> HIDE DEF r
    <3> QED BY <2>1, <2>2, LockUserTyped DEF Labels
  <2> QED BY <1>5, <2>3, SessionOnly DEF LockAccount
<1>6. ASSUME NEW h \in Holds, Insufficient(s, h) PROVE TypeInv'
  BY <1>6, FinishTyped, SessionOnly DEF Insufficient
<1>7. ASSUME NEW h \in Holds, BudgetExceeded(s, h) PROVE TypeInv'
  <2>1. SessionsTyped'
    BY <1>7, <1>0, GotoTyped DEF BudgetExceeded, Labels
  <2>2. LocksTyped'
    BY <1>7 DEF BudgetExceeded, EndTransaction, TypeInv, TypeOK, LocksTyped
  <2> QED BY <1>7, <2>1, <2>2, SessionOnly DEF BudgetExceeded
<1>8. ASSUME PauseBudget(s) PROVE TypeInv'
  <2>1. RowsTyped'
    <3>1. paused' \in BOOLEAN
      BY <1>8 DEF PauseBudget
    <3> QED BY <1>8, <3>1 DEF PauseBudget, TypeInv, TypeOK, RowsTyped
  <2>2. AccountTyped'
    BY <1>8 DEF PauseBudget, TypeInv, TypeOK, AccountTyped, LedgerKeys, account
  <2>3. SessionsTyped' /\ LocksTyped'
    BY <1>8, FinishTyped DEF PauseBudget
  <2> QED BY <2>1, <2>2, <2>3, TypeParts
<1>9. ASSUME Reserve(s) PROVE TypeInv'
  <2>1. PICK h \in req[s].holds :
           LET credits == Moved(req[s].amount) IN
           /\ Post(s, -credits, {Entry("hold", h, -credits)})
           /\ hold' = [hold EXCEPT ![h] = [status |-> "RESERVED", reserved |-> credits,
                                           settled |-> 0, day |-> day]]
    BY <1>9 DEF Reserve
  <2>2. h \in Holds
    BY <1>r DEF Requests
  <2>3. Moved(req[s].amount) \in Nat /\ req[s].view >= Moved(req[s].amount)
    BY <1>9, <1>r, <1>a DEF Reserve, Moved, Requests, TypeInv, Bookkeeping
  <2> DEFINE credits == Moved(req[s].amount)
             row == [status |-> "RESERVED", reserved |-> credits, settled |-> 0, day |-> day]
             entry == Entry("hold", h, -credits)
  <2>4. AccountTyped'
    <3>1. entry.delta = -credits /\ KeyTyped(entry)
      BY <2>2 DEF Entry, KeyTyped
    <3>2. -credits \in Int /\ req[s].view + (-credits) >= 0
      BY <2>3, <1>r DEF Requests
    <3>3. Post(s, -credits, {entry})
      BY <2>1
    <3> HIDE DEF entry, credits
    <3> QED BY <3>1, <3>2, <3>3, <2>2, PostTyped
  <2>5. RowsTyped'
    <3>1. row \in HoldRecord
      BY <2>3 DEF HoldRecord, LiveStatus, TypeInv, TypeOK
    <3>2. hold' \in [Holds -> HoldRecord]
      BY <2>1, <2>2, <3>1, WriteHold
    <3> QED BY <1>9, <3>2 DEF Reserve, RowsTyped, TypeInv, TypeOK
  <2>6. SessionsTyped'
    <3> DEFINE r == Request(req[s].task, req[s].holds, None, 0)
    <3>1. r \in Requests /\ r.amount = 0
      BY <1>r DEF Request, Requests
    <3>2. Goto(s, "held", r)
      BY <1>9 DEF Reserve
    <3> HIDE DEF r
    <3> QED BY <3>1, <3>2, GotoTyped DEF Labels
  <2>7. LocksTyped'
    BY <1>9 DEF Reserve, EndTransaction, TypeInv, TypeOK, LocksTyped
  <2> QED BY <2>4, <2>5, <2>6, <2>7, TypeParts
<1>10. ASSUME StartWork(s) PROVE TypeInv'
  <2> DEFINE r == Request(req[s].task, req[s].holds, Loaded(s), 0)
  <2>1. r \in Requests /\ r.amount = 0
    BY <1>r, SeenTyped DEF Request, Requests
  <2>4. Goto(s, "working", r)
    BY <1>10 DEF StartWork
  <2>2. SessionsTyped'
    <3> HIDE DEF r
    <3> QED BY <2>1, <2>4, GotoTyped DEF Labels
  <2>3. LocksTyped'
    BY <1>10, <1>r DEF StartWork, Requests, TypeInv, TypeOK, LocksTyped
  <2> QED BY <1>10, <2>2, <2>3, SessionOnly DEF StartWork
<1>14. ASSUME CommitWork(s) PROVE TypeInv'
  <2> DEFINE r == Request(req[s].task, req[s].holds, Loaded(s), 0)
  <2>1. r \in Requests /\ r.amount = 0
    BY <1>r, SeenTyped DEF Request, Requests
  <2>2. Goto(s, "working", r)
    BY <1>14 DEF CommitWork
  <2>3. SessionsTyped'
    <3> HIDE DEF r
    <3> QED BY <2>1, <2>2, GotoTyped DEF Labels
  <2>4. LocksTyped'
    BY <1>14 DEF CommitWork, EndTransaction, TypeInv, TypeOK, LocksTyped
  <2> QED BY <1>14, <2>3, <2>4, SessionOnly DEF CommitWork
<1>11. ASSUME ReturnDelivered(s) PROVE TypeInv'
  BY <1>11, FinishTyped, SessionOnly DEF ReturnDelivered
<1>12. ASSUME Fail(s) PROVE TypeInv'
  BY <1>12, <1>r, <1>a, GotoTyped, LocalOnly DEF Fail, Labels
<1>13. ASSUME NEW a \in Actuals, Succeed(s, a) PROVE TypeInv'
  <2> DEFINE r == [req[s] EXCEPT !.amount = a]
  <2>1. r \in Requests /\ r.amount >= 0 /\ Goto(s, "settle", r)
    BY <1>13, <1>r, CreditConstants DEF Requests, Succeed
  <2>2. SessionsTyped'
    <3> HIDE DEF r
    <3> QED BY <2>1, GotoTyped DEF Labels
  <2> QED BY <1>13, <2>2, LocalOnly DEF Succeed
<1> QED
  BY <1>1, <1>2, <1>3, <1>4, <1>5, <1>6, <1>7, <1>8, <1>9, <1>10, <1>11, <1>12, <1>13, <1>14
  DEF ReserveStep

LEMMA SettleStepTyped ==
    ASSUME TypeInv, NEW s \in Callers, SettleStep(s)
    PROVE  TypeInv'
<1> s \in Sessions
  BY DEF Sessions
<1>r. req[s] \in Requests /\ pc[s] \in Labels
  BY DEF TypeInv, TypeOK
<1>a. pc[s] # "adjusting" => req[s].amount >= 0
  BY DEF TypeInv, Bookkeeping
<1>1. ASSUME SettleLock(s) PROVE TypeInv'
  <2>1. PICK h \in req[s].holds :
           /\ row_lock' = [row_lock EXCEPT ![h] = s]
           /\ Goto(s, IF req[s].amount = hold[h].reserved THEN "settling" ELSE "settle_account",
                   req[s])
    BY <1>1 DEF SettleLock
  <2>2. req[s].amount >= 0
    BY <1>1, <1>a DEF SettleLock
  <2>3. (IF req[s].amount = hold[h].reserved THEN "settling" ELSE "settle_account")
        \in Labels \ {"adjusting", "reserving", "grant", "granting"}
    BY DEF Labels
  <2>4. SessionsTyped'
    BY <2>1, <2>2, <2>3, <1>r, GotoTyped
  <2>5. LocksTyped'
    BY <1>1, <2>1 DEF SettleLock, TypeInv, TypeOK, LocksTyped
  <2> QED BY <1>1, <2>4, <2>5, SessionOnly DEF SettleLock
<1>2. ASSUME SettleAgain(s) PROVE TypeInv'
  <2>1. AccountTyped'
    BY <1>2 DEF SettleAgain, TypeInv, TypeOK, AccountTyped, LedgerKeys, account
  <2>2. RowsTyped'
    BY <1>2 DEF SettleAgain, Deliver, TypeInv, TypeOK, RowsTyped
  <2>3. SessionsTyped' /\ LocksTyped'
    BY <1>2, FinishTyped DEF SettleAgain
  <2> QED BY <2>1, <2>2, <2>3, TypeParts
<1>3. ASSUME SettleAccount(s) PROVE TypeInv'
  <2>1. SessionsTyped' /\ LocksTyped'
    BY <1>3, <1>r, <1>a, LockUserTyped DEF SettleAccount, Labels
  <2> QED BY <1>3, <2>1, SessionOnly DEF SettleAccount
<1>4. ASSUME SettleCommit(s) PROVE TypeInv'
  <2>1. PICK h \in req[s].holds :
        LET extra == req[s].amount - hold[h].reserved
            capped == Enforced /\ extra > 0 /\ req[s].view < extra
            delta == IF capped THEN 0 ELSE -Moved(extra)
        IN
        /\ Post(s, delta, IF capped \/ extra = 0 THEN {} ELSE {Entry("settle", h, delta)})
        /\ hold' = [hold EXCEPT
              ![h].status = IF capped THEN "SETTLED_CAPPED" ELSE "SETTLED",
              ![h].settled = IF capped THEN hold[h].reserved ELSE req[s].amount]
    BY <1>4 DEF SettleCommit
  <2> DEFINE extra == req[s].amount - hold[h].reserved
             capped == Enforced /\ extra > 0 /\ req[s].view < extra
             delta == IF capped THEN 0 ELSE -Moved(extra)
             entries == IF capped \/ extra = 0 THEN {} ELSE {Entry("settle", h, delta)}
             status == IF capped THEN "SETTLED_CAPPED" ELSE "SETTLED"
             settled == IF capped THEN hold[h].reserved ELSE req[s].amount
  <2>2. h \in Holds /\ req[s].view \in Nat /\ req[s].amount \in Nat
    BY <1>4, <1>r, <1>a DEF SettleCommit, Requests
  <2>3. hold[h] \in HoldRecord /\ hold[h].reserved \in Nat
    BY <2>2 DEF TypeInv, TypeOK, HoldRecord
  <2>4. AccountTyped'
    <3>1. delta \in Int /\ (delta # 0 => req[s].view + delta >= 0)
      BY <2>2, <2>3, CreditConstants DEF Moved
    <3>2. \A e \in entries : e.delta = delta /\ KeyTyped(e)
      BY <2>2 DEF Entry, KeyTyped
    <3>3. Post(s, delta, entries)
      BY <2>1
    <3> HIDE DEF delta, entries
    <3> QED BY <3>1, <3>2, <3>3, <2>2, PostTyped
  <2>5. RowsTyped'
    <3>1. status \in SettledStatus /\ settled \in Nat
      BY <2>2, <2>3 DEF SettledStatus
    <3>2. hold' = [hold EXCEPT ![h] = [[hold[h] EXCEPT !.status = status] EXCEPT !.settled = settled]]
      BY <2>1, <2>2 DEF TypeInv, TypeOK
    <3> HIDE DEF status, settled
    <3>3. [hold[h] EXCEPT !.status = status] \in HoldRecord
      BY <2>3, <3>1 DEF HoldRecord
    <3>4. [[hold[h] EXCEPT !.status = status] EXCEPT !.settled = settled] \in HoldRecord
      BY <3>1, <3>3 DEF HoldRecord
    <3>5. hold' \in [Holds -> HoldRecord]
      BY <2>2, <3>2, <3>4, WriteHold
    <3> QED BY <1>4, <3>5 DEF SettleCommit, Deliver, RowsTyped, TypeInv, TypeOK
  <2>6. SessionsTyped' /\ LocksTyped'
    BY <1>4, FinishTyped DEF SettleCommit
  <2> QED BY <2>4, <2>5, <2>6, TypeParts
<1>5. ASSUME DeliverConflict(s) PROVE TypeInv'
  BY <1>5, FinishTyped, SessionOnly DEF DeliverConflict
<1> QED BY <1>1, <1>2, <1>3, <1>4, <1>5 DEF SettleStep

LEMMA RefundStepTyped ==
    ASSUME TypeInv, NEW s \in Sessions, RefundStep(s)
    PROVE  TypeInv'
<1>r. req[s] \in Requests /\ pc[s] \in Labels
  BY DEF TypeInv, TypeOK
<1>a. pc[s] # "adjusting" => req[s].amount >= 0
  BY DEF TypeInv, Bookkeeping
<1>1. ASSUME RefundLock(s) PROVE TypeInv'
  <2>1. SessionsTyped'
    BY <1>1, <1>r, <1>a, GotoTyped DEF RefundLock, Labels
  <2>2. LocksTyped'
    BY <1>1 DEF RefundLock, TypeInv, TypeOK, LocksTyped
  <2> QED BY <1>1, <2>1, <2>2, SessionOnly DEF RefundLock
<1>2. ASSUME RefundAgain(s) PROVE TypeInv'
  BY <1>2, FinishTyped, SessionOnly DEF RefundAgain
<1>3. ASSUME RefundAccount(s) PROVE TypeInv'
  <2> DEFINE r == [req[s] EXCEPT !.todo = req[s].holds]
  <2>1. r \in Requests /\ r.amount >= 0
    BY <1>3, <1>r, <1>a DEF RefundAccount, Requests
  <2>2. LockUser(s, "refunding", r)
    BY <1>3 DEF RefundAccount
  <2>3. SessionsTyped' /\ LocksTyped'
    <3> HIDE DEF r
    <3> QED BY <2>1, <2>2, LockUserTyped DEF Labels
  <2> QED BY <1>3, <2>3, SessionOnly DEF RefundAccount
<1>4. ASSUME NEW h \in Holds, RefundRow(s, h) PROVE TypeInv'
  <2> DEFINE r1 == [req[s] EXCEPT !.todo = req[s].todo \ {h}]
             r == [r1 EXCEPT !.amount = req[s].amount + Moved(hold[h].reserved)]
  <2>1. Moved(hold[h].reserved) \in Nat
    BY DEF Moved, TypeInv, TypeOK, HoldRecord
  <2>2. r1 \in Requests
    BY <1>r DEF Requests
  <2>3. r \in Requests /\ r.amount >= 0
    <3>1. req[s].amount + Moved(hold[h].reserved) \in Nat
      BY <2>1, <1>4, <1>r, <1>a DEF RefundRow, Requests
    <3> HIDE DEF r1
    <3> QED BY <2>2, <3>1 DEF Requests
  <2>4. Goto(s, "refunding", r)
    BY <1>4 DEF RefundRow
  <2>5. SessionsTyped'
    <3> HIDE DEF r
    <3> QED BY <2>3, <2>4, GotoTyped DEF Labels
  <2> QED BY <1>4, <2>5, LocalOnly DEF RefundRow
<1>5. ASSUME RefundCommit(s) PROVE TypeInv'
  <2> DEFINE entries == {Entry("refund", h, Moved(hold[h].reserved)) : h \in req[s].holds}
  <2>1. req[s].amount \in Nat /\ req[s].view \in Nat /\ req[s].holds \subseteq Holds
    <3>1. req[s].amount \in Int /\ req[s].view \in Nat /\ req[s].holds \subseteq Holds
      BY <1>r DEF Requests
    <3>2. req[s].amount >= 0
      BY <1>5, <1>a DEF RefundCommit
    <3> QED BY <3>1, <3>2
  <2>2. AccountTyped'
    <3>1. \A e \in entries : e.delta \in Int /\ KeyTyped(e)
      <4>1. \A e \in entries : e.delta \in Int
        BY <2>1 DEF Entry, Moved, TypeInv, TypeOK, HoldRecord
      <4>2. \A e \in entries : e.key[1] = "refund"
        BY DEF Entry
      <4> QED BY <4>1, <4>2 DEF KeyTyped
    <3>2. Post(s, req[s].amount, entries)
      BY <1>5 DEF RefundCommit
    <3> HIDE DEF entries
    <3> QED BY <2>1, <3>1, <3>2, PostTyped
  <2>3. RowsTyped'
    <3>1. ASSUME NEW h \in Holds
          PROVE  [hold[h] EXCEPT !.status = "REFUNDED", !.settled = 0] \in HoldRecord
      <4>1. [hold[h] EXCEPT !.status = "REFUNDED"] \in HoldRecord
        BY DEF TypeInv, TypeOK, HoldRecord
      <4>2. [[hold[h] EXCEPT !.status = "REFUNDED"] EXCEPT !.settled = 0] \in HoldRecord
        BY <4>1 DEF HoldRecord
      <4>3. [hold[h] EXCEPT !.status = "REFUNDED", !.settled = 0]
            = [[hold[h] EXCEPT !.status = "REFUNDED"] EXCEPT !.settled = 0]
        BY DEF TypeInv, TypeOK, HoldRecord
      <4> QED BY <4>2, <4>3
    <3>2. hold' = [h \in Holds |->
            IF h \in req[s].holds THEN [hold[h] EXCEPT !.status = "REFUNDED", !.settled = 0]
            ELSE hold[h]]
      BY <1>5 DEF RefundCommit
    <3>3. hold' \in [Holds -> HoldRecord]
      BY <3>1, <3>2 DEF TypeInv, TypeOK
    <3> QED BY <1>5, <3>3 DEF RefundCommit, TypeInv, TypeOK, RowsTyped
  <2>4. SessionsTyped' /\ LocksTyped'
    BY <1>5, FinishTyped DEF RefundCommit
  <2> QED BY <2>2, <2>3, <2>4, TypeParts
<1> QED BY <1>1, <1>2, <1>3, <1>4, <1>5 DEF RefundStep

LEMMA GrantStepTyped ==
    ASSUME TypeInv, NEW s \in Sessions, GrantStep(s)
    PROVE  TypeInv'
<1>r. req[s] \in Requests /\ pc[s] \in Labels
  BY DEF TypeInv, TypeOK
<1>a. pc[s] # "adjusting" => req[s].amount >= 0
  BY DEF TypeInv, Bookkeeping
<1>k. pc[s] \in {"grant", "granting"} => req[s].key \in GrantKeys
  BY DEF TypeInv, Bookkeeping
<1>1. ASSUME GrantAccount(s) PROVE TypeInv'
  <2> DEFINE left == Max({0, CarryoverCap - Seen(s)})
             amount == IF CarryoverCap = 0 THEN MonthlyCredits ELSE Min({MonthlyCredits, left})
             r == IF s \in Webhooks THEN [req[s] EXCEPT !.amount = amount] ELSE req[s]
  <2>1. left \in Nat
    <3> DEFINE n == CarryoverCap - Seen(s)
    <3>1. n \in Int
      BY SeenTyped, CreditConstants
    <3> HIDE DEF n
    <3>2. Max({0, n}) \in {0, n} /\ Max({0, n}) >= 0
      BY <3>1, MaxOfTwo
    <3>3. Max({0, n}) \in Nat
      BY <3>1, <3>2
    <3> QED BY <3>3 DEF n
  <2>2. amount \in Nat
    <3> HIDE DEF left
    <3>0. MonthlyCredits \in Int /\ left \in Int
      BY <2>1, CreditConstants
    <3>1. Min({MonthlyCredits, left}) \in {MonthlyCredits, left}
      BY <3>0, MinOfTwo
    <3> QED BY <2>1, <3>1, CreditConstants
  <2>3. r \in Requests /\ r.amount >= 0 /\ r.key \in GrantKeys
    <3> HIDE DEF amount
    <3>1. pc[s] = "grant"
      BY <1>1 DEF GrantAccount
    <3>2. CASE s \in Webhooks
      BY <2>2, <3>1, <3>2, <1>r, <1>k DEF Requests
    <3>3. CASE s \notin Webhooks
      BY <3>1, <3>3, <1>r, <1>a, <1>k
    <3> QED BY <3>2, <3>3
  <2>4. LockUser(s, "granting", r)
    BY <1>1 DEF GrantAccount
  <2>5. SessionsTyped' /\ LocksTyped'
    <3> HIDE DEF r
    <3> QED BY <2>3, <2>4, LockUserTyped DEF Labels
  <2> QED BY <1>1, <2>5, SessionOnly DEF GrantAccount
<1>2. ASSUME GrantKnown(s) PROVE TypeInv'
  BY <1>2, FinishTyped, SessionOnly DEF GrantKnown
<1>3. ASSUME GrantCommit(s) PROVE TypeInv'
  <2> DEFINE entry == [key |-> req[s].key, delta |-> req[s].amount]
  <2>1. req[s].amount \in Nat /\ req[s].view \in Nat
    <3>1. req[s].amount \in Int /\ req[s].view \in Nat
      BY <1>r DEF Requests
    <3>2. req[s].amount >= 0
      BY <1>3, <1>a DEF GrantCommit
    <3> QED BY <3>1, <3>2
  <2>2. req[s].key \in GrantKeys
    BY <1>3, <1>k DEF GrantCommit
  <2>3. entry.delta \in Int /\ KeyTyped(entry)
    <3>1. entry.delta \in Int
      BY <2>1
    <3>2. entry.key[1] \notin {"hold", "settle", "adjust"}
      BY <2>2 DEF GrantKeys
    <3> QED BY <3>1, <3>2 DEF KeyTyped
  <2>4. AccountTyped'
    <3>1. Post(s, req[s].amount, {entry})
      BY <1>3 DEF GrantCommit
    <3> HIDE DEF entry
    <3> QED BY <2>1, <2>3, <3>1, PostTyped
  <2>5. RowsTyped'
    BY <1>3 DEF GrantCommit, TypeInv, TypeOK, RowsTyped
  <2>6. SessionsTyped' /\ LocksTyped'
    BY <1>3, FinishTyped DEF GrantCommit
  <2> QED BY <2>4, <2>5, <2>6, TypeParts
<1> QED BY <1>1, <1>2, <1>3 DEF GrantStep

LEMMA ConsoleStepTyped ==
    ASSUME TypeInv, NEW s \in Sessions
    PROVE  /\ GrantRead(s) => TypeInv'
           /\ \A h \in Holds : AdminRefund(s, h) => TypeInv'
           /\ \A e \in ledger : AdminUndo(s, e) => TypeInv'
           /\ \A batch \in SUBSET Holds : Sweep(s, batch) => TypeInv'
<1>1. ASSUME GrantRead(s) PROVE TypeInv'
  <2> DEFINE blank == Request(None, {}, Loaded(s), 0)
             r == [blank EXCEPT !.key = <<"grant", None>>]
  <2>1. blank \in Requests /\ blank.amount = 0
    BY SeenTyped DEF Request, Requests
  <2>2. <<"grant", None>> \in GrantKeys
    BY DEF GrantKeys
  <2>3. r \in Requests /\ r.amount = 0 /\ r.key \in GrantKeys
    <3> HIDE DEF blank
    <3> QED BY <2>1, <2>2 DEF Requests
  <2>4. Goto(s, "grant", r)
    BY <1>1 DEF GrantRead
  <2>5. SessionsTyped'
    <3> HIDE DEF r
    <3> QED BY <2>3, <2>4, GotoTyped DEF Labels
  <2> QED BY <1>1, <2>5, LocalOnly DEF GrantRead
<1>2. ASSUME NEW h \in Holds, AdminRefund(s, h) PROVE TypeInv'
  <2> DEFINE r == Request(None, {h}, None, 0)
  <2>1. r \in Requests /\ r.amount = 0
    BY DEF Request, Requests
  <2>2. Goto(s, "refund", r)
    BY <1>2 DEF AdminRefund
  <2>3. SessionsTyped'
    <3> HIDE DEF r
    <3> QED BY <2>1, <2>2, GotoTyped DEF Labels
  <2> QED BY <1>2, <2>3, LocalOnly DEF AdminRefund
<1>3. ASSUME NEW e \in ledger, AdminUndo(s, e) PROVE TypeInv'
  <2>1. e.delta \in Int /\ -e.delta \in Nat
    <3>1. e.delta \in Int
      BY DEF TypeInv, TypeOK
    <3>2. e.delta < 0
      BY <1>3 DEF AdminUndo
    <3> QED BY <3>1, <3>2
  <2>2. PICK amount \in Nat, key \in GrantKeys :
          Goto(s, "grant", [Request(None, {}, None, amount) EXCEPT !.key = key])
    <3>1. CASE e.key[1] = "hold"
      <4> DEFINE amount == Min({-e.delta, hold[e.key[2]].settled})
      <4>1. e.key[2] \in Holds
        BY <3>1 DEF TypeInv, LedgerKeys, KeyTyped
      <4>2. hold[e.key[2]].settled \in Nat
        BY <4>1 DEF TypeInv, TypeOK, HoldRecord
      <4>3. amount \in Nat
        <5> DEFINE taken == -e.delta
                   settled == hold[e.key[2]].settled
        <5>1. taken \in Nat /\ settled \in Nat
          BY <2>1, <4>2
        <5> HIDE DEF taken, settled
        <5>2. Min({taken, settled}) \in {taken, settled}
          <6>1. taken \in Int /\ settled \in Int
            BY <5>1
          <6> QED BY <6>1, MinOfTwo
        <5>3. Min({taken, settled}) \in Nat
          BY <5>1, <5>2
        <5> QED BY <5>3 DEF taken, settled
      <4>4. <<Undoing("hold"), e.key[2]>> \in GrantKeys
        BY <4>1 DEF GrantKeys, Undoing
      <4>5. Goto(s, "grant", [Request(None, {}, None, amount) EXCEPT
                                !.key = <<Undoing("hold"), e.key[2]>>])
        BY <1>3, <3>1 DEF AdminUndo
      <4> HIDE DEF amount
      <4> QED BY <4>3, <4>4, <4>5
    <3>2. CASE e.key[1] \in {"settle", "adjust"}
      <4>1. e.key[2] \in Holds \cup Sessions
        BY <3>2 DEF TypeInv, LedgerKeys, KeyTyped
      <4>2. <<Undoing(e.key[1]), e.key[2]>> \in GrantKeys
        BY <3>2, <4>1 DEF GrantKeys, Undoing
      <4>3. Goto(s, "grant", [Request(None, {}, None, -e.delta) EXCEPT
                                !.key = <<Undoing(e.key[1]), e.key[2]>>])
        BY <1>3, <3>2 DEF AdminUndo
      <4> QED BY <2>1, <4>2, <4>3
    <3> QED BY <1>3, <3>1, <3>2 DEF AdminUndo
  <2> DEFINE blank == Request(None, {}, None, amount)
             r == [blank EXCEPT !.key = key]
  <2>3. blank \in Requests /\ blank.amount = amount
    BY DEF Request, Requests
  <2>4. r \in Requests /\ r.amount = amount /\ r.key \in GrantKeys
    <3> HIDE DEF blank
    <3> QED BY <2>2, <2>3 DEF Requests
  <2>5. SessionsTyped'
    <3>1. Goto(s, "grant", r)
      BY <2>2
    <3> HIDE DEF r
    <3> QED BY <2>2, <2>4, <3>1, GotoTyped DEF Labels
  <2> QED BY <1>3, <2>5, LocalOnly DEF AdminUndo
<1>4. ASSUME NEW batch \in SUBSET Holds, Sweep(s, batch) PROVE TypeInv'
  <2> DEFINE r == Request(None, batch, None, 0)
  <2>1. r \in Requests /\ r.amount = 0
    BY DEF Request, Requests
  <2>2. Goto(s, "refund_account", r)
    BY <1>4 DEF Sweep
  <2>3. SessionsTyped'
    <3> HIDE DEF r
    <3> QED BY <2>1, <2>2, GotoTyped DEF Labels
  <2>4. LocksTyped'
    BY <1>4 DEF Sweep, TypeInv, TypeOK, LocksTyped
  <2> QED BY <1>4, <2>3, <2>4, SessionOnly DEF Sweep
<1> QED BY <1>1, <1>2, <1>3, <1>4

LEMMA AdjustTyped ==
    ASSUME TypeInv, NEW s \in Sessions
    PROVE  /\ \A n \in Adjustments : AdjustRead(s, n) => TypeInv'
           /\ AdjustWrite(s) => TypeInv'
<1>1. ASSUME NEW n \in Adjustments, AdjustRead(s, n) PROVE TypeInv'
  <2> DEFINE blank == Request(None, {}, None, n)
             r == [blank EXCEPT !.view = balance]
  <2>1. blank \in Requests /\ blank.amount = n
    BY CreditConstants DEF Request, Requests
  <2>2. r \in Requests /\ r.view = balance /\ r.amount = n
    <3> HIDE DEF blank
    <3> QED BY <2>1 DEF Requests, TypeInv, TypeOK
  <2>3. Goto(s, "adjusting", r) /\ balance + n >= 0
    BY <1>1 DEF AdjustRead
  <2>4. SessionsTyped'
    <3> HIDE DEF r
    <3> QED BY <2>2, <2>3, GotoTyped DEF Labels
  <2> QED BY <1>1, <2>4, LocalOnly DEF AdjustRead
<1>2. ASSUME AdjustWrite(s) PROVE TypeInv'
  <2> DEFINE entry == Entry("adjust", s, req[s].amount)
  <2>1. req[s].amount \in Int /\ req[s].view + req[s].amount >= 0
    BY <1>2 DEF AdjustWrite, TypeInv, TypeOK, Bookkeeping, Requests
  <2>2. entry.delta \in Int /\ KeyTyped(entry)
    BY <2>1 DEF Entry, KeyTyped
  <2>3. AccountTyped'
    <3>1. Post(s, req[s].amount, {entry})
      BY <1>2 DEF AdjustWrite
    <3> HIDE DEF entry
    <3> QED BY <2>1, <2>2, <3>1, PostTyped
  <2>4. RowsTyped'
    BY <1>2 DEF AdjustWrite, TypeInv, TypeOK, RowsTyped
  <2>5. SessionsTyped' /\ LocksTyped'
    BY <1>2, FinishTyped DEF AdjustWrite
  <2> QED BY <2>3, <2>4, <2>5, TypeParts
<1> QED BY <1>1, <1>2

LEMMA TypeNext == TypeInv /\ [Next]_vars => TypeInv'
<1> SUFFICES ASSUME TypeInv, [Next]_vars PROVE TypeInv'
  OBVIOUS
<1>1. ASSUME NEW s \in Callers, ReserveStep(s) \/ SettleStep(s) PROVE TypeInv'
  BY <1>1, ReserveStepTyped, SettleStepTyped
<1>2. ASSUME NEW s \in Callers \cup Admins \cup Recoverers, RefundStep(s) PROVE TypeInv'
  BY <1>2, RefundStepTyped DEF Sessions
<1>3. ASSUME NEW s \in Webhooks \cup Admins, GrantStep(s) PROVE TypeInv'
  BY <1>3, GrantStepTyped DEF Sessions
<1>4. ASSUME NEW w \in Webhooks, GrantRead(w) PROVE TypeInv'
  BY <1>4, ConsoleStepTyped DEF Sessions
<1>5. ASSUME NEW a \in Admins,
             (\E h \in Holds : AdminRefund(a, h)) \/ \E e \in ledger : AdminUndo(a, e)
      PROVE  TypeInv'
  BY <1>5, ConsoleStepTyped DEF Sessions
<1>6. ASSUME NEW w \in Recoverers, \E batch \in SUBSET Holds : Sweep(w, batch) PROVE TypeInv'
  BY <1>6, ConsoleStepTyped DEF Sessions
<1>7. ASSUME NEW a \in Adjusters, AdjustWrite(a) \/ \E n \in Adjustments : AdjustRead(a, n)
      PROVE  TypeInv'
  BY <1>7, AdjustTyped DEF Sessions
<1>8. ASSUME NEW s \in Sessions, Die(s) PROVE TypeInv'
  BY <1>8, FinishTyped, SessionOnly DEF Die
<1>9. ASSUME update_budget \/ NextDay PROVE TypeInv'
  <2>1. AccountTyped' /\ LocksTyped'
    BY <1>9 DEF update_budget, NextDay, TypeInv, TypeOK, AccountTyped, LedgerKeys, LocksTyped,
                account, locks
  <2>2. paused' \in BOOLEAN
    BY <1>9 DEF update_budget, NextDay, TypeInv, TypeOK
  <2>3. day' \in 1 .. MaxDay
    BY <1>9, CreditConstants DEF update_budget, NextDay, TypeInv, TypeOK
  <2>4. RowsTyped'
    BY <1>9, <2>2, <2>3 DEF update_budget, NextDay, TypeInv, TypeOK, RowsTyped
  <2>5. SessionsTyped'
    BY <1>9 DEF update_budget, NextDay, TypeInv, TypeOK, SessionsTyped, Bookkeeping, Moved
  <2> QED BY <2>1, <2>4, <2>5, TypeParts
<1>10. CASE UNCHANGED vars
  <2>1. SessionsTyped'
    BY <1>10 DEF vars, TypeInv, TypeOK, SessionsTyped, Bookkeeping, Moved
  <2> QED BY <1>10, <2>1, LocalOnly DEF vars
<1> QED BY <1>1, <1>2, <1>3, <1>4, <1>5, <1>6, <1>7, <1>8, <1>9, <1>10 DEF Next

\* Every account, reservation, lock and request keeps its type: whatever balance a
\* session had loaded before it got the lock, no step writes a negative balance.
THEOREM TypeCorrect == Spec => []TypeOK
<1>1. TypeInv => TypeOK
  BY DEF TypeInv
<1> QED BY TypeInit, TypeNext, <1>1, PTL DEF Spec

-----------------------------------------------------------------------------
(* One live reservation for a task, and one settlement of a report *)

WithHold == {"held", "working", "settle", "settle_account", "settling",
             "refund", "refund_account", "refunding"}
ForTask == {"held", "working", "settle", "settle_account", "settling"}

\* A session about to reserve has the account lock and the first attempt that has
\* no row; whoever works on reservations found their rows, a caller one of its task.
Reserving(s) ==
    /\ user_lock = s
    /\ \E h \in Holds : /\ req[s].holds = {h}
                        /\ Reusable(req[s].task, h) /\ hold[h].status = "NONE"

SessionsHold ==
    \A s \in Sessions :
        /\ pc[s] = "reserving" => Reserving(s)
        /\ pc[s] \in WithHold => \A h \in req[s].holds : hold[h].status # "NONE"
        /\ pc[s] \in ForTask => \A h \in req[s].holds : h[1] = req[s].task /\ req[s].holds = {h}

\* A settled reservation of a report has its Report row.
SettledDelivered ==
    \A h \in Holds :
        h[1] \in Serialized /\ hold[h].status \in SettledStatus => h[1] \in delivered

HoldInv == SessionsHold /\ OneHoldPerTask /\ SettledDelivered /\ ReportChargedOnce

LEMMA HoldInit == Init => HoldInv
<1> SUFFICES ASSUME Init PROVE HoldInv
  OBVIOUS
<1>1. \A h \in Holds : hold[h].status = "NONE"
  BY DEF Init, NoHold
<1>2. SessionsHold
  BY DEF Init, SessionsHold, WithHold, ForTask
<1>3. OneHoldPerTask
  BY <1>1 DEF OneHoldPerTask, Holds
<1>4. SettledDelivered /\ ReportChargedOnce
  BY <1>1 DEF SettledDelivered, ReportChargedOnce, SettledStatus
<1> QED BY <1>2, <1>3, <1>4 DEF HoldInv

\* A step that writes no reservation and moves one session to a label other than
\* "reserving".
LEMMA HoldsUntouched ==
    ASSUME TypeInv, HoldInv, NEW s \in Sessions, NEW label \in Labels \ {"reserving"},
           NEW r \in Requests, Goto(s, label, r),
           hold' = hold, delivered \subseteq delivered',
           user_lock' = user_lock \/ user_lock \in {None, s},
           label \in WithHold => \A h \in r.holds : hold[h].status # "NONE",
           label \in ForTask => \A h \in r.holds : h[1] = r.task /\ r.holds = {h}
    PROVE  HoldInv'
<1>1. ASSUME NEW q \in Sessions
      PROVE  /\ pc'[q] = IF q = s THEN label ELSE pc[q]
             /\ req'[q] = IF q = s THEN r ELSE req[q]
  BY DEF Goto, TypeInv, TypeOK
<1>2. ASSUME NEW q \in Sessions, pc'[q] = "reserving" PROVE Reserving(q)'
  <2>1. q # s /\ pc[q] = "reserving" /\ req'[q] = req[q]
    BY <1>1, <1>2
  <2>2. Reserving(q)
    BY <2>1 DEF HoldInv, SessionsHold
  <2>3. user_lock' = user_lock
    BY <2>1, <2>2, CreditConstants DEF Reserving
  <2> QED BY <2>1, <2>2, <2>3 DEF Reserving, Reusable
<1>3. SessionsHold'
  BY <1>1, <1>2 DEF HoldInv, SessionsHold
<1>4. OneHoldPerTask' /\ SettledDelivered' /\ ReportChargedOnce'
  BY DEF HoldInv, OneHoldPerTask, SettledDelivered, ReportChargedOnce
<1> QED BY <1>3, <1>4 DEF HoldInv

LEMMA FinishUntouched ==
    ASSUME TypeInv, HoldInv, NEW s \in Sessions, Finish(s),
           hold' = hold, delivered \subseteq delivered'
    PROVE  HoldInv'
<1>1. Blank \in Requests
  BY CreditConstants DEF Blank, Request, Requests
<1> DEFINE label == IF s \in Recoverers THEN "idle" ELSE "done"
<1>2. label \in Labels \ {"reserving"} /\ label \notin WithHold /\ label \notin ForTask
  BY DEF Labels, WithHold, ForTask
<1>3. Goto(s, label, Blank) /\ (user_lock' = user_lock \/ user_lock \in {None, s})
  BY DEF Finish, EndTransaction
<1> HIDE DEF label
<1> QED BY <1>1, <1>2, <1>3, HoldsUntouched

\* A transaction that settles or refunds: rows that exist become terminal.
LEMMA RowsEnded ==
    ASSUME TypeInv, HoldInv, NEW s \in Sessions, Finish(s),
           \A h \in Holds : \/ hold'[h] = hold[h]
                            \/ hold[h].status # "NONE" /\ hold'[h].status \notin LiveStatus
    PROVE  SessionsHold' /\ OneHoldPerTask'
<1>1. ASSUME NEW q \in Sessions
      PROVE  IF q = s THEN pc'[q] \in {"idle", "done"}
             ELSE pc'[q] = pc[q] /\ req'[q] = req[q]
  BY DEF Finish, Goto, TypeInv, TypeOK
<1>2. \A h \in Holds : hold[h].status # "NONE" => hold'[h].status # "NONE"
  BY DEF LiveStatus
<1>3. \A h \in Holds : hold[h].status \notin LiveStatus => hold'[h].status \notin LiveStatus
  OBVIOUS
<1>4. ASSUME NEW q \in Sessions, pc'[q] = "reserving" PROVE Reserving(q)'
  <2>1. q # s /\ pc[q] = "reserving" /\ req'[q] = req[q]
    BY <1>1, <1>4
  <2>2. PICK h \in Holds : /\ user_lock = q /\ req[q].holds = {h}
                           /\ Reusable(req[q].task, h) /\ hold[h].status = "NONE"
    BY <2>1 DEF HoldInv, SessionsHold, Reserving
  <2>3. user_lock' = q
    BY <2>1, <2>2 DEF Finish, EndTransaction
  <2>4. hold'[h] = hold[h]
    BY <2>2
  <2>5. Reusable(req[q].task, h)'
    <3>0. h[1] \in Tasks /\ h[2] \in 1 .. MaxAttempts
      BY DEF Holds
    <3>1. \A n \in 1 .. h[2] - 1 : <<h[1], n>> \in Holds
      BY <3>0, CreditConstants DEF Holds
    <3>2. h[1] = req[q].task
      BY <2>2 DEF Reusable
    <3> QED BY <1>3, <2>1, <2>2, <2>4, <3>1, <3>2 DEF Reusable
  <2> QED BY <2>1, <2>2, <2>3, <2>4, <2>5 DEF Reserving
<1>5. SessionsHold'
  <2>1. ASSUME NEW q \in Sessions, pc'[q] \in WithHold, NEW h \in req'[q].holds
        PROVE  hold'[h].status # "NONE"
    <3>1. q # s /\ pc[q] \in WithHold /\ h \in req[q].holds
      BY <1>1, <2>1 DEF WithHold
    <3>2. h \in Holds
      BY <3>1 DEF TypeInv, TypeOK, Requests
    <3> QED BY <1>2, <3>1, <3>2 DEF HoldInv, SessionsHold
  <2>2. ASSUME NEW q \in Sessions, pc'[q] \in ForTask, NEW h \in req'[q].holds
        PROVE  h[1] = req'[q].task /\ req'[q].holds = {h}
    BY <1>1, <2>2 DEF ForTask, HoldInv, SessionsHold
  <2> QED BY <1>4, <2>1, <2>2 DEF SessionsHold
<1>6. OneHoldPerTask'
  <2>1. SUFFICES ASSUME NEW t \in Tasks, NEW n \in 1 .. MaxAttempts,
                        hold'[<<t, n>>].status # "NONE", NEW m \in 1 .. n - 1
                 PROVE  hold'[<<t, m>>].status \notin LiveStatus
    BY DEF OneHoldPerTask
  <2>2. <<t, n>> \in Holds /\ <<t, m>> \in Holds
    BY CreditConstants DEF Holds
  <2>3. hold[<<t, n>>].status # "NONE"
    BY <2>1, <2>2
  <2> QED BY <1>3, <2>2, <2>3 DEF HoldInv, OneHoldPerTask
<1> QED BY <1>5, <1>6

LEMMA ReserveKeeps ==
    ASSUME TypeInv, HoldInv, NEW s \in Callers, Reserve(s)
    PROVE  HoldInv'
<1> s \in Sessions
  BY DEF Sessions
<1>r. req[s] \in Requests
  BY DEF TypeInv, TypeOK
<1>1. PICK h \in Holds : /\ user_lock = s /\ req[s].holds = {h}
                         /\ Reusable(req[s].task, h) /\ hold[h].status = "NONE"
  BY DEF Reserve, HoldInv, SessionsHold, Reserving
<1>2. hold' = [hold EXCEPT ![h] = [status |-> "RESERVED", reserved |-> Moved(req[s].amount),
                                   settled |-> 0, day |-> day]]
  BY <1>1 DEF Reserve
<1>3. hold'[h].status = "RESERVED" /\ \A g \in Holds \ {h} : hold'[g] = hold[g]
  BY <1>2 DEF TypeInv, TypeOK
<1> DEFINE r == Request(req[s].task, req[s].holds, None, 0)
<1>4. r.task = req[s].task /\ r.holds = {h}
  BY <1>1 DEF Request
<1>5. ASSUME NEW q \in Sessions
      PROVE  IF q = s THEN pc'[q] = "held" /\ req'[q] = r
             ELSE pc'[q] = pc[q] /\ req'[q] = req[q]
  BY DEF Reserve, Goto, TypeInv, TypeOK
<1> HIDE DEF r
<1>6. SessionsHold'
  <2>1. ASSUME NEW q \in Sessions PROVE pc'[q] # "reserving"
    <3>1. CASE q = s
      BY <1>5, <3>1
    <3>2. CASE q # s
      BY <1>1, <1>5, <3>2 DEF HoldInv, SessionsHold, Reserving
    <3> QED BY <3>1, <3>2
  <2>2. ASSUME NEW q \in Sessions, pc'[q] \in WithHold, NEW g \in req'[q].holds
        PROVE  hold'[g].status # "NONE"
    <3>1. CASE q = s
      BY <1>3, <1>4, <1>5, <2>2, <3>1
    <3>2. CASE q # s
      <4>1. pc[q] \in WithHold /\ g \in req[q].holds /\ g \in Holds
        BY <1>5, <2>2, <3>2 DEF TypeInv, TypeOK, Requests
      <4>2. hold[g].status # "NONE"
        BY <4>1 DEF HoldInv, SessionsHold
      <4> QED BY <1>3, <4>1, <4>2
    <3> QED BY <3>1, <3>2
  <2>3. ASSUME NEW q \in Sessions, pc'[q] \in ForTask, NEW g \in req'[q].holds
        PROVE  g[1] = req'[q].task /\ req'[q].holds = {g}
    <3>1. CASE q = s
      BY <1>1, <1>4, <1>5, <2>3, <3>1 DEF Reusable
    <3>2. CASE q # s
      BY <1>5, <2>3, <3>2 DEF HoldInv, SessionsHold
    <3> QED BY <3>1, <3>2
  <2> QED BY <2>1, <2>2, <2>3 DEF SessionsHold
<1>7. OneHoldPerTask'
  <2>1. SUFFICES ASSUME NEW t \in Tasks, NEW n \in 1 .. MaxAttempts,
                        hold'[<<t, n>>].status # "NONE", NEW m \in 1 .. n - 1
                 PROVE  hold'[<<t, m>>].status \notin LiveStatus
    BY DEF OneHoldPerTask
  <2>2. <<t, n>> \in Holds /\ <<t, m>> \in Holds /\ <<t, m>> # <<t, n>>
    BY CreditConstants DEF Holds
  <2>3. CASE <<t, n>> = h
    <3>1. hold[<<t, m>>].status \notin LiveStatus
      BY <1>1, <2>3 DEF Reusable
    <3> QED BY <1>3, <2>2, <2>3, <3>1
  <2>4. CASE <<t, n>> # h
    <3>1. hold[<<t, m>>].status \notin LiveStatus
      BY <1>3, <2>1, <2>2, <2>4 DEF HoldInv, OneHoldPerTask
    <3>2. <<t, m>> # h
      BY <1>1, <3>1 DEF LiveStatus
    <3> QED BY <1>3, <2>2, <3>1, <3>2
  <2> QED BY <2>3, <2>4
<1>8. SettledDelivered' /\ ReportChargedOnce'
  <2>1. delivered' = delivered
    BY DEF Reserve
  <2>2. \A g \in Holds : hold'[g].status \in SettledStatus =>
                           g # h /\ hold[g].status \in SettledStatus
    BY <1>3 DEF SettledStatus
  <2> QED BY <2>1, <2>2 DEF HoldInv, SettledDelivered, ReportChargedOnce
<1> QED BY <1>6, <1>7, <1>8 DEF HoldInv

LEMMA SettleCommitKeeps ==
    ASSUME TypeInv, HoldInv, NEW s \in Callers, SettleCommit(s)
    PROVE  HoldInv'
<1> s \in Sessions
  BY DEF Sessions
<1>0. PICK h \in req[s].holds : \E status \in SettledStatus : \E settled :
        hold' = [hold EXCEPT ![h].status = status, ![h].settled = settled]
  BY DEF SettleCommit, SettledStatus
<1>1. PICK status \in SettledStatus : \E settled :
        hold' = [hold EXCEPT ![h].status = status, ![h].settled = settled]
  BY <1>0
<1>2. h \in Holds /\ h[1] = req[s].task /\ hold[h].status # "NONE"
  BY DEF SettleCommit, HoldInv, SessionsHold, WithHold, ForTask, TypeInv, TypeOK, Requests
<1>3. hold'[h].status = status /\ \A g \in Holds \ {h} : hold'[g] = hold[g]
  BY <1>1, <1>2 DEF TypeInv, TypeOK, HoldRecord
<1>4. SessionsHold' /\ OneHoldPerTask'
  <2>1. Finish(s)
    BY DEF SettleCommit
  <2>2. status \notin LiveStatus
    BY DEF SettledStatus, LiveStatus
  <2> QED BY <1>2, <1>3, <2>1, <2>2, RowsEnded
<1>5. /\ req[s].task \notin Serialized \cap delivered
      /\ delivered' = delivered \cup ({req[s].task} \cap Serialized)
  BY DEF SettleCommit, Deliver
<1>6. SettledDelivered'
  BY <1>2, <1>3, <1>5 DEF HoldInv, SettledDelivered
<1>7. ReportChargedOnce'
  BY <1>2, <1>3, <1>5 DEF HoldInv, SettledDelivered, ReportChargedOnce
<1> QED BY <1>4, <1>6, <1>7 DEF HoldInv

LEMMA RefundCommitKeeps ==
    ASSUME TypeInv, HoldInv, NEW s \in Sessions, RefundCommit(s)
    PROVE  HoldInv'
<1>1. hold' = [h \in Holds |->
          IF h \in req[s].holds THEN [hold[h] EXCEPT !.status = "REFUNDED", !.settled = 0]
          ELSE hold[h]]
  BY DEF RefundCommit
<1>2. \A h \in req[s].holds : hold[h].status # "NONE"
  BY DEF RefundCommit, HoldInv, SessionsHold, WithHold
<1>3. ASSUME NEW h \in Holds
      PROVE  IF h \in req[s].holds THEN hold'[h].status = "REFUNDED" ELSE hold'[h] = hold[h]
  BY <1>1 DEF TypeInv, TypeOK, HoldRecord
<1>4. SessionsHold' /\ OneHoldPerTask'
  <2>1. Finish(s)
    BY DEF RefundCommit
  <2> QED BY <1>2, <1>3, <2>1, RowsEnded DEF LiveStatus
<1>5. SettledDelivered' /\ ReportChargedOnce'
  <2>1. delivered' = delivered
    BY DEF RefundCommit
  <2> QED BY <1>3, <2>1 DEF HoldInv, SettledDelivered, ReportChargedOnce, SettledStatus
<1> QED BY <1>4, <1>5 DEF HoldInv


LEMMA HoldNext == TypeInv /\ HoldInv /\ [Next]_vars => HoldInv'
<1> SUFFICES ASSUME TypeInv, HoldInv, [Next]_vars PROVE HoldInv'
  OBVIOUS
<1>t. \A s \in Sessions : req[s] \in Requests
  BY DEF TypeInv, TypeOK
<1>b. Blank \in Requests
  BY CreditConstants DEF Blank, Request, Requests
<1>1. ASSUME NEW s \in Callers, ReserveStep(s) PROVE HoldInv'
  <2> s \in Sessions
    BY DEF Sessions
  <2> req[s] \in Requests
    BY <1>t
  <2>1. ASSUME NEW t \in Tasks, NEW q \in Quotes, Ask(s, t, q) PROVE HoldInv'
    <3> DEFINE r == Request(t, {}, Loaded(s), q)
    <3>1. r \in Requests
      <4>1. Loaded(s) \in Nat \cup {None} /\ q \in Nat
        BY SeenTyped, CreditConstants
      <4> QED BY <4>1 DEF Request, Requests
    <3>2. Goto(s, "lookup", r)
      BY <2>1 DEF Ask
    <3> HIDE DEF r
    <3> QED BY <2>1, <3>1, <3>2, HoldsUntouched DEF Ask, Labels, WithHold, ForTask
  <2>2. ASSUME NEW h \in Holds, ReuseHold(s, h) PROVE HoldInv'
    <3> DEFINE r == Request(req[s].task, {h}, None, 0)
    <3>1. r \in Requests /\ r.holds = {h} /\ r.task = h[1] /\ hold[h].status # "NONE"
      BY <2>2 DEF ReuseHold, Reusable, Request, Requests
    <3>2. Goto(s, "held", r)
      BY <2>2 DEF ReuseHold
    <3>3. hold' = hold /\ delivered' = delivered
          /\ (user_lock' = user_lock \/ user_lock \in {None, s})
      BY <2>2 DEF ReuseHold, EndTransaction
    <3> HIDE DEF r
    <3> QED BY <3>1, <3>2, <3>3, HoldsUntouched DEF Labels
  <2>3. ASSUME NEW h \in Holds, NoLiveHold(s, h) PROVE HoldInv'
    BY <2>3, HoldsUntouched DEF NoLiveHold, locks, Labels, WithHold, ForTask
  <2>4. ASSUME NEW h \in Holds, LockAccount(s, h) PROVE HoldInv'
    <3> DEFINE r1 == [req[s] EXCEPT !.holds = {h}]
               r == [r1 EXCEPT !.view = Seen(s)]
    <3>0. r1 \in Requests /\ r1.holds = {h} /\ r1.task = req[s].task
      BY DEF Requests
    <3>1. r \in Requests /\ r.holds = {h} /\ r.task = req[s].task
      <4>1. Seen(s) \in Nat
        BY SeenTyped
      <4> HIDE DEF r1
      <4> QED BY <3>0, <4>1 DEF Requests
    <3>2. user_lock = None /\ user_lock' = s /\ Goto(s, "reserving", r)
      BY <2>4 DEF LockAccount, LockUser
    <3>3. hold' = hold /\ delivered' = delivered
      BY <2>4 DEF LockAccount
    <3> HIDE DEF r
    <3>4. ASSUME NEW q \in Sessions
          PROVE  /\ pc'[q] = IF q = s THEN "reserving" ELSE pc[q]
                 /\ req'[q] = IF q = s THEN r ELSE req[q]
      BY <3>2 DEF Goto, TypeInv, TypeOK
    <3>5. ASSUME NEW q \in Sessions, pc'[q] = "reserving" PROVE Reserving(q)'
      <4>1. q = s
        BY <3>2, <3>4, <3>5, CreditConstants DEF HoldInv, SessionsHold, Reserving
      <4>2. Reusable(req[s].task, h) /\ hold[h].status = "NONE"
        BY <2>4 DEF LockAccount
      <4>3. req'[s].task = req[s].task /\ req'[s].holds = {h}
        BY <3>1, <3>4
      <4>4. Reusable(req[s].task, h)'
        BY <3>3, <4>2, <4>3 DEF Reusable
      <4> QED BY <3>2, <3>3, <4>1, <4>2, <4>3, <4>4 DEF Reserving
    <3>6. SessionsHold'
      BY <3>3, <3>4, <3>5 DEF HoldInv, SessionsHold, WithHold, ForTask
    <3> QED BY <3>3, <3>6 DEF HoldInv, OneHoldPerTask, SettledDelivered, ReportChargedOnce
  <2>5. ASSUME NEW h \in Holds, BudgetExceeded(s, h) PROVE HoldInv'
    <3>1. user_lock' = user_lock \/ user_lock \in {None, s}
      BY <2>5 DEF BudgetExceeded, EndTransaction
    <3> QED BY <2>5, <3>1, <1>b, HoldsUntouched DEF BudgetExceeded, Labels, WithHold, ForTask
  <2>6. ASSUME StartWork(s) PROVE HoldInv'
    <3> DEFINE r == Request(req[s].task, req[s].holds, Loaded(s), 0)
    <3>1. r \in Requests /\ r.holds = req[s].holds /\ r.task = req[s].task
      BY SeenTyped DEF Request, Requests
    <3>2. Goto(s, "working", r)
      BY <2>6 DEF StartWork
    <3>3. /\ \A h \in req[s].holds : hold[h].status # "NONE"
          /\ \A h \in req[s].holds : h[1] = req[s].task /\ req[s].holds = {h}
      BY <2>6 DEF StartWork, HoldInv, SessionsHold, WithHold, ForTask
    <3>4. hold' = hold /\ delivered' = delivered /\ user_lock' = user_lock
      BY <2>6 DEF StartWork
    <3> HIDE DEF r
    <3> QED BY <3>1, <3>2, <3>3, <3>4, HoldsUntouched DEF Labels
  <2>10. ASSUME CommitWork(s) PROVE HoldInv'
    <3> DEFINE r == Request(req[s].task, req[s].holds, Loaded(s), 0)
    <3>1. r \in Requests /\ r.holds = req[s].holds /\ r.task = req[s].task
      BY SeenTyped DEF Request, Requests
    <3>2. Goto(s, "working", r)
      BY <2>10 DEF CommitWork
    <3>3. /\ \A h \in req[s].holds : hold[h].status # "NONE"
          /\ \A h \in req[s].holds : h[1] = req[s].task /\ req[s].holds = {h}
      BY <2>10 DEF CommitWork, HoldInv, SessionsHold, WithHold, ForTask
    <3>4. /\ hold' = hold /\ delivered' = delivered
          /\ user_lock' = user_lock \/ user_lock \in {None, s}
      BY <2>10 DEF CommitWork, EndTransaction
    <3> HIDE DEF r
    <3> QED BY <3>1, <3>2, <3>3, <3>4, HoldsUntouched DEF Labels
  <2>7. ASSUME NEW a \in Actuals, Succeed(s, a) PROVE HoldInv'
    <3> DEFINE r == [req[s] EXCEPT !.amount = a]
    <3>1. r \in Requests /\ r.holds = req[s].holds /\ r.task = req[s].task
      BY CreditConstants DEF Requests
    <3>2. Goto(s, "settle", r)
      BY <2>7 DEF Succeed
    <3>3. /\ \A h \in req[s].holds : hold[h].status # "NONE"
          /\ \A h \in req[s].holds : h[1] = req[s].task /\ req[s].holds = {h}
      BY <2>7 DEF Succeed, HoldInv, SessionsHold, WithHold, ForTask
    <3>4. hold' = hold /\ delivered' = delivered /\ user_lock' = user_lock
      BY <2>7 DEF Succeed, locks
    <3> HIDE DEF r
    <3> QED BY <3>1, <3>2, <3>3, <3>4, HoldsUntouched DEF Labels
  <2>8. ASSUME Fail(s) PROVE HoldInv'
    <3>1. \A h \in req[s].holds : hold[h].status # "NONE"
      BY <2>8 DEF Fail, HoldInv, SessionsHold, WithHold
    <3> QED BY <2>8, <3>1, HoldsUntouched DEF Fail, locks, Labels, WithHold, ForTask
  <2>9. ASSUME \/ \E t \in Tasks : AskDelivered(s, t)
               \/ \E h \in Holds : Insufficient(s, h)
               \/ PauseBudget(s) \/ ReturnDelivered(s)
        PROVE  HoldInv'
    BY <2>9, FinishUntouched DEF AskDelivered, Insufficient, PauseBudget, ReturnDelivered
  <2> QED BY <1>1, <2>1, <2>2, <2>3, <2>4, <2>5, <2>6, <2>7, <2>8, <2>9, <2>10,
            ReserveKeeps
         DEF ReserveStep
<1>2. ASSUME NEW s \in Callers, SettleStep(s) PROVE HoldInv'
  <2> s \in Sessions
    BY DEF Sessions
  <2> req[s] \in Requests
    BY <1>t
  <2>1. ASSUME SettleLock(s) PROVE HoldInv'
    <3>1. /\ \A h \in req[s].holds : hold[h].status # "NONE"
          /\ \A h \in req[s].holds : h[1] = req[s].task /\ req[s].holds = {h}
      BY <2>1 DEF SettleLock, HoldInv, SessionsHold, WithHold, ForTask
    <3>2. Goto(s, "settling", req[s]) \/ Goto(s, "settle_account", req[s])
      BY <2>1 DEF SettleLock
    <3> QED BY <2>1, <3>1, <3>2, HoldsUntouched DEF SettleLock, Labels
  <2>2. ASSUME SettleAccount(s) PROVE HoldInv'
    <3> DEFINE r == [req[s] EXCEPT !.view = Seen(s)]
    <3>1. r \in Requests /\ r.holds = req[s].holds /\ r.task = req[s].task
      BY SeenTyped DEF Requests
    <3>2. Goto(s, "settling", r) /\ user_lock = None
      BY <2>2 DEF SettleAccount, LockUser
    <3>3. /\ \A h \in req[s].holds : hold[h].status # "NONE"
          /\ \A h \in req[s].holds : h[1] = req[s].task /\ req[s].holds = {h}
      BY <2>2 DEF SettleAccount, HoldInv, SessionsHold, WithHold, ForTask
    <3>4. hold' = hold /\ delivered' = delivered
      BY <2>2 DEF SettleAccount
    <3> HIDE DEF r
    <3> QED BY <3>1, <3>2, <3>3, <3>4, HoldsUntouched DEF Labels
  <2>3. ASSUME SettleAgain(s) \/ DeliverConflict(s) PROVE HoldInv'
    BY <2>3, FinishUntouched DEF SettleAgain, DeliverConflict, Deliver
  <2> QED BY <1>2, <2>1, <2>2, <2>3, SettleCommitKeeps DEF SettleStep
<1>3. ASSUME NEW s \in Callers \cup Admins \cup Recoverers, RefundStep(s) PROVE HoldInv'
  <2> s \in Sessions
    BY DEF Sessions
  <2> req[s] \in Requests
    BY <1>t
  <2>h. pc[s] \in WithHold => \A h \in req[s].holds : hold[h].status # "NONE"
    BY DEF HoldInv, SessionsHold
  <2>1. ASSUME RefundLock(s) PROVE HoldInv'
    BY <2>1, <2>h, HoldsUntouched DEF RefundLock, Labels, WithHold, ForTask
  <2>2. ASSUME RefundAgain(s) PROVE HoldInv'
    BY <2>2, FinishUntouched DEF RefundAgain
  <2>3. ASSUME RefundAccount(s) PROVE HoldInv'
    <3> DEFINE r1 == [req[s] EXCEPT !.todo = req[s].holds]
               r == [r1 EXCEPT !.view = Seen(s)]
    <3>1. r1 \in Requests /\ r1.holds = req[s].holds
      BY DEF Requests
    <3>2. r \in Requests /\ r.holds = req[s].holds
      <4>1. Seen(s) \in Nat
        BY SeenTyped
      <4> HIDE DEF r1
      <4> QED BY <3>1, <4>1 DEF Requests
    <3>3. Goto(s, "refunding", r) /\ user_lock = None
      BY <2>3 DEF RefundAccount, LockUser
    <3>4. hold' = hold /\ delivered' = delivered /\ pc[s] \in WithHold
      BY <2>3 DEF RefundAccount, WithHold
    <3> HIDE DEF r
    <3> QED BY <3>2, <3>3, <3>4, <2>h, HoldsUntouched DEF Labels, ForTask
  <2>4. ASSUME NEW h \in Holds, RefundRow(s, h) PROVE HoldInv'
    <3> DEFINE r1 == [req[s] EXCEPT !.todo = req[s].todo \ {h}]
               r == [r1 EXCEPT !.amount = req[s].amount + Moved(hold[h].reserved)]
    <3>1. r1 \in Requests /\ r1.holds = req[s].holds
      BY DEF Requests
    <3>2. r \in Requests /\ r.holds = req[s].holds
      <4>1. req[s].amount + Moved(hold[h].reserved) \in Int
        BY CreditConstants DEF Moved, TypeInv, TypeOK, HoldRecord, Requests
      <4> HIDE DEF r1
      <4> QED BY <3>1, <4>1 DEF Requests
    <3>3. Goto(s, "refunding", r)
      BY <2>4 DEF RefundRow
    <3>4. hold' = hold /\ delivered' = delivered /\ user_lock' = user_lock /\ pc[s] \in WithHold
      BY <2>4 DEF RefundRow, WithHold, locks
    <3> HIDE DEF r
    <3> QED BY <3>2, <3>3, <3>4, <2>h, HoldsUntouched DEF Labels, ForTask
  <2> QED BY <1>3, <2>1, <2>2, <2>3, <2>4, RefundCommitKeeps DEF RefundStep
<1>4. ASSUME NEW s \in Webhooks \cup Admins, GrantStep(s) \/ GrantRead(s) PROVE HoldInv'
  <2> s \in Sessions
    BY DEF Sessions
  <2>1. TypeInv'
    BY <1>4, GrantStepTyped, ConsoleStepTyped
  <2>2. CASE GrantKnown(s)
    BY <2>2, FinishUntouched DEF GrantKnown
  <2>3. CASE GrantCommit(s)
    BY <2>3, FinishUntouched DEF GrantCommit
  <2>4. CASE GrantAccount(s)
    <3>1. PICK r : Goto(s, "granting", r)
      BY <2>4 DEF GrantAccount, LockUser
    <3>2. r \in Requests
      <4>1. req'[s] = r
        BY <3>1 DEF Goto, TypeInv, TypeOK
      <4> QED BY <2>1, <4>1 DEF TypeInv, TypeOK
    <3>3. hold' = hold /\ delivered' = delivered /\ user_lock = None
      BY <2>4 DEF GrantAccount, LockUser
    <3> QED BY <3>1, <3>2, <3>3, HoldsUntouched DEF Labels, WithHold, ForTask
  <2>5. CASE GrantRead(s)
    <3>1. PICK r : Goto(s, "grant", r)
      BY <2>5 DEF GrantRead
    <3>2. r \in Requests
      <4>1. req'[s] = r
        BY <3>1 DEF Goto, TypeInv, TypeOK
      <4> QED BY <2>1, <4>1 DEF TypeInv, TypeOK
    <3>3. hold' = hold /\ delivered' = delivered /\ user_lock' = user_lock
      BY <2>5 DEF GrantRead, locks
    <3> QED BY <3>1, <3>2, <3>3, HoldsUntouched DEF Labels, WithHold, ForTask
  <2> QED BY <1>4, <2>2, <2>3, <2>4, <2>5 DEF GrantStep
<1>5. ASSUME NEW a \in Admins, NEW h \in Holds, AdminRefund(a, h) PROVE HoldInv'
  <2> DEFINE r == Request(None, {h}, None, 0)
  <2>1. r \in Requests /\ r.holds = {h}
    BY DEF Request, Requests
  <2>2. Goto(a, "refund", r) /\ hold[h].status # "NONE"
    BY <1>5 DEF AdminRefund
  <2>3. hold' = hold /\ delivered' = delivered /\ user_lock' = user_lock /\ a \in Sessions
    BY <1>5 DEF AdminRefund, locks, Sessions
  <2> HIDE DEF r
  <2> QED BY <2>1, <2>2, <2>3, HoldsUntouched DEF Labels, ForTask
<1>6. ASSUME NEW a \in Admins, NEW e \in ledger, AdminUndo(a, e) PROVE HoldInv'
  <2> a \in Sessions
    BY DEF Sessions
  <2>1. PICK r : Goto(a, "grant", r)
    BY <1>6 DEF AdminUndo
  <2>2. r \in Requests
    <3>1. req'[a] = r
      BY <2>1 DEF Goto, TypeInv, TypeOK
    <3>2. TypeInv'
      BY <1>6, ConsoleStepTyped
    <3> QED BY <3>1, <3>2 DEF TypeInv, TypeOK
  <2>3. hold' = hold /\ delivered' = delivered /\ user_lock' = user_lock
    BY <1>6 DEF AdminUndo, locks
  <2> QED BY <2>1, <2>2, <2>3, HoldsUntouched DEF Labels, WithHold, ForTask
<1>7. ASSUME NEW w \in Recoverers, NEW batch \in SUBSET Holds, Sweep(w, batch) PROVE HoldInv'
  <2> DEFINE r == Request(None, batch, None, 0)
  <2>1. r \in Requests /\ r.holds = batch
    BY DEF Request, Requests
  <2>2. Goto(w, "refund_account", r) /\ \A h \in batch : hold[h].status # "NONE"
    BY <1>7 DEF Sweep
  <2>3. hold' = hold /\ delivered' = delivered /\ user_lock' = user_lock /\ w \in Sessions
    BY <1>7 DEF Sweep, Sessions
  <2> HIDE DEF r
  <2> QED BY <2>1, <2>2, <2>3, HoldsUntouched DEF Labels, ForTask
<1>8. ASSUME NEW a \in Adjusters, AdjustWrite(a) \/ \E n \in Adjustments : AdjustRead(a, n)
      PROVE  HoldInv'
  <2> a \in Sessions
    BY DEF Sessions
  <2>1. CASE AdjustWrite(a)
    BY <2>1, FinishUntouched DEF AdjustWrite
  <2>2. ASSUME NEW n \in Adjustments, AdjustRead(a, n) PROVE HoldInv'
    <3>1. PICK r : Goto(a, "adjusting", r)
      BY <2>2 DEF AdjustRead
    <3>2. r \in Requests
      <4>1. req'[a] = r
        BY <3>1 DEF Goto, TypeInv, TypeOK
      <4>2. TypeInv'
        BY <2>2, AdjustTyped
      <4> QED BY <4>1, <4>2 DEF TypeInv, TypeOK
    <3>3. hold' = hold /\ delivered' = delivered /\ user_lock' = user_lock
      BY <2>2 DEF AdjustRead, locks
    <3> QED BY <3>1, <3>2, <3>3, HoldsUntouched DEF Labels, WithHold, ForTask
  <2> QED BY <1>8, <2>1, <2>2
<1>9. ASSUME NEW s \in Sessions, Die(s) PROVE HoldInv'
  BY <1>9, FinishUntouched DEF Die
<1>10. ASSUME update_budget \/ NextDay \/ UNCHANGED vars PROVE HoldInv'
  BY <1>10 DEF update_budget, NextDay, vars, locks, HoldInv, SessionsHold, Reserving, Reusable,
     OneHoldPerTask, SettledDelivered, ReportChargedOnce
<1> QED
  BY <1>1, <1>2, <1>3, <1>4, <1>5, <1>6, <1>7, <1>8, <1>9, <1>10 DEF Next

\* However requests race for the idempotency key of a task, fail, die or are swept,
\* it has at most one live reservation.
THEOREM OneHold == Spec => []OneHoldPerTask
<1>1. HoldInv => OneHoldPerTask
  BY DEF HoldInv
<1> QED BY TypeInit, TypeNext, HoldInit, HoldNext, <1>1, PTL DEF Spec

\* A report is charged at most once: the transaction that settles it also writes the
\* one Report row its key admits.
THEOREM OneCharge == Spec => []ReportChargedOnce
<1>1. HoldInv => ReportChargedOnce
  BY DEF HoldInv
<1> QED BY TypeInit, TypeNext, HoldInit, HoldNext, <1>1, PTL DEF Spec


-----------------------------------------------------------------------------
(* The rows under settlement or refund *)

Ending == {"settle_account", "settling", "refund_account", "refunding"}

\* Whoever settles or refunds a reservation has its row locked and found it RESERVED.
RowsLocked(s) ==
    pc[s] \in Ending =>
        \A h \in req[s].holds : row_lock[h] = s /\ hold[h].status = "RESERVED"

\* What the rows of a batch give back.
HeldCredits == [h \in Holds |-> Moved(hold[h].reserved)]
HoldSum(rows) == SumFunctionOnSet(HeldCredits, rows)

\* A refund starts from nothing and has added up the rows it is done with.
Refunding(s) ==
    /\ pc[s] \in {"working", "refund", "refund_account"} => req[s].amount = 0
    /\ pc[s] = "refund" => \A h \in req[s].holds : req[s].holds = {h}
    /\ pc[s] = "refunding" =>
        /\ user_lock = s
        /\ req[s].todo \subseteq req[s].holds
        /\ req[s].amount + HoldSum(req[s].todo) = HoldSum(req[s].holds)

\* A settlement that changes what its reservation uses has the account locked.
Settling(s) ==
    pc[s] = "settling" =>
        user_lock = s \/ \A h \in req[s].holds : req[s].amount = hold[h].reserved

Working(s) == RowsLocked(s) /\ Refunding(s) /\ Settling(s)
RowInv == \A s \in Sessions : Working(s)

\* Every step is one session's: the others keep their locks, and it writes rows
\* that did not exist or that it has locked.
Alone(s) ==
    /\ \A q \in Sessions \ {s} : pc'[q] = pc[q] /\ req'[q] = req[q]
    /\ user_lock' = user_lock \/ user_lock \in {None, s}
    /\ \A h \in Holds : row_lock'[h] = row_lock[h] \/ row_lock[h] \in {None, s}
    /\ \A h \in Holds : \/ hold'[h] = hold[h]
                        \/ hold[h].status = "NONE"
                        \/ hold[h].status = "RESERVED" /\ row_lock[h] = s

LEMMA FiniteHolds == IsFiniteSet(Holds)
<1>1. IsFiniteSet(Tasks) /\ MaxAttempts \in Int /\ 1 \in Int
  BY CreditConstants
<1>2. IsFiniteSet(1 .. MaxAttempts)
  BY <1>1, FS_Interval
<1> QED BY <1>1, <1>2, FS_Product DEF Holds

LEMMA HeldTyped ==
    ASSUME TypeInv
    PROVE  \A h \in Holds : hold[h].reserved \in Nat /\ HeldCredits[h] \in Nat
BY DEF TypeInv, TypeOK, HoldRecord, HeldCredits, Moved

LEMMA HoldSumInt ==
    ASSUME TypeInv, NEW rows \in SUBSET Holds
    PROVE  IsFiniteSet(rows) /\ HoldSum(rows) \in Int
<1>1. IsFiniteSet(rows)
  BY FiniteHolds, FS_Subset
<1>2. \A h \in rows : HeldCredits[h] \in Int
  BY HeldTyped
<1> QED BY <1>1, <1>2, SumInt DEF HoldSum

LEMMA RowInit == Init => RowInv
BY DEF Init, RowInv, Working, RowsLocked, Refunding, Settling, Ending

\* What a session is doing is left alone by a step of another.
LEMMA RowFrame ==
    ASSUME TypeInv, RowInv, NEW s \in Sessions, Alone(s), Working(s)'
    PROVE  RowInv'
<1> SUFFICES ASSUME NEW q \in Sessions, q # s PROVE Working(q)'
  BY DEF RowInv
<1>0. Working(q) /\ q # None /\ req[q].holds \subseteq Holds
  BY CreditConstants DEF RowInv, TypeInv, TypeOK, Requests
<1>1. pc'[q] = pc[q] /\ req'[q] = req[q]
  BY DEF Alone
<1>2. user_lock = q => user_lock' = q
  BY <1>0 DEF Alone
<1>3. ASSUME pc[q] \in Ending, NEW h \in req[q].holds
      PROVE  row_lock'[h] = q /\ hold'[h] = hold[h] /\ hold[h].status = "RESERVED"
  <2>1. row_lock[h] = q /\ hold[h].status = "RESERVED" /\ h \in Holds
    BY <1>0, <1>3 DEF Working, RowsLocked
  <2> QED BY <1>0, <2>1 DEF Alone
<1>4. RowsLocked(q)'
  BY <1>1, <1>3 DEF RowsLocked
<1>5. ASSUME pc[q] = "refunding", NEW rows \in SUBSET req[q].holds
      PROVE  HoldSum(rows)' = HoldSum(rows)
  <2>1. IsFiniteSet(rows)
    BY <1>0, FiniteHolds, FS_Subset
  <2>2. \A h \in rows : HeldCredits'[h] = HeldCredits[h]
    BY <1>0, <1>3, <1>5 DEF HeldCredits, Ending
  <2> QED BY <2>1, <2>2, SumSame DEF HoldSum
<1>6. Refunding(q)'
  <2>1. CASE pc[q] = "refunding"
    <3>1. /\ user_lock = q /\ req[q].todo \subseteq req[q].holds
          /\ req[q].amount + HoldSum(req[q].todo) = HoldSum(req[q].holds)
      BY <1>0, <2>1 DEF Working, Refunding
    <3>2. HoldSum(req[q].todo)' = HoldSum(req[q].todo) /\ HoldSum(req[q].holds)' = HoldSum(req[q].holds)
      <4>1. HoldSum(req[q].todo)' = SumFunctionOnSet(HeldCredits', req[q].todo)
            /\ HoldSum(req[q].holds)' = SumFunctionOnSet(HeldCredits', req[q].holds)
        BY <1>1 DEF HoldSum
      <4> QED BY <3>1, <4>1, <2>1, <1>5 DEF HoldSum
    <3> QED BY <1>1, <1>2, <2>1, <3>1, <3>2 DEF Refunding
  <2>2. CASE pc[q] # "refunding"
    BY <1>0, <1>1, <2>2 DEF Working, Refunding
  <2> QED BY <2>1, <2>2
<1>7. Settling(q)'
  BY <1>0, <1>1, <1>2, <1>3 DEF Working, Settling, Ending
<1> QED BY <1>4, <1>6, <1>7 DEF Working

LEMMA Went ==
    ASSUME TypeInv, NEW s \in Sessions, NEW label, NEW r, Goto(s, label, r)
    PROVE  /\ pc'[s] = label /\ req'[s] = r
           /\ \A q \in Sessions \ {s} : pc'[q] = pc[q] /\ req'[q] = req[q]
BY DEF Goto, TypeInv, TypeOK

LEMMA FinishAlone ==
    ASSUME TypeInv, NEW s \in Sessions, Finish(s),
           \A h \in Holds : \/ hold'[h] = hold[h]
                            \/ hold[h].status = "NONE"
                            \/ hold[h].status = "RESERVED" /\ row_lock[h] = s
    PROVE  Alone(s) /\ Working(s)'
<1>1. /\ pc'[s] \in {"idle", "done"}
      /\ \A q \in Sessions \ {s} : pc'[q] = pc[q] /\ req'[q] = req[q]
  BY DEF Finish, Goto, TypeInv, TypeOK
<1>2. Alone(s)
  BY <1>1 DEF Alone, Finish, EndTransaction
<1>3. Working(s)'
  BY <1>1 DEF Working, RowsLocked, Refunding, Settling, Ending
<1> QED BY <1>2, <1>3

\* The labels at which a session has no row to answer for.
Elsewhere == Labels \ (Ending \cup {"working", "refund"})

LEMMA ElsewhereWorking ==
    ASSUME NEW s, pc'[s] \in Elsewhere
    PROVE  Working(s)'
BY DEF Elsewhere, Working, RowsLocked, Refunding, Settling, Ending

LEMMA ReserveRows ==
    ASSUME TypeInv, HoldInv, RowInv, NEW s \in Callers, ReserveStep(s)
    PROVE  Alone(s) /\ Working(s)'
<1> s \in Sessions
  BY DEF Sessions
<1>0. Working(s)
  BY DEF RowInv
<1>1. ASSUME NEW t \in Tasks, NEW q \in Quotes, Ask(s, t, q) PROVE Alone(s) /\ Working(s)'
  <2>1. pc'[s] = "lookup" /\ Alone(s)
    BY <1>1, Went DEF Ask, Alone
  <2> QED BY <2>1, ElsewhereWorking DEF Elsewhere, Ending, Labels
<1>2. ASSUME NEW h \in Holds, ReuseHold(s, h) PROVE Alone(s) /\ Working(s)'
  <2>1. pc'[s] = "held" /\ Alone(s)
    BY <1>2, Went DEF ReuseHold, EndTransaction, Alone
  <2> QED BY <2>1, ElsewhereWorking DEF Elsewhere, Ending, Labels
<1>3. ASSUME NEW h \in Holds, NoLiveHold(s, h) PROVE Alone(s) /\ Working(s)'
  <2>1. pc'[s] = "wait" /\ Alone(s)
    BY <1>3, Went DEF NoLiveHold, Alone, locks
  <2> QED BY <2>1, ElsewhereWorking DEF Elsewhere, Ending, Labels
<1>4. ASSUME NEW h \in Holds, LockAccount(s, h) PROVE Alone(s) /\ Working(s)'
  <2>1. pc'[s] = "reserving" /\ Alone(s)
    BY <1>4, Went DEF LockAccount, LockUser, Alone
  <2> QED BY <2>1, ElsewhereWorking DEF Elsewhere, Ending, Labels
<1>5. ASSUME NEW h \in Holds, BudgetExceeded(s, h) PROVE Alone(s) /\ Working(s)'
  <2>1. pc'[s] = "denied" /\ Alone(s)
    BY <1>5, Went DEF BudgetExceeded, EndTransaction, Alone
  <2> QED BY <2>1, ElsewhereWorking DEF Elsewhere, Ending, Labels
<1>6. ASSUME Reserve(s) PROVE Alone(s) /\ Working(s)'
  <2>1. PICK h \in Holds : req[s].holds = {h} /\ hold[h].status = "NONE"
    BY <1>6 DEF Reserve, HoldInv, SessionsHold, Reserving
  <2>2. \A g \in Holds \ {h} : hold'[g] = hold[g]
    BY <1>6, <2>1 DEF Reserve, TypeInv, TypeOK
  <2>3. Goto(s, "held", Request(req[s].task, req[s].holds, None, 0)) /\ EndTransaction(s)
    BY <1>6 DEF Reserve
  <2>4. pc'[s] = "held" /\ \A q \in Sessions \ {s} : pc'[q] = pc[q] /\ req'[q] = req[q]
    BY <2>3, Went
  <2>5. Alone(s)
    BY <2>1, <2>2, <2>3, <2>4 DEF EndTransaction, Alone
  <2> QED BY <2>4, <2>5, ElsewhereWorking DEF Elsewhere, Ending, Labels
<1>7. ASSUME StartWork(s) PROVE Alone(s) /\ Working(s)'
  <2> DEFINE r == Request(req[s].task, req[s].holds, Loaded(s), 0)
  <2>1. r.amount = 0 /\ Goto(s, "working", r)
    BY <1>7 DEF StartWork, Request
  <2> HIDE DEF r
  <2>2. /\ pc'[s] = "working" /\ req'[s].amount = 0
        /\ \A q \in Sessions \ {s} : pc'[q] = pc[q] /\ req'[q] = req[q]
    BY <2>1, Went
  <2>3. \A h \in Holds : row_lock'[h] = row_lock[h] \/ row_lock[h] \in {None, s}
    BY <1>7 DEF StartWork, TypeInv, TypeOK
  <2>4. Alone(s)
    BY <1>7, <2>2, <2>3 DEF StartWork, Alone
  <2> QED BY <2>2, <2>4 DEF Working, RowsLocked, Refunding, Settling, Ending
<1>11. ASSUME CommitWork(s) PROVE Alone(s) /\ Working(s)'
  <2> DEFINE r == Request(req[s].task, req[s].holds, Loaded(s), 0)
  <2>1. r.amount = 0 /\ Goto(s, "working", r)
    BY <1>11 DEF CommitWork, Request
  <2> HIDE DEF r
  <2>2. /\ pc'[s] = "working" /\ req'[s].amount = 0
        /\ \A q \in Sessions \ {s} : pc'[q] = pc[q] /\ req'[q] = req[q]
    BY <2>1, Went
  <2>3. Alone(s)
    BY <1>11, <2>2 DEF CommitWork, EndTransaction, Alone
  <2> QED BY <2>2, <2>3 DEF Working, RowsLocked, Refunding, Settling, Ending
<1>8. ASSUME NEW a \in Actuals, Succeed(s, a) PROVE Alone(s) /\ Working(s)'
  <2>1. pc'[s] = "settle" /\ Alone(s)
    BY <1>8, Went DEF Succeed, Alone, locks
  <2> QED BY <2>1, ElsewhereWorking DEF Elsewhere, Ending, Labels
<1>9. ASSUME Fail(s) PROVE Alone(s) /\ Working(s)'
  <2>1. pc'[s] = "refund" /\ req'[s] = req[s] /\ Alone(s)
    BY <1>9, Went DEF Fail, Alone, locks
  <2>2. pc[s] = "working" /\ req[s].amount = 0 /\ \A h \in req[s].holds : req[s].holds = {h}
    BY <1>0, <1>9 DEF Fail, Working, Refunding, HoldInv, SessionsHold, ForTask
  <2> QED BY <2>1, <2>2 DEF Working, RowsLocked, Refunding, Settling, Ending
<1>10. ASSUME \/ \E t \in Tasks : AskDelivered(s, t)
              \/ \E h \in Holds : Insufficient(s, h)
              \/ PauseBudget(s) \/ ReturnDelivered(s)
       PROVE  Alone(s) /\ Working(s)'
  BY <1>10, FinishAlone DEF AskDelivered, Insufficient, PauseBudget, ReturnDelivered
<1> QED BY <1>1, <1>2, <1>3, <1>4, <1>5, <1>6, <1>7, <1>8, <1>9, <1>10, <1>11 DEF ReserveStep

LEMMA SettleRows ==
    ASSUME TypeInv, HoldInv, RowInv, NEW s \in Callers, SettleStep(s)
    PROVE  Alone(s) /\ Working(s)'
<1> s \in Sessions
  BY DEF Sessions
<1>0. Working(s) /\ req[s].holds \subseteq Holds
  BY DEF RowInv, TypeInv, TypeOK, Requests
<1>1. ASSUME SettleLock(s) PROVE Alone(s) /\ Working(s)'
  <2> DEFINE label(h) == IF req[s].amount = hold[h].reserved THEN "settling" ELSE "settle_account"
  <2>1. PICK h \in req[s].holds :
           /\ RowFree(s, h) /\ hold[h].status = "RESERVED"
           /\ row_lock' = [row_lock EXCEPT ![h] = s]
           /\ Goto(s, label(h), req[s])
    BY <1>1 DEF SettleLock
  <2>2. req[s].holds = {h} /\ h \in Holds
    BY <1>0, <1>1, <2>1 DEF SettleLock, HoldInv, SessionsHold, ForTask
  <2>3. /\ pc'[s] = label(h) /\ req'[s] = req[s]
        /\ \A q \in Sessions \ {s} : pc'[q] = pc[q] /\ req'[q] = req[q]
    <3> HIDE DEF label
    <3> QED BY <2>1, Went
  <2>4. /\ row_lock'[h] = s /\ row_lock[h] \in {None, s}
        /\ \A g \in Holds \ {h} : row_lock'[g] = row_lock[g]
    BY <2>1, <2>2 DEF RowFree, TypeInv, TypeOK
  <2>5. hold' = hold /\ user_lock' = user_lock
    BY <1>1 DEF SettleLock
  <2>6. Alone(s)
    BY <2>3, <2>4, <2>5 DEF Alone
  <2>7. Working(s)'
    BY <2>1, <2>2, <2>3, <2>4, <2>5 DEF Working, RowsLocked, Refunding, Settling
  <2> QED BY <2>6, <2>7
<1>2. ASSUME SettleAccount(s) PROVE Alone(s) /\ Working(s)'
  <2> DEFINE r == [req[s] EXCEPT !.view = Seen(s)]
  <2>1. r.holds = req[s].holds /\ Goto(s, "settling", r)
    BY <1>2 DEF SettleAccount, LockUser, TypeInv, TypeOK, Requests
  <2> HIDE DEF r
  <2>2. /\ pc'[s] = "settling" /\ req'[s].holds = req[s].holds
        /\ \A q \in Sessions \ {s} : pc'[q] = pc[q] /\ req'[q] = req[q]
    BY <2>1, Went
  <2>3. user_lock = None /\ user_lock' = s /\ row_lock' = row_lock /\ hold' = hold
    BY <1>2 DEF SettleAccount, LockUser
  <2>4. Alone(s)
    BY <2>2, <2>3 DEF Alone
  <2>5. \A h \in req[s].holds : row_lock[h] = s /\ hold[h].status = "RESERVED"
    BY <1>0, <1>2 DEF SettleAccount, Working, RowsLocked, Ending
  <2> QED BY <2>2, <2>3, <2>4, <2>5 DEF Working, RowsLocked, Refunding, Settling
<1>3. ASSUME SettleCommit(s) PROVE Alone(s) /\ Working(s)'
  <2>1. PICK h \in req[s].holds : \E status, settled :
          hold' = [hold EXCEPT ![h].status = status, ![h].settled = settled]
    BY <1>3 DEF SettleCommit
  <2>2. h \in Holds /\ row_lock[h] = s /\ hold[h].status = "RESERVED"
    BY <1>0, <1>3 DEF SettleCommit, Working, RowsLocked, Ending
  <2>3. \A g \in Holds \ {h} : hold'[g] = hold[g]
    BY <2>1, <2>2 DEF TypeInv, TypeOK
  <2>4. Finish(s)
    BY <1>3 DEF SettleCommit
  <2> QED BY <2>2, <2>3, <2>4, FinishAlone
<1>4. ASSUME SettleAgain(s) \/ DeliverConflict(s) PROVE Alone(s) /\ Working(s)'
  BY <1>4, FinishAlone DEF SettleAgain, DeliverConflict
<1> QED BY <1>1, <1>2, <1>3, <1>4 DEF SettleStep

LEMMA RefundRows ==
    ASSUME TypeInv, HoldInv, RowInv, NEW s \in Sessions, RefundStep(s)
    PROVE  Alone(s) /\ Working(s)'
<1>0. Working(s) /\ req[s].holds \subseteq Holds /\ req[s].todo \subseteq Holds
      /\ req[s].amount \in Int /\ req[s] \in Requests
  BY DEF RowInv, TypeInv, TypeOK, Requests
<1>1. ASSUME RefundLock(s) PROVE Alone(s) /\ Working(s)'
  <2>1. PICK h \in req[s].holds : RowFree(s, h) /\ hold[h].status = "RESERVED"
                                  /\ row_lock' = [row_lock EXCEPT ![h] = s]
    BY <1>1 DEF RefundLock
  <2>2. req[s].holds = {h} /\ h \in Holds /\ req[s].amount = 0
    BY <1>0, <1>1, <2>1 DEF RefundLock, Working, Refunding
  <2>3. /\ pc'[s] = "refund_account" /\ req'[s] = req[s]
        /\ \A q \in Sessions \ {s} : pc'[q] = pc[q] /\ req'[q] = req[q]
    BY <1>1, Went DEF RefundLock
  <2>4. /\ row_lock'[h] = s /\ row_lock[h] \in {None, s}
        /\ \A g \in Holds \ {h} : row_lock'[g] = row_lock[g]
    BY <2>1, <2>2 DEF RowFree, TypeInv, TypeOK
  <2>5. hold' = hold /\ user_lock' = user_lock
    BY <1>1 DEF RefundLock
  <2>6. Alone(s)
    BY <2>3, <2>4, <2>5 DEF Alone
  <2>7. Working(s)'
    BY <2>1, <2>2, <2>3, <2>4, <2>5 DEF Working, RowsLocked, Refunding, Settling
  <2> QED BY <2>6, <2>7
<1>2. ASSUME RefundAccount(s) PROVE Alone(s) /\ Working(s)'
  <2> DEFINE r1 == [req[s] EXCEPT !.todo = req[s].holds]
             r == [r1 EXCEPT !.view = Seen(s)]
  <2>1. r1 \in Requests /\ r1.holds = req[s].holds /\ r1.todo = req[s].holds
        /\ r1.amount = req[s].amount
    BY <1>0 DEF Requests
  <2>2. r.holds = req[s].holds /\ r.todo = req[s].holds /\ r.amount = req[s].amount
    <3> HIDE DEF r1
    <3> QED BY <2>1 DEF Requests
  <2>3. Goto(s, "refunding", r)
    BY <1>2 DEF RefundAccount, LockUser
  <2> HIDE DEF r
  <2>4. /\ pc'[s] = "refunding" /\ req'[s] = r
        /\ \A q \in Sessions \ {s} : pc'[q] = pc[q] /\ req'[q] = req[q]
    BY <2>3, Went
  <2>5. user_lock = None /\ user_lock' = s /\ row_lock' = row_lock /\ hold' = hold
    BY <1>2 DEF RefundAccount, LockUser
  <2>6. Alone(s)
    BY <2>4, <2>5 DEF Alone
  <2>7. req[s].amount = 0 /\ \A h \in req[s].holds : row_lock[h] = s /\ hold[h].status = "RESERVED"
    BY <1>0, <1>2 DEF RefundAccount, Working, RowsLocked, Refunding, Ending
  <2>8. RowsLocked(s)' /\ Settling(s)'
    BY <2>2, <2>4, <2>5, <2>7 DEF RowsLocked, Settling
  <2>9. Refunding(s)'
    <3>1. HeldCredits' = HeldCredits
      BY <2>5 DEF HeldCredits
    <3>2. HoldSum(req[s].holds) \in Int
      BY <1>0, HoldSumInt
    <3>3. req'[s].amount + SumFunctionOnSet(HeldCredits', req'[s].todo)
            = SumFunctionOnSet(HeldCredits', req'[s].holds)
      BY <2>2, <2>4, <2>7, <3>1, <3>2 DEF HoldSum
    <3> QED BY <2>2, <2>4, <2>5, <3>3 DEF Refunding, HoldSum
  <2> QED BY <2>6, <2>8, <2>9 DEF Working
<1>3. ASSUME NEW h \in Holds, RefundRow(s, h) PROVE Alone(s) /\ Working(s)'
  <2> DEFINE r1 == [req[s] EXCEPT !.todo = req[s].todo \ {h}]
             r == [r1 EXCEPT !.amount = req[s].amount + Moved(hold[h].reserved)]
  <2>0. r1 \in Requests /\ r1.holds = req[s].holds /\ r1.todo = req[s].todo \ {h}
    BY <1>0 DEF Requests
  <2>1. /\ r.holds = req[s].holds /\ r.todo = req[s].todo \ {h}
        /\ r.amount = req[s].amount + HeldCredits[h]
    <3> HIDE DEF r1
    <3> QED BY <2>0 DEF Requests, HeldCredits
  <2>2. Goto(s, "refunding", r)
    BY <1>3 DEF RefundRow
  <2> HIDE DEF r
  <2>3. /\ pc'[s] = "refunding" /\ req'[s] = r
        /\ \A q \in Sessions \ {s} : pc'[q] = pc[q] /\ req'[q] = req[q]
    BY <2>2, Went
  <2>4. user_lock' = user_lock /\ row_lock' = row_lock /\ hold' = hold
    BY <1>3 DEF RefundRow, locks
  <2>5. Alone(s)
    BY <2>3, <2>4 DEF Alone
  <2>6. /\ user_lock = s /\ req[s].todo \subseteq req[s].holds /\ h \in req[s].todo
        /\ req[s].amount + HoldSum(req[s].todo) = HoldSum(req[s].holds)
        /\ \A g \in req[s].holds : row_lock[g] = s /\ hold[g].status = "RESERVED"
    BY <1>0, <1>3 DEF RefundRow, Working, RowsLocked, Refunding, Ending
  <2>7. RowsLocked(s)' /\ Settling(s)'
    BY <2>1, <2>3, <2>4, <2>6 DEF RowsLocked, Settling
  <2>8. HoldSum(req[s].todo) = HeldCredits[h] + HoldSum(req[s].todo \ {h})
    <3>1. IsFiniteSet(req[s].todo) /\ \A g \in req[s].todo : HeldCredits[g] \in Int
      BY <1>0, HoldSumInt, HeldTyped
    <3> QED BY <2>6, <3>1, SumWithout DEF HoldSum
  <2>9. Refunding(s)'
    <3>1. HeldCredits' = HeldCredits
      BY <2>4 DEF HeldCredits
    <3>2. HoldSum(req[s].todo \ {h}) \in Int /\ HeldCredits[h] \in Int /\ req[s].amount \in Int
      BY <1>0, HoldSumInt, HeldTyped
    <3>3. req'[s].amount + HoldSum(req[s].todo \ {h}) = HoldSum(req[s].holds)
      BY <2>1, <2>3, <2>6, <2>8, <3>2
    <3>4. req'[s].amount + SumFunctionOnSet(HeldCredits', req'[s].todo)
            = SumFunctionOnSet(HeldCredits', req'[s].holds)
      BY <2>1, <2>3, <3>1, <3>3 DEF HoldSum
    <3> QED BY <2>1, <2>3, <2>4, <2>6, <3>4 DEF Refunding, HoldSum
  <2> QED BY <2>5, <2>7, <2>9 DEF Working
<1>4. ASSUME RefundAgain(s) PROVE Alone(s) /\ Working(s)'
  BY <1>4, FinishAlone DEF RefundAgain
<1>5. ASSUME RefundCommit(s) PROVE Alone(s) /\ Working(s)'
  <2>1. \A h \in Holds : h \notin req[s].holds => hold'[h] = hold[h]
    BY <1>5 DEF RefundCommit
  <2>2. \A h \in req[s].holds : row_lock[h] = s /\ hold[h].status = "RESERVED"
    BY <1>0, <1>5 DEF RefundCommit, Working, RowsLocked, Ending
  <2>3. Finish(s)
    BY <1>5 DEF RefundCommit
  <2> QED BY <2>1, <2>2, <2>3, FinishAlone
<1> QED BY <1>1, <1>2, <1>3, <1>4, <1>5 DEF RefundStep

LEMMA GrantRows ==
    ASSUME TypeInv, HoldInv, RowInv, NEW s \in Sessions, GrantStep(s) \/ GrantRead(s)
    PROVE  Alone(s) /\ Working(s)'
<1>1. ASSUME GrantAccount(s) PROVE Alone(s) /\ Working(s)'
  <2>1. pc'[s] = "granting" /\ Alone(s)
    BY <1>1, Went DEF GrantAccount, LockUser, Alone
  <2> QED BY <2>1, ElsewhereWorking DEF Elsewhere, Ending, Labels
<1>2. ASSUME GrantKnown(s) \/ GrantCommit(s) PROVE Alone(s) /\ Working(s)'
  BY <1>2, FinishAlone DEF GrantKnown, GrantCommit
<1>3. ASSUME GrantRead(s) PROVE Alone(s) /\ Working(s)'
  <2>1. pc'[s] = "grant" /\ Alone(s)
    BY <1>3, Went DEF GrantRead, Alone, locks
  <2> QED BY <2>1, ElsewhereWorking DEF Elsewhere, Ending, Labels
<1> QED BY <1>1, <1>2, <1>3 DEF GrantStep

LEMMA ConsoleRows ==
    ASSUME TypeInv, HoldInv, RowInv, NEW s \in Sessions,
           \/ \E h \in Holds : AdminRefund(s, h)
           \/ \E e \in ledger : AdminUndo(s, e)
           \/ \E batch \in SUBSET Holds : Sweep(s, batch)
           \/ AdjustWrite(s) \/ \E n \in Adjustments : AdjustRead(s, n)
           \/ Die(s)
    PROVE  Alone(s) /\ Working(s)'
<1>1. ASSUME NEW h \in Holds, AdminRefund(s, h) PROVE Alone(s) /\ Working(s)'
  <2> DEFINE r == Request(None, {h}, None, 0)
  <2>1. r.amount = 0 /\ r.holds = {h} /\ Goto(s, "refund", r)
    BY <1>1 DEF AdminRefund, Request
  <2> HIDE DEF r
  <2>2. /\ pc'[s] = "refund" /\ req'[s].amount = 0 /\ req'[s].holds = {h}
        /\ \A q \in Sessions \ {s} : pc'[q] = pc[q] /\ req'[q] = req[q]
    BY <2>1, Went
  <2>3. Alone(s)
    BY <1>1, <2>2 DEF AdminRefund, Alone, locks
  <2> QED BY <2>2, <2>3 DEF Working, RowsLocked, Refunding, Settling, Ending
<1>2. ASSUME NEW e \in ledger, AdminUndo(s, e) PROVE Alone(s) /\ Working(s)'
  <2>1. PICK r : Goto(s, "grant", r)
    BY <1>2 DEF AdminUndo
  <2>2. pc'[s] = "grant" /\ Alone(s)
    BY <1>2, <2>1, Went DEF AdminUndo, Alone, locks
  <2> QED BY <2>2, ElsewhereWorking DEF Elsewhere, Ending, Labels
<1>3. ASSUME NEW batch \in SUBSET Holds, Sweep(s, batch) PROVE Alone(s) /\ Working(s)'
  <2> DEFINE r == Request(None, batch, None, 0)
  <2>1. r.amount = 0 /\ r.holds = batch /\ Goto(s, "refund_account", r)
    BY <1>3 DEF Sweep, Request
  <2> HIDE DEF r
  <2>2. /\ pc'[s] = "refund_account" /\ req'[s].amount = 0 /\ req'[s].holds = batch
        /\ \A q \in Sessions \ {s} : pc'[q] = pc[q] /\ req'[q] = req[q]
    BY <2>1, Went
  <2>3. /\ \A h \in batch : row_lock'[h] = s /\ row_lock[h] = None /\ hold[h].status = "RESERVED"
        /\ \A h \in Holds \ batch : row_lock'[h] = row_lock[h]
        /\ user_lock' = user_lock /\ hold' = hold
    BY <1>3 DEF Sweep
  <2>4. Alone(s)
    BY <2>2, <2>3 DEF Alone
  <2> QED BY <2>2, <2>3, <2>4 DEF Working, RowsLocked, Refunding, Settling, Ending
<1>4. ASSUME AdjustWrite(s) \/ Die(s) PROVE Alone(s) /\ Working(s)'
  BY <1>4, FinishAlone DEF AdjustWrite, Die
<1>5. ASSUME NEW n \in Adjustments, AdjustRead(s, n) PROVE Alone(s) /\ Working(s)'
  <2>1. pc'[s] = "adjusting" /\ Alone(s)
    BY <1>5, Went DEF AdjustRead, Alone, locks
  <2> QED BY <2>1, ElsewhereWorking DEF Elsewhere, Ending, Labels
<1> QED BY <1>1, <1>2, <1>3, <1>4, <1>5

\* A step that no session takes.
Idle == UNCHANGED <<account, hold, locks, pc, req>>

LEMMA RowNext == TypeInv /\ HoldInv /\ RowInv /\ [Next]_vars => RowInv'
<1> SUFFICES ASSUME TypeInv, HoldInv, RowInv, [Next]_vars PROVE RowInv'
  OBVIOUS
<1>1. ASSUME Idle PROVE RowInv'
  <2>1. HeldCredits' = HeldCredits
    BY <1>1 DEF Idle, HeldCredits
  <2> QED BY <1>1, <2>1 DEF Idle, locks, RowInv, Working, RowsLocked, Refunding, Settling, HoldSum
<1>2. ASSUME NEW s \in Sessions, Alone(s), Working(s)' PROVE RowInv'
  BY <1>2, RowFrame
<1>3. CASE update_budget \/ NextDay \/ UNCHANGED vars
  BY <1>1, <1>3 DEF Idle, update_budget, NextDay, vars
<1>4. CASE \E s \in Sessions : Die(s)
  BY <1>2, <1>4, ConsoleRows
<1>5. CASE \E s \in Callers : ReserveStep(s) \/ SettleStep(s)
  BY <1>2, <1>5, ReserveRows, SettleRows DEF Sessions
<1>6. CASE \E s \in Callers \cup Admins \cup Recoverers : RefundStep(s)
  BY <1>2, <1>6, RefundRows DEF Sessions
<1>7. CASE \/ \E s \in Webhooks \cup Admins : GrantStep(s)
           \/ \E w \in Webhooks : GrantRead(w)
  BY <1>2, <1>7, GrantRows DEF Sessions
<1>8. CASE \E a \in Admins : (\E h \in Holds : AdminRefund(a, h)) \/ \E e \in ledger : AdminUndo(a, e)
  BY <1>2, <1>8, ConsoleRows DEF Sessions
<1>9. CASE \/ \E w \in Recoverers : \E batch \in SUBSET Holds : Sweep(w, batch)
           \/ \E a \in Adjusters : AdjustWrite(a) \/ \E n \in Adjustments : AdjustRead(a, n)
  BY <1>2, <1>9, ConsoleRows DEF Sessions
<1> QED BY <1>3, <1>4, <1>5, <1>6, <1>7, <1>8, <1>9 DEF Next

-----------------------------------------------------------------------------
(* The ledger *)

EntryKeys == ({"hold", "settle", "refund"} \X Holds) \cup ({"adjust"} \X Sessions) \cup GrantKeys

\* What the ledger says of a reservation, entry by entry.
RowLedger(h) ==
    /\ hold[h].reserved = Moved(hold[h].reserved)
    /\ Posted(<<"hold", h>>) <=> hold[h].status # "NONE"
    /\ Posted(<<"refund", h>>) <=> hold[h].status = "REFUNDED"
    /\ Posted(<<"settle", h>>) => hold[h].status = "SETTLED"
    /\ hold[h].status \in SettledStatus /\ ~Posted(<<"settle", h>>) =>
        Moved(hold[h].settled) = hold[h].reserved
    /\ \A e \in ledger :
        /\ e.key = <<"hold", h>> => e.delta = -hold[h].reserved
        /\ e.key = <<"settle", h>> => e.delta = -Moved(hold[h].settled - hold[h].reserved)
        /\ e.key = <<"refund", h>> => e.delta = hold[h].reserved

\* What the console gives back for a settled reservation: at most what was held and
\* settled, and exactly an overage.
UndoesHold(h, amount) ==
    /\ hold[h].status \in SettledStatus
    /\ amount <= hold[h].reserved /\ amount <= hold[h].settled

UndoesSettle(h, amount) ==
    /\ Posted(<<"settle", h>>)
    /\ amount = Moved(hold[h].settled - hold[h].reserved)

Undoes(key, amount) ==
    \A h \in Holds : /\ key = <<"undo hold", h>> => UndoesHold(h, amount)
                     /\ key = <<"undo settle", h>> => UndoesSettle(h, amount)

\* A session that grants or gives back: its key, and under the lock that the key is new.
Granting(s) ==
    /\ pc[s] = "granting" => user_lock = s /\ ~Posted(req[s].key)
    /\ pc[s] \in {"grant", "granting"} =>
        /\ s \in Webhooks => req[s].key = <<"grant", None>>
        /\ Undoes(req[s].key, req[s].amount)

\* An adjustment is posted once.
AdjustedOnce == \A a \in Sessions : Posted(<<"adjust", a>>) => pc[a] = "done"

EntriesSound == IsFiniteSet(ledger) /\ \A e \in ledger : e.key \in EntryKeys /\ Undoes(e.key, e.delta)

LedgerInv ==
    /\ EntriesSound /\ KeysMoveOnce /\ AdjustedOnce
    /\ \A h \in Holds : RowLedger(h)
    /\ \A s \in Sessions : Granting(s)

\* What a step adds to the ledger, and to the amounts it was replayed to.
Appends(entries) ==
    /\ ledger' = ledger \cup entries
    /\ replayed' = replayed + DeltaSum(entries)

LEMMA LedgerInit == Init => LedgerInv
<1> SUFFICES ASSUME Init PROVE LedgerInv
  OBVIOUS
<1>1. ledger = {} /\ DeltaSum(ledger) = 0
  BY DeltaSumEmpty DEF Init
<1>2. EntriesSound /\ AdjustedOnce
  BY <1>1, FS_EmptySet DEF EntriesSound, AdjustedOnce, Posted
<1>3. KeysMoveOnce
  BY <1>1, CreditConstants DEF Init, KeysMoveOnce, DeltaSum
<1>4. \A h \in Holds : RowLedger(h)
  BY <1>1 DEF Init, NoHold, RowLedger, Posted, SettledStatus, Moved
<1>5. \A s \in Sessions : Granting(s)
  BY DEF Init, Granting
<1> QED BY <1>2, <1>3, <1>4, <1>5 DEF LedgerInv

\* New keys move credits once.
LEMMA KeysKept ==
    ASSUME TypeInv, LedgerInv, NEW entries, IsFiniteSet(entries), Appends(entries),
           \A e \in entries : e.delta \in Int /\ ~Posted(e.key),
           \A e, f \in entries : e.key = f.key => e = f
    PROVE  KeysMoveOnce' /\ IsFiniteSet(ledger') /\ entries \cap ledger = {}
<1>1. /\ IsFiniteSet(ledger) /\ \A e \in ledger : e.delta \in Int
      /\ replayed = Opening + DeltaSum(ledger)
      /\ \A e, f \in ledger : e.key = f.key => e = f
  BY DEF LedgerInv, EntriesSound, KeysMoveOnce, TypeInv, TypeOK, DeltaSum
<1>2. entries \cap ledger = {}
  BY DEF Posted
<1>3. DeltaSum(ledger \cup entries) = DeltaSum(ledger) + DeltaSum(entries)
  BY <1>1, <1>2, DeltaSumUnion
<1>4. DeltaSum(ledger) \in Int /\ DeltaSum(entries) \in Int /\ Opening \in Int
  BY <1>1, DeltaSumInt, CreditConstants
<1>5. replayed' = Opening + DeltaSum(ledger')
  BY <1>1, <1>3, <1>4 DEF Appends
<1>6. IsFiniteSet(ledger')
  BY <1>1, FS_Union DEF Appends
<1>7. \A e, f \in ledger' : e.key = f.key => e = f
  BY <1>1 DEF Appends, Posted
<1> QED BY <1>2, <1>5, <1>6, <1>7 DEF KeysMoveOnce, DeltaSum

\* Settled rows are final: what the console may give back stays so.
LEMMA UndoesKept ==
    ASSUME TypeInv, LedgerInv, NEW s \in Sessions, Alone(s), ledger \subseteq ledger',
           NEW key, NEW amount, Undoes(key, amount)
    PROVE  Undoes(key, amount)'
<1> SUFFICES ASSUME NEW h \in Holds
             PROVE  /\ UndoesHold(h, amount) => UndoesHold(h, amount)'
                    /\ UndoesSettle(h, amount) => UndoesSettle(h, amount)'
  BY DEF Undoes
<1>1. hold[h].status \in SettledStatus => hold'[h] = hold[h]
  BY DEF Alone, SettledStatus
<1>2. Posted(<<"settle", h>>) => hold[h].status \in SettledStatus /\ Posted(<<"settle", h>>)'
  BY DEF LedgerInv, RowLedger, Posted, SettledStatus
<1>3. UndoesHold(h, amount) => UndoesHold(h, amount)'
  BY <1>1 DEF UndoesHold
<1>4. UndoesSettle(h, amount) => UndoesSettle(h, amount)'
  BY <1>1, <1>2 DEF UndoesSettle
<1> QED BY <1>3, <1>4

\* A session's step that adds entries with new keys to the ledger, nothing unless
\* it may take the account lock.
LEMMA LedgerStep ==
    ASSUME TypeInv, LedgerInv, NEW s \in Sessions, Alone(s), pc[s] # "done",
           NEW entries, IsFiniteSet(entries), Appends(entries),
           entries # {} => user_lock \in {None, s},
           \A e \in entries : /\ e.delta \in Int /\ e.key \in EntryKeys /\ ~Posted(e.key)
                              /\ Undoes(e.key, e.delta)
                              /\ \A a \in Sessions : e.key = <<"adjust", a>> => pc'[a] = "done",
           \A e, f \in entries : e.key = f.key => e = f,
           \A h \in Holds : RowLedger(h)', Granting(s)'
    PROVE  LedgerInv'
<1>1. KeysMoveOnce' /\ IsFiniteSet(ledger')
  BY KeysKept
<1>2. ledger' = ledger \cup entries
  BY DEF Appends
<1>3. EntriesSound'
  <2>1. ASSUME NEW e \in ledger' PROVE e.key \in EntryKeys /\ Undoes(e.key, e.delta)
    BY <1>2 DEF LedgerInv, EntriesSound
  <2>2. ASSUME NEW e \in ledger' PROVE e.key \in EntryKeys /\ Undoes(e.key, e.delta)'
    BY <1>2, <2>1, UndoesKept
  <2> QED BY <1>1, <2>2 DEF EntriesSound, EntryKeys
<1>4. AdjustedOnce'
  <2> SUFFICES ASSUME NEW a \in Sessions, Posted(<<"adjust", a>>)' PROVE pc'[a] = "done"
    BY DEF AdjustedOnce
  <2>1. CASE Posted(<<"adjust", a>>)
    BY <2>1 DEF LedgerInv, AdjustedOnce, Alone
  <2>2. CASE ~Posted(<<"adjust", a>>)
    BY <1>2, <2>2 DEF Posted
  <2> QED BY <2>1, <2>2
<1>5. ASSUME NEW q \in Sessions, q # s PROVE Granting(q)'
  <2>1. Granting(q) /\ q # None
    BY CreditConstants DEF LedgerInv
  <2>2. pc'[q] = pc[q] /\ req'[q] = req[q]
    BY <1>5 DEF Alone
  <2>3. ASSUME pc[q] = "granting" PROVE user_lock' = q /\ ~Posted(req[q].key)'
    <3>1. user_lock = q /\ ~Posted(req[q].key)
      BY <2>1, <2>3 DEF Granting
    <3>2. entries = {}
      BY <1>5, <2>1, <3>1
    <3> QED BY <1>2, <1>5, <2>1, <2>2, <3>1, <3>2 DEF Alone, Posted
  <2>4. ASSUME pc[q] \in {"grant", "granting"}
        PROVE  (q \in Webhooks => req[q].key = <<"grant", None>>) /\ Undoes(req[q].key, req[q].amount)'
    <3>1. (q \in Webhooks => req[q].key = <<"grant", None>>) /\ Undoes(req[q].key, req[q].amount)
      BY <2>1, <2>4 DEF Granting
    <3> DEFINE key == req[q].key
               amount == req[q].amount
    <3>2. req'[q].key = key /\ req'[q].amount = amount
      BY <2>2
    <3>3. ASSUME NEW k, NEW n, Undoes(k, n) PROVE Undoes(k, n)'
      BY <1>2, <3>3, UndoesKept
    <3> QED BY <2>2, <3>1, <3>3 DEF Undoes
  <2> QED BY <2>2, <2>3, <2>4 DEF Granting, Posted, Undoes
<1> QED BY <1>1, <1>3, <1>4, <1>5 DEF LedgerInv

\* What the ledger says of a row that a step leaves alone.
LEMMA RowLedgerKept ==
    ASSUME LedgerInv, NEW h \in Holds, hold'[h] = hold[h], NEW entries, ledger' = ledger \cup entries,
           \A e \in entries : e.key \notin {"hold", "settle", "refund"} \X {h}
    PROVE  RowLedger(h)'
<1>1. ASSUME NEW kind \in {"hold", "settle", "refund"}, NEW e \in entries
      PROVE  e.key # <<kind, h>>
  <2>1. <<kind, h>> \in {"hold", "settle", "refund"} \X {h}
    OBVIOUS
  <2> QED BY <2>1
<1>2. \A kind \in {"hold", "settle", "refund"} : Posted(<<kind, h>>)' <=> Posted(<<kind, h>>)
  BY <1>1 DEF Posted
<1>3. RowLedger(h)
  BY DEF LedgerInv
<1>4. \A kind \in {"hold", "settle", "refund"} : \A e \in ledger' : e.key = <<kind, h>> => e \in ledger
  BY <1>1
<1> QED BY <1>2, <1>3, <1>4 DEF RowLedger

\* A step that appends nothing and writes no row.
LEMMA LedgerQuiet ==
    ASSUME TypeInv, LedgerInv, NEW s \in Sessions, Alone(s), pc[s] # "done",
           UNCHANGED <<account, hold>>, Granting(s)'
    PROVE  LedgerInv'
<1>1. ledger' = ledger /\ replayed' = replayed /\ hold' = hold /\ replayed \in Int
  BY DEF account, TypeInv, TypeOK
<1>2. Appends({})
  BY <1>1, DeltaSumEmpty DEF Appends
<1>3. \A h \in Holds : RowLedger(h)'
  <2> SUFFICES ASSUME NEW h \in Holds PROVE RowLedger(h)'
    OBVIOUS
  <2> DEFINE none == {}
  <2>1. ledger' = ledger \cup none /\ hold'[h] = hold[h]
    BY <1>1
  <2>2. \A e \in none : e.key \notin {"hold", "settle", "refund"} \X {h}
    OBVIOUS
  <2> HIDE DEF none
  <2> QED BY <2>1, <2>2, RowLedgerKept
<1> QED BY <1>2, <1>3, FS_EmptySet, LedgerStep

LEMMA OneEntry ==
    ASSUME NEW e, e.delta \in Int
    PROVE  IsFiniteSet({e}) /\ DeltaSum({e}) = e.delta
<1>1. IsFiniteSet({}) /\ e \notin {} /\ \A x \in {} \cup {e} : x.delta \in Int
  BY FS_EmptySet
<1>2. DeltaSum({} \cup {e}) = DeltaSum({}) + e.delta
  BY <1>1, DeltaSumWith
<1>3. {} \cup {e} = {e}
  OBVIOUS
<1>4. DeltaSum({e}) = 0 + e.delta
  BY <1>2, <1>3, DeltaSumEmpty
<1>5. IsFiniteSet({e})
  BY FS_Singleton
<1> QED BY <1>4, <1>5

\* After the end of a session there is nothing it grants.
LEMMA FinishGranting ==
    ASSUME TypeInv, NEW s \in Sessions, Finish(s)
    PROVE  Granting(s)' /\ (s \notin Recoverers => pc'[s] = "done")
<1>1. pc'[s] = IF s \in Recoverers THEN "idle" ELSE "done"
  BY DEF Finish, Goto, TypeInv, TypeOK
<1> QED BY <1>1 DEF Granting

LEMMA ReserveLedger ==
    ASSUME TypeInv, HoldInv, RowInv, LedgerInv, NEW s \in Callers, Reserve(s)
    PROVE  LedgerInv'
<1> s \in Sessions
  BY DEF Sessions
<1>1. PICK h \in Holds : user_lock = s /\ req[s].holds = {h} /\ hold[h].status = "NONE"
  BY DEF Reserve, HoldInv, SessionsHold, Reserving
<1> DEFINE credits == Moved(req[s].amount)
           row == [status |-> "RESERVED", reserved |-> credits, settled |-> 0, day |-> day]
           entry == Entry("hold", h, -credits)
<1>2. Post(s, -credits, {entry}) /\ hold' = [hold EXCEPT ![h] = row]
  BY <1>1 DEF Reserve
<1>3. credits \in Nat /\ credits = Moved(credits)
  BY DEF Reserve, TypeInv, TypeOK, Bookkeeping, Requests, Moved
<1>4. entry.key = <<"hold", h>> /\ entry.delta = -credits
  BY DEF Entry
<1>5. row.status = "RESERVED" /\ row.reserved = credits
  OBVIOUS
<1>6. hold'[h] = row /\ \A g \in Holds \ {h} : hold'[g] = hold[g]
  BY <1>2 DEF TypeInv, TypeOK
<1> HIDE DEF credits, row, entry
<1>7. Alone(s) /\ pc[s] # "done"
  <2>1. ReserveStep(s)
    BY DEF ReserveStep
  <2> QED BY <2>1, ReserveRows DEF Reserve
<1>8. Appends({entry}) /\ IsFiniteSet({entry}) /\ ledger' = ledger \cup {entry}
  BY <1>2, <1>3, <1>4, OneEntry DEF Post, Appends
<1>9. /\ entry.delta \in Int /\ entry.key \in EntryKeys
      /\ Undoes(entry.key, entry.delta)
      /\ \A a \in Sessions : entry.key # <<"adjust", a>>
  BY <1>3, <1>4 DEF EntryKeys, Undoes
<1>10. /\ ~Posted(<<"hold", h>>) /\ ~Posted(<<"settle", h>>) /\ ~Posted(<<"refund", h>>)
  BY <1>1 DEF LedgerInv, RowLedger
<1>11. \A g \in Holds : RowLedger(g)'
  <2>1. ASSUME NEW g \in Holds, g # h PROVE RowLedger(g)'
    BY <1>4, <1>6, <1>8, <2>1, RowLedgerKept
  <2>2. RowLedger(h)'
    <3>1. \A e \in ledger' : /\ e.key = <<"hold", h>> => e = entry
                             /\ e.key # <<"settle", h>> /\ e.key # <<"refund", h>>
      BY <1>4, <1>8, <1>10 DEF Posted
    <3>2. hold'[h].status = "RESERVED" /\ hold'[h].reserved = credits
      BY <1>5, <1>6
    <3>3. Posted(<<"hold", h>>)'
      BY <1>4, <1>8 DEF Posted
    <3>4. ~Posted(<<"settle", h>>)' /\ ~Posted(<<"refund", h>>)'
      BY <3>1 DEF Posted
    <3> QED BY <1>3, <1>4, <3>1, <3>2, <3>3, <3>4 DEF RowLedger, SettledStatus
  <2> QED BY <2>1, <2>2
<1>12. Granting(s)'
  <2>1. pc'[s] = "held"
    BY Went DEF Reserve
  <2> QED BY <2>1 DEF Granting
<1> QED BY <1>1, <1>4, <1>7, <1>8, <1>9, <1>10, <1>11, <1>12, LedgerStep

LEMMA SettleLedger ==
    ASSUME TypeInv, HoldInv, RowInv, LedgerInv, NEW s \in Callers, SettleCommit(s)
    PROVE  LedgerInv'
<1> s \in Sessions
  BY DEF Sessions
<1>0. Working(s) /\ req[s].holds \subseteq Holds /\ pc[s] = "settling"
  BY DEF RowInv, TypeInv, TypeOK, Requests, SettleCommit
<1>1. PICK h \in req[s].holds :
        LET extra == req[s].amount - hold[h].reserved
            capped == Enforced /\ extra > 0 /\ req[s].view < extra
            delta == IF capped THEN 0 ELSE -Moved(extra)
        IN
        /\ Post(s, delta, IF capped \/ extra = 0 THEN {} ELSE {Entry("settle", h, delta)})
        /\ hold' = [hold EXCEPT
              ![h].status = IF capped THEN "SETTLED_CAPPED" ELSE "SETTLED",
              ![h].settled = IF capped THEN hold[h].reserved ELSE req[s].amount]
  BY DEF SettleCommit
<1> DEFINE extra == req[s].amount - hold[h].reserved
           capped == Enforced /\ extra > 0 /\ req[s].view < extra
           delta == IF capped THEN 0 ELSE -Moved(extra)
           entry == Entry("settle", h, delta)
           entries == IF capped \/ extra = 0 THEN {} ELSE {entry}
           status == IF capped THEN "SETTLED_CAPPED" ELSE "SETTLED"
           settled == IF capped THEN hold[h].reserved ELSE req[s].amount
<1>2. Post(s, delta, entries)
      /\ hold' = [hold EXCEPT ![h].status = status, ![h].settled = settled]
  BY <1>1
<1>3. h \in Holds /\ hold[h].status = "RESERVED" /\ row_lock[h] = s
  BY <1>0 DEF Working, RowsLocked, Ending
<1>4. req[s].amount \in Nat /\ hold[h].reserved \in Nat /\ Enforced \in BOOLEAN /\ hold[h] \in HoldRecord
  BY <1>0, <1>3, CreditConstants DEF TypeInv, TypeOK, Bookkeeping, Requests, HoldRecord
<1>5. /\ hold'[h].status = status /\ hold'[h].settled = settled
      /\ hold'[h].reserved = hold[h].reserved
      /\ \A g \in Holds \ {h} : hold'[g] = hold[g]
  <2> HIDE DEF status, settled
  <2> QED BY <1>2, <1>3, <1>4 DEF TypeInv, TypeOK, HoldRecord
<1>6. /\ RowLedger(h)
      /\ ~Posted(<<"settle", h>>) /\ ~Posted(<<"refund", h>>)
  BY <1>3 DEF LedgerInv, RowLedger
<1>7. delta \in Int /\ (capped \/ extra = 0 => delta = 0)
  <2>1. extra \in Int
    BY <1>4
  <2>2. Moved(extra) \in Int /\ (extra = 0 => Moved(extra) = 0)
    BY <2>1 DEF Moved
  <2> HIDE DEF extra, capped
  <2> QED BY <2>2
<1>8. entry.key = <<"settle", h>> /\ entry.delta = delta
  BY DEF Entry
<1>9. Appends(entries) /\ IsFiniteSet(entries) /\ ledger' = ledger \cup entries
  <2>1. DeltaSum(entries) = delta /\ IsFiniteSet(entries)
    <3> HIDE DEF delta, entry, capped, extra
    <3>1. CASE capped \/ extra = 0
      BY <1>7, <3>1, DeltaSumEmpty, FS_EmptySet
    <3>2. CASE ~(capped \/ extra = 0)
      BY <1>7, <1>8, <3>2, OneEntry
    <3> QED BY <3>1, <3>2
  <2> HIDE DEF delta, entries
  <2> QED BY <1>2, <2>1 DEF Post, Appends
<1>10. ASSUME NEW e \in entries
       PROVE  /\ e.delta \in Int /\ e.key = <<"settle", h>> /\ e = entry
              /\ e.key \in EntryKeys /\ Undoes(e.key, e.delta)
  <2>1. e = entry
    OBVIOUS
  <2> HIDE DEF entry, entries, delta
  <2>2. entry.key = <<"settle", h>> /\ entry.delta \in Int
    BY <1>7, <1>8
  <2>3. entry.key \in EntryKeys /\ Undoes(entry.key, entry.delta)
    BY <1>3, <2>2 DEF EntryKeys, Undoes
  <2> QED BY <2>1, <2>2, <2>3
<1>11. \A g \in Holds : RowLedger(g)'
  <2>1. ASSUME NEW g \in Holds, g # h PROVE RowLedger(g)'
    <3> HIDE DEF entries
    <3> QED BY <1>5, <1>9, <1>10, <2>1, RowLedgerKept
  <2>2. RowLedger(h)'
    <3>1. (Posted(<<"hold", h>>)' <=> Posted(<<"hold", h>>)) /\ ~Posted(<<"refund", h>>)'
      <4> HIDE DEF entries
      <4> QED BY <1>6, <1>9, <1>10 DEF Posted
    <3>2. \A e \in ledger' : e.key # <<"settle", h>> => e \in ledger
      <4> HIDE DEF entries
      <4> QED BY <1>9, <1>10
    <3>3. \A e \in ledger' : e.key = <<"settle", h>> => e = entry /\ entry \in entries
      <4> HIDE DEF entries, entry
      <4> QED BY <1>6, <1>9, <1>10 DEF Posted
    <3>4. CASE capped \/ extra = 0
      <4>1. ~Posted(<<"settle", h>>)'
        BY <3>3, <3>4 DEF Posted
      <4>2. Moved(settled) = hold[h].reserved /\ status \in SettledStatus
        BY <1>4, <1>6, <3>4 DEF RowLedger, Moved, SettledStatus
      <4> HIDE DEF settled, status
      <4>3. \A e \in ledger' :
              /\ e.key = <<"hold", h>> => e.delta = -hold'[h].reserved
              /\ e.key # <<"settle", h>> /\ e.key # <<"refund", h>>
        BY <1>5, <1>6, <3>1, <3>2, <4>1 DEF RowLedger, Posted
      <4> QED BY <1>3, <1>5, <1>6, <3>1, <4>1, <4>2, <4>3 DEF RowLedger, SettledStatus
    <3>5. CASE ~(capped \/ extra = 0)
      <4>1. status = "SETTLED" /\ settled = req[s].amount /\ entries = {entry}
            /\ delta = -Moved(settled - hold[h].reserved)
        BY <3>5
      <4>2. Posted(<<"settle", h>>)'
        <5> HIDE DEF entries, entry
        <5> QED BY <1>8, <1>9, <4>1 DEF Posted
      <4> HIDE DEF settled, status, delta, entry, entries
      <4>3. \A e \in ledger' :
              /\ e.key = <<"hold", h>> => e.delta = -hold'[h].reserved
              /\ e.key = <<"settle", h>> => e.delta = -Moved(hold'[h].settled - hold'[h].reserved)
              /\ e.key # <<"refund", h>>
        BY <1>5, <1>6, <1>8, <3>1, <3>2, <3>3, <4>1 DEF RowLedger, Posted
      <4> QED BY <1>3, <1>5, <1>6, <3>1, <4>1, <4>2, <4>3 DEF RowLedger, SettledStatus
    <3> QED BY <3>4, <3>5
  <2> QED BY <2>1, <2>2
<1>12. Alone(s)
  <2>1. SettleStep(s)
    BY DEF SettleStep
  <2> QED BY <2>1, SettleRows
<1>13. entries # {} => user_lock \in {None, s}
  <2>1. user_lock = s \/ extra = 0
    BY <1>0, <1>4 DEF Working, Settling
  <2> QED BY <2>1
<1>14. Granting(s)'
  BY FinishGranting DEF SettleCommit
<1> HIDE DEF entries, entry
<1> QED BY <1>0, <1>6, <1>9, <1>10, <1>11, <1>12, <1>13, <1>14, LedgerStep

LEMMA RefundLedger ==
    ASSUME TypeInv, HoldInv, RowInv, LedgerInv, NEW s \in Sessions, RefundCommit(s)
    PROVE  LedgerInv'
<1>0. Working(s) /\ req[s].holds \subseteq Holds /\ pc[s] = "refunding" /\ req[s].todo = {}
      /\ req[s].amount \in Int
  BY DEF RowInv, TypeInv, TypeOK, Requests, RefundCommit
<1> DEFINE rows == req[s].holds
           c == [h \in Holds |-> Entry("refund", h, Moved(hold[h].reserved))]
           entries == {c[h] : h \in rows}
<1>1. \A h \in rows : hold[h].status = "RESERVED" /\ row_lock[h] = s
  BY <1>0 DEF Working, RowsLocked, Ending
<1>2. \A h \in Holds : c[h].key = <<"refund", h>> /\ c[h].delta = HeldCredits[h]
  BY DEF Entry, HeldCredits
<1>3. \A h \in Holds : HeldCredits[h] \in Int /\ HeldCredits[h] = Moved(hold[h].reserved)
  BY HeldTyped DEF HeldCredits
<1>4. Post(s, req[s].amount, entries)
  <2>1. entries = {Entry("refund", h, Moved(hold[h].reserved)) : h \in req[s].holds}
    BY <1>0
  <2> QED BY <2>1 DEF RefundCommit
<1>5. ASSUME NEW h \in Holds
      PROVE  IF h \in rows THEN hold'[h].status = "REFUNDED" /\ hold'[h].reserved = hold[h].reserved
             ELSE hold'[h] = hold[h]
  <2>1. hold'[h] = IF h \in rows THEN [hold[h] EXCEPT !.status = "REFUNDED", !.settled = 0] ELSE hold[h]
    BY DEF RefundCommit
  <2> QED BY <2>1 DEF TypeInv, TypeOK, HoldRecord
<1> HIDE DEF c
<1>6. IsFiniteSet(entries) /\ DeltaSum(entries) = HoldSum(rows)
  <2>1. IsFiniteSet(rows)
    BY <1>0, HoldSumInt
  <2>2. \A h \in rows : HeldCredits[h] \in Int /\ c[h].delta = HeldCredits[h]
    BY <1>0, <1>2, <1>3
  <2>3. \A g, h \in rows : c[g] = c[h] => g = h
    <3> SUFFICES ASSUME NEW g \in rows, NEW h \in rows, c[g] = c[h] PROVE g = h
      OBVIOUS
    <3>1. <<"refund", g>> = <<"refund", h>>
      BY <1>0, <1>2
    <3> QED BY <3>1
  <2> HIDE DEF rows
  <2>4. (\A h \in rows : c[h] \in entries) /\ \A e \in entries : \E h \in rows : e = c[h]
    OBVIOUS
  <2> HIDE DEF entries
  <2>5. IsFiniteSet(entries) /\ DeltaSum(entries) = SumFunctionOnSet(HeldCredits, rows)
    BY <2>1, <2>2, <2>3, <2>4, DeltaSumImage
  <2> QED BY <2>5 DEF HoldSum
<1>7. ASSUME NEW e \in entries
      PROVE  \E h \in rows : e.key = <<"refund", h>> /\ e.delta = Moved(hold[h].reserved)
                             /\ e.delta \in Int /\ e = c[h]
  BY <1>0, <1>2, <1>3
<1>8. \A h \in rows : \E e \in entries : e.key = <<"refund", h>>
  BY <1>0, <1>2
<1> HIDE DEF entries
<1>9. Appends(entries) /\ ledger' = ledger \cup entries /\ user_lock = s
  <2>1. req[s].amount + HoldSum({}) = HoldSum(rows) /\ user_lock = s
    BY <1>0 DEF Working, Refunding
  <2>2. HoldSum({}) = 0
    BY SumEmpty DEF HoldSum
  <2>3. req[s].amount = DeltaSum(entries)
    BY <1>0, <1>6, <2>1, <2>2
  <2> QED BY <1>4, <2>1, <2>3 DEF Post, Appends
<1> DEFINE Row(h) == /\ RowLedger(h) /\ ~Posted(<<"refund", h>>)
                     /\ ~Posted(<<"settle", h>>) /\ Posted(<<"hold", h>>)
<1>10. ASSUME NEW h \in rows PROVE Row(h)
  BY <1>0, <1>1 DEF LedgerInv, RowLedger
<1>11. \A h \in Holds : RowLedger(h)'
  <2>1. ASSUME NEW h \in Holds, h \notin rows PROVE RowLedger(h)'
    <3>1. \A e \in entries : e.key \notin {"hold", "settle", "refund"} \X {h}
      BY <1>7, <2>1
    <3>2. hold'[h] = hold[h]
      BY <1>5, <2>1
    <3> QED BY <1>9, <3>1, <3>2, RowLedgerKept
  <2>2. ASSUME NEW h \in rows PROVE RowLedger(h)'
    <3>0. h \in Holds
      BY <1>0
    <3>1. Row(h) /\ hold'[h].status = "REFUNDED" /\ hold'[h].reserved = hold[h].reserved
      BY <1>5, <1>10, <3>0
    <3>2. \A e \in entries : \A kind : e.key = <<kind, h>> => kind = "refund" /\ e.delta = Moved(hold[h].reserved)
      BY <1>7
    <3>3. \A e \in ledger' :
            /\ e.key = <<"hold", h>> => e.delta = -hold[h].reserved
            /\ e.key # <<"settle", h>>
            /\ e.key = <<"refund", h>> => e.delta = hold[h].reserved
      <4>1. \A e \in entries : /\ e.key # <<"hold", h>> /\ e.key # <<"settle", h>>
                               /\ e.key = <<"refund", h>> => e.delta = Moved(hold[h].reserved)
        BY <3>2
      <4> QED BY <1>9, <3>1, <4>1 DEF RowLedger, Posted
    <3>4. Posted(<<"hold", h>>)' /\ Posted(<<"refund", h>>)' /\ ~Posted(<<"settle", h>>)'
      BY <1>8, <1>9, <3>1, <3>3 DEF Posted
    <3>5. hold'[h].reserved = Moved(hold'[h].reserved)
      BY <3>1 DEF RowLedger
    <3> HIDE DEF Row
    <3> QED BY <3>1, <3>3, <3>4, <3>5 DEF RowLedger, SettledStatus
  <2> QED BY <2>1, <2>2
<1>12. ASSUME NEW e \in entries
       PROVE  /\ e.delta \in Int /\ e.key \in EntryKeys /\ ~Posted(e.key)
              /\ Undoes(e.key, e.delta)
              /\ \A a \in Sessions : e.key # <<"adjust", a>>
  <2>1. PICK h \in rows : e.key = <<"refund", h>> /\ e.delta \in Int
    BY <1>7
  <2>2. ~Posted(<<"refund", h>>) /\ h \in Holds
    BY <1>0, <1>10
  <2>3. e.key \in EntryKeys /\ Undoes(e.key, e.delta)
    BY <2>1, <2>2 DEF EntryKeys, Undoes
  <2> QED BY <2>1, <2>2, <2>3
<1>13. \A e, f \in entries : e.key = f.key => e = f
  <2> SUFFICES ASSUME NEW e \in entries, NEW f \in entries, e.key = f.key PROVE e = f
    OBVIOUS
  <2>1. PICK h \in rows : e.key = <<"refund", h>> /\ e = c[h]
    BY <1>7
  <2>2. PICK g \in rows : f.key = <<"refund", g>> /\ f = c[g]
    BY <1>7
  <2>3. <<"refund", h>> = <<"refund", g>>
    BY <2>1, <2>2
  <2>4. h = g
    BY <2>3
  <2> QED BY <2>1, <2>2, <2>4
<1>14. Alone(s) /\ Granting(s)'
  <2>1. RefundStep(s) /\ Finish(s)
    BY DEF RefundStep, RefundCommit
  <2> QED BY <2>1, RefundRows, FinishGranting
<1> QED BY <1>0, <1>6, <1>9, <1>11, <1>12, <1>13, <1>14, LedgerStep

LEMMA GrantLedger ==
    ASSUME TypeInv, HoldInv, RowInv, LedgerInv, NEW s \in Sessions, GrantCommit(s)
    PROVE  LedgerInv'
<1> DEFINE entry == [key |-> req[s].key, delta |-> req[s].amount]
<1>1. /\ pc[s] = "granting" /\ req[s].key \in GrantKeys /\ req[s].amount \in Int
      /\ hold' = hold /\ Finish(s) /\ Post(s, req[s].amount, {entry})
  BY DEF GrantCommit, TypeInv, TypeOK, Bookkeeping, Requests
<1>2. user_lock = s /\ ~Posted(req[s].key) /\ Undoes(req[s].key, req[s].amount)
  BY <1>1 DEF LedgerInv, Granting
<1>3. entry.key = req[s].key /\ entry.delta = req[s].amount
  OBVIOUS
<1> HIDE DEF entry
<1>4. Appends({entry}) /\ IsFiniteSet({entry}) /\ ledger' = ledger \cup {entry}
  BY <1>1, <1>3, OneEntry DEF Post, Appends
<1>5. /\ entry.delta \in Int /\ entry.key \in EntryKeys /\ ~Posted(entry.key)
      /\ Undoes(entry.key, entry.delta)
      /\ \A a \in Sessions : entry.key # <<"adjust", a>>
      /\ \A h \in Holds : entry.key \notin {"hold", "settle", "refund"} \X {h}
  <2>1. \A a \in Sessions : entry.key # <<"adjust", a>>
    <3>1. entry.key[1] # "adjust"
      BY <1>1, <1>3 DEF GrantKeys
    <3> QED BY <3>1
  <2>2. \A h \in Holds : entry.key \notin {"hold", "settle", "refund"} \X {h}
    BY <1>1, <1>3 DEF GrantKeys
  <2> QED BY <1>1, <1>2, <1>3, <2>1, <2>2 DEF EntryKeys
<1>6. \A h \in Holds : RowLedger(h)'
  BY <1>1, <1>4, <1>5, RowLedgerKept
<1>7. Alone(s) /\ Granting(s)'
  <2>1. GrantStep(s)
    BY DEF GrantStep
  <2> QED BY <1>1, <2>1, GrantRows, FinishGranting
<1> QED BY <1>1, <1>2, <1>4, <1>5, <1>6, <1>7, LedgerStep

LEMMA AdjustLedger ==
    ASSUME TypeInv, HoldInv, RowInv, LedgerInv, NEW s \in Adjusters, AdjustWrite(s)
    PROVE  LedgerInv'
<1> s \in Sessions /\ s \notin Recoverers
  BY CreditConstants DEF Sessions
<1> DEFINE entry == Entry("adjust", s, req[s].amount)
<1>1. /\ pc[s] = "adjusting" /\ user_lock = None /\ req[s].amount \in Int
      /\ hold' = hold /\ Finish(s) /\ Post(s, req[s].amount, {entry})
  BY DEF AdjustWrite, TypeInv, TypeOK, Requests
<1>2. ~Posted(<<"adjust", s>>)
  BY <1>1 DEF LedgerInv, AdjustedOnce
<1>3. entry.key = <<"adjust", s>> /\ entry.delta = req[s].amount
  BY DEF Entry
<1> HIDE DEF entry
<1>4. Appends({entry}) /\ IsFiniteSet({entry}) /\ ledger' = ledger \cup {entry}
  BY <1>1, <1>3, OneEntry DEF Post, Appends
<1>5. /\ entry.delta \in Int /\ entry.key \in EntryKeys /\ ~Posted(entry.key)
      /\ Undoes(entry.key, entry.delta)
      /\ \A a \in Sessions : entry.key = <<"adjust", a>> => a = s
      /\ \A h \in Holds : entry.key \notin {"hold", "settle", "refund"} \X {h}
  BY <1>1, <1>2, <1>3 DEF EntryKeys, Undoes
<1>6. \A h \in Holds : RowLedger(h)'
  BY <1>1, <1>4, <1>5, RowLedgerKept
<1>7. Alone(s) /\ Granting(s)' /\ pc'[s] = "done"
  BY <1>1, ConsoleRows, FinishGranting
<1> QED BY <1>1, <1>4, <1>5, <1>6, <1>7, LedgerStep

LEMMA EntryKeyPair ==
    ASSUME NEW key \in EntryKeys
    PROVE  /\ key = <<key[1], key[2]>>
           /\ key[1] \in {"hold", "settle", "refund"} => key[2] \in Holds
<1>1. CASE key \in {"hold", "settle", "refund"} \X Holds
  BY <1>1
<1>2. CASE key \in {"adjust"} \X Sessions
  BY <1>2
<1>3. CASE key \in GrantKeys
  <2>1. key[1] \in {"grant", "undo hold", "undo settle", "undo adjust"}
    BY <1>3 DEF GrantKeys
  <2> DEFINE kinds == {"grant", "undo hold", "undo settle", "undo adjust"}
             of == Holds \cup Sessions \cup {None}
  <2>2. key = <<key[1], key[2]>>
    <3>1. key \in kinds \X of
      BY <1>3 DEF GrantKeys
    <3> HIDE DEF kinds, of
    <3> QED BY <3>1
  <2> QED BY <2>1, <2>2
<1> QED BY <1>1, <1>2, <1>3 DEF EntryKeys

LEMMA UndoesNothing ==
    ASSUME NEW kind, kind \notin {"undo hold", "undo settle"}, NEW of, NEW amount
    PROVE  Undoes(<<kind, of>>, amount)
<1>1. \A h \in Holds : <<kind, of>> # <<"undo hold", h>> /\ <<kind, of>> # <<"undo settle", h>>
  OBVIOUS
<1> QED BY <1>1 DEF Undoes

\* A step that posts nothing, writes no row and no budget, and after which its
\* session neither grants nor is about to reserve.
Quiet(s) ==
    /\ Alone(s) /\ UNCHANGED <<account, hold, paused, day>>
    /\ pc[s] # "done" /\ pc'[s] \notin {"reserving", "grant", "granting"}

\* One after which its session has no balance under the lock either.
Calm(s) == Quiet(s) /\ pc'[s] \notin {"settling", "refunding"}

LEMMA QuietLedger ==
    ASSUME TypeInv, LedgerInv, NEW s \in Sessions, Quiet(s)
    PROVE  LedgerInv'
<1>1. Granting(s)'
  BY DEF Quiet, Granting
<1> QED BY <1>1, LedgerQuiet DEF Quiet

LEMMA FinishQuiet ==
    ASSUME TypeInv, NEW s \in Sessions, Finish(s), pc[s] # "done",
           UNCHANGED <<account, hold, paused, day>>
    PROVE  Calm(s)
<1>1. Alone(s)
  BY FinishAlone
<1>2. pc'[s] \in {"idle", "done"}
  BY DEF Finish, Goto, TypeInv, TypeOK
<1> QED BY <1>1, <1>2 DEF Quiet, Calm

LEMMA ReserveQuiet ==
    ASSUME TypeInv, HoldInv, RowInv, NEW s \in Callers, ReserveStep(s)
    PROVE  Calm(s) \/ (\E h \in Holds : LockAccount(s, h)) \/ PauseBudget(s) \/ Reserve(s)
<1> s \in Sessions /\ Alone(s)
  BY ReserveRows DEF Sessions
<1>1. ASSUME NEW t \in Tasks, NEW q \in Quotes, Ask(s, t, q) PROVE Calm(s)
  <2>1. pc'[s] = "lookup"
    BY <1>1, Went DEF Ask
  <2> QED BY <1>1, <2>1 DEF Ask, Quiet, Calm
<1>2. ASSUME NEW h \in Holds, ReuseHold(s, h) PROVE Calm(s)
  <2>1. pc'[s] = "held"
    BY <1>2, Went DEF ReuseHold
  <2> QED BY <1>2, <2>1 DEF ReuseHold, Quiet, Calm
<1>3. ASSUME NEW h \in Holds, NoLiveHold(s, h) PROVE Calm(s)
  <2>1. pc'[s] = "wait"
    BY <1>3, Went DEF NoLiveHold
  <2> QED BY <1>3, <2>1 DEF NoLiveHold, Quiet, Calm
<1>4. ASSUME NEW h \in Holds, BudgetExceeded(s, h) PROVE Calm(s)
  <2>1. pc'[s] = "denied"
    BY <1>4, Went DEF BudgetExceeded
  <2> QED BY <1>4, <2>1 DEF BudgetExceeded, Quiet, Calm
<1>5. ASSUME StartWork(s) PROVE Calm(s)
  <2>1. pc'[s] = "working"
    BY <1>5, Went DEF StartWork
  <2> QED BY <1>5, <2>1 DEF StartWork, Quiet, Calm
<1>9. ASSUME CommitWork(s) PROVE Calm(s)
  <2>1. pc'[s] = "working"
    BY <1>9, Went DEF CommitWork
  <2> QED BY <1>9, <2>1 DEF CommitWork, Quiet, Calm
<1>6. ASSUME NEW a \in Actuals, Succeed(s, a) PROVE Calm(s)
  <2>1. pc'[s] = "settle"
    BY <1>6, Went DEF Succeed
  <2> QED BY <1>6, <2>1 DEF Succeed, Quiet, Calm
<1>7. ASSUME Fail(s) PROVE Calm(s)
  <2>1. pc'[s] = "refund"
    BY <1>7, Went DEF Fail
  <2> QED BY <1>7, <2>1 DEF Fail, Quiet, Calm
<1>8. ASSUME \/ \E t \in Tasks : AskDelivered(s, t)
             \/ \E h \in Holds : Insufficient(s, h)
             \/ ReturnDelivered(s)
      PROVE  Calm(s)
  BY <1>8, FinishQuiet DEF AskDelivered, Insufficient, ReturnDelivered
<1> QED BY <1>1, <1>2, <1>3, <1>4, <1>5, <1>6, <1>7, <1>8, <1>9 DEF ReserveStep

LEMMA SettleQuiet ==
    ASSUME TypeInv, HoldInv, RowInv, NEW s \in Callers, SettleStep(s)
    PROVE  Quiet(s) \/ SettleCommit(s)
<1> s \in Sessions /\ Alone(s)
  BY SettleRows DEF Sessions
<1>1. ASSUME SettleLock(s) PROVE Quiet(s)
  <2>1. pc'[s] \in {"settling", "settle_account"}
    BY <1>1, Went DEF SettleLock
  <2> QED BY <1>1, <2>1 DEF SettleLock, Quiet
<1>2. ASSUME SettleAccount(s) PROVE Quiet(s)
  <2>1. pc'[s] = "settling"
    BY <1>2, Went DEF SettleAccount, LockUser
  <2> QED BY <1>2, <2>1 DEF SettleAccount, Quiet
<1>3. ASSUME SettleAgain(s) \/ DeliverConflict(s) PROVE Quiet(s)
  BY <1>3, FinishQuiet DEF SettleAgain, DeliverConflict, Calm
<1> QED BY <1>1, <1>2, <1>3 DEF SettleStep

LEMMA RefundQuiet ==
    ASSUME TypeInv, HoldInv, RowInv, NEW s \in Sessions, RefundStep(s)
    PROVE  Quiet(s) \/ RefundCommit(s)
<1> Alone(s)
  BY RefundRows
<1>1. ASSUME RefundLock(s) PROVE Quiet(s)
  <2>1. pc'[s] = "refund_account"
    BY <1>1, Went DEF RefundLock
  <2> QED BY <1>1, <2>1 DEF RefundLock, Quiet
<1>2. ASSUME RefundAccount(s) PROVE Quiet(s)
  <2>1. pc'[s] = "refunding"
    BY <1>2, Went DEF RefundAccount, LockUser
  <2> QED BY <1>2, <2>1 DEF RefundAccount, Quiet
<1>3. ASSUME NEW h \in Holds, RefundRow(s, h) PROVE Quiet(s)
  <2>1. pc'[s] = "refunding"
    BY <1>3, Went DEF RefundRow
  <2> QED BY <1>3, <2>1 DEF RefundRow, Quiet
<1>4. ASSUME RefundAgain(s) PROVE Quiet(s)
  BY <1>4, FinishQuiet DEF RefundAgain, Calm
<1> QED BY <1>1, <1>2, <1>3, <1>4 DEF RefundStep

LEMMA ConsoleQuiet ==
    ASSUME TypeInv, HoldInv, RowInv, NEW s \in Sessions,
           \/ GrantKnown(s) \/ Die(s)
           \/ \E h \in Holds : AdminRefund(s, h)
           \/ \E batch \in SUBSET Holds : Sweep(s, batch)
           \/ \E n \in Adjustments : AdjustRead(s, n)
    PROVE  Calm(s)
<1>1. ASSUME NEW h \in Holds, AdminRefund(s, h) PROVE Calm(s)
  <2>1. pc'[s] = "refund" /\ Alone(s)
    BY <1>1, Went, ConsoleRows DEF AdminRefund
  <2> QED BY <1>1, <2>1 DEF AdminRefund, Quiet, Calm
<1>2. ASSUME NEW batch \in SUBSET Holds, Sweep(s, batch) PROVE Calm(s)
  <2>1. pc'[s] = "refund_account" /\ Alone(s)
    BY <1>2, Went, ConsoleRows DEF Sweep
  <2> QED BY <1>2, <2>1 DEF Sweep, Quiet, Calm
<1>3. ASSUME NEW n \in Adjustments, AdjustRead(s, n) PROVE Calm(s)
  <2>1. pc'[s] = "adjusting" /\ Alone(s)
    BY <1>3, Went, ConsoleRows DEF AdjustRead
  <2> QED BY <1>3, <2>1 DEF AdjustRead, Quiet, Calm
<1>4. ASSUME GrantKnown(s) \/ Die(s) PROVE Calm(s)
  BY <1>4, FinishQuiet DEF GrantKnown, Die
<1> QED BY <1>1, <1>2, <1>3, <1>4

LEMMA GrantStepLedger ==
    ASSUME TypeInv, HoldInv, RowInv, LedgerInv, NEW s \in Sessions, GrantStep(s)
    PROVE  LedgerInv'
<1>0. Alone(s)
  BY GrantRows
<1>1. ASSUME GrantAccount(s) PROVE LedgerInv'
  <2> DEFINE amount == IF CarryoverCap = 0 THEN MonthlyCredits
                       ELSE Min({MonthlyCredits, Max({0, CarryoverCap - Seen(s)})})
             r1 == IF s \in Webhooks THEN [req[s] EXCEPT !.amount = amount] ELSE req[s]
             r == [r1 EXCEPT !.view = Seen(s)]
  <2> HIDE DEF amount
  <2>0. req[s] \in Requests
    BY DEF TypeInv, TypeOK
  <2>1. /\ r1.key = req[s].key /\ (s \notin Webhooks => r1.amount = req[s].amount)
        /\ r1 = [task |-> r1.task, holds |-> r1.holds, todo |-> r1.todo, cached |-> r1.cached,
                 view |-> r1.view, amount |-> r1.amount, key |-> r1.key]
    BY <2>0 DEF Requests
  <2>2. r.key = req[s].key /\ (s \notin Webhooks => r.amount = req[s].amount)
    <3> HIDE DEF r1
    <3> QED BY <2>1
  <2>3. user_lock' = s /\ Goto(s, "granting", r)
    BY <1>1 DEF GrantAccount, LockUser, amount
  <2> HIDE DEF r
  <2>4. pc'[s] = "granting" /\ req'[s] = r /\ hold' = hold /\ ledger' = ledger
    BY <1>1, <2>3, Went DEF GrantAccount, account
  <2>5. /\ pc[s] = "grant" /\ ~Posted(req[s].key)
        /\ s \in Webhooks => req[s].key = <<"grant", None>>
        /\ Undoes(req[s].key, req[s].amount)
    BY <1>1 DEF GrantAccount, LedgerInv, Granting
  <2>6. Undoes(r.key, r.amount)
    <3>1. CASE s \in Webhooks
      <4>1. r.key = <<"grant", None>>
        BY <2>2, <2>5, <3>1
      <4> QED BY <4>1, UndoesNothing
    <3>2. CASE s \notin Webhooks
      BY <2>2, <2>5, <3>2
    <3> QED BY <3>1, <3>2
  <2>7. Granting(s)'
    BY <2>2, <2>3, <2>4, <2>5, <2>6 DEF Granting, Undoes, UndoesHold, UndoesSettle, Posted
  <2> QED BY <1>0, <1>1, <2>5, <2>7, LedgerQuiet DEF GrantAccount
<1>2. ASSUME GrantKnown(s) PROVE LedgerInv'
  BY <1>2, ConsoleQuiet, QuietLedger DEF Calm
<1> QED BY <1>1, <1>2, GrantLedger DEF GrantStep

LEMMA GrantReadLedger ==
    ASSUME TypeInv, HoldInv, RowInv, LedgerInv, NEW s \in Sessions
    PROVE  /\ GrantRead(s) => LedgerInv'
           /\ s \notin Webhooks => \A e \in ledger : AdminUndo(s, e) => LedgerInv'
<1>1. ASSUME GrantRead(s) PROVE LedgerInv'
  <2> DEFINE blank == Request(None, {}, Loaded(s), 0)
             r == [blank EXCEPT !.key = <<"grant", None>>]
  <2>1. r.key = <<"grant", None>> /\ Goto(s, "grant", r)
    BY <1>1 DEF GrantRead, Request
  <2> HIDE DEF r
  <2>2. pc'[s] = "grant" /\ req'[s].key = <<"grant", None>> /\ pc[s] # "done"
    BY <1>1, <2>1, Went DEF GrantRead
  <2>3. Granting(s)'
    BY <2>2 DEF Granting, Undoes
  <2> QED BY <1>1, <2>2, <2>3, GrantRows, LedgerQuiet DEF GrantRead
<1>2. ASSUME s \notin Webhooks, NEW e \in ledger, AdminUndo(s, e) PROVE LedgerInv'
  <2>0. /\ hold' = hold /\ ledger' = ledger /\ Alone(s) /\ pc[s] # "done"
        /\ e.key \in EntryKeys
    BY <1>2, ConsoleRows DEF AdminUndo, account, LedgerInv, EntriesSound
  <2>1. PICK amount, key :
          /\ Goto(s, "grant", [Request(None, {}, None, amount) EXCEPT !.key = key])
          /\ Undoes(key, amount)
    <3>1. CASE e.key[1] = "hold"
      <4> DEFINE h == e.key[2]
                 amount == Min({-e.delta, hold[h].settled})
      <4>1. h \in Holds /\ e.key = <<"hold", h>>
        BY <2>0, <3>1, EntryKeyPair
      <4>2. e.delta = -hold[h].reserved /\ hold[h].reserved \in Nat /\ hold[h].settled \in Nat
        BY <4>1 DEF LedgerInv, RowLedger, TypeInv, TypeOK, HoldRecord
      <4>3. amount <= hold[h].reserved /\ amount <= hold[h].settled
        <5> DEFINE x == -e.delta
                   y == hold[h].settled
        <5>1. x \in Int /\ y \in Int /\ x = hold[h].reserved
          BY <4>2
        <5> HIDE DEF x, y
        <5>2. Min({x, y}) <= x /\ Min({x, y}) <= y
          BY <5>1, MinOfTwo
        <5> QED BY <5>1, <5>2 DEF x, y
      <4>4. hold[h].status \in SettledStatus
        BY <1>2, <3>1 DEF AdminUndo
      <4> DEFINE key == <<Undoing("hold"), h>>
      <4>5. Goto(s, "grant", [Request(None, {}, None, amount) EXCEPT !.key = key])
        BY <1>2, <3>1 DEF AdminUndo
      <4>6. key = <<"undo hold", h>>
        BY DEF Undoing
      <4> HIDE DEF amount, key
      <4>7. UndoesHold(h, amount)
        BY <4>3, <4>4 DEF UndoesHold
      <4>8. Undoes(key, amount)
        BY <4>6, <4>7 DEF Undoes
      <4> QED BY <4>5, <4>8
    <3>2. CASE e.key[1] \in {"settle", "adjust"}
      <4> DEFINE key == <<Undoing(e.key[1]), e.key[2]>>
                 amount == -e.delta
      <4>1. Goto(s, "grant", [Request(None, {}, None, amount) EXCEPT !.key = key])
        BY <1>2, <3>2 DEF AdminUndo
      <4>2. Undoes(key, amount)
        <5>1. CASE e.key[1] = "settle"
          <6> DEFINE h == e.key[2]
          <6>1. h \in Holds /\ e.key = <<"settle", h>>
            BY <2>0, <5>1, EntryKeyPair
          <6>2. /\ e.delta = -Moved(hold[h].settled - hold[h].reserved)
                /\ hold[h].reserved \in Nat /\ hold[h].settled \in Nat
            BY <6>1 DEF LedgerInv, RowLedger, TypeInv, TypeOK, HoldRecord
          <6>3. amount = Moved(hold[h].settled - hold[h].reserved)
            BY <6>2 DEF Moved
          <6>4. key = <<"undo settle", h>>
            BY <5>1 DEF Undoing
          <6> HIDE DEF amount, key, h
          <6>5. UndoesSettle(h, amount)
            BY <6>1, <6>3 DEF UndoesSettle, Posted
          <6> QED BY <6>4, <6>5 DEF Undoes
        <5>2. CASE e.key[1] = "adjust"
          <6>1. key = <<"undo adjust", e.key[2]>>
            BY <5>2 DEF Undoing
          <6> HIDE DEF amount, key
          <6> QED BY <6>1, UndoesNothing
        <5> QED BY <3>2, <5>1, <5>2
      <4> HIDE DEF amount, key
      <4> QED BY <4>1, <4>2
    <3> QED BY <1>2, <3>1, <3>2 DEF AdminUndo
  <2> DEFINE blank == Request(None, {}, None, amount)
             r == [blank EXCEPT !.key = key]
  <2>2. r.key = key /\ r.amount = amount
    BY DEF Request
  <2>3. Goto(s, "grant", r)
    BY <2>1
  <2> HIDE DEF r
  <2>4. pc'[s] = "grant" /\ req'[s].key = key /\ req'[s].amount = amount
    BY <2>2, <2>3, Went
  <2>5. Granting(s)'
    BY <1>2, <2>0, <2>1, <2>4 DEF Granting, Undoes, UndoesHold, UndoesSettle, Posted
  <2> QED BY <1>2, <2>0, <2>5, LedgerQuiet DEF AdminUndo
<1> QED BY <1>1, <1>2

LEMMA LedgerNext == TypeInv /\ HoldInv /\ RowInv /\ LedgerInv /\ [Next]_vars => LedgerInv'
<1> SUFFICES ASSUME TypeInv, HoldInv, RowInv, LedgerInv, [Next]_vars PROVE LedgerInv'
  OBVIOUS
<1>1. ASSUME Idle PROVE LedgerInv'
  <2>1. /\ ledger' = ledger /\ replayed' = replayed /\ hold' = hold
        /\ user_lock' = user_lock /\ pc' = pc /\ req' = req
    BY <1>1 DEF Idle, account, locks
  <2>2. EntriesSound'
    BY <2>1 DEF LedgerInv, EntriesSound, EntryKeys, Undoes, UndoesHold, UndoesSettle, Posted
  <2>3. KeysMoveOnce' /\ AdjustedOnce'
    BY <2>1 DEF LedgerInv, KeysMoveOnce, AdjustedOnce, Posted
  <2>4. \A h \in Holds : RowLedger(h)'
    <3> SUFFICES ASSUME NEW h \in Holds PROVE RowLedger(h)'
      OBVIOUS
    <3>1. RowLedger(h) /\ hold'[h] = hold[h]
      BY <2>1 DEF LedgerInv
    <3>2. \A key : Posted(key)' <=> Posted(key)
      BY <2>1 DEF Posted
    <3> QED BY <2>1, <3>1, <3>2 DEF RowLedger
  <2>5. \A s \in Sessions : Granting(s)'
    BY <2>1 DEF LedgerInv, Granting, Undoes, UndoesHold, UndoesSettle, Posted
  <2> QED BY <2>2, <2>3, <2>4, <2>5 DEF LedgerInv
<1>2. CASE update_budget \/ NextDay \/ UNCHANGED vars
  BY <1>1, <1>2 DEF Idle, update_budget, NextDay, vars
<1>3. CASE \E s \in Sessions : Die(s)
  BY <1>3, ConsoleQuiet, QuietLedger DEF Calm
<1>4. ASSUME NEW s \in Callers, ReserveStep(s) \/ SettleStep(s) PROVE LedgerInv'
  <2> s \in Sessions
    BY DEF Sessions
  <2>1. ASSUME NEW h \in Holds, LockAccount(s, h) PROVE LedgerInv'
    <3>1. ReserveStep(s)
      BY <2>1 DEF ReserveStep
    <3>2. pc'[s] = "reserving" /\ Alone(s)
      BY <2>1, <3>1, Went, ReserveRows DEF LockAccount, LockUser
    <3>3. Granting(s)'
      BY <3>2 DEF Granting
    <3> QED BY <2>1, <3>2, <3>3, LedgerQuiet DEF LockAccount
  <2>2. ASSUME PauseBudget(s) PROVE LedgerInv'
    <3>1. Alone(s) /\ Granting(s)'
      BY <2>2, FinishAlone, FinishGranting DEF PauseBudget
    <3> QED BY <2>2, <3>1, LedgerQuiet DEF PauseBudget
  <2> QED
    BY <1>4, <2>1, <2>2, ReserveQuiet, SettleQuiet, QuietLedger, ReserveLedger, SettleLedger
    DEF Calm
<1>5. CASE \E s \in Callers \cup Admins \cup Recoverers : RefundStep(s)
  BY <1>5, RefundQuiet, QuietLedger, RefundLedger DEF Sessions
<1>6. CASE \/ \E s \in Webhooks \cup Admins : GrantStep(s)
           \/ \E w \in Webhooks : GrantRead(w)
  BY <1>6, GrantStepLedger, GrantReadLedger DEF Sessions
<1>7. CASE \E a \in Admins : (\E h \in Holds : AdminRefund(a, h)) \/ \E e \in ledger : AdminUndo(a, e)
  <2>1. \A a \in Admins : a \in Sessions /\ a \notin Webhooks
    BY CreditConstants DEF Sessions
  <2> QED BY <1>7, <2>1, ConsoleQuiet, QuietLedger, GrantReadLedger DEF Calm
<1>8. CASE \/ \E w \in Recoverers : \E batch \in SUBSET Holds : Sweep(w, batch)
           \/ \E a \in Adjusters : AdjustWrite(a) \/ \E n \in Adjustments : AdjustRead(a, n)
  BY <1>8, ConsoleQuiet, QuietLedger, AdjustLedger DEF Sessions, Calm
<1> QED BY <1>2, <1>3, <1>4, <1>5, <1>6, <1>7, <1>8 DEF Next

-----------------------------------------------------------------------------
(* The balance a session has under the account lock *)

Posting == {"reserving", "settling", "refunding", "granting"}

\* A session that loads the User under the account lock and not before has the
\* balance as it is, unless it settles at exactly what it held and moves nothing.
Ready(s) ==
    req[s].cached = None =>
        /\ pc[s] \in {"reserving", "refunding", "granting"} => req[s].view = balance
        /\ pc[s] = "settling" => \/ user_lock = s /\ req[s].view = balance
                                 \/ \A h \in req[s].holds : req[s].amount = hold[h].reserved

FreshInv == \A s \in Sessions : Ready(s)

\* What a step of the session does to the balance.
Posts(s) ==
    /\ pc[s] \in Posting /\ pc'[s] # pc[s] /\ req[s].cached = None
    => balance' - balance = replayed' - replayed

Exact(s) ==
    /\ Alone(s) /\ Posts(s) /\ Ready(s)'
    /\ balance' = balance \/ user_lock \in {None, s}

LEMMA FreshInit == Init => FreshInv
BY DEF Init, FreshInv, Ready

\* The others keep what they read: who has the lock keeps it, and nobody else
\* writes the balance meanwhile.
LEMMA FreshStep ==
    ASSUME TypeInv, HoldInv, RowInv, LedgerInv, FreshInv, NEW s \in Sessions, Exact(s)
    PROVE  FreshInv' /\ \A q \in Sessions : Posts(q)
<1>1. ASSUME NEW q \in Sessions, q # s
      PROVE  /\ pc'[q] = pc[q] /\ req'[q] = req[q] /\ Ready(q) /\ q # None
             /\ user_lock = q => user_lock' = q /\ balance' = balance
  BY <1>1, CreditConstants DEF Exact, Alone, FreshInv
<1>2. ASSUME NEW q \in Sessions, q # s PROVE Ready(q)'
  <2>0. SUFFICES ASSUME req[q].cached = None PROVE Ready(q)'
    BY <1>1, <1>2 DEF Ready
  <2>1. ASSUME pc[q] \in {"reserving", "refunding", "granting"} PROVE user_lock = q
    BY <2>1 DEF HoldInv, SessionsHold, Reserving, RowInv, Working, Refunding, LedgerInv, Granting
  <2>2. ASSUME pc[q] = "settling", NEW h \in req[q].holds PROVE hold'[h] = hold[h]
    <3>1. row_lock[h] = q /\ hold[h].status = "RESERVED" /\ h \in Holds
      BY <2>2 DEF RowInv, Working, RowsLocked, Ending, TypeInv, TypeOK, Requests
    <3> QED BY <1>1, <1>2, <3>1 DEF Exact, Alone
  <2> QED BY <1>1, <1>2, <2>0, <2>1, <2>2 DEF Ready
<1>3. ASSUME NEW q \in Sessions, q # s PROVE Posts(q)
  BY <1>1, <1>3 DEF Posts
<1> QED BY <1>2, <1>3 DEF Exact, FreshInv

\* A step that leaves the account alone, after which the session has no balance
\* under the lock.
LEMMA AwayExact ==
    ASSUME TypeInv, NEW s \in Sessions, Alone(s), UNCHANGED account, pc'[s] \notin Posting
    PROVE  Exact(s)
BY DEF Exact, Ready, Posts, Posting, account, TypeInv, TypeOK

LEMMA CalmExact ==
    ASSUME TypeInv, NEW s \in Sessions, Calm(s)
    PROVE  Exact(s)
BY AwayExact DEF Calm, Quiet, Posting

\* Loading the User under the lock.
LEMMA LockExact ==
    ASSUME TypeInv, NEW s \in Sessions, NEW label, NEW r \in Requests, LockUser(s, label, r),
           r.cached = req[s].cached, Alone(s), UNCHANGED account
    PROVE  Exact(s)
<1>1. pc'[s] = label /\ req'[s] = [r EXCEPT !.view = Seen(s)] /\ user_lock' = s
  BY Went DEF LockUser
<1>2. req'[s].cached = req[s].cached /\ req'[s].view = Seen(s)
  BY <1>1 DEF Requests
<1>3. Ready(s)'
  BY <1>1, <1>2 DEF Ready, Seen, account
<1> QED BY <1>3 DEF Exact, Posts, account, TypeInv, TypeOK

\* A transaction that posts an amount and ends.
LEMMA PostExact ==
    ASSUME TypeInv, NEW s \in Sessions, Alone(s), pc'[s] \notin Posting,
           NEW delta \in Int, NEW entries, Post(s, delta, entries),
           delta = 0 \/ user_lock \in {None, s},
           pc[s] \in Posting /\ req[s].cached = None => delta = 0 \/ req[s].view = balance
    PROVE  Exact(s)
<1>1. /\ balance' = IF delta = 0 THEN balance ELSE req[s].view + delta
      /\ replayed' = replayed + delta
  BY DEF Post
<1>2. balance \in Int /\ replayed \in Int
  BY DEF TypeInv, TypeOK
<1>3. Posts(s) /\ (balance' = balance \/ user_lock \in {None, s})
  BY <1>1, <1>2 DEF Posts
<1>4. Ready(s)'
  BY DEF Ready, Posting
<1> QED BY <1>3, <1>4 DEF Exact

LEMMA ReserveExact ==
    ASSUME TypeInv, HoldInv, RowInv, FreshInv, NEW s \in Callers, ReserveStep(s)
    PROVE  Exact(s)
<1>0. s \in Sessions /\ Alone(s) /\ req[s] \in Requests
  BY ReserveRows DEF Sessions, TypeInv, TypeOK
<1>1. ASSUME NEW h \in Holds, LockAccount(s, h) PROVE Exact(s)
  <2> DEFINE r == [req[s] EXCEPT !.holds = {h}]
  <2>1. r \in Requests /\ r.cached = req[s].cached
    BY <1>0 DEF Requests
  <2>2. LockUser(s, "reserving", r) /\ UNCHANGED account
    BY <1>1 DEF LockAccount
  <2> HIDE DEF r
  <2> QED BY <1>0, <2>1, <2>2, LockExact
<1>2. ASSUME PauseBudget(s) PROVE Exact(s)
  <2>1. pc'[s] \notin Posting
    BY <1>0, <1>2, Went DEF PauseBudget, Finish, Posting
  <2> QED BY <1>0, <1>2, <2>1, AwayExact DEF PauseBudget
<1>3. ASSUME Reserve(s) PROVE Exact(s)
  <2>1. PICK h \in req[s].holds :
           Post(s, -Moved(req[s].amount), {Entry("hold", h, -Moved(req[s].amount))})
    BY <1>3 DEF Reserve
  <2>2. -Moved(req[s].amount) \in Int
    BY <1>0, CreditConstants DEF Moved, Requests
  <2>3. pc[s] = "reserving" /\ pc'[s] = "held" /\ user_lock = s
    BY <1>0, <1>3, Went DEF Reserve, HoldInv, SessionsHold, Reserving
  <2>4. req[s].cached = None => req[s].view = balance
    BY <1>0, <2>3 DEF FreshInv, Ready
  <2> QED BY <1>0, <2>1, <2>2, <2>3, <2>4, PostExact DEF Posting
<1> QED BY <1>0, <1>1, <1>2, <1>3, ReserveQuiet, CalmExact

LEMMA SettleExact ==
    ASSUME TypeInv, HoldInv, RowInv, FreshInv, NEW s \in Callers, SettleStep(s)
    PROVE  Exact(s)
<1>0. s \in Sessions /\ Alone(s) /\ req[s] \in Requests
  BY SettleRows DEF Sessions, TypeInv, TypeOK
<1>1. ASSUME SettleLock(s) PROVE Exact(s)
  <2>1. PICK h \in req[s].holds :
          Goto(s, IF req[s].amount = hold[h].reserved THEN "settling" ELSE "settle_account", req[s])
    BY <1>1 DEF SettleLock
  <2>2. req[s].holds = {h}
    BY <1>0, <1>1, <2>1 DEF SettleLock, HoldInv, SessionsHold, ForTask
  <2>3. /\ pc'[s] = IF req[s].amount = hold[h].reserved THEN "settling" ELSE "settle_account"
        /\ req'[s] = req[s]
    BY <1>0, <2>1 DEF Goto, TypeInv, TypeOK
  <2>4. UNCHANGED <<account, hold>> /\ balance \in Int /\ replayed \in Int
    BY <1>1 DEF SettleLock, TypeInv, TypeOK
  <2>5. Ready(s)'
    BY <2>2, <2>3, <2>4 DEF Ready
  <2> QED BY <1>0, <2>4, <2>5 DEF Exact, Posts, account
<1>2. ASSUME SettleAccount(s) PROVE Exact(s)
  BY <1>0, <1>2, LockExact DEF SettleAccount
<1>3. ASSUME SettleAgain(s) \/ DeliverConflict(s) PROVE Exact(s)
  BY <1>0, <1>3, FinishQuiet, CalmExact DEF SettleAgain, DeliverConflict
<1>4. ASSUME SettleCommit(s) PROVE Exact(s)
  <2>1. PICK h \in req[s].holds :
      LET extra == req[s].amount - hold[h].reserved
          capped == Enforced /\ extra > 0 /\ req[s].view < extra
          delta == IF capped THEN 0 ELSE -Moved(extra)
      IN Post(s, delta, IF capped \/ extra = 0 THEN {} ELSE {Entry("settle", h, delta)})
    BY <1>4 DEF SettleCommit
  <2> DEFINE extra == req[s].amount - hold[h].reserved
             capped == Enforced /\ extra > 0 /\ req[s].view < extra
             delta == IF capped THEN 0 ELSE -Moved(extra)
             entries == IF capped \/ extra = 0 THEN {} ELSE {Entry("settle", h, delta)}
  <2>2. h \in Holds /\ req[s].amount \in Int /\ hold[h].reserved \in Nat
    BY <1>0 DEF Requests, TypeInv, TypeOK, HoldRecord
  <2>3. delta \in Int
    BY <2>2, CreditConstants DEF Moved
  <2>4. ASSUME req[s].amount = hold[h].reserved PROVE delta = 0
    <3>1. extra = 0
      BY <2>2, <2>4
    <3>2. delta \in {0, -Moved(0)}
      <4> HIDE DEF extra
      <4> QED BY <3>1
    <3>3. Moved(0) = 0
      BY DEF Moved
    <3> QED BY <3>2, <3>3
  <2>5. pc[s] = "settling" /\ pc'[s] \notin Posting
    BY <1>0, <1>4, Went DEF SettleCommit, Finish, Posting
  <2>6. user_lock = s \/ req[s].amount = hold[h].reserved
    BY <1>0, <2>5 DEF RowInv, Working, Settling
  <2>7. req[s].cached = None => req[s].amount = hold[h].reserved \/ req[s].view = balance
    BY <1>0, <2>5 DEF FreshInv, Ready
  <2>8. Post(s, delta, entries)
    BY <2>1
  <2> HIDE DEF delta, entries, extra, capped
  <2> QED BY <1>0, <2>3, <2>4, <2>5, <2>6, <2>7, <2>8, PostExact
<1> QED BY <1>1, <1>2, <1>3, <1>4 DEF SettleStep

LEMMA RefundExact ==
    ASSUME TypeInv, HoldInv, RowInv, FreshInv, NEW s \in Sessions, RefundStep(s)
    PROVE  Exact(s)
<1>0. Alone(s) /\ req[s] \in Requests
  BY RefundRows DEF TypeInv, TypeOK
<1>1. ASSUME RefundLock(s) PROVE Exact(s)
  <2>1. pc'[s] = "refund_account"
    BY <1>1, Went DEF RefundLock
  <2> QED BY <1>0, <1>1, <2>1, AwayExact DEF RefundLock, Posting
<1>2. ASSUME RefundAgain(s) PROVE Exact(s)
  BY <1>2, FinishQuiet, CalmExact DEF RefundAgain
<1>3. ASSUME RefundAccount(s) PROVE Exact(s)
  <2> DEFINE r == [req[s] EXCEPT !.todo = req[s].holds]
  <2>1. r \in Requests /\ r.cached = req[s].cached
    BY <1>0 DEF Requests
  <2>2. LockUser(s, "refunding", r) /\ UNCHANGED account
    BY <1>3 DEF RefundAccount
  <2> HIDE DEF r
  <2> QED BY <1>0, <2>1, <2>2, LockExact
<1>4. ASSUME NEW h \in Holds, RefundRow(s, h) PROVE Exact(s)
  <2>1. PICK r : r = [req[s] EXCEPT !.todo = req[s].todo \ {h},
                                    !.amount = req[s].amount + Moved(hold[h].reserved)]
    OBVIOUS
  <2>2. r.cached = req[s].cached /\ r.view = req[s].view
    BY <1>0, <2>1 DEF Requests
  <2>3. pc[s] = "refunding" /\ pc'[s] = "refunding" /\ req'[s] = r /\ UNCHANGED account
    BY <1>4, <2>1, Went DEF RefundRow
  <2>4. Ready(s)'
    BY <2>2, <2>3 DEF FreshInv, Ready, account
  <2> QED BY <1>0, <2>3, <2>4 DEF Exact, Posts, account
<1>5. ASSUME RefundCommit(s) PROVE Exact(s)
  <2>1. PICK entries : Post(s, req[s].amount, entries)
    BY <1>5 DEF RefundCommit
  <2>4. pc'[s] \notin Posting
    <3>1. Finish(s)
      BY <1>5 DEF RefundCommit
    <3> QED BY <3>1, Went DEF Finish, Posting
  <2>2. pc[s] = "refunding" /\ user_lock = s
    BY <1>5 DEF RefundCommit, RowInv, Working, Refunding
  <2>3. req[s].amount \in Int /\ (req[s].cached = None => req[s].view = balance)
    BY <1>0, <2>2 DEF Requests, FreshInv, Ready
  <2> QED BY <1>0, <2>1, <2>2, <2>3, <2>4, PostExact
<1> QED BY <1>1, <1>2, <1>3, <1>4, <1>5 DEF RefundStep

LEMMA GrantExact ==
    ASSUME TypeInv, TypeInv', HoldInv, RowInv, LedgerInv, FreshInv, NEW s \in Sessions,
           \/ GrantStep(s) \/ GrantRead(s) \/ AdjustWrite(s)
           \/ \E e \in ledger : AdminUndo(s, e)
    PROVE  Exact(s)
<1>0. Alone(s) /\ req[s] \in Requests
  BY GrantRows, ConsoleRows DEF TypeInv, TypeOK
<1>1. ASSUME GrantAccount(s) PROVE Exact(s)
  <2>1. PICK r \in Requests : LockUser(s, "granting", r) /\ r.cached = req[s].cached
    <3>1. PICK amount \in Int : LockUser(s, "granting", [req[s] EXCEPT !.amount = amount])
      <4>1. LockUser(s, "granting", req[s]) \/
            \E amount : LockUser(s, "granting", [req[s] EXCEPT !.amount = amount])
        BY <1>1 DEF GrantAccount
      <4>2. req[s] = [req[s] EXCEPT !.amount = req[s].amount]
        BY <1>0 DEF Requests
      <4>3. PICK amount : LockUser(s, "granting", [req[s] EXCEPT !.amount = amount])
        BY <4>1, <4>2
      <4>4. req'[s].amount = amount
        <5>1. PICK r : r = [req[s] EXCEPT !.amount = amount]
          OBVIOUS
        <5>2. req'[s] = [r EXCEPT !.view = Seen(s)]
          BY <4>3, <5>1, Went DEF LockUser
        <5>3. r = [f \in DOMAIN req[s] |-> IF f = "amount" THEN amount ELSE req[s][f]]
              /\ DOMAIN req[s] = {"task", "holds", "todo", "cached", "view", "amount", "key"}
          BY <1>0, <5>1 DEF Requests
        <5> QED BY <5>2, <5>3
      <4>5. amount \in Int
        BY <4>4 DEF TypeInv, TypeOK, Requests
      <4> QED BY <4>3, <4>5
    <3>2. [req[s] EXCEPT !.amount = amount] \in Requests
          /\ [req[s] EXCEPT !.amount = amount].cached = req[s].cached
      BY <1>0 DEF Requests
    <3> QED BY <3>1, <3>2
  <2>2. UNCHANGED account
    BY <1>1 DEF GrantAccount
  <2> QED BY <1>0, <2>1, <2>2, LockExact
<1>2. ASSUME GrantKnown(s) PROVE Exact(s)
  BY <1>2, ConsoleQuiet, CalmExact
<1>3. ASSUME GrantCommit(s) PROVE Exact(s)
  <2>1. PICK entries : Post(s, req[s].amount, entries)
    BY <1>3 DEF GrantCommit
  <2>2. pc[s] = "granting" /\ user_lock = s /\ pc'[s] \notin Posting
    BY <1>3, Went DEF GrantCommit, LedgerInv, Granting, Finish, Posting
  <2>3. req[s].amount \in Int /\ (req[s].cached = None => req[s].view = balance)
    BY <1>0, <2>2 DEF Requests, FreshInv, Ready
  <2> QED BY <1>0, <2>1, <2>2, <2>3, PostExact
<1>4. ASSUME GrantRead(s) \/ \E e \in ledger : AdminUndo(s, e) PROVE Exact(s)
  <2>1. PICK r : Goto(s, "grant", r)
    BY <1>4 DEF GrantRead, AdminUndo
  <2>2. pc'[s] = "grant"
    BY <2>1, Went
  <2> QED BY <1>0, <1>4, <2>2, AwayExact DEF GrantRead, AdminUndo, Posting
<1>5. ASSUME AdjustWrite(s) PROVE Exact(s)
  <2>1. PICK entries : Post(s, req[s].amount, entries)
    BY <1>5 DEF AdjustWrite
  <2>2. pc[s] = "adjusting" /\ user_lock = None /\ pc'[s] \notin Posting
    BY <1>5, Went DEF AdjustWrite, Finish, Posting
  <2>3. req[s].amount \in Int
    BY <1>0 DEF Requests
  <2> QED BY <1>0, <2>1, <2>2, <2>3, PostExact DEF Posting
<1> QED BY <1>1, <1>2, <1>3, <1>4, <1>5 DEF GrantStep

LEMMA FreshNext ==
    ASSUME TypeInv, HoldInv, RowInv, LedgerInv, FreshInv, [Next]_vars
    PROVE  FreshInv' /\ (UNCHANGED vars \/ \A s \in Sessions : Posts(s))
<1>t. TypeInv'
  BY TypeNext
<1>1. CASE \E s \in Sessions : Exact(s)
  BY <1>1, FreshStep
<1>2. CASE update_budget \/ NextDay
  <2>1. UNCHANGED <<account, hold, locks, pc, req>> /\ balance \in Int /\ replayed \in Int
    BY <1>2 DEF update_budget, NextDay, TypeInv, TypeOK
  <2> QED BY <2>1 DEF FreshInv, Ready, Posts, account, locks
<1>3. CASE UNCHANGED vars
  BY <1>3 DEF vars, FreshInv, Ready, account, locks
<1>4. ASSUME NEW s \in Sessions,
             \/ s \in Callers /\ (ReserveStep(s) \/ SettleStep(s))
             \/ RefundStep(s) \/ GrantStep(s) \/ GrantRead(s) \/ AdjustWrite(s) \/ Die(s)
             \/ \E h \in Holds : AdminRefund(s, h)
             \/ \E e \in ledger : AdminUndo(s, e)
             \/ \E batch \in SUBSET Holds : Sweep(s, batch)
             \/ \E n \in Adjustments : AdjustRead(s, n)
      PROVE  Exact(s)
  BY <1>t, <1>4, ReserveExact, SettleExact, RefundExact, GrantExact, ConsoleQuiet, CalmExact
<1> QED BY <1>1, <1>2, <1>3, <1>4 DEF Next, Sessions

FreshAlways == TypeInv /\ HoldInv /\ RowInv /\ LedgerInv /\ FreshInv

\* A session that loads the User under the account lock, and not before, moves the
\* balance by what it adds to the ledger, whatever the other sessions have in memory.
THEOREM FreshSessionsPostExactly == Spec => FreshPosts
<1>1. Init => FreshAlways
  BY TypeInit, HoldInit, RowInit, LedgerInit, FreshInit DEF FreshAlways
<1>2. FreshAlways /\ [Next]_vars => FreshAlways'
  BY TypeNext, HoldNext, RowNext, LedgerNext, FreshNext DEF FreshAlways
<1>3. FreshAlways /\ [Next]_vars =>
        [\A s \in Sessions :
           /\ pc[s] \in {"reserving", "settling", "refunding", "granting"}
           /\ pc'[s] # pc[s] /\ req[s].cached = None
           => balance' - balance = replayed' - replayed]_vars
  BY FreshNext DEF FreshAlways, Posts, Posting
<1> QED BY <1>1, <1>2, <1>3, PTL DEF Spec, FreshPosts

-----------------------------------------------------------------------------
(* What the ledger adds up to for one reservation *)

Of(kind, h) == {e \in ledger : e.key = <<kind, h>>}

LEMMA NetNone == \A h \in Holds : Net(h, {}) = 0
<1> SUFFICES ASSUME NEW h \in Holds PROVE Net(h, {}) = 0
  OBVIOUS
<1>1. {f \in ledger : f.key \in {} \X {h}} = {}
  OBVIOUS
<1> QED BY <1>1, DeltaSumEmpty DEF Net, DeltaSum

LEMMA NetSplit ==
    ASSUME TypeInv, LedgerInv, NEW h \in Holds, NEW kinds, NEW kind, kind \notin kinds
    PROVE  Net(h, kinds \cup {kind}) = Net(h, kinds) + DeltaSum(Of(kind, h))
<1> DEFINE S == {f \in ledger : f.key \in kinds \X {h}}
           T == {f \in ledger : f.key \in (kinds \cup {kind}) \X {h}}
           U == Of(kind, h)
<1>1. IsFiniteSet(S) /\ IsFiniteSet(U)
  BY FS_Subset DEF LedgerInv, EntriesSound, Of
<1>2. S \cap U = {}
  BY DEF Of
<1>3. T = S \cup U
  <2>1. \A key : key \in (kinds \cup {kind}) \X {h} <=> key \in kinds \X {h} \/ key = <<kind, h>>
    OBVIOUS
  <2> QED BY <2>1 DEF Of
<1>4. \A e \in S \cup U : e.delta \in Int
  BY DEF Of, TypeInv, TypeOK
<1>5. DeltaSum(T) = DeltaSum(S) + DeltaSum(U)
  <2> HIDE DEF S, T, U
  <2> QED BY <1>1, <1>2, <1>3, <1>4, DeltaSumUnion
<1> QED BY <1>5 DEF Net, DeltaSum

\* At most one entry has a key.
LEMMA OfOne ==
    ASSUME TypeInv, LedgerInv, NEW kind, NEW h
    PROVE  IF Posted(<<kind, h>>)
           THEN \E e \in ledger : e.key = <<kind, h>> /\ e.delta \in Int /\ DeltaSum(Of(kind, h)) = e.delta
           ELSE DeltaSum(Of(kind, h)) = 0
<1>1. CASE Posted(<<kind, h>>)
  <2>1. PICK e \in ledger : e.key = <<kind, h>>
    BY <1>1 DEF Posted
  <2>2. Of(kind, h) = {e} /\ e.delta \in Int
    BY <2>1 DEF Of, LedgerInv, KeysMoveOnce, TypeInv, TypeOK
  <2>3. DeltaSum(Of(kind, h)) = e.delta
    BY <2>2, OneEntry
  <2> QED BY <1>1, <2>1, <2>2, <2>3
<1>2. CASE ~Posted(<<kind, h>>)
  <2>1. Of(kind, h) = {}
    BY <1>2 DEF Of, Posted
  <2> QED BY <1>2, <2>1, DeltaSumEmpty
<1> QED BY <1>1, <1>2

\* What was charged for a reservation, as its row says.
Charged(h) ==
    CASE hold[h].status = "RESERVED" -> -hold[h].reserved
      [] hold[h].status \in SettledStatus -> -Moved(hold[h].settled)
      [] OTHER -> 0

LEMMA NetCharged ==
    ASSUME TypeInv, LedgerInv, NEW h \in Holds
    PROVE  Net(h, {"hold", "settle", "refund"}) = Charged(h)
<1> DEFINE held == DeltaSum(Of("hold", h))
           overage == DeltaSum(Of("settle", h))
           refunded == DeltaSum(Of("refund", h))
<1>1. Net(h, {"hold", "settle", "refund"}) = 0 + held + overage + refunded
  <2>1. Net(h, {} \cup {"hold"}) = Net(h, {}) + held
    BY NetSplit
  <2>2. Net(h, {"hold"} \cup {"settle"}) = Net(h, {"hold"}) + overage
    BY NetSplit
  <2>3. Net(h, {"hold", "settle"} \cup {"refund"}) = Net(h, {"hold", "settle"}) + refunded
    BY NetSplit
  <2>4. /\ {} \cup {"hold"} = {"hold"} /\ {"hold"} \cup {"settle"} = {"hold", "settle"}
        /\ {"hold", "settle"} \cup {"refund"} = {"hold", "settle", "refund"}
    OBVIOUS
  <2> HIDE DEF held, overage, refunded
  <2>5. Net(h, {"hold"}) = 0 + held
    BY <2>1, <2>4, NetNone
  <2>6. Net(h, {"hold", "settle"}) = 0 + held + overage
    BY <2>2, <2>4, <2>5
  <2> QED BY <2>3, <2>4, <2>6
<1>2. RowLedger(h) /\ hold[h].reserved \in Nat /\ hold[h].settled \in Nat
  BY DEF LedgerInv, TypeInv, TypeOK, HoldRecord
<1>3. held = IF hold[h].status = "NONE" THEN 0 ELSE -hold[h].reserved
  BY <1>2, OfOne DEF RowLedger
<1>4. overage = IF Posted(<<"settle", h>>) THEN -Moved(hold[h].settled - hold[h].reserved) ELSE 0
  BY <1>2, OfOne DEF RowLedger
<1>5. refunded = IF hold[h].status = "REFUNDED" THEN hold[h].reserved ELSE 0
  BY <1>2, OfOne DEF RowLedger
<1>6. /\ hold[h].status \in LiveStatus \cup SettledStatus \cup {"REFUNDED"}
      /\ hold[h].reserved = Moved(hold[h].reserved)
      /\ Posted(<<"settle", h>>) => hold[h].status = "SETTLED"
      /\ hold[h].status \in SettledStatus /\ ~Posted(<<"settle", h>>) =>
           Moved(hold[h].settled) = hold[h].reserved
  BY <1>2 DEF RowLedger, TypeInv, TypeOK, HoldRecord
<1> HIDE DEF held, overage, refunded
<1>7. CASE hold[h].status = "NONE"
  BY <1>1, <1>3, <1>4, <1>5, <1>6, <1>7 DEF Charged, SettledStatus
<1>8. CASE hold[h].status = "RESERVED"
  BY <1>1, <1>2, <1>3, <1>4, <1>5, <1>6, <1>8 DEF Charged
<1>9. CASE hold[h].status \in SettledStatus
  <2>1. Charged(h) = -Moved(hold[h].settled)
    BY <1>9 DEF Charged, SettledStatus
  <2>2. held = -hold[h].reserved /\ refunded = 0
    BY <1>3, <1>5, <1>9 DEF SettledStatus
  <2>3. CASE Posted(<<"settle", h>>)
    <3>1. overage = -Moved(hold[h].settled - hold[h].reserved)
      BY <1>4, <2>3
    <3> QED BY <1>1, <1>2, <1>6, <2>1, <2>2, <3>1, CreditConstants DEF Moved
  <2>4. CASE ~Posted(<<"settle", h>>)
    BY <1>1, <1>2, <1>4, <1>6, <1>9, <2>1, <2>2, <2>4
  <2> QED BY <2>3, <2>4
<1>10. CASE hold[h].status = "REFUNDED"
  <2>1. Charged(h) = 0 /\ held = -hold[h].reserved /\ refunded = hold[h].reserved /\ overage = 0
    BY <1>3, <1>4, <1>5, <1>6, <1>10 DEF Charged, SettledStatus
  <2> QED BY <1>1, <1>2, <2>1
<1> QED BY <1>6, <1>7, <1>8, <1>9, <1>10 DEF LiveStatus

LEMMA NetWithUndone ==
    ASSUME TypeInv, LedgerInv, NEW h \in Holds
    PROVE  Net(h, {"hold", "settle", "refund", "undo hold", "undo settle"}) <= 0
<1> DEFINE undone == DeltaSum(Of("undo hold", h))
           overage == DeltaSum(Of("undo settle", h))
           net == Net(h, {"hold", "settle", "refund", "undo hold", "undo settle"})
<1>1. Net(h, {"hold", "settle", "refund", "undo hold", "undo settle"}) = Charged(h) + undone + overage
  <2>1. Net(h, {"hold", "settle", "refund"} \cup {"undo hold"})
          = Net(h, {"hold", "settle", "refund"}) + undone
    BY NetSplit
  <2>2. Net(h, {"hold", "settle", "refund", "undo hold"} \cup {"undo settle"})
          = Net(h, {"hold", "settle", "refund", "undo hold"}) + overage
    BY NetSplit
  <2>3. /\ {"hold", "settle", "refund"} \cup {"undo hold"} = {"hold", "settle", "refund", "undo hold"}
        /\ {"hold", "settle", "refund", "undo hold"} \cup {"undo settle"}
             = {"hold", "settle", "refund", "undo hold", "undo settle"}
    OBVIOUS
  <2> HIDE DEF undone, overage
  <2> QED BY <2>1, <2>2, <2>3, NetCharged
<1>2. RowLedger(h) /\ hold[h].reserved \in Nat /\ hold[h].settled \in Nat /\ Enforced \in BOOLEAN
  BY CreditConstants DEF LedgerInv, TypeInv, TypeOK, HoldRecord
<1>3. undone \in Int /\ (undone # 0 => UndoesHold(h, undone))
  <2>1. CASE Posted(<<"undo hold", h>>)
    <3>1. PICK e \in ledger : e.key = <<"undo hold", h>> /\ e.delta \in Int /\ undone = e.delta
      BY <2>1, OfOne
    <3>2. Undoes(e.key, e.delta)
      BY DEF LedgerInv, EntriesSound
    <3> QED BY <3>1, <3>2 DEF Undoes
  <2>2. CASE ~Posted(<<"undo hold", h>>)
    <3>1. undone = 0
      BY <2>2, OfOne
    <3> HIDE DEF undone
    <3> QED BY <3>1
  <2> QED BY <2>1, <2>2
<1>4. overage \in Int /\ (overage # 0 => UndoesSettle(h, overage))
  <2>1. CASE Posted(<<"undo settle", h>>)
    <3>1. PICK e \in ledger : e.key = <<"undo settle", h>> /\ e.delta \in Int /\ overage = e.delta
      BY <2>1, OfOne
    <3>2. Undoes(e.key, e.delta)
      BY DEF LedgerInv, EntriesSound
    <3> QED BY <3>1, <3>2 DEF Undoes
  <2>2. CASE ~Posted(<<"undo settle", h>>)
    <3>1. overage = 0
      BY <2>2, OfOne
    <3> HIDE DEF overage
    <3> QED BY <3>1
  <2> QED BY <2>1, <2>2
<1> DEFINE charged == Charged(h)
<1>n. net = charged + undone + overage
  BY <1>1
<1> SUFFICES net <= 0
  OBVIOUS
<1> HIDE DEF undone, overage, net, charged
<1>5. CASE hold[h].status \in SettledStatus
  <2>1. charged = -Moved(hold[h].settled)
    BY <1>5 DEF charged, Charged, SettledStatus
  <2>2. (undone = 0 \/ (undone <= hold[h].reserved /\ undone <= hold[h].settled))
    BY <1>3 DEF UndoesHold
  <2>3. CASE overage = 0
    <3>1. hold[h].reserved = Moved(hold[h].reserved)
      BY <1>2 DEF RowLedger
    <3> QED BY <1>n, <1>2, <1>3, <2>1, <2>2, <2>3, <3>1 DEF Moved
  <2>4. CASE overage # 0
    <3>1. overage = Moved(hold[h].settled - hold[h].reserved)
      BY <1>4, <2>4 DEF UndoesSettle
    <3> QED BY <1>n, <1>2, <1>3, <2>1, <2>2, <3>1 DEF Moved, RowLedger
  <2> QED BY <2>3, <2>4
<1>6. CASE hold[h].status \notin SettledStatus
  <2>1. undone = 0 /\ overage = 0
    BY <1>2, <1>3, <1>4, <1>6 DEF UndoesHold, UndoesSettle, RowLedger, SettledStatus
  <2>2. charged \in Int /\ charged <= 0
    BY <1>2, <1>6 DEF charged, Charged
  <2> QED BY <1>n, <2>1, <2>2
<1> QED BY <1>5, <1>6

SafeInv == TypeInv /\ HoldInv /\ RowInv /\ LedgerInv

LEMMA SafeAlways == Spec => []SafeInv
<1>1. Init => SafeInv
  BY TypeInit, HoldInit, RowInit, LedgerInit DEF SafeInv
<1>2. SafeInv /\ [Next]_vars => SafeInv'
  BY TypeNext, HoldNext, RowNext, LedgerNext DEF SafeInv
<1> QED BY <1>1, <1>2, PTL DEF Spec

\* An idempotency key moves credits once (consume_credits, settle_task, refund_task,
\* grant_credits): each key has one entry, and the entries are all that was ever added
\* to the account, whichever consoles, webhooks, callers and sweepers wrote them.
THEOREM LedgerKeysMoveOnce == Spec => []KeysMoveOnce
<1>1. SafeInv => KeysMoveOnce
  BY DEF SafeInv, LedgerInv
<1> QED BY <1>1, SafeAlways, PTL

\* The entries of a reservation add up to what its row says, in whatever order it is
\* settled, refunded or recovered: the row is locked and found RESERVED by the one
\* transaction that ends it, which writes the entry and the new status together.
THEOREM HoldsChargedOnce == Spec => []ChargedOnce
<1>1. SafeInv => ChargedOnce
  <2> SUFFICES ASSUME SafeInv, NEW h \in Holds
               PROVE  Net(h, {"hold", "settle", "refund"}) = Charged(h)
    BY DEF ChargedOnce, Charged
  <2> QED BY NetCharged DEF SafeInv
<1> QED BY <1>1, SafeAlways, PTL

\* No reservation gives back more than it took: the refund of a task and the refund
\* within its settlement give back at most the hold, and the console reverses an
\* entry only as far as that entry charged and nobody else has reversed it.
THEOREM RefundsBounded == Spec => []NeverOverRefunded
<1>1. SafeInv => NeverOverRefunded
  BY NetWithUndone DEF SafeInv, NeverOverRefunded
<1> QED BY <1>1, SafeAlways, PTL

-----------------------------------------------------------------------------
(* The budgets *)

\* The reservations that use the budget of the given days.
Counted(days) ==
    {h \in Holds : /\ h[1] \in Automated
                   /\ hold[h].status \in SettledStatus \cup {"RESERVED"}
                   /\ hold[h].day \in days}

\* A session about to take an automated hold found its budget open, and has the
\* account locked: the day may turn, but nobody else uses the budget.
WithinBudget(s) ==
    pc[s] = "reserving" /\ req[s].task \in Automated =>
        /\ ~paused
        /\ Used({day}) + req[s].amount <= DailyLimit
        /\ Used(0 .. MaxDay) + req[s].amount <= MonthlyLimit

BudgetInv ==
    /\ \A s \in Sessions : WithinBudget(s)
    /\ \A h \in Holds : hold[h].day <= day

LEMMA UsedCounted ==
    ASSUME TypeInv, NEW days
    PROVE  /\ Used(days) = SumFunctionOnSet(Usage, Counted(days))
           /\ Counted(days) \subseteq Holds /\ IsFiniteSet(Counted(days))
           /\ \A h \in Holds : Usage[h] \in Nat
           /\ Used(days) \in Nat
<1>1. Counted(days) \subseteq Holds /\ IsFiniteSet(Counted(days))
  BY FiniteHolds, FS_Subset DEF Counted
<1>2. \A h \in Holds : Usage[h] \in Nat
  BY DEF Usage, TypeInv, TypeOK, HoldRecord
<1>3. Used(days) = SumFunctionOnSet(Usage, Counted(days))
  BY DEF Used, Counted
<1>4. SumFunctionOnSet(Usage, Counted(days)) \in Nat
  BY <1>1, <1>2, SumNat
<1> QED BY <1>1, <1>2, <1>3, <1>4

\* A settlement at exactly what was held uses what the hold used.
SettledAtHold(h) ==
    /\ hold[h].status = "RESERVED" /\ hold'[h].status \in SettledStatus
    /\ hold'[h].settled = hold[h].reserved /\ hold'[h].day = hold[h].day

LEMMA UsedSame ==
    ASSUME TypeInv, TypeInv', \A h \in Holds : hold'[h] = hold[h] \/ SettledAtHold(h), NEW days
    PROVE  Used(days)' = Used(days)
<1>1. \A h \in Holds : h \in Counted(days)' <=> h \in Counted(days)
  BY DEF SettledAtHold, Counted
<1>2. Counted(days)' = Counted(days)
  BY <1>1 DEF Counted
<1>3. \A h \in Counted(days) : Usage'[h] = Usage[h]
  BY DEF Counted, Usage, SettledAtHold, SettledStatus
<1>4. SumFunctionOnSet(Usage', Counted(days)) = SumFunctionOnSet(Usage, Counted(days))
  BY <1>3, UsedCounted, SumSame
<1>5. Used(days)' = SumFunctionOnSet(Usage', Counted(days)')
  BY DEF Used, Counted
<1> QED BY <1>2, <1>4, <1>5, UsedCounted

\* A step within a day that leaves whoever is about to reserve within the budget.
LEMMA BudgetStep ==
    ASSUME TypeInv, TypeInv', HoldInv, BudgetInv, NEW s \in Sessions, Alone(s), day' = day,
           paused' = paused \/ user_lock = None,
           user_lock = s \/ \A h \in Holds : hold'[h] = hold[h] \/ SettledAtHold(h),
           \A h \in Holds : hold'[h].day \in {hold[h].day, day},
           WithinBudget(s)'
    PROVE  BudgetInv'
<1>1. \A h \in Holds : hold'[h].day <= day'
  BY DEF BudgetInv, TypeInv, TypeOK
<1>2. ASSUME NEW q \in Sessions, q # s, pc'[q] = "reserving", req'[q].task \in Automated
      PROVE  /\ ~paused'
             /\ Used({day})' + req'[q].amount <= DailyLimit
             /\ Used(0 .. MaxDay)' + req'[q].amount <= MonthlyLimit
  <2>1. pc[q] = "reserving" /\ req'[q] = req[q] /\ user_lock = q /\ q # None
    BY <1>2, CreditConstants DEF Alone, HoldInv, SessionsHold, Reserving
  <2>2. /\ ~paused
        /\ Used({day}) + req[q].amount <= DailyLimit
        /\ Used(0 .. MaxDay) + req[q].amount <= MonthlyLimit
    BY <1>2, <2>1 DEF BudgetInv, WithinBudget
  <2>3. \A days : Used(days)' = Used(days)
    BY <1>2, <2>1, UsedSame
  <2>4. Used({day})' = Used({day}) /\ Used(0 .. MaxDay)' = Used(0 .. MaxDay)
    BY <2>3 DEF Used
  <2> QED BY <1>2, <2>1, <2>2, <2>4
<1> QED BY <1>1, <1>2 DEF BudgetInv, WithinBudget

\* The steps that have to do with budgets, and all others.
Unbudgeted(s) == Alone(s) /\ UNCHANGED <<hold, paused, day>> /\ pc'[s] # "reserving"

BudgetAction(s) ==
    \/ \E h \in Holds : LockAccount(s, h)
    \/ PauseBudget(s) \/ Reserve(s) \/ SettleCommit(s) \/ RefundCommit(s)

LEMMA GrantUnbudgeted ==
    ASSUME TypeInv, HoldInv, RowInv, NEW s \in Sessions,
           \/ GrantStep(s) \/ GrantRead(s) \/ AdjustWrite(s) \/ \E e \in ledger : AdminUndo(s, e)
    PROVE  Unbudgeted(s)
<1>1. ASSUME GrantAccount(s) PROVE Unbudgeted(s)
  <2>1. pc'[s] = "granting" /\ Alone(s)
    BY <1>1, Went, GrantRows DEF GrantAccount, LockUser, GrantStep
  <2> QED BY <1>1, <2>1 DEF GrantAccount, Unbudgeted
<1>2. ASSUME GrantRead(s) PROVE Unbudgeted(s)
  <2>1. pc'[s] = "grant" /\ Alone(s)
    BY <1>2, Went, GrantRows DEF GrantRead
  <2> QED BY <1>2, <2>1 DEF GrantRead, Unbudgeted
<1>3. ASSUME NEW e \in ledger, AdminUndo(s, e) PROVE Unbudgeted(s)
  <2>1. PICK r : Goto(s, "grant", r)
    BY <1>3 DEF AdminUndo
  <2>2. pc'[s] = "grant" /\ Alone(s)
    BY <1>3, <2>1, Went, ConsoleRows
  <2> QED BY <1>3, <2>2 DEF AdminUndo, Unbudgeted
<1>4. ASSUME GrantCommit(s) \/ AdjustWrite(s) PROVE Unbudgeted(s)
  <2>1. UNCHANGED <<hold, paused, day>> /\ Finish(s) /\ Alone(s)
    BY <1>4, GrantRows, ConsoleRows DEF GrantCommit, AdjustWrite, GrantStep
  <2>2. pc'[s] \in {"idle", "done"}
    BY <2>1 DEF Finish, Goto, TypeInv, TypeOK
  <2> QED BY <2>1, <2>2 DEF Unbudgeted
<1>5. ASSUME GrantKnown(s) PROVE Unbudgeted(s)
  BY <1>5, ConsoleQuiet DEF Quiet, Calm, Unbudgeted
<1> QED BY <1>1, <1>2, <1>3, <1>4, <1>5 DEF GrantStep

LEMMA StepKinds ==
    ASSUME TypeInv, HoldInv, RowInv, [Next]_vars
    PROVE  \/ \E s \in Sessions : Alone(s) /\ (Unbudgeted(s) \/ BudgetAction(s))
           \/ update_budget \/ NextDay \/ UNCHANGED vars
<1>q. \A s \in Sessions : Quiet(s) => Alone(s) /\ Unbudgeted(s)
  BY DEF Quiet, Unbudgeted
<1>1. ASSUME NEW s \in Callers, ReserveStep(s) \/ SettleStep(s)
      PROVE  s \in Sessions /\ Alone(s) /\ (Unbudgeted(s) \/ BudgetAction(s))
  <2> s \in Sessions
    BY DEF Sessions
  <2>1. Alone(s)
    BY <1>1, ReserveRows, SettleRows
  <2>2. Quiet(s) \/ BudgetAction(s)
    BY <1>1, ReserveQuiet, SettleQuiet DEF BudgetAction, Calm
  <2> QED BY <1>q, <2>1, <2>2
<1>2. ASSUME NEW s \in Callers \cup Admins \cup Recoverers, RefundStep(s)
      PROVE  s \in Sessions /\ Alone(s) /\ (Unbudgeted(s) \/ BudgetAction(s))
  <2> s \in Sessions
    BY DEF Sessions
  <2>1. Alone(s) /\ (Quiet(s) \/ BudgetAction(s))
    BY <1>2, RefundRows, RefundQuiet DEF BudgetAction
  <2> QED BY <1>q, <2>1
<1>3. ASSUME NEW s \in Sessions,
             \/ GrantStep(s) \/ GrantRead(s) \/ AdjustWrite(s) \/ \E e \in ledger : AdminUndo(s, e)
      PROVE  Alone(s) /\ Unbudgeted(s)
  BY <1>3, GrantUnbudgeted DEF Unbudgeted
<1>4. ASSUME NEW s \in Sessions,
             \/ Die(s) \/ \E h \in Holds : AdminRefund(s, h)
             \/ \E batch \in SUBSET Holds : Sweep(s, batch)
             \/ \E n \in Adjustments : AdjustRead(s, n)
      PROVE  Alone(s) /\ Unbudgeted(s)
  BY <1>q, <1>4, ConsoleQuiet DEF Calm
<1>5. /\ Webhooks \subseteq Sessions /\ Admins \subseteq Sessions
      /\ Recoverers \subseteq Sessions /\ Adjusters \subseteq Sessions
  BY DEF Sessions
<1> QED BY <1>1, <1>2, <1>3, <1>4, <1>5 DEF Next

LEMMA LockWithinBudget ==
    ASSUME TypeInv, HoldInv, NEW s \in Sessions, NEW h \in Holds, LockAccount(s, h)
    PROVE  WithinBudget(s)'
<1> DEFINE r1 == [req[s] EXCEPT !.holds = {h}]
           r == [r1 EXCEPT !.view = Seen(s)]
<1>0. r1.task = req[s].task /\ r1.amount = req[s].amount /\ r1 \in Requests
  BY DEF TypeInv, TypeOK, Requests
<1>1. r.task = req[s].task /\ r.amount = req[s].amount
  <2> HIDE DEF r1
  <2> QED BY <1>0 DEF Requests
<1>2. Goto(s, "reserving", r)
  BY DEF LockAccount, LockUser
<1> HIDE DEF r
<1>3. req'[s].task = req[s].task /\ req'[s].amount = req[s].amount /\ req[s].amount \in Int
  BY <1>1, <1>2, Went DEF TypeInv, TypeOK, Requests
<1>4. hold' = hold /\ paused' = paused /\ day' = day
  BY DEF LockAccount
<1>5. \A days : Used(days) \in Nat
  BY UsedCounted
<1>6. req[s].task \in Automated =>
        /\ ~paused
        /\ Used({day}) + req[s].amount <= DailyLimit
        /\ Used(0 .. MaxDay) + req[s].amount <= MonthlyLimit
  <2>1. ~OverBudget(req[s].task, req[s].amount)
    BY DEF LockAccount
  <2>2. DailyLimit \in Int /\ MonthlyLimit \in Int
    BY CreditConstants
  <2> QED BY <1>3, <1>5, <2>1, <2>2 DEF OverBudget
<1>7. Used({day})' = Used({day}) /\ Used(0 .. MaxDay)' = Used(0 .. MaxDay)
  BY <1>4 DEF Used, Usage
<1> QED BY <1>3, <1>4, <1>6, <1>7 DEF WithinBudget

LEMMA SettleUses ==
    ASSUME TypeInv, RowInv, NEW s \in Sessions, SettleCommit(s)
    PROVE  /\ user_lock = s \/ \A h \in Holds : hold'[h] = hold[h] \/ SettledAtHold(h)
           /\ \A h \in Holds : hold'[h].day = hold[h].day
           /\ \A h \in Holds : hold'[h] = hold[h] \/ hold'[h].status # "RESERVED"
<1>0. Working(s) /\ req[s].holds \subseteq Holds /\ pc[s] = "settling" /\ req[s].amount \in Int
  BY DEF RowInv, TypeInv, TypeOK, Requests, SettleCommit
<1>1. PICK h \in req[s].holds :
        LET extra == req[s].amount - hold[h].reserved
            capped == Enforced /\ extra > 0 /\ req[s].view < extra
        IN
        hold' = [hold EXCEPT
              ![h].status = IF capped THEN "SETTLED_CAPPED" ELSE "SETTLED",
              ![h].settled = IF capped THEN hold[h].reserved ELSE req[s].amount]
  BY DEF SettleCommit
<1> DEFINE extra == req[s].amount - hold[h].reserved
           capped == Enforced /\ extra > 0 /\ req[s].view < extra
           status == IF capped THEN "SETTLED_CAPPED" ELSE "SETTLED"
           settled == IF capped THEN hold[h].reserved ELSE req[s].amount
<1>2. hold' = [hold EXCEPT ![h].status = status, ![h].settled = settled]
  BY <1>1
<1>3. h \in Holds /\ hold[h].status = "RESERVED"
  BY <1>0 DEF Working, RowsLocked, Ending
<1>4. status \in SettledStatus /\ (req[s].amount = hold[h].reserved => settled = hold[h].reserved)
  BY DEF SettledStatus
<1> HIDE DEF status, settled
<1>5. /\ hold'[h].status = status /\ hold'[h].settled = settled /\ hold'[h].day = hold[h].day
      /\ \A g \in Holds \ {h} : hold'[g] = hold[g]
  BY <1>2, <1>3 DEF TypeInv, TypeOK, HoldRecord
<1>6. user_lock = s \/ SettledAtHold(h)
  <2>1. user_lock = s \/ req[s].amount = hold[h].reserved
    BY <1>0 DEF Working, Settling
  <2> QED BY <1>3, <1>4, <1>5, <2>1 DEF SettledAtHold
<1> QED BY <1>4, <1>5, <1>6 DEF SettledStatus

LEMMA RefundUses ==
    ASSUME TypeInv, RowInv, NEW s \in Sessions, RefundCommit(s)
    PROVE  /\ user_lock = s
           /\ \A h \in Holds : hold'[h].day = hold[h].day
           /\ \A h \in Holds : hold'[h] = hold[h] \/ hold'[h].status # "RESERVED"
<1>1. user_lock = s
  BY DEF RowInv, Working, Refunding, RefundCommit
<1>2. \A h \in Holds : IF h \in req[s].holds
                       THEN hold'[h].day = hold[h].day /\ hold'[h].status = "REFUNDED"
                       ELSE hold'[h] = hold[h]
  <2>1. ASSUME NEW h \in Holds
        PROVE  hold'[h] = IF h \in req[s].holds THEN [hold[h] EXCEPT !.status = "REFUNDED", !.settled = 0]
                          ELSE hold[h]
    BY DEF RefundCommit
  <2> QED BY <2>1 DEF TypeInv, TypeOK, HoldRecord
<1> QED BY <1>1, <1>2

LEMMA BudgetNext ==
    TypeInv /\ HoldInv /\ RowInv /\ BudgetInv /\ [Next]_vars => BudgetInv'
<1> SUFFICES ASSUME TypeInv, HoldInv, RowInv, BudgetInv, [Next]_vars PROVE BudgetInv'
  OBVIOUS
<1>0. TypeInv'
  BY TypeNext
<1>1. ASSUME NEW s \in Sessions, Alone(s), Unbudgeted(s) PROVE BudgetInv'
  <2>1. WithinBudget(s)'
    BY <1>1 DEF Unbudgeted, WithinBudget
  <2> QED BY <1>0, <1>1, <2>1, BudgetStep DEF Unbudgeted
<1>2. ASSUME NEW s \in Sessions, Alone(s), NEW h \in Holds, LockAccount(s, h) PROVE BudgetInv'
  BY <1>0, <1>2, LockWithinBudget, BudgetStep DEF LockAccount
<1>3. ASSUME NEW s \in Sessions, Alone(s), PauseBudget(s) \/ SettleCommit(s) \/ RefundCommit(s)
      PROVE  BudgetInv'
  <2>1. Finish(s) /\ day' = day /\ (paused' = paused \/ user_lock = None)
    BY <1>3 DEF PauseBudget, SettleCommit, RefundCommit
  <2>2. WithinBudget(s)'
    <3>1. pc'[s] \in {"idle", "done"}
      BY <2>1 DEF Finish, Goto, TypeInv, TypeOK
    <3> QED BY <3>1 DEF WithinBudget
  <2>3. /\ user_lock = s \/ \A h \in Holds : hold'[h] = hold[h] \/ SettledAtHold(h)
        /\ \A h \in Holds : hold'[h].day = hold[h].day
    BY <1>3, SettleUses, RefundUses DEF PauseBudget
  <2> QED BY <1>0, <1>3, <2>1, <2>2, <2>3, BudgetStep
<1>4. ASSUME NEW s \in Sessions, Alone(s), Reserve(s) PROVE BudgetInv'
  <2>1. PICK h \in Holds : user_lock = s /\ req[s].holds = {h}
    BY <1>4 DEF Reserve, HoldInv, SessionsHold, Reserving
  <2>2. hold' = [hold EXCEPT ![h] = [status |-> "RESERVED", reserved |-> Moved(req[s].amount),
                                     settled |-> 0, day |-> day]]
    BY <1>4, <2>1 DEF Reserve
  <2>3. \A g \in Holds : hold'[g].day \in {hold[g].day, day}
    BY <2>2 DEF TypeInv, TypeOK
  <2>4. pc'[s] = "held" /\ day' = day /\ paused' = paused
    BY <1>4, Went DEF Reserve
  <2>5. WithinBudget(s)'
    BY <2>4 DEF WithinBudget
  <2> QED BY <1>0, <1>4, <2>1, <2>3, <2>4, <2>5, BudgetStep
<1>5. ASSUME NextDay PROVE BudgetInv'
  <2>1. /\ day' = day + 1 /\ hold' = hold /\ paused' = paused /\ pc' = pc /\ req' = req
    BY <1>5 DEF NextDay
  <2>2. \A h \in Holds : hold'[h].day <= day' /\ hold[h].day # day'
    BY <2>1 DEF BudgetInv, TypeInv, TypeOK, HoldRecord
  <2>3. Used(0 .. MaxDay)' = Used(0 .. MaxDay)
    BY <2>1 DEF Used, Usage
  <2>4. Used({day})' = 0
    <3>1. Counted({day})' = {}
      BY <2>1, <2>2 DEF Counted
    <3>2. Used({day})' = SumFunctionOnSet(Usage', Counted({day})')
      BY DEF Used, Counted
    <3> QED BY <3>1, <3>2, SumEmpty
  <2>5. ASSUME NEW s \in Sessions, pc[s] = "reserving", req[s].task \in Automated
        PROVE  req[s].amount <= DailyLimit /\ req[s].amount \in Int
    <3>1. Used({day}) + req[s].amount <= DailyLimit
      BY <2>5 DEF BudgetInv, WithinBudget
    <3>2. Used({day}) \in Nat /\ req[s].amount \in Int /\ DailyLimit \in Int
      BY UsedCounted, CreditConstants DEF TypeInv, TypeOK, Requests
    <3> QED BY <3>1, <3>2
  <2> QED BY <2>1, <2>2, <2>3, <2>4, <2>5 DEF BudgetInv, WithinBudget
<1>6. ASSUME update_budget PROVE BudgetInv'
  <2>1. user_lock = None /\ day' = day /\ hold' = hold /\ pc' = pc /\ req' = req
    BY <1>6 DEF update_budget
  <2>2. \A s \in Sessions : pc[s] # "reserving"
    BY <2>1, CreditConstants DEF HoldInv, SessionsHold, Reserving
  <2> QED BY <2>1, <2>2 DEF BudgetInv, WithinBudget
<1>7. CASE UNCHANGED vars
  <2>1. day' = day /\ hold' = hold /\ paused' = paused /\ pc' = pc /\ req' = req
    BY <1>7 DEF vars
  <2>2. Used({day})' = Used({day}) /\ Used(0 .. MaxDay)' = Used(0 .. MaxDay)
    BY <2>1 DEF Used, Usage
  <2> QED BY <2>1, <2>2 DEF BudgetInv, WithinBudget
<1> QED BY <1>1, <1>2, <1>3, <1>4, <1>5, <1>6, <1>7, StepKinds DEF BudgetAction

\* A hold that is taken.
LEMMA ReserveWithinBudget ==
    ASSUME TypeInv, TypeInv', HoldInv, BudgetInv, NEW s \in Sessions, Reserve(s), NEW h \in Holds,
           h[1] \in Automated, hold[h].status = "NONE", hold'[h].status = "RESERVED"
    PROVE  /\ ~paused
           /\ Used({day})' <= DailyLimit
           /\ Used(0 .. MaxDay)' <= MonthlyLimit
<1>1. PICK g \in Holds : /\ req[s].holds = {g} /\ Reusable(req[s].task, g)
                         /\ hold[g].status = "NONE" /\ pc[s] = "reserving"
  BY DEF Reserve, HoldInv, SessionsHold, Reserving
<1>2. hold' = [hold EXCEPT ![g] = [status |-> "RESERVED", reserved |-> Moved(req[s].amount),
                                   settled |-> 0, day |-> day]]
  BY <1>1 DEF Reserve
<1>3. g = h /\ h[1] = req[s].task
  BY <1>1, <1>2 DEF TypeInv, TypeOK, Reusable
<1>4. /\ ~paused
      /\ Used({day}) + req[s].amount <= DailyLimit
      /\ Used(0 .. MaxDay) + req[s].amount <= MonthlyLimit
  BY <1>1, <1>3 DEF BudgetInv, WithinBudget
<1>5. req[s].amount \in Nat /\ Moved(req[s].amount) \in Nat /\ Moved(req[s].amount) <= req[s].amount
      /\ DailyLimit \in Int /\ MonthlyLimit \in Int
  BY <1>1, CreditConstants DEF TypeInv, TypeOK, Bookkeeping, Requests, Moved
<1>6. /\ hold'[h].status = "RESERVED" /\ hold'[h].reserved = Moved(req[s].amount) /\ hold'[h].day = day
      /\ \A i \in Holds \ {h} : hold'[i] = hold[i]
  BY <1>2, <1>3 DEF TypeInv, TypeOK
<1>7. ASSUME NEW days, day \in days
      PROVE  Used(days)' = Used(days) + Moved(req[s].amount)
  <2> DEFINE S == Counted(days)
  <2>1. Counted(days)' = S \cup {h} /\ h \notin S
    BY <1>6, <1>7 DEF Counted, SettledStatus
  <2>2. Used(days)' = SumFunctionOnSet(Usage', Counted(days)')
    BY DEF Used, Counted
  <2>3. /\ IsFiniteSet(S) /\ S \subseteq Holds /\ Used(days) = SumFunctionOnSet(Usage, S)
        /\ \A i \in Holds : Usage[i] \in Nat
    BY UsedCounted
  <2>4. Usage'[h] = Moved(req[s].amount) /\ \A i \in S : Usage'[i] = Usage[i]
    BY <1>6, <2>1, <2>3 DEF Usage
  <2> HIDE DEF S
  <2>5. SumFunctionOnSet(Usage', S) = SumFunctionOnSet(Usage, S)
    BY <2>3, <2>4, SumSame
  <2>6. \A i \in S \cup {h} : Usage'[i] \in Int
    BY <1>5, <2>3, <2>4
  <2>7. SumFunctionOnSet(Usage', S \cup {h}) = SumFunctionOnSet(Usage', S) + Usage'[h]
    BY <2>1, <2>3, <2>6, SumWith
  <2> QED BY <2>1, <2>2, <2>3, <2>4, <2>5, <2>7
<1>8. day' = day /\ day \in 0 .. MaxDay
  BY DEF Reserve, TypeInv, TypeOK
<1>9. Used({day}) \in Nat /\ Used(0 .. MaxDay) \in Nat
  BY UsedCounted
<1>10. Used({day})' = Used({day}) + Moved(req[s].amount)
  BY <1>7, <1>8 DEF Used
<1>11. Used(0 .. MaxDay)' = Used(0 .. MaxDay) + Moved(req[s].amount)
  BY <1>7, <1>8
<1> DEFINE today == Used({day})
           month == Used(0 .. MaxDay)
           todayAfter == Used({day})'
           monthAfter == Used(0 .. MaxDay)'
           held == Moved(req[s].amount)
           amount == req[s].amount
<1>12. /\ today \in Nat /\ month \in Nat /\ held \in Nat /\ amount \in Nat /\ held <= amount
       /\ DailyLimit \in Int /\ MonthlyLimit \in Int
       /\ todayAfter = today + held /\ monthAfter = month + held
       /\ today + amount <= DailyLimit /\ month + amount <= MonthlyLimit
  BY <1>4, <1>5, <1>9, <1>10, <1>11
<1>13. todayAfter <= DailyLimit /\ monthAfter <= MonthlyLimit
  <2> HIDE DEF today, month, todayAfter, monthAfter, held, amount
  <2> QED BY <1>12
<1> QED BY <1>4, <1>13

BudgetAlways == TypeInv /\ HoldInv /\ RowInv /\ BudgetInv

\* No automated reservation is taken while its budget is paused or past the limits of
\* the day and the month: the session that checked them (budget_usage) has had the
\* account locked since, and everything that adds to the usage needs that lock.
THEOREM HoldsWithinBudget == Spec => BudgetKept
<1>1. Init => BudgetAlways
  <2>1. Init => BudgetInv
    BY DEF Init, BudgetInv, WithinBudget, NoHold
  <2> QED BY <2>1, TypeInit, HoldInit, RowInit DEF BudgetAlways
<1>2. BudgetAlways /\ [Next]_vars => BudgetAlways'
  BY TypeNext, HoldNext, RowNext, BudgetNext DEF BudgetAlways
<1>3. BudgetAlways /\ [Next]_vars =>
        [\A h \in Holds :
           /\ h[1] \in Automated
           /\ hold[h].status = "NONE" /\ hold'[h].status = "RESERVED"
           => /\ ~paused
              /\ Used({day})' <= DailyLimit
              /\ Used(0 .. MaxDay)' <= MonthlyLimit]_vars
  <2> SUFFICES ASSUME BudgetAlways, [Next]_vars, NEW h \in Holds,
                      h[1] \in Automated, hold[h].status = "NONE", hold'[h].status = "RESERVED"
               PROVE  /\ ~paused
                      /\ Used({day})' <= DailyLimit
                      /\ Used(0 .. MaxDay)' <= MonthlyLimit
    OBVIOUS
  <2>0. TypeInv /\ HoldInv /\ RowInv /\ BudgetInv /\ TypeInv'
    BY TypeNext DEF BudgetAlways
  <2>1. CASE \E s \in Sessions : Reserve(s)
    BY <2>0, <2>1, ReserveWithinBudget
  <2>2. CASE ~\E s \in Sessions : Reserve(s)
    <3>1. hold'[h] = hold[h] \/ hold'[h].status # "RESERVED"
      <4>1. ASSUME NEW s \in Sessions, Unbudgeted(s) \/ BudgetAction(s)
            PROVE  hold' = hold \/ SettleCommit(s) \/ RefundCommit(s)
        BY <2>2, <4>1 DEF BudgetAction, Unbudgeted, LockAccount, PauseBudget
      <4>2. update_budget \/ NextDay \/ UNCHANGED vars => hold' = hold
        BY DEF update_budget, NextDay, vars
      <4>3. hold' = hold \/ \E s \in Sessions : SettleCommit(s) \/ RefundCommit(s)
        BY <2>0, <4>1, <4>2, StepKinds
      <4> QED BY <2>0, <4>3, SettleUses, RefundUses
    <3> QED BY <3>1
  <2> QED BY <2>1, <2>2
<1> QED BY <1>1, <1>2, <1>3, PTL DEF Spec, BudgetKept

=============================================================================
