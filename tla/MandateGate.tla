----------------------------- MODULE MandateGate -----------------------------
(***************************************************************************)
(* The admission side of the LIVE trading control plane: the rows that     *)
(* decide whether one mandate may trade, every operation that writes them, *)
(* and the gate the order pipeline evaluates over them                     *)
(* (packages/live_trading/flags.py, kill_switch.py, reconciliation.py, the *)
(* pause/resume/connection half of control_plane.py, and the admin         *)
(* endpoints of apps/api/routers/admin.py).                                *)
(*                                                                         *)
(* One mandate is modelled, with its user and its broker connection; the   *)
(* mandate columns nothing in the repository writes (approval_status,      *)
(* execution_mode, limits) are taken as provisioned correctly.  Requests   *)
(* and Celery tasks that call the exchange between reading a row and       *)
(* writing it are split at that call, and the kill switch requests, which  *)
(* read two tables without a lock, at each read; the other requests are    *)
(* one transaction and one action.                                         *)
(***************************************************************************)
EXTENDS Naturals, FiniteSets

CONSTANTS
    Confirmers,   \* transactions of confirm_order, which lock the mandate row
    Admins,       \* requests inside admin_kill_switch
    Scopes,       \* kill switch scopes the administrators use
    Testers,      \* requests and tasks inside test_connection
    Reconcilers,  \* workers inside daily_live_reconciliation
    StaticGate    \* evaluate_static_gate: the deployment's environment flags

AllScopes == {"global", "user", "mandate", "connection"}

Unlocked == "unlocked"

ASSUME GateConstants ==
    /\ Scopes \subseteq AllScopes
    /\ StaticGate \in BOOLEAN
    /\ Unlocked \notin Confirmers

VARIABLES
    approval,    \* LiveUserApproval.status
    switches,    \* active TradingKillSwitch rows: scope and inserting request
    mandate,     \* paused, pause_reason, kill_switch_state, expired
    connection,  \* BrokerConnection: status and revoked_at
    recon,       \* status of the latest TradingReconciliation row
    lock,        \* holder of the mandate's FOR UPDATE row lock
    admin,       \* admin_kill_switch in progress
    tester,      \* test_connection in progress
    reconciler   \* reconcile_account in progress

gateVars == <<approval, switches, mandate, connection, recon, admin, tester, reconciler>>

\* resume_mandate tells a reason that names a reconciliation from all others.
PauseReasons == {"none", "reconciliation", "other"}
ConnectionStatus == {"DISCONNECTED", "HEALTHY", "ERROR", "REVOKED"}

\* The columns of TradingMandate that the gate depends on, and their defaults.
Mandates == [paused : BOOLEAN, pause_reason : PauseReasons,
             kill_switch_state : BOOLEAN, expired : BOOLEAN]
FreshMandate == [paused |-> FALSE, pause_reason |-> "none",
                 kill_switch_state |-> FALSE, expired |-> FALSE]

\* A kill switch request: where it stands, what it was asked, the active rows
\* of its scope, and the columns of the mandate its commit will write.
SwitchColumns == {"kill_switch_state", "paused"}
NoRequest == [at |-> "idle", engage |-> FALSE, scope |-> "global",
              rows |-> {}, writes |-> {}]

-----------------------------------------------------------------------------
(* Reading the gate *)

connection_healthy == connection.status = "HEALTHY" /\ ~connection.revoked

reconciliation_healthy == recon \in {"none", "ok"}

\* The active rows of a scope.  A request inserts a row only if it saw none, so
\* the scope and the request that inserted it tell the active rows apart.
Active(scope) == {row \in switches : row.scope = scope}

is_engaged(scope) == Active(scope) # {}

\* mandate_ok leaves out the "mandate" kill switch row: only the column counts.
mandate_ok ==
    /\ ~mandate.paused
    /\ ~mandate.expired
    /\ ~mandate.kill_switch_state
    /\ ~is_engaged("connection")
    /\ connection_healthy
    /\ reconciliation_healthy

evaluate_full_gate ==
    /\ StaticGate
    /\ approval = "approved"
    /\ mandate_ok
    /\ ~is_engaged("global")
    /\ ~is_engaged("user")

\* kill_switch.mandate_trade_allowed, which the risk engine asks last.
mandate_trade_allowed ==
    /\ switches = {}
    /\ ~mandate.kill_switch_state
    /\ ~mandate.paused

-----------------------------------------------------------------------------
(* Writing the rows *)

\* An UPDATE of the mandate row waits for the transaction that holds its lock.
WriteMandate(m) ==
    /\ mandate' = m
    /\ m = mandate \/ lock = Unlocked

Paused(reason) == [mandate EXCEPT !.paused = TRUE, !.pause_reason = reason]

admin_live_approval_stores_verb(approve) ==
    /\ approval' = IF approve THEN "approve" ELSE "reject"
    /\ UNCHANGED <<switches, mandate, connection, recon, lock, admin, tester, reconciler>>

admin_live_approval(approve) ==
    /\ approval' = IF approve THEN "approved" ELSE "rejected"
    /\ UNCHANGED <<switches, mandate, connection, recon, lock, admin, tester, reconciler>>

\* engage() and release() first select the active rows of the scope.  release()
\* answers for a switch of that scope on anybody, so it goes on without a row of
\* this mandate; where it is a 404 nothing changes.
kill_switch_select(a, engage, scope) ==
    /\ admin[a].at = "idle"
    /\ admin' = [admin EXCEPT ![a] =
          [at |-> IF scope = "mandate" THEN "selected" ELSE "ready", engage |-> engage,
           scope |-> scope, rows |-> Active(scope), writes |-> {}]]
    /\ UNCHANGED <<approval, switches, mandate, connection, recon, lock, tester, reconciler>>

\* Engaging sets both columns and releasing clears the first; the ORM writes what
\* differs from the values it loaded.
ColumnsToWrite(engage) ==
    IF engage THEN {column \in SwitchColumns : ~mandate[column]}
    ELSE {column \in {"kill_switch_state"} : mandate[column]}

\* The mandate scope has columns to write: the row is loaded without a lock.
admin_kill_switch_load(a) ==
    /\ admin[a].at = "selected"
    /\ admin' = [admin EXCEPT ![a].at = "ready", ![a].writes = ColumnsToWrite(admin[a].engage)]
    /\ UNCHANGED <<approval, switches, mandate, connection, recon, lock, tester, reconciler>>

\* The columns engaging leaves behind.  The reason quotes the request and is taken
\* to differ from the one that was loaded.
Engaged(writes) ==
    [mandate EXCEPT !.kill_switch_state = @ \/ "kill_switch_state" \in writes,
                    !.paused = @ \/ "paused" \in writes,
                    !.pause_reason = "other"]

admin_kill_switch_engage_without_pause(a) ==
    /\ admin[a].at = "ready" /\ admin[a].engage
    /\ switches' = IF admin[a].rows = {}
                   THEN switches \cup {[scope |-> admin[a].scope, by |-> a]} ELSE switches
    /\ WriteMandate(IF admin[a].scope = "mandate"
                    THEN [mandate EXCEPT !.kill_switch_state = @ \/ "kill_switch_state" \in admin[a].writes]
                    ELSE mandate)
    /\ admin' = [admin EXCEPT ![a] = NoRequest]
    /\ UNCHANGED <<approval, connection, recon, lock, tester, reconciler>>

\* The commit of engage: a row unless one was active, and the columns.
admin_kill_switch_engage(a) ==
    /\ admin[a].at = "ready" /\ admin[a].engage
    /\ switches' = IF admin[a].rows = {}
                   THEN switches \cup {[scope |-> admin[a].scope, by |-> a]} ELSE switches
    /\ WriteMandate(IF admin[a].scope = "mandate" THEN Engaged(admin[a].writes) ELSE mandate)
    /\ admin' = [admin EXCEPT ![a] = NoRequest]
    /\ UNCHANGED <<approval, connection, recon, lock, tester, reconciler>>

\* The commit of release: the selected rows, and the column if it was active.
admin_kill_switch_release(a) ==
    /\ admin[a].at = "ready" /\ ~admin[a].engage
    /\ switches' = switches \ admin[a].rows
    /\ WriteMandate(IF "kill_switch_state" \in admin[a].writes
                    THEN [mandate EXCEPT !.kill_switch_state = FALSE] ELSE mandate)
    /\ admin' = [admin EXCEPT ![a] = NoRequest]
    /\ UNCHANGED <<approval, connection, recon, lock, tester, reconciler>>

\* The request fails or its process dies before the commit.
admin_kill_switch_rollback(a) ==
    /\ admin[a].at # "idle"
    /\ admin' = [admin EXCEPT ![a] = NoRequest]
    /\ UNCHANGED <<approval, switches, mandate, connection, recon, lock, tester, reconciler>>

pause_mandate_without_lock(by_admin) ==
    /\ by_admin \/ ~mandate.paused
    /\ mandate' = Paused("other")
    /\ UNCHANGED <<approval, switches, connection, recon, lock, admin, tester, reconciler>>

pause_mandate(by_admin) ==
    /\ lock = Unlocked
    /\ by_admin \/ ~mandate.paused
    /\ mandate' = Paused("other")
    /\ UNCHANGED <<approval, switches, connection, recon, lock, admin, tester, reconciler>>

\* What resume_mandate demands of a paused mandate before it clears the pause.
resume_accepts ==
    /\ mandate.pause_reason # "reconciliation"
    /\ ~is_engaged("mandate")
    /\ ~is_engaged("global")
    /\ evaluate_full_gate

resume_mandate ==
    /\ lock = Unlocked
    /\ mandate.paused
    /\ mandate' = IF resume_accepts
                  THEN [mandate EXCEPT !.paused = FALSE, !.pause_reason = "none"]
                  ELSE mandate
    /\ UNCHANGED <<approval, switches, connection, recon, lock, admin, tester, reconciler>>

\* expires_at passes; nothing renews it.
mandate_expires ==
    /\ ~mandate.expired
    /\ mandate' = [mandate EXCEPT !.expired = TRUE]
    /\ UNCHANGED <<approval, switches, connection, recon, lock, admin, tester, reconciler>>

-----------------------------------------------------------------------------
(* The broker connection: the health call sits between the read and the write *)

test_connection_begin(t) ==
    /\ tester[t] = "idle"
    /\ ~connection.revoked
    /\ tester' = [tester EXCEPT ![t] = connection.status]
    /\ UNCHANGED <<approval, switches, mandate, connection, recon, lock, admin, reconciler>>

\* The ORM writes status only when it differs from the value it loaded.
test_connection_end(t, status) ==
    /\ tester[t] # "idle"
    /\ connection' = IF status = tester[t]
                     THEN connection
                     ELSE [connection EXCEPT !.status = status]
    /\ tester' = [tester EXCEPT ![t] = "idle"]
    /\ UNCHANGED <<approval, switches, mandate, recon, lock, admin, reconciler>>

revoke_connection ==
    /\ ~connection.revoked
    /\ connection' = [status |-> "REVOKED", revoked |-> TRUE]
    /\ WriteMandate(IF mandate.paused THEN mandate ELSE Paused("other"))
    /\ UNCHANGED <<approval, switches, recon, lock, admin, tester, reconciler>>

-----------------------------------------------------------------------------
(* Daily reconciliation: balances are fetched, then the rows are written in  *)
(* the transaction that the task commits after its last mandate.             *)

\* A revoked connection has no credentials, so its balances are unavailable.
reconcile_account_begin(r, outcome) ==
    /\ reconciler[r] = "idle"
    /\ connection.revoked => outcome = "error"
    /\ reconciler' = [reconciler EXCEPT ![r] = outcome]
    /\ UNCHANGED <<approval, switches, mandate, connection, recon, lock, admin, tester>>

reconcile_account_end_pauses_only_discrepancies(r) ==
    /\ reconciler[r] # "idle"
    /\ recon' = reconciler[r]
    /\ WriteMandate(IF reconciler[r] = "discrepancy" THEN Paused("reconciliation") ELSE mandate)
    /\ reconciler' = [reconciler EXCEPT ![r] = "idle"]
    /\ UNCHANGED <<approval, switches, connection, lock, admin, tester>>

reconcile_account_end(r) ==
    /\ reconciler[r] # "idle"
    /\ recon' = reconciler[r]
    /\ WriteMandate(IF reconciler[r] = "ok" THEN mandate ELSE Paused("reconciliation"))
    /\ reconciler' = [reconciler EXCEPT ![r] = "idle"]
    /\ UNCHANGED <<approval, switches, connection, lock, admin, tester>>

\* Another mandate of the same run raised: the task rolls the session back.
daily_live_reconciliation_rollback(r) ==
    /\ reconciler[r] # "idle"
    /\ reconciler' = [reconciler EXCEPT ![r] = "idle"]
    /\ UNCHANGED <<approval, switches, mandate, connection, recon, lock, admin, tester>>

-----------------------------------------------------------------------------
(* The mandate row lock, as confirm_order takes and drops it *)

owned_mandate_lock(h) ==
    /\ lock = Unlocked
    /\ lock' = h
    /\ UNCHANGED gateVars

commit_or_rollback(h) ==
    /\ lock = h
    /\ lock' = Unlocked
    /\ UNCHANGED gateVars

-----------------------------------------------------------------------------

\* A process starts over rows provisioned earlier.
GateInit ==
    /\ approval \in {"none", "approved"}
    /\ switches = {}
    /\ mandate = FreshMandate
    /\ connection \in [status : {"DISCONNECTED", "HEALTHY"}, revoked : {FALSE}]
    /\ recon = "none"
    /\ lock = Unlocked
    /\ admin = [a \in Admins |-> NoRequest]
    /\ tester = [t \in Testers |-> "idle"]
    /\ reconciler = [r \in Reconcilers |-> "idle"]

GateNext ==
    \/ \E approve \in BOOLEAN : admin_live_approval(approve)
    \/ \E a \in Admins, engage \in BOOLEAN, scope \in Scopes :
          kill_switch_select(a, engage, scope)
    \/ \E a \in Admins : admin_kill_switch_load(a)
    \/ \E a \in Admins : admin_kill_switch_engage(a)
    \/ \E a \in Admins : admin_kill_switch_release(a)
    \/ \E a \in Admins : admin_kill_switch_rollback(a)
    \/ \E by_admin \in BOOLEAN : pause_mandate(by_admin)
    \/ resume_mandate
    \/ mandate_expires
    \/ \E t \in Testers : test_connection_begin(t)
    \/ \E t \in Testers, status \in {"HEALTHY", "ERROR", "DISCONNECTED"} :
          test_connection_end(t, status)
    \/ revoke_connection
    \/ \E r \in Reconcilers, outcome \in {"ok", "discrepancy", "error"} :
          reconcile_account_begin(r, outcome)
    \/ \E r \in Reconcilers : reconcile_account_end(r)
    \/ \E r \in Reconcilers : daily_live_reconciliation_rollback(r)
    \/ \E h \in Confirmers : owned_mandate_lock(h)
    \/ \E h \in Confirmers : commit_or_rollback(h)

GateSpec == GateInit /\ [][GateNext]_<<gateVars, lock>>

-----------------------------------------------------------------------------
(* Properties *)

\* Every row stays within its column's values.
GateTypeOK ==
    /\ approval \in {"none", "approved", "rejected"}
    /\ switches \in SUBSET [scope : AllScopes, by : Admins]
    /\ mandate \in Mandates
    /\ connection \in [status : ConnectionStatus, revoked : BOOLEAN]
    /\ recon \in {"none", "ok", "discrepancy", "error"}
    /\ lock \in Confirmers \cup {Unlocked}
    /\ admin \in [Admins -> [at : {"idle", "selected", "ready"}, engage : BOOLEAN,
                             scope : AllScopes, rows : SUBSET [scope : AllScopes, by : Admins],
                             writes : SUBSET SwitchColumns]]
    /\ tester \in [Testers -> ConnectionStatus \cup {"idle"}]
    /\ reconciler \in [Reconcilers -> {"idle", "ok", "discrepancy", "error"}]

\* The full gate opens only when no kill switch row of any scope is active,
\* although its formula never reads the mandate-scope rows, and the column it
\* reads instead may disagree with them when requests overlap: a release that
\* selected its rows before another request engaged still clears the column.
\* What closes the gate then is the pause that engaging commits with its row.
GateImpliesNoSwitch == evaluate_full_gate => switches = {}

\* An API key's revocation also leaves the mandate paused (revoke_connection's
\* docstring), whatever pause, test or reconciliation ran around it.
RevokedMandateIsPaused == connection.revoked => mandate.paused

\* While the latest reconciliation is a discrepancy or an error, the mandate is
\* paused: reconcile_account never records a failure it did not act on.
BadReconciliationPauses == recon \in {"discrepancy", "error"} => mandate.paused

\* Releasing a kill switch never resumes trading by itself: a mandate that is
\* paused when an administrator releases a scope is still paused afterwards.
ReleaseKeepsPause ==
    [][(switches' # switches /\ switches' \subseteq switches)
          => (mandate.paused => mandate'.paused)]_<<gateVars, lock>>

\* preview_order and confirm_order ask the full gate and, through the risk
\* engine, mandate_trade_allowed: blocked is whatever makes either refuse.
Blocked == ~(evaluate_full_gate /\ mandate_trade_allowed)

\* The rows implement the abstract gate the order pipeline is built on: pauses
\* are only written to an unlocked row, and a revocation always pauses.
Admission == INSTANCE AdmissionGate WITH
    paused <- mandate.paused, blocked <- Blocked, revoked <- connection.revoked
ImplementsAdmission == Admission!AdmissionSpec

\* docs/live-trading/API.md: a mandate paused by its own user, with no kill
\* switch and with every other gate satisfied, is one resume_mandate accepts.
ResumeWorks ==
    (/\ mandate.paused /\ mandate.pause_reason = "other"
     /\ switches = {} /\ StaticGate /\ approval = "approved"
     /\ ~mandate.kill_switch_state /\ ~mandate.expired
     /\ connection_healthy /\ reconciliation_healthy)
       => resume_accepts

\* daily_live_reconciliation's docstring: a difference it found (and alerted
\* about) leaves the mandate paused when the run is over.
DifferencePausesMandate ==
    [][\A r \in Reconcilers :
          (reconciler[r] = "discrepancy" /\ reconciler'[r] = "idle")
             => mandate'.paused]_<<gateVars, lock>>

=============================================================================
