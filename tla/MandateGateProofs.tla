-------------------------- MODULE MandateGateProofs --------------------------
(***************************************************************************)
(* What MandateGate promises, for any number of requests and workers and   *)
(* any set of kill switch scopes.                                          *)
(*                                                                         *)
(* The gate never reads the mandate-scope kill switch rows, and the column *)
(* it reads may disagree with them, so none of the gate's promises is      *)
(* inductive alone.  GateInv adds what links the rows: every event that    *)
(* must stop a mandate, an active row among them, leaves it paused, and    *)
(* what a kill switch request has read of the pause is still true.  It     *)
(* holds because nothing lifts a pause: resume_mandate asks the gate, and  *)
(* the gate is closed by it.                                               *)
(***************************************************************************)
EXTENDS MandateGate, TLAPS

\* A request that engages the mandate scope and found the mandate paused already,
\* so that its commit will not write the pause.
ReliesOnPause(r) ==
    r.at = "ready" /\ r.engage /\ r.scope = "mandate" /\ "paused" \notin r.writes

\* An active mandate-scope row comes with a pause, and a request that relies on a
\* pause can: it is still there.
SwitchPauses ==
    /\ \A row \in switches : row.scope = "mandate" => mandate.paused
    /\ \A a \in Admins : ReliesOnPause(admin[a]) => mandate.paused

GateInv ==
    /\ GateTypeOK
    /\ SwitchPauses
    /\ RevokedMandateIsPaused
    /\ BadReconciliationPauses

\* resume_mandate evaluates the full gate on the mandate it is asked to resume,
\* and evaluate_full_gate refuses a paused mandate: no step ever resumes it.
LEMMA ResumeChangesNothing ==
    resume_mandate => UNCHANGED <<gateVars, lock>>
  BY DEF resume_mandate, resume_accepts, evaluate_full_gate, mandate_ok, gateVars

\* The rows a deployment starts from satisfy the invariant.
LEMMA GateInvInit == GateInit => GateInv
  <1> SUFFICES ASSUME GateInit PROVE GateInv
    OBVIOUS
  <1>1. connection \in [status : ConnectionStatus, revoked : BOOLEAN]
        /\ connection.revoked = FALSE
    BY DEF GateInit, ConnectionStatus
  <1>2. FreshMandate \in Mandates /\ FreshMandate.paused = FALSE
    BY DEF FreshMandate, Mandates, PauseReasons
  <1>3. \A a \in Admins : admin[a] = NoRequest /\ ~ReliesOnPause(admin[a])
    BY DEF GateInit, NoRequest, ReliesOnPause
  <1>4. NoRequest \in [at : {"idle", "selected", "ready"}, engage : BOOLEAN, scope : AllScopes,
                      rows : SUBSET [scope : AllScopes, by : Admins], writes : SUBSET SwitchColumns]
    BY <1>2 DEF NoRequest, AllScopes
  <1>5. GateTypeOK
    BY <1>1, <1>2, <1>4 DEF GateInit, GateTypeOK, ConnectionStatus
  <1>6. SwitchPauses
    BY <1>2, <1>3 DEF GateInit, SwitchPauses
  <1> QED
    BY <1>1, <1>5, <1>6 DEF GateInit, GateInv, RevokedMandateIsPaused, BadReconciliationPauses

\* What a kill switch request does before its commit changes only what it knows.
LEMMA RequestStep ==
    ASSUME GateInv, NEW a \in Admins,
           \/ \E engage \in BOOLEAN, scope \in Scopes : kill_switch_select(a, engage, scope)
           \/ admin_kill_switch_load(a)
           \/ admin_kill_switch_rollback(a)
    PROVE  GateInv' /\ UNCHANGED <<approval, switches, mandate, connection, recon, lock>>
  <1>0. UNCHANGED <<approval, switches, mandate, connection, recon, lock, tester, reconciler>>
    BY DEF kill_switch_select, admin_kill_switch_load, admin_kill_switch_rollback
  <1>1. FreshMandate \in Mandates /\ FreshMandate.paused = FALSE
    BY DEF FreshMandate, Mandates, PauseReasons
  <1> DEFINE Requests == [at : {"idle", "selected", "ready"}, engage : BOOLEAN,
                          scope : AllScopes, rows : SUBSET [scope : AllScopes, by : Admins],
                          writes : SUBSET SwitchColumns]
  <1>2. admin \in [Admins -> Requests] /\ mandate \in Mandates
    BY DEF GateInv, GateTypeOK
  <1>3. NoRequest \in Requests /\ ~ReliesOnPause(NoRequest)
    BY DEF NoRequest, AllScopes, ReliesOnPause
  <1>4. PICK r \in Requests : /\ admin' = [admin EXCEPT ![a] = r]
                              /\ ReliesOnPause(r) => mandate.paused
    <2>1. ASSUME NEW engage \in BOOLEAN, NEW scope \in Scopes,
                 kill_switch_select(a, engage, scope)
          PROVE  \E r \in Requests : /\ admin' = [admin EXCEPT ![a] = r]
                                     /\ ReliesOnPause(r) => mandate.paused
      <3> DEFINE r == [at |-> IF scope = "mandate" THEN "selected" ELSE "ready",
                       engage |-> engage, scope |-> scope, rows |-> Active(scope),
                       writes |-> {}]
      <3>1. Active(scope) \subseteq [scope : AllScopes, by : Admins]
        BY DEF Active, GateInv, GateTypeOK
      <3>2. r \in Requests /\ ~ReliesOnPause(r)
        BY <3>1, GateConstants DEF GateConstants, ReliesOnPause
      <3> QED
        BY <2>1, <3>2 DEF kill_switch_select
    <2>2. CASE admin_kill_switch_load(a)
      <3> DEFINE r == [admin[a] EXCEPT !.at = "ready", !.writes = ColumnsToWrite(admin[a].engage)]
      <3>1. r \in Requests /\ (ReliesOnPause(r) => mandate.paused)
        BY <1>2 DEF ColumnsToWrite, SwitchColumns, ReliesOnPause, Mandates
      <3>2. admin' = [admin EXCEPT ![a] = r]
        BY <1>2, <2>2 DEF admin_kill_switch_load
      <3> QED
        BY <3>1, <3>2
    <2>3. CASE admin_kill_switch_rollback(a)
      BY <1>3, <2>3 DEF admin_kill_switch_rollback
    <2> QED
      BY <2>1, <2>2, <2>3
  <1>5. /\ admin' \in [Admins -> Requests]
        /\ \A b \in Admins : ReliesOnPause(admin'[b]) => mandate.paused
    BY <1>2, <1>4 DEF GateInv, SwitchPauses
  <1> QED
    BY <1>0, <1>5 DEF GateInv, GateTypeOK, SwitchPauses, RevokedMandateIsPaused,
                      BadReconciliationPauses

\* The commit of an engaging request writes the pause unless it read it, so the
\* mandate scope ends up paused; no commit lifts a pause, and one that writes
\* the mandate found it unlocked.
LEMMA CommitStep ==
    ASSUME GateInv, NEW a \in Admins,
           admin_kill_switch_engage(a) \/ admin_kill_switch_release(a)
    PROVE  /\ GateInv' /\ UNCHANGED <<approval, connection, recon, lock>>
           /\ mandate.paused => mandate'.paused
           /\ mandate' = mandate \/ lock = Unlocked
  <1> DEFINE Requests == [at : {"idle", "selected", "ready"}, engage : BOOLEAN,
                          scope : AllScopes, rows : SUBSET [scope : AllScopes, by : Admins],
                          writes : SUBSET SwitchColumns]
  <1>0. /\ UNCHANGED <<approval, connection, recon, lock, tester, reconciler>>
        /\ admin' = [admin EXCEPT ![a] = NoRequest]
    BY DEF admin_kill_switch_engage, admin_kill_switch_release
  <1>1. FreshMandate \in Mandates /\ FreshMandate.paused = FALSE
    BY DEF FreshMandate, Mandates, PauseReasons
  <1>2. admin \in [Admins -> Requests] /\ mandate \in Mandates /\ admin[a] \in Requests
    BY DEF GateInv, GateTypeOK
  <1>3. NoRequest \in Requests /\ ~ReliesOnPause(NoRequest)
    BY DEF NoRequest, AllScopes, ReliesOnPause
  <1>4. /\ mandate' \in Mandates
        /\ mandate.paused => mandate'.paused
        /\ mandate' = mandate \/ lock = Unlocked
    BY <1>2 DEF admin_kill_switch_engage, admin_kill_switch_release, WriteMandate, Engaged,
                Mandates, PauseReasons
  <1>5. /\ switches' \in SUBSET [scope : AllScopes, by : Admins]
        /\ \A row \in switches' : row.scope = "mandate" => mandate'.paused
    <2>1. CASE admin_kill_switch_release(a)
      BY <1>4, <2>1 DEF admin_kill_switch_release, GateInv, GateTypeOK, SwitchPauses
    <2>2. CASE admin_kill_switch_engage(a)
      <3>1. ReliesOnPause(admin[a]) => mandate.paused
        BY DEF GateInv, SwitchPauses
      <3>2. admin[a].scope = "mandate" => mandate'.paused
        BY <1>2, <2>2, <3>1 DEF admin_kill_switch_engage, WriteMandate, Engaged,
                                ReliesOnPause, Mandates
      <3>3. admin[a].scope \in AllScopes
        BY <1>2
      <3>4. switches' \subseteq switches \cup {[scope |-> admin[a].scope, by |-> a]}
        BY <2>2 DEF admin_kill_switch_engage
      <3>5. [scope |-> admin[a].scope, by |-> a] \in [scope : AllScopes, by : Admins]
        BY <3>3
      <3> QED
        BY <1>4, <3>2, <3>4, <3>5 DEF GateInv, GateTypeOK, SwitchPauses
    <2> QED
      BY <2>1, <2>2
  <1>6. /\ admin' \in [Admins -> Requests]
        /\ \A b \in Admins : ReliesOnPause(admin'[b]) => mandate'.paused
    BY <1>0, <1>2, <1>3, <1>4 DEF GateInv, SwitchPauses
  <1> QED
    BY <1>0, <1>4, <1>5, <1>6
    DEF GateInv, GateTypeOK, SwitchPauses, RevokedMandateIsPaused, BadReconciliationPauses

\* Every operation on the rows keeps the invariant.
LEMMA GateInvStep == GateInv /\ [GateNext]_<<gateVars, lock>> => GateInv'
  <1> SUFFICES ASSUME GateInv, [GateNext]_<<gateVars, lock>>
               PROVE  GateInv'
    OBVIOUS
  <1> USE DEF GateInv, GateTypeOK, SwitchPauses, RevokedMandateIsPaused,
              BadReconciliationPauses, Mandates, PauseReasons, ConnectionStatus
  <1>1. ASSUME NEW approve \in BOOLEAN, admin_live_approval(approve)
        PROVE  GateInv'
    BY <1>1 DEF admin_live_approval
  <1>2. ASSUME NEW a \in Admins,
               \/ \E engage \in BOOLEAN, scope \in Scopes :
                     kill_switch_select(a, engage, scope)
               \/ admin_kill_switch_load(a)
               \/ admin_kill_switch_rollback(a)
        PROVE  GateInv'
    BY <1>2, RequestStep
  <1>3. ASSUME NEW a \in Admins, admin_kill_switch_engage(a) \/ admin_kill_switch_release(a)
        PROVE  GateInv'
    BY <1>3, CommitStep
  <1>4. ASSUME NEW by_admin \in BOOLEAN, pause_mandate(by_admin)
        PROVE  GateInv'
    BY <1>4 DEF pause_mandate, Paused
  <1>5. CASE resume_mandate \/ UNCHANGED <<gateVars, lock>>
    BY <1>5, ResumeChangesNothing DEF gateVars
  <1>6. CASE mandate_expires
    BY <1>6 DEF mandate_expires
  <1>7. ASSUME NEW t \in Testers, test_connection_begin(t)
        PROVE  GateInv'
    BY <1>7 DEF test_connection_begin
  <1>8. ASSUME NEW t \in Testers, NEW status \in {"HEALTHY", "ERROR", "DISCONNECTED"},
               test_connection_end(t, status)
        PROVE  GateInv'
    BY <1>8 DEF test_connection_end
  <1>9. CASE revoke_connection
    BY <1>9 DEF revoke_connection, WriteMandate, Paused
  <1>10. ASSUME NEW r \in Reconcilers, NEW outcome \in {"ok", "discrepancy", "error"},
                reconcile_account_begin(r, outcome)
         PROVE  GateInv'
    BY <1>10 DEF reconcile_account_begin
  <1>11. ASSUME NEW r \in Reconcilers, reconcile_account_end(r)
         PROVE  GateInv'
    BY <1>11 DEF reconcile_account_end, WriteMandate, Paused
  <1>12. ASSUME NEW r \in Reconcilers, daily_live_reconciliation_rollback(r)
         PROVE  GateInv'
    BY <1>12 DEF daily_live_reconciliation_rollback
  <1>13. ASSUME NEW h \in Confirmers, owned_mandate_lock(h) \/ commit_or_rollback(h)
         PROVE  GateInv'
    BY <1>13 DEF owned_mandate_lock, commit_or_rollback, gateVars
  <1> QED
    BY <1>1, <1>2, <1>3, <1>4, <1>5, <1>6, <1>7, <1>8, <1>9, <1>10, <1>11, <1>12,
       <1>13 DEF GateNext

\* GateInv holds in every reachable state of the rows.
THEOREM GateInvariant == GateSpec => []GateInv
  BY GateInvInit, GateInvStep, PTL DEF GateSpec

\* Type correctness of the rows and of the workers' local state.
THEOREM GateTypeCorrect == GateSpec => []GateTypeOK
  BY GateInvariant, PTL DEF GateInv

\* A revoked connection keeps its mandate paused for ever.
THEOREM RevocationPauses == GateSpec => []RevokedMandateIsPaused
  BY GateInvariant, PTL DEF GateInv

\* A failed reconciliation on record means a paused mandate.
THEOREM FailedReconciliationPauses == GateSpec => []BadReconciliationPauses
  BY GateInvariant, PTL DEF GateInv

\* The gate is closed while a kill switch row of any scope is active, the mandate
\* scope included, whose rows evaluate_full_gate does not ask for.
THEOREM OpenGateHasNoSwitch == GateSpec => []GateImpliesNoSwitch
  <1>1. GateInv => GateImpliesNoSwitch
    <2> SUFFICES ASSUME GateInv, evaluate_full_gate, NEW row \in switches
                 PROVE  FALSE
      BY DEF GateImpliesNoSwitch
    <2>1. row.scope \in AllScopes
      BY DEF GateInv, GateTypeOK
    <2>2. CASE row.scope = "mandate"
      BY <2>2 DEF GateInv, SwitchPauses, evaluate_full_gate, mandate_ok
    <2>3. CASE row.scope # "mandate"
      BY <2>1, <2>3 DEF AllScopes, evaluate_full_gate, mandate_ok, is_engaged, Active
    <2> QED
      BY <2>2, <2>3
  <1> QED
    BY <1>1, GateInvariant, PTL

\* Releasing a kill switch, or anything else, never lifts a pause.
THEOREM ReleaseNeverResumes == GateSpec => ReleaseKeepsPause
  <1>1. GateInv /\ [GateNext]_<<gateVars, lock>>
           => [(switches' # switches /\ switches' \subseteq switches)
                  => (mandate.paused => mandate'.paused)]_<<gateVars, lock>>
    <2> SUFFICES ASSUME GateInv, GateNext, switches' # switches, mandate.paused
                 PROVE  mandate'.paused
      BY DEF gateVars
    <2>1. PICK a \in Admins : admin_kill_switch_engage(a) \/ admin_kill_switch_release(a)
      BY DEF GateNext, gateVars, admin_live_approval, kill_switch_select,
             admin_kill_switch_load, admin_kill_switch_rollback, pause_mandate,
             resume_mandate, mandate_expires, test_connection_begin, test_connection_end,
             revoke_connection, reconcile_account_begin, reconcile_account_end,
             daily_live_reconciliation_rollback, owned_mandate_lock, commit_or_rollback
    <2> QED
      BY <2>1, CommitStep
  <1> QED
    BY <1>1, GateInvariant, PTL DEF GateSpec, ReleaseKeepsPause

-----------------------------------------------------------------------------
(* MandateGate implements AdmissionGate *)

\* An operation on the rows is a GateWrite of the abstract gate or changes
\* nothing it sees; the row lock is taken and dropped as the abstract one is.
LEMMA AdmissionStep ==
    GateInv /\ [GateNext]_<<gateVars, lock>>
        => [Admission!AdmissionNext]_<<mandate.paused, Blocked, connection.revoked, lock>>
  <1> SUFFICES ASSUME GateInv, [GateNext]_<<gateVars, lock>>
               PROVE  [Admission!AdmissionNext]_<<mandate.paused, Blocked,
                                                  connection.revoked, lock>>
    OBVIOUS
  <1> USE DEF Mandates
  <1> DEFINE Abstract == Admission!GateWrite /\ UNCHANGED lock
  <1>0. Blocked \in BOOLEAN /\ Blocked' \in BOOLEAN
    BY DEF Blocked
  <1>a. /\ mandate.paused \in BOOLEAN /\ mandate'.paused \in BOOLEAN
        /\ connection.revoked \in BOOLEAN /\ connection'.revoked \in BOOLEAN
    BY GateInvStep DEF GateInv, GateTypeOK
  <1>1. ASSUME mandate.paused => mandate'.paused,
               mandate'.paused # mandate.paused => lock = Unlocked,
               connection.revoked => connection'.revoked,
               connection'.revoked # connection.revoked => mandate'.paused,
               lock' = lock
        PROVE  Abstract
    BY <1>0, <1>a, <1>1 DEF Admission!GateWrite, Admission!Unlocked, Unlocked
  <1> HIDE DEF Abstract
  <1>2. CASE resume_mandate \/ UNCHANGED <<gateVars, lock>>
    <2>1. UNCHANGED <<gateVars, lock>>
      BY <1>2, ResumeChangesNothing
    <2>2. UNCHANGED <<mandate.paused, connection.revoked, lock>>
      BY <2>1 DEF gateVars
    <2>3. Abstract
      BY <2>2, <1>1
    <2> QED
      BY <2>3 DEF Abstract, Admission!AdmissionNext
  <1>3. ASSUME NEW h \in Confirmers, owned_mandate_lock(h) \/ commit_or_rollback(h)
        PROVE  Admission!AdmissionNext
    <2>1. UNCHANGED <<mandate.paused, connection.revoked, Blocked>>
      BY <1>3 DEF owned_mandate_lock, commit_or_rollback, gateVars, Blocked,
                  evaluate_full_gate, mandate_ok, mandate_trade_allowed, is_engaged,
                  Active, connection_healthy, reconciliation_healthy
    <2> QED
      BY <1>3, <2>1
      DEF owned_mandate_lock, commit_or_rollback, Admission!AdmissionNext,
          Admission!LockMandate, Admission!UnlockMandate, Admission!Unlocked, Unlocked
  <1>4. ASSUME NEW approve \in BOOLEAN, admin_live_approval(approve)
        PROVE  Abstract
    BY <1>1, <1>4 DEF admin_live_approval
  <1>5. ASSUME NEW a \in Admins,
               \/ \E engage \in BOOLEAN, scope \in Scopes :
                     kill_switch_select(a, engage, scope)
               \/ admin_kill_switch_load(a)
               \/ admin_kill_switch_rollback(a)
               \/ admin_kill_switch_engage(a)
               \/ admin_kill_switch_release(a)
        PROVE  Abstract
    <2>1. /\ UNCHANGED <<connection, lock>>
          /\ mandate.paused => mandate'.paused
          /\ mandate' = mandate \/ lock = Unlocked
      BY <1>5, RequestStep, CommitStep
    <2> QED
      BY <1>1, <2>1
  <1>6. ASSUME NEW by_admin \in BOOLEAN, pause_mandate(by_admin)
        PROVE  Abstract
    BY <1>1, <1>6 DEF pause_mandate, Paused, GateInv, GateTypeOK
  <1>7. CASE mandate_expires
    <2>1. Abstract
      BY <1>1, <1>7 DEF mandate_expires, GateInv, GateTypeOK
    <2> QED
      BY <2>1 DEF Abstract, Admission!AdmissionNext
  <1>8. ASSUME NEW t \in Testers, test_connection_begin(t)
        PROVE  Abstract
    BY <1>1, <1>8 DEF test_connection_begin
  <1>9. ASSUME NEW t \in Testers, NEW status \in {"HEALTHY", "ERROR", "DISCONNECTED"},
               test_connection_end(t, status)
        PROVE  Abstract
    BY <1>1, <1>9 DEF test_connection_end, GateInv, GateTypeOK
  <1>10. CASE revoke_connection
    <2>1. Abstract
      BY <1>1, <1>10 DEF revoke_connection, WriteMandate, Paused, GateInv, GateTypeOK
    <2> QED
      BY <2>1 DEF Abstract, Admission!AdmissionNext
  <1>11. ASSUME NEW r \in Reconcilers, NEW outcome \in {"ok", "discrepancy", "error"},
                reconcile_account_begin(r, outcome)
         PROVE  Abstract
    BY <1>1, <1>11 DEF reconcile_account_begin
  <1>12. ASSUME NEW r \in Reconcilers,
                reconcile_account_end(r) \/ daily_live_reconciliation_rollback(r)
         PROVE  Abstract
    BY <1>1, <1>12 DEF reconcile_account_end, daily_live_reconciliation_rollback,
                       WriteMandate, Paused, GateInv, GateTypeOK
  <1>13. Abstract => Admission!AdmissionNext
    BY DEF Abstract, Admission!AdmissionNext
  <1> QED
    BY <1>2, <1>3, <1>4, <1>5, <1>6, <1>7, <1>8, <1>9, <1>10, <1>11, <1>12, <1>13
    DEF GateNext

\* The rows and every operation on them implement the abstract gate on which
\* the order pipeline is specified.
THEOREM GateRefinement == GateSpec => ImplementsAdmission
  <1>1. ASSUME GateInit PROVE Admission!AdmissionInit
    <2>1. Blocked \in BOOLEAN
      BY DEF Blocked
    <2>2. connection.revoked = FALSE /\ mandate.paused = FALSE /\ lock = Unlocked
      BY <1>1 DEF GateInit, FreshMandate
    <2> QED
      BY <2>1, <2>2 DEF Admission!AdmissionInit, Admission!Unlocked, Unlocked
  <1> QED
    BY <1>1, GateInvariant, AdmissionStep, PTL
    DEF GateSpec, ImplementsAdmission, Admission!AdmissionSpec

=============================================================================
