---------------------------- MODULE AdmissionGate ----------------------------
(***************************************************************************)
(* What the order pipeline may rely on about the gate of one mandate,      *)
(* without the rows that make it up: MandateGate is the detailed version   *)
(* and implements this one, LiveOrders is built on this one.               *)
(*                                                                         *)
(* A pause is a column of the mandate row, so it can only be written while *)
(* no transaction holds the row's lock, and nothing lifts it.  Everything  *)
(* else that closes the gate (kill switch rows, approvals, health tests,   *)
(* reconciliations, expiry) lives in other rows and may change at any      *)
(* time.  A revoked connection stays revoked, and its mandate is paused.   *)
(***************************************************************************)
CONSTANT Confirmers   \* transactions that may lock the mandate row

Unlocked == "unlocked"

ASSUME ConfirmersAssumption == Unlocked \notin Confirmers

VARIABLES
    paused,    \* TradingMandate.paused
    blocked,   \* some other check of evaluate_full_gate fails
    revoked,   \* the mandate's BrokerConnection.revoked_at is set
    lock       \* holder of the mandate's FOR UPDATE row lock

\* evaluate_full_gate and mandate_trade_allowed both pass.
Admits == ~paused /\ ~blocked /\ ~revoked

AdmissionInit ==
    /\ paused = FALSE
    /\ blocked \in BOOLEAN
    /\ revoked = FALSE
    /\ lock = Unlocked

GateWriteIgnoresLock ==
    /\ paused' \in BOOLEAN /\ (paused => paused')
    /\ blocked' \in BOOLEAN
    /\ revoked' \in BOOLEAN /\ (revoked => revoked')
    /\ revoked' # revoked => paused'

GateWrite ==
    /\ paused' \in BOOLEAN /\ (paused => paused')
    /\ blocked' \in BOOLEAN
    /\ revoked' \in BOOLEAN /\ (revoked => revoked')
    /\ revoked' # revoked => paused'
    /\ paused' # paused => lock = Unlocked

LockMandate(h) == lock = Unlocked /\ lock' = h

UnlockMandate(h) == lock = h /\ lock' = Unlocked

AdmissionNext ==
    \/ GateWrite /\ UNCHANGED lock
    \/ \E h \in Confirmers : LockMandate(h) /\ UNCHANGED <<paused, blocked, revoked>>
    \/ \E h \in Confirmers : UnlockMandate(h) /\ UNCHANGED <<paused, blocked, revoked>>

AdmissionSpec == AdmissionInit /\ [][AdmissionNext]_<<paused, blocked, revoked, lock>>

=============================================================================
