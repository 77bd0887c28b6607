------------------------------ MODULE LiveOrders ------------------------------
(***************************************************************************)
(* The LIVE order pipeline of packages/live_trading/control_plane.py over  *)
(* the Binance spot gateway: preview, confirm, submit, background status   *)
(* sync, cancel, and the fill and ledger rows they write, for the orders   *)
(* of one mandate, under the gate that AdmissionGate describes.            *)
(*                                                                         *)
(* Actors.  A confirmer is an API request inside confirm_order, a canceler *)
(* one inside cancel_order, a syncer a Celery worker inside                *)
(* sync_live_order_statuses, and the venue is the exchange.  A step ends   *)
(* where the code commits, takes the row lock or waits for the exchange.   *)
(*                                                                         *)
(* Data.  An intent stands for its client_order_id too, and for the only   *)
(* order its idempotency key allows.  An order has Quantity units and the  *)
(* venue executes them as the trades 1, 2, ..., one unit each.             *)
(***************************************************************************)
EXTENDS AdmissionGate, Naturals, FiniteSets

CONSTANTS
    Intents,           \* orders previewed on the mandate
    NoIntent,          \* what an idle actor works on
    Cancelers,         \* requests inside cancel_order
    Syncers,           \* workers inside sync_live_order_statuses
    Sources,           \* where previews come from (OrderSource)
    Quantity           \* units of every order

OrderSource == {"user_confirmed", "strategy", "admin", "system"}

ASSUME OrderConstants ==
    /\ NoIntent \notin Intents
    /\ Sources \subseteq OrderSource
    /\ Quantity \in Nat \ {0}

VARIABLES
    intent,     \* LiveOrderIntent.status and source
    lapsed,     \* intents whose confirmation window is over
    order,      \* LiveOrder.status ("none": no row) and filled_quantity
    passed,     \* intents with a committed RiskCheck row of result PASS
    recent,     \* the mandate's last order is within its frequency limit
    fills,      \* trade ids of an order's Fill rows
    booked,     \* quantity of an order's trade entries in the ledger
    wire,       \* the POST of an order, on its way to the venue or answered
    sent,       \* number of POSTs made for an order
    venue,      \* the order on the exchange: state and executed quantity
    confirmer,  \* pc and intent of a confirm_order
    canceler,   \* pc, intent and loaded status of a cancel_order
    syncer      \* pc, intent, loaded status and quantity, and queried state

gate == <<paused, blocked, revoked>>
dbVars == <<intent, lapsed, order, passed, recent, fills, booked>>
venueVars == <<wire, sent, venue>>
actorVars == <<confirmer, canceler, syncer>>
vars == <<gate, lock, dbVars, venueVars, actorVars>>

-----------------------------------------------------------------------------
(* Statuses *)

TERMINAL_ORDER_STATUSES == {"filled", "canceled", "rejected", "expired"}
OpenStatuses == {"pending", "accepted", "partially_filled", "unknown"}
LiveOrderStatus == TERMINAL_ORDER_STATUSES \cup OpenStatuses
IntentStatus == {"none", "PENDING", "APPROVED", "REJECTED", "EXPIRED"}
VenueStates == {"absent", "open", "filled", "canceled", "expired"}
WireStates == {"none", "in_flight", "lost", "accepted", "partially_filled",
               "filled", "expired", "rejected", "server_error"}

ORDER_STATE_MAP_unmapped(v) == v.state

\* ORDER_STATE_MAP over the exchange's order: NEW and PARTIALLY_FILLED are open.
ORDER_STATE_MAP(v) ==
    IF v.state # "open" THEN v.state
    ELSE IF v.executed = 0 THEN "accepted" ELSE "partially_filled"

\* The ORM writes a column only when it differs from the value it loaded.
WriteBack(loaded, new, current) == IF new = loaded THEN current ELSE new

-----------------------------------------------------------------------------
(* Preview and confirm *)

ConfirmIdle == [pc |-> "idle", intent |-> NoIntent]

\* Only an order that passes the gate and the risk engine becomes an intent.  The
\* row is new, so it makes no difference how long after the checks it appears.
preview_order(i, source) ==
    /\ intent[i].status = "none"
    /\ Admits
    /\ ~recent
    /\ intent' = [intent EXCEPT ![i] = [status |-> "PENDING", source |-> source]]
    /\ UNCHANGED <<gate, lock, lapsed, order, passed, recent, fills, booked,
                   venueVars, actorVars>>

confirmation_window_ends(i) ==
    /\ intent[i].status = "PENDING"
    /\ i \notin lapsed
    /\ lapsed' = lapsed \cup {i}
    /\ UNCHANGED <<gate, lock, intent, order, passed, recent, fills, booked,
                   venueVars, actorVars>>

\* The checks confirm_order makes before it asks for the mandate lock.  An
\* existing order is returned, and any other status is an error.
confirm_order_check(h, i, admin) ==
    /\ confirmer[h].pc = "idle"
    /\ order[i].status = "none"
    /\ intent[i].status = "PENDING"
    /\ i \notin lapsed
    /\ intent[i].source # "strategy"
    /\ intent[i].source = "admin" => admin
    /\ confirmer' = [confirmer EXCEPT ![h] = [pc |-> "want_lock", intent |-> i]]
    /\ UNCHANGED <<gate, lock, dbVars, venueVars, canceler, syncer>>

confirm_order_expired(i) ==
    /\ order[i].status = "none"
    /\ intent[i].status = "PENDING"
    /\ i \in lapsed
    /\ intent' = [intent EXCEPT ![i].status = "EXPIRED"]
    /\ UNCHANGED <<gate, lock, lapsed, order, passed, recent, fills, booked,
                   venueVars, actorVars>>

confirm_order_lock(h) ==
    /\ confirmer[h].pc = "want_lock"
    /\ LockMandate(h)
    /\ confirmer' = [confirmer EXCEPT ![h].pc = "locked"]
    /\ UNCHANGED <<gate, dbVars, venueVars, canceler, syncer>>

\* OrderRejected by the gate: the session closes without a trace.
confirm_order_gate_blocked(h) ==
    /\ confirmer[h].pc = "locked"
    /\ ~Admits
    /\ UnlockMandate(h)
    /\ confirmer' = [confirmer EXCEPT ![h] = ConfirmIdle]
    /\ UNCHANGED <<gate, dbVars, venueVars, canceler, syncer>>

\* The risk engine rejects for the order frequency, or for a balance, price or
\* limit that this model leaves open; the intent it was asked about is closed.
confirm_order_risk_rejected(h) ==
    /\ confirmer[h].pc = "locked"
    /\ Admits
    /\ intent' = [intent EXCEPT ![confirmer[h].intent].status = "REJECTED"]
    /\ UnlockMandate(h)
    /\ confirmer' = [confirmer EXCEPT ![h] = ConfirmIdle]
    /\ UNCHANGED <<gate, lapsed, order, passed, recent, fills, booked, venueVars,
                   canceler, syncer>>

confirm_order_risk_passed_ignores_frequency(h) ==
    /\ confirmer[h].pc = "locked"
    /\ Admits
    /\ confirmer' = [confirmer EXCEPT ![h].pc = "passed"]
    /\ UNCHANGED <<gate, lock, dbVars, venueVars, canceler, syncer>>

confirm_order_risk_passed(h) ==
    /\ confirmer[h].pc = "locked"
    /\ Admits
    /\ ~recent
    /\ confirmer' = [confirmer EXCEPT ![h].pc = "passed"]
    /\ UNCHANGED <<gate, lock, dbVars, venueVars, canceler, syncer>>

\* The idempotency key already has an order: roll back and return it.
confirm_order_duplicate(h) ==
    /\ confirmer[h].pc = "passed"
    /\ order[confirmer[h].intent].status # "none"
    /\ UnlockMandate(h)
    /\ confirmer' = [confirmer EXCEPT ![h] = ConfirmIdle]
    /\ UNCHANGED <<gate, dbVars, venueVars, canceler, syncer>>

confirm_order_commit_without_key_check(h) ==
    LET i == confirmer[h].intent IN
    /\ confirmer[h].pc = "passed"
    /\ intent' = [intent EXCEPT ![i].status = "APPROVED"]
    /\ order' = [order EXCEPT ![i].status = "pending"]
    /\ passed' = passed \cup {i}
    /\ recent' = TRUE
    /\ UnlockMandate(h)
    /\ confirmer' = [confirmer EXCEPT ![h].pc = "submit"]
    /\ UNCHANGED <<gate, lapsed, fills, booked, venueVars, canceler, syncer>>

confirm_order_commit_after_submit(h) ==
    LET i == confirmer[h].intent IN
    /\ confirmer[h].pc = "passed"
    /\ order[i].status = "none"
    /\ UnlockMandate(h)
    /\ confirmer' = [confirmer EXCEPT ![h].pc = "submit"]
    /\ UNCHANGED <<gate, dbVars, venueVars, canceler, syncer>>

\* RiskCheck, APPROVED intent and PENDING order in one commit, which also
\* drops the row lock, before the exchange is called.
confirm_order_commit(h) ==
    LET i == confirmer[h].intent IN
    /\ confirmer[h].pc = "passed"
    /\ order[i].status = "none"
    /\ intent' = [intent EXCEPT ![i].status = "APPROVED"]
    /\ order' = [order EXCEPT ![i].status = "pending"]
    /\ passed' = passed \cup {i}
    /\ recent' = TRUE
    /\ UnlockMandate(h)
    /\ confirmer' = [confirmer EXCEPT ![h].pc = "submit"]
    /\ UNCHANGED <<gate, lapsed, fills, booked, venueVars, canceler, syncer>>

order_frequency_elapses ==
    /\ recent
    /\ recent' = FALSE
    /\ UNCHANGED <<gate, lock, intent, lapsed, order, passed, fills, booked,
                   venueVars, actorVars>>

-----------------------------------------------------------------------------
(* Submitting: confirm_order calls the gateway with no lock held *)

\* The answer to the submission is written over whatever the row holds by now.
FinishConfirm(h, status) ==
    /\ order' = [order EXCEPT ![confirmer[h].intent].status = status]
    /\ confirmer' = [confirmer EXCEPT ![h] = ConfirmIdle]
    /\ UNCHANGED <<gate, lock, intent, lapsed, passed, recent, fills, booked,
                   venueVars, canceler, syncer>>

\* The gateway loads the credentials, unless the connection is revoked by now,
\* and then asks the exchange for the permissions of the key.
submit_order_credentials(h) ==
    /\ confirmer[h].pc = "submit"
    /\ ~revoked
    /\ confirmer' = [confirmer EXCEPT ![h].pc = "verify"]
    /\ UNCHANGED <<gate, lock, dbVars, venueVars, canceler, syncer>>

\* GatewayUnavailable: no usable credentials, or unsafe key permissions.
submit_order_unavailable(h) ==
    /\ confirmer[h].pc \in {"submit", "verify"}
    /\ FinishConfirm(h, "rejected")

submit_order_post(h) ==
    LET i == confirmer[h].intent IN
    /\ confirmer[h].pc = "verify"
    /\ wire' = [wire EXCEPT ![i] = "in_flight"]
    /\ sent' = [sent EXCEPT ![i] = @ + 1]
    /\ confirmer' = [confirmer EXCEPT ![h].pc = "await"]
    /\ UNCHANGED <<gate, lock, dbVars, venue, canceler, syncer>>

\* is_reject looks at the code of an error and not at its HTTP status: a 5xx
\* answer whose body carries a -1xxx to -3xxx code is a rejection like a 4xx.
Recorded(answer) == IF answer = "server_error" THEN "rejected" ELSE answer

\* The ack carries no fills: _map_order drops the trades of a FULL response.
submit_order_ack(h) ==
    /\ confirmer[h].pc = "await"
    /\ wire[confirmer[h].intent] \in LiveOrderStatus \cup {"server_error"}
    /\ FinishConfirm(h, Recorded(wire[confirmer[h].intent]))

submit_order_unknown_as_rejected(h) ==
    /\ confirmer[h].pc \in {"verify", "await"}
    /\ FinishConfirm(h, "rejected")

\* GatewayOrderUnknown: a timeout, a transport failure or an uncoded 5xx, of
\* the submission or of the permission check before it.
submit_order_unknown(h) ==
    /\ confirmer[h].pc \in {"verify", "await"}
    /\ FinishConfirm(h, "unknown")

\* The process dies, or an exception that is no GatewayError escapes: the
\* session rolls back and drops the lock.
confirm_order_dies(h) ==
    /\ confirmer[h].pc # "idle"
    /\ lock' = IF lock = h THEN Unlocked ELSE lock
    /\ confirmer' = [confirmer EXCEPT ![h] = ConfirmIdle]
    /\ UNCHANGED <<gate, dbVars, venueVars, canceler, syncer>>

-----------------------------------------------------------------------------
(* The venue (external) *)

venue_refuses(i) ==
    /\ wire[i] = "in_flight"
    /\ \E answer \in {"rejected", "server_error"} : wire' = [wire EXCEPT ![i] = answer]
    /\ UNCHANGED <<gate, lock, dbVars, sent, venue, actorVars>>

\* The order enters the book with some of it executed.  The answer is lost, says
\* what the venue did, or is a 5xx with a code, which leaves that open.
venue_accepts(i, state, n) ==
    /\ wire[i] = "in_flight"
    /\ state = "filled" <=> n = Quantity
    /\ venue' = [venue EXCEPT ![i] = [state |-> state, executed |-> n]]
    /\ \E answer \in {ORDER_STATE_MAP([state |-> state, executed |-> n]), "lost",
                      "server_error"} :
          wire' = [wire EXCEPT ![i] = answer]
    /\ UNCHANGED <<gate, lock, dbVars, sent, actorVars>>

request_lost(i) ==
    /\ wire[i] = "in_flight"
    /\ wire' = [wire EXCEPT ![i] = "lost"]
    /\ UNCHANGED <<gate, lock, dbVars, sent, venue, actorVars>>

venue_executes(i) ==
    /\ venue[i].state = "open"
    /\ LET n == venue[i].executed + 1 IN
       venue' = [venue EXCEPT ![i] =
                   [state |-> IF n = Quantity THEN "filled" ELSE "open", executed |-> n]]
    /\ UNCHANGED <<gate, lock, dbVars, wire, sent, actorVars>>

venue_expires(i) ==
    /\ venue[i].state = "open"
    /\ venue' = [venue EXCEPT ![i].state = "expired"]
    /\ UNCHANGED <<gate, lock, dbVars, wire, sent, actorVars>>

-----------------------------------------------------------------------------
(* Background status sync *)

SyncIdle == [pc |-> "idle", intent |-> NoIntent, status |-> "none", filled |-> 0,
             found |-> "none"]

SyncDone(s) == [syncer EXCEPT ![s] = SyncIdle]

sync_order_status_load_skips_unknown(s, i) ==
    /\ syncer[s].pc = "idle"
    /\ order[i].status \in OpenStatuses \ {"unknown"}
    /\ syncer' = [syncer EXCEPT ![s] = [pc |-> "query", intent |-> i,
                                        status |-> order[i].status,
                                        filled |-> order[i].filled,
                                        found |-> "none"]]
    /\ UNCHANGED <<gate, lock, dbVars, venueVars, confirmer, canceler>>

sync_order_status_load_skips_partial(s, i) ==
    /\ syncer[s].pc = "idle"
    /\ order[i].status \in OpenStatuses \ {"partially_filled"}
    /\ syncer' = [syncer EXCEPT ![s] = [pc |-> "query", intent |-> i,
                                        status |-> order[i].status,
                                        filled |-> order[i].filled,
                                        found |-> "none"]]
    /\ UNCHANGED <<gate, lock, dbVars, venueVars, confirmer, canceler>>

sync_order_status_load(s, i) ==
    /\ syncer[s].pc = "idle"
    /\ order[i].status \in OpenStatuses
    /\ syncer' = [syncer EXCEPT ![s] = [pc |-> "query", intent |-> i,
                                        status |-> order[i].status,
                                        filled |-> order[i].filled,
                                        found |-> "none"]]
    /\ UNCHANGED <<gate, lock, dbVars, venueVars, confirmer, canceler>>

\* query_order finds the order; its trades are asked for next.
query_order_found(s) ==
    LET i == syncer[s].intent IN
    /\ syncer[s].pc = "query"
    /\ ~revoked
    /\ venue[i].state # "absent"
    /\ syncer' = [syncer EXCEPT ![s].pc = "fills",
                                ![s].found = ORDER_STATE_MAP(venue[i])]
    /\ UNCHANGED <<gate, lock, dbVars, venueVars, confirmer, canceler>>

\* -2013, the venue does not know the order: reported as canceled.
query_order_not_found(s) ==
    LET i == syncer[s].intent IN
    /\ syncer[s].pc = "query"
    /\ ~revoked
    /\ venue[i].state = "absent"
    /\ syncer' = [syncer EXCEPT ![s].pc = "missing", ![s].found = "canceled"]
    /\ UNCHANGED <<gate, lock, dbVars, venueVars, confirmer, canceler>>

\* How many trades of the order the venue lists: up to all of them, and none when
\* the request for them fails.
_order_fills(i) == 0..venue[i].executed

_apply_fills_without_dedupe(s, trades) ==
    LET i == syncer[s].intent
        filled == syncer[s].filled + trades
        status == IF trades = 0 THEN syncer[s].found
                  ELSE IF filled >= Quantity THEN "filled" ELSE "partially_filled"
    IN
    /\ syncer[s].pc = "fills" /\ trades \in _order_fills(i)
    /\ fills' = [fills EXCEPT ![i] = @ \cup 1..trades]
    /\ booked' = [booked EXCEPT ![i] = @ + trades]
    /\ order' = [order EXCEPT ![i] = [status |-> status, filled |-> filled]]
    /\ syncer' = SyncDone(s)
    /\ UNCHANGED <<gate, lock, intent, lapsed, passed, recent, venueVars,
                   confirmer, canceler>>

\* Known trade ids are skipped, and every new one adds a Fill row, a ledger entry,
\* and its quantity to the loaded filled_quantity.
_apply_fills(s, trades) ==
    LET i == syncer[s].intent
        new == (1..trades) \ fills[i]
        filled == syncer[s].filled + Cardinality(new)
        status == IF new = {} THEN syncer[s].found
                  ELSE IF filled >= Quantity THEN "filled" ELSE "partially_filled"
    IN
    /\ \/ syncer[s].pc = "fills" /\ trades \in _order_fills(i)
       \/ syncer[s].pc = "missing" /\ trades = 0
    /\ fills' = [fills EXCEPT ![i] = @ \cup new]
    /\ booked' = [booked EXCEPT ![i] = @ + Cardinality(new)]
    /\ order' = [order EXCEPT ![i] =
                   [status |-> WriteBack(syncer[s].status, status, @.status),
                    filled |-> WriteBack(syncer[s].filled, filled, @.filled)]]
    /\ syncer' = SyncDone(s)
    /\ UNCHANGED <<gate, lock, intent, lapsed, passed, recent, venueVars,
                   confirmer, canceler>>

\* A gateway error keeps the state; any other one rolls back; or a crash.
sync_order_status_fails(s) ==
    /\ syncer[s].pc # "idle"
    /\ syncer' = SyncDone(s)
    /\ UNCHANGED <<gate, lock, dbVars, venueVars, confirmer, canceler>>

-----------------------------------------------------------------------------
(* Cancel: allowed whatever the gate says *)

CancelIdle == [pc |-> "idle", intent |-> NoIntent, status |-> "none"]

CancelDone(c) == [canceler EXCEPT ![c] = CancelIdle]

cancel_order_load(c, i) ==
    /\ canceler[c].pc = "idle"
    /\ order[i].status \in OpenStatuses
    /\ canceler' = [canceler EXCEPT ![c] = [pc |-> "cancel", intent |-> i,
                                            status |-> order[i].status]]
    /\ UNCHANGED <<gate, lock, dbVars, venueVars, confirmer, syncer>>

\* An order the venue does not have open is a -2011, reported as canceled too.
cancel_order_venue(c) ==
    LET i == canceler[c].intent IN
    /\ canceler[c].pc = "cancel"
    /\ ~revoked
    /\ venue' = [venue EXCEPT ![i].state = IF @ = "open" THEN "canceled" ELSE @]
    /\ canceler' = [canceler EXCEPT ![c].pc = "answered"]
    /\ UNCHANGED <<gate, lock, dbVars, wire, sent, confirmer, syncer>>

cancel_order_commit(c) ==
    LET i == canceler[c].intent IN
    /\ canceler[c].pc = "answered"
    /\ order' = [order EXCEPT ![i].status = WriteBack(canceler[c].status, "canceled", @)]
    /\ canceler' = CancelDone(c)
    /\ UNCHANGED <<gate, lock, intent, lapsed, passed, recent, fills, booked,
                   venueVars, confirmer, syncer>>

\* CANCEL_UNKNOWN keeps the status, whether or not the venue got the request.
cancel_order_fails(c) ==
    /\ canceler[c].pc # "idle"
    /\ canceler' = CancelDone(c)
    /\ UNCHANGED <<gate, lock, dbVars, venueVars, confirmer, syncer>>

-----------------------------------------------------------------------------

Init ==
    /\ AdmissionInit
    /\ intent = [i \in Intents |-> [status |-> "none", source |-> "user_confirmed"]]
    /\ lapsed = {}
    /\ order = [i \in Intents |-> [status |-> "none", filled |-> 0]]
    /\ passed = {}
    /\ recent = FALSE
    /\ fills = [i \in Intents |-> {}]
    /\ booked = [i \in Intents |-> 0]
    /\ wire = [i \in Intents |-> "none"]
    /\ sent = [i \in Intents |-> 0]
    /\ venue = [i \in Intents |-> [state |-> "absent", executed |-> 0]]
    /\ confirmer = [h \in Confirmers |-> ConfirmIdle]
    /\ canceler = [c \in Cancelers |-> CancelIdle]
    /\ syncer = [s \in Syncers |-> SyncIdle]

Gate == GateWrite /\ UNCHANGED <<lock, dbVars, venueVars, actorVars>>

ConfirmStep(h) ==
    \/ \E i \in Intents, admin \in BOOLEAN : confirm_order_check(h, i, admin)
    \/ confirm_order_lock(h)
    \/ confirm_order_gate_blocked(h)
    \/ confirm_order_risk_rejected(h)
    \/ confirm_order_risk_passed(h)
    \/ confirm_order_duplicate(h)
    \/ confirm_order_commit(h)
    \/ submit_order_credentials(h)
    \/ submit_order_unavailable(h)
    \/ submit_order_post(h)
    \/ submit_order_ack(h)
    \/ submit_order_unknown(h)
    \/ confirm_order_dies(h)

VenueStep(i) ==
    \/ venue_refuses(i)
    \/ \E state \in {"open", "filled", "expired"}, n \in 0..Quantity :
          venue_accepts(i, state, n)
    \/ request_lost(i)
    \/ venue_executes(i)
    \/ venue_expires(i)

SyncStep(s) ==
    \/ \E i \in Intents : sync_order_status_load(s, i)
    \/ query_order_found(s)
    \/ query_order_not_found(s)
    \/ \E trades \in 0..Quantity : _apply_fills(s, trades)
    \/ sync_order_status_fails(s)

CancelStep(c) ==
    \/ \E i \in Intents : cancel_order_load(c, i)
    \/ cancel_order_venue(c)
    \/ cancel_order_commit(c)
    \/ cancel_order_fails(c)

Next ==
    \/ Gate
    \/ \E i \in Intents, source \in Sources : preview_order(i, source)
    \/ \E i \in Intents : confirmation_window_ends(i) \/ confirm_order_expired(i)
    \/ order_frequency_elapses
    \/ \E h \in Confirmers : ConfirmStep(h)
    \/ \E i \in Intents : VenueStep(i)
    \/ \E s \in Syncers : SyncStep(s)
    \/ \E c \in Cancelers : CancelStep(c)

Spec == Init /\ [][Next]_vars

\* The scheduler enqueues the status sync every few seconds for ever, and a
\* venue that is queried again and again does answer in the end.
SyncFairness ==
    \A s \in Syncers :
        /\ \A i \in Intents : SF_vars(sync_order_status_load(s, i))
        /\ SF_vars(query_order_found(s))
        /\ SF_vars(query_order_not_found(s))
        /\ SF_vars(\E trades \in 0..Quantity : _apply_fills(s, trades))

FairSpec == Spec /\ SyncFairness

-----------------------------------------------------------------------------
(* Properties *)

RowTypes ==
    /\ paused \in BOOLEAN /\ blocked \in BOOLEAN /\ revoked \in BOOLEAN
    /\ lock \in Confirmers \cup {Unlocked}
    /\ intent \in [Intents -> [status : IntentStatus, source : OrderSource]]
    /\ lapsed \in SUBSET Intents
    /\ order \in [Intents -> [status : LiveOrderStatus \cup {"none"}, filled : Nat]]
    /\ passed \in SUBSET Intents
    /\ recent \in BOOLEAN
    /\ fills \in [Intents -> SUBSET (1..Quantity)]
    /\ booked \in [Intents -> Nat]

VenueTypes ==
    /\ wire \in [Intents -> WireStates]
    /\ sent \in [Intents -> Nat]
    /\ venue \in [Intents -> [state : VenueStates, executed : 0..Quantity]]

ConfirmerState ==
    [pc : {"idle", "want_lock", "locked", "passed", "submit", "verify", "await"},
     intent : Intents \cup {NoIntent}]

CancelerState ==
    [pc : {"idle", "cancel", "answered"}, intent : Intents \cup {NoIntent},
     status : LiveOrderStatus \cup {"none"}]

SyncerState ==
    [pc : {"idle", "query", "fills", "missing"}, intent : Intents \cup {NoIntent},
     status : LiveOrderStatus \cup {"none"}, filled : Nat,
     found : LiveOrderStatus \cup {"none"}]

ActorTypes ==
    /\ confirmer \in [Confirmers -> ConfirmerState]
    /\ canceler \in [Cancelers -> CancelerState]
    /\ syncer \in [Syncers -> SyncerState]

\* Every row, every message and every actor stays within its values.
TypeOK == RowTypes /\ VenueTypes /\ ActorTypes

\* One confirmation, however often and however concurrently it is repeated and
\* wherever a request dies, is POSTed to the exchange at most once: an UNKNOWN
\* order is queried and never submitted again (confirm_order, sync_order_status).
SubmittedAtMostOnce == \A i \in Intents : sent[i] <= 1

\* Whatever is sent to the exchange has its order row and its PASS RiskCheck
\* committed beforehand, so that a crash cannot leave an order nobody knows of,
\* and a strategy's suggestion is never sent at all (confirm_order).
OnlyJournaledOrdersSent ==
    \A i \in Intents : sent[i] > 0 =>
        order[i].status # "none" /\ i \in passed /\ intent[i].source # "strategy"

\* However syncs overlap, a trade is booked once and only if the exchange
\* executed it, and filled_quantity never claims more than is booked
\* (_apply_fill, post_entry).
NeverOverbooked ==
    \A i \in Intents :
        /\ fills[i] \subseteq 1..venue[i].executed
        /\ booked[i] = Cardinality(fills[i])
        /\ order[i].filled <= booked[i]

\* A rejection is never a guess: an order is recorded as rejected only if it was
\* never POSTed, and then never will be, or if the exchange answered its POST with
\* an error code; a timeout, a lost answer, a crash, a sync or a cancellation does
\* not reject it.  Unless that answer was a 5xx, the order is not on the exchange
\* and will not get there (confirm_order, submit_order).
RejectedByAnswer ==
    \A i \in Intents : order[i].status = "rejected" =>
        /\ wire[i] \in {"none", "rejected", "server_error"}
        /\ wire[i] = "server_error" \/ venue[i].state = "absent"

\* The row lock makes the gate check and the commit one: no order row is created
\* for a mandate that is paused by then (confirm_order, pause_mandate).
NoOrderWhilePaused ==
    [][\A i \in Intents :
          (order[i].status = "none" /\ order'[i].status # "none") => ~paused]_vars

\* Confirmations of different orders that race on one mandate still respect its
\* order frequency: no order is created while the last one is too recent, although
\* the check reads the orders and the new row is written later (RiskEngine.evaluate).
OrderFrequencyKept ==
    [][\A i \in Intents :
          (order[i].status = "none" /\ order'[i].status # "none") => ~recent]_vars

\* The requests that have committed an order and may still POST it.
Submitting == {"submit", "verify", "await"}

Carried(i) == \E h \in Confirmers : confirmer[h].pc \in Submitting /\ confirmer[h].intent = i

PhaseOf(i) ==
    CASE order[i].status = "none" -> "intended"
      [] order[i].status # "none" /\ sent[i] = 0 /\ Carried(i) -> "journaled"
      [] order[i].status # "none" /\ wire[i] = "in_flight" -> "sent"
      [] venue[i].state = "open" -> "live"
      [] venue[i].state \in {"filled", "canceled", "expired"} -> "over"
      [] OTHER -> "void"

Lifecycle == INSTANCE OrderLifecycle WITH
    phase <- [i \in Intents |-> PhaseOf(i)],
    executed <- [i \in Intents |-> venue[i].executed]

\* However requests, syncs and cancellations overlap and wherever they die, each order
\* goes through the life OrderLifecycle describes: it is created unpaused and in time,
\* has one chance to reach the exchange, and is booked behind its execution.
ImplementsLifecycle == Lifecycle!LifecycleSpec

\* An UNKNOWN order does not stay UNKNOWN: the sync resolves it, unless the
\* connection is revoked and the venue cannot be asked (sync_order_status).
UnknownResolves ==
    \A i \in Intents :
        order[i].status = "unknown" ~> order[i].status # "unknown" \/ revoked

\* An order that is over on the exchange is over in the database as well, in the
\* end, unless the connection is revoked (sync_order_status).
SettledOrdersSettle ==
    \A i \in Intents :
        venue[i].state \in {"filled", "canceled", "expired"}
            ~> order[i].status \in TERMINAL_ORDER_STATUSES \/ revoked

-----------------------------------------------------------------------------
(* What the documentation says and the code does not do *)

\* docs/live-trading/FIRST_ORDER_VERIFICATION.md: an order that is FILLED has its
\* Fill rows, and with them its ledger entries.
FilledIsBooked ==
    \A i \in Intents : order[i].status = "filled" => fills[i] = 1..Quantity

\* "already gone" (cancel_order) and "order does not exist on the venue"
\* (query_order): an order recorded as canceled is not open on the exchange.
CanceledIsGone ==
    \A i \in Intents : order[i].status = "canceled" => venue[i].state # "open"

\* binance_spot_gateway.py: "transport failures, timeouts and 5xx responses raise
\* and become UNKNOWN upstream", so an order recorded as rejected is not on the
\* exchange.
RejectedNeverLive ==
    \A i \in Intents : order[i].status = "rejected" => venue[i].state = "absent"

\* docs/live-trading/API.md: confirming an intent again returns its order, and
\* does nothing to the intent.
RepeatedConfirmIsHarmless ==
    \A i \in Intents : order[i].status # "none" => intent[i].status = "APPROVED"

\* docs/live-trading/ARCHITECTURE.md: pause and submit of one mandate are
\* serialised, so no order leaves for the exchange after a pause.
PauseSerialisedWithSubmit ==
    [][\A i \in Intents : sent'[i] > sent[i] => ~paused]_vars

=============================================================================
