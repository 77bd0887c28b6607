--------------------------- MODULE LiveOrdersProofs ---------------------------
(***************************************************************************)
(* The safety of the order pipeline, for any number of orders, concurrent  *)
(* requests and sync workers, and any order quantity.                      *)
(*                                                                         *)
(* The argument rests on two layers: TypeInv (types, and an actor that is  *)
(* busy has an order to work on) and JournalInv (who may POST an order,    *)
(* and what is committed by then).  WireInv, RejectInv and BookInv add     *)
(* what the rows say about the exchange: only one request ever posts an    *)
(* order, so a rejection it writes is the last word, and no more is booked *)
(* than was executed.                                                      *)
(***************************************************************************)
EXTENDS LiveOrders, FiniteSetTheorems, TLAPS

\* The three ways an answer, or the lack of one, ends a submission.
LEMMA SubmissionEnds ==
    ASSUME NEW h \in Confirmers,
           submit_order_unavailable(h) \/ submit_order_ack(h) \/ submit_order_unknown(h)
    PROVE  /\ confirmer[h].pc \in Submitting
           /\ \E status \in LiveOrderStatus : FinishConfirm(h, status)
  <1>1. CASE submit_order_unavailable(h) \/ submit_order_unknown(h)
    BY <1>1 DEF submit_order_unavailable, submit_order_unknown, Submitting,
                LiveOrderStatus, TERMINAL_ORDER_STATUSES, OpenStatuses
  <1>2. CASE submit_order_ack(h)
    <2> DEFINE answer == wire[confirmer[h].intent]
    <2>1. answer \in LiveOrderStatus \cup {"server_error"}
      BY <1>2 DEF submit_order_ack
    <2>2. Recorded(answer) \in LiveOrderStatus
      BY <2>1 DEF Recorded, LiveOrderStatus, TERMINAL_ORDER_STATUSES
    <2> QED
      BY <1>2, <2>2 DEF submit_order_ack, Submitting
  <1> QED
    BY <1>1, <1>2

\* An actor in the middle of an operation works on an intent; a sync or a cancel
\* has loaded its row, and a status that was queried is one of an order.
BusyActors ==
    /\ \A h \in Confirmers : confirmer[h].pc # "idle" => confirmer[h].intent \in Intents
    /\ \A s \in Syncers : syncer[s].pc # "idle" =>
          /\ syncer[s].intent \in Intents
          /\ order[syncer[s].intent].status # "none"
          /\ syncer[s].pc \in {"fills", "missing"} =>
                syncer[s].found \in LiveOrderStatus \ {"rejected"}
    /\ \A c \in Cancelers : canceler[c].pc # "idle" =>
          /\ canceler[c].intent \in Intents
          /\ order[canceler[c].intent].status # "none"

\* An order that is open on the exchange has something left to execute.
OpenHasRest == \A i \in Intents : venue[i].state = "open" => venue[i].executed < Quantity

TypeInv == TypeOK /\ BusyActors /\ OpenHasRest

\* A confirmation past the lock holds it, and under it the mandate it found
\* admissible is neither paused nor given another order.
LockInv ==
    \A h \in Confirmers :
        /\ confirmer[h].pc \in {"locked", "passed"} => lock = h
        /\ confirmer[h].pc = "passed" => ~paused /\ ~recent

\* A confirmation never carries a strategy's suggestion, and one that submits has
\* its order and its RiskCheck committed, has sent nothing before it posts, and
\* is the only one that submits this order.
SubmitInv ==
    \A h \in Confirmers :
        LET i == confirmer[h].intent IN
        /\ confirmer[h].pc # "idle" =>
              intent[i].status # "none" /\ intent[i].source # "strategy"
        /\ confirmer[h].pc \in Submitting =>
              /\ order[i].status # "none"
              /\ i \in passed
              /\ \A g \in Confirmers :
                    confirmer[g].pc \in Submitting /\ confirmer[g].intent = i => g = h
        /\ confirmer[h].pc \in {"submit", "verify"} => sent[i] = 0

SentInv ==
    \A i \in Intents :
        /\ sent[i] \in {0, 1}
        /\ sent[i] = 1 => /\ order[i].status # "none" /\ i \in passed
                          /\ intent[i].status # "none" /\ intent[i].source # "strategy"

JournalInv == LockInv /\ SubmitInv /\ SentInv

-----------------------------------------------------------------------------
(* Facts about the operators *)

\* Whatever the exchange reports about an order it has maps to an order status,
\* and never to a rejection.
LEMMA ORDER_STATE_MAP_Range ==
    ASSUME NEW v \in [state : VenueStates, executed : 0..Quantity], v.state # "absent"
    PROVE  /\ ORDER_STATE_MAP(v) \in LiveOrderStatus \ {"rejected"}
           /\ v.state # "canceled" => ORDER_STATE_MAP(v) \in WireStates
  BY DEF ORDER_STATE_MAP, LiveOrderStatus, TERMINAL_ORDER_STATUSES, OpenStatuses,
         VenueStates, WireStates

\* The new trades of a report are finitely many, and disjoint from the known ones.
LEMMA NewTrades ==
    ASSUME NEW trades \in Nat, NEW known
    PROVE  /\ IsFiniteSet((1..trades) \ known)
           /\ Cardinality((1..trades) \ known) \in Nat
  <1>1. IsFiniteSet(1..trades)
    BY FS_Interval
  <1>2. IsFiniteSet((1..trades) \ known)
    BY <1>1, FS_Difference
  <1> QED
    BY <1>2, FS_CardinalityType

-----------------------------------------------------------------------------
(* Types *)

\* The initial rows and actors are well typed.
LEMMA TypeInvInit == Init => TypeInv
  <1> SUFFICES ASSUME Init PROVE TypeInv
    OBVIOUS
  <1> USE OrderConstants DEF Init, AdmissionInit, OrderConstants
  <1>1. RowTypes
    BY DEF RowTypes, IntentStatus, OrderSource
  <1>2. VenueTypes
    BY DEF VenueTypes, VenueStates, WireStates
  <1>3. ActorTypes
    BY DEF ActorTypes, ConfirmerState, CancelerState, SyncerState, ConfirmIdle,
           CancelIdle, SyncIdle
  <1>4. BusyActors
    BY DEF BusyActors, ConfirmIdle, CancelIdle, SyncIdle
  <1>5. OpenHasRest
    BY DEF OpenHasRest
  <1> QED
    BY <1>1, <1>2, <1>3, <1>4, <1>5 DEF TypeInv, TypeOK

\* An order row that exists stays.
OrdersStay == \A i \in Intents : order[i].status # "none" => order'[i].status # "none"

\* A request's own state stays well typed when it moves on to another program
\* counter, and when it takes up an order or drops it.
LEMMA ConfirmerMoves ==
    ASSUME ActorTypes, BusyActors, NEW h \in Confirmers,
           NEW st \in ConfirmerState, st.pc # "idle" => st.intent \in Intents,
           confirmer' = [confirmer EXCEPT ![h] = st],
           UNCHANGED <<canceler, syncer>>, OrdersStay
    PROVE  ActorTypes' /\ BusyActors'
  <1>1. ActorTypes'
    BY DEF ActorTypes
  <1>2. BusyActors'
    BY DEF ActorTypes, BusyActors, OrdersStay, SyncerState, CancelerState
  <1> QED
    BY <1>1, <1>2

\* A new program counter leaves the order a request works on alone.
LEMMA NewPc ==
    ASSUME ActorTypes, BusyActors, NEW h \in Confirmers, NEW pc,
           pc \in {"locked", "passed", "submit", "verify", "await"},
           confirmer[h].pc # "idle",
           confirmer' = [confirmer EXCEPT ![h].pc = pc],
           UNCHANGED <<canceler, syncer>>, OrdersStay
    PROVE  ActorTypes' /\ BusyActors'
  <1> DEFINE st == [pc |-> pc, intent |-> confirmer[h].intent]
  <1>1. confirmer[h] \in ConfirmerState /\ confirmer[h].intent \in Intents
    BY DEF ActorTypes, BusyActors
  <1>2. [confirmer[h] EXCEPT !.pc = pc] = st
    BY <1>1 DEF ConfirmerState
  <1>3. confirmer' = [confirmer EXCEPT ![h] = st]
    BY <1>2 DEF ActorTypes
  <1>4. st \in ConfirmerState /\ st.intent \in Intents
    BY <1>1 DEF ConfirmerState
  <1> HIDE DEF st
  <1> QED
    BY <1>3, <1>4, ConfirmerMoves

\* A step of a confirmation keeps the types.
LEMMA TypeInvConfirm ==
    ASSUME TypeInv, NEW h \in Confirmers, ConfirmStep(h)
    PROVE  TypeInv'
  <1> USE DEF TypeInv, TypeOK, gate, dbVars, venueVars
  <1>b. OpenHasRest'
    <2>1. UNCHANGED venue
      BY DEF ConfirmStep, confirm_order_check, confirm_order_lock,
             confirm_order_gate_blocked, confirm_order_risk_rejected,
             confirm_order_risk_passed, confirm_order_duplicate, confirm_order_commit,
             submit_order_credentials, submit_order_unavailable, submit_order_post,
             submit_order_ack, submit_order_unknown, confirm_order_dies, FinishConfirm
    <2> QED
      BY <2>1 DEF OpenHasRest
  <1>a. ConfirmIdle \in ConfirmerState /\ ConfirmIdle.pc = "idle"
    BY DEF ConfirmIdle, ConfirmerState
  <1>1. ASSUME NEW i \in Intents, NEW admin \in BOOLEAN, confirm_order_check(h, i, admin)
        PROVE  TypeInv'
    <2>1. [pc |-> "want_lock", intent |-> i] \in ConfirmerState
      BY DEF ConfirmerState
    <2>2. OrdersStay /\ RowTypes' /\ VenueTypes'
      BY <1>1 DEF confirm_order_check, OrdersStay, RowTypes, VenueTypes
    <2> QED
      BY <1>1, <1>b, <2>1, <2>2, ConfirmerMoves DEF confirm_order_check
  <1>2. CASE confirm_order_lock(h)
    <2>1. OrdersStay /\ RowTypes' /\ VenueTypes'
      BY <1>2 DEF confirm_order_lock, LockMandate, OrdersStay, RowTypes, VenueTypes
    <2> QED
      BY <1>2, <1>b, <2>1, NewPc DEF confirm_order_lock
  <1>3. CASE confirm_order_gate_blocked(h) \/ confirm_order_duplicate(h)
    <2>1. OrdersStay /\ RowTypes' /\ VenueTypes'
      BY <1>3 DEF confirm_order_gate_blocked, confirm_order_duplicate, UnlockMandate,
                  OrdersStay, RowTypes, VenueTypes
    <2> QED
      BY <1>3, <1>b, <1>a, <2>1, ConfirmerMoves
      DEF confirm_order_gate_blocked, confirm_order_duplicate
  <1>4. CASE confirm_order_risk_rejected(h)
    <2>1. intent' \in [Intents -> [status : IntentStatus, source : OrderSource]]
      <3>1. intent \in [Intents -> [status : IntentStatus, source : OrderSource]]
        BY DEF RowTypes
      <3>2. intent' = [intent EXCEPT ![confirmer[h].intent].status = "REJECTED"]
        BY <1>4 DEF confirm_order_risk_rejected
      <3>3. "REJECTED" \in IntentStatus
        BY DEF IntentStatus
      <3> HIDE DEF TypeInv, TypeOK
      <3> QED
        BY <3>1, <3>2, <3>3
    <2>2. OrdersStay /\ RowTypes' /\ VenueTypes'
      BY <1>4, <2>1 DEF confirm_order_risk_rejected, UnlockMandate, OrdersStay, RowTypes,
                        VenueTypes
    <2> QED
      BY <1>4, <1>b, <1>a, <2>2, ConfirmerMoves DEF confirm_order_risk_rejected
  <1>5. CASE confirm_order_risk_passed(h) \/ submit_order_credentials(h)
    <2>1. OrdersStay /\ RowTypes' /\ VenueTypes'
      BY <1>5 DEF confirm_order_risk_passed, submit_order_credentials, OrdersStay,
                  RowTypes, VenueTypes
    <2> QED
      BY <1>5, <1>b, <2>1, NewPc DEF confirm_order_risk_passed, submit_order_credentials
  <1>6. CASE confirm_order_commit(h)
    <2>a. "APPROVED" \in IntentStatus /\ "pending" \in LiveOrderStatus
      BY DEF IntentStatus, LiveOrderStatus, OpenStatuses
    <2>b. intent' \in [Intents -> [status : IntentStatus, source : OrderSource]]
      <3>1. intent \in [Intents -> [status : IntentStatus, source : OrderSource]]
        BY DEF RowTypes
      <3>2. intent' = [intent EXCEPT ![confirmer[h].intent].status = "APPROVED"]
        BY <1>6 DEF confirm_order_commit
      <3> HIDE DEF TypeInv, TypeOK
      <3> QED
        BY <3>1, <3>2, <2>a
    <2>c. order' \in [Intents -> [status : LiveOrderStatus \cup {"none"}, filled : Nat]]
      <3>1. order \in [Intents -> [status : LiveOrderStatus \cup {"none"}, filled : Nat]]
        BY DEF RowTypes
      <3>2. order' = [order EXCEPT ![confirmer[h].intent].status = "pending"]
        BY <1>6 DEF confirm_order_commit
      <3> HIDE DEF TypeInv, TypeOK
      <3> QED
        BY <3>1, <3>2, <2>a
    <2>1. /\ intent' \in [Intents -> [status : IntentStatus, source : OrderSource]]
          /\ order' \in [Intents -> [status : LiveOrderStatus \cup {"none"}, filled : Nat]]
      BY <2>b, <2>c
    <2>2. passed' \in SUBSET Intents
      BY <1>6 DEF confirm_order_commit, RowTypes, BusyActors
    <2>3. OrdersStay
      BY <1>6 DEF confirm_order_commit, OrdersStay, RowTypes
    <2>4. RowTypes' /\ VenueTypes'
      BY <1>6, <2>1, <2>2 DEF confirm_order_commit, UnlockMandate, RowTypes, VenueTypes
    <2> QED
      BY <1>6, <1>b, <2>3, <2>4, NewPc DEF confirm_order_commit
  <1>7. ASSUME NEW status \in LiveOrderStatus, FinishConfirm(h, status)
        PROVE  TypeInv'
    <2>1. order' \in [Intents -> [status : LiveOrderStatus \cup {"none"}, filled : Nat]]
      BY <1>7 DEF FinishConfirm, RowTypes
    <2>2. OrdersStay
      BY <1>7 DEF FinishConfirm, OrdersStay, RowTypes, LiveOrderStatus, OpenStatuses,
                  TERMINAL_ORDER_STATUSES
    <2>3. RowTypes' /\ VenueTypes'
      BY <1>7, <2>1 DEF FinishConfirm, RowTypes, VenueTypes
    <2> QED
      BY <1>7, <1>b, <1>a, <2>2, <2>3, ConfirmerMoves DEF FinishConfirm
  <1>8. CASE submit_order_post(h)
    <2>a. wire' \in [Intents -> WireStates]
      <3>1. "in_flight" \in WireStates
        BY DEF WireStates
      <3> QED
        BY <1>8, <3>1 DEF submit_order_post, VenueTypes
    <2>b. sent' \in [Intents -> Nat]
      <3>1. confirmer[h].intent \in Intents
        BY <1>8 DEF submit_order_post, BusyActors
      <3>2. sent \in [Intents -> Nat] /\ sent[confirmer[h].intent] + 1 \in Nat
        BY <3>1 DEF VenueTypes
      <3> QED
        BY <1>8, <3>2 DEF submit_order_post
    <2>1. VenueTypes'
      BY <1>8, <2>a, <2>b DEF submit_order_post, VenueTypes
    <2>2. OrdersStay /\ RowTypes'
      BY <1>8 DEF submit_order_post, OrdersStay, RowTypes
    <2> QED
      BY <1>8, <1>b, <2>1, <2>2, NewPc DEF submit_order_post
  <1>9. CASE confirm_order_dies(h)
    <2>1. OrdersStay /\ RowTypes' /\ VenueTypes'
      BY <1>9 DEF confirm_order_dies, OrdersStay, RowTypes, VenueTypes
    <2> QED
      BY <1>9, <1>b, <1>a, <2>1, ConfirmerMoves DEF confirm_order_dies
  <1>10. CASE submit_order_unavailable(h) \/ submit_order_ack(h) \/ submit_order_unknown(h)
    BY <1>7, <1>10, SubmissionEnds DEF Submitting
  <1> QED
    BY <1>1, <1>2, <1>3, <1>4, <1>5, <1>6, <1>8, <1>9, <1>10 DEF ConfirmStep

\* A step of the exchange keeps the types.
LEMMA TypeInvVenue ==
    ASSUME TypeInv, NEW i \in Intents, VenueStep(i)
    PROVE  TypeInv'
  <1> USE OrderConstants DEF OrderConstants
  <1>1. /\ UNCHANGED <<gate, lock, dbVars, sent, actorVars>>
        /\ wire' \in [Intents -> WireStates]
        /\ venue' \in [Intents -> [state : VenueStates, executed : 0..Quantity]]
        /\ OpenHasRest'
    <2> USE DEF TypeInv, TypeOK, VenueTypes, OpenHasRest
    <2>1. CASE venue_refuses(i) \/ request_lost(i)
      BY <2>1 DEF venue_refuses, request_lost, WireStates
    <2>2. ASSUME NEW state \in {"open", "filled", "expired"}, NEW n \in 0..Quantity,
                 venue_accepts(i, state, n)
          PROVE  /\ UNCHANGED <<gate, lock, dbVars, sent, actorVars>>
                 /\ wire' \in [Intents -> WireStates]
                 /\ venue' \in [Intents -> [state : VenueStates, executed : 0..Quantity]]
                 /\ OpenHasRest'
      <3>1. ORDER_STATE_MAP([state |-> state, executed |-> n]) \in WireStates
        BY ORDER_STATE_MAP_Range DEF VenueStates
      <3>2. PICK answer \in WireStates : wire' = [wire EXCEPT ![i] = answer]
        BY <2>2, <3>1 DEF venue_accepts, WireStates
      <3>3. venue' \in [Intents -> [state : VenueStates, executed : 0..Quantity]]
        BY <2>2 DEF venue_accepts, VenueStates
      <3> QED
        BY <2>2, <3>2, <3>3 DEF venue_accepts
    <2>3. CASE venue_executes(i)
      <3> DEFINE n == venue[i].executed + 1
      <3>1. n \in 0..Quantity
        BY <2>3 DEF venue_executes, OpenHasRest
      <3> QED
        BY <2>3, <3>1 DEF venue_executes, VenueStates
    <2>4. CASE venue_expires(i)
      BY <2>4 DEF venue_expires, VenueStates
    <2> QED
      BY <2>1, <2>2, <2>3, <2>4 DEF VenueStep
  <1> QED
    BY <1>1 DEF TypeInv, TypeOK, RowTypes, VenueTypes, ActorTypes, BusyActors, gate, dbVars,
                actorVars

\* A step of a status sync keeps the types.
LEMMA TypeInvSync ==
    ASSUME TypeInv, NEW s \in Syncers, SyncStep(s)
    PROVE  TypeInv'
  <1> USE DEF gate, dbVars, venueVars
  <1>a. OpenHasRest' /\ VenueTypes'
    <2>1. UNCHANGED venueVars
      BY DEF SyncStep, sync_order_status_load, query_order_found, query_order_not_found,
             _apply_fills, sync_order_status_fails
    <2> QED
      BY <2>1 DEF TypeInv, TypeOK, OpenHasRest, VenueTypes
  <1>b. SyncIdle \in SyncerState /\ SyncIdle.pc = "idle"
    BY DEF SyncIdle, SyncerState
  <1>c. ASSUME NEW st \in SyncerState, syncer' = [syncer EXCEPT ![s] = st],
               UNCHANGED <<confirmer, canceler>>, RowTypes', OrdersStay,
               st.pc # "idle" =>
                  /\ st.intent \in Intents
                  /\ order'[st.intent].status # "none"
                  /\ st.pc \in {"fills", "missing"} =>
                        st.found \in LiveOrderStatus \ {"rejected"}
        PROVE  TypeInv'
    <2>1. ActorTypes'
      BY <1>c DEF TypeInv, TypeOK, ActorTypes
    <2>2. BusyActors'
      BY <1>c DEF TypeInv, TypeOK, ActorTypes, BusyActors, OrdersStay
    <2> QED
      BY <1>a, <1>c, <2>1, <2>2 DEF TypeInv, TypeOK
  <1>d. /\ syncer \in [Syncers -> SyncerState] /\ syncer[s] \in SyncerState
        /\ syncer[s].pc # "idle" =>
              syncer[s].intent \in Intents /\ order[syncer[s].intent].status # "none"
    BY DEF TypeInv, TypeOK, ActorTypes, BusyActors
  <1>e. UNCHANGED <<gate, lock, dbVars>> => RowTypes' /\ OrdersStay
    BY DEF TypeInv, TypeOK, RowTypes, OrdersStay
  <1>1. ASSUME NEW i \in Intents, sync_order_status_load(s, i)
        PROVE  TypeInv'
    <2> DEFINE st == [pc |-> "query", intent |-> i, status |-> order[i].status,
                      filled |-> order[i].filled, found |-> "none"]
    <2>1. st \in SyncerState
      BY DEF SyncerState, TypeInv, TypeOK, RowTypes
    <2>2. /\ syncer' = [syncer EXCEPT ![s] = st] /\ UNCHANGED <<confirmer, canceler>>
          /\ UNCHANGED <<gate, lock, dbVars>>
      BY <1>1 DEF sync_order_status_load
    <2>3. order'[st.intent].status # "none" /\ st.pc = "query" /\ st.intent \in Intents
      BY <1>1 DEF sync_order_status_load, OpenStatuses
    <2> HIDE DEF st
    <2> QED
      BY <2>1, <2>2, <2>3, <1>c, <1>e
  <1>2. ASSUME NEW pc \in {"fills", "missing"}, NEW found \in LiveOrderStatus \ {"rejected"},
               syncer[s].pc # "idle",
               syncer' = [syncer EXCEPT ![s].pc = pc, ![s].found = found],
               UNCHANGED <<gate, lock, dbVars, confirmer, canceler>>
        PROVE  TypeInv'
    <2> DEFINE st == [syncer[s] EXCEPT !.pc = pc, !.found = found]
    <2>1. st \in SyncerState /\ st.pc = pc /\ st.found = found /\ st.intent = syncer[s].intent
      BY <1>d, <1>2 DEF SyncerState
    <2>2. syncer' = [syncer EXCEPT ![s] = st]
      BY <1>d, <1>2
    <2>3. order'[st.intent].status # "none"
      BY <1>d, <1>2, <2>1
    <2> HIDE DEF st
    <2> QED
      BY <2>1, <2>2, <2>3, <1>c, <1>d, <1>e, <1>2
  <1>3. CASE query_order_found(s)
    <2>1. ORDER_STATE_MAP(venue[syncer[s].intent]) \in LiveOrderStatus \ {"rejected"}
      BY <1>3, <1>d, ORDER_STATE_MAP_Range
      DEF query_order_found, TypeInv, TypeOK, VenueTypes
    <2> QED
      BY <1>2, <1>3, <2>1 DEF query_order_found
  <1>4. CASE query_order_not_found(s)
    <2>1. "canceled" \in LiveOrderStatus \ {"rejected"}
      BY DEF LiveOrderStatus, TERMINAL_ORDER_STATUSES
    <2> QED
      BY <1>2, <1>4, <2>1 DEF query_order_not_found
  <1>5. ASSUME NEW trades \in 0..Quantity, _apply_fills(s, trades)
        PROVE  TypeInv'
    <2> DEFINE i == syncer[s].intent
               new == (1..trades) \ fills[i]
               n == Cardinality(new)
               status == IF new = {} THEN syncer[s].found
                         ELSE IF syncer[s].filled + n >= Quantity THEN "filled"
                              ELSE "partially_filled"
    <2>1. i \in Intents
      BY <1>5, <1>d DEF _apply_fills
    <2>2. n \in Nat
      <3>1. trades \in Nat
        BY OrderConstants DEF OrderConstants
      <3> QED
        BY <3>1, NewTrades
    <2>3. new \in SUBSET (1..Quantity)
      BY OrderConstants DEF OrderConstants
    <2>4. status \in LiveOrderStatus
      BY <1>5 DEF _apply_fills, TypeInv, BusyActors, LiveOrderStatus, OpenStatuses,
                  TERMINAL_ORDER_STATUSES
    <2>5. /\ fills' = [fills EXCEPT ![i] = @ \cup new]
          /\ booked' = [booked EXCEPT ![i] = @ + n]
          /\ order' = [order EXCEPT ![i] =
                 [status |-> WriteBack(syncer[s].status, status, @.status),
                  filled |-> WriteBack(syncer[s].filled, syncer[s].filled + n, @.filled)]]
          /\ syncer' = [syncer EXCEPT ![s] = SyncIdle]
          /\ UNCHANGED <<gate, lock, intent, lapsed, passed, recent, confirmer, canceler>>
      BY <1>5 DEF _apply_fills, SyncDone
    <2>6. syncer[s].filled \in Nat
      BY <1>d DEF SyncerState
    <2> HIDE DEF new, n, status, i
    <2>a. /\ order \in [Intents -> [status : LiveOrderStatus \cup {"none"}, filled : Nat]]
          /\ fills \in [Intents -> SUBSET (1..Quantity)]
          /\ booked \in [Intents -> Nat]
      BY DEF TypeInv, TypeOK, RowTypes
    <2>7. order' \in [Intents -> [status : LiveOrderStatus \cup {"none"}, filled : Nat]]
      <3>1. order[i] \in [status : LiveOrderStatus \cup {"none"}, filled : Nat]
        BY <2>1, <2>a
      <3>2. /\ WriteBack(syncer[s].status, status, order[i].status)
                   \in LiveOrderStatus \cup {"none"}
            /\ WriteBack(syncer[s].filled, syncer[s].filled + n, order[i].filled) \in Nat
        BY <2>2, <2>4, <2>6, <3>1 DEF WriteBack
      <3> QED
        BY <2>5, <2>a, <3>2
    <2>8. fills' \in [Intents -> SUBSET (1..Quantity)] /\ booked' \in [Intents -> Nat]
      <3>1. fills[i] \cup new \in SUBSET (1..Quantity)
        BY <2>1, <2>3, <2>a
      <3>2. booked[i] + n \in Nat
        BY <2>1, <2>2, <2>a
      <3> QED
        BY <2>5, <2>a, <3>1, <3>2
    <2>9. RowTypes'
      BY <2>5, <2>7, <2>8 DEF TypeInv, TypeOK, RowTypes
    <2>10. OrdersStay
      BY <2>4, <2>5 DEF WriteBack, OrdersStay, TypeInv, TypeOK, RowTypes, LiveOrderStatus,
                        OpenStatuses, TERMINAL_ORDER_STATUSES
    <2> QED
      BY <1>b, <1>c, <2>5, <2>9, <2>10
  <1>6. CASE sync_order_status_fails(s)
    BY <1>b, <1>c, <1>e, <1>6 DEF sync_order_status_fails, SyncDone
  <1> QED
    BY <1>1, <1>3, <1>4, <1>5, <1>6 DEF SyncStep

\* A step of a cancellation keeps the types.
LEMMA TypeInvCancel ==
    ASSUME TypeInv, NEW c \in Cancelers, CancelStep(c)
    PROVE  TypeInv'
  <1> USE DEF gate, dbVars, venueVars
  <1>a. CancelIdle \in CancelerState /\ CancelIdle.pc = "idle"
    BY DEF CancelIdle, CancelerState
  <1>b. ASSUME NEW st \in CancelerState, canceler' = [canceler EXCEPT ![c] = st],
               UNCHANGED <<confirmer, syncer>>, RowTypes', VenueTypes', OpenHasRest',
               OrdersStay,
               st.pc # "idle" => st.intent \in Intents /\ order'[st.intent].status # "none"
        PROVE  TypeInv'
    <2>1. ActorTypes'
      BY <1>b DEF TypeInv, TypeOK, ActorTypes
    <2>2. BusyActors'
      BY <1>b DEF TypeInv, TypeOK, ActorTypes, BusyActors, OrdersStay
    <2> QED
      BY <1>b, <2>1, <2>2 DEF TypeInv, TypeOK
  <1>c. UNCHANGED <<gate, lock, dbVars>> => RowTypes' /\ OrdersStay
    BY DEF TypeInv, TypeOK, RowTypes, OrdersStay
  <1>d. UNCHANGED venueVars => VenueTypes' /\ OpenHasRest'
    BY DEF TypeInv, TypeOK, VenueTypes, OpenHasRest
  <1>e. /\ canceler \in [Cancelers -> CancelerState] /\ canceler[c] \in CancelerState
        /\ canceler[c].pc # "idle" =>
              canceler[c].intent \in Intents /\ order[canceler[c].intent].status # "none"
    BY DEF TypeInv, TypeOK, ActorTypes, BusyActors
  <1>1. ASSUME NEW i \in Intents, cancel_order_load(c, i)
        PROVE  TypeInv'
    <2> DEFINE st == [pc |-> "cancel", intent |-> i, status |-> order[i].status]
    <2>1. st \in CancelerState
      BY DEF CancelerState, TypeInv, TypeOK, RowTypes
    <2>2. st.intent \in Intents /\ order'[st.intent].status # "none"
      BY <1>1 DEF cancel_order_load, OpenStatuses
    <2>3. canceler' = [canceler EXCEPT ![c] = st]
      BY <1>1 DEF cancel_order_load
    <2> HIDE DEF st
    <2> QED
      BY <1>1, <1>b, <1>c, <1>d, <2>1, <2>2, <2>3 DEF cancel_order_load
  <1>2. CASE cancel_order_venue(c)
    <2> DEFINE st == [canceler[c] EXCEPT !.pc = "answered"]
    <2>1. st \in CancelerState /\ st.intent = canceler[c].intent
      BY <1>e DEF CancelerState
    <2>2. canceler' = [canceler EXCEPT ![c] = st]
      BY <1>2, <1>e DEF cancel_order_venue
    <2>3. venue' \in [Intents -> [state : VenueStates, executed : 0..Quantity]]
      <3>1. /\ venue \in [Intents -> [state : VenueStates, executed : 0..Quantity]]
            /\ canceler[c].intent \in Intents
        BY <1>2, <1>e DEF cancel_order_venue, TypeInv, TypeOK, VenueTypes
      <3>2. PICK state \in VenueStates :
               venue' = [venue EXCEPT ![canceler[c].intent].state = state]
        BY <1>2, <3>1 DEF cancel_order_venue, VenueStates
      <3> QED
        BY <3>1, <3>2
    <2>4. VenueTypes'
      BY <1>2, <2>3 DEF cancel_order_venue, TypeInv, TypeOK, VenueTypes
    <2>5. OpenHasRest'
      BY <1>2 DEF cancel_order_venue, TypeInv, TypeOK, VenueTypes, OpenHasRest
    <2> HIDE DEF st
    <2> QED
      BY <1>2, <1>b, <1>c, <1>e, <2>1, <2>2, <2>4, <2>5 DEF cancel_order_venue
  <1>3. CASE cancel_order_commit(c)
    <2>1. order' \in [Intents -> [status : LiveOrderStatus \cup {"none"}, filled : Nat]]
      <3>1. /\ order \in [Intents -> [status : LiveOrderStatus \cup {"none"}, filled : Nat]]
            /\ canceler[c].intent \in Intents
        BY <1>3, <1>e DEF cancel_order_commit, TypeInv, TypeOK, RowTypes
      <3>2. "canceled" \in LiveOrderStatus
        BY DEF LiveOrderStatus, TERMINAL_ORDER_STATUSES
      <3>3. PICK status \in LiveOrderStatus \cup {"none"} :
               order' = [order EXCEPT ![canceler[c].intent].status = status]
        BY <1>3, <3>1, <3>2 DEF cancel_order_commit, WriteBack
      <3> QED
        BY <3>1, <3>3
    <2>2. RowTypes'
      BY <1>3, <2>1 DEF cancel_order_commit, TypeInv, TypeOK, RowTypes
    <2>3. OrdersStay
      BY <1>3 DEF cancel_order_commit, WriteBack, OrdersStay, TypeInv, TypeOK, RowTypes
    <2> QED
      BY <1>3, <1>a, <1>b, <1>d, <2>2, <2>3 DEF cancel_order_commit, CancelDone
  <1>4. CASE cancel_order_fails(c)
    BY <1>4, <1>a, <1>b, <1>c, <1>d DEF cancel_order_fails, CancelDone
  <1> QED
    BY <1>1, <1>2, <1>3, <1>4 DEF CancelStep

\* Every step keeps rows, messages and actors well typed.
LEMMA TypeInvStep == TypeInv /\ [Next]_vars => TypeInv'
  <1> SUFFICES ASSUME TypeInv, [Next]_vars PROVE TypeInv'
    OBVIOUS
  <1> USE DEF gate, dbVars, venueVars, actorVars
  <1>a. UNCHANGED actorVars /\ OrdersStay => ActorTypes' /\ BusyActors'
    BY DEF TypeInv, TypeOK, ActorTypes, BusyActors, OrdersStay
  <1>b. UNCHANGED venueVars => VenueTypes' /\ OpenHasRest'
    BY DEF TypeInv, TypeOK, VenueTypes, OpenHasRest
  <1>c. ASSUME UNCHANGED <<order, venueVars, actorVars>>, RowTypes' PROVE TypeInv'
    BY <1>a, <1>b, <1>c DEF TypeInv, TypeOK, OrdersStay
  <1>1. CASE Gate
    <2>1. RowTypes'
      BY <1>1 DEF Gate, GateWrite, TypeInv, TypeOK, RowTypes
    <2> QED
      BY <1>1, <1>c, <2>1 DEF Gate
  <1>2. ASSUME NEW i \in Intents, NEW source \in Sources, preview_order(i, source)
        PROVE  TypeInv'
    <2>1. intent' \in [Intents -> [status : IntentStatus, source : OrderSource]]
      BY <1>2, OrderConstants
      DEF preview_order, IntentStatus, OrderConstants, TypeInv, TypeOK, RowTypes
    <2>2. RowTypes'
      BY <1>2, <2>1 DEF preview_order, TypeInv, TypeOK, RowTypes
    <2> QED
      BY <1>2, <1>c, <2>2 DEF preview_order
  <1>3. ASSUME NEW i \in Intents, confirmation_window_ends(i)
        PROVE  TypeInv'
    <2>1. RowTypes'
      BY <1>3 DEF confirmation_window_ends, TypeInv, TypeOK, RowTypes
    <2> QED
      BY <1>3, <1>c, <2>1 DEF confirmation_window_ends
  <1>4. ASSUME NEW i \in Intents, confirm_order_expired(i)
        PROVE  TypeInv'
    <2>1. intent' \in [Intents -> [status : IntentStatus, source : OrderSource]]
      BY <1>4 DEF confirm_order_expired, IntentStatus, TypeInv, TypeOK, RowTypes
    <2>2. RowTypes'
      BY <1>4, <2>1 DEF confirm_order_expired, TypeInv, TypeOK, RowTypes
    <2> QED
      BY <1>4, <1>c, <2>2 DEF confirm_order_expired
  <1>5. CASE order_frequency_elapses \/ UNCHANGED vars
    <2>1. RowTypes'
      BY <1>5 DEF order_frequency_elapses, vars, TypeInv, TypeOK, RowTypes
    <2> QED
      BY <1>5, <1>c, <2>1 DEF order_frequency_elapses, vars
  <1> QED
    BY <1>1, <1>2, <1>3, <1>4, <1>5, TypeInvConfirm, TypeInvVenue, TypeInvSync,
       TypeInvCancel DEF Next

\* Rows, messages and actors are well typed in every reachable state.
THEOREM TypeInvariant == Spec => []TypeInv
  BY TypeInvInit, TypeInvStep, PTL DEF Spec

\* Type correctness of the order pipeline.
THEOREM TypeCorrect == Spec => []TypeOK
  BY TypeInvariant, PTL DEF TypeInv

-----------------------------------------------------------------------------
(* The journal: what is committed before an order is sent, and who sends it *)

\* An intent that exists stays, and so does where it came from.
IntentsStay ==
    \A i \in Intents : intent[i].status # "none" =>
        intent'[i].status # "none" /\ intent'[i].source = intent[i].source

\* A step of anyone but a confirmation, which creates no intent over an existing
\* one, drops no order or RiskCheck and respects the row lock, keeps the journal.
LEMMA JournalFrame ==
    ASSUME TypeInv, JournalInv, UNCHANGED <<lock, sent, confirmer>>,
           OrdersStay, IntentsStay, passed \subseteq passed',
           lock # Unlocked => paused' = paused /\ (recent' => recent)
    PROVE  JournalInv'
  <1>1. LockInv'
    BY ConfirmersAssumption DEF ConfirmersAssumption, JournalInv, LockInv
  <1>2. SubmitInv'
    BY DEF JournalInv, SubmitInv, TypeInv, BusyActors, OrdersStay, IntentsStay, Submitting
  <1>3. SentInv'
    BY DEF JournalInv, SentInv, OrdersStay, IntentsStay
  <1> QED
    BY <1>1, <1>2, <1>3 DEF JournalInv

\* A confirmation that ends, however it does, keeps the journal.
LEMMA JournalEnds ==
    ASSUME TypeInv, JournalInv, NEW h \in Confirmers,
           confirmer' = [confirmer EXCEPT ![h] = ConfirmIdle],
           lock' = lock \/ (lock = h /\ lock' = Unlocked),
           UNCHANGED <<paused, recent, passed, sent>>, OrdersStay, IntentsStay
    PROVE  JournalInv'
  <1>0. /\ \A g \in Confirmers \ {h} : confirmer'[g] = confirmer[g]
        /\ confirmer'[h].pc = "idle"
    BY DEF TypeInv, TypeOK, ActorTypes, ConfirmIdle
  <1>1. LockInv'
    BY <1>0 DEF JournalInv, LockInv
  <1>2. SubmitInv'
    BY <1>0 DEF JournalInv, SubmitInv, TypeInv, BusyActors, OrdersStay, IntentsStay,
                Submitting
  <1>3. SentInv'
    BY DEF JournalInv, SentInv, OrdersStay, IntentsStay
  <1> QED
    BY <1>1, <1>2, <1>3 DEF JournalInv

\* Every step of a confirmation keeps the journal.
LEMMA JournalConfirm ==
    ASSUME TypeInv, JournalInv, NEW h \in Confirmers, ConfirmStep(h)
    PROVE  JournalInv'
  <1> USE DEF gate, dbVars, venueVars
  <1> DEFINE i == confirmer[h].intent
  <1>a. /\ confirmer \in [Confirmers -> ConfirmerState]
        /\ confirmer[h].pc # "idle" => i \in Intents
        /\ lock = h => lock # Unlocked
    BY ConfirmersAssumption DEF ConfirmersAssumption, TypeInv, TypeOK, ActorTypes, BusyActors
  <1>b. UNCHANGED <<intent, order>> => OrdersStay /\ IntentsStay
    BY DEF OrdersStay, IntentsStay
  <1>1. ASSUME NEW j \in Intents, NEW admin \in BOOLEAN, confirm_order_check(h, j, admin)
        PROVE  JournalInv'
    <2>1. /\ \A g \in Confirmers \ {h} : confirmer'[g] = confirmer[g]
          /\ confirmer'[h] = [pc |-> "want_lock", intent |-> j]
          /\ UNCHANGED <<gate, lock, dbVars, venueVars>>
          /\ intent[j].status # "none" /\ intent[j].source # "strategy"
      BY <1>1, <1>a DEF confirm_order_check
    <2>2. LockInv' /\ SentInv'
      BY <2>1 DEF JournalInv, LockInv, SentInv
    <2>3. SubmitInv'
      BY <2>1 DEF JournalInv, SubmitInv, Submitting
    <2> QED
      BY <2>2, <2>3 DEF JournalInv
  <1>2. ASSUME NEW pc \in {"locked", "passed", "verify"},
               UNCHANGED <<gate, dbVars, venueVars>>,
               confirmer' = [confirmer EXCEPT ![h].pc = pc],
               confirmer[h].pc # "idle",
               pc = "verify" => confirmer[h].pc = "submit" /\ UNCHANGED lock,
               pc # "verify" => lock' = h /\ (lock = Unlocked \/ lock = h),
               pc = "passed" => ~paused /\ ~recent
        PROVE  JournalInv'
    <2>1. /\ \A g \in Confirmers \ {h} : confirmer'[g] = confirmer[g]
          /\ confirmer'[h].pc = pc /\ confirmer'[h].intent = i
      BY <1>2, <1>a DEF ConfirmerState
    <2>2. LockInv' /\ SentInv'
      BY <1>2, <1>a, <2>1, ConfirmersAssumption
      DEF ConfirmersAssumption, JournalInv, LockInv, SentInv
    <2>3. SubmitInv'
      BY <1>2, <2>1 DEF JournalInv, SubmitInv, Submitting
    <2> QED
      BY <2>2, <2>3 DEF JournalInv
  <1>3. CASE confirm_order_lock(h)
    BY <1>2, <1>3 DEF confirm_order_lock, LockMandate
  <1>4. CASE confirm_order_risk_passed(h)
    <2>1. lock = h
      BY <1>4 DEF confirm_order_risk_passed, JournalInv, LockInv
    <2> QED
      BY <1>2, <1>4, <2>1 DEF confirm_order_risk_passed, Admits
  <1>5. CASE submit_order_credentials(h)
    BY <1>2, <1>5 DEF submit_order_credentials
  <1>6. CASE confirm_order_gate_blocked(h) \/ confirm_order_duplicate(h)
             \/ confirm_order_dies(h)
    BY <1>6, <1>b, JournalEnds DEF confirm_order_gate_blocked, confirm_order_duplicate,
                                   confirm_order_dies, UnlockMandate
  <1>7. CASE confirm_order_risk_rejected(h)
    <2>1. IntentsStay
      BY <1>7 DEF confirm_order_risk_rejected, IntentsStay, TypeInv, TypeOK, RowTypes
    <2>2. OrdersStay
      BY <1>7 DEF confirm_order_risk_rejected, OrdersStay
    <2> QED
      BY <1>7, <2>1, <2>2, JournalEnds DEF confirm_order_risk_rejected, UnlockMandate
  <1>8. CASE confirm_order_commit(h)
    <2>1. /\ \A g \in Confirmers \ {h} : confirmer'[g] = confirmer[g]
          /\ confirmer'[h].pc = "submit" /\ confirmer'[h].intent = i
      BY <1>8, <1>a DEF confirm_order_commit, ConfirmerState
    <2>2. /\ i \in Intents
          /\ lock = h /\ lock' = Unlocked /\ UNCHANGED <<paused, sent>>
          /\ order[i].status = "none" /\ order'[i].status = "pending"
          /\ passed' = passed \cup {i}
      BY <1>8, <1>a DEF confirm_order_commit, UnlockMandate, TypeInv, TypeOK, RowTypes
    <2>3. OrdersStay /\ IntentsStay
      BY <1>8 DEF confirm_order_commit, OrdersStay, IntentsStay, TypeInv, TypeOK, RowTypes
    <2>4. sent[i] = 0
      BY <2>2 DEF JournalInv, SentInv
    <2>5. LockInv'
      BY <2>1, <2>2, <1>a DEF JournalInv, LockInv
    <2>6. SentInv'
      BY <2>2, <2>3 DEF JournalInv, SentInv, OrdersStay, IntentsStay
    <2>7. \A g \in Confirmers : confirmer[g].pc \in Submitting => confirmer[g].intent # i
      BY <2>2 DEF JournalInv, SubmitInv
    <2>8. confirmer[h].pc = "passed" /\ confirmer[h].pc \notin Submitting
      BY <1>8 DEF confirm_order_commit, Submitting
    <2>9. SubmitInv'
      BY <2>1, <2>2, <2>3, <2>4, <2>7, <2>8
      DEF JournalInv, SubmitInv, Submitting, OrdersStay, IntentsStay, TypeInv, BusyActors
    <2> QED
      BY <2>5, <2>6, <2>9 DEF JournalInv
  <1>9. CASE submit_order_post(h)
    <2>1. /\ \A g \in Confirmers \ {h} : confirmer'[g] = confirmer[g]
          /\ confirmer'[h].pc = "await" /\ confirmer'[h].intent = i
      BY <1>9, <1>a DEF submit_order_post, ConfirmerState
    <2>2. /\ i \in Intents /\ sent[i] = 0 /\ sent'[i] = 1
          /\ \A j \in Intents \ {i} : sent'[j] = sent[j]
          /\ confirmer[h].pc = "verify"
          /\ UNCHANGED <<gate, lock, dbVars>>
      BY <1>9, <1>a DEF submit_order_post, JournalInv, SubmitInv, TypeInv, TypeOK, VenueTypes
    <2>3. LockInv'
      BY <2>1, <2>2 DEF JournalInv, LockInv
    <2>4. SentInv'
      BY <2>2 DEF JournalInv, SentInv, SubmitInv, Submitting
    <2>5. SubmitInv'
      BY <2>1, <2>2 DEF JournalInv, SubmitInv, Submitting, TypeInv, BusyActors
    <2> QED
      BY <2>3, <2>4, <2>5 DEF JournalInv
  <1>10. ASSUME NEW status \in LiveOrderStatus, FinishConfirm(h, status),
                confirmer[h].pc \in Submitting
         PROVE  JournalInv'
    <2>1. OrdersStay
      BY <1>10 DEF FinishConfirm, OrdersStay, TypeInv, TypeOK, RowTypes, LiveOrderStatus,
                   OpenStatuses, TERMINAL_ORDER_STATUSES
    <2>2. IntentsStay
      BY <1>10 DEF FinishConfirm, IntentsStay
    <2>3. UNCHANGED <<lock, paused, recent, passed, sent>>
          /\ confirmer' = [confirmer EXCEPT ![h] = ConfirmIdle]
      BY <1>10 DEF FinishConfirm
    <2> QED
      BY <2>1, <2>2, <2>3, JournalEnds
  <1>11. CASE submit_order_unavailable(h) \/ submit_order_ack(h) \/ submit_order_unknown(h)
    BY <1>10, <1>11, SubmissionEnds
  <1> QED
    BY <1>1, <1>3, <1>4, <1>5, <1>6, <1>7, <1>8, <1>9, <1>11 DEF ConfirmStep

\* What an order row may go through outside a confirmation: nothing but a status
\* sync or a cancellation writes it, and neither creates or drops a row.
LEMMA OthersKeepJournal ==
    ASSUME TypeInv, JournalInv,
           \/ \E i \in Intents : VenueStep(i)
           \/ \E s \in Syncers : SyncStep(s)
           \/ \E c \in Cancelers : CancelStep(c)
    PROVE  /\ UNCHANGED <<gate, lock, intent, passed, recent, sent, confirmer>>
           /\ \A i \in Intents : (order'[i].status = "none") = (order[i].status = "none")
           /\ \A i \in Intents : order'[i].status = "rejected" => order[i].status = "rejected"
  <1> USE DEF dbVars, venueVars, actorVars
  <1>1. ASSUME NEW i \in Intents, VenueStep(i)
        PROVE  UNCHANGED <<gate, lock, dbVars, sent, confirmer>>
    BY <1>1 DEF VenueStep, venue_refuses, venue_accepts, request_lost, venue_executes,
                venue_expires
  <1>2. ASSUME NEW s \in Syncers, SyncStep(s)
        PROVE  /\ UNCHANGED <<gate, lock, intent, passed, recent, sent, confirmer>>
               /\ \/ UNCHANGED order
                  \/ \E j \in Intents, st \in LiveOrderStatus \ {"rejected"}, n \in Nat :
                        /\ order[j].status # "none"
                        /\ \/ order' = [order EXCEPT ![j] = [status |-> st, filled |-> n]]
                           \/ order' = [order EXCEPT ![j] = [status |-> @.status, filled |-> n]]
    <2>1. CASE ~ \E trades \in 0..Quantity : _apply_fills(s, trades)
      BY <1>2, <2>1 DEF SyncStep, sync_order_status_load, query_order_found,
                        query_order_not_found, sync_order_status_fails
    <2>2. ASSUME NEW trades \in 0..Quantity, _apply_fills(s, trades)
          PROVE  /\ UNCHANGED <<gate, lock, intent, passed, recent, sent, confirmer>>
                 /\ \E j \in Intents, st \in LiveOrderStatus \ {"rejected"}, n \in Nat :
                        /\ order[j].status # "none"
                        /\ \/ order' = [order EXCEPT ![j] = [status |-> st, filled |-> n]]
                           \/ order' = [order EXCEPT ![j] = [status |-> @.status, filled |-> n]]
      <3> DEFINE j == syncer[s].intent
                 new == (1..trades) \ fills[j]
                 filled == syncer[s].filled + Cardinality(new)
                 st == IF new = {} THEN syncer[s].found
                       ELSE IF filled >= Quantity THEN "filled" ELSE "partially_filled"
                 n == WriteBack(syncer[s].filled, filled, order[j].filled)
      <3>1. /\ j \in Intents /\ order[j].status # "none"
            /\ syncer[s].found \in LiveOrderStatus \ {"rejected"}
        BY <2>2 DEF _apply_fills, TypeInv, BusyActors
      <3>2. st \in LiveOrderStatus \ {"rejected"}
        BY <3>1 DEF LiveOrderStatus, OpenStatuses, TERMINAL_ORDER_STATUSES
      <3>3. trades \in Nat
        BY OrderConstants DEF OrderConstants
      <3>4. Cardinality(new) \in Nat
        BY <3>3, NewTrades
      <3>5. n \in Nat
        BY <3>1, <3>4 DEF WriteBack, TypeInv, TypeOK, RowTypes, ActorTypes, SyncerState
      <3>6. /\ order' = [order EXCEPT ![j] =
                           [status |-> WriteBack(syncer[s].status, st, @.status), filled |-> n]]
            /\ UNCHANGED <<gate, lock, intent, passed, recent, sent, confirmer>>
        BY <2>2 DEF _apply_fills
      <3> HIDE DEF j, new, filled, st, n
      <3>7. \/ order' = [order EXCEPT ![j] = [status |-> st, filled |-> n]]
            \/ order' = [order EXCEPT ![j] = [status |-> @.status, filled |-> n]]
        BY <3>6 DEF WriteBack
      <3> QED
        BY <3>1, <3>2, <3>5, <3>6, <3>7
    <2> QED
      BY <2>1, <2>2
  <1>3. ASSUME NEW c \in Cancelers, CancelStep(c)
        PROVE  /\ UNCHANGED <<gate, lock, intent, passed, recent, sent, confirmer>>
               /\ \/ UNCHANGED order
                  \/ \E j \in Intents :
                        /\ order[j].status # "none"
                        /\ order' = [order EXCEPT ![j].status = "canceled"]
    <2>1. CASE ~ cancel_order_commit(c)
      BY <1>3, <2>1 DEF CancelStep, cancel_order_load, cancel_order_venue, cancel_order_fails
    <2>2. CASE cancel_order_commit(c)
      <3>1. canceler[c].intent \in Intents /\ order[canceler[c].intent].status # "none"
        BY <2>2 DEF cancel_order_commit, TypeInv, BusyActors
      <3>2. \/ order' = [order EXCEPT ![canceler[c].intent].status = "canceled"]
            \/ order' = order
        BY <2>2, <3>1 DEF cancel_order_commit, WriteBack, TypeInv, TypeOK, RowTypes
      <3> QED
        BY <2>2, <3>1, <3>2 DEF cancel_order_commit
    <2> QED
      BY <2>1, <2>2
  <1>4. order \in [Intents -> [status : LiveOrderStatus \cup {"none"}, filled : Nat]]
    BY DEF TypeInv, TypeOK, RowTypes
  <1>5. "none" \notin LiveOrderStatus
    BY DEF LiveOrderStatus, OpenStatuses, TERMINAL_ORDER_STATUSES
  <1>6. CASE \E i \in Intents : VenueStep(i)
    BY <1>1, <1>6
  <1>7. CASE \E s \in Syncers : SyncStep(s)
    BY <1>2, <1>4, <1>5, <1>7
  <1>8. CASE \E c \in Cancelers : CancelStep(c)
    BY <1>3, <1>4, <1>8
  <1> QED
    BY <1>6, <1>7, <1>8

\* Every step keeps the journal.
LEMMA JournalStep == TypeInv /\ JournalInv /\ [Next]_vars => JournalInv'
  <1> SUFFICES ASSUME TypeInv, JournalInv, [Next]_vars PROVE JournalInv'
    OBVIOUS
  <1> USE DEF gate, dbVars, venueVars, actorVars
  <1>1. CASE \/ \E i \in Intents : VenueStep(i)
             \/ \E s \in Syncers : SyncStep(s)
             \/ \E c \in Cancelers : CancelStep(c)
    <2>1. OrdersStay /\ IntentsStay
      BY <1>1, OthersKeepJournal DEF OrdersStay, IntentsStay
    <2> QED
      BY <1>1, <2>1, OthersKeepJournal, JournalFrame
  <1>2. ASSUME NEW i \in Intents, NEW source \in Sources, preview_order(i, source)
        PROVE  JournalInv'
    <2>1. OrdersStay /\ IntentsStay
      BY <1>2 DEF preview_order, OrdersStay, IntentsStay, TypeInv, TypeOK, RowTypes
    <2> QED
      BY <1>2, <2>1, JournalFrame DEF preview_order
  <1>3. ASSUME NEW i \in Intents, confirmation_window_ends(i) \/ confirm_order_expired(i)
        PROVE  JournalInv'
    <2>1. OrdersStay /\ IntentsStay
      BY <1>3 DEF confirmation_window_ends, confirm_order_expired, OrdersStay, IntentsStay,
                  TypeInv, TypeOK, RowTypes
    <2> QED
      BY <1>3, <2>1, JournalFrame DEF confirmation_window_ends, confirm_order_expired
  <1>4. CASE Gate \/ order_frequency_elapses \/ UNCHANGED vars
    <2>1. OrdersStay /\ IntentsStay
      BY <1>4 DEF Gate, order_frequency_elapses, vars, OrdersStay, IntentsStay
    <2>2. lock # Unlocked => paused' = paused /\ (recent' => recent)
      BY <1>4 DEF Gate, GateWrite, order_frequency_elapses, vars
    <2> QED
      BY <1>4, <2>1, <2>2, JournalFrame DEF Gate, order_frequency_elapses, vars
  <1> QED
    BY <1>1, <1>2, <1>3, <1>4, JournalConfirm DEF Next

\* The journal holds in every reachable state.
THEOREM JournalInvariant == Spec => [](TypeInv /\ JournalInv)
  <1>1. Init => JournalInv
    BY DEF Init, AdmissionInit, JournalInv, LockInv, SubmitInv, SentInv, ConfirmIdle,
           Submitting
  <1> QED
    BY <1>1, TypeInvInit, TypeInvStep, JournalStep, PTL DEF Spec

\* However confirmations race and wherever they die, no order is POSTed twice.
THEOREM NeverSubmittedTwice == Spec => []SubmittedAtMostOnce
  <1>1. TypeInv /\ JournalInv => SubmittedAtMostOnce
    BY DEF JournalInv, SentInv, SubmittedAtMostOnce
  <1> QED
    BY <1>1, JournalInvariant, PTL

\* Nothing is sent that is not journaled, and no suggestion of a strategy is.
THEOREM SentIsJournaled == Spec => []OnlyJournaledOrdersSent
  <1>1. TypeInv /\ JournalInv => OnlyJournaledOrdersSent
    BY DEF JournalInv, SentInv, OnlyJournaledOrdersSent
  <1> QED
    BY <1>1, JournalInvariant, PTL

\* Orders are created by the commit of a confirmation that holds the mandate's
\* lock and found it neither paused nor too recently used.
LEMMA Creation ==
    TypeInv /\ JournalInv /\ [Next]_vars =>
        \A i \in Intents : order[i].status = "none" /\ order'[i].status # "none"
                             => ~paused /\ ~recent
  <1> DEFINE Created(i) == order[i].status = "none" /\ order'[i].status # "none"
  <1>1. ASSUME TypeInv, JournalInv, [Next]_vars
        PROVE  \A i \in Intents : Created(i) => ~paused /\ ~recent
    <2>1. ASSUME NEW h \in Confirmers, ConfirmStep(h), NEW i \in Intents, Created(i)
          PROVE  ~paused /\ ~recent
      <3>1. CASE confirm_order_commit(h)
        BY <1>1, <3>1 DEF confirm_order_commit, JournalInv, LockInv
      <3>2. ASSUME NEW status, FinishConfirm(h, status), confirmer[h].pc \in Submitting
            PROVE  FALSE
        <4>1. order[confirmer[h].intent].status # "none"
          BY <1>1, <3>2 DEF JournalInv, SubmitInv
        <4> QED
          BY <1>1, <2>1, <3>2, <4>1 DEF FinishConfirm, TypeInv, TypeOK, RowTypes
      <3>3. ~ (submit_order_unavailable(h) \/ submit_order_ack(h) \/ submit_order_unknown(h))
        BY <3>2 DEF submit_order_unavailable, submit_order_ack, submit_order_unknown,
                    Submitting
      <3>4. CASE UNCHANGED order
        BY <2>1, <3>4
      <3> QED
        BY <2>1, <3>1, <3>3, <3>4
        DEF ConfirmStep, confirm_order_check, confirm_order_lock,
            confirm_order_gate_blocked, confirm_order_risk_rejected,
            confirm_order_risk_passed, confirm_order_duplicate, submit_order_credentials,
            submit_order_post, confirm_order_dies, dbVars
    <2>2. CASE \/ \E i \in Intents : VenueStep(i)
               \/ \E s \in Syncers : SyncStep(s)
               \/ \E c \in Cancelers : CancelStep(c)
      BY <1>1, <2>2, OthersKeepJournal
    <2>3. CASE \/ Gate \/ order_frequency_elapses \/ UNCHANGED vars
               \/ \E i \in Intents, source \in Sources : preview_order(i, source)
               \/ \E i \in Intents : confirmation_window_ends(i) \/ confirm_order_expired(i)
      BY <2>3 DEF Gate, order_frequency_elapses, preview_order, confirmation_window_ends,
                  confirm_order_expired, dbVars, vars
    <2> QED
      BY <1>1, <2>1, <2>2, <2>3 DEF Next
  <1> QED
    BY <1>1

\* The row lock spans the gate check and the commit: a paused mandate gets no
\* new order.
THEOREM PausedMandateGetsNoOrder == Spec => NoOrderWhilePaused
  <1>1. TypeInv /\ JournalInv /\ [Next]_vars =>
          [\A i \in Intents : (order[i].status = "none" /\ order'[i].status # "none")
                                 => ~paused]_vars
    BY Creation
  <1> QED
    BY <1>1, JournalInvariant, PTL DEF Spec, NoOrderWhilePaused

\* It spans the frequency check as well: orders that race for one mandate keep
\* their distance.
THEOREM RacingOrdersKeepFrequency == Spec => OrderFrequencyKept
  <1>1. TypeInv /\ JournalInv /\ [Next]_vars =>
          [\A i \in Intents : (order[i].status = "none" /\ order'[i].status # "none")
                                 => ~recent]_vars
    BY Creation
  <1> QED
    BY <1>1, JournalInvariant, PTL DEF Spec, OrderFrequencyKept

-----------------------------------------------------------------------------
(* What the database says about the exchange *)

\* The exchange has no order before it accepts one, refuses for good, and
\* hears of nothing that was not POSTed.
WireInv ==
    \A i \in Intents :
        /\ wire[i] \in {"none", "in_flight"} =>
              venue[i].state = "absent" /\ venue[i].executed = 0
        /\ wire[i] = "rejected" => venue[i].state = "absent"
        /\ sent[i] = 0 => wire[i] = "none"

\* What a rejection on record says of the wire and the exchange.
Refused(i) ==
    /\ wire[i] \in {"none", "rejected", "server_error"}
    /\ wire[i] = "server_error" \/ venue[i].state = "absent"

\* A rejected order is refused, and no request is left that could post it.
RejectInv ==
    \A i \in Intents : order[i].status = "rejected" =>
        /\ Refused(i)
        /\ \A h \in Confirmers :
              confirmer[h].pc \in Submitting => confirmer[h].intent # i

\* A sync has loaded no more than is booked.
BookInv ==
    /\ NeverOverbooked
    /\ \A s \in Syncers : syncer[s].pc # "idle" =>
          syncer[s].filled <= booked[syncer[s].intent]

-----------------------------------------------------------------------------
(* The wire *)

\* An exchange's execution count never goes down.
ExecutedGrows == \A i \in Intents : venue'[i].executed >= venue[i].executed

\* A step of the exchange: what it does to the order it is about.
LEMMA VenueStepEffect ==
    ASSUME TypeInv, WireInv, NEW i \in Intents, VenueStep(i)
    PROVE  /\ WireInv' /\ ExecutedGrows
           /\ \A j \in Intents : Refused(j) => Refused(j)'
  <1> USE OrderConstants DEF OrderConstants, TypeInv, TypeOK, VenueTypes
  <1>1. CASE venue_refuses(i)
    BY <1>1 DEF venue_refuses, WireInv, Refused, ExecutedGrows
  <1>2. CASE request_lost(i)
    BY <1>2 DEF request_lost, WireInv, Refused, ExecutedGrows
  <1>3. CASE venue_executes(i)
    BY <1>3 DEF venue_executes, WireInv, Refused, ExecutedGrows
  <1>4. CASE venue_expires(i)
    BY <1>4 DEF venue_expires, WireInv, Refused, ExecutedGrows
  <1>5. ASSUME NEW state \in {"open", "filled", "expired"}, NEW n \in 0..Quantity,
               venue_accepts(i, state, n)
        PROVE  /\ WireInv' /\ ExecutedGrows
               /\ \A j \in Intents : Refused(j) => Refused(j)'
    <2>1. ORDER_STATE_MAP([state |-> state, executed |-> n])
             \in {"accepted", "partially_filled", "filled", "expired"}
      BY DEF ORDER_STATE_MAP
    <2>2. PICK answer \in {"accepted", "partially_filled", "filled", "expired", "lost",
                           "server_error"} :
             wire' = [wire EXCEPT ![i] = answer]
      BY <1>5, <2>1 DEF venue_accepts
    <2>3. /\ venue' = [venue EXCEPT ![i] = [state |-> state, executed |-> n]]
          /\ wire[i] = "in_flight" /\ UNCHANGED sent
      BY <1>5 DEF venue_accepts
    <2>4. venue[i].executed = 0 /\ sent[i] # 0
      BY <2>3 DEF WireInv
    <2>5. WireInv'
      BY <2>2, <2>3, <2>4 DEF WireInv
    <2>6. ExecutedGrows
      BY <2>3, <2>4 DEF ExecutedGrows
    <2> QED
      BY <2>2, <2>3, <2>5, <2>6 DEF Refused
  <1> QED
    BY <1>1, <1>2, <1>3, <1>4, <1>5 DEF VenueStep

\* A cancellation changes the state of an open order and nothing else there.
LEMMA CancelStepEffect ==
    ASSUME TypeInv, WireInv, NEW c \in Cancelers, CancelStep(c)
    PROVE  /\ WireInv' /\ ExecutedGrows /\ UNCHANGED <<wire, sent>>
           /\ \A j \in Intents : venue[j].state = "absent" => venue'[j].state = "absent"
  <1> USE OrderConstants DEF OrderConstants, TypeInv, TypeOK, VenueTypes
  <1>1. CASE cancel_order_venue(c)
    <2>1. /\ UNCHANGED <<wire, sent>>
          /\ \A j \in Intents : /\ venue'[j].executed = venue[j].executed
                                /\ venue[j].state = "absent" => venue'[j].state = "absent"
      BY <1>1 DEF cancel_order_venue
    <2> QED
      BY <2>1 DEF WireInv, ExecutedGrows
  <1>2. CASE UNCHANGED venueVars
    BY <1>2 DEF venueVars, WireInv, ExecutedGrows
  <1> QED
    BY <1>1, <1>2 DEF CancelStep, cancel_order_load, cancel_order_commit, cancel_order_fails

\* A confirmation touches the wire only when it posts, once.
LEMMA ConfirmStepEffect ==
    ASSUME TypeInv, JournalInv, WireInv, NEW h \in Confirmers, ConfirmStep(h)
    PROVE  /\ WireInv' /\ ExecutedGrows /\ UNCHANGED venue
           /\ UNCHANGED <<wire, sent>> \/ submit_order_post(h)
  <1> USE OrderConstants DEF OrderConstants, TypeInv, TypeOK, VenueTypes
  <1>1. CASE submit_order_post(h)
    <2> DEFINE i == confirmer[h].intent
    <2>1. i \in Intents /\ sent[i] = 0
      BY <1>1 DEF submit_order_post, BusyActors, JournalInv, SubmitInv
    <2>2. /\ wire' = [wire EXCEPT ![i] = "in_flight"]
          /\ sent' = [sent EXCEPT ![i] = @ + 1]
          /\ UNCHANGED venue
      BY <1>1 DEF submit_order_post
    <2>3. WireInv'
      BY <2>1, <2>2 DEF WireInv
    <2> QED
      BY <1>1, <2>2, <2>3 DEF ExecutedGrows
  <1>2. CASE UNCHANGED venueVars
    BY <1>2 DEF venueVars, WireInv, ExecutedGrows
  <1> QED
    BY <1>1, <1>2
    DEF ConfirmStep, confirm_order_check, confirm_order_lock, confirm_order_gate_blocked,
        confirm_order_risk_rejected, confirm_order_risk_passed, confirm_order_duplicate,
        confirm_order_commit, submit_order_credentials, submit_order_unavailable,
        submit_order_ack, submit_order_unknown, confirm_order_dies, FinishConfirm

\* The other steps leave the exchange alone.
LEMMA OtherStepEffect ==
    ASSUME TypeInv, WireInv,
           \/ Gate \/ order_frequency_elapses \/ UNCHANGED vars
           \/ \E i \in Intents, source \in Sources : preview_order(i, source)
           \/ \E i \in Intents : confirmation_window_ends(i) \/ confirm_order_expired(i)
           \/ \E s \in Syncers : SyncStep(s)
    PROVE  WireInv' /\ ExecutedGrows /\ UNCHANGED <<venueVars, confirmer>>
  <1>1. UNCHANGED <<venueVars, confirmer>>
    BY DEF Gate, order_frequency_elapses, preview_order, confirmation_window_ends,
           confirm_order_expired, SyncStep, sync_order_status_load, query_order_found,
           query_order_not_found, _apply_fills, sync_order_status_fails, vars, actorVars
  <1> QED
    BY <1>1, OrderConstants
    DEF OrderConstants, venueVars, WireInv, ExecutedGrows, TypeInv, TypeOK, VenueTypes

\* Every step keeps what the wire tells about the exchange.
LEMMA WireStep ==
    TypeInv /\ JournalInv /\ WireInv /\ [Next]_vars => WireInv' /\ ExecutedGrows
  BY VenueStepEffect, CancelStepEffect, ConfirmStepEffect, OtherStepEffect DEF Next

-----------------------------------------------------------------------------
(* Rejections *)

\* A step of a confirmation writes a rejection only after an answer that rules
\* the order out, and it was the only request that could still post it.
LEMMA RejectConfirm ==
    ASSUME TypeInv, JournalInv, WireInv, RejectInv, NEW h \in Confirmers, ConfirmStep(h)
    PROVE  RejectInv'
  <1> SUFFICES ASSUME NEW j \in Intents, order'[j].status = "rejected"
               PROVE  /\ Refused(j)'
                      /\ \A g \in Confirmers :
                            confirmer'[g].pc \in Submitting => confirmer'[g].intent # j
    BY DEF RejectInv
  <1>a. /\ confirmer \in [Confirmers -> ConfirmerState]
        /\ confirmer[h].pc # "idle" => confirmer[h].intent \in Intents
        /\ order \in [Intents -> [status : LiveOrderStatus \cup {"none"}, filled : Nat]]
    BY DEF TypeInv, TypeOK, RowTypes, ActorTypes, BusyActors
  <1>b. UNCHANGED venue
    BY ConfirmStepEffect
  <1>1. ASSUME NEW status \in LiveOrderStatus, FinishConfirm(h, status),
               confirmer[h].pc \in Submitting,
               status = "rejected" => Refused(confirmer[h].intent)
        PROVE  /\ Refused(j)'
               /\ \A g \in Confirmers :
                     confirmer'[g].pc \in Submitting => confirmer'[g].intent # j
    <2>1. UNCHANGED <<venue, wire>>
      BY <1>1 DEF FinishConfirm, venueVars
    <2>2. /\ \A g \in Confirmers \ {h} : confirmer'[g] = confirmer[g]
          /\ confirmer'[h].pc = "idle"
      BY <1>1, <1>a DEF FinishConfirm, ConfirmIdle
    <2>3. CASE j = confirmer[h].intent
      <3>1. status = "rejected"
        BY <1>1, <1>a, <2>3 DEF FinishConfirm
      <3>2. \A g \in Confirmers \ {h} :
               confirmer[g].pc \in Submitting => confirmer[g].intent # j
        BY <1>1, <2>3 DEF JournalInv, SubmitInv
      <3> QED
        BY <1>1, <2>1, <2>2, <2>3, <3>1, <3>2 DEF Submitting, Refused
    <2>4. CASE j # confirmer[h].intent
      <3>1. order[j].status = "rejected"
        BY <1>1, <1>a, <2>4 DEF FinishConfirm
      <3> QED
        BY <2>1, <2>2, <3>1 DEF RejectInv, Refused, Submitting
    <2> QED
      BY <2>3, <2>4
  <1>2. CASE submit_order_ack(h)
    <2> DEFINE answer == wire[confirmer[h].intent]
    <2>1. /\ confirmer[h].pc = "await"
          /\ answer \in LiveOrderStatus \cup {"server_error"}
          /\ FinishConfirm(h, Recorded(answer))
      BY <1>2 DEF submit_order_ack
    <2>2. confirmer[h].intent \in Intents
      BY <1>a, <2>1
    <2>3. Recorded(answer) \in LiveOrderStatus
      BY <2>1 DEF Recorded, LiveOrderStatus, TERMINAL_ORDER_STATUSES
    <2>4. Recorded(answer) = "rejected" => answer \in {"rejected", "server_error"}
      BY DEF Recorded
    <2>5. Recorded(answer) = "rejected" => Refused(confirmer[h].intent)
      BY <2>2, <2>4 DEF WireInv, Refused
    <2> QED
      BY <1>1, <2>1, <2>3, <2>5 DEF Submitting
  <1>3. CASE submit_order_unavailable(h)
    <2>1. confirmer[h].pc \in {"submit", "verify"} /\ FinishConfirm(h, "rejected")
      BY <1>3 DEF submit_order_unavailable
    <2>2. confirmer[h].intent \in Intents /\ sent[confirmer[h].intent] = 0
      BY <1>a, <2>1 DEF JournalInv, SubmitInv
    <2>3. venue[confirmer[h].intent].state = "absent" /\ wire[confirmer[h].intent] = "none"
      BY <2>2 DEF WireInv
    <2>4. "rejected" \in LiveOrderStatus
      BY DEF LiveOrderStatus, TERMINAL_ORDER_STATUSES
    <2> QED
      BY <1>1, <2>1, <2>3, <2>4 DEF Submitting, Refused
  <1>4. CASE submit_order_unknown(h)
    <2>1. "unknown" \in LiveOrderStatus
      BY DEF LiveOrderStatus, OpenStatuses
    <2> QED
      BY <1>1, <1>4, <2>1 DEF submit_order_unknown, Submitting
  <1>5. CASE submit_order_post(h)
    <2>1. order[j].status = "rejected"
      BY <1>5 DEF submit_order_post, dbVars
    <2>2. confirmer[h].intent # j /\ confirmer[h].pc = "verify"
      BY <1>5, <2>1 DEF submit_order_post, RejectInv, Submitting
    <2>3. wire' = [wire EXCEPT ![confirmer[h].intent] = "in_flight"]
          /\ confirmer' = [confirmer EXCEPT ![h].pc = "await"]
      BY <1>5 DEF submit_order_post
    <2> QED
      BY <1>a, <1>b, <2>1, <2>2, <2>3
      DEF RejectInv, Refused, ConfirmerState, TypeInv, TypeOK, VenueTypes, Submitting
  <1>6. CASE confirm_order_commit(h)
    <2>1. /\ order[confirmer[h].intent].status = "none"
          /\ order' = [order EXCEPT ![confirmer[h].intent].status = "pending"]
          /\ confirmer' = [confirmer EXCEPT ![h].pc = "submit"]
          /\ UNCHANGED wire
      BY <1>6 DEF confirm_order_commit, venueVars
    <2>2. order[j].status = "rejected" /\ confirmer[h].intent # j
      BY <1>a, <2>1
    <2> QED
      BY <1>a, <1>b, <2>1, <2>2 DEF RejectInv, Refused, ConfirmerState
  <1>7. ASSUME UNCHANGED <<order, wire>>,
               \A g \in Confirmers : confirmer'[g].pc \in Submitting =>
                  confirmer[g].pc \in Submitting /\ confirmer'[g].intent = confirmer[g].intent
        PROVE  /\ Refused(j)'
               /\ \A g \in Confirmers :
                     confirmer'[g].pc \in Submitting => confirmer'[g].intent # j
    BY <1>b, <1>7 DEF RejectInv, Refused
  <1>8. ASSUME NEW i \in Intents, NEW admin \in BOOLEAN, confirm_order_check(h, i, admin)
        PROVE  /\ Refused(j)'
               /\ \A g \in Confirmers :
                     confirmer'[g].pc \in Submitting => confirmer'[g].intent # j
    BY <1>a, <1>7, <1>8 DEF confirm_order_check, dbVars, venueVars, Submitting
  <1>9. CASE \/ confirm_order_lock(h) \/ confirm_order_risk_passed(h)
             \/ submit_order_credentials(h)
    BY <1>a, <1>7, <1>9 DEF confirm_order_lock, confirm_order_risk_passed,
       submit_order_credentials, dbVars, venueVars, Submitting, ConfirmerState
  <1>10. CASE \/ confirm_order_gate_blocked(h) \/ confirm_order_risk_rejected(h)
              \/ confirm_order_duplicate(h) \/ confirm_order_dies(h)
    BY <1>a, <1>7, <1>10
    DEF confirm_order_gate_blocked, confirm_order_risk_rejected, confirm_order_duplicate,
        confirm_order_dies, dbVars, venueVars, Submitting, ConfirmIdle
  <1> QED
    BY <1>2, <1>3, <1>4, <1>5, <1>6, <1>8, <1>9, <1>10 DEF ConfirmStep

\* Nothing else writes a rejection, and an order that was refused stays so.
LEMMA RejectStep ==
    TypeInv /\ JournalInv /\ WireInv /\ RejectInv /\ [Next]_vars => RejectInv'
  <1> SUFFICES ASSUME TypeInv, JournalInv, WireInv, RejectInv, [Next]_vars PROVE RejectInv'
    OBVIOUS
  <1>1. ASSUME UNCHANGED confirmer,
               \A j \in Intents : order'[j].status = "rejected" => order[j].status = "rejected",
               \A j \in Intents : Refused(j) => Refused(j)'
        PROVE  RejectInv'
    BY <1>1 DEF RejectInv
  <1>2. CASE \E i \in Intents : VenueStep(i)
    BY <1>1, <1>2, VenueStepEffect, OthersKeepJournal
  <1>3. CASE \E c \in Cancelers : CancelStep(c)
    BY <1>1, <1>3, CancelStepEffect, OthersKeepJournal DEF Refused
  <1>4. CASE \E s \in Syncers : SyncStep(s)
    BY <1>1, <1>4, OtherStepEffect, OthersKeepJournal DEF venueVars, Refused
  <1>5. CASE \/ Gate \/ order_frequency_elapses \/ UNCHANGED vars
             \/ \E i \in Intents, source \in Sources : preview_order(i, source)
             \/ \E i \in Intents : confirmation_window_ends(i) \/ confirm_order_expired(i)
    <2>1. UNCHANGED order
      BY <1>5 DEF Gate, order_frequency_elapses, preview_order, confirmation_window_ends,
                  confirm_order_expired, vars, dbVars
    <2> QED
      BY <1>1, <1>5, <2>1, OtherStepEffect DEF venueVars, Refused
  <1> QED
    BY <1>2, <1>3, <1>4, <1>5, RejectConfirm DEF Next

-----------------------------------------------------------------------------
(* Fills *)

\* Two disjoint sets of trades count together.
LEMMA CountTrades ==
    ASSUME NEW trades \in Nat, NEW m \in Nat, NEW known \in SUBSET (1..m)
    PROVE  Cardinality(known \cup ((1..trades) \ known))
              = Cardinality(known) + Cardinality((1..trades) \ known)
           /\ Cardinality(known) \in Nat
  <1>1. IsFiniteSet(known)
    <2>1. IsFiniteSet(1..m)
      BY FS_Interval
    <2> QED
      BY <2>1, FS_Subset
  <1>2. IsFiniteSet((1..trades) \ known)
    BY NewTrades
  <1>3. known \cap ((1..trades) \ known) = {}
    OBVIOUS
  <1>4. Cardinality({}) = 0
    BY FS_EmptySet
  <1>5. /\ Cardinality(known) \in Nat
        /\ Cardinality((1..trades) \ known) \in Nat
    BY <1>1, <1>2, FS_CardinalityType
  <1>6. Cardinality(known \cup ((1..trades) \ known))
           = Cardinality(known) + Cardinality((1..trades) \ known)
                - Cardinality(known \cap ((1..trades) \ known))
    BY <1>1, <1>2, FS_Union
  <1>7. Cardinality(known \cap ((1..trades) \ known)) = 0
    BY <1>3, <1>4
  <1> DEFINE a == Cardinality(known \cup ((1..trades) \ known))
             b == Cardinality(known)
             c == Cardinality((1..trades) \ known)
             d == Cardinality(known \cap ((1..trades) \ known))
  <1>8. a = b + c - d /\ d = 0 /\ b \in Nat /\ c \in Nat
    BY <1>5, <1>6, <1>7
  <1> HIDE DEF a, b, c, d
  <1>9. a = b + c /\ b \in Nat
    BY <1>8
  <1> QED
    BY <1>9 DEF a, b, c

\* A step that leaves the fill and ledger rows and filled_quantity alone keeps
\* BookInv, if what a sync loads is what is in the row.
LEMMA BookFrame ==
    ASSUME TypeInv, BookInv, UNCHANGED <<fills, booked>>, ExecutedGrows,
           venue' \in [Intents -> [state : VenueStates, executed : 0..Quantity]],
           \A i \in Intents : order'[i].filled = order[i].filled,
           \A s \in Syncers : syncer'[s].pc # "idle" =>
              \/ /\ syncer[s].pc # "idle"
                 /\ syncer'[s].intent = syncer[s].intent
                 /\ syncer'[s].filled = syncer[s].filled
              \/ \E i \in Intents : /\ syncer'[s].intent = i
                                    /\ syncer'[s].filled = order[i].filled
    PROVE  BookInv'
  <1>1. NeverOverbooked'
    <2> SUFFICES ASSUME NEW i \in Intents
                 PROVE  /\ fills'[i] \subseteq 1..venue'[i].executed
                        /\ booked'[i] = Cardinality(fills'[i])
                        /\ order'[i].filled <= booked'[i]
      BY DEF NeverOverbooked
    <2>1. /\ venue[i].executed \in Nat /\ venue'[i].executed \in Nat
          /\ venue'[i].executed >= venue[i].executed
      BY OrderConstants DEF OrderConstants, ExecutedGrows, TypeInv, TypeOK, VenueTypes
    <2> QED
      BY <2>1 DEF BookInv, NeverOverbooked
  <1>2. \A s \in Syncers : syncer'[s].pc # "idle" =>
          syncer'[s].filled <= booked'[syncer'[s].intent]
    BY DEF BookInv, NeverOverbooked
  <1> QED
    BY <1>1, <1>2 DEF BookInv

\* Applying the reported trades books the new ones and only those.
LEMMA BookApply ==
    ASSUME TypeInv, BookInv, NEW s \in Syncers, NEW trades \in 0..Quantity,
           _apply_fills(s, trades)
    PROVE  BookInv'
  <1> DEFINE i == syncer[s].intent
             new == (1..trades) \ fills[i]
             n == Cardinality(new)
  <1>1. /\ i \in Intents /\ syncer[s].pc # "idle" /\ syncer[s].filled \in Nat
        /\ syncer \in [Syncers -> SyncerState]
        /\ fills \in [Intents -> SUBSET (1..Quantity)]
        /\ booked \in [Intents -> Nat]
        /\ order \in [Intents -> [status : LiveOrderStatus \cup {"none"}, filled : Nat]]
        /\ trades \in Nat /\ Quantity \in Nat
    BY OrderConstants
    DEF OrderConstants, _apply_fills, TypeInv, TypeOK, RowTypes, ActorTypes, BusyActors,
        SyncerState
  <1>2. /\ n \in Nat
        /\ Cardinality(fills[i] \cup new) = Cardinality(fills[i]) + n
    BY <1>1, NewTrades, CountTrades
  <1>3. new \subseteq 1..venue[i].executed
    <2>1. venue[i].executed \in Nat
      BY <1>1 DEF TypeInv, TypeOK, VenueTypes
    <2>2. trades <= venue[i].executed
      BY <1>1, <2>1 DEF _apply_fills, _order_fills
    <2> QED
      BY <1>1, <2>1, <2>2
  <1>4. /\ fills' = [fills EXCEPT ![i] = @ \cup new]
        /\ booked' = [booked EXCEPT ![i] = @ + n]
        /\ syncer' = [syncer EXCEPT ![s] = SyncIdle]
        /\ UNCHANGED venue
    BY DEF _apply_fills, SyncDone, venueVars
  <1>5. /\ order'[i].filled \in {order[i].filled, syncer[s].filled + n}
        /\ \A j \in Intents \ {i} : order'[j] = order[j]
    BY <1>1 DEF _apply_fills, WriteBack
  <1> HIDE DEF n, new, i
  <1>6. /\ booked[i] = Cardinality(fills[i]) /\ fills[i] \subseteq 1..venue[i].executed
        /\ order[i].filled <= booked[i] /\ syncer[s].filled <= booked[i]
        /\ order[i].filled \in Nat /\ booked[i] \in Nat
    BY <1>1 DEF BookInv, NeverOverbooked, i
  <1>7. /\ fills'[i] \subseteq 1..venue[i].executed
        /\ booked'[i] = Cardinality(fills'[i])
        /\ booked'[i] = booked[i] + n
    BY <1>1, <1>2, <1>3, <1>4, <1>6
  <1>8. order'[i].filled <= booked'[i]
    BY <1>1, <1>2, <1>5, <1>6, <1>7
  <1>9. \A j \in Intents \ {i} : fills'[j] = fills[j] /\ booked'[j] = booked[j]
    BY <1>1, <1>4
  <1>10. NeverOverbooked'
    BY <1>4, <1>5, <1>7, <1>8, <1>9 DEF BookInv, NeverOverbooked
  <1>11. ASSUME NEW z \in Syncers, syncer'[z].pc # "idle"
         PROVE  syncer'[z].filled <= booked'[syncer'[z].intent]
    <2>1. z # s /\ syncer'[z] = syncer[z]
      BY <1>1, <1>4, <1>11 DEF SyncIdle
    <2>2. /\ syncer[z].intent \in Intents /\ syncer[z].filled \in Nat
          /\ syncer[z].filled <= booked[syncer[z].intent]
      BY <1>1, <1>11, <2>1 DEF BookInv, TypeInv, BusyActors, SyncerState
    <2>3. n \in Nat /\ booked[syncer[z].intent] \in Nat
      BY <1>1, <1>2, <2>2
    <2>4. CASE syncer[z].intent = i
      BY <1>7, <2>1, <2>2, <2>3, <2>4
    <2>5. CASE syncer[z].intent # i
      BY <1>9, <2>1, <2>2, <2>5
    <2> QED
      BY <2>4, <2>5
  <1> QED
    BY <1>10, <1>11 DEF BookInv

\* Every step keeps the books within what the exchange executed.
LEMMA BookStep ==
    TypeInv /\ TypeInv' /\ JournalInv /\ WireInv /\ BookInv /\ [Next]_vars => BookInv'
  <1> SUFFICES ASSUME TypeInv, TypeInv', JournalInv, WireInv, BookInv, [Next]_vars
               PROVE  BookInv'
    OBVIOUS
  <1>a. ExecutedGrows
    BY WireStep
  <1>b. venue' \in [Intents -> [state : VenueStates, executed : 0..Quantity]]
    BY DEF TypeInv, TypeOK, VenueTypes
  <1>c. order \in [Intents -> [status : LiveOrderStatus \cup {"none"}, filled : Nat]]
    BY DEF TypeInv, TypeOK, RowTypes
  <1>d. ASSUME UNCHANGED <<fills, booked, syncer>>,
               \A i \in Intents : order'[i].filled = order[i].filled
        PROVE  BookInv'
    BY <1>a, <1>b, <1>d, BookFrame
  <1>1. ASSUME NEW h \in Confirmers, ConfirmStep(h) PROVE BookInv'
    <2>1. UNCHANGED <<fills, booked, syncer>>
      BY <1>1
      DEF ConfirmStep, confirm_order_check, confirm_order_lock,
          confirm_order_gate_blocked, confirm_order_risk_rejected,
          confirm_order_risk_passed, confirm_order_duplicate, confirm_order_commit,
          submit_order_credentials, submit_order_unavailable, submit_order_post,
          submit_order_ack, submit_order_unknown, confirm_order_dies, FinishConfirm, dbVars
    <2>2. \/ UNCHANGED order
          \/ \E i, status : order' = [order EXCEPT ![i].status = status]
      BY <1>1
      DEF ConfirmStep, confirm_order_check, confirm_order_lock,
          confirm_order_gate_blocked, confirm_order_risk_rejected,
          confirm_order_risk_passed, confirm_order_duplicate, confirm_order_commit,
          submit_order_credentials, submit_order_unavailable, submit_order_post,
          submit_order_ack, submit_order_unknown, confirm_order_dies, FinishConfirm, dbVars
    <2>3. \A i \in Intents : order'[i].filled = order[i].filled
      BY <1>c, <2>2
    <2> QED
      BY <1>d, <2>1, <2>3
  <1>2. ASSUME NEW s \in Syncers, SyncStep(s) PROVE BookInv'
    <2>1. ASSUME NEW trades \in 0..Quantity, _apply_fills(s, trades) PROVE BookInv'
      BY <2>1, BookApply
    <2>2. CASE \/ \E i \in Intents : sync_order_status_load(s, i)
               \/ query_order_found(s) \/ query_order_not_found(s)
               \/ sync_order_status_fails(s)
      <3>1. UNCHANGED dbVars
        BY <2>2 DEF sync_order_status_load, query_order_found, query_order_not_found,
                    sync_order_status_fails
      <3>2. \A z \in Syncers : syncer'[z].pc # "idle" =>
               \/ /\ syncer[z].pc # "idle"
                  /\ syncer'[z].intent = syncer[z].intent
                  /\ syncer'[z].filled = syncer[z].filled
               \/ \E i \in Intents : /\ syncer'[z].intent = i
                                     /\ syncer'[z].filled = order[i].filled
        BY <2>2 DEF sync_order_status_load, query_order_found, query_order_not_found,
                    sync_order_status_fails, SyncDone, SyncIdle, TypeInv, TypeOK,
                    ActorTypes, SyncerState
      <3> QED
        BY <1>a, <1>b, <3>1, <3>2, BookFrame DEF dbVars
    <2> QED
      BY <1>2, <2>1, <2>2 DEF SyncStep
  <1>3. ASSUME NEW c \in Cancelers, CancelStep(c) PROVE BookInv'
    <2>1. UNCHANGED <<fills, booked, syncer>>
      BY <1>3 DEF CancelStep, cancel_order_load, cancel_order_venue, cancel_order_commit,
                  cancel_order_fails, dbVars
    <2>2. \/ UNCHANGED order
          \/ \E i, status : order' = [order EXCEPT ![i].status = status]
      BY <1>3 DEF CancelStep, cancel_order_load, cancel_order_venue, cancel_order_commit,
                  cancel_order_fails, dbVars
    <2>3. \A i \in Intents : order'[i].filled = order[i].filled
      BY <1>c, <2>2
    <2> QED
      BY <1>d, <2>1, <2>3
  <1>4. CASE \/ Gate \/ order_frequency_elapses \/ UNCHANGED vars
             \/ \E i \in Intents, source \in Sources : preview_order(i, source)
             \/ \E i \in Intents : \/ confirmation_window_ends(i)
                                   \/ confirm_order_expired(i)
                                   \/ VenueStep(i)
    <2>1. UNCHANGED <<fills, booked, syncer, order>>
      BY <1>4 DEF Gate, order_frequency_elapses, preview_order, confirmation_window_ends,
                  confirm_order_expired, vars, dbVars, actorVars, VenueStep, venue_refuses,
                  venue_accepts, request_lost, venue_executes, venue_expires
    <2> QED
      BY <1>d, <2>1
  <1> QED
    BY <1>1, <1>2, <1>3, <1>4 DEF Next

-----------------------------------------------------------------------------

\* What the rows say about the exchange holds in every reachable state.
THEOREM ExchangeInvariant ==
    Spec => [](TypeInv /\ JournalInv /\ WireInv /\ RejectInv /\ BookInv)
  <1>1. Init => WireInv /\ RejectInv
    BY DEF Init, WireInv, RejectInv
  <1>2. Init => BookInv
    <2>1. Cardinality({}) = 0
      BY FS_EmptySet
    <2> QED
      BY <2>1 DEF Init, BookInv, NeverOverbooked, SyncIdle
  <1> QED
    BY <1>1, <1>2, JournalInvariant, WireStep, RejectStep, BookStep, PTL DEF Spec

\* No trade is booked twice or without an execution, however syncs overlap.
THEOREM BooksFollowExecutions == Spec => []NeverOverbooked
  <1>1. BookInv => NeverOverbooked
    BY DEF BookInv
  <1> QED
    BY <1>1, ExchangeInvariant, PTL

\* A rejection on record is the exchange's answer or the end of an order that was
\* never posted, for any number of requests, timeouts, crashes and syncs.
THEOREM RejectionIsAnAnswer == Spec => []RejectedByAnswer
  <1>1. RejectInv => RejectedByAnswer
    BY DEF RejectInv, Refused, RejectedByAnswer
  <1> QED
    BY <1>1, ExchangeInvariant, PTL

-----------------------------------------------------------------------------
(* The life of an order *)

LEMMA PhaseSame ==
    ASSUME NEW i \in Intents, order'[i].status = "none" <=> order[i].status = "none",
           sent'[i] = sent[i], wire'[i] = wire[i], venue'[i].state = venue[i].state,
           Carried(i)' <=> Carried(i)
    PROVE  PhaseOf(i)' = PhaseOf(i)
  BY DEF PhaseOf

\* A change of one order's phase is a move of it, and none is a stuttering step.
LEMMA PhaseMoves ==
    ASSUME NEW i \in Intents, \A j \in Intents \ {i} : PhaseOf(j)' = PhaseOf(j),
           NEW from, NEW to, PhaseOf(i) = from, PhaseOf(i)' = to
    PROVE  Lifecycle!Move(i, from, to)
  BY DEF Lifecycle!Move

LEMMA LifecycleStays ==
    ASSUME \A i \in Intents : PhaseOf(i)' = PhaseOf(i) /\ venue'[i].executed = venue[i].executed,
           UNCHANGED <<paused, recent, booked>>
    PROVE  UNCHANGED Lifecycle!lifecycle
  BY DEF Lifecycle!lifecycle

\* A request carries its order until it ends.
LEMMA CarriedStays ==
    ASSUME TypeInv, NEW h \in Confirmers, NEW st, confirmer' = [confirmer EXCEPT ![h] = st],
           st.pc \in Submitting <=> confirmer[h].pc \in Submitting,
           st.pc \in Submitting => st.intent = confirmer[h].intent,
           NEW i \in Intents
    PROVE  Carried(i)' <=> Carried(i)
  BY DEF Carried, TypeInv, TypeOK, ActorTypes

LEMMA CarriedEnds ==
    ASSUME TypeInv, JournalInv, NEW h \in Confirmers, confirmer[h].pc \in Submitting,
           confirmer' = [confirmer EXCEPT ![h] = ConfirmIdle], NEW i \in Intents
    PROVE  /\ i # confirmer[h].intent => (Carried(i)' <=> Carried(i))
           /\ i = confirmer[h].intent => Carried(i) /\ ~Carried(i)'
<1>1. /\ \A g \in Confirmers \ {h} : confirmer'[g] = confirmer[g]
      /\ confirmer'[h].pc \notin Submitting
  BY DEF TypeInv, TypeOK, ActorTypes, ConfirmIdle, Submitting
<1>2. \A g \in Confirmers : confirmer[g].pc \in Submitting
                              /\ confirmer[g].intent = confirmer[h].intent => g = h
  BY DEF JournalInv, SubmitInv
<1> QED BY <1>1, <1>2 DEF Carried

\* An order that exists, and was not sent: somebody carries it, or nobody ever will.
LEMMA UnsentPhase ==
    ASSUME TypeInv, WireInv, NEW i \in Intents, order[i].status # "none", sent[i] = 0
    PROVE  PhaseOf(i) = IF Carried(i) THEN "journaled" ELSE "void"
<1>1. wire[i] = "none" /\ venue[i].state = "absent"
  BY DEF WireInv
<1> QED BY <1>1 DEF PhaseOf

\* The end of a request that submits abandons its order, unless it was sent.
LEMMA ConfirmEnds ==
    ASSUME TypeInv, TypeInv', JournalInv, WireInv, WireInv', NEW h \in Confirmers,
           confirmer[h].pc \in Submitting, confirmer' = [confirmer EXCEPT ![h] = ConfirmIdle],
           UNCHANGED <<venueVars, paused, recent, booked>>,
           \A i \in Intents : order'[i].status = "none" <=> order[i].status = "none"
    PROVE  [Lifecycle!LifecycleNext]_Lifecycle!lifecycle
<1>1. PICK i \in Intents :
         i = confirmer[h].intent /\ order[i].status # "none" /\ order'[i].status # "none"
  BY DEF TypeInv, BusyActors, JournalInv, SubmitInv, Submitting
<1>2. \A j \in Intents \ {i} : PhaseOf(j)' = PhaseOf(j)
  BY <1>1, CarriedEnds, PhaseSame DEF venueVars
<1>3. Carried(i) /\ ~Carried(i)'
  BY <1>1, CarriedEnds
<1>4. CASE sent[i] = 0
  <2>1. PhaseOf(i) = "journaled"
    BY <1>1, <1>3, <1>4, UnsentPhase
  <2>2. PhaseOf(i)' = "void"
    <3>1. wire'[i] = "none" /\ venue'[i].state = "absent" /\ sent'[i] = 0
      BY <1>1, <1>4 DEF WireInv, venueVars
    <3> QED BY <3>1, <1>1, <1>3 DEF PhaseOf
  <2>3. Lifecycle!Move(i, "journaled", "void")
    BY <1>1, <1>2, <2>1, <2>2, PhaseMoves
  <2>4. Lifecycle!Abandon(i)
    BY <2>3 DEF Lifecycle!Abandon, venueVars
  <2> QED BY <1>1, <2>4 DEF Lifecycle!LifecycleNext
<1>5. CASE sent[i] # 0
  <2>1. sent[i] \in Nat
    BY <1>1 DEF TypeInv, TypeOK, VenueTypes
  <2>2. PhaseOf(i)' = PhaseOf(i)
    BY <1>1, <1>5, <2>1 DEF PhaseOf, venueVars
  <2>3. UNCHANGED Lifecycle!lifecycle
    BY <1>2, <2>2, LifecycleStays DEF venueVars
  <2> QED BY <2>3
<1> QED BY <1>4, <1>5

\* A step of a request that neither creates, submits nor gives up an order.
LEMMA ConfirmWorks ==
    ASSUME TypeInv, NEW h \in Confirmers, NEW st, confirmer' = [confirmer EXCEPT ![h] = st],
           st.pc \in Submitting <=> confirmer[h].pc \in Submitting,
           st.pc \in Submitting => st.intent = confirmer[h].intent,
           UNCHANGED <<venueVars, paused, recent, booked>>,
           \A i \in Intents : order'[i].status = "none" <=> order[i].status = "none"
    PROVE  UNCHANGED Lifecycle!lifecycle
<1>1. \A i \in Intents : PhaseOf(i)' = PhaseOf(i)
  BY CarriedStays, PhaseSame DEF venueVars
<1> QED BY <1>1, LifecycleStays DEF venueVars

\* What a request's step does to the life of its order.
LEMMA ConfirmLifecycle ==
    ASSUME TypeInv, TypeInv', JournalInv, JournalInv', WireInv, WireInv',
           NEW h \in Confirmers, ConfirmStep(h)
    PROVE  [Lifecycle!LifecycleNext]_Lifecycle!lifecycle
<1>0. confirmer[h].pc # "idle" => confirmer[h].intent \in Intents
  BY DEF TypeInv, BusyActors
<1>1. CASE confirm_order_commit(h)
  <2>1. PICK i \in Intents : i = confirmer[h].intent /\ confirmer[h].pc = "passed"
    BY <1>0, <1>1 DEF confirm_order_commit
  <2>2. /\ order[i].status = "none" /\ ~paused /\ ~recent
        /\ order' = [order EXCEPT ![i].status = "pending"]
        /\ confirmer' = [confirmer EXCEPT ![h].pc = "submit"]
        /\ recent' = TRUE /\ UNCHANGED <<paused, booked, venueVars>>
    BY <1>1, <2>1 DEF confirm_order_commit, gate, JournalInv, LockInv
  <2>3. order'[i].status = "pending" /\ \A j \in Intents \ {i} : order'[j] = order[j]
    BY <2>2 DEF TypeInv, TypeOK, RowTypes
  <2>4. /\ confirmer'[h].pc = "submit" /\ confirmer'[h].intent = i
        /\ \A g \in Confirmers \ {h} : confirmer'[g] = confirmer[g]
    BY <2>1, <2>2 DEF TypeInv, TypeOK, ActorTypes, ConfirmerState
  <2>5. Carried(i)' /\ \A j \in Intents \ {i} : Carried(j)' <=> Carried(j)
    BY <2>1, <2>4 DEF Carried, Submitting
  <2>6. \A j \in Intents \ {i} : PhaseOf(j)' = PhaseOf(j)
    BY <2>2, <2>3, <2>5, PhaseSame DEF venueVars
  <2>7. sent'[i] = 0
    BY <2>2 DEF venueVars, JournalInv, SentInv
  <2>8. PhaseOf(i) = "intended" /\ PhaseOf(i)' = "journaled"
    <3>1. wire[i] = "none" /\ venue[i].state = "absent" /\ sent[i] = 0
      BY <2>2, <2>7 DEF WireInv, venueVars
    <3> QED BY <2>2, <2>3, <2>5, <2>7, <3>1 DEF PhaseOf, venueVars
  <2>9. Lifecycle!Move(i, "intended", "journaled")
    BY <2>6, <2>8, PhaseMoves
  <2>10. Lifecycle!Create(i)
    BY <2>2, <2>9 DEF Lifecycle!Create, venueVars
  <2> QED BY <2>10 DEF Lifecycle!LifecycleNext
<1>2. CASE submit_order_post(h)
  <2>1. PICK i \in Intents : i = confirmer[h].intent /\ confirmer[h].pc = "verify"
    BY <1>0, <1>2 DEF submit_order_post
  <2>2. /\ wire' = [wire EXCEPT ![i] = "in_flight"] /\ sent' = [sent EXCEPT ![i] = @ + 1]
        /\ confirmer' = [confirmer EXCEPT ![h].pc = "await"]
        /\ UNCHANGED <<paused, recent, order, booked, venue>>
    BY <1>2, <2>1 DEF submit_order_post, gate, dbVars
  <2>3. /\ wire'[i] = "in_flight" /\ sent'[i] = sent[i] + 1
        /\ \A j \in Intents \ {i} : wire'[j] = wire[j] /\ sent'[j] = sent[j]
    BY <2>2 DEF TypeInv, TypeOK, VenueTypes
  <2> DEFINE st == [confirmer[h] EXCEPT !.pc = "await"]
  <2>4. /\ confirmer' = [confirmer EXCEPT ![h] = st]
        /\ st.pc = "await" /\ st.intent = i
    BY <2>1, <2>2 DEF TypeInv, TypeOK, ActorTypes, ConfirmerState
  <2> HIDE DEF st
  <2>5. \A j \in Intents : Carried(j)' <=> Carried(j)
    BY <2>1, <2>4, CarriedStays DEF Submitting
  <2>6. \A j \in Intents \ {i} : PhaseOf(j)' = PhaseOf(j)
    BY <2>2, <2>3, <2>5, PhaseSame
  <2>7. order[i].status # "none" /\ sent[i] = 0 /\ Carried(i)
    BY <2>1 DEF JournalInv, SubmitInv, Submitting, Carried
  <2>8. PhaseOf(i) = "journaled"
    BY <2>7, UnsentPhase
  <2>9. PhaseOf(i)' = "sent"
    <3>1. order'[i].status # "none" /\ sent'[i] = 1 /\ wire'[i] = "in_flight"
          /\ venue'[i].state = "absent"
      BY <2>2, <2>3, <2>7 DEF WireInv
    <3> QED BY <3>1 DEF PhaseOf
  <2>10. Lifecycle!Move(i, "journaled", "sent")
    BY <2>6, <2>8, <2>9, PhaseMoves
  <2>11. Lifecycle!Submit(i)
    BY <2>2, <2>10 DEF Lifecycle!Submit
  <2> QED BY <2>11 DEF Lifecycle!LifecycleNext
<1>3. ASSUME NEW status \in LiveOrderStatus, FinishConfirm(h, status), confirmer[h].pc \in Submitting
      PROVE  [Lifecycle!LifecycleNext]_Lifecycle!lifecycle
  <2>1. /\ confirmer' = [confirmer EXCEPT ![h] = ConfirmIdle]
        /\ order' = [order EXCEPT ![confirmer[h].intent].status = status]
        /\ UNCHANGED <<venueVars, paused, recent, booked>>
    BY <1>3 DEF FinishConfirm, gate
  <2>2. order[confirmer[h].intent].status # "none" /\ status # "none"
    BY <1>3 DEF JournalInv, SubmitInv, LiveOrderStatus, TERMINAL_ORDER_STATUSES, OpenStatuses
  <2>3. \A i \in Intents : order'[i].status = "none" <=> order[i].status = "none"
    BY <2>1, <2>2 DEF TypeInv, TypeOK, RowTypes
  <2> QED BY <1>3, <2>1, <2>3, ConfirmEnds
<1>4. CASE submit_order_unavailable(h) \/ submit_order_ack(h) \/ submit_order_unknown(h)
  BY <1>3, <1>4, SubmissionEnds
<1>5. CASE confirm_order_dies(h)
  <2>1. /\ confirmer' = [confirmer EXCEPT ![h] = ConfirmIdle]
        /\ UNCHANGED <<venueVars, paused, recent, booked, order>>
    BY <1>5 DEF confirm_order_dies, gate, dbVars
  <2>2. CASE confirmer[h].pc \in Submitting
    BY <2>1, <2>2, ConfirmEnds
  <2>3. CASE confirmer[h].pc \notin Submitting
    <3>1. ConfirmIdle.pc \notin Submitting
      BY DEF ConfirmIdle, Submitting
    <3>2. UNCHANGED Lifecycle!lifecycle
      BY <2>1, <2>3, <3>1, ConfirmWorks
    <3> QED BY <3>2
  <2> QED BY <2>2, <2>3
<1>6. CASE \/ \E i \in Intents, admin \in BOOLEAN : confirm_order_check(h, i, admin)
           \/ confirm_order_lock(h) \/ confirm_order_gate_blocked(h)
           \/ confirm_order_risk_rejected(h) \/ confirm_order_risk_passed(h)
           \/ confirm_order_duplicate(h) \/ submit_order_credentials(h)
  <2>1. UNCHANGED <<venueVars, paused, recent, booked, order>>
    BY <1>6
    DEF confirm_order_check, confirm_order_lock, confirm_order_gate_blocked,
        confirm_order_risk_rejected, confirm_order_risk_passed, confirm_order_duplicate,
        submit_order_credentials, gate, dbVars
  <2>2. \E st :
          /\ confirmer' = [confirmer EXCEPT ![h] = st]
          /\ st.pc \in Submitting <=> confirmer[h].pc \in Submitting
          /\ st.pc \in Submitting => st.intent = confirmer[h].intent
    <3>1. confirmer \in [Confirmers -> ConfirmerState] /\ ConfirmIdle \in ConfirmerState
      BY DEF TypeInv, TypeOK, ActorTypes, ConfirmIdle, ConfirmerState
    <3>2. CASE \E i \in Intents, admin \in BOOLEAN : confirm_order_check(h, i, admin)
      <4>1. PICK i \in Intents : confirmer[h].pc = "idle" /\
              confirmer' = [confirmer EXCEPT ![h] = [pc |-> "want_lock", intent |-> i]]
        BY <3>2 DEF confirm_order_check
      <4> DEFINE st == [pc |-> "want_lock", intent |-> i]
      <4>2. st.pc \notin Submitting /\ confirmer[h].pc \notin Submitting
        BY <4>1 DEF Submitting
      <4> HIDE DEF st
      <4> QED BY <4>1, <4>2 DEF st
    <3>3. CASE confirm_order_gate_blocked(h) \/ confirm_order_risk_rejected(h)
               \/ confirm_order_duplicate(h)
      <4>1. confirmer[h].pc \notin Submitting /\ confirmer' = [confirmer EXCEPT ![h] = ConfirmIdle]
        BY <3>3 DEF confirm_order_gate_blocked, confirm_order_risk_rejected,
                    confirm_order_duplicate, Submitting
      <4>2. ConfirmIdle.pc \notin Submitting
        BY DEF ConfirmIdle, Submitting
      <4> QED BY <3>1, <4>1, <4>2
    <3>4. ASSUME NEW pc \in {"locked", "passed", "verify"},
                 confirmer' = [confirmer EXCEPT ![h].pc = pc],
                 pc \in Submitting <=> confirmer[h].pc \in Submitting
          PROVE  \E st :
                   /\ confirmer' = [confirmer EXCEPT ![h] = st]
                   /\ st.pc \in Submitting <=> confirmer[h].pc \in Submitting
                   /\ st.pc \in Submitting => st.intent = confirmer[h].intent
      <4> DEFINE st == [confirmer[h] EXCEPT !.pc = pc]
      <4>1. confirmer' = [confirmer EXCEPT ![h] = st]
        BY <3>4
      <4>2. st.pc = pc /\ st.intent = confirmer[h].intent
        BY <3>1 DEF ConfirmerState
      <4> HIDE DEF st
      <4> QED BY <3>4, <4>1, <4>2
    <3>5. CASE confirm_order_lock(h)
      BY <3>4, <3>5 DEF confirm_order_lock, Submitting
    <3>6. CASE confirm_order_risk_passed(h)
      BY <3>4, <3>6 DEF confirm_order_risk_passed, Submitting
    <3>7. CASE submit_order_credentials(h)
      BY <3>4, <3>7 DEF submit_order_credentials, Submitting
    <3> QED BY <1>6, <3>2, <3>3, <3>5, <3>6, <3>7
  <2>3. UNCHANGED Lifecycle!lifecycle
    BY <2>1, <2>2, ConfirmWorks
  <2> QED BY <2>3
<1> QED BY <1>1, <1>2, <1>4, <1>5, <1>6 DEF ConfirmStep

LEMMA ExecutedMoves ==
    ASSUME NEW i \in Intents, NEW n, venue'[i].executed = n,
           \A j \in Intents \ {i} : venue'[j] = venue[j]
    PROVE  [j \in Intents |-> venue'[j].executed]
             = [[j \in Intents |-> venue[j].executed] EXCEPT ![i] = n]
  OBVIOUS

\* A step of the exchange is one of the order it is about.
LEMMA VenueLifecycle ==
    ASSUME TypeInv, JournalInv, WireInv, WireInv', NEW i \in Intents, VenueStep(i)
    PROVE  [Lifecycle!LifecycleNext]_Lifecycle!lifecycle
<1> USE OrderConstants DEF OrderConstants
<1>0. /\ wire \in [Intents -> WireStates] /\ sent \in [Intents -> Nat]
      /\ venue \in [Intents -> [state : VenueStates, executed : 0..Quantity]]
  BY DEF TypeInv, TypeOK, VenueTypes
<1>1. UNCHANGED <<paused, recent, booked, order, sent, confirmer>>
  BY DEF VenueStep, venue_refuses, venue_accepts, request_lost, venue_executes,
         venue_expires, gate, dbVars, actorVars
<1>2. \A j \in Intents : Carried(j)' <=> Carried(j)
  BY <1>1 DEF Carried
<1>3. wire[i] = "in_flight" \/ venue[i].state = "open" => order[i].status # "none" /\ sent[i] = 1
  BY <1>0 DEF WireInv, JournalInv, SentInv
<1>4. CASE venue_refuses(i) \/ request_lost(i)
  <2>1. /\ wire[i] = "in_flight" /\ wire'[i] \in {"rejected", "server_error", "lost"}
        /\ UNCHANGED venue /\ \A j \in Intents \ {i} : wire'[j] = wire[j]
    BY <1>0, <1>4 DEF venue_refuses, request_lost
  <2>2. \A j \in Intents \ {i} : PhaseOf(j)' = PhaseOf(j)
    BY <1>1, <1>2, <2>1, PhaseSame
  <2>3. PhaseOf(i) = "sent" /\ PhaseOf(i)' = "void"
    <3>1. venue[i].state = "absent" /\ sent[i] = 1 /\ sent'[i] = 1 /\ order[i].status # "none"
      BY <1>1, <1>3, <2>1 DEF WireInv
    <3> QED BY <1>1, <2>1, <3>1 DEF PhaseOf
  <2>4. Lifecycle!Move(i, "sent", "void")
    BY <2>2, <2>3, PhaseMoves
  <2>5. Lifecycle!Refuse(i)
    BY <1>1, <2>1, <2>4 DEF Lifecycle!Refuse
  <2> QED BY <2>5 DEF Lifecycle!LifecycleNext
<1>5. ASSUME NEW state \in {"open", "filled", "expired"}, NEW n \in 0..Quantity,
             venue_accepts(i, state, n)
      PROVE  [Lifecycle!LifecycleNext]_Lifecycle!lifecycle
  <2>1. /\ wire[i] = "in_flight"
        /\ venue' = [venue EXCEPT ![i] = [state |-> state, executed |-> n]]
        /\ state = "filled" <=> n = Quantity
    BY <1>5 DEF venue_accepts
  <2>2. /\ venue'[i] = [state |-> state, executed |-> n] /\ wire'[i] # "in_flight"
        /\ \A j \in Intents \ {i} : wire'[j] = wire[j] /\ venue'[j] = venue[j]
    <3>1. \A answer : wire' = [wire EXCEPT ![i] = answer] =>
            wire'[i] = answer /\ \A j \in Intents \ {i} : wire'[j] = wire[j]
      BY <1>0
    <3> DEFINE answered == ORDER_STATE_MAP([state |-> state, executed |-> n])
    <3>2. answered # "in_flight"
      BY DEF ORDER_STATE_MAP
    <3>3. PICK answer \in {answered, "lost", "server_error"} : wire' = [wire EXCEPT ![i] = answer]
      BY <1>5 DEF venue_accepts
    <3> HIDE DEF answered
    <3>4. wire'[i] # "in_flight" /\ \A j \in Intents \ {i} : wire'[j] = wire[j]
      BY <3>1, <3>2, <3>3
    <3> QED BY <1>0, <2>1, <3>4
  <2>3. \A j \in Intents \ {i} : PhaseOf(j)' = PhaseOf(j)
    BY <1>1, <1>2, <2>2, PhaseSame
  <2>4. PhaseOf(i) = "sent" /\ PhaseOf(i)' = IF state = "open" THEN "live" ELSE "over"
    <3>1. sent[i] = 1 /\ sent'[i] = 1 /\ order[i].status # "none" /\ order'[i].status # "none"
      BY <1>1, <1>3, <2>1
    <3>2. PhaseOf(i) = "sent"
      <4>1. venue[i].state = "absent"
        BY <2>1 DEF WireInv
      <4> QED BY <2>1, <3>1, <4>1 DEF PhaseOf
    <3>3. venue'[i].state = state /\ wire'[i] # "in_flight"
      BY <2>2
    <3>4. PhaseOf(i)' = IF state = "open" THEN "live" ELSE "over"
      BY <3>1, <3>3 DEF PhaseOf
    <3> QED BY <3>2, <3>4
  <2>5. Lifecycle!Move(i, "sent", IF state = "open" THEN "live" ELSE "over")
    BY <2>3, <2>4, PhaseMoves
  <2>6. state = "open" => n < Quantity
    BY <2>1
  <2>7. [j \in Intents |-> venue'[j].executed]
           = [[j \in Intents |-> venue[j].executed] EXCEPT ![i] = n]
    <3>1. venue'[i].executed = n
      BY <2>2
    <3> QED BY <2>2, <3>1, ExecutedMoves
  <2>8. Lifecycle!Accept(i, n)
    BY <1>1, <2>5, <2>6, <2>7 DEF Lifecycle!Accept
  <2> QED BY <2>8 DEF Lifecycle!LifecycleNext
<1>6. ASSUME venue[i].state = "open", UNCHANGED wire, NEW state \in VenueStates \ {"absent"},
             venue'[i].state = state, \A j \in Intents \ {i} : venue'[j] = venue[j]
      PROVE  Lifecycle!Move(i, "live", IF state = "open" THEN "live" ELSE "over")
  <2>1. \A j \in Intents \ {i} : PhaseOf(j)' = PhaseOf(j)
    BY <1>1, <1>2, <1>6, PhaseSame
  <2>2. wire[i] # "in_flight" /\ sent[i] = 1 /\ sent'[i] = 1 /\ order'[i].status # "none"
        /\ order[i].status # "none"
    BY <1>1, <1>3, <1>6 DEF WireInv
  <2>3. PhaseOf(i) = "live" /\ PhaseOf(i)' = IF state = "open" THEN "live" ELSE "over"
    BY <1>6, <2>2 DEF PhaseOf, VenueStates
  <2> QED BY <2>1, <2>3, PhaseMoves
<1>7. CASE venue_executes(i)
  <2> DEFINE n == venue[i].executed + 1
             state == IF n = Quantity THEN "filled" ELSE "open"
  <2>1. /\ venue[i].state = "open" /\ UNCHANGED wire
        /\ venue' = [venue EXCEPT ![i] = [state |-> state, executed |-> n]]
    BY <1>7 DEF venue_executes
  <2>2. /\ venue'[i] = [state |-> state, executed |-> n] /\ state \in VenueStates \ {"absent"}
        /\ \A j \in Intents \ {i} : venue'[j] = venue[j]
    BY <1>0, <2>1 DEF VenueStates
  <2>3. Lifecycle!Move(i, "live", IF state = "open" THEN "live" ELSE "over")
    BY <1>6, <2>1, <2>2
  <2>4. n < Quantity \/ n = Quantity
    BY <1>0, <2>1 DEF TypeInv, OpenHasRest
  <2>5. [j \in Intents |-> venue'[j].executed]
           = [[j \in Intents |-> venue[j].executed] EXCEPT ![i] = n]
    <3>1. venue'[i].executed = n
      BY <2>2
    <3> QED BY <2>2, <3>1, ExecutedMoves
  <2>6. Lifecycle!Execute(i)
    BY <1>1, <2>3, <2>4, <2>5 DEF Lifecycle!Execute
  <2> QED BY <2>6 DEF Lifecycle!LifecycleNext
<1>8. CASE venue_expires(i)
  <2>1. /\ venue[i].state = "open" /\ UNCHANGED wire /\ venue'[i].state = "expired"
        /\ \A j \in Intents \ {i} : venue'[j] = venue[j]
        /\ \A j \in Intents : venue'[j].executed = venue[j].executed
    BY <1>0, <1>8 DEF venue_expires
  <2>2. Lifecycle!Move(i, "live", "over")
    BY <1>6, <2>1 DEF VenueStates
  <2>3. Lifecycle!End(i)
    BY <1>1, <2>1, <2>2 DEF Lifecycle!End
  <2> QED BY <2>3 DEF Lifecycle!LifecycleNext
<1> QED BY <1>4, <1>5, <1>7, <1>8 DEF VenueStep

\* A cancellation ends an order that is live, and nothing else.
LEMMA CancelLifecycle ==
    ASSUME TypeInv, JournalInv, WireInv, NEW c \in Cancelers, CancelStep(c)
    PROVE  [Lifecycle!LifecycleNext]_Lifecycle!lifecycle
<1>0. /\ venue \in [Intents -> [state : VenueStates, executed : 0..Quantity]]
      /\ order \in [Intents -> [status : LiveOrderStatus \cup {"none"}, filled : Nat]]
      /\ sent \in [Intents -> Nat]
  BY DEF TypeInv, TypeOK, VenueTypes, RowTypes
<1>1. /\ UNCHANGED <<paused, recent, booked, sent, wire, confirmer>>
      /\ \A i \in Intents : order'[i].status = "none" <=> order[i].status = "none"
  <2>1. CASE cancel_order_commit(c)
    <3>1. PICK i \in Intents : i = canceler[c].intent /\ order[i].status # "none"
      BY <2>1 DEF cancel_order_commit, TypeInv, BusyActors
    <3>2. \E status : status # "none" /\ order' = [order EXCEPT ![i].status = status]
      BY <2>1, <3>1 DEF cancel_order_commit, WriteBack
    <3>3. \A j \in Intents : order'[j].status = "none" <=> order[j].status = "none"
      BY <1>0, <3>1, <3>2
    <3> QED BY <2>1, <3>3 DEF cancel_order_commit, gate, venueVars
  <2>2. CASE ~cancel_order_commit(c)
    BY <2>2 DEF CancelStep, cancel_order_load, cancel_order_venue, cancel_order_fails,
                gate, dbVars, venueVars
  <2> QED BY <2>1, <2>2
<1>2. \A j \in Intents : Carried(j)' <=> Carried(j)
  BY <1>1 DEF Carried
<1>3. CASE UNCHANGED venue
  <2>1. \A j \in Intents : PhaseOf(j)' = PhaseOf(j)
    BY <1>1, <1>2, <1>3, PhaseSame
  <2>2. UNCHANGED Lifecycle!lifecycle
    BY <1>1, <1>3, <2>1, LifecycleStays
  <2> QED BY <2>2
<1>4. CASE ~UNCHANGED venue
  <2>1. cancel_order_venue(c)
    BY <1>4 DEF CancelStep, cancel_order_load, cancel_order_commit, cancel_order_fails, venueVars
  <2>2. PICK i \in Intents : i = canceler[c].intent
    BY <2>1 DEF cancel_order_venue, TypeInv, BusyActors
  <2>3. /\ venue[i].state = "open" /\ venue'[i].state = "canceled"
        /\ \A j \in Intents \ {i} : venue'[j] = venue[j]
        /\ \A j \in Intents : venue'[j].executed = venue[j].executed
    <3>1. venue' = [venue EXCEPT ![i].state = IF @ = "open" THEN "canceled" ELSE @]
      BY <2>1, <2>2 DEF cancel_order_venue
    <3>2. venue[i].state = "open"
      BY <1>0, <1>4, <3>1
    <3> QED BY <1>0, <3>1, <3>2
  <2>4. \A j \in Intents \ {i} : PhaseOf(j)' = PhaseOf(j)
    BY <1>1, <1>2, <2>3, PhaseSame
  <2>5. wire[i] # "in_flight" /\ sent[i] = 1 /\ order[i].status # "none"
    BY <1>0, <2>3 DEF WireInv, JournalInv, SentInv
  <2>6. PhaseOf(i) = "live" /\ PhaseOf(i)' = "over"
    BY <1>1, <2>3, <2>5 DEF PhaseOf
  <2>7. Lifecycle!Move(i, "live", "over")
    BY <2>4, <2>6, PhaseMoves
  <2>8. Lifecycle!End(i)
    BY <1>1, <2>3, <2>7 DEF Lifecycle!End
  <2> QED BY <2>8 DEF Lifecycle!LifecycleNext
<1> QED BY <1>3, <1>4

\* A sync books what was executed, and changes nothing else of an order's life.
LEMMA SyncLifecycle ==
    ASSUME TypeInv, TypeInv', BookInv, BookInv', NEW s \in Syncers, SyncStep(s)
    PROVE  [Lifecycle!LifecycleNext]_Lifecycle!lifecycle
<1>0. /\ order \in [Intents -> [status : LiveOrderStatus \cup {"none"}, filled : Nat]]
      /\ fills \in [Intents -> SUBSET (1..Quantity)]
      /\ booked \in [Intents -> Nat]
  BY DEF TypeInv, TypeOK, RowTypes
<1>1. UNCHANGED <<paused, recent, venueVars, confirmer>>
  BY DEF SyncStep, sync_order_status_load, query_order_found, query_order_not_found,
         _apply_fills, sync_order_status_fails, gate, dbVars
<1>2. \A j \in Intents : Carried(j)' <=> Carried(j)
  BY <1>1 DEF Carried
<1>3. CASE UNCHANGED <<order, booked>>
  <2>1. \A j \in Intents : PhaseOf(j)' = PhaseOf(j)
    BY <1>1, <1>2, <1>3, PhaseSame DEF venueVars
  <2>2. UNCHANGED Lifecycle!lifecycle
    BY <1>1, <1>3, <2>1, LifecycleStays DEF venueVars
  <2> QED BY <2>2
<1>4. ASSUME NEW trades \in 0..Quantity, _apply_fills(s, trades)
      PROVE  [Lifecycle!LifecycleNext]_Lifecycle!lifecycle
  <2>1. PICK i \in Intents : /\ i = syncer[s].intent /\ order[i].status # "none"
                             /\ syncer[s].found # "none"
    BY <1>4 DEF _apply_fills, TypeInv, BusyActors, LiveOrderStatus, TERMINAL_ORDER_STATUSES,
                OpenStatuses
  <2>2. \A j \in Intents : order'[j].status = "none" <=> order[j].status = "none"
    <3>1. \E status, filled : status # "none" /\ order' =
             [order EXCEPT ![i] = [status |-> WriteBack(syncer[s].status, status, @.status),
                                   filled |-> filled]]
      BY <1>4, <2>1 DEF _apply_fills
    <3>2. order'[i].status # "none" /\ \A j \in Intents \ {i} : order'[j] = order[j]
      BY <1>0, <2>1, <3>1 DEF WriteBack
    <3> QED BY <2>1, <3>2
  <2>3. \A j \in Intents : PhaseOf(j)' = PhaseOf(j) /\ venue'[j].executed = venue[j].executed
    BY <1>1, <1>2, <2>2, PhaseSame DEF venueVars
  <2> DEFINE n == Cardinality((1..trades) \ fills[i])
  <2>4. n \in Nat /\ booked' = [booked EXCEPT ![i] = booked[i] + n] /\ booked[i] \in Nat
    <3>1. trades \in Nat
      BY OrderConstants DEF OrderConstants
    <3>2. n \in Nat
      BY <3>1, NewTrades
    <3>3. booked' = [booked EXCEPT ![i] = booked[i] + n]
      BY <1>4, <2>1 DEF _apply_fills
    <3> QED BY <1>0, <3>2, <3>3
  <2> HIDE DEF n
  <2>5. CASE n = 0
    <3>1. UNCHANGED booked
      BY <1>0, <2>4, <2>5
    <3>2. UNCHANGED Lifecycle!lifecycle
      BY <1>1, <2>3, <3>1, LifecycleStays
    <3> QED BY <3>2
  <2>6. CASE n # 0
    <3> DEFINE m == booked[i] + n
    <3>1. m > booked[i] /\ booked'[i] = m /\ m \in Nat
      BY <1>0, <2>4, <2>6
    <3>2. venue[i].executed \in 0 .. Quantity /\ venue'[i].executed = venue[i].executed
      BY <2>3 DEF TypeInv, TypeOK, VenueTypes
    <3>3. booked'[i] <= venue'[i].executed
      <4>1. fills'[i] \subseteq 1 .. venue'[i].executed /\ booked'[i] = Cardinality(fills'[i])
        BY DEF BookInv, NeverOverbooked
      <4>2. /\ IsFiniteSet(1 .. venue'[i].executed)
            /\ Cardinality(1 .. venue'[i].executed) = venue'[i].executed
        <5>1. venue'[i].executed \in Nat
          BY <3>2, OrderConstants DEF OrderConstants
        <5> DEFINE executed == venue'[i].executed
        <5> HIDE DEF executed
        <5>0. executed \in Nat
          BY <5>1 DEF executed
        <5>2. IsFiniteSet(1 .. executed) /\ Cardinality(1 .. executed) = executed
          BY <5>0, FS_Interval
        <5> QED BY <5>2 DEF executed
      <4>3. Cardinality(fills'[i]) <= Cardinality(1 .. venue'[i].executed)
        BY <4>1, <4>2, FS_Subset
      <4> QED BY <4>1, <4>2, <4>3
    <3>4. m <= venue[i].executed /\ m \in 0 .. Quantity
      BY <3>1, <3>2, <3>3, OrderConstants DEF OrderConstants
    <3>5. Lifecycle!Book(i, m)
      <4>1. UNCHANGED <<paused, recent, [j \in Intents |-> PhaseOf(j)],
                        [j \in Intents |-> venue[j].executed]>>
        BY <1>1, <2>3
      <4> QED BY <2>4, <3>1, <3>4, <4>1 DEF Lifecycle!Book
    <3> QED BY <3>4, <3>5 DEF Lifecycle!LifecycleNext
  <2> QED BY <2>5, <2>6
<1>5. CASE ~\E trades \in 0..Quantity : _apply_fills(s, trades)
  BY <1>3, <1>5 DEF SyncStep, sync_order_status_load, query_order_found,
                    query_order_not_found, sync_order_status_fails, dbVars
<1> QED BY <1>4, <1>5

\* A step outside the pipeline pauses the mandate, or lets the frequency limit elapse.
LEMMA OtherLifecycle ==
    ASSUME TypeInv,
           \/ Gate \/ order_frequency_elapses \/ UNCHANGED vars
           \/ \E i \in Intents, source \in Sources : preview_order(i, source)
           \/ \E i \in Intents : confirmation_window_ends(i) \/ confirm_order_expired(i)
    PROVE  [Lifecycle!LifecycleNext]_Lifecycle!lifecycle
<1>1. UNCHANGED <<order, booked, venueVars, confirmer>>
  BY DEF Gate, order_frequency_elapses, preview_order, confirmation_window_ends,
         confirm_order_expired, dbVars, actorVars, vars
<1>2. \A j \in Intents : Carried(j)' <=> Carried(j)
  BY <1>1 DEF Carried
<1>3. \A j \in Intents : PhaseOf(j)' = PhaseOf(j) /\ venue'[j].executed = venue[j].executed
  BY <1>1, <1>2, PhaseSame DEF venueVars
<1>4. UNCHANGED <<[j \in Intents |-> PhaseOf(j)], [j \in Intents |-> venue[j].executed]>>
  BY <1>3
<1>5. CASE Gate
  <2>1. (~paused /\ paused' = TRUE) \/ UNCHANGED paused
    BY <1>5 DEF Gate, GateWrite, TypeInv, TypeOK, RowTypes
  <2>2. UNCHANGED recent
    BY <1>5 DEF Gate, dbVars
  <2>3. CASE ~paused /\ paused' = TRUE
    <3>1. Lifecycle!Pause
      BY <1>1, <1>4, <2>2, <2>3 DEF Lifecycle!Pause
    <3> QED BY <3>1 DEF Lifecycle!LifecycleNext
  <2>4. CASE UNCHANGED paused
    <3>1. UNCHANGED Lifecycle!lifecycle
      BY <1>1, <1>3, <2>2, <2>4, LifecycleStays
    <3> QED BY <3>1
  <2> QED BY <2>1, <2>3, <2>4
<1>6. CASE order_frequency_elapses
  <2>1. recent /\ recent' = FALSE /\ UNCHANGED paused
    BY <1>6 DEF order_frequency_elapses, gate
  <2>2. Lifecycle!FrequencyElapses
    BY <1>1, <1>4, <2>1 DEF Lifecycle!FrequencyElapses
  <2> QED BY <2>2 DEF Lifecycle!LifecycleNext
<1>7. CASE ~Gate /\ ~order_frequency_elapses
  <2>1. UNCHANGED <<paused, recent>>
    BY <1>7 DEF preview_order, confirmation_window_ends, confirm_order_expired, gate, dbVars, vars
  <2>2. UNCHANGED Lifecycle!lifecycle
    BY <1>1, <1>3, <2>1, LifecycleStays
  <2> QED BY <2>2
<1> QED BY <1>5, <1>6, <1>7

LifeInv == TypeInv /\ JournalInv /\ WireInv /\ BookInv

\* The pipeline implements the life of an order: with any number of requests, workers
\* and cancellations at work on it, dying anywhere, an order is created in one step with
\* the checks it passed, POSTed at most once, never comes back, and is booked after it
\* is executed (confirm_order, submit_order, sync_order_status, cancel_order).
THEOREM LifecycleRefinement == Spec => ImplementsLifecycle
<1>1. Init => Lifecycle!LifecycleInit
  <2> SUFFICES ASSUME Init PROVE Lifecycle!LifecycleInit
    OBVIOUS
  <2>1. \A i \in Intents : PhaseOf(i) = "intended" /\ venue[i].executed = 0
    BY DEF Init, PhaseOf
  <2>2. paused = FALSE /\ recent = FALSE /\ booked = [i \in Intents |-> 0]
    BY DEF Init, AdmissionInit
  <2> QED BY <2>1, <2>2 DEF Lifecycle!LifecycleInit
<1>2. LifeInv /\ LifeInv' /\ [Next]_vars => [Lifecycle!LifecycleNext]_Lifecycle!lifecycle
  <2> SUFFICES ASSUME LifeInv, LifeInv', [Next]_vars
               PROVE  [Lifecycle!LifecycleNext]_Lifecycle!lifecycle
    OBVIOUS
  <2>0. /\ TypeInv /\ JournalInv /\ WireInv /\ BookInv
        /\ TypeInv' /\ JournalInv' /\ WireInv' /\ BookInv'
    BY DEF LifeInv
  <2>1. ASSUME NEW h \in Confirmers, ConfirmStep(h)
        PROVE  [Lifecycle!LifecycleNext]_Lifecycle!lifecycle
    BY <2>0, <2>1, ConfirmLifecycle
  <2>2. ASSUME NEW i \in Intents, VenueStep(i)
        PROVE  [Lifecycle!LifecycleNext]_Lifecycle!lifecycle
    BY <2>0, <2>2, VenueLifecycle
  <2>3. ASSUME NEW c \in Cancelers, CancelStep(c)
        PROVE  [Lifecycle!LifecycleNext]_Lifecycle!lifecycle
    BY <2>0, <2>3, CancelLifecycle
  <2>4. ASSUME NEW s \in Syncers, SyncStep(s)
        PROVE  [Lifecycle!LifecycleNext]_Lifecycle!lifecycle
    BY <2>0, <2>4, SyncLifecycle
  <2>5. CASE \/ Gate \/ order_frequency_elapses \/ UNCHANGED vars
             \/ \E i \in Intents, source \in Sources : preview_order(i, source)
             \/ \E i \in Intents : confirmation_window_ends(i) \/ confirm_order_expired(i)
    BY <2>0, <2>5, OtherLifecycle
  <2> QED BY <2>1, <2>2, <2>3, <2>4, <2>5 DEF Next
<1>3. Spec => []LifeInv
  <2>1. TypeInv /\ JournalInv /\ WireInv /\ RejectInv /\ BookInv => LifeInv
    BY DEF LifeInv
  <2> QED BY <2>1, ExchangeInvariant, PTL
<1> QED BY <1>1, <1>2, <1>3, PTL DEF Spec, ImplementsLifecycle, Lifecycle!LifecycleSpec

=============================================================================
