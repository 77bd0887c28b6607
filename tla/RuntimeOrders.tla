----------------------------- MODULE RuntimeOrders -----------------------------
(***************************************************************************)
(* The orders of one account in the Nautilus runtime                       *)
(* (services/nautilus-runtime/app): the commands of runtime_manager.py,    *)
(* the order pipeline of execution_gateway.py over the journal of          *)
(* state_store.py, the simulated venue MockExchangeGateway, the reconciler *)
(* and the recovery after a restart.                                       *)
(*                                                                         *)
(* Threads.  The endpoints are synchronous, so every command runs in a     *)
(* thread of a pool; the store's lock covers one statement.  A step is one *)
(* access to the store, the venue or the risk gateway; the venue has no    *)
(* lock.  A restart ends every thread and the memory of the process: the   *)
(* venue and its orders, the kill switch and the pauses.                   *)
(*                                                                         *)
(* Journal.  A row has the key (client_order_id, sequence) and an          *)
(* idempotency_key made of order, sequence and state (for CANCEL_PENDING,  *)
(* of the command).  Appending a row whose idempotency_key exists does     *)
(* nothing and the caller goes on as if it had; a row with another key at  *)
(* the same sequence raises.  journal[o] is the sequence of the states;    *)
(* the last one is the latest row.                                         *)
(*                                                                         *)
(* Data.  Every order is of the same size; no two have the same notional.  *)
(* position counts the fills of each order in it.  The simulated venue     *)
(* never raises, and an order is canceled less than four times.            *)
(***************************************************************************)
EXTENDS Naturals, Sequences, SequencesExt

CONSTANTS
    Threads,
    Orders,          \* client_order_ids, each of one signal
    Immediate,       \* orders with fill_immediately
    ReduceOnly,      \* orders with reduce_only
    Commands,        \* [kind, order, n]: commands with an idempotency_key of their own
    MaxRestarts,     \* bound
    None             \* no command, nothing read

Kinds == {"submit", "cancel", "reconcile", "refresh", "kill_switch"}

ASSUME RuntimeConstants ==
    /\ Immediate \subseteq Orders /\ ReduceOnly \subseteq Orders
    /\ Commands \subseteq [kind : Kinds, order : Orders, n : Nat]
    /\ MaxRestarts \in Nat
    /\ None \notin Commands /\ None \notin STRING

VARIABLES
    journal,     \* states of the rows of each order, by sequence
    venue,       \* MockExchangeGateway.orders: state, "none" if unknown
    position,    \* how often the paper position holds the fill of an order
    received,    \* commands with a row in the store
    kill_switch, paused,  \* RuntimeRiskGateway: the switch; opening paused
    sent,        \* history: orders ever at the venue
    restarts,
    pc, job      \* where a thread is, and what it works on

store == <<journal, position, received>>
memory == <<venue, kill_switch, paused>>
history == <<sent, restarts>>
vars == <<store, memory, history, pc, job>>

-----------------------------------------------------------------------------
(* packages/trading/states/order_state.py *)

Uncertain == {"SUBMITTING", "SUBMITTED", "CANCEL_PENDING"}
Terminal == {"FILLED", "CANCELED", "REJECTED", "EXPIRED"}
States == Uncertain \cup Terminal \cup
    {"CREATED", "PREPARED", "ACCEPTED", "UNKNOWN", "RECONCILIATION_REQUIRED"}

\* TRANSITIONS, without PARTIALLY_FILLED: the simulated venue fills all or nothing.
Transitions(from) ==
    CASE from = "CREATED"        -> {"PREPARED", "REJECTED"}
      [] from = "PREPARED"       -> {"SUBMITTING", "REJECTED", "CANCELED"}
      [] from = "SUBMITTING"     -> {"SUBMITTED", "UNKNOWN", "REJECTED"}
      [] from = "SUBMITTED"      ->
            {"ACCEPTED", "FILLED", "CANCEL_PENDING", "UNKNOWN", "REJECTED", "EXPIRED"}
      [] from = "ACCEPTED"       -> {"FILLED", "CANCEL_PENDING", "UNKNOWN", "EXPIRED"}
      [] from = "CANCEL_PENDING" -> {"CANCELED", "FILLED", "UNKNOWN"}
      [] from = "UNKNOWN" ->
            {"RECONCILIATION_REQUIRED", "ACCEPTED", "FILLED", "CANCELED", "REJECTED"}
      [] from = "RECONCILIATION_REQUIRED" -> {"ACCEPTED", "FILLED", "CANCELED", "REJECTED"}
      [] OTHER                   -> {}

-----------------------------------------------------------------------------
(* Threads and the journal *)

Blank == [command |-> None, seq |-> 0, state |-> None, view |-> None]

Init ==
    /\ journal = [o \in Orders |-> <<>>]
    /\ venue = [o \in Orders |-> "none"]
    /\ position = [o \in Orders |-> 0] /\ received = {}
    /\ kill_switch = FALSE /\ paused = FALSE
    /\ sent = {} /\ restarts = 0
    /\ pc = [t \in Threads |-> "idle"]
    /\ job = [t \in Threads |-> Blank]

Order(t) == job[t].command.order

Latest(o) == IF journal[o] = <<>> THEN "none" ELSE Last(journal[o])

Goto(t, label) == pc' = [pc EXCEPT ![t] = label] /\ UNCHANGED job

\* The command is complete, acknowledged or rejected.
Finish(t) ==
    /\ pc' = [pc EXCEPT ![t] = "idle"]
    /\ job' = [job EXCEPT ![t] = Blank]

\* The row a thread is about to append is there already, or its place is taken.
Replayed(o, seq, state) ==
    seq <= Len(journal[o]) /\ state # "CANCEL_PENDING" /\ journal[o][seq] = state
\* A table without the key (client_order_id, sequence).
NeverTaken(o, seq, state) == FALSE

Taken(o, seq, state) == seq <= Len(journal[o]) /\ ~Replayed(o, seq, state)

Legal(t, state) == job[t].seq = 0 \/ state \in Transitions(job[t].state)

\* apply_transition: a legal transition from the row the thread read or wrote
\* last, appended in the place after that row.
Advance(t, state, label) ==
    /\ Legal(t, state) /\ ~Taken(Order(t), job[t].seq + 1, state)
    /\ journal' = IF Replayed(Order(t), job[t].seq + 1, state) THEN journal
                  ELSE [journal EXCEPT ![Order(t)] = Append(@, state)]
    /\ IF label = "idle" THEN Finish(t)
       ELSE /\ pc' = [pc EXCEPT ![t] = label]
            /\ job' = [job EXCEPT ![t].seq = @ + 1, ![t].state = state]
    /\ UNCHANGED <<position, received, memory, history>>

\* Either raises: the exception ends the command, which is rejected.
Raise(t, state) ==
    /\ ~Legal(t, state) \/ Taken(Order(t), job[t].seq + 1, state)
    /\ Finish(t)
    /\ UNCHANGED <<store, memory, history>>

Step(t, state, label) == Advance(t, state, label) \/ Raise(t, state)

\* RuntimeManager.command: a command whose key is known is answered from its row.
Receive(t, c) ==
    /\ pc[t] = "idle" /\ c \notin received
    /\ received' = received \cup {c}
    /\ pc' = [pc EXCEPT ![t] = c.kind]
    /\ job' = [job EXCEPT ![t] = [Blank EXCEPT !.command = c]]
    /\ UNCHANGED <<journal, position, memory, history>>

-----------------------------------------------------------------------------
(* submit_order: RuntimeExecutionGateway.submit over the simulated venue *)

\* An order with a row is returned as it is.
Known(t) ==
    /\ pc[t] = "submit" /\ journal[Order(t)] # <<>>
    /\ Finish(t)
    /\ UNCHANGED <<store, memory, history>>

Unknown(t) ==
    /\ pc[t] = "submit" /\ journal[Order(t)] = <<>>
    /\ Goto(t, "create")
    /\ UNCHANGED <<store, memory, history>>

Create(t) == pc[t] = "create" /\ Step(t, "CREATED", "evaluate")

\* RuntimeRiskGateway.evaluate: a switch, a pause or any limit rejects; a pause
\* does not concern orders that only reduce.
Allow(t) ==
    /\ pc[t] = "evaluate" /\ ~kill_switch /\ (paused => Order(t) \in ReduceOnly)
    /\ Goto(t, "prepare")
    /\ UNCHANGED <<store, memory, history>>

Reject(t) == pc[t] = "evaluate" /\ Step(t, "REJECTED", "idle")

Prepare(t) == pc[t] = "prepare" /\ Step(t, "PREPARED", "rate")

\* TokenBucket.consume gives a token or not.
RateLimited(t) == pc[t] = "rate" /\ Step(t, "REJECTED", "idle")

Submitting(t) == pc[t] = "rate" /\ Step(t, "SUBMITTING", "send")

\* MockExchangeGateway.submit_order, which nothing locks: an order the venue has
\* is returned.
Find(t) ==
    /\ pc[t] = "send"
    /\ Goto(t, IF venue[Order(t)] = "none" THEN "place" ELSE "sent")
    /\ UNCHANGED <<store, memory, history>>

\* A new one takes its place in the table, whatever is there by now.
Place(t) ==
    LET o == Order(t)
        filled == o \in Immediate
    IN  /\ pc[t] = "place"
        /\ venue' = [venue EXCEPT ![o] = IF filled THEN "FILLED" ELSE "ACCEPTED"]
        /\ sent' = sent \cup {o}
        /\ Goto(t, IF filled THEN "current" ELSE "sent")
        /\ UNCHANGED <<store, kill_switch, paused, restarts>>

\* A fill is added to the position that was read.
ReadCurrent(t) ==
    /\ pc[t] = "current"
    /\ pc' = [pc EXCEPT ![t] = "fill"]
    /\ job' = [job EXCEPT ![t].view = position]
    /\ UNCHANGED <<store, memory, history>>

Fill(t) ==
    /\ pc[t] = "fill"
    /\ position' = [job[t].view EXCEPT ![Order(t)] = @ + 1]
    /\ Goto(t, "sent")
    /\ UNCHANGED <<journal, received, memory, history>>

Submitted(t) == pc[t] = "sent" /\ Step(t, "SUBMITTED", "answered")

\* The answer is the venue's own record: its state is the one of this moment.  A
\* record that was replaced since differs only in that one of the two is canceled;
\* the pending cancellation then has the place of the row, which is refused.
Answered(t) == pc[t] = "answered" /\ Step(t, venue[Order(t)], "idle")

-----------------------------------------------------------------------------
(* cancel_order: RuntimeExecutionGateway.cancel *)

CancelLookup(t) ==
    /\ pc[t] = "cancel"
    /\ IF journal[Order(t)] = <<>> THEN Finish(t)
       ELSE /\ pc' = [pc EXCEPT ![t] = "pending"]
            /\ job' = [job EXCEPT ![t].seq = Len(journal[Order(t)]),
                                  ![t].state = Latest(Order(t))]
    /\ UNCHANGED <<store, memory, history>>

CancelPending(t) == pc[t] = "pending" /\ Step(t, "CANCEL_PENDING", "withdraw")

\* MockExchangeGateway.cancel_order, whatever the state of the order.
Withdraw(t) ==
    /\ pc[t] = "withdraw"
    /\ venue' = [venue EXCEPT ![Order(t)] = "CANCELED"]
    /\ Goto(t, "withdrawn")
    /\ UNCHANGED <<store, kill_switch, paused, history>>

Canceled(t) == pc[t] = "withdrawn" /\ Step(t, "CANCELED", "idle")

\* The command names another account than the order's: the venue knows no such order.
WithdrawNothing(t) ==
    /\ pc[t] = "withdraw"
    /\ Goto(t, "unmatched")
    /\ UNCHANGED <<store, memory, history>>

CancelUnmatched(t) == pc[t] = "unmatched" /\ Step(t, "UNKNOWN", "idle")

-----------------------------------------------------------------------------
(* reconcile, refresh_market_data and kill_switch *)

\* RuntimeReconciler.reconcile reads the journal, then asks the venue.
ReadJournal(t) ==
    /\ pc[t] = "reconcile"
    /\ pc' = [pc EXCEPT ![t] = "compare"]
    /\ job' = [job EXCEPT ![t].view = [o \in Orders |-> Latest(o)]]
    /\ UNCHANGED <<store, memory, history>>

OpenAtVenue == {o \in Orders : venue[o] \notin {"none", "FILLED", "CANCELED", "REJECTED"}}

\* unknown: open in the journal, not at the venue.  remote_only: at the venue,
\* not in the journal.  Fills differ in number or in value.
Drifts(latest) ==
    LET local == {o \in Orders : latest[o] \notin Terminal \cup {"none"}} IN
    \/ \E o \in local \ OpenAtVenue : latest[o] \notin {"CREATED", "PREPARED"}
    \/ \E o \in OpenAtVenue : latest[o] = "none"
    \/ {o \in Orders : latest[o] = "FILLED"} # {o \in Orders : venue[o] = "FILLED"}

Compare(t) ==
    /\ pc[t] = "compare"
    /\ pc' = [pc EXCEPT ![t] = "conclude"]
    /\ job' = [job EXCEPT ![t].view = Drifts(@)]
    /\ UNCHANGED <<store, memory, history>>

\* pause_opening or resume_opening, whoever paused.
Conclude(t) ==
    /\ pc[t] = "conclude"
    /\ paused' = job[t].view
    /\ Finish(t)
    /\ UNCHANGED <<store, venue, kill_switch, history>>

\* mark_positions updates the record of the position it has read, if there is
\* one, and puts it back, in memory and in the store.
ReadPosition(t) ==
    /\ pc[t] = "refresh"
    /\ pc' = [pc EXCEPT ![t] = "mark"]
    /\ job' = [job EXCEPT ![t].view = position]
    /\ UNCHANGED <<store, memory, history>>

MarkPosition(t) ==
    /\ pc[t] = "mark"
    /\ position' = IF \A o \in Orders : job[t].view[o] = 0 THEN position ELSE job[t].view
    /\ Finish(t)
    /\ UNCHANGED <<journal, received, memory, history>>

SwitchKill(t) ==
    /\ pc[t] = "kill_switch"
    /\ \E enabled \in BOOLEAN : kill_switch' = enabled
    /\ Finish(t)
    /\ UNCHANGED <<store, venue, paused, history>>

-----------------------------------------------------------------------------
(* A restart: recover_uncertain_orders, the new venue, RuntimeManager.recover *)

\* Recoveries that put an order being submitted back, leave it, or give every
\* uncertain order a state of its own.
RecoverToPrepared(state) == IF state \in Uncertain THEN "PREPARED" ELSE state

RecoverSubmitted(state) == IF state = "SUBMITTED" THEN "RECONCILIATION_REQUIRED" ELSE state

RecoverToOpen(state) == IF state \in Uncertain THEN "OPEN" ELSE state

Recovered(state) == IF state \in Uncertain THEN "RECONCILIATION_REQUIRED" ELSE state

\* The new venue is loaded from the latest rows: it never answers a state that
\* resolves an order left uncertain, so recover() pauses the account instead.
Restart ==
    LET rows == [o \in Orders |-> [i \in DOMAIN journal[o] |->
                    IF i = Len(journal[o]) THEN Recovered(journal[o][i]) ELSE journal[o][i]]]
        latest == [o \in Orders |-> IF rows[o] = <<>> THEN "none" ELSE Last(rows[o])]
    IN  /\ restarts < MaxRestarts
        /\ restarts' = restarts + 1
        /\ journal' = rows /\ venue' = latest
        /\ kill_switch' = FALSE
        /\ paused' = (\E o \in Orders : latest[o] = "RECONCILIATION_REQUIRED")
        /\ pc' = [t \in Threads |-> "idle"]
        /\ job' = [t \in Threads |-> Blank]
        /\ UNCHANGED <<position, received, sent>>

Submit(t) ==
    Known(t) \/ Unknown(t) \/ Create(t) \/ Allow(t) \/ Reject(t) \/ Prepare(t)
        \/ RateLimited(t) \/ Submitting(t) \/ Find(t) \/ Place(t) \/ ReadCurrent(t) \/ Fill(t)
        \/ Submitted(t) \/ Answered(t)

Cancel(t) ==
    CancelLookup(t) \/ CancelPending(t) \/ Withdraw(t) \/ Canceled(t)
        \/ WithdrawNothing(t) \/ CancelUnmatched(t)

Next ==
    \/ \E t \in Threads :
        \/ \E c \in Commands : Receive(t, c)
        \/ Submit(t) \/ Cancel(t)
        \/ ReadJournal(t) \/ Compare(t) \/ Conclude(t)
        \/ ReadPosition(t) \/ MarkPosition(t) \/ SwitchKill(t)
    \/ Restart

Spec == Init /\ [][Next]_vars

-----------------------------------------------------------------------------
(* Properties *)

Labels == Kinds \cup {"idle", "create", "evaluate", "prepare", "rate", "send", "place",
    "current", "fill", "sent", "answered", "pending", "withdraw", "withdrawn", "unmatched",
    "compare", "conclude", "mark"}

\* Types of the rows, of the venue and of the threads' work.
TypeOK ==
    /\ journal \in [Orders -> Seq(States)]
    /\ venue \in [Orders -> {"none"} \cup States]
    /\ position \in [Orders -> Nat] /\ sent \subseteq Orders
    /\ received \subseteq Commands
    /\ kill_switch \in BOOLEAN /\ paused \in BOOLEAN
    /\ restarts \in 0..MaxRestarts
    /\ pc \in [Threads -> Labels]
    /\ \A t \in Threads :
        /\ pc[t] = "idle" <=> job[t].command = None
        /\ job[t].command \in Commands \cup {None} /\ job[t].seq \in Nat
        /\ job[t].state \in States \cup {None}

\* However the pipelines of a submit and of a cancel, or of two submits of one
\* order, interleave over the rows each has read (apply_transition checks its
\* own stale row, the key of the table does the rest), the journal of an order
\* only grows, by one transition that is legal from its latest row.
JournalGrowsLegally ==
    [][\A o \in Orders :
        journal'[o] # journal[o] =>
            \/ restarts' # restarts /\ Len(journal'[o]) = Len(journal[o])
            \/ /\ journal'[o] = Append(journal[o], Last(journal'[o]))
               /\ journal[o] = <<>> \/ Last(journal'[o]) \in Transitions(Latest(o))]_vars

\* An order that has ever been at the venue has been journaled first, and the
\* journal never says that it was rejected or that it was not sent yet, also
\* when another thread's submit of the same order is refused or the process
\* restarts between the two.
SentIsJournaled ==
    \A o \in sent : Latest(o) \notin {"none", "CREATED", "PREPARED", "REJECTED"}

\* Nobody forgets an order whose outcome is open: while its latest row is
\* SUBMITTING, SUBMITTED or CANCEL_PENDING, a thread that wrote or replayed
\* that row still runs; a crash turns the row into RECONCILIATION_REQUIRED.
UncertainHasOwner ==
    \A o \in Orders : Latest(o) \in Uncertain =>
        \E t \in Threads :
            job[t].command # None /\ Order(t) = o /\ job[t].seq = Len(journal[o])

\* services/nautilus-runtime/README.md:46: duplicate signals and commands dedup.
\* Two threads that find no order at the venue both fill it.
FilledOnce == \A o \in Orders : position[o] <= 1

\* What the code or its comments say and TLC refutes on this module: a
\* canceled order has no fill (cancel_order writes CANCELED on a filled order);
\* a filled order is in the position (mark_positions puts back what it has
\* read); an order whose remote state is unknown keeps the account paused
\* (recover, until the next reconciliation).
CanceledIsNotHeld == \A o \in Orders : position[o] > 0 => Latest(o) # "CANCELED"
FilledIsHeld == \A o \in Orders : Latest(o) = "FILLED" => position[o] > 0
UnresolvedPauses == (\E o \in Orders : Latest(o) = "RECONCILIATION_REQUIRED") => paused

=============================================================================
