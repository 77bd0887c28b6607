----------------------------- MODULE GatewayWallet -----------------------------
(***************************************************************************)
(* The prepaid wallet of one user of the API gateway:                      *)
(* gateway_wallet_service.py, the metered requests of                      *)
(* apps/api/routers/gateway.py with record_request of                      *)
(* packages/gateway/service.py, and the Stripe events that credit the      *)
(* wallet and take a refunded top-up back (billing_service.py).            *)
(*                                                                         *)
(* Sessions.  A request and a webhook delivery each have a database        *)
(* session.  A step ends where the code commits, rolls back, waits for a   *)
(* lock or for a service.  The wallet is read under its row lock and       *)
(* written in the same step; the copies the admission reads are dropped    *)
(* before.  A row inserted and not committed makes others with its unique  *)
(* key wait.                                                               *)
(*                                                                         *)
(* Stripe.  Checkout sessions are paid, at once or later, or expire; a     *)
(* paid one may be refunded in full.  Each change is an event, delivered   *)
(* in any order and again until a delivery is acknowledged.                *)
(*                                                                         *)
(* Data.  All top-ups have the amount Amount; wallet and account exist.    *)
(* Events match their intents: the mismatches that go to manual review,    *)
(* partial refunds, subscriptions and the turn of the month are left out.  *)
(***************************************************************************)
EXTENDS Integers, FiniteSets, FiniteSetsExt

CONSTANTS
    Requests,        \* metered requests, each with its session
    Ids,             \* x-request-id: chosen by the client
    Deliveries,      \* webhook sessions
    Topups,          \* GatewayTopupIntents
    Amount,          \* amount_cents of a top-up
    MaxCost,         \* the most a request can cost
    Opening,         \* balance before the run
    SpendLimit,      \* monthly_spend_limit_usd, 0 for none
    MaxFailures,     \* bound: deliveries that raise or whose process dies
    None             \* no event, nothing read

Sessions == Requests \cup Deliveries
Events == Topups \X {"unpaid", "paid", "expired", "refunded"}

ASSUME WalletConstants ==
    /\ Amount \in Nat \ {0} /\ MaxCost \in Nat \ {0}
    /\ {Opening, SpendLimit, MaxFailures} \subseteq Nat
    /\ Requests \cap Deliveries = {}
    /\ None \notin Ids \cup STRING \cup Nat \cup Events

VARIABLES
    balance,     \* GatewayWallet.available_balance_usd
    ledger,      \* GatewayWalletLedger: [key, delta]
    spend,       \* GatewayAccount.current_month_spend_usd
    log,         \* request_ids with a committed GatewayRequestLog
    intent,      \* GatewayTopupIntent.status
    checkout,    \* the Checkout Session at Stripe
    events,      \* events Stripe has emitted
    acknowledged,  \* events Stripe need not deliver again
    processed,   \* StripeWebhookEvents: event -> "none", "received", "processed"
    answered,    \* requests whose client has got the answer
    failures,
    pc, job      \* where a session is, and what it has in memory

wallet == <<balance, ledger>>
usage == <<spend, log, answered>>
stripe == <<checkout, events, acknowledged>>
webhook == <<intent, processed, failures>>
vars == <<wallet, usage, stripe, webhook, pc, job>>

Blank == [id |-> None, cost |-> 0, stream |-> FALSE, spend |-> 0, event |-> None, seen |-> None]

Init ==
    /\ balance = Opening /\ ledger = {} /\ spend = 0 /\ log = {} /\ answered = {}
    /\ intent = [i \in Topups |-> "none"]
    /\ checkout = [i \in Topups |-> "none"]
    /\ events = {} /\ acknowledged = {}
    /\ processed = [e \in Events |-> "none"] /\ failures = 0
    /\ pc = [s \in Sessions |-> "idle"]
    /\ job = [s \in Sessions |-> Blank]

Goto(s, label) == pc' = [pc EXCEPT ![s] = label] /\ UNCHANGED job
GotoWith(s, label, j) == pc' = [pc EXCEPT ![s] = label] /\ job' = [job EXCEPT ![s] = j]

Entries(key) == {e \in ledger : e.key = key}

\* The balance and its ledger entry, in one transaction.  That the ledger admits a
\* key once is not used: no step moves the balance under a key a second time.
Move(key, delta, after) ==
    /\ balance' = after
    /\ ledger' = ledger \cup {[key |-> key, delta |-> delta]}

-----------------------------------------------------------------------------
(* Metered requests *)

\* assert_gateway_account_available
Admit(r) ==
    /\ pc[r] = "idle" /\ balance > 0
    /\ SpendLimit > 0 => spend < SpendLimit
    /\ \E id \in Ids, stream \in BOOLEAN :
        GotoWith(r, "calling", [job[r] EXCEPT !.id = id, !.stream = stream])
    /\ UNCHANGED <<wallet, usage, stripe, webhook>>

\* No row with the id is being inserted by another session.
Free(id) == \A q \in Requests : pc[q] = "recorded" => job[q].id # id

\* No balance, the limit is reached, or the provider fails: the error is logged,
\* under an id that is not in the log already.
RequestFails(r) ==
    /\ \/ /\ pc[r] = "calling" /\ Free(job[r].id)
          /\ log' = log \cup {job[r].id}
       \/ /\ pc[r] = "idle"
          /\ balance = 0 \/ (SpendLimit > 0 /\ spend >= SpendLimit)
          /\ \E id \in Ids : Free(id) /\ log' = log \cup {id}
    /\ Goto(r, "done")
    /\ UNCHANGED <<wallet, spend, answered, stripe, webhook>>

\* The provider answers; a stream has been passed on by then.
ProviderAnswers(r) ==
    /\ pc[r] = "calling"
    /\ \E cost \in 0..MaxCost : GotoWith(r, "answered", [job[r] EXCEPT !.cost = cost])
    /\ answered' = IF job[r].stream THEN answered \cup {r} ELSE answered
    /\ UNCHANGED <<wallet, spend, log, stripe, webhook>>

\* The client of a stream goes away before the end: nothing is recorded.
Disconnect(r) ==
    /\ pc[r] \in {"calling", "answered"} /\ job[r].stream
    /\ answered' \in {answered, answered \cup {r}}
    /\ Goto(r, "done")
    /\ UNCHANGED <<wallet, spend, log, stripe, webhook>>

\* record_request inserts the log row and reads the account, without a lock.
Record(r) ==
    /\ pc[r] = "answered" /\ Free(job[r].id)
    /\ IF job[r].id \in log THEN Goto(r, "done")
       ELSE GotoWith(r, "recorded", [job[r] EXCEPT !.spend = spend])
    /\ UNCHANGED <<wallet, usage, stripe, webhook>>

\* A debit that takes what is left.
DebitWhatIsLeft(r) ==
    LET cost == IF balance < job[r].cost THEN balance ELSE job[r].cost IN
    /\ Move(<<"request", job[r].id>>, -cost, balance - cost)
    /\ spend' = job[r].spend + cost
    /\ log' = log \cup {job[r].id}
    /\ answered' = answered \cup {r}

\* A debit that trusts the balance seen before the provider was asked.
DebitUnchecked(r) ==
    /\ Move(<<"request", job[r].id>>, -job[r].cost, balance - job[r].cost)
    /\ spend' = job[r].spend + job[r].cost
    /\ log' = log \cup {job[r].id}
    /\ answered' = answered \cup {r}

\* debit_gateway_wallet_for_request under the wallet's lock, and the commit; the
\* spend is the one that was read plus the cost.
Debit(r) ==
    /\ balance >= job[r].cost
    /\ Move(<<"request", job[r].id>>, -job[r].cost, balance - job[r].cost)
    /\ spend' = job[r].spend + job[r].cost
    /\ log' = log \cup {job[r].id}
    /\ answered' = answered \cup {r}

Charge(r) ==
    /\ pc[r] = "recorded" /\ job[r].cost > 0 /\ Debit(r)
    /\ Goto(r, "done")
    /\ UNCHANGED <<stripe, webhook>>

\* Nothing to pay: the wallet is not locked, and the spend stays what it is.
ChargeNothing(r) ==
    /\ pc[r] = "recorded" /\ job[r].cost = 0
    /\ log' = log \cup {job[r].id}
    /\ answered' = answered \cup {r}
    /\ Goto(r, "done")
    /\ UNCHANGED <<wallet, spend, stripe, webhook>>

\* The balance is less than the cost: the error cannot be logged under the id of
\* the row that is still in the transaction, and all is rolled back.
Overdrawn(r) ==
    /\ pc[r] = "recorded" /\ balance < job[r].cost
    /\ Goto(r, "done")
    /\ UNCHANGED <<wallet, usage, stripe, webhook>>

-----------------------------------------------------------------------------
(* Top-ups at Stripe *)

\* create_gateway_topup_checkout
CreateTopup(i) ==
    /\ intent[i] = "none"
    /\ intent' = [intent EXCEPT ![i] = "checkout_created"]
    /\ checkout' = [checkout EXCEPT ![i] = "open"]
    /\ UNCHANGED <<wallet, usage, events, acknowledged, processed, failures, pc, job>>

\* A delayed payment method first completes the session unpaid.
StripeChanges(i, from, to) ==
    /\ <<from, to>> \in {<<"open", "paid">>, <<"open", "unpaid">>, <<"unpaid", "paid">>,
                         <<"open", "expired">>, <<"paid", "refunded">>}
    /\ checkout[i] = from
    /\ checkout' = [checkout EXCEPT ![i] = to]
    /\ events' = events \cup {<<i, to>>}
    /\ UNCHANGED <<wallet, usage, acknowledged, webhook, pc, job>>

-----------------------------------------------------------------------------
(* process_stripe_event *)

\* A processed event is acknowledged; a new one gets its row, which others that
\* deliver the event wait for; then the row of the intent is read, without a lock.
Receive(d, e) ==
    /\ pc[d] = "idle" /\ e \in events \ acknowledged
    /\ processed[e] = "none" => \A c \in Deliveries : job[c].event # e
    /\ IF processed[e] = "processed"
       THEN acknowledged' = acknowledged \cup {e} /\ UNCHANGED <<pc, job>>
       ELSE /\ GotoWith(d, e[2], [Blank EXCEPT !.event = e, !.seen = intent[e[1]]])
            /\ UNCHANGED acknowledged
    /\ UNCHANGED <<wallet, usage, checkout, events, webhook>>

Intent(d) == job[d].event[1]

\* processed = True, the commit and the answer to Stripe.
Acknowledge(d) ==
    /\ processed' = [processed EXCEPT ![job[d].event] = "processed"]
    /\ acknowledged' = acknowledged \cup {job[d].event}
    /\ GotoWith(d, "idle", Blank)
    /\ UNCHANGED <<checkout, events, failures>>

\* settle_gateway_topup_from_checkout, under the wallet's lock: a key that is in
\* the ledger moves nothing.
Settle(d) ==
    LET key == <<"topup", Intent(d)>> IN
    /\ pc[d] = "paid"
    /\ IF Entries(key) = {} THEN Move(key, Amount, balance + Amount) ELSE UNCHANGED wallet
    /\ intent' = [intent EXCEPT ![Intent(d)] = "completed"]
    /\ Acknowledge(d)
    /\ UNCHANGED usage

SettleUnpaid(d) ==
    /\ pc[d] = "unpaid"
    /\ Acknowledge(d)
    /\ UNCHANGED <<wallet, usage, intent>>

\* expire_gateway_topup_from_checkout
Expire(d) ==
    /\ pc[d] = "expired"
    /\ intent' = IF job[d].seen = "checkout_created"
                 THEN [intent EXCEPT ![Intent(d)] = "expired"] ELSE intent
    /\ Acknowledge(d)
    /\ UNCHANGED <<wallet, usage>>

\* A refund that commits before the intent's new status.
TakeBackOnly(d) ==
    /\ pc[d] = "refunded" /\ job[d].seen = "completed"
    /\ Move(<<"refund", Intent(d)>>, -Amount, IF balance > Amount THEN balance - Amount ELSE 0)
    /\ processed' = [processed EXCEPT ![job[d].event] = "received"]
    /\ Goto(d, "taken_back")
    /\ UNCHANGED <<intent, usage, stripe, failures>>

\* _handle_charge_refunded: what is left of a completed top-up is taken back and
\* committed, before the event is marked as processed.
TakeBack(d) ==
    /\ pc[d] = "refunded" /\ job[d].seen = "completed"
    /\ Move(<<"refund", Intent(d)>>, -Amount, IF balance > Amount THEN balance - Amount ELSE 0)
    /\ intent' = [intent EXCEPT ![Intent(d)] = "refunded"]
    /\ processed' = [processed EXCEPT ![job[d].event] = "received"]
    /\ Goto(d, "taken_back")
    /\ UNCHANGED <<usage, stripe, failures>>

\* The top-up is not completed, or taken back already.
RefundNothing(d) ==
    /\ pc[d] = "taken_back" \/ (pc[d] = "refunded" /\ job[d].seen # "completed")
    /\ Acknowledge(d)
    /\ UNCHANGED <<wallet, usage, intent>>

\* A failure whose event counts as processed.
FailAcknowledged(d) ==
    /\ pc[d] # "idle" /\ failures < MaxFailures
    /\ failures' = failures + 1
    /\ processed' = [processed EXCEPT ![job[d].event] = "processed"]
    /\ GotoWith(d, "idle", Blank)
    /\ UNCHANGED <<wallet, usage, stripe, intent>>

\* The handler raises or dies: rolled back to the last commit, not acknowledged.
Fail(d) ==
    /\ pc[d] # "idle" /\ failures < MaxFailures
    /\ failures' = failures + 1
    /\ GotoWith(d, "idle", Blank)
    /\ UNCHANGED <<wallet, usage, stripe, intent, processed>>

-----------------------------------------------------------------------------
Handle(d) == Settle(d) \/ SettleUnpaid(d) \/ Expire(d) \/ TakeBack(d) \/ RefundNothing(d)

Next ==
    \/ \E r \in Requests :
        \/ Admit(r) \/ RequestFails(r) \/ ProviderAnswers(r) \/ Disconnect(r)
        \/ Record(r) \/ Charge(r) \/ ChargeNothing(r) \/ Overdrawn(r)
    \/ \E i \in Topups :
        \/ CreateTopup(i)
        \/ \E from, to \in {"open", "unpaid", "paid", "expired", "refunded"} :
            StripeChanges(i, from, to)
    \/ \E d \in Deliveries :
        \/ \E e \in Events : Receive(d, e)
        \/ Handle(d) \/ Fail(d)

Spec == Init /\ [][Next]_vars

\* Stripe delivers an event until it is acknowledged, and a handler goes on.
Fairness ==
    /\ \A e \in Events : WF_vars(\E d \in Deliveries : Receive(d, e))
    /\ \A d \in Deliveries : WF_vars(Handle(d))

FairSpec == Spec /\ Fairness

-----------------------------------------------------------------------------
(* Properties *)

Ledgered == SumFunction([e \in ledger |-> e.delta])

\* Types of the rows; the balance is never negative, whatever is charged, credited
\* and taken back at the same time.
TypeOK ==
    /\ balance \in Nat /\ spend \in Nat
    /\ ledger \subseteq [key : {"request"} \X Ids \cup {"topup", "refund"} \X Topups, delta : Int]
    /\ log \subseteq Ids /\ answered \subseteq Requests
    /\ intent \in [Topups -> {"none", "checkout_created", "completed", "expired", "refunded"}]
    /\ checkout \in [Topups -> {"none", "open", "unpaid", "paid", "expired", "refunded"}]
    /\ acknowledged \subseteq events /\ events \subseteq Events
    /\ processed \in [Events -> {"none", "received", "processed"}]
    /\ failures \in 0..MaxFailures
    /\ pc \in [Sessions -> {"idle", "calling", "answered", "recorded", "done", "unpaid",
                            "paid", "expired", "refunded", "taken_back"}]

\* Every request, credit and refund moves the balance once, under one key, by what
\* its ledger entry says; only a refund of money that was spent takes less.
WalletFollowsLedger ==
    /\ \A e, f \in ledger : e.key = f.key => e = f
    /\ balance >= Opening + Ledgered
    /\ (\A e \in ledger : e.key[1] # "refund") => balance = Opening + Ledgered

\* An answer that is not streamed reaches the client only when it is paid for in
\* full, although the balance was checked before the provider was asked.
AnswerIsCharged ==
    \A r \in answered : ~job[r].stream /\ job[r].cost > 0 =>
        [key |-> <<"request", job[r].id>>, delta |-> -job[r].cost] \in ledger

\* A top-up whose payment Stripe has reported is credited, through failures,
\* crashes and repeated deliveries.
PaidIsCredited ==
    \A i \in Topups : (<<i, "paid">> \in events) ~> (Entries(<<"topup", i>>) # {})

\* What a comment says and a run of this module refutes: a full refund claws back
\* what was provisioned; the month's spend is what was charged.
RefundTakesBack ==
    \A i \in Topups : {<<i, "paid">>, <<i, "refunded">>} \subseteq acknowledged =>
        Entries(<<"refund", i>>) # {}
SpendIsUsage ==
    spend = SumFunction([e \in {f \in ledger : f.key[1] = "request"} |-> -e.delta])

=============================================================================
