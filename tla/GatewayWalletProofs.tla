-------------------------- MODULE GatewayWalletProofs --------------------------
(***************************************************************************)
(* The prepaid wallet for any number of requests, webhook deliveries and   *)
(* top-ups: its types, that an answer which is not streamed is paid for,   *)
(* and that the balance follows the ledger.                                *)
(***************************************************************************)
EXTENDS GatewayWallet, Sums

RequestLabels == {"idle", "calling", "answered", "recorded", "done"}
DeliveryLabels == {"idle", "unpaid", "paid", "expired", "refunded", "taken_back"}
IntentStatus == {"none", "checkout_created", "completed", "expired", "refunded"}

Jobs == [id : Ids \cup {None}, cost : Nat, stream : BOOLEAN, spend : Nat,
         event : Events \cup {None}, seen : IntentStatus \cup {None}]

\* What a session has in memory at each of its labels.
JobsTyped ==
    /\ job \in [Sessions -> Jobs]
    /\ \A r \in Requests :
        /\ pc[r] \in RequestLabels
        /\ pc[r] \in {"calling", "answered", "recorded"} => job[r].id \in Ids
    /\ \A d \in Deliveries :
        /\ pc[d] \in DeliveryLabels
        /\ pc[d] = "idle" <=> job[d].event = None
        /\ pc[d] \notin {"idle", "taken_back"} => pc[d] = job[d].event[2]
        /\ pc[d] = "taken_back" => job[d].event[2] = "refunded"

\* A delivery holds an event that Stripe has emitted.
Emitted == \A d \in Deliveries : job[d].event # None => job[d].event \in events

TypeInv == TypeOK /\ JobsTyped /\ Emitted

\* A row of the request log is inserted by one session at a time, and a debit has
\* the id of a row that is committed with it.
Recorded ==
    /\ \A r \in Requests : pc[r] = "recorded" =>
        /\ job[r].id \notin log
        /\ \A q \in Requests \ {r} : pc[q] = "recorded" => job[q].id # job[r].id
    /\ \A e \in ledger : e.key[1] = "request" => e.key[2] \in log

\* A request that was answered has got as far as its stream or its debit.
Answered ==
    \A r \in answered :
        /\ pc[r] \notin {"idle", "calling"}
        /\ ~job[r].stream =>
            /\ pc[r] = "done"
            /\ job[r].cost > 0 => [key |-> <<"request", job[r].id>>, delta |-> -job[r].cost] \in ledger

\* Two deliveries work on one event only after a first one has committed something
\* for it, which only a refund does before it is processed.
EventsHeld ==
    /\ \A c, d \in Deliveries :
        c # d /\ job[c].event = job[d].event /\ job[c].event # None
            => processed[job[c].event] # "none"
    /\ \A d \in Deliveries :
        job[d].event # None /\ job[d].event[2] # "refunded" => processed[job[d].event] = "none"
    /\ \A e \in Events : processed[e] = "received" => e[2] = "refunded"

\* A top-up is completed once.  Who has read it as completed is the first to refund
\* it, and once it is refunded it is not completed again.
RefundedOnce ==
    /\ \A i \in Topups :
        /\ intent[i] = "completed" => processed[<<i, "paid">>] = "processed"
        /\ processed[<<i, "refunded">>] = "received" =>
            intent[i] # "completed" /\ processed[<<i, "paid">>] = "processed"
    /\ \A d \in Deliveries :
        pc[d] = "refunded" /\ job[d].seen = "completed" =>
            /\ processed[job[d].event] = "none"
            /\ processed[<<job[d].event[1], "paid">>] = "processed"
    /\ \A e \in ledger : e.key[1] = "refund" =>
        processed[<<e.key[2], "refunded">>] # "none"

\* The entries of the ledger, one for every key, and what they leave of the balance.
LedgerInv ==
    /\ IsFiniteSet(ledger)
    /\ WalletFollowsLedger

\* The two kinds of session have labels of their own.
LEMMA Roles ==
    ASSUME NEW r \in Requests, NEW d \in Deliveries
    PROVE  r \in Sessions /\ d \in Sessions /\ r # d
BY WalletConstants DEF Sessions

LEMMA TypeInit == Init => TypeInv
<1> SUFFICES ASSUME Init PROVE TypeInv
  OBVIOUS
<1>1. TypeOK
  BY WalletConstants DEF Init, TypeOK
<1>2. Blank \in Jobs /\ Blank.event = None
  BY DEF Blank, Jobs
<1>3. JobsTyped
  BY <1>2, Roles DEF Init, JobsTyped, Sessions, RequestLabels, DeliveryLabels
<1>4. Emitted
  BY <1>2, Roles DEF Init, Emitted, Sessions
<1> QED BY <1>1, <1>3, <1>4 DEF TypeInv

\* A session that goes to another label: the types of its own state, and those of
\* everything else.
PcLabels == {"idle", "calling", "answered", "recorded", "done", "unpaid",
             "paid", "expired", "refunded", "taken_back"}

LEMMA RequestGoes ==
    ASSUME TypeInv, NEW r \in Requests, NEW label \in RequestLabels, NEW j \in Jobs,
           GotoWith(r, label, j), label \in {"calling", "answered", "recorded"} => j.id \in Ids
    PROVE  /\ JobsTyped' /\ pc' \in [Sessions -> PcLabels]
           /\ events' = events => Emitted'
           /\ pc'[r] = label /\ job'[r] = j
           /\ \A s \in Sessions \ {r} : pc'[s] = pc[s] /\ job'[s] = job[s]
<1>1. /\ pc'[r] = label /\ job'[r] = j /\ job' \in [Sessions -> Jobs]
      /\ \A s \in Sessions \ {r} : pc'[s] = pc[s] /\ job'[s] = job[s]
  BY Roles DEF GotoWith, TypeInv, TypeOK, JobsTyped, Sessions
<1>2. pc' \in [Sessions -> PcLabels]
  BY DEF GotoWith, TypeInv, TypeOK, PcLabels, RequestLabels
<1>3. \A d \in Deliveries : pc'[d] = pc[d] /\ job'[d] = job[d]
  BY <1>1, Roles
<1>5. events' = events => Emitted'
  BY <1>3 DEF TypeInv, Emitted
<1>4. \A q \in Requests : /\ pc'[q] \in RequestLabels
                          /\ pc'[q] \in {"calling", "answered", "recorded"} => job'[q].id \in Ids
  BY <1>1, Roles DEF TypeInv, JobsTyped, Sessions
<1> QED BY <1>1, <1>2, <1>3, <1>4, <1>5 DEF TypeInv, JobsTyped

LEMMA RequestStays ==
    ASSUME TypeInv, NEW r \in Requests, NEW label \in {"done"}, Goto(r, label)
    PROVE  /\ JobsTyped' /\ pc' \in [Sessions -> PcLabels]
           /\ events' = events => Emitted'
           /\ pc'[r] = label /\ job' = job
           /\ \A s \in Sessions \ {r} : pc'[s] = pc[s]
<1>1. r \in Sessions /\ job[r] \in Jobs /\ job' = job
  BY DEF Goto, TypeInv, JobsTyped, Sessions
<1>2. GotoWith(r, label, job[r])
  BY <1>1 DEF Goto, GotoWith, TypeInv, JobsTyped
<1> QED BY <1>1, <1>2, RequestGoes DEF RequestLabels

LEMMA DeliveryGoes ==
    ASSUME TypeInv, NEW d \in Deliveries, NEW label \in DeliveryLabels, NEW j \in Jobs,
           GotoWith(d, label, j),
           label = "idle" <=> j.event = None,
           label \notin {"idle", "taken_back"} => label = j.event[2],
           label = "taken_back" => j.event[2] = "refunded"
    PROVE  /\ JobsTyped' /\ pc' \in [Sessions -> PcLabels]
           /\ j.event \in events \cup {None} /\ events' = events => Emitted'
           /\ pc'[d] = label /\ job'[d] = j
           /\ \A s \in Sessions \ {d} : pc'[s] = pc[s] /\ job'[s] = job[s]
<1>1. /\ pc'[d] = label /\ job'[d] = j /\ job' \in [Sessions -> Jobs]
      /\ \A s \in Sessions \ {d} : pc'[s] = pc[s] /\ job'[s] = job[s]
  BY Roles DEF GotoWith, TypeInv, TypeOK, JobsTyped, Sessions
<1>2. pc' \in [Sessions -> PcLabels]
  BY DEF GotoWith, TypeInv, TypeOK, PcLabels, DeliveryLabels
<1>3. \A r \in Requests : pc'[r] = pc[r] /\ job'[r] = job[r]
  BY <1>1, Roles
<1>4. ASSUME NEW c \in Deliveries
      PROVE  /\ pc'[c] \in DeliveryLabels
             /\ pc'[c] = "idle" <=> job'[c].event = None
             /\ pc'[c] \notin {"idle", "taken_back"} => pc'[c] = job'[c].event[2]
             /\ pc'[c] = "taken_back" => job'[c].event[2] = "refunded"
  <2>1. CASE c = d
    BY <1>1, <2>1
  <2>2. CASE c # d
    BY <1>1, <2>2 DEF TypeInv, JobsTyped, Sessions
  <2> QED BY <2>1, <2>2
<1>5. j.event \in events \cup {None} /\ events' = events => Emitted'
  BY <1>1 DEF TypeInv, Emitted, Sessions
<1> QED BY <1>1, <1>2, <1>3, <1>4, <1>5 DEF TypeInv, JobsTyped

\* The event a delivery holds.
LEMMA HoldsEvent ==
    ASSUME TypeInv, NEW d \in Deliveries, pc[d] # "idle"
    PROVE  /\ job[d] \in Jobs /\ job[d].event \in Events \cap events /\ job[d].event # None
           /\ Intent(d) \in Topups /\ job[d].event = <<Intent(d), job[d].event[2]>>
<1>1. job[d] \in Jobs /\ job[d].event # None
  BY Roles DEF TypeInv, JobsTyped, Sessions
<1>2. job[d].event \in Events
  BY <1>1 DEF Jobs
<1> QED BY <1>1, <1>2 DEF Intent, Events, TypeInv, Emitted

LEMMA MoveTyped ==
    ASSUME TypeInv, NEW key, NEW delta \in Int, NEW after \in Nat,
           key \in {"request"} \X Ids \cup {"topup", "refund"} \X Topups, Move(key, delta, after)
    PROVE  /\ balance' \in Nat
           /\ ledger' \subseteq [key : {"request"} \X Ids \cup {"topup", "refund"} \X Topups,
                                 delta : Int]
BY DEF Move, TypeInv, TypeOK

LEMMA RequestTyped ==
    ASSUME TypeInv, NEW r \in Requests,
           \/ Admit(r) \/ RequestFails(r) \/ ProviderAnswers(r) \/ Disconnect(r)
           \/ Record(r) \/ Charge(r) \/ ChargeNothing(r) \/ Overdrawn(r)
    PROVE  TypeInv'
<1>r. job[r] \in Jobs /\ pc[r] \in RequestLabels /\ r \in Sessions
  BY Roles DEF TypeInv, JobsTyped, Sessions
<1>i. pc[r] \in {"calling", "answered", "recorded"} => job[r].id \in Ids
  BY DEF TypeInv, JobsTyped
<1>1. ASSUME Admit(r) PROVE TypeInv'
  <2>1. PICK id \in Ids, stream \in BOOLEAN :
           GotoWith(r, "calling", [job[r] EXCEPT !.id = id, !.stream = stream])
    BY <1>1 DEF Admit
  <2> DEFINE j == [job[r] EXCEPT !.id = id, !.stream = stream]
  <2>2. j \in Jobs /\ j.id \in Ids
    BY <1>r DEF Jobs
  <2>3. JobsTyped' /\ pc' \in [Sessions -> PcLabels] /\ (events' = events => Emitted')
    <3> HIDE DEF j
    <3> QED BY <2>1, <2>2, RequestGoes DEF RequestLabels, j
  <2> QED BY <1>1, <2>3 DEF Admit, wallet, usage, stripe, webhook, TypeInv, TypeOK, PcLabels
<1>2. ASSUME RequestFails(r) PROVE TypeInv'
  <2>1. JobsTyped' /\ pc' \in [Sessions -> PcLabels] /\ (events' = events => Emitted')
    BY <1>2, RequestStays DEF RequestFails
  <2>2. log' \subseteq Ids
    BY <1>2, <1>i DEF RequestFails, TypeInv, TypeOK
  <2> QED BY <1>2, <2>1, <2>2 DEF RequestFails, wallet, stripe, webhook, TypeInv, TypeOK, PcLabels
<1>3. ASSUME ProviderAnswers(r) PROVE TypeInv'
  <2>1. PICK cost \in 0..MaxCost : GotoWith(r, "answered", [job[r] EXCEPT !.cost = cost])
    BY <1>3 DEF ProviderAnswers
  <2> DEFINE j == [job[r] EXCEPT !.cost = cost]
  <2>2. j \in Jobs /\ j.id = job[r].id
    BY <1>r, WalletConstants DEF Jobs
  <2>3. JobsTyped' /\ pc' \in [Sessions -> PcLabels] /\ (events' = events => Emitted')
    <3>1. pc[r] = "calling"
      BY <1>3 DEF ProviderAnswers
    <3> HIDE DEF j
    <3> QED BY <2>1, <2>2, <3>1, <1>i, RequestGoes DEF RequestLabels, j
  <2>4. answered' \subseteq Requests
    BY <1>3 DEF ProviderAnswers, TypeInv, TypeOK
  <2> QED BY <1>3, <2>3, <2>4 DEF ProviderAnswers, wallet, stripe, webhook, TypeInv, TypeOK, PcLabels
<1>4. ASSUME Disconnect(r) PROVE TypeInv'
  <2>1. JobsTyped' /\ pc' \in [Sessions -> PcLabels] /\ (events' = events => Emitted')
    BY <1>4, RequestStays DEF Disconnect
  <2>2. answered' \subseteq Requests
    BY <1>4 DEF Disconnect, TypeInv, TypeOK
  <2> QED BY <1>4, <2>1, <2>2 DEF Disconnect, wallet, stripe, webhook, TypeInv, TypeOK, PcLabels
<1>5. ASSUME Record(r) PROVE TypeInv'
  <2>1. JobsTyped' /\ pc' \in [Sessions -> PcLabels] /\ (events' = events => Emitted')
    <3>1. CASE job[r].id \in log
      BY <1>5, <3>1, RequestStays DEF Record
    <3>2. CASE job[r].id \notin log
      <4> DEFINE j == [job[r] EXCEPT !.spend = spend]
      <4>1. j \in Jobs /\ j.id = job[r].id
        BY <1>r DEF Jobs, TypeInv, TypeOK
      <4>2. GotoWith(r, "recorded", j) /\ pc[r] = "answered"
        BY <1>5, <3>2 DEF Record
      <4> HIDE DEF j
      <4> QED BY <4>1, <4>2, <1>i, RequestGoes DEF RequestLabels
    <3> QED BY <3>1, <3>2
  <2> QED BY <1>5, <2>1 DEF Record, wallet, usage, stripe, webhook, TypeInv, TypeOK, PcLabels
<1>6. ASSUME Charge(r) PROVE TypeInv'
  <2>1. JobsTyped' /\ pc' \in [Sessions -> PcLabels] /\ (events' = events => Emitted')
    BY <1>6, RequestStays DEF Charge
  <2>2. job[r].id \in Ids /\ job[r].cost \in Nat /\ job[r].spend \in Nat
    BY <1>6, <1>r, <1>i DEF Charge, Jobs
  <2>3. balance - job[r].cost \in Nat /\ -job[r].cost \in Int
    BY <1>6, <2>2 DEF Charge, Debit, TypeInv, TypeOK
  <2>4. /\ balance' \in Nat
        /\ ledger' \subseteq [key : {"request"} \X Ids \cup {"topup", "refund"} \X Topups, delta : Int]
    BY <1>6, <2>2, <2>3, MoveTyped DEF Charge, Debit
  <2>5. spend' \in Nat /\ log' \subseteq Ids /\ answered' \subseteq Requests
    BY <1>6, <2>2 DEF Charge, Debit, TypeInv, TypeOK
  <2> QED BY <1>6, <2>1, <2>4, <2>5 DEF Charge, stripe, webhook, TypeInv, TypeOK, PcLabels
<1>7. ASSUME Overdrawn(r) PROVE TypeInv'
  <2>1. JobsTyped' /\ pc' \in [Sessions -> PcLabels] /\ (events' = events => Emitted')
    BY <1>7, RequestStays DEF Overdrawn
  <2> QED BY <1>7, <2>1 DEF Overdrawn, wallet, usage, stripe, webhook, TypeInv, TypeOK, PcLabels
<1>8. ASSUME ChargeNothing(r) PROVE TypeInv'
  <2>1. JobsTyped' /\ pc' \in [Sessions -> PcLabels] /\ (events' = events => Emitted')
    BY <1>8, RequestStays DEF ChargeNothing
  <2>2. log' \subseteq Ids /\ answered' \subseteq Requests
    BY <1>8, <1>i DEF ChargeNothing, TypeInv, TypeOK
  <2> QED BY <1>8, <2>1, <2>2 DEF ChargeNothing, wallet, stripe, webhook, TypeInv, TypeOK, PcLabels
<1> QED BY <1>1, <1>2, <1>3, <1>4, <1>5, <1>6, <1>7, <1>8

LEMMA StripeTyped ==
    ASSUME TypeInv, NEW i \in Topups,
           CreateTopup(i) \/ \E from, to \in {"open", "unpaid", "paid", "expired", "refunded"} :
                                StripeChanges(i, from, to)
    PROVE  TypeInv'
<1>1. ASSUME CreateTopup(i) PROVE TypeInv'
  BY <1>1 DEF CreateTopup, wallet, usage, TypeInv, TypeOK, JobsTyped, Emitted
<1>2. ASSUME NEW from, NEW to, StripeChanges(i, from, to) PROVE TypeInv'
  <2>1. to \in {"unpaid", "paid", "expired", "refunded"}
    BY <1>2 DEF StripeChanges
  <2>2. checkout' \in [Topups -> {"none", "open", "unpaid", "paid", "expired", "refunded"}]
    BY <1>2, <2>1 DEF StripeChanges, TypeInv, TypeOK
  <2>3. acknowledged' \subseteq events' /\ events' \subseteq Events
    BY <1>2, <2>1 DEF StripeChanges, TypeInv, TypeOK, Events
  <2> QED BY <1>2, <2>2, <2>3 DEF StripeChanges, wallet, usage, webhook, TypeInv, TypeOK, JobsTyped, Emitted
<1> QED BY <1>1, <1>2

LEMMA AcknowledgeTyped ==
    ASSUME TypeInv, NEW d \in Deliveries, pc[d] # "idle", Acknowledge(d)
    PROVE  /\ JobsTyped' /\ Emitted' /\ pc' \in [Sessions -> PcLabels]
           /\ processed' \in [Events -> {"none", "received", "processed"}]
           /\ acknowledged' \subseteq events
<1>1. Blank \in Jobs /\ Blank.event = None
  BY DEF Blank, Jobs
<1>2. JobsTyped' /\ Emitted' /\ pc' \in [Sessions -> PcLabels]
  BY <1>1, DeliveryGoes DEF Acknowledge, DeliveryLabels
<1> QED BY <1>2, HoldsEvent DEF Acknowledge, TypeInv, TypeOK

LEMMA DeliveryTyped ==
    ASSUME TypeInv, NEW d \in Deliveries, (\E e \in Events : Receive(d, e)) \/ Handle(d) \/ Fail(d)
    PROVE  TypeInv'
<1>b. Blank \in Jobs /\ Blank.event = None
  BY DEF Blank, Jobs
<1>1. ASSUME NEW e \in Events, Receive(d, e) PROVE TypeInv'
  <2>1. CASE processed[e] = "processed"
    <3>1. acknowledged' = acknowledged \cup {e} /\ UNCHANGED <<pc, job>> /\ e \in events
      BY <1>1, <2>1 DEF Receive
    <3>2. UNCHANGED <<wallet, usage, checkout, events, webhook>>
      BY <1>1 DEF Receive
    <3> QED
      BY <3>1, <3>2 DEF wallet, usage, webhook, TypeInv, TypeOK, JobsTyped, Emitted
  <2>2. CASE processed[e] # "processed"
    <3> DEFINE j == [Blank EXCEPT !.event = e, !.seen = intent[e[1]]]
    <3>1. GotoWith(d, e[2], j) /\ UNCHANGED acknowledged
      BY <1>1, <2>2 DEF Receive
    <3>2. e[1] \in Topups /\ e[2] \in {"unpaid", "paid", "expired", "refunded"} /\ e # None
      BY WalletConstants DEF Events
    <3>3. intent[e[1]] \in IntentStatus
      BY <3>2 DEF TypeInv, TypeOK, IntentStatus
    <3>4. j \in Jobs /\ j.event = e /\ e \in events
      BY <1>1, <3>3 DEF Jobs, Blank, Receive
    <3>5. UNCHANGED <<wallet, usage, checkout, events, webhook>>
      BY <1>1 DEF Receive
    <3>6. JobsTyped' /\ Emitted' /\ pc' \in [Sessions -> PcLabels]
      <4>1. e[2] \in DeliveryLabels /\ e[2] # "idle" /\ e[2] # "taken_back"
        BY <3>2 DEF DeliveryLabels
      <4> HIDE DEF j
      <4> QED BY <3>1, <3>2, <3>4, <3>5, <4>1, DeliveryGoes
    <3> QED BY <3>1, <3>5, <3>6 DEF wallet, usage, webhook, TypeInv, TypeOK, PcLabels
  <2> QED BY <2>1, <2>2
<1>2. ASSUME Settle(d) PROVE TypeInv'
  <2>1. pc[d] # "idle" /\ Acknowledge(d)
    BY <1>2 DEF Settle
  <2>2. /\ balance' \in Nat
        /\ ledger' \subseteq [key : {"request"} \X Ids \cup {"topup", "refund"} \X Topups, delta : Int]
    <3>1. <<"topup", Intent(d)>> \in {"request"} \X Ids \cup {"topup", "refund"} \X Topups
      BY <2>1, HoldsEvent
    <3>2. Amount \in Int /\ balance + Amount \in Nat
      BY WalletConstants DEF TypeInv, TypeOK
    <3>3. \/ Move(<<"topup", Intent(d)>>, Amount, balance + Amount)
          \/ UNCHANGED wallet
      BY <1>2 DEF Settle
    <3>4. CASE UNCHANGED wallet
      BY <3>4 DEF wallet, TypeInv, TypeOK
    <3> QED BY <3>1, <3>2, <3>3, <3>4, MoveTyped
  <2>3. intent' \in [Topups -> {"none", "checkout_created", "completed", "expired", "refunded"}]
    BY <1>2, <2>1, HoldsEvent DEF Settle, TypeInv, TypeOK
  <2>4. UNCHANGED <<checkout, events, failures, usage>>
    BY <1>2 DEF Settle, Acknowledge
  <2> QED BY <2>1, <2>2, <2>3, <2>4, AcknowledgeTyped DEF usage, TypeInv, TypeOK, PcLabels
<1>3. ASSUME SettleUnpaid(d) \/ RefundNothing(d) PROVE TypeInv'
  <2>1. pc[d] # "idle" /\ Acknowledge(d) /\ UNCHANGED <<wallet, usage, intent>>
    BY <1>3 DEF SettleUnpaid, RefundNothing
  <2>2. UNCHANGED <<checkout, events, failures>>
    BY <2>1 DEF Acknowledge
  <2> QED BY <2>1, <2>2, AcknowledgeTyped DEF wallet, usage, TypeInv, TypeOK, PcLabels
<1>4. ASSUME Expire(d) PROVE TypeInv'
  <2>1. pc[d] # "idle" /\ Acknowledge(d) /\ UNCHANGED <<wallet, usage>>
    BY <1>4 DEF Expire
  <2>2. UNCHANGED <<checkout, events, failures>>
    BY <2>1 DEF Acknowledge
  <2>3. intent' \in [Topups -> {"none", "checkout_created", "completed", "expired", "refunded"}]
    BY <1>4, <2>1, HoldsEvent DEF Expire, TypeInv, TypeOK
  <2> QED BY <2>1, <2>2, <2>3, AcknowledgeTyped DEF wallet, usage, TypeInv, TypeOK, PcLabels
<1>5. ASSUME TakeBack(d) PROVE TypeInv'
  <2>1. pc[d] = "refunded" /\ UNCHANGED <<usage, stripe, failures>> /\ Goto(d, "taken_back")
    BY <1>5 DEF TakeBack
  <2>2. /\ job[d] \in Jobs /\ job[d].event \in Events \cap events /\ job[d].event # None
        /\ Intent(d) \in Topups /\ job[d].event[2] = "refunded"
    BY <2>1, HoldsEvent DEF TypeInv, JobsTyped
  <2>3. GotoWith(d, "taken_back", job[d])
    BY <2>1 DEF Goto, GotoWith, TypeInv, JobsTyped
  <2>4. JobsTyped' /\ Emitted' /\ pc' \in [Sessions -> PcLabels]
    BY <2>1, <2>2, <2>3, DeliveryGoes DEF DeliveryLabels, stripe
  <2>5. /\ balance' \in Nat
        /\ ledger' \subseteq [key : {"request"} \X Ids \cup {"topup", "refund"} \X Topups, delta : Int]
    <3>1. -Amount \in Int /\ (IF balance > Amount THEN balance - Amount ELSE 0) \in Nat
      BY WalletConstants DEF TypeInv, TypeOK
    <3>2. Move(<<"refund", Intent(d)>>, -Amount, IF balance > Amount THEN balance - Amount ELSE 0)
      BY <1>5 DEF TakeBack
    <3>3. <<"refund", Intent(d)>> \in {"request"} \X Ids \cup {"topup", "refund"} \X Topups
      BY <2>2
    <3> QED BY <3>1, <3>2, <3>3, MoveTyped
  <2>6. /\ intent' \in [Topups -> {"none", "checkout_created", "completed", "expired", "refunded"}]
        /\ processed' \in [Events -> {"none", "received", "processed"}]
    BY <1>5, <2>2 DEF TakeBack, TypeInv, TypeOK
  <2> QED BY <2>1, <2>4, <2>5, <2>6 DEF usage, stripe, TypeInv, TypeOK, PcLabels
<1>6. ASSUME Fail(d) PROVE TypeInv'
  <2>1. GotoWith(d, "idle", Blank) /\ UNCHANGED <<wallet, usage, stripe, intent, processed>>
    BY <1>6 DEF Fail
  <2>2. JobsTyped' /\ Emitted' /\ pc' \in [Sessions -> PcLabels]
    BY <1>b, <2>1, DeliveryGoes DEF DeliveryLabels, stripe
  <2>3. failures' \in 0..MaxFailures
    BY <1>6, WalletConstants DEF Fail, TypeInv, TypeOK
  <2> QED BY <2>1, <2>2, <2>3 DEF wallet, usage, stripe, TypeInv, TypeOK, PcLabels
<1> QED BY <1>1, <1>2, <1>3, <1>4, <1>5, <1>6 DEF Handle

LEMMA TypeNext == TypeInv /\ [Next]_vars => TypeInv'
<1> SUFFICES ASSUME TypeInv, [Next]_vars PROVE TypeInv'
  OBVIOUS
<1>1. CASE UNCHANGED vars
  BY <1>1 DEF vars, wallet, usage, stripe, webhook, TypeInv, TypeOK, JobsTyped, Emitted
<1> QED BY <1>1, RequestTyped, StripeTyped, DeliveryTyped DEF Next

\* The types of the wallet; the balance is never negative.
THEOREM WalletTyped == Spec => []TypeOK
<1>1. TypeInv => TypeOK
  BY DEF TypeInv
<1> QED BY TypeInit, TypeNext, <1>1, PTL DEF Spec

-----------------------------------------------------------------------------
(* Requests: the log, the debit and the answer *)

LEMMA RequestInit == Init => Recorded /\ Answered
BY Roles DEF Init, Recorded, Answered, Sessions

\* A step of a request that inserts no row and posts nothing.
LEMMA RequestAside ==
    ASSUME TypeInv, Recorded, Answered, NEW r \in Requests, NEW label \in {"calling", "done"},
           pc'[r] = label, job'[r].stream = job[r].stream \/ r \notin answered,
           \A q \in Requests \ {r} : pc'[q] = pc[q] /\ job'[q] = job[q],
           ledger' = ledger, log \subseteq log',
           \A id \in log' \ log : Free(id),
           answered' \subseteq answered \cup {r},
           r \in answered' => label = "done" /\ job[r].stream /\ job'[r].stream
    PROVE  Recorded' /\ Answered'
<1>1. ASSUME NEW q \in Requests, pc'[q] = "recorded"
      PROVE  q # r /\ pc[q] = "recorded" /\ job'[q] = job[q]
  BY <1>1
<1>2. ASSUME NEW q \in Requests, pc'[q] = "recorded"
      PROVE  /\ job'[q].id \notin log'
             /\ \A p \in Requests \ {q} : pc'[p] = "recorded" => job'[p].id # job'[q].id
  BY <1>1, <1>2 DEF Recorded, Free
<1>3. \A e \in ledger' : e.key[1] = "request" => e.key[2] \in log'
  BY DEF Recorded
<1>4. ASSUME NEW q \in answered'
      PROVE  /\ pc'[q] \notin {"idle", "calling"}
             /\ ~job'[q].stream =>
                  /\ pc'[q] = "done"
                  /\ job'[q].cost > 0 =>
                       [key |-> <<"request", job'[q].id>>, delta |-> -job'[q].cost] \in ledger'
  <2>1. CASE q = r
    BY <1>4, <2>1
  <2>2. CASE q # r
    BY <1>4, <2>2 DEF Answered, TypeInv, TypeOK
  <2> QED BY <2>1, <2>2
<1> QED BY <1>2, <1>3, <1>4 DEF Recorded, Answered

LEMMA RequestLogged ==
    ASSUME TypeInv, Recorded, Answered, NEW r \in Requests,
           \/ Admit(r) \/ RequestFails(r) \/ ProviderAnswers(r) \/ Disconnect(r)
           \/ Record(r) \/ Charge(r) \/ ChargeNothing(r) \/ Overdrawn(r)
    PROVE  Recorded' /\ Answered'
<1>r. job[r] \in Jobs /\ pc[r] \in RequestLabels /\ r \in Sessions
  BY Roles DEF TypeInv, JobsTyped, Sessions
<1>p. ASSUME NEW label \in RequestLabels, NEW j, GotoWith(r, label, j)
      PROVE  /\ pc'[r] = label /\ job'[r] = j
             /\ \A q \in Requests \ {r} : pc'[q] = pc[q] /\ job'[q] = job[q]
  BY <1>p DEF GotoWith, TypeInv, TypeOK, JobsTyped, Sessions
<1>q. ASSUME Goto(r, "done")
      PROVE  /\ pc'[r] = "done" /\ job' = job
             /\ \A q \in Requests \ {r} : pc'[q] = pc[q]
  BY <1>q, RequestStays DEF Sessions
<1>a. r \in answered => pc[r] \notin {"idle", "calling"} /\ (pc[r] # "done" => job[r].stream)
  BY DEF Answered
<1>1. ASSUME Admit(r) PROVE Recorded' /\ Answered'
  <2>1. PICK id \in Ids, stream \in BOOLEAN :
           GotoWith(r, "calling", [job[r] EXCEPT !.id = id, !.stream = stream])
    BY <1>1 DEF Admit
  <2>2. r \notin answered /\ UNCHANGED <<wallet, usage>>
    BY <1>1, <1>a DEF Admit
  <2>3. pc'[r] = "calling" /\ \A q \in Requests \ {r} : pc'[q] = pc[q] /\ job'[q] = job[q]
    BY <2>1, <1>p DEF RequestLabels
  <2> QED BY <2>2, <2>3, RequestAside DEF wallet, usage
<1>2. ASSUME RequestFails(r) PROVE Recorded' /\ Answered'
  <2>1. /\ Goto(r, "done") /\ UNCHANGED <<wallet, answered>> /\ r \notin answered
        /\ log \subseteq log' /\ \A id \in log' \ log : Free(id)
    BY <1>2, <1>a DEF RequestFails
  <2> QED BY <2>1, <1>q, RequestAside DEF wallet
<1>3. ASSUME ProviderAnswers(r) PROVE Recorded' /\ Answered'
  <2>1. PICK cost \in 0..MaxCost : GotoWith(r, "answered", [job[r] EXCEPT !.cost = cost])
    BY <1>3 DEF ProviderAnswers
  <2>2. /\ pc'[r] = "answered" /\ job'[r].stream = job[r].stream
        /\ \A q \in Requests \ {r} : pc'[q] = pc[q] /\ job'[q] = job[q]
    BY <2>1, <1>p, <1>r DEF RequestLabels, Jobs
  <2>3. /\ ledger' = ledger /\ log' = log /\ r \notin answered
        /\ answered' = IF job[r].stream THEN answered \cup {r} ELSE answered
    BY <1>3, <1>a DEF ProviderAnswers, wallet
  <2>4. Recorded'
    BY <2>2, <2>3 DEF Recorded
  <2>5. Answered'
    BY <2>2, <2>3 DEF Answered, TypeInv, TypeOK
  <2> QED BY <2>4, <2>5
<1>4. ASSUME Disconnect(r) PROVE Recorded' /\ Answered'
  <2>1. /\ Goto(r, "done") /\ UNCHANGED <<wallet, log>> /\ job[r].stream
        /\ answered' \in {answered, answered \cup {r}}
    BY <1>4 DEF Disconnect
  <2> QED BY <2>1, <1>q, RequestAside DEF wallet
<1>5. ASSUME Record(r) PROVE Recorded' /\ Answered'
  <2>1. pc[r] = "answered" /\ Free(job[r].id) /\ UNCHANGED <<wallet, usage>>
    BY <1>5 DEF Record
  <2>2. CASE job[r].id \in log
    BY <1>5, <2>1, <2>2, <1>a, <1>q, RequestAside DEF Record, wallet, usage
  <2>3. CASE job[r].id \notin log
    <3> DEFINE j == [job[r] EXCEPT !.spend = spend]
    <3>1. GotoWith(r, "recorded", j)
      BY <1>5, <2>3 DEF Record
    <3>2. j.id = job[r].id /\ j.stream = job[r].stream /\ j.cost = job[r].cost
      BY <1>r DEF Jobs
    <3>3. /\ pc'[r] = "recorded" /\ job'[r] = j
          /\ \A q \in Requests \ {r} : pc'[q] = pc[q] /\ job'[q] = job[q]
      BY <3>1, <1>p DEF RequestLabels
    <3> HIDE DEF j
    <3>4. Recorded'
      BY <2>1, <2>3, <3>2, <3>3 DEF Recorded, Free, wallet, usage
    <3>5. Answered'
      BY <2>1, <1>a, <3>2, <3>3 DEF Answered, wallet, usage, TypeInv, TypeOK
    <3> QED BY <3>4, <3>5
  <2> QED BY <2>2, <2>3
<1>6. ASSUME Charge(r) PROVE Recorded' /\ Answered'
  <2>1. /\ pc[r] = "recorded"
        /\ ledger' = ledger \cup {[key |-> <<"request", job[r].id>>, delta |-> -job[r].cost]}
        /\ log' = log \cup {job[r].id} /\ answered' = answered \cup {r}
        /\ Goto(r, "done")
    BY <1>6 DEF Charge, Debit, Move
  <2>2. pc'[r] = "done" /\ job' = job /\ \A q \in Requests \ {r} : pc'[q] = pc[q]
    BY <2>1, <1>q
  <2>3. ASSUME NEW q \in Requests, pc'[q] = "recorded"
        PROVE  /\ job'[q].id \notin log'
               /\ \A p \in Requests \ {q} : pc'[p] = "recorded" => job'[p].id # job'[q].id
    <3>1. q # r /\ pc[q] = "recorded" /\ job'[q] = job[q] /\ job[q].id # job[r].id
      BY <2>1, <2>2, <2>3 DEF Recorded
    <3> QED BY <2>1, <2>2, <3>1 DEF Recorded
  <2>4. \A e \in ledger' : e.key[1] = "request" => e.key[2] \in log'
    BY <2>1 DEF Recorded
  <2>5. Answered'
    <3> SUFFICES ASSUME NEW q \in answered'
                 PROVE  /\ pc'[q] \notin {"idle", "calling"}
                        /\ ~job'[q].stream =>
                             /\ pc'[q] = "done"
                             /\ job'[q].cost > 0 =>
                                  [key |-> <<"request", job'[q].id>>, delta |-> -job'[q].cost] \in ledger'
      BY DEF Answered
    <3>1. CASE q = r
      BY <3>1, <2>1, <2>2
    <3>2. CASE q # r
      BY <3>2, <2>1, <2>2 DEF Answered, TypeInv, TypeOK
    <3> QED BY <3>1, <3>2
  <2> QED BY <2>3, <2>4, <2>5 DEF Recorded
<1>7. ASSUME Overdrawn(r) PROVE Recorded' /\ Answered'
  BY <1>7, <1>a, <1>q, RequestAside DEF Overdrawn, wallet, usage
<1>8. ASSUME ChargeNothing(r) PROVE Recorded' /\ Answered'
  <2>1. /\ pc[r] = "recorded" /\ job[r].cost = 0 /\ ledger' = ledger
        /\ log' = log \cup {job[r].id} /\ answered' = answered \cup {r}
        /\ Goto(r, "done")
    BY <1>8 DEF ChargeNothing, wallet
  <2>2. pc'[r] = "done" /\ job' = job /\ \A q \in Requests \ {r} : pc'[q] = pc[q]
    BY <2>1, <1>q
  <2>3. Recorded'
    BY <2>1, <2>2 DEF Recorded
  <2>4. Answered'
    BY <2>1, <2>2 DEF Answered, TypeInv, TypeOK
  <2> QED BY <2>3, <2>4
<1> QED BY <1>1, <1>2, <1>3, <1>4, <1>5, <1>6, <1>7, <1>8

\* Stripe's steps and the deliveries leave the requests alone.
LEMMA RequestsUntouched ==
    ASSUME TypeInv, Recorded, Answered, UNCHANGED usage, ledger \subseteq ledger',
           \A e \in ledger' \ ledger : e.key[1] # "request",
           \A r \in Requests : pc'[r] = pc[r] /\ job'[r] = job[r]
    PROVE  Recorded' /\ Answered'
<1>1. Recorded'
  BY DEF Recorded, usage
<1>2. Answered'
  BY DEF Answered, usage, TypeInv, TypeOK
<1> QED BY <1>1, <1>2

LEMMA DeliveryLogged ==
    ASSUME TypeInv, Recorded, Answered, NEW d \in Deliveries,
           (\E e \in Events : Receive(d, e)) \/ Handle(d) \/ Fail(d)
    PROVE  Recorded' /\ Answered'
<1>p. ASSUME NEW label, NEW j, GotoWith(d, label, j)
      PROVE  \A r \in Requests : pc'[r] = pc[r] /\ job'[r] = job[r]
  BY <1>p, Roles DEF GotoWith, TypeInv, TypeOK, JobsTyped
<1>1. \A r \in Requests : pc'[r] = pc[r] /\ job'[r] = job[r]
  <2>1. \A e \in Events : Receive(d, e) => UNCHANGED <<pc, job>> \/ \E j : GotoWith(d, e[2], j)
    BY DEF Receive
  <2>2. Acknowledge(d) \/ Fail(d) => \E label, j : GotoWith(d, label, j)
    BY DEF Acknowledge, Fail
  <2>3. TakeBack(d) => \A r \in Requests : pc'[r] = pc[r] /\ job'[r] = job[r]
    BY Roles DEF TakeBack, Goto, TypeInv, TypeOK
  <2>4. Handle(d) => Acknowledge(d) \/ TakeBack(d)
    BY DEF Handle, Settle, SettleUnpaid, Expire, RefundNothing
  <2> QED BY <2>1, <2>2, <2>3, <2>4, <1>p
<1>2. UNCHANGED usage
  BY DEF Receive, Handle, Settle, SettleUnpaid, Expire, TakeBack, RefundNothing, Fail
<1>3. ledger \subseteq ledger' /\ \A e \in ledger' \ ledger : e.key[1] # "request"
  <2>1. \/ UNCHANGED wallet
        \/ \E delta, after : Move(<<"topup", Intent(d)>>, delta, after)
        \/ \E delta, after : Move(<<"refund", Intent(d)>>, delta, after)
    BY DEF Receive, Handle, Settle, SettleUnpaid, Expire, TakeBack, RefundNothing, Fail
  <2>2. ASSUME NEW key, NEW delta, NEW after, Move(key, delta, after), key[1] # "request"
        PROVE  ledger \subseteq ledger' /\ \A e \in ledger' \ ledger : e.key[1] # "request"
    BY <2>2 DEF Move
  <2>3. <<"topup", Intent(d)>>[1] # "request" /\ <<"refund", Intent(d)>>[1] # "request"
    OBVIOUS
  <2> QED BY <2>1, <2>2, <2>3 DEF wallet
<1> QED BY <1>1, <1>2, <1>3, RequestsUntouched

LEMMA RequestNext == TypeInv /\ Recorded /\ Answered /\ [Next]_vars => Recorded' /\ Answered'
<1> SUFFICES ASSUME TypeInv, Recorded, Answered, [Next]_vars PROVE Recorded' /\ Answered'
  OBVIOUS
<1>1. ASSUME NEW i \in Topups,
             CreateTopup(i) \/ \E from, to \in {"open", "unpaid", "paid", "expired", "refunded"} :
                                  StripeChanges(i, from, to)
      PROVE  Recorded' /\ Answered'
  BY <1>1, RequestsUntouched DEF CreateTopup, StripeChanges, wallet, usage
<1>2. CASE UNCHANGED vars
  BY <1>2, RequestsUntouched DEF vars, wallet
<1> QED BY <1>1, <1>2, RequestLogged, DeliveryLogged DEF Next

\* An answer that is not streamed is charged, for any number of requests, whatever
\* ids their clients chose and whatever happens to the balance in the meantime.
THEOREM AnswersCharged == Spec => []AnswerIsCharged
<1>1. Answered => AnswerIsCharged
  BY DEF Answered, AnswerIsCharged
<1> QED BY TypeInit, TypeNext, RequestInit, RequestNext, <1>1, PTL DEF Spec

-----------------------------------------------------------------------------
(* Deliveries: the events, and the refund of a top-up *)

LEMMA EventsInit == Init => EventsHeld /\ RefundedOnce
<1> SUFFICES ASSUME Init PROVE EventsHeld /\ RefundedOnce
  OBVIOUS
<1>1. \A d \in Deliveries : job[d].event = None /\ pc[d] = "idle"
  BY Roles DEF Init, Blank, Sessions
<1>2. \A i \in Topups, k \in {"paid", "refunded"} : processed[<<i, k>>] = "none"
  BY DEF Init, Events
<1> QED BY <1>1, <1>2 DEF Init, EventsHeld, RefundedOnce

\* A step of a request or of Stripe: nothing the deliveries use changes, and no
\* refund is posted.
LEMMA EventsUntouched ==
    ASSUME EventsHeld, RefundedOnce, UNCHANGED processed,
           \A d \in Deliveries : pc'[d] = pc[d] /\ job'[d] = job[d],
           \A i \in Topups : intent'[i] = intent[i] \/ intent'[i] = "checkout_created",
           \A e \in ledger' \ ledger : e.key[1] # "refund"
    PROVE  EventsHeld' /\ RefundedOnce'
<1>1. EventsHeld'
  BY DEF EventsHeld
<1>2. RefundedOnce'
  BY DEF RefundedOnce
<1> QED BY <1>1, <1>2

\* The end of a delivery, or its failure: the delivery holds no event any more.
LEMMA EventsReleased ==
    ASSUME TypeInv, EventsHeld, NEW d \in Deliveries, pc[d] # "idle",
           GotoWith(d, "idle", Blank),
           \A e \in Events \ {job[d].event} : processed'[e] = processed[e],
           processed'[job[d].event] \in {processed[job[d].event], "processed"}
    PROVE  /\ EventsHeld'
           /\ pc'[d] = "idle"
           /\ \A c \in Deliveries \ {d} : /\ pc'[c] = pc[c] /\ job'[c] = job[c]
                                          /\ processed[job[d].event] = "none" => job[c].event # job[d].event
<1>1. /\ pc'[d] = "idle" /\ job'[d].event = None
      /\ \A c \in Deliveries \ {d} : pc'[c] = pc[c] /\ job'[c] = job[c]
  BY Roles DEF GotoWith, Blank, TypeInv, TypeOK, JobsTyped, Sessions
<1>2. \A c \in Deliveries \ {d} :
          processed[job[d].event] = "none" => job[c].event # job[d].event
  BY HoldsEvent DEF EventsHeld
<1>3. ASSUME NEW c \in Deliveries, job'[c].event # None
      PROVE  c # d /\ job'[c] = job[c] /\ job[c].event \in Events
  <2>1. c # d /\ job'[c] = job[c]
    BY <1>1, <1>3
  <2> QED BY <2>1, <1>3, HoldsEvent DEF TypeInv, JobsTyped
<1>4. ASSUME NEW c \in Deliveries, NEW b \in Deliveries,
             c # b, job'[c].event = job'[b].event, job'[c].event # None
      PROVE  processed'[job'[c].event] # "none"
  <2>1. processed[job[c].event] # "none" /\ job'[c].event = job[c].event /\ job[c].event \in Events
    BY <1>3, <1>4 DEF EventsHeld
  <2> QED BY <2>1
<1>5. ASSUME NEW c \in Deliveries, job'[c].event # None, job'[c].event[2] # "refunded"
      PROVE  processed'[job'[c].event] = "none"
  <2>1. c # d /\ processed[job[c].event] = "none" /\ job'[c].event = job[c].event /\ job[c].event \in Events
    BY <1>3, <1>5 DEF EventsHeld
  <2>2. job[c].event # job[d].event
    BY <2>1, <1>2
  <2> QED BY <2>1, <2>2
<1>6. \A e \in Events : processed'[e] = "received" => e[2] = "refunded"
  BY DEF EventsHeld
<1> QED BY <1>1, <1>2, <1>4, <1>5, <1>6 DEF EventsHeld

\* Such a step keeps the refunds apart if it marks an event as processed and
\* completes a top-up only together with its payment.
LEMMA RefundsReleased ==
    ASSUME TypeInv, EventsHeld, RefundedOnce, NEW d \in Deliveries, pc[d] # "idle",
           GotoWith(d, "idle", Blank),
           \A e \in Events \ {job[d].event} : processed'[e] = processed[e],
           processed'[job[d].event] \in {processed[job[d].event], "processed"},
           \A i \in Topups : intent'[i] = "completed" =>
               \/ intent[i] = "completed"
               \/ job[d].event = <<i, "paid">> /\ processed'[<<i, "paid">>] = "processed",
           \A e \in ledger' \ ledger : e.key[1] # "refund"
    PROVE  RefundedOnce'
<1>1. /\ pc'[d] = "idle"
      /\ \A c \in Deliveries \ {d} :
           /\ pc'[c] = pc[c] /\ job'[c] = job[c]
           /\ processed[job[d].event] = "none" => job[c].event # job[d].event
  BY EventsReleased
<1>2. job[d].event \in Events /\ job[d].event # None
  BY HoldsEvent
<1>3. \A i \in Topups : <<i, "paid">> \in Events /\ <<i, "refunded">> \in Events
  BY DEF Events
<1>4. \A e \in Events : /\ processed[e] # "none" => processed'[e] # "none"
                        /\ processed[e] = "processed" => processed'[e] = "processed"
                        /\ processed'[e] = "received" => processed[e] = "received"
  BY <1>2
<1>5. ASSUME NEW i \in Topups
      PROVE  /\ intent'[i] = "completed" => processed'[<<i, "paid">>] = "processed"
             /\ processed'[<<i, "refunded">>] = "received" =>
                  intent'[i] # "completed" /\ processed'[<<i, "paid">>] = "processed"
  <2>1. intent'[i] = "completed" => processed'[<<i, "paid">>] = "processed"
    BY <1>3, <1>4 DEF RefundedOnce
  <2>2. ASSUME processed'[<<i, "refunded">>] = "received"
        PROVE  intent'[i] # "completed" /\ processed'[<<i, "paid">>] = "processed"
    <3>1. processed[<<i, "refunded">>] = "received"
      BY <1>3, <1>4, <2>2
    <3>2. intent[i] # "completed" /\ processed[<<i, "paid">>] = "processed"
      BY <3>1 DEF RefundedOnce
    <3>3. job[d].event # <<i, "paid">>
      <4> SUFFICES ASSUME job[d].event = <<i, "paid">> PROVE FALSE
        OBVIOUS
      <4>1. job[d].event[2] # "refunded"
        OBVIOUS
      <4>2. processed[job[d].event] = "none"
        BY <4>1, <1>2 DEF EventsHeld
      <4> QED BY <4>2, <3>2
    <3> QED BY <3>2, <3>3, <1>3, <1>4
  <2> QED BY <2>1, <2>2
<1>6. ASSUME NEW c \in Deliveries, pc'[c] = "refunded", job'[c].seen = "completed"
      PROVE  /\ processed'[job'[c].event] = "none"
             /\ processed'[<<job'[c].event[1], "paid">>] = "processed"
  <2>1. c # d /\ job'[c] = job[c] /\ pc[c] = "refunded" /\ job[c].seen = "completed"
    BY <1>1, <1>6
  <2>2. /\ processed[job[c].event] = "none" /\ processed[<<job[c].event[1], "paid">>] = "processed"
        /\ job[c].event \in Events /\ Intent(c) \in Topups
    BY <2>1, HoldsEvent DEF RefundedOnce
  <2>3. job[c].event # job[d].event
    BY <2>1, <2>2, <1>1
  <2> QED BY <2>1, <2>2, <2>3, <1>3, <1>4 DEF Intent
<1>7. ASSUME NEW e \in ledger', e.key[1] = "refund"
      PROVE  processed'[<<e.key[2], "refunded">>] # "none"
  <2>1. e \in ledger
    BY <1>7
  <2>2. e.key[2] \in Topups
    BY <1>7, <2>1 DEF TypeInv, TypeOK
  <2>3. processed[<<e.key[2], "refunded">>] # "none"
    BY <1>7, <2>1 DEF RefundedOnce
  <2> QED BY <2>2, <2>3, <1>3, <1>4
<1> QED BY <1>5, <1>6, <1>7 DEF RefundedOnce

LEMMA DeliveryEvents ==
    ASSUME TypeInv, EventsHeld, RefundedOnce, NEW d \in Deliveries,
           (\E e \in Events : Receive(d, e)) \/ Handle(d) \/ Fail(d)
    PROVE  EventsHeld' /\ RefundedOnce'
<1>k. ASSUME pc[d] # "idle", Acknowledge(d)
      PROVE  /\ GotoWith(d, "idle", Blank) /\ job[d].event \in Events
             /\ \A e \in Events \ {job[d].event} : processed'[e] = processed[e]
             /\ processed'[job[d].event] = "processed"
  BY <1>k, HoldsEvent DEF Acknowledge, TypeInv, TypeOK
<1>1. ASSUME NEW e \in Events, Receive(d, e) PROVE EventsHeld' /\ RefundedOnce'
  <2>u. UNCHANGED <<processed, intent, ledger>> /\ pc[d] = "idle"
    BY <1>1 DEF Receive, webhook, wallet
  <2>1. CASE processed[e] = "processed"
    BY <1>1, <2>1, <2>u, EventsUntouched DEF Receive
  <2>2. CASE processed[e] # "processed"
    <3> DEFINE j == [Blank EXCEPT !.event = e, !.seen = intent[e[1]]]
    <3>1. GotoWith(d, e[2], j)
      BY <1>1, <2>2 DEF Receive
    <3>2. j.event = e /\ j.seen = intent[e[1]]
      BY DEF Blank
    <3>3. /\ pc'[d] = e[2] /\ job'[d] = j
          /\ \A c \in Deliveries \ {d} : pc'[c] = pc[c] /\ job'[c] = job[c]
      BY <3>1, Roles DEF GotoWith, TypeInv, TypeOK, JobsTyped, Sessions
    <3>4. processed[e] = "none" => \A c \in Deliveries : job[c].event # e
      BY <1>1 DEF Receive
    <3>5. e[1] \in Topups /\ e = <<e[1], e[2]>> /\ processed[e] \in {"none", "received"}
      BY <2>2 DEF Events, TypeInv, TypeOK
    <3>6. e[2] # "refunded" => processed[e] = "none"
      BY <3>5 DEF EventsHeld
    <3> HIDE DEF j
    <3>7. EventsHeld'
      BY <2>u, <3>2, <3>3, <3>4, <3>6 DEF EventsHeld
    <3>8. ASSUME pc'[d] = "refunded", job'[d].seen = "completed"
          PROVE  processed[e] = "none" /\ processed[<<e[1], "paid">>] = "processed"
      <4>1. intent[e[1]] = "completed" /\ e = <<e[1], "refunded">>
        BY <3>8, <3>2, <3>3, <3>5
      <4> QED BY <4>1, <3>5 DEF RefundedOnce
    <3>9. RefundedOnce'
      BY <2>u, <3>2, <3>3, <3>8 DEF RefundedOnce
    <3> QED BY <3>7, <3>9
  <2> QED BY <2>1, <2>2
<1>2. ASSUME Settle(d) PROVE EventsHeld' /\ RefundedOnce'
  <2>1. pc[d] = "paid" /\ Acknowledge(d)
    BY <1>2 DEF Settle
  <2>2. job[d].event = <<Intent(d), "paid">> /\ Intent(d) \in Topups
    BY <2>1, HoldsEvent DEF TypeInv, JobsTyped
  <2>3. \A i \in Topups : intent'[i] = "completed" =>
               \/ intent[i] = "completed"
               \/ job[d].event = <<i, "paid">> /\ processed'[<<i, "paid">>] = "processed"
    BY <1>2, <2>1, <2>2, <1>k DEF Settle, TypeInv, TypeOK
  <2>4. \A e \in ledger' \ ledger : e.key[1] # "refund"
    <3>1. UNCHANGED ledger \/ ledger' = ledger \cup {[key |-> <<"topup", Intent(d)>>, delta |-> Amount]}
      BY <1>2 DEF Settle, Move, wallet
    <3> QED BY <3>1
  <2> QED BY <2>1, <2>3, <2>4, <1>k, EventsReleased, RefundsReleased
<1>3. ASSUME SettleUnpaid(d) \/ RefundNothing(d) PROVE EventsHeld' /\ RefundedOnce'
  <2>1. pc[d] # "idle" /\ Acknowledge(d) /\ UNCHANGED <<ledger, intent>>
    BY <1>3 DEF SettleUnpaid, RefundNothing, wallet
  <2> QED BY <2>1, <1>k, EventsReleased, RefundsReleased
<1>4. ASSUME Expire(d) PROVE EventsHeld' /\ RefundedOnce'
  <2>1. pc[d] # "idle" /\ Acknowledge(d) /\ UNCHANGED ledger
    BY <1>4 DEF Expire, wallet
  <2>2. \A i \in Topups : intent'[i] = "completed" => intent[i] = "completed"
    BY <1>4, <2>1, HoldsEvent DEF Expire, TypeInv, TypeOK
  <2> QED BY <2>1, <2>2, <1>k, EventsReleased, RefundsReleased
<1>5. ASSUME Fail(d) PROVE EventsHeld' /\ RefundedOnce'
  <2>1. pc[d] # "idle" /\ GotoWith(d, "idle", Blank) /\ UNCHANGED <<ledger, intent, processed>>
    BY <1>5 DEF Fail, wallet
  <2> QED BY <2>1, EventsReleased, RefundsReleased
<1>6. ASSUME TakeBack(d) PROVE EventsHeld' /\ RefundedOnce'
  <2>1. pc[d] = "refunded" /\ job[d].seen = "completed" /\ Goto(d, "taken_back")
    BY <1>6 DEF TakeBack
  <2>2. Intent(d) \in Topups /\ job[d].event = <<Intent(d), "refunded">> /\ job[d].event \in Events
    BY <2>1, HoldsEvent DEF TypeInv, JobsTyped
  <2> DEFINE i == Intent(d)
  <2>3. processed[<<i, "refunded">>] = "none" /\ processed[<<i, "paid">>] = "processed"
    BY <2>1, <2>2 DEF RefundedOnce
  <2>4. /\ pc'[d] = "taken_back" /\ job' = job
        /\ \A c \in Deliveries \ {d} : pc'[c] = pc[c]
    BY <2>1, Roles DEF Goto, TypeInv, TypeOK, Sessions
  <2>5. /\ processed'[<<i, "refunded">>] = "received"
        /\ \A e \in Events \ {<<i, "refunded">>} : processed'[e] = processed[e]
    BY <1>6, <2>2 DEF TakeBack, TypeInv, TypeOK
  <2>6. /\ intent'[i] = "refunded"
        /\ \A k \in Topups \ {i} : intent'[k] = intent[k]
    BY <1>6, <2>2 DEF TakeBack, TypeInv, TypeOK
  <2>7. ledger' = ledger \cup {[key |-> <<"refund", i>>, delta |-> -Amount]}
    BY <1>6 DEF TakeBack, Move
  <2>8. \A c \in Deliveries \ {d} : job[c].event # <<i, "refunded">>
    BY <2>2, <2>3, HoldsEvent, <2>1 DEF EventsHeld
  <2>9. \A k \in Topups : <<k, "paid">> \in Events /\ <<k, "refunded">> \in Events
    BY DEF Events
  <2>p. \A e \in Events : processed[e] # "none" => processed'[e] = processed[e]
    BY <2>3, <2>5
  <2>h. \A c \in Deliveries : job[c].event # None => job[c].event \in Events
    BY HoldsEvent DEF TypeInv, JobsTyped
  <2> HIDE DEF i
  <2>10. EventsHeld'
    <3>1. ASSUME NEW c \in Deliveries, NEW b \in Deliveries,
                 c # b, job[c].event = job[b].event, job[c].event # None
          PROVE  processed'[job[c].event] # "none"
      BY <3>1, <2>h, <2>p DEF EventsHeld
    <3>2. ASSUME NEW c \in Deliveries, job[c].event # None, job[c].event[2] # "refunded"
          PROVE  processed'[job[c].event] = "none"
      BY <3>2, <2>h, <2>5 DEF EventsHeld
    <3>3. \A e \in Events : processed'[e] = "received" => e[2] = "refunded"
      BY <2>5 DEF EventsHeld
    <3> QED BY <3>1, <3>2, <3>3, <2>4 DEF EventsHeld
  <2>11. ASSUME NEW k \in Topups
         PROVE  /\ intent'[k] = "completed" => processed'[<<k, "paid">>] = "processed"
                /\ processed'[<<k, "refunded">>] = "received" =>
                     intent'[k] # "completed" /\ processed'[<<k, "paid">>] = "processed"
    <3>1. CASE k = i
      BY <3>1, <2>3, <2>6, <2>p, <2>9
    <3>2. CASE k # i
      <4>1. processed'[<<k, "refunded">>] = processed[<<k, "refunded">>]
        BY <3>2, <2>5, <2>9
      <4>2. processed'[<<k, "paid">>] = processed[<<k, "paid">>] /\ intent'[k] = intent[k]
        BY <3>2, <2>5, <2>6, <2>9
      <4> QED BY <4>1, <4>2 DEF RefundedOnce
    <3> QED BY <3>1, <3>2
  <2>12. ASSUME NEW c \in Deliveries, pc'[c] = "refunded", job'[c].seen = "completed"
         PROVE  /\ processed'[job'[c].event] = "none"
                /\ processed'[<<job'[c].event[1], "paid">>] = "processed"
    <3>1. c # d /\ pc[c] = "refunded" /\ job'[c] = job[c]
      BY <2>12, <2>4
    <3>2. job[c].event \in Events /\ Intent(c) \in Topups
      BY <3>1, HoldsEvent
    <3>3. processed[job[c].event] = "none" /\ processed[<<Intent(c), "paid">>] = "processed"
      BY <3>1, <2>12 DEF RefundedOnce, Intent
    <3>4. job[c].event # <<i, "refunded">>
      BY <3>1, <2>8
    <3> QED BY <3>1, <3>2, <3>3, <3>4, <2>5, <2>9, <2>p DEF Intent
  <2>13. ASSUME NEW e \in ledger', e.key[1] = "refund"
         PROVE  processed'[<<e.key[2], "refunded">>] # "none"
    <3>1. CASE e \in ledger
      <4>1. e.key[2] \in Topups /\ processed[<<e.key[2], "refunded">>] # "none"
        BY <3>1, <2>13 DEF RefundedOnce, TypeInv, TypeOK
      <4> QED BY <4>1, <2>p, <2>9
    <3>2. CASE e \notin ledger
      <4>1. e.key[2] = i
        BY <3>2, <2>7
      <4> QED BY <4>1, <2>5
    <3> QED BY <3>1, <3>2
  <2> QED BY <2>10, <2>11, <2>12, <2>13 DEF RefundedOnce
<1> QED BY <1>1, <1>2, <1>3, <1>4, <1>5, <1>6 DEF Handle

LEMMA EventsNext ==
    TypeInv /\ EventsHeld /\ RefundedOnce /\ [Next]_vars => EventsHeld' /\ RefundedOnce'
<1> SUFFICES ASSUME TypeInv, EventsHeld, RefundedOnce, [Next]_vars
             PROVE  EventsHeld' /\ RefundedOnce'
  OBVIOUS
<1>1. ASSUME NEW i \in Topups,
             CreateTopup(i) \/ \E from, to \in {"open", "unpaid", "paid", "expired", "refunded"} :
                                  StripeChanges(i, from, to)
      PROVE  EventsHeld' /\ RefundedOnce'
  <2>1. UNCHANGED <<ledger, processed, pc, job>>
    BY <1>1 DEF CreateTopup, StripeChanges, wallet, webhook
  <2>2. \A k \in Topups : intent'[k] = intent[k] \/ intent'[k] = "checkout_created"
    BY <1>1 DEF CreateTopup, StripeChanges, webhook, TypeInv, TypeOK
  <2> QED BY <2>1, <2>2, EventsUntouched
<1>2. ASSUME NEW r \in Requests,
             \/ Admit(r) \/ RequestFails(r) \/ ProviderAnswers(r) \/ Disconnect(r)
             \/ Record(r) \/ Charge(r) \/ ChargeNothing(r) \/ Overdrawn(r)
      PROVE  EventsHeld' /\ RefundedOnce'
  <2>1. UNCHANGED webhook
    BY <1>2 DEF Admit, RequestFails, ProviderAnswers, Disconnect, Record, Charge, ChargeNothing, Overdrawn
  <2>2. \/ UNCHANGED ledger
        \/ ledger' = ledger \cup {[key |-> <<"request", job[r].id>>, delta |-> -job[r].cost]}
    BY <1>2 DEF Admit, RequestFails, ProviderAnswers, Disconnect, Record, Charge, ChargeNothing,
                Overdrawn, Debit, Move, wallet
  <2>3. \/ Goto(r, "done")
        \/ \E label, j : GotoWith(r, label, j)
    BY <1>2 DEF Admit, RequestFails, ProviderAnswers, Disconnect, Record, Charge, ChargeNothing, Overdrawn
  <2>4. \A d \in Deliveries : pc'[d] = pc[d] /\ job'[d] = job[d]
    BY <2>3, Roles DEF Goto, GotoWith, TypeInv, TypeOK, JobsTyped
  <2>5. \A e \in ledger' \ ledger : e.key[1] # "refund"
    BY <2>2
  <2> QED BY <2>1, <2>4, <2>5, EventsUntouched DEF webhook
<1>3. CASE UNCHANGED vars
  BY <1>3, EventsUntouched DEF vars, wallet, webhook
<1> QED BY <1>1, <1>2, <1>3, DeliveryEvents DEF Next

-----------------------------------------------------------------------------
(* The ledger *)

LEMMA LedgerInit == Init => LedgerInv
<1> SUFFICES ASSUME Init PROVE LedgerInv
  OBVIOUS
<1>1. ledger = {} /\ balance = Opening
  BY DEF Init
<1>2. Ledgered = DeltaSum({})
  BY <1>1 DEF Ledgered, DeltaSum
<1>3. Ledgered = 0
  BY <1>2, DeltaSumEmpty
<1> QED BY <1>1, <1>3, FS_EmptySet, WalletConstants DEF LedgerInv, WalletFollowsLedger

LEMMA LedgerKept == ASSUME LedgerInv, UNCHANGED wallet PROVE LedgerInv'
BY DEF LedgerInv, WalletFollowsLedger, Ledgered, wallet

\* A move under a new key adds its delta to what the ledger adds up to.
LEMMA LedgerMoves ==
    ASSUME TypeInv, LedgerInv, NEW key, NEW delta \in Int, NEW after \in Nat,
           Move(key, delta, after), \A e \in ledger : e.key # key,
           after >= balance + delta, key[1] # "refund" => after = balance + delta
    PROVE  LedgerInv'
<1> DEFINE x == [key |-> key, delta |-> delta]
<1>1. x \notin ledger /\ ledger' = ledger \cup {x} /\ balance' = after
      /\ x.delta = delta /\ x.key = key
  BY DEF Move
<1>2. IsFiniteSet(ledger) /\ \A e \in ledger \cup {x} : e.delta \in Int
  BY DEF LedgerInv, TypeInv, TypeOK
<1> HIDE DEF x
<1>3. Ledgered' = Ledgered + delta /\ Ledgered \in Int
  <2>1. DeltaSum(ledger \cup {x}) = DeltaSum(ledger) + x.delta /\ DeltaSum(ledger) \in Int
    BY <1>1, <1>2, DeltaSumWith, DeltaSumInt
  <2>2. Ledgered' = DeltaSum(ledger \cup {x}) /\ Ledgered = DeltaSum(ledger)
    BY <1>1 DEF Ledgered, DeltaSum
  <2> QED BY <1>1, <2>1, <2>2
<1>4. IsFiniteSet(ledger')
  BY <1>1, <1>2, FS_AddElement
<1>5. \A e, f \in ledger' : e.key = f.key => e = f
  BY <1>1 DEF LedgerInv, WalletFollowsLedger
<1>6. balance' >= Opening + Ledgered'
  BY <1>1, <1>3, WalletConstants DEF LedgerInv, WalletFollowsLedger, TypeInv, TypeOK
<1>7. (\A e \in ledger' : e.key[1] # "refund") => balance' = Opening + Ledgered'
  BY <1>1, <1>3, WalletConstants DEF LedgerInv, WalletFollowsLedger, TypeInv, TypeOK
<1> QED BY <1>4, <1>5, <1>6, <1>7 DEF LedgerInv, WalletFollowsLedger

LEMMA LedgerNext ==
    TypeInv /\ Recorded /\ EventsHeld /\ RefundedOnce /\ LedgerInv /\ [Next]_vars => LedgerInv'
<1> SUFFICES ASSUME TypeInv, Recorded, EventsHeld, RefundedOnce, LedgerInv, [Next]_vars
             PROVE  LedgerInv'
  OBVIOUS
<1>1. ASSUME NEW r \in Requests, Charge(r) PROVE LedgerInv'
  <2>1. /\ pc[r] = "recorded" /\ balance >= job[r].cost
        /\ Move(<<"request", job[r].id>>, -job[r].cost, balance - job[r].cost)
    BY <1>1 DEF Charge, Debit
  <2>2. job[r].cost \in Nat /\ balance \in Nat
    BY DEF TypeInv, TypeOK, JobsTyped, Jobs, Sessions
  <2>3. -job[r].cost \in Int /\ balance - job[r].cost \in Nat
        /\ balance - job[r].cost = balance + (-job[r].cost)
    BY <2>1, <2>2
  <2>4. \A e \in ledger : e.key # <<"request", job[r].id>>
    BY <2>1 DEF Recorded
  <2> QED BY <2>1, <2>3, <2>4, LedgerMoves
<1>2. ASSUME NEW d \in Deliveries, Settle(d) PROVE LedgerInv'
  <2>1. CASE Entries(<<"topup", Intent(d)>>) = {}
    <3>1. Move(<<"topup", Intent(d)>>, Amount, balance + Amount)
      BY <1>2, <2>1 DEF Settle
    <3>2. Amount \in Int /\ balance + Amount \in Nat
      BY WalletConstants DEF TypeInv, TypeOK
    <3>3. \A e \in ledger : e.key # <<"topup", Intent(d)>>
      BY <2>1 DEF Entries
    <3> QED BY <3>1, <3>2, <3>3, LedgerMoves
  <2>2. CASE Entries(<<"topup", Intent(d)>>) # {}
    BY <1>2, <2>2, LedgerKept DEF Settle
  <2> QED BY <2>1, <2>2
<1>3. ASSUME NEW d \in Deliveries, TakeBack(d) PROVE LedgerInv'
  <2>1. /\ pc[d] = "refunded" /\ job[d].seen = "completed"
        /\ Move(<<"refund", Intent(d)>>, -Amount, IF balance > Amount THEN balance - Amount ELSE 0)
    BY <1>3 DEF TakeBack
  <2> DEFINE after == IF balance > Amount THEN balance - Amount ELSE 0
  <2>2. -Amount \in Int /\ after \in Nat /\ after >= balance + (-Amount)
    BY WalletConstants DEF TypeInv, TypeOK
  <2>3. job[d].event = <<Intent(d), "refunded">> /\ processed[job[d].event] = "none"
    <3>1. pc[d] # "idle" /\ job[d].event[2] = "refunded"
      BY <2>1 DEF TypeInv, JobsTyped
    <3>2. processed[job[d].event] = "none"
      BY <2>1 DEF RefundedOnce
    <3> QED BY <3>1, <3>2, HoldsEvent
  <2>4. \A e \in ledger : e.key # <<"refund", Intent(d)>>
    BY <2>3 DEF RefundedOnce
  <2> HIDE DEF after
  <2>5. Move(<<"refund", Intent(d)>>, -Amount, after)
    BY <2>1 DEF after
  <2> QED BY <2>2, <2>4, <2>5, LedgerMoves
<1>4. ASSUME NEW r \in Requests,
             \/ Admit(r) \/ RequestFails(r) \/ ProviderAnswers(r) \/ Disconnect(r)
             \/ Record(r) \/ ChargeNothing(r) \/ Overdrawn(r)
      PROVE  LedgerInv'
  BY <1>4, LedgerKept
     DEF Admit, RequestFails, ProviderAnswers, Disconnect, Record, ChargeNothing, Overdrawn
<1>5. ASSUME NEW i \in Topups,
             CreateTopup(i) \/ \E from, to \in {"open", "unpaid", "paid", "expired", "refunded"} :
                                  StripeChanges(i, from, to)
      PROVE  LedgerInv'
  BY <1>5, LedgerKept DEF CreateTopup, StripeChanges
<1>6. ASSUME NEW d \in Deliveries,
             \/ \E e \in Events : Receive(d, e)
             \/ SettleUnpaid(d) \/ Expire(d) \/ RefundNothing(d) \/ Fail(d)
      PROVE  LedgerInv'
  BY <1>6, LedgerKept DEF Receive, SettleUnpaid, Expire, RefundNothing, Fail
<1>7. CASE UNCHANGED vars
  BY <1>7, LedgerKept DEF vars
<1> QED BY <1>1, <1>2, <1>3, <1>4, <1>5, <1>6, <1>7 DEF Next, Handle

\* Every request, credit and refund moves the balance once and by what its ledger
\* entry says; a refund of money that was spent takes what is left.  For any number
\* of requests, top-ups, repeated, reordered and failing deliveries.
THEOREM WalletLedger == Spec => []WalletFollowsLedger
<1>1. LedgerInv => WalletFollowsLedger
  BY DEF LedgerInv
<1> QED
  BY TypeInit, TypeNext, RequestInit, RequestNext, EventsInit, EventsNext, LedgerInit,
     LedgerNext, <1>1, PTL DEF Spec

=============================================================================
