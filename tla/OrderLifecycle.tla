---------------------------- MODULE OrderLifecycle ----------------------------
(***************************************************************************)
(* What the order pipeline promises of the orders of one mandate, each as  *)
(* a single machine, whatever requests, workers, locks and messages carry  *)
(* it out.  LiveOrders implements this.                                    *)
(*                                                                         *)
(* An order is written to the database in one step with the check of the   *)
(* gate and of the order frequency.  It has one chance to reach the        *)
(* exchange: if that is missed, by a crash, a refusal or a lost message,   *)
(* it stays void, and nothing brings an order back that is over.  What is  *)
(* booked never runs ahead of what was executed.                           *)
(***************************************************************************)
EXTENDS Naturals

CONSTANTS
    Intents,    \* orders previewed on the mandate
    Quantity    \* units of every order

VARIABLES
    paused,     \* the mandate is paused
    recent,     \* the mandate's last order is within its frequency limit
    phase,      \* where an order is in its life
    executed,   \* units of an order the exchange has executed
    booked      \* units of an order in the ledger

lifecycle == <<paused, recent, phase, executed, booked>>

LifecycleInit ==
    /\ paused = FALSE
    /\ recent = FALSE
    /\ phase = [i \in Intents |-> "intended"]
    /\ executed = [i \in Intents |-> 0]
    /\ booked = [i \in Intents |-> 0]

Move(i, from, to) == phase[i] = from /\ phase' = [phase EXCEPT ![i] = to]

Pause ==
    /\ ~paused /\ paused' = TRUE
    /\ UNCHANGED <<recent, phase, executed, booked>>

FrequencyElapses ==
    /\ recent /\ recent' = FALSE
    /\ UNCHANGED <<paused, phase, executed, booked>>

\* The user's confirmation is committed.
Create(i) ==
    /\ ~paused /\ ~recent
    /\ Move(i, "intended", "journaled")
    /\ recent' = TRUE
    /\ UNCHANGED <<paused, executed, booked>>

\* The one POST of the order, or never.
Submit(i) ==
    /\ Move(i, "journaled", "sent")
    /\ UNCHANGED <<paused, recent, executed, booked>>

Abandon(i) ==
    /\ Move(i, "journaled", "void")
    /\ UNCHANGED <<paused, recent, executed, booked>>

\* The exchange refuses the order, or never hears of it.
Refuse(i) ==
    /\ Move(i, "sent", "void")
    /\ UNCHANGED <<paused, recent, executed, booked>>

Accept(i, n) ==
    /\ \/ Move(i, "sent", "live") /\ n < Quantity
       \/ Move(i, "sent", "over")
    /\ executed' = [executed EXCEPT ![i] = n]
    /\ UNCHANGED <<paused, recent, booked>>

Execute(i) ==
    /\ \/ Move(i, "live", "live") /\ executed[i] + 1 < Quantity
       \/ Move(i, "live", "over") /\ executed[i] + 1 = Quantity
    /\ executed' = [executed EXCEPT ![i] = executed[i] + 1]
    /\ UNCHANGED <<paused, recent, booked>>

\* Canceled or expired.
End(i) ==
    /\ Move(i, "live", "over")
    /\ UNCHANGED <<paused, recent, executed, booked>>

Book(i, n) ==
    /\ n > booked[i] /\ n <= executed[i]
    /\ booked' = [booked EXCEPT ![i] = n]
    /\ UNCHANGED <<paused, recent, phase, executed>>

LifecycleNext ==
    \/ Pause
    \/ FrequencyElapses
    \/ \E i \in Intents :
          \/ Create(i) \/ Submit(i) \/ Abandon(i) \/ Refuse(i) \/ Execute(i) \/ End(i)
          \/ \E n \in 0 .. Quantity : Accept(i, n) \/ Book(i, n)

LifecycleSpec == LifecycleInit /\ [][LifecycleNext]_lifecycle

=============================================================================
