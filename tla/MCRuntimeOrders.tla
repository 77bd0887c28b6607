--------------------------- MODULE MCRuntimeOrders ---------------------------
(* TLC instance of the runtime's orders: an order that fills at once, submitted *)
(* twice and canceled, a resting one, and one of every other command.          *)
EXTENDS RuntimeOrders, TLC

CONSTANTS o1, o2

MCOrders == {o1, o2}
MCCommands ==
    {[kind |-> "submit", order |-> o1, n |-> i] : i \in 1..2}
        \cup {[kind |-> k, order |-> o1, n |-> 0] :
                k \in {"cancel", "reconcile", "refresh", "kill_switch"}}
        \cup {[kind |-> k, order |-> o2, n |-> 0] : k \in {"submit", "cancel"}}

Symmetry == Permutations(Threads)

=============================================================================
