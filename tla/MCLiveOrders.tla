----------------------------- MODULE MCLiveOrders -----------------------------
(* TLC instance of the order pipeline.  Requests of one kind, and intents,   *)
(* are interchangeable.                                                      *)
EXTENDS LiveOrders, TLC

ActorSymmetry ==
    Permutations(Confirmers) \cup Permutations(Syncers) \cup Permutations(Intents)

=============================================================================
