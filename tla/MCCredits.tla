------------------------------ MODULE MCCredits ------------------------------
(* TLC instance of the credit account.  Sessions of one role are               *)
(* interchangeable.                                                            *)
EXTENDS Credits, TLC

SessionSymmetry ==
    Permutations(Callers) \cup Permutations(Webhooks) \cup Permutations(Admins)

\* What an admin takes or adds.
OneUpOneDown == {-1, 2}

=============================================================================
