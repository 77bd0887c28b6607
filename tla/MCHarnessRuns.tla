---------------------------- MODULE MCHarnessRuns ----------------------------
(* TLC instance of the runs of one research goal.  Sessions of one role are    *)
(* interchangeable.                                                            *)
EXTENDS HarnessRuns, TLC

SessionSymmetry == Permutations(Requests) \cup Permutations(Workers)

=============================================================================
