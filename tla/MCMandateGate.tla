---------------------------- MODULE MCMandateGate ----------------------------
(* TLC instance of the admission side alone: overlapping kill switch        *)
(* requests on one mandate, with a health test and a reconciliation in       *)
(* flight.  The administrators' requests are interchangeable.                *)
EXTENDS MandateGate, TLC

AdminSymmetry == Permutations(Admins)

=============================================================================
