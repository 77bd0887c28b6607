--------------------------- MODULE MCPhotonInbound ---------------------------
(* TLC instance of one inbound message.  Liveness is checked, so the           *)
(* interchangeable sessions are not reduced by symmetry.                       *)
EXTENDS PhotonInbound

=============================================================================
