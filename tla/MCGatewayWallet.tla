--------------------------- MODULE MCGatewayWallet ---------------------------
(* TLC instance of the gateway wallet.  Liveness is checked, so the            *)
(* interchangeable sessions are not reduced by symmetry.                       *)
EXTENDS GatewayWallet

=============================================================================
