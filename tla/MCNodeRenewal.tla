--------------------------- MODULE MCNodeRenewal ---------------------------
(* NodeRenewal with the deployed periods, in units of 4 hours.              *)
EXTENDS NodeRenewal
=============================================================================
