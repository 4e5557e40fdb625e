-------------------------- MODULE MCServiceRenewal --------------------------
(* ServiceRenewal with the deployed periods, in units of 4 hours.           *)
EXTENDS ServiceRenewal
=============================================================================
