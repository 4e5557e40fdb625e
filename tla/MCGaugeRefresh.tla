--------------------------- MODULE MCGaugeRefresh ---------------------------
(* GaugeRefresh with the deployed period, in units of 30 seconds.           *)
EXTENDS GaugeRefresh
=============================================================================
