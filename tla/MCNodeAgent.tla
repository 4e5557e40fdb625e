---------------------------- MODULE MCNodeAgent ----------------------------
(* NodeAgent with the deployed periods, in milliseconds.                    *)
EXTENDS NodeAgent
=============================================================================
