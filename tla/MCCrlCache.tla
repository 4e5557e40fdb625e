----------------------------- MODULE MCCrlCache -----------------------------
(* CrlCache with the deployed periods in units of ten seconds.              *)
EXTENDS CrlCache, TLC

Symmetry == Permutations(Serials)

\* The longest time between two calls of a node: its heartbeat interval of 30 s
\* and 5 s of jitter.
NextCall == 4

\* revocation.py: "revocation is checked per request against current CA state ...
\* so revoking a node takes effect on its next call".
NextCallIsRefused ==
    \A s \in revoked : age[s] >= NextCall /\ bootAge > BootLag(failures) => s \in cache
=============================================================================
