----------------------------- MODULE MCFplCache -----------------------------
(* FplCache with one memoised endpoint, in the snapshot, and one read per  *)
(* request, which the generator does not publish.                          *)
EXTENDS FplCache

MCTTL == [e \in Endpoint |-> 1]
=============================================================================
