----------------------------- MODULE MCEnricher -----------------------------
(* One identity every provider knows all about, one with no route to know.   *)
EXTENDS Enricher, TLC

CONSTANTS k1, k2

MCTruth == (k1 :> {"reg", "type", "route"}) @@ (k2 :> {"reg"})
=============================================================================
