----------------------------- MODULE MCFetcher -----------------------------
(* Two UI hosts with different airports on one fetcher. *)
EXTENDS Fetcher, TLC

CONSTANTS epwr, epgd, wroclaw, gdansk, p1, p2

TwoBoxes == {epwr, epgd}
TwoUIs == (wroclaw :> epwr) @@ (gdansk :> epgd)
TwoRequests == (p1 :> wroclaw) @@ (p2 :> gdansk)
=============================================================================
