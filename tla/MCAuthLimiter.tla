--------------------------- MODULE MCAuthLimiter ---------------------------
(* Requests are alike: which of them is which makes no difference to what the *)
(* limiter counts or the browser holds.                                       *)
EXTENDS AuthLimiter, TLC

Alike == Permutations(Attempt) \cup Permutations(Renewal)
=============================================================================
