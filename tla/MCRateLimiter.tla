--------------------------- MODULE MCRateLimiter ---------------------------
(***************************************************************************)
(* Small instances of RateLimiter: the second has 6 ticks and the          *)
(* timestamps wrap within two to three periods of the slowest rate.        *)
(***************************************************************************)
EXTENDS RateLimiter

CONSTANT inf

Positive == {0, 1, 2, 3, 6, inf}
AllRates == Positive \cup {-1}
=============================================================================
