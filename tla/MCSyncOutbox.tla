--------------------------- MODULE MCSyncOutbox ----------------------------
(* Instances of SyncOutbox for TLC.                                        *)
EXTENDS SyncOutbox, TLC

CONSTANTS c1, c2, c3, MaxBackoff

\* min(2^n, 300) seconds, counted in poll periods that last 2 seconds.
MCBackoff(n) == IF 2^(n - 1) < MaxBackoff THEN 2^(n - 1) ELSE MaxBackoff

MCChange == {c1, c2, c3}
MCSymmetry == Permutations(MCChange)
=============================================================================
