--------------------------- MODULE MCTokenRefresh ---------------------------
(* Instances of TokenRefresh for TLC: two refreshers in two processes,      *)
(* half-second ticks, a lock of one second and a half.                      *)
EXTENDS TokenRefresh, TLC

CONSTANTS p1, p2, h1, h2

mcProcs == {p1, p2}
mcHosts == {h1, h2}
mcWriters == {h2}
mcHostOf == (p1 :> h1) @@ (p2 :> h2)
=============================================================================
