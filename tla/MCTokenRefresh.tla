--------------------------- MODULE MCTokenRefresh ---------------------------
(* Three calls of a page, one of them a change of password, and two pairs after the first, *)
(* for TLC.                                                                                 *)
EXTENDS TokenRefresh, TLC

CONSTANTS p1, p2, p3

MCCall == {p1, p2, p3}
MCVerified == {p3}
=============================================================================
