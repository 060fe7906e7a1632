--------------------------- MODULE MCCookieStore ---------------------------
(***************************************************************************)
(* Instances of CookieStore for TLC.                                       *)
(***************************************************************************)
EXTENDS CookieStore, TLC

CONSTANTS c1, c2, c3, k1, k2

\* c1 and c2 share a key, c3 has the other.
MCKeyOf(c) == IF c = c3 THEN k2 ELSE k1

MCSymmetry == Permutations({c1, c2})
=============================================================================
