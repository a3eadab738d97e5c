------------------------------- MODULE MCProxy -------------------------------
(* An instance of Proxy for TLC: one client, whose document lists one of   *)
(* two redirect URIs, or both.                                             *)
EXTENDS Proxy, TLC

CONSTANTS i1, i2, i3, x, y

MCUriLists == {{x}, {x, y}}
IdSymmetry == Permutations({i1, i2, i3})
=============================================================================
