----------------------------- MODULE MCRegistrar -----------------------------
(* Instances of Registrar for TLC.                                         *)
EXTENDS RegistrarRefinement, RegistrarClaims, TLC

CONSTANTS u1, u2, c1, c2

(* Redirect-URI lists: "a" is always acceptable, "b" until the stricter    *)
(* build, "x" never.                                                       *)
Doc(uris, key, jwksUri, cache, tagged) ==
    [uris |-> uris, key |-> key, jwksUri |-> jwksUri, cache |-> cache, tagged |-> tagged]

(* One document for each cache class but no-store, one of them without an  *)
(* ETag.  What the stricter build refuses stands for what is never         *)
(* acceptable, too.                                                        *)
SafetyDocuments ==
    {Doc("a", "k1", TRUE, "max-age", TRUE), Doc("b", "k1", FALSE, "no-cache", TRUE),
     Doc("a", "k1", TRUE, "default", FALSE)}

(* The same, and one that is never acceptable.                             *)
MCDocuments == SafetyDocuments \cup {Doc("x", "k1", TRUE, "max-age", TRUE)}

(* Two documents that differ in their redirect URIs alone.                 *)
KeyedDocuments == {Doc("a", "k1", TRUE, "max-age", TRUE), Doc("b", "k1", TRUE, "max-age", TRUE)}

(* One that is confirmed by a 304 and one that is always fetched anew. *)
LiveDocuments == {Doc("a", "k1", TRUE, "max-age", TRUE), Doc("a", "k1", TRUE, "no-store", TRUE)}

(* What is published behind a jwks_uri matters only for being the same or not. *)
KeySymmetry == Permutations({c1, c2})
=============================================================================
