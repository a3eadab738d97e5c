-------------------------- MODULE MCRegistrarSystem --------------------------
(* An instance of RegistrarSystem for TLC: a deployment that waits for     *)
(* long and a revalidation that waits a little, and one client_id URL.     *)
EXTENDS RegistrarSystem, TLC

CONSTANTS deploy, revalidate

MCWait == (deploy :> 2) @@ (revalidate :> 1)
MCKind == (deploy :> "deploy") @@ (revalidate :> "revalidate")
=============================================================================
