--------------------------- MODULE RegistrarClaims ---------------------------
(* What the repository says of the registrar and the code does not do.     *)
EXTENDS Registrar

(* README section 8: removing a client disables it, "then deletes it one   *)
(* access-token lifetime later".  So once a run purges, the row of a URL   *)
(* outside its allow-list has a deletion time.  _retire_removed gives one  *)
(* only to rows that are still enabled.                                    *)
RemovedIsScheduled ==
    run.phase = "purge" /\ run.kind # "delete" /\ faults = 0
        => \A u \in Urls \ run.allow : Stored(u) => rows[u].deleteAfter # None

(* _reconcile_url: a mapping whose keys could not be validated is stale    *)
(* "so /authorize fails closed until JWKS validation succeeds".  The       *)
(* stored ETag lets the next fetch end in a 304, which never looks at the  *)
(* keys and extends the cache.                                             *)
MarkedStale(row) ==
    /\ row # None /\ row.etag # None
    /\ row.etag.jwksUri /\ CacheSeconds(row.etag) > 0
    /\ row.cacheUntil = row.fetchedAt

StaleUntilKeysValidated ==
    [][\A u \in Urls :
          (MarkedStale(rows[u]) /\ rows'[u] # None /\ rows'[u].enabled
           /\ rows'[u].fp.uri /\ rows'[u].cacheUntil > rows'[u].fetchedAt)
              => rows'[u].jwksAt = rows'[u].fetchedAt]_vars

(* README section 6: the deploy-time run creates the clients before the    *)
(* stack completes; "if a document is unreachable or invalid, the          *)
(* deployment fails loudly".  An invalid document is no error, and a 304   *)
(* leaves a disabled row disabled.                                         *)
DeployedMeansServed ==
    run.kind = "deploy" /\ run.phase = "purge" /\ faults = 0 /\ ~run.errors
        => \A u \in run.allow : Enabled(u)

(* README section 8: to add a client, put it on the allow-list and deploy. *)
(* So a deployment whose write rests on a document it has just confirmed   *)
(* writes an enabled client.  Of a client that was disabled before, a 304  *)
(* refreshes the row and leaves it disabled, its deletion still pending.   *)
AddedIsServed ==
    [][\A u \in Urls :
          (run.kind = "deploy" /\ rows'[u] # rows[u] /\ rows'[u] # None
           /\ rows'[u].fetchedAt = clock /\ rows'[u].cacheUntil > clock
           /\ (Stored(u) => rows[u].fetchedAt < clock))
              => rows'[u].enabled]_vars
=============================================================================
