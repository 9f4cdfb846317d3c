----------------------- MODULE MCCatalogLoaderPartial -----------------------
(***************************************************************************)
(* MCCatalogLoader with one more history variable: what a load could count *)
(* on when it began, by the package's documentation.                       *)
(***************************************************************************)
EXTENDS MCCatalogLoader

VARIABLE warm  \* for each load: when it began, a load's last outcome was success

PartialInit == Init /\ warm = [p \in Loads |-> FALSE]

PartialNext ==
    /\ Next
    /\ warm' = [p \in Loads |->
                   IF Begin(p) THEN \E q \in Loads : outcome[q] = "ok" ELSE warm[p]]

PartialSpec == PartialInit /\ [][PartialNext]_<<vars, warm>>

\* The version a load settled on was the file's, within the TTL.
FromFile(p) == held[p] # None /\ ~ stale[p] /\ ~ asked[p]

\* loader.go:82-85, "After a first successful run the catalog loads offline
\* within the TTL": a load that began after a successful one, and that found a
\* resolution within the TTL, does not end for want of the network.
LoadsOfflineAfterSuccess ==
    \A p \in Loads : warm[p] /\ FromFile(p) => ~ Ended(p, "unavailable")
=============================================================================
