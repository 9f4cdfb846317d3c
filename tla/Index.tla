-------------------------------- MODULE Index --------------------------------
(***************************************************************************)
(* One open Index (core.go, index.go): the memoised agent catalog behind   *)
(* catMu, the models.dev client behind mdMu, and the goroutines that read  *)
(* them lazily and refresh them.                                           *)
(*                                                                         *)
(* A catalog is [version, stale]. What a load may return is what           *)
(* CatalogLoader lets it return: a version published so far, flagged when  *)
(* it is a fallback; a forced load that is not flagged is the registry's   *)
(* own answer unless the clock was set back, when it may be a resolution   *)
(* file stamped in the future. A models.dev client is what CatalogCell     *)
(* promises of it: one catalog, written at most once. The client a refresh *)
(* makes already holds its catalog when anybody else can see it, so it is  *)
(* that catalog; only the lazily made client can be empty.                 *)
(***************************************************************************)
EXTENDS Naturals

CONSTANTS
    Callers,     \* goroutines using the Index
    Refreshers,  \* those that call Refresh
    MaxVersion,  \* bound: versions published, of either catalog
    Lazy,        \* the lazily made models.dev client
    None         \* no catalog, no client, nobody

Versions == 1 .. MaxVersion
Catalogs == [version : Versions, stale : BOOLEAN]
Targets == {"catalog", "models", "all"}

ASSUME ConstantsAssumption ==
    /\ Refreshers \subseteq Callers
    /\ MaxVersion \in Nat \ {0}
    /\ Lazy # None /\ {Lazy, None} \cap Catalogs = {} /\ None \notin Callers

VARIABLES
    source,      \* "registry", or "dir": WithCatalogDir
    registry,    \* the latest version of the agent catalog
    endpoint,    \* the version models.dev serves
    straight,    \* history: the clock was not set back behind the resolution file
    catMu,       \* who holds catMu across a step, or None
    cat,         \* core.cat and core.catInfo, or None
    md,          \* core.md: None, Lazy, or the catalog of a refresh's client
    lazyMemo,    \* the memo of the lazily made client, or None
    pc,          \* where each caller is in its operation
    target,      \* the target of its Refresh
    loaded,      \* what its refresh has loaded, or None
    client,      \* the client its operation obtained
    seen,        \* what that client's Catalog returned to it
    flag,        \* what its ModelsStale reported
    refreshed,   \* the Refreshed of its last Refresh
    floor,       \* history: what was latest when its last Refresh began; of the
                 \* agent catalog, as long as the clock goes straight
    wrote,       \* history: what its last Refresh published
    lazyLoads    \* history: catalogs installed by resolveCatalog

world == <<source, registry, endpoint, straight>>
reading == <<client, seen, flag>>
refreshing == <<target, loaded, refreshed, floor, wrote>>
vars == <<world, catMu, cat, md, lazyMemo, pc, reading, refreshing, lazyLoads>>

RefreshStations == {"refreshCatalog", "putCatalog", "refreshModels", "putModels"}
Stations == {"idle", "resolve", "load", "obtain", "catalog", "stale"} \cup RefreshStations
Nothing == [catalog |-> FALSE, models |-> FALSE]

GoTo(p, s) == pc' = [pc EXCEPT ![p] = s]
\* What the caller's previous operation returned.
Forget(p) ==
    /\ client' = [client EXCEPT ![p] = None]
    /\ seen' = [seen EXCEPT ![p] = None]
    /\ flag' = [flag EXCEPT ![p] = FALSE]
Memo(c) == IF c = Lazy THEN lazyMemo ELSE c

Init ==
    /\ source \in {"registry", "dir"}
    /\ registry = 1 /\ endpoint = 1
    /\ straight = TRUE
    /\ catMu = None /\ cat = None
    /\ md = None /\ lazyMemo = None
    /\ pc = [p \in Callers |-> "idle"]
    /\ target = [p \in Callers |-> "all"]
    /\ loaded = [p \in Callers |-> None]
    /\ client = [p \in Callers |-> None]
    /\ seen = [p \in Callers |-> None]
    /\ flag = [p \in Callers |-> FALSE]
    /\ refreshed = [p \in Callers |-> Nothing]
    /\ wrote = [p \in Callers |-> Nothing]
    /\ floor = [p \in Callers |-> [catalog |-> 0, models |-> 0]]
    /\ lazyLoads = 0

-----------------------------------------------------------------------------
(* CatalogInfo, and every operation that needs the agent catalog           *)

CatalogInfo(p) ==
    /\ pc[p] = "idle"
    /\ GoTo(p, "resolve")
    /\ Forget(p)
    /\ UNCHANGED <<world, catMu, cat, md, lazyMemo, refreshing, lazyLoads>>

\* resolveCatalog finds the memo, under catMu, and returns.
ResolveHit(p) ==
    /\ pc[p] = "resolve"
    /\ catMu = None /\ cat # None
    /\ GoTo(p, "idle")
    /\ UNCHANGED <<world, catMu, cat, md, lazyMemo, reading, refreshing, lazyLoads>>

\* Mutant of ResolveLead: the lock is not held across the load.
ResolveLeadUnlocked(p) ==
    /\ pc[p] = "resolve"
    /\ catMu = None /\ cat = None
    /\ GoTo(p, "load")
    /\ UNCHANGED <<world, catMu, cat, md, lazyMemo, reading, refreshing, lazyLoads>>

\* Mutant of ResolveLead: the memo is looked at before the lock is taken.
ResolveLeadUnchecked(p) ==
    /\ pc[p] = "resolve"
    /\ catMu = None
    /\ catMu' = p
    /\ GoTo(p, "load")
    /\ UNCHANGED <<world, cat, md, lazyMemo, reading, refreshing, lazyLoads>>

\* resolveCatalog finds none, and loads with catMu held.
ResolveLead(p) ==
    /\ pc[p] = "resolve"
    /\ catMu = None /\ cat = None
    /\ catMu' = p
    /\ GoTo(p, "load")
    /\ UNCHANGED <<world, cat, md, lazyMemo, reading, refreshing, lazyLoads>>

LoadSucceeds(p) ==
    /\ pc[p] = "load"
    /\ \E v \in 1 .. registry, s \in BOOLEAN :
          /\ source = "dir" => ~ s
          /\ cat' = [version |-> v, stale |-> s]
    /\ catMu' = None
    /\ lazyLoads' = lazyLoads + 1
    /\ GoTo(p, "idle")
    /\ UNCHANGED <<world, md, lazyMemo, reading, refreshing>>

\* Mutant of LoadFails: the error returns with the lock held.
LoadFailsHolding(p) ==
    /\ pc[p] = "load"
    /\ GoTo(p, "idle")
    /\ UNCHANGED <<world, catMu, cat, md, lazyMemo, reading, refreshing, lazyLoads>>

\* Mutant of LoadFails: the operation tries again until it succeeds.
LoadFailsRetrying(p) ==
    /\ pc[p] = "load"
    /\ catMu' = None
    /\ GoTo(p, "resolve")
    /\ UNCHANGED <<world, cat, md, lazyMemo, reading, refreshing, lazyLoads>>

\* A failure is not memoised.
LoadFails(p) ==
    /\ pc[p] = "load"
    /\ catMu' = None
    /\ GoTo(p, "idle")
    /\ UNCHANGED <<world, cat, md, lazyMemo, reading, refreshing, lazyLoads>>

-----------------------------------------------------------------------------
(* ModelsStale                                                             *)

ModelsStale(p) ==
    /\ pc[p] = "idle"
    /\ GoTo(p, "obtain")
    /\ Forget(p)
    /\ UNCHANGED <<world, catMu, cat, md, lazyMemo, refreshing, lazyLoads>>

\* modelsClient, made on first use.
Obtain(p) ==
    /\ pc[p] = "obtain"
    /\ md' = IF md = None THEN Lazy ELSE md
    /\ client' = [client EXCEPT ![p] = md']
    /\ GoTo(p, "catalog")
    /\ UNCHANGED <<world, catMu, cat, lazyMemo, seen, flag, refreshing, lazyLoads>>

\* Client.Catalog answers, from the memo or with the attempt's result.
ClientAnswers(p) ==
    /\ pc[p] = "catalog"
    /\ IF Memo(client[p]) # None
       THEN UNCHANGED lazyMemo
       ELSE \E v \in 1 .. endpoint, s \in BOOLEAN : lazyMemo' = [version |-> v, stale |-> s]
    /\ seen' = [seen EXCEPT ![p] = IF client[p] = Lazy THEN lazyMemo' ELSE client[p]]
    /\ GoTo(p, "stale")
    /\ UNCHANGED <<world, catMu, cat, md, client, flag, refreshing, lazyLoads>>

ClientFails(p) ==
    /\ pc[p] = "catalog"
    /\ Memo(client[p]) = None
    /\ GoTo(p, "idle")
    /\ UNCHANGED <<world, catMu, cat, md, lazyMemo, reading, refreshing, lazyLoads>>

Report(p, s) == flag' = [flag EXCEPT ![p] = s]

\* Mutant of ReadFlag: the flag is that of the Index's client by then.
ReadFlagOfIndex(p) ==
    /\ pc[p] = "stale"
    /\ Report(p, Memo(md) # None /\ Memo(md).stale)
    /\ GoTo(p, "idle")
    /\ UNCHANGED <<world, catMu, cat, md, lazyMemo, client, seen, refreshing, lazyLoads>>

\* Client.Stale, after Catalog returned and another lock.
ReadFlag(p) ==
    /\ pc[p] = "stale"
    /\ Report(p, Memo(client[p]).stale)
    /\ GoTo(p, "idle")
    /\ UNCHANGED <<world, catMu, cat, md, lazyMemo, client, seen, refreshing, lazyLoads>>

-----------------------------------------------------------------------------
(* Refresh                                                                 *)

Refresh(p, t) ==
    /\ pc[p] = "idle"
    /\ target' = [target EXCEPT ![p] = t]
    /\ refreshed' = [refreshed EXCEPT ![p] = Nothing]
    /\ wrote' = [wrote EXCEPT ![p] = Nothing]
    /\ floor' = [floor EXCEPT ![p] = [catalog |-> IF straight THEN registry ELSE 0,
                                      models |-> endpoint]]
    /\ GoTo(p, IF t = "models" THEN "refreshModels" ELSE "refreshCatalog")
    /\ Forget(p)
    /\ UNCHANGED <<world, catMu, cat, md, lazyMemo, loaded, lazyLoads>>

AfterCatalog(p) == IF target[p] = "all" THEN "refreshModels" ELSE "idle"

\* A directory source is always current: not refreshed, no error.
RefreshDir(p) ==
    /\ pc[p] = "refreshCatalog"
    /\ source = "dir"
    /\ GoTo(p, AfterCatalog(p))
    /\ UNCHANGED <<world, catMu, cat, md, lazyMemo, reading, refreshing, lazyLoads>>

\* The forced load is not flagged: the registry answered it, or, after the clock
\* was set back, the file did, with whatever version it holds.
ReloadCatalog(p) ==
    /\ pc[p] = "refreshCatalog"
    /\ source = "registry"
    /\ \E v \in 1 .. registry :
          /\ straight => v = registry
          /\ loaded' = [loaded EXCEPT ![p] = [version |-> v, stale |-> FALSE]]
    /\ GoTo(p, "putCatalog")
    /\ UNCHANGED <<world, catMu, cat, md, lazyMemo, reading, target, refreshed, floor,
                   wrote, lazyLoads>>

\* Mutant of ReloadCatalogFails: a stale fallback is installed, then refused.
ReloadCatalogInstalls(p) ==
    /\ pc[p] = "refreshCatalog"
    /\ source = "registry" /\ catMu = None
    /\ \E v \in 1 .. registry : cat' = [version |-> v, stale |-> TRUE]
    /\ wrote' = [wrote EXCEPT ![p].catalog = TRUE]
    /\ GoTo(p, "idle")
    /\ UNCHANGED <<world, catMu, md, lazyMemo, reading, target, loaded, refreshed, floor,
                   lazyLoads>>

\* The forced load fails, or falls back on a stale version: both are errors,
\* the installed catalog is left alone, and models.dev is not tried.
ReloadCatalogFails(p) ==
    /\ pc[p] = "refreshCatalog"
    /\ source = "registry"
    /\ GoTo(p, "idle")
    /\ UNCHANGED <<world, catMu, cat, md, lazyMemo, reading, refreshing, lazyLoads>>

PutCatalog(p) ==
    /\ pc[p] = "putCatalog"
    /\ catMu = None
    /\ cat' = loaded[p]
    /\ loaded' = [loaded EXCEPT ![p] = None]
    /\ refreshed' = [refreshed EXCEPT ![p].catalog = TRUE]
    /\ wrote' = [wrote EXCEPT ![p].catalog = TRUE]
    /\ GoTo(p, AfterCatalog(p))
    /\ UNCHANGED <<world, catMu, md, lazyMemo, reading, target, floor, lazyLoads>>

\* models.dev answers the force-refresh client, which is still private to p.
RefetchModels(p) ==
    /\ pc[p] = "refreshModels"
    /\ loaded' = [loaded EXCEPT ![p] = [version |-> endpoint, stale |-> FALSE]]
    /\ GoTo(p, "putModels")
    /\ UNCHANGED <<world, catMu, cat, md, lazyMemo, reading, target, refreshed, floor,
                   wrote, lazyLoads>>

RefetchModelsFails(p) ==
    /\ pc[p] = "refreshModels"
    /\ GoTo(p, "idle")
    /\ UNCHANGED <<world, catMu, cat, md, lazyMemo, reading, refreshing, lazyLoads>>

PutModels(p) ==
    /\ pc[p] = "putModels"
    /\ md' = loaded[p]
    /\ loaded' = [loaded EXCEPT ![p] = None]
    /\ refreshed' = [refreshed EXCEPT ![p].models = TRUE]
    /\ wrote' = [wrote EXCEPT ![p].models = TRUE]
    /\ GoTo(p, "idle")
    /\ UNCHANGED <<world, catMu, cat, lazyMemo, reading, target, floor, lazyLoads>>

-----------------------------------------------------------------------------

RegistryPublishes ==
    /\ registry < MaxVersion
    /\ registry' = registry + 1
    /\ UNCHANGED <<source, endpoint, straight, catMu, cat, md, lazyMemo, pc, reading,
                   refreshing, lazyLoads>>

EndpointPublishes ==
    /\ endpoint < MaxVersion
    /\ endpoint' = endpoint + 1
    /\ UNCHANGED <<source, registry, straight, catMu, cat, md, lazyMemo, pc, reading,
                   refreshing, lazyLoads>>

\* A directory source reads no resolution file. The step may come first: the file may
\* be an earlier process's.
ClockStepsBack ==
    /\ source = "registry" /\ straight
    /\ straight' = FALSE
    /\ floor' = [p \in Callers |-> [floor[p] EXCEPT !.catalog = 0]]
    /\ UNCHANGED <<source, registry, endpoint, catMu, cat, md, lazyMemo, pc, reading,
                   target, loaded, refreshed, wrote, lazyLoads>>

Call(p) ==
    \/ CatalogInfo(p)
    \/ ModelsStale(p)
    \/ p \in Refreshers /\ \E t \in Targets : Refresh(p, t)

Lock(p) == ResolveHit(p) \/ ResolveLead(p) \/ PutCatalog(p)

Work(p) ==
    \/ LoadSucceeds(p) \/ LoadFails(p)
    \/ Obtain(p) \/ ClientAnswers(p) \/ ClientFails(p) \/ ReadFlag(p)
    \/ RefreshDir(p) \/ ReloadCatalog(p) \/ ReloadCatalogFails(p)
    \/ RefetchModels(p) \/ RefetchModelsFails(p) \/ PutModels(p)

Next ==
    \/ \E p \in Callers : Call(p) \/ Lock(p) \/ Work(p)
    \/ RegistryPublishes \/ EndpointPublishes \/ ClockStepsBack

Spec == Init /\ [][Next]_vars

\* A load or fetch ends: its context or the transport sees to it. Go's mutex
\* hands itself to a goroutine that has waited for a millisecond, so a waiter
\* gets a lock that is free again and again.
Fairness == \A p \in Callers : SF_vars(Lock(p)) /\ WF_vars(Work(p))

FairSpec == Spec /\ Fairness

-----------------------------------------------------------------------------

\* The state has its shape, and catMu is held exactly by the caller that loads.
TypeOK ==
    /\ registry \in Versions /\ endpoint \in Versions
    /\ straight \in BOOLEAN
    /\ cat \in Catalogs \cup {None}
    /\ md \in Catalogs \cup {Lazy, None}
    /\ lazyMemo \in Catalogs \cup {None}
    /\ pc \in [Callers -> Stations]
    /\ loaded \in [Callers -> Catalogs \cup {None}]
    /\ client \in [Callers -> Catalogs \cup {Lazy, None}]
    /\ catMu \in Callers \cup {None}
    /\ \A p \in Callers : catMu = p <=> pc[p] = "load"
    /\ source = "dir" /\ cat # None => ~ cat.stale

\* After a Refresh has reported a target, and until the same caller starts
\* another, what the Index serves of it is not a fallback, and it is at least as
\* new as the latest when that Refresh began (index.go: "forces re-resolution or
\* refetch past caches and publishes the result"; core.go: "a throwaway fetch
\* would leave the Index on pre-refresh answers"). The age of the agent catalog is
\* claimed as long as the clock was not set back: after that a Refresh may install,
\* and report, the older version of a resolution file stamped in the future.
RefreshTakesEffect ==
    \A p \in Refreshers :
        pc[p] \notin RefreshStations =>
            /\ refreshed[p].catalog => /\ ~ cat.stale
                                       /\ straight => cat.version >= floor[p].catalog
            /\ refreshed[p].models => /\ ~ Memo(md).stale
                                      /\ Memo(md).version >= floor[p].models

\* A Refresh that has returned names exactly the targets whose result it
\* installed: a target that failed left the installed state alone, and one that
\* was installed before a later failure is still named.
RefreshReportsWhatItInstalled ==
    \A p \in Refreshers : pc[p] = "idle" => refreshed[p] = wrote[p]

\* The lazy resolution installs a catalog once in the life of an Index, however
\* many callers find none at the same time and whatever refreshes meanwhile.
LoadedOnce == lazyLoads =< 1

\* The flag ModelsStale reports is that of the catalog its own call returned,
\* even when a refresh swaps the Index's client between the two.
FlagIsOfTheData ==
    \A p \in Callers : pc[p] = "idle" /\ seen[p] # None => flag[p] = seen[p].stale

\* Every operation returns, though callers wait for catMu while it is held
\* across a load, and a load may fail any number of times.
OperationsReturn == \A p \in Callers : pc[p] # "idle" ~> pc[p] = "idle"
=============================================================================
