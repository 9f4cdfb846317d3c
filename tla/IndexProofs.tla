------------------------------ MODULE IndexProofs ------------------------------
(***************************************************************************)
(* Theorems about one open Index (module Index), for any number of         *)
(* goroutines and of published versions, without any fairness.             *)
(***************************************************************************)
EXTENDS Index, TLAPS

-----------------------------------------------------------------------------
(* Types, and the lock: TypeOK needs that a load begins with no catalog    *)
(* and that what is loaded for the Index exists.                           *)

Outcome == [catalog : BOOLEAN, models : BOOLEAN]

TypeInv ==
    /\ TypeOK
    /\ source \in {"registry", "dir"}
    /\ target \in [Callers -> Targets]
    /\ seen \in [Callers -> Catalogs \cup {None}]
    /\ flag \in [Callers -> BOOLEAN]
    /\ refreshed \in [Callers -> Outcome]
    /\ wrote \in [Callers -> Outcome]
    /\ floor \in [Callers -> [catalog : Nat, models : Nat]]
    /\ lazyLoads \in Nat

\* What the station of a caller says of its locals and of the Index's fields.
CallerInv(p) ==
    /\ pc[p] \in {"putCatalog", "putModels"} => loaded[p] # None
    /\ pc[p] \in {"putCatalog", "refreshCatalog", "putModels", "refreshModels"} => p \in Refreshers
    /\ pc[p] = "putCatalog" => source = "registry"
    /\ pc[p] = "load" => cat = None
    /\ pc[p] \in {"catalog", "stale"} => client[p] # None
    /\ pc[p] = "stale" => seen[p] = Memo(client[p]) /\ seen[p] # None
    /\ pc[p] \notin {"stale", "idle"} => seen[p] = None
    /\ pc[p] = "idle" /\ seen[p] # None => flag[p] = seen[p].stale
    /\ refreshed[p] = wrote[p]

IInv ==
    /\ TypeInv
    /\ \A p \in Callers : CallerInv(p)
    /\ cat = None => lazyLoads = 0
    /\ lazyLoads =< 1

LEMMA NoneIsNothing == None \notin Catalogs /\ Lazy \notin Catalogs /\ Lazy # None /\ None \notin Callers
BY ConstantsAssumption

LEMMA VersionType ==
    ASSUME NEW u \in Versions, NEW v \in 1 .. u, NEW s \in BOOLEAN
    PROVE  [version |-> v, stale |-> s] \in Catalogs /\ [version |-> u, stale |-> s] \in Catalogs
BY ConstantsAssumption DEF Versions, Catalogs

LEMMA InvInit == Init => IInv
<1> SUFFICES ASSUME Init PROVE IInv
  OBVIOUS
<1> USE DEF Init
<1>1. TypeOK
  BY NoneIsNothing, ConstantsAssumption DEF TypeOK, Versions, Stations
<1>2. TypeInv
  BY <1>1 DEF TypeInv, Outcome, Nothing, Targets
<1>3. \A p \in Callers : CallerInv(p)
  BY DEF CallerInv, Memo
<1> QED
  BY <1>2, <1>3 DEF IInv

-----------------------------------------------------------------------------
(* Each step keeps it.                                                     *)

\* A step of p that leaves the Index's fields alone, or makes what is memoised
\* no less, disturbs no other caller.
LEMMA OthersStay ==
    ASSUME IInv, NEW p \in Callers, NEW q \in Callers, q # p, CallerInv(q),
           pc'[q] = pc[q], loaded'[q] = loaded[q], client'[q] = client[q],
           seen'[q] = seen[q], flag'[q] = flag[q], refreshed'[q] = refreshed[q],
           wrote'[q] = wrote[q], source' = source,
           pc[q] = "load" => cat' = cat,
           lazyMemo # None => lazyMemo' = lazyMemo
    PROVE  CallerInv(q)'
<1>1. pc[q] = "stale" => Memo(client[q])' = Memo(client[q])
  BY DEF CallerInv, Memo
<1> QED
  BY <1>1 DEF CallerInv

\* What a load brings is a catalog, and a directory's is current.
LEMMA LoadedType ==
    ASSUME IInv, NEW p \in Callers, LoadSucceeds(p)
    PROVE  cat' \in Catalogs /\ (source = "dir" => ~cat'.stale)
<1>1. PICK v \in 1 .. registry, s \in BOOLEAN :
         (source = "dir" => ~s) /\ cat' = [version |-> v, stale |-> s]
  BY DEF LoadSucceeds
<1> QED
  BY <1>1, VersionType DEF IInv, TypeInv, TypeOK

\* Steps of an operation that reads the agent catalog.
LEMMA InvCatalogInfo ==
    ASSUME IInv, NEW p \in Callers,
           CatalogInfo(p) \/ ResolveHit(p) \/ ResolveLead(p) \/ LoadSucceeds(p) \/ LoadFails(p)
    PROVE  IInv'
<1> USE NoneIsNothing
<1>1. TypeInv'
  <2> USE DEF IInv, TypeInv, TypeOK, world, reading, refreshing, GoTo, Stations, RefreshStations
  <2>1. CASE CatalogInfo(p)
    BY <2>1 DEF CatalogInfo, Forget
  <2>2. CASE ResolveHit(p)
    BY <2>2 DEF ResolveHit
  <2>5. CASE LoadFails(p)
    BY <2>5 DEF LoadFails
  <2>3. CASE ResolveLead(p)
    BY <2>3 DEF ResolveLead
  <2>4. CASE LoadSucceeds(p)
    <3>1. cat' \in Catalogs /\ (source = "dir" => ~cat'.stale)
      BY <2>4, LoadedType
    <3>2. catMu = p /\ catMu' = None /\ pc' = [pc EXCEPT ![p] = "idle"]
      BY <2>4 DEF LoadSucceeds
    <3>3. \A q \in Callers : catMu' = q <=> pc'[q] = "load"
      BY <3>2
    <3> QED
      BY <2>4, <3>1, <3>2, <3>3 DEF LoadSucceeds
  <2> QED
    BY <2>1, <2>2, <2>3, <2>4, <2>5
<1>2. ASSUME NEW q \in Callers PROVE CallerInv(q)'
  <2>1. CASE q = p
    BY <2>1 DEF IInv, TypeInv, TypeOK, CallerInv, CatalogInfo, ResolveHit, ResolveLead, LoadSucceeds, LoadFails,
                Memo, GoTo, Forget, world, reading, refreshing
  <2>2. CASE q # p
    <3>1. pc[q] = "load" => cat' = cat
      BY <2>2 DEF IInv, TypeInv, TypeOK, CatalogInfo, ResolveHit, ResolveLead, LoadSucceeds, LoadFails
    <3> QED
      BY <2>2, <3>1, OthersStay
         DEF IInv, TypeInv, TypeOK, CatalogInfo, ResolveHit, ResolveLead, LoadSucceeds, LoadFails,
             GoTo, Forget, world, reading, refreshing
  <2> QED
    BY <2>1, <2>2
<1>3. (cat = None => lazyLoads = 0)' /\ (lazyLoads =< 1)'
  <2>1. CASE LoadSucceeds(p)
    <3>1. cat = None /\ lazyLoads = 0
      BY <2>1 DEF LoadSucceeds, IInv, CallerInv
    <3>2. cat' # None
      BY <2>1, LoadedType
    <3> QED
      BY <2>1, <3>1, <3>2 DEF LoadSucceeds
  <2>2. CASE ~LoadSucceeds(p)
    BY <2>2 DEF IInv, CatalogInfo, ResolveHit, ResolveLead, LoadFails
  <2> QED
    BY <2>1, <2>2
<1> QED
  BY <1>1, <1>2, <1>3 DEF IInv

\* Steps of ModelsStale.
LEMMA InvModelsStale ==
    ASSUME IInv, NEW p \in Callers,
           ModelsStale(p) \/ Obtain(p) \/ ClientAnswers(p) \/ ClientFails(p) \/ ReadFlag(p)
    PROVE  IInv'
<1> USE NoneIsNothing
<1>1. /\ UNCHANGED <<world, catMu, cat, refreshing, lazyLoads>>
      /\ UNCHANGED <<registry, endpoint, source, straight, target, loaded, refreshed, floor, wrote>>
  BY DEF ModelsStale, Obtain, ClientAnswers, ClientFails, ReadFlag, world, refreshing, reading
<1>2. CASE ModelsStale(p) \/ ClientFails(p)
  <2>1. TypeInv'
    BY <1>1, <1>2 DEF IInv, TypeInv, TypeOK, ModelsStale, ClientFails, reading, GoTo, Forget, Stations
  <2>2. ASSUME NEW q \in Callers PROVE CallerInv(q)'
    BY <1>1, <1>2 DEF IInv, TypeInv, TypeOK, CallerInv, ModelsStale, ClientFails, reading, GoTo, Forget, Memo
  <2> QED
    BY <1>1, <2>1, <2>2 DEF IInv
<1>3. CASE Obtain(p)
  <2>1. TypeInv'
    BY <1>1, <1>3 DEF IInv, TypeInv, TypeOK, Obtain, GoTo, Stations
  <2>2. ASSUME NEW q \in Callers PROVE CallerInv(q)'
    BY <1>1, <1>3 DEF IInv, TypeInv, TypeOK, CallerInv, Obtain, GoTo, Memo
  <2> QED
    BY <1>1, <2>1, <2>2 DEF IInv
<1>4. CASE ClientAnswers(p)
  <2>1. /\ lazyMemo' \in Catalogs \cup {None}
        /\ seen'[p] \in Catalogs
        /\ seen'[p] = (IF client[p] = Lazy THEN lazyMemo' ELSE client[p])
        /\ lazyMemo # None => lazyMemo' = lazyMemo
    <3>1. client[p] \in Catalogs \cup {Lazy}
      BY <1>4 DEF ClientAnswers, IInv, TypeInv, TypeOK, CallerInv
    <3>2. CASE Memo(client[p]) # None
      BY <1>4, <3>1, <3>2 DEF ClientAnswers, Memo, IInv, TypeInv, TypeOK
    <3>3. CASE Memo(client[p]) = None
      <4>1. client[p] = Lazy /\ lazyMemo = None
        BY <3>1, <3>3 DEF Memo
      <4>2. lazyMemo' \in Catalogs
        <5>1. PICK v \in 1 .. endpoint, s \in BOOLEAN : lazyMemo' = [version |-> v, stale |-> s]
          BY <1>4, <3>3 DEF ClientAnswers
        <5> QED
          BY <5>1, VersionType DEF IInv, TypeInv, TypeOK
      <4> QED
        BY <1>4, <4>1, <4>2 DEF ClientAnswers, IInv, TypeInv
    <3> QED
      BY <3>2, <3>3
  <2>2. TypeInv'
    BY <1>1, <1>4, <2>1 DEF IInv, TypeInv, TypeOK, ClientAnswers, GoTo, Stations
  <2>3. ASSUME NEW q \in Callers PROVE CallerInv(q)'
    <3>1. CASE q = p
      BY <1>1, <1>4, <2>1, <3>1 DEF IInv, TypeInv, TypeOK, CallerInv, ClientAnswers, GoTo, Memo
    <3>2. CASE q # p
      BY <1>1, <1>4, <2>1, <3>2, OthersStay DEF IInv, TypeInv, TypeOK, ClientAnswers, GoTo
    <3> QED
      BY <3>1, <3>2
  <2> QED
    BY <1>1, <2>2, <2>3 DEF IInv
<1>5. CASE ReadFlag(p)
  <2>1. Memo(client[p]) \in Catalogs /\ seen[p] = Memo(client[p])
    BY <1>5 DEF ReadFlag, IInv, TypeInv, TypeOK, CallerInv
  <2>2. Memo(client[p]).stale \in BOOLEAN
    BY <2>1 DEF Catalogs
  <2>3. TypeInv'
    BY <1>1, <1>5, <2>2 DEF IInv, TypeInv, TypeOK, ReadFlag, Report, GoTo, Stations
  <2>4. ASSUME NEW q \in Callers PROVE CallerInv(q)'
    BY <1>1, <1>5, <2>1 DEF IInv, TypeInv, TypeOK, CallerInv, ReadFlag, Report, GoTo, Memo
  <2> QED
    BY <1>1, <2>3, <2>4 DEF IInv
<1> QED
  BY <1>2, <1>3, <1>4, <1>5

\* Steps of Refresh.
LEMMA InvRefresh ==
    ASSUME IInv, NEW p \in Callers,
           \/ p \in Refreshers /\ \E t \in Targets : Refresh(p, t)
           \/ RefreshDir(p) \/ ReloadCatalog(p) \/ ReloadCatalogFails(p) \/ PutCatalog(p)
           \/ RefetchModels(p) \/ RefetchModelsFails(p) \/ PutModels(p)
    PROVE  IInv'
<1> USE NoneIsNothing
<1>1. UNCHANGED <<registry, endpoint, source, straight, catMu, lazyMemo, lazyLoads>>
  BY DEF Refresh, RefreshDir, ReloadCatalog, ReloadCatalogFails, PutCatalog, RefetchModels,
         RefetchModelsFails, PutModels, world
<1>2. registry \in Versions /\ endpoint \in Versions /\ registry \in Nat /\ endpoint \in Nat
  BY ConstantsAssumption DEF IInv, TypeInv, TypeOK, Versions
<1>3. /\ \A v \in 1 .. registry : [version |-> v, stale |-> FALSE] \in Catalogs
      /\ [version |-> endpoint, stale |-> FALSE] \in Catalogs
  BY <1>2, VersionType DEF Catalogs
<1>4. TypeInv'
  <2> USE DEF IInv, TypeInv, TypeOK, GoTo, Stations, RefreshStations, reading, refreshing
  <2>1. CASE p \in Refreshers /\ \E t \in Targets : Refresh(p, t)
    BY <1>1, <1>2, <2>1 DEF Refresh, Forget, Nothing, Outcome
  <2>2. CASE RefreshDir(p) \/ ReloadCatalogFails(p) \/ RefetchModelsFails(p)
    BY <1>1, <2>2 DEF RefreshDir, ReloadCatalogFails, RefetchModelsFails, AfterCatalog
  <2>3. CASE ReloadCatalog(p)
    BY <1>1, <1>3, <2>3 DEF ReloadCatalog
  <2>6. CASE RefetchModels(p)
    BY <1>1, <1>3, <2>6 DEF RefetchModels
  <2>4. CASE PutCatalog(p)
    <3>1. loaded[p] \in Catalogs /\ source = "registry"
      BY <2>4 DEF PutCatalog, CallerInv
    <3> QED
      BY <1>1, <2>4, <3>1, ZenonT(60) DEF PutCatalog, AfterCatalog, Outcome
  <2>5. CASE PutModels(p)
    <3>1. loaded[p] \in Catalogs
      BY <2>5 DEF PutModels, CallerInv
    <3> QED
      BY <1>1, <2>5, <3>1 DEF PutModels, Outcome
  <2> QED
    BY <2>1, <2>2, <2>3, <2>4, <2>5, <2>6
<1>5. ASSUME NEW q \in Callers PROVE CallerInv(q)'
  <2>1. CASE q = p
    <3> USE DEF IInv, TypeInv, TypeOK, CallerInv, GoTo, reading, refreshing
    <3>1. CASE p \in Refreshers /\ \E t \in Targets : Refresh(p, t)
      BY <1>1, <2>1, <3>1 DEF Refresh, Forget
    <3>2. CASE RefreshDir(p) \/ ReloadCatalogFails(p) \/ RefetchModelsFails(p)
      BY <1>1, <2>1, <3>2 DEF RefreshDir, ReloadCatalogFails, RefetchModelsFails, AfterCatalog
    <3>3. CASE ReloadCatalog(p)
      BY <1>1, <1>3, <2>1, <3>3 DEF ReloadCatalog
    <3>6. CASE RefetchModels(p)
      BY <1>1, <1>3, <2>1, <3>6 DEF RefetchModels
    <3>4. CASE PutCatalog(p)
      BY <1>1, <2>1, <3>4 DEF PutCatalog, AfterCatalog, Outcome
    <3>5. CASE PutModels(p)
      BY <1>1, <2>1, <3>5 DEF PutModels, Outcome
    <3> QED
      BY <3>1, <3>2, <3>3, <3>4, <3>5, <3>6
  <2>2. CASE q # p
    <3>1. pc[q] = "load" => cat' = cat
      BY <2>2 DEF IInv, TypeInv, TypeOK, Refresh, RefreshDir, ReloadCatalog, ReloadCatalogFails,
                  PutCatalog, RefetchModels, RefetchModelsFails, PutModels
    <3> QED
      BY <1>1, <2>2, <3>1, OthersStay
         DEF IInv, TypeInv, TypeOK, Refresh, RefreshDir, ReloadCatalog, ReloadCatalogFails,
             PutCatalog, RefetchModels, RefetchModelsFails, PutModels, GoTo, Forget, reading,
             refreshing
  <2> QED
    BY <2>1, <2>2
<1>6. (cat = None => lazyLoads = 0)' /\ (lazyLoads =< 1)'
  <2>1. cat' = None => cat = None
    BY DEF Refresh, RefreshDir, ReloadCatalog, ReloadCatalogFails, PutCatalog, RefetchModels,
           RefetchModelsFails, PutModels, IInv, CallerInv
  <2> QED
    BY <1>1, <2>1 DEF IInv
<1> QED
  BY <1>4, <1>5, <1>6 DEF IInv

LEMMA InvNext == IInv /\ [Next]_vars => IInv'
<1> SUFFICES ASSUME IInv, [Next]_vars PROVE IInv'
  OBVIOUS
<1>1. CASE ClockStepsBack
  <2>1. floor' \in [Callers -> [catalog : Nat, models : Nat]]
    BY <1>1 DEF ClockStepsBack, IInv, TypeInv
  <2>2. /\ UNCHANGED <<source, registry, endpoint, catMu, cat, md, lazyMemo, pc, reading>>
        /\ UNCHANGED <<target, loaded, refreshed, wrote, lazyLoads>> /\ straight' = FALSE
    BY <1>1 DEF ClockStepsBack
  <2> QED
    BY <2>1, <2>2 DEF IInv, TypeInv, TypeOK, CallerInv, Memo, reading
<1>2. CASE RegistryPublishes \/ EndpointPublishes
  <2>1. registry' \in Versions /\ endpoint' \in Versions
    BY <1>2, ConstantsAssumption
       DEF RegistryPublishes, EndpointPublishes, IInv, TypeInv, TypeOK, Versions
  <2>2. UNCHANGED <<source, straight, catMu, cat, md, lazyMemo, pc, reading, refreshing,
                    lazyLoads>>
    BY <1>2 DEF RegistryPublishes, EndpointPublishes
  <2> QED
    BY <2>1, <2>2 DEF IInv, TypeInv, TypeOK, CallerInv, Memo, reading, refreshing
<1>3. CASE UNCHANGED vars
  BY <1>3 DEF vars, world, reading, refreshing, IInv, TypeInv, TypeOK, CallerInv, Memo
<1>4. ASSUME NEW p \in Callers, Call(p) \/ Lock(p) \/ Work(p) PROVE IInv'
  BY <1>4, InvCatalogInfo, InvModelsStale, InvRefresh DEF Call, Lock, Work
<1> QED
  BY <1>1, <1>2, <1>3, <1>4 DEF Next

\* IInv holds in every reachable state, for any number of callers.
THEOREM Invariance == Spec => []IInv
BY InvInit, InvNext, PTL DEF Spec

\* Every variable holds a value of its type, and catMu is held exactly by the
\* caller that loads (core.resolveCatalog).
THEOREM TypeCorrect == Spec => []TypeOK
<1>1. IInv => TypeOK
  BY DEF IInv, TypeInv
<1> QED
  BY <1>1, Invariance, PTL

\* The lazy resolution installs a catalog at most once, however many callers
\* find none and whatever refreshes meanwhile (core.resolveCatalog).
THEOREM LazyLoadsOnce == Spec => []LoadedOnce
<1>1. IInv => LoadedOnce
  BY DEF IInv, LoadedOnce
<1> QED
  BY <1>1, Invariance, PTL

\* What Refresh reports when it returns is what it installed, for any number of
\* refreshes at once (Index.Refresh).
THEOREM ReportIsTrue == Spec => []RefreshReportsWhatItInstalled
<1>1. IInv => RefreshReportsWhatItInstalled
  BY ConstantsAssumption DEF IInv, CallerInv, RefreshReportsWhatItInstalled
<1> QED
  BY <1>1, Invariance, PTL

\* ModelsStale reports the flag of the catalog its own call returned, whatever
\* refreshes swap the client meanwhile (Index.ModelsStale).
THEOREM FlagBelongsToData == Spec => []FlagIsOfTheData
<1>1. IInv => FlagIsOfTheData
  BY DEF IInv, CallerInv, FlagIsOfTheData
<1> QED
  BY <1>1, Invariance, PTL

-----------------------------------------------------------------------------
(* One refresher. With two, the slower may put back an older version, as   *)
(* the run index_concurrent_refresh shows; what follows is about an Index  *)
(* that one goroutine refreshes and any number of others read.             *)

OneRefresher == \A p, q \in Refreshers : p = q

\* What a refresh has loaded, and what it has installed, is not flagged and is no
\* older than what was latest when it began, an agent catalog unless the clock was
\* set back.
RefreshInv(p) ==
    /\ floor[p].catalog =< registry /\ floor[p].models =< endpoint
    /\ pc[p] = "putCatalog" => /\ ~loaded[p].stale
                               /\ straight => loaded[p].version >= floor[p].catalog
    /\ pc[p] = "putModels" => loaded[p].version >= floor[p].models /\ ~loaded[p].stale
    /\ refreshed[p].catalog => /\ cat # None /\ ~cat.stale
                               /\ straight => cat.version >= floor[p].catalog
    /\ refreshed[p].models => /\ md \in Catalogs
                              /\ md.version >= floor[p].models /\ ~md.stale

EffectInv == \A p \in Refreshers : RefreshInv(p)

LEMMA EffectInit == Init => EffectInv
<1> SUFFICES ASSUME Init, NEW p \in Refreshers PROVE RefreshInv(p)
  BY DEF EffectInv
<1>1. /\ p \in Callers /\ floor[p] = [catalog |-> 0, models |-> 0] /\ pc[p] = "idle"
      /\ refreshed[p] = Nothing /\ registry = 1 /\ endpoint = 1
  BY ConstantsAssumption DEF Init
<1> QED
  BY <1>1 DEF RefreshInv, Nothing

\* Callers that only read leave a refresh alone: a lazy load finds no catalog
\* installed, and a lazily made client none.
LEMMA EffectRead ==
    ASSUME IInv, EffectInv, NEW p \in Callers,
           \/ CatalogInfo(p) \/ ResolveHit(p) \/ ResolveLead(p) \/ LoadSucceeds(p) \/ LoadFails(p)
           \/ ModelsStale(p) \/ Obtain(p) \/ ClientAnswers(p) \/ ClientFails(p) \/ ReadFlag(p)
    PROVE  EffectInv'
<1> SUFFICES ASSUME NEW q \in Refreshers PROVE RefreshInv(q)'
  BY DEF EffectInv
<1>1. q \in Callers /\ RefreshInv(q)
  BY ConstantsAssumption DEF EffectInv
<1>2. UNCHANGED <<registry, endpoint, straight, loaded, refreshed, floor>>
  BY DEF CatalogInfo, ResolveHit, ResolveLead, LoadSucceeds, LoadFails, ModelsStale, Obtain,
         ClientAnswers, ClientFails, ReadFlag, world, refreshing
<1>3. pc'[q] = pc[q] \/ pc'[q] \notin {"putCatalog", "putModels"}
  BY <1>1 DEF IInv, TypeInv, TypeOK, CatalogInfo, ResolveHit, ResolveLead, LoadSucceeds, LoadFails,
         ModelsStale, Obtain, ClientAnswers, ClientFails, ReadFlag, GoTo
<1>4. cat # None => cat' = cat
  BY DEF IInv, CallerInv, CatalogInfo, ResolveHit, ResolveLead, LoadSucceeds, LoadFails,
         ModelsStale, Obtain, ClientAnswers, ClientFails, ReadFlag
<1>5. md # None => md' = md
  BY DEF CatalogInfo, ResolveHit, ResolveLead, LoadSucceeds, LoadFails,
         ModelsStale, Obtain, ClientAnswers, ClientFails, ReadFlag
<1> QED
  BY <1>1, <1>2, <1>3, <1>4, <1>5, NoneIsNothing DEF RefreshInv

LEMMA EffectRefresh ==
    ASSUME OneRefresher, IInv, EffectInv, NEW p \in Callers,
           \/ p \in Refreshers /\ \E t \in Targets : Refresh(p, t)
           \/ RefreshDir(p) \/ ReloadCatalog(p) \/ ReloadCatalogFails(p) \/ PutCatalog(p)
           \/ RefetchModels(p) \/ RefetchModelsFails(p) \/ PutModels(p)
    PROVE  EffectInv'
<1>1. p \in Refreshers
  BY DEF IInv, CallerInv, RefreshDir, ReloadCatalog, ReloadCatalogFails, PutCatalog,
         RefetchModels, RefetchModelsFails, PutModels
<1> SUFFICES RefreshInv(p)'
  BY <1>1 DEF EffectInv, OneRefresher
<1>2. RefreshInv(p) /\ UNCHANGED <<registry, endpoint, straight>>
  BY <1>1 DEF EffectInv, Refresh, RefreshDir, ReloadCatalog, ReloadCatalogFails, PutCatalog,
              RefetchModels, RefetchModelsFails, PutModels, world
<1>3. registry \in Nat /\ endpoint \in Nat
  BY ConstantsAssumption DEF IInv, TypeInv, TypeOK, Versions
<1> USE DEF IInv, TypeInv, TypeOK, GoTo, reading, refreshing
<1>4. CASE \E t \in Targets : Refresh(p, t)
  BY <1>2, <1>3, <1>4 DEF Refresh, RefreshInv, Nothing
<1>5. CASE RefreshDir(p) \/ ReloadCatalogFails(p) \/ RefetchModelsFails(p)
  BY <1>2, <1>5 DEF RefreshDir, ReloadCatalogFails, RefetchModelsFails, AfterCatalog, RefreshInv
<1>6. CASE ReloadCatalog(p)
  BY <1>2, <1>3, <1>6 DEF ReloadCatalog, RefreshInv
<1>7. CASE RefetchModels(p)
  BY <1>2, <1>3, <1>7 DEF RefetchModels, RefreshInv
<1>8. CASE PutCatalog(p)
  <2>1. loaded[p] # None
    BY <1>8 DEF PutCatalog, CallerInv
  <2>2. /\ cat' = loaded[p] /\ md' = md /\ floor' = floor
        /\ pc'[p] \notin {"putCatalog", "putModels"}
        /\ refreshed'[p].models = refreshed[p].models
    BY <1>8 DEF PutCatalog, AfterCatalog, Outcome
  <2> QED
    BY <1>2, <1>8, <2>1, <2>2 DEF PutCatalog, RefreshInv
<1>9. CASE PutModels(p)
  <2>1. loaded[p] \in Catalogs
    BY <1>9 DEF PutModels, CallerInv
  <2>2. /\ md' = loaded[p] /\ cat' = cat /\ floor' = floor /\ pc'[p] = "idle"
        /\ refreshed'[p].catalog = refreshed[p].catalog
    BY <1>9 DEF PutModels, Outcome
  <2> QED
    BY <1>2, <1>9, <2>1, <2>2 DEF PutModels, RefreshInv
<1> QED
  BY <1>1, <1>4, <1>5, <1>6, <1>7, <1>8, <1>9

LEMMA EffectNext == OneRefresher /\ IInv /\ EffectInv /\ [Next]_vars => EffectInv'
<1> SUFFICES ASSUME OneRefresher, IInv, EffectInv, [Next]_vars PROVE EffectInv'
  OBVIOUS
<1>1. CASE ClockStepsBack
  <2> SUFFICES ASSUME NEW p \in Refreshers PROVE RefreshInv(p)'
    BY DEF EffectInv
  <2>1. /\ p \in Callers /\ RefreshInv(p) /\ registry \in Nat
    BY ConstantsAssumption DEF EffectInv, IInv, TypeInv, TypeOK, Versions
  <2>2. floor'[p].catalog = 0 /\ floor'[p].models = floor[p].models
    BY <1>1, <2>1 DEF ClockStepsBack, IInv, TypeInv
  <2>3. UNCHANGED <<registry, endpoint, cat, md, pc, loaded, refreshed>> /\ straight' = FALSE
    BY <1>1 DEF ClockStepsBack
  <2> QED
    BY <2>1, <2>2, <2>3 DEF RefreshInv
<1>2. CASE RegistryPublishes \/ EndpointPublishes
  <2> SUFFICES ASSUME NEW p \in Refreshers PROVE RefreshInv(p)'
    BY DEF EffectInv
  <2>1. /\ registry =< registry' /\ endpoint =< endpoint'
        /\ registry' \in Nat /\ endpoint' \in Nat /\ registry \in Nat /\ endpoint \in Nat
    BY <1>2, ConstantsAssumption
       DEF RegistryPublishes, EndpointPublishes, IInv, TypeInv, TypeOK, Versions
  <2>2. floor[p].catalog \in Nat /\ floor[p].models \in Nat
    BY ConstantsAssumption DEF IInv, TypeInv
  <2>3. UNCHANGED <<cat, md, pc, loaded, refreshed, floor, straight>> /\ RefreshInv(p)
    BY <1>2 DEF RegistryPublishes, EndpointPublishes, refreshing, EffectInv
  <2> QED
    BY <2>1, <2>2, <2>3 DEF RefreshInv
<1>3. CASE UNCHANGED vars
  BY <1>3 DEF vars, world, refreshing, EffectInv, RefreshInv
<1>4. ASSUME NEW p \in Callers, Call(p) \/ Lock(p) \/ Work(p) PROVE EffectInv'
  BY <1>4, EffectRead, EffectRefresh DEF Call, Lock, Work
<1> QED
  BY <1>1, <1>2, <1>3, <1>4 DEF Next

\* A refresh that has reported success stays in effect until the next one,
\* whatever lazy loads, failures and readers come between, if one goroutine
\* refreshes the Index (Index.Refresh): what is served is not a fallback, and is
\* no older than the latest when the refresh began (the agent catalog as long as
\* the clock goes straight, which the property says). Both hypotheses are needed:
\* the slower of two refreshes wins (core.refreshCatalog), and after the clock was
\* set back a forced load may bring an old version without a flag (resolution.fresh).
THEOREM RefreshHolds ==
    ASSUME OneRefresher
    PROVE  Spec => []RefreshTakesEffect
<1>1. IInv /\ EffectInv => RefreshTakesEffect
  <2> SUFFICES ASSUME IInv, EffectInv, NEW p \in Refreshers
               PROVE  /\ refreshed[p].catalog => /\ ~cat.stale
                                                 /\ straight => cat.version >= floor[p].catalog
                      /\ refreshed[p].models => /\ ~Memo(md).stale
                                                /\ Memo(md).version >= floor[p].models
    BY DEF RefreshTakesEffect
  <2>1. RefreshInv(p)
    BY DEF EffectInv
  <2>2. md \in Catalogs => Memo(md) = md
    BY NoneIsNothing DEF Memo
  <2> QED
    BY <2>1, <2>2 DEF RefreshInv
<1>2. IInv /\ EffectInv /\ [Next]_vars => EffectInv'
  BY EffectNext
<1> QED
  BY <1>1, <1>2, EffectInit, Invariance, PTL DEF Spec
=============================================================================
