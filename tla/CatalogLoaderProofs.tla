-------------------------- MODULE CatalogLoaderProofs --------------------------
(***************************************************************************)
(* Theorems about the agent catalog loader of module CatalogLoader, for    *)
(* any number of loads in any number of processes, any versions, any TTL   *)
(* and a clock that may be set back. The inductive invariant has three     *)
(* layers, each of which rests on the ones before it: types, what a load   *)
(* that found its version on disk knows, and what the history says of the  *)
(* version a load answers for.                                             *)
(***************************************************************************)
EXTENDS CatalogLoader, TLAPS, NaturalsInduction, WellFoundedInduction

-----------------------------------------------------------------------------
(* registry.go: LatestVersion.                                             *)

\* A set of published versions that is not empty has a highest one.
LEMMA HighestIsThere ==
    ASSUME NEW S \in SUBSET Ranks, S # {}
    PROVE  Highest(S) \in S /\ \A w \in S : w =< Highest(S)
<1> DEFINE T == {MaxRank - v : v \in S}
<1>1. MaxRank \in Nat /\ S \subseteq 1 .. MaxRank
  BY ConstantsAssumption DEF Ranks
<1>2. T \subseteq Nat
  BY <1>1
<1>3. T # {}
  <2>1. PICK v : v \in S
    OBVIOUS
  <2>2. MaxRank - v \in T
    BY <2>1
  <2> QED
    BY <2>2
<1>4. PICK x \in T : \A y \in T : ~(<<y, x>> \in OpToRel(<, Nat))
  BY <1>2, <1>3, NatLessThanWellFounded, WFMin
<1>5. \A y \in T : ~(y < x)
  BY <1>2, <1>4 DEF OpToRel
<1>6. PICK v \in S : x = MaxRank - v
  BY <1>4
<1>7. ASSUME NEW w \in S PROVE w =< v
  <2>1. ~(MaxRank - w < MaxRank - v)
    BY <1>5, <1>6
  <2>2. w \in Int /\ v \in Int
    BY <1>1
  <2> QED
    BY <1>1, <2>1, <2>2
<1> QED
  BY <1>6, <1>7 DEF Highest

\* The loop of LatestVersion finds what Go's @latest names, whatever is listed.
THEOREM LatestVersionIsLatest ==
    ASSUME NEW S \in SUBSET Ranks, LatestVersion(S) # None
    PROVE  IsLatest(LatestVersion(S), S)
<1> DEFINE valid == S \ Malformed
           stable == valid \ Prereleases
<1>1. stable \in SUBSET Ranks /\ valid \in SUBSET Ranks
  OBVIOUS
<1>2. CASE stable # {}
  <2>1. LatestVersion(S) = Highest(stable)
    BY <1>2 DEF LatestVersion
  <2>2. Highest(stable) \in stable /\ \A w \in stable : w =< Highest(stable)
    BY <1>1, <1>2, HighestIsThere
  <2> QED
    BY <2>1, <2>2 DEF IsLatest, IsStable
<1>3. CASE stable = {}
  <2>1. valid # {} /\ LatestVersion(S) = Highest(valid)
    BY <1>3 DEF LatestVersion
  <2>2. Highest(valid) \in valid /\ \A w \in valid : w =< Highest(valid)
    BY <1>1, <2>1, HighestIsThere
  <2> QED
    BY <1>3, <2>1, <2>2 DEF IsLatest, IsStable
<1> QED
  BY <1>2, <1>3

-----------------------------------------------------------------------------
(* First layer: types.                                                     *)

\* What a resolution file may hold.
PublishedResolutions == [version : published, at : Times, latest : BOOLEAN, taken : Times]

WorldType ==
    /\ now \in Times
    /\ published \in SUBSET Ranks
    /\ content \subseteq published
    /\ resolution \in PublishedResolutions \cup {None}
    /\ straight \in BOOLEAN

LoadType ==
    /\ pc \in [Loads -> Stations]
    /\ cached \in [Loads -> PublishedResolutions \cup {None}]
    /\ held \in [Loads -> PublishedResolutions \cup {None}]
    /\ stale \in [Loads -> BOOLEAN]
    /\ outcome \in [Loads -> Outcomes]
    /\ begun \in [Loads -> Times]
    /\ asked \in [Loads -> BOOLEAN]
    /\ firm \in [Loads -> BOOLEAN]

\* What the station of a load says of its locals.
StationInv(p) ==
    /\ pc[p] \in {"check", "resolve"} => ~stale[p] /\ ~asked[p]
    /\ pc[p] \in Settled \/ Answered(p) => held[p] # None
    /\ stale[p] => ~asked[p]

TypeInv == WorldType /\ LoadType /\ \A p \in Loads : StationInv(p)

LEMMA TimesAreNumbers == 0 \in Times /\ \A t \in Times : t \in Nat
BY ConstantsAssumption DEF Times

LEMMA NoneIsNothing == None \notin Ranks /\ None \notin Resolutions
BY ConstantsAssumption DEF Ranks

LEMMA TypeInit == Init => TypeInv
<1> SUFFICES ASSUME Init PROVE TypeInv
  OBVIOUS
<1>1. WorldType
  BY TimesAreNumbers DEF Init, WorldType, PublishedResolutions
<1>2. LoadType
  BY TimesAreNumbers DEF Init, LoadType, PublishedResolutions, Stations, Outcomes
<1>3. \A p \in Loads : StationInv(p)
  BY DEF Init, StationInv, Settled, Answered, Ended
<1> QED
  BY <1>1, <1>2, <1>3 DEF TypeInv

\* What the registry's answer makes of a load.
LEMMA NamedType ==
    ASSUME TypeInv, LatestVersion(published) # None
    PROVE  /\ Named(LatestVersion(published)) \in PublishedResolutions
           /\ Named(LatestVersion(published)).latest
<1>1. IsLatest(LatestVersion(published), published)
  BY LatestVersionIsLatest DEF TypeInv, WorldType
<1>2. LatestVersion(published) \in published /\ 0 \in Times
  BY <1>1, TimesAreNumbers DEF IsLatest, TypeInv, WorldType
<1>3. Named(LatestVersion(published)) =
         [version |-> LatestVersion(published), at |-> 0, latest |-> TRUE, taken |-> 0]
  BY <1>1, Zenon DEF Named
<1> QED
  BY <1>2, <1>3 DEF PublishedResolutions

\* And what the stamp makes of the answer, or its loss.
LEMMA StampType ==
    ASSUME TypeInv, NEW p \in Loads, held[p] # None
    PROVE  /\ Stamped(held[p]) \in PublishedResolutions \ {None}
           /\ Stamped(held[p]).at = now /\ Stamped(held[p]).taken = now
           /\ Stamped(held[p]).latest = held[p].latest
           /\ Unstamped(held[p]) \in PublishedResolutions \ {None}
           /\ Unstamped(held[p]).at = 0 /\ Unstamped(held[p]).taken = 0
           /\ Unstamped(held[p]).latest = held[p].latest
<1>1. held[p] \in PublishedResolutions /\ now \in Times /\ 0 \in Times
  BY TimesAreNumbers DEF TypeInv, WorldType, LoadType
<1>2. None \notin PublishedResolutions
  BY NoneIsNothing DEF PublishedResolutions, Resolutions, TypeInv, WorldType
<1> QED
  BY <1>1, <1>2 DEF PublishedResolutions, Stamped, Unstamped

\* A step of a load keeps the types.
LEMMA TypeStep ==
    ASSUME TypeInv, NEW p \in Loads, Step(p)
    PROVE  TypeInv'
<1>1. UNCHANGED worldVars
  BY DEF Step, Begin, CheckTTL, Resolve, Answer, ResolveFails, WriteTemp, Rename,
         BadCoordinate, Fetch, FetchFails, Decode, Crash
<1>2. PublishedResolutions' = PublishedResolutions
  BY <1>1 DEF worldVars, PublishedResolutions
<1> USE DEF TypeInv, WorldType, LoadType
<1>3. CASE Begin(p)
  BY <1>1, <1>2, <1>3, TimesAreNumbers
     DEF Begin, Remember, Settle, GoTo, worldVars, Stations, Outcomes, StationInv, Settled,
         Answered, Ended
<1>4. CASE CheckTTL(p)
  BY <1>1, <1>2, <1>4
     DEF CheckTTL, Remember, Forget, Settle, GoTo, worldVars, Stations, StationInv, Settled,
         Answered, Ended
<1>5. CASE Resolve(p)
  <2>1. /\ Named(LatestVersion(published)) \in PublishedResolutions
        /\ Named(LatestVersion(published)) # None
    BY <1>5, NamedType, NoneIsNothing DEF Resolve, PublishedResolutions, Resolutions
  <2> QED
    BY <1>1, <1>2, <1>5, <2>1, TimesAreNumbers
       DEF Resolve, Answer, Remember, Forget, Settle, GoTo, worldVars, Stations, StationInv,
           Settled, Answered, Ended
<1>6. CASE ResolveFails(p)
  <2> USE <1>1, <1>2, <1>6
      DEF ResolveFails, Remember, Forget, Settle, GoTo, worldVars, Stations, Outcomes
  <2>1. CASE cached[p] # None
    <3>1. LoadType'
      BY <2>1
    <3>2. \A q \in Loads : StationInv(q)'
      BY <2>1 DEF StationInv, Settled, Answered, Ended
    <3> QED
      BY <3>1, <3>2
  <2>2. CASE cached[p] = None
    BY <2>2 DEF End, StationInv, Settled, Answered, Ended
  <2> QED
    BY <2>1, <2>2
<1>7. CASE WriteTemp(p)
  <2>1. held[p] # None
    BY <1>7 DEF WriteTemp, StationInv, Settled
  <2>2. /\ Stamped(held[p]) \in PublishedResolutions \ {None}
        /\ Unstamped(held[p]) \in PublishedResolutions \ {None}
    BY <2>1, StampType
  <2> QED
    BY <1>1, <1>2, <1>7, <2>2
       DEF WriteTemp, Return, Settle, GoTo, worldVars, Stations, StationInv, Settled,
           Answered, Ended
<1>8. CASE Rename(p)
  <2>1. held[p] \in PublishedResolutions /\ held[p] # None
    BY <1>8 DEF Rename, StationInv, Settled
  <2>2. Unstamped(held[p]) \in PublishedResolutions \ {None}
    BY <2>1, StampType
  <2> QED
    BY <1>1, <1>2, <1>8, <2>1, <2>2
       DEF Rename, Return, Settle, GoTo, worldVars, Stations, StationInv, Settled, Answered,
           Ended
<1>9. CASE BadCoordinate(p)
  BY <1>1, <1>2, <1>9
     DEF BadCoordinate, GoTo, End, worldVars, Stations, Outcomes, StationInv, Settled,
         Answered, Ended
<1>10. CASE Fetch(p)
  <2>1. content' \subseteq published
    BY <1>10 DEF Fetch, StationInv, Settled, PublishedResolutions
  <2> QED
    BY <1>1, <1>2, <1>10, <2>1
       DEF Fetch, GoTo, worldVars, Stations, StationInv, Settled, Answered, Ended
<1>11. CASE FetchFails(p)
  BY <1>1, <1>2, <1>11
     DEF FetchFails, GoTo, End, worldVars, Stations, Outcomes, StationInv, Settled, Answered,
         Ended
<1>12. CASE Decode(p)
  BY <1>1, <1>2, <1>12
     DEF Decode, GoTo, End, worldVars, Stations, Outcomes, StationInv, Settled, Answered,
         Ended
<1>13. CASE Crash(p)
  BY <1>1, <1>2, <1>13, TimesAreNumbers
     DEF Crash, GoTo, End, Remember, Forget, Settle, worldVars, Stations, Outcomes,
         StationInv, Settled, Answered, Ended
<1> QED
  BY <1>3, <1>4, <1>5, <1>6, <1>7, <1>8, <1>9, <1>10, <1>11, <1>12, <1>13 DEF Step

\* So does the world.
LEMMA TypeWorld ==
    ASSUME TypeInv, RegistryPublishes \/ Tick \/ StepBack
    PROVE  TypeInv'
<1> USE DEF TypeInv, WorldType, LoadType, PublishedResolutions
<1>1. CASE RegistryPublishes
  <2>1. published \subseteq published' /\ published' \in SUBSET Ranks
    BY <1>1 DEF RegistryPublishes
  <2> QED
    BY <1>1, <2>1 DEF RegistryPublishes, loadVars, StationInv, Answered, Ended
<1>2. CASE Tick
  <2>1. now' \in Times
    BY <1>2, ConstantsAssumption DEF Tick, Times
  <2> QED
    BY <1>2, <2>1 DEF Tick, loadVars, StationInv, Answered, Ended
<1>3. CASE StepBack
  BY <1>3, TimesAreNumbers DEF StepBack, StationInv, Answered, Ended
<1> QED
  BY <1>1, <1>2, <1>3

LEMMA TypeNext == TypeInv /\ [Next]_vars => TypeInv'
<1> SUFFICES ASSUME TypeInv, [Next]_vars PROVE TypeInv'
  OBVIOUS
<1>1. CASE UNCHANGED vars
  BY <1>1 DEF vars, worldVars, loadVars, TypeInv, WorldType, LoadType, PublishedResolutions,
              StationInv, Answered, Ended
<1> QED
  BY <1>1, TypeStep, TypeWorld DEF Next

LEMMA TypeInvariant == Spec => []TypeInv
BY TypeInit, TypeNext, PTL DEF Spec

\* Every variable holds a value of its type: what a load fetches, decodes or
\* records is a version the registry listed, and the file is absent or whole.
THEOREM TypeCorrect == Spec => []TypeOK
<1>1. TypeInv => TypeOK
  BY DEF TypeInv, WorldType, LoadType, PublishedResolutions, Resolutions, StationInv, Settled, TypeOK
<1> QED
  BY <1>1, TypeInvariant, PTL

\* The resolution file is never absent or torn once it is there: no load, and no
\* kill of one, takes it away (resolutionCache.write).
THEOREM ResolutionStays == Spec => ResolutionKept
<1>1. TypeInv /\ [Next]_vars => [resolution # None => resolution' # None]_vars
  <2> SUFFICES ASSUME TypeInv, Next, resolution # None PROVE resolution' # None
    OBVIOUS
  <2>1. CASE \E p \in Loads : Rename(p)
    BY <2>1 DEF Rename, TypeInv, StationInv, Settled
  <2> QED
    BY <2>1 DEF Next, Step, Begin, CheckTTL, Resolve, Answer, ResolveFails, WriteTemp,
                BadCoordinate, Fetch, FetchFails, Decode, Crash, RegistryPublishes, Tick,
                StepBack
<1> QED
  BY <1>1, TypeInvariant, PTL DEF Spec, ResolutionKept

-----------------------------------------------------------------------------
(* Second layer: a load that found its version on disk.                    *)

\* The file and the content cache are as it found them, and it goes on with
\* the version the file names.
FirmInv(p) ==
    firm[p] =>
        /\ resolution # None /\ resolution.version \in content
        /\ pc[p] \notin {"write", "rename"}
        /\ pc[p] \in {"check", "resolve"} => cached[p] = resolution
        /\ pc[p] \in {"fetch", "decode"} => held[p].version = resolution.version
        /\ ~Ended(p, "unavailable")

AllFirm == \A p \in Loads : FirmInv(p)

LEMMA FirmInit == Init => AllFirm
BY DEF Init, AllFirm, FirmInv

LEMMA FirmStep ==
    ASSUME TypeInv, AllFirm, NEW p \in Loads, Step(p)
    PROVE  AllFirm'
<1> SUFFICES ASSUME NEW q \in Loads PROVE FirmInv(q)'
  BY DEF AllFirm
<1> USE DEF TypeInv, LoadType, AllFirm, FirmInv, Ended, GoTo, Remember, Forget, Settle, End
<1>1. CASE Begin(p)
  BY <1>1 DEF Begin
<1>2. CASE CheckTTL(p)
  BY <1>2 DEF CheckTTL
<1>3. CASE Resolve(p)
  BY <1>3 DEF Resolve, Answer
<1>4. CASE ResolveFails(p)
  BY <1>4 DEF ResolveFails
<1>5. CASE WriteTemp(p)
  BY <1>5 DEF WriteTemp, Return
<1>6. CASE Rename(p)
  BY <1>6 DEF Rename, Return
<1>7. CASE BadCoordinate(p)
  BY <1>7 DEF BadCoordinate
<1>8. CASE Fetch(p)
  BY <1>8 DEF Fetch
<1>9. CASE FetchFails(p)
  BY <1>9 DEF FetchFails
<1>10. CASE Decode(p)
  BY <1>10 DEF Decode
<1>11. CASE Crash(p)
  BY <1>11 DEF Crash
<1> QED
  BY <1>1, <1>2, <1>3, <1>4, <1>5, <1>6, <1>7, <1>8, <1>9, <1>10, <1>11 DEF Step

LEMMA FirmNext == TypeInv /\ AllFirm /\ [Next]_vars => AllFirm'
<1> SUFFICES ASSUME TypeInv, AllFirm, [Next]_vars PROVE AllFirm'
  OBVIOUS
<1>1. CASE RegistryPublishes \/ Tick \/ StepBack \/ UNCHANGED vars
  BY <1>1 DEF RegistryPublishes, Tick, StepBack, vars, worldVars, loadVars, AllFirm, FirmInv, Ended
<1> QED
  BY <1>1, FirmStep DEF Next

\* A load that begins when the resolved version is on disk never ends for want
\* of the catalog, whatever the network, the clock and other processes do, until
\* it resolves another version or another load replaces the file (Loader.Load).
THEOREM LoadsOffline == Spec => []OfflineFallback
<1>1. AllFirm => OfflineFallback
  BY DEF AllFirm, FirmInv, OfflineFallback
<1> QED
  BY <1>1, FirmInit, FirmNext, TypeInvariant, PTL DEF Spec

-----------------------------------------------------------------------------
(* Third layer: where an answer comes from, and how old it may be.         *)

\* A resolution says of its version what the registry said, and when; unless
\* the clock was set back, that is not in the future.
Sound(r) ==
    r # None =>
        /\ r.latest /\ r.taken = r.at
        /\ straight => r.at =< now

\* What a load without the flag answers for.
Vouched(p) ==
    \/ asked[p]
    \/ p \notin Forced /\ begun[p] - held[p].taken < TTL

AgeInv(p) ==
    /\ Sound(cached[p]) /\ Sound(held[p])
    /\ pc[p] \in {"write", "rename"} => asked[p]
    /\ straight =>
          /\ begun[p] =< now
          /\ (pc[p] \in {"fetch", "decode"} \/ Answered(p)) /\ ~stale[p] => Vouched(p)

HistoryInv == Sound(resolution) /\ \A p \in Loads : AgeInv(p)

LEMMA HistoryInit == Init => HistoryInv
BY DEF Init, HistoryInv, Sound, AgeInv, Answered, Ended

\* The other loads keep theirs.
LEMMA OthersKeep ==
    ASSUME TypeInv, NEW p \in Loads, Step(p), NEW q \in Loads, q # p
    PROVE  /\ pc'[q] = pc[q] /\ cached'[q] = cached[q] /\ held'[q] = held[q]
           /\ stale'[q] = stale[q] /\ outcome'[q] = outcome[q] /\ begun'[q] = begun[q]
           /\ asked'[q] = asked[q]
BY DEF TypeInv, LoadType, Step, Begin, CheckTTL, Resolve, Answer, ResolveFails, WriteTemp,
       Rename, Return, BadCoordinate, Fetch, FetchFails, Decode, Crash, GoTo, Settle, Remember,
       Forget, End

LEMMA HistoryStep ==
    ASSUME TypeInv, HistoryInv, NEW p \in Loads, Step(p)
    PROVE  HistoryInv'
<1>1. UNCHANGED worldVars
  BY DEF Step, Begin, CheckTTL, Resolve, Answer, ResolveFails, WriteTemp, Rename,
         BadCoordinate, Fetch, FetchFails, Decode, Crash
<1>2. Sound(resolution) /\ Sound(cached[p]) /\ Sound(held[p]) /\ AgeInv(p)
  BY DEF HistoryInv, AgeInv
<1>3. now \in Nat /\ begun[p] \in Nat
  BY TimesAreNumbers DEF TypeInv, WorldType, LoadType
<1>4. Sound(resolution)'
  <2>1. resolution' \in {resolution, held[p]}
    BY DEF Step, Begin, CheckTTL, Resolve, Answer, ResolveFails, WriteTemp, Rename,
           BadCoordinate, Fetch, FetchFails, Decode, Crash
  <2> QED
    BY <1>1, <1>2, <2>1 DEF worldVars, Sound
<1>5. ASSUME NEW q \in Loads, q # p PROVE AgeInv(q)'
  <2>1. AgeInv(q)
    BY DEF HistoryInv
  <2> QED
    BY <1>1, <1>5, <2>1, OthersKeep DEF worldVars, AgeInv, Sound, Vouched, Answered, Ended
<1>6. AgeInv(p)'
  <2> USE DEF TypeInv, LoadType
  <2>1. CASE Begin(p)
    BY <1>1, <1>2, <1>3, <2>1
       DEF Begin, Remember, Settle, GoTo, worldVars, AgeInv, Sound, Answered, Ended
  <2>2. CASE CheckTTL(p)
    <3>1. CASE cached[p] # None /\ Fresh(p, cached[p])
      <4>1. /\ held'[p] = cached[p] /\ cached'[p] = None /\ begun'[p] = begun[p]
            /\ pc'[p] = "fetch"
        BY <2>2, <3>1 DEF CheckTTL, GoTo, Settle, Forget, Remember
      <4>2. cached[p].at \in Nat /\ cached[p].taken = cached[p].at
        BY <1>2, <3>1, TimesAreNumbers DEF PublishedResolutions, Sound
      <4>3. ASSUME straight
            PROVE  /\ begun[p] =< now /\ cached[p].at =< now
                   /\ now - cached[p].at < TTLOf(p)
        BY <1>2, <3>1, <4>3 DEF AgeInv, Sound, Fresh
      <4>4. ASSUME straight
            PROVE  p \notin Forced /\ begun[p] - cached[p].taken < TTL
        BY <1>3, <4>2, <4>3, <4>4, ConstantsAssumption DEF TTLOf
      <4>5. straight => Vouched(p)'
        BY <4>1, <4>4 DEF Vouched
      <4> QED
        BY <1>1, <1>2, <4>1, <4>3, <4>5 DEF worldVars, AgeInv, Sound
    <3>2. CASE ~(cached[p] # None /\ Fresh(p, cached[p]))
      BY <1>1, <1>2, <2>2, <3>2
         DEF CheckTTL, GoTo, worldVars, AgeInv, Sound, Answered, Ended
    <3> QED
      BY <3>1, <3>2
  <2>3. CASE Resolve(p)
    <3>1. /\ held'[p] = Named(LatestVersion(published)) /\ held'[p].latest
          /\ asked'[p] /\ begun'[p] = 0 /\ pc'[p] = "write" /\ cached'[p] = None
      BY <2>3, NamedType DEF Resolve, Answer, GoTo, Settle, Forget, Remember
    <3>2. held'[p].at = 0 /\ held'[p].taken = 0
      BY <3>1 DEF Named
    <3> QED
      BY <1>1, <1>3, <3>1, <3>2 DEF worldVars, AgeInv, Sound, Vouched, Answered, Ended
  <2>4. CASE ResolveFails(p)
    BY <1>1, <1>2, <2>4
       DEF ResolveFails, Remember, Forget, Settle, GoTo, End, worldVars, AgeInv, Sound,
           Answered, Ended
  <2>5. CASE WriteTemp(p)
    <3>1. held[p] # None /\ asked[p]
      BY <1>2, <2>5 DEF WriteTemp, StationInv, Settled, AgeInv
    <3>2. /\ held'[p].at = held'[p].taken /\ held'[p].at \in {0, now}
          /\ held'[p].latest = held[p].latest
      BY <2>5, <3>1, StampType DEF WriteTemp, Return, Settle
    <3>3. asked'[p] /\ UNCHANGED <<cached, begun>>
      BY <2>5, <3>1 DEF WriteTemp
    <3> QED
      BY <1>1, <1>2, <1>3, <3>1, <3>2, <3>3 DEF worldVars, AgeInv, Sound, Vouched
  <2>6. CASE Rename(p)
    <3>1. held[p] # None /\ asked[p]
      BY <1>2, <2>6 DEF Rename, StationInv, Settled, AgeInv
    <3>2. held'[p].at = 0 /\ held'[p].taken = 0 /\ held'[p].latest = held[p].latest
      BY <2>6, <3>1, StampType DEF Rename, Return, Settle
    <3>3. asked'[p] /\ UNCHANGED <<cached, begun>>
      BY <2>6, <3>1 DEF Rename
    <3> QED
      BY <1>1, <1>2, <1>3, <3>1, <3>2, <3>3 DEF worldVars, AgeInv, Sound, Vouched
  <2>7. CASE BadCoordinate(p) \/ Fetch(p) \/ FetchFails(p) \/ Decode(p)
    <3>1. /\ held'[p] = held[p] /\ cached'[p] = cached[p] /\ begun'[p] = begun[p]
          /\ stale'[p] = stale[p] /\ asked'[p] = asked[p]
          /\ pc[p] \in {"fetch", "decode"} /\ pc'[p] \notin {"write", "rename"}
      BY <2>7 DEF BadCoordinate, Fetch, FetchFails, Decode, GoTo, End
    <3> QED
      BY <1>1, <1>2, <3>1 DEF worldVars, AgeInv, Sound, Vouched
  <2>8. CASE Crash(p)
    BY <1>1, <1>2, <1>3, <2>8
       DEF Crash, Remember, Forget, Settle, GoTo, End, worldVars, AgeInv, Sound, Answered,
           Ended
  <2> QED
    BY <2>1, <2>2, <2>3, <2>4, <2>5, <2>6, <2>7, <2>8 DEF Step
<1> QED
  BY <1>4, <1>5, <1>6 DEF HistoryInv

LEMMA HistoryNext == TypeInv /\ HistoryInv /\ [Next]_vars => HistoryInv'
<1> SUFFICES ASSUME TypeInv, HistoryInv, [Next]_vars PROVE HistoryInv'
  OBVIOUS
<1>1. CASE StepBack
  BY <1>1 DEF StepBack, HistoryInv, AgeInv, Sound
<1>2. CASE RegistryPublishes \/ Tick
  <2>1. /\ UNCHANGED <<straight, resolution, loadVars>>
        /\ now \in Nat /\ now' \in Nat /\ now =< now'
    BY <1>2, TimesAreNumbers DEF RegistryPublishes, Tick, TypeInv, WorldType
  <2>2. /\ resolution # None => resolution.at \in Nat
        /\ \A p \in Loads : /\ begun[p] \in Nat
                            /\ cached[p] # None => cached[p].at \in Nat
                            /\ held[p] # None => held[p].at \in Nat
    BY TimesAreNumbers DEF TypeInv, WorldType, LoadType, PublishedResolutions
  <2> QED
    BY <2>1, <2>2 DEF HistoryInv, AgeInv, Sound, Vouched, Answered, Ended, loadVars
<1>3. CASE UNCHANGED vars
  BY <1>3 DEF vars, worldVars, loadVars, HistoryInv, AgeInv, Sound, Vouched, Answered, Ended
<1> QED
  BY <1>1, <1>2, <1>3, HistoryStep DEF Next

\* While the clock goes straight, a load that reports no staleness answers for,
\* or rejects, a version that Go's @latest named when the registry answered the
\* load itself or, if it was not forced, one that answered a load which took the
\* answer up less than the TTL before this one began: the resolution file, the
\* fallback, the registry and LatestVersion together, for any number of loads and
\* releases, and however long an answer is on its way.
THEOREM UnflaggedIsWithinTTL == Spec => []UnflaggedWithinTTL
<1>1. TypeInv /\ HistoryInv => UnflaggedWithinTTL
  BY DEF TypeInv, StationInv, HistoryInv, AgeInv, Sound, Vouched, UnflaggedWithinTTL
<1> QED
  BY <1>1, HistoryInit, HistoryNext, TypeInvariant, PTL DEF Spec
=============================================================================
