---------------------------- MODULE CatalogLoader ----------------------------
(***************************************************************************)
(* The agent catalog loader (internal/catalog: loader.go, cache.go,        *)
(* registry.go): loads that run at the same time, in one process or in     *)
(* several, and share the version-resolution file and CUE's content cache. *)
(*                                                                         *)
(* A published version is its rank in semver order; which ranks are        *)
(* pre-releases, not valid semver, or modules that fail validation is a    *)
(* parameter. A Loader lives for one Load (core.go loadCatalog), so a load *)
(* is a process of the model. The registry and the content cache are       *)
(* outside src/ and are modelled from how registry.go uses them.           *)
(***************************************************************************)
EXTENDS Integers

CONSTANTS
    Loads,           \* loads that may be in progress at the same time
    Forced,          \* those of refreshCatalog: WithTTL(0)
    MaxRank,         \* bound: versions published
    Prereleases,     \* the ranks that are pre-releases
    Malformed,       \* the ranks whose version string is not valid semver
    Uncanonical,     \* those that are, but form no canonical module@version
    BadModules,      \* the ranks whose module fails validation or decoding
    TTL,             \* resolution TTL of the other loads, in ticks
    MaxTime,         \* bound: the clock stops there
    ClockStepsBack,  \* whether the wall clock may be set back
    None             \* no resolution file, no version

Ranks == 1 .. MaxRank
Times == 0 .. MaxTime

\* What the file holds and a load goes on with: a version and its ResolvedAt (at).
\* History: whether Go's @latest named the version when the registry did, and when
\* the load that had asked took the answer up.
Resolutions == [version : Ranks, at : Times, latest : BOOLEAN, taken : Times]

ASSUME ConstantsAssumption ==
    /\ MaxRank \in Nat /\ TTL \in Nat /\ MaxTime \in Nat
    /\ Forced \subseteq Loads
    /\ Prereleases \subseteq Ranks
    /\ Malformed \subseteq Ranks
    /\ Uncanonical \subseteq Ranks
    /\ BadModules \subseteq Ranks
    /\ ClockStepsBack \in BOOLEAN
    /\ None \notin Int \cup Resolutions

VARIABLES
    now,         \* the wall clock
    published,   \* the versions the registry lists
    resolution,  \* the resolution file, or None
    content,     \* the versions in CUE's content cache
    pc,          \* where each load is
    cached,      \* the resolution it read, until it settles on a version
    held,        \* the resolution it settled on, or None
    stale,       \* Result.Stale
    outcome,     \* how it ended
    begun,       \* history: when it began, if it is not forced, until the registry
                 \* answers it and as long as the clock goes straight
    asked,       \* history: the registry answered it
    firm,        \* history: the file named a version on disk when it began, no
                 \* load replaced the file since, and it resolved no other
    straight     \* history: the clock was never set back

loadVars == <<pc, cached, held, stale, outcome, begun, asked>>
worldVars == <<now, published, straight>>
vars == <<worldVars, resolution, content, loadVars, firm>>

Stations == {"idle", "check", "resolve", "write", "rename", "fetch", "decode"}
Outcomes == {"none", "ok", "unavailable", "misconfigured", "invalid"}

-----------------------------------------------------------------------------
(* registry.go                                                             *)

\* What Go's @latest names: a stable release before any pre-release, then the
\* highest (the reference for the history, not the code's loop).
IsStable(v) == v \notin Prereleases
IsLatest(v, S) ==
    /\ v \in S \ Malformed
    /\ \A w \in S \ Malformed :
          IF IsStable(w) = IsStable(v) THEN w =< v ELSE IsStable(v)

Highest(S) == CHOOSE v \in S : \A w \in S : w =< v

\* Mutant of LatestVersion: a pre-release wins over a lower stable release.
LatestOfAny(S) ==
    LET valid == S \ Malformed
    IN IF valid # {} THEN Highest(valid) ELSE None

\* The highest stable release, else the highest pre-release, else an error.
LatestVersion(S) ==
    LET valid == S \ Malformed
        stable == valid \ Prereleases
    IN IF stable # {} THEN Highest(stable)
       ELSE IF valid # {} THEN Highest(valid) ELSE None

-----------------------------------------------------------------------------

Init ==
    /\ now = 0
    /\ published \in SUBSET Ranks
    \* An absent file, or one that does not parse or is another module's.
    /\ resolution = None
    /\ content = {}
    /\ pc = [p \in Loads |-> "idle"]
    /\ cached = [p \in Loads |-> None]
    /\ held = [p \in Loads |-> None]
    /\ stale = [p \in Loads |-> FALSE]
    /\ outcome = [p \in Loads |-> "none"]
    /\ begun = [p \in Loads |-> 0]
    /\ asked = [p \in Loads |-> FALSE]
    /\ firm = [p \in Loads |-> FALSE]
    /\ straight = TRUE

\* WithTTL(0) for a refresh; resolution.fresh, for the TTL the load was given.
TTLOf(p) == IF p \in Forced THEN 0 ELSE TTL
Fresh(p, r) == now - r.at < TTLOf(p)

Remember(p, r) == cached' = [cached EXCEPT ![p] = r]
Forget(p) == Remember(p, None)
Settle(p, r) == held' = [held EXCEPT ![p] = r]
GoTo(p, s) == pc' = [pc EXCEPT ![p] = s]
End(p, o) == GoTo(p, "idle") /\ outcome' = [outcome EXCEPT ![p] = o]

\* A load begins: resolutionCache.read.
Begin(p) ==
    /\ pc[p] = "idle"
    /\ GoTo(p, "check")
    /\ Remember(p, resolution)
    /\ Settle(p, None)
    /\ stale' = [stale EXCEPT ![p] = FALSE]
    /\ outcome' = [outcome EXCEPT ![p] = "none"]
    /\ begun' = [begun EXCEPT ![p] = IF straight /\ p \notin Forced THEN now ELSE 0]
    /\ asked' = [asked EXCEPT ![p] = FALSE]
    /\ firm' = [firm EXCEPT ![p] = resolution # None /\ resolution.version \in content]
    /\ UNCHANGED <<worldVars, resolution, content>>

\* The clock is read, and what was read from the file serves within the TTL.
CheckTTL(p) ==
    /\ pc[p] = "check"
    /\ IF cached[p] # None /\ Fresh(p, cached[p])
       THEN GoTo(p, "fetch") /\ Settle(p, cached[p]) /\ Forget(p)
       ELSE GoTo(p, "resolve") /\ UNCHANGED <<held, cached>>
    /\ UNCHANGED <<worldVars, resolution, content, stale, outcome, begun, asked, firm>>

\* What the registry names, without its stamps.
Named(v) ==
    [version |-> v, at |-> 0, latest |-> IsLatest(v, published), taken |-> 0]
Answer(p) ==
    /\ Settle(p, Named(LatestVersion(published)))
    /\ asked' = [asked EXCEPT ![p] = TRUE]
    /\ begun' = [begun EXCEPT ![p] = 0]
    /\ firm' = [firm EXCEPT ![p] = FALSE]
    /\ GoTo(p, "write")
    /\ Forget(p)
    /\ UNCHANGED <<worldVars, resolution, content, stale, outcome>>

\* Mutant of Resolve: no valid version is the empty version, not an error.
ResolveNothing(p) == pc[p] = "resolve" /\ Answer(p)

\* The registry answers with what it lists at that moment; the answer has yet to
\* come back, and to be stamped.
Resolve(p) ==
    /\ pc[p] = "resolve"
    /\ LatestVersion(published) # None
    /\ Answer(p)

\* Mutant of ResolveFails: the last resolution is not fallen back on.
ResolveFailsHard(p) ==
    /\ pc[p] = "resolve"
    /\ End(p, "unavailable")
    /\ Forget(p)
    /\ UNCHANGED <<worldVars, resolution, content, held, stale, begun, asked, firm>>

\* Mutant of ResolveFails: the fallback is not flagged.
ResolveFailsSilently(p) ==
    /\ pc[p] = "resolve"
    /\ IF cached[p] # None
       THEN GoTo(p, "fetch") /\ Settle(p, cached[p]) /\ UNCHANGED outcome
       ELSE End(p, "unavailable") /\ UNCHANGED held
    /\ Forget(p)
    /\ UNCHANGED <<worldVars, resolution, content, stale, begun, asked, firm>>

\* No network, or nothing valid published: whatever was read still serves.
ResolveFails(p) ==
    /\ pc[p] = "resolve"
    /\ IF cached[p] # None
       THEN /\ GoTo(p, "fetch")
            /\ Settle(p, cached[p])
            /\ stale' = [stale EXCEPT ![p] = TRUE]
            /\ UNCHANGED outcome
       ELSE End(p, "unavailable") /\ UNCHANGED <<held, stale>>
    /\ Forget(p)
    /\ UNCHANGED <<worldVars, resolution, content, begun, asked, firm>>

Stamped(r) == [r EXCEPT !.at = now, !.taken = now]
Unstamped(r) == [r EXCEPT !.at = 0, !.taken = 0]

\* resolveVersion returns: the stamps are left to the file.
Return(p) == Settle(p, Unstamped(held[p])) /\ GoTo(p, "fetch")

\* Mutant of WriteTemp: the file is written in place, and a kill tears it.
WriteInPlace(p) ==
    /\ pc[p] = "write"
    /\ Settle(p, Stamped(held[p])) /\ GoTo(p, "rename")
    /\ resolution' = None
    /\ UNCHANGED <<worldVars, content, cached, stale, outcome, begun, asked, firm>>

\* The answer is back: l.now() is read for its ResolvedAt, and resolutionCache.write
\* makes a temporary file of it. Its errors are discarded.
WriteTemp(p) ==
    /\ pc[p] = "write"
    /\ \/ Settle(p, Stamped(held[p])) /\ GoTo(p, "rename")
       \/ Return(p)
    /\ UNCHANGED <<worldVars, resolution, content, cached, stale, outcome, begun, asked,
                   firm>>

Rename(p) ==
    /\ pc[p] = "rename"
    /\ Return(p)
    /\ \/ /\ resolution' = held[p]
          /\ firm' = [q \in Loads |-> FALSE]
       \/ UNCHANGED <<resolution, firm>>
    /\ UNCHANGED <<worldVars, content, cached, stale, outcome, begun, asked>>

\* canonicalModulePath refuses a version that latestVersion took for valid.
BadCoordinate(p) ==
    /\ pc[p] = "fetch"
    /\ held[p].version \in Uncanonical
    /\ End(p, "misconfigured")
    /\ UNCHANGED <<worldVars, resolution, content, cached, held, stale, begun, asked,
                   firm>>

\* Registry.Fetch: from the content cache, or from the registry into it.
Fetch(p) ==
    /\ pc[p] = "fetch"
    /\ held[p].version \in (content \cup published) \ Uncanonical
    /\ content' = content \cup {held[p].version}
    /\ GoTo(p, "decode")
    /\ UNCHANGED <<worldVars, resolution, cached, held, stale, outcome, begun, asked,
                   firm>>

FetchFails(p) ==
    /\ pc[p] = "fetch"
    /\ held[p].version \notin content \cup Uncanonical
    /\ End(p, "unavailable")
    /\ UNCHANGED <<worldVars, resolution, content, cached, held, stale, begun, asked,
                   firm>>

\* loadCatalogModule.
Decode(p) ==
    /\ pc[p] = "decode"
    /\ End(p, IF held[p].version \in BadModules THEN "invalid" ELSE "ok")
    /\ UNCHANGED <<worldVars, resolution, content, cached, held, stale, begun, asked,
                   firm>>

\* The process is killed: nothing of it stays but the files.
Crash(p) ==
    /\ pc[p] # "idle"
    /\ End(p, "none")
    /\ Forget(p)
    /\ Settle(p, None)
    /\ stale' = [stale EXCEPT ![p] = FALSE]
    /\ begun' = [begun EXCEPT ![p] = 0]
    /\ asked' = [asked EXCEPT ![p] = FALSE]
    /\ firm' = [firm EXCEPT ![p] = FALSE]
    /\ UNCHANGED <<worldVars, resolution, content>>

-----------------------------------------------------------------------------

RegistryPublishes ==
    /\ \E v \in Ranks \ published : published' = published \cup {v}
    /\ UNCHANGED <<now, straight, resolution, content, loadVars, firm>>

Tick ==
    /\ now < MaxTime
    /\ now' = now + 1
    /\ UNCHANGED <<published, straight, resolution, content, loadVars, firm>>

\* The wall clock is set back: what was stamped before may lie in its future.
StepBack ==
    /\ ClockStepsBack
    /\ \E t \in Times : t < now /\ now' = t
    /\ straight' = FALSE
    /\ begun' = [p \in Loads |-> 0]
    /\ UNCHANGED <<published, resolution, content, pc, cached, held, stale, outcome,
                   asked, firm>>

Step(p) ==
    \/ Begin(p) \/ CheckTTL(p) \/ Resolve(p) \/ ResolveFails(p) \/ WriteTemp(p)
    \/ Rename(p) \/ BadCoordinate(p) \/ Fetch(p) \/ FetchFails(p) \/ Decode(p)
    \/ Crash(p)

Next == (\E p \in Loads : Step(p)) \/ RegistryPublishes \/ Tick \/ StepBack

Spec == Init /\ [][Next]_vars

-----------------------------------------------------------------------------

Ended(p, o) == pc[p] = "idle" /\ outcome[p] = o

\* The stations of a load that has a version.
Settled == {"write", "rename", "fetch", "decode"}

\* The state has its shape: what a load fetches, decodes or renames is a
\* version the registry listed, and the file on disk is absent or complete.
TypeOK ==
    /\ now \in Times
    /\ published \subseteq Ranks
    /\ content \subseteq published
    /\ resolution \in Resolutions \cup {None}
    /\ resolution # None => resolution.version \in published
    /\ pc \in [Loads -> Stations]
    /\ outcome \in [Loads -> Outcomes]
    /\ \A p \in Loads :
          /\ pc[p] \in Settled => held[p] \in Resolutions /\ held[p].version \in published
          /\ stale[p] => ~ asked[p]

\* It ended with a version: the catalog, or an error that blames the version.
Answered(p) == \E o \in {"ok", "misconfigured", "invalid"} : Ended(p, o)

\* A load that reports no staleness answers for a version that Go's @latest
\* named in an answer the registry gave the load itself or, unless it was forced,
\* in one that another load took up less than the TTL before this one began, if
\* the clock was not set back: the resolution file, the fallback and the registry
\* together. (The TTL counts from when the answer is back and stamped, so a version
\* may serve for longer, by as long as the answer was on its way.) A load answers
\* for a version also when it rejects it: a bad release fails loads for no longer
\* than that after a better one is out.
UnflaggedWithinTTL ==
    \A p \in Loads :
        straight /\ ~ stale[p] /\ Answered(p) =>
            /\ held[p].latest
            /\ \/ asked[p]
               \/ p \notin Forced /\ begun[p] - held[p].taken < TTL

\* A load that begins when the resolved version is on disk does not need the
\* network: unless it resolves a newer version itself, or another load replaces
\* the file under it, it never ends for want of the catalog.
OfflineFallback == \A p \in Loads : firm[p] => ~ Ended(p, "unavailable")

\* Once a resolution file is there, no step of any load leaves it absent or
\* torn, whichever loads write it at once and wherever one of them is killed.
ResolutionKept == [][resolution # None => resolution' # None]_vars

\* core.go:166, "Zero TTL forces re-resolution past any cached resolution": a
\* refresh that succeeds and is not stale has had the registry's answer.
ForcedReResolves ==
    \A p \in Forced : Ended(p, "ok") /\ ~ stale[p] => asked[p]
=============================================================================
