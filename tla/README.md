# A verification of agentdex in TLA+

agentdex is a Go library and command that answers which coding agents exist, which of
them are installed, and which models and providers they can use. It joins two catalogs it
does not own: the *agent catalog*, a CUE module in a registry, and *models.dev*, a JSON
document behind an HTTP endpoint. Both are slow and may be away, so both are cached in
files, memoised in memory, shared between goroutines, refreshed on request and served stale
when nothing better is to be had. That is where the program can go wrong in ways a unit test
hardly reaches, and that is what the modules here are about.

The modules are checked with TLC on small instances (`*.cfg`), and the theorems with TLAPS
for every value of the constants. `PROJECT.json` lists the runs, the mutants that show that
each property can be broken by a plausible bug, the source lines of every definition, the
hazards, the findings and the theorems.

## 1. Inventory

Paths are relative to `src/`.

### models.dev client: `modelsdev/client.go`, `cache.go`, `merge.go`

*State.* `Client.catalog` (the memo), `stale` and `inflight`, all under `c.mu`; one
`fetchCall` per attempt, with the channel `done`; the cache file, which other processes
share.
*Operations.* `Catalog` (through `load`), `Stale`, `Provider`, `Models`; the goroutine
`runFetch`/`fetchMerge` with the file reads, the request, the write and the fallback.
*Hard.* First calls race; a caller that leads a fetch gives up while others wait for it; its
deadline bounds the fetch but its cancellation must not; the catalog and its stale flag are
read in two critical sections; the cache file changes between any two system calls.
*Correct when* one fetch runs at a time and none after the memo is set, everybody gets the
same catalog, an answer not flagged stale is current, a failed attempt is not inherited by
later calls, a forced refresh never answers from the cache, the cache file is never torn, and
every call returns.

### Agent catalog loader: `internal/catalog/loader.go`, `cache.go`, `registry.go`, `decode.go`

*State.* The resolution file (version and `ResolvedAt`) and CUE's content cache, shared by
processes; one `Loader` lives for one load.
*Operations.* `Load`: `resolveVersion` (file, TTL, registry, fallback), `Fetch`,
`loadCatalogModule`.
*Hard.* Two loads, or a load and a refresh, interleave at every system call; a process is
killed between recording a resolution and fetching its module; the clock passes the TTL, or
is set back; the registry publishes, goes away and comes back.
*Correct when* what is not flagged stale was the latest version in an answer the registry gave
to this load, or to one that took it up within the TTL; a resolved version on disk loads
without the network; and no load tears the resolution file.

### Index and core: `core.go`, `index.go`, `options.go`

*State.* `core.cat` and `catInfo` under `catMu`, `core.md` under `mdMu`.
*Operations.* `CatalogInfo`, `ModelsStale`, `Refresh` of either or both targets, and the
lazy resolution every service goes through.
*Hard.* `catMu` is held across a whole load, `Refresh` loads outside the lock and installs
under it, and `ModelsStale` holds a client that a refresh swaps out. A clock that is set back
makes a forced load take an old resolution for a fresh one (section 6).
*Correct when* a refresh that reports success takes effect, what it reports is what it
installed, the lazy load installs once, a flag belongs to its data, and every operation
returns.

### Services: `agents.go`, `models.go`, `providers.go`, `enrich.go`, `types.go`

*State.* None of their own: each operation makes a sequence of calls of the two components
above and turns their answers into data, warnings, enrichment states and errors.
*Operations.* `Agents.Get`, `Agents.List`, `Models.List`, `Models.Get`, `Providers.List`,
`Providers.Get`.
*Hard.* The calls of one operation see an outage and then a recovery, because another
goroutine has filled the client in between; a fault comes after some rows are enriched;
absent, malformed and unreachable are three answers of which one set of ids may get all.
*Correct when* a listing is degraded as a whole or not at all and says why, "applied" means
complete, stale data is flagged, and an unknown provider id is rejected and no other is.

### Command line: `internal/cli`, `internal/config/config.go`

*State.* The flags and the configuration of one process; what it has printed.
*Operations.* `agents`, `models` and `providers` with `list` and `get`, `refresh`, `version`,
and the ways to get a command wrong.
*Hard.* A command may be refused by cobra before or after `--json` is bound, by its
configuration, by the library, or by its selection of fields after the library has answered;
an error is rendered once, by one of three functions; two functions read the selection, one
to ask for data and one to refuse; the exit code must tell apart faults the library degrades.
*Correct when* one document of the kind asked for is printed, the library's warnings arrive, a
selection is filled by the cheapest level or the command says why not, and the exit code
means what the table of `README.md` says.

### Local detection: `detect.go`, `options.go`, `internal/config/options.go`

*State.* The overrides and search directories `newCore` captured, from the configuration file
with the flags over it; the file system, which others change.
*Operations.* `detectAgent`: `locateBinary`, `resolvePathPair` and `resolveSkillPath` for each
role, `skillsPrimary`.
*Hard.* Every candidate is a stat of its own and the file found by `exec.LookPath` is looked
at twice, while installers add and remove files; a catalog path goes through a variable, a
tilde and the working directory, each of which may be unknown.
*Correct when* an override is obeyed and nothing else is ever reported in its place, a binary
that stays where it is is found, and a directory means the same wherever it is used.

### Lists and their order: `modelsdev/merge.go`, `modelsdev/sort.go`, `internal/cli/order.go`, `views.go`, the list commands

*State.* None; each step turns one collection into the next.
*Operations.* `merge` of the provider-agnostic facts, the rows of `Models.List`,
`Providers.List` and `Agents.List`, `applyOrder`, the choice of the columns.
*Hard.* Every step walks a Go map, whose order differs from call to call, and up to three
sorts follow; a missing value must be last in both directions; ids contain slashes.
*Correct when* the same data gives the same table every time, whole, in the order asked for,
and a row has the benchmarks of the canonical id it names.

### The rest

| component | sources | here |
|---|---|---|
| configuration | `internal/config` | partly: how loading may end is in `Cli`, the precedence of flags over the file in `Detection`; the parsing of the file, XDG paths and the choice of a TTL are single expressions and left out |
| rendering | `internal/cli/views.go`, `render.go`, `internal/tui` | partly: what a record holds is in `Listing`; text layout is not modelled, no property is about it |
| schema and data | `catalog/*.cue` | not modelled: constraints that CUE evaluates; a module is valid or not |
| test support, `main` | `internal/*test`, `cmd` | not modelled: no logic of its own |

### How they interact

    cli ──► Index ──► services ──► core.resolveCatalog ──► Loader ──► file, registry
              │                ├─► core.modelsClient ──► Client ──► file, HTTP
              │                └─► detectAgent ──► file system
              └── Refresh: a forced Loader, a new force-refresh Client, then installed

All calls are synchronous. Only `Client` starts a goroutine, and only the two caches are
shared with other processes. `cli` orders and prints what the services answer.

## 2. Modules

| module | models | state and actions |
|---|---|---|
| `CatalogCell` | what a client promises | one write-once value; callers ask, and are answered, refused or withdraw |
| `ModelsClient` | `modelsdev/client.go`, `cache.go` | implements `CatalogCell` |
| `ModelsClientProofs` | | its theorems |
| `CatalogLoader` | `internal/catalog` | loads as processes over two shared files and a registry |
| `CatalogLoaderProofs` | | its theorems |
| `Index` | `core.go`, `index.go` | callers over the catalogs, with what `CatalogLoader` and `CatalogCell` promise in the place of loads and clients |
| `IndexProofs` | | its theorems |
| `Services` | `agents.go`, `models.go`, `providers.go` | one operation at a time over a client that others fill |
| `ServicesProofs` | | its theorems |
| `Cli` | `internal/cli` | one command of one process, with an operation of `Services` in the place of its library call |
| `CliProofs` | | its theorems |
| `Detection` | `detect.go`, option merging | the detection of one agent, stat by stat, while files change |
| `DetectionProofs` | | its theorems |
| `Ordering` | `internal/cli/order.go`, `modelsdev/sort.go` | the comparators; no state |
| `Listing` | `modelsdev/merge.go`, the list commands, `views.go` | one list, from catalog data to printed table |
| `OrderingProofs` | | the theorems of both |
| `FoldProofs` | | induction over `FoldLeft`, and sequences without repetitions, for the four proof modules above |
| `MC*` | | the instances for TLC |

The components are composed by promise: `ModelsClient` is shown to implement `CatalogCell`,
and `Index` and `Services` use a client only as `CatalogCell` describes it (while there is
no catalog a call fails or brings one, and once there is one no call fails and the catalog
does not change). `Index` uses a load as `CatalogLoader` shows it to end. `Listing` extends
`Ordering` and takes from `Detection` only that an agent is found or not; `Services` takes any
outcome of a detection.

### ModelsClient

| model | code |
|---|---|
| `memo`, `stale`, `inflight` | the fields of `Client` under `c.mu` |
| `call[k]` | a `fetchCall` with the locals of the goroutine that runs it |
| `Begin`, `ContextEnds` | a call of `Catalog`, and the end of its context |
| `LoadMemo`, `LoadJoin`, `LoadLead` | the three ways through the first critical section of `load` |
| `WaitDone`, `WaitContext` | the two arms of its `select`, then `afterInflight` |
| `ReadStale` | `Stale`, a critical section of its own |
| `FetchStat`, `FetchRead` | `cache.read`: the age is taken from the first, the bytes from the second |
| `GetBody`, `GetFails`, `GetExpires` | `get`, and the tail of `fetchMerge` when it yields no usable body |
| `WriteTemp`, `Rename` | `cache.write` |
| `Publish` | the critical section at the end of `runFetch`, and `close(done)` |
| `DeadlinePasses` and the surroundings | time, the endpoint, other processes, removal of the file |

A critical section blocks on nothing and is one step. A catalog is the number of the
upstream version it was decoded from, so that "older" has a meaning; `Unusable` is any body
`decodeValidate` refuses. An address of `Calls` that nobody refers to is used again, as the
collector would do, so the number of attempts is not bounded. Two variables are history
only: `basis`, the oldest version an unflagged answer may be, and `late`, that the memo was
set when a call was made.

### CatalogLoader

A version is its rank in semver order; which ranks are pre-releases, not valid semver, valid
but without a canonical module path, or modules that do not validate is a parameter.

| model | code |
|---|---|
| `resolution`, `content` | the resolution file, and CUE's content cache |
| `cached`, `held` | `cached` in `resolveVersion`; the version it settles on, and its `ResolvedAt` until it returns |
| `Begin`, `CheckTTL` | `Load` up to `resolutionCache.read`; the clock read and compared |
| `Resolve`, `ResolveFails` | `ResolveLatestVersion` as the registry answers, or fails; the fallback |
| `WriteTemp`, `Rename` | the answer back, `l.now()` read for its stamp, and `resolutionCache.write` |
| `BadCoordinate` | `canonicalModulePath` refuses what `latestVersion` took: `semver.IsValid` accepts `v1.2` or a build suffix, `module.NewVersion` does not |
| `Fetch`, `FetchFails`, `Decode` | the rest of `Load` |

`Crash` may come between any two of them. The registry answers in one step and the answer is
stamped in another: a version may be published, and time pass, while it is on its way, so a
version serves for the TTL *from when the answer was taken up*, which is what
`UnflaggedWithinTTL` claims and no more. A load begins its life with no resolution file, the state
the first run finds. History: a resolution carries whether Go's `@latest`, by a definition of its own
and not by the code's loop, named its version when the registry did (`latest`), and when its
answer was taken up (`taken`); `asked` says that the registry answered this load, `begun` when
it began, `firm` that it found its version on disk, `straight` that the clock was never set
back. `MCCatalogLoaderPartial` adds `warm`, which only the finding about it needs.

### Index

`catMu` is a variable only because `resolveCatalog` holds it across a load; the other
critical sections are one step. A catalog is a version and a stale flag. The client a
refresh makes is private until its `Catalog` has returned, so it is that catalog; only the
client made lazily can be seen empty. `loaded` is what a refresh has in hand between its
load and its installation, which is where two of them can cross. What a forced load brings
unflagged is the registry's latest as long as the clock goes straight (`straight`, history);
once it was set back (`ClockStepsBack`) it may be any version up to that, as `loader_clock`
shows, and a refresh installs and reports it.

### Services

One operation runs to its end, one step for each call it makes of the client; `OtherFills` is
another goroutine's call that brings the shared client its catalog between two of them. A
loop of calls on a filled client reads a memo that never changes, and on an empty one only
its first call can fail or fill it, so a loop is one step. The models of a provider are the
provider's id. Filters and sort orders are in `Listing`, detected paths and the warning about
an unknown `BinPaths` id in `Detection`: they do not change what is said of an item.

### Cli

`Cli` instantiates `Services`: `Call` begins the operation the verb asks for, `LibraryStep` is
any step of it, and the four actions after it render its answer. A process has an Index and
a client of its own, so `OtherFills` does not occur, and neither does `ContextEnds`: cobra
gives a command the background context, which nothing cancels.

| model | code |
|---|---|
| `Commands`, `Bound`, `FlagError` | the arguments, and what pflag makes of those that matter for `--json` |
| `CobraFails`, `Execute` | cobra's own errors, rendered by `execute`; all others are an `exitError` |
| `BadColor`, `LoadConfig`, `ConfigFails`, `BadBinPath` | `preRun` and `index` |
| `ok`, `fail`, `failData`, `usage` | the functions of these names: stdout, warnings, fields, exit code |
| `LibraryFails`, `SoftPath`, `ReportAgent`, `Report` | what a verb does with the library's answer |
| `ChooseTarget` to `Refreshed` | `refresh`, whose two steps end as `Index` shows them to; `cmd.dir` is a catalog directory in the configuration, with which the agent catalog is not refreshed, without an error |

`want` is history: what the `--json` arguments ask for when all are read, against which
`JsonAsAsked` judges. `memo` and `run`, of the library, are what `ExitTellsFault` judges the
exit code by.

### Detection

| model | code |
|---|---|
| a path | the sequence of its segments: `"/"` first when absolute, `"~"` or `"$V"` first when written so in the catalog |
| `disk`, `FileChanges` | the file system, and whoever changes it during the call: a file is absent, not executable, executable for others only, or executable |
| `world` | configuration file, flags, `PATH`, catalog entry, home and working directory, one variable |
| `Refuse`, `Open` | `mapFlags`, `mergeBinPaths` and `mergeSlices`, as `newCore` captures their results |
| `Detect` | the start of `detectAgent`, with `unknownBinPathWarning` |
| `CheckOverride`, `LookPath`, `CheckHit`, `SearchDir` | `locateBinary`, one stat each |
| `ResolvePath`, `Report` | `resolvePathPair` and `resolveSkillPath`, one role of one scope each; then `skillsPrimary` |

`had` is history: what each path has been since the call began. `exec.LookPath` is external:
it wants a file this user may execute, while `isExecutable` asks for any execute bit, and it
answers with an error when the first hit is in a relative directory. Three consequences of
the code are stated in the properties as they are: such an error, or a hit that is gone when
it is looked at again, hides the rest of `PATH` but not the search directories; a path that
begins with an unset variable is absolute (`$V/c` is `/c`), and a local one that is only that
variable is the working directory; and the first of a scope's alternatives is its primary
even when it expands to nothing.

### Ordering and Listing

A string is its rank in byte order, 0 the empty one, and `Lower` is what `strings.ToLower`
does to ranks; a model id is the sequence of its parts between slashes, and `Rank` its place
among the composite ids. The key of a provider in the map stands for its `Provider.ID`. `MergeOne` is one round of the loop over the agnostic map, for any id
the map may yield next, and `DetectOne` one agent of `detectAll`. `ListModels`,
`ListProviders` and `ListAgents` are the rest of the library's work, `Present` is `applyOrder`,
grouping and columns. Fields of records that behave as another of the same type does are left
out. A provider id has no slash; it may be empty, and so may a model key. A stable sort is
given by what Go's promises: `StableOrder` is the permutation that puts what is less first and
leaves equals as they were (`StableSortExists` proves that there is one for every comparison
used here), `sort.Strings` over the keys of a map the same over any listing of them.

## 3. Runs

| run | what it shows | bounds, and why they are enough |
|---|---|---|
| `client_safety` | `SingleFlight`, `AnswersAgree`, `UnflaggedIsCurrent`, `NoForeignCancel`, `UsableCacheKept` | two callers, who already lead, join, give up and overtake each other; two calls, one abandoned while another runs; two versions, an older and a newer. The theorems have no bound. |
| `client_live` | `KeepsPromise` (every step is a step of `CatalogCell` or invisible) and `EveryCallReturns` with the default HTTP client and callers without deadlines | as above, one version: liveness does not look at it |
| `client_forced` | `ForcedIsCurrent`, and `EveryCallReturns` when only the leader's deadline bounds a request | one caller, whose later calls meet the attempt an abandoned one left behind |
| `loader` | `UnflaggedWithinTTL` while the clock goes straight, `OfflineFallback` and `ResolutionKept` whatever it reads | a load and a refresh; four versions published in any order: a stable one, a higher pre-release that does not validate, a stable one with no canonical path and a higher stable one, so that a good version replaces a good one and a bad one comes between; TTL 2 over three times: before, at and past expiry; a clock that may step back. Strings that are no semver are left to `LatestVersionIsLatest`. |
| `loader_partial_failure` | violation, see section 6 | `loader` with a history variable: whether an earlier load had succeeded |
| `loader_clock` | violation, see section 6 | a clock that steps back |
| `index` | `RefreshTakesEffect`, `RefreshReportsWhatItInstalled`, `LoadedOnce`, `FlagIsOfTheData`, `OperationsReturn` | a reader and a caller that refreshes and reads; two versions of each catalog; both sources; a clock that may be set back once, which `straight` remembers |
| `index_concurrent_refresh` | violation, see section 6 | two callers that refresh |
| `services` | `ListingIsUniform`, `DegradedIsExplained`, `StaleDataIsFlagged`, `AppliedIsComplete`, `RejectionsAreEarned`, `ListingNeverHidesUnknown` | three agents (one provider, two providers, agnostic) and a stranger; three provider ids, of which models.dev has two or one and one may be malformed; every level, scope and list of ids with a duplicate, an absent and a malformed one |
| `services_recovery` | violation, see section 6 | |
| `cli` | `JsonAsAsked`, `WarningsReachUser`, `SelectionHonoured`, `UnselectedIsNotFetched`, `RefreshIsWhole`, `ExitTellsFault` | every sequence of up to three arguments of those that matter for `--json`: one may undo, hide or break another; every set of the fields that need providers with an unknown one; an agent with two providers, an agnostic one and a stranger; models.dev with both, one or none of an agent's providers, or one malformed; `refresh` of either target or both, with and without a catalog directory |
| `listings` | `OverridesHonoured`, `StayedIsFound`, `PathsAreAnchored` of `Detection`; `EnrichedFromAgnostic`, `OrderedAsAsked` of `Listing`, side by side with the other idle | one change of a file during the call, at any point between two stats: a second hides nothing the first cannot; two directories of `PATH`, one maybe relative, and search directories from file and flags that repeat; overrides from the file, the flags, both, empty, repeated, of an unknown agent, malformed; home, working directory and variable known or not, the variable maybe a tilde. Three providers, four models (one provider's ids with a slash), an empty model key, four agnostic ids of which one ends in its slash and one has none, which the merge skips, three agents; every field as sort key, none, and an unknown one, in both directions |

Versions, times and ranks stop at `MaxVersion`, `MaxTime` and `MaxRank`; the guards of the
actions that publish or tick say so; `MaxTokens` bounds the arguments of `cli` and `MaxChanges`
the changes of files in `listings`. These two runs are the only ones without deadlock
checking: their commands end.
Symmetry is used for safety only.

### Fairness

*ModelsClient.* Goroutines are scheduled (weak fairness of each caller's steps and of each
fetch's local steps), time passes (`DeadlinePasses`, `GetExpires`), and a request ends by
itself only if the HTTP client has a timeout (`Get` is fair only with `HttpTimeout`; the
default client of `core.go` has one). Nothing makes the endpoint answer well, a caller call
again, or a context end.

*Index.* A load or a fetch ends, in success or failure: the transport or its context sees to
it. (The CUE registry client is given no timeout of its own, so for the lazy load this is an
assumption about the transport.) A caller that waits for `catMu` gets strong fairness,
because Go's mutex hands itself over to a waiter that has starved for a millisecond.

## 4. Theorems

`ModelsClientProofs` proves, for any sets of callers and calls and any number of versions,
under `ConstantsAssumption` only:

| theorem | property |
|---|---|
| `TypeCorrect` | `TypeOK` |
| `OneFetchAtATime` | `SingleFlight` |
| `CallersAgree` | `AnswersAgree` |
| `UnflaggedAnswersAreCurrent` | `UnflaggedIsCurrent` |
| `ForcedAnswersAreCurrent` | `ForcedIsCurrent` |
| `CancellationIsPrivate` | `NoForeignCancel` |
| `CacheIsSafe` | `UsableCacheKept` |
| `ClientKeepsPromise` | `KeepsPromise`, the refinement of `CatalogCell` |

None of the invariants is inductive alone. `IInv` (theorem `Invariance`) adds to them what
ties the records of `call` to the client's fields: a record that runs is the one in flight,
and while one is in flight nothing is memoised; once a record has ended without an error the memo
is set; a caller waits only for a record that runs or has ended; what an attempt has in hand is at least as new as its `floor`,
unless it is within its TTL or flagged; and a caller between its two critical sections holds
what the memo holds. The proof has one lemma per action or group of actions that touch the
same variables. The refinement uses `IInv` to see that an attempt that ends without a
catalog refuses exactly the callers that wait for it, and that a call made when the memo was
set never waits.

`CatalogLoaderProofs` proves, for any number of loads, any versions (pre-releases, malformed
and invalid ones anywhere among them), any TTL and a clock that may step back, under
`ConstantsAssumption` only:

| theorem | property |
|---|---|
| `LatestVersionIsLatest` | `LatestVersion` names what Go's `@latest` does, whatever is listed |
| `TypeCorrect` | `TypeOK` |
| `ResolutionStays` | `ResolutionKept` |
| `LoadsOffline` | `OfflineFallback` |
| `UnflaggedIsWithinTTL` | `UnflaggedWithinTTL`, of which `straight` is the hypothesis |

The inductive invariant comes in three layers, each proved from those before it. `TypeInv`:
types, and what the station of a load says of its locals. `AllFirm`: a load that found its
version on disk still finds file and cache as they were and goes on with that version, until
somebody replaces the file. `HistoryInv`: every resolution, in the file or in a load's hands, names what was
the latest when the registry answered, and its stamp is when that answer was taken up; while the
clock goes straight no stamp lies in the future, and a load goes on unflagged only with an answer
of its own or with one whose age, at the TTL check and so when the load began, was below the
TTL. That the highest of the published versions exists at all is taken from the
well-foundedness of the naturals.

`IndexProofs` proves, for any number of callers and refreshers, under `ConstantsAssumption`
only:

| theorem | property |
|---|---|
| `TypeCorrect` | `TypeOK` |
| `LazyLoadsOnce` | `LoadedOnce` |
| `ReportIsTrue` | `RefreshReportsWhatItInstalled` |
| `FlagBelongsToData` | `FlagIsOfTheData` |
| `RefreshHolds` | `RefreshTakesEffect`, if one goroutine refreshes |

`IInv` (theorem `Invariance`) adds to types and lock that a caller loads only while no catalog
is installed, that an installed catalog is never taken away, and that between the two locks of
`ModelsStale` a caller holds what its own client's memo holds, which nobody writes twice. For
`RefreshHolds`, `EffectInv` adds that what a refresh has loaded, and what stays installed after
it, is no older than its `floor`; the hypothesis `OneRefresher` is used where another refresh
could install in between, and the third finding of section 6 shows it is needed. The age of the
agent catalog is claimed while the clock was not set back, which the second finding shows is
needed; that no fallback is served, and the age of models.dev, are claimed whatever it does.

`OrderingProofs` proves, first, for every record, field and direction, what `sort.SliceStable`
needs of the comparison `orderRecords` gives it and what the comments of `order.go` promise. It
assumes of `Lower` only its type, and of a record that a field's value is a value or nil.

| theorem | what it establishes |
|---|---|
| `BeforeIsTotal` | the comparison never holds both ways, and two records are left unordered exactly when they agree on the field and the id |
| `BeforeIsTransitive` | it is transitive, mixed types included |
| `MissingIsLast` | a record without a value comes after every record with one, in both directions |
| `OneReleaseOrder` | the command's default order of the models is the library's, for dates that `Lower` leaves alone |
| `StableSortExists` | a permutation as a stable sort promises exists for every comparison of that kind and any number of rows |
| `OrderRecordsIs` | `orderRecords` leaves any records, each once, stably sorted |

The argument splits the comparison (`BeforeByKeys`) into that of the sort keys, `KeyBefore`,
which is shown total and transitive on them by the kinds of the keys, and that of the ids,
which decides between equal keys. The permutation of `StableSortExists` takes each row to the
number of the rows before it.

Then it proves of `Listing`, for any catalogs, any agnostic ids, any flags and any order in
which the maps are walked:

| theorem | property |
|---|---|
| `ListingTypes` | `ListTypeOK`, the other part of `AllTypesOK` |
| `RowsAreEnriched` | `EnrichedFromAgnostic` |
| `ListsAreOrderedAsAsked` | `OrderedAsAsked` |

The hypothesis of the three is `ConstantsAreCalls`: what the data of a call are made of (finite
maps, strings, numbers), that a release date has no capitals, and that `Rank` tells ids apart.
TLC evaluates it on the run's calls (`ListingsAssumption`). The invariant is `ListingInv`. Its
`OfferSoFar` says what the merge has done when any part of the ids is still to be reached:
the offer is the call's, with the benchmarks of exactly the ids already met
(`IsMerged`). Without it nothing is known of the rows that `ListModels` makes after the last
round. `RowsSoFar` carries the types of the rows, and that the models are in the library's order
until they are printed, which is why sorting them again by default moves none (`DefaultStays`).
`PrintedOrNot` keeps the table tied to the rows it was made of. For the step of `ListModels` the
chain of walk, filter and sort is followed as one bijection, from the positions of the answer to
the pairs of a provider and a key that were asked for (`PairsOnce`, `WantedAre`, `ListedAre`).

`FoldProofs` holds what the last and the next three share. `FoldLeft` is recursive over sets of positions,
and the library's induction theorems take an operator, which no installed prover can
instantiate. So an induction is made by hand, from the least number at which a claim fails
(`UpTo`): that a fold exists (`FoldExists`), that what passes from each set of positions to
the next holds of all (`FoldInduction`), that a fold that drops repetitions has the
values of its sequence, each once (`DedupeHas`).

`ServicesProofs` proves, for any agents with any finite home sets, any providers, any contents
of models.dev, any query and any interleaving with `OtherFills`, under `ConstantsAssumption`:

| theorem | property |
|---|---|
| `TypeCorrect` | `TypeOK` |
| `StaleDataIsAlwaysFlagged` | `StaleDataIsFlagged` |
| `AppliedIsAlwaysComplete` | `AppliedIsComplete` |
| `ListingIsAlwaysUniform` | `ListingIsUniform` |
| `DegradedIsAlwaysExplained` | `DegradedIsExplained` |
| `UnknownIsNeverHidden` | `ListingNeverHidesUnknown` |
| `RejectionsAreAlwaysEarned` | `RejectionsAreEarned` |
| `DedupeKeepsIds` | `dedupeIDs` keeps the ids it is given, each once, and no other |

The invariant comes in layers, each inductive relative to those it is proved from. `Types`, and `Stations`,
what the place of an operation says of its query and fault. `Provenance`: an operation that has
data has asked models.dev. `Timely`: one that began on a full client meets no outage, since the
client is never emptied. `Complete`: what is applied is what the memo, which does not
change once it is there, has of the ids. `Told`: while the rows of a listing are filled one by
one, they are applied, not applicable or still fresh, and the first fault degrades them all; without the
middle part, `RowsSoFar`, the other two are not inductive. `Seen`: past its probe a listing
has a fault or knows its ids, which is why an outage that ends in between hides nothing there
and does in `Models.List` (`services_recovery`). `Earned` and `Answers`: an error names what the memo
really lacks. One lemma per action says what it does to each field of the run, and the layers use nothing else
of the actions.

`CliProofs` proves, for command lines of any length, any selection of fields, any configuration
and whatever the library may answer, under `LibraryAssumption`, the assumption of
`Services` on the constants `Cli` passes on:

| theorem | property |
|---|---|
| `TypeCorrect` | `TypeOK` |
| `WarningsAlwaysReachUser` | `WarningsReachUser` |
| `JsonIsAlwaysAsAsked` | `JsonAsAsked` |
| `RefreshIsAlwaysWhole` | `RefreshIsWhole` |
| `UnselectedIsNeverFetched` | `UnselectedIsNotFetched` |
| `SelectionIsAlwaysHonoured` | `SelectionHonoured` |
| `ExitAlwaysTellsFault` | `ExitTellsFault` |

`Shape` and `Passed` say what has been shown at each place of a command, and that nothing the
library warned of is lost on the way. `Refreshing` says place by place which targets are done.
`Asking` relates what the arguments ask for to what is printed. Three operators say what `--json`
asks for: `jsonOut`, over what pflag bound; `argsWantJSON`, over everything up to `--`; and the
history `Wanted`, in closed form. `WantedIsRead` shows by induction over both folds that where
`Wanted` names one kind, each reading that is used gives that kind. `Loan` relates flags, library and exit code.
The library's invariant is not proved again: an instance of `ServicesProofs` lends its
layers to the run of the command, whose steps are steps of `Services` with `Ops` restricted to
the operations the verbs use.

`DetectionProofs` proves, for any world, any number of changes of the file system and
changes between any two stats, under `ConstantsAssumption`:

| theorem | property |
|---|---|
| `TypeCorrect` | `TypeOK`, a part of `AllTypesOK` |
| `SearchDirsAreMerged` | `mergeSlices` gives the directories of file and flags, each once |
| `OverridesAlwaysHonoured` | `OverridesHonoured` |
| `StayedIsAlwaysFound` | `StayedIsFound` |
| `PathsAreAlwaysAnchored` | `PathsAreAnchored` |

`ConstantsAssumption` says what a world is made of, and how paths are written down:
what is left to expand is the first segment, and a variable holds no variable. It says nothing of which
files exist, whether the working directory is known or absolute, or the order of a scope's roles.
The argument is that facts about histories only grow (`FilesStep`): "it was executable at some
moment" and "at some moment it was not" outlive every later change, whereas what a stat saw
need not hold at the next step. `Overriding` carries the merged options to the end. `Searching`
says how far the walk has got: every place passed over was not executable at some moment, or
lies behind the one at which `LookPath` stopped. `Resolving` says that every entry so far
is expanded and rooted, and was seen as it is reported.

Only model-checked:

- liveness (`EveryCallReturns`, `OperationsReturn`): fairness and `ENABLED` are out of the
  prover's reach;
- that `Detection` and `Listing` hold their types side by side, as `AllTypesOK` has it: each is
  proved of its own component, and what puts the two in one run only saves a run;
- the properties expected to fail, which TLC refutes (section 6).

## 5. Plan

In the order of what matters most; all are done.

1. `CatalogCell`, `ModelsClient` and the refinement, checked and proved.
2. `CatalogLoader`, checked and proved.
3. `Index`, checked and proved.
4. `Services`, checked and proved.
5. `Cli` over `Services`, checked and proved.
6. `Detection`, checked and proved.
7. `Ordering` and `Listing` over it, checked and proved.

## 6. Findings

Each is a run TLC ends with a counterexample; the quotations are in `PROJECT.json`.

- **A resolution is recorded before its module is fetched** (`loader_partial_failure`,
  `internal/catalog/loader.go:131`). If the fetch then fails, every load within the TTL names
  a version that is not on disk and fails offline, although an older version is complete,
  against the comment that after a first successful run the catalog loads offline within the
  TTL.
- **A zero TTL does not force re-resolution past a stamp in the future** (`loader_clock`,
  `internal/catalog/cache.go:32`). After the wall clock was set back, a refresh succeeds
  unflagged without asking the registry. `core.go:255-268` then installs what it got, maybe a
  version older than the one installed, and reports the catalog as refreshed.
- **The slower of two refreshes wins** (`index_concurrent_refresh`, `core.go:263`). Each
  loads without the lock and installs unconditionally, so the Index goes back to an older
  version after a refresh that got the newer one has returned.
- **An outage that ends between validation and listing hides an unknown id**
  (`services_recovery`, `models.go:129`). Validation leaves the outage for the listing fetch
  to report, and the listing fetch, which succeeds, skips the id.

## 7. Running

    tlc -workers 2 -config MCModelsClient.cfg MCModelsClient
    tlc -workers 2 -config MCIndex.cfg MCIndex
    tlc -workers 2 -config MCListings.cfg MCListings
    tlapm ModelsClientProofs.tla
    tlapm OrderingProofs.tla

and likewise for the other `MC*.cfg` and `*Proofs.tla`; a run takes about three minutes at
most (`loader`), a proof between a few seconds and about five minutes (`ServicesProofs`,
`CliProofs` and `OrderingProofs`).
