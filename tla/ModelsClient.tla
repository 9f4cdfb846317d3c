---------------------------- MODULE ModelsClient ----------------------------
(***************************************************************************)
(* One models.dev Client (modelsdev/client.go, cache.go): any number of    *)
(* concurrent callers of Catalog, the single-flight fetch goroutine they   *)
(* share, the cache file and the HTTP endpoint.                            *)
(*                                                                         *)
(* A merged catalog is abstracted to the number of the upstream version it *)
(* was decoded from, so that "older" has a meaning. A critical section of  *)
(* c.mu blocks on nothing and is one atomic step. The fetch goroutine has  *)
(* one step per system call, so that the cache file and the endpoint may   *)
(* change between any two of them.                                         *)
(*                                                                         *)
(* `call` is the heap of fetchCall records with the locals of the          *)
(* goroutine that runs each. A record nobody refers to is reused, as the   *)
(* collector would, which keeps the state finite without bounding how many *)
(* fetches a client makes.                                                 *)
(***************************************************************************)
EXTENDS Naturals

CONSTANTS
    Callers,          \* goroutines that call Client.Catalog
    Calls,            \* addresses of fetchCall records
    MaxVersion,       \* bound: versions the endpoint publishes
    ForceRefresh,     \* WithForceRefresh was given
    HttpTimeout,      \* the HTTP client has a timeout (the default one has)
    DeadlineChoices,  \* whether a caller's context may carry a deadline
    None,             \* nil: no catalog, no call, no file
    Unusable          \* a body decodeValidate refuses

Versions == 1 .. MaxVersion
Bodies == Versions \cup {Unusable}

ASSUME ConstantsAssumption ==
    /\ MaxVersion \in Nat \ {0}
    /\ ForceRefresh \in BOOLEAN
    /\ HttpTimeout \in BOOLEAN
    /\ DeadlineChoices \in SUBSET BOOLEAN
    /\ None \notin Nat \cup Calls \cup Callers
    /\ Unusable \notin Nat \cup {None}

VARIABLES
    memo,      \* Client.catalog
    stale,     \* Client.stale
    inflight,  \* Client.inflight
    call,      \* the fetchCall records, with the locals of their goroutines
    pc,        \* where each caller is in Catalog / Stale
    waits,     \* the fetchCall a caller selects on
    ctx,       \* each caller's context
    result,    \* what each caller's last Catalog returned
    file,      \* the cache file, or None
    upstream,  \* the version the endpoint serves
    basis,     \* history: the oldest version that memo may hold unflagged:
               \* what upstream served when the attempt that filled memo
               \* began, or any if that found a file within its TTL
    late       \* history: memo was set when the call was made

clientVars == <<memo, stale, inflight>>
callerVars == <<pc, waits, ctx, result, late>>
vars == <<clientVars, call, callerVars, file, upstream, basis>>

-----------------------------------------------------------------------------
(* A fetchCall: `at` is where its goroutine is ("free" for a record nobody *)
(* has allocated, "done" once done is closed); cached, within are          *)
(* fetchMerge's locals of those names; cat is also what get returned while *)
(* that is being written; deadline is the copy of the leader's deadline    *)
(* that runFetch makes; floor is history: the version upstream served when *)
(* the attempt began.                                                      *)

Stations == {"free", "stat", "read", "get", "temp", "rename", "publish", "done"}
Faults == {"", "fetch", "canceled", "deadline"}

CallRecords ==
    [at : Stations, cached : Bodies \cup {None}, within : BOOLEAN,
     cat : Versions \cup {None}, err : Faults, fallback : BOOLEAN, deadline : {"none", "armed", "passed"}, floor : Versions]

Files == [body : Bodies, within : BOOLEAN]
Contexts == [deadline : BOOLEAN, over : {"", "canceled", "deadline"}]
Results == [cat : Versions \cup {None}, err : Faults, flag : BOOLEAN]

\* Mutant of NewCall: WithoutCancel loses the leader's deadline.
NewCallUnbounded(hasDeadline, version) ==
    [at |-> "stat", cached |-> None, within |-> FALSE, cat |-> None, err |-> "",
     fallback |-> FALSE, deadline |-> "none", floor |-> version]

NewCall(hasDeadline, version) ==
    [at |-> "stat", cached |-> None, within |-> FALSE,
     cat |-> None, err |-> "", fallback |-> FALSE,
     deadline |-> IF hasDeadline THEN "armed" ELSE "none", floor |-> version]

\* decodeValidate accepts the body: it decodes, and neither map is empty.
Usable(b) == b \in Versions

\* History: the oldest version an attempt may answer with unflagged.
Basis(c) == IF c.within /\ ~ForceRefresh THEN 1 ELSE c.floor

Running(k) == call[k].at \notin {"free", "done"}
WaitsFor(p, k) == pc[p] = "wait" /\ waits[p] = k

Init ==
    /\ memo = None
    /\ stale = FALSE
    /\ inflight = None
    /\ call = [k \in Calls |-> [NewCall(FALSE, 1) EXCEPT !.at = "free"]]
    /\ pc = [p \in Callers |-> "idle"]
    /\ waits = [p \in Callers |-> None]
    /\ ctx = [p \in Callers |-> [deadline |-> FALSE, over |-> ""]]
    /\ result = [p \in Callers |-> [cat |-> None, err |-> "", flag |-> FALSE]]
    /\ late = [p \in Callers |-> FALSE]
    \* Whatever an earlier process, complete or killed, left behind.
    /\ \/ file = None
       \/ \E b \in {1, Unusable}, w \in BOOLEAN :
             file = [body |-> b, within |-> w]
    /\ upstream = 1
    /\ basis = 1

-----------------------------------------------------------------------------
(* The callers: Index.ModelsStale and the agent operations call Catalog    *)
(* and then read Stale, under two separate critical sections.              *)

Begin(p) ==
    /\ pc[p] = "idle"
    /\ pc' = [pc EXCEPT ![p] = "load"]
    /\ \E d \in DeadlineChoices :
          ctx' = [ctx EXCEPT ![p] = [deadline |-> d, over |-> ""]]
    /\ result' = [result EXCEPT ![p] = [cat |-> None, err |-> "", flag |-> FALSE]]
    /\ late' = [late EXCEPT ![p] = (memo # None)]
    /\ UNCHANGED <<clientVars, call, waits, file, upstream, basis>>

\* The caller's context is cancelled, or its deadline passes.
ContextEnds(p, why) ==
    /\ pc[p] \in {"load", "wait"}
    /\ ctx[p].over = ""
    /\ why = "deadline" => ctx[p].deadline
    /\ ctx' = [ctx EXCEPT ![p].over = why]
    /\ UNCHANGED <<clientVars, call, pc, waits, result, late, file, upstream, basis>>

Succeed(p, c) ==
    /\ pc' = [pc EXCEPT ![p] = "stale"]
    /\ waits' = [waits EXCEPT ![p] = None]
    /\ result' = [result EXCEPT ![p].cat = c]

Abandon(p, e) ==
    /\ pc' = [pc EXCEPT ![p] = "idle"]
    /\ waits' = [waits EXCEPT ![p] = None]
    /\ result' = [result EXCEPT ![p].err = e]

Unreferenced(k) == ~Running(k) /\ \A p \in Callers : ~WaitsFor(p, k)

LoadMemo(p) ==
    /\ pc[p] = "load"
    /\ memo # None
    /\ Succeed(p, memo)
    /\ UNCHANGED <<clientVars, call, ctx, late, file, upstream, basis>>

LoadJoin(p) ==
    /\ pc[p] = "load"
    /\ memo = None
    /\ inflight # None
    /\ pc' = [pc EXCEPT ![p] = "wait"]
    /\ waits' = [waits EXCEPT ![p] = inflight]
    /\ UNCHANGED <<clientVars, call, ctx, result, late, file, upstream, basis>>

\* Mutant of LoadLead: the leader does not look for a call in flight.
LoadLeadAlways(p) ==
    /\ pc[p] = "load"
    /\ memo = None
    /\ pc' = [pc EXCEPT ![p] = "wait"]
    /\ \E k \in Calls :
          /\ Unreferenced(k)
          /\ inflight' = k
          /\ waits' = [waits EXCEPT ![p] = k]
          /\ call' = [call EXCEPT ![k] = NewCall(ctx[p].deadline, upstream)]
    /\ UNCHANGED <<memo, stale, ctx, result, late, file, upstream, basis>>

\* Mutant of LoadLead: a catalog already in memory is fetched again.
LoadLeadRefetch(p) ==
    /\ pc[p] = "load"
    /\ inflight = None
    /\ pc' = [pc EXCEPT ![p] = "wait"]
    /\ \E k \in Calls :
          /\ Unreferenced(k)
          /\ inflight' = k
          /\ waits' = [waits EXCEPT ![p] = k]
          /\ call' = [call EXCEPT ![k] = NewCall(ctx[p].deadline, upstream)]
    /\ UNCHANGED <<memo, stale, ctx, result, late, file, upstream, basis>>

LoadLead(p) ==
    /\ pc[p] = "load"
    /\ memo = None
    /\ inflight = None
    /\ pc' = [pc EXCEPT ![p] = "wait"]
    /\ \E k \in Calls :
          /\ Unreferenced(k)
          /\ inflight' = k
          /\ waits' = [waits EXCEPT ![p] = k]
          \* runFetch takes over the leader's deadline, not its cancellation.
          /\ call' = [call EXCEPT ![k] = NewCall(ctx[p].deadline, upstream)]
    /\ UNCHANGED <<memo, stale, ctx, result, late, file, upstream, basis>>

\* select takes <-call.done, then afterInflight.
WaitDone(p) ==
    /\ pc[p] = "wait"
    /\ call[waits[p]].at = "done"
    /\ IF memo # None THEN Succeed(p, memo)
       ELSE IF call[waits[p]].err = "" THEN Succeed(p, call[waits[p]].cat)
       ELSE Abandon(p, call[waits[p]].err)
    /\ UNCHANGED <<clientVars, call, ctx, late, file, upstream, basis>>

\* select takes <-ctx.Done, which it may also when both are ready.
WaitContext(p) ==
    /\ pc[p] = "wait"
    /\ ctx[p].over # ""
    /\ Abandon(p, ctx[p].over)
    /\ UNCHANGED <<clientVars, call, ctx, late, file, upstream, basis>>

ReadStale(p) ==
    /\ pc[p] = "stale"
    /\ pc' = [pc EXCEPT ![p] = "idle"]
    /\ result' = [result EXCEPT ![p].flag = stale]
    /\ ctx' = [ctx EXCEPT ![p].over = ""]
    /\ UNCHANGED <<clientVars, call, waits, late, file, upstream, basis>>

-----------------------------------------------------------------------------
(* The fetch goroutine of call k: runFetch and fetchMerge.                 *)

FetchVars == <<inflight, memo, stale, callerVars, upstream, basis>>

Becomes(k, c) == call' = [call EXCEPT ![k] = c]

\* cache.read is os.Stat ...
FetchStat(k) ==
    /\ call[k].at = "stat"
    /\ Becomes(k, IF file = None THEN [call[k] EXCEPT !.at = "get"]
                  ELSE [call[k] EXCEPT !.at = "read", !.within = file.within])
    /\ UNCHANGED <<FetchVars, file>>

\* A file within its TTL is the answer, or if it does not decode is forgotten.
Examined(c, found, w) ==
    IF ~ForceRefresh /\ w /\ Usable(found)
    THEN [c EXCEPT !.at = "publish", !.within = w, !.cat = found]
    ELSE [c EXCEPT !.at = "get", !.within = w,
                   !.cached = IF ~ForceRefresh /\ w THEN None ELSE found]

\* ... then os.ReadFile, of whatever file is there by then. The age is that
\* of the first, taken at the check: the TTL may lapse in between.
FetchRead(k) ==
    /\ call[k].at = "read"
    /\ \E w \in {FALSE, call[k].within} :
          Becomes(k, Examined(call[k], IF file = None THEN None ELSE file.body, w))
    /\ UNCHANGED <<FetchVars, file>>

\* Mutant of FellBack: the cached copy is served without decoding it.
FellBackUnchecked(c, fault) ==
    IF ~ForceRefresh /\ c.cached # None
    THEN [c EXCEPT !.at = "publish", !.cat = c.cached, !.fallback = TRUE]
    ELSE [c EXCEPT !.at = "publish", !.err = fault]

\* Mutant of FellBack: a forced refresh may serve the cached copy too.
FellBackForced(c, fault) ==
    IF Usable(c.cached)
    THEN [c EXCEPT !.at = "publish", !.cat = c.cached, !.fallback = TRUE]
    ELSE [c EXCEPT !.at = "publish", !.err = fault]

\* The tail of fetchMerge: this attempt got no body it can use.
FellBack(c, fault) ==
    IF ~ForceRefresh /\ Usable(c.cached)
    THEN [c EXCEPT !.at = "publish", !.cat = c.cached, !.fallback = TRUE]
    ELSE [c EXCEPT !.at = "publish", !.err = fault]

GetBody(k) ==
    /\ call[k].at = "get"
    /\ \E b \in {upstream, Unusable} :
          Becomes(k, IF Usable(b) THEN [call[k] EXCEPT !.at = "temp", !.cat = b]
                     ELSE FellBack(call[k], "fetch"))
    /\ UNCHANGED <<FetchVars, file>>

\* No connection, a status other than 200, a broken body, the HTTP timeout.
GetFails(k) ==
    /\ call[k].at = "get"
    /\ Becomes(k, FellBack(call[k], "fetch"))
    /\ UNCHANGED <<FetchVars, file>>

\* Mutant of GetExpires: the fetch runs under the context of its callers.
GetExpiresWithCaller(k) ==
    /\ call[k].at = "get"
    /\ \E p \in Callers : WaitsFor(p, k) /\ ctx[p].over = "canceled"
    /\ Becomes(k, FellBack(call[k], "canceled"))
    /\ UNCHANGED <<FetchVars, file>>

GetExpires(k) ==
    /\ call[k].at = "get"
    /\ call[k].deadline = "passed"
    /\ Becomes(k, FellBack(call[k], "deadline"))
    /\ UNCHANGED <<FetchVars, file>>

Get(k) == GetBody(k) \/ GetFails(k) \/ GetExpires(k)

DeadlinePasses(k) ==
    /\ Running(k)
    /\ call[k].deadline = "armed"
    /\ Becomes(k, [call[k] EXCEPT !.deadline = "passed"])
    /\ UNCHANGED <<FetchVars, file>>

\* Mutant of WriteTemp: the body is written to the cache file in place.
WriteTempInPlace(k) ==
    /\ call[k].at = "temp"
    /\ Becomes(k, [call[k] EXCEPT !.at = "rename"])
    /\ file' = [body |-> Unusable, within |-> TRUE]
    /\ UNCHANGED FetchVars

\* cache.write: the body goes to a private temporary file, which then takes
\* the name of the cache file. Either step may fail, and the error is dropped.
WriteTemp(k) ==
    /\ call[k].at = "temp"
    /\ \E next \in {"rename", "publish"} : Becomes(k, [call[k] EXCEPT !.at = next])
    /\ UNCHANGED <<FetchVars, file>>

Rename(k) ==
    /\ call[k].at = "rename"
    /\ Becomes(k, [call[k] EXCEPT !.at = "publish"])
    /\ \/ \E w \in BOOLEAN : file' = [body |-> call[k].cat, within |-> w]
       \/ UNCHANGED file
    /\ UNCHANGED FetchVars

\* Only the record outlives the goroutine: its locals go.
Closed(c) == [NewCall(FALSE, 1) EXCEPT !.at = "done", !.cat = c.cat, !.err = c.err]

\* Mutant of Publish: the stale flag is left as it was.
PublishUnflagged(k) ==
    /\ call[k].at = "publish"
    /\ Becomes(k, Closed(call[k]))
    /\ inflight' = None
    /\ IF call[k].err = ""
       THEN /\ memo' = call[k].cat
            /\ basis' = Basis(call[k])
       ELSE UNCHANGED <<memo, basis>>
    /\ UNCHANGED <<stale, callerVars, file, upstream>>

\* Mutant of Publish: a failed attempt stays in flight for later callers.
PublishSticky(k) ==
    /\ call[k].at = "publish"
    /\ Becomes(k, Closed(call[k]))
    /\ IF call[k].err = ""
       THEN memo' = call[k].cat /\ stale' = call[k].fallback /\ inflight' = None
       ELSE UNCHANGED clientVars
    /\ UNCHANGED <<callerVars, file, upstream, basis>>

\* Mutant of Publish: done is closed on success only.
PublishSilent(k) ==
    /\ call[k].at = "publish"
    /\ Becomes(k, [Closed(call[k]) EXCEPT !.at = IF call[k].err = "" THEN "done" ELSE "free"])
    /\ inflight' = None
    /\ IF call[k].err = ""
       THEN memo' = call[k].cat /\ stale' = call[k].fallback
       ELSE UNCHANGED <<memo, stale>>
    /\ UNCHANGED <<callerVars, file, upstream, basis>>

Publish(k) ==
    /\ call[k].at = "publish"
    /\ Becomes(k, Closed(call[k]))
    /\ inflight' = None
    /\ IF call[k].err = ""
       THEN /\ memo' = call[k].cat
            /\ stale' = call[k].fallback
            /\ basis' = Basis(call[k])
       ELSE UNCHANGED <<memo, stale, basis>>
    /\ UNCHANGED <<callerVars, file, upstream>>

-----------------------------------------------------------------------------
(* The surroundings: the endpoint, the clock, and other clients (of this   *)
(* process or of others) that share the cache directory.                   *)

UpstreamPublishes ==
    /\ upstream < MaxVersion
    /\ upstream' = upstream + 1
    /\ UNCHANGED <<clientVars, call, callerVars, file, basis>>

TTLPasses ==
    /\ file # None
    /\ file.within
    /\ file' = [file EXCEPT !.within = FALSE]
    /\ UNCHANGED <<clientVars, call, callerVars, upstream, basis>>

\* Another client renames the body it fetched into place, at any time since.
OtherClientWrites ==
    /\ \E v \in 1 .. upstream, w \in BOOLEAN : file' = [body |-> v, within |-> w]
    /\ UNCHANGED <<clientVars, call, callerVars, upstream, basis>>

CacheRemoved ==
    /\ file # None
    /\ file' = None
    /\ UNCHANGED <<clientVars, call, callerVars, upstream, basis>>

CallerStep(p) == LoadMemo(p) \/ LoadJoin(p) \/ LoadLead(p) \/ WaitDone(p)
                   \/ WaitContext(p) \/ ReadStale(p)
FetchLocal(k) == FetchStat(k) \/ FetchRead(k) \/ WriteTemp(k) \/ Rename(k) \/ Publish(k)
FetchStep(k) == FetchLocal(k) \/ Get(k) \/ DeadlinePasses(k)
Surroundings == UpstreamPublishes \/ TTLPasses \/ OtherClientWrites \/ CacheRemoved

Next ==
    \/ \E p \in Callers : Begin(p) \/ CallerStep(p)
    \/ \E p \in Callers, why \in {"canceled", "deadline"} : ContextEnds(p, why)
    \/ \E k \in Calls : FetchStep(k)
    \/ Surroundings

Spec == Init /\ [][Next]_vars

\* Goroutines are scheduled; time passes; only an HTTP timeout bounds a get
\* that no deadline bounds.
Fairness ==
    /\ \A p \in Callers : WF_vars(CallerStep(p))
    /\ \A k \in Calls : /\ WF_vars(FetchLocal(k))
                        /\ WF_vars(DeadlinePasses(k))
                        /\ WF_vars(GetExpires(k))
                        /\ HttpTimeout => WF_vars(Get(k))

FairSpec == Spec /\ Fairness

-----------------------------------------------------------------------------
(* Properties.                                                             *)

\* Every variable keeps its type.
TypeOK ==
    /\ memo \in Versions \cup {None}
    /\ stale \in BOOLEAN
    /\ inflight \in Calls \cup {None}
    /\ call \in [Calls -> CallRecords]
    /\ pc \in [Callers -> {"idle", "load", "wait", "stale"}]
    /\ waits \in [Callers -> Calls \cup {None}]
    /\ \A p \in Callers : pc[p] = "wait" => waits[p] \in Calls
    /\ ctx \in [Callers -> Contexts]
    /\ result \in [Callers -> Results]
    /\ late \in [Callers -> BOOLEAN]
    /\ file \in Files \cup {None}
    /\ upstream \in Versions
    /\ basis \in Versions

\* "Concurrent work pays one fetch" (core.go modelsClient): at most one fetch
\* goroutine runs at any time, it is the one inflight names, and none runs
\* once there is a catalog, whatever contexts end and attempts fail.
SingleFlight ==
    \A k \in Calls : Running(k) => inflight = k /\ memo = None

\* All callers share one catalog: whatever a successful call returned, and
\* whenever, it is the memoised one (load, afterInflight).
AnswersAgree ==
    \A p \in Callers : result[p].cat # None => result[p].cat = memo

\* An answer that Stale does not flag is at least as new as what the endpoint
\* served when the attempt behind it began, or came from a cache file that
\* was within its TTL (fetchMerge; Stale's comment). The flag is read in a
\* critical section of its own, after the catalog.
UnflaggedIsCurrent ==
    \A p \in Callers :
        pc[p] = "idle" /\ result[p].cat # None /\ ~result[p].flag
            => result[p].cat >= basis

\* With WithForceRefresh the caller learns whether fresh data was fetched: a
\* success is never cached data, however fresh the file, and never flagged.
ForcedIsCurrent ==
    ForceRefresh /\ memo # None => ~stale /\ memo >= basis

\* "An unrelated cancel does not abort work waiters depend on" (runFetch): a
\* call fails with context.Canceled only if its own context was cancelled.
NoForeignCancel ==
    \A p \in Callers : result[p].err = "canceled" => ctx[p].over = "canceled"

\* A cache file that decodes is replaced by one that decodes: a crash or a
\* failure at any step, or a bad body from the endpoint, never costs the copy
\* that the offline fallback relies on (cache.write, fetchMerge's order).
UsableCacheKept ==
    [][file # None /\ file' # None
         => (Usable(file.body) => Usable(file'.body))]_vars

\* The client keeps the promise of CatalogCell: one catalog for all, and no
\* call fails but for its own context or for the failure of an attempt that it
\* had joined before it failed.
CellAsked == {p \in Callers : pc[p] \in {"load", "wait"}}
CellLate == {p \in Callers : late[p]}
CellJoined == {p \in Callers : pc[p] = "wait" /\ Running(waits[p])}
CellRefused == {p \in Callers : /\ pc[p] = "wait"
                                /\ call[waits[p]].at = "done"
                                /\ call[waits[p]].err # ""}
CellAnswer == [p \in Callers |-> result[p].cat]

Cell == INSTANCE CatalogCell WITH
    Catalogs <- Versions, value <- memo, asked <- CellAsked, late <- CellLate,
    joined <- CellJoined, refused <- CellRefused, answer <- CellAnswer

KeepsPromise == Cell!Spec

\* Every call returns: no lost wakeup, no deadlock between the lock, the
\* channel and the contexts, and no endpoint that wedges the client while a
\* timeout or the leader's deadline bounds the fetch.
EveryCallReturns ==
    \A p \in Callers : pc[p] # "idle" ~> pc[p] = "idle"
=============================================================================
