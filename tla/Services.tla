------------------------------ MODULE Services ------------------------------
(***************************************************************************)
(* The operations of AgentService, ModelService and ProviderService        *)
(* (agents.go, models.go, providers.go), as the calls each makes of the    *)
(* agent catalog and of one models.dev client, and what it makes of their  *)
(* answers. Between two calls another goroutine may get the client its     *)
(* catalog, so that one operation may see an outage and then a recovery.   *)
(*                                                                         *)
(* The client is what CatalogCell promises: while it has no catalog a call *)
(* may fail or bring one, and from then on no call fails. A loop of client *)
(* calls is therefore one step: only its first call can be the one that    *)
(* fails or brings the catalog, and the rest read a memo nobody changes.   *)
(*                                                                         *)
(* A provider's models are the provider's id; detection is left out but    *)
(* for which agents are installed; filters and sorting do not change what  *)
(* is said of an item and are left out.                                    *)
(***************************************************************************)
EXTENDS Naturals, SequencesExt

CONSTANTS
    Agents,         \* the ids of the agent catalog
    Home,           \* per agent, its provider set; {} when it is agnostic
    Strangers,      \* agent ids that are not in the catalog
    Providers,      \* provider ids
    ProviderLists,  \* the --providers lists callers pass
    Contents,       \* what models.dev may hold: [known, drifted]
    Ops,            \* the operations called
    None            \* no catalog, no agent

Levels == <<"none", "providers", "count", "full">>
Operations == {"agentsGet", "agentsList", "modelsList", "modelsGet", "providersList",
               "providersGet"}
Memos == {[known |-> c.known, drifted |-> c.drifted, stale |-> s] :
             c \in Contents, s \in BOOLEAN}

ASSUME ConstantsAssumption ==
    /\ Home \in [Agents -> SUBSET Providers] /\ \A a \in Agents : IsFiniteSet(Home[a])
    /\ Strangers \cap Agents = {}
    /\ ProviderLists \subseteq Seq(Providers)
    /\ \A c \in Contents : c.known \subseteq Providers /\ c.drifted \subseteq c.known
    /\ Ops \subseteq Operations
    /\ None \notin Agents \cup Strangers \cup Memos

VARIABLES
    memo,  \* the client's catalog: None, or [known, drifted, stale]
    run    \* the operation in progress

vars == <<memo, run>>

Agnostic(a) == Home[a] = {}
AtLeast(q, level) == \E i, j \in 1 .. 4 : Levels[i] = level /\ Levels[j] = q.enrich /\ i =< j

Queries == [op : Ops, enrich : ToSet(Levels), agent : Agents \cup Strangers \cup {None},
            providers : ProviderLists, installed : BOOLEAN]

\* The fields an operation ignores have one value, and what it needs is there.
Sensible(q) ==
    /\ q.op \notin {"agentsGet", "agentsList"} => q.enrich = "none"
    /\ q.op # "agentsList" => ~ q.installed
    /\ q.op = "agentsGet" => q.agent # None
    /\ q.op \notin {"agentsGet", "modelsList"} => q.agent = None
    /\ q.op = "providersList" => q.providers = <<>>
    /\ q.op \in {"modelsGet", "providersGet"} => Len(q.providers) = 1

\* dedupeIDs: first-seen order.
dedupeIDs(ids) ==
    FoldLeft(LAMBDA out, id : IF id \in ToSet(out) THEN out ELSE Append(out, id), <<>>, ids)

Caller(r) == dedupeIDs(r.query.providers)

\* at: the next call to make; ids: the provider ids resolved; fault: what the
\* listing or the validation degrades on; asked: modelsConsulted; rows, left:
\* the listing, and the agents yet to be enriched; late: history, the client
\* had its catalog when the operation began.
NewRun(q, ready) ==
    [at |-> "start", query |-> q, ids |-> <<>>, fault |-> "", asked |-> FALSE,
     warned |-> {}, err |-> "", state |-> "notRequested", coverage |-> "notProbed",
     models |-> {}, absent |-> {},
     rows |-> <<>>, left |-> {}, late |-> ready]

Init ==
    /\ memo \in Memos \cup {None}
    /\ run \in {[NewRun(q, memo # None) EXCEPT !.at = "done"] :
                   q \in {q \in Queries : Sensible(q)}}

BeginWith(q) == run' = NewRun(q, memo # None) /\ UNCHANGED memo

Begin ==
    /\ run.at = "done"
    /\ \E q \in Queries : Sensible(q) /\ BeginWith(q)

\* Another goroutine's call brings the client its catalog.
OtherFills ==
    /\ memo = None
    /\ memo' \in Memos
    /\ UNCHANGED run

\* What a first call of the client may do: the catalog it leaves there, and
\* its fault (an outage, or top-level maps that are empty).
Replies ==
    IF memo # None
    THEN {[memo |-> memo, fault |-> ""]}
    ELSE {[memo |-> None, fault |-> f] : f \in {"unreachable", "schema"}}
         \cup {[memo |-> m, fault |-> ""] : m \in Memos}

\* Return with an error, or with none; "finish" adds the models.dev staleness
\* to the warnings, where the operation has any.
Return(r, e) == [r EXCEPT !.at = "finish", !.err = e]
Warn(r, w) == [r EXCEPT !.warned = @ \cup w]
FaultWarning(f) == IF f = "schema" THEN {"schemaDrift"}
                   ELSE IF f = "unreachable" THEN {"modelsUnreachable"} ELSE {}
\* Mutant of mapModelsErr: the fault is returned as it is.
mapModelsErrRaw(f) == f

mapModelsErr(f) == IF f = "schema" THEN "modelsSchema"
                   ELSE IF f = "unreachable" THEN "modelsUnavailable" ELSE ""

-----------------------------------------------------------------------------
(* The agent catalog                                                       *)

NeedsCatalog(q) ==
    \/ q.op \in {"agentsGet", "agentsList"}
    \/ q.op = "modelsList" /\ q.agent # None

\* mapCatalogErr; "registry" is the error of CUE's registry configuration.
CatalogErrors == {"catalogUnavailable", "catalogInvalid", "registry"}

CatalogFails ==
    /\ run.at = "start" /\ NeedsCatalog(run.query)
    /\ \E e \in CatalogErrors : run' = [run EXCEPT !.at = "done", !.err = e]
    /\ UNCHANGED memo

CatalogResolved ==
    /\ run.at = "start" /\ NeedsCatalog(run.query)
    /\ \E stale \in BOOLEAN :
          run' = Warn([run EXCEPT !.at = run.query.op],
                      IF stale THEN {"staleCatalog"} ELSE {})
    /\ UNCHANGED memo

AgentUnknown ==
    /\ run.at \in {"agentsGet", "modelsList"}
    /\ run.query.agent \in Strangers
    /\ run' = Return(run, "agentUnknown")
    /\ UNCHANGED memo

\* restrictHomeProviders: the caller's ids must be among the agent's.
Extra(r) == ToSet(Caller(r)) \ Home[r.query.agent]
ProvidersNotAllowed ==
    /\ run.at \in {"agentsGet", "modelsList"}
    /\ run.query.agent \in Agents /\ ~ Agnostic(run.query.agent)
    /\ Extra(run) # {}
    /\ run' = Return(run, "providersNotAllowed")
    /\ UNCHANGED memo

\* The provider set an agent is resolved to, for a caller's list.
Resolved(a, caller) ==
    IF caller # <<>> THEN caller ELSE SetToSeq(Home[a])

-----------------------------------------------------------------------------
(* Provider validation                                                     *)

\* validateProviders: the first id that is absent or drifted decides.
Verdict(r, ids) ==
    LET bad == {i \in DOMAIN ids : ids[i] \notin r.memo.known \/ ids[i] \in r.memo.drifted}
    IN IF r.fault # "" THEN r.fault
       ELSE IF bad = {} THEN ""
       ELSE LET first == CHOOSE i \in bad : \A j \in bad : i =< j
            IN IF ids[first] \in r.memo.drifted THEN "schema" ELSE "unknown"

Validating(op) == run.at = "validate" /\ run.query.op = op
Validated(r, v) == [r EXCEPT !.asked = TRUE, !.fault = v]

\* Agents.Get: an agnostic agent's caller ids.
ValidateForAgent ==
    /\ Validating("agentsGet")
    /\ \E r \in Replies :
          LET v == Verdict(r, run.ids)
              next == Validated(run, v)
          IN /\ memo' = r.memo
             /\ run' = IF v = "unknown" THEN Return(next, "unknownProvider")
                       ELSE IF run.query.enrich # "providers" THEN [next EXCEPT !.at = "probe"]
                       ELSE Return(Warn([next EXCEPT !.state = IF v = "" THEN "applied"
                                                              ELSE "degraded"],
                                        FaultWarning(v)), "")

\* Mutant of ValidateForListing: an outage rejects the ids.
ValidateForListingStrictly ==
    /\ Validating("agentsList")
    /\ \E r \in Replies :
          LET v == Verdict(r, run.ids)
          IN /\ memo' = r.memo
             /\ run' = IF v # "" THEN Return(Validated(run, v), "unknownProvider")
                       ELSE [Validated(run, v) EXCEPT !.at = "probeListing"]

\* Mutant of ValidateForListing: a validation that failed is forgotten.
ValidateForListingForgets ==
    /\ Validating("agentsList")
    /\ \E r \in Replies :
          LET v == Verdict(r, run.ids)
          IN /\ memo' = r.memo
             /\ run' = IF v = "unknown" THEN Return(Validated(run, v), "unknownProvider")
                       ELSE [Validated(run, "") EXCEPT !.at = "probeListing"]

\* Agents.List: at every level, and before anything is listed.
ValidateForListing ==
    /\ Validating("agentsList")
    /\ \E r \in Replies :
          LET v == Verdict(r, run.ids)
          IN /\ memo' = r.memo
             /\ run' = IF v = "unknown" THEN Return(Validated(run, v), "unknownProvider")
                       ELSE [Validated(run, v) EXCEPT !.at = "probeListing"]

\* Models.List: an outage does not reject, the listing fetch will report it.
ValidateForModels ==
    /\ Validating("modelsList")
    /\ \E r \in Replies :
          LET v == Verdict(r, run.ids)
          IN /\ memo' = r.memo
             /\ run' = IF v \in {"unknown", "schema"}
                       THEN Return(Validated(run, ""),
                                   IF v = "unknown" THEN "unknownProvider" ELSE "modelsSchema")
                       ELSE [Validated(run, "") EXCEPT !.at = "models"]

-----------------------------------------------------------------------------
(* Agents.Get                                                              *)

GetAgent ==
    /\ run.at = "agentsGet"
    /\ run.query.agent \in Agents
    /\ LET a == run.query.agent
           next == [run EXCEPT !.ids = Resolved(a, Caller(run))]
           level == run.query.enrich
       IN /\ Agnostic(a) \/ Extra(run) = {}
          /\ run' = IF level = "none" THEN Return(run, "")
                    ELSE IF Agnostic(a) /\ Caller(run) = <<>>
                    THEN Return(Warn([run EXCEPT !.state = "notApplicable"],
                                     {"providersRequired"}), "")
                    ELSE IF Agnostic(a) THEN [next EXCEPT !.at = "validate"]
                    ELSE IF level = "providers"
                    THEN Return([next EXCEPT !.state = "applied"], "")
                    ELSE [next EXCEPT !.at = "probe"]
    /\ UNCHANGED memo

\* The fault of reading these providers, one by one, from a reply.
ReadFault(r, ids) == IF r.fault # "" THEN r.fault
                     ELSE IF ids \cap r.memo.drifted # {} THEN "schema" ELSE ""

\* Mutant of ProbeCoverage: drift of a provider is taken for absence.
ProbeCoverageLoosely ==
    /\ run.at = "probe"
    /\ \E r \in Replies :
          LET next == [run EXCEPT !.asked = TRUE]
              ids == ToSet(run.ids)
              absent == ids \ (r.memo.known \ r.memo.drifted)
          IN /\ memo' = r.memo
             /\ run' = IF r.fault # ""
                       THEN Return(Warn([next EXCEPT !.state = "degraded"],
                                        FaultWarning(r.fault)), "")
                       ELSE Return([next EXCEPT !.state = "applied", !.absent = absent,
                                                !.models = ids \ absent], "")

\* probeCoverage, then modelsForProviders over the providers it found.
ProbeCoverage ==
    /\ run.at = "probe"
    /\ \E r \in Replies :
          LET next == [run EXCEPT !.asked = TRUE]
              ids == ToSet(run.ids)
              fault == ReadFault(r, ids)
              absent == ids \ r.memo.known
              found == IF absent = {} THEN "allPresent"
                       ELSE IF absent = ids THEN "nonePresent" ELSE "somePresent"
              applied == [next EXCEPT !.state = "applied", !.coverage = found,
                                      !.absent = absent, !.models = ids \ absent]
          IN /\ memo' = r.memo
             /\ run' = IF fault # ""
                       THEN Return(Warn([next EXCEPT !.state = "degraded", !.coverage = fault],
                                        FaultWarning(fault)), "")
                       ELSE Return(Warn(applied, IF found = "somePresent"
                                                 THEN {"someAbsent"} ELSE {}), "")

-----------------------------------------------------------------------------
(* Agents.List                                                             *)

ListAgents ==
    /\ run.at = "agentsList"
    /\ run' = [run EXCEPT !.ids = Caller(run),
                          !.at = IF Caller(run) # <<>> THEN "validate" ELSE "probeListing"]
    /\ UNCHANGED memo

\* The listing-wide fetch: only an outage is decided on here.
ProbeListing ==
    /\ run.at = "probeListing"
    /\ IF AtLeast(run.query, "count") /\ run.fault = ""
       THEN \E r \in Replies :
               /\ memo' = r.memo
               /\ run' = [run EXCEPT !.at = "detect", !.asked = TRUE,
                                     !.fault = IF r.fault = "unreachable" THEN r.fault ELSE ""]
       ELSE run' = [run EXCEPT !.at = "detect"] /\ UNCHANGED memo

\* detectAll returns the error of a context that has ended.
ContextEnds ==
    /\ run.at = "detect"
    /\ run' = Return(run, "context")
    /\ UNCHANGED memo

Inapplicable(a, r) == Agnostic(a) /\ r.ids = <<>>
Row(s, models) == [state |-> s, models |-> models]

\* resolveListProviders: only an agnostic agent's ids needed validation.
ResolvedRow(a, r) ==
    Row(IF Inapplicable(a, r) THEN "notApplicable"
        ELSE IF Agnostic(a) /\ r.fault # "" THEN "degraded" ELSE "applied", {})

\* degradeListAgent.
DegradedRow(a, r) == Row(IF Inapplicable(a, r) THEN "notApplicable" ELSE "degraded", {})

\* The listing-wide degradation of the two upper levels.
DegradeListing(r) ==
    Return(Warn([r EXCEPT !.rows = [a \in DOMAIN r.rows |-> DegradedRow(a, r)]],
                FaultWarning(r.fault)), "")

Detect ==
    /\ run.at = "detect"
    /\ \E found \in SUBSET Agents :
          LET listed == IF run.query.installed THEN found ELSE Agents
              next == [run EXCEPT !.rows = [a \in listed |-> Row("notRequested", {})]]
          IN run' = IF run.query.enrich = "none" THEN Return(next, "")
                    ELSE IF run.query.enrich = "providers"
                    THEN Return(Warn([next EXCEPT !.rows = [a \in listed |-> ResolvedRow(a, run)]],
                                     FaultWarning(run.fault)), "")
                    ELSE IF run.fault # "" THEN DegradeListing(next)
                    ELSE [next EXCEPT !.at = "rows", !.left = listed]
    /\ UNCHANGED memo

\* enrichListAgent, in the order of a map; the first fault is remembered.
EnrichRow(a) ==
    /\ run.at = "rows" /\ a \in run.left
    /\ LET ids == IF Agnostic(a) THEN ToSet(run.ids) ELSE Home[a]
           next == [run EXCEPT !.left = @ \ {a}]
       IN IF Inapplicable(a, run)
          THEN run' = [next EXCEPT !.rows[a] = Row("notApplicable", {})] /\ UNCHANGED memo
          ELSE \E r \in Replies :
                  LET fault == ReadFault(r, ids)
                  IN /\ memo' = r.memo
                     /\ run' = IF fault = ""
                               THEN [next EXCEPT !.rows[a] = Row("applied", ids \cap r.memo.known)]
                               ELSE [next EXCEPT !.fault = IF run.fault = "" THEN fault ELSE @]

\* Mutant of RowsDone: only the rows that failed are degraded.
RowsDonePartially ==
    /\ run.at = "rows" /\ run.left = {}
    /\ run' = IF run.fault = "" THEN Return(run, "")
              ELSE Return(Warn([run EXCEPT !.rows = [a \in DOMAIN run.rows |->
                                   IF run.rows[a].state = "notRequested"
                                   THEN DegradedRow(a, run) ELSE run.rows[a]]],
                               FaultWarning(run.fault)), "")
    /\ UNCHANGED memo

\* Mutant of RowsDone: the fault is not reported.
RowsDoneQuietly ==
    /\ run.at = "rows" /\ run.left = {}
    /\ run' = IF run.fault = "" THEN Return(run, "")
              ELSE [DegradeListing(run) EXCEPT !.warned = run.warned]
    /\ UNCHANGED memo

RowsDone ==
    /\ run.at = "rows" /\ run.left = {}
    /\ run' = IF run.fault = "" THEN Return(run, "") ELSE DegradeListing(run)
    /\ UNCHANGED memo

-----------------------------------------------------------------------------
(* Models.List, Models.Get, Providers.List, Providers.Get                  *)

\* resolveModelScope with no agent.
ScopeToProviders ==
    /\ run.at = "start" /\ run.query.op = "modelsList" /\ run.query.agent = None
    /\ Caller(run) # <<>>
    /\ run' = [run EXCEPT !.at = "validate", !.ids = Caller(run)]
    /\ UNCHANGED memo

ScopeToAll ==
    /\ run.at = "start" /\ run.query.op = "modelsList" /\ run.query.agent = None
    /\ Caller(run) = <<>>
    /\ \E r \in Replies :
          LET next == [run EXCEPT !.asked = TRUE]
          IN /\ memo' = r.memo
             /\ run' = IF r.fault # "" THEN Return(next, mapModelsErr(r.fault))
                       ELSE [next EXCEPT !.at = "models", !.ids = SetToSeq(r.memo.known)]

\* resolveModelScope for an agent.
ScopeToAgent ==
    /\ run.at = "modelsList"
    /\ run.query.agent \in Agents
    /\ LET a == run.query.agent
           next == [run EXCEPT !.ids = Resolved(a, Caller(run))]
       IN /\ Agnostic(a) \/ Extra(run) = {}
          /\ run' = IF ~ Agnostic(a) THEN [next EXCEPT !.at = "models"]
                    ELSE IF Caller(run) = <<>> THEN Return(run, "providersRequired")
                    ELSE [next EXCEPT !.at = "validate"]
    /\ UNCHANGED memo

\* modelsForProviders: a provider that is absent is skipped.
ListModels ==
    /\ run.at = "models"
    /\ \E r \in Replies :
          LET next == [run EXCEPT !.asked = TRUE]
              fault == ReadFault(r, ToSet(run.ids))
          IN /\ memo' = r.memo
             /\ run' = IF fault # "" THEN Return(next, mapModelsErr(fault))
                       ELSE Return([next EXCEPT !.models = ToSet(run.ids) \cap r.memo.known], "")

\* Models.Get: a composite id with no slash.
MalformedModelID ==
    /\ run.at = "start" /\ run.query.op = "modelsGet"
    /\ run' = [run EXCEPT !.at = "done", !.err = "malformedModelID"]
    /\ UNCHANGED memo

\* The exact gets, which have no warnings. Models.Get's second call of the
\* client, for the canonical id, finds the catalog the first one read.
GetOne ==
    /\ run.at = "start" /\ run.query.op \in {"modelsGet", "providersGet"}
    /\ \E r \in Replies, there \in BOOLEAN :
          LET id == Head(run.query.providers)
              fault == ReadFault(r, {id})
              next == [run EXCEPT !.at = "done", !.asked = TRUE]
          IN /\ memo' = r.memo
             /\ run' = IF fault # "" THEN [next EXCEPT !.err = mapModelsErr(fault)]
                       ELSE IF id \notin r.memo.known \/ (run.query.op = "modelsGet" /\ ~ there)
                       THEN [next EXCEPT !.err = "notFound"]
                       ELSE [next EXCEPT !.models = {id}]

ListProviders ==
    /\ run.at = "start" /\ run.query.op = "providersList"
    /\ \E r \in Replies :
          LET next == [run EXCEPT !.asked = TRUE]
          IN /\ memo' = r.memo
             /\ run' = IF r.fault # ""
                       THEN [next EXCEPT !.at = "done", !.err = mapModelsErr(r.fault)]
                       ELSE Return([next EXCEPT !.models = r.memo.known], "")

\* Mutant of Finish: the client is asked whether or not the operation called it.
FinishAlways ==
    /\ run.at = "finish"
    /\ run' = [Warn(run, IF memo # None /\ memo.stale THEN {"modelsStale"} ELSE {})
                  EXCEPT !.at = "done"]
    /\ UNCHANGED memo

\* appendModelsStale, and Providers.List's own test.
Finish ==
    /\ run.at = "finish"
    /\ run' = [Warn(run, IF run.asked /\ memo # None /\ memo.stale
                         THEN {"modelsStale"} ELSE {}) EXCEPT !.at = "done"]
    /\ UNCHANGED memo

-----------------------------------------------------------------------------

\* The operation's own steps.
Progress ==
    \/ CatalogFails \/ CatalogResolved \/ AgentUnknown \/ ProvidersNotAllowed
    \/ ValidateForAgent \/ ValidateForListing \/ ValidateForModels
    \/ GetAgent \/ ProbeCoverage
    \/ ListAgents \/ ProbeListing \/ Detect
    \/ (\E a \in Agents : EnrichRow(a)) \/ RowsDone
    \/ ScopeToProviders \/ ScopeToAll \/ ScopeToAgent \/ ListModels
    \/ MalformedModelID \/ GetOne \/ ListProviders \/ Finish

Next == Begin \/ OtherFills \/ ContextEnds \/ Progress

Spec == Init /\ [][Next]_vars

-----------------------------------------------------------------------------

Done(op) == run.at = "done" /\ run.query.op = op
FaultWarned == run.warned \cap {"modelsUnreachable", "schemaDrift"} # {}
Listed == DOMAIN run.rows
HasData == run.models # {} \/ \E a \in Listed : run.rows[a].models # {}

\* The state has its shape: the errors are the public sentinels, and an agent
\* yet to be enriched is one of the listing's.
TypeOK ==
    /\ memo \in Memos \cup {None}
    /\ run.at \in {"start", "validate", "probe", "probeListing", "detect", "rows", "models",
                   "finish", "done"} \cup Operations
    /\ run.fault \in {"", "unreachable", "schema", "unknown"}
    /\ run.err \in CatalogErrors \cup {"", "agentUnknown", "unknownProvider", "providersNotAllowed",
                    "providersRequired", "modelsSchema", "modelsUnavailable", "notFound",
                    "malformedModelID", "context"}
    /\ run.state \in {"notRequested", "applied", "notApplicable", "degraded"}
    /\ run.coverage \in {"notProbed", "allPresent", "somePresent", "nonePresent",
                         "unreachable", "schema"}
    /\ run.left \subseteq Listed /\ Listed \subseteq Agents
    /\ \A a \in Listed : run.rows[a].models \subseteq Providers

\* A listing with models.dev data is degraded as a whole or not at all: no row
\* keeps data fetched before the fault that degraded the others, whatever order
\* the rows were enriched in and whoever brought the catalog in between.
ListingIsUniform ==
    Done("agentsList") /\ run.err = "" /\ AtLeast(run.query, "count") =>
        \E s \in {"applied", "degraded"} :
            \A a \in Listed : /\ run.rows[a].state \in {s, "notApplicable"}
                              /\ s = "degraded" => run.rows[a].models = {}

\* Whatever is degraded carries the warning that says why; and at the levels
\* with models.dev data, an operation that warns of a fault has returned none.
DegradedIsExplained ==
    run.at = "done" =>
        /\ (run.state = "degraded" \/ \E a \in Listed : run.rows[a].state = "degraded")
              => FaultWarned /\ run.err = ""
        /\ FaultWarned /\ AtLeast(run.query, "count")
              => run.models = {} /\ \A a \in Listed : run.rows[a].state # "applied"

\* Data of a stale catalog is flagged by every operation that has warnings, and
\* an operation that never called models.dev does not speak of it, though an
\* earlier one may have left the shared client stale (appendModelsStale).
StaleDataIsFlagged ==
    run.at = "done" =>
        /\ HasData /\ memo.stale /\ run.query.op \notin {"modelsGet", "providersGet"}
              => "modelsStale" \in run.warned
        /\ "modelsStale" \in run.warned => run.asked

\* EnrichmentApplied "means the requested level was satisfied in full": the
\* data is that of exactly the resolved providers models.dev has, the others
\* are reported absent, and none of them is malformed.
AppliedIsComplete ==
    run.at = "done" /\ AtLeast(run.query, "count") =>
        /\ run.state = "applied" =>
              LET ids == ToSet(run.ids)
              IN /\ run.models = ids \cap memo.known /\ run.absent = ids \ memo.known
                 /\ ids \cap memo.drifted = {}
        /\ \A a \in Listed : run.rows[a].state = "applied" =>
              LET ids == IF Agnostic(a) THEN ToSet(run.ids) ELSE Home[a]
              IN run.rows[a].models = ids \cap memo.known /\ ids \cap memo.drifted = {}

\* No operation rejects an id models.dev has, or any id for want of models.dev;
\* and none that began when the client had its catalog meets an outage.
RejectionsAreEarned ==
    run.at = "done" =>
        /\ run.err = "unknownProvider" =>
              memo # None /\ ~ ToSet(run.query.providers) \subseteq memo.known
        /\ run.err = "modelsUnavailable" \/ "modelsUnreachable" \in run.warned => ~ run.late

\* Agents.List from EnrichProviders upward: an unknown id fails the listing, or
\* the fault that kept it from being seen is reported, even when models.dev is
\* back before the listing is enriched.
ListingNeverHidesUnknown ==
    Done("agentsList") /\ run.err = "" /\ AtLeast(run.query, "providers") /\ memo # None =>
        ToSet(run.ids) \subseteq memo.known \/ FaultWarned

\* models.go:128, "Unknown id and schema drift reject; outage is non-rejection
\* (listing fetch reports it)", and the like of agents.go:73: an operation that
\* returns data without an error or a fault was given no unknown id.
UnknownNeverAccepted ==
    /\ run.at = "done" /\ run.query.op \in {"agentsGet", "modelsList"}
    /\ run.query.agent \in Agents => Agnostic(run.query.agent)
    /\ run.query.op = "agentsGet" => AtLeast(run.query, "providers")
    /\ run.asked /\ run.err = "" /\ ~ FaultWarned
    => ToSet(run.ids) \subseteq memo.known
=============================================================================
