---------------------------- MODULE ServicesProofs ----------------------------
(***************************************************************************)
(* Every safety property of Services, for every catalog, set of agents,    *)
(* caller and interleaving with the other goroutines of the client.        *)
(*                                                                         *)
(* First come the parts of a memo, a level, a row, a reply and a verdict;  *)
(* then what each step does to the fields of the run, one lemma for each   *)
(* action; then the invariant in layers, each inductive relative to those  *)
(* before it, which are all that later layers know of an action: types,    *)
(* what is known while an operation is under way, where data come from,    *)
(* outages, what "applied" means, listings, unknown ids.                   *)
(***************************************************************************)
EXTENDS Services, FoldProofs, FiniteSetTheorems

RunFields == {"at", "query", "ids", "fault", "asked", "warned", "err", "state", "coverage",
              "models", "absent", "rows", "left", "late"}

\* A run is a record of its fields, whatever their values.
IsRun(r) == r = [f \in RunFields |-> r[f]]

\* A step changes at most the fields F of the run.
Keeps(F) == IsRun(run') /\ \A f \in RunFields \ F : run'[f] = run[f]

Faults == {"unreachable", "schema"}
Ended == run.at \in {"finish", "done"}

-----------------------------------------------------------------------------

\* What a catalog of the client has.
LEMMA MemoParts ==
    \A m \in Memos : /\ m.known \subseteq Providers /\ m.drifted \subseteq m.known
                     /\ m # None
  BY ConstantsAssumption DEF Memos

\* The levels of a query, told by their names.
LEMMA LevelParts ==
    ASSUME NEW q \in Queries
    PROVE  /\ AtLeast(q, "count") <=> q.enrich \notin {"none", "providers"}
           /\ AtLeast(q, "providers") <=> q.enrich # "none"
           /\ q.enrich \in {"none", "providers", "count", "full"}
<1>1. /\ Levels[1] = "none" /\ Levels[2] = "providers" /\ Levels[3] = "count"
      /\ Levels[4] = "full" /\ DOMAIN Levels = 1 .. 4
  BY DEF Levels
<1>2. q.enrich \in ToSet(Levels)
  BY DEF Queries
<1>3. PICK k \in 1 .. 4 : q.enrich = Levels[k]
  BY <1>1, <1>2 DEF ToSet
<1>4. \A j \in 1 .. 4 : Levels[j] = q.enrich <=> j = k
  <2>1. k = 1 \/ k = 2 \/ k = 3 \/ k = 4
    OBVIOUS
  <2> QED
    BY <1>1, <1>3, <2>1
<1>5. AtLeast(q, "count") <=> 3 =< k
  BY <1>1, <1>4 DEF AtLeast
<1>6. AtLeast(q, "providers") <=> 2 =< k
  BY <1>1, <1>4 DEF AtLeast
<1>7. k = 1 \/ k = 2 \/ k = 3 \/ k = 4
  OBVIOUS
<1> QED
  BY <1>1, <1>3, <1>5, <1>6, <1>7

\* A fault has the warning of its own kind.
LEMMA FaultWarningParts ==
    /\ \A f : FaultWarning(f) \subseteq {"modelsUnreachable", "schemaDrift"}
    /\ \A f : "modelsUnreachable" \in FaultWarning(f) => f = "unreachable"
    /\ \A f \in Faults : FaultWarning(f) # {}
  BY DEF FaultWarning, Faults

\* A row has what it was made of.
LEMMA RowParts == ASSUME NEW s, NEW models
                  PROVE  Row(s, models).state = s /\ Row(s, models).models = models
  BY DEF Row

Fresh == Row("notRequested", {})

\* A fresh row has nothing.
LEMMA FreshParts == Fresh.state = "notRequested" /\ Fresh.models = {}
  BY RowParts DEF Fresh

\* A degraded row has no data, and is not said to be applied.
LEMMA DegradedRowParts ==
    ASSUME NEW a, NEW r
    PROVE  /\ DegradedRow(a, r).models = {}
           /\ DegradedRow(a, r).state \in {"degraded", "notApplicable"}
  BY DEF Row, DegradedRow

\* A resolved row has no data, and is degraded only for the listing's fault.
LEMMA ResolvedRowParts ==
    ASSUME NEW a, NEW r
    PROVE  /\ ResolvedRow(a, r).models = {}
           /\ ResolvedRow(a, r).state \in {"applied", "degraded", "notApplicable"}
           /\ ResolvedRow(a, r).state = "degraded" => r.fault # ""
  BY DEF Row, ResolvedRow

\* A reply has a catalog or a fault, and only the fault of a client without one.
LEMMA RepliesParts ==
    ASSUME memo \in Memos \cup {None}, NEW r \in Replies
    PROVE  /\ r.fault \in Faults \cup {""}
           /\ r.fault = "" => r.memo \in Memos
           /\ r.fault # "" => memo = None /\ r.memo = None
           /\ memo # None => r.memo = memo
<1>1. CASE memo # None
  <2>1. r = [memo |-> memo, fault |-> ""]
    BY <1>1 DEF Replies
  <2> QED
    BY <1>1, <2>1
<1>2. CASE memo = None
  <2>1. \/ \E f \in Faults : r = [memo |-> None, fault |-> f]
        \/ \E m \in Memos : r = [memo |-> m, fault |-> ""]
    BY <1>2 DEF Replies, Faults
  <2>2. CASE \E f \in Faults : r = [memo |-> None, fault |-> f]
    <3>1. PICK f \in Faults : r = [memo |-> None, fault |-> f]
      BY <2>2
    <3>2. r.memo = None /\ r.fault = f
      BY <3>1
    <3>3. f # ""
      BY DEF Faults
    <3> QED
      BY <1>2, <3>2, <3>3
  <2>3. CASE \E m \in Memos : r = [memo |-> m, fault |-> ""]
    <3>1. PICK m \in Memos : r = [memo |-> m, fault |-> ""]
      BY <2>3
    <3>2. r.memo = m /\ r.fault = ""
      BY <3>1
    <3> QED
      BY <1>2, <3>2
  <2> QED
    BY <2>1, <2>2, <2>3
<1> QED
  BY <1>1, <1>2

\* A verdict of outage is the reply's, one of nothing is of known ids, and one
\* of "unknown" is no fault of the reply.
LEMMA VerdictParts ==
    ASSUME memo \in Memos \cup {None}, NEW r \in Replies, NEW ids
    PROVE  /\ Verdict(r, ids) \in Faults \cup {"", "unknown"}
           /\ Verdict(r, ids) = "unreachable" => r.fault = "unreachable"
           /\ Verdict(r, ids) = "" =>
                 r.fault = "" /\ ToSet(ids) \subseteq r.memo.known
           /\ Verdict(r, ids) = "unknown" => r.fault = ""
  BY RepliesParts DEF Verdict, Faults, ToSet

\* So is the fault of a read, and a read without one is of ids that are not
\* malformed.
LEMMA ReadFaultParts ==
    ASSUME memo \in Memos \cup {None}, NEW r \in Replies, NEW ids
    PROVE  /\ ReadFault(r, ids) \in Faults \cup {""}
           /\ ReadFault(r, ids) = "unreachable" => r.fault = "unreachable"
           /\ ReadFault(r, ids) = "" =>
                 r.memo \in Memos /\ ids \cap r.memo.drifted = {} /\ r.fault = ""
  BY RepliesParts DEF ReadFault, Faults

-----------------------------------------------------------------------------
(* What each step does, field by field.                                    *)

\* The steps that end the operation with an error, and change nothing else.
Refused(e) ==
    /\ ~ Ended /\ run.at # "rows"
    /\ e # "context" => run.at \in {"start"} \cup Operations
    /\ e = "agentUnknown" => run.query.agent \in Strangers
    /\ memo' = memo /\ Keeps({"at", "err"})
    /\ run'.at \in {"finish", "done"} /\ run'.err = e

RefusalErrors == CatalogErrors \cup {"agentUnknown", "providersNotAllowed", "context",
                                     "malformedModelID"}

\* The five steps that refuse.
LEMMA Refusals ==
    /\ IsRun(run)
    /\ CatalogFails \/ AgentUnknown \/ ProvidersNotAllowed \/ ContextEnds \/ MalformedModelID
    => \E e \in RefusalErrors : Refused(e)
<1> USE DEF Refused, RefusalErrors, CatalogErrors, Ended, Operations, Keeps, IsRun, RunFields
<1>1. IsRun(run) /\ CatalogFails => \E e \in RefusalErrors : Refused(e)
  BY DEF CatalogFails
<1>2. IsRun(run) /\ AgentUnknown => Refused("agentUnknown")
  BY DEF AgentUnknown, Return
<1>3. IsRun(run) /\ ProvidersNotAllowed => Refused("providersNotAllowed")
  BY DEF ProvidersNotAllowed, Return
<1>4. IsRun(run) /\ ContextEnds => Refused("context")
  BY DEF ContextEnds, Return
<1>5. IsRun(run) /\ MalformedModelID => Refused("malformedModelID")
  BY DEF MalformedModelID
<1> QED
  BY <1>1, <1>2, <1>3, <1>4, <1>5

\* An operation begins with nothing.
LEMMA BeginEffect ==
    Begin => /\ memo' = memo /\ IsRun(run')
             /\ run'.at = "start" /\ run'.query \in Queries
             /\ run'.ids = <<>> /\ run'.fault = "" /\ run'.asked = FALSE /\ run'.warned = {}
             /\ run'.err = "" /\ run'.state = "notRequested" /\ run'.coverage = "notProbed"
             /\ run'.models = {} /\ run'.rows = <<>> /\ run'.left = {}
             /\ run'.late => memo # None
<1>1. Begin => \E q \in Queries : run' = NewRun(q, memo # None) /\ memo' = memo
  BY DEF Begin, BeginWith
<1>2. ASSUME NEW q \in Queries, NEW ready, run' = NewRun(q, ready)
      PROVE  /\ IsRun(run') /\ run'.query = q /\ run'.late = ready
             /\ run'.at = "start"
             /\ run'.ids = <<>> /\ run'.fault = "" /\ run'.asked = FALSE /\ run'.warned = {}
             /\ run'.err = "" /\ run'.state = "notRequested" /\ run'.coverage = "notProbed"
             /\ run'.models = {} /\ run'.rows = <<>> /\ run'.left = {}
  BY <1>2 DEF NewRun, IsRun, RunFields
<1> QED
  BY <1>1, <1>2

\* The agent catalog may add its own warning.
LEMMA CatalogResolvedEffect ==
    IsRun(run) /\ CatalogResolved =>
        /\ run.at = "start" /\ run'.at = run.query.op
        /\ memo' = memo /\ Keeps({"at", "warned"})
        /\ run'.warned \subseteq run.warned \cup {"staleCatalog"}
  BY ZenonT(60) DEF CatalogResolved, Warn, Keeps, IsRun, RunFields

\* A verdict ends the operation, or is kept as its fault.
ForAgent(v) ==
    /\ run.at = "validate" /\ run.query.op = "agentsGet"
    /\ run'.asked = TRUE /\ run'.fault = v
    /\ Keeps({"at", "asked", "fault", "state", "warned", "err"})
    /\ \/ /\ v = "unknown" /\ run'.at = "finish" /\ run'.err = "unknownProvider"
          /\ run'.state = run.state /\ run'.warned = run.warned
       \/ /\ v # "unknown" /\ run.query.enrich # "providers"
          /\ run'.at = "probe" /\ run'.err = run.err
          /\ run'.state = run.state /\ run'.warned = run.warned
       \/ /\ v # "unknown" /\ run.query.enrich = "providers"
          /\ run'.at = "finish" /\ run'.err = ""
          /\ run'.state = (IF v = "" THEN "applied" ELSE "degraded")
          /\ run'.warned = run.warned \cup FaultWarning(v)

\* Agents.Get keeps the verdict of a reply on the caller's ids.
LEMMA ValidateForAgentEffect ==
    IsRun(run) /\ ValidateForAgent =>
        \E r \in Replies : memo' = r.memo /\ ForAgent(Verdict(r, run.ids))
<1> DEFINE Degraded(v) == IF v = "" THEN "applied" ELSE "degraded"
           After(v) ==
               IF v = "unknown" THEN Return(Validated(run, v), "unknownProvider")
               ELSE IF run.query.enrich # "providers" THEN [Validated(run, v) EXCEPT !.at = "probe"]
               ELSE Return(Warn([Validated(run, v) EXCEPT !.state = Degraded(v)],
                                FaultWarning(v)), "")
<1> SUFFICES ASSUME IsRun(run), NEW r \in Replies,
                    run.at = "validate" /\ run.query.op = "agentsGet",
                    run' = After(Verdict(r, run.ids))
             PROVE  ForAgent(Verdict(r, run.ids))
  BY DEF ValidateForAgent, Validating
<1> DEFINE v == Verdict(r, run.ids)
           state == Degraded(v)
<1>3. CASE v = "unknown"
  BY <1>3 DEF ForAgent, Return, Validated, Keeps, IsRun, RunFields
<1>4. CASE v # "unknown" /\ run.query.enrich # "providers"
  BY <1>4 DEF ForAgent, Validated, Keeps, IsRun, RunFields
<1>5. CASE v # "unknown" /\ run.query.enrich = "providers"
  <2>1. run' = [run EXCEPT !.asked = TRUE, !.fault = v, !.state = state,
                           !.warned = @ \cup FaultWarning(v), !.at = "finish", !.err = ""]
    BY <1>5 DEF Return, Warn, Validated, IsRun, RunFields
  <2> HIDE DEF v, state
  <2>2. /\ run'.asked = TRUE /\ run'.fault = v /\ run'.at = "finish" /\ run'.err = ""
        /\ run'.state = state /\ run'.warned = run.warned \cup FaultWarning(v)
        /\ Keeps({"at", "asked", "fault", "state", "warned", "err"})
    BY <2>1 DEF Keeps, IsRun, RunFields
  <2>3. ForAgent(v)
    BY <1>5, <2>2 DEF ForAgent, state
  <2> QED
    BY <2>3 DEF v
<1> QED
  BY <1>3, <1>4, <1>5

\* Agents.List rejects an unknown id and keeps any fault.
LEMMA ValidateForListingEffect ==
    IsRun(run) /\ ValidateForListing =>
        \E r \in Replies :
            LET v == Verdict(r, run.ids)
            IN /\ run.at = "validate" /\ run.query.op = "agentsList"
               /\ memo' = r.memo /\ run'.asked = TRUE /\ run'.fault = v
               /\ Keeps({"at", "asked", "fault", "err"})
               /\ \/ v = "unknown" /\ run'.at = "finish" /\ run'.err = "unknownProvider"
                  \/ v # "unknown" /\ run'.at = "probeListing" /\ run'.err = run.err
  BY ZenonT(60) DEF ValidateForListing, Validating, Validated, Return, Keeps, IsRun, RunFields

\* Models.List rejects for an unknown id and for drift, and goes on otherwise.
LEMMA ValidateForModelsEffect ==
    IsRun(run) /\ ValidateForModels =>
        \E r \in Replies :
            LET v == Verdict(r, run.ids)
            IN /\ run.at = "validate" /\ run.query.op = "modelsList"
               /\ memo' = r.memo /\ run'.asked = TRUE /\ run'.fault = ""
               /\ Keeps({"at", "asked", "fault", "err"})
               /\ \/ v = "unknown" /\ run'.at = "finish" /\ run'.err = "unknownProvider"
                  \/ v = "schema" /\ run'.at = "finish" /\ run'.err = "modelsSchema"
                  \/ v \notin {"unknown", "schema"} /\ run'.at = "models" /\ run'.err = run.err
  BY DEF ValidateForModels, Validating, Validated, Return, Keeps, IsRun, RunFields

\* Agents.Get ends or goes on as its level and the agent's providers have it.
LEMMA GetAgentEffect ==
    IsRun(run) /\ GetAgent =>
        LET a == run.query.agent
        IN /\ run.at = "agentsGet" /\ memo' = memo /\ a \in Agents
           /\ Keeps({"at", "ids", "err", "state", "warned"})
           /\ \/ /\ run.query.enrich = "none"
                 /\ run'.at = "finish" /\ run'.err = "" /\ run'.ids = run.ids
                 /\ run'.state = run.state /\ run'.warned = run.warned
              \/ /\ run.query.enrich # "none"
                 /\ run'.at = "finish" /\ run'.err = "" /\ run'.ids = run.ids
                 /\ run'.state = "notApplicable"
                 /\ run'.warned = run.warned \cup {"providersRequired"}
              \/ /\ run.query.enrich = "providers" /\ ~ Agnostic(a)
                 /\ run'.at = "finish" /\ run'.err = "" /\ run'.ids = Resolved(a, Caller(run))
                 /\ run'.state = "applied" /\ run'.warned = run.warned
              \/ /\ run.query.enrich # "none" /\ Agnostic(a) /\ Caller(run) # <<>>
                 /\ run'.at = "validate" /\ run'.err = run.err /\ run'.ids = Caller(run)
                 /\ run'.state = run.state /\ run'.warned = run.warned
              \/ /\ run.query.enrich \notin {"none", "providers"} /\ ~ Agnostic(a)
                 /\ run'.at = "probe" /\ run'.err = run.err /\ run'.ids = Resolved(a, Caller(run))
                 /\ run'.state = run.state /\ run'.warned = run.warned
<1> DEFINE a == run.query.agent
           level == run.query.enrich
           caller == Caller(run)
           ids == Resolved(a, caller)
           next == [run EXCEPT !.ids = ids]
<1> SUFFICES ASSUME IsRun(run), GetAgent PROVE GetAgentEffect!2
  OBVIOUS
<1>1. /\ run.at = "agentsGet" /\ memo' = memo /\ a \in Agents
      /\ run' = IF level = "none" THEN Return(run, "")
                ELSE IF Agnostic(a) /\ caller = <<>>
                THEN Return(Warn([run EXCEPT !.state = "notApplicable"],
                                 {"providersRequired"}), "")
                ELSE IF Agnostic(a) THEN [next EXCEPT !.at = "validate"]
                ELSE IF level = "providers"
                THEN Return([next EXCEPT !.state = "applied"], "")
                ELSE [next EXCEPT !.at = "probe"]
  BY DEF GetAgent
<1>2. caller # <<>> => ids = caller
  BY DEF Resolved
<1>3. CASE level = "none"
  <2>1. run' = Return(run, "")
    BY <1>1, <1>3
  <2> QED
    BY <1>1, <1>3, <2>1 DEF Return, Keeps, IsRun, RunFields
<1>4. CASE level # "none" /\ Agnostic(a) /\ caller = <<>>
  <2>1. run' = Return(Warn([run EXCEPT !.state = "notApplicable"], {"providersRequired"}), "")
    BY <1>1, <1>4
  <2> QED
    BY <1>1, <1>4, <2>1 DEF Return, Warn, Keeps, IsRun, RunFields
<1>5. CASE level # "none" /\ Agnostic(a) /\ caller # <<>>
  <2>1. run' = [next EXCEPT !.at = "validate"]
    BY <1>1, <1>5
  <2> HIDE DEF ids
  <2>2. /\ Keeps({"at", "ids", "err", "state", "warned"})
        /\ run'.at = "validate" /\ run'.err = run.err /\ run'.ids = ids
        /\ run'.state = run.state /\ run'.warned = run.warned
    BY <2>1 DEF Keeps, IsRun, RunFields
  <2> QED
    BY <1>1, <1>2, <1>5, <2>2
<1>6. CASE level = "providers" /\ ~ Agnostic(a)
  <2>1. run' = Return([next EXCEPT !.state = "applied"], "")
    BY <1>1, <1>6
  <2>0. ids = Resolved(a, Caller(run))
    OBVIOUS
  <2> HIDE DEF ids
  <2>2. /\ Keeps({"at", "ids", "err", "state", "warned"})
        /\ run'.at = "finish" /\ run'.err = "" /\ run'.ids = ids
        /\ run'.state = "applied" /\ run'.warned = run.warned
    BY <2>1 DEF Return, Keeps, IsRun, RunFields
  <2> QED
    BY <1>1, <1>6, <2>0, <2>2
<1>7. CASE level \notin {"none", "providers"} /\ ~ Agnostic(a)
  <2>1. run' = [next EXCEPT !.at = "probe"]
    BY <1>1, <1>7
  <2>0. ids = Resolved(a, Caller(run))
    OBVIOUS
  <2> HIDE DEF ids
  <2>2. /\ Keeps({"at", "ids", "err", "state", "warned"})
        /\ run'.at = "probe" /\ run'.err = run.err /\ run'.ids = ids
        /\ run'.state = run.state /\ run'.warned = run.warned
    BY <2>1 DEF Keeps, IsRun, RunFields
  <2> QED
    BY <1>1, <1>7, <2>0, <2>2
<1> QED
  BY <1>3, <1>4, <1>5, <1>6, <1>7

\* The coverage that was found, or the fault that kept it from being found.
Probed(r) ==
    LET ids == ToSet(run.ids)
        fault == ReadFault(r, ids)
    IN /\ run.at = "probe"
       /\ Keeps({"at", "asked", "state", "coverage", "absent", "models", "warned", "err"})
       /\ run'.at = "finish" /\ run'.err = "" /\ run'.asked = TRUE
       /\ \/ /\ fault # "" /\ run'.state = "degraded" /\ run'.coverage = fault
             /\ run'.models = run.models /\ run'.absent = run.absent
             /\ run'.warned = run.warned \cup FaultWarning(fault)
          \/ /\ fault = "" /\ run'.state = "applied"
             /\ run'.coverage \in {"allPresent", "nonePresent", "somePresent"}
             /\ run'.coverage = "nonePresent" <=> ids # {} /\ ids \ r.memo.known = ids
             /\ run'.absent = ids \ r.memo.known
             /\ run'.models = ids \ (ids \ r.memo.known)
             /\ run'.warned \subseteq run.warned \cup {"someAbsent"}

\* A probe finds the coverage of a reply, or its fault.
LEMMA ProbeCoverageEffect ==
    IsRun(run) /\ ProbeCoverage => \E r \in Replies : memo' = r.memo /\ Probed(r)
<1> DEFINE next == [run EXCEPT !.asked = TRUE]
           ids == ToSet(run.ids)
           Fault(r) == ReadFault(r, ids)
           Absent(r) == ids \ r.memo.known
           Found(r) == IF Absent(r) = {} THEN "allPresent"
                       ELSE IF Absent(r) = ids THEN "nonePresent" ELSE "somePresent"
           Also(r) == IF Found(r) = "somePresent" THEN {"someAbsent"} ELSE {}
           Degraded(r) == Return(Warn([next EXCEPT !.state = "degraded", !.coverage = Fault(r)],
                                      FaultWarning(Fault(r))), "")
           Applied(r) == Return(Warn([next EXCEPT !.state = "applied", !.coverage = Found(r),
                                                  !.absent = Absent(r),
                                                  !.models = ids \ Absent(r)], Also(r)), "")
<1> SUFFICES ASSUME IsRun(run), run.at = "probe", NEW r \in Replies,
                    run' = IF Fault(r) # "" THEN Degraded(r) ELSE Applied(r)
             PROVE  Probed(r)
  BY DEF ProbeCoverage
<1> DEFINE fault == Fault(r)
           absent == Absent(r)
           found == Found(r)
           also == Also(r)
<1>1. CASE fault # ""
  <2>1. run' = Return(Warn([next EXCEPT !.state = "degraded", !.coverage = fault],
                           FaultWarning(fault)), "")
    BY <1>1
  <2> QED
    BY <1>1, <2>1 DEF Probed, Return, Warn, Keeps, IsRun, RunFields
<1>2. CASE fault = ""
  <2>1. run' = Return(Warn([next EXCEPT !.state = "applied", !.coverage = found,
                                        !.absent = absent, !.models = ids \ absent], also), "")
    BY <1>2
  <2>2. /\ found \in {"allPresent", "nonePresent", "somePresent"} /\ also \subseteq {"someAbsent"}
        /\ found = "nonePresent" <=> ids # {} /\ absent = ids
    OBVIOUS
  <2>3. fault = ""
    BY <1>2
  <2> HIDE DEF found, also, fault, absent, ids
  <2>4. /\ Keeps({"at", "asked", "state", "coverage", "absent", "models", "warned", "err"})
        /\ run'.at = "finish" /\ run'.err = "" /\ run'.asked = TRUE
        /\ run'.state = "applied" /\ run'.coverage = found
        /\ run'.absent = absent /\ run'.models = ids \ absent
        /\ run'.warned = run.warned \cup also
    BY <2>1 DEF Return, Warn, Keeps, IsRun, RunFields
  <2> QED
    BY <2>2, <2>3, <2>4 DEF Probed, ids, fault, absent
<1> QED
  BY <1>1, <1>2

\* A listing with ids validates them first.
LEMMA ListAgentsEffect ==
    IsRun(run) /\ ListAgents =>
        /\ run.at = "agentsList" /\ memo' = memo /\ Keeps({"at", "ids"})
        /\ run'.ids = Caller(run)
        /\ \/ run'.at = "validate"
           \/ run'.at = "probeListing" /\ run'.ids = <<>>
  BY DEF ListAgents, Keeps, IsRun, RunFields

\* A listing that needs models.dev probes it, if nothing kept it from that yet.
LEMMA ProbeListingEffect ==
    IsRun(run) /\ ProbeListing =>
        /\ run.at = "probeListing" /\ run'.at = "detect"
        /\ Keeps({"at", "asked", "fault"})
        /\ \/ /\ ~ (AtLeast(run.query, "count") /\ run.fault = "")
              /\ memo' = memo /\ run'.asked = run.asked /\ run'.fault = run.fault
           \/ /\ run.fault = "" /\ run'.asked = TRUE
              /\ \E r \in Replies :
                    /\ memo' = r.memo
                    /\ run'.fault = IF r.fault = "unreachable" THEN r.fault ELSE ""
  BY DEF ProbeListing, Keeps, IsRun, RunFields

\* How a listing's rows are left: as they were found, as the resolved sets say,
\* degraded as a whole, or to be enriched one by one.
Detected ==
    /\ run.at = "detect" /\ memo' = memo
    /\ Keeps({"at", "err", "rows", "left", "warned"})
    /\ DOMAIN run'.rows \subseteq Agents
    /\ \/ /\ run.query.enrich = "none" /\ run'.at = "finish" /\ run'.err = ""
          /\ run'.warned = run.warned /\ run'.left = run.left
          /\ run'.rows = [a \in DOMAIN run'.rows |-> Fresh]
       \/ /\ run.query.enrich = "providers" /\ run'.at = "finish" /\ run'.err = ""
          /\ run'.warned = run.warned \cup FaultWarning(run.fault) /\ run'.left = run.left
          /\ run'.rows = [a \in DOMAIN run'.rows |-> ResolvedRow(a, run)]
       \/ /\ run.query.enrich \notin {"none", "providers"} /\ run.fault # ""
          /\ run'.at = "finish" /\ run'.err = ""
          /\ run'.warned = run.warned \cup FaultWarning(run.fault) /\ run'.left = run.left
          /\ run'.rows = [a \in DOMAIN run'.rows |-> DegradedRow(a, run)]
       \/ /\ run.query.enrich \notin {"none", "providers"} /\ run.fault = ""
          /\ run'.at = "rows" /\ run'.err = run.err
          /\ run'.warned = run.warned /\ run'.left = DOMAIN run'.rows
          /\ run'.rows = [a \in DOMAIN run'.rows |-> Fresh]

\* Detect leaves the listing in one of the four ways.
LEMMA DetectEffect == IsRun(run) /\ Detect => Detected
<1> DEFINE Shown(found) == IF run.query.installed THEN found ELSE Agents
           Rowed(listed) == [run EXCEPT !.rows = [a \in listed |-> Fresh]]
           Next1(listed) ==
               IF run.query.enrich = "none" THEN Return(Rowed(listed), "")
               ELSE IF run.query.enrich = "providers"
               THEN Return(Warn([Rowed(listed) EXCEPT !.rows = [a \in listed |-> ResolvedRow(a, run)]],
                                FaultWarning(run.fault)), "")
               ELSE IF run.fault # "" THEN DegradeListing(Rowed(listed))
               ELSE [Rowed(listed) EXCEPT !.at = "rows", !.left = listed]
<1> SUFFICES ASSUME IsRun(run), run.at = "detect", memo' = memo,
                    NEW found \in SUBSET Agents, run' = Next1(Shown(found))
             PROVE  Detected
  BY DEF Detect, Fresh
<1> DEFINE listed == Shown(found)
<1>0. listed \subseteq Agents
  OBVIOUS
<1>00. run' = Next1(listed)
  OBVIOUS
<1> HIDE DEF listed
<1>1. CASE run.query.enrich = "none"
  <2>1. /\ Keeps({"at", "err", "rows", "left", "warned"})
        /\ run'.at = "finish" /\ run'.err = "" /\ run'.warned = run.warned /\ run'.left = run.left
        /\ run'.rows = [a \in listed |-> Fresh]
    BY <1>00, <1>1 DEF Return, Keeps, IsRun, RunFields
  <2> QED
    BY <1>0, <1>1, <2>1 DEF Detected
<1>2. CASE run.query.enrich = "providers"
  <2>1. /\ Keeps({"at", "err", "rows", "left", "warned"})
        /\ run'.at = "finish" /\ run'.err = "" /\ run'.left = run.left
        /\ run'.warned = run.warned \cup FaultWarning(run.fault)
        /\ run'.rows = [a \in listed |-> ResolvedRow(a, run)]
    BY <1>00, <1>2 DEF Return, Warn, Keeps, IsRun, RunFields
  <2> QED
    BY <1>0, <1>2, <2>1 DEF Detected
<1>3. CASE run.query.enrich \notin {"none", "providers"} /\ run.fault # ""
  <2>1. run' = DegradeListing(Rowed(listed))
    BY <1>00, <1>3
  <2>2. /\ IsRun(Rowed(listed)) /\ \A f \in RunFields \ {"rows"} : Rowed(listed)[f] = run[f]
        /\ DOMAIN Rowed(listed).rows = listed
    BY DEF IsRun, RunFields
  <2> DEFINE fresh == Rowed(listed)
  <2> HIDE DEF Rowed
  <2> DEFINE degraded == [a \in DOMAIN fresh.rows |-> DegradedRow(a, fresh)]
             warning == FaultWarning(fresh.fault)
  <2>3. run' = Return(Warn([fresh EXCEPT !.rows = degraded], warning), "")
    BY <2>1 DEF DegradeListing
  <2>4. degraded = [a \in listed |-> DegradedRow(a, run)] /\ warning = FaultWarning(run.fault)
    <3>1. fresh.ids = run.ids /\ fresh.fault = run.fault
      BY <2>2 DEF RunFields
    <3>2. \A a : DegradedRow(a, fresh) = DegradedRow(a, run)
      BY <3>1 DEF DegradedRow, Inapplicable
    <3> QED
      BY <2>2, <3>1, <3>2
  <2> HIDE DEF degraded, warning
  <2>5. /\ IsRun(run') /\ \A f \in RunFields \ {"at", "err", "rows", "warned"} : run'[f] = fresh[f]
        /\ run'.at = "finish" /\ run'.err = ""
        /\ run'.warned = fresh.warned \cup warning /\ run'.rows = degraded
    BY <2>2, <2>3 DEF Return, Warn, IsRun, RunFields
  <2>6. /\ Keeps({"at", "err", "rows", "left", "warned"})
        /\ run'.left = run.left /\ run'.warned = run.warned \cup warning
    BY <2>2, <2>5, ZenonT(60) DEF Keeps, RunFields
  <2> QED
    BY <1>0, <1>3, <2>4, <2>5, <2>6, ZenonT(60) DEF Detected
<1>4. CASE run.query.enrich \notin {"none", "providers"} /\ run.fault = ""
  <2>1. /\ Keeps({"at", "err", "rows", "left", "warned"})
        /\ run'.at = "rows" /\ run'.err = run.err /\ run'.warned = run.warned
        /\ run'.left = listed
        /\ run'.rows = [a \in listed |-> Fresh]
    BY <1>00, <1>4 DEF Keeps, IsRun, RunFields
  <2> QED
    BY <1>0, <1>4, <2>1, ZenonT(60) DEF Detected
<1> QED
  BY <1>1, <1>2, <1>3, <1>4

\* The providers a row's models come from.
RowIds(a) == IF Agnostic(a) THEN ToSet(run.ids) ELSE Home[a]

\* One row is enriched, is not applicable, or is left for the fault of its read.
Enriched(a) ==
    /\ run.at = "rows" /\ a \in run.left
    /\ Keeps({"rows", "left", "fault"})
    /\ run'.left = run.left \ {a}
    /\ \/ /\ Inapplicable(a, run) /\ memo' = memo /\ run'.fault = run.fault
          /\ run'.rows = [run.rows EXCEPT ![a] = Row("notApplicable", {})]
       \/ \E r \in Replies :
             LET fault == ReadFault(r, RowIds(a))
             IN /\ memo' = r.memo
                /\ \/ /\ fault = "" /\ run'.fault = run.fault
                      /\ run'.rows = [run.rows EXCEPT
                                         ![a] = Row("applied", RowIds(a) \cap r.memo.known)]
                   \/ /\ fault # "" /\ run'.rows = run.rows
                      /\ run'.fault = IF run.fault = "" THEN fault ELSE run.fault

\* enrichListAgent leaves a row in one of the three ways.
LEMMA EnrichRowEffect == ASSUME NEW a, IsRun(run), EnrichRow(a) PROVE Enriched(a)
<1>1. run.at = "rows" /\ a \in run.left
  BY DEF EnrichRow
<1>2. CASE Inapplicable(a, run)
  <2>1. run' = [[run EXCEPT !.left = @ \ {a}] EXCEPT !.rows[a] = Row("notApplicable", {})]
        /\ memo' = memo
    BY <1>2 DEF EnrichRow
  <2>2. /\ Keeps({"rows", "left", "fault"})
        /\ run'.left = run.left \ {a} /\ run'.fault = run.fault
        /\ run'.rows = [run.rows EXCEPT ![a] = Row("notApplicable", {})]
    BY <2>1 DEF Keeps, IsRun, RunFields
  <2> QED
    BY <1>1, <1>2, <2>1, <2>2 DEF Enriched
<1>3. CASE ~ Inapplicable(a, run)
  <2> DEFINE next == [run EXCEPT !.left = @ \ {a}]
  <2>1. PICK r \in Replies :
            /\ memo' = r.memo
            /\ run' = IF ReadFault(r, RowIds(a)) = ""
                      THEN [next EXCEPT !.rows[a] = Row("applied", RowIds(a) \cap r.memo.known)]
                      ELSE [next EXCEPT !.fault = IF run.fault = "" THEN ReadFault(r, RowIds(a)) ELSE @]
    BY <1>3 DEF EnrichRow, RowIds
  <2> DEFINE fault == ReadFault(r, RowIds(a))
             row == Row("applied", RowIds(a) \cap r.memo.known)
  <2>2. CASE fault = ""
    <3>1. run' = [next EXCEPT !.rows[a] = row]
      BY <2>1, <2>2
    <3>0. fault = ""
      BY <2>2
    <3> HIDE DEF row, fault
    <3>2. /\ Keeps({"rows", "left", "fault"})
          /\ run'.left = run.left \ {a} /\ run'.fault = run.fault
          /\ run'.rows = [run.rows EXCEPT ![a] = row]
      BY <3>1 DEF Keeps, IsRun, RunFields
    <3> QED
      BY <1>1, <2>1, <3>0, <3>2 DEF Enriched, row, fault
  <2>3. CASE fault # ""
    <3>1. run' = [next EXCEPT !.fault = IF run.fault = "" THEN fault ELSE @]
      BY <2>1, <2>3
    <3>0. fault # ""
      BY <2>3
    <3> HIDE DEF row, fault
    <3>2. /\ Keeps({"rows", "left", "fault"})
          /\ run'.left = run.left \ {a} /\ run'.rows = run.rows
          /\ run'.fault = IF run.fault = "" THEN fault ELSE run.fault
      BY <3>1 DEF Keeps, IsRun, RunFields
    <3> QED
      BY <1>1, <2>1, <3>0, <3>2 DEF Enriched, fault
  <2> QED
    BY <2>2, <2>3
<1> QED
  BY <1>2, <1>3

\* A listing met no fault, or is degraded as a whole.
LEMMA RowsDoneEffect ==
    IsRun(run) /\ RowsDone =>
        /\ run.at = "rows" /\ run.left = {} /\ memo' = memo
        /\ Keeps({"at", "err", "rows", "warned"})
        /\ run'.at = "finish" /\ run'.err = ""
        /\ \/ run.fault = "" /\ run'.rows = run.rows /\ run'.warned = run.warned
           \/ /\ run.fault # "" /\ run'.warned = run.warned \cup FaultWarning(run.fault)
              /\ run'.rows = [a \in DOMAIN run.rows |-> DegradedRow(a, run)]
<1>1. IsRun(run) /\ RowsDone /\ run.fault = "" =>
          /\ Keeps({"at", "err", "rows", "warned"})
          /\ run'.at = "finish" /\ run'.err = "" /\ run'.rows = run.rows /\ run'.warned = run.warned
  BY DEF RowsDone, Return, Keeps, IsRun, RunFields
<1>2. IsRun(run) /\ RowsDone /\ run.fault # "" =>
          /\ Keeps({"at", "err", "rows", "warned"})
          /\ run'.at = "finish" /\ run'.err = ""
          /\ run'.warned = run.warned \cup FaultWarning(run.fault)
          /\ run'.rows = [a \in DOMAIN run.rows |-> DegradedRow(a, run)]
  BY DEF RowsDone, DegradeListing, Return, Warn, Keeps, IsRun, RunFields
<1> QED
  BY <1>1, <1>2 DEF RowsDone

\* The caller's ids are validated.
LEMMA ScopeToProvidersEffect ==
    IsRun(run) /\ ScopeToProviders =>
        /\ run.at = "start" /\ run'.at = "validate" /\ run.query.op = "modelsList"
        /\ memo' = memo /\ Keeps({"at", "ids"}) /\ run'.ids = Caller(run)
  BY DEF ScopeToProviders, Keeps, IsRun, RunFields

\* A read of the exact gets, of a listing's ids or of the providers.
LEMMA ScopeToAllEffect ==
    IsRun(run) /\ ScopeToAll =>
        /\ run.at = "start" /\ run.query.op = "modelsList"
        /\ Keeps({"at", "asked", "ids", "err"}) /\ run'.asked = TRUE
        /\ \E r \in Replies :
              /\ memo' = r.memo
              /\ \/ r.fault # "" /\ run'.at = "finish" /\ run'.err = mapModelsErr(r.fault)
                 \/ r.fault = "" /\ run'.at = "models" /\ run'.err = run.err
  BY DEF ScopeToAll, Return, Keeps, IsRun, RunFields

\* An agent's providers are listed, or the caller's validated, or some are missing.
LEMMA ScopeToAgentEffect ==
    IsRun(run) /\ ScopeToAgent =>
        /\ run.at = "modelsList" /\ memo' = memo /\ Keeps({"at", "ids", "err"})
        /\ \/ run'.at = "models" /\ run'.err = run.err
           \/ run'.at = "finish" /\ run'.err = "providersRequired"
           \/ run'.at = "validate" /\ run'.err = run.err /\ run'.ids = Caller(run)
  BY DEF ScopeToAgent, Resolved, Return, Keeps, IsRun, RunFields

\* The models of the resolved ids are listed, or the fault of the read is.
LEMMA ListModelsEffect ==
    IsRun(run) /\ ListModels =>
        /\ run.at = "models" /\ Keeps({"at", "asked", "err", "models"})
        /\ run'.at = "finish" /\ run'.asked = TRUE
        /\ \E r \in Replies :
              LET fault == ReadFault(r, ToSet(run.ids))
              IN /\ memo' = r.memo
                 /\ \/ fault # "" /\ run'.err = mapModelsErr(fault) /\ run'.models = run.models
                    \/ /\ fault = "" /\ run'.err = ""
                       /\ run'.models = ToSet(run.ids) \cap r.memo.known
  BY DEF ListModels, Return, Keeps, IsRun, RunFields

\* An exact get ends with the id it was asked for, or with an error.
LEMMA GetOneEffect ==
    IsRun(run) /\ GetOne =>
        /\ run.at = "start" /\ run.query.op \in {"modelsGet", "providersGet"}
        /\ Keeps({"at", "asked", "err", "models"})
        /\ run'.at = "done" /\ run'.asked = TRUE
        /\ \E r \in Replies :
              LET id == Head(run.query.providers)
                  fault == ReadFault(r, {id})
              IN /\ memo' = r.memo
                 /\ \/ fault # "" /\ run'.err = mapModelsErr(fault) /\ run'.models = run.models
                    \/ fault = "" /\ run'.err = "notFound" /\ run'.models = run.models
                    \/ /\ fault = "" /\ run'.err = run.err
                       /\ id \in r.memo.known /\ run'.models = {id}
  BY DEF GetOne, Keeps, IsRun, RunFields

\* Providers.List ends with the catalog's providers, or with the fault.
LEMMA ListProvidersEffect ==
    IsRun(run) /\ ListProviders =>
        /\ run.at = "start" /\ run.query.op = "providersList"
        /\ Keeps({"at", "asked", "err", "models"}) /\ run'.asked = TRUE
        /\ \E r \in Replies :
              /\ memo' = r.memo
              /\ \/ /\ r.fault # "" /\ run'.at = "done" /\ run'.err = mapModelsErr(r.fault)
                    /\ run'.models = run.models
                 \/ r.fault = "" /\ run'.at = "finish" /\ run'.err = "" /\ run'.models = r.memo.known
  BY DEF ListProviders, Return, Keeps, IsRun, RunFields

\* Staleness is added if models.dev was asked and is stale.
LEMMA FinishEffect ==
    IsRun(run) /\ Finish =>
        /\ run.at = "finish" /\ run'.at = "done" /\ memo' = memo /\ Keeps({"at", "warned"})
        /\ \/ run.asked /\ memo # None /\ memo.stale /\ run'.warned = run.warned \cup {"modelsStale"}
           \/ ~ (run.asked /\ memo # None /\ memo.stale) /\ run'.warned = run.warned
<1> DEFINE speaks == run.asked /\ memo # None /\ memo.stale
<1>1. IsRun(run) /\ Finish /\ speaks =>
          /\ run'.at = "done" /\ Keeps({"at", "warned"})
          /\ run'.warned = run.warned \cup {"modelsStale"}
  BY DEF Finish, Warn, Keeps, IsRun, RunFields
<1>2. IsRun(run) /\ Finish /\ ~ speaks =>
          run'.at = "done" /\ Keeps({"at", "warned"}) /\ run'.warned = run.warned
  <2>1. Finish /\ ~ speaks => run' = [Warn(run, {}) EXCEPT !.at = "done"]
    BY DEF Finish
  <2>2. IsRun(run) /\ run' = [Warn(run, {}) EXCEPT !.at = "done"] =>
            /\ run'.at = "done" /\ Keeps({"at", "warned"})
            /\ run'.warned = run.warned \cup {}
    BY DEF Warn, Keeps, IsRun, RunFields
  <2> QED
    BY <2>1, <2>2
<1> QED
  BY <1>1, <1>2 DEF Finish

-----------------------------------------------------------------------------
(* First layer: types.                                                     *)

States == {"notRequested", "applied", "notApplicable", "degraded"}
Coverages == {"notProbed", "allPresent", "somePresent", "nonePresent", "unreachable", "schema"}
ReadErrors == {"modelsSchema", "modelsUnavailable"}
Errors == CatalogErrors \cup ReadErrors \cup
              {"", "agentUnknown", "unknownProvider", "providersNotAllowed",
               "providersRequired", "notFound", "malformedModelID", "context"}
Places == {"start", "validate", "probe", "probeListing", "detect", "rows", "models",
           "finish", "done"} \cup Operations

RowType(rows) ==
    /\ DOMAIN rows \subseteq Agents
    /\ rows \in [DOMAIN rows -> [state : States, models : SUBSET Providers]]

Types ==
    /\ memo \in Memos \cup {None}
    /\ IsRun(run)
    /\ run.at \in Places /\ run.query \in Queries
    /\ run.fault \in Faults \cup {"", "unknown"}
    /\ run.err \in Errors
    /\ run.state \in States
    /\ run.coverage \in Coverages
    /\ RowType(run.rows)
    /\ run.left \subseteq DOMAIN run.rows
    /\ run.at # "rows" => run.left = {}

\* The empty listing has no rows ...
LEMMA NoDomain == DOMAIN <<>> = {}
  OBVIOUS

\* ... and is well typed.
LEMMA NoRows == RowType(<<>>)
<1>1. \A S : <<>> \in [{} -> S]
  BY NoDomain
<1> QED
  BY <1>1, NoDomain DEF RowType

\* Rows are given one by one.
LEMMA RowsByRow ==
    ASSUME NEW rows, DOMAIN rows \subseteq Agents, rows = [a \in DOMAIN rows |-> rows[a]],
           \A a \in DOMAIN rows : rows[a] \in [state : States, models : SUBSET Providers]
    PROVE  RowType(rows)
  BY DEF RowType

\* The layer is TypeOK, and what it takes to keep it.
LEMMA TypesImply == Types => TypeOK
  BY DEF Types, TypeOK, RowType, Places, Errors, ReadErrors, Faults, States, Coverages, Listed

\* The error of a fault is of its kind.
LEMMA mapModelsErrParts ==
    \A f \in Faults : /\ mapModelsErr(f) \in ReadErrors
                      /\ mapModelsErr(f) = "modelsUnavailable" => f = "unreachable"
  BY DEF Faults, ReadErrors, mapModelsErr

\* Types hold at first.
LEMMA TypesInit == Init => Types
<1> SUFFICES ASSUME Init PROVE Types
  OBVIOUS
<1>1. PICK q \in Queries : run = [NewRun(q, memo # None) EXCEPT !.at = "done"]
  BY DEF Init
<1>2. /\ IsRun(run) /\ run.at = "done" /\ run.query = q /\ run.fault = "" /\ run.err = ""
      /\ run.state = "notRequested" /\ run.coverage = "notProbed"
      /\ run.left = {} /\ run.rows = <<>>
  BY <1>1 DEF NewRun, IsRun, RunFields
<1>3. RowType(run.rows)
  BY <1>2, NoRows
<1> QED
  BY <1>2, <1>3 DEF Init, Types, Places, Faults, Errors, States, Coverages

\* What is kept has the type it had.
LEMMA TypesKept ==
    ASSUME Types, memo' \in Memos \cup {None}, NEW F, Keeps(F),
           "at" \in F => run'.at \in Places,
           "query" \in F => run'.query \in Queries,
           "fault" \in F => run'.fault \in Faults \cup {"", "unknown"},
           "err" \in F => run'.err \in Errors,
           "state" \in F => run'.state \in States,
           "coverage" \in F => run'.coverage \in Coverages,
           RowType(run'.rows), run'.left \subseteq DOMAIN run'.rows,
           run'.at # "rows" => run'.left = {}
    PROVE  Types'
<1>1. run'.at \in Places /\ run'.query \in Queries
  BY DEF Types, Keeps, RunFields
<1>2. run'.fault \in Faults \cup {"", "unknown"} /\ run'.err \in Errors
  BY DEF Types, Keeps, RunFields
<1>3. run'.state \in States /\ run'.coverage \in Coverages
  BY DEF Types, Keeps, RunFields
<1> QED
  BY <1>1, <1>2, <1>3 DEF Types, Keeps

\* So have the rows of a step that is not the listing's.
LEMMA RowsKept ==
    ASSUME Types, NEW F, Keeps(F), F \cap {"rows", "left"} = {}, run.left = {}
    PROVE  /\ RowType(run'.rows) /\ run'.left \subseteq DOMAIN run'.rows
           /\ run'.at # "rows" => run'.left = {}
  BY DEF Types, Keeps, RunFields

\* Every step keeps them, by its effect.
LEMMA TypesStep == Types /\ [Next]_vars => Types'
<1> SUFFICES ASSUME Types, [Next]_vars PROVE Types'
  OBVIOUS
<1>m. memo \in Memos \cup {None} /\ IsRun(run)
  BY DEF Types
<1>r. \A r \in Replies : r.memo \in Memos \cup {None}
  BY <1>m, RepliesParts
<1>l. run.at # "rows" => run.left = {}
  BY DEF Types
<1>1. CASE Begin
  <2>1. RowType(run'.rows)
    BY <1>1, BeginEffect, NoRows
  <2> QED
    BY <1>1, <1>m, <2>1, BeginEffect DEF Types, Places, Faults, Errors, States, Coverages
<1>2. CASE OtherFills
  BY <1>2 DEF OtherFills, Types
<1>3. CASE CatalogFails \/ AgentUnknown \/ ProvidersNotAllowed \/ ContextEnds \/ MalformedModelID
  <2>1. PICK e \in RefusalErrors : Refused(e)
    BY <1>3, <1>m, Refusals
  <2>2. run'.at \in Places /\ run'.err \in Errors
    BY <2>1 DEF Refused, RefusalErrors, Errors, Places
  <2> QED
    BY <1>m, <1>l, <2>1, <2>2, TypesKept, RowsKept DEF Refused
<1>4. CASE CatalogResolved
  <2>1. run.query.op \in Operations
    BY ConstantsAssumption DEF Types, Queries
  <2> QED
    BY <1>4, <1>m, <1>l, <2>1, CatalogResolvedEffect, TypesKept, RowsKept DEF Places
<1>5. CASE ValidateForAgent
  <2>1. PICK r \in Replies : memo' = r.memo /\ ForAgent(Verdict(r, run.ids))
    BY <1>5, <1>m, ValidateForAgentEffect
  <2>2. run'.at \in Places /\ run'.err \in Errors /\ run'.state \in States
    BY <2>1 DEF ForAgent, Places, Errors, States, Types
  <2>3. run'.fault \in Faults \cup {"", "unknown"}
    BY <1>m, <2>1, VerdictParts DEF ForAgent
  <2> QED
    BY <1>m, <1>r, <1>l, <2>1, <2>2, <2>3, TypesKept, RowsKept DEF ForAgent
<1>6. CASE ValidateForListing
  <2>1. run'.at \in Places /\ run'.err \in Errors
    BY <1>6, <1>m, ValidateForListingEffect DEF Places, Errors, Types
  <2> QED
    BY <1>6, <1>m, <1>r, <1>l, <2>1, ValidateForListingEffect, VerdictParts, TypesKept, RowsKept
<1>7. CASE ValidateForModels
  <2>1. run'.at \in Places /\ run'.err \in Errors
    BY <1>7, <1>m, ValidateForModelsEffect DEF Places, Errors, ReadErrors, Types
  <2> QED
    BY <1>7, <1>m, <1>r, <1>l, <2>1, ValidateForModelsEffect, TypesKept, RowsKept
<1>8. CASE GetAgent
  <2>1. run'.at \in Places /\ run'.err \in Errors /\ run'.state \in States
    BY <1>8, <1>m, GetAgentEffect DEF Places, Errors, States, Types
  <2> QED
    BY <1>8, <1>m, <1>l, <2>1, GetAgentEffect, TypesKept, RowsKept
<1>9. CASE ProbeCoverage
  <2>1. PICK r \in Replies : memo' = r.memo /\ Probed(r)
    BY <1>9, <1>m, ProbeCoverageEffect
  <2>2. ReadFault(r, ToSet(run.ids)) \in Faults \cup {""}
    BY <1>m, ReadFaultParts
  <2>3. run'.at \in Places /\ run'.err \in Errors /\ run'.state \in States /\ run'.coverage \in Coverages
    BY <2>1, <2>2 DEF Probed, Places, Errors, States, Coverages, Faults
  <2> QED
    BY <1>m, <1>r, <1>l, <2>1, <2>3, TypesKept, RowsKept DEF Probed
<1>10. CASE ListAgents
  BY <1>10, <1>m, <1>l, ListAgentsEffect, TypesKept, RowsKept DEF Places, Operations
<1>11. CASE ProbeListing
  <2>1. run'.fault \in Faults \cup {"", "unknown"}
    BY <1>11, <1>m, ProbeListingEffect DEF Faults, Types
  <2> QED
    BY <1>11, <1>m, <1>r, <1>l, <2>1, ProbeListingEffect, TypesKept, RowsKept DEF Places
<1>12. CASE Detect
  <2>1. Detected
    BY <1>12, <1>m, DetectEffect
  <2>2. /\ Fresh \in [state : States, models : SUBSET Providers]
        /\ \A a : ResolvedRow(a, run) \in [state : States, models : SUBSET Providers]
        /\ \A a : DegradedRow(a, run) \in [state : States, models : SUBSET Providers]
    BY DEF Fresh, Row, ResolvedRow, DegradedRow, States
  <2>3. RowType(run'.rows)
    <3>1. \/ run'.rows = [a \in DOMAIN run'.rows |-> Fresh]
          \/ run'.rows = [a \in DOMAIN run'.rows |-> ResolvedRow(a, run)]
          \/ run'.rows = [a \in DOMAIN run'.rows |-> DegradedRow(a, run)]
      BY <2>1 DEF Detected
    <3>2. /\ run'.rows = [a \in DOMAIN run'.rows |-> run'.rows[a]]
          /\ \A a \in DOMAIN run'.rows :
                run'.rows[a] \in [state : States, models : SUBSET Providers]
      BY <2>2, <3>1
    <3> QED
      BY <2>1, <3>2, RowsByRow DEF Detected
  <2>4. run'.left \subseteq DOMAIN run'.rows /\ (run'.at # "rows" => run'.left = {})
    BY <1>l, <2>1 DEF Detected
  <2>5. run'.at \in Places /\ run'.err \in Errors
    BY <2>1 DEF Detected, Places, Errors, Types
  <2> QED
    BY <1>m, <2>1, <2>3, <2>4, <2>5, TypesKept DEF Detected
<1>13. ASSUME NEW a \in Agents, EnrichRow(a) PROVE Types'
  <2>1. Enriched(a)
    BY <1>13, <1>m, EnrichRowEffect
  <2>2. memo' \in Memos \cup {None} /\ run'.fault \in Faults \cup {"", "unknown"}
    <3>1. \A r \in Replies : ReadFault(r, RowIds(a)) \in Faults \cup {""}
      BY <1>m, ReadFaultParts
    <3>2. memo' = memo \/ \E r \in Replies : memo' = r.memo
      BY <2>1 DEF Enriched
    <3>3. \/ run'.fault = run.fault
          \/ \E r \in Replies : run'.fault = ReadFault(r, RowIds(a))
      BY <2>1 DEF Enriched
    <3>4. run.fault \in Faults \cup {"", "unknown"}
      BY DEF Types
    <3>5. memo' \in Memos \cup {None}
      BY <1>m, <1>r, <3>2
    <3> QED
      BY <3>1, <3>3, <3>4, <3>5
  <2>3. /\ DOMAIN run'.rows = DOMAIN run.rows
        /\ \E row \in [state : States, models : SUBSET Providers] :
              run'.rows \in {run.rows, [run.rows EXCEPT ![a] = row]}
    <3>1. Row("notApplicable", {}) \in [state : States, models : SUBSET Providers]
      BY DEF Row, States
    <3>2. ASSUME NEW r \in Replies, ReadFault(r, RowIds(a)) = ""
          PROVE  Row("applied", RowIds(a) \cap r.memo.known)
                    \in [state : States, models : SUBSET Providers]
      BY <1>m, <3>2, ReadFaultParts, MemoParts DEF Row, States
    <3> QED
      BY <2>1, <3>1, <3>2 DEF Enriched
  <2>4. RowType(run'.rows)
    BY <2>3 DEF Types, RowType
  <2>5. run'.left \subseteq DOMAIN run'.rows /\ run'.at = "rows"
    BY <2>1, <2>3 DEF Enriched, Types, Keeps, RunFields
  <2> QED
    BY <2>1, <2>2, <2>4, <2>5, TypesKept DEF Enriched
<1>14. CASE RowsDone
  <2>1. \A a : DegradedRow(a, run) \in [state : States, models : SUBSET Providers]
    BY DEF Row, DegradedRow, States
  <2>2. RowType(run'.rows)
    <3>1. run'.rows = run.rows \/ run'.rows = [a \in DOMAIN run.rows |-> DegradedRow(a, run)]
      BY <1>14, <1>m, RowsDoneEffect
    <3>2. CASE run'.rows = run.rows
      BY <3>2 DEF Types
    <3>3. CASE run'.rows = [a \in DOMAIN run.rows |-> DegradedRow(a, run)]
      <4>1. DOMAIN run'.rows = DOMAIN run.rows
        BY <3>3
      <4>2. \A a \in DOMAIN run'.rows : run'.rows[a] = DegradedRow(a, run)
        BY <3>3
      <4>3. run'.rows = [a \in DOMAIN run'.rows |-> run'.rows[a]]
        BY <3>3
      <4>4. DOMAIN run'.rows \subseteq Agents
        BY <4>1 DEF Types, RowType
      <4>5. \A a \in DOMAIN run'.rows :
                run'.rows[a] \in [state : States, models : SUBSET Providers]
        BY <2>1, <4>2
      <4> QED
        BY <4>3, <4>4, <4>5, RowsByRow
    <3> QED
      BY <3>1, <3>2, <3>3
  <2>3. run'.left = {}
    BY <1>14, <1>m, RowsDoneEffect DEF Keeps, RunFields
  <2> QED
    BY <1>14, <1>m, <2>2, <2>3, RowsDoneEffect, TypesKept DEF Places, Errors
<1>15. CASE ScopeToProviders
  BY <1>15, <1>m, <1>l, ScopeToProvidersEffect, TypesKept, RowsKept DEF Places
<1>16. CASE ScopeToAll
  <2>1. run'.at \in Places /\ run'.err \in Errors
    BY <1>16, <1>m, ScopeToAllEffect, RepliesParts, mapModelsErrParts DEF Places, Errors, Types
  <2> QED
    BY <1>16, <1>m, <1>r, <1>l, <2>1, ScopeToAllEffect, TypesKept, RowsKept
<1>17. CASE ScopeToAgent
  <2>1. run'.at \in Places /\ run'.err \in Errors
    BY <1>17, <1>m, ScopeToAgentEffect DEF Places, Errors, Types
  <2> QED
    BY <1>17, <1>m, <1>l, <2>1, ScopeToAgentEffect, TypesKept, RowsKept
<1>18. CASE ListModels
  <2>1. run'.at \in Places /\ run'.err \in Errors
    BY <1>18, <1>m, ListModelsEffect, ReadFaultParts, mapModelsErrParts DEF Places, Errors
  <2> QED
    BY <1>18, <1>m, <1>r, <1>l, <2>1, ListModelsEffect, TypesKept, RowsKept
<1>19. CASE GetOne
  <2>1. run'.at \in Places /\ run'.err \in Errors
    BY <1>19, <1>m, GetOneEffect, ReadFaultParts, mapModelsErrParts DEF Places, Errors, Types
  <2> QED
    BY <1>19, <1>m, <1>r, <1>l, <2>1, GetOneEffect, TypesKept, RowsKept
<1>20. CASE ListProviders
  <2>1. run'.at \in Places /\ run'.err \in Errors
    BY <1>20, <1>m, ListProvidersEffect, RepliesParts, mapModelsErrParts DEF Places, Errors
  <2> QED
    BY <1>20, <1>m, <1>r, <1>l, <2>1, ListProvidersEffect, TypesKept, RowsKept
<1>21. CASE Finish
  BY <1>21, <1>m, <1>l, FinishEffect, TypesKept, RowsKept DEF Places
<1>22. CASE UNCHANGED vars
  BY <1>22 DEF vars, Types
<1> QED
  BY <1>1, <1>2, <1>3, <1>4, <1>5, <1>6, <1>7, <1>8, <1>9, <1>10, <1>11, <1>12, <1>13, <1>14,
     <1>15, <1>16, <1>17, <1>18, <1>19, <1>20, <1>21, <1>22 DEF Next, Progress

\* TypeOK: the state has its shape, and no step leaves it.
THEOREM TypeCorrect == Spec => []TypeOK
  BY TypesInit, TypesStep, TypesImply, PTL DEF Spec

-----------------------------------------------------------------------------
(* Second layer: what is known while an operation is under way.            *)

Listing == {"probeListing", "detect", "rows"}

\* Until it ends, an operation has no error, no data and no warning but the
\* agent catalog's; a listing that goes on met no unknown id.
Stations ==
    /\ run.at \in Operations => run.query.op = run.at
    /\ run.at \in {"start", "validate"} \cup Operations => run.fault = ""
    /\ run.at = "probe" => run.query.op = "agentsGet"
    /\ run.at = "models" => run.query.op = "modelsList"
    /\ run.at \in Listing => run.query.op = "agentsList" /\ run.fault # "unknown"
    /\ run.at = "detect" /\ run.fault = "" /\ AtLeast(run.query, "count") => run.asked
    /\ run.at = "rows" => AtLeast(run.query, "count") /\ run.asked
    /\ ~ Ended => /\ run.err = "" /\ run.state = "notRequested" /\ run.models = {}
                  /\ run.warned \subseteq {"staleCatalog"}
    /\ run.at \notin {"rows", "finish", "done"} => run.rows = <<>>

\* No operation is under way at first.
LEMMA StationsInit == Init => Stations
<1> SUFFICES ASSUME Init PROVE Stations
  OBVIOUS
<1>1. run.at = "done"
  BY DEF Init, NewRun
<1> QED
  BY <1>1 DEF Stations, Listing, Operations, Ended

\* Every step goes from one station to the next.
LEMMA StationsStep == Types /\ Stations /\ [Next]_vars => Stations'
<1> SUFFICES ASSUME Types, Stations, [Next]_vars PROVE Stations'
  OBVIOUS
<1>m. memo \in Memos \cup {None} /\ IsRun(run)
  BY DEF Types
<1> USE DEF Stations, Listing, Operations, Ended, Keeps, RunFields
<1>1. CASE Begin
  BY <1>1, BeginEffect
<1>2. CASE OtherFills
  BY <1>2 DEF OtherFills
<1>3. CASE CatalogFails \/ AgentUnknown \/ ProvidersNotAllowed \/ ContextEnds \/ MalformedModelID
  BY <1>3, <1>m, Refusals DEF Refused
<1>4. CASE CatalogResolved
  BY <1>4, <1>m, ConstantsAssumption, CatalogResolvedEffect DEF Types, Queries
<1>5. CASE ValidateForAgent
  <2>1. PICK r \in Replies : memo' = r.memo /\ ForAgent(Verdict(r, run.ids))
    BY <1>5, <1>m, ValidateForAgentEffect
  <2>2. run'.at \in {"finish", "probe"} /\ run'.query = run.query
    BY <2>1 DEF ForAgent
  <2>3. run'.rows = <<>>
    BY <2>1 DEF ForAgent
  <2>4. CASE run'.at = "finish"
    BY <2>3, <2>4
  <2>5. CASE run'.at = "probe"
    <3>1. /\ run'.err = "" /\ run'.state = "notRequested" /\ run'.models = {}
          /\ run'.warned \subseteq {"staleCatalog"} /\ run'.query.op = "agentsGet"
      BY <2>1, <2>5, ZenonT(60) DEF ForAgent
    <3> QED
      BY <2>3, <2>5, <3>1
  <2> QED
    BY <2>2, <2>4, <2>5
<1>6. CASE ValidateForListing
  BY <1>6, <1>m, ValidateForListingEffect, ZenonT(60)
<1>7. CASE ValidateForModels
  BY <1>7, <1>m, ValidateForModelsEffect, ZenonT(60)
<1>8. CASE GetAgent
  BY <1>8, <1>m, GetAgentEffect
<1>9. CASE ProbeCoverage
  BY <1>9, <1>m, ProbeCoverageEffect DEF Probed
<1>10. CASE ListAgents
  BY <1>10, <1>m, ListAgentsEffect
<1>11. CASE ProbeListing
  <2>1. run'.query = run.query
    BY <1>11, <1>m, ProbeListingEffect
  <2> QED
    BY <1>11, <1>m, <2>1, ProbeListingEffect, ZenonT(60)
<1>12. CASE Detect
  <2>1. Detected
    BY <1>12, <1>m, DetectEffect
  <2>2. run'.query = run.query /\ run.query \in Queries
    BY <2>1 DEF Detected, Types
  <2> QED
    <3>1. CASE run'.at = "rows"
      <4>1. AtLeast(run.query, "count") /\ run.fault = ""
        BY <2>1, <2>2, <3>1, LevelParts DEF Detected
      <4>2. AtLeast(run.query, "count")' /\ run'.asked
        BY <2>1, <2>2, <4>1, ZenonT(60) DEF Detected
      <4> QED
        <5>1. run'.err = run.err /\ run'.warned = run.warned
          BY <2>1, <3>1 DEF Detected
        <5>2. /\ run'.state = run.state /\ run'.models = run.models
              /\ run'.fault = run.fault /\ run'.query = run.query
          BY <2>1, ZenonT(60) DEF Detected
        <5>3. /\ run.err = "" /\ run.state = "notRequested" /\ run.models = {}
              /\ run.warned \subseteq {"staleCatalog"} /\ run.query.op = "agentsList"
          BY <2>1 DEF Detected
        <5> QED
          BY <3>1, <4>1, <4>2, <5>1, <5>2, <5>3
    <3>2. CASE run'.at = "finish"
      BY <2>1, <3>2 DEF Detected
    <3> QED
      BY <2>1, <3>1, <3>2 DEF Detected
<1>13. ASSUME NEW a \in Agents, EnrichRow(a) PROVE Stations'
  <2>1. Enriched(a)
    BY <1>13, <1>m, EnrichRowEffect
  <2>2. run'.fault # "unknown"
    BY <1>m, <2>1, ReadFaultParts DEF Enriched, Faults
  <2>3. /\ run'.at = "rows" /\ run'.query = run.query /\ run'.err = run.err
        /\ run'.state = run.state /\ run'.models = run.models /\ run'.warned = run.warned
        /\ run'.asked = run.asked /\ run.at = "rows"
    BY <2>1 DEF Enriched
  <2>4. AtLeast(run.query, "count")' <=> AtLeast(run.query, "count")
    BY <2>3
  <2> QED
    BY <2>2, <2>3, <2>4
<1>14. CASE RowsDone
  BY <1>14, <1>m, RowsDoneEffect
<1>15. CASE ScopeToProviders
  BY <1>15, <1>m, ScopeToProvidersEffect
<1>16. CASE ScopeToAll
  BY <1>16, <1>m, ScopeToAllEffect
<1>17. CASE ScopeToAgent
  BY <1>17, <1>m, ScopeToAgentEffect
<1>18. CASE ListModels
  BY <1>18, <1>m, ListModelsEffect
<1>19. CASE GetOne
  BY <1>19, <1>m, GetOneEffect
<1>20. CASE ListProviders
  BY <1>20, <1>m, ListProvidersEffect
<1>21. CASE Finish
  BY <1>21, <1>m, FinishEffect
<1>22. CASE UNCHANGED vars
  BY <1>22 DEF vars
<1> QED
  BY <1>1, <1>2, <1>3, <1>4, <1>5, <1>6, <1>7, <1>8, <1>9, <1>10, <1>11, <1>12, <1>13, <1>14,
     <1>15, <1>16, <1>17, <1>18, <1>19, <1>20, <1>21, <1>22 DEF Next, Progress

\* An operation that has nothing to show but the agent catalog's warning.
EmptyHanded ==
    /\ run.state = "notRequested" /\ run.models = {} /\ run.rows = <<>>
    /\ run.warned \subseteq {"staleCatalog"}

\* The steps that leave the operation so: those of its beginning and errors.
Beginnings ==
    \/ Begin \/ CatalogFails \/ AgentUnknown \/ ProvidersNotAllowed \/ ContextEnds
    \/ MalformedModelID \/ CatalogResolved \/ ValidateForListing \/ ValidateForModels
    \/ ListAgents \/ ProbeListing \/ ScopeToProviders \/ ScopeToAll \/ ScopeToAgent

\* They leave it so.
LEMMA BeginningsAreEmpty == Types /\ Stations /\ Beginnings => EmptyHanded'
<1> SUFFICES ASSUME Types, Stations, Beginnings PROVE EmptyHanded'
  OBVIOUS
<1>m. memo \in Memos \cup {None} /\ IsRun(run)
  BY DEF Types
<1> USE DEF Stations, EmptyHanded, Ended, Keeps, RunFields
<1>1. CASE Begin
  BY <1>1, BeginEffect
<1>2. CASE CatalogFails \/ AgentUnknown \/ ProvidersNotAllowed \/ ContextEnds \/ MalformedModelID
  BY <1>2, <1>m, Refusals DEF Refused
<1>3. CASE CatalogResolved
  BY <1>3, <1>m, CatalogResolvedEffect
<1>4. CASE ValidateForListing
  BY <1>4, <1>m, ValidateForListingEffect
<1>5. CASE ValidateForModels
  BY <1>5, <1>m, ValidateForModelsEffect
<1>6. CASE ListAgents
  BY <1>6, <1>m, ListAgentsEffect
<1>7. CASE ProbeListing
  BY <1>7, <1>m, ProbeListingEffect
<1>8. CASE ScopeToProviders
  BY <1>8, <1>m, ScopeToProvidersEffect
<1>9. CASE ScopeToAll
  BY <1>9, <1>m, ScopeToAllEffect
<1>10. CASE ScopeToAgent
  BY <1>10, <1>m, ScopeToAgentEffect
<1> QED
  BY <1>1, <1>2, <1>3, <1>4, <1>5, <1>6, <1>7, <1>8, <1>9, <1>10 DEF Beginnings

\* So an operation is before it validates or probes for its agent, lists or reads.
LEMMA EmptyBefore ==
    ASSUME Stations, ~ Ended, run.at # "rows"
    PROVE  EmptyHanded /\ run.err = ""
  BY DEF Stations, EmptyHanded, Ended

-----------------------------------------------------------------------------
(* Third layer: where data come from.                                      *)

Gets == {"modelsGet", "providersGet"}

\* There are data only when models.dev was asked and the client has a catalog;
\* staleness is spoken of only when it was asked, and at the end whenever the
\* data are of a stale catalog.
Provenance ==
    /\ HasData => run.asked /\ memo # None
    /\ "modelsStale" \in run.warned => run.asked
    /\ run.at = "done" /\ HasData /\ memo.stale /\ run.query.op \notin Gets =>
          "modelsStale" \in run.warned

\* An operation with nothing to show has no data.
LEMMA EmptyHasNoData == EmptyHanded => ~ HasData
  BY DEF EmptyHanded, HasData, Listed

\* There are no data at first.
LEMMA ProvenanceInit == Init => Provenance
<1> SUFFICES ASSUME Init PROVE Provenance
  OBVIOUS
<1>1. run.warned = {} /\ run.models = {} /\ run.rows = <<>>
  BY DEF Init, NewRun
<1> QED
  BY <1>1 DEF Provenance, HasData, Listed

\* Data come only with a reply, so that the client has a catalog and was asked.
LEMMA ProvenanceStep == Types /\ Stations /\ Provenance /\ [Next]_vars => Provenance'
<1> SUFFICES ASSUME Types, Stations, Provenance, [Next]_vars PROVE Provenance'
  OBVIOUS
<1>m. memo \in Memos \cup {None} /\ IsRun(run)
  BY DEF Types
<1> USE DEF Keeps, RunFields
<1>1. CASE Beginnings
  BY <1>1, BeginningsAreEmpty, EmptyHasNoData DEF EmptyHanded, Provenance, HasData, Listed
<1>2. CASE OtherFills
  BY <1>2, MemoParts DEF OtherFills, Provenance, HasData, Listed
<1>3. CASE ValidateForAgent
  <2>1. EmptyHanded
    BY <1>3, <1>m, ValidateForAgentEffect, EmptyBefore DEF ForAgent, Ended
  <2>2. run'.models = {} /\ run'.rows = <<>> /\ run'.asked = TRUE
    BY <1>3, <1>m, <2>1, ValidateForAgentEffect, ZenonT(60) DEF ForAgent, EmptyHanded
  <2> QED
    BY <2>2 DEF Provenance, HasData, Listed
<1>4. CASE GetAgent
  <2>1. EmptyHanded
    BY <1>4, <1>m, GetAgentEffect, EmptyBefore DEF Ended
  <2>2. run'.models = {} /\ run'.rows = <<>> /\ "modelsStale" \notin run'.warned
    <3>1. run'.models = {} /\ run'.rows = <<>>
      BY <1>4, <1>m, <2>1, GetAgentEffect DEF EmptyHanded
    <3>2. run'.warned \subseteq {"staleCatalog", "providersRequired"}
      BY <1>4, <1>m, <2>1, GetAgentEffect DEF EmptyHanded
    <3> QED
      BY <3>1, <3>2
  <2> QED
    BY <2>2 DEF Provenance, HasData, Listed
<1>5. CASE ProbeCoverage
  <2>1. PICK r \in Replies : memo' = r.memo /\ Probed(r)
    BY <1>5, <1>m, ProbeCoverageEffect
  <2>2. EmptyHanded
    BY <2>1, EmptyBefore DEF Probed, Ended
  <2>3. run'.rows = <<>> /\ run'.asked = TRUE /\ run'.at = "finish"
    BY <2>1, <2>2 DEF Probed, EmptyHanded
  <2>4. run'.models # {} => memo' # None
    BY <1>m, <2>1, <2>2, ReadFaultParts, MemoParts DEF Probed, EmptyHanded
  <2> QED
    BY <2>3, <2>4 DEF Provenance, HasData, Listed
<1>6. CASE Detect
  <2>1. Detected
    BY <1>6, <1>m, DetectEffect
  <2>2. EmptyHanded
    BY <2>1, EmptyBefore DEF Detected, Ended
  <2>3. \A a \in DOMAIN run'.rows : run'.rows[a].models = {}
    <3>1. \/ run'.rows = [a \in DOMAIN run'.rows |-> Fresh]
          \/ run'.rows = [a \in DOMAIN run'.rows |-> ResolvedRow(a, run)]
          \/ run'.rows = [a \in DOMAIN run'.rows |-> DegradedRow(a, run)]
      BY <2>1 DEF Detected
    <3>2. ASSUME NEW a \in DOMAIN run'.rows PROVE run'.rows[a].models = {}
      <4>1. run'.rows[a] \in {Fresh, ResolvedRow(a, run), DegradedRow(a, run)}
        BY <3>1
      <4>2. /\ Fresh.models = {} /\ ResolvedRow(a, run).models = {}
            /\ DegradedRow(a, run).models = {}
        BY FreshParts, ResolvedRowParts, DegradedRowParts
      <4> QED
        BY <4>1, <4>2
    <3> QED
      BY <3>2
  <2>4. run'.models = {} /\ "modelsStale" \notin run'.warned
    <3>1. run'.models = {}
      BY <2>1, <2>2 DEF Detected, EmptyHanded
    <3>2. run'.warned \subseteq run.warned \cup FaultWarning(run.fault)
      BY <2>1 DEF Detected
    <3>3. run'.warned \subseteq {"staleCatalog", "modelsUnreachable", "schemaDrift"}
      BY <2>2, <3>2, FaultWarningParts DEF EmptyHanded
    <3> QED
      BY <3>1, <3>3
  <2> QED
    BY <2>3, <2>4 DEF Provenance, HasData, Listed
<1>7. ASSUME NEW a \in Agents, EnrichRow(a) PROVE Provenance'
  <2>1. Enriched(a)
    BY <1>7, <1>m, EnrichRowEffect
  <2>2. run'.asked = run.asked /\ run.asked /\ "modelsStale" \notin run.warned
    BY <2>1 DEF Enriched, Stations, Ended
  <2>3. run'.at = "rows" /\ run'.models = {} /\ run'.warned = run.warned
    BY <2>1 DEF Enriched, Stations, Ended
  <2>4. HasData' => memo' # None
    <3>1. CASE HasData
      BY <1>m, <2>1, <3>1, RepliesParts DEF Enriched, Provenance
    <3>2. CASE \E r \in Replies : memo' = r.memo /\ ReadFault(r, RowIds(a)) = ""
      BY <1>m, <3>2, ReadFaultParts, MemoParts
    <3>3. CASE \/ run'.rows = [run.rows EXCEPT ![a] = Row("notApplicable", {})]
               \/ run'.rows = run.rows
      <4>1. \A b \in DOMAIN run'.rows :
                b \in DOMAIN run.rows /\ (run'.rows[b].models = run.rows[b].models
                                         \/ run'.rows[b].models = {})
        BY <3>3 DEF Row
      <4> QED
        BY <2>3, <3>1, <4>1 DEF HasData, Listed
    <3> QED
      BY <2>1, <3>1, <3>2, <3>3 DEF Enriched
  <2> QED
    BY <2>2, <2>3, <2>4 DEF Provenance
<1>8. CASE RowsDone
  <2>1. \A a \in DOMAIN run'.rows :
            a \in DOMAIN run.rows /\ (run'.rows[a].models = run.rows[a].models
                                     \/ run'.rows[a].models = {})
    <3>1. run'.rows = run.rows \/ run'.rows = [a \in DOMAIN run.rows |-> DegradedRow(a, run)]
      BY <1>8, <1>m, RowsDoneEffect
    <3>2. ASSUME NEW a \in DOMAIN run'.rows
          PROVE  a \in DOMAIN run.rows /\ run'.rows[a] \in {run.rows[a], DegradedRow(a, run)}
      BY <3>1
    <3>3. \A a : DegradedRow(a, run).models = {}
      BY DegradedRowParts
    <3> QED
      BY <3>2, <3>3
  <2>2. /\ run'.asked = run.asked /\ memo' = memo /\ run'.models = run.models
        /\ run'.at = "finish" /\ "modelsStale" \notin run'.warned
    <3>1. /\ run'.asked = run.asked /\ memo' = memo /\ run'.models = run.models
          /\ run'.at = "finish" /\ run.at = "rows"
      BY <1>8, <1>m, RowsDoneEffect
    <3>2. run'.warned \subseteq run.warned \cup FaultWarning(run.fault)
      BY <1>8, <1>m, RowsDoneEffect
    <3>3. run'.warned \subseteq {"staleCatalog", "modelsUnreachable", "schemaDrift"}
      BY <3>1, <3>2, FaultWarningParts DEF Stations, Ended
    <3> QED
      BY <3>1, <3>3
  <2> QED
    BY <2>1, <2>2 DEF Provenance, HasData, Listed
<1>9. CASE ListModels
  <2>1. EmptyHanded
    BY <1>9, <1>m, ListModelsEffect, EmptyBefore DEF Ended
  <2>2. run'.rows = <<>> /\ run'.asked = TRUE /\ run'.at = "finish"
    BY <1>9, <1>m, <2>1, ListModelsEffect DEF EmptyHanded
  <2>3. run'.models # {} => memo' # None
    BY <1>9, <1>m, <2>1, ListModelsEffect, ReadFaultParts, MemoParts DEF EmptyHanded
  <2> QED
    BY <2>2, <2>3 DEF Provenance, HasData, Listed
<1>10. CASE GetOne
  <2>1. EmptyHanded
    BY <1>10, <1>m, GetOneEffect, EmptyBefore DEF Ended
  <2>2. run'.rows = <<>> /\ run'.asked = TRUE /\ run'.query.op \in Gets
    BY <1>10, <1>m, <2>1, GetOneEffect DEF EmptyHanded, Gets
  <2>3. run'.models # {} => memo' # None
    BY <1>10, <1>m, <2>1, GetOneEffect, ReadFaultParts, MemoParts DEF EmptyHanded
  <2> QED
    BY <2>2, <2>3 DEF Provenance, HasData, Listed
<1>11. CASE ListProviders
  <2>1. EmptyHanded
    BY <1>11, <1>m, ListProvidersEffect, EmptyBefore DEF Ended
  <2>2. run'.rows = <<>> /\ run'.asked = TRUE
    BY <1>11, <1>m, <2>1, ListProvidersEffect DEF EmptyHanded
  <2>3. run'.models # {} => memo' # None /\ run'.at = "finish"
    BY <1>11, <1>m, <2>1, ListProvidersEffect, RepliesParts, MemoParts DEF EmptyHanded
  <2> QED
    BY <2>2, <2>3 DEF Provenance, HasData, Listed
<1>12. CASE Finish
  <2>1. /\ memo' = memo /\ run'.models = run.models /\ run'.rows = run.rows
        /\ run'.asked = run.asked
    BY <1>12, <1>m, FinishEffect
  <2>2. HasData' <=> HasData
    BY <2>1 DEF HasData, Listed
  <2> QED
    BY <1>12, <1>m, <2>1, <2>2, FinishEffect DEF Provenance
<1>13. CASE UNCHANGED vars
  BY <1>13 DEF vars, Provenance, HasData, Listed
<1> QED
  BY <1>1, <1>2, <1>3, <1>4, <1>5, <1>6, <1>7, <1>8, <1>9, <1>10, <1>11, <1>12, <1>13
     DEF Next, Progress, Beginnings

\* StaleDataIsFlagged is what the layer says of an operation that is done.
LEMMA ProvenanceImplies == Provenance => StaleDataIsFlagged
  BY DEF Provenance, StaleDataIsFlagged, Gets

-----------------------------------------------------------------------------
(* Fourth layer: outages are met only by operations that began without a   *)
(* catalog.                                                                *)

Timely ==
    run.late => /\ memo # None /\ run.fault # "unreachable"
                /\ run.err # "modelsUnavailable" /\ "modelsUnreachable" \notin run.warned

\* A step that meets no outage.
LEMMA NoOutage ==
    ASSUME memo \in Memos, NEW r \in Replies
    PROVE  /\ r.memo = memo /\ r.fault = "" /\ \A ids : Verdict(r, ids) # "unreachable"
           /\ \A ids : ReadFault(r, ids) # "unreachable"
  BY RepliesParts, MemoParts DEF Verdict, ReadFault

\* The operation's query and its history are not touched once it has begun.
LEMMA QueryKept ==
    Types /\ [Next]_vars /\ ~ Begin => run'.late = run.late /\ run'.query = run.query
<1> SUFFICES ASSUME Types, [Next]_vars, ~ Begin
             PROVE  run'.late = run.late /\ run'.query = run.query
  OBVIOUS
<1>m. IsRun(run)
  BY DEF Types
<1> USE DEF Keeps, RunFields
<1>1. CASE OtherFills \/ UNCHANGED vars
  BY <1>1 DEF OtherFills, vars
<1>2. CASE CatalogFails \/ AgentUnknown \/ ProvidersNotAllowed \/ ContextEnds \/ MalformedModelID
  BY <1>2, <1>m, Refusals DEF Refused
<1>3. CASE CatalogResolved \/ ValidateForListing \/ ValidateForModels \/ GetAgent
  BY <1>3, <1>m, CatalogResolvedEffect, ValidateForListingEffect, ValidateForModelsEffect,
     GetAgentEffect
<1>4. CASE ValidateForAgent \/ ProbeCoverage
  BY <1>4, <1>m, ValidateForAgentEffect, ProbeCoverageEffect DEF ForAgent, Probed
<1>5. CASE ListAgents \/ ProbeListing \/ RowsDone
  BY <1>5, <1>m, ListAgentsEffect, ProbeListingEffect, RowsDoneEffect
<1>6. CASE Detect
  BY <1>6, <1>m, DetectEffect DEF Detected
<1>7. ASSUME NEW a \in Agents, EnrichRow(a)
      PROVE  run'.late = run.late /\ run'.query = run.query
  BY <1>7, <1>m, EnrichRowEffect DEF Enriched
<1>8. CASE ScopeToProviders \/ ScopeToAll \/ ScopeToAgent
  BY <1>8, <1>m, ScopeToProvidersEffect, ScopeToAllEffect, ScopeToAgentEffect
<1>9. CASE ListModels \/ GetOne \/ ListProviders \/ Finish
  BY <1>9, <1>m, ListModelsEffect, GetOneEffect, ListProvidersEffect, FinishEffect
<1> QED
  BY <1>1, <1>2, <1>3, <1>4, <1>5, <1>6, <1>7, <1>8, <1>9 DEF Next, Progress

\* No outage was met at first.
LEMMA TimelyInit == Init => Timely
<1> SUFFICES ASSUME Init PROVE Timely
  OBVIOUS
<1>1. PICK q \in Queries : run = [NewRun(q, memo # None) EXCEPT !.at = "done"]
  BY DEF Init
<1>2. /\ run.late = (memo # None) /\ run.fault = "" /\ run.err = "" /\ run.warned = {}
  BY <1>1 DEF NewRun
<1> QED
  BY <1>2 DEF Timely

\* Whoever has the catalog keeps it, and meets no outage.
LEMMA TimelyStep == Types /\ Stations /\ Timely /\ [Next]_vars => Timely'
<1> SUFFICES ASSUME Types, Stations, Timely, [Next]_vars, ~ Begin, run.late
             PROVE  /\ memo' # None /\ run'.fault # "unreachable"
                    /\ run'.err # "modelsUnavailable" /\ "modelsUnreachable" \notin run'.warned
  BY QueryKept, BeginEffect DEF Timely
<1>m. /\ IsRun(run) /\ memo \in Memos /\ memo # None /\ run.fault # "unreachable"
      /\ run.err # "modelsUnavailable" /\ "modelsUnreachable" \notin run.warned
  BY DEF Types, Timely
<1> USE DEF Keeps, RunFields
<1>1. CASE OtherFills \/ UNCHANGED vars
  BY <1>1, <1>m DEF OtherFills, vars
<1>2. CASE CatalogFails \/ AgentUnknown \/ ProvidersNotAllowed \/ ContextEnds \/ MalformedModelID
  BY <1>2, <1>m, Refusals DEF Refused, RefusalErrors, CatalogErrors
<1>3. CASE CatalogResolved \/ GetAgent \/ ListAgents
  BY <1>3, <1>m, CatalogResolvedEffect, GetAgentEffect, ListAgentsEffect
<1>4. CASE ValidateForListing \/ ValidateForModels
  BY <1>4, <1>m, ValidateForListingEffect, ValidateForModelsEffect, NoOutage
<1>5. CASE ValidateForAgent
  BY <1>5, <1>m, ValidateForAgentEffect, NoOutage, FaultWarningParts DEF ForAgent
<1>6. CASE ProbeCoverage
  BY <1>6, <1>m, ProbeCoverageEffect, NoOutage, FaultWarningParts, ZenonT(60) DEF Probed
<1>7. CASE ProbeListing
  BY <1>7, <1>m, ProbeListingEffect, NoOutage
<1>8. CASE Detect
  BY <1>8, <1>m, DetectEffect, FaultWarningParts DEF Detected
<1>9. ASSUME NEW a \in Agents, EnrichRow(a)
      PROVE  /\ memo' # None /\ run'.fault # "unreachable"
             /\ run'.err # "modelsUnavailable" /\ "modelsUnreachable" \notin run'.warned
  <2>1. Enriched(a)
    BY <1>9, <1>m, EnrichRowEffect
  <2>2. run'.err = run.err /\ run'.warned = run.warned
    BY <2>1 DEF Enriched
  <2>3. memo' = memo /\ run'.fault # "unreachable"
    BY <1>m, <2>1, NoOutage DEF Enriched
  <2> QED
    BY <1>m, <2>2, <2>3
<1>10. CASE RowsDone
  BY <1>10, <1>m, RowsDoneEffect, FaultWarningParts
<1>11. CASE ScopeToProviders \/ ScopeToAll \/ ScopeToAgent
  BY <1>11, <1>m, ScopeToProvidersEffect, ScopeToAllEffect, ScopeToAgentEffect, NoOutage
<1>12. CASE ListModels \/ GetOne \/ ListProviders
  <2>1. /\ run'.fault = run.fault /\ run'.warned = run.warned
        /\ \E r \in Replies, fault \in Faults \cup {""} :
              /\ memo' = r.memo /\ fault # "unreachable"
              /\ run'.err \in {mapModelsErr(fault), "", "notFound", run.err}
    <3>1. CASE ListModels
      BY <1>m, <3>1, ListModelsEffect, NoOutage, ReadFaultParts
    <3>2. CASE GetOne
      BY <1>m, <3>2, GetOneEffect, NoOutage, ReadFaultParts
    <3>3. CASE ListProviders
      BY <1>m, <3>3, ListProvidersEffect, NoOutage, RepliesParts
    <3> QED
      BY <1>12, <3>1, <3>2, <3>3
  <2>2. \A fault \in Faults \cup {""} :
            fault # "unreachable" => mapModelsErr(fault) # "modelsUnavailable"
    BY DEF mapModelsErr, Faults
  <2> QED
    BY <1>m, <2>1, <2>2, NoOutage
<1>13. CASE Finish
  BY <1>13, <1>m, FinishEffect
<1> QED
  BY <1>1, <1>2, <1>3, <1>4, <1>5, <1>6, <1>7, <1>8, <1>9, <1>10, <1>11, <1>12, <1>13
     DEF Next, Progress

-----------------------------------------------------------------------------
(* Fifth layer: what "applied" means of one agent and of one row.          *)

Complete ==
    AtLeast(run.query, "count") =>
        /\ run.state = "applied" =>
              /\ memo # None
              /\ run.models = ToSet(run.ids) \cap memo.known
              /\ run.absent = ToSet(run.ids) \ memo.known
              /\ ToSet(run.ids) \cap memo.drifted = {}
        /\ \A a \in Listed : run.rows[a].state = "applied" =>
              /\ memo # None
              /\ run.rows[a].models = RowIds(a) \cap memo.known
              /\ RowIds(a) \cap memo.drifted = {}

\* Nothing is applied at first.
LEMMA CompleteInit == Init => Complete
<1> SUFFICES ASSUME Init PROVE Complete
  OBVIOUS
<1>1. run.state = "notRequested" /\ run.rows = <<>>
  BY DEF Init, NewRun
<1> QED
  BY <1>1 DEF Complete, Listed

\* What is not said to be applied is not said to be complete.
LEMMA NothingApplied ==
    ASSUME run'.state # "applied",
           \A a \in DOMAIN run'.rows : run'.rows[a].state # "applied"
    PROVE  Complete'
  BY DEF Complete, Listed

\* The data of what was applied stay, and so does the catalog they came from.
LEMMA AppliedStays ==
    ASSUME Complete, memo' = memo,
           run'.query = run.query /\ run'.ids = run.ids,
           run'.state = "applied" =>
              run.state = "applied" /\ run'.models = run.models /\ run'.absent = run.absent,
           \A a \in DOMAIN run'.rows : run'.rows[a].state = "applied" =>
              a \in DOMAIN run.rows /\ run'.rows[a] = run.rows[a]
    PROVE  Complete'
<1> SUFFICES ASSUME AtLeast(run.query, "count") PROVE
        /\ run'.state = "applied" =>
              /\ memo' # None
              /\ run'.models = ToSet(run'.ids) \cap memo'.known
              /\ run'.absent = ToSet(run'.ids) \ memo'.known
              /\ ToSet(run'.ids) \cap memo'.drifted = {}
        /\ \A a \in DOMAIN run'.rows : run'.rows[a].state = "applied" =>
              /\ memo' # None
              /\ run'.rows[a].models = RowIds(a)' \cap memo'.known
              /\ RowIds(a)' \cap memo'.drifted = {}
  BY DEF Complete, Listed
<1>1. \A a : RowIds(a)' = RowIds(a)
  BY DEF RowIds, Agnostic
<1> QED
  BY <1>1 DEF Complete, Listed

\* What is applied is so of the reply it was read from, which the client keeps:
\* rows read before the fault of another one are of the same catalog.
LEMMA CompleteStep == Types /\ Stations /\ Complete /\ [Next]_vars => Complete'
<1> SUFFICES ASSUME Types, Stations, Complete, [Next]_vars PROVE Complete'
  OBVIOUS
<1>m. memo \in Memos \cup {None} /\ IsRun(run)
  BY DEF Types
<1> USE DEF Keeps, RunFields
<1>1. CASE Beginnings
  BY <1>1, BeginningsAreEmpty, NothingApplied DEF EmptyHanded
<1>2. CASE OtherFills
  <2>1. memo = None /\ run' = run
    BY <1>2 DEF OtherFills
  <2> QED
    BY <2>1 DEF Complete, Listed
<1>3. CASE ValidateForAgent
  <2>1. PICK r \in Replies : memo' = r.memo /\ ForAgent(Verdict(r, run.ids))
    BY <1>3, <1>m, ValidateForAgentEffect
  <2>2. run'.rows = <<>> /\ run.state = "notRequested"
    BY <2>1, EmptyBefore DEF ForAgent, Ended, EmptyHanded
  <2>3. run'.state = "applied" => ~ AtLeast(run.query, "count")
    BY <2>1, <2>2, LevelParts DEF ForAgent, Types
  <2>4. run'.query = run.query
    BY <2>1 DEF ForAgent
  <2> QED
    BY <2>2, <2>3, <2>4 DEF Complete, Listed
<1>4. CASE GetAgent
  <2>1. run'.rows = <<>> /\ run.state = "notRequested" /\ run'.query = run.query
    BY <1>4, <1>m, GetAgentEffect, EmptyBefore DEF Ended, EmptyHanded
  <2>2. run'.state = "applied" => run.query.enrich = "providers"
    BY <1>4, <1>m, <2>1, GetAgentEffect
  <2>3. run'.state = "applied" => ~ AtLeast(run.query, "count")
    BY <2>2, LevelParts DEF Types
  <2> QED
    BY <2>1, <2>3 DEF Complete, Listed
<1>5. CASE ProbeCoverage
  <2>1. PICK r \in Replies : memo' = r.memo /\ Probed(r)
    BY <1>5, <1>m, ProbeCoverageEffect
  <2>2. run'.rows = <<>> /\ run'.ids = run.ids
    BY <2>1, EmptyBefore DEF Probed, Ended, EmptyHanded
  <2>3. ASSUME run'.state = "applied"
        PROVE  /\ memo' # None
               /\ run'.models = ToSet(run.ids) \cap memo'.known
               /\ run'.absent = ToSet(run.ids) \ memo'.known
               /\ ToSet(run.ids) \cap memo'.drifted = {}
    <3>1. /\ ReadFault(r, ToSet(run.ids)) = ""
          /\ run'.absent = ToSet(run.ids) \ r.memo.known
          /\ run'.models = ToSet(run.ids) \ (ToSet(run.ids) \ r.memo.known)
      BY <2>1, <2>3 DEF Probed
    <3>2. r.memo \in Memos /\ ToSet(run.ids) \cap r.memo.drifted = {}
      BY <1>m, <3>1, ReadFaultParts
    <3> QED
      BY <2>1, <3>1, <3>2, MemoParts
  <2> QED
    BY <2>2, <2>3 DEF Complete, Listed
<1>6. CASE Detect
  <2>1. Detected
    BY <1>6, <1>m, DetectEffect
  <2>2. run'.state = "notRequested" /\ run'.query = run.query
    BY <2>1, EmptyBefore DEF Detected, Ended, EmptyHanded
  <2>3. ASSUME AtLeast(run.query, "count"), NEW a \in DOMAIN run'.rows
        PROVE  run'.rows[a].state # "applied"
    <3>1. run'.rows[a] = Fresh \/ run'.rows[a] = DegradedRow(a, run)
      <4>1. \/ run'.rows = [b \in DOMAIN run'.rows |-> Fresh]
            \/ run'.rows = [b \in DOMAIN run'.rows |-> DegradedRow(b, run)]
        BY <2>1, <2>3, LevelParts DEF Detected, Types
      <4> QED
        BY <4>1
    <3>2. Fresh.state = "notRequested"
      BY FreshParts
    <3>3. DegradedRow(a, run).state \in {"degraded", "notApplicable"}
      BY DegradedRowParts
    <3> QED
      BY <3>1, <3>2, <3>3
  <2> QED
    BY <2>2, <2>3 DEF Complete, Listed
<1>7. ASSUME NEW a \in Agents, EnrichRow(a) PROVE Complete'
  <2>1. Enriched(a)
    BY <1>7, <1>m, EnrichRowEffect
  <2>2. /\ run'.state = "notRequested" /\ run'.query = run.query /\ run'.ids = run.ids
        /\ AtLeast(run.query, "count")
    BY <2>1 DEF Enriched, Stations, Ended
  <2>3. run.rows = [b \in DOMAIN run.rows |-> run.rows[b]]
    BY DEF Types, RowType
  <2>4. CASE Inapplicable(a, run) /\ memo' = memo
             /\ run'.rows = [run.rows EXCEPT ![a] = Row("notApplicable", {})]
    <3>1. Row("notApplicable", {}).state = "notApplicable"
      BY RowParts
    <3>2. \A b \in DOMAIN run'.rows : run'.rows[b].state = "applied" =>
              b \in DOMAIN run.rows /\ run'.rows[b] = run.rows[b]
      BY <2>3, <2>4, <3>1
    <3> QED
      BY <2>2, <2>4, <3>2, AppliedStays
  <2>5. ASSUME NEW r \in Replies, memo' = r.memo, ReadFault(r, RowIds(a)) = "",
               run'.rows = [run.rows EXCEPT ![a] = Row("applied", RowIds(a) \cap r.memo.known)]
        PROVE  Complete'
    <3>1. r.memo \in Memos /\ memo' # None /\ RowIds(a) \cap memo'.drifted = {}
      BY <1>m, <2>5, ReadFaultParts, MemoParts
    <3>2. \A b : RowIds(b)' = RowIds(b)
      BY <2>2 DEF RowIds, Agnostic
    <3>3. ASSUME NEW b \in DOMAIN run'.rows, run'.rows[b].state = "applied"
          PROVE  /\ run'.rows[b].models = RowIds(b) \cap memo'.known
                 /\ RowIds(b) \cap memo'.drifted = {}
      <4>1. CASE b = a
        <5>1. run'.rows[a] = Row("applied", RowIds(a) \cap memo'.known)
          BY <2>3, <2>5, <3>3, <4>1
        <5>2. Row("applied", RowIds(a) \cap memo'.known).models = RowIds(a) \cap memo'.known
          BY RowParts
        <5> QED
          BY <3>1, <4>1, <5>1, <5>2
      <4>2. CASE b # a
        <5>1. b \in DOMAIN run.rows /\ run'.rows[b] = run.rows[b]
          BY <2>3, <2>5, <3>3, <4>2
        <5>2. memo # None
          BY <2>2, <3>3, <5>1 DEF Complete, Listed
        <5>3. memo' = memo
          BY <1>m, <2>5, <5>2, RepliesParts
        <5> QED
          BY <2>2, <3>3, <5>1, <5>3 DEF Complete, Listed
      <4> QED
        BY <4>1, <4>2
    <3> QED
      BY <2>2, <3>1, <3>2, <3>3 DEF Complete, Listed
  <2>6. ASSUME NEW r \in Replies, memo' = r.memo, run'.rows = run.rows
        PROVE  Complete'
    <3>1. CASE memo # None
      BY <1>m, <2>2, <2>6, <3>1, RepliesParts, AppliedStays
    <3>2. CASE memo = None
      <4>1. \A b \in DOMAIN run'.rows : run'.rows[b].state # "applied"
        BY <2>2, <2>6, <3>2 DEF Complete, Listed
      <4> QED
        BY <2>2, <4>1, NothingApplied
    <3> QED
      BY <3>1, <3>2
  <2> QED
    BY <2>1, <2>4, <2>5, <2>6 DEF Enriched
<1>8. CASE RowsDone
  <2>1. run'.rows = run.rows \/ run'.rows = [a \in DOMAIN run.rows |-> DegradedRow(a, run)]
    BY <1>8, <1>m, RowsDoneEffect
  <2>2. /\ memo' = memo /\ run'.query = run.query /\ run'.ids = run.ids
        /\ run'.state = "notRequested"
    BY <1>8, <1>m, RowsDoneEffect DEF Stations, Ended
  <2>3. \A a : DegradedRow(a, run).state \in {"degraded", "notApplicable"}
    BY DegradedRowParts
  <2>4. \A a \in DOMAIN run'.rows : run'.rows[a].state = "applied" =>
            a \in DOMAIN run.rows /\ run'.rows[a] = run.rows[a]
    BY <2>1, <2>3
  <2> QED
    BY <2>2, <2>4, AppliedStays
<1>9. CASE ListModels \/ GetOne \/ ListProviders
  <2>1. /\ run'.state = run.state /\ run'.rows = run.rows /\ EmptyHanded
    BY <1>9, <1>m, ListModelsEffect, GetOneEffect, ListProvidersEffect, EmptyBefore DEF Ended
  <2> QED
    BY <2>1, NothingApplied DEF EmptyHanded
<1>10. CASE Finish
  <2>1. /\ memo' = memo /\ run'.query = run.query /\ run'.ids = run.ids
        /\ run'.state = run.state /\ run'.rows = run.rows
        /\ run'.models = run.models /\ run'.absent = run.absent
    BY <1>10, <1>m, FinishEffect
  <2> QED
    BY <2>1, AppliedStays
<1>11. CASE UNCHANGED vars
  BY <1>11, AppliedStays DEF vars
<1> QED
  BY <1>1, <1>2, <1>3, <1>4, <1>5, <1>6, <1>7, <1>8, <1>9, <1>10, <1>11
     DEF Next, Progress, Beginnings

\* AppliedIsComplete is what the layer says of an operation that is done.
LEMMA CompleteImplies == Complete => AppliedIsComplete
  BY DEF Complete, AppliedIsComplete, RowIds

-----------------------------------------------------------------------------
(* Sixth layer: a listing is degraded as a whole, and says so.             *)

\* A row that has been dealt with is applied or not applicable, unless a fault
\* is remembered.
RowsSoFar ==
    run.at = "rows" => \A a \in Listed :
        /\ run.rows[a].state \in {"notRequested", "applied", "notApplicable"}
        /\ a \notin run.left /\ run.fault = "" => run.rows[a].state # "notRequested"

Uniform ==
    Ended /\ run.query.op = "agentsList" /\ run.err = "" /\ AtLeast(run.query, "count") =>
        \E s \in {"applied", "degraded"} :
            \A a \in Listed : /\ run.rows[a].state \in {s, "notApplicable"}
                              /\ s = "degraded" => run.rows[a].models = {}

Explained ==
    Ended =>
        /\ (run.state = "degraded" \/ \E a \in Listed : run.rows[a].state = "degraded")
              => FaultWarned /\ run.err = ""
        /\ FaultWarned /\ AtLeast(run.query, "count")
              => run.models = {} /\ \A a \in Listed : run.rows[a].state # "applied"

Told == RowsSoFar /\ Uniform /\ Explained

\* An operation with nothing to show has nothing to explain.
LEMMA EmptyIsTold == EmptyHanded /\ run.at # "rows" => Told
  BY DEF EmptyHanded, Told, RowsSoFar, Uniform, Explained, Listed, FaultWarned

\* A step that leaves no row, and whose degradation is explained, is told.
LEMMA RowlessIsTold ==
    ASSUME run'.rows = <<>>, run'.models = {} \/ ~ FaultWarned',
           run'.state = "degraded" => FaultWarned' /\ run'.err = ""
    PROVE  Told'
<1>1. DOMAIN run'.rows = {}
  BY NoDomain
<1>2. RowsSoFar' /\ Uniform'
  BY <1>1 DEF RowsSoFar, Uniform, Listed
<1>3. Explained'
  BY <1>1 DEF Explained, Listed
<1> QED
  BY <1>2, <1>3 DEF Told

\* So it is at first.
LEMMA ToldInit == Init => Told
<1> SUFFICES ASSUME Init PROVE Told
  OBVIOUS
<1>1. /\ run.at = "done" /\ run.state = "notRequested" /\ run.models = {} /\ run.rows = <<>>
      /\ run.warned = {}
  BY DEF Init, NewRun
<1> QED
  BY <1>1, EmptyIsTold DEF EmptyHanded

\* The rows of a listing that is degraded as a whole.
LEMMA DegradedIsTold ==
    ASSUME run'.at = "finish", run'.err = "", run'.models = {},
           FaultWarned',
           NEW r, \A a \in DOMAIN run'.rows : run'.rows[a] = DegradedRow(a, r)
    PROVE  Told'
<1>1. \A a \in DOMAIN run'.rows : /\ run'.rows[a].state \in {"degraded", "notApplicable"}
                                  /\ run'.rows[a].models = {}
  <2> SUFFICES ASSUME NEW a \in DOMAIN run'.rows
               PROVE  /\ run'.rows[a].state \in {"degraded", "notApplicable"}
                      /\ run'.rows[a].models = {}
    OBVIOUS
  <2>1. run'.rows[a] = DegradedRow(a, r)
    OBVIOUS
  <2> QED
    BY <2>1, DegradedRowParts
<1>2. RowsSoFar'
  BY DEF RowsSoFar
<1>3. Uniform'
  BY <1>1 DEF Uniform, Listed
<1>4. Explained'
  BY <1>1 DEF Explained, Listed
<1> QED
  BY <1>2, <1>3, <1>4 DEF Told

\* A row is degraded with the whole listing, and with the fault's warning.
LEMMA ToldStep == Types /\ Stations /\ Told /\ [Next]_vars => Told'
<1> SUFFICES ASSUME Types, Stations, Told, [Next]_vars PROVE Told'
  OBVIOUS
<1>m. memo \in Memos \cup {None} /\ IsRun(run)
  BY DEF Types
<1> USE DEF Keeps, RunFields
<1>1. CASE Beginnings
  <2>1. EmptyHanded'
    BY <1>1, BeginningsAreEmpty
  <2> QED
    BY <2>1, RowlessIsTold DEF EmptyHanded
<1>2. CASE OtherFills \/ UNCHANGED vars
  <2>1. run' = run
    BY <1>2 DEF OtherFills, vars
  <2>2. RowsSoFar' /\ Uniform'
    BY <2>1 DEF Told, RowsSoFar, Uniform, Ended, Listed
  <2>3. Explained'
    BY <2>1 DEF Told, Explained, FaultWarned, Ended, Listed
  <2> QED
    BY <2>2, <2>3 DEF Told
<1>3. CASE ValidateForAgent
  <2>1. PICK r \in Replies : memo' = r.memo /\ ForAgent(Verdict(r, run.ids))
    BY <1>3, <1>m, ValidateForAgentEffect
  <2>2. /\ run'.rows = <<>> /\ run'.models = {} /\ run.state = "notRequested"
    BY <2>1, EmptyBefore DEF ForAgent, Ended, EmptyHanded
  <2>3. Verdict(r, run.ids) \in Faults \cup {"", "unknown"}
    BY <1>m, VerdictParts
  <2>4. run'.state = "degraded" => FaultWarned' /\ run'.err = ""
    <3> SUFFICES ASSUME run'.state = "degraded" PROVE FaultWarned' /\ run'.err = ""
      OBVIOUS
    <3>1. /\ Verdict(r, run.ids) \in Faults /\ run'.err = ""
          /\ run'.warned = run.warned \cup FaultWarning(Verdict(r, run.ids))
      BY <2>1, <2>2, <2>3 DEF ForAgent
    <3> QED
      BY <3>1, FaultWarningParts DEF FaultWarned
  <2> QED
    BY <2>2, <2>4, RowlessIsTold
<1>4. CASE GetAgent
  <2>1. run'.rows = <<>> /\ run'.models = {} /\ run.state = "notRequested"
    BY <1>4, <1>m, GetAgentEffect, EmptyBefore DEF Ended, EmptyHanded
  <2>2. run'.state # "degraded"
    BY <1>4, <1>m, <2>1, GetAgentEffect
  <2> QED
    BY <2>1, <2>2, RowlessIsTold
<1>5. CASE ProbeCoverage
  <2>1. PICK r \in Replies : memo' = r.memo /\ Probed(r)
    BY <1>5, <1>m, ProbeCoverageEffect
  <2>2. run'.rows = <<>> /\ EmptyHanded /\ run'.err = ""
    BY <2>1, EmptyBefore DEF Probed, Ended, EmptyHanded
  <2> DEFINE fault == ReadFault(r, ToSet(run.ids))
  <2>3. CASE fault # ""
    <3>1. run'.models = {} /\ run'.warned = run.warned \cup FaultWarning(fault)
      BY <2>1, <2>2, <2>3 DEF Probed, EmptyHanded
    <3>2. fault \in Faults
      BY <1>m, <2>3, ReadFaultParts
    <3>3. FaultWarned'
      BY <3>1, <3>2, FaultWarningParts DEF FaultWarned
    <3> QED
      BY <2>2, <3>1, <3>3, RowlessIsTold
  <2>4. CASE fault = ""
    <3>1. run'.state = "applied" /\ run'.warned \subseteq run.warned \cup {"someAbsent"}
      BY <2>1, <2>4 DEF Probed
    <3>2. ~ FaultWarned'
      BY <2>2, <3>1 DEF FaultWarned, EmptyHanded
    <3> QED
      BY <2>2, <3>1, <3>2, RowlessIsTold
  <2> QED
    BY <2>3, <2>4
<1>6. CASE Detect
  <2>1. Detected
    BY <1>6, <1>m, DetectEffect
  <2>2. /\ EmptyHanded /\ run'.models = {} /\ run'.query = run.query
        /\ run'.state = "notRequested" /\ run'.fault = run.fault
    BY <2>1, EmptyBefore DEF Detected, Ended, EmptyHanded
  <2>3. run.fault \in Faults \cup {""}
    BY <2>1 DEF Detected, Types, Stations, Listing
  <2>4. CASE run.query.enrich = "none"
    <3>1. /\ run'.warned = run.warned /\ run'.at = "finish"
          /\ run'.rows = [a \in DOMAIN run'.rows |-> Fresh]
      BY <2>1, <2>4 DEF Detected
    <3>2. \A a \in DOMAIN run'.rows : run'.rows[a].state = "notRequested"
      BY <3>1, FreshParts
    <3>3. ~ FaultWarned' /\ ~ AtLeast(run.query, "count")
      BY <2>2, <2>4, <3>1, LevelParts DEF FaultWarned, EmptyHanded, Types
    <3>4. AtLeast(run.query, "count")' <=> AtLeast(run.query, "count")
      BY <2>2 DEF AtLeast
    <3> QED
      BY <2>2, <3>1, <3>2, <3>3, <3>4 DEF Told, RowsSoFar, Uniform, Explained, Listed
  <2>5. CASE run.query.enrich = "providers"
    <3>1. /\ run'.warned = run.warned \cup FaultWarning(run.fault)
          /\ run'.at = "finish" /\ run'.err = ""
          /\ run'.rows = [a \in DOMAIN run'.rows |-> ResolvedRow(a, run)]
      BY <2>1, <2>5 DEF Detected
    <3>2. ~ AtLeast(run.query, "count")
      BY <2>5, LevelParts DEF Types
    <3>3. AtLeast(run.query, "count")' <=> AtLeast(run.query, "count")
      BY <2>2 DEF AtLeast
    <3>4. ASSUME NEW a \in DOMAIN run'.rows, run'.rows[a].state = "degraded"
          PROVE  FaultWarned'
      <4>1. ResolvedRow(a, run).state = "degraded"
        BY <3>1, <3>4
      <4>2. run.fault \in Faults
        BY <2>3, <4>1, ResolvedRowParts
      <4> QED
        BY <3>1, <4>2, FaultWarningParts DEF FaultWarned
    <3> QED
      BY <2>2, <3>1, <3>2, <3>3, <3>4 DEF Told, RowsSoFar, Uniform, Explained, Listed
  <2>6. CASE run.query.enrich \notin {"none", "providers"} /\ run.fault # ""
    <3>1. /\ run'.warned = run.warned \cup FaultWarning(run.fault)
          /\ run'.at = "finish" /\ run'.err = ""
          /\ run'.rows = [a \in DOMAIN run'.rows |-> DegradedRow(a, run)]
      BY <2>1, <2>6 DEF Detected
    <3>2. FaultWarned'
      <4>1. FaultWarning(run.fault) # {}
        BY <2>3, <2>6, FaultWarningParts
      <4>2. FaultWarning(run.fault) \subseteq {"modelsUnreachable", "schemaDrift"}
        BY FaultWarningParts
      <4> QED
        BY <3>1, <4>1, <4>2 DEF FaultWarned
    <3>3. \A a \in DOMAIN run'.rows : run'.rows[a] = DegradedRow(a, run)
      BY <3>1
    <3> QED
      BY <2>2, <3>1, <3>2, <3>3, DegradedIsTold
  <2>7. CASE run.query.enrich \notin {"none", "providers"} /\ run.fault = ""
    <3>1. /\ run'.at = "rows" /\ run'.left = DOMAIN run'.rows
          /\ run'.rows = [a \in DOMAIN run'.rows |-> Fresh]
      BY <2>1, <2>7 DEF Detected
    <3>2. \A a \in DOMAIN run'.rows : run'.rows[a].state = "notRequested"
      BY <3>1, FreshParts
    <3> QED
      BY <3>1, <3>2 DEF Told, RowsSoFar, Uniform, Explained, Ended, Listed
  <2> QED
    BY <2>4, <2>5, <2>6, <2>7
<1>7. ASSUME NEW a \in Agents, EnrichRow(a) PROVE Told'
  <2>1. Enriched(a)
    BY <1>7, <1>m, EnrichRowEffect
  <2>2. run'.at = "rows" /\ run.at = "rows" /\ run'.left = run.left \ {a}
    BY <2>1 DEF Enriched
  <2>3. run.rows = [b \in DOMAIN run.rows |-> run.rows[b]]
    BY DEF Types, RowType
  <2>4. \A b \in DOMAIN run.rows :
            /\ run.rows[b].state \in {"notRequested", "applied", "notApplicable"}
            /\ b \notin run.left /\ run.fault = "" => run.rows[b].state # "notRequested"
    BY <2>2 DEF Told, RowsSoFar, Listed
  <2>5. ASSUME NEW row, row.state \in {"applied", "notApplicable"}, run'.fault = run.fault,
               run'.rows = [run.rows EXCEPT ![a] = row]
        PROVE  RowsSoFar'
    <3>1. ASSUME NEW b \in DOMAIN run'.rows
          PROVE  /\ run'.rows[b].state \in {"notRequested", "applied", "notApplicable"}
                 /\ b \notin run'.left /\ run'.fault = "" => run'.rows[b].state # "notRequested"
      <4>1. CASE b = a
        BY <2>3, <2>5, <3>1, <4>1
      <4>2. CASE b # a
        <5>1. b \in DOMAIN run.rows /\ run'.rows[b] = run.rows[b]
          BY <2>3, <2>5, <3>1, <4>2
        <5> QED
          BY <2>2, <2>4, <2>5, <4>2, <5>1
      <4> QED
        BY <4>1, <4>2
    <3> QED
      BY <3>1 DEF RowsSoFar, Listed
  <2>6. RowsSoFar'
    <3>1. CASE Inapplicable(a, run) /\ run'.fault = run.fault
               /\ run'.rows = [run.rows EXCEPT ![a] = Row("notApplicable", {})]
      <4>1. Row("notApplicable", {}).state = "notApplicable"
        BY RowParts
      <4> QED
        BY <2>5, <3>1, <4>1
    <3>2. ASSUME NEW r \in Replies, run'.fault = run.fault,
                 run'.rows = [run.rows EXCEPT ![a] = Row("applied", RowIds(a) \cap r.memo.known)]
          PROVE  RowsSoFar'
      <4>1. Row("applied", RowIds(a) \cap r.memo.known).state = "applied"
        BY RowParts
      <4> QED
        BY <2>5, <3>2, <4>1
    <3>3. CASE run'.rows = run.rows /\ run'.fault # ""
      BY <2>4, <3>3 DEF RowsSoFar, Listed
    <3> QED
      BY <2>1, <3>1, <3>2, <3>3 DEF Enriched
  <2> QED
    BY <2>2, <2>6 DEF Told, Uniform, Explained, Ended
<1>8. CASE RowsDone
  <2>1. /\ run.at = "rows" /\ run.left = {} /\ run'.at = "finish" /\ run'.err = ""
        /\ run'.models = {} /\ run'.state = "notRequested"
        /\ run.warned \subseteq {"staleCatalog"}
        /\ run.fault \in Faults \cup {""}
    BY <1>8, <1>m, RowsDoneEffect DEF Stations, Listing, Ended, Types
  <2>2. CASE run.fault = ""
    <3>1. run'.rows = run.rows /\ run'.warned = run.warned
      BY <1>8, <1>m, <2>2, RowsDoneEffect
    <3>2. \A a \in DOMAIN run'.rows : run'.rows[a].state \in {"applied", "notApplicable"}
      BY <2>1, <2>2, <3>1 DEF Told, RowsSoFar, Listed
    <3>3. ~ FaultWarned'
      BY <2>1, <3>1 DEF FaultWarned
    <3>4. Uniform'
      BY <3>2 DEF Uniform, Listed
    <3>5. Explained'
      BY <2>1, <3>2, <3>3 DEF Explained, Listed
    <3> QED
      BY <2>1, <3>4, <3>5 DEF Told, RowsSoFar
  <2>3. CASE run.fault # ""
    <3>1. /\ run'.warned = run.warned \cup FaultWarning(run.fault)
          /\ run'.rows = [a \in DOMAIN run.rows |-> DegradedRow(a, run)]
      BY <1>8, <1>m, <2>3, RowsDoneEffect
    <3>2. FaultWarned'
      BY <2>1, <2>3, <3>1, FaultWarningParts DEF FaultWarned
    <3>3. \A a \in DOMAIN run'.rows : run'.rows[a] = DegradedRow(a, run)
      BY <3>1
    <3> QED
      BY <2>1, <3>2, <3>3, DegradedIsTold
  <2> QED
    BY <2>2, <2>3
<1>9. CASE ListModels \/ GetOne \/ ListProviders
  <2>1. EmptyHanded /\ run'.state = run.state /\ run'.rows = run.rows /\ run'.warned = run.warned
    BY <1>9, <1>m, ListModelsEffect, GetOneEffect, ListProvidersEffect, EmptyBefore DEF Ended
  <2>2. ~ FaultWarned'
    BY <2>1 DEF FaultWarned, EmptyHanded
  <2> QED
    BY <2>1, <2>2, RowlessIsTold DEF EmptyHanded
<1>10. CASE Finish
  <2>1. /\ run'.query = run.query /\ run'.err = run.err /\ run'.state = run.state
        /\ run'.rows = run.rows /\ run'.models = run.models /\ run.at = "finish"
        /\ run'.at = "done" /\ run'.warned \in {run.warned, run.warned \cup {"modelsStale"}}
    BY <1>10, <1>m, FinishEffect
  <2>2. FaultWarned' <=> FaultWarned
    BY <2>1 DEF FaultWarned
  <2>3. Uniform'
    BY <2>1 DEF Told, Uniform, Ended, Listed
  <2>4. Explained'
    BY <2>1, <2>2 DEF Told, Explained, Ended, Listed
  <2> QED
    BY <2>1, <2>3, <2>4 DEF Told, RowsSoFar
<1> QED
  BY <1>1, <1>2, <1>3, <1>4, <1>5, <1>6, <1>7, <1>8, <1>9, <1>10 DEF Next, Progress, Beginnings

\* The two properties of a listing are what the layer says when it is done.
LEMMA ToldImplies == Told => ListingIsUniform /\ DegradedIsExplained
  BY DEF Told, Uniform, Explained, ListingIsUniform, DegradedIsExplained, Done, Ended

-----------------------------------------------------------------------------
(* Seventh layer: an unknown id is met or its absence is explained.        *)

\* The catalog the ids were looked up in has every one of them.
AllKnown == memo # None /\ ToSet(run.ids) \subseteq memo.known

\* Once validated, a listing's ids are known or its fault is remembered; at the
\* end the fault has become a warning.
Seen ==
    /\ run.at \in Listing => run.ids = <<>> \/ run.fault # "" \/ AllKnown
    /\ /\ Ended /\ run.query.op = "agentsList" /\ run.err = ""
       /\ AtLeast(run.query, "providers")
       => run.ids = <<>> \/ FaultWarned \/ AllKnown

\* No listing has ids at first.
LEMMA SeenInit == Init => Seen
<1> SUFFICES ASSUME Init PROVE Seen
  OBVIOUS
<1>1. run.at = "done" /\ run.ids = <<>>
  BY DEF Init, NewRun
<1> QED
  BY <1>1 DEF Seen, Listing

\* The catalog never goes.
LEMMA AllKnownStays ==
    ASSUME memo \in Memos \cup {None}, AllKnown, run'.ids = run.ids,
           memo' = memo \/ \E r \in Replies : memo' = r.memo
    PROVE  AllKnown'
<1>1. memo' = memo
  BY RepliesParts DEF AllKnown
<1> QED
  BY <1>1 DEF AllKnown

\* A step of another operation, or one that stays out of a listing and its end.
LEMMA OutOfListing ==
    ASSUME run'.at \notin Listing, run'.at \in {"finish", "done"} =>
               run'.query.op # "agentsList" \/ run'.err # ""
    PROVE  Seen'
  BY DEF Seen, Ended

\* A listing goes on with known ids, or with the fault that hid them.
LEMMA SeenStep == Types /\ Stations /\ Seen /\ [Next]_vars => Seen'
<1> SUFFICES ASSUME Types, Stations, Seen, [Next]_vars PROVE Seen'
  OBVIOUS
<1>m. memo \in Memos \cup {None} /\ IsRun(run)
  BY DEF Types
<1> USE DEF Keeps, RunFields
<1>1. CASE Begin
  BY <1>1, BeginEffect, OutOfListing DEF Listing
<1>2. CASE OtherFills \/ UNCHANGED vars
  <2>1. run' = run /\ (memo' = memo \/ memo = None)
    BY <1>2 DEF OtherFills, vars
  <2>2. AllKnown => AllKnown'
    BY <2>1 DEF AllKnown
  <2> QED
    BY <2>1, <2>2 DEF Seen, Ended, FaultWarned
<1>3. CASE CatalogFails \/ AgentUnknown \/ ProvidersNotAllowed \/ ContextEnds \/ MalformedModelID
  <2>1. PICK e \in RefusalErrors : Refused(e)
    BY <1>3, <1>m, Refusals
  <2>2. e # ""
    BY DEF RefusalErrors, CatalogErrors
  <2> QED
    BY <2>1, <2>2, OutOfListing DEF Refused, Listing
<1>4. CASE CatalogResolved
  <2>1. run'.at \in Operations
    BY <1>4, <1>m, ConstantsAssumption, CatalogResolvedEffect DEF Types, Queries
  <2> QED
    BY <2>1, OutOfListing DEF Listing, Operations
<1>5. CASE ValidateForAgent
  <2>1. run'.at \in {"finish", "probe"} /\ run'.query.op = "agentsGet"
    BY <1>5, <1>m, ValidateForAgentEffect DEF ForAgent
  <2> QED
    BY <2>1, OutOfListing DEF Listing
<1>6. CASE ValidateForListing
  <2>1. PICK r \in Replies :
            /\ memo' = r.memo /\ run'.ids = run.ids /\ run'.fault = Verdict(r, run.ids)
            /\ \/ run'.at = "finish" /\ run'.err = "unknownProvider"
               \/ run'.at = "probeListing"
    BY <1>6, <1>m, ValidateForListingEffect
  <2>2. run'.fault = "" => r.memo \in Memos /\ ToSet(run.ids) \subseteq r.memo.known
    BY <1>m, <2>1, VerdictParts, RepliesParts
  <2>3. run'.fault = "" => AllKnown'
    BY <2>1, <2>2, MemoParts DEF AllKnown
  <2> QED
    BY <2>1, <2>3 DEF Seen, Ended, Listing
<1>7. CASE ValidateForModels
  <2>1. run'.at \in {"finish", "models"} /\ run'.query.op = "modelsList"
    BY <1>7, <1>m, ValidateForModelsEffect
  <2> QED
    BY <2>1, OutOfListing DEF Listing
<1>8. CASE GetAgent
  <2>1. run'.at \in {"finish", "validate", "probe"} /\ run'.query.op = "agentsGet"
    BY <1>8, <1>m, GetAgentEffect DEF Stations, Operations
  <2> QED
    BY <2>1, OutOfListing DEF Listing
<1>9. CASE ProbeCoverage
  <2>1. PICK r : Probed(r)
    BY <1>9, <1>m, ProbeCoverageEffect
  <2>2. run'.at = "finish" /\ run'.query.op = "agentsGet"
    BY <2>1 DEF Probed, Stations
  <2> QED
    BY <2>2, OutOfListing DEF Listing
<1>10. CASE ListAgents
  BY <1>10, <1>m, ListAgentsEffect DEF Seen, Ended, Listing
<1>11. CASE ProbeListing
  <2>1. /\ run.at = "probeListing" /\ run'.at = "detect" /\ run'.ids = run.ids
        /\ memo' = memo \/ \E r \in Replies : memo' = r.memo
        /\ run'.fault = run.fault \/ run.fault = ""
    BY <1>11, <1>m, ProbeListingEffect
  <2>2. AllKnown => AllKnown'
    BY <1>m, <2>1, AllKnownStays
  <2> QED
    BY <2>1, <2>2 DEF Seen, Ended, Listing
<1>12. CASE Detect
  <2>1. Detected
    BY <1>12, <1>m, DetectEffect
  <2>2. /\ memo' = memo /\ run'.ids = run.ids /\ run'.query = run.query
        /\ run'.fault = run.fault /\ run.fault \in Faults \cup {""}
        /\ run.ids = <<>> \/ run.fault # "" \/ AllKnown
    BY <2>1 DEF Detected, Seen, Stations, Types, Listing
  <2>3. AllKnown => AllKnown'
    BY <2>2 DEF AllKnown
  <2>4. CASE run'.at = "rows"
    BY <2>2, <2>3, <2>4 DEF Seen, Ended
  <2>5. CASE run'.at = "finish" /\ run.query.enrich = "none"
    <3>1. ~ AtLeast(run.query, "providers")
      BY <2>5, LevelParts DEF Types
    <3>2. ~ AtLeast(run.query, "providers")'
      BY <2>2, <3>1
    <3> QED
      BY <2>5, <3>2 DEF Seen, Ended, Listing
  <2>6. CASE run'.at = "finish" /\ run.query.enrich # "none"
    <3>1. run'.warned = run.warned \cup FaultWarning(run.fault)
      BY <2>1, <2>6 DEF Detected
    <3>2. run.fault # "" => FaultWarned'
      <4>1. FaultWarning(run.fault) \subseteq {"modelsUnreachable", "schemaDrift"}
        BY FaultWarningParts
      <4>2. run.fault # "" => FaultWarning(run.fault) # {}
        BY <2>2, FaultWarningParts
      <4> QED
        BY <3>1, <4>1, <4>2 DEF FaultWarned
    <3> QED
      BY <2>2, <2>3, <2>6, <3>2 DEF Seen, Ended, Listing
  <2> QED
    BY <2>1, <2>4, <2>5, <2>6 DEF Detected
<1>13. ASSUME NEW a \in Agents, EnrichRow(a) PROVE Seen'
  <2>1. Enriched(a)
    BY <1>13, <1>m, EnrichRowEffect
  <2>2. /\ run.at = "rows" /\ run'.at = "rows" /\ run'.ids = run.ids
        /\ run'.fault = run.fault \/ run.fault = ""
        /\ memo' = memo \/ \E r \in Replies : memo' = r.memo
    BY <2>1 DEF Enriched
  <2>3. AllKnown => AllKnown'
    BY <1>m, <2>2, AllKnownStays
  <2> QED
    BY <2>2, <2>3 DEF Seen, Ended, Listing
<1>14. CASE RowsDone
  <2>1. /\ run.at = "rows" /\ run'.at = "finish" /\ memo' = memo /\ run'.ids = run.ids
        /\ run.fault # "" => run'.warned = run.warned \cup FaultWarning(run.fault)
        /\ run.fault \in Faults \cup {""}
        /\ run.ids = <<>> \/ run.fault # "" \/ AllKnown
    BY <1>14, <1>m, RowsDoneEffect DEF Stations, Seen, Types, Listing
  <2>2. run.fault # "" => FaultWarned'
    <3>1. FaultWarning(run.fault) \subseteq {"modelsUnreachable", "schemaDrift"}
      BY FaultWarningParts
    <3>2. run.fault # "" => FaultWarning(run.fault) # {}
      BY <2>1, FaultWarningParts
    <3> QED
      BY <2>1, <3>1, <3>2 DEF FaultWarned
  <2>3. AllKnown => AllKnown'
    BY <2>1 DEF AllKnown
  <2> QED
    BY <2>1, <2>2, <2>3 DEF Seen, Ended, Listing
<1>15. CASE ScopeToProviders \/ ScopeToAll \/ ScopeToAgent
  <2>1. /\ run'.at \in {"validate", "finish", "models"}
        /\ run'.query.op = "modelsList"
    BY <1>15, <1>m, ScopeToProvidersEffect, ScopeToAllEffect, ScopeToAgentEffect
       DEF Stations, Operations
  <2> QED
    BY <2>1, OutOfListing DEF Listing
<1>16. CASE ListModels \/ GetOne \/ ListProviders
  <2>1. run'.at \in {"finish", "done"} /\ run'.query.op # "agentsList"
    BY <1>16, <1>m, ListModelsEffect, GetOneEffect, ListProvidersEffect DEF Stations
  <2> QED
    BY <2>1, OutOfListing DEF Listing
<1>17. CASE Finish
  <2>1. /\ run.at = "finish" /\ run'.at = "done" /\ memo' = memo /\ run'.ids = run.ids
        /\ run'.query = run.query /\ run'.err = run.err
        /\ run.warned \subseteq run'.warned
    BY <1>17, <1>m, FinishEffect
  <2>2. (AllKnown => AllKnown') /\ (FaultWarned => FaultWarned')
    BY <2>1 DEF AllKnown, FaultWarned
  <2> QED
    BY <2>1, <2>2 DEF Seen, Ended, Listing
<1> QED
  BY <1>1, <1>2, <1>3, <1>4, <1>5, <1>6, <1>7, <1>8, <1>9, <1>10, <1>11, <1>12, <1>13, <1>14,
     <1>15, <1>16, <1>17 DEF Next, Progress

\* ListingNeverHidesUnknown is what the layer says of a listing that is done.
LEMMA SeenImplies == Seen => ListingNeverHidesUnknown
<1>1. ToSet(<<>>) = {}
  BY DEF ToSet
<1> QED
  BY <1>1 DEF Seen, ListingNeverHidesUnknown, AllKnown, Done, Ended

-----------------------------------------------------------------------------
(* Eighth layer: an unknown provider is rejected for a reason.             *)

\* dedupeIDs folds the ids, each of them once.
LEMMA DedupeIsFold ==
    ASSUME NEW ids, NEW n, DOMAIN ids = 1 .. n
    PROVE  dedupeIDs(ids) = (CHOOSE f : Dedupes(f, ids, n))[1 .. n]
  BY DEF dedupeIDs, FoldLeft, MapThenFoldSet, Dedupes, With, Prior

\* dedupeIDs gives the ids it is given, each of them once, and no other.
THEOREM DedupeKeepsIds ==
    ASSUME NEW X, NEW ids \in Seq(X)
    PROVE  dedupeIDs(ids) \in Seq(X) /\ ToSet(dedupeIDs(ids)) = ToSet(ids) /\ Once(dedupeIDs(ids))
<1>1. PICK n \in Nat : DOMAIN ids = 1 .. n /\ ids \in [1 .. n -> X]
  BY Len(ids) \in Nat
<1> QED
  BY <1>1, DedupeIsFold, DedupeHas

\* A verdict of "unknown" has an unknown id to show.
LEMMA UnknownIsThere ==
    ASSUME memo \in Memos \cup {None}, NEW r \in Replies, NEW ids \in Seq(Providers),
           Verdict(r, ids) = "unknown"
    PROVE  r.memo \in Memos /\ ~ ToSet(ids) \subseteq r.memo.known
<1> DEFINE bad == {i \in DOMAIN ids : ids[i] \notin r.memo.known \/ ids[i] \in r.memo.drifted}
           first == CHOOSE i \in bad : \A j \in bad : i =< j
<1>1. r.fault = "" /\ r.memo \in Memos
  BY VerdictParts, RepliesParts
<1>2. Verdict(r, ids) = IF bad = {} THEN ""
                        ELSE IF ids[first] \in r.memo.drifted THEN "schema" ELSE "unknown"
  BY <1>1 DEF Verdict
<1>3. bad # {} /\ ids[first] \notin r.memo.drifted
  BY <1>2
<1>4. bad \in SUBSET Nat
  OBVIOUS
<1>5. first \in bad
  <2> HIDE DEF bad
  <2>1. \E i \in bad : \A j \in bad : i =< j
    BY <1>3, <1>4, LeastNumber
  <2> QED
    BY <2>1
<1>6. first \in DOMAIN ids /\ ids[first] \notin r.memo.known
  BY <1>3, <1>5
<1> QED
  BY <1>1, <1>6 DEF ToSet

\* The ids about to be validated are the caller's; a rejection names one the
\* catalog, which stays, does not have.
Earned ==
    /\ run.at = "validate" => run.ids = Caller(run)
    /\ run.err = "unknownProvider" =>
          memo # None /\ ~ ToSet(run.query.providers) \subseteq memo.known

\* The caller's ids, without their repetitions.
LEMMA CallerParts ==
    Types => /\ Caller(run) \in Seq(Providers)
             /\ ToSet(Caller(run)) = ToSet(run.query.providers)
<1>1. Types => run.query.providers \in Seq(Providers)
  BY ConstantsAssumption DEF Types, Queries
<1> QED
  BY <1>1, DedupeKeepsIds DEF Caller

\* Nothing is rejected at first.
LEMMA EarnedInit == Init => Earned
<1> SUFFICES ASSUME Init PROVE Earned
  OBVIOUS
<1>1. run.at = "done" /\ run.err = ""
  BY DEF Init, NewRun
<1> QED
  BY <1>1 DEF Earned

\* A step that does not validate and rejects nothing.
LEMMA NotRejected ==
    ASSUME run'.at # "validate", run'.err # "unknownProvider"
    PROVE  Earned'
  BY DEF Earned

\* A step that validates: it keeps the ids' verdict.
LEMMA ValidatedIsEarned ==
    ASSUME Types, Stations, Earned, run.at = "validate",
           NEW r \in Replies, memo' = r.memo, run'.query = run.query,
           run'.at # "validate",
           run'.err = "unknownProvider" => Verdict(r, run.ids) = "unknown"
    PROVE  Earned'
<1>1. run.ids \in Seq(Providers) /\ ToSet(run.ids) = ToSet(run.query.providers)
  BY CallerParts DEF Earned
<1>2. Verdict(r, run.ids) = "unknown" =>
          memo' \in Memos /\ ~ ToSet(run.ids) \subseteq memo'.known
  BY <1>1, UnknownIsThere DEF Types
<1> QED
  BY <1>1, <1>2, MemoParts DEF Earned

\* Only a verdict on the caller's ids rejects, and its catalog stays.
LEMMA EarnedStep == Types /\ Stations /\ Earned /\ [Next]_vars => Earned'
<1> SUFFICES ASSUME Types, Stations, Earned, [Next]_vars PROVE Earned'
  OBVIOUS
<1>m. memo \in Memos \cup {None} /\ IsRun(run)
  BY DEF Types
<1>e. ~ Ended => run.err = ""
  BY DEF Stations
<1> USE DEF Keeps, RunFields
<1>1. CASE Begin
  BY <1>1, BeginEffect, NotRejected
<1>2. CASE OtherFills \/ UNCHANGED vars
  <2>1. run' = run /\ (memo' = memo \/ memo = None)
    BY <1>2 DEF OtherFills, vars
  <2> QED
    BY <2>1 DEF Earned, Caller
<1>3. CASE CatalogFails \/ AgentUnknown \/ ProvidersNotAllowed \/ ContextEnds \/ MalformedModelID
  <2>1. PICK e \in RefusalErrors : Refused(e)
    BY <1>3, <1>m, Refusals
  <2>2. e # "unknownProvider"
    BY DEF RefusalErrors, CatalogErrors
  <2> QED
    BY <2>1, <2>2, NotRejected DEF Refused
<1>4. CASE CatalogResolved
  <2>1. run'.at \in Operations /\ run'.err = run.err /\ run.at = "start"
    BY <1>4, <1>m, ConstantsAssumption, CatalogResolvedEffect DEF Types, Queries
  <2> QED
    BY <1>e, <2>1, NotRejected DEF Operations, Ended
<1>5. CASE ValidateForAgent
  <2>1. PICK r \in Replies : memo' = r.memo /\ ForAgent(Verdict(r, run.ids))
    BY <1>5, <1>m, ValidateForAgentEffect
  <2>2. run'.err = "unknownProvider" => Verdict(r, run.ids) = "unknown"
    BY <1>e, <2>1 DEF ForAgent, Ended
  <2>3. run.at = "validate" /\ run'.at # "validate" /\ run'.query = run.query
    BY <2>1 DEF ForAgent
  <2> QED
    BY <2>1, <2>2, <2>3, ValidatedIsEarned
<1>6. CASE ValidateForListing
  <2>1. PICK r \in Replies :
            /\ memo' = r.memo /\ run.at = "validate" /\ run'.at # "validate"
            /\ run'.query = run.query
            /\ Verdict(r, run.ids) # "unknown" => run'.err = run.err
    BY <1>6, <1>m, ValidateForListingEffect
  <2> QED
    BY <1>e, <2>1, ValidatedIsEarned DEF Ended
<1>7. CASE ValidateForModels
  <2>1. PICK r \in Replies :
            /\ memo' = r.memo /\ run.at = "validate" /\ run'.at # "validate"
            /\ run'.query = run.query
            /\ Verdict(r, run.ids) # "unknown" => run'.err \in {run.err, "modelsSchema"}
    BY <1>7, <1>m, ValidateForModelsEffect
  <2> QED
    BY <1>e, <2>1, ValidatedIsEarned DEF Ended
<1>8. CASE GetAgent \/ ListAgents \/ ScopeToProviders \/ ScopeToAgent
  <2>1. /\ run'.err \in {run.err, "", "providersRequired"} /\ ~ Ended
        /\ run'.query = run.query
        /\ run'.at = "validate" => run'.ids = Caller(run)
    BY <1>8, <1>m, GetAgentEffect, ListAgentsEffect, ScopeToProvidersEffect, ScopeToAgentEffect
       DEF Ended
  <2>2. Caller(run)' = Caller(run)
    BY <2>1 DEF Caller
  <2> QED
    BY <1>e, <2>1, <2>2 DEF Earned
<1>9. CASE ProbeCoverage
  <2>1. run'.at = "finish" /\ run'.err = ""
    BY <1>9, <1>m, ProbeCoverageEffect DEF Probed
  <2> QED
    BY <2>1, NotRejected
<1>10. CASE ProbeListing
  BY <1>10, <1>m, <1>e, ProbeListingEffect, NotRejected DEF Ended
<1>11. CASE Detect
  <2>1. run'.at \in {"finish", "rows"} /\ run'.err \in {"", run.err} /\ ~ Ended
    BY <1>11, <1>m, DetectEffect DEF Detected, Ended
  <2> QED
    BY <1>e, <2>1, NotRejected
<1>12. ASSUME NEW a \in Agents, EnrichRow(a) PROVE Earned'
  <2>1. run.at = "rows" /\ run'.at = "rows" /\ run'.err = run.err
    BY <1>12, <1>m, EnrichRowEffect DEF Enriched
  <2> QED
    BY <1>e, <2>1, NotRejected DEF Ended
<1>13. CASE RowsDone
  BY <1>13, <1>m, RowsDoneEffect, NotRejected
<1>14. CASE ScopeToAll \/ ListModels \/ GetOne \/ ListProviders
  <2>1. /\ run'.at \in {"finish", "done", "models"} /\ ~ Ended
        /\ run'.err \in {"", "notFound", run.err} \cup ReadErrors
    <3>1. CASE ScopeToAll
      BY <1>m, <3>1, ScopeToAllEffect, RepliesParts, mapModelsErrParts DEF Ended
    <3>2. CASE ListModels
      BY <1>m, <3>2, ListModelsEffect, ReadFaultParts, mapModelsErrParts DEF Ended
    <3>3. CASE GetOne
      BY <1>m, <3>3, GetOneEffect, ReadFaultParts, mapModelsErrParts DEF Ended
    <3>4. CASE ListProviders
      BY <1>m, <3>4, ListProvidersEffect, RepliesParts, mapModelsErrParts DEF Ended
    <3> QED
      BY <1>14, <3>1, <3>2, <3>3, <3>4
  <2>2. "unknownProvider" \notin {"", "notFound"} \cup ReadErrors
    BY DEF ReadErrors
  <2> QED
    BY <1>e, <2>1, <2>2, NotRejected
<1>15. CASE Finish
  <2>1. memo' = memo /\ run'.query = run.query /\ run'.err = run.err /\ run'.at = "done"
    BY <1>15, <1>m, FinishEffect
  <2> QED
    BY <2>1 DEF Earned
<1> QED
  BY <1>1, <1>2, <1>3, <1>4, <1>5, <1>6, <1>7, <1>8, <1>9, <1>10, <1>11, <1>12, <1>13, <1>14,
     <1>15 DEF Next, Progress

\* RejectionsAreEarned, with what is known of outages.
LEMMA EarnedImplies == Timely /\ Earned => RejectionsAreEarned
  BY DEF Timely, Earned, RejectionsAreEarned

-----------------------------------------------------------------------------
(* What an operation answers that has the client to itself, as that of a   *)
(* process of the command line: no other goroutine brings the catalog and  *)
(* no context ends, so that what was true of the client when the operation *)
(* decided is still true when it is done.                                  *)

Given == ToSet(run.query.providers)

\* The first of the ids a list has: SetToSeq of a set gives its elements.
LEMMA SetToSeqParts ==
    ASSUME NEW S, IsFiniteSet(S), S # {}
    PROVE  ToSet(SetToSeq(S)) # {}
<1> DEFINE n == Cardinality(S)
<1>1. n \in Nat /\ ExistsBijection(1 .. n, S)
  BY FS_CardinalityType
<1>2. PICK f \in Bijection(1 .. n, S) : TRUE
  BY <1>1 DEF ExistsBijection
<1>3. f \in [1 .. n -> S] /\ IsInjective(f) /\ \A s \in S : \E i \in 1 .. n : f[i] = s
  BY <1>2 DEF Bijection, Injection, Surjection, IsInjective
<1>4. SetToSeq(S) \in [1 .. n -> S]
  <2>1. \E g \in [1 .. n -> S] : IsInjective(g)
    BY <1>3
  <2> QED
    BY <2>1 DEF SetToSeq
<1>5. 1 .. n # {}
  BY <1>3
<1> HIDE DEF n
<1> QED
  BY <1>4, <1>5 DEF ToSet

\* What an agent's provider set is resolved to: the caller's ids, all of them,
\* if there are any, and never none for an agent that has a set of its own.
LEMMA ResolvedParts ==
    ASSUME Types, NEW a \in Agents,
           NEW ids, \/ ids = Caller(run) /\ Caller(run) # <<>>
                    \/ ids = Resolved(a, Caller(run)) /\ ~ Agnostic(a)
    PROVE  ToSet(ids) # {} /\ Given \subseteq ToSet(ids)
<1>1. Caller(run) \in Seq(Providers) /\ ToSet(Caller(run)) = Given
  BY CallerParts DEF Given
<1>2. CASE Caller(run) # <<>>
  <2>1. ids = Caller(run)
    BY <1>2 DEF Resolved
  <2>2. ToSet(Caller(run)) # {}
    <3>1. 1 \in DOMAIN Caller(run)
      BY <1>1, <1>2
    <3> QED
      BY <3>1 DEF ToSet
  <2> QED
    BY <1>1, <2>1, <2>2
<1>3. CASE Caller(run) = <<>>
  <2>1. ids = SetToSeq(Home[a]) /\ Home[a] # {}
    BY <1>3 DEF Resolved, Agnostic
  <2>2. IsFiniteSet(Home[a])
    BY ConstantsAssumption
  <2>3. ToSet(<<>>) = {}
    BY NoDomain DEF ToSet
  <2> QED
    BY <1>1, <1>3, <2>1, <2>2, <2>3, SetToSeqParts
<1> QED
  BY <1>2, <1>3

\* A read that finds drift, and is not of an empty answer, has a drifted id.
LEMMA DriftIsThere ==
    ASSUME memo \in Memos \cup {None}, NEW r \in Replies, r.memo # None
    PROVE  /\ \A ids : ReadFault(r, ids) = "schema" => ids \cap r.memo.drifted # {}
           /\ \A ids \in Seq(Providers) :
                 Verdict(r, ids) = "schema" => ToSet(ids) \cap r.memo.drifted # {}
<1>1. r.fault = ""
  BY RepliesParts
<1>2. ASSUME NEW ids \in Seq(Providers), Verdict(r, ids) = "schema"
      PROVE  ToSet(ids) \cap r.memo.drifted # {}
  <2> DEFINE bad == {i \in DOMAIN ids : ids[i] \notin r.memo.known \/ ids[i] \in r.memo.drifted}
             first == CHOOSE i \in bad : \A j \in bad : i =< j
  <2>1. Verdict(r, ids) = IF bad = {} THEN ""
                          ELSE IF ids[first] \in r.memo.drifted THEN "schema" ELSE "unknown"
    BY <1>1 DEF Verdict
  <2>2. bad # {} /\ ids[first] \in r.memo.drifted
    BY <1>2, <2>1
  <2>3. bad \in SUBSET Nat
    OBVIOUS
  <2>4. first \in bad
    <3> HIDE DEF bad
    <3>1. \E i \in bad : \A j \in bad : i =< j
      BY <2>2, <2>3, LeastNumber
    <3> QED
      BY <3>1
  <2> QED
    BY <2>2, <2>4 DEF ToSet
<1> QED
  BY <1>1, <1>2 DEF ReadFault

\* Why Agents.Get calls models.dev: for a level that needs it, or to check the
\* ids given for an agnostic agent.
Called(q) == q.enrich # "none" /\ (q.enrich = "providers" => Agnostic(q.agent))
Named == ToSet(run.ids) # {} /\ Given \subseteq ToSet(run.ids)

\* What a probe has found, and what it says of the client's catalog.
Covered ==
    \/ /\ run.coverage \in Faults /\ FaultWarned
       /\ run.coverage = "schema" /\ memo # None => ToSet(run.ids) \cap memo.drifted # {}
    \/ run.coverage = "nonePresent" /\ memo # None /\ ToSet(run.ids) \cap memo.known = {}
    \/ /\ run.coverage \in {"allPresent", "somePresent"} /\ run.state = "applied"
       /\ run.models # {} /\ memo # None /\ ToSet(run.ids) \cap memo.known # {}

\* How Agents.Get ends without an error, by the level asked of it.
Outcome ==
    \/ /\ run.query.enrich = "none"
       /\ run.state = "notRequested" /\ run.coverage = "notProbed"
    \/ /\ run.query.enrich # "none" /\ run.state = "notApplicable"
       /\ ~ run.asked /\ run.ids = <<>> /\ run.coverage = "notProbed"
    \/ /\ run.query.enrich = "providers"
       /\ run.state # "notApplicable" /\ run.coverage = "notProbed" /\ Named
    \/ /\ run.query.enrich \notin {"none", "providers"}
       /\ run.state # "notApplicable" /\ Named /\ Covered

Getting ==
    /\ run.at \in {"start", "agentsGet"} => run.coverage = "notProbed" /\ run.ids = <<>>
    /\ run.at \in {"validate", "probe"} =>
          run.coverage = "notProbed" /\ Named /\ Called(run.query)
    /\ run.at = "probe" => run.query.enrich # "providers"
    /\ run.asked => Called(run.query)
    /\ run.at \in {"finish", "done"} /\ run.err = "" => Outcome

\* What each error says.
Faulted ==
    /\ run.at \in {"start"} \cup Operations => ~ run.asked
    /\ run.err \in (RefusalErrors \ {"context"}) \cup {"providersRequired"} => ~ run.asked
    /\ run.err = "agentUnknown" => run.query.agent \in Strangers
    /\ run.err = "modelsUnavailable" =>
          memo = None /\ run.query.op \notin {"agentsGet", "agentsList"}
    /\ run.err = "modelsSchema" /\ memo # None =>
          (ToSet(run.ids) \cup Given) \cap memo.drifted # {}
    /\ run.err = "notFound" => memo # None /\ run.query.op \in Gets

Answers ==
    /\ run.query.op \in Gets => Len(run.query.providers) = 1
    /\ Faulted
    /\ run.query.op = "agentsGet" => Getting

\* An operation begins so, whatever the one before it was.
LEMMA BegunIsSound ==
    memo \in Memos \cup {None} /\ Begin =>
        Types' /\ Stations' /\ Complete' /\ Earned' /\ Answers'
<1> SUFFICES ASSUME memo \in Memos \cup {None}, Begin
             PROVE  Types' /\ Stations' /\ Complete' /\ Earned' /\ Answers'
  OBVIOUS
<1>1. /\ memo' = memo /\ IsRun(run')
      /\ run'.at = "start" /\ run'.query \in Queries
      /\ run'.ids = <<>> /\ run'.fault = "" /\ run'.asked = FALSE /\ run'.warned = {}
      /\ run'.err = "" /\ run'.state = "notRequested" /\ run'.coverage = "notProbed"
      /\ run'.models = {} /\ run'.rows = <<>> /\ run'.left = {}
  BY BeginEffect
<1>2. Types'
  <2>1. RowType(run'.rows)
    BY <1>1, NoRows
  <2> QED
    BY <1>1, <2>1 DEF Types, Errors, States, Coverages, Places
<1>3. Stations'
  BY <1>1 DEF Stations, Listing, Operations, Ended
<1>4. Complete'
  BY <1>1, NoDomain DEF Complete, Listed
<1>5. Earned'
  BY <1>1, NotRejected
<1>6. run'.query.op \in Gets => Len(run'.query.providers) = 1
  <2>1. PICK q \in Queries : Sensible(q) /\ BeginWith(q)
    BY DEF Begin
  <2>2. run'.query = q
    BY <2>1 DEF BeginWith, NewRun
  <2> QED
    BY <2>1, <2>2 DEF Sensible, Gets
<1>7. Faulted' /\ Getting'
  BY <1>1 DEF Faulted, Getting, RefusalErrors, CatalogErrors
<1> QED
  BY <1>2, <1>3, <1>4, <1>5, <1>6, <1>7 DEF Answers

\* An error that says nothing of models.dev or of an agent.
LEMMA Faultless ==
    ASSUME run'.err \in {"", "unknownProvider"}, run'.at \notin {"start"} \cup Operations
    PROVE  Faulted'
  BY DEF Faulted, RefusalErrors, CatalogErrors

\* Each error says what Faulted has it say when it is met, and nobody changes
\* the client before the operation is done.
LEMMA FaultedStep ==
    Types /\ Stations /\ Earned /\ Answers /\ Progress => Faulted'
<1> SUFFICES ASSUME Types, Stations, Earned, Answers, Progress PROVE Faulted'
  OBVIOUS
<1>m. memo \in Memos \cup {None} /\ IsRun(run)
  BY DEF Types
<1>e. /\ ~ Ended => run.err = ""
      /\ run.at \in {"start"} \cup Operations => ~ run.asked
      /\ run.at \in Operations => run.query.op = run.at
  BY DEF Stations, Answers, Faulted
<1> USE DEF Ended, Keeps, RunFields, Operations
<1>1. CASE CatalogFails \/ AgentUnknown \/ ProvidersNotAllowed \/ MalformedModelID
  <2>1. PICK e \in RefusalErrors : Refused(e)
    BY <1>1, <1>m, Refusals
  <2>2. /\ run'.err = e /\ run'.at \in {"finish", "done"} /\ run'.asked = run.asked
        /\ run'.query = run.query
    BY <2>1 DEF Refused
  <2>3. e # "context" => ~ run.asked
    BY <1>e, <2>1 DEF Refused
  <2>4. e = "agentUnknown" => run.query.agent \in Strangers
    BY <2>1 DEF Refused
  <2>5. e \notin {"modelsUnavailable", "modelsSchema", "notFound", "providersRequired"}
    BY DEF RefusalErrors, CatalogErrors
  <2> QED
    BY <2>2, <2>3, <2>4, <2>5 DEF Faulted
<1>2. CASE CatalogResolved
  <2>1. /\ run'.at = run.query.op /\ run'.err = "" /\ run'.asked = run.asked /\ ~ run.asked
    BY <1>2, <1>m, <1>e, CatalogResolvedEffect
  <2> QED
    BY <2>1 DEF Faulted, RefusalErrors, CatalogErrors
<1>3. CASE ValidateForAgent
  <2>1. PICK r \in Replies : ForAgent(Verdict(r, run.ids))
    BY <1>3, <1>m, ValidateForAgentEffect
  <2>2. run'.err \in {"", "unknownProvider"} /\ run'.at \in {"finish", "probe"}
    BY <1>e, <2>1 DEF ForAgent
  <2> QED
    BY <2>2, Faultless
<1>4. CASE ValidateForListing \/ ProbeCoverage \/ ListAgents \/ ProbeListing \/ RowsDone
  <2>1. run'.err \in {"", "unknownProvider"} /\ run'.at \notin {"start"} \cup Operations
    BY <1>4, <1>m, <1>e, ValidateForListingEffect, ProbeCoverageEffect, ListAgentsEffect,
       ProbeListingEffect, RowsDoneEffect DEF Probed
  <2> QED
    BY <2>1, Faultless
<1>5. CASE Detect
  <2>1. run'.err = "" /\ run'.at \in {"finish", "rows"}
    BY <1>5, <1>m, <1>e, DetectEffect DEF Detected
  <2> QED
    BY <2>1, Faultless
<1>6. ASSUME NEW a \in Agents, EnrichRow(a) PROVE Faulted'
  <2>1. run'.err = "" /\ run'.at = "rows"
    BY <1>6, <1>m, <1>e, EnrichRowEffect DEF Enriched
  <2> QED
    BY <2>1, Faultless
<1>7. CASE GetAgent
  <2>1. run'.err = "" /\ run'.at \notin {"start"} \cup Operations
    BY <1>7, <1>m, <1>e, GetAgentEffect
  <2> QED
    BY <2>1, Faultless
<1>8. CASE ScopeToProviders
  <2>1. run'.err = "" /\ run'.at \notin {"start"} \cup Operations
    BY <1>8, <1>m, <1>e, ScopeToProvidersEffect
  <2> QED
    BY <2>1, Faultless
<1>9. CASE ScopeToAgent
  <2>1. /\ run.at = "modelsList" /\ run'.asked = run.asked
        /\ run'.at \in {"models", "finish", "validate"} /\ run'.err \in {"", "providersRequired"}
    BY <1>9, <1>m, <1>e, ScopeToAgentEffect
  <2> QED
    BY <1>e, <2>1 DEF Faulted, RefusalErrors, CatalogErrors
<1>10. CASE ValidateForModels
  <2>1. PICK r \in Replies :
            /\ run.at = "validate" /\ run.query.op = "modelsList" /\ memo' = r.memo
            /\ run'.err = "modelsSchema" => Verdict(r, run.ids) = "schema"
            /\ run'.err \in {"", "unknownProvider", "modelsSchema"}
            /\ run'.at \in {"finish", "models"}
            /\ run'.query = run.query /\ run'.ids = run.ids
    BY <1>10, <1>m, <1>e, ValidateForModelsEffect
  <2>2. CASE run'.err = "modelsSchema"
    <3>1. run.ids \in Seq(Providers)
      BY <2>1, CallerParts DEF Earned
    <3>2. memo' # None => ToSet(run'.ids) \cap memo'.drifted # {}
      BY <1>m, <2>1, <2>2, <3>1, DriftIsThere
    <3> QED
      BY <2>1, <2>2, <3>2 DEF Faulted, RefusalErrors, CatalogErrors
  <2>3. CASE run'.err # "modelsSchema"
    BY <2>1, <2>3, Faultless
  <2> QED
    BY <2>2, <2>3
<1>11. CASE ScopeToAll
  <2>1. PICK r \in Replies :
            /\ memo' = r.memo /\ run'.at \in {"finish", "models"} /\ run.query.op = "modelsList"
            /\ run'.query = run.query
            /\ \/ r.fault # "" /\ run'.err = mapModelsErr(r.fault)
               \/ run'.err = ""
    BY <1>11, <1>m, <1>e, ScopeToAllEffect
  <2>2. CASE run'.err = ""
    BY <2>1, <2>2, Faultless
  <2>3. CASE run'.err # ""
    <3>1. memo' = None /\ run'.err \in ReadErrors
      BY <1>m, <2>1, <2>3, RepliesParts, mapModelsErrParts
    <3> QED
      BY <2>1, <3>1 DEF Faulted, RefusalErrors, CatalogErrors, ReadErrors
  <2> QED
    BY <2>2, <2>3
<1>12. CASE ListModels
  <2>0. run.at = "models" /\ run.query.op = "modelsList"
    BY <1>12, <1>m, ListModelsEffect DEF Stations
  <2>1. PICK r \in Replies :
            /\ memo' = r.memo /\ run'.at = "finish" /\ run'.query = run.query
            /\ run'.ids = run.ids
            /\ \/ /\ ReadFault(r, ToSet(run.ids)) # ""
                  /\ run'.err = mapModelsErr(ReadFault(r, ToSet(run.ids)))
               \/ run'.err = ""
    BY <1>12, <1>m, <1>e, ListModelsEffect
  <2>2. CASE run'.err = ""
    BY <2>1, <2>2, Faultless
  <2>3. CASE run'.err # ""
    <3> DEFINE fault == ReadFault(r, ToSet(run.ids))
    <3>1. fault \in Faults /\ run'.err = mapModelsErr(fault) /\ run'.err \in ReadErrors
      BY <1>m, <2>1, <2>3, ReadFaultParts, mapModelsErrParts
    <3>2. fault = "unreachable" => memo' = None
      BY <1>m, <2>1, ReadFaultParts, RepliesParts
    <3>3. memo' # None => fault = "schema"
      BY <3>1, <3>2 DEF Faults
    <3>4. memo' # None => ToSet(run'.ids) \cap memo'.drifted # {}
      BY <1>m, <2>1, <3>3, DriftIsThere
    <3>5. run'.err = "modelsUnavailable" => memo' = None
      BY <3>1, <3>2, mapModelsErrParts
    <3> QED
      BY <2>0, <2>1, <3>1, <3>4, <3>5 DEF Faulted, RefusalErrors, CatalogErrors, ReadErrors
  <2> QED
    BY <2>2, <2>3
<1>13. CASE GetOne
  <2> DEFINE id == Head(run.query.providers)
  <2>1. PICK r \in Replies :
            /\ memo' = r.memo /\ run'.at = "done" /\ run'.query = run.query
            /\ run.query.op \in Gets
            /\ \/ /\ ReadFault(r, {id}) # ""
                  /\ run'.err = mapModelsErr(ReadFault(r, {id}))
               \/ ReadFault(r, {id}) = "" /\ run'.err = "notFound"
               \/ run'.err = ""
    BY <1>13, <1>m, <1>e, GetOneEffect DEF Gets
  <2>2. id \in Given
    <3>1. run.query.providers \in Seq(Providers) /\ Len(run.query.providers) = 1
      BY <2>1, ConstantsAssumption DEF Answers, Types, Queries
    <3>2. 1 \in DOMAIN run.query.providers /\ id = run.query.providers[1]
      BY <3>1
    <3> QED
      BY <3>2 DEF Given, ToSet
  <2> HIDE DEF id
  <2>3. CASE run'.err = ""
    BY <2>1, <2>3, Faultless
  <2>4. CASE ReadFault(r, {id}) = "" /\ run'.err = "notFound"
    <3>1. memo' # None
      BY <1>m, <2>1, <2>4, ReadFaultParts, MemoParts
    <3> QED
      BY <2>1, <2>4, <3>1 DEF Faulted, RefusalErrors, CatalogErrors
  <2>5. CASE ReadFault(r, {id}) # "" /\ run'.err = mapModelsErr(ReadFault(r, {id}))
    <3> DEFINE fault == ReadFault(r, {id})
    <3>1. fault \in Faults /\ run'.err = mapModelsErr(fault) /\ run'.err \in ReadErrors
      BY <1>m, <2>5, ReadFaultParts, mapModelsErrParts
    <3>2. fault = "unreachable" => memo' = None
      BY <1>m, <2>1, ReadFaultParts, RepliesParts
    <3>3. memo' # None => fault = "schema"
      BY <3>1, <3>2 DEF Faults
    <3>4. memo' # None => id \in memo'.drifted
      <4>1. memo' # None => {id} \cap memo'.drifted # {}
        BY <1>m, <2>1, <3>3, DriftIsThere
      <4> QED
        BY <4>1
    <3>5. run'.err = "modelsUnavailable" => memo' = None
      BY <3>1, <3>2, mapModelsErrParts
    <3>6. Given' = Given
      BY <2>1 DEF Given
    <3>7. memo' # None => (ToSet(run'.ids) \cup Given') \cap memo'.drifted # {}
      BY <2>2, <3>4, <3>6
    <3>8. run'.query.op \notin {"agentsGet", "agentsList"}
      BY <2>1 DEF Gets
    <3> QED
      BY <2>1, <3>1, <3>5, <3>7, <3>8 DEF Faulted, RefusalErrors, CatalogErrors, ReadErrors
  <2> QED
    BY <2>1, <2>3, <2>4, <2>5
<1>14. CASE ListProviders
  <2>1. PICK r \in Replies :
            /\ memo' = r.memo /\ run'.at \in {"finish", "done"}
            /\ run.query.op = "providersList" /\ run'.query = run.query
            /\ \/ r.fault # "" /\ run'.err = mapModelsErr(r.fault)
               \/ run'.err = ""
    BY <1>14, <1>m, <1>e, ListProvidersEffect
  <2>2. CASE run'.err = ""
    BY <2>1, <2>2, Faultless
  <2>3. CASE run'.err # ""
    <3>1. memo' = None /\ run'.err \in ReadErrors
      BY <1>m, <2>1, <2>3, RepliesParts, mapModelsErrParts
    <3> QED
      BY <2>1, <3>1 DEF Faulted, RefusalErrors, CatalogErrors, ReadErrors
  <2> QED
    BY <2>2, <2>3
<1>15. CASE Finish
  <2>1. /\ memo' = memo /\ run'.query = run.query /\ run'.err = run.err /\ run'.at = "done"
        /\ run'.asked = run.asked /\ run'.ids = run.ids
    BY <1>15, <1>m, FinishEffect
  <2>2. Faulted
    BY DEF Answers
  <2> QED
    BY <2>1, <2>2 DEF Faulted, Given
<1> QED
  BY <1>1, <1>2, <1>3, <1>4, <1>5, <1>6, <1>7, <1>8, <1>9, <1>10, <1>11, <1>12, <1>13, <1>14,
     <1>15 DEF Progress

\* Agents.Get goes on to a level it was asked for, with the agent's providers,
\* and ends with what that level has found.
LEMMA GettingStep ==
    Types /\ Stations /\ Answers /\ Progress /\ run.query.op = "agentsGet" => Getting'
<1> SUFFICES ASSUME Types, Stations, Answers, Progress, run.query.op = "agentsGet"
             PROVE  Getting'
  OBVIOUS
<1>m. memo \in Memos \cup {None} /\ IsRun(run)
  BY DEF Types
<1>g. Getting
  BY DEF Answers
<1>e. /\ run.at \in {"start"} \cup Operations => ~ run.asked
      /\ run.at \in Operations => run.at = "agentsGet"
      /\ run.at \notin Listing /\ run.at # "models"
      /\ ~ Ended => run.err = "" /\ run.state = "notRequested" /\ run.models = {}
  BY DEF Stations, Answers, Faulted
<1> USE DEF Ended, Keeps, RunFields, Operations
<1>1. CASE CatalogFails \/ AgentUnknown \/ ProvidersNotAllowed \/ MalformedModelID
  <2>1. PICK e \in RefusalErrors : Refused(e)
    BY <1>1, <1>m, Refusals
  <2>2. /\ run'.err # "" /\ run'.at \in {"finish", "done"} /\ run'.asked = run.asked
        /\ run'.query = run.query
    BY <2>1 DEF Refused, RefusalErrors, CatalogErrors
  <2>3. Called(run.query)' <=> Called(run.query)
    BY <2>2 DEF Called, Agnostic
  <2> QED
    BY <1>g, <2>2, <2>3 DEF Getting
<1>2. CASE CatalogResolved
  <2>1. /\ run.at = "start" /\ run'.at = "agentsGet" /\ ~ run'.asked
        /\ run'.coverage = run.coverage /\ run'.ids = run.ids
    BY <1>2, <1>m, <1>e, CatalogResolvedEffect
  <2> QED
    BY <1>g, <2>1 DEF Getting
<1>3. CASE ValidateForAgent
  <2>1. PICK r \in Replies : memo' = r.memo /\ ForAgent(Verdict(r, run.ids))
    BY <1>3, <1>m, ValidateForAgentEffect
  <2>2. /\ run.at = "validate" /\ run'.ids = run.ids /\ run'.query = run.query
        /\ run'.coverage = run.coverage
    BY <2>1 DEF ForAgent
  <2>3. run.coverage = "notProbed" /\ Named /\ Called(run.query)
    BY <1>g, <2>2 DEF Getting
  <2>4. Named' /\ Called(run.query)' /\ run'.coverage = "notProbed"
    BY <2>2, <2>3 DEF Named, Given, Called, Agnostic
  <2>5. \/ run'.at = "finish" /\ run'.err = "unknownProvider"
        \/ run'.at = "probe" /\ run'.query.enrich # "providers"
        \/ /\ run'.at = "finish" /\ run'.query.enrich = "providers"
           /\ run'.state \in {"applied", "degraded"}
    BY <2>1, <2>2 DEF ForAgent
  <2>6. CASE run'.at = "probe" /\ run'.query.enrich # "providers"
    BY <2>4, <2>6 DEF Getting
  <2>7. CASE run'.at = "finish" /\ run'.err = "unknownProvider"
    BY <2>4, <2>7 DEF Getting
  <2>8. CASE run'.at = "finish" /\ run'.query.enrich = "providers" /\ run'.state \in {"applied", "degraded"}
    BY <2>4, <2>8 DEF Getting, Outcome
  <2> QED
    BY <2>5, <2>6, <2>7, <2>8
<1>4. CASE GetAgent
  <2> DEFINE a == run.query.agent
  <2>1. /\ run.at = "agentsGet" /\ run'.query = run.query /\ ~ run'.asked /\ a \in Agents
        /\ run.ids = <<>> /\ run'.coverage = "notProbed" /\ run.state = "notRequested"
    BY <1>4, <1>m, <1>e, <1>g, GetAgentEffect DEF Getting
  <2>2. Called(run.query)' <=> Called(run.query)
    BY <2>1 DEF Called, Agnostic
  <2>3. ASSUME NEW ids, run'.ids = ids,
               \/ ids = Caller(run) /\ Caller(run) # <<>>
               \/ ids = Resolved(a, Caller(run)) /\ ~ Agnostic(a)
        PROVE  Named'
    <3>1. ToSet(ids) # {} /\ Given \subseteq ToSet(ids)
      BY <2>1, <2>3, ResolvedParts
    <3> QED
      BY <2>1, <2>3, <3>1 DEF Named, Given
  <2>4. \/ /\ run.query.enrich = "none" /\ run'.at = "finish" /\ run'.state = run.state
        \/ /\ run.query.enrich # "none" /\ run'.at = "finish" /\ run'.ids = run.ids
           /\ run'.state = "notApplicable"
        \/ /\ run.query.enrich = "providers" /\ ~ Agnostic(a)
           /\ run'.at = "finish" /\ run'.ids = Resolved(a, Caller(run)) /\ run'.state = "applied"
        \/ /\ run.query.enrich # "none" /\ Agnostic(a) /\ Caller(run) # <<>>
           /\ run'.at = "validate" /\ run'.ids = Caller(run)
        \/ /\ run.query.enrich \notin {"none", "providers"} /\ ~ Agnostic(a)
           /\ run'.at = "probe" /\ run'.ids = Resolved(a, Caller(run))
    BY <1>4, <1>m, GetAgentEffect
  <2>5. CASE run.query.enrich = "none" /\ run'.at = "finish" /\ run'.state = run.state
    BY <2>1, <2>5 DEF Getting, Outcome
  <2>6. CASE /\ run.query.enrich # "none" /\ run'.at = "finish" /\ run'.ids = run.ids
             /\ run'.state = "notApplicable"
    BY <2>1, <2>6 DEF Getting, Outcome
  <2>7. CASE /\ run.query.enrich = "providers" /\ ~ Agnostic(a)
             /\ run'.at = "finish" /\ run'.ids = Resolved(a, Caller(run)) /\ run'.state = "applied"
    <3>1. Named'
      BY <2>3, <2>7
    <3> QED
      BY <2>1, <2>7, <3>1 DEF Getting, Outcome
  <2>8. CASE /\ run.query.enrich # "none" /\ Agnostic(a) /\ Caller(run) # <<>>
             /\ run'.at = "validate" /\ run'.ids = Caller(run)
    <3>1. Named'
      BY <2>3, <2>8
    <3>2. Called(run.query)
      BY <2>8 DEF Called
    <3> QED
      BY <2>1, <2>2, <2>8, <3>1, <3>2 DEF Getting
  <2>9. CASE /\ run.query.enrich \notin {"none", "providers"} /\ ~ Agnostic(a)
             /\ run'.at = "probe" /\ run'.ids = Resolved(a, Caller(run))
    <3>1. Named'
      BY <2>3, <2>9
    <3>2. Called(run.query)
      BY <2>9 DEF Called
    <3> QED
      BY <2>1, <2>2, <2>9, <3>1, <3>2 DEF Getting
  <2> HIDE DEF a
  <2> QED
    BY <2>4, <2>5, <2>6, <2>7, <2>8, <2>9
<1>5. CASE ProbeCoverage
  <2>1. PICK r \in Replies : memo' = r.memo /\ Probed(r)
    BY <1>5, <1>m, ProbeCoverageEffect
  <2> DEFINE ids == ToSet(run.ids)
             fault == ReadFault(r, ids)
  <2>2. /\ run.at = "probe" /\ run'.ids = run.ids /\ run'.query = run.query
        /\ run'.at = "finish" /\ run'.err = "" /\ run'.asked = TRUE
        /\ \/ /\ fault # "" /\ run'.state = "degraded" /\ run'.coverage = fault
              /\ run'.warned = run.warned \cup FaultWarning(fault)
           \/ /\ fault = "" /\ run'.state = "applied"
              /\ run'.coverage \in {"allPresent", "nonePresent", "somePresent"}
              /\ run'.coverage = "nonePresent" <=> ids # {} /\ ids \ r.memo.known = ids
              /\ run'.models = ids \ (ids \ r.memo.known)
    BY <2>1 DEF Probed
  <2>3. Named /\ Called(run.query) /\ run.query.enrich # "providers"
    BY <1>g, <2>2 DEF Getting
  <2>4. Named' /\ Called(run.query)' /\ run'.query.enrich \notin {"none", "providers"}
    BY <2>2, <2>3 DEF Named, Given, Called, Agnostic
  <2>5. ids # {}
    BY <2>3 DEF Named
  <2>6. Covered' /\ run'.state # "notApplicable"
    <3>1. CASE fault # ""
      <4>1. fault \in Faults /\ run'.coverage = fault /\ run'.state = "degraded"
        BY <1>m, <2>2, <3>1, ReadFaultParts
      <4>2. FaultWarned'
        BY <2>2, <3>1, <4>1, FaultWarningParts DEF FaultWarned
      <4>3. fault = "schema" /\ memo' # None => ids \cap memo'.drifted # {}
        BY <1>m, <2>1, DriftIsThere
      <4> QED
        BY <2>2, <4>1, <4>2, <4>3 DEF Covered
    <3>2. CASE fault = ""
      <4>1. r.memo \in Memos
        BY <1>m, <3>2, ReadFaultParts
      <4>2. memo' # None
        BY <2>1, <4>1, MemoParts
      <4>3. CASE run'.coverage = "nonePresent"
        <5>1. ids \cap memo'.known = {}
          BY <2>1, <2>2, <3>2, <4>3
        <5> QED
          BY <2>2, <3>2, <4>2, <4>3, <5>1 DEF Covered
      <4>4. CASE run'.coverage # "nonePresent"
        <5>1. ids \ r.memo.known # ids
          BY <2>2, <2>5, <3>2, <4>4
        <5>2. ids \cap memo'.known # {}
          BY <2>1, <5>1
        <5>3. run'.models # {}
          BY <2>1, <2>2, <3>2, <5>2
        <5> QED
          BY <2>2, <3>2, <4>2, <4>4, <5>2, <5>3 DEF Covered
      <4> QED
        BY <4>3, <4>4
    <3> QED
      BY <3>1, <3>2
  <2> QED
    BY <2>2, <2>4, <2>6 DEF Getting, Outcome
<1>6. CASE Finish
  <2>1. /\ memo' = memo /\ run'.query = run.query /\ run'.err = run.err /\ run'.at = "done"
        /\ run'.asked = run.asked /\ run'.ids = run.ids /\ run'.state = run.state
        /\ run'.coverage = run.coverage /\ run'.models = run.models
        /\ run.warned \subseteq run'.warned /\ run.at = "finish"
    BY <1>6, <1>m, FinishEffect
  <2>2. Outcome => Outcome'
    <3>1. Named' <=> Named
      BY <2>1 DEF Named, Given
    <3>2. FaultWarned => FaultWarned'
      BY <2>1 DEF FaultWarned
    <3>3. Covered => Covered'
      BY <2>1, <3>2 DEF Covered
    <3> QED
      BY <2>1, <3>1, <3>3 DEF Outcome
  <2>3. Called(run.query)' <=> Called(run.query)
    BY <2>1 DEF Called, Agnostic
  <2> QED
    BY <1>g, <2>1, <2>2, <2>3 DEF Getting
<1>7. ~ ListAgents /\ ~ ProbeListing /\ ~ Detect /\ ~ RowsDone /\ ~ ListModels
      /\ ~ ScopeToAgent /\ ~ (\E a \in Agents : EnrichRow(a))
  BY <1>e DEF ListAgents, ProbeListing, Detect, RowsDone, ListModels, ScopeToAgent, EnrichRow,
     Listing
<1>8. ~ ScopeToProviders /\ ~ ScopeToAll /\ ~ GetOne /\ ~ ListProviders /\ ~ ValidateForModels
      /\ ~ ValidateForListing
  BY DEF ScopeToProviders, ScopeToAll, GetOne, ListProviders, ValidateForModels,
     ValidateForListing, Validating
<1> QED
  BY <1>1, <1>2, <1>3, <1>4, <1>5, <1>6, <1>7, <1>8 DEF Progress

\* An operation that is done makes no step.
LEMMA ProgressIsUndone == Progress => run.at # "done"
  BY DEF Progress, CatalogFails, CatalogResolved, AgentUnknown, ProvidersNotAllowed,
     ValidateForAgent, ValidateForListing, ValidateForModels, Validating, GetAgent,
     ProbeCoverage, ListAgents, ProbeListing, Detect, EnrichRow, RowsDone, ScopeToProviders,
     ScopeToAll, ScopeToAgent, ListModels, MalformedModelID, GetOne, ListProviders, Finish,
     Operations

\* What an operation answers is inductive while it runs alone.
LEMMA AnswersStep ==
    Types /\ Stations /\ Earned /\ Answers /\ Progress => Answers'
<1> SUFFICES ASSUME Types, Stations, Earned, Answers, Progress PROVE Answers'
  OBVIOUS
<1>1. ~ Begin
  BY ProgressIsUndone DEF Begin
<1>2. run'.query = run.query
  BY <1>1, QueryKept DEF Next
<1> QED
  BY <1>2, FaultedStep, GettingStep DEF Answers

-----------------------------------------------------------------------------
(* The theorems.                                                           *)

\* StaleDataIsFlagged: of whatever operation, the data of a stale catalog come
\* with the warning, and the warning comes from an operation that has asked
\* models.dev (appendModelsStale).
THEOREM StaleDataIsAlwaysFlagged == Spec => []StaleDataIsFlagged
  BY TypesInit, TypesStep, StationsInit, StationsStep, ProvenanceInit, ProvenanceStep,
     ProvenanceImplies, PTL DEF Spec

\* AppliedIsComplete: what EnrichmentApplied says of an agent or of a row is
\* so of every resolved provider, though the client's catalog may have come in
\* the middle of the operation.
THEOREM AppliedIsAlwaysComplete == Spec => []AppliedIsComplete
  BY TypesInit, TypesStep, StationsInit, StationsStep, CompleteInit, CompleteStep,
     CompleteImplies, PTL DEF Spec

\* ListingIsUniform: Agents.List degrades all its rows or none, in whatever
\* order enrichListAgent met the agents (a map's) and whichever read failed.
THEOREM ListingIsAlwaysUniform == Spec => []ListingIsUniform
  BY TypesInit, TypesStep, StationsInit, StationsStep, ToldInit, ToldStep, ToldImplies,
     PTL DEF Spec

\* DegradedIsExplained: a degraded agent or row carries the warning of its
\* fault, and a fault that was warned of has left no data.
THEOREM DegradedIsAlwaysExplained == Spec => []DegradedIsExplained
  BY TypesInit, TypesStep, StationsInit, StationsStep, ToldInit, ToldStep, ToldImplies,
     PTL DEF Spec

\* ListingNeverHidesUnknown: an id models.dev does not have fails the listing,
\* or the fault that kept validateProviders from seeing it is reported.
THEOREM UnknownIsNeverHidden == Spec => []ListingNeverHidesUnknown
  BY TypesInit, TypesStep, StationsInit, StationsStep, SeenInit, SeenStep, SeenImplies,
     PTL DEF Spec

\* RejectionsAreEarned: validateProviders rejects only for an id that
\* models.dev, once read, does not have, never for an outage; and an operation
\* that began when the client had its catalog meets no outage.
THEOREM RejectionsAreAlwaysEarned == Spec => []RejectionsAreEarned
  BY TypesInit, TypesStep, StationsInit, StationsStep, TimelyInit, TimelyStep, EarnedInit,
     EarnedStep, EarnedImplies, PTL DEF Spec
=============================================================================
