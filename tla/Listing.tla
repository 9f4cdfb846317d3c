-------------------------------- MODULE Listing --------------------------------
(***************************************************************************)
(* From catalog data to the rows a list command prints: models.dev's       *)
(* provider-agnostic facts merged onto provider models (merge.go), the     *)
(* rows the services make (models.go, agents.go, providers.go) and the     *)
(* order and the columns the command gives them (internal/cli/order.go,    *)
(* views.go and the three list commands). Every one of these walks a Go    *)
(* map, whose order differs from call to call, and two of them sort; what  *)
(* the user sees must be the same every time.                              *)
(*                                                                         *)
(* A model id is the sequence of its parts between slashes; Rank gives the *)
(* place of one among all in byte order. Other strings, the parts among    *)
(* them, are ranks already, 0 being the empty one (module Ordering).       *)
(*                                                                         *)
(* The sorts of Go are given by what they promise: the permutation of the  *)
(* positions that puts what is less first and, where they are stable,      *)
(* leaves equals as they were.                                             *)
(***************************************************************************)
EXTENDS Ordering, SequencesExt

CONSTANTS
    Rank,   \* the place of every key and every composite id in byte order
    Calls   \* what may be asked: a noun, the data it is about, and the flags

(***************************************************************************)
(* What the data are made of. A string, that of a provider or an id too,   *)
(* may be empty, and a release date has no capitals.                       *)
(***************************************************************************)
Ids == DOMAIN Rank
Models ==
    [id : Strings, name : Strings, context : Nat, priced : BOOLEAN, input : Int, output : Int,
     reasoning : BOOLEAN, released : {s \in Strings : Lower[s] = s}, benchmarks : {"own"}]
Providers(models) == [name : Strings, env : Seq(BOOLEAN), models : {models}]
Agents == [name : Strings, bin : Strings, providers : Nat, models : Int]

IsOffer(offers) ==
    /\ IsFiniteSet(DOMAIN offers) /\ DOMAIN offers \subseteq Strings
    /\ \A p \in DOMAIN offers :
         LET models == offers[p].models
         IN /\ offers[p] \in Providers(models) /\ models \in [DOMAIN models -> Models]
            /\ IsFiniteSet(DOMAIN models) /\ DOMAIN models \subseteq Ids

IsCall(c) ==
    /\ c.noun \in {"agents", "models", "providers"}
    /\ c.reverse \in BOOLEAN /\ c.fields \in Seq(STRING)
    /\ c.noun = "agents" =>
         /\ IsFiniteSet(DOMAIN c.agents) /\ DOMAIN c.agents \subseteq Strings
         /\ c.agents \in [DOMAIN c.agents -> Agents]
    /\ c.noun # "agents" => IsOffer(c.offer)
    /\ c.noun = "models" => DOMAIN c.agnostic \subseteq Ids /\ c.providers \in Seq(Strings)

ConstantsAreCalls ==
    /\ LowerIsOfStrings
    /\ Ids \subseteq Seq(Strings) \ {<<>>} /\ Rank \in [Ids -> Strings]
    /\ \A a, b \in Ids : Rank[a] = Rank[b] => a = b
    /\ \A c \in Calls : IsCall(c)

VARIABLES
    call,     \* the command and the data it finds, fixed when it begins
    stage,    \* where the command is
    pending,  \* the keys of a map its walk has yet to reach
    offer,    \* the models.dev providers, as merged so far
    rows,     \* what the library answers
    table,    \* the records in the order they are printed
    columns   \* the columns of the text table

\* Named for the lists, beside which Detection is checked.
listVars == <<call, stage, pending, offer, rows, table, columns>>

(***************************************************************************)
(* models.dev: merge.                                                      *)
(***************************************************************************)
\* strings.Cut at the first slash; an id without one, or with nothing before or
\* after it, is skipped.
Cut(id) == [provider |-> Head(id), key |-> Tail(id)]
Composite(id) == Len(id) > 1 /\ Cut(id).provider # 0 /\ Cut(id).key # <<0>>

\* Mutant of Matches: the id is cut at its last slash.
MatchesLastSlash(id) ==
    /\ Len(id) = 2
    /\ id[1] \in DOMAIN offer
    /\ Tail(id) \in DOMAIN offer[id[1]].models

Matches(id) ==
    /\ Composite(id)
    /\ Cut(id).provider \in DOMAIN offer
    /\ Cut(id).key \in DOMAIN offer[Cut(id).provider].models

\* One round of the loop of merge, for whichever id the map yields next.
MergeOne ==
    /\ stage = "merge"
    /\ \E id \in pending :
         /\ pending' = pending \ {id}
         /\ offer' = IF ~Matches(id) THEN offer
                     ELSE [offer EXCEPT ![Cut(id).provider].models[Cut(id).key].benchmarks =
                             call.agnostic[id]]
    /\ UNCHANGED <<call, stage, rows, table, columns>>

(***************************************************************************)
(* The rows of the library.                                                *)
(***************************************************************************)
\* sort.SliceStable: the order of the positions that has what is less first, by
\* the pairs in which it is, and the others as they were.
Stably(p, D, less) ==
    \A j, k \in D : j < k => \/ <<p[j], p[k]>> \in less
                             \/ p[j] < p[k] /\ <<p[k], p[j]>> \notin less

StableOrder(D, less) == CHOOSE p \in Bijection(D, D) : Stably(p, D, less)

StableSort(s, Less(_, _)) ==
    LET D == DOMAIN s
        p == StableOrder(D, {q \in D \X D : Less(s[q[1]], s[q[2]])})
    IN [k \in D |-> s[p[k]]]

\* The elements of a set, which a Go map yields in any order, sorted.
Sorted(S, Less(_, _)) == StableSort(SetToSeq(S), Less)
Increasing(S) == Sorted(S, <)

\* The elements of s that pass a test, in their order.
Where(s, Test(_)) ==
    LET kept == Increasing({k \in DOMAIN s : Test(s[k])})
    IN [k \in DOMAIN kept |-> s[kept[k]]]

sortedKeys(m) == Increasing(DOMAIN m)

matchesFilter(id, name) == call.filter = {} \/ id \in call.filter \/ name \in call.filter

canonicalID(composite) == IF composite \in DOMAIN call.agnostic THEN composite ELSE <<>>

dedupeIDs(ids) ==
    FoldLeft(LAMBDA out, p : IF p \in ToSet(out) THEN out ELSE Append(out, p), <<>>, ids)

\* The --provider tokens, empty and repeated ones dropped.
csvTokens(raw) == Where(raw, LAMBDA p : p # 0)
flattenProviders(raw) == dedupeIDs(csvTokens(raw))

\* The two loops of modelsForProviders, over the positions of the providers, of
\* which unknown ones are skipped, and over the sorted keys of each.
Steps(ids) ==
    UNION {{<<k, key>> : key \in DOMAIN offer[ids[k]].models} :
              k \in {j \in DOMAIN ids : ids[j] \in DOMAIN offer}}
Sooner(a, b) == a[1] < b[1] \/ (a[1] = b[1] /\ Rank[a[2]] < Rank[b[2]])
InTurn(ids) == Sorted(Steps(ids), Sooner)

ModelRow(p, key) ==
    [provider |-> p, canonical |-> canonicalID(<<p>> \o key), model |-> offer[p].models[key]]

modelsForProviders(ids) ==
    LET steps == InTurn(ids)
    IN [k \in DOMAIN steps |-> ModelRow(ids[steps[k][1]], steps[k][2])]

matchingModels(items) == Where(items, LAMBDA r : matchesFilter(r.model.id, r.model.name))

sortModels(items) == StableSort(items, LAMBDA a, b : Newer(a.model, b.model))

\* The providers asked for, all of them when none is.
Scope ==
    LET asked == dedupeIDs(flattenProviders(call.providers))
    IN IF asked = <<>> THEN sortedKeys(offer) ELSE asked

ListModels ==
    /\ stage = "merge"
    /\ pending = {}
    /\ rows' = sortModels(matchingModels(modelsForProviders(Scope)))
    /\ stage' = "present"
    /\ UNCHANGED <<call, pending, offer, table, columns>>

matchingProviders == Where(sortedKeys(offer), LAMBDA p : matchesFilter(p, offer[p].name))

ListProviders ==
    /\ stage = "providers"
    /\ LET ids == matchingProviders
       IN rows' = [k \in DOMAIN ids |-> [id |-> ids[k], provider |-> offer[ids[k]]]]
    /\ stage' = "present"
    /\ UNCHANGED <<call, pending, offer, table, columns>>

\* detectAll reaches the agents in any order; each is found or not.
DetectOne ==
    /\ stage = "detect"
    /\ \E a \in pending, found \in BOOLEAN :
         /\ pending' = pending \ {a}
         /\ rows' = Append(rows, [id |-> a, found |-> found, agent |-> call.agents[a]])
    /\ UNCHANGED <<call, stage, offer, table, columns>>

\* The context ends between two agents: an error, and no rows.
Interrupted ==
    /\ stage = "detect"
    /\ pending # {}
    /\ rows' = <<>>
    /\ stage' = "failed"
    /\ UNCHANGED <<call, pending, offer, table, columns>>

matchingAgents(items) ==
    Where(items, LAMBDA r : /\ call.installed => r.found
                            /\ matchesFilter(r.id, r.agent.name))

sortAgents(items) == StableSort(items, LAMBDA r, s : r.id < s.id)

ListAgents ==
    /\ stage = "detect"
    /\ pending = {}
    /\ rows' = sortAgents(matchingAgents(rows))
    /\ stage' = "present"
    /\ UNCHANGED <<call, pending, offer, table, columns>>

(***************************************************************************)
(* The records, and the fields that may be selected or sorted by (views.go;*)
(* fields that are strings like "name" and booleans like "reasoning" are   *)
(* left out).                                                              *)
(***************************************************************************)
agentFieldSet ==
    [all |-> {"id", "name", "bin", "found", "skills", "providers", "models"},
     defaults |-> <<"id", "name", "providers", "models", "bin">>,
     defaultKey |-> "id", descend |-> {}]

modelFieldSet ==
    [all |-> {"id", "provider", "name", "context", "input", "output", "total", "reasoning",
              "released", "canonical_id"},
     defaults |-> <<"id", "name", "context", "input", "output">>,
     defaultKey |-> "released", descend |-> {"released"}]

providerFieldSet ==
    [all |-> {"id", "name", "set", "env", "present", "models"},
     defaults |-> <<"id", "name", "set", "env", "models">>,
     defaultKey |-> "id", descend |-> {}]

Count == 0..9

\* What is unknown is nil: the models of an agent they do not apply to.
agentRecord(r) ==
    LET a == r.agent
    IN [id |-> Str(r.id), name |-> Str(a.name), bin |-> Str(IF r.found THEN a.bin ELSE 0),
        found |-> Bool(r.found), skills |-> Pointer, providers |-> Sized(a.providers),
        models |-> IF a.models \in Count THEN Num(a.models) ELSE Nil]

\* The price of a model is nil when it is not known, never zero.
costValue(m, price) == IF m.priced THEN Num(price) ELSE Nil
totalValue(m) == costValue(m, m.input + m.output)

\* canonical_id is not added where there is none, and reads as nil.
modelRecord(r) ==
    LET m == r.model
    IN [id |-> Str(m.id), provider |-> Str(r.provider), name |-> Str(m.name),
        context |-> Num(m.context), input |-> costValue(m, m.input),
        output |-> costValue(m, m.output), total |-> totalValue(m),
        reasoning |-> Bool(m.reasoning), released |-> Str(m.released),
        canonical_id |-> IF r.canonical = <<>> THEN Nil ELSE Str(Rank[r.canonical])]

\* Set is nil for a provider that declares no variable, else whether any is set.
providerSetField(env) == IF env = <<>> THEN Nil ELSE Bool(TRUE \in ToSet(env))

providerRecord(r) ==
    LET p == r.provider
    IN [id |-> Str(r.id), name |-> Str(p.name), set |-> providerSetField(p.env),
        env |-> Sized(Len(p.env)), present |-> Sized(Len(p.env)),
        models |-> Sized(Cardinality(DOMAIN p.models))]

FieldSet == CASE call.noun = "agents" -> agentFieldSet
              [] call.noun = "models" -> modelFieldSet
              [] call.noun = "providers" -> providerFieldSet

Records ==
    [k \in DOMAIN rows |-> CASE call.noun = "agents" -> agentRecord(rows[k])
                             [] call.noun = "models" -> modelRecord(rows[k])
                             [] call.noun = "providers" -> providerRecord(rows[k])]

(***************************************************************************)
(* Order and columns.                                                      *)
(***************************************************************************)
Key == IF call.orderBy = "" THEN FieldSet.defaultKey ELSE call.orderBy

orderRecords(recs, key, descending) ==
    StableSort(recs, LAMBDA r, s : Before(r, s, key, descending))

applyOrder(recs) ==
    orderRecords(recs, Key, (Key \in FieldSet.descend) # call.reverse)

recordFound(r) == value(r, "found") = Bool(TRUE)
foundFirst(recs) == StableSort(recs, LAMBDA r, s : recordFound(r) /\ ~recordFound(s))

\* Mutant of Grouped: found agents are grouped under an explicit --order-by too.
AlwaysGrouped(recs) == IF call.noun = "agents" THEN foundFirst(recs) ELSE recs

\* The default view of the agents has the found ones first.
Grouped(recs) ==
    IF call.noun = "agents" /\ call.orderBy = "" THEN foundFirst(recs) ELSE recs

distinctProviders == Cardinality({rows[k].provider : k \in DOMAIN rows})

\* After the anchor, of which the columns have one at most.
insertAfter(cols, anchor, add) ==
    IF Contains(cols, add) THEN cols
    ELSE LET k == SelectInSeq(cols, LAMBDA c : c = anchor)
         IN IF k = 0 THEN cols ELSE InsertAt(cols, k + 1, add)

\* The sort key leftmost.
orderColumns(cols, sortKey) == <<sortKey>> \o Where(cols, LAMBDA c : c # sortKey)

TableColumns ==
    IF call.fields # <<>> THEN call.fields
    ELSE orderColumns(IF call.noun = "models" /\ distinctProviders > 1
                      THEN insertAfter(FieldSet.defaults, "id", "provider")
                      ELSE FieldSet.defaults,
                      Key)

Present ==
    /\ stage = "present"
    /\ IF Key \in FieldSet.all /\ ToSet(call.fields) \subseteq FieldSet.all
       THEN /\ table' = Grouped(applyOrder(Records))
            /\ columns' = TableColumns
            /\ stage' = "printed"
       ELSE stage' = "refused" /\ UNCHANGED <<table, columns>>
    /\ UNCHANGED <<call, pending, offer, rows>>

ListInit ==
    /\ call \in Calls
    /\ stage = CASE call.noun = "agents" -> "detect"
                 [] call.noun = "models" -> "merge"
                 [] call.noun = "providers" -> "providers"
    /\ pending = CASE call.noun = "agents" -> DOMAIN call.agents
                   [] call.noun = "models" -> DOMAIN call.agnostic
                   [] call.noun = "providers" -> {}
    /\ offer = IF call.noun = "agents" THEN <<>> ELSE call.offer
    /\ rows = <<>>
    /\ table = <<>>
    /\ columns = <<>>

ListNext ==
    \/ MergeOne \/ ListModels
    \/ ListProviders
    \/ DetectOne \/ Interrupted \/ ListAgents
    \/ Present

ListSpec == ListInit /\ [][ListNext]_listVars

(***************************************************************************)
(* Properties.                                                             *)
(***************************************************************************)
\* Every variable holds a value of its type.
ListTypeOK ==
    /\ stage \in {"merge", "providers", "detect", "present", "printed", "refused", "failed"}
    /\ pending \subseteq IF call.noun = "agents" THEN DOMAIN call.agents ELSE DOMAIN call.agnostic
    /\ (call.noun # "agents") => DOMAIN offer = DOMAIN call.offer
    /\ \A k \in DOMAIN table : \A f \in DOMAIN table[k] : table[k][f].type \in Types
    /\ stage # "printed" => table = <<>> /\ columns = <<>>
    /\ ToSet(columns) \subseteq FieldSet.all

\* Whatever order the map of agnostic ids is walked in, the rows are the models
\* that match the filter, of the providers asked for and known (of all when none
\* is asked for), each once, however often its provider is named; a row that
\* names a canonical id has that id's benchmarks, and one that names none its own
\* (merge against canonicalID, which read the same ids in opposite directions).
EnrichedFromAgnostic ==
    (call.noun = "models" /\ stage = "present") =>
        LET named == ToSet(call.providers) \ {0}
            scope == IF named = {} THEN DOMAIN call.offer ELSE named \cap DOMAIN call.offer
            kept(p) == {key \in DOMAIN call.offer[p].models :
                           LET m == call.offer[p].models[key] IN matchesFilter(m.id, m.name)}
        IN \E f \in Bijection(DOMAIN rows, UNION {{<<p, key>> : key \in kept(p)} : p \in scope}) :
             \A k \in DOMAIN rows :
                LET p == f[k][1]
                    key == f[k][2]
                    id == rows[k].canonical
                IN /\ rows[k].provider = p
                   /\ id \in {<<>>, <<p>> \o key}
                   /\ rows[k].model =
                        [call.offer[p].models[key] EXCEPT !.benchmarks =
                            IF id # <<>> /\ Composite(id) THEN call.agnostic[id] ELSE @]

Missing(v) == v.type \in {"nil", "pointer"} \/ v = Str(0)
Size(v) == IF v.type = "string" THEN Lower[v.n] ELSE v.n

\* The record at i may stand before that at j: what has no value comes after what
\* has, in either direction; values follow the direction; equals follow their
\* ids, then the order of the library.
MayPrecede(i, j) ==
    LET r == Records[i]
        s == Records[j]
        v == value(r, Key)
        w == value(s, Key)
        flipped == (Key = "released") # call.reverse
    IN \/ Missing(w) /\ ~Missing(v)
       \/ Missing(w) = Missing(v)
            /\ \/ ~Missing(v) /\ (IF flipped THEN Size(v) > Size(w) ELSE Size(v) < Size(w))
               \/ /\ Missing(v) \/ Size(v) = Size(w)
                  /\ r.id.n < s.id.n \/ (r.id.n = s.id.n /\ i < j)

\* What is printed is the library's answer and nothing else, each record once, in
\* the order asked for (applyOrder, orderRecords, lessByKey): any two records are
\* as MayPrecede says, except that the default view of the agents has those found
\* before those not (agents.go); the default view of the models is the library's
\* own order. The text table begins with the sort key and shows the provider of a
\* model exactly when the rows have several, unless the user chose the columns.
OrderedAsAsked ==
    stage = "printed" =>
        /\ \E p \in Bijection(DOMAIN table, DOMAIN Records) :
             /\ table = [k \in DOMAIN Records |-> Records[p[k]]]
             /\ \A j, k \in DOMAIN table : j < k =>
                  IF call.noun = "agents" /\ call.orderBy = ""
                       /\ recordFound(table[j]) # recordFound(table[k])
                  THEN recordFound(table[j])
                  ELSE MayPrecede(p[j], p[k])
        /\ (call.noun = "models" /\ call.orderBy = "" /\ ~call.reverse) => table = Records
        /\ call.fields # <<>> => columns = call.fields
        /\ call.fields = <<>> =>
             /\ columns[1] = Key
             /\ (call.noun = "models" /\ Key # "provider") =>
                  (Contains(columns, "provider") <=> distinctProviders > 1)
=============================================================================
