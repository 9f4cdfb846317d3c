------------------------------ MODULE MCListings -------------------------------
(***************************************************************************)
(* Detection and Listing on small instances, in one run: a behaviour is of *)
(* one of the two, and the other is idle. They share nothing but what      *)
(* Listing takes of Detection, that an agent is found or not.              *)
(***************************************************************************)
EXTENDS Detection, Listing

(***************************************************************************)
(* The worlds of Detection.                                                *)
(***************************************************************************)
Dir(d) == <<"/", d>>
At(d) == <<"/", d, "bin">>

\* Worlds in which the binary may be anywhere, and overrides are given.
BinaryWorlds ==
    [fileBins : {<<>>, "a" :> At("o"), ("a" :> <<>>) @@ ("z" :> At("o"))},
     flagBins : {<<>>, <<[id |-> "a", path |-> <<"o">>]>>,
                 <<[id |-> "a", path |-> At("o")], [id |-> "y", path |-> At("o")],
                   [id |-> "a", path |-> At("p")]>>,
                 <<[id |-> "a", path |-> <<>>]>>},
     fileDirs : {<<Dir("s"), Dir("p")>>}, flagDirs : {<<<<"d">>, Dir("s")>>},
     path : {<<Dir("p"), Dir("q")>>, <<<<"d">>, Dir("q")>>},
     slots : {<<>>}, home : {<<>>}, wd : {Dir("wd")}, var : {<<>>},
     disk : [{At("p"), At("q"), At("s"), At("o"), <<"/", "wd", "o">>, <<"/", "wd", "d", "bin">>}
               -> {"absent", "foreign", "exec"}]]

\* Catalog entries: what the roles of an agent's directories may be written as.
Slot(local, role, raw) == [local |-> local, role |-> role, raw |-> raw]
Entries ==
    {<<Slot(FALSE, "config", <<"$V", "c">>), Slot(TRUE, "config", config),
       Slot(FALSE, "agents", agents), Slot(FALSE, "native", <<"~", "c">>),
       Slot(TRUE, "agents", agents), Slot(TRUE, "native", native)>> \o alternatives :
        config \in {<<>>, <<"$V", "c">>}, agents \in {<<>>, <<"$V">>}, native \in {<<>>, <<"c">>},
        alternatives \in {<<>>, <<Slot(TRUE, "alternative", <<"x">>)>>}}

\* Worlds in which the binary is nowhere and the directories may be anywhere.
PathWorlds ==
    [fileBins : {<<>>}, flagBins : {<<>>}, fileDirs : {<<>>}, flagDirs : {<<>>}, path : {<<>>},
     slots : Entries, home : {<<>>, Dir("home")}, wd : {<<>>, Dir("wd")},
     var : {<<>>, <<"~">>, <<"~", "x">>, <<"x">>, Dir("x")},
     disk : [{Dir("c"), <<"/", "home", "c">>, <<"/", "wd", "c">>, <<"/", "wd", "x">>}
               -> {"absent", "inert"}]]

MCWorlds == BinaryWorlds \cup PathWorlds

(***************************************************************************)
(* The calls of Listing.                                                   *)
(***************************************************************************)
\* The strings, in byte order: "", "B", "a", "b", ...; "B" lowers to "b".
MCLower == [s \in 0..40 |-> IF s = 1 THEN 3 ELSE s]

\* Ids of up to three parts, each empty or 1 or 2, "/" before every letter.
MCIds == UNION {[1..n -> 0..2] : n \in 1..3}
Earlier(a, b) ==
    \/ \E k \in DOMAIN a \cap DOMAIN b : a[k] < b[k] /\ \A j \in 1..(k - 1) : a[j] = b[j]
    \/ Len(a) < Len(b) /\ \A j \in DOMAIN a : a[j] = b[j]
MCRank == [id \in MCIds |-> 1 + Cardinality({other \in MCIds : Earlier(other, id)})]

Model(id, name, context, priced, released) ==
    [id |-> id, name |-> name, context |-> context, priced |-> priced, input |-> context - 1,
     output |-> 1, reasoning |-> context = 2, released |-> released, benchmarks |-> "own"]

Offer(a, b, c, d, priced) ==
    (1 :> [name |-> 3, env |-> <<FALSE, TRUE>>,
           models |-> (<<1>> :> Model(2, 1, 1, TRUE, a)) @@ (<<2, 1>> :> Model(3, 3, 2, priced, b))])
    @@ (2 :> [name |-> 1, env |-> <<>>,
              models |-> (<<1>> :> Model(2, 2, 2, priced, c)) @@ (<<0>> :> Model(1, 0, 1, TRUE, d))])
    @@ (3 :> [name |-> 2, env |-> <<FALSE>>, models |-> <<>>])

Agnostic == (<<1, 2, 1>> :> "x") @@ (<<2, 1>> :> "y") @@ (<<2, 0>> :> "z") @@ (<<2>> :> "w")

AgentRow(name, bin, providers, models) ==
    [name |-> name, bin |-> bin, providers |-> providers, models |-> models]

\* What --order-by may name: nothing, an unknown field, or one of the noun's.
Keys(fields) == fields \cup {"", "colour"}
AgentKeys == Keys({"id", "name", "bin", "found", "skills", "providers", "models"})
ModelKeys == Keys({"id", "provider", "name", "context", "input", "output", "total", "reasoning",
                   "released", "canonical_id"})
ProviderKeys == Keys({"id", "name", "set", "env", "present", "models"})

Scopes == {<<>>, <<2, 0, 1, 2>>, <<1, 3, 1>>}
ModelCall(o, p, f, cols, key, back) ==
    [noun |-> "models", offer |-> o, agnostic |-> Agnostic, providers |-> p, filter |-> f,
     fields |-> cols, orderBy |-> key, reverse |-> back]

\* Any dates and prices; and columns chosen by the user, for some of them.
ModelCalls ==
    {ModelCall(Offer(a, b, c, 3, priced), p, f, <<>>, key, back) :
        a, b \in {0, 2}, c \in {2, 3}, priced \in BOOLEAN,
        p \in Scopes, f \in {{}, {2, 3}}, key \in ModelKeys, back \in BOOLEAN}
    \cup {ModelCall(Offer(0, 2, 2, 3, TRUE), p, {}, <<"name">>, key, back) :
             p \in Scopes, key \in ModelKeys, back \in BOOLEAN}

ProviderCalls ==
    {[noun |-> "providers", offer |-> Offer(0, 2, 2, 3, TRUE), agnostic |-> Agnostic,
      filter |-> f, fields |-> cols, orderBy |-> key, reverse |-> back] :
        f \in {{}, {2, 3}}, cols \in {<<>>, <<"name">>, <<"colour">>},
        key \in ProviderKeys, back \in BOOLEAN}

AgentCalls ==
    {[noun |-> "agents", installed |-> only, filter |-> f, fields |-> <<>>, orderBy |-> key,
      reverse |-> back,
      agents |-> (1 :> AgentRow(3, 2, 1, 2)) @@ (2 :> AgentRow(1, 3, 0, 99)) @@ (3 :> AgentRow(2, 4, 1, 0))] :
        only \in BOOLEAN, f \in {{}, {2, 3}}, key \in AgentKeys, back \in BOOLEAN}

MCCalls == ModelCalls \cup ProviderCalls \cup AgentCalls

ASSUME ListingsAssumption == ConstantsAreCalls

(***************************************************************************)
(* The two side by side.                                                   *)
(***************************************************************************)
DetectionIdle ==
    /\ pc = "idle"
    /\ i = 1 /\ changes = 0 /\ hit = <<>> /\ binary = <<>> /\ warned = {}
    /\ world = <<>> /\ disk = <<>> /\ had = <<>>
    /\ core = <<>> /\ entries = <<>> /\ primary = <<>>

ListingIdle ==
    /\ stage = "idle"
    /\ call = [noun |-> "none"] /\ pending = {} /\ offer = <<>>
    /\ rows = <<>> /\ table = <<>> /\ columns = <<>>

MCInit == (Init /\ ListingIdle) \/ (DetectionIdle /\ ListInit)

MCNext ==
    \/ pc # "idle" /\ Next /\ UNCHANGED listVars
    \/ stage # "idle" /\ ListNext /\ UNCHANGED vars

MCSpec == MCInit /\ [][MCNext]_<<vars, listVars>>

\* Every variable of the component that is not idle holds a value of its type.
AllTypesOK == (pc # "idle" => TypeOK) /\ (stage # "idle" => ListTypeOK)
=============================================================================
