---------------------------------- MODULE Cli ----------------------------------
(***************************************************************************)
(* The command line (internal/cli), from the arguments of a process to its *)
(* exit code: flags, configuration, the library call of the verb, which is *)
(* the operation of Services, and the three ways a command may end.        *)
(*                                                                         *)
(* A process runs one command and exits. Its Index is its own, so that it  *)
(* begins with no models.dev catalog and nobody else fills its client. A   *)
(* command is chosen as it is read: its flags for --json first, its        *)
(* configuration when it is loaded, the rest when the library is called.   *)
(*                                                                         *)
(* Output is what kind of document goes to stdout, the warnings shown, in  *)
(* the envelope or on stderr, and the fields shown. Of the fields only     *)
(* those that need providers are told apart; filters, sort directions and  *)
(* layout are left out, and so is help, which prints what cobra prints.    *)
(***************************************************************************)
EXTENDS Naturals, SequencesExt

CONSTANTS
    Agents, Home, Strangers, Providers, ProviderLists, Contents, None, \* of Services
    MaxTokens       \* bound: the arguments considered for --json

ASSUME MaxTokensAssumption == MaxTokens \in Nat

VARIABLES
    memo, run,  \* the library's, see Services
    cmd,        \* the command: what of it has been read, and how it returned
    out         \* what it has shown

vars == <<memo, run, cmd, out>>

Nouns == [agentsGet |-> "agents", agentsList |-> "agents", modelsGet |-> "models",
          modelsList |-> "models", providersGet |-> "providers", providersList |-> "providers"]
Browsing == DOMAIN Nouns
Verbs == Browsing \cup {"refresh", "version", "noun", "helpTopic", "unknown"}

Library == INSTANCE Services WITH Ops <- Browsing

\* What the library assumes of its constants.
ASSUME LibraryAssumption == Library!ConstantsAssumption

Tokens == {"--json", "--json=false", "--json=bad", "--bad", "--"}
Flags == {"--json", "--json=false"}

\* The fields told apart, those of a noun, and those its listed records carry.
Fields == {"id", "providers", "provider_env", "models", "bogus"}
FieldSet == [agents |-> {"id", "providers", "provider_env", "models"},
             models |-> {"id"}, providers |-> {"id", "models"}]
Carried == [agents |-> {"id", "providers", "models"},
            models |-> {"id"}, providers |-> {"id", "models"}]
ProviderFields == {"providers", "provider_env", "models"}

codeOK == 0
codeFailure == 1
codeUsage == 2
codeNotFound == 3
codePermission == 4
codeTransient == 75
codeConfig == 78

Blank == [stdout |-> <<>>, warned |-> {}, shown |-> {}, code |-> codeOK]

\* want: what the --json flags ask for, were all of them read: "mixed" if they
\* do not agree. dir: catalog.dir is configured. done: what a refresh has
\* completed; met: how it failed.
NewCommand(verb, args, fits) ==
    [at |-> "parse", verb |-> verb, args |-> args, fits |-> fits, want |-> "",
     json |-> FALSE, config |-> "", fields |-> {}, models |-> FALSE, order |-> "",
     target |-> "", dir |-> FALSE, done |-> {}, met |-> "", err |-> "none"]

Commands == {NewCommand(v, a, f) : v \in Verbs, a \in SeqOf(Tokens, MaxTokens), f \in BOOLEAN}

Idle == [Library!NewRun([op |-> "agentsGet", enrich |-> "none", agent |-> None,
                         providers |-> <<>>, installed |-> FALSE], FALSE) EXCEPT !.at = "done"]

Init ==
    /\ cmd \in {c \in Commands : c.verb \in {"noun", "helpTopic", "unknown"} => c.fits}
    /\ out = Blank
    /\ memo = None
    /\ run = Idle

-----------------------------------------------------------------------------
(* How a command returns: an exitError has been rendered, cobra's own      *)
(* error has not.                                                          *)

Returned(c, err) == [c EXCEPT !.at = "returned", !.err = err]

ok(shown, warned) ==
    /\ cmd' = Returned(cmd, "none")
    /\ out' = [out EXCEPT !.stdout = Append(@, IF cmd.json THEN "envelope" ELSE "text"),
                          !.warned = warned, !.shown = shown]

fail(code, warned) ==
    /\ cmd' = Returned(cmd, "exitError")
    /\ out' = [out EXCEPT !.stdout = IF cmd.json THEN Append(@, "envelope") ELSE @,
                          !.warned = warned, !.code = code]

failData(code, shown, warned) ==
    /\ cmd' = Returned(cmd, "exitError")
    /\ out' = [out EXCEPT !.stdout = Append(@, IF cmd.json THEN "envelope" ELSE "text"),
                          !.warned = warned, !.shown = shown, !.code = code]

usage == fail(codeUsage, {})

-----------------------------------------------------------------------------
(* The flags                                                               *)

Until(args, stops) ==
    LET i == SelectInSeq(args, LAMBDA t : t \in stops)
    IN IF i = 0 THEN args ELSE SubSeq(args, 1, i - 1)

\* Where pflag stops to read flags: at "--", or at a flag it refuses.
Bound(args) == Until(args, {"--", "--bad", "--json=bad"})
FlagError(args) == Len(Bound(args)) < Len(Until(args, {"--"}))

\* a.jsonOut after the flags were read: the last --json counts.
jsonOut(args) ==
    FoldLeft(LAMBDA v, t : IF t \in Flags THEN t = "--json" ELSE v, FALSE, Bound(args))

argsWantJSON(args) ==
    FoldLeft(LAMBDA want, t : CASE t \in {"--json", "--json=bad"} -> TRUE
                                [] t = "--json=false" -> FALSE
                                [] OTHER -> want,
             FALSE, Until(args, {"--"}))

\* Mutant of jsonRequested: only what pflag has read counts.
jsonRequestedIfBound(args) == jsonOut(args)

jsonRequested(args) ==
    IF ToSet(Bound(args)) \cap Flags # {} THEN jsonOut(args) ELSE argsWantJSON(args)

Wanted(args) ==
    LET said == ToSet(Until(args, {"--"})) \cap (Flags \cup {"--json=bad"})
    IN IF said = {"--json"} THEN "json"
       ELSE IF said \subseteq {"--json=false"} THEN "text" ELSE "mixed"

\* ParseFlags or ValidateArgs fails, before preRun.
CobraFails ==
    /\ cmd.at = "parse"
    /\ FlagError(cmd.args) \/ ~ cmd.fits
    /\ cmd' = [Returned(cmd, "cobra") EXCEPT !.want = Wanted(cmd.args)]
    /\ out' = [out EXCEPT !.code = codeUsage]
    /\ UNCHANGED <<memo, run>>

Parsed ==
    /\ cmd.at = "parse"
    /\ ~ FlagError(cmd.args) /\ cmd.fits
    /\ cmd' = [cmd EXCEPT !.at = IF cmd.verb = "unknown" THEN "misused" ELSE "preRun",
                          !.want = Wanted(cmd.args), !.json = jsonOut(cmd.args), !.args = <<>>]
    /\ UNCHANGED <<memo, run, out>>

\* unknownRootCommand, nounUsage and the help of an unknown topic.
Misused ==
    /\ cmd.at = "misused"
    /\ usage
    /\ UNCHANGED <<memo, run>>

-----------------------------------------------------------------------------
(* preRun, and what every command that needs an Index does first           *)

BadColor ==
    /\ cmd.at = "preRun"
    /\ usage
    /\ UNCHANGED <<memo, run>>

\* config.Load; a malformed file is not fatal here.
LoadConfig ==
    /\ cmd.at = "preRun"
    /\ \E c \in {"", "invalid", "permission", "unreadable"} :
          cmd' = [cmd EXCEPT !.config = c,
                             !.at = IF cmd.verb \in {"noun", "helpTopic"} THEN "misused"
                                    ELSE IF cmd.verb = "version" THEN "version" ELSE "index"]
    /\ UNCHANGED <<memo, run, out>>

Version ==
    /\ cmd.at = "version"
    /\ ok({}, {})
    /\ UNCHANGED <<memo, run>>

codeForConfig(e) == IF e = "invalid" THEN codeConfig
                    ELSE IF e = "permission" THEN codePermission ELSE codeFailure

ConfigFails ==
    /\ cmd.at = "index" /\ cmd.config # ""
    /\ fail(codeForConfig(cmd.config), {})
    /\ UNCHANGED <<memo, run>>

\* mapFlags; --bin-path is a flag of agents.
BadBinPath ==
    /\ cmd.at = "index" /\ cmd.config = ""
    /\ cmd.verb \in {"agentsGet", "agentsList"}
    /\ usage
    /\ UNCHANGED <<memo, run>>

-----------------------------------------------------------------------------
(* The call of the library                                                 *)

\* Mutant of agentGetLevel: providers are looked for first.
agentGetLevelProvidersFirst(models, fields) ==
    IF "providers" \in fields THEN "providers"
    ELSE IF models \/ "models" \in fields THEN "full"
    ELSE IF fields = {} \/ "provider_env" \in fields THEN "count" ELSE "none"

\* Mutant of agentGetLevel: whatever is not models counts them.
agentGetLevelEager(models, fields) ==
    IF models \/ "models" \in fields THEN "full" ELSE "count"

agentGetLevel(models, fields) ==
    IF models \/ "models" \in fields THEN "full"
    ELSE IF fields = {} \/ "provider_env" \in fields THEN "count"
    ELSE IF "providers" \in fields THEN "providers" ELSE "none"

\* What the flags of a verb make of the query.
AsAsked(q, c) ==
    /\ q.op = c.verb
    /\ c.verb = "agentsGet" => q.enrich = agentGetLevel(c.models, c.fields)
    /\ c.verb = "agentsList" => q.enrich = "count"

Call ==
    /\ cmd.at = "index" /\ cmd.config = "" /\ cmd.verb \in Browsing
    /\ \E fields \in SUBSET Fields, models \in BOOLEAN, order \in {"", "id", "bogus"} :
          LET c == [cmd EXCEPT !.at = "library", !.fields = fields, !.models = models,
                               !.order = order]
          IN /\ models => cmd.verb = "agentsGet"
             /\ order # "" => cmd.verb \in {"agentsList", "modelsList", "providersList"}
             /\ cmd' = c
             /\ \E q \in Library!Queries :
                   Library!Sensible(q) /\ AsAsked(q, c) /\ Library!BeginWith(q)
    /\ UNCHANGED out

LibraryStep ==
    /\ cmd.at = "library"
    /\ Library!Progress
    /\ UNCHANGED <<cmd, out>>

\* Mutant of codeFor: an unknown provider id is taken for one not found.
codeForLoosely(e) ==
    CASE e \in {"catalogInvalid", "modelsSchema"} -> codeConfig
      [] e \in {"catalogUnavailable", "modelsUnavailable"} -> codeTransient
      [] e \in {"agentUnknown", "notFound", "unknownProvider"} -> codeNotFound
      [] e \in {"providersRequired", "providersNotAllowed", "malformedModelID"} -> codeUsage
      [] OTHER -> codeFailure

codeFor(e) ==
    CASE e \in {"catalogInvalid", "modelsSchema"} -> codeConfig
      [] e \in {"catalogUnavailable", "modelsUnavailable"} -> codeTransient
      [] e \in {"agentUnknown", "notFound"} -> codeNotFound
      [] e \in {"unknownProvider", "providersRequired", "providersNotAllowed",
                "malformedModelID"} -> codeUsage
      [] OTHER -> codeFailure

-----------------------------------------------------------------------------
(* What a command makes of the library's answer                            *)

Answered == cmd.at = "library" /\ run.at = "done"
KnownFields == cmd.fields \subseteq FieldSet[Nouns[cmd.verb]]

\* Mutant of LibraryFails: the warnings are not passed on.
LibraryFailsBare ==
    /\ Answered /\ run.err # ""
    /\ fail(codeFor(run.err), {})
    /\ UNCHANGED <<memo, run>>

LibraryFails ==
    /\ Answered /\ run.err # ""
    /\ fail(codeFor(run.err), run.warned)
    /\ UNCHANGED <<memo, run>>

\* The fields of a record: the selected ones, or all it carries.
Shown(fields, all) == IF fields = {} THEN all ELSE fields

\* An agent's record: provider_env and models are there when they were filled.
Filled(level) == run.state = "applied" /\ run.models # {} /\ Library!AtLeast(run.query, level)
AgentFields ==
    {"id", "providers"} \cup (IF Filled("count") THEN {"provider_env"} ELSE {})
                        \cup (IF Filled("full") THEN {"models"} ELSE {})

namedProviderField(c) == c.models \/ c.fields \cap ProviderFields # {}

\* Mutant of SoftPath: only --models is looked at.
SoftPathLoosely ==
    /\ Answered /\ run.err = "" /\ cmd.verb = "agentsGet" /\ run.state = "notApplicable"
    /\ IF cmd.models THEN fail(codeUsage, run.warned) ELSE ok({"id"}, run.warned)
    /\ UNCHANGED <<memo, run>>

\* An agnostic agent without providers: its record without provider fields,
\* unless one of them was named.
SoftPath ==
    /\ Answered /\ run.err = "" /\ cmd.verb = "agentsGet" /\ run.state = "notApplicable"
    /\ IF namedProviderField(cmd) THEN fail(codeUsage, run.warned) ELSE ok({"id"}, run.warned)
    /\ UNCHANGED <<memo, run>>

\* Mutant of ReportAgent: a set of which no provider is known is no fault.
ReportAgentAlways ==
    /\ Answered /\ run.err = "" /\ cmd.verb = "agentsGet" /\ run.state # "notApplicable"
    /\ IF ~ KnownFields THEN usage
       ELSE IF run.coverage = "schema"
       THEN failData(codeConfig, Shown(cmd.fields, AgentFields), run.warned)
       ELSE ok(Shown(cmd.fields, AgentFields), run.warned)
    /\ UNCHANGED <<memo, run>>

\* reportAgent, and reportAgentError for the two faults of the data.
ReportAgent ==
    /\ Answered /\ run.err = "" /\ cmd.verb = "agentsGet" /\ run.state # "notApplicable"
    /\ IF ~ KnownFields THEN usage
       ELSE IF run.coverage \in {"nonePresent", "schema"}
       THEN failData(codeConfig, Shown(cmd.fields, AgentFields), run.warned)
       ELSE ok(Shown(cmd.fields, AgentFields), run.warned)
    /\ UNCHANGED <<memo, run>>

\* The lists and the exact gets of models and providers: applyOrder, then
\* tabulate or resolve, check their fields whether or not there are rows.
Report ==
    /\ Answered /\ run.err = "" /\ cmd.verb # "agentsGet"
    /\ IF cmd.order = "bogus" \/ ~ KnownFields THEN usage
       ELSE ok(Shown(cmd.fields, Carried[Nouns[cmd.verb]]), run.warned)
    /\ UNCHANGED <<memo, run>>

-----------------------------------------------------------------------------
(* refresh                                                                 *)

BadTarget ==
    /\ cmd.at = "index" /\ cmd.config = "" /\ cmd.verb = "refresh"
    /\ usage
    /\ UNCHANGED <<memo, run>>

ChooseTarget ==
    /\ cmd.at = "index" /\ cmd.config = "" /\ cmd.verb = "refresh"
    /\ \E t \in {"catalog", "models.dev", "all"}, dir \in BOOLEAN :
          cmd' = [cmd EXCEPT !.target = t, !.dir = dir,
                             !.at = IF t = "models.dev" THEN "models.dev" ELSE "catalog"]
    /\ UNCHANGED <<memo, run, out>>

\* A directory is not refreshed, without an error.
RefreshCatalog ==
    /\ cmd.at = "catalog"
    /\ cmd' = [cmd EXCEPT !.done = IF cmd.dir THEN {} ELSE {"catalog"},
                          !.at = IF cmd.target = "all" THEN "models.dev" ELSE "refreshed"]
    /\ UNCHANGED <<memo, run, out>>

RefreshModels ==
    /\ cmd.at = "models.dev"
    /\ cmd' = [cmd EXCEPT !.done = @ \cup {"models.dev"}, !.at = "refreshed"]
    /\ UNCHANGED <<memo, run, out>>

\* How refreshing the target at hand may fail.
RefreshErrors ==
    IF cmd.at = "catalog" THEN (IF cmd.dir THEN {} ELSE Library!CatalogErrors)
    ELSE {"modelsUnavailable", "modelsSchema"}

\* Mutant of RefreshFails: the first target's failure does not stop the second.
RefreshFailsOnward ==
    /\ cmd.at \in {"catalog", "models.dev"}
    /\ \E e \in RefreshErrors :
          IF cmd.at = "catalog" /\ cmd.target = "all"
          THEN cmd' = [cmd EXCEPT !.at = "models.dev"] /\ UNCHANGED out
          ELSE /\ out' = [out EXCEPT !.stdout = IF cmd.json THEN Append(@, "envelope") ELSE @,
                                     !.code = codeFor(e)]
               /\ cmd' = [Returned(cmd, "exitError") EXCEPT !.met = e]
    /\ UNCHANGED <<memo, run>>

\* What was refreshed before the failure is not reported.
RefreshFails ==
    /\ cmd.at \in {"catalog", "models.dev"}
    /\ \E e \in RefreshErrors :
          /\ out' = [out EXCEPT !.stdout = IF cmd.json THEN Append(@, "envelope") ELSE @,
                                !.code = codeFor(e)]
          /\ cmd' = [Returned(cmd, "exitError") EXCEPT !.met = e]
    /\ UNCHANGED <<memo, run>>

Refreshed ==
    /\ cmd.at = "refreshed"
    /\ ok(cmd.done, {})
    /\ UNCHANGED <<memo, run>>

-----------------------------------------------------------------------------

\* Mutant of Execute: an error that has been rendered is rendered again.
ExecuteAgain ==
    /\ cmd.at = "returned"
    /\ cmd' = [cmd EXCEPT !.at = "exited", !.args = <<>>]
    /\ out' = [out EXCEPT !.stdout =
                 IF cmd.err # "none" /\ (cmd.json \/ jsonRequested(cmd.args))
                 THEN Append(@, "envelope") ELSE @]
    /\ UNCHANGED <<memo, run>>

\* execute: cobra's own error is rendered here.
Execute ==
    /\ cmd.at = "returned"
    /\ cmd' = [cmd EXCEPT !.at = "exited", !.args = <<>>]
    /\ out' = [out EXCEPT !.stdout = IF cmd.err = "cobra" /\ jsonRequested(cmd.args)
                                     THEN Append(@, "envelope") ELSE @]
    /\ UNCHANGED <<memo, run>>

Next ==
    \/ CobraFails \/ Parsed \/ Misused \/ BadColor \/ LoadConfig \/ Version
    \/ ConfigFails \/ BadBinPath \/ Call \/ LibraryStep
    \/ LibraryFails \/ SoftPath \/ ReportAgent \/ Report
    \/ BadTarget \/ ChooseTarget \/ RefreshCatalog \/ RefreshModels \/ RefreshFails \/ Refreshed
    \/ Execute

Spec == Init /\ [][Next]_vars

-----------------------------------------------------------------------------

Exited == cmd.at = "exited"
BadSelection ==
    cmd.verb \in Browsing /\ (cmd.order = "bogus" \/ ~ KnownFields)
FaultShown == out.warned \cap {"modelsUnreachable", "schemaDrift"} # {}
Tried == ToSet(run.ids) \cup ToSet(run.query.providers)
Unavailable == {"catalogUnavailable", "modelsUnavailable"}

\* The state has its shape: a command shows at most one document, its error
\* and its exit code agree, and nothing is warned of but by the library.
TypeOK ==
    /\ cmd.verb \in Verbs /\ cmd.fields \subseteq Fields /\ cmd.done \subseteq {"catalog", "models.dev"}
    /\ cmd.want \in {"", "json", "text", "mixed"}
    /\ cmd.err \in {"none", "exitError", "cobra"}
    /\ Len(out.stdout) =< 1 /\ ToSet(out.stdout) \subseteq {"envelope", "text"}
    /\ out.shown \subseteq Fields \cup {"catalog", "models.dev"}
    /\ out.warned \subseteq run.warned
    /\ cmd.err = "none" <=> out.code = codeOK

\* A process asked for JSON, in whatever way it fails and wherever the flag
\* stands, prints one envelope and nothing else on stdout; one not asked for it
\* prints none (execute renders what cobra refused, a.fail the rest).
JsonAsAsked ==
    Exited => /\ cmd.want = "json" => out.stdout = <<"envelope">>
              /\ cmd.want = "text" => "envelope" \notin ToSet(out.stdout)

\* What the library warned of is shown however the command ends, unless the
\* selection of fields was wrong.
WarningsReachUser ==
    Exited /\ ~ BadSelection => out.warned = run.warned

\* agents get shows the fields it was asked for, each filled, or says what kept
\* models.dev from filling it: the level asked of the library (agentGetLevel)
\* and the refusal to browse an agnostic agent (namedProviderField) agree.
SelectionHonoured ==
    Exited /\ cmd.verb = "agentsGet" /\ cmd.fields # {} /\ out.code = codeOK =>
        /\ out.shown = cmd.fields
        /\ FaultShown \/ /\ "models" \in cmd.fields => Filled("full")
                         /\ "provider_env" \in cmd.fields => Filled("count")
                         /\ "providers" \in cmd.fields => run.ids # <<>>

\* "Lowest enrichment that fills the demand so field selection never pays for
\* unused data": models.dev is called for a field that comes from it, or to
\* check the ids given for an agnostic agent's providers.
UnselectedIsNotFetched ==
    Exited /\ cmd.verb = "agentsGet" /\ run.asked /\ ~ cmd.models =>
        \/ cmd.fields = {} \/ cmd.fields \cap {"models", "provider_env"} # {}
        \/ "providers" \in cmd.fields /\ Library!Agnostic(run.query.agent)

\* A refresh that exits with success has refreshed, and names, every target it
\* was asked for, a catalog directory excepted; one that fails has refreshed at
\* most the targets before the one that failed, and names none.
RefreshIsWhole ==
    Exited /\ cmd.verb = "refresh" =>
        LET asked == IF cmd.target = "all" THEN {"catalog", "models.dev"}
                     ELSE IF cmd.target = "" THEN {} ELSE {cmd.target}
            current == IF cmd.dir THEN {"catalog"} ELSE {}
        IN IF out.code = codeOK
           THEN asked # {} /\ out.shown = asked \ current /\ cmd.done = out.shown
           ELSE /\ out.shown = {}
                /\ cmd.met = "" => cmd.done = {}
                /\ "models.dev" \notin cmd.done
                /\ "catalog" \in cmd.done => cmd.met \in {"modelsUnavailable", "modelsSchema"}

\* The exit code tells the fault apart as the table of the README has it:
\* transient only while models.dev or the catalog is out of reach, and never
\* for models.dev on agents, which degrade; not found only for an id models.dev
\* or the catalog was there to deny; configuration only for data that is wrong;
\* and no success for an agent none of whose providers exists.
ExitTellsFault ==
    Exited =>
        /\ out.code = codeTransient =>
              /\ {cmd.met, run.err} \cap Unavailable # {}
              /\ run.err = "modelsUnavailable" => memo = None /\ Nouns[cmd.verb] # "agents"
        /\ out.code = codeNotFound =>
              \/ run.query.agent \in Strangers
              \/ cmd.verb \in {"modelsGet", "providersGet"} /\ memo # None
        /\ (out.code = codeConfig /\ run.asked /\ memo # None) =>
              \/ (Tried \cap memo.drifted) # {}
              \/ cmd.verb = "agentsGet" /\ (Tried \cap memo.known) = {}
        /\ (out.code = codeUsage /\ run.asked) =>
              BadSelection \/ (memo # None /\ ~ ToSet(run.query.providers) \subseteq memo.known)
        /\ (out.code = codeOK /\ cmd.verb = "agentsGet" /\ Library!AtLeast(run.query, "count")) =>
              FaultShown \/ run.ids = <<>> \/ (Tried \cap memo.known) # {}
=============================================================================
