------------------------------ MODULE CliProofs ------------------------------
(***************************************************************************)
(* Every property of Cli, for command lines of any length and every        *)
(* catalog, set of agents and content of models.dev.                       *)
(*                                                                         *)
(* First come the effects of each step, field by field; then the invariant *)
(* in four layers. The shape of the command and its output, with the       *)
(* warnings that reach them, stands alone; a refresh and the reading of    *)
(* --json need the shape. The fourth relates what the flags ask of the     *)
(* library to how the command ends, through what the library answers: its  *)
(* invariant is the one proved in ServicesProofs, which an instance of     *)
(* that module lends to the run of a command, so that nothing about the    *)
(* library is proved twice.                                                *)
(***************************************************************************)
EXTENDS Cli, FoldProofs, SequenceTheorems

CmdFields == {"at", "verb", "args", "fits", "want", "json", "config", "fields", "models", "order",
              "target", "dir", "done", "met", "err"}
OutFields == {"stdout", "warned", "shown", "code"}

\* The records are those of their fields, whatever their values.
IsCmd(c) == c = [f \in CmdFields |-> c[f]]
IsOut(o) == o = [f \in OutFields |-> o[f]]

\* A step changes at most the fields F of the command.
Keeps(F) == IsCmd(cmd') /\ \A f \in CmdFields \ F : cmd'[f] = cmd[f]

Over == cmd.at \in {"returned", "exited"}
Output == Fields \cup {"catalog", "models.dev"}

-----------------------------------------------------------------------------
(* What each step does, field by field.                                    *)

\* A command returns: with an error or with none, once it has shown a document
\* of the kind it was asked for, these fields and these warnings.
Returns(shown, warned) ==
    /\ Keeps({"at", "err"}) /\ IsOut(out')
    /\ cmd'.at = "returned" /\ cmd'.err \in {"none", "exitError"}
    /\ cmd'.err = "none" <=> out'.code = codeOK
    /\ cmd.json => out'.stdout = Append(out.stdout, "envelope")
    /\ ~ cmd.json => out'.stdout \in {out.stdout, Append(out.stdout, "text")}
    /\ out'.warned = warned /\ out'.shown = shown

\* The exit codes that tell a failure.
Faulty(code) == code # codeOK

\* Each way to return, but cobra's, returns as Returns says: a success, ...
LEMMA okReturns ==
    ASSUME IsCmd(cmd), IsOut(out), out.code = codeOK, NEW shown, NEW warned, ok(shown, warned)
    PROVE  Returns(shown, warned) /\ cmd'.err = "none"
  BY DEF ok, Returned, Returns, Keeps, IsCmd, IsOut, CmdFields, OutFields

\* ... an error, ...
LEMMA failReturns ==
    ASSUME IsCmd(cmd), IsOut(out), out.shown = {}, NEW code, NEW warned, Faulty(code),
           fail(code, warned)
    PROVE  Returns({}, warned) /\ cmd'.err = "exitError"
  BY DEF fail, Returned, Returns, Keeps, IsCmd, IsOut, CmdFields, OutFields, Faulty

\* ... and data that have a fault.
LEMMA failDataReturns ==
    ASSUME IsCmd(cmd), IsOut(out), NEW code, NEW shown, NEW warned, Faulty(code),
           failData(code, shown, warned)
    PROVE  Returns(shown, warned) /\ cmd'.err = "exitError"
  BY DEF failData, Returned, Returns, Keeps, IsCmd, IsOut, CmdFields, OutFields, Faulty

\* No error has the code of a success.
LEMMA Codes ==
    /\ Faulty(codeFailure) /\ Faulty(codeUsage) /\ Faulty(codeConfig)
    /\ \A e : Faulty(codeFor(e)) /\ Faulty(codeForConfig(e))
<1>1. /\ Faulty(codeFailure) /\ Faulty(codeUsage) /\ Faulty(codeConfig) /\ Faulty(codeTransient)
      /\ Faulty(codeNotFound) /\ Faulty(codePermission)
  BY DEF Faulty, codeOK, codeFailure, codeUsage, codeConfig, codeTransient, codeNotFound,
         codePermission
<1>2. \A e : codeFor(e) \in {codeConfig, codeTransient, codeNotFound, codeUsage, codeFailure}
  BY DEF codeFor
<1>3. \A e : codeForConfig(e) \in {codeConfig, codePermission, codeFailure}
  BY DEF codeForConfig
<1> QED
  BY <1>1, <1>2, <1>3

\* A usage error shows no fields and no warnings.
LEMMA usageReturns ==
    ASSUME IsCmd(cmd), IsOut(out), out.shown = {}, usage
    PROVE  Returns({}, {}) /\ cmd'.err = "exitError"
  BY Codes, failReturns DEF usage

\* What cobra refuses has shown nothing yet; only the wish for JSON is known.
LEMMA CobraFailsEffect ==
    IsCmd(cmd) /\ IsOut(out) /\ CobraFails =>
        /\ cmd.at = "parse" /\ Keeps({"at", "err", "want"})
        /\ cmd'.at = "returned" /\ cmd'.err = "cobra" /\ cmd'.want = Wanted(cmd.args)
        /\ IsOut(out') /\ out'.stdout = out.stdout /\ out'.warned = out.warned
        /\ out'.shown = out.shown /\ out'.code = codeUsage
        /\ memo' = memo /\ run' = run
<1> DEFINE want == Wanted(cmd.args)
<1> HIDE DEF want
<1>1. IsCmd(cmd) /\ cmd' = [Returned(cmd, "cobra") EXCEPT !.want = want] =>
          /\ Keeps({"at", "err", "want"})
          /\ cmd'.at = "returned" /\ cmd'.err = "cobra" /\ cmd'.want = want
  BY DEF Returned, Keeps, IsCmd, CmdFields
<1>2. IsOut(out) /\ out' = [out EXCEPT !.code = codeUsage] =>
          /\ IsOut(out') /\ out'.stdout = out.stdout /\ out'.warned = out.warned
          /\ out'.shown = out.shown /\ out'.code = codeUsage
  BY DEF IsOut, OutFields
<1> QED
  BY <1>1, <1>2 DEF CobraFails, want

\* Once the flags are read, a.jsonOut is what the last of them said.
LEMMA ParsedEffect ==
    IsCmd(cmd) /\ Parsed =>
        /\ cmd.at = "parse" /\ ~ FlagError(cmd.args) /\ Keeps({"at", "want", "json", "args"})
        /\ cmd'.at = (IF cmd.verb = "unknown" THEN "misused" ELSE "preRun")
        /\ cmd'.want = Wanted(cmd.args) /\ cmd'.json = jsonOut(cmd.args)
        /\ out' = out /\ memo' = memo /\ run' = run
<1> DEFINE want == Wanted(cmd.args)
           json == jsonOut(cmd.args)
           at == IF cmd.verb = "unknown" THEN "misused" ELSE "preRun"
<1> HIDE DEF want, json, at
<1>1. IsCmd(cmd) /\ cmd' = [cmd EXCEPT !.at = at, !.want = want, !.json = json, !.args = <<>>] =>
          /\ Keeps({"at", "want", "json", "args"})
          /\ cmd'.at = at /\ cmd'.want = want /\ cmd'.json = json
  BY DEF Keeps, IsCmd, CmdFields
<1> QED
  BY <1>1 DEF Parsed, want, json, at

\* The configuration is loaded, and the verb goes where it belongs.
LEMMA LoadConfigEffect ==
    IsCmd(cmd) /\ LoadConfig =>
        /\ cmd.at = "preRun" /\ Keeps({"at", "config"})
        /\ \/ cmd.verb \in {"noun", "helpTopic"} /\ cmd'.at = "misused"
           \/ cmd.verb = "version" /\ cmd'.at = "version"
           \/ cmd.verb \notin {"noun", "helpTopic", "version"} /\ cmd'.at = "index"
        /\ out' = out /\ memo' = memo /\ run' = run
<1> DEFINE at == IF cmd.verb \in {"noun", "helpTopic"} THEN "misused"
                 ELSE IF cmd.verb = "version" THEN "version" ELSE "index"
<1>1. at \in {"misused", "version", "index"}
  OBVIOUS
<1>2. ASSUME NEW to, NEW c, IsCmd(cmd), cmd' = [cmd EXCEPT !.config = c, !.at = to]
      PROVE  Keeps({"at", "config"}) /\ cmd'.at = to
  BY <1>2 DEF Keeps, IsCmd, CmdFields
<1>3. IsCmd(cmd) /\ LoadConfig => Keeps({"at", "config"}) /\ cmd'.at = at
  BY <1>2 DEF LoadConfig
<1> QED
  BY <1>3 DEF LoadConfig

\* The steps that end a command with a usage or a configuration error, before
\* anything was called.
Refusing == Misused \/ BadColor \/ ConfigFails \/ BadBinPath \/ BadTarget

\* They call nothing and return with an error alone.
LEMMA RefusingEffect ==
    ASSUME IsCmd(cmd), IsOut(out), out.shown = {}, Refusing
    PROVE  /\ Returns({}, {}) /\ cmd'.err = "exitError"
           /\ cmd.at \in {"misused", "preRun", "index"}
           /\ memo' = memo /\ run' = run
<1>1. CASE Misused
  BY <1>1, usageReturns DEF Misused
<1>2. CASE BadColor
  BY <1>2, usageReturns DEF BadColor
<1>3. CASE ConfigFails
  <2>1. Returns({}, {}) /\ cmd'.err = "exitError"
    BY <1>3, Codes, failReturns DEF ConfigFails
  <2> QED
    BY <1>3, <2>1 DEF ConfigFails
<1>4. CASE BadBinPath
  BY <1>4, usageReturns DEF BadBinPath
<1>5. CASE BadTarget
  BY <1>5, usageReturns DEF BadTarget
<1> QED
  BY <1>1, <1>2, <1>3, <1>4, <1>5 DEF Refusing

\* version calls nothing and returns with none.
LEMMA VersionEffect ==
    ASSUME IsCmd(cmd), IsOut(out), out.code = codeOK, Version
    PROVE  Returns({}, {}) /\ cmd.at = "version" /\ cmd'.err = "none" /\ memo' = memo /\ run' = run
  BY okReturns DEF Version

\* The call of the library: a query, for these fields, with or without models.
Calls(q) ==
    /\ cmd.at = "index" /\ cmd.verb \in Browsing
    /\ Keeps({"at", "fields", "models", "order"})
    /\ cmd'.at = "library" /\ cmd'.fields \subseteq Fields
    /\ q \in Library!Queries /\ Library!Sensible(q) /\ q.op = cmd.verb
    /\ cmd.verb = "agentsGet" => q.enrich = agentGetLevel(cmd'.models, cmd'.fields)
    /\ run' = Library!NewRun(q, memo # None) /\ memo' = memo /\ out' = out

\* Call begins an operation of the library with a query of the flags.
LEMMA CallEffect == IsCmd(cmd) /\ Call => \E q : Calls(q)
<1> SUFFICES ASSUME IsCmd(cmd), Call PROVE \E q : Calls(q)
  OBVIOUS
<1>1. PICK fields \in SUBSET Fields, models \in BOOLEAN, order \in {"", "id", "bogus"} :
          /\ cmd' = [cmd EXCEPT !.at = "library", !.fields = fields, !.models = models,
                                !.order = order]
          /\ \E q \in Library!Queries :
                Library!Sensible(q) /\ AsAsked(q, cmd') /\ Library!BeginWith(q)
  BY DEF Call
<1>2. /\ Keeps({"at", "fields", "models", "order"})
      /\ cmd'.at = "library" /\ cmd'.fields = fields
  BY <1>1 DEF Keeps, IsCmd, CmdFields
<1>3. PICK q \in Library!Queries :
          Library!Sensible(q) /\ AsAsked(q, cmd') /\ Library!BeginWith(q)
  BY <1>1
<1>4. cmd'.verb = cmd.verb
  BY <1>2 DEF Keeps, CmdFields
<1>5. q.op = cmd.verb /\ (cmd.verb = "agentsGet" => q.enrich = agentGetLevel(cmd'.models, cmd'.fields))
  BY <1>3, <1>4 DEF AsAsked
<1>6. run' = Library!NewRun(q, memo # None) /\ memo' = memo
  BY <1>3 DEF Library!BeginWith
<1>7. Calls(q)
  BY <1>2, <1>3, <1>5, <1>6 DEF Calls, Call
<1> QED
  BY <1>7

\* What the command makes of the answer: it returns with the library's
\* warnings, or its selection was wrong.
Answering ==
    /\ Answered /\ memo' = memo /\ run' = run
    /\ \E shown : /\ shown \subseteq Fields
                  /\ \/ Returns(shown, run.warned)
                     \/ BadSelection /\ Returns({}, {}) /\ cmd'.err = "exitError"

\* Whatever the answer, the command returns with its warnings, or else with the
\* usage error of its selection.
LEMMA AnsweringEffect ==
    ASSUME IsCmd(cmd), IsOut(out), out.code = codeOK, out.shown = {},
           cmd.verb \in Browsing, cmd.fields \subseteq Fields,
           LibraryFails \/ SoftPath \/ ReportAgent \/ Report
    PROVE  Answering
<1>s. \A all : all \subseteq Fields => Shown(cmd.fields, all) \subseteq Fields
  BY DEF Shown
<1>1. CASE LibraryFails
  <2>1. Returns({}, run.warned)
    BY <1>1, Codes, failReturns DEF LibraryFails
  <2> QED
    BY <1>1, <2>1 DEF LibraryFails, Answering
<1>2. CASE SoftPath
  <2>1. Returns({}, run.warned) \/ Returns({"id"}, run.warned)
    BY <1>2, Codes, failReturns, okReturns DEF SoftPath
  <2>2. {} \subseteq Fields /\ {"id"} \subseteq Fields
    BY DEF Fields
  <2> QED
    BY <1>2, <2>1, <2>2 DEF SoftPath, Answering
<1>3. CASE ReportAgent
  <2> DEFINE shown == Shown(cmd.fields, AgentFields)
  <2>1. shown \subseteq Fields
    BY <1>s DEF AgentFields, Fields
  <2> HIDE DEF shown
  <2>2. CASE ~ KnownFields
    <3>1. Returns({}, {}) /\ cmd'.err = "exitError" /\ BadSelection
      BY <1>3, <2>2, usageReturns DEF ReportAgent, BadSelection
    <3> QED
      BY <1>3, <2>1, <3>1 DEF ReportAgent, Answering
  <2>3. CASE KnownFields
    <3>1. failData(codeConfig, shown, run.warned) \/ ok(shown, run.warned)
      BY <1>3, <2>3 DEF ReportAgent, shown
    <3>2. Returns(shown, run.warned)
      BY <3>1, Codes, failDataReturns, okReturns
    <3> QED
      BY <1>3, <2>1, <3>2 DEF ReportAgent, Answering
  <2> QED
    BY <2>2, <2>3
<1>4. CASE Report
  <2> DEFINE shown == Shown(cmd.fields, Carried[Nouns[cmd.verb]])
  <2>1. shown \subseteq Fields
    <3>1. Carried[Nouns[cmd.verb]] \subseteq Fields
      BY DEF Carried, Nouns, Fields, Browsing
    <3> QED
      BY <1>s, <3>1
  <2> HIDE DEF shown
  <2>2. CASE cmd.order = "bogus" \/ ~ KnownFields
    <3>1. Returns({}, {}) /\ cmd'.err = "exitError" /\ BadSelection
      BY <1>4, <2>2, usageReturns DEF Report, BadSelection
    <3> QED
      BY <1>4, <2>1, <3>1 DEF Report, Answering
  <2>3. CASE ~ (cmd.order = "bogus" \/ ~ KnownFields)
    <3>1. ok(shown, run.warned)
      BY <1>4, <2>3 DEF Report, shown
    <3>2. Returns(shown, run.warned)
      BY <3>1, okReturns
    <3> QED
      BY <1>4, <2>1, <3>2 DEF Report, Answering
  <2> QED
    BY <2>2, <2>3
<1> QED
  BY <1>1, <1>2, <1>3, <1>4

\* refresh goes to the first place of its target.
LEMMA ChooseTargetEffect ==
    IsCmd(cmd) /\ ChooseTarget =>
        /\ cmd.at = "index" /\ cmd.verb = "refresh" /\ Keeps({"at", "target", "dir"})
        /\ cmd'.target \in {"catalog", "models.dev", "all"}
        /\ \/ cmd'.target = "models.dev" /\ cmd'.at = "models.dev"
           \/ cmd'.target # "models.dev" /\ cmd'.at = "catalog"
        /\ out' = out /\ memo' = memo /\ run' = run
<1> DEFINE To(t) == IF t = "models.dev" THEN "models.dev" ELSE "catalog"
<1>1. ASSUME NEW t, NEW dir, NEW to, IsCmd(cmd),
             cmd' = [cmd EXCEPT !.target = t, !.dir = dir, !.at = to]
      PROVE  Keeps({"at", "target", "dir"}) /\ cmd'.target = t /\ cmd'.at = to
  BY <1>1 DEF Keeps, IsCmd, CmdFields
<1> SUFFICES ASSUME IsCmd(cmd), ChooseTarget
             PROVE  /\ Keeps({"at", "target", "dir"})
                    /\ cmd'.target \in {"catalog", "models.dev", "all"}
                    /\ \/ cmd'.target = "models.dev" /\ cmd'.at = "models.dev"
                       \/ cmd'.target # "models.dev" /\ cmd'.at = "catalog"
  BY DEF ChooseTarget
<1>2. PICK t \in {"catalog", "models.dev", "all"} :
          \E dir : cmd' = [cmd EXCEPT !.target = t, !.dir = dir, !.at = To(t)]
  BY DEF ChooseTarget
<1>3. To(t) = (IF t = "models.dev" THEN "models.dev" ELSE "catalog")
  OBVIOUS
<1> HIDE DEF To
<1>4. Keeps({"at", "target", "dir"}) /\ cmd'.target = t /\ cmd'.at = To(t)
  BY <1>1, <1>2
<1> QED
  BY <1>3, <1>4

\* The catalog is refreshed unless it is a directory, and what is next comes.
LEMMA RefreshCatalogEffect ==
    IsCmd(cmd) /\ RefreshCatalog =>
        /\ cmd.at = "catalog" /\ Keeps({"at", "done"})
        /\ cmd'.done = (IF cmd.dir THEN {} ELSE {"catalog"})
        /\ \/ cmd.target = "all" /\ cmd'.at = "models.dev"
           \/ cmd.target # "all" /\ cmd'.at = "refreshed"
        /\ out' = out /\ memo' = memo /\ run' = run
<1> DEFINE done == IF cmd.dir THEN {} ELSE {"catalog"}
           at == IF cmd.target = "all" THEN "models.dev" ELSE "refreshed"
<1> HIDE DEF done, at
<1>1. IsCmd(cmd) /\ cmd' = [cmd EXCEPT !.done = done, !.at = at] =>
          Keeps({"at", "done"}) /\ cmd'.done = done /\ cmd'.at = at
  BY DEF Keeps, IsCmd, CmdFields
<1> QED
  BY <1>1 DEF RefreshCatalog, done, at

\* models.dev, if asked for, is refreshed last.
LEMMA RefreshModelsEffect ==
    IsCmd(cmd) /\ RefreshModels =>
        /\ cmd.at = "models.dev" /\ Keeps({"at", "done"})
        /\ cmd'.done = cmd.done \cup {"models.dev"} /\ cmd'.at = "refreshed"
        /\ out' = out /\ memo' = memo /\ run' = run
  BY DEF RefreshModels, Keeps, IsCmd, CmdFields

\* A refresh that fails returns with an error and shows nothing.
LEMMA RefreshFailsEffect ==
    ASSUME IsCmd(cmd), IsOut(out), RefreshFails
    PROVE  /\ cmd.at \in {"catalog", "models.dev"} /\ Keeps({"at", "err", "met"}) /\ IsOut(out')
           /\ cmd'.at = "returned" /\ cmd'.err = "exitError"
           /\ cmd'.met \in RefreshErrors
           /\ cmd.json => out'.stdout = Append(out.stdout, "envelope")
           /\ ~ cmd.json => out'.stdout = out.stdout
           /\ Faulty(out'.code) /\ out'.warned = out.warned /\ out'.shown = out.shown
           /\ memo' = memo /\ run' = run
<1>1. PICK e \in RefreshErrors :
          /\ out' = [out EXCEPT !.stdout = IF cmd.json THEN Append(@, "envelope") ELSE @,
                                !.code = codeFor(e)]
          /\ cmd' = [Returned(cmd, "exitError") EXCEPT !.met = e]
  BY DEF RefreshFails
<1>2. /\ Keeps({"at", "err", "met"}) /\ cmd'.met = e
      /\ cmd'.at = "returned" /\ cmd'.err = "exitError"
  BY <1>1 DEF Returned, Keeps, IsCmd, CmdFields
<1> DEFINE code == codeFor(e)
<1>3. Faulty(code)
  BY Codes
<1> HIDE DEF code
<1>4. out' = [out EXCEPT !.stdout = IF cmd.json THEN Append(@, "envelope") ELSE @, !.code = code]
  BY <1>1 DEF code
<1>5. /\ IsOut(out') /\ out'.code = code /\ out'.warned = out.warned /\ out'.shown = out.shown
      /\ cmd.json => out'.stdout = Append(out.stdout, "envelope")
      /\ ~ cmd.json => out'.stdout = out.stdout
  BY <1>4 DEF IsOut, OutFields
<1> QED
  BY <1>2, <1>3, <1>5 DEF RefreshFails

\* A refresh that succeeds shows what it has done.
LEMMA RefreshedEffect ==
    ASSUME IsCmd(cmd), IsOut(out), out.code = codeOK, Refreshed
    PROVE  /\ cmd.at = "refreshed" /\ Returns(cmd.done, {}) /\ cmd'.err = "none"
           /\ memo' = memo /\ run' = run
<1> DEFINE done == cmd.done
<1> HIDE DEF done
<1>1. ok(done, {})
  BY DEF Refreshed, done
<1> QED
  BY <1>1, okReturns DEF Refreshed, done

\* What cobra refused is rendered, if it was to be JSON, as the process exits.
LEMMA ExecuteEffect ==
    IsCmd(cmd) /\ IsOut(out) /\ Execute =>
        /\ cmd.at = "returned" /\ cmd'.at = "exited" /\ Keeps({"at", "args"})
        /\ IsOut(out') /\ out'.warned = out.warned /\ out'.shown = out.shown
        /\ out'.code = out.code
        /\ \/ /\ cmd.err = "cobra" /\ jsonRequested(cmd.args)
              /\ out'.stdout = Append(out.stdout, "envelope")
           \/ /\ ~ (cmd.err = "cobra" /\ jsonRequested(cmd.args))
              /\ out'.stdout = out.stdout
        /\ memo' = memo /\ run' = run
<1> DEFINE speaks == cmd.err = "cobra" /\ jsonRequested(cmd.args)
<1>1. IsCmd(cmd) /\ cmd' = [cmd EXCEPT !.at = "exited", !.args = <<>>] =>
          cmd'.at = "exited" /\ Keeps({"at", "args"})
  BY DEF Keeps, IsCmd, CmdFields
<1>2. ASSUME NEW stdout, IsOut(out), out' = [out EXCEPT !.stdout = stdout]
      PROVE  /\ IsOut(out') /\ out'.warned = out.warned /\ out'.shown = out.shown
             /\ out'.code = out.code /\ out'.stdout = stdout
  BY <1>2 DEF IsOut, OutFields
<1>3. CASE speaks
  <2>1. Execute => out' = [out EXCEPT !.stdout = Append(out.stdout, "envelope")]
    BY <1>3 DEF Execute
  <2> QED
    BY <1>1, <1>2, <1>3, <2>1 DEF Execute
<1>4. CASE ~ speaks
  <2>1. Execute => out' = [out EXCEPT !.stdout = out.stdout]
    BY <1>4 DEF Execute
  <2> QED
    BY <1>1, <1>2, <1>4, <2>1 DEF Execute
<1> QED
  BY <1>3, <1>4

-----------------------------------------------------------------------------
(* First layer: the shape of a command and of its output, and where the    *)
(* library's warnings are.                                                 *)

Places == {"parse", "misused", "preRun", "version", "index", "library", "catalog", "models.dev",
           "refreshed", "returned", "exited"}

\* Which verbs are where.
Verbal ==
    /\ cmd.at = "library" => cmd.verb \in Browsing
    /\ cmd.at = "version" => cmd.verb = "version"
    /\ cmd.at \in {"catalog", "models.dev", "refreshed"} => cmd.verb = "refresh"
    /\ cmd.at = "misused" => cmd.verb \in {"noun", "helpTopic", "unknown"}

\* What has been shown: nothing until the command returns, and then one
\* document at most, a failure's or a success's as its error has it; nothing yet
\* of what cobra refused.
Shape ==
    /\ IsCmd(cmd) /\ IsOut(out)
    /\ cmd.at \in Places /\ cmd.verb \in Verbs /\ cmd.fields \subseteq Fields
    /\ cmd.done \subseteq {"catalog", "models.dev"}
    /\ cmd.want \in {"", "json", "text", "mixed"}
    /\ cmd.err \in {"none", "exitError", "cobra"}
    /\ Verbal
    /\ ~ Over => out = Blank /\ cmd.err = "none"
    /\ out.shown \subseteq Output
    /\ cmd.err = "none" <=> out.code = codeOK
    /\ out.stdout \in {<<>>, <<"envelope">>, <<"text">>}
    /\ cmd.at = "returned" /\ cmd.err = "cobra" => out.stdout = <<>>

\* The library has warned of nothing before it is called, and what it warned of
\* is what the command shows.
Passed ==
    /\ cmd.at \notin {"library", "returned", "exited"} => run = Idle
    /\ out.warned \subseteq run.warned
    /\ Over => BadSelection \/ out.warned = run.warned

\* Before the library is called it has warned of nothing and asked nothing.
LEMMA IdleParts == Idle.warned = {} /\ Idle.at = "done" /\ Idle.asked = FALSE
  BY DEF Idle, Library!NewRun

\* Nothing has been shown.
LEMMA BlankParts ==
    /\ IsOut(Blank) /\ Blank.stdout = <<>> /\ Blank.warned = {} /\ Blank.shown = {}
    /\ Blank.code = codeOK
  BY DEF Blank, IsOut, OutFields

\* A process begins with its arguments unread.
LEMMA CommandParts ==
    Init => /\ cmd.verb \in Verbs /\ cmd.args \in SeqOf(Tokens, MaxTokens)
            /\ IsCmd(cmd) /\ cmd.at = "parse" /\ cmd.want = ""
            /\ cmd.fields = {} /\ cmd.target = "" /\ cmd.done = {} /\ cmd.met = ""
            /\ cmd.err = "none" /\ out = Blank /\ run = Idle
<1> SUFFICES ASSUME Init
             PROVE  /\ cmd.verb \in Verbs /\ cmd.args \in SeqOf(Tokens, MaxTokens)
                    /\ IsCmd(cmd) /\ cmd.at = "parse" /\ cmd.want = ""
                    /\ cmd.fields = {} /\ cmd.target = "" /\ cmd.done = {} /\ cmd.met = ""
                    /\ cmd.err = "none" /\ out = Blank /\ run = Idle
  OBVIOUS
<1>1. PICK v \in Verbs, a \in SeqOf(Tokens, MaxTokens), f \in BOOLEAN : cmd = NewCommand(v, a, f)
  BY DEF Init, Commands
<1>2. /\ IsCmd(cmd) /\ cmd.at = "parse" /\ cmd.verb = v /\ cmd.args = a /\ cmd.want = ""
      /\ cmd.fields = {} /\ cmd.target = "" /\ cmd.done = {} /\ cmd.met = ""
      /\ cmd.err = "none"
  BY <1>1 DEF NewCommand, IsCmd, CmdFields
<1> QED
  BY <1>2 DEF Init

\* A process begins in that shape, with nothing warned of and nothing fetched.
LEMMA ShapeInit == Init => Shape /\ Passed
<1> SUFFICES ASSUME Init PROVE Shape /\ Passed
  OBVIOUS
<1>1. Shape
  BY CommandParts, BlankParts DEF Shape, Verbal, Places, Over
<1>2. Passed
  BY CommandParts, BlankParts, IdleParts DEF Passed, Over
<1> QED
  BY <1>1, <1>2

\* What a process may have written on stdout.
LEMMA Documents ==
    /\ Append(<<>>, "envelope") = <<"envelope">> /\ Append(<<>>, "text") = <<"text">>
  OBVIOUS

\* How long these are, and what is in them.
LEMMA DocumentParts ==
    /\ Len(<<>>) = 0 /\ Len(<<"envelope">>) = 1 /\ Len(<<"text">>) = 1
    /\ ToSet(<<>>) = {} /\ ToSet(<<"envelope">>) = {"envelope"} /\ ToSet(<<"text">>) = {"text"}
<1>1. Len(<<>>) = 0 /\ Len(<<"envelope">>) = 1 /\ Len(<<"text">>) = 1
  OBVIOUS
<1>2. \A v : ToSet(<<v>>) = {v}
  <2> SUFFICES ASSUME NEW v PROVE ToSet(<<v>>) = {v}
    OBVIOUS
  <2>1. DOMAIN <<v>> = {1} /\ <<v>>[1] = v
    OBVIOUS
  <2> QED
    BY <2>1 DEF ToSet
<1>3. DOMAIN <<>> = {}
  OBVIOUS
<1>4. ToSet(<<>>) = {}
  BY <1>3 DEF ToSet
<1> QED
  BY <1>1, <1>2, <1>4

\* A command under way has shown nothing.
LEMMA UnderWay ==
    ASSUME Shape, ~ Over
    PROVE  /\ IsCmd(cmd) /\ IsOut(out) /\ out.stdout = <<>> /\ out.warned = {} /\ out.shown = {}
           /\ out.code = codeOK /\ cmd.err = "none"
  BY BlankParts DEF Shape

\* A return writes at most the one document.
LEMMA ReturnsShape ==
    ASSUME Shape, ~ Over, NEW shown \in SUBSET Output, NEW warned, Returns(shown, warned)
    PROVE  Shape'
<1>1. /\ out'.stdout \in {<<"envelope">>, <<>>, <<"text">>}
  <2>1. /\ Append(out.stdout, "envelope") = <<"envelope">> /\ Append(out.stdout, "text") = <<"text">>
        /\ out.stdout = <<>>
    BY UnderWay, Documents
  <2>2. out'.stdout \in {out.stdout, Append(out.stdout, "text"), Append(out.stdout, "envelope")}
    BY DEF Returns
  <2> QED
    BY <2>1, <2>2
<1>2. /\ cmd'.verb = cmd.verb /\ cmd'.fields = cmd.fields /\ cmd'.done = cmd.done
      /\ cmd'.want = cmd.want
  BY DEF Returns, Keeps, CmdFields
<1>3. IsCmd(cmd') /\ IsOut(out') /\ cmd'.at = "returned" /\ cmd'.err \in {"none", "exitError"}
  BY DEF Returns, Keeps
<1>4. (cmd'.err = "none" <=> out'.code = codeOK) /\ out'.shown = shown
  BY DEF Returns
<1> QED
  BY <1>1, <1>2, <1>3, <1>4 DEF Shape, Verbal, Over, Places

\* A return with the library's warnings, or of a wrong selection.
LEMMA ReturnsPassed ==
    ASSUME NEW shown, NEW warned, Returns(shown, warned), run' = run, warned \subseteq run.warned,
           BadSelection \/ warned = run.warned
    PROVE  Passed'
<1>1. cmd'.verb = cmd.verb /\ cmd'.order = cmd.order /\ cmd'.fields = cmd.fields
  BY DEF Returns, Keeps, CmdFields
<1>2. BadSelection => BadSelection'
  BY <1>1 DEF BadSelection, KnownFields
<1>3. cmd'.at = "returned" /\ out'.warned = warned
  BY DEF Returns
<1> QED
  BY <1>2, <1>3 DEF Passed

\* A step that shows nothing, from one place of a command under way to another.
LEMMA MovesShape ==
    ASSUME Shape, ~ Over, NEW F, Keeps(F), F \cap {"verb", "err"} = {}, out' = out,
           cmd'.at \in Places \ {"returned", "exited"}, Verbal',
           "fields" \in F => cmd'.fields \subseteq Fields,
           "done" \in F => cmd'.done \subseteq {"catalog", "models.dev"},
           "want" \in F => cmd'.want \in {"", "json", "text", "mixed"}
    PROVE  Shape'
<1>1. cmd'.verb = cmd.verb /\ cmd'.err = cmd.err
  BY DEF Keeps, CmdFields
<1>2. cmd'.fields \subseteq Fields /\ cmd'.done \subseteq {"catalog", "models.dev"}
  BY DEF Keeps, CmdFields, Shape
<1>3. cmd'.want \in {"", "json", "text", "mixed"}
  BY DEF Keeps, CmdFields, Shape
<1>4. IsCmd(cmd')
  BY DEF Keeps
<1> QED
  BY <1>1, <1>2, <1>3, <1>4 DEF Shape, Over

\* Until the library is called nothing is warned of.
LEMMA MovesPassed ==
    ASSUME Shape, ~ Over, NEW F, Keeps(F), out' = out, run' = run, run = Idle,
           cmd'.at \in Places \ {"returned", "exited"}
    PROVE  Passed'
  BY UnderWay, IdleParts DEF Passed, Over

\* What the flags ask for is one of three.
LEMMA WantedParts == \A args : Wanted(args) \in {"json", "text", "mixed"}
  BY DEF Wanted

\* Every step keeps the shape, and passes the library's warnings on.
LEMMA ShapeStep == Shape /\ Passed /\ [Next]_vars => Shape' /\ Passed'
<1> SUFFICES ASSUME Shape, Passed, [Next]_vars PROVE Shape' /\ Passed'
  OBVIOUS
<1>m. IsCmd(cmd) /\ IsOut(out)
  BY DEF Shape
<1>1. CASE CobraFails
  <2>1. cmd.at = "parse" /\ ~ Over
    BY <1>1, <1>m, CobraFailsEffect DEF Over
  <2>2. Shape'
    <3>1. codeUsage # codeOK
      BY DEF codeUsage, codeOK
    <3>2. /\ cmd'.at = "returned" /\ cmd'.err = "cobra" /\ IsCmd(cmd') /\ IsOut(out')
          /\ cmd'.verb = cmd.verb /\ cmd'.fields = cmd.fields /\ cmd'.done = cmd.done
          /\ cmd'.want \in {"json", "text", "mixed"}
      BY <1>1, <1>m, CobraFailsEffect, WantedParts DEF Keeps, CmdFields
    <3>3. out'.stdout = <<>> /\ out'.shown = {} /\ out'.code = codeUsage
      BY <1>1, <1>m, <2>1, CobraFailsEffect, UnderWay
    <3> QED
      BY <3>1, <3>2, <3>3 DEF Shape, Verbal, Over, Places
  <2>3. Passed'
    BY <1>1, <1>m, <2>1, CobraFailsEffect, UnderWay, IdleParts DEF Passed, Over
  <2> QED
    BY <2>2, <2>3
<1>2. CASE Parsed
  <2>1. /\ ~ Over /\ Keeps({"at", "want", "json", "args"}) /\ out' = out /\ run' = run
        /\ cmd'.at \in {"misused", "preRun"} /\ cmd'.want \in {"", "json", "text", "mixed"}
        /\ cmd.at = "parse"
    BY <1>2, <1>m, ParsedEffect, WantedParts DEF Over
  <2>2. Verbal'
    BY <1>2, <1>m, ParsedEffect DEF Verbal, Keeps, CmdFields
  <2>3. Shape'
    BY <2>1, <2>2, MovesShape DEF Places
  <2> QED
    BY <2>1, <2>3, MovesPassed DEF Passed, Places
<1>3. CASE Refusing
  <2>1. ~ Over /\ cmd.at \in {"misused", "preRun", "index"}
    BY <1>3, <1>m, RefusingEffect, Codes DEF Over, Refusing, Misused, BadColor, ConfigFails,
       BadBinPath, BadTarget
  <2>2. Returns({}, {}) /\ run' = run
    BY <1>3, <2>1, RefusingEffect, UnderWay
  <2>3. run.warned = {}
    BY <2>1, IdleParts DEF Passed
  <2> QED
    BY <2>1, <2>2, <2>3, ReturnsShape, ReturnsPassed
<1>4. CASE LoadConfig
  <2>1. /\ ~ Over /\ Keeps({"at", "config"}) /\ out' = out /\ run' = run
        /\ cmd'.at \in {"misused", "version", "index"} /\ cmd.at = "preRun"
    BY <1>4, <1>m, LoadConfigEffect DEF Over
  <2>2. Verbal'
    BY <1>4, <1>m, LoadConfigEffect DEF Verbal, Keeps, CmdFields
  <2>3. Shape'
    BY <2>1, <2>2, MovesShape DEF Places
  <2> QED
    BY <2>1, <2>3, MovesPassed DEF Passed, Places
<1>5. CASE Version \/ Refreshed
  <2>1. ~ Over /\ cmd.at \in {"version", "refreshed"}
    BY <1>5 DEF Version, Refreshed, Over
  <2>2. (Returns({}, {}) \/ Returns(cmd.done, {})) /\ run' = run
    BY <1>5, <2>1, VersionEffect, RefreshedEffect, UnderWay
  <2>3. run.warned = {} /\ {} \subseteq Output /\ cmd.done \subseteq Output
    BY <2>1, IdleParts DEF Passed, Shape, Output
  <2> QED
    BY <2>1, <2>2, <2>3, ReturnsShape, ReturnsPassed
<1>6. CASE Call
  <2>1. PICK q : Calls(q)
    BY <1>6, <1>m, CallEffect
  <2>2. /\ ~ Over /\ Keeps({"at", "fields", "models", "order"}) /\ out' = out
        /\ cmd'.at = "library" /\ cmd'.fields \subseteq Fields
    BY <2>1 DEF Calls, Over
  <2>3. Verbal'
    BY <2>1 DEF Calls, Verbal, Keeps, CmdFields
  <2>4. Shape'
    BY <2>2, <2>3, MovesShape DEF Places
  <2>5. Passed'
    BY <2>2, UnderWay DEF Passed, Over
  <2> QED
    BY <2>4, <2>5
<1>7. CASE LibraryStep
  <2>1. cmd' = cmd /\ out' = out /\ cmd.at = "library"
    BY <1>7 DEF LibraryStep
  <2>2. Shape'
    BY <2>1 DEF Shape, Verbal, Over
  <2> QED
    BY <2>1, <2>2, UnderWay DEF Passed, Over
<1>8. CASE LibraryFails \/ SoftPath \/ ReportAgent \/ Report
  <2>1. ~ Over /\ cmd.verb \in Browsing /\ cmd.fields \subseteq Fields
    BY <1>8 DEF LibraryFails, SoftPath, ReportAgent, Report, Answered, Over, Shape, Verbal
  <2>2. Answering
    BY <1>8, <1>m, <2>1, AnsweringEffect, UnderWay
  <2>3. PICK shown : /\ shown \subseteq Fields
                     /\ \/ Returns(shown, run.warned)
                        \/ BadSelection /\ Returns({}, {}) /\ cmd'.err = "exitError"
    BY <2>2 DEF Answering
  <2>4. shown \in SUBSET Output /\ {} \in SUBSET Output /\ run' = run
    BY <2>2, <2>3 DEF Output, Answering
  <2> QED
    BY <2>1, <2>3, <2>4, ReturnsShape, ReturnsPassed
<1>9. CASE ChooseTarget
  <2>1. /\ ~ Over /\ Keeps({"at", "target", "dir"}) /\ out' = out /\ run' = run
        /\ cmd'.at \in {"models.dev", "catalog"} /\ cmd.at = "index" /\ cmd.verb = "refresh"
    BY <1>9, <1>m, ChooseTargetEffect DEF Over
  <2>2. Verbal'
    BY <2>1 DEF Verbal, Keeps, CmdFields
  <2>3. Shape'
    BY <2>1, <2>2, MovesShape DEF Places
  <2> QED
    BY <2>1, <2>3, MovesPassed DEF Passed, Places
<1>10. CASE RefreshCatalog \/ RefreshModels
  <2>1. /\ ~ Over /\ Keeps({"at", "done"}) /\ out' = out /\ run' = run
        /\ cmd'.at \in {"models.dev", "refreshed"} /\ cmd.at \in {"catalog", "models.dev"}
        /\ cmd'.done \subseteq cmd.done \cup {"catalog", "models.dev"}
    BY <1>10, <1>m, RefreshCatalogEffect, RefreshModelsEffect DEF Over
  <2>2. Verbal'
    BY <2>1 DEF Verbal, Shape, Keeps, CmdFields
  <2>3. cmd'.done \subseteq {"catalog", "models.dev"}
    BY <2>1 DEF Shape
  <2>4. Shape'
    BY <2>1, <2>2, <2>3, MovesShape DEF Places
  <2> QED
    BY <2>1, <2>4, MovesPassed DEF Passed, Places
<1>11. CASE RefreshFails
  <2>1. ~ Over /\ cmd.at \in {"catalog", "models.dev"}
    BY <1>11, <1>m, RefreshFailsEffect DEF Over
  <2>2. /\ cmd'.at = "returned" /\ cmd'.err = "exitError" /\ IsCmd(cmd') /\ IsOut(out')
        /\ cmd'.verb = cmd.verb /\ cmd'.fields = cmd.fields /\ cmd'.done = cmd.done
        /\ cmd'.want = cmd.want /\ Faulty(out'.code) /\ run' = run
    BY <1>11, <1>m, RefreshFailsEffect DEF Keeps, CmdFields
  <2>3. out'.warned = {} /\ out'.shown = {} /\ out'.stdout \in {<<>>, <<"envelope">>}
    <3>1. out'.warned = out.warned /\ out'.shown = out.shown
          /\ out'.stdout \in {out.stdout, Append(out.stdout, "envelope")}
      BY <1>11, <1>m, RefreshFailsEffect
    <3>2. Append(out.stdout, "envelope") = <<"envelope">>
      BY <2>1, UnderWay, Documents
    <3> QED
      BY <2>1, <3>1, <3>2, UnderWay
  <2>4. Shape'
    BY <2>2, <2>3 DEF Shape, Verbal, Over, Places, Faulty
  <2>5. Passed'
    BY <2>1, <2>2, <2>3, IdleParts DEF Passed, Over
  <2> QED
    BY <2>4, <2>5
<1>12. CASE Execute
  <2>1. /\ cmd.at = "returned" /\ cmd'.at = "exited" /\ IsCmd(cmd') /\ IsOut(out')
        /\ cmd'.verb = cmd.verb /\ cmd'.fields = cmd.fields /\ cmd'.done = cmd.done
        /\ cmd'.want = cmd.want /\ cmd'.err = cmd.err /\ cmd'.order = cmd.order
        /\ out'.warned = out.warned /\ out'.shown = out.shown /\ out'.code = out.code
        /\ run' = run
    BY <1>12, <1>m, ExecuteEffect DEF Keeps, CmdFields
  <2>2. out'.stdout \in {<<>>, <<"envelope">>, <<"text">>}
    <3>1. \/ out'.stdout = out.stdout
          \/ cmd.err = "cobra" /\ out'.stdout = Append(out.stdout, "envelope")
      BY <1>12, <1>m, ExecuteEffect
    <3>2. cmd.err = "cobra" => Append(out.stdout, "envelope") = <<"envelope">>
      BY <2>1, Documents DEF Shape
    <3> QED
      BY <3>1, <3>2 DEF Shape
  <2>3. Shape'
    BY <2>1, <2>2 DEF Shape, Verbal, Over, Places
  <2>4. BadSelection => BadSelection'
    BY <2>1 DEF BadSelection, KnownFields
  <2>5. Passed'
    BY <2>1, <2>4 DEF Passed, Over
  <2> QED
    BY <2>3, <2>5
<1>13. CASE UNCHANGED vars
  <2>1. cmd' = cmd /\ out' = out /\ run' = run
    BY <1>13 DEF vars
  <2>2. BadSelection' <=> BadSelection
    BY <2>1 DEF BadSelection, KnownFields
  <2> QED
    BY <2>1, <2>2, ZenonT(60) DEF Shape, Verbal, Over, Passed
<1> QED
  BY <1>1, <1>2, <1>3, <1>4, <1>5, <1>6, <1>7, <1>8, <1>9, <1>10, <1>11, <1>12, <1>13
     DEF Next, Refusing

\* TypeOK and WarningsReachUser are what the layer says of an exit.
LEMMA ShapeImplies == Shape /\ Passed => TypeOK /\ WarningsReachUser
<1> SUFFICES ASSUME Shape, Passed PROVE TypeOK /\ WarningsReachUser
  OBVIOUS
<1>1. Len(out.stdout) =< 1 /\ ToSet(out.stdout) \subseteq {"envelope", "text"}
  <2>1. out.stdout = <<>> \/ out.stdout = <<"envelope">> \/ out.stdout = <<"text">>
    BY DEF Shape
  <2>2. Len(out.stdout) = 0 \/ Len(out.stdout) = 1
    BY <2>1, DocumentParts
  <2>3. ToSet(out.stdout) \subseteq {"envelope", "text"}
    BY <2>1, DocumentParts
  <2>4. \A n : n = 0 \/ n = 1 => n =< 1
    OBVIOUS
  <2> QED
    BY <2>2, <2>3, <2>4
<1>2. TypeOK
  BY <1>1 DEF Shape, Passed, TypeOK, Output
<1> QED
  BY <1>2 DEF Passed, WarningsReachUser, Exited, Over

-----------------------------------------------------------------------------
(* Second layer: what a refresh has completed, place by place.             *)

Asked == IF cmd.target = "all" THEN {"catalog", "models.dev"}
         ELSE IF cmd.target = "" THEN {} ELSE {cmd.target}
Current == IF cmd.dir THEN {"catalog"} ELSE {}
ModelsFaults == {"modelsUnavailable", "modelsSchema"}

\* Before a target was chosen, nothing is done.
Unbegun == cmd.target = "" /\ cmd.done = {} /\ cmd.met = ""

\* At a target, what comes before it is done.
Underway ==
    /\ cmd.at = "catalog" => cmd.target \in {"catalog", "all"} /\ cmd.done = {} /\ cmd.met = ""
    /\ cmd.at = "models.dev" =>
          /\ cmd.target \in {"models.dev", "all"} /\ cmd.met = ""
          /\ cmd.done = Asked \ (Current \cup {"models.dev"})
    /\ cmd.at = "refreshed" => Asked # {} /\ cmd.done = Asked \ Current /\ cmd.met = ""

\* Once it has returned, all is done and shown, or it failed where it was.
Settled ==
    IF out.code = codeOK
    THEN Asked # {} /\ out.shown = Asked \ Current /\ cmd.done = out.shown
    ELSE /\ out.shown = {}
         /\ cmd.met = "" => cmd.done = {}
         /\ "models.dev" \notin cmd.done
         /\ "catalog" \in cmd.done => cmd.met \in ModelsFaults

Refreshing ==
    cmd.verb = "refresh" =>
        /\ cmd.at \in {"parse", "misused", "preRun", "index"} => Unbegun
        /\ Underway
        /\ Over => Settled

\* Nothing is refreshed at first.
LEMMA RefreshingInit == Init => Refreshing
  BY CommandParts DEF Refreshing, Unbegun, Underway, Over

\* What a refresh has done is as it was, if a step keeps the target's fields.
LEMMA SameTarget ==
    ASSUME NEW F, Keeps(F), F \cap {"verb", "target", "dir", "done", "met"} = {}
    PROVE  /\ cmd'.verb = cmd.verb /\ cmd'.done = cmd.done /\ cmd'.met = cmd.met
           /\ cmd'.target = cmd.target /\ cmd'.dir = cmd.dir
           /\ Asked' = Asked /\ Current' = Current
<1>1. /\ cmd'.verb = cmd.verb /\ cmd'.done = cmd.done /\ cmd'.met = cmd.met
      /\ cmd'.target = cmd.target /\ cmd'.dir = cmd.dir
  BY DEF Keeps, CmdFields
<1> QED
  BY <1>1 DEF Asked, Current

\* How models.dev may fail, and that a failure has a name.
LEMMA RefreshErrorsAt ==
    /\ cmd.at = "models.dev" => RefreshErrors = ModelsFaults
    /\ "" \notin RefreshErrors
  BY DEF RefreshErrors, ModelsFaults, Library!CatalogErrors

\* Every step of a refresh leaves its target where Underway has it.
LEMMA RefreshingStep == Shape /\ Refreshing /\ [Next]_vars => Refreshing'
<1> SUFFICES ASSUME Shape, Refreshing, [Next]_vars, cmd'.verb = "refresh"
             PROVE  /\ cmd'.at \in {"parse", "misused", "preRun", "index"} => Unbegun'
                    /\ Underway'
                    /\ Over' => Settled'
  BY DEF Refreshing
<1>m. IsCmd(cmd) /\ IsOut(out)
  BY DEF Shape
<1>r. ASSUME cmd.verb = "refresh"
      PROVE  cmd.at \notin {"misused", "version", "library"}
  BY <1>r DEF Shape, Verbal, Browsing, Nouns
\* A step into a return, that shows nothing and fails.
<1>1. ASSUME cmd.verb = "refresh", Unbegun, NEW F, Keeps(F),
             F \cap {"verb", "target", "dir", "done", "met"} = {},
             cmd'.at = "returned", out'.code # codeOK, out'.shown = {}
      PROVE  Underway' /\ Settled' /\ ~ (cmd'.at \in {"parse", "misused", "preRun", "index"})
  BY <1>1, SameTarget DEF Unbegun, Underway, Settled
<1>2. CASE CobraFails
  <2>1. /\ Keeps({"at", "err", "want"}) /\ cmd'.at = "returned" /\ cmd.at = "parse"
        /\ out'.code # codeOK /\ out'.shown = {}
    BY <1>2, <1>m, CobraFailsEffect, UnderWay DEF Over, codeUsage, codeOK
  <2>2. cmd.verb = "refresh"
    BY <2>1, SameTarget
  <2>3. Unbegun
    BY <2>1, <2>2 DEF Refreshing
  <2> QED
    BY <1>1, <2>1, <2>2, <2>3
<1>3. CASE Refusing
  <2>1. cmd.at \in {"misused", "preRun", "index"} /\ ~ Over
    BY <1>3 DEF Over, Refusing, Misused, BadColor, ConfigFails, BadBinPath, BadTarget
  <2>2. Returns({}, {}) /\ cmd'.err = "exitError"
    BY <1>3, <2>1, RefusingEffect, UnderWay
  <2>3. Keeps({"at", "err"}) /\ cmd'.at = "returned" /\ out'.code # codeOK /\ out'.shown = {}
    BY <2>2 DEF Returns
  <2>4. cmd.verb = "refresh"
    BY <2>3, SameTarget
  <2>5. Unbegun
    BY <2>1, <2>4 DEF Refreshing
  <2> QED
    BY <1>1, <2>3, <2>4, <2>5
<1>4. CASE Parsed \/ LoadConfig
  <2>1. PICK F : /\ Keeps(F) /\ F \cap {"verb", "target", "dir", "done", "met"} = {}
                 /\ cmd.at \in {"parse", "preRun"}
                 /\ cmd'.at \in {"misused", "preRun", "version", "index"}
    BY <1>4, <1>m, ParsedEffect, LoadConfigEffect
  <2>2. cmd.verb = "refresh"
    BY <2>1, SameTarget
  <2>3. Unbegun
    BY <2>1, <2>2 DEF Refreshing
  <2>4. Unbegun'
    BY <2>1, <2>3, SameTarget DEF Unbegun
  <2> QED
    BY <2>1, <2>4 DEF Underway, Over
<1>5. CASE Version
  <2>1. ~ Over /\ cmd.at = "version"
    BY <1>5 DEF Version, Over
  <2>2. Returns({}, {})
    BY <1>5, <1>m, <2>1, VersionEffect, UnderWay
  <2>3. cmd.verb = "refresh"
    BY <2>2, SameTarget DEF Returns
  <2> QED
    BY <1>r, <2>1, <2>3
<1>6. CASE Call
  <2>1. PICK q : Calls(q)
    BY <1>6, <1>m, CallEffect
  <2>2. cmd.verb \in Browsing /\ Keeps({"at", "fields", "models", "order"})
    BY <2>1 DEF Calls
  <2>3. cmd'.verb = cmd.verb
    BY <2>2, SameTarget
  <2>4. "refresh" \notin Browsing
    BY DEF Browsing, Nouns
  <2> QED
    BY <2>2, <2>3, <2>4
<1>7. CASE LibraryStep
  BY <1>7, <1>r DEF LibraryStep
<1>8. CASE LibraryFails \/ SoftPath \/ ReportAgent \/ Report
  <2>1. ~ Over /\ cmd.verb \in Browsing /\ cmd.fields \subseteq Fields /\ cmd.at = "library"
    BY <1>8 DEF LibraryFails, SoftPath, ReportAgent, Report, Answered, Over, Shape, Verbal
  <2>2. Answering
    BY <1>8, <1>m, <2>1, AnsweringEffect, UnderWay
  <2>3. Keeps({"at", "err"})
    BY <2>2 DEF Answering, Returns
  <2>4. cmd.verb = "refresh"
    BY <2>3, SameTarget
  <2> QED
    BY <1>r, <2>1, <2>4
<1>9. CASE ChooseTarget
  <2>1. /\ cmd.at = "index" /\ cmd.verb = "refresh"
        /\ cmd'.done = cmd.done /\ cmd'.met = cmd.met
        /\ cmd'.target \in {"catalog", "models.dev", "all"}
        /\ \/ cmd'.target = "models.dev" /\ cmd'.at = "models.dev"
           \/ cmd'.target # "models.dev" /\ cmd'.at = "catalog"
    BY <1>9, <1>m, ChooseTargetEffect DEF Keeps, CmdFields
  <2>2. Unbegun
    BY <2>1 DEF Refreshing
  <2>3. Underway'
    BY <2>1, <2>2 DEF Unbegun, Underway, Asked, Current
  <2> QED
    BY <2>1, <2>3 DEF Over
<1>10. CASE RefreshCatalog
  <2>1. /\ cmd.at = "catalog" /\ cmd'.target = cmd.target /\ cmd'.dir = cmd.dir
        /\ cmd'.met = cmd.met /\ cmd'.verb = cmd.verb
        /\ cmd'.done = (IF cmd.dir THEN {} ELSE {"catalog"})
        /\ \/ cmd.target = "all" /\ cmd'.at = "models.dev"
           \/ cmd.target # "all" /\ cmd'.at = "refreshed"
    BY <1>10, <1>m, RefreshCatalogEffect DEF Keeps, CmdFields
  <2>2. cmd.target \in {"catalog", "all"} /\ cmd.met = ""
    BY <2>1 DEF Refreshing, Underway
  <2>3. Underway'
    BY <2>1, <2>2 DEF Underway, Asked, Current
  <2> QED
    BY <2>1, <2>3 DEF Over
<1>11. CASE RefreshModels
  <2>1. /\ cmd.at = "models.dev" /\ cmd'.target = cmd.target /\ cmd'.dir = cmd.dir
        /\ cmd'.met = cmd.met /\ cmd'.verb = cmd.verb
        /\ cmd'.done = cmd.done \cup {"models.dev"} /\ cmd'.at = "refreshed"
    BY <1>11, <1>m, RefreshModelsEffect DEF Keeps, CmdFields
  <2>2. /\ cmd.target \in {"models.dev", "all"} /\ cmd.met = ""
        /\ cmd.done = Asked \ (Current \cup {"models.dev"})
    BY <2>1 DEF Refreshing, Underway
  <2>3. Underway'
    BY <2>1, <2>2 DEF Underway, Asked, Current
  <2> QED
    BY <2>1, <2>3 DEF Over
<1>12. CASE RefreshFails
  <2>1. /\ cmd.at \in {"catalog", "models.dev"} /\ cmd'.at = "returned"
        /\ cmd'.done = cmd.done /\ cmd'.verb = cmd.verb /\ cmd'.met \in RefreshErrors
        /\ out'.code # codeOK /\ out'.shown = out.shown
    BY <1>12, <1>m, RefreshFailsEffect DEF Keeps, CmdFields, Faulty
  <2>2. out.shown = {}
    BY <2>1, UnderWay DEF Over
  <2>3. cmd.at = "catalog" => cmd.done = {}
    BY <2>1 DEF Refreshing, Underway
  <2>4. cmd.at = "models.dev" => "models.dev" \notin cmd.done
    BY <2>1 DEF Refreshing, Underway
  <2>5. Settled'
    BY <2>1, <2>2, <2>3, <2>4, RefreshErrorsAt DEF Settled
  <2> QED
    BY <2>1, <2>5 DEF Underway
<1>13. CASE Refreshed
  <2>1. cmd.at = "refreshed" /\ ~ Over
    BY <1>13 DEF Refreshed, Over
  <2>2. Returns(cmd.done, {}) /\ cmd'.err = "none"
    BY <1>13, <2>1, RefreshedEffect, UnderWay
  <2>3. /\ Keeps({"at", "err"}) /\ cmd'.at = "returned"
        /\ out'.code = codeOK /\ out'.shown = cmd.done
    BY <2>2 DEF Returns
  <2>4. cmd'.verb = cmd.verb /\ cmd'.done = cmd.done /\ Asked' = Asked /\ Current' = Current
    BY <2>3, SameTarget
  <2>5. Asked # {} /\ cmd.done = Asked \ Current
    BY <2>1, <2>4 DEF Refreshing, Underway
  <2>6. Settled'
    BY <2>3, <2>4, <2>5 DEF Settled
  <2> QED
    BY <2>3, <2>6 DEF Underway
<1>14. CASE Execute
  <2>1. /\ cmd.at = "returned" /\ cmd'.at = "exited" /\ Keeps({"at", "args"})
        /\ out'.shown = out.shown /\ out'.code = out.code
    BY <1>14, <1>m, ExecuteEffect
  <2>2. /\ cmd'.verb = cmd.verb /\ cmd'.done = cmd.done /\ cmd'.met = cmd.met
        /\ Asked' = Asked /\ Current' = Current
    BY <2>1, SameTarget
  <2>3. Settled
    BY <2>1, <2>2 DEF Refreshing, Over
  <2>4. Settled'
    BY <2>1, <2>2, <2>3 DEF Settled
  <2> QED
    BY <2>1, <2>4 DEF Underway
<1>15. CASE UNCHANGED vars
  <2>1. cmd' = cmd /\ out' = out
    BY <1>15 DEF vars
  <2> QED
    BY <2>1 DEF Refreshing, Unbegun, Underway, Settled, Over, Asked, Current
<1> QED
  BY <1>2, <1>3, <1>4, <1>5, <1>6, <1>7, <1>8, <1>9, <1>10, <1>11, <1>12, <1>13, <1>14, <1>15
     DEF Next, Refusing

\* RefreshIsWhole is what Settled says of an exit.
LEMMA RefreshingImplies == Refreshing => RefreshIsWhole
  BY DEF Refreshing, RefreshIsWhole, Settled, Asked, Current, ModelsFaults, Over, Exited

-----------------------------------------------------------------------------
(* Third layer: --json. What the two ways to read the flags make of them,  *)
(* by induction over the arguments.                                        *)

\* The arguments of a process.
Arguments == UNION {[1 .. m -> Tokens] : m \in Nat}

\* The arguments of the model are such sequences.
LEMMA ArgumentParts ==
    \A args \in Arguments : args \in Seq(Tokens) /\ Len(args) \in Nat /\ DOMAIN args = 1 .. Len(args)
<1> SUFFICES ASSUME NEW m \in Nat, NEW args \in [1 .. m -> Tokens]
             PROVE  args \in Seq(Tokens) /\ Len(args) \in Nat /\ DOMAIN args = 1 .. Len(args)
  BY DEF Arguments
<1> QED
  OBVIOUS

\* The first n of a sequence.
LEMMA FirstParts ==
    ASSUME NEW T, NEW seq \in Seq(T), NEW n \in 0 .. Len(seq)
    PROVE  /\ SubSeq(seq, 1, n) \in [1 .. n -> T] /\ Len(SubSeq(seq, 1, n)) = n
           /\ \A j \in 1 .. n : SubSeq(seq, 1, n)[j] = seq[j]
<1> DEFINE first == SubSeq(seq, 1, n)
<1>1. n \in Int /\ 1 \in Int /\ \A i \in 1 .. n : seq[i] \in T
  OBVIOUS
<1>2. /\ first \in Seq(T) /\ Len(first) = IF 1 <= n THEN n - 1 + 1 ELSE 0
      /\ \A i \in 1 .. n - 1 + 1 : first[i] = seq[1 + i - 1]
  BY <1>1, SubSeqProperties
<1> HIDE DEF first
<1>3. n - 1 + 1 = n /\ Len(first) = n
  BY <1>1, <1>2
<1>4. first \in [1 .. n -> T]
  BY <1>2, <1>3
<1>5. ASSUME NEW j \in 1 .. n PROVE first[j] = seq[j]
  <2>1. 1 + j - 1 = j
    OBVIOUS
  <2> QED
    BY <1>2, <1>3, <2>1
<1> QED
  BY <1>3, <1>4, <1>5 DEF first

\* What Until keeps: what is before the first of the stops.
LEMMA UntilParts ==
    ASSUME NEW args \in Arguments, NEW stops
    PROVE  \E n \in 0 .. Len(args) :
               /\ Until(args, stops) \in [1 .. n -> Tokens] /\ Len(Until(args, stops)) = n
               /\ \A j \in 1 .. n : Until(args, stops)[j] = args[j] /\ args[j] \notin stops
               /\ n = Len(args) \/ args[n + 1] \in stops
<1> DEFINE I == {i \in 1 .. Len(args) : args[i] \in stops}
           i == SelectInSeq(args, LAMBDA t : t \in stops)
           kept == Until(args, stops)
<1>a. args \in Seq(Tokens) /\ Len(args) \in Nat /\ DOMAIN args = 1 .. Len(args)
  BY ArgumentParts
<1>1. i = IF I # {} THEN Min(I) ELSE 0
  BY DEF SelectInSeq
<1>2. kept = IF i = 0 THEN args ELSE SubSeq(args, 1, i - 1)
  BY DEF Until
<1>3. CASE I = {}
  <2>1. kept = args
    BY <1>1, <1>2, <1>3
  <2>2. \A j \in 1 .. Len(args) : args[j] \notin stops
    BY <1>3
  <2>3. args \in [1 .. Len(args) -> Tokens] /\ Len(args) \in 0 .. Len(args)
    BY <1>a
  <2> QED
    BY <2>1, <2>2, <2>3
<1>4. CASE I # {}
  <2>1. i = Min(I)
    BY <1>1, <1>4
  <2>2. I \in SUBSET Nat
    BY <1>a
  <2> HIDE DEF i
  <2>3. i \in I /\ \A j \in I : i =< j
    <3> HIDE DEF I
    <3>1. \E k \in I : \A j \in I : k =< j
      BY <1>4, <2>2, LeastNumber
    <3> QED
      BY <2>1, <3>1 DEF Min
  <2>4. i \in 1 .. Len(args) /\ args[i] \in stops
    BY <2>3
  <2>5. \A j \in 1 .. i - 1 : args[j] \notin stops
    BY <2>3, <2>4, <1>a
  <2> HIDE DEF I, kept
  <2>6. kept = SubSeq(args, 1, i - 1)
    BY <1>2, <2>4
  <2> DEFINE n == i - 1
  <2>7. n \in 0 .. Len(args) /\ n + 1 = i
    BY <2>4, <1>a
  <2>8. /\ SubSeq(args, 1, n) \in [1 .. n -> Tokens] /\ Len(SubSeq(args, 1, n)) = n
        /\ \A j \in 1 .. n : SubSeq(args, 1, n)[j] = args[j]
    BY <2>7, <1>a, FirstParts
  <2> QED
    BY <2>4, <2>5, <2>6, <2>7, <2>8 DEF kept
<1> QED
  BY <1>3, <1>4

\* The flags pflag reads are the first of those before "--", all of them if it
\* refuses none.
LEMMA BoundParts ==
    ASSUME NEW args \in Arguments
    PROVE  \E n, k \in Nat :
               /\ Until(args, {"--"}) \in [1 .. n -> Tokens]
               /\ Bound(args) \in [1 .. k -> Tokens] /\ k =< n
               /\ \A j \in 1 .. k : Bound(args)[j] = Until(args, {"--"})[j]
               /\ ~ FlagError(args) => Bound(args) = Until(args, {"--"})
<1> DEFINE U == Until(args, {"--"})
           stops == {"--", "--bad", "--json=bad"}
           B == Until(args, stops)
<1>a. Len(args) \in Nat
  BY ArgumentParts
<1>b. Bound(args) = B
  BY DEF Bound
<1>1. PICK n \in 0 .. Len(args) :
          /\ U \in [1 .. n -> Tokens] /\ Len(U) = n
          /\ \A j \in 1 .. n : U[j] = args[j] /\ args[j] \notin {"--"}
          /\ n = Len(args) \/ args[n + 1] \in {"--"}
  BY UntilParts
<1>2. PICK k \in 0 .. Len(args) :
          /\ B \in [1 .. k -> Tokens] /\ Len(B) = k
          /\ \A j \in 1 .. k : B[j] = args[j] /\ args[j] \notin stops
          /\ k = Len(args) \/ args[k + 1] \in stops
  BY UntilParts
<1> HIDE DEF U, B
<1>3. k =< n
  <2> SUFFICES ASSUME n < k PROVE FALSE
    BY <1>a, <1>1, <1>2
  <2>1. n + 1 \in 1 .. k /\ args[n + 1] \in {"--"}
    BY <1>a, <1>1, <1>2
  <2> QED
    BY <1>2, <2>1
<1>4. \A j \in 1 .. k : B[j] = U[j]
  BY <1>a, <1>1, <1>2, <1>3
<1>5. ~ FlagError(args) => B = U
  <2> SUFFICES ASSUME ~ FlagError(args) PROVE B = U
    OBVIOUS
  <2>1. ~ (k < n)
    BY <1>1, <1>2, <1>b DEF FlagError, U
  <2>2. k = n
    BY <1>a, <1>1, <1>2, <1>3, <2>1
  <2> QED
    BY <1>1, <1>2, <1>4, <2>2
<1>6. n \in Nat /\ k \in Nat
  BY <1>a, <1>1, <1>2
<1> QED
  BY <1>1, <1>2, <1>3, <1>4, <1>5, <1>6, <1>b DEF U

\* The two folds.
ReadsOut(f, seq, n) ==
    f = [s \in SUBSET (1 .. n) |->
            IF s = {} THEN FALSE
            ELSE IF seq[Max(s)] \in Flags THEN seq[Max(s)] = "--json" ELSE f[Prior(s)]]
ReadsWant(f, seq, n) ==
    f = [s \in SUBSET (1 .. n) |->
            IF s = {} THEN FALSE
            ELSE CASE seq[Max(s)] \in {"--json", "--json=bad"} -> TRUE
                   [] seq[Max(s)] = "--json=false" -> FALSE
                   [] OTHER -> f[Prior(s)]]

\* The two reads are such folds, over what is bound and over what is there.
LEMMA jsonOutIsFold ==
    ASSUME NEW args, NEW n, DOMAIN Bound(args) = 1 .. n
    PROVE  jsonOut(args) = (CHOOSE f : ReadsOut(f, Bound(args), n))[1 .. n]
<1> DEFINE B == Bound(args)
<1> HIDE DEF B
<1>1. DOMAIN B = 1 .. n
  BY DEF B
<1>2. jsonOut(args) = FoldLeft(LAMBDA v, t : IF t \in Flags THEN t = "--json" ELSE v, FALSE, B)
  BY DEF jsonOut, B
<1> QED
  BY <1>1, <1>2 DEF FoldLeft, MapThenFoldSet, ReadsOut, Prior, B

\* The second of them.
LEMMA argsWantJSONIsFold ==
    ASSUME NEW args, NEW n, DOMAIN Until(args, {"--"}) = 1 .. n
    PROVE  argsWantJSON(args) = (CHOOSE f : ReadsWant(f, Until(args, {"--"}), n))[1 .. n]
  BY DEF argsWantJSON, FoldLeft, MapThenFoldSet, ReadsWant, Prior

\* There are such folds.
LEMMA ReadsOutExists ==
    ASSUME NEW n \in Nat, NEW seq \in [1 .. n -> Tokens]
    PROVE  \E f : ReadsOut(f, seq, n)
<1> DEFINE Step(v, t) == IF t \in Flags THEN t = "--json" ELSE v
           step == [p \in BOOLEAN \X Tokens |-> Step(p[1], p[2])]
<1>1. \A v \in BOOLEAN : \A t : Step(v, t) \in BOOLEAN
  OBVIOUS
<1>s. \A v, t : Step(v, t) = IF t \in Flags THEN t = "--json" ELSE v
  OBVIOUS
<1> HIDE DEF Step
<1>2. \A v \in BOOLEAN, t \in Tokens : step[<<v, t>>] = Step(v, t)
  OBVIOUS
<1>3. FALSE \in BOOLEAN /\ step \in [BOOLEAN \X Tokens -> BOOLEAN]
  BY <1>1
<1> HIDE DEF step
<1>4. PICK f : FoldsTo(f, FALSE, step, seq, n)
  BY FoldExists
<1>5. \A s \in SUBSET (1 .. n) : f[s] \in BOOLEAN
  BY <1>3, <1>4, FoldStays
<1>6. ASSUME NEW s \in SUBSET (1 .. n), s # {}
      PROVE  step[<<f[Prior(s)], seq[Max(s)]>>] = Step(f[Prior(s)], seq[Max(s)])
  <2>1. Max(s) \in s /\ Prior(s) \in SUBSET (1 .. n)
    BY <1>6, MaxUpTo DEF Prior
  <2>2. f[Prior(s)] \in BOOLEAN /\ seq[Max(s)] \in Tokens
    BY <1>5, <2>1
  <2> QED
    BY <1>2, <2>2
<1>7. f = [s \in SUBSET (1 .. n) |-> IF s = {} THEN FALSE ELSE Step(f[Prior(s)], seq[Max(s)])]
  BY <1>4, <1>6 DEF FoldsTo
<1>8. ReadsOut(f, seq, n)
  BY <1>7 DEF ReadsOut, Step
<1> QED
  BY <1>8

\* And of the second read.
LEMMA ReadsWantExists ==
    ASSUME NEW n \in Nat, NEW seq \in [1 .. n -> Tokens]
    PROVE  \E f : ReadsWant(f, seq, n)
<1> DEFINE Step(v, t) == CASE t \in {"--json", "--json=bad"} -> TRUE
                           [] t = "--json=false" -> FALSE
                           [] OTHER -> v
           step == [p \in BOOLEAN \X Tokens |-> Step(p[1], p[2])]
<1>1. \A v \in BOOLEAN : \A t : Step(v, t) \in BOOLEAN
  OBVIOUS
<1> HIDE DEF Step
<1>2. \A v \in BOOLEAN, t \in Tokens : step[<<v, t>>] = Step(v, t)
  OBVIOUS
<1>3. FALSE \in BOOLEAN /\ step \in [BOOLEAN \X Tokens -> BOOLEAN]
  BY <1>1
<1> HIDE DEF step
<1>4. PICK f : FoldsTo(f, FALSE, step, seq, n)
  BY FoldExists
<1>5. \A s \in SUBSET (1 .. n) : f[s] \in BOOLEAN
  BY <1>3, <1>4, FoldStays
<1>6. ASSUME NEW s \in SUBSET (1 .. n), s # {}
      PROVE  step[<<f[Prior(s)], seq[Max(s)]>>] = Step(f[Prior(s)], seq[Max(s)])
  <2>1. Max(s) \in s /\ Prior(s) \in SUBSET (1 .. n)
    BY <1>6, MaxUpTo DEF Prior
  <2>2. f[Prior(s)] \in BOOLEAN /\ seq[Max(s)] \in Tokens
    BY <1>5, <2>1
  <2> QED
    BY <1>2, <2>2
<1>7. f = [s \in SUBSET (1 .. n) |-> IF s = {} THEN FALSE ELSE Step(f[Prior(s)], seq[Max(s)])]
  BY <1>4, <1>6 DEF FoldsTo
<1>8. ReadsWant(f, seq, n)
  BY <1>7 DEF ReadsWant, Step
<1> QED
  BY <1>8

\* Where no flag asks for JSON, none is read; where none asks for text, it is
\* read if there is one.
LEMMA ReadsOutHas ==
    ASSUME NEW n \in Nat, NEW seq \in [1 .. n -> Tokens], NEW f, ReadsOut(f, seq, n)
    PROVE  /\ (\A i \in 1 .. n : seq[i] # "--json") => ~ f[1 .. n]
           /\ (\A i \in 1 .. n : seq[i] # "--json=false") /\ (\E i \in 1 .. n : seq[i] = "--json")
                  => f[1 .. n]
<1> DEFINE Off == {s \in SUBSET (1 .. n) : ~ f[s]}
           On == {s \in SUBSET (1 .. n) : (\E i \in s : seq[i] = "--json") => f[s]}
<1>0. ~ f[{}]
  BY DEF ReadsOut
<1>f. ASSUME NEW s \in SUBSET (1 .. n), s # {}
      PROVE  f[s] = IF seq[Max(s)] \in Flags THEN seq[Max(s)] = "--json" ELSE f[Prior(s)]
  BY <1>f DEF ReadsOut
<1>1. ASSUME \A i \in 1 .. n : seq[i] # "--json" PROVE ~ f[1 .. n]
  <2>1. {} \in Off
    BY <1>0
  <2>2. ASSUME NEW s \in SUBSET (1 .. n), s # {}, Max(s) \in s, Prior(s) \in Off PROVE s \in Off
    BY <1>1, <1>f, <2>2
  <2>3. \A s \in SUBSET (1 .. n) : s \in Off
    <3> HIDE DEF Off
    <3> QED
      BY <2>1, <2>2, FoldInduction
  <2> QED
    BY <2>3
<1>2. ASSUME \A i \in 1 .. n : seq[i] # "--json=false", \E i \in 1 .. n : seq[i] = "--json"
      PROVE  f[1 .. n]
  <2>1. {} \in On
    OBVIOUS
  <2>2. ASSUME NEW s \in SUBSET (1 .. n), s # {}, Max(s) \in s, Prior(s) \in On PROVE s \in On
    <3> SUFFICES ASSUME NEW i \in s, seq[i] = "--json" PROVE f[s]
      OBVIOUS
    <3>1. CASE seq[Max(s)] \in Flags
      BY <1>2, <1>f, <2>2, <3>1 DEF Flags
    <3>2. CASE seq[Max(s)] \notin Flags
      <4>1. i # Max(s)
        BY <3>2 DEF Flags
      <4>2. f[Prior(s)]
        BY <2>2, <4>1 DEF Prior
      <4> QED
        BY <1>f, <2>2, <3>2, <4>2
    <3> QED
      BY <3>1, <3>2
  <2>3. \A s \in SUBSET (1 .. n) : s \in On
    <3> HIDE DEF On
    <3> QED
      BY <2>1, <2>2, FoldInduction
  <2> QED
    BY <1>2, <2>3
<1> QED
  BY <1>1, <1>2

\* The same of the second read, to which a refused value says yes.
LEMMA ReadsWantHas ==
    ASSUME NEW n \in Nat, NEW seq \in [1 .. n -> Tokens], NEW f, ReadsWant(f, seq, n)
    PROVE  /\ (\A i \in 1 .. n : seq[i] \notin {"--json", "--json=bad"}) => ~ f[1 .. n]
           /\ (\A i \in 1 .. n : seq[i] # "--json=false") /\ (\E i \in 1 .. n : seq[i] = "--json")
                  => f[1 .. n]
<1> DEFINE Off == {s \in SUBSET (1 .. n) : ~ f[s]}
           On == {s \in SUBSET (1 .. n) : (\E i \in s : seq[i] = "--json") => f[s]}
<1>0. ~ f[{}]
  BY DEF ReadsWant
<1>f. ASSUME NEW s \in SUBSET (1 .. n), s # {}
      PROVE  f[s] = CASE seq[Max(s)] \in {"--json", "--json=bad"} -> TRUE
                      [] seq[Max(s)] = "--json=false" -> FALSE
                      [] OTHER -> f[Prior(s)]
  BY <1>f DEF ReadsWant
<1>1. ASSUME \A i \in 1 .. n : seq[i] \notin {"--json", "--json=bad"} PROVE ~ f[1 .. n]
  <2>1. {} \in Off
    BY <1>0
  <2>2. ASSUME NEW s \in SUBSET (1 .. n), s # {}, Max(s) \in s, Prior(s) \in Off PROVE s \in Off
    BY <1>1, <1>f, <2>2
  <2>3. \A s \in SUBSET (1 .. n) : s \in Off
    <3> HIDE DEF Off
    <3> QED
      BY <2>1, <2>2, FoldInduction
  <2> QED
    BY <2>3
<1>2. ASSUME \A i \in 1 .. n : seq[i] # "--json=false", \E i \in 1 .. n : seq[i] = "--json"
      PROVE  f[1 .. n]
  <2>1. {} \in On
    OBVIOUS
  <2>2. ASSUME NEW s \in SUBSET (1 .. n), s # {}, Max(s) \in s, Prior(s) \in On PROVE s \in On
    <3> SUFFICES ASSUME NEW i \in s, seq[i] = "--json" PROVE f[s]
      OBVIOUS
    <3>1. CASE seq[Max(s)] \in {"--json", "--json=bad"}
      BY <1>f, <2>2, <3>1
    <3>2. CASE seq[Max(s)] \notin {"--json", "--json=bad"}
      <4>1. i # Max(s)
        BY <3>2
      <4>2. f[Prior(s)]
        BY <2>2, <4>1 DEF Prior
      <4> QED
        BY <1>2, <1>f, <2>2, <3>2, <4>2
    <3> QED
      BY <3>1, <3>2
  <2>3. \A s \in SUBSET (1 .. n) : s \in On
    <3> HIDE DEF On
    <3> QED
      BY <2>1, <2>2, FoldInduction
  <2> QED
    BY <1>2, <2>3
<1> QED
  BY <1>1, <1>2

\* So a process that wants JSON gets it, and one that wants text does not,
\* whether pflag read all the flags or argsWantJSON looks for the rest.
LEMMA WantedIsRead ==
    ASSUME NEW args \in Arguments
    PROVE  /\ Wanted(args) = "json" => jsonRequested(args) /\ (~ FlagError(args) => jsonOut(args))
           /\ Wanted(args) = "text" => ~ jsonRequested(args) /\ (~ FlagError(args) => ~ jsonOut(args))
<1> DEFINE U == Until(args, {"--"})
           B == Bound(args)
<1>1. PICK n \in Nat, k \in Nat :
          /\ U \in [1 .. n -> Tokens] /\ B \in [1 .. k -> Tokens] /\ k =< n
          /\ \A j \in 1 .. k : B[j] = U[j]
          /\ ~ FlagError(args) => B = U
  BY BoundParts
<1>2. PICK f : ReadsOut(f, B, k) /\ jsonOut(args) = f[1 .. k]
  <2>1. PICK h : h = CHOOSE g : ReadsOut(g, B, k)
    OBVIOUS
  <2>2. ReadsOut(h, B, k)
    BY <1>1, <2>1, ReadsOutExists
  <2>3. DOMAIN B = 1 .. k
    BY <1>1
  <2>4. jsonOut(args) = h[1 .. k]
    BY <2>1, <2>3, jsonOutIsFold
  <2> QED
    BY <2>2, <2>4
<1>3. PICK g : ReadsWant(g, U, n) /\ argsWantJSON(args) = g[1 .. n]
  <2>1. PICK h : h = CHOOSE w : ReadsWant(w, U, n)
    OBVIOUS
  <2>2. ReadsWant(h, U, n)
    BY <1>1, <2>1, ReadsWantExists
  <2>3. DOMAIN U = 1 .. n
    BY <1>1
  <2>4. argsWantJSON(args) = h[1 .. n]
    BY <2>1, <2>3, argsWantJSONIsFold
  <2> QED
    BY <2>2, <2>4
<1>4. /\ (\A i \in 1 .. k : B[i] # "--json") => ~ jsonOut(args)
      /\ (\A i \in 1 .. k : B[i] # "--json=false") /\ (\E i \in 1 .. k : B[i] = "--json")
            => jsonOut(args)
  BY <1>1, <1>2, ReadsOutHas
<1>5. /\ (\A i \in 1 .. n : U[i] \notin {"--json", "--json=bad"}) => ~ argsWantJSON(args)
      /\ (\A i \in 1 .. n : U[i] # "--json=false") /\ (\E i \in 1 .. n : U[i] = "--json")
            => argsWantJSON(args)
  BY <1>1, <1>3, ReadsWantHas
<1>6. /\ ToSet(U) = {U[i] : i \in 1 .. n} /\ ToSet(B) = {B[i] : i \in 1 .. k}
  BY <1>1 DEF ToSet
<1> DEFINE said == ToSet(U) \cap (Flags \cup {"--json=bad"})
<1>7. Wanted(args) = IF said = {"--json"} THEN "json"
                     ELSE IF said \subseteq {"--json=false"} THEN "text" ELSE "mixed"
  BY DEF Wanted
<1>8. jsonRequested(args) = IF ToSet(B) \cap Flags # {} THEN jsonOut(args) ELSE argsWantJSON(args)
  BY DEF jsonRequested
<1> HIDE DEF U, B
\* What is bound is among what is there.
<1>9. \A i \in 1 .. k : B[i] = U[i] /\ i \in 1 .. n
  BY <1>1
<1>10. CASE Wanted(args) = "json"
  <2>1. said = {"--json"}
    BY <1>7, <1>10
  <2>2. /\ \A i \in 1 .. n : U[i] # "--json=false"
        /\ \E i \in 1 .. n : U[i] = "--json"
    BY <1>6, <2>1 DEF Flags
  <2>3. argsWantJSON(args)
    BY <1>5, <2>2
  <2>4. \A i \in 1 .. k : B[i] # "--json=false"
    BY <1>9, <2>2
  <2>5. (\E i \in 1 .. k : B[i] = "--json") => jsonOut(args)
    BY <1>4, <2>4
  <2>6. ToSet(B) \cap Flags # {} => \E i \in 1 .. k : B[i] = "--json"
    BY <1>6, <2>4 DEF Flags
  <2>7. ~ FlagError(args) => \E i \in 1 .. k : B[i] = "--json"
    <3> SUFFICES ASSUME ~ FlagError(args) PROVE \E i \in 1 .. k : B[i] = "--json"
      OBVIOUS
    <3>1. B = U
      BY <1>1
    <3>2. "--json" \in ToSet(B)
      BY <1>6, <2>2, <3>1
    <3> QED
      BY <1>6, <3>2
  <2> QED
    BY <1>8, <1>10, <2>3, <2>5, <2>6, <2>7
<1>11. CASE Wanted(args) = "text"
  <2>1. said \subseteq {"--json=false"}
    BY <1>7, <1>11
  <2>2. \A i \in 1 .. n : U[i] \notin {"--json", "--json=bad"}
    BY <1>6, <2>1 DEF Flags
  <2>3. ~ argsWantJSON(args)
    BY <1>5, <2>2
  <2>4. \A i \in 1 .. k : B[i] # "--json"
    BY <1>9, <2>2
  <2>5. ~ jsonOut(args)
    BY <1>4, <2>4
  <2> QED
    BY <1>8, <1>11, <2>3, <2>5
<1> QED
  BY <1>10, <1>11

\* A kind of output that is as it was asked for.
AsWanted(json) == (cmd.want = "json" => json) /\ (cmd.want = "text" => ~ json)
Heard == /\ cmd.want = "json" => out.stdout = <<"envelope">>
         /\ cmd.want = "text" => out.stdout # <<"envelope">>

\* From the flags to what is written: a.jsonOut is as asked for from preRun on,
\* what cobra refused waits with its arguments to be rendered, and whatever has
\* been rendered is as asked for.
Asking ==
    /\ cmd.at = "parse" => cmd.args \in Arguments
    /\ cmd.at # "parse" /\ ~ Over => AsWanted(cmd.json)
    /\ cmd.at = "returned" /\ cmd.err = "cobra" =>
          cmd.args \in Arguments /\ cmd.want = Wanted(cmd.args)
    /\ Over /\ ~ (cmd.at = "returned" /\ cmd.err = "cobra") => Heard

\* The arguments are unread at first.
LEMMA AskingInit == Init => Asking
<1> SUFFICES ASSUME Init PROVE Asking
  OBVIOUS
<1>1. cmd.args \in Arguments
  <2>1. cmd.args \in UNION {[1 .. m -> Tokens] : m \in 0 .. MaxTokens}
    BY CommandParts DEF SeqOf
  <2>2. PICK m \in 0 .. MaxTokens : cmd.args \in [1 .. m -> Tokens]
    BY <2>1
  <2>3. m \in Nat
    BY MaxTokensAssumption
  <2> QED
    BY <2>2, <2>3 DEF Arguments
<1> QED
  BY <1>1, CommandParts DEF Asking, Over

\* A step under way that leaves a.jsonOut and what is asked for.
LEMMA AskingMoves ==
    ASSUME Asking, cmd.at # "parse", ~ Over, NEW F, Keeps(F), F \cap {"want", "json"} = {},
           cmd'.at \notin {"parse", "returned", "exited"}
    PROVE  Asking'
<1>1. cmd'.want = cmd.want /\ cmd'.json = cmd.json
  BY DEF Keeps, CmdFields
<1> QED
  BY <1>1 DEF Asking, AsWanted, Over

\* A step that shows its document.
LEMMA AskingReturns ==
    ASSUME Asking, cmd.at # "parse", ~ Over, out.stdout = <<>>,
           NEW F, Keeps(F), F \cap {"want", "json"} = {},
           cmd'.at = "returned", cmd'.err # "cobra",
           cmd.json => out'.stdout = Append(out.stdout, "envelope"),
           ~ cmd.json => out'.stdout \in {out.stdout, Append(out.stdout, "text")}
    PROVE  Asking'
<1>1. cmd'.want = cmd.want
  BY DEF Keeps, CmdFields
<1>2. <<>> # <<"envelope">> /\ <<"text">> # <<"envelope">>
  OBVIOUS
<1>3. AsWanted(cmd.json)
  BY DEF Asking
<1>4. Heard'
  BY <1>1, <1>2, <1>3, Documents DEF AsWanted, Heard
<1> QED
  BY <1>1, <1>4 DEF Asking, Over

\* Every step keeps what was asked and what was written agreed.
LEMMA AskingStep == Shape /\ Asking /\ [Next]_vars => Asking'
<1> SUFFICES ASSUME Shape, Asking, [Next]_vars PROVE Asking'
  OBVIOUS
<1>m. IsCmd(cmd) /\ IsOut(out)
  BY DEF Shape
<1>n. <<>> # <<"envelope">>
  OBVIOUS
<1>1. CASE CobraFails
  <2>1. /\ cmd.at = "parse" /\ Keeps({"at", "err", "want"}) /\ cmd'.at = "returned"
        /\ cmd'.err = "cobra" /\ cmd'.want = Wanted(cmd.args)
    BY <1>1, <1>m, CobraFailsEffect
  <2>2. cmd'.args = cmd.args
    BY <2>1 DEF Keeps, CmdFields
  <2> QED
    BY <2>1, <2>2 DEF Asking, Over
<1>2. CASE Parsed
  <2>1. /\ cmd.at = "parse" /\ ~ FlagError(cmd.args) /\ cmd'.at \in {"misused", "preRun"}
        /\ cmd'.want = Wanted(cmd.args) /\ cmd'.json = jsonOut(cmd.args)
    BY <1>2, <1>m, ParsedEffect
  <2>2. cmd.args \in Arguments
    BY <2>1 DEF Asking
  <2>3. AsWanted(cmd.json)'
    BY <2>1, <2>2, WantedIsRead DEF AsWanted
  <2> QED
    BY <2>1, <2>3 DEF Asking, Over
<1>3. CASE Refusing
  <2>1. cmd.at \in {"misused", "preRun", "index"} /\ ~ Over
    BY <1>3 DEF Over, Refusing, Misused, BadColor, ConfigFails, BadBinPath, BadTarget
  <2>2. Returns({}, {}) /\ out.stdout = <<>>
    BY <1>3, <2>1, RefusingEffect, UnderWay
  <2> QED
    BY <2>1, <2>2, AskingReturns DEF Returns
<1>4. CASE Version \/ Refreshed
  <2>1. ~ Over /\ cmd.at \in {"version", "refreshed"}
    BY <1>4 DEF Version, Refreshed, Over
  <2>2. (Returns({}, {}) \/ Returns(cmd.done, {})) /\ out.stdout = <<>>
    BY <1>4, <2>1, VersionEffect, RefreshedEffect, UnderWay
  <2> QED
    BY <2>1, <2>2, AskingReturns DEF Returns
<1>5. CASE LibraryFails \/ SoftPath \/ ReportAgent \/ Report
  <2>1. ~ Over /\ cmd.verb \in Browsing /\ cmd.fields \subseteq Fields /\ cmd.at = "library"
    BY <1>5 DEF LibraryFails, SoftPath, ReportAgent, Report, Answered, Over, Shape, Verbal
  <2>2. Answering /\ out.stdout = <<>>
    BY <1>5, <1>m, <2>1, AnsweringEffect, UnderWay
  <2>3. PICK shown, warned : Returns(shown, warned)
    BY <2>2 DEF Answering
  <2> QED
    BY <2>1, <2>2, <2>3, AskingReturns DEF Returns
<1>6. CASE RefreshFails
  <2>1. ~ Over /\ cmd.at \in {"catalog", "models.dev"}
    BY <1>6 DEF RefreshFails, Over
  <2>2. /\ Keeps({"at", "err", "met"}) /\ cmd'.at = "returned" /\ cmd'.err = "exitError"
        /\ cmd.json => out'.stdout = Append(out.stdout, "envelope")
        /\ ~ cmd.json => out'.stdout = out.stdout
        /\ out.stdout = <<>>
    BY <1>6, <1>m, <2>1, RefreshFailsEffect, UnderWay
  <2> QED
    BY <2>1, <2>2, AskingReturns
<1>7. CASE LoadConfig
  <2>1. /\ cmd.at = "preRun" /\ Keeps({"at", "config"})
        /\ cmd'.at \in {"misused", "version", "index"}
    BY <1>7, <1>m, LoadConfigEffect
  <2> QED
    BY <2>1, AskingMoves DEF Over
<1>8. CASE Call
  <2>1. PICK q : Calls(q)
    BY <1>8, <1>m, CallEffect
  <2>2. /\ cmd.at = "index" /\ Keeps({"at", "fields", "models", "order"})
        /\ cmd'.at = "library"
    BY <2>1 DEF Calls
  <2> QED
    BY <2>2, AskingMoves DEF Over
<1>9. CASE ChooseTarget
  <2>1. /\ cmd.at = "index" /\ Keeps({"at", "target", "dir"})
        /\ cmd'.at \in {"models.dev", "catalog"}
    BY <1>9, <1>m, ChooseTargetEffect
  <2> QED
    BY <2>1, AskingMoves DEF Over
<1>10. CASE RefreshCatalog \/ RefreshModels
  <2>1. /\ cmd.at \in {"catalog", "models.dev"} /\ Keeps({"at", "done"})
        /\ cmd'.at \in {"models.dev", "refreshed"}
    BY <1>10, <1>m, RefreshCatalogEffect, RefreshModelsEffect
  <2> QED
    BY <2>1, AskingMoves DEF Over
<1>11. CASE Execute
  <2>1. /\ cmd.at = "returned" /\ cmd'.at = "exited"
        /\ cmd'.want = cmd.want /\ cmd'.err = cmd.err
        /\ \/ /\ cmd.err = "cobra" /\ jsonRequested(cmd.args)
              /\ out'.stdout = Append(out.stdout, "envelope")
           \/ /\ ~ (cmd.err = "cobra" /\ jsonRequested(cmd.args))
              /\ out'.stdout = out.stdout
    BY <1>11, <1>m, ExecuteEffect DEF Keeps, CmdFields
  <2>2. CASE cmd.err = "cobra"
    <3>1. /\ out.stdout = <<>> /\ cmd.args \in Arguments /\ cmd.want = Wanted(cmd.args)
      BY <2>1, <2>2 DEF Shape, Asking
    <3>2. /\ cmd.want = "json" => jsonRequested(cmd.args)
          /\ cmd.want = "text" => ~ jsonRequested(cmd.args)
      BY <3>1, WantedIsRead
    <3>3. Heard'
      BY <1>n, <2>1, <2>2, <3>1, <3>2, Documents DEF Heard
    <3> QED
      BY <2>1, <3>3 DEF Asking, Over
  <2>3. CASE cmd.err # "cobra"
    <3>1. Heard /\ out'.stdout = out.stdout
      BY <2>1, <2>3 DEF Asking, Over
    <3>2. Heard'
      BY <2>1, <3>1 DEF Heard
    <3> QED
      BY <2>1, <3>2 DEF Asking, Over
  <2> QED
    BY <2>2, <2>3
<1>12. CASE LibraryStep \/ UNCHANGED vars
  <2>1. cmd' = cmd /\ out' = out
    BY <1>12 DEF LibraryStep, vars
  <2> QED
    BY <2>1 DEF Asking, AsWanted, Heard, Over
<1> QED
  BY <1>1, <1>2, <1>3, <1>4, <1>5, <1>6, <1>7, <1>8, <1>9, <1>10, <1>11, <1>12
     DEF Next, Refusing

\* JsonAsAsked is what the layer says of an exit.
LEMMA AskingImplies == Shape /\ Asking => JsonAsAsked
<1> SUFFICES ASSUME Shape, Asking, Exited PROVE Heard /\ ("envelope" \in ToSet(out.stdout) => out.stdout = <<"envelope">>)
  BY DEF JsonAsAsked, Heard
<1>1. Heard
  BY DEF Asking, Over, Exited
<1>2. out.stdout = <<>> \/ out.stdout = <<"envelope">> \/ out.stdout = <<"text">>
  BY DEF Shape
<1>3. "envelope" \in ToSet(out.stdout) => out.stdout = <<"envelope">>
  BY <1>2, DocumentParts
<1> QED
  BY <1>1, <1>3

-----------------------------------------------------------------------------
(* The library's invariants, as they stand in ServicesProofs, for the runs *)
(* of a command. Its operators there are these of Cli under another name.  *)

LP == INSTANCE ServicesProofs WITH Ops <- Browsing

\* What Cli assumes is what the library's proofs assume.
LEMMA LibraryConstants == LP!ConstantsAssumption
  BY LibraryAssumption
     DEF Library!ConstantsAssumption, LP!ConstantsAssumption, Library!Operations, LP!Operations,
         Library!Memos, LP!Memos, Library!IsFiniteSet, LP!IsFiniteSet

\* Its client replies alike under both names.
LEMMA SameReplies == Library!Replies = LP!Replies
  BY DEF Library!Replies, LP!Replies, Library!Memos, LP!Memos

\* A step of the library here is a step of it there.
LEMMA LibraryProgress == Library!Progress => LP!Progress
<1> USE SameReplies DEF Library!Agnostic, LP!Agnostic, Library!AtLeast, LP!AtLeast,
   Library!Levels, LP!Levels, Library!Caller, LP!Caller, Library!dedupeIDs, LP!dedupeIDs,
   Library!Return, LP!Return, Library!Warn, LP!Warn, Library!FaultWarning, LP!FaultWarning,
   Library!mapModelsErr, LP!mapModelsErr, Library!NeedsCatalog, LP!NeedsCatalog,
   Library!CatalogErrors, LP!CatalogErrors, Library!Extra, LP!Extra, Library!Resolved,
   LP!Resolved, Library!Verdict, LP!Verdict, Library!Validating, LP!Validating,
   Library!Validated, LP!Validated, Library!ReadFault, LP!ReadFault, Library!Inapplicable,
   LP!Inapplicable, Library!Row, LP!Row, Library!ResolvedRow, LP!ResolvedRow,
   Library!DegradedRow, LP!DegradedRow, Library!DegradeListing, LP!DegradeListing,
   Library!FoldLeft, LP!FoldLeft, Library!MapThenFoldSet, LP!MapThenFoldSet, Library!Max,
   LP!Max, Library!ToSet, LP!ToSet, Library!SetToSeq, LP!SetToSeq, Library!IsInjective,
   LP!IsInjective, Library!Cardinality, LP!Cardinality
<1>1. Library!CatalogFails => LP!CatalogFails
  BY DEF Library!CatalogFails, LP!CatalogFails
<1>2. Library!CatalogResolved => LP!CatalogResolved
  BY DEF Library!CatalogResolved, LP!CatalogResolved
<1>3. Library!AgentUnknown => LP!AgentUnknown
  BY DEF Library!AgentUnknown, LP!AgentUnknown
<1>4. Library!ProvidersNotAllowed => LP!ProvidersNotAllowed
  BY DEF Library!ProvidersNotAllowed, LP!ProvidersNotAllowed
<1>5. Library!ValidateForAgent => LP!ValidateForAgent
  BY DEF Library!ValidateForAgent, LP!ValidateForAgent
<1>6. Library!ValidateForListing => LP!ValidateForListing
  BY DEF Library!ValidateForListing, LP!ValidateForListing
<1>7. Library!ValidateForModels => LP!ValidateForModels
  BY DEF Library!ValidateForModels, LP!ValidateForModels
<1>8. Library!GetAgent => LP!GetAgent
  BY DEF Library!GetAgent, LP!GetAgent
<1>9. Library!ProbeCoverage => LP!ProbeCoverage
  BY DEF Library!ProbeCoverage, LP!ProbeCoverage
<1>10. Library!ListAgents => LP!ListAgents
  BY DEF Library!ListAgents, LP!ListAgents
<1>11. Library!ProbeListing => LP!ProbeListing
  BY DEF Library!ProbeListing, LP!ProbeListing
<1>12. Library!Detect => LP!Detect
  BY DEF Library!Detect, LP!Detect
<1>13. Library!RowsDone => LP!RowsDone
  BY DEF Library!RowsDone, LP!RowsDone
<1>14. Library!ScopeToProviders => LP!ScopeToProviders
  BY DEF Library!ScopeToProviders, LP!ScopeToProviders
<1>15. Library!ScopeToAll => LP!ScopeToAll
  BY DEF Library!ScopeToAll, LP!ScopeToAll
<1>16. Library!ScopeToAgent => LP!ScopeToAgent
  BY DEF Library!ScopeToAgent, LP!ScopeToAgent
<1>17. Library!ListModels => LP!ListModels
  BY DEF Library!ListModels, LP!ListModels
<1>18. Library!MalformedModelID => LP!MalformedModelID
  BY DEF Library!MalformedModelID, LP!MalformedModelID
<1>19. Library!GetOne => LP!GetOne
  BY DEF Library!GetOne, LP!GetOne
<1>20. Library!ListProviders => LP!ListProviders
  BY DEF Library!ListProviders, LP!ListProviders
<1>21. Library!Finish => LP!Finish
  BY DEF Library!Finish, LP!Finish
<1>22. ASSUME NEW a PROVE Library!EnrichRow(a) => LP!EnrichRow(a)
  BY DEF Library!EnrichRow, LP!EnrichRow
<1> HIDE DEF Library!Agnostic, LP!Agnostic, Library!AtLeast, LP!AtLeast, Library!Levels,
   LP!Levels, Library!Caller, LP!Caller, Library!dedupeIDs, LP!dedupeIDs, Library!Return,
   LP!Return, Library!Warn, LP!Warn, Library!FaultWarning, LP!FaultWarning,
   Library!mapModelsErr, LP!mapModelsErr, Library!NeedsCatalog, LP!NeedsCatalog,
   Library!CatalogErrors, LP!CatalogErrors, Library!Extra, LP!Extra, Library!Resolved,
   LP!Resolved, Library!Verdict, LP!Verdict, Library!Validating, LP!Validating,
   Library!Validated, LP!Validated, Library!ReadFault, LP!ReadFault, Library!Inapplicable,
   LP!Inapplicable, Library!Row, LP!Row, Library!ResolvedRow, LP!ResolvedRow,
   Library!DegradedRow, LP!DegradedRow, Library!DegradeListing, LP!DegradeListing,
   Library!FoldLeft, LP!FoldLeft, Library!MapThenFoldSet, LP!MapThenFoldSet, Library!Max,
   LP!Max, Library!ToSet, LP!ToSet, Library!SetToSeq, LP!SetToSeq, Library!IsInjective,
   LP!IsInjective, Library!Cardinality, LP!Cardinality
<1> QED
  BY <1>1, <1>2, <1>3, <1>4, <1>5, <1>6, <1>7, <1>8, <1>9, <1>10, <1>11, <1>12, <1>13, <1>14,
     <1>15, <1>16, <1>17, <1>18, <1>19, <1>20, <1>21, <1>22 DEF Library!Progress, LP!Progress

\* Its queries, and the run each begins, are alike under both names.
LEMMA SameQueries == Library!Queries = LP!Queries
  BY DEF Library!Queries, LP!Queries, Library!Levels, LP!Levels, Library!ToSet, LP!ToSet

\* So is what makes a query sensible.
LEMMA SameSensible == ASSUME NEW q PROVE Library!Sensible(q) <=> LP!Sensible(q)
  BY DEF Library!Sensible, LP!Sensible

\* And the run it begins.
LEMMA SameNewRun == ASSUME NEW q, NEW ready PROVE Library!NewRun(q, ready) = LP!NewRun(q, ready)
  BY DEF Library!NewRun, LP!NewRun

\* What a command's call begins is an operation of the library.
LEMMA LibraryBegins == ASSUME NEW q, Calls(q), run.at = "done" PROVE LP!Begin /\ run'.query = q
<1>1. q \in LP!Queries /\ LP!Sensible(q)
  BY SameQueries, SameSensible DEF Calls
<1>2. run' = LP!NewRun(q, memo # None) /\ memo' = memo
  BY SameNewRun DEF Calls
<1>3. LP!BeginWith(q)
  BY <1>2 DEF LP!BeginWith
<1>4. run'.query = q
  BY <1>2 DEF LP!NewRun
<1> QED
  BY <1>1, <1>3, <1>4 DEF LP!Begin

-----------------------------------------------------------------------------
(* Fourth layer: what the library is asked, what it answers, and what the  *)
(* command makes of it.                                                    *)

Sound == LP!Types /\ LP!Stations /\ LP!Earned /\ LP!Answers

\* A step of the library keeps its invariant: ServicesProofs says so.
LEMMA SoundStep == Sound /\ LP!Progress => Sound'
<1> SUFFICES ASSUME Sound, LP!Progress PROVE Sound'
  OBVIOUS
<1>0. LP!ConstantsAssumption
  BY LibraryConstants
<1>1. [LP!Next]_(LP!vars)
  BY DEF LP!Next
<1>2. LP!Types /\ LP!Stations /\ LP!Earned /\ LP!Answers
  BY DEF Sound
<1>3. LP!Types'
  BY <1>0, <1>1, <1>2, LP!TypesStep
<1>4. LP!Stations'
  BY <1>0, <1>1, <1>2, LP!StationsStep
<1>5. LP!Earned'
  BY <1>0, <1>1, <1>2, LP!EarnedStep
<1>6. LP!Answers'
  BY <1>0, <1>2, LP!AnswersStep
<1> QED
  BY <1>3, <1>4, <1>5, <1>6 DEF Sound

\* What the command asked of the library is what its flags say.
Lent ==
    /\ Sound /\ run.query.op = cmd.verb /\ cmd.verb \in Browsing
    /\ cmd.verb = "agentsGet" => run.query.enrich = agentGetLevel(cmd.models, cmd.fields)

\* The command ended without the library: no code speaks for it.
Untouched == run = Idle /\ memo = None
Unlent ==
    /\ Untouched
    /\ out.code = codeOK => cmd.verb # "agentsGet"
    /\ out.code = codeTransient => cmd.met \in Unavailable
    /\ out.code # codeNotFound

\* Or it made this of the answer.
SelectedWrongly == BadSelection /\ out.code = codeUsage
FailedAs == run.err # "" /\ out.code = codeFor(run.err)
Softened ==
    /\ run.err = "" /\ cmd.verb = "agentsGet" /\ run.state = "notApplicable"
    /\ out.code \in {codeOK, codeUsage}
    /\ out.code = codeOK => ~ namedProviderField(cmd)
Reported ==
    /\ run.err = "" /\ cmd.verb = "agentsGet" /\ run.state # "notApplicable"
    /\ \/ run.coverage \in {"nonePresent", "schema"} /\ out.code = codeConfig
       \/ /\ run.coverage \notin {"nonePresent", "schema"} /\ out.code = codeOK
          /\ cmd.fields # {} => out.shown = cmd.fields
          /\ out.warned = run.warned
Browsed == run.err = "" /\ cmd.verb # "agentsGet" /\ out.code = codeOK
Made == SelectedWrongly \/ FailedAs \/ Softened \/ Reported \/ Browsed

Loan ==
    /\ cmd.at \notin {"library", "returned", "exited"} => Untouched
    /\ cmd.at = "library" => Lent
    /\ Over => Unlent \/ (Lent /\ run.at = "done" /\ Made)

\* The library has not been called at first.
LEMMA LoanInit == Init => Loan
<1> SUFFICES ASSUME Init PROVE Loan
  OBVIOUS
<1>1. cmd.at = "parse" /\ run = Idle /\ memo = None
  BY CommandParts DEF Init
<1> QED
  BY <1>1 DEF Loan, Untouched, Over

\* How the four ways to return set the exit code.
LEMMA okCode ==
    ASSUME IsOut(out), NEW shown, NEW warned, ok(shown, warned)
    PROVE  out'.code = out.code /\ out'.shown = shown /\ out'.warned = warned
  BY DEF ok, IsOut, OutFields

\* An error has the code it is given.
LEMMA failCode ==
    ASSUME IsOut(out), NEW code, NEW warned, fail(code, warned)
    PROVE  out'.code = code
  BY DEF fail, IsOut, OutFields

\* So have data with a fault.
LEMMA failDataCode ==
    ASSUME IsOut(out), NEW code, NEW shown, NEW warned, failData(code, shown, warned)
    PROVE  out'.code = code
  BY DEF failData, IsOut, OutFields

\* A usage error has its own.
LEMMA usageCode == ASSUME IsOut(out), usage PROVE out'.code = codeUsage
  BY failCode DEF usage

\* The codes that are told apart differ.
LEMMA CodesApart ==
    /\ codeOK \notin {codeFailure, codeUsage, codeNotFound, codePermission, codeTransient, codeConfig}
    /\ codeTransient \notin {codeFailure, codeUsage, codeNotFound, codePermission, codeConfig}
    /\ codeNotFound \notin {codeFailure, codeUsage, codePermission, codeConfig}
    /\ codeConfig \notin {codeFailure, codeUsage, codePermission}
    /\ codeUsage # codeFailure
  BY DEF codeOK, codeFailure, codeUsage, codeNotFound, codePermission, codeTransient, codeConfig

\* Which errors of the library each code can come from.
LEMMA codeForParts ==
    ASSUME NEW e
    PROVE  /\ codeFor(e) # codeOK
           /\ codeFor(e) = codeTransient => e \in Unavailable
           /\ codeFor(e) = codeNotFound => e \in {"agentUnknown", "notFound"}
           /\ codeFor(e) = codeConfig => e \in {"catalogInvalid", "modelsSchema"}
           /\ codeFor(e) = codeUsage => e \in {"unknownProvider", "providersRequired",
                                               "providersNotAllowed", "malformedModelID"}
<1>1. CASE e \in {"catalogInvalid", "modelsSchema"}
  <2>1. codeFor(e) = codeConfig
    BY <1>1 DEF codeFor
  <2> QED
    BY <1>1, <2>1, CodesApart
<1>2. CASE e \in Unavailable
  <2>1. codeFor(e) = codeTransient
    BY <1>2 DEF codeFor, Unavailable
  <2> QED
    BY <1>2, <2>1, CodesApart
<1>3. CASE e \in {"agentUnknown", "notFound"}
  <2>1. codeFor(e) = codeNotFound
    BY <1>3 DEF codeFor
  <2> QED
    BY <1>3, <2>1, CodesApart
<1>4. CASE e \in {"unknownProvider", "providersRequired", "providersNotAllowed", "malformedModelID"}
  <2>1. codeFor(e) = codeUsage
    BY <1>4 DEF codeFor
  <2> QED
    BY <1>4, <2>1, CodesApart
<1>5. CASE e \notin {"catalogInvalid", "modelsSchema", "agentUnknown", "notFound", "unknownProvider",
                     "providersRequired", "providersNotAllowed", "malformedModelID"} \cup Unavailable
  <2>1. codeFor(e) = codeFailure
    BY <1>5 DEF codeFor, Unavailable
  <2> QED
    BY <2>1, CodesApart
<1> QED
  BY <1>1, <1>2, <1>3, <1>4, <1>5

\* What is made of an answer, by the step that makes it.
LEMMA AnswerIsMade ==
    ASSUME IsCmd(cmd), IsOut(out), out.code = codeOK,
           LibraryFails \/ SoftPath \/ ReportAgent \/ Report,
           run' = run, cmd'.verb = cmd.verb, cmd'.fields = cmd.fields, cmd'.models = cmd.models,
           cmd'.order = cmd.order, cmd.verb \in Browsing
    PROVE  Made'
<1>b. BadSelection' <=> BadSelection
  BY DEF BadSelection, KnownFields
<1>1. CASE LibraryFails
  <2>1. run.err # "" /\ out'.code = codeFor(run.err)
    <3> DEFINE code == codeFor(run.err)
    <3> HIDE DEF code
    <3>1. fail(code, run.warned) /\ run.err # ""
      BY <1>1 DEF LibraryFails, code
    <3>2. out'.code = code
      BY <3>1, failCode
    <3> QED
      BY <3>1, <3>2 DEF code
  <2>2. codeFor(run.err)' = codeFor(run.err)
    BY DEF codeFor
  <2> QED
    BY <2>1, <2>2 DEF Made, FailedAs
<1>2. CASE SoftPath
  <2>1. /\ run.err = "" /\ cmd.verb = "agentsGet" /\ run.state = "notApplicable"
        /\ IF namedProviderField(cmd) THEN fail(codeUsage, run.warned) ELSE ok({"id"}, run.warned)
    BY <1>2 DEF SoftPath
  <2>2. namedProviderField(cmd)' <=> namedProviderField(cmd)
    BY DEF namedProviderField
  <2>3. CASE namedProviderField(cmd)
    <3>1. out'.code = codeUsage
      BY <2>1, <2>3, failCode
    <3> QED
      BY <2>1, <3>1, CodesApart DEF Made, Softened
  <2>4. CASE ~ namedProviderField(cmd)
    <3>1. out'.code = codeOK
      BY <2>1, <2>4, okCode
    <3> QED
      BY <2>1, <2>2, <2>4, <3>1 DEF Made, Softened
  <2> QED
    BY <2>3, <2>4
<1>3. CASE ReportAgent
  <2> DEFINE shown == Shown(cmd.fields, AgentFields)
  <2>1. cmd.fields # {} => shown = cmd.fields
    BY DEF Shown
  <2>2. /\ run.err = "" /\ cmd.verb = "agentsGet" /\ run.state # "notApplicable"
        /\ IF ~ KnownFields THEN usage
           ELSE IF run.coverage \in {"nonePresent", "schema"}
           THEN failData(codeConfig, shown, run.warned)
           ELSE ok(shown, run.warned)
    BY <1>3 DEF ReportAgent
  <2> HIDE DEF shown
  <2>3. CASE ~ KnownFields
    <3>1. out'.code = codeUsage
      BY <2>2, <2>3, usageCode
    <3> QED
      BY <1>b, <2>3, <3>1 DEF Made, SelectedWrongly, BadSelection
  <2>4. CASE KnownFields /\ run.coverage \in {"nonePresent", "schema"}
    <3>1. out'.code = codeConfig
      BY <2>2, <2>4, failDataCode
    <3> QED
      BY <2>2, <2>4, <3>1 DEF Made, Reported
  <2>5. CASE KnownFields /\ run.coverage \notin {"nonePresent", "schema"}
    <3>1. out'.code = codeOK /\ out'.shown = shown /\ out'.warned = run.warned
      BY <2>2, <2>5, okCode
    <3> QED
      BY <2>1, <2>2, <2>5, <3>1 DEF Made, Reported
  <2> QED
    BY <2>3, <2>4, <2>5
<1>4. CASE Report
  <2> DEFINE shown == Shown(cmd.fields, Carried[Nouns[cmd.verb]])
  <2>1. /\ run.err = "" /\ cmd.verb # "agentsGet"
        /\ IF cmd.order = "bogus" \/ ~ KnownFields THEN usage ELSE ok(shown, run.warned)
    BY <1>4 DEF Report
  <2> HIDE DEF shown
  <2>2. CASE cmd.order = "bogus" \/ ~ KnownFields
    <3>1. out'.code = codeUsage
      BY <2>1, <2>2, usageCode
    <3> QED
      BY <1>b, <2>2, <3>1 DEF Made, SelectedWrongly, BadSelection
  <2>3. CASE ~ (cmd.order = "bogus" \/ ~ KnownFields)
    <3>1. out'.code = codeOK
      BY <2>1, <2>3, okCode
    <3> QED
      BY <2>1, <3>1 DEF Made, Browsed
  <2> QED
    BY <2>2, <2>3
<1> QED
  BY <1>1, <1>2, <1>3, <1>4

\* What is known of the library stays as the command goes on without it.
LEMMA SoundStays == ASSUME Sound, memo' = memo, run' = run PROVE Sound'
<1>1. LP!Types'
  BY DEF Sound, LP!Types, LP!IsRun
<1>2. LP!Stations'
  BY DEF Sound, LP!Stations, LP!Ended
<1>3. LP!Earned'
  BY DEF Sound, LP!Earned
<1>4. LP!Answers'
  BY ZenonT(60) DEF Sound, LP!Answers, LP!Faulted, LP!Given, LP!Getting, LP!Named, LP!Outcome,
         LP!Covered, LP!FaultWarned
<1> QED
  BY <1>1, <1>2, <1>3, <1>4 DEF Sound

\* So does what the command asked of it.
LEMMA LentStays ==
    ASSUME Lent, memo' = memo, run' = run, cmd'.verb = cmd.verb, cmd'.models = cmd.models,
           cmd'.fields = cmd.fields
    PROVE  Lent'
  BY SoundStays DEF Lent, agentGetLevel

\* And what it made of the answer.
LEMMA MadeStays ==
    ASSUME Made, run' = run, cmd'.verb = cmd.verb, cmd'.models = cmd.models,
           cmd'.fields = cmd.fields, cmd'.order = cmd.order,
           out'.code = out.code, out'.shown = out.shown, out'.warned = out.warned
    PROVE  Made'
<1>1. BadSelection' <=> BadSelection
  BY DEF BadSelection, KnownFields
<1>2. namedProviderField(cmd)' <=> namedProviderField(cmd)
  BY DEF namedProviderField
<1>3. codeFor(run.err)' = codeFor(run.err)
  BY DEF codeFor
<1> QED
  BY <1>1, <1>2, <1>3 DEF Made, SelectedWrongly, FailedAs, Softened, Reported, Browsed

\* The places before the library is called, and those of a refresh.
LEMMA StillUntouched ==
    ASSUME Loan, cmd.at \notin {"library", "returned", "exited"}, memo' = memo, run' = run,
           cmd'.at \notin {"library", "returned", "exited"}
    PROVE  Loan'
  BY DEF Loan, Untouched, Over

\* A return from one of them, with a code that speaks for itself.
LEMMA EndsUntouched ==
    ASSUME Loan, cmd.at \notin {"library", "returned", "exited"}, memo' = memo, run' = run,
           cmd'.at = "returned",
           out'.code = codeOK => cmd'.verb # "agentsGet",
           out'.code = codeTransient => cmd'.met \in Unavailable,
           out'.code # codeNotFound
    PROVE  Loan'
  BY DEF Loan, Untouched, Unlent, Over

\* Every step keeps the loan: the library's own, and what uses its answer.
LEMMA LoanStep == Shape /\ Passed /\ Loan /\ [Next]_vars => Loan'
<1> SUFFICES ASSUME Shape, Passed, Loan, [Next]_vars PROVE Loan'
  OBVIOUS
<1>m. IsCmd(cmd) /\ IsOut(out)
  BY DEF Shape
<1>1. CASE CobraFails
  <2>1. /\ cmd.at = "parse" /\ memo' = memo /\ run' = run /\ cmd'.at = "returned"
        /\ out'.code = codeUsage
    BY <1>1, <1>m, CobraFailsEffect
  <2> QED
    BY <2>1, CodesApart, EndsUntouched
<1>2. CASE Parsed \/ LoadConfig \/ ChooseTarget \/ RefreshCatalog \/ RefreshModels
  <2>1. /\ cmd.at \notin {"library", "returned", "exited"} /\ memo' = memo /\ run' = run
        /\ cmd'.at \notin {"library", "returned", "exited"}
    BY <1>2, <1>m, ParsedEffect, LoadConfigEffect, ChooseTargetEffect, RefreshCatalogEffect,
       RefreshModelsEffect
  <2> QED
    BY <2>1, StillUntouched
<1>3. CASE Misused \/ BadColor \/ ConfigFails \/ BadBinPath \/ BadTarget
  <2>1. cmd.at \in {"misused", "preRun", "index"} /\ ~ Over
    BY <1>3 DEF Misused, BadColor, ConfigFails, BadBinPath, BadTarget, Over
  <2>2. memo' = memo /\ run' = run /\ cmd'.at = "returned"
    BY <1>3, <1>m, <2>1, RefusingEffect, UnderWay DEF Refusing, Returns
  <2>3. out'.code \in {codeUsage, codeConfig, codePermission, codeFailure}
    <3>1. CASE ConfigFails
      <4> DEFINE code == codeForConfig(cmd.config)
      <4>1. code \in {codeConfig, codePermission, codeFailure}
        BY DEF codeForConfig
      <4> HIDE DEF code
      <4>2. fail(code, {})
        BY <3>1 DEF ConfigFails, code
      <4> QED
        BY <1>m, <4>1, <4>2, failCode
    <3>2. CASE Misused \/ BadColor \/ BadBinPath \/ BadTarget
      <4>1. usage
        BY <3>2 DEF Misused, BadColor, BadBinPath, BadTarget
      <4> QED
        BY <1>m, <4>1, usageCode
    <3> QED
      BY <1>3, <3>1, <3>2
  <2> QED
    BY <2>1, <2>2, <2>3, CodesApart, EndsUntouched
<1>4. CASE Version \/ Refreshed
  <2>1. cmd.at \in {"version", "refreshed"} /\ ~ Over
    BY <1>4 DEF Version, Refreshed, Over
  <2>2. /\ memo' = memo /\ run' = run /\ cmd'.at = "returned" /\ cmd'.verb = cmd.verb
        /\ cmd'.err = "none"
    BY <1>4, <1>m, <2>1, VersionEffect, RefreshedEffect, UnderWay DEF Returns, Keeps, CmdFields
  <2>3. out'.code = codeOK
    BY <1>4, <1>m, <2>1, VersionEffect, RefreshedEffect, UnderWay DEF Returns
  <2>4. cmd.verb # "agentsGet"
    BY <2>1 DEF Shape, Verbal
  <2> QED
    BY <2>1, <2>2, <2>3, <2>4, CodesApart, EndsUntouched
<1>5. CASE RefreshFails
  <2>1. /\ cmd.at \in {"catalog", "models.dev"} /\ memo' = memo /\ run' = run
        /\ cmd'.at = "returned" /\ cmd'.met \in RefreshErrors
    BY <1>5, <1>m, RefreshFailsEffect
  <2>2. out'.code = codeFor(cmd'.met)
    <3>1. PICK e \in RefreshErrors :
              /\ out' = [out EXCEPT !.stdout = IF cmd.json THEN Append(@, "envelope") ELSE @,
                                    !.code = codeFor(e)]
              /\ cmd' = [Returned(cmd, "exitError") EXCEPT !.met = e]
      BY <1>5 DEF RefreshFails
    <3>2. cmd'.met = e
      BY <1>m, <3>1 DEF Returned, IsCmd, CmdFields
    <3> DEFINE code == codeFor(e)
    <3>3. out' = [out EXCEPT !.stdout = IF cmd.json THEN Append(@, "envelope") ELSE @,
                             !.code = code]
      BY <3>1
    <3> HIDE DEF code
    <3>4. out'.code = code
      BY <1>m, <3>3 DEF IsOut, OutFields
    <3> QED
      BY <3>2, <3>4 DEF code
  <2>3. cmd'.met \notin {"agentUnknown", "notFound"}
    BY <2>1 DEF RefreshErrors, Library!CatalogErrors
  <2> QED
    BY <2>1, <2>2, <2>3, codeForParts, EndsUntouched
<1>6. CASE Call
  <2>1. PICK q : Calls(q)
    BY <1>6, <1>m, CallEffect
  <2>2. /\ cmd.at = "index" /\ cmd'.at = "library" /\ cmd'.verb = cmd.verb
        /\ cmd.verb \in Browsing /\ q.op = cmd.verb
        /\ cmd.verb = "agentsGet" => q.enrich = agentGetLevel(cmd'.models, cmd'.fields)
    BY <2>1 DEF Calls, Keeps, CmdFields
  <2>3. run.at = "done" /\ memo = None
    BY <2>2, IdleParts DEF Loan, Untouched
  <2>4. LP!Begin /\ run'.query = q
    BY <2>1, <2>3, LibraryBegins
  <2>5. Sound'
    <3>1. memo \in LP!Memos \cup {None}
      BY <2>3
    <3>2. LP!Types' /\ LP!Stations' /\ LP!Earned' /\ LP!Answers'
      BY <2>4, <3>1, LibraryConstants, LP!BegunIsSound
    <3> QED
      BY <3>2 DEF Sound
  <2>6. agentGetLevel(cmd.models, cmd.fields)' = agentGetLevel(cmd'.models, cmd'.fields)
    BY DEF agentGetLevel
  <2>7. Lent'
    BY <2>2, <2>4, <2>5, <2>6 DEF Lent
  <2> QED
    BY <2>2, <2>7 DEF Loan, Over
<1>7. CASE LibraryStep
  <2>1. cmd' = cmd /\ cmd.at = "library" /\ Library!Progress
    BY <1>7 DEF LibraryStep
  <2>2. LP!Progress
    BY <2>1, LibraryProgress
  <2>3. Lent
    BY <2>1 DEF Loan
  <2>4. Sound'
    BY <2>2, <2>3, SoundStep DEF Lent
  <2>5. run'.query = run.query
    <3>1. LP!Types /\ [LP!Next]_(LP!vars) /\ ~ LP!Begin
      <4>1. run.at # "done"
        BY <2>2, LibraryConstants, LP!ProgressIsUndone
      <4> QED
        BY <2>2, <2>3, <4>1 DEF Lent, Sound, LP!Next, LP!Begin
    <3> QED
      BY <3>1, LibraryConstants, LP!QueryKept
  <2>6. Lent'
    BY <2>1, <2>3, <2>4, <2>5 DEF Lent, agentGetLevel
  <2> QED
    BY <2>1, <2>6 DEF Loan, Over
<1>8. CASE LibraryFails \/ SoftPath \/ ReportAgent \/ Report
  <2>1. ~ Over /\ cmd.at = "library" /\ cmd.verb \in Browsing /\ cmd.fields \subseteq Fields
        /\ run.at = "done"
    BY <1>8 DEF LibraryFails, SoftPath, ReportAgent, Report, Answered, Over, Shape, Verbal
  <2>2. Answering
    BY <1>8, <1>m, <2>1, AnsweringEffect, UnderWay
  <2>3. /\ memo' = memo /\ run' = run /\ cmd'.at = "returned" /\ cmd'.verb = cmd.verb
        /\ cmd'.fields = cmd.fields /\ cmd'.models = cmd.models /\ cmd'.order = cmd.order
    BY <2>2 DEF Answering, Returns, Keeps, CmdFields
  <2>4. Made'
    BY <1>8, <1>m, <2>1, <2>3, AnswerIsMade, UnderWay
  <2>5. Lent'
    BY <2>1, <2>3, LentStays DEF Loan
  <2> QED
    BY <2>1, <2>3, <2>4, <2>5 DEF Loan
<1>9. CASE Execute
  <2>1. /\ cmd.at = "returned" /\ cmd'.at = "exited" /\ memo' = memo /\ run' = run
        /\ cmd'.verb = cmd.verb /\ cmd'.fields = cmd.fields /\ cmd'.models = cmd.models
        /\ cmd'.order = cmd.order /\ cmd'.met = cmd.met
        /\ out'.warned = out.warned /\ out'.shown = out.shown /\ out'.code = out.code
    BY <1>9, <1>m, ExecuteEffect DEF Keeps, CmdFields
  <2>2. CASE Unlent
    <3>1. Unlent'
      BY <2>1, <2>2 DEF Unlent, Untouched
    <3> QED
      BY <2>1, <3>1 DEF Loan
  <2>3. CASE Lent /\ run.at = "done" /\ Made
    <3>1. Lent' /\ Made'
      BY <2>1, <2>3, LentStays, MadeStays
    <3> QED
      BY <2>1, <2>3, <3>1 DEF Loan
  <2> QED
    BY <2>1, <2>2, <2>3 DEF Loan, Over
<1>10. CASE UNCHANGED vars
  <2>1. cmd' = cmd /\ out' = out /\ run' = run /\ memo' = memo
    BY <1>10 DEF vars
  <2>2. Lent => Lent'
    BY <2>1, LentStays
  <2>3. Made => Made'
    BY <2>1, MadeStays
  <2> QED
    BY <2>1, <2>2, <2>3 DEF Loan, Untouched, Unlent, Over
<1> QED
  BY <1>1, <1>2, <1>3, <1>4, <1>5, <1>6, <1>7, <1>8, <1>9, <1>10 DEF Next

\* Which level the fields of agents get ask for.
LEMMA LevelAsked ==
    LET level == agentGetLevel(cmd.models, cmd.fields)
    IN /\ level = "full" => cmd.models \/ "models" \in cmd.fields
       /\ level = "count" => cmd.fields = {} \/ "provider_env" \in cmd.fields
       /\ level = "providers" => "providers" \in cmd.fields
       /\ level \in {"full", "count", "providers", "none"}
       /\ "models" \in cmd.fields => level = "full"
       /\ "provider_env" \in cmd.fields => level \in {"count", "full"}
       /\ "providers" \in cmd.fields => level # "none"
  BY DEF agentGetLevel

\* How far a level reaches, of a query of the library's.
LEMMA LevelReached ==
    ASSUME LP!Types
    PROVE  /\ run.query.enrich = "full" => Library!AtLeast(run.query, "full")
           /\ Library!AtLeast(run.query, "count") <=> run.query.enrich \notin {"none", "providers"}
<1>1. run.query \in LP!Queries
  BY DEF LP!Types
<1>2. LP!AtLeast(run.query, "count") <=> run.query.enrich \notin {"none", "providers"}
  BY <1>1, LibraryConstants, LP!LevelParts
<1>3. Library!AtLeast(run.query, "count") <=> LP!AtLeast(run.query, "count")
  BY DEF Library!AtLeast, LP!AtLeast, Library!Levels, LP!Levels
<1>4. run.query.enrich = "full" => Library!AtLeast(run.query, "full")
  <2>1. Library!Levels[4] = "full"
    BY DEF Library!Levels
  <2>2. 4 \in 1 .. 4 /\ 4 =< 4
    OBVIOUS
  <2> QED
    BY <2>1, <2>2 DEF Library!AtLeast
<1> QED
  BY <1>2, <1>3, <1>4

\* The idle run has asked nothing.
LEMMA IdleQuery ==
    Idle.query.enrich = "none" /\ ~ Library!AtLeast(Idle.query, "count") /\ Idle.err = ""
<1>1. Idle.query.enrich = "none" /\ Idle.err = ""
  BY DEF Idle, Library!NewRun
<1>2. \A i, j \in 1 .. 4 : Library!Levels[i] = "count" /\ Library!Levels[j] = "none" => ~ (i =< j)
  <2>1. /\ Library!Levels[1] = "none" /\ Library!Levels[2] = "providers"
        /\ Library!Levels[3] = "count" /\ Library!Levels[4] = "full"
    BY DEF Library!Levels
  <2>2. \A i \in 1 .. 4 : i = 1 \/ i = 2 \/ i = 3 \/ i = 4
    OBVIOUS
  <2>3. \A i \in 1 .. 4 : /\ Library!Levels[i] = "count" => i = 3
                          /\ Library!Levels[i] = "none" => i = 1
    BY <2>1, <2>2
  <2> QED
    BY <2>3
<1> QED
  BY <1>1, <1>2 DEF Library!AtLeast

\* What Agents.Get has answered without an error.
LEMMA AnsweredWell ==
    ASSUME Lent, run.at = "done", cmd.verb = "agentsGet", run.err = ""
    PROVE  LP!Outcome
  BY DEF Lent, Sound, LP!Answers, LP!Getting

\* UnselectedIsNotFetched: whoever asked models.dev was called for its level,
\* and the level came from the fields.
LEMMA LoanImpliesUnselected == Passed /\ Loan => UnselectedIsNotFetched
<1> SUFFICES ASSUME Loan, Exited, cmd.verb = "agentsGet", run.asked, ~ cmd.models
             PROVE  \/ cmd.fields = {} \/ cmd.fields \cap {"models", "provider_env"} # {}
                    \/ "providers" \in cmd.fields /\ Library!Agnostic(run.query.agent)
  BY DEF UnselectedIsNotFetched
<1>1. ~ Untouched
  BY IdleParts DEF Untouched
<1>2. Lent
  BY <1>1 DEF Loan, Unlent, Over, Exited
<1>3. LP!Called(run.query)
  BY <1>2 DEF Lent, Sound, LP!Answers, LP!Getting
<1>4. run.query.enrich = agentGetLevel(cmd.models, cmd.fields)
  BY <1>2 DEF Lent
<1>5. Library!Agnostic(run.query.agent) <=> LP!Agnostic(run.query.agent)
  BY DEF Library!Agnostic, LP!Agnostic
<1> QED
  BY <1>3, <1>4, <1>5, LevelAsked DEF LP!Called

\* SelectionHonoured: an agnostic agent's soft path is not taken with fields,
\* and what is reported has, at the level the fields asked for, its data.
LEMMA LoanImpliesHonoured == Passed /\ Loan => SelectionHonoured
<1> SUFFICES ASSUME Passed, Loan, Exited, cmd.verb = "agentsGet", cmd.fields # {}, out.code = codeOK
             PROVE  /\ out.shown = cmd.fields
                    /\ FaultShown \/ /\ "models" \in cmd.fields => Filled("full")
                                     /\ "provider_env" \in cmd.fields => Filled("count")
                                     /\ "providers" \in cmd.fields => run.ids # <<>>
  BY DEF SelectionHonoured
<1>1. Lent /\ run.at = "done" /\ Made
  BY DEF Loan, Unlent, Over, Exited
<1>2. run.err = ""
  BY <1>1, codeForParts, CodesApart DEF Made, SelectedWrongly, FailedAs, Softened, Reported, Browsed
<1>3. LP!Outcome
  BY <1>1, <1>2, AnsweredWell
<1>4. run.query.enrich = agentGetLevel(cmd.models, cmd.fields)
  BY <1>1 DEF Lent
<1>5. ~ Softened
  <2> SUFFICES ASSUME Softened PROVE FALSE
    OBVIOUS
  <2>1. run.state = "notApplicable" /\ ~ namedProviderField(cmd)
    BY DEF Softened
  <2>2. run.query.enrich # "none"
    BY <1>3, <2>1 DEF LP!Outcome
  <2>3. cmd.models \/ "models" \in cmd.fields \/ "provider_env" \in cmd.fields
        \/ "providers" \in cmd.fields
    BY <1>4, <2>2, LevelAsked
  <2> QED
    BY <2>1, <2>3 DEF namedProviderField, ProviderFields
<1>6. /\ run.state # "notApplicable" /\ out.shown = cmd.fields /\ out.warned = run.warned
      /\ run.coverage \notin {"nonePresent", "schema"}
  BY <1>1, <1>2, <1>5, CodesApart DEF Made, SelectedWrongly, FailedAs, Reported, Browsed
<1>7. "providers" \in cmd.fields => run.ids # <<>>
  <2> SUFFICES ASSUME "providers" \in cmd.fields PROVE run.ids # <<>>
    OBVIOUS
  <2>1. LP!Named
    BY <1>3, <1>4, <1>6, LevelAsked DEF LP!Outcome
  <2>2. LP!ToSet(<<>>) = {}
    BY DocumentParts DEF LP!ToSet, ToSet
  <2> QED
    BY <2>1, <2>2 DEF LP!Named
<1>8. CASE FaultShown
  BY <1>6, <1>8
<1>9. CASE ~ FaultShown
  <2>1. ASSUME run.query.enrich \notin {"none", "providers"}
        PROVE  run.state = "applied" /\ run.models # {}
    <3>1. LP!Covered
      BY <1>3, <1>6, <2>1 DEF LP!Outcome
    <3>2. ~ LP!FaultWarned
      BY <1>6, <1>9 DEF LP!FaultWarned, FaultShown
    <3> QED
      BY <1>6, <3>1, <3>2 DEF LP!Covered
  <2>2. LP!Types
    BY <1>1 DEF Lent, Sound
  <2>3. "models" \in cmd.fields => Filled("full")
    BY <1>4, <2>1, <2>2, LevelAsked, LevelReached DEF Filled
  <2>4. "provider_env" \in cmd.fields => Filled("count")
    BY <1>4, <2>1, <2>2, LevelAsked, LevelReached DEF Filled
  <2> QED
    BY <1>6, <1>7, <2>3, <2>4
<1> QED
  BY <1>8, <1>9

\* ExitTellsFault, by what the command made of the answer.
LEMMA LoanImpliesTold == Passed /\ Loan => ExitTellsFault
<1> DEFINE Transient == out.code = codeTransient =>
               /\ {cmd.met, run.err} \cap Unavailable # {}
               /\ run.err = "modelsUnavailable" => memo = None /\ Nouns[cmd.verb] # "agents"
           NotFound == out.code = codeNotFound =>
               \/ run.query.agent \in Strangers
               \/ cmd.verb \in {"modelsGet", "providersGet"} /\ memo # None
           Config == (out.code = codeConfig /\ run.asked /\ memo # None) =>
               \/ (Tried \cap memo.drifted) # {}
               \/ cmd.verb = "agentsGet" /\ (Tried \cap memo.known) = {}
           Usage == (out.code = codeUsage /\ run.asked) =>
               BadSelection \/ (memo # None /\ ~ ToSet(run.query.providers) \subseteq memo.known)
           Success == (out.code = codeOK /\ cmd.verb = "agentsGet"
                          /\ Library!AtLeast(run.query, "count")) =>
               FaultShown \/ run.ids = <<>> \/ (Tried \cap memo.known) # {}
<1> SUFFICES ASSUME Passed, Loan, Exited
             PROVE  Transient /\ NotFound /\ Config /\ Usage /\ Success
  BY DEF ExitTellsFault
<1>1. CASE Unlent
  <2>1. ~ run.asked /\ ~ Library!AtLeast(run.query, "count") /\ run.err = ""
    BY <1>1, IdleParts, IdleQuery DEF Unlent, Untouched
  <2>2. out.code = codeTransient => cmd.met \in Unavailable
    BY <1>1 DEF Unlent
  <2>3. out.code # codeNotFound
    BY <1>1 DEF Unlent
  <2> QED
    BY <2>1, <2>2, <2>3
<1>2. CASE Lent /\ run.at = "done" /\ Made
  <2>1. LP!Faulted /\ LP!Earned /\ LP!Types /\ run.query.op = cmd.verb /\ cmd.verb \in Browsing
    BY <1>2 DEF Lent, Sound, LP!Answers
  <2>2. Tried = LP!ToSet(run.ids) \cup LP!Given
    BY DEF Tried, LP!Given, ToSet, LP!ToSet
  <2>3. CASE SelectedWrongly
    BY <2>3, CodesApart DEF SelectedWrongly
  <2>4. CASE FailedAs
    <3>1. out.code = codeFor(run.err) /\ out.code # codeOK
      BY <2>4, codeForParts DEF FailedAs
    <3>2. Transient
      <4>1. out.code = codeTransient => run.err \in Unavailable
        BY <3>1, codeForParts
      <4>2. run.err = "modelsUnavailable" => memo = None /\ Nouns[cmd.verb] # "agents"
        <5>1. run.err = "modelsUnavailable" =>
                  memo = None /\ cmd.verb \notin {"agentsGet", "agentsList"}
          BY <2>1 DEF LP!Faulted
        <5>2. \A v \in Browsing : Nouns[v] = "agents" => v \in {"agentsGet", "agentsList"}
          BY DEF Nouns, Browsing
        <5> QED
          BY <2>1, <5>1, <5>2
      <4> QED
        BY <4>1, <4>2
    <3>3. NotFound
      <4>1. out.code = codeNotFound => run.err \in {"agentUnknown", "notFound"}
        BY <3>1, codeForParts
      <4> QED
        BY <2>1, <4>1 DEF LP!Faulted, LP!Gets
    <3>4. Config
      <4>1. out.code = codeConfig => run.err \in {"catalogInvalid", "modelsSchema"}
        BY <3>1, codeForParts
      <4>2. run.err = "catalogInvalid" => ~ run.asked
        BY <2>1 DEF LP!Faulted, LP!RefusalErrors, LP!CatalogErrors
      <4> QED
        BY <2>1, <2>2, <4>1, <4>2 DEF LP!Faulted
    <3>5. Usage
      <4>1. out.code = codeUsage =>
                run.err \in {"unknownProvider", "providersRequired", "providersNotAllowed",
                             "malformedModelID"}
        BY <3>1, codeForParts
      <4>2. run.err \in {"providersRequired", "providersNotAllowed", "malformedModelID"} => ~ run.asked
        BY <2>1 DEF LP!Faulted, LP!RefusalErrors, LP!CatalogErrors
      <4>3. run.err = "unknownProvider" =>
                memo # None /\ ~ ToSet(run.query.providers) \subseteq memo.known
        BY <2>1 DEF LP!Earned, ToSet, LP!ToSet
      <4> QED
        BY <4>1, <4>2, <4>3
    <3> QED
      BY <3>1, <3>2, <3>3, <3>4, <3>5
  <2>5. CASE Softened
    <3>1. LP!Outcome /\ run.state = "notApplicable"
      BY <1>2, <2>5, AnsweredWell DEF Softened
    <3>2. ~ run.asked /\ run.ids = <<>>
      BY <3>1 DEF LP!Outcome
    <3> QED
      BY <2>5, <3>2, CodesApart DEF Softened
  <2>6. CASE Reported
    <3>1. LP!Outcome /\ run.state # "notApplicable"
      BY <1>2, <2>6, AnsweredWell DEF Reported
    <3>2. CASE run.coverage \in {"nonePresent", "schema"} /\ out.code = codeConfig
      <4>1. LP!Covered /\ LP!Named
        BY <3>1, <3>2 DEF LP!Outcome
      <4>2. CASE run.coverage = "schema"
        <5>1. memo # None => LP!ToSet(run.ids) \cap memo.drifted # {}
          BY <4>1, <4>2 DEF LP!Covered
        <5> QED
          BY <2>2, <3>2, <5>1, CodesApart
      <4>3. CASE run.coverage = "nonePresent"
        <5>1. LP!ToSet(run.ids) \cap memo.known = {}
          BY <4>1, <4>3 DEF LP!Covered, LP!Faults
        <5>2. Tried = LP!ToSet(run.ids)
          BY <2>2, <4>1 DEF LP!Named
        <5> QED
          BY <2>6, <3>2, <5>1, <5>2, CodesApart DEF Reported
      <4> QED
        BY <3>2, <4>2, <4>3
    <3>3. CASE /\ run.coverage \notin {"nonePresent", "schema"} /\ out.code = codeOK
               /\ out.warned = run.warned
      <4>1. Success
        <5> SUFFICES ASSUME Library!AtLeast(run.query, "count"), ~ FaultShown
                     PROVE  (Tried \cap memo.known) # {}
          OBVIOUS
        <5>1. run.query.enrich \notin {"none", "providers"}
          BY <2>1, LevelReached
        <5>2. LP!Covered
          BY <3>1, <5>1 DEF LP!Outcome
        <5>3. ~ LP!FaultWarned
          BY <3>3 DEF LP!FaultWarned, FaultShown
        <5>4. LP!ToSet(run.ids) \cap memo.known # {}
          BY <3>3, <5>2, <5>3 DEF LP!Covered
        <5> QED
          BY <2>2, <5>4
      <4> QED
        BY <3>3, <4>1, CodesApart
    <3> QED
      BY <2>6, <3>2, <3>3 DEF Reported
  <2>7. CASE Browsed
    BY <2>7, CodesApart DEF Browsed
  <2> QED
    BY <1>2, <2>3, <2>4, <2>5, <2>6, <2>7 DEF Made
<1> QED
  BY <1>1, <1>2 DEF Loan, Over, Exited

-----------------------------------------------------------------------------
(* The theorems.                                                           *)

\* TypeOK: whatever its arguments and wherever it fails, a command writes one
\* document at most, its exit code and its error agree, and it warns of nothing
\* but what the library warned of.
THEOREM TypeCorrect == Spec => []TypeOK
  BY ShapeInit, ShapeStep, ShapeImplies, PTL DEF Spec

\* WarningsReachUser: the warnings of the library's answer are shown with a
\* success, an error or data that have a fault (a.fail, a.failData and the
\* reports), unless the selection of fields or the order was a usage error.
THEOREM WarningsAlwaysReachUser == Spec => []WarningsReachUser
  BY ShapeInit, ShapeStep, ShapeImplies, PTL DEF Spec

\* JsonAsAsked: for command lines of any length, what pflag binds before it
\* stops and what argsWantJSON reads of the rest agree wherever the flags do,
\* so that an error has its envelope if JSON was asked for.
THEOREM JsonIsAlwaysAsAsked == Spec => []JsonAsAsked
  BY ShapeInit, ShapeStep, AskingInit, AskingStep, AskingImplies, PTL DEF Spec

\* RefreshIsWhole: refresh names all it was asked for, or nothing, and what it
\* had refreshed before a failure is what comes before the failure.
THEOREM RefreshIsAlwaysWhole == Spec => []RefreshIsWhole
  BY ShapeInit, ShapeStep, RefreshingInit, RefreshingStep, RefreshingImplies, PTL DEF Spec

\* UnselectedIsNotFetched: agentGetLevel asks for no level that the fields do
\* not need, and the library calls models.dev for no other reason.
THEOREM UnselectedIsNeverFetched == Spec => []UnselectedIsNotFetched
  BY ShapeInit, ShapeStep, LoanInit, LoanStep, LoanImpliesUnselected, PTL DEF Spec

\* SelectionHonoured: the level agentGetLevel asks for is enough for the
\* fields, so that a success shows each filled, or says what models.dev lacked.
THEOREM SelectionIsAlwaysHonoured == Spec => []SelectionHonoured
  BY ShapeInit, ShapeStep, LoanInit, LoanStep, LoanImpliesHonoured, PTL DEF Spec

\* ExitTellsFault: codeFor, reportAgentError and the library's answer agree on
\* what the exit code says, of every catalog and every command.
THEOREM ExitAlwaysTellsFault == Spec => []ExitTellsFault
  BY ShapeInit, ShapeStep, LoanInit, LoanStep, LoanImpliesTold, PTL DEF Spec

====
