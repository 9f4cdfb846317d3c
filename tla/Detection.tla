-------------------------------- MODULE Detection --------------------------------
(***************************************************************************)
(* Local detection of one agent (detect.go): where its binary is, and what *)
(* the directories of its catalog entry expand to. Detection reads the     *)
(* file system one stat at a time, with no lock, while installers and      *)
(* shells change it; what it is told to read comes from the configuration  *)
(* file and the flags (internal/config/options.go, options.go, core.go).   *)
(*                                                                         *)
(* A path is the sequence of its segments: "/" first when it is absolute,  *)
(* "~" or "$V" first when the catalog leaves it to expand, <<>> the empty  *)
(* string. A file is "absent", "inert" (not executable, or a directory),   *)
(* "foreign" (executable for somebody else only) or "exec".                *)
(***************************************************************************)
EXTENDS Integers, SequencesExt

CONSTANTS
    Segments,    \* what a path is made of
    Agent,       \* the id of the agent detected
    Catalogued,  \* the ids of the catalog
    Worlds,      \* what a call may find: configuration, flags, environment, files
    MaxChanges   \* bound on the changes of the file system during the call

Kinds == {"absent", "inert", "foreign", "exec"}
Paths == Seq(Segments)

\* No segment of a path is left to expand.
Expanded(p) == ToSet(p) \cap {"~", "$V"} = {}

\* What is left to expand is in front; a variable holds no variable.
IsWorld(w) ==
    /\ w.fileBins \in [DOMAIN w.fileBins -> Paths]
    /\ w.flagBins \in Seq([id : STRING, path : Paths])
    /\ {w.fileDirs, w.flagDirs, w.path} \subseteq Seq(Paths)
    /\ w.slots \in Seq([local : BOOLEAN, role : STRING, raw : Paths])
    /\ {w.home, w.wd, w.var} \subseteq Paths /\ Expanded(w.home) /\ Expanded(w.wd)
    /\ w.var # <<>> => w.var[1] # "$V" /\ Expanded(Tail(w.var))
    /\ \A slot \in ToSet(w.slots) : slot.raw # <<>> => Expanded(Tail(slot.raw))
    /\ w.disk \in [DOMAIN w.disk -> Kinds]

ASSUME ConstantsAssumption ==
    /\ MaxChanges \in Nat
    /\ {"/", "~", "$V", "bin"} \subseteq Segments
    /\ \A w \in Worlds : IsWorld(w)

VARIABLES
    world,    \* the inputs of the call, fixed when it begins
    disk,     \* what each path of interest is now
    had,      \* history: what each has been since the call began
    changes,  \* how often the file system has changed
    core,     \* what newCore captured: overrides, search directories
    pc,       \* the step of the call
    i,        \* the position in the list being walked
    hit,      \* what LookPath returned
    binary,   \* Detection.BinaryPath, empty when not Found
    entries,  \* the directories resolved so far, with their existence
    primary,  \* the Primary of the skills scope, by projectLocal
    warned    \* the ids of the unknown-override warning

vars == <<world, disk, had, changes, core, pc, i, hit, binary, entries, primary, warned>>

Nowhere == [path |-> <<>>, exists |-> FALSE]

IsAbs(p) == p # <<>> /\ Head(p) = "/"
KindOf(p) == IF p \in DOMAIN disk THEN disk[p] ELSE "absent"
isExecutable(p) == KindOf(p) \in {"foreign", "exec"}
pathExists(p) == p # <<>> /\ KindOf(p) # "absent"

(***************************************************************************)
(* Options: the configuration file, then the flags.                        *)
(***************************************************************************)
Malformed(flag) == flag.id = "" \/ flag.path = <<>>

\* Of several --bin-path for one id the last stays.
mapFlags(flags) ==
    [id \in {flag.id : flag \in ToSet(flags)} |->
        flags[SelectLastInSeq(flags, LAMBDA flag : flag.id = id)].path]

mergeSlices(cfg, flags) ==
    FoldLeft(LAMBDA out, v : IF v \in ToSet(out) THEN out ELSE Append(out, v),
             <<>>, cfg \o flags)

\* Mutant of mergeBinPaths: the configuration file is laid over the flags.
FileOverFlags(cfg, flags) == cfg @@ flags

mergeBinPaths(cfg, flags) ==
    [id \in DOMAIN cfg \cup DOMAIN flags |-> IF id \in DOMAIN flags THEN flags[id] ELSE cfg[id]]

\* mapFlags refuses a malformed override before anything is opened.
Refuse ==
    /\ pc = "open"
    /\ \E flag \in ToSet(world.flagBins) : Malformed(flag)
    /\ pc' = "refused"
    /\ UNCHANGED <<world, disk, had, changes, core, i, hit, binary, entries, primary, warned>>

Open ==
    /\ pc = "open"
    /\ \A flag \in ToSet(world.flagBins) : ~Malformed(flag)
    /\ core' = [binPaths |-> mergeBinPaths(world.fileBins, mapFlags(world.flagBins)),
                searchDirs |-> mergeSlices(world.fileDirs, world.flagDirs)]
    /\ pc' = "detect"
    /\ UNCHANGED <<world, disk, had, changes, i, hit, binary, entries, primary, warned>>

(***************************************************************************)
(* The binary.                                                             *)
(***************************************************************************)
absPath(p) == IF p = <<>> \/ IsAbs(p) THEN p ELSE world.wd \o p
Override == IF Agent \in DOMAIN core.binPaths THEN core.binPaths[Agent] ELSE <<>>

\* filepath.Join(dir, bin), rooted; exec.LookPath's own candidates likewise.
Candidate(dir) == absPath(Append(dir, "bin"))

\* Mutant of unknownBinPathWarning: an override of a known agent is named too.
WarnsOfAll == DOMAIN core.binPaths

\* The catalog decides what is unknown, not what a listing has left of it.
unknownBinPathWarning == DOMAIN core.binPaths \ Catalogued

\* The call begins: an override is the sole candidate, else PATH comes first.
Detect ==
    /\ pc = "detect"
    /\ warned' = unknownBinPathWarning
    /\ pc' = IF Override # <<>> THEN "override" ELSE "look"
    /\ UNCHANGED <<world, disk, had, changes, core, i, hit, binary, entries, primary>>

Located(p) == binary' = p /\ pc' = "paths" /\ i' = 1

\* Mutant of CheckOverride: an override that is not executable is passed over.
OverrideFallsThrough ==
    /\ pc = "override"
    /\ LET p == absPath(Override) IN
         IF isExecutable(p) THEN Located(p)
         ELSE pc' = "look" /\ i' = 1 /\ UNCHANGED binary
    /\ UNCHANGED <<world, disk, had, changes, core, hit, entries, primary, warned>>

CheckOverride ==
    /\ pc = "override"
    /\ LET p == absPath(Override) IN Located(IF isExecutable(p) THEN p ELSE <<>>)
    /\ UNCHANGED <<world, disk, had, changes, core, hit, entries, primary, warned>>

\* exec.LookPath, one directory of PATH: the first file this user may execute,
\* and an error instead if the directory is relative.
LookPath ==
    /\ pc = "look"
    /\ IF i > Len(world.path)
       THEN pc' = "search" /\ i' = 1 /\ UNCHANGED hit
       ELSE LET c == Candidate(world.path[i]) IN
            IF KindOf(c) # "exec"
            THEN i' = i + 1 /\ UNCHANGED <<pc, hit>>
            ELSE IF IsAbs(world.path[i])
            THEN hit' = c /\ pc' = "hit" /\ UNCHANGED i
            ELSE pc' = "search" /\ i' = 1 /\ UNCHANGED hit
    /\ UNCHANGED <<world, disk, had, changes, core, binary, entries, primary, warned>>

\* Mutant of CheckHit: a hit that is gone by now ends the search.
HitIsFinal ==
    /\ pc = "hit"
    /\ Located(IF isExecutable(hit) THEN hit ELSE <<>>)
    /\ UNCHANGED <<world, disk, had, changes, core, hit, entries, primary, warned>>

\* What LookPath returned is looked at again; what is no longer executable
\* falls through to the search directories, not to the rest of PATH.
CheckHit ==
    /\ pc = "hit"
    /\ IF isExecutable(hit) THEN Located(hit)
       ELSE pc' = "search" /\ i' = 1 /\ UNCHANGED binary
    /\ UNCHANGED <<world, disk, had, changes, core, hit, entries, primary, warned>>

SearchDir ==
    /\ pc = "search"
    /\ IF i > Len(core.searchDirs) THEN Located(<<>>)
       ELSE LET c == Candidate(core.searchDirs[i]) IN
            IF isExecutable(c) THEN Located(c)
            ELSE i' = i + 1 /\ UNCHANGED <<pc, binary>>
    /\ UNCHANGED <<world, disk, had, changes, core, hit, entries, primary, warned>>

(***************************************************************************)
(* The directories.                                                        *)
(***************************************************************************)
\* os.Expand: an unset variable is empty, and what follows it begins with "/".
Expand(raw) ==
    IF raw = <<>> \/ raw[1] # "$V" THEN raw
    ELSE IF world.var # <<>> THEN world.var \o Tail(raw)
    ELSE IF Len(raw) = 1 THEN <<>> ELSE <<"/">> \o Tail(raw)

\* Mutant of expandPath: the tilde is looked for before the variable is expanded.
TildeFirst(raw) ==
    IF raw # <<>> /\ raw[1] = "~" THEN world.home \o Tail(raw) ELSE Expand(raw)

expandPath(raw) ==
    LET p == Expand(raw) IN IF p # <<>> /\ p[1] = "~" THEN world.home \o Tail(p) ELSE p

\* One role of one scope: a local path is rooted at the working directory.
resolveSkillPath(slot) ==
    LET p == expandPath(slot.raw)
        rooted == IF slot.local /\ ~IsAbs(p) THEN world.wd \o p ELSE p
    IN IF slot.raw = <<>> THEN Nowhere ELSE [path |-> rooted, exists |-> pathExists(rooted)]

ResolvePath ==
    /\ pc = "paths"
    /\ i <= Len(world.slots)
    /\ entries' = Append(entries, resolveSkillPath(world.slots[i]))
    /\ i' = i + 1
    /\ UNCHANGED <<world, disk, had, changes, core, pc, hit, binary, primary, warned>>

\* The entries of a skills scope that Primary may come from, in their order:
\* agents, then native, if they have a path, then the alternatives.
Usable(local) ==
    {k \in DOMAIN entries :
        /\ world.slots[k].local = local
        /\ \/ world.slots[k].role = "alternative"
           \/ world.slots[k].role \in {"agents", "native"} /\ entries[k].path # <<>>}

\* Mutant of skillsPrimary: whether the directory exists is looked up again.
PrimaryStatsAgain(local) ==
    IF Usable(local) = {} THEN Nowhere
    ELSE LET p == entries[Min(Usable(local))].path
         IN [path |-> p, exists |-> pathExists(p)]

skillsPrimary(local) ==
    IF Usable(local) = {} THEN Nowhere ELSE entries[Min(Usable(local))]

Report ==
    /\ pc = "paths"
    /\ i > Len(world.slots)
    /\ primary' = [local \in BOOLEAN |-> skillsPrimary(local)]
    /\ pc' = "done"
    /\ UNCHANGED <<world, disk, had, changes, core, i, hit, binary, entries, warned>>

(***************************************************************************)
(* Somebody installs, removes or changes the mode of a file meanwhile.     *)
(***************************************************************************)
FileChanges ==
    /\ pc \notin {"open", "refused", "done"}
    /\ changes < MaxChanges
    /\ changes' = changes + 1
    /\ \E p \in DOMAIN disk, kind \in Kinds :
         /\ kind # disk[p]
         /\ disk' = [disk EXCEPT ![p] = kind]
         /\ had' = [had EXCEPT ![p] = @ \cup {kind}]
    /\ UNCHANGED <<world, core, pc, i, hit, binary, entries, primary, warned>>

Init ==
    /\ world \in Worlds
    /\ disk = world.disk
    /\ had = [p \in DOMAIN world.disk |-> {world.disk[p]}]
    /\ changes = 0
    /\ core = [binPaths |-> <<>>, searchDirs |-> <<>>]
    /\ pc = "open"
    /\ i = 1
    /\ hit = <<>>
    /\ binary = <<>>
    /\ entries = <<>>
    /\ primary = [local \in BOOLEAN |-> Nowhere]
    /\ warned = {}

Next ==
    \/ Refuse \/ Open \/ Detect
    \/ CheckOverride \/ LookPath \/ CheckHit \/ SearchDir
    \/ ResolvePath \/ Report
    \/ FileChanges

Spec == Init /\ [][Next]_vars

(***************************************************************************)
(* Properties.                                                             *)
(***************************************************************************)
\* Every variable holds a value of its type.
TypeOK ==
    /\ DOMAIN disk = DOMAIN world.disk
    /\ \A p \in DOMAIN disk : disk[p] \in Kinds /\ disk[p] \in had[p] /\ had[p] \subseteq Kinds
    /\ changes \in 0..MaxChanges
    /\ DOMAIN core.binPaths \subseteq DOMAIN world.fileBins \cup {f.id : f \in ToSet(world.flagBins)}
    /\ ToSet(core.searchDirs) \subseteq ToSet(world.fileDirs) \cup ToSet(world.flagDirs)
    /\ pc \in {"open", "refused", "detect", "override", "look", "hit", "search", "paths", "done"}
    /\ i \in 1..(1 + Len(world.path) + Len(core.searchDirs) + Len(world.slots))
    /\ hit # <<>> => IsAbs(hit)
    /\ Len(entries) <= Len(world.slots)
    /\ \A e \in ToSet(entries) \cup {primary[TRUE], primary[FALSE]} : e.exists \in BOOLEAN
    /\ warned \cap Catalogued = {}

Had(p) == IF p \in DOMAIN had THEN had[p] ELSE {"absent"}
Runnable == {"foreign", "exec"}

\* The override the user asked for: the last flag for the id, else the file's.
Asked(id) ==
    LET named == {k \in DOMAIN world.flagBins : world.flagBins[k].id = id}
    IN IF named # {} THEN world.flagBins[Max(named)].path
       ELSE IF id \in DOMAIN world.fileBins THEN world.fileBins[id] ELSE <<>>

\* A binary-path override is obeyed whatever else is installed and whatever
\* changes meanwhile (locateBinary, mergeBinPaths): the flag's before the
\* file's, the last of several, no other file ever reported in its place, found
\* only if it was executable and missed only if it was not, at some moment of
\* the call; an id the catalog does not know is named in the warning.
OverridesHonoured ==
    pc = "done" =>
        /\ warned = ({f.id : f \in ToSet(world.flagBins)} \cup DOMAIN world.fileBins) \ Catalogued
        /\ Asked(Agent) # <<>> =>
             LET p == absPath(Asked(Agent)) IN
               \/ binary = p /\ Had(p) \cap Runnable # {}
               \/ binary = <<>> /\ ~(Had(p) \subseteq Runnable)

\* The places the binary may be at, in the order they are meant to be tried.
Places ==
    [k \in DOMAIN world.path |-> Candidate(world.path[k])]
        \o [k \in DOMAIN core.searchDirs |-> Candidate(core.searchDirs[k])]

\* PATH place k is hidden: LookPath stops at a relative directory before it, or
\* returned an earlier file that was lost before it was looked at again.
Hidden(k) ==
    \E j \in 1..(k - 1) :
        /\ j <= Len(world.path)
        /\ "exec" \in Had(Places[j])
        /\ ~IsAbs(world.path[j]) \/ Had(Places[j]) # {"exec"}

\* Without an override, a binary that stayed executable throughout the call is
\* found, or one at an earlier place is, however the file system changes between
\* the stats (locateBinary): PATH before search directories, except that a lost
\* hit or a relative directory of PATH hides the rest of PATH, never the search
\* directories. What is reported was executable at some moment.
StayedIsFound ==
    (pc = "done" /\ Asked(Agent) = <<>>) =>
        /\ \A k \in DOMAIN Places :
             LET steady == IF k <= Len(world.path)
                           THEN Had(Places[k]) = {"exec"} /\ IsAbs(world.path[k]) /\ ~Hidden(k)
                           ELSE Had(Places[k]) \subseteq Runnable
             IN steady => \E j \in 1..k : binary = Places[j]
        /\ binary # <<>> => binary \in ToSet(Places) /\ Had(binary) \cap Runnable # {}

\* The directories are expanded, and those of the project rooted (resolvePathPair,
\* resolveSkillPath, expandPath): no variable or tilde is left in one, not even
\* a tilde out of a variable; a local one is absolute if the working directory
\* is (of a global one that the catalog writes relative nothing is claimed); a
\* role the catalog leaves out is empty; existence is what some moment of the
\* call showed. The Primary of a skills scope is one of that scope's own
\* entries, with the existence reported there, though the directory be made or
\* removed meanwhile, and is empty only if its first three choices are.
PathsAreAnchored ==
    pc = "done" =>
        /\ \A k \in DOMAIN entries :
             LET e == entries[k]
                 slot == world.slots[k]
             IN /\ slot.raw = <<>> => e = Nowhere
                /\ ToSet(e.path) \cap {"~", "$V"} = {}
                /\ (slot.local /\ slot.raw # <<>> /\ IsAbs(world.wd)) => IsAbs(e.path)
                /\ IF e.exists THEN Had(e.path) # {"absent"}
                   ELSE e.path # <<>> => "absent" \in Had(e.path)
        /\ \A local \in BOOLEAN :
             LET Of(roles) == {k \in DOMAIN entries : /\ world.slots[k].local = local
                                                      /\ world.slots[k].role \in roles}
                 skills == Of({"agents", "native", "alternative"})
             IN \/ \E k \in skills : /\ entries[k] = primary[local]
                                     /\ \A j \in skills : j < k => entries[j].path = <<>>
                \/ primary[local] = Nowhere /\ Of({"alternative"}) = {}
                   /\ \A k \in skills : entries[k].path = <<>>
=============================================================================
