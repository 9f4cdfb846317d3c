---------------------------- MODULE DetectionProofs ----------------------------
(***************************************************************************)
(* Every property of Detection, for every world a call may find, any       *)
(* number of changes of the file system during the call, and changes       *)
(* between any two of its stats.                                           *)
(*                                                                         *)
(* What was seen of a path stays part of its history, so that a fact about *)
(* histories, once gathered by a stat, outlives every later change: that   *)
(* is the first lemma about steps. On it the invariant has four layers:    *)
(* types, overrides, the search, directories. The operators of Detection   *)
(* that read a variable get here a form that takes it as an argument.      *)
(***************************************************************************)
EXTENDS Detection, FoldProofs, SequenceTheorems

\* What a place has been, in the history h.
Past(h, p) == IF p \in DOMAIN h THEN h[p] ELSE {"absent"}

Root(w, p) == IF p = <<>> \/ IsAbs(p) THEN p ELSE w.wd \o p
Place(w, dir) == Root(w, Append(dir, "bin"))
Own(bins) == IF Agent \in DOMAIN bins THEN bins[Agent] ELSE <<>>

\* The forms with and without arguments agree.
LEMMA Forms ==
    /\ \A p : Had(p) = Past(had, p)
    /\ \A p : absPath(p) = Root(world, p)
    /\ \A dir : Candidate(dir) = Place(world, dir)
    /\ Override = Own(core.binPaths)
  BY DEF Had, Past, absPath, Root, Candidate, Place, Override, Own

-----------------------------------------------------------------------------
(* Types.                                                                  *)

Entries == [path : Paths, exists : BOOLEAN]
Begun == pc \notin {"open", "refused"}

Files ==
    /\ world \in Worlds /\ changes \in 0 .. MaxChanges
    /\ DOMAIN disk = DOMAIN world.disk /\ DOMAIN had = DOMAIN world.disk
    /\ \A p \in DOMAIN disk : disk[p] \in Kinds /\ disk[p] \in had[p] /\ had[p] \subseteq Kinds

Inputs ==
    /\ core.binPaths \in [DOMAIN core.binPaths -> Paths]
    /\ DOMAIN core.binPaths \subseteq
           DOMAIN world.fileBins \cup {f.id : f \in ToSet(world.flagBins)}
    /\ core.searchDirs \in Seq(Paths)
    /\ ToSet(core.searchDirs) \subseteq ToSet(world.fileDirs) \cup ToSet(world.flagDirs)

Position ==
    /\ pc \in {"open", "refused", "detect", "override", "look", "hit", "search", "paths", "done"}
    /\ i \in Nat /\ i >= 1
    /\ pc \in {"open", "refused", "detect", "override"} => i = 1
    /\ pc = "look" => i =< Len(world.path) + 1
    /\ pc = "hit" => i =< Len(world.path)
    /\ pc = "search" => i =< Len(core.searchDirs) + 1
    /\ pc \in {"paths", "done"} => i =< Len(world.slots) + 1
    /\ pc \notin {"paths", "done"} => entries = <<>>
    /\ pc = "paths" => Len(entries) = i - 1
    /\ pc = "done" => Len(entries) = Len(world.slots)

Found ==
    /\ {hit, binary} \subseteq Paths
    /\ hit # <<>> => IsAbs(hit)
    /\ entries \in Seq(Entries)
    /\ \A local \in BOOLEAN : primary[local] \in Entries
    /\ warned \cap Catalogued = {}

Typed == Files /\ Inputs /\ Position /\ Found

\* A world is one of them.
LEMMA WorldParts == ASSUME world \in Worlds PROVE IsWorld(world)
  BY ConstantsAssumption

\* Types, and positions within their lists, are what TypeOK asks for.
LEMMA TypedImplies == Typed => TypeOK
<1> SUFFICES ASSUME Typed PROVE TypeOK
  OBVIOUS
<1>1. Len(world.path) \in Nat /\ Len(world.slots) \in Nat /\ Len(core.searchDirs) \in Nat
  BY WorldParts DEF Typed, Files, Inputs, IsWorld
<1>2. i \in 1 .. (1 + Len(world.path) + Len(core.searchDirs) + Len(world.slots))
  <2> DEFINE a == Len(world.path)
             b == Len(core.searchDirs)
             c == Len(world.slots)
  <2>1. i >= 1 /\ i \in Nat /\ (i = 1 \/ i =< a + 1 \/ i =< b + 1 \/ i =< c + 1)
    <3>1. a \in Nat /\ b \in Nat /\ c \in Nat
      BY <1>1
    <3> QED
      BY <3>1 DEF Typed, Position
  <2> HIDE DEF a, b, c
  <2>2. a \in Nat /\ b \in Nat /\ c \in Nat
    BY <1>1 DEF a, b, c
  <2>3. i \in 1 .. (1 + a + b + c)
    BY <2>1, <2>2
  <2> QED
    BY <2>3 DEF a, b, c
<1>3. Len(entries) =< Len(world.slots)
  BY <1>1 DEF Typed, Position
<1>4. \A e \in ToSet(entries) \cup {primary[TRUE], primary[FALSE]} : e.exists \in BOOLEAN
  <2>1. ToSet(entries) \subseteq Entries
    BY DEF Typed, Found, ToSet
  <2> QED
    BY <2>1 DEF Typed, Found, Entries
<1> QED
  BY <1>2, <1>3, <1>4 DEF TypeOK, Typed, Files, Inputs, Position, Found

-----------------------------------------------------------------------------
(* The options.                                                            *)

Flags == Seq([id : STRING, path : Paths])

\* The positions at which flags name an id.
Named(flags, id) == {k \in DOMAIN flags : flags[k].id = id}

\* A map of flags has for every id they name the path of the last that does.
LEMMA MapFlagsParts ==
    ASSUME NEW flags \in Flags
    PROVE  /\ DOMAIN mapFlags(flags) = {f.id : f \in ToSet(flags)}
           /\ \A id : id \in DOMAIN mapFlags(flags) <=> Named(flags, id) # {}
           /\ \A id : Named(flags, id) # {} =>
                 /\ Max(Named(flags, id)) \in Named(flags, id)
                 /\ mapFlags(flags)[id] = flags[Max(Named(flags, id))].path
<1>1. DOMAIN mapFlags(flags) = {f.id : f \in ToSet(flags)}
  BY DEF mapFlags
<1>2. \A id : id \in DOMAIN mapFlags(flags) <=> Named(flags, id) # {}
  BY <1>1 DEF ToSet, Named
<1>3. ASSUME NEW id, Named(flags, id) # {}
      PROVE  /\ Max(Named(flags, id)) \in Named(flags, id)
             /\ mapFlags(flags)[id] = flags[Max(Named(flags, id))].path
  <2>1. DOMAIN flags = 1 .. Len(flags) /\ Len(flags) \in Nat
    BY DEF Flags
  <2>2. Max(Named(flags, id)) \in Named(flags, id)
    <3>1. Named(flags, id) \in SUBSET (1 .. Len(flags))
      BY <2>1 DEF Named
    <3> QED
      BY <1>3, <2>1, <3>1, MaxUpTo
  <2>3. SelectLastInSeq(flags, LAMBDA flag : flag.id = id) = Max(Named(flags, id))
    BY <1>3, <2>1 DEF SelectLastInSeq, Named
  <2>4. id \in {f.id : f \in ToSet(flags)}
    BY <1>1, <1>2, <1>3
  <2>5. mapFlags(flags)[id] = flags[SelectLastInSeq(flags, LAMBDA flag : flag.id = id)].path
    BY <2>4 DEF mapFlags
  <2> QED
    BY <2>2, <2>3, <2>5
<1> QED
  BY <1>1, <1>2, <1>3

\* The flags are laid over the file.
LEMMA MergeBinPathsParts ==
    ASSUME NEW cfg, NEW flags
    PROVE  /\ DOMAIN mergeBinPaths(cfg, flags) = DOMAIN cfg \cup DOMAIN flags
           /\ \A id \in DOMAIN flags : mergeBinPaths(cfg, flags)[id] = flags[id]
           /\ \A id \in DOMAIN cfg \ DOMAIN flags : mergeBinPaths(cfg, flags)[id] = cfg[id]
  BY DEF mergeBinPaths

\* The search directories are those of the file and the flags, each once.
THEOREM SearchDirsAreMerged ==
    ASSUME NEW T, NEW cfg \in Seq(T), NEW flags \in Seq(T)
    PROVE  /\ mergeSlices(cfg, flags) \in Seq(T)
           /\ ToSet(mergeSlices(cfg, flags)) = ToSet(cfg) \cup ToSet(flags)
           /\ Once(mergeSlices(cfg, flags))
<1> DEFINE seq == cfg \o flags
           n == Len(seq)
<1>1. seq \in Seq(T) /\ n \in Nat /\ DOMAIN seq = 1 .. n /\ seq \in [1 .. n -> T]
  <2>1. seq \in Seq(T)
    BY ConcatProperties
  <2> HIDE DEF seq
  <2> QED
    BY <2>1
<1>2. ToSet(seq) = ToSet(cfg) \cup ToSet(flags)
  <2>1. Range(seq) = Range(cfg) \cup Range(flags)
    BY RangeConcatenation
  <2> QED
    BY <2>1 DEF Range, ToSet
<1>3. mergeSlices(cfg, flags) = (CHOOSE f : Dedupes(f, seq, n))[1 .. n]
  <2>1. \A s : DOMAIN s = 1 .. n =>
            FoldLeft(LAMBDA out, v : IF v \in ToSet(out) THEN out ELSE Append(out, v), <<>>, s)
              = (CHOOSE f : Dedupes(f, s, n))[1 .. n]
    BY DEF FoldLeft, MapThenFoldSet, Dedupes, With, Prior
  <2> HIDE DEF n
  <2> QED
    BY <1>1, <2>1 DEF mergeSlices
<1> HIDE DEF seq, n
<1> QED
  BY <1>1, <1>2, <1>3, DedupeHas

-----------------------------------------------------------------------------
(* The directories of the catalog.                                         *)

\* No segment from the n-th on is left to expand.
Free(p, n) == \A k \in DOMAIN p : k >= n => p[k] \notin {"~", "$V"}

\* A path is free from its first segment, or from its second.
LEMMA FreeParts ==
    /\ \A p \in Paths : Expanded(p) <=> Free(p, 1)
    /\ \A p \in Paths : p # <<>> => Tail(p) \in Paths /\ (Expanded(Tail(p)) <=> Free(p, 2))
<1>1. ASSUME NEW p \in Paths PROVE Expanded(p) <=> Free(p, 1)
  <2>1. DOMAIN p = 1 .. Len(p)
    BY DEF Paths
  <2> QED
    BY <2>1 DEF Expanded, Free, ToSet
<1>2. ASSUME NEW p \in Paths, p # <<>>
      PROVE  Tail(p) \in Paths /\ (Expanded(Tail(p)) <=> Free(p, 2))
  <2>1. p \in Seq(Segments)
    BY DEF Paths
  <2>2. Tail(p) \in Seq(Segments) /\ Len(p) \in Nat /\ Len(p) # 0
    BY <1>2, <2>1
  <2>3. DOMAIN p = 1 .. Len(p) /\ DOMAIN Tail(p) = 1 .. Len(p) - 1
    BY <1>2, <2>1, <2>2
  <2>4. \A k \in 1 .. Len(p) - 1 : Tail(p)[k] = p[k + 1]
    BY <1>2, <2>1, <2>2
  <2>5. ASSUME Expanded(Tail(p)), NEW k \in 1 .. Len(p), k >= 2 PROVE p[k] \notin {"~", "$V"}
    <3>1. k - 1 \in 1 .. Len(p) - 1 /\ Tail(p)[k - 1] = p[k]
      BY <2>2, <2>4, <2>5
    <3> QED
      BY <2>3, <2>5, <3>1 DEF Expanded, ToSet
  <2>6. ASSUME Free(p, 2), NEW k \in 1 .. Len(p) - 1 PROVE Tail(p)[k] \notin {"~", "$V"}
    <3>1. k + 1 \in 1 .. Len(p) /\ k + 1 >= 2
      BY <2>2
    <3> QED
      BY <2>3, <2>4, <2>6, <3>1 DEF Free
  <2> QED
    BY <2>2, <2>3, <2>5, <2>6 DEF Paths, Free, Expanded, ToSet
<1> QED
  BY <1>1, <1>2

\* So is one path after another.
LEMMA FreeConcat ==
    ASSUME NEW p \in Paths, NEW q \in Paths, NEW n \in Nat, Free(p, n), Free(q, 1)
    PROVE  p \o q \in Paths /\ Free(p \o q, n)
<1>1. p \in Seq(Segments) /\ q \in Seq(Segments)
  BY DEF Paths
<1>2. /\ p \o q \in Seq(Segments) /\ Len(p \o q) = Len(p) + Len(q)
      /\ Len(p) \in Nat /\ Len(q) \in Nat
      /\ \A k \in 1 .. Len(p) + Len(q) :
            (p \o q)[k] = IF k =< Len(p) THEN p[k] ELSE q[k - Len(p)]
  BY <1>1, ConcatProperties
<1>3. DOMAIN p = 1 .. Len(p) /\ DOMAIN q = 1 .. Len(q) /\ DOMAIN (p \o q) = 1 .. Len(p) + Len(q)
  BY <1>1, <1>2
<1>4. ASSUME NEW k \in 1 .. Len(p) + Len(q), k >= n PROVE (p \o q)[k] \notin {"~", "$V"}
  <2>1. CASE k =< Len(p)
    <3>1. k \in 1 .. Len(p)
      BY <1>2, <2>1
    <3> QED
      BY <1>2, <1>3, <1>4, <2>1, <3>1 DEF Free
  <2>2. CASE ~ (k =< Len(p))
    <3>1. k - Len(p) \in 1 .. Len(q) /\ k - Len(p) >= 1
      BY <1>2, <2>2
    <3> QED
      BY <1>2, <1>3, <2>2, <3>1 DEF Free
  <2> QED
    BY <2>1, <2>2
<1> QED
  BY <1>2, <1>3, <1>4 DEF Paths, Free

\* Neither the empty path nor the root has anything to expand.
LEMMA Roots ==
    /\ <<>> \in Paths /\ Free(<<>>, 1) /\ Free(<<>>, 2)
    /\ <<"/">> \in Paths /\ Free(<<"/">>, 1) /\ Free(<<"/">>, 2)
<1>1. <<>> \in Seq(Segments) /\ <<"/">> \in Seq(Segments)
  <2>1. "/" \in Segments
    BY ConstantsAssumption
  <2>2. \A x \in Segments : <<x>> \in Seq(Segments)
    OBVIOUS
  <2>3. <<>> \in Seq(Segments)
    OBVIOUS
  <2> QED
    BY <2>1, <2>2, <2>3
<1>2. DOMAIN <<>> = {} /\ DOMAIN <<"/">> = {1} /\ <<"/">>[1] = "/"
  OBVIOUS
<1> QED
  BY <1>1, <1>2 DEF Paths, Free

\* What the expansion of a variable leaves to expand is a tilde in front, ...
LEMMA ExpandParts ==
    ASSUME world \in Worlds, NEW raw \in Paths, Free(raw, 2)
    PROVE  /\ Expand(raw) \in Paths /\ Free(Expand(raw), 2)
           /\ Expand(raw) # <<>> => Expand(raw)[1] # "$V"
<1>1. world.var \in Paths /\ Free(world.var, 2) /\ (world.var # <<>> => world.var[1] # "$V")
  <2>1. world.var \in Paths
        /\ (world.var # <<>> => world.var[1] # "$V" /\ Expanded(Tail(world.var)))
    BY WorldParts DEF IsWorld
  <2>2. CASE world.var = <<>>
    BY <2>1, <2>2, Roots
  <2>3. CASE world.var # <<>>
    BY <2>1, <2>3, FreeParts
  <2> QED
    BY <2>2, <2>3
<1>2. CASE raw = <<>> \/ raw[1] # "$V"
  BY <1>2 DEF Expand
<1>3. CASE raw # <<>> /\ raw[1] = "$V"
  <2>1. Tail(raw) \in Paths /\ Free(Tail(raw), 1)
    BY <1>3, FreeParts
  <2>2. CASE world.var # <<>>
    <3>1. Expand(raw) = world.var \o Tail(raw)
      BY <1>3, <2>2 DEF Expand
    <3>2. (world.var \o Tail(raw))[1] = world.var[1] /\ world.var \o Tail(raw) # <<>>
      BY <1>1, <2>1, <2>2 DEF Paths
    <3> QED
      BY <1>1, <2>1, <2>2, <3>1, <3>2, FreeConcat
  <2>3. CASE world.var = <<>> /\ Len(raw) = 1
    BY <1>3, <2>3, Roots DEF Expand
  <2>4. CASE world.var = <<>> /\ Len(raw) # 1
    <3>1. Expand(raw) = <<"/">> \o Tail(raw)
      BY <1>3, <2>4 DEF Expand
    <3>2. (<<"/">> \o Tail(raw))[1] = "/" /\ <<"/">> \o Tail(raw) # <<>>
      BY <2>1 DEF Paths
    <3> QED
      BY <2>1, <3>1, <3>2, Roots, FreeConcat
  <2> QED
    BY <2>2, <2>3, <2>4
<1> QED
  BY <1>2, <1>3

\* ... and the tilde is expanded next.
LEMMA expandPathParts ==
    ASSUME world \in Worlds, NEW raw \in Paths, Free(raw, 2)
    PROVE  expandPath(raw) \in Paths /\ Free(expandPath(raw), 1)
<1> DEFINE p == Expand(raw)
<1>1. p \in Paths /\ Free(p, 2) /\ (p # <<>> => p[1] # "$V")
  BY ExpandParts
<1>2. world.home \in Paths /\ Free(world.home, 1)
  BY WorldParts, FreeParts DEF IsWorld
<1>3. expandPath(raw) = IF p # <<>> /\ p[1] = "~" THEN world.home \o Tail(p) ELSE p
  BY DEF expandPath
<1> HIDE DEF p
<1>4. CASE p # <<>> /\ p[1] = "~"
  <2>1. Tail(p) \in Paths /\ Free(Tail(p), 1)
    BY <1>1, <1>4, FreeParts
  <2> QED
    BY <1>2, <1>3, <1>4, <2>1, FreeConcat
<1>5. CASE p # <<>> /\ p[1] # "~"
  <2>1. DOMAIN p = 1 .. Len(p)
    BY <1>1 DEF Paths
  <2>2. \A k \in DOMAIN p : k >= 1 => k = 1 \/ k >= 2
    BY <2>1
  <2> QED
    BY <1>1, <1>3, <1>5, <2>2 DEF Free
<1>6. CASE p = <<>>
  BY <1>1, <1>3, <1>6, Roots
<1> QED
  BY <1>4, <1>5, <1>6

Slots == [local : BOOLEAN, role : STRING, raw : Paths]

\* What is said of an entry exists, or does not, was so at some moment.
Shown(h, e) == IF e.exists THEN \E kind \in Past(h, e.path) : kind # "absent"
               ELSE e.path # <<>> => "absent" \in Past(h, e.path)

\* An entry means the same wherever it is used.
Rooted(w, slot, e) ==
    /\ slot.raw = <<>> => e = Nowhere
    /\ Free(e.path, 1)
    /\ slot.local /\ slot.raw # <<>> /\ IsAbs(w.wd) => IsAbs(e.path)

\* What a path is, at a stat, is part of its history.
LEMMA StatsAreKept ==
    ASSUME Files
    PROVE  /\ \A p : KindOf(p) \in Past(had, p)
           /\ \A p : KindOf(p) \in Kinds /\ Past(had, p) \subseteq Kinds
           /\ \A p \in Paths : pathExists(p) <=> p # <<>> /\ KindOf(p) # "absent"
  BY DEF Files, KindOf, Past, Kinds, pathExists

\* What follows an absolute path leaves it absolute.
LEMMA AbsConcat ==
    ASSUME NEW p \in Paths, NEW q \in Paths, IsAbs(p)
    PROVE  IsAbs(p \o q)
  BY DEF Paths, IsAbs

\* A role is resolved to such an entry, and its existence is what is found.
LEMMA resolveSkillPathParts ==
    ASSUME Files, NEW slot \in Slots, Free(slot.raw, 2)
    PROVE  /\ resolveSkillPath(slot) \in Entries
           /\ Rooted(world, slot, resolveSkillPath(slot))
           /\ Shown(had, resolveSkillPath(slot))
<1> DEFINE p == expandPath(slot.raw)
           rooted == IF slot.local /\ ~IsAbs(p) THEN world.wd \o p ELSE p
<1>1. slot.raw \in Paths /\ slot.local \in BOOLEAN
  BY DEF Slots
<1>2. p \in Paths /\ Free(p, 1)
  BY <1>1, expandPathParts DEF Files
<1>3. world.wd \in Paths /\ Free(world.wd, 1)
  BY WorldParts, FreeParts DEF Files, IsWorld
<1>4. resolveSkillPath(slot) = IF slot.raw = <<>> THEN Nowhere
                               ELSE [path |-> rooted, exists |-> pathExists(rooted)]
  BY DEF resolveSkillPath
<1> HIDE DEF p
<1>5. rooted \in Paths /\ Free(rooted, 1)
  BY <1>2, <1>3, FreeConcat
<1>6. slot.local /\ IsAbs(world.wd) => IsAbs(rooted)
  BY <1>2, <1>3, AbsConcat
<1> HIDE DEF rooted
<1>7. CASE slot.raw = <<>>
  <2>1. resolveSkillPath(slot) = Nowhere
    BY <1>4, <1>7
  <2> QED
    BY <1>7, <2>1, Roots DEF Nowhere, Entries, Rooted, Shown
<1>8. CASE slot.raw # <<>>
  <2> DEFINE e == resolveSkillPath(slot)
  <2>1. e = [path |-> rooted, exists |-> pathExists(rooted)]
    BY <1>4, <1>8
  <2>2. pathExists(rooted) \in BOOLEAN
    BY <1>5, StatsAreKept DEF pathExists
  <2>3. e \in Entries /\ e.path = rooted /\ e.exists = pathExists(rooted)
    BY <1>5, <2>1, <2>2 DEF Entries
  <2> HIDE DEF e
  <2>4. Rooted(world, slot, e)
    BY <1>5, <1>6, <1>8, <2>3 DEF Rooted
  <2>5. Shown(had, e)
    BY <1>5, <2>3, StatsAreKept DEF Shown, pathExists
  <2> QED
    BY <2>3, <2>4, <2>5 DEF e
<1> QED
  BY <1>7, <1>8

\* The roles of a world can be resolved.
LEMMA SlotParts ==
    ASSUME world \in Worlds
    PROVE  /\ world.slots \in Seq(Slots)
           /\ \A k \in DOMAIN world.slots : world.slots[k] \in Slots /\ Free(world.slots[k].raw, 2)
<1>1. world.slots \in Seq(Slots)
  BY WorldParts DEF IsWorld, Slots
<1>2. ASSUME NEW k \in DOMAIN world.slots
      PROVE  world.slots[k] \in Slots /\ Free(world.slots[k].raw, 2)
  <2>1. world.slots[k] \in Slots /\ world.slots[k] \in ToSet(world.slots)
    BY <1>1 DEF ToSet
  <2>2. world.slots[k].raw # <<>> => Expanded(Tail(world.slots[k].raw))
    BY <2>1, WorldParts DEF IsWorld
  <2>3. world.slots[k].raw \in Paths
    BY <2>1 DEF Slots
  <2> QED
    BY <2>1, <2>2, <2>3, FreeParts, Roots
<1> QED
  BY <1>1, <1>2

-----------------------------------------------------------------------------
(* The steps.                                                              *)

Calling == Refuse \/ Open \/ Detect \/ CheckOverride \/ LookPath \/ CheckHit \/ SearchDir
               \/ ResolvePath \/ Report

\* The steps of the call itself see the files as they are; ...
LEMMA CallingIsStill == Calling => UNCHANGED <<world, disk, had, changes>>
  BY DEF Calling, Refuse, Open, Detect, CheckOverride, LookPath, CheckHit, SearchDir,
         ResolvePath, Report

\* ... a change of a file is nothing to the call.
LEMMA ChangeIsSilent ==
    FileChanges => UNCHANGED <<world, core, pc, i, hit, binary, entries, primary, warned>>
  BY DEF FileChanges

\* Whatever happens, no history is forgotten.
LEMMA FilesStep ==
    Files /\ [Next]_vars =>
        /\ Files' /\ world' = world
        /\ \A p : Past(had, p) \subseteq Past(had', p)
<1> SUFFICES ASSUME Files, [Next]_vars
             PROVE  Files' /\ world' = world /\ \A p : Past(had, p) \subseteq Past(had', p)
  OBVIOUS
<1>1. CASE UNCHANGED <<world, disk, had, changes>>
  BY <1>1 DEF Files, Past
<1>2. CASE FileChanges
  <2>1. PICK p \in DOMAIN disk, kind \in Kinds :
            /\ disk' = [disk EXCEPT ![p] = kind]
            /\ had' = [had EXCEPT ![p] = @ \cup {kind}]
    BY <1>2 DEF FileChanges
  <2>2. world' = world /\ changes < MaxChanges /\ changes' = changes + 1
    BY <1>2 DEF FileChanges
  <2>3. DOMAIN disk' = DOMAIN disk /\ DOMAIN had' = DOMAIN had
    BY <2>1
  <2>4. changes' \in 0 .. MaxChanges
    BY <2>2, ConstantsAssumption DEF Files
  <2>5. \A q \in DOMAIN disk : disk'[q] \in Kinds /\ disk'[q] \in had'[q] /\ had'[q] \subseteq Kinds
                              /\ had[q] \subseteq had'[q]
    BY <2>1, <2>3 DEF Files
  <2> QED
    BY <2>2, <2>3, <2>4, <2>5 DEF Files, Past
<1>3. CASE Calling
  BY <1>1, <1>3, CallingIsStill
<1> QED
  BY <1>1, <1>2, <1>3 DEF Next, Calling, vars

\* A place to look at is a path, absolute if its directory is.
LEMMA PlaceParts ==
    ASSUME world \in Worlds, NEW dir \in Paths
    PROVE  Place(world, dir) \in Paths /\ (IsAbs(dir) => IsAbs(Place(world, dir)))
<1>1. Append(dir, "bin") \in Paths /\ (IsAbs(dir) => IsAbs(Append(dir, "bin")))
  BY ConstantsAssumption DEF Paths, IsAbs
<1>2. world.wd \in Paths
  BY WorldParts DEF IsWorld
<1>3. world.wd \o Append(dir, "bin") \in Paths
  BY <1>1, <1>2, ConcatProperties DEF Paths
<1> QED
  BY <1>1, <1>3 DEF Place, Root

\* So is a path rooted at the working directory.
LEMMA RootParts ==
    ASSUME world \in Worlds, NEW p \in Paths
    PROVE  Root(world, p) \in Paths
<1>1. world.wd \o p \in Paths
  BY WorldParts, ConcatProperties DEF IsWorld, Paths
<1> QED
  BY <1>1 DEF Root

\* The lists of a world, and what is in them.
LEMMA ListParts ==
    ASSUME world \in Worlds
    PROVE  /\ Len(world.path) \in Nat /\ Len(world.slots) \in Nat
           /\ DOMAIN world.path = 1 .. Len(world.path)
           /\ DOMAIN world.slots = 1 .. Len(world.slots)
           /\ \A k \in DOMAIN world.path : world.path[k] \in Paths
<1>1. world.path \in Seq(Paths) /\ world.slots \in Seq(Slots)
  BY WorldParts, SlotParts DEF IsWorld
<1> QED
  BY <1>1

\* What newCore captures are an id's paths and a list of them.
LEMMA CapturedParts ==
    ASSUME world \in Worlds, Open
    PROVE  Inputs'
<1> DEFINE flags == mapFlags(world.flagBins)
           bins == mergeBinPaths(world.fileBins, flags)
           dirs == mergeSlices(world.fileDirs, world.flagDirs)
<1>1. core' = [binPaths |-> bins, searchDirs |-> dirs] /\ world' = world
  BY DEF Open
<1>2. /\ world.fileBins \in [DOMAIN world.fileBins -> Paths]
      /\ world.flagBins \in Flags
      /\ world.fileDirs \in Seq(Paths) /\ world.flagDirs \in Seq(Paths)
  BY WorldParts DEF IsWorld, Flags
<1>3. dirs \in Seq(Paths) /\ ToSet(dirs) = ToSet(world.fileDirs) \cup ToSet(world.flagDirs)
  BY <1>2, SearchDirsAreMerged
<1>4. DOMAIN flags = {f.id : f \in ToSet(world.flagBins)} /\ \A id \in DOMAIN flags : flags[id] \in Paths
  <2>1. ASSUME NEW id \in DOMAIN flags PROVE flags[id] \in Paths
    <3> DEFINE named == Named(world.flagBins, id)
    <3>1. Max(named) \in named /\ flags[id] = world.flagBins[Max(named)].path
      BY <1>2, <2>1, MapFlagsParts
    <3>2. Max(named) \in DOMAIN world.flagBins
      BY <3>1 DEF Named
    <3> DEFINE k == Max(named)
    <3> HIDE DEF named, k
    <3>3. world.flagBins[k] \in [id : STRING, path : Paths]
      <4>1. k \in DOMAIN world.flagBins
        BY <3>2 DEF k
      <4> DEFINE S == [id : STRING, path : Paths]
      <4>2. world.flagBins \in Seq(S)
        BY <1>2 DEF Flags
      <4> HIDE DEF S
      <4>3. world.flagBins[k] \in S
        BY <4>1, <4>2
      <4> QED
        BY <4>3 DEF S
    <3>4. world.flagBins[k].path \in Paths
      BY <3>3
    <3> QED
      BY <3>1, <3>4 DEF k
  <2> QED
    BY <1>2, <2>1, MapFlagsParts
<1> HIDE DEF flags
<1>5. DOMAIN bins = DOMAIN world.fileBins \cup DOMAIN flags /\ \A id \in DOMAIN bins : bins[id] \in Paths
  <2>1. /\ DOMAIN bins = DOMAIN world.fileBins \cup DOMAIN flags
        /\ \A id \in DOMAIN flags : bins[id] = flags[id]
        /\ \A id \in DOMAIN world.fileBins \ DOMAIN flags : bins[id] = world.fileBins[id]
    BY MergeBinPathsParts
  <2>2. \A id \in DOMAIN world.fileBins : world.fileBins[id] \in Paths
    BY <1>2
  <2> HIDE DEF bins
  <2> QED
    BY <1>4, <2>1, <2>2
<1>6. bins = [id \in DOMAIN bins |-> bins[id]]
  BY DEF mergeBinPaths
<1> HIDE DEF bins, dirs
<1>7. core'.binPaths = bins /\ core'.searchDirs = dirs
  BY <1>1
<1>8. bins \in [DOMAIN bins -> Paths]
  BY <1>5, <1>6
<1> QED
  BY <1>1, <1>3, <1>4, <1>5, <1>7, <1>8 DEF Inputs

\* The primary of a scope is the first of the entries it may come from.
LEMMA skillsPrimaryParts ==
    ASSUME entries \in Seq(Entries), NEW local
    PROVE  \/ Usable(local) = {} /\ skillsPrimary(local) = Nowhere
           \/ \E k \in Usable(local) : /\ skillsPrimary(local) = entries[k]
                                       /\ \A j \in Usable(local) : k =< j
<1>1. Usable(local) \in SUBSET Nat
  BY DEF Usable
<1>2. CASE Usable(local) = {}
  BY <1>2 DEF skillsPrimary
<1>3. CASE Usable(local) # {}
  <2>1. \E k \in Usable(local) : \A j \in Usable(local) : k =< j
    BY <1>1, <1>3, LeastNumber
  <2>2. Min(Usable(local)) \in Usable(local)
        /\ \A j \in Usable(local) : Min(Usable(local)) =< j
    BY <2>1 DEF Min
  <2> QED
    BY <1>3, <2>2 DEF skillsPrimary
<1> QED
  BY <1>2, <1>3

\* Every call begins with nothing.
LEMMA TypedInit == Init => Typed
<1> SUFFICES ASSUME Init PROVE Typed
  OBVIOUS
<1>1. Files
  <2>1. world.disk \in [DOMAIN world.disk -> Kinds]
    BY WorldParts DEF Init, IsWorld
  <2> QED
    BY <2>1, ConstantsAssumption DEF Init, Files
<1>2. Inputs
  <2>1. core.binPaths = <<>> /\ core.searchDirs = <<>>
    BY DEF Init
  <2>2. DOMAIN <<>> = {} /\ <<>> \in [{} -> Paths] /\ <<>> \in Seq(Paths) /\ ToSet(<<>>) = {}
    BY DEF ToSet
  <2> QED
    BY <2>1, <2>2 DEF Inputs
<1>3. Position
  BY DEF Init, Position
<1>4. Found
  <2>1. <<>> \in Paths /\ Nowhere \in Entries
    BY Roots DEF Nowhere, Entries
  <2>2. <<>> \in Seq(Entries)
    OBVIOUS
  <2> QED
    BY <2>1, <2>2 DEF Init, Found
<1> QED
  BY <1>1, <1>2, <1>3, <1>4 DEF Typed

\* Whatever a step does to the call, it leaves values of their types.
LEMMA TypedStep == Typed /\ [Next]_vars => Typed'
<1> SUFFICES ASSUME Typed, [Next]_vars PROVE Typed'
  OBVIOUS
<1>1. Files' /\ world' = world /\ world \in Worlds
  BY FilesStep DEF Typed, Files
<1>2. Inputs'
  <2>1. CASE Open
    BY <1>1, <2>1, CapturedParts
  <2>2. CASE core' = core
    BY <1>1, <2>2 DEF Typed, Inputs
  <2> QED
    BY <2>1, <2>2 DEF Next, vars, Refuse, Detect, CheckOverride, LookPath, CheckHit, SearchDir,
                      ResolvePath, Report, FileChanges
<1>3. Len(world.path) \in Nat /\ Len(world.slots) \in Nat /\ Len(core.searchDirs) \in Nat
  BY <1>1, ListParts DEF Typed, Inputs
<1> SUFFICES Position' /\ Found'
  BY <1>1, <1>2 DEF Typed
<1>a. Position /\ Found /\ Inputs
  BY DEF Typed
<1>4. CASE Refuse
  BY <1>1, <1>4, <1>a DEF Refuse, Position, Found
<1>5. CASE Open
  BY <1>1, <1>5, <1>a DEF Open, Position, Found
<1>6. CASE Detect
  BY <1>1, <1>3, <1>6, <1>a DEF Detect, Position, Found, unknownBinPathWarning
<1>7. CASE CheckOverride
  <2>1. Override \in Paths
    BY <1>a, Roots DEF Inputs, Override
  <2>2. absPath(Override) \in Paths
    BY <1>1, <2>1, Forms, RootParts
  <2> QED
    BY <1>1, <1>3, <1>7, <1>a, <2>2, Roots DEF CheckOverride, Located, Position, Found
<1>8. CASE LookPath
  <2>1. CASE i > Len(world.path)
    BY <1>1, <1>3, <1>8, <1>a, <2>1 DEF LookPath, Position, Found
  <2>2. CASE ~ (i > Len(world.path))
    <3> DEFINE c == Candidate(world.path[i])
    <3>1. i \in DOMAIN world.path /\ world.path[i] \in Paths
      BY <1>1, <1>3, <1>a, <2>2, ListParts DEF Position
    <3>2. c \in Paths /\ (IsAbs(world.path[i]) => IsAbs(c))
      BY <1>1, <3>1, Forms, PlaceParts
    <3>3. /\ pc = "look" /\ UNCHANGED <<world, disk, had, changes, core, binary, entries, primary, warned>>
          /\ \/ i' = i + 1 /\ UNCHANGED <<pc, hit>>
             \/ IsAbs(world.path[i]) /\ hit' = c /\ pc' = "hit" /\ UNCHANGED i
             \/ pc' = "search" /\ i' = 1 /\ UNCHANGED hit
      BY <1>8, <2>2 DEF LookPath
    <3> HIDE DEF c
    <3>4. i =< Len(world.path) /\ i \in Nat
      BY <1>3, <1>a, <2>2 DEF Position
    <3> QED
      BY <1>1, <1>3, <1>a, <3>2, <3>3, <3>4 DEF Position, Found
  <2> QED
    BY <2>1, <2>2
<1>9. CASE CheckHit
  BY <1>1, <1>3, <1>9, <1>a DEF CheckHit, Located, Position, Found
<1>10. CASE SearchDir
  <2>1. CASE i > Len(core.searchDirs)
    BY <1>1, <1>3, <1>10, <1>a, <2>1, Roots DEF SearchDir, Located, Position, Found
  <2>2. CASE ~ (i > Len(core.searchDirs))
    <3> DEFINE c == Candidate(core.searchDirs[i])
    <3>1. pc = "search"
      BY <1>10 DEF SearchDir
    <3>2. core.searchDirs[i] \in Paths
      <4>1. i \in 1 .. Len(core.searchDirs)
        BY <1>3, <1>a, <2>2 DEF Position
      <4> QED
        BY <1>a, <4>1 DEF Inputs
    <3>3. c \in Paths
      BY <1>1, <3>2, Forms, PlaceParts
    <3>4. /\ UNCHANGED <<world, disk, had, changes, core, hit, entries, primary, warned>>
          /\ \/ binary' = c /\ pc' = "paths" /\ i' = 1
             \/ i' = i + 1 /\ UNCHANGED <<pc, binary>>
      BY <1>10, <2>2 DEF SearchDir, Located
    <3> HIDE DEF c
    <3>5. i =< Len(core.searchDirs) /\ i \in Nat
      BY <1>3, <1>a, <2>2 DEF Position
    <3> QED
      BY <1>1, <1>3, <1>a, <3>1, <3>3, <3>4, <3>5 DEF Position, Found
  <2> QED
    BY <2>1, <2>2
<1>11. CASE ResolvePath
  <2> DEFINE e == resolveSkillPath(world.slots[i])
  <2>1. i \in DOMAIN world.slots /\ pc = "paths" /\ i \in Nat /\ i =< Len(world.slots)
    BY <1>1, <1>3, <1>11, <1>a, ListParts DEF ResolvePath, Position
  <2>2. e \in Entries
    BY <1>1, <2>1, SlotParts, resolveSkillPathParts DEF Typed
  <2>3. entries' = Append(entries, e) /\ i' = i + 1
        /\ UNCHANGED <<world, disk, had, changes, core, pc, hit, binary, primary, warned>>
    BY <1>11 DEF ResolvePath
  <2> HIDE DEF e
  <2>4. entries' \in Seq(Entries) /\ Len(entries') = Len(entries) + 1 /\ Len(entries) = i - 1
    BY <1>a, <2>1, <2>2, <2>3 DEF Found, Position
  <2>5. Position'
    BY <1>3, <1>a, <2>1, <2>3, <2>4 DEF Position
  <2> QED
    BY <1>a, <2>3, <2>4, <2>5 DEF Found
<1>12. CASE Report
  <2>1. ASSUME NEW local \in BOOLEAN PROVE skillsPrimary(local) \in Entries
    <3>1. Nowhere \in Entries
      BY Roots DEF Nowhere, Entries
    <3>2. \A k \in Usable(local) : entries[k] \in Entries
      BY <1>a DEF Usable, Found
    <3> QED
      BY <1>a, <3>1, <3>2, skillsPrimaryParts DEF Found
  <2>2. primary' = [local \in BOOLEAN |-> skillsPrimary(local)] /\ pc' = "done" /\ pc = "paths"
        /\ i > Len(world.slots)
        /\ UNCHANGED <<world, disk, had, changes, core, i, hit, binary, entries, warned>>
    BY <1>12 DEF Report
  <2>3. Len(entries) = Len(world.slots)
    BY <1>3, <1>a, <2>2 DEF Position
  <2> QED
    BY <1>1, <1>3, <1>a, <2>1, <2>2, <2>3 DEF Position, Found
<1>13. CASE FileChanges
  BY <1>1, <1>13, <1>a, ChangeIsSilent DEF Position, Found
<1>14. CASE UNCHANGED vars
  BY <1>1, <1>14, <1>a DEF vars, Position, Found
<1> QED
  BY <1>4, <1>5, <1>6, <1>7, <1>8, <1>9, <1>10, <1>11, <1>12, <1>13, <1>14 DEF Next

\* Every variable holds a value of its type (the records of core.go, detect.go
\* and options.go, and the walks of locateBinary within their lists).
THEOREM TypeCorrect == Spec => []TypeOK
<1>1. Spec => []Typed
  BY TypedInit, TypedStep, PTL DEF Spec
<1> QED
  BY <1>1, TypedImplies, PTL

-----------------------------------------------------------------------------
(* Overrides.                                                              *)

Merged == mergeBinPaths(world.fileBins, mapFlags(world.flagBins))

\* What an override p ends with: it is found if it could be run when looked at.
Obeyed(h, bin, p) ==
    \/ bin = p /\ Past(h, p) \cap Runnable # {}
    \/ bin = <<>> /\ \E kind \in Past(h, p) : kind \notin Runnable

\* Once the options are taken, they are the merged ones; an override is looked
\* at and nothing else, and nothing else is looked at only without one.
Overriding ==
    /\ Begun => core.binPaths = Merged
    /\ Begun /\ pc # "detect" => warned = DOMAIN core.binPaths \ Catalogued
    /\ pc = "override" => Own(core.binPaths) # <<>>
    /\ pc \in {"look", "hit", "search"} => Own(core.binPaths) = <<>>
    /\ pc \in {"paths", "done"} /\ Own(core.binPaths) # <<>> =>
          Obeyed(had, binary, Root(world, Own(core.binPaths)))

\* Before the options are taken nothing is claimed of them.
LEMMA OverridingInit == Init => Overriding
  BY DEF Init, Overriding, Begun

\* An override that was obeyed was so whatever changes later.
LEMMA ObeyedStays ==
    ASSUME NEW h, NEW g, \A p : Past(h, p) \subseteq Past(g, p), NEW bin, NEW p, Obeyed(h, bin, p)
    PROVE  Obeyed(g, bin, p)
<1>1. Past(h, p) \subseteq Past(g, p)
  OBVIOUS
<1> QED
  BY <1>1 DEF Obeyed

\* What the stat of the override finds is found in its history.
LEMMA OverrideChecked ==
    ASSUME Files, CheckOverride
    PROVE  Obeyed(had, binary', Root(world, Own(core.binPaths))) /\ pc' = "paths"
<1> DEFINE p == Root(world, Own(core.binPaths))
<1>1. binary' = IF isExecutable(p) THEN p ELSE <<>>
  BY Forms DEF CheckOverride, Located
<1>2. KindOf(p) \in Past(had, p) /\ (isExecutable(p) <=> KindOf(p) \in Runnable)
  BY StatsAreKept DEF isExecutable, Runnable
<1> HIDE DEF p
<1>3. Obeyed(had, binary', p)
  BY <1>1, <1>2 DEF Obeyed
<1> QED
  BY <1>3 DEF CheckOverride, Located, p

\* Every step keeps to the override, or to there being none.
LEMMA OverridingStep == Typed /\ Overriding /\ [Next]_vars => Overriding'
<1> SUFFICES ASSUME Typed, Overriding, [Next]_vars PROVE Overriding'
  OBVIOUS
<1>1. world' = world /\ \A p : Past(had, p) \subseteq Past(had', p)
  BY FilesStep DEF Typed
<1>2. \A bin, p : Obeyed(had, bin, p) => Obeyed(had', bin, p)
  BY <1>1, ObeyedStays
<1>3. Merged' = Merged
  BY <1>1 DEF Merged
<1>4. CASE Refuse
  BY <1>4 DEF Refuse, Overriding, Begun
<1>5. CASE Open
  BY <1>1, <1>3, <1>5 DEF Open, Overriding, Begun, Merged
<1>6. CASE Detect
  BY <1>1, <1>3, <1>6, Forms DEF Detect, Overriding, Begun, unknownBinPathWarning
<1>7. CASE CheckOverride
  BY <1>1, <1>2, <1>3, <1>7, OverrideChecked DEF CheckOverride, Overriding, Begun, Typed
<1>8. CASE LookPath \/ CheckHit \/ SearchDir
  BY <1>1, <1>3, <1>8 DEF LookPath, CheckHit, SearchDir, Located, Overriding, Begun
<1>9. CASE ResolvePath \/ Report
  BY <1>1, <1>2, <1>3, <1>9 DEF ResolvePath, Report, Overriding, Begun
<1>10. CASE FileChanges
  BY <1>1, <1>2, <1>3, <1>10, ChangeIsSilent DEF Overriding, Begun
<1>11. CASE UNCHANGED vars
  BY <1>2, <1>3, <1>11 DEF vars, Overriding, Begun
<1> QED
  BY <1>4, <1>5, <1>6, <1>7, <1>8, <1>9, <1>10, <1>11 DEF Next

\* The override that was merged is the one that was asked for.
LEMMA MergedIsAsked ==
    ASSUME world \in Worlds
    PROVE  Own(Merged) = Asked(Agent)
<1> DEFINE flags == mapFlags(world.flagBins)
           named == Named(world.flagBins, Agent)
<1>1. world.flagBins \in Flags
  BY WorldParts DEF IsWorld, Flags
<1>2. /\ Agent \in DOMAIN flags <=> named # {}
      /\ named # {} => flags[Agent] = world.flagBins[Max(named)].path
  BY <1>1, MapFlagsParts
<1>3. Asked(Agent) = IF named # {} THEN world.flagBins[Max(named)].path
                     ELSE IF Agent \in DOMAIN world.fileBins THEN world.fileBins[Agent] ELSE <<>>
  BY DEF Asked, Named
<1>4. /\ DOMAIN Merged = DOMAIN world.fileBins \cup DOMAIN flags
      /\ \A id \in DOMAIN flags : Merged[id] = flags[id]
      /\ \A id \in DOMAIN world.fileBins \ DOMAIN flags : Merged[id] = world.fileBins[id]
  BY MergeBinPathsParts DEF Merged
<1> HIDE DEF flags, named
<1> QED
  BY <1>2, <1>3, <1>4 DEF Own

\* So what a call ends with is what the user asked for.
LEMMA OverridingImplies == Typed /\ Overriding => OverridesHonoured
<1> SUFFICES ASSUME Typed, Overriding, pc = "done" PROVE OverridesHonoured
  BY DEF OverridesHonoured
<1>1. world \in Worlds /\ core.binPaths = Merged
  BY DEF Typed, Files, Overriding, Begun
<1>2. Own(core.binPaths) = Asked(Agent)
  BY <1>1, MergedIsAsked
<1>3. warned = ({f.id : f \in ToSet(world.flagBins)} \cup DOMAIN world.fileBins) \ Catalogued
  <2>1. world.flagBins \in Flags
    BY <1>1, WorldParts DEF IsWorld, Flags
  <2>2. DOMAIN core.binPaths = DOMAIN world.fileBins \cup {f.id : f \in ToSet(world.flagBins)}
    <3> DEFINE flags == mapFlags(world.flagBins)
    <3>1. DOMAIN flags = {f.id : f \in ToSet(world.flagBins)}
      BY <2>1, MapFlagsParts
    <3>2. DOMAIN Merged = DOMAIN world.fileBins \cup DOMAIN flags
      BY MergeBinPathsParts DEF Merged
    <3> QED
      BY <1>1, <3>1, <3>2
  <2> QED
    BY <2>2 DEF Overriding, Begun
<1>4. ASSUME Asked(Agent) # <<>>
      PROVE  LET p == absPath(Asked(Agent)) IN
               \/ binary = p /\ Had(p) \cap Runnable # {}
               \/ binary = <<>> /\ ~(Had(p) \subseteq Runnable)
  <2> DEFINE p == absPath(Asked(Agent))
  <2>1. Obeyed(had, binary, p)
    BY <1>2, <1>4, Forms DEF Overriding
  <2>2. Had(p) = Past(had, p)
    BY Forms
  <2> HIDE DEF p
  <2>3. \/ binary = p /\ Had(p) \cap Runnable # {}
        \/ binary = <<>> /\ ~(Had(p) \subseteq Runnable)
    BY <2>1, <2>2 DEF Obeyed
  <2> QED
    BY <2>3 DEF p
<1> QED
  BY <1>3, <1>4 DEF OverridesHonoured

\* A binary-path override is obeyed whatever else is installed and whatever
\* changes during the call, the flag's before the file's (locateBinary,
\* mergeBinPaths, mapFlags, unknownBinPathWarning).
THEOREM OverridesAlwaysHonoured == Spec => []OverridesHonoured
<1>1. Spec => [](Typed /\ Overriding)
  <2>1. Init => Typed /\ Overriding
    BY TypedInit, OverridingInit
  <2>2. Typed /\ Overriding /\ [Next]_vars => Typed' /\ Overriding'
    BY TypedStep, OverridingStep
  <2> QED
    BY <2>1, <2>2, PTL DEF Spec
<1> QED
  BY <1>1, OverridingImplies, PTL

-----------------------------------------------------------------------------
(* The search.                                                             *)

\* At some moment a file could be run by somebody; it could not by anybody; it
\* could not by this user.
Ran(h, p) == Past(h, p) \cap Runnable # {}
Gone(h, p) == \E kind \in Past(h, p) : kind \notin Runnable
Lost(h, p) == \E kind \in Past(h, p) : kind # "exec"

\* None of these survives only until the next change.
LEMMA HistoryStays ==
    ASSUME NEW h, NEW g, \A p : Past(h, p) \subseteq Past(g, p)
    PROVE  \A p : /\ Ran(h, p) => Ran(g, p)
                  /\ Gone(h, p) => Gone(g, p)
                  /\ Lost(h, p) => Lost(g, p)
                  /\ "exec" \in Past(h, p) => "exec" \in Past(g, p)
<1> SUFFICES ASSUME NEW p
             PROVE  /\ Ran(h, p) => Ran(g, p)
                    /\ Gone(h, p) => Gone(g, p)
                    /\ Lost(h, p) => Lost(g, p)
                    /\ "exec" \in Past(h, p) => "exec" \in Past(g, p)
  OBVIOUS
<1>1. Past(h, p) \subseteq Past(g, p)
  OBVIOUS
<1> QED
  BY <1>1 DEF Ran, Gone, Lost

\* PATH has nothing at its first n places.
NoneOf(w, h, n) == \A k \in 1 .. n : Lost(h, Place(w, w.path[k]))

\* What hides the places of PATH from the n-th on.
Stops(w, h, n) ==
    /\ "exec" \in Past(h, Place(w, w.path[n]))
    /\ ~ IsAbs(w.path[n]) \/ Lost(h, Place(w, w.path[n]))

\* LookPath has given up: it saw nothing, or stopped at the n-th place.
GivenUp(w, h) ==
    \/ NoneOf(w, h, Len(w.path))
    \/ \E n \in DOMAIN w.path : NoneOf(w, h, n - 1) /\ Stops(w, h, n)

\* Neither have the first n search directories anything.
NoDir(w, h, dirs, n) == \A k \in 1 .. n : Gone(h, Place(w, dirs[k]))

\* How a search ends: in PATH, in a search directory, or with nothing.
Ends(w, h, dirs, bin) ==
    \/ \E n \in DOMAIN w.path :
          bin = Place(w, w.path[n]) /\ Ran(h, bin) /\ NoneOf(w, h, n - 1)
    \/ \E n \in DOMAIN dirs :
          /\ bin = Place(w, dirs[n]) /\ Ran(h, bin)
          /\ GivenUp(w, h) /\ NoDir(w, h, dirs, n - 1)
    \/ bin = <<>> /\ GivenUp(w, h) /\ NoDir(w, h, dirs, Len(dirs))

\* How far a search has got.
Searching ==
    /\ pc = "look" => NoneOf(world, had, i - 1)
    /\ pc = "hit" => /\ i \in DOMAIN world.path /\ hit = Place(world, world.path[i])
                     /\ "exec" \in Past(had, hit) /\ NoneOf(world, had, i - 1)
    /\ pc = "search" => GivenUp(world, had) /\ NoDir(world, had, core.searchDirs, i - 1)
    /\ pc \in {"paths", "done"} /\ Own(core.binPaths) = <<>> =>
          Ends(world, had, core.searchDirs, binary)

\* No search has begun.
LEMMA SearchingInit == Init => Searching
  BY DEF Init, Searching

\* A change of a file undoes no part of a search.
LEMMA SearchStays ==
    ASSUME NEW h, NEW g, \A p : Past(h, p) \subseteq Past(g, p), NEW w
    PROVE  /\ \A n : NoneOf(w, h, n) => NoneOf(w, g, n)
           /\ GivenUp(w, h) => GivenUp(w, g)
           /\ \A dirs, n : NoDir(w, h, dirs, n) => NoDir(w, g, dirs, n)
           /\ \A dirs, bin : Ends(w, h, dirs, bin) => Ends(w, g, dirs, bin)
<1>1. \A p : /\ Ran(h, p) => Ran(g, p)
             /\ Gone(h, p) => Gone(g, p)
             /\ Lost(h, p) => Lost(g, p)
             /\ "exec" \in Past(h, p) => "exec" \in Past(g, p)
  BY HistoryStays
<1>2. \A n : NoneOf(w, h, n) => NoneOf(w, g, n)
  BY <1>1 DEF NoneOf
<1>3. \A n : Stops(w, h, n) => Stops(w, g, n)
  BY <1>1 DEF Stops
<1>4. GivenUp(w, h) => GivenUp(w, g)
  BY <1>2, <1>3 DEF GivenUp
<1>5. \A dirs, n : NoDir(w, h, dirs, n) => NoDir(w, g, dirs, n)
  BY <1>1 DEF NoDir
<1>6. \A dirs, bin : Ends(w, h, dirs, bin) => Ends(w, g, dirs, bin)
  BY <1>1, <1>2, <1>4, <1>5 DEF Ends
<1> QED
  BY <1>2, <1>4, <1>5, <1>6

\* One more place without anything.
LEMMA OneMore ==
    /\ \A w, h : \A n \in Nat : NoneOf(w, h, n) /\ Lost(h, Place(w, w.path[n + 1]))
                                  => NoneOf(w, h, n + 1)
    /\ \A w, h, dirs : \A n \in Nat : NoDir(w, h, dirs, n) /\ Gone(h, Place(w, dirs[n + 1]))
                                        => NoDir(w, h, dirs, n + 1)
<1>1. \A n \in Nat : \A k \in 1 .. n + 1 : k \in 1 .. n \/ k = n + 1
  OBVIOUS
<1> QED
  BY <1>1 DEF NoneOf, NoDir

\* What is seen at a stat: a file that this user, or somebody, could run, or none.
LEMMA Sight ==
    ASSUME Files
    PROVE  \A p : /\ KindOf(p) = "exec" => "exec" \in Past(had, p) /\ Ran(had, p)
                  /\ KindOf(p) # "exec" => Lost(had, p)
                  /\ isExecutable(p) => Ran(had, p)
                  /\ ~ isExecutable(p) => Gone(had, p) /\ Lost(had, p)
<1>1. \A p : KindOf(p) \in Past(had, p)
  BY StatsAreKept
<1> QED
  BY <1>1 DEF isExecutable, Ran, Gone, Lost, Runnable

\* One place of PATH more: nothing there, a hit, or where LookPath stops.
LEMMA LookPathStep ==
    ASSUME Typed, Searching, LookPath, Own(core.binPaths) = <<>>
    PROVE  Searching'
<1>1. /\ pc = "look" /\ UNCHANGED <<world, disk, had, changes, core, binary, entries, primary, warned>>
      /\ NoneOf(world, had, i - 1) /\ i \in Nat /\ i >= 1
  BY DEF LookPath, Searching, Typed, Position
<1>2. /\ DOMAIN world.path = 1 .. Len(world.path) /\ Len(world.path) \in Nat
  BY ListParts DEF Typed, Files
<1>3. CASE i > Len(world.path)
  <2>1. pc' = "search" /\ i' = 1
    BY <1>3 DEF LookPath
  <2>2. i - 1 = Len(world.path)
    BY <1>1, <1>2, <1>3 DEF Typed, Position
  <2>3. GivenUp(world, had)
    BY <1>1, <2>2 DEF GivenUp
  <2>4. NoDir(world, had, core.searchDirs, 0)
    BY DEF NoDir
  <2> QED
    BY <1>1, <2>1, <2>3, <2>4 DEF Searching
<1>4. CASE ~ (i > Len(world.path))
  <2> DEFINE c == Place(world, world.path[i])
  <2>1. i \in DOMAIN world.path
    BY <1>1, <1>2, <1>4
  <2>2. \/ KindOf(c) # "exec" /\ i' = i + 1 /\ UNCHANGED <<pc, hit>>
        \/ /\ KindOf(c) = "exec" /\ IsAbs(world.path[i])
           /\ hit' = c /\ pc' = "hit" /\ UNCHANGED i
        \/ /\ KindOf(c) = "exec" /\ ~ IsAbs(world.path[i])
           /\ pc' = "search" /\ i' = 1 /\ UNCHANGED hit
    BY <1>4, Forms DEF LookPath
  <2>3. CASE KindOf(c) # "exec"
    <3>1. Lost(had, c)
      BY <2>3, Sight DEF Typed
    <3>2. i - 1 \in Nat /\ (i - 1) + 1 = i
      BY <1>1
    <3>3. NoneOf(world, had, i)
      BY <1>1, <3>1, <3>2, OneMore
    <3>4. i' = i + 1 /\ pc' = "look" /\ i' - 1 = i
      BY <1>1, <2>2, <2>3
    <3> QED
      BY <1>1, <3>3, <3>4 DEF Searching
  <2>4. CASE KindOf(c) = "exec" /\ IsAbs(world.path[i])
    <3>1. "exec" \in Past(had, c)
      BY <2>4, Sight DEF Typed
    <3> QED
      BY <1>1, <2>1, <2>2, <2>4, <3>1 DEF Searching
  <2>5. CASE KindOf(c) = "exec" /\ ~ IsAbs(world.path[i])
    <3>1. "exec" \in Past(had, c)
      BY <2>5, Sight DEF Typed
    <3>2. GivenUp(world, had)
      BY <1>1, <2>1, <2>5, <3>1 DEF GivenUp, Stops
    <3>3. NoDir(world, had, core.searchDirs, 0)
      BY DEF NoDir
    <3> QED
      BY <1>1, <2>2, <2>5, <3>2, <3>3 DEF Searching
  <2> QED
    BY <2>3, <2>4, <2>5
<1> QED
  BY <1>3, <1>4

\* The second look at a hit: it is the binary, or hides the rest of PATH.
LEMMA CheckHitStep ==
    ASSUME Typed, Searching, CheckHit, Own(core.binPaths) = <<>>
    PROVE  Searching'
<1>1. /\ pc = "hit" /\ UNCHANGED <<world, disk, had, changes, core, hit, entries, primary, warned>>
      /\ i \in DOMAIN world.path /\ hit = Place(world, world.path[i])
      /\ "exec" \in Past(had, hit) /\ NoneOf(world, had, i - 1)
  BY DEF CheckHit, Searching
<1>2. CASE isExecutable(hit)
  <2>1. pc' = "paths" /\ binary' = hit
    BY <1>2 DEF CheckHit, Located
  <2>2. Ran(had, hit)
    BY <1>2, Sight DEF Typed
  <2>3. Ends(world, had, core.searchDirs, hit)
    BY <1>1, <2>2 DEF Ends
  <2> QED
    BY <1>1, <2>1, <2>3 DEF Searching
<1>3. CASE ~ isExecutable(hit)
  <2>1. pc' = "search" /\ i' = 1
    BY <1>3 DEF CheckHit
  <2>2. Lost(had, hit)
    BY <1>3, Sight DEF Typed
  <2>3. GivenUp(world, had)
    BY <1>1, <2>2 DEF GivenUp, Stops
  <2>4. NoDir(world, had, core.searchDirs, 0)
    BY DEF NoDir
  <2> QED
    BY <1>1, <2>1, <2>3, <2>4 DEF Searching
<1> QED
  BY <1>2, <1>3

\* One search directory more: the binary, or nothing there.
LEMMA SearchDirStep ==
    ASSUME Typed, Searching, SearchDir, Own(core.binPaths) = <<>>
    PROVE  Searching'
<1>1. /\ pc = "search" /\ UNCHANGED <<world, disk, had, changes, core, hit, entries, primary, warned>>
      /\ GivenUp(world, had) /\ NoDir(world, had, core.searchDirs, i - 1)
      /\ i \in Nat /\ i >= 1
  BY DEF SearchDir, Searching, Typed, Position
<1>2. /\ DOMAIN core.searchDirs = 1 .. Len(core.searchDirs) /\ Len(core.searchDirs) \in Nat
  BY DEF Typed, Inputs
<1>3. CASE i > Len(core.searchDirs)
  <2>1. pc' = "paths" /\ binary' = <<>>
    BY <1>3 DEF SearchDir, Located
  <2>2. i - 1 = Len(core.searchDirs)
    BY <1>1, <1>2, <1>3 DEF Typed, Position
  <2>3. Ends(world, had, core.searchDirs, <<>>)
    BY <1>1, <2>2 DEF Ends
  <2> QED
    BY <1>1, <2>1, <2>3 DEF Searching
<1>4. CASE ~ (i > Len(core.searchDirs))
  <2> DEFINE c == Place(world, core.searchDirs[i])
  <2>1. i \in DOMAIN core.searchDirs
    BY <1>1, <1>2, <1>4
  <2>2. \/ isExecutable(c) /\ binary' = c /\ pc' = "paths"
        \/ ~ isExecutable(c) /\ i' = i + 1 /\ UNCHANGED <<pc, binary>>
    BY <1>4, Forms DEF SearchDir, Located
  <2>3. CASE isExecutable(c)
    <3>1. Ran(had, c)
      BY <2>3, Sight DEF Typed
    <3>2. Ends(world, had, core.searchDirs, c)
      BY <1>1, <2>1, <3>1 DEF Ends
    <3> QED
      BY <1>1, <2>2, <2>3, <3>2 DEF Searching
  <2>4. CASE ~ isExecutable(c)
    <3>1. Gone(had, c)
      BY <2>4, Sight DEF Typed
    <3>2. i - 1 \in Nat /\ (i - 1) + 1 = i
      BY <1>1
    <3>3. NoDir(world, had, core.searchDirs, i)
      BY <1>1, <3>1, <3>2, OneMore
    <3>4. i' = i + 1 /\ pc' = "search" /\ i' - 1 = i
      BY <1>1, <2>2, <2>4
    <3> QED
      BY <1>1, <3>3, <3>4 DEF Searching
  <2> QED
    BY <2>3, <2>4
<1> QED
  BY <1>3, <1>4

\* Every step carries the search on or leaves it where it is.
LEMMA SearchingStep == Typed /\ Overriding /\ Searching /\ [Next]_vars => Searching'
<1> SUFFICES ASSUME Typed, Overriding, Searching, [Next]_vars PROVE Searching'
  OBVIOUS
<1>1. world' = world /\ \A p : Past(had, p) \subseteq Past(had', p)
  BY FilesStep DEF Typed
<1>2. CASE Refuse
  BY <1>2 DEF Refuse, Searching
<1>3. CASE Open
  BY <1>3 DEF Open, Searching
<1>4. CASE Detect
  <2>1. pc' \in {"override", "look"} /\ i' = 1
    BY <1>4 DEF Detect, Typed, Position
  <2>2. NoneOf(world', had', 0)
    BY DEF NoneOf
  <2> QED
    BY <2>1, <2>2 DEF Searching
<1>5. CASE CheckOverride
  <2>1. pc' = "paths" /\ core' = core /\ Own(core.binPaths) # <<>>
    BY <1>5 DEF CheckOverride, Located, Overriding
  <2> QED
    BY <2>1 DEF Searching
<1>6. CASE LookPath
  BY <1>6, LookPathStep DEF LookPath, Overriding
<1>7. CASE CheckHit
  BY <1>7, CheckHitStep DEF CheckHit, Overriding
<1>8. CASE SearchDir
  BY <1>8, SearchDirStep DEF SearchDir, Overriding
<1>9. CASE ResolvePath \/ Report
  BY <1>9 DEF ResolvePath, Report, Searching
<1>10. CASE FileChanges \/ UNCHANGED vars
  <2>1. UNCHANGED <<world, core, pc, i, hit, binary>>
    BY <1>10, ChangeIsSilent DEF vars
  <2>2. /\ \A n : NoneOf(world, had, n) => NoneOf(world, had', n)
        /\ GivenUp(world, had) => GivenUp(world, had')
        /\ \A dirs, n : NoDir(world, had, dirs, n) => NoDir(world, had', dirs, n)
        /\ \A dirs, bin : Ends(world, had, dirs, bin) => Ends(world, had', dirs, bin)
    BY <1>1, SearchStays
  <2>3. "exec" \in Past(had, hit) => "exec" \in Past(had', hit)
    BY <1>1
  <2> QED
    BY <2>1, <2>2, <2>3 DEF Searching
<1> QED
  BY <1>2, <1>3, <1>4, <1>5, <1>6, <1>7, <1>8, <1>9, <1>10 DEF Next

\* The places of PATH, then those of the search directories.
LEMMA PlacesParts ==
    ASSUME Typed
    PROVE  LET m == Len(world.path)
               n == Len(core.searchDirs)
           IN /\ m \in Nat /\ n \in Nat /\ DOMAIN Places = 1 .. m + n
              /\ DOMAIN world.path = 1 .. m /\ DOMAIN core.searchDirs = 1 .. n
              /\ \A k \in 1 .. m : Places[k] = Place(world, world.path[k])
              /\ \A k \in 1 .. n : Places[m + k] = Place(world, core.searchDirs[k])
<1> DEFINE m == Len(world.path)
           n == Len(core.searchDirs)
           a == [k \in DOMAIN world.path |-> Candidate(world.path[k])]
           b == [k \in DOMAIN core.searchDirs |-> Candidate(core.searchDirs[k])]
<1>1. m \in Nat /\ n \in Nat /\ DOMAIN world.path = 1 .. m /\ DOMAIN core.searchDirs = 1 .. n
  BY ListParts DEF Typed, Files, Inputs
<1>2. /\ \A k \in 1 .. m : a[k] = Place(world, world.path[k])
      /\ \A k \in 1 .. n : b[k] = Place(world, core.searchDirs[k])
  BY <1>1, Forms
<1>3. a \in Seq(Paths) /\ b \in Seq(Paths) /\ Len(a) = m /\ Len(b) = n
  <2>1. \A k \in 1 .. m : a[k] \in Paths
    BY <1>1, <1>2, ListParts, PlaceParts DEF Typed, Files
  <2>2. \A k \in 1 .. n : b[k] \in Paths
    <3>1. \A k \in 1 .. n : core.searchDirs[k] \in Paths
      BY <1>1 DEF Typed, Inputs
    <3> QED
      BY <1>1, <1>2, <3>1, PlaceParts DEF Typed, Files
  <2>3. DOMAIN a = 1 .. m /\ DOMAIN b = 1 .. n
    BY <1>1
  <2>4. a = [k \in 1 .. m |-> a[k]] /\ b = [k \in 1 .. n |-> b[k]]
    BY <1>1
  <2> HIDE DEF a, b, m, n
  <2>5. a \in [1 .. m -> Paths] /\ b \in [1 .. n -> Paths]
    BY <2>1, <2>2, <2>4
  <2>6. a \in Seq(Paths) /\ b \in Seq(Paths)
    BY <1>1, <2>5
  <2> QED
    BY <1>1, <2>3, <2>6
<1>4. Places = a \o b
  BY DEF Places
<1> HIDE DEF a, b, m, n
<1>5. /\ a \o b \in Seq(Paths) /\ Len(a \o b) = m + n
      /\ \A k \in 1 .. m + n : (a \o b)[k] = IF k =< m THEN a[k] ELSE b[k - m]
  BY <1>3, ConcatProperties
<1>6. DOMAIN Places = 1 .. m + n
  BY <1>4, <1>5
<1>7. \A k \in 1 .. m : Places[k] = Place(world, world.path[k])
  BY <1>1, <1>2, <1>4, <1>5
<1>8. ASSUME NEW k \in 1 .. n PROVE Places[m + k] = Place(world, core.searchDirs[k])
  <2>1. m + k \in 1 .. m + n /\ ~ (m + k =< m) /\ (m + k) - m = k
    BY <1>1
  <2> QED
    BY <1>2, <1>4, <1>5, <2>1
<1> QED
  BY <1>1, <1>6, <1>7, <1>8 DEF m, n

\* A search passes over no file that stays, except for an earlier one.
LEMMA SearchingImplies == Typed /\ Overriding /\ Searching => StayedIsFound
<1> SUFFICES ASSUME Typed, Overriding, Searching, pc = "done", Asked(Agent) = <<>>
             PROVE  StayedIsFound
  BY DEF StayedIsFound
<1> DEFINE m == Len(world.path)
           n == Len(core.searchDirs)
<1>1. /\ m \in Nat /\ n \in Nat /\ DOMAIN Places = 1 .. m + n
      /\ DOMAIN world.path = 1 .. m /\ DOMAIN core.searchDirs = 1 .. n
      /\ \A k \in 1 .. m : Places[k] = Place(world, world.path[k])
      /\ \A k \in 1 .. n : Places[m + k] = Place(world, core.searchDirs[k])
  BY PlacesParts
<1> HIDE DEF m, n
<1>2. Ends(world, had, core.searchDirs, binary)
  <2>1. Own(core.binPaths) = <<>>
    BY MergedIsAsked DEF Typed, Files, Overriding, Begun
  <2> QED
    BY <2>1 DEF Searching
<1> DEFINE Steady(k) == IF k =< m
                        THEN Had(Places[k]) = {"exec"} /\ IsAbs(world.path[k]) /\ ~Hidden(k)
                        ELSE Had(Places[k]) \subseteq Runnable
<1>3. \A p : /\ Lost(had, p) => Had(p) # {"exec"}
             /\ Gone(had, p) => ~ (Had(p) \subseteq Runnable)
             /\ Ran(had, p) => Had(p) \cap Runnable # {}
  BY Forms DEF Lost, Gone, Ran
<1>4. ASSUME NEW c \in Nat, NoneOf(world, had, c), NEW k \in 1 .. m, k =< c
      PROVE  ~ Steady(k)
  <2>1. Lost(had, Places[k])
    BY <1>1, <1>4 DEF NoneOf
  <2> QED
    BY <1>3, <2>1
<1>5. ASSUME GivenUp(world, had), NEW k \in 1 .. m PROVE ~ Steady(k)
  <2>1. CASE NoneOf(world, had, m)
    BY <1>1, <1>4, <2>1
  <2>2. CASE \E c \in DOMAIN world.path : NoneOf(world, had, c - 1) /\ Stops(world, had, c)
    <3>1. PICK c \in 1 .. m : NoneOf(world, had, c - 1) /\ Stops(world, had, c)
      BY <1>1, <2>2
    <3>2. CASE k =< c - 1
      <4>1. c - 1 \in Nat
        BY <1>1
      <4> QED
        BY <1>4, <3>1, <3>2, <4>1
    <3>3. CASE k = c
      BY <1>1, <1>3, <3>1, <3>3 DEF Stops
    <3>4. CASE k > c
      <4>1. c \in 1 .. (k - 1) /\ c =< Len(world.path)
        BY <1>1, <3>1, <3>4 DEF m
      <4>2. "exec" \in Had(Places[c]) /\ (~IsAbs(world.path[c]) \/ Had(Places[c]) # {"exec"})
        BY <1>1, <1>3, <3>1, Forms DEF Stops
      <4>3. Hidden(k)
        BY <4>1, <4>2 DEF Hidden
      <4> QED
        BY <4>3
    <3> QED
      BY <1>1, <3>1, <3>2, <3>3, <3>4
  <2> QED
    BY <1>5, <2>1, <2>2 DEF GivenUp, m
<1>6. ASSUME NEW c \in Nat, NoDir(world, had, core.searchDirs, c), NEW k \in 1 .. n, k =< c
      PROVE  ~ Steady(m + k)
  <2>1. Gone(had, Places[m + k])
    <3>1. k \in 1 .. c
      BY <1>1, <1>6
    <3>2. Gone(had, Place(world, core.searchDirs[k]))
      BY <1>6, <3>1 DEF NoDir
    <3>3. Places[m + k] = Place(world, core.searchDirs[k])
      BY <1>1
    <3> QED
      BY <3>2, <3>3
  <2>2. ~ (m + k =< m)
    BY <1>1
  <2> QED
    BY <1>3, <2>1, <2>2
<1>7. /\ \A k \in 1 .. m + n : Steady(k) => \E j \in 1 .. k : binary = Places[j]
      /\ binary # <<>> => binary \in ToSet(Places) /\ Had(binary) \cap Runnable # {}
  <2> HIDE DEF Steady
  <2>0. \A k \in 1 .. m + n : k \in 1 .. m \/ (k - m \in 1 .. n /\ m + (k - m) = k)
    BY <1>1
  <2>1. CASE \E c \in DOMAIN world.path :
               binary = Place(world, world.path[c]) /\ Ran(had, binary) /\ NoneOf(world, had, c - 1)
    <3>1. PICK c \in 1 .. m : binary = Places[c] /\ Ran(had, binary) /\ NoneOf(world, had, c - 1)
      BY <1>1, <2>1
    <3>2. ASSUME NEW k \in 1 .. m + n, Steady(k) PROVE c \in 1 .. k
      <4>1. ~ (k \in 1 .. m /\ k =< c - 1)
        BY <1>1, <1>4, <3>1, <3>2
      <4> QED
        BY <1>1, <3>1, <4>1
    <3>3. c \in DOMAIN Places
      BY <1>1
    <3> QED
      BY <1>3, <3>1, <3>2, <3>3 DEF ToSet
  <2>2. CASE \E c \in DOMAIN core.searchDirs :
               /\ binary = Place(world, core.searchDirs[c]) /\ Ran(had, binary)
               /\ GivenUp(world, had) /\ NoDir(world, had, core.searchDirs, c - 1)
    <3>1. PICK c \in 1 .. n : /\ binary = Places[m + c] /\ Ran(had, binary)
                              /\ GivenUp(world, had) /\ NoDir(world, had, core.searchDirs, c - 1)
      BY <1>1, <2>2
    <3>2. ASSUME NEW k \in 1 .. m + n, Steady(k) PROVE m + c \in 1 .. k
      <4>1. k - m \in 1 .. n /\ m + (k - m) = k
        BY <1>5, <2>0, <3>1, <3>2
      <4>2. ~ (k - m =< c - 1)
        <5>1. c - 1 \in Nat
          BY <1>1
        <5>2. k - m =< c - 1 => ~ Steady(m + (k - m))
          BY <1>6, <3>1, <4>1, <5>1
        <5> QED
          BY <3>2, <4>1, <5>2
      <4> QED
        BY <1>1, <3>1, <4>1, <4>2
    <3>3. m + c \in DOMAIN Places
      BY <1>1
    <3> QED
      BY <1>3, <3>1, <3>2, <3>3 DEF ToSet
  <2>3. CASE binary = <<>> /\ GivenUp(world, had) /\ NoDir(world, had, core.searchDirs, n)
    <3>1. ASSUME NEW k \in 1 .. m + n, Steady(k) PROVE FALSE
      <4>1. k - m \in 1 .. n /\ m + (k - m) = k
        BY <1>5, <2>0, <2>3, <3>1
      <4>2. ~ (k - m =< n)
        BY <1>1, <1>6, <2>3, <3>1, <4>1
      <4> QED
        BY <1>1, <4>1, <4>2
    <3> QED
      BY <2>3, <3>1
  <2> QED
    BY <1>2, <2>1, <2>2, <2>3 DEF Ends, n
<1> QED
  BY <1>1, <1>7 DEF StayedIsFound, m

\* Without an override, a binary that could be run throughout the call is found,
\* or one at an earlier place is, whatever changes between the stats
\* (locateBinary); and what is found could be run at some moment.
THEOREM StayedIsAlwaysFound == Spec => []StayedIsFound
<1>1. Spec => [](Typed /\ Overriding /\ Searching)
  <2>1. Init => Typed /\ Overriding /\ Searching
    BY TypedInit, OverridingInit, SearchingInit
  <2>2. Typed /\ Overriding /\ Searching /\ [Next]_vars => Typed' /\ Overriding' /\ Searching'
    BY TypedStep, OverridingStep, SearchingStep
  <2> QED
    BY <2>1, <2>2, PTL DEF Spec
<1> QED
  BY <1>1, SearchingImplies, PTL

-----------------------------------------------------------------------------
(* Directories.                                                            *)

\* The positions of the entries in a scope with these roles.
Of(w, es, local, roles) ==
    {k \in DOMAIN es : w.slots[k].local = local /\ w.slots[k].role \in roles}
Skills == {"agents", "native", "alternative"}

\* The primary of a scope is its first usable entry.
Chosen(w, es, local, e) ==
    \/ \E k \in Of(w, es, local, Skills) :
          /\ es[k] = e
          /\ \A j \in Of(w, es, local, Skills) : j < k => es[j].path = <<>>
    \/ /\ e = Nowhere /\ Of(w, es, local, {"alternative"}) = {}
       /\ \A k \in Of(w, es, local, Skills) : es[k].path = <<>>

\* What has been resolved stays as it was found.
Resolving ==
    /\ \A k \in DOMAIN entries : /\ Rooted(world, world.slots[k], entries[k])
                                  /\ Shown(had, entries[k])
    /\ pc = "done" => \A local \in BOOLEAN : Chosen(world, entries, local, primary[local])

\* Nothing is resolved yet.
LEMMA ResolvingInit == Init => Resolving
<1>1. DOMAIN <<>> = {}
  OBVIOUS
<1> QED
  BY <1>1 DEF Init, Resolving

\* Report chooses so.
LEMMA ReportChooses ==
    ASSUME Typed, NEW local \in BOOLEAN
    PROVE  Chosen(world, entries, local, skillsPrimary(local))
<1> DEFINE skills == Of(world, entries, local, Skills)
<1>1. entries \in Seq(Entries) /\ DOMAIN entries = 1 .. Len(entries)
  BY DEF Typed, Found
<1>2. /\ Usable(local) \subseteq skills
      /\ \A k \in skills \ Usable(local) : entries[k].path = <<>>
      /\ Of(world, entries, local, {"alternative"}) \subseteq Usable(local)
  BY DEF Usable, Of, Skills
<1>3. \/ Usable(local) = {} /\ skillsPrimary(local) = Nowhere
      \/ \E k \in Usable(local) : /\ skillsPrimary(local) = entries[k]
                                  /\ \A j \in Usable(local) : k =< j
  BY <1>1, skillsPrimaryParts
<1>4. skills \subseteq Nat
  BY <1>1 DEF Of
<1> HIDE DEF skills
<1>5. CASE Usable(local) = {} /\ skillsPrimary(local) = Nowhere
  BY <1>2, <1>5 DEF Chosen, skills
<1>6. ASSUME NEW k \in Usable(local), skillsPrimary(local) = entries[k],
             \A j \in Usable(local) : k =< j
      PROVE  Chosen(world, entries, local, skillsPrimary(local))
  <2>3. k \in skills
    BY <1>2
  <2>1. \A j \in skills : j < k => j \notin Usable(local)
    BY <1>4, <1>6, <2>3
  <2>2. \A j \in skills : j < k => entries[j].path = <<>>
    BY <1>2, <2>1
  <2> QED
    BY <1>6, <2>2, <2>3 DEF Chosen, skills
<1> QED
  BY <1>3, <1>5, <1>6

\* A change of a file does not unsay what was found.
LEMMA ShownStays ==
    ASSUME NEW h, NEW g, \A p : Past(h, p) \subseteq Past(g, p), NEW e, Shown(h, e)
    PROVE  Shown(g, e)
<1>1. Past(h, e.path) \subseteq Past(g, e.path)
  OBVIOUS
<1> QED
  BY <1>1 DEF Shown

\* Every step adds an entry so resolved, chooses among them, or leaves them.
LEMMA ResolvingStep == Typed /\ Resolving /\ [Next]_vars => Resolving'
<1> SUFFICES ASSUME Typed, Resolving, [Next]_vars PROVE Resolving'
  OBVIOUS
<1>1. world' = world /\ \A p : Past(had, p) \subseteq Past(had', p)
  BY FilesStep DEF Typed
<1>2. \A e : Shown(had, e) => Shown(had', e)
  BY <1>1, ShownStays
<1>3. CASE Refuse \/ Open \/ Detect \/ CheckOverride \/ LookPath \/ CheckHit \/ SearchDir
  <2>1. UNCHANGED entries /\ pc' # "done"
    BY <1>3 DEF Refuse, Open, Detect, CheckOverride, LookPath, CheckHit, SearchDir, Located
  <2> QED
    BY <1>1, <1>2, <2>1 DEF Resolving
<1>4. CASE ResolvePath
  <2> DEFINE e == resolveSkillPath(world.slots[i])
             m == Len(entries)
  <2>1. /\ pc = "paths" /\ pc' = pc /\ entries' = Append(entries, e) /\ i =< Len(world.slots)
        /\ had' = had
    BY <1>4 DEF ResolvePath
  <2>2. i \in DOMAIN world.slots /\ m = i - 1 /\ i \in Nat
    BY <2>1, ListParts DEF Typed, Files, Position
  <2>3. Rooted(world, world.slots[i], e) /\ Shown(had, e)
    BY <2>2, SlotParts, resolveSkillPathParts DEF Typed, Files
  <2>4. entries \in Seq(Entries) /\ m \in Nat /\ DOMAIN entries = 1 .. m
    BY DEF Typed, Found
  <2> HIDE DEF e, m
  <2>5. /\ DOMAIN entries' = 1 .. m + 1 /\ entries'[m + 1] = e
        /\ \A k \in 1 .. m : entries'[k] = entries[k]
    BY <2>1, <2>4 DEF m
  <2>6. \A k \in 1 .. m + 1 : k \in 1 .. m \/ k = m + 1
    BY <2>4
  <2>7. m + 1 = i
    BY <2>2
  <2>8. ASSUME NEW k \in 1 .. m + 1
        PROVE  Rooted(world, world.slots[k], entries'[k]) /\ Shown(had, entries'[k])
    <3>1. CASE k \in 1 .. m
      BY <2>4, <2>5, <3>1 DEF Resolving
    <3>2. CASE k = m + 1
      BY <2>3, <2>5, <2>7, <3>2
    <3> QED
      BY <2>6, <3>1, <3>2
  <2> QED
    BY <1>1, <2>1, <2>5, <2>8 DEF Resolving
<1>5. CASE Report
  <2>1. /\ UNCHANGED <<entries, had>>
        /\ primary' = [local \in BOOLEAN |-> skillsPrimary(local)]
    BY <1>5 DEF Report
  <2>2. \A local \in BOOLEAN : Chosen(world, entries, local, primary'[local])
    BY <2>1, ReportChooses
  <2> QED
    BY <1>1, <2>1, <2>2 DEF Resolving
<1>6. CASE FileChanges \/ UNCHANGED vars
  <2>1. UNCHANGED <<entries, pc, primary>>
    BY <1>6, ChangeIsSilent DEF vars
  <2> QED
    BY <1>1, <1>2, <2>1 DEF Resolving
<1> QED
  BY <1>3, <1>4, <1>5, <1>6 DEF Next

\* So resolved, directories mean the same from wherever they are used.
LEMMA ResolvingImplies == Typed /\ Resolving => PathsAreAnchored
<1> SUFFICES ASSUME Typed, Resolving, pc = "done" PROVE PathsAreAnchored
  BY DEF PathsAreAnchored
<1>1. ASSUME NEW k \in DOMAIN entries
      PROVE  LET e == entries[k]
                 slot == world.slots[k]
             IN /\ slot.raw = <<>> => e = Nowhere
                /\ ToSet(e.path) \cap {"~", "$V"} = {}
                /\ (slot.local /\ slot.raw # <<>> /\ IsAbs(world.wd)) => IsAbs(e.path)
                /\ IF e.exists THEN Had(e.path) # {"absent"}
                   ELSE e.path # <<>> => "absent" \in Had(e.path)
  <2> DEFINE e == entries[k]
             slot == world.slots[k]
  <2>1. Rooted(world, slot, e) /\ Shown(had, e)
    BY DEF Resolving
  <2>2. e.path \in Paths
    <3>1. e \in Entries
      BY DEF Typed, Found
    <3> HIDE DEF e
    <3> QED
      BY <3>1 DEF Entries
  <2> HIDE DEF e, slot
  <2>3. ToSet(e.path) \cap {"~", "$V"} = {}
    BY <2>1, <2>2, FreeParts DEF Rooted, Expanded
  <2>4. IF e.exists THEN Had(e.path) # {"absent"}
        ELSE e.path # <<>> => "absent" \in Had(e.path)
    BY <2>1, Forms DEF Shown
  <2> QED
    BY <2>1, <2>3, <2>4 DEF Rooted, e, slot
<1>2. \A local \in BOOLEAN : Chosen(world, entries, local, primary[local])
  BY DEF Resolving
<1> QED
  BY <1>1, <1>2 DEF PathsAreAnchored, Chosen, Of, Skills

\* The directories mean the same from wherever they are used, their existence is
\* what some moment of the call showed, and the primary of a scope is the first
\* of its own entries that has a path (resolveSkillPath, expandPath,
\* skillsPrimary).
THEOREM PathsAreAlwaysAnchored == Spec => []PathsAreAnchored
<1>1. Spec => [](Typed /\ Resolving)
  <2>1. Init => Typed /\ Resolving
    BY TypedInit, ResolvingInit
  <2>2. Typed /\ Resolving /\ [Next]_vars => Typed' /\ Resolving'
    BY TypedStep, ResolvingStep
  <2> QED
    BY <2>1, <2>2, PTL DEF Spec
<1> QED
  BY <1>1, ResolvingImplies, PTL
=============================================================================
