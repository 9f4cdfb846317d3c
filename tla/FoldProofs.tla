------------------------------ MODULE FoldProofs ------------------------------
(***************************************************************************)
(* Induction over a FoldLeft. The community modules define it by recursion *)
(* over the sets of positions of the sequence, the last position last: its *)
(* value is that of a function of these sets which is CHOSEn. Here is that *)
(* there is such a function, and what passes from each set of positions to *)
(* the next passes to them all; both by induction on the number of         *)
(* positions, made from the least number at which a claim would fail, for  *)
(* the induction theorems of the library cannot be instantiated by the     *)
(* provers at hand.                                                        *)
(***************************************************************************)
EXTENDS SequencesExt, TLAPS, WellFoundedInduction

-----------------------------------------------------------------------------
(* Induction up to a number, and the last of a set of positions.           *)

\* What is false of some number is false of a least one.
LEMMA LeastNumber ==
    ASSUME NEW T \in SUBSET Nat, T # {}
    PROVE  \E k \in T : \A j \in T : k =< j
<1>1. PICK k \in T : \A j \in T : ~ (<<j, k>> \in OpToRel(<, Nat))
  BY NatLessThanWellFounded, WFMin
<1>2. \A j \in T : ~ (j < k)
  BY <1>1 DEF OpToRel
<1> QED
  BY <1>2

\* So what holds of 0, and passes from each number to the next, holds up to n.
LEMMA UpTo ==
    ASSUME NEW n \in Nat, NEW Good \in SUBSET Nat, 0 \in Good,
           \A k \in 0 .. n : k \in Good => k + 1 \in Good
    PROVE  n \in Good
<1> DEFINE T == {k \in 0 .. n : k \notin Good}
<1> SUFFICES ASSUME T # {} PROVE FALSE
  OBVIOUS
<1>0. T \in SUBSET Nat
  OBVIOUS
<1>1. PICK k \in T : \A j \in T : k =< j
  <2> HIDE DEF T
  <2> QED
    BY <1>0, LeastNumber
<1>2. k # 0 /\ k - 1 \in 0 .. n /\ k - 1 \notin T
  BY <1>1
<1> QED
  BY <1>1, <1>2

\* The last of the positions up to k is one of them, and no later one.
LEMMA MaxUpTo ==
    ASSUME NEW k \in Nat, NEW s \in SUBSET (1 .. k), s # {}
    PROVE  Max(s) \in s /\ \A j \in s : j =< Max(s)
<1> DEFINE T == {k - j : j \in s}
<1>1. T \in SUBSET Nat /\ T # {}
  <2>1. \A j \in s : k - j \in Nat
    OBVIOUS
  <2>2. PICK j \in s : TRUE
    OBVIOUS
  <2> QED
    BY <2>1, <2>2
<1>2. PICK x \in T : \A y \in T : x =< y
  <2> HIDE DEF T
  <2> QED
    BY <1>1, LeastNumber
<1>3. PICK m \in s : x = k - m
  BY <1>2
<1>4. \A j \in s : m >= j
  <2> SUFFICES ASSUME NEW j \in s PROVE m >= j
    OBVIOUS
  <2>1. k - m =< k - j
    BY <1>2, <1>3
  <2> QED
    BY <2>1
<1>5. Max(s) \in s /\ \A j \in s : Max(s) >= j
  BY <1>4 DEF Max
<1> QED
  BY <1>5

-----------------------------------------------------------------------------
(* The fold.                                                               *)

\* The positions before the last of s.
Prior(s) == s \ {Max(s)}

\* The last of some positions is one of them, and before it are lower ones.
LEMMA BeforeUpTo ==
    ASSUME NEW k \in Nat, NEW s \in SUBSET (1 .. k + 1), s # {}
    PROVE  Max(s) \in s /\ Prior(s) \in SUBSET (1 .. k)
<1> DEFINE m == Max(s)
<1>1. m \in s /\ \A j \in s : j =< m
  <2>1. k + 1 \in Nat
    OBVIOUS
  <2> QED
    BY <2>1, MaxUpTo
<1> HIDE DEF m
<1>2. \A j \in s : j \in 1 .. k + 1
  OBVIOUS
<1>3. ASSUME NEW j \in s, j # m PROVE j \in 1 .. k
  BY <1>1, <1>2, <1>3
<1> QED
  BY <1>1, <1>3 DEF Prior, m

\* What holds of no position, and of a set when of those before its last one,
\* holds of all the positions up to n.
LEMMA FoldInduction ==
    ASSUME NEW n \in Nat, NEW Good, {} \in Good,
           \A s \in SUBSET (1 .. n) :
               s # {} /\ Max(s) \in s /\ Prior(s) \in Good => s \in Good
    PROVE  \A s \in SUBSET (1 .. n) : s \in Good
<1> DEFINE All == {k \in Nat : k =< n => \A s \in SUBSET (1 .. k) : s \in Good}
<1>1. 0 \in All
  <2>1. \A s \in SUBSET (1 .. 0) : s = {}
    OBVIOUS
  <2> QED
    BY <2>1
<1>2. ASSUME NEW k \in Nat, k \in All PROVE k + 1 \in All
  <2> SUFFICES ASSUME k + 1 =< n, NEW s \in SUBSET (1 .. k + 1), s # {} PROVE s \in Good
    OBVIOUS
  <2>1. Max(s) \in s /\ Prior(s) \in SUBSET (1 .. k)
    BY BeforeUpTo
  <2>2. Prior(s) \in Good
    BY <1>2, <2>1
  <2>3. s \in SUBSET (1 .. n)
    OBVIOUS
  <2> QED
    BY <2>1, <2>2, <2>3
<1>3. n \in All
  <2> HIDE DEF All
  <2> QED
    BY <1>1, <1>2, UpTo DEF All
<1> QED
  BY <1>3

\* f folds seq up to n: step is the function of the operator folded.
FoldsTo(f, base, step, seq, n) ==
    f = [s \in SUBSET (1 .. n) |->
            IF s = {} THEN base ELSE step[<<f[Prior(s)], seq[Max(s)]>>]]

\* There is such a fold: of the positions up to k + 1, from that up to k.
LEMMA FoldExists ==
    ASSUME NEW n \in Nat, NEW base, NEW step, NEW seq
    PROVE  \E f : FoldsTo(f, base, step, seq, n)
<1> DEFINE Good == {k \in Nat : \E f : FoldsTo(f, base, step, seq, k)}
<1>1. 0 \in Good
  <2> DEFINE f == [s \in SUBSET (1 .. 0) |-> base]
  <2>1. \A s \in SUBSET (1 .. 0) : s = {}
    OBVIOUS
  <2>2. FoldsTo(f, base, step, seq, 0)
    BY <2>1 DEF FoldsTo
  <2> QED
    BY <2>2
<1>2. ASSUME NEW k \in Nat, NEW f, FoldsTo(f, base, step, seq, k) PROVE k + 1 \in Good
  <2> DEFINE g == [s \in SUBSET (1 .. k + 1) |->
                      IF s = {} THEN base ELSE step[<<f[Prior(s)], seq[Max(s)]>>]]
  <2>1. ASSUME NEW s \in SUBSET (1 .. k + 1), s # {}
        PROVE  g[Prior(s)] = f[Prior(s)]
    <3>1. Prior(s) \in SUBSET (1 .. k) /\ Prior(s) \in SUBSET (1 .. k + 1)
      BY <2>1, BeforeUpTo
    <3> DEFINE t == Prior(s)
    <3>2. t \in SUBSET (1 .. k) /\ t \in SUBSET (1 .. k + 1)
      BY <3>1
    <3> HIDE DEF t
    <3>3. f[t] = IF t = {} THEN base ELSE step[<<f[Prior(t)], seq[Max(t)]>>]
      BY <1>2, <3>2 DEF FoldsTo
    <3>4. g[t] = IF t = {} THEN base ELSE step[<<f[Prior(t)], seq[Max(t)]>>]
      BY <3>2
    <3> QED
      BY <3>3, <3>4 DEF t
  <2>2. FoldsTo(g, base, step, seq, k + 1)
    BY <2>1 DEF FoldsTo
  <2> QED
    BY <2>2
<1>3. n \in Good
  <2> HIDE DEF Good
  <2> QED
    BY <1>1, <1>2, UpTo DEF Good
<1> QED
  BY <1>3

\* All its values are where the operator stays.
LEMMA FoldStays ==
    ASSUME NEW n \in Nat, NEW V, NEW T, NEW base \in V, NEW step \in [V \X T -> V],
           NEW seq \in [1 .. n -> T], NEW f, FoldsTo(f, base, step, seq, n)
    PROVE  \A s \in SUBSET (1 .. n) : f[s] \in V
<1> DEFINE Good == {s \in SUBSET (1 .. n) : f[s] \in V}
<1>1. {} \in Good
  BY DEF FoldsTo
<1>2. ASSUME NEW s \in SUBSET (1 .. n), s # {}, Max(s) \in s, Prior(s) \in Good
      PROVE  s \in Good
  <2>1. f[s] = step[<<f[Prior(s)], seq[Max(s)]>>]
    BY <1>2 DEF FoldsTo
  <2>2. seq[Max(s)] \in T /\ f[Prior(s)] \in V
    BY <1>2
  <2> QED
    BY <2>1, <2>2
<1>3. \A s \in SUBSET (1 .. n) : s \in Good
  <2> HIDE DEF Good
  <2> QED
    BY <1>1, <1>2, FoldInduction
<1> QED
  BY <1>3

-----------------------------------------------------------------------------
(* Sequences without repetition.                                           *)

\* What appending adds.
LEMMA ToSetAppend ==
    ASSUME NEW X, NEW out \in Seq(X), NEW e \in X
    PROVE  ToSet(Append(out, e)) = ToSet(out) \cup {e}
<1>1. DOMAIN Append(out, e) = 1 .. Len(out) + 1 /\ DOMAIN out = 1 .. Len(out)
  OBVIOUS
<1>2. \A i \in 1 .. Len(out) : Append(out, e)[i] = out[i]
  OBVIOUS
<1>3. Append(out, e)[Len(out) + 1] = e
  OBVIOUS
<1> QED
  BY <1>1, <1>2, <1>3 DEF ToSet

\* No value is there twice.
Once(out) == \A i, j \in DOMAIN out : out[i] = out[j] => i = j

\* What is appended once to a sequence without repetitions leaves it so.
LEMMA OnceAppend ==
    ASSUME NEW X, NEW out \in Seq(X), NEW e \in X, Once(out), e \notin ToSet(out)
    PROVE  Once(Append(out, e))
<1>1. DOMAIN Append(out, e) = 1 .. Len(out) + 1 /\ DOMAIN out = 1 .. Len(out)
  OBVIOUS
<1>2. \A i \in 1 .. Len(out) : Append(out, e)[i] = out[i] /\ out[i] # e
  BY DEF ToSet
<1>3. Append(out, e)[Len(out) + 1] = e
  OBVIOUS
<1>4. Len(out) \in Nat
  OBVIOUS
<1> SUFFICES ASSUME NEW i \in 1 .. Len(out) + 1, NEW j \in 1 .. Len(out) + 1,
                    Append(out, e)[i] = Append(out, e)[j]
             PROVE  i = j
  BY <1>1 DEF Once
<1>5. CASE i \in 1 .. Len(out) /\ j \in 1 .. Len(out)
  BY <1>1, <1>2, <1>5 DEF Once
<1>6. CASE i = Len(out) + 1 \/ j = Len(out) + 1
  BY <1>2, <1>3, <1>4, <1>6
<1> QED
  BY <1>4, <1>5, <1>6

\* One value folded in if it is not there yet, and the fold of those up to n.
With(out, id) == IF id \in ToSet(out) THEN out ELSE Append(out, id)
Dedupes(f, seq, n) ==
    f = [s \in SUBSET (1 .. n) |-> IF s = {} THEN <<>> ELSE With(f[Prior(s)], seq[Max(s)])]

\* There is such a fold.
LEMMA DedupeExists ==
    ASSUME NEW X, NEW n \in Nat, NEW seq \in [1 .. n -> X]
    PROVE  \E f : Dedupes(f, seq, n)
<1> DEFINE step == [p \in Seq(X) \X X |-> With(p[1], p[2])]
<1>1. \A out \in Seq(X), e \in X : With(out, e) \in Seq(X) /\ step[<<out, e>>] = With(out, e)
  BY DEF With
<1>2. <<>> \in Seq(X) /\ step \in [Seq(X) \X X -> Seq(X)]
  <2>1. ASSUME NEW p \in Seq(X) \X X PROVE With(p[1], p[2]) \in Seq(X)
    BY <1>1
  <2>2. <<>> \in Seq(X)
    OBVIOUS
  <2> QED
    BY <2>1, <2>2
<1> HIDE DEF step
<1>3. PICK f : FoldsTo(f, <<>>, step, seq, n)
  BY FoldExists
<1>4. \A s \in SUBSET (1 .. n) : f[s] \in Seq(X)
  BY <1>2, <1>3, FoldStays
<1>5. ASSUME NEW s \in SUBSET (1 .. n), s # {}
      PROVE  step[<<f[Prior(s)], seq[Max(s)]>>] = With(f[Prior(s)], seq[Max(s)])
  <2>1. Max(s) \in s /\ Prior(s) \in SUBSET (1 .. n)
    BY <1>5, MaxUpTo DEF Prior
  <2>2. f[Prior(s)] \in Seq(X) /\ seq[Max(s)] \in X
    BY <1>4, <2>1
  <2> QED
    BY <1>1, <2>2
<1>6. Dedupes(f, seq, n)
  BY <1>3, <1>5 DEF FoldsTo, Dedupes
<1> QED
  BY <1>6

\* The values at the positions s.
ValuesAt(seq, s) == {seq[i] : i \in s}

\* What the fold has is the values at its positions, each of them once.
LEMMA DedupesHas ==
    ASSUME NEW X, NEW n \in Nat, NEW seq \in [1 .. n -> X], NEW f, Dedupes(f, seq, n)
    PROVE  \A s \in SUBSET (1 .. n) :
               f[s] \in Seq(X) /\ ToSet(f[s]) = ValuesAt(seq, s) /\ Once(f[s])
<1> DEFINE Right(s) == f[s] \in Seq(X) /\ ToSet(f[s]) = ValuesAt(seq, s) /\ Once(f[s])
           Good == {s \in SUBSET (1 .. n) : Right(s)}
<1>1. Right({})
  <2>1. f[{}] = <<>>
    BY DEF Dedupes
  <2>2. ToSet(<<>>) = {} /\ <<>> \in Seq(X) /\ Once(<<>>)
    BY DEF ToSet, Once
  <2> QED
    BY <2>1, <2>2 DEF ValuesAt
<1>2. ASSUME NEW s \in SUBSET (1 .. n), s # {}, Max(s) \in s, Right(Prior(s))
      PROVE  Right(s)
  <2> DEFINE m == Max(s)
             out == f[Prior(s)]
  <2>1. f[s] = With(out, seq[m])
    BY <1>2 DEF Dedupes
  <2>2. out \in Seq(X) /\ ToSet(out) = ValuesAt(seq, Prior(s)) /\ Once(out)
    BY <1>2
  <2>3. seq[m] \in X
    BY <1>2
  <2>4. ValuesAt(seq, s) = ValuesAt(seq, Prior(s)) \cup {seq[m]}
    BY <1>2 DEF ValuesAt, Prior
  <2> HIDE DEF m, out
  <2>5. CASE seq[m] \in ToSet(out)
    BY <2>1, <2>2, <2>4, <2>5 DEF With
  <2>6. CASE seq[m] \notin ToSet(out)
    <3>1. f[s] = Append(out, seq[m])
      BY <2>1, <2>6 DEF With
    <3>2. ToSet(Append(out, seq[m])) = ToSet(out) \cup {seq[m]} /\ Once(Append(out, seq[m]))
      BY <2>2, <2>3, <2>6, ToSetAppend, OnceAppend
    <3> QED
      BY <2>2, <2>3, <2>4, <3>1, <3>2
  <2> QED
    BY <2>5, <2>6
<1>3. \A s \in SUBSET (1 .. n) : s \in Good
  <2> HIDE DEF Right
  <2>1. {} \in Good
    BY <1>1
  <2>2. \A s \in SUBSET (1 .. n) :
            s # {} /\ Max(s) \in s /\ Prior(s) \in Good => s \in Good
    BY <1>2
  <2> HIDE DEF Good
  <2> QED
    BY <2>1, <2>2, FoldInduction
<1> QED
  BY <1>3

\* So the fold of a whole sequence has its values, each of them once.
LEMMA DedupeHas ==
    ASSUME NEW X, NEW n \in Nat, NEW seq \in [1 .. n -> X], NEW r,
           r = (CHOOSE f : Dedupes(f, seq, n))[1 .. n]
    PROVE  r \in Seq(X) /\ ToSet(r) = ToSet(seq) /\ Once(r)
<1>1. PICK f : f = CHOOSE g : Dedupes(g, seq, n)
  OBVIOUS
<1>2. Dedupes(f, seq, n)
  BY <1>1, DedupeExists
<1>3. f[1 .. n] \in Seq(X) /\ ToSet(f[1 .. n]) = ValuesAt(seq, 1 .. n) /\ Once(f[1 .. n])
  <2>1. \A s \in SUBSET (1 .. n) :
            f[s] \in Seq(X) /\ ToSet(f[s]) = ValuesAt(seq, s) /\ Once(f[s])
    BY <1>2, DedupesHas
  <2>2. (1 .. n) \in SUBSET (1 .. n)
    OBVIOUS
  <2> QED
    BY <2>1, <2>2
<1>4. ToSet(seq) = ValuesAt(seq, 1 .. n)
  BY DEF ToSet, ValuesAt
<1> QED
  BY <1>1, <1>3, <1>4
=============================================================================
