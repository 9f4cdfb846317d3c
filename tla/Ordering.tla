-------------------------------- MODULE Ordering --------------------------------
(***************************************************************************)
(* The comparators of the listings (internal/cli/order.go and              *)
(* modelsdev/sort.go): which of two records, or of two models, comes       *)
(* first. They are operators and have no state.                            *)
(*                                                                         *)
(* A string is its rank among the strings in byte order, 0 being the empty *)
(* one; Lower[s] is the string strings.ToLower makes of it. A value of a   *)
(* record is its Go type with a number: the rank of a string, the value of *)
(* a number, 0 or 1 for a boolean, the length of a slice or a map.  A      *)
(* pointer to a structure is of no kind that is ordered.                   *)
(***************************************************************************)
EXTENDS Integers

CONSTANT Lower

Strings == DOMAIN Lower
LowerIsOfStrings == Strings \subseteq Nat /\ 0 \in Strings /\ Lower \in [Strings -> Nat]

Nil == [type |-> "nil", n |-> 0]
Str(s) == [type |-> "string", n |-> s]
Num(n) == [type |-> "number", n |-> n]
Bool(b) == [type |-> "bool", n |-> IF b THEN 1 ELSE 0]
Sized(n) == [type |-> "sized", n |-> n]
Pointer == [type |-> "pointer", n |-> 0]
Types == {"nil", "string", "number", "bool", "sized", "pointer"}

\* record.value: a field that was not added reads as nil.
value(r, key) == IF key \in DOMAIN r THEN r[key] ELSE Nil

orderMissing == [kind |-> "missing", n |-> 0]

\* Nil, the empty string and what has no order are missing; strings compare
\* regardless of case.
orderKey(v) ==
    IF v.type \in {"nil", "pointer"} \/ v = Str(0) THEN orderMissing
    ELSE IF v.type = "string" THEN [kind |-> "str", n |-> Lower[v.n]]
    ELSE [kind |-> "num", n |-> v.n]

\* Numbers before strings, though mixed kinds should not occur.
Below(a, b) == IF a.kind # b.kind THEN a.kind = "num" ELSE a.n < b.n

\* Mutant of lessByKey: a descending sort inverts the place of missing values.
lessByKeyInverted(x, y, descending) ==
    LET a == orderKey(x)
        b == orderKey(y)
    IN [tie |-> a = b,
        less |-> a # b /\ ((b.kind = "missing" \/ (a.kind # "missing" /\ Below(a, b)))
                             # descending)]

\* Missing values last in either direction; present ones invert.
lessByKey(x, y, descending) ==
    LET a == orderKey(x)
        b == orderKey(y)
    IN [tie |-> a = b,
        less |-> /\ a # b
                 /\ IF orderMissing \in {a, b} THEN b = orderMissing
                    ELSE Below(a, b) <=> ~descending]

recordID(r) == LET v == value(r, "id") IN IF v.type = "string" THEN v.n ELSE 0
recordLess(r, s) == recordID(r) < recordID(s)

\* The comparison orderRecords sorts with.
Before(r, s, key, descending) ==
    LET c == lessByKey(value(r, key), value(s, key), descending)
    IN IF c.tie THEN recordLess(r, s) ELSE c.less

\* The later release first, then the lower id; models without a date last.
Newer(a, b) ==
    IF a.released = b.released THEN a.id < b.id
    ELSE a.released # 0 /\ (b.released = 0 \/ a.released > b.released)
=============================================================================
