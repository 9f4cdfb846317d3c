---------------------------- MODULE CatalogCell ----------------------------
(***************************************************************************)
(* What a models.dev client promises to the callers of Client.Catalog,     *)
(* whatever it does about files, HTTP and goroutines (the promise of the   *)
(* comments of modelsdev/client.go):                                       *)
(*                                                                         *)
(*   - one catalog, written at most once, is what every successful call    *)
(*     returns ("the merged catalog is memoised in memory");               *)
(*   - attempts to get it are shared; a call fails for its own context, or *)
(*     because an attempt failed that it had joined before ("a waiter can  *)
(*     retry rather than inherit a cached failure");                       *)
(*   - a call made when the catalog is there never fails, not even when    *)
(*     its context is already done.                                        *)
(***************************************************************************)
CONSTANTS Callers, Catalogs, None

VARIABLES
    value,      \* the memoised catalog, or None
    asked,      \* the callers with a call outstanding
    late,       \* the callers whose call was made when the catalog was there
    joined,     \* the callers that wait for the attempt in progress
    refused,    \* the callers whose attempt failed
    answer      \* per caller: what its last call returned, None for an error

vars == <<value, asked, late, joined, refused, answer>>

Init ==
    /\ value = None
    /\ asked = {}
    /\ late = {}
    /\ joined = {}
    /\ refused = {}
    /\ answer = [p \in Callers |-> None]

Ask(p) ==
    /\ p \notin asked
    /\ asked' = asked \cup {p}
    /\ late' = IF value # None THEN late \cup {p} ELSE late \ {p}
    /\ answer' = [answer EXCEPT ![p] = None]
    /\ UNCHANGED <<value, joined, refused>>

\* The call joins the attempt in progress, or starts one.
Join(p) ==
    /\ value = None
    /\ p \in asked \ (joined \cup refused)
    /\ joined' = joined \cup {p}
    /\ UNCHANGED <<value, asked, late, refused, answer>>

\* An attempt ends with a catalog. It is the only one there will ever be.
Fill(c) ==
    /\ value = None
    /\ value' = c
    /\ joined' = {}
    /\ UNCHANGED <<asked, late, refused, answer>>

\* It ends without: for the callers that had joined it, and they only.
Refuse ==
    /\ value = None
    /\ refused' = refused \cup joined
    /\ joined' = {}
    /\ UNCHANGED <<value, asked, late, answer>>

Return(p, a) ==
    /\ p \in asked
    /\ asked' = asked \ {p}
    /\ joined' = joined \ {p}
    /\ refused' = refused \ {p}
    /\ answer' = [answer EXCEPT ![p] = a]
    /\ UNCHANGED <<value, late>>

Answer(p) == value # None /\ Return(p, value)
Fail(p) == value = None /\ p \in refused /\ Return(p, None)
Withdraw(p) == p \notin late /\ Return(p, None)

Next ==
    \/ \E c \in Catalogs : Fill(c)
    \/ Refuse
    \/ \E p \in Callers : Ask(p) \/ Join(p) \/ Answer(p) \/ Fail(p) \/ Withdraw(p)

Spec == Init /\ [][Next]_vars
=============================================================================
