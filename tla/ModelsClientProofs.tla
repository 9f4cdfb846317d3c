------------------------- MODULE ModelsClientProofs -------------------------
(***************************************************************************)
(* Theorems about the models.dev Client of module ModelsClient, for any    *)
(* number of callers and of fetchCall records, any number of upstream      *)
(* versions, and every choice of the client's options.                     *)
(***************************************************************************)
EXTENDS ModelsClient, TLAPS

-----------------------------------------------------------------------------
(* The records a fetch goroutine's steps produce.                          *)

\* The constants' facts the other proofs cite, one at a time.
LEMMA OneIsAVersion == 1 \in Versions
BY ConstantsAssumption DEF Versions

\* A version is a positive number, so that versions compare.
LEMMA VersionsAreNumbers == \A v \in Versions : v \in Nat /\ v >= 1
BY ConstantsAssumption DEF Versions

\* The value for nothing is neither a version nor a fetch.
LEMMA NoneIsNothing == None \notin Versions /\ None \notin Calls /\ Unusable \notin Versions
BY ConstantsAssumption DEF Versions

\* A fetch record as load makes it has its type.
LEMMA NewCallType ==
    ASSUME NEW d, NEW v \in Versions
    PROVE  NewCall(d, v) \in CallRecords
BY DEF NewCall, CallRecords, Stations, Faults

\* What the cache file is found to be keeps the record's type.
LEMMA ExaminedType ==
    ASSUME NEW c \in CallRecords, NEW found \in Bodies \cup {None}, NEW w \in BOOLEAN
    PROVE  Examined(c, found, w) \in CallRecords
BY DEF Examined, CallRecords, Stations, Usable

\* The stale fallback, or its refusal, keeps the record's type.
LEMMA FellBackType ==
    ASSUME NEW c \in CallRecords, NEW fault \in Faults
    PROVE  FellBack(c, fault) \in CallRecords
BY DEF FellBack, CallRecords, Stations, Usable

\* A published fetch keeps the record's type.
LEMMA ClosedType ==
    ASSUME NEW c \in CallRecords
    PROVE  Closed(c) \in CallRecords
BY OneIsAVersion DEF Closed, NewCall, CallRecords, Stations

\* A step of one fetch keeps the type of all of them.
LEMMA BecomesType ==
    ASSUME call \in [Calls -> CallRecords],
           NEW k \in Calls, NEW c \in CallRecords, Becomes(k, c)
    PROVE  call' \in [Calls -> CallRecords]
BY DEF Becomes

-----------------------------------------------------------------------------
(* The inductive invariant. SingleFlight and the others are not inductive: *)
(* that a fetch fills an empty memo needs that no other fetch can have     *)
(* filled it, that a waiter finds an answer needs what a closed record     *)
(* says of memo, and that an answer is current needs what the locals of a  *)
(* fetch say of the version it will publish.                               *)

\* What a fetchCall and the locals of its goroutine say, station by station.
RecordInv(c) ==
    /\ c.at \in {"stat", "read", "get"} =>
          c.cat = None /\ c.err = "" /\ ~c.fallback
    /\ c.at \in {"temp", "rename"} =>
          c.cat \in Versions /\ c.err = "" /\ ~c.fallback /\ c.cat >= Basis(c)
    /\ c.at = "publish" /\ c.err = "" =>
          c.cat \in Versions /\ (c.fallback \/ c.cat >= Basis(c))
    /\ c.at = "done" /\ c.err = "" => memo # None
    /\ c.err # "canceled"
    /\ c.fallback => ~ForceRefresh
    /\ c.floor =< upstream

CallInv(k) == RecordInv(call[k]) /\ (Running(k) <=> inflight = k)

CallerInv(p) ==
    /\ pc[p] = "wait" => call[waits[p]].at # "free" /\ ~late[p]
    /\ pc[p] \in {"load", "wait"} => result[p].cat = None
    /\ pc[p] # "idle" => result[p].err = ""
    /\ pc[p] = "stale" => result[p].cat # None
    /\ result[p].cat # None => result[p].cat = memo
    /\ pc[p] = "idle" /\ result[p].cat # None => result[p].flag = stale
    /\ result[p].err = "canceled" => ctx[p].over = "canceled"
    /\ late[p] => memo # None

ClientInv ==
    /\ inflight # None => memo = None
    /\ memo # None /\ ~stale => memo >= basis
    /\ ForceRefresh => ~stale

IInv ==
    /\ TypeOK
    /\ \A k \in Calls : CallInv(k)
    /\ \A p \in Callers : CallerInv(p)
    /\ ClientInv

\* The inductive invariant holds when the client is made (New).
LEMMA InvInit == Init => IInv
<1> SUFFICES ASSUME Init PROVE IInv
  OBVIOUS
<1>1. /\ memo = None /\ stale = FALSE /\ inflight = None
      /\ upstream = 1 /\ basis = 1
  BY DEF Init
<1>2. call = [k \in Calls |-> [NewCall(FALSE, 1) EXCEPT !.at = "free"]]
  BY DEF Init
<1>3. /\ pc = [p \in Callers |-> "idle"]
      /\ waits = [p \in Callers |-> None]
      /\ late = [p \in Callers |-> FALSE]
      /\ ctx = [p \in Callers |-> [deadline |-> FALSE, over |-> ""]]
      /\ result = [p \in Callers |-> [cat |-> None, err |-> "", flag |-> FALSE]]
  BY DEF Init
<1>4. TypeOK
  <2>1. call \in [Calls -> CallRecords]
    <3>1. [NewCall(FALSE, 1) EXCEPT !.at = "free"] \in CallRecords
      BY OneIsAVersion DEF NewCall, CallRecords, Stations, Faults
    <3> QED
      BY <3>1, <1>2
  <2>2. ctx \in [Callers -> Contexts]
    <3>1. [deadline |-> FALSE, over |-> ""] \in Contexts
      BY DEF Contexts
    <3> QED
      BY <3>1, <1>3
  <2>3. result \in [Callers -> Results]
    <3>1. [cat |-> None, err |-> "", flag |-> FALSE] \in Results
      BY DEF Results, Faults
    <3> QED
      BY <3>1, <1>3
  <2>4. file \in Files \cup {None}
    <3>1. file = None \/ \E b \in {1, Unusable}, w \in BOOLEAN :
                            file = [body |-> b, within |-> w]
      BY DEF Init
    <3> QED
      BY <3>1, OneIsAVersion DEF Files, Bodies
  <2> QED
    BY <1>1, <1>3, <2>1, <2>2, <2>3, <2>4, OneIsAVersion DEF TypeOK
<1>5. ASSUME NEW k \in Calls PROVE CallInv(k)
  <2>1. /\ call[k].at = "free" /\ call[k].err = ""
        /\ ~call[k].fallback /\ call[k].floor = 1
    BY <1>2 DEF NewCall
  <2>2. RecordInv(call[k])
    <3>1. call[k].floor =< upstream
      <4>1. call[k].floor = 1 /\ upstream = 1
        BY <1>1, <2>1
      <4> QED
        BY <4>1
    <3> QED
      BY <2>1, <3>1, Zenon DEF RecordInv
  <2>3. ~Running(k) /\ inflight # k
    BY <1>1, <2>1, NoneIsNothing DEF Running
  <2> QED
    BY <2>2, <2>3 DEF CallInv
<1>6. ASSUME NEW p \in Callers PROVE CallerInv(p)
  BY <1>1, <1>3 DEF CallerInv
<1>7. ClientInv
  BY <1>1 DEF ClientInv
<1> QED
  BY <1>4, <1>5, <1>6, <1>7 DEF IInv

-----------------------------------------------------------------------------
(* Steps of the fetch goroutine.                                           *)

\* A step that moves a running fetch on, touching nothing but its record and
\* the cache file, keeps the invariant if the new record satisfies its part.
LEMMA FetchMovesOn ==
    ASSUME IInv, UNCHANGED FetchVars, file' \in Files \cup {None},
           NEW k \in Calls, Running(k),
           NEW c \in CallRecords, Becomes(k, c),
           c.at \notin {"free", "done"}, RecordInv(c)
    PROVE  IInv'
<1>1. /\ UNCHANGED <<memo, stale, inflight, upstream, basis>>
      /\ UNCHANGED <<pc, waits, ctx, result, late>>
  BY DEF FetchVars, callerVars
<1>2. /\ TypeOK
      /\ \A i \in Calls : CallInv(i)
      /\ \A p \in Callers : CallerInv(p)
      /\ ClientInv
  BY DEF IInv
<1>3. call' \in [Calls -> CallRecords]
  BY <1>2, BecomesType DEF TypeOK
<1>4. call'[k] = c /\ \A i \in Calls \ {k} : call'[i] = call[i]
  BY <1>2 DEF TypeOK, Becomes
<1>5. TypeOK'
  BY <1>1, <1>2, <1>3 DEF TypeOK
<1>6. ASSUME NEW i \in Calls PROVE CallInv(i)'
  <2>1. CASE i = k
    BY <1>1, <1>2, <1>4, <2>1 DEF CallInv, RecordInv, Running, Basis
  <2>2. CASE i # k
    BY <1>1, <1>2, <1>4, <2>2 DEF CallInv, RecordInv, Running, Basis
  <2> QED
    BY <2>1, <2>2
<1>7. ASSUME NEW p \in Callers PROVE CallerInv(p)'
  <2>1. CallerInv(p) /\ (pc[p] = "wait" => waits[p] \in Calls)
    BY <1>2 DEF TypeOK
  <2>2. pc[p] = "wait" => call'[waits[p]].at # "free"
    BY <2>1, <1>4 DEF CallerInv
  <2> QED
    BY <1>1, <2>1, <2>2 DEF CallerInv
<1>8. ClientInv'
  BY <1>1, <1>2 DEF ClientInv
<1> QED
  BY <1>5, <1>6, <1>7, <1>8 DEF IInv

\* A fetch that falls back on the file it read keeps the invariant: a
\* fallback is flagged, and a forced fetch has none (fetchMerge).
LEMMA FallsBack ==
    ASSUME IInv, NEW k \in Calls, call[k].at = "get", NEW fault \in {"fetch", "deadline"},
           Becomes(k, FellBack(call[k], fault)), UNCHANGED <<FetchVars, file>>
    PROVE  IInv'
<1> DEFINE c == FellBack(call[k], fault)
<1>1. call[k] \in CallRecords /\ RecordInv(call[k]) /\ file \in Files \cup {None}
  BY DEF IInv, TypeOK, CallInv
<1>2. c \in CallRecords
  BY <1>1, FellBackType DEF Faults
<1>3. c.at = "publish" /\ RecordInv(c)
  BY <1>1 DEF FellBack, RecordInv, CallRecords, Usable, Basis
<1>4. Running(k)
  BY DEF Running
<1> HIDE DEF c
<1> QED
  BY <1>1, <1>2, <1>3, <1>4, FetchMovesOn DEF c

\* What a fetch does outside the lock keeps the invariant (fetchMerge).
LEMMA FetchLocalInv ==
    ASSUME IInv, NEW k \in Calls, FetchStep(k), ~Publish(k)
    PROVE  IInv'
<1>1. /\ call[k] \in CallRecords /\ RecordInv(call[k])
      /\ file \in Files \cup {None} /\ upstream \in Versions
  BY DEF IInv, TypeOK, CallInv
<1>2. CASE FetchStat(k)
  <2> DEFINE c == IF file = None THEN [call[k] EXCEPT !.at = "get"]
                  ELSE [call[k] EXCEPT !.at = "read", !.within = file.within]
  <2>1. c \in CallRecords
    BY <1>1 DEF CallRecords, Stations, Files
  <2>2. c.at \in {"get", "read"} /\ RecordInv(c)
    BY <1>1, <1>2 DEF FetchStat, RecordInv, CallRecords
  <2>3. Becomes(k, c) /\ Running(k) /\ UNCHANGED <<FetchVars, file>>
    BY <1>2 DEF FetchStat, Running
  <2> HIDE DEF c
  <2> QED
    BY <1>1, <2>1, <2>2, <2>3, FetchMovesOn
<1>3. CASE FetchRead(k)
  <2> DEFINE found == IF file = None THEN None ELSE file.body
  <2>1. PICK w \in {FALSE, call[k].within} : Becomes(k, Examined(call[k], found, w))
    BY <1>3 DEF FetchRead
  <2> DEFINE c == Examined(call[k], found, w)
  <2>2. found \in Bodies \cup {None} /\ w \in BOOLEAN
    BY <1>1 DEF Files, CallRecords
  <2>3. c \in CallRecords
    BY <1>1, <2>2, ExaminedType
  <2>4. c.at \in {"get", "publish"} /\ RecordInv(c)
    <3>1. call[k].at = "read"
      BY <1>3 DEF FetchRead
    <3>2. CASE ~ForceRefresh /\ w /\ Usable(found)
      <4>1. /\ c.at = "publish" /\ c.cat = found /\ c.within = w /\ c.err = call[k].err
            /\ c.fallback = call[k].fallback /\ c.floor = call[k].floor
        BY <3>2, <1>1 DEF Examined, CallRecords
      <4>2. found \in Versions /\ found >= 1
        BY <3>2, VersionsAreNumbers DEF Usable
      <4> HIDE DEF c, found
      <4> QED
        BY <3>1, <3>2, <4>1, <4>2, <1>1 DEF RecordInv, Basis
    <3>3. CASE ~(~ForceRefresh /\ w /\ Usable(found))
      <4>1. /\ c.at = "get" /\ c.cat = call[k].cat /\ c.err = call[k].err
            /\ c.fallback = call[k].fallback /\ c.floor = call[k].floor
        BY <3>3, <1>1 DEF Examined, CallRecords
      <4> HIDE DEF c
      <4> QED
        BY <3>1, <4>1, <1>1 DEF RecordInv, Basis
    <3> QED
      BY <3>2, <3>3
  <2>5. Becomes(k, c) /\ Running(k) /\ UNCHANGED <<FetchVars, file>>
    BY <1>3, <2>1 DEF FetchRead, Running
  <2> HIDE DEF c
  <2> QED
    BY <1>1, <2>3, <2>4, <2>5, FetchMovesOn
<1>4. CASE GetBody(k)
  <2>1. CASE Becomes(k, [call[k] EXCEPT !.at = "temp", !.cat = upstream])
    <3> DEFINE c == [call[k] EXCEPT !.at = "temp", !.cat = upstream]
    <3>1. c \in CallRecords
      BY <1>1 DEF CallRecords, Stations
    <3>2. /\ c.at = "temp" /\ c.cat = upstream /\ c.err = call[k].err
          /\ c.within = call[k].within /\ c.floor = call[k].floor
          /\ c.fallback = call[k].fallback
      BY <1>1 DEF CallRecords
    <3>3. upstream >= 1 /\ upstream >= call[k].floor
      BY <1>1, VersionsAreNumbers DEF RecordInv, CallRecords
    <3>4. RecordInv(c)
      <4> HIDE DEF c
      <4> QED
        BY <1>1, <1>4, <3>2, <3>3 DEF RecordInv, Basis, GetBody
    <3>5. Becomes(k, c) /\ Running(k) /\ UNCHANGED <<FetchVars, file>>
      BY <1>4, <2>1 DEF GetBody, Running
    <3> HIDE DEF c
    <3> QED
      BY <1>1, <3>1, <3>2, <3>4, <3>5, FetchMovesOn
  <2>2. CASE Becomes(k, FellBack(call[k], "fetch"))
    BY <1>4, <2>2, FallsBack DEF GetBody
  <2> QED
    BY <1>1, <1>4, <2>1, <2>2, NoneIsNothing DEF GetBody, Usable
<1>5. CASE GetFails(k)
  BY <1>5, FallsBack DEF GetFails
<1>6. CASE GetExpires(k)
  BY <1>6, FallsBack DEF GetExpires
<1>7. CASE DeadlinePasses(k)
  <2> DEFINE c == [call[k] EXCEPT !.deadline = "passed"]
  <2>1. c \in CallRecords
    BY <1>1 DEF CallRecords
  <2>2. c.at = call[k].at /\ RecordInv(c)
    BY <1>1 DEF RecordInv, CallRecords, Basis
  <2>3. Becomes(k, c) /\ Running(k) /\ UNCHANGED <<FetchVars, file>>
    BY <1>7 DEF DeadlinePasses
  <2>4. c.at \notin {"free", "done"}
    BY <2>2, <2>3 DEF Running
  <2> HIDE DEF c
  <2> QED
    BY <1>1, <2>1, <2>2, <2>3, <2>4, FetchMovesOn
<1>8. CASE WriteTemp(k)
  <2>1. PICK next \in {"rename", "publish"} : Becomes(k, [call[k] EXCEPT !.at = next])
    BY <1>8 DEF WriteTemp
  <2> DEFINE c == [call[k] EXCEPT !.at = next]
  <2>2. c \in CallRecords
    BY <1>1 DEF CallRecords, Stations
  <2>3. c.at = next /\ RecordInv(c)
    BY <1>1, <1>8 DEF WriteTemp, RecordInv, CallRecords, Basis
  <2>4. Becomes(k, c) /\ Running(k) /\ UNCHANGED <<FetchVars, file>>
    BY <1>8, <2>1 DEF WriteTemp, Running
  <2> HIDE DEF c
  <2> QED
    BY <1>1, <2>2, <2>3, <2>4, FetchMovesOn
<1>9. CASE Rename(k)
  <2> DEFINE c == [call[k] EXCEPT !.at = "publish"]
  <2>1. c \in CallRecords
    BY <1>1 DEF CallRecords, Stations
  <2>2. c.at = "publish" /\ RecordInv(c) /\ call[k].cat \in Versions
    BY <1>1, <1>9 DEF Rename, RecordInv, CallRecords, Basis
  <2>3. file' \in Files \cup {None}
    BY <1>1, <1>9, <2>2 DEF Rename, Files, Bodies
  <2>4. Becomes(k, c) /\ Running(k) /\ UNCHANGED FetchVars
    BY <1>9 DEF Rename, Running
  <2> HIDE DEF c
  <2> QED
    BY <2>1, <2>2, <2>3, <2>4, FetchMovesOn
<1> QED
  BY <1>2, <1>3, <1>4, <1>5, <1>6, <1>7, <1>8, <1>9 DEF FetchStep, FetchLocal, Get

\* The end of a fetch, under the lock, keeps it (runFetch).
LEMMA PublishInv ==
    ASSUME IInv, NEW k \in Calls, Publish(k)
    PROVE  IInv'
<1>1. /\ TypeOK
      /\ \A i \in Calls : CallInv(i)
      /\ \A p \in Callers : CallerInv(p)
      /\ ClientInv
  BY DEF IInv
<1>2. /\ call[k] \in CallRecords /\ RecordInv(call[k]) /\ inflight = k /\ memo = None
      /\ call[k].at = "publish"
  BY <1>1, NoneIsNothing DEF Publish, CallInv, Running, TypeOK, ClientInv
<1>3. /\ UNCHANGED <<pc, waits, ctx, result, late, file, upstream>>
      /\ inflight' = None
  BY DEF Publish, callerVars
<1>4. /\ call'[k] = Closed(call[k]) /\ \A i \in Calls \ {k} : call'[i] = call[i]
      /\ call' \in [Calls -> CallRecords]
  BY <1>1, <1>2, ClosedType, BecomesType DEF Publish, Becomes, TypeOK
<1>5. /\ call'[k].at = "done" /\ call'[k].cat = call[k].cat /\ call'[k].err = call[k].err
      /\ call'[k].fallback = FALSE /\ call'[k].floor = 1
  BY <1>4 DEF Closed, NewCall
<1>6. CASE call[k].err = ""
  <2>1. memo' = call[k].cat /\ stale' = call[k].fallback /\ basis' = Basis(call[k])
    BY <1>6 DEF Publish
  <2>2. call[k].cat \in Versions /\ call[k].cat # None
    BY <1>2, <1>6, NoneIsNothing DEF RecordInv
  <2>3. Basis(call[k]) \in Versions /\ call[k].fallback \in BOOLEAN
    BY <1>2, OneIsAVersion DEF Basis, CallRecords
  <2>4. TypeOK'
    BY <1>1, <1>3, <1>4, <2>1, <2>2, <2>3 DEF TypeOK
  <2>5. ASSUME NEW i \in Calls PROVE CallInv(i)'
    <3>1. CASE i = k
      BY <1>1, <1>2, <1>3, <1>5, <2>1, <2>2, <3>1, NoneIsNothing, VersionsAreNumbers
         DEF CallInv, RecordInv, Running, TypeOK
    <3>2. CASE i # k
      BY <1>1, <1>2, <1>3, <1>4, <2>1, <2>2, <3>2, NoneIsNothing
         DEF CallInv, RecordInv, Running, Basis
    <3> QED
      BY <3>1, <3>2
  <2>6. ASSUME NEW p \in Callers PROVE CallerInv(p)'
    <3>1. CallerInv(p) /\ result[p].cat = None /\ ~late[p]
      BY <1>1, <1>2 DEF CallerInv
    <3>2. pc[p] = "wait" => call'[waits[p]].at # "free"
      BY <3>1, <1>1, <1>4, <1>5 DEF CallerInv, TypeOK
    <3> QED
      BY <1>3, <3>1, <3>2 DEF CallerInv
  <2>7. ClientInv'
    BY <1>2, <1>3, <1>6, <2>1 DEF ClientInv, RecordInv
  <2> QED
    BY <2>4, <2>5, <2>6, <2>7 DEF IInv
<1>7. CASE call[k].err # ""
  <2>1. UNCHANGED <<memo, stale, basis>>
    BY <1>7 DEF Publish
  <2>2. TypeOK'
    BY <1>1, <1>3, <1>4, <2>1 DEF TypeOK
  <2>3. ASSUME NEW i \in Calls PROVE CallInv(i)'
    <3>1. CASE i = k
      BY <1>1, <1>2, <1>3, <1>5, <1>7, <2>1, <3>1, NoneIsNothing, VersionsAreNumbers
         DEF CallInv, RecordInv, Running, TypeOK
    <3>2. CASE i # k
      BY <1>1, <1>2, <1>3, <1>4, <2>1, <3>2, NoneIsNothing
         DEF CallInv, RecordInv, Running, Basis
    <3> QED
      BY <3>1, <3>2
  <2>4. ASSUME NEW p \in Callers PROVE CallerInv(p)'
    <3>1. CallerInv(p)
      BY <1>1
    <3>2. pc[p] = "wait" => call'[waits[p]].at # "free"
      BY <3>1, <1>1, <1>4, <1>5 DEF CallerInv, TypeOK
    <3> QED
      BY <1>3, <2>1, <3>1, <3>2 DEF CallerInv
  <2>5. ClientInv'
    BY <1>1, <1>3, <2>1 DEF ClientInv
  <2> QED
    BY <2>2, <2>3, <2>4, <2>5 DEF IInv
<1> QED
  BY <1>6, <1>7

-----------------------------------------------------------------------------
(* Steps of the callers.                                                   *)

\* A step of one caller that leaves the client and its fetches alone keeps the
\* invariant if the caller's new state satisfies its part.
LEMMA CallerMovesOn ==
    ASSUME IInv, UNCHANGED <<memo, stale, inflight, call, file, upstream, basis>>,
           NEW p \in Callers,
           NEW s \in {"idle", "load", "wait", "stale"}, NEW w \in Calls \cup {None},
           NEW x \in Contexts, NEW r \in Results, NEW l \in BOOLEAN,
           pc' = [pc EXCEPT ![p] = s],
           waits' = [waits EXCEPT ![p] = w],
           ctx' = [ctx EXCEPT ![p] = x],
           result' = [result EXCEPT ![p] = r],
           late' = [late EXCEPT ![p] = l],
           s = "wait" => w \in Calls /\ call[w].at # "free" /\ ~l,
           s \in {"load", "wait"} => r.cat = None,
           s # "idle" => r.err = "",
           s = "stale" => r.cat # None,
           r.cat # None => r.cat = memo,
           s = "idle" /\ r.cat # None => r.flag = stale,
           r.err = "canceled" => x.over = "canceled",
           l => memo # None
    PROVE  IInv'
<1>1. TypeOK /\ (\A q \in Callers : CallerInv(q)) /\ ClientInv
  BY DEF IInv
<1>2. /\ pc'[p] = s /\ waits'[p] = w /\ ctx'[p] = x /\ result'[p] = r /\ late'[p] = l
      /\ \A q \in Callers \ {p} : /\ pc'[q] = pc[q] /\ waits'[q] = waits[q]
                                  /\ ctx'[q] = ctx[q] /\ result'[q] = result[q]
                                  /\ late'[q] = late[q]
  BY <1>1 DEF TypeOK
<1>3. TypeOK'
  <2>1. \A q \in Callers : pc'[q] = "wait" => waits'[q] \in Calls
    BY <1>1, <1>2 DEF TypeOK
  <2> QED
    BY <1>1, <2>1 DEF TypeOK
<1>4. ASSUME NEW k \in Calls PROVE CallInv(k)'
  BY DEF IInv, CallInv, RecordInv, Running, Basis
<1>5. ASSUME NEW q \in Callers PROVE CallerInv(q)'
  <2>1. CASE q = p
    BY <1>2, <2>1 DEF CallerInv
  <2>2. CASE q # p
    <3>1. /\ pc'[q] = pc[q] /\ waits'[q] = waits[q] /\ ctx'[q] = ctx[q]
          /\ result'[q] = result[q] /\ late'[q] = late[q]
          /\ UNCHANGED <<memo, stale, call>>
      BY <1>2, <2>2
    <3> QED
      BY <1>1, <3>1 DEF CallerInv
  <2> QED
    BY <2>1, <2>2
<1>6. ClientInv'
  BY <1>1 DEF ClientInv
<1> QED
  BY <1>3, <1>4, <1>5, <1>6 DEF IInv

\* Every step of Client.load's caller side keeps it.
LEMMA CallerStepInv ==
    ASSUME IInv, NEW p \in Callers,
           Begin(p) \/ (CallerStep(p) /\ ~LoadLead(p))
    PROVE  IInv'
<1>1. /\ pc[p] \in {"idle", "load", "wait", "stale"} /\ waits[p] \in Calls \cup {None}
      /\ ctx[p] \in Contexts /\ result[p] \in Results /\ late[p] \in BOOLEAN
      /\ memo \in Versions \cup {None} /\ stale \in BOOLEAN
      /\ CallerInv(p)
  BY DEF IInv, TypeOK
<1>2. /\ waits = [waits EXCEPT ![p] = waits[p]] /\ ctx = [ctx EXCEPT ![p] = ctx[p]]
      /\ result = [result EXCEPT ![p] = result[p]] /\ late = [late EXCEPT ![p] = late[p]]
      /\ pc = [pc EXCEPT ![p] = pc[p]]
  BY DEF IInv, TypeOK
<1>3. CASE Begin(p)
  <2>1. PICK d \in DeadlineChoices :
           ctx' = [ctx EXCEPT ![p] = [deadline |-> d, over |-> ""]]
    BY <1>3 DEF Begin
  <2> DEFINE x == [deadline |-> d, over |-> ""]
             r == [cat |-> None, err |-> "", flag |-> FALSE]
             l == (memo # None)
  <2>2. x \in Contexts /\ r \in Results /\ l \in BOOLEAN
    BY ConstantsAssumption DEF Contexts, Results, Faults
  <2>3. r.cat = None /\ r.err = ""
    OBVIOUS
  <2>4. /\ pc' = [pc EXCEPT ![p] = "load"]
        /\ waits' = [waits EXCEPT ![p] = waits[p]]
        /\ ctx' = [ctx EXCEPT ![p] = x]
        /\ result' = [result EXCEPT ![p] = r]
        /\ late' = [late EXCEPT ![p] = l]
        /\ UNCHANGED <<memo, stale, inflight, call, file, upstream, basis>>
    BY <1>2, <1>3, <2>1 DEF Begin, clientVars
  <2>5. l => memo # None
    OBVIOUS
  <2> HIDE DEF x, r, l
  <2> QED
    BY <1>1, <2>2, <2>3, <2>4, <2>5, CallerMovesOn
<1>4. ASSUME pc[p] \in {"load", "wait"}, memo # None, Succeed(p, memo),
             UNCHANGED <<clientVars, call, ctx, late, file, upstream, basis>>
      PROVE  IInv'
  <2> DEFINE r == [result[p] EXCEPT !.cat = memo]
  <2>1. r \in Results /\ r.cat = memo /\ r.err = ""
    BY <1>1, <1>4 DEF Results, CallerInv
  <2>2. /\ pc' = [pc EXCEPT ![p] = "stale"]
        /\ waits' = [waits EXCEPT ![p] = None]
        /\ ctx' = [ctx EXCEPT ![p] = ctx[p]]
        /\ result' = [result EXCEPT ![p] = r]
        /\ late' = [late EXCEPT ![p] = late[p]]
        /\ UNCHANGED <<memo, stale, inflight, call, file, upstream, basis>>
    BY <1>2, <1>4 DEF Succeed, clientVars
  <2> HIDE DEF r
  <2> QED
    BY <1>1, <1>4, <2>1, <2>2, CallerMovesOn DEF CallerInv
<1>5. ASSUME pc[p] \in {"load", "wait"}, NEW e \in Faults, Abandon(p, e),
             e = "canceled" => ctx[p].over = "canceled",
             UNCHANGED <<clientVars, call, ctx, late, file, upstream, basis>>
      PROVE  IInv'
  <2> DEFINE r == [result[p] EXCEPT !.err = e]
  <2>1. r \in Results /\ r.cat = None /\ r.err = e
    BY <1>1, <1>5 DEF Results, CallerInv
  <2>2. /\ pc' = [pc EXCEPT ![p] = "idle"]
        /\ waits' = [waits EXCEPT ![p] = None]
        /\ ctx' = [ctx EXCEPT ![p] = ctx[p]]
        /\ result' = [result EXCEPT ![p] = r]
        /\ late' = [late EXCEPT ![p] = late[p]]
        /\ UNCHANGED <<memo, stale, inflight, call, file, upstream, basis>>
    BY <1>2, <1>5 DEF Abandon, clientVars
  <2> HIDE DEF r
  <2> QED
    BY <1>1, <1>5, <2>1, <2>2, CallerMovesOn, ZenonT(60) DEF CallerInv
<1>6. CASE LoadMemo(p)
  BY <1>4, <1>6 DEF LoadMemo
<1>7. CASE LoadJoin(p)
  <2>1. inflight \in Calls /\ call[inflight].at # "free" /\ ~late[p]
    BY <1>1, <1>7 DEF LoadJoin, IInv, TypeOK, CallInv, Running, CallerInv
  <2>2. /\ pc' = [pc EXCEPT ![p] = "wait"]
        /\ waits' = [waits EXCEPT ![p] = inflight]
        /\ ctx' = [ctx EXCEPT ![p] = ctx[p]]
        /\ result' = [result EXCEPT ![p] = result[p]]
        /\ late' = [late EXCEPT ![p] = late[p]]
        /\ UNCHANGED <<memo, stale, inflight, call, file, upstream, basis>>
        /\ pc[p] = "load"
    BY <1>2, <1>7 DEF LoadJoin, clientVars
  <2> QED
    BY <1>1, <2>1, <2>2, CallerMovesOn DEF CallerInv
<1>8. CASE WaitDone(p)
  <2>1. /\ waits[p] \in Calls /\ call[waits[p]] \in CallRecords
        /\ RecordInv(call[waits[p]]) /\ call[waits[p]].at = "done"
    BY <1>8 DEF WaitDone, IInv, TypeOK, CallInv
  <2>2. memo = None => call[waits[p]].err \in Faults \ {"", "canceled"}
    BY <2>1 DEF RecordInv, CallRecords
  <2>3. CASE memo # None
    BY <1>4, <1>8, <2>3 DEF WaitDone
  <2>4. CASE memo = None
    BY <1>5, <1>8, <2>2, <2>4 DEF WaitDone
  <2> QED
    BY <2>3, <2>4
<1>9. CASE WaitContext(p)
  BY <1>1, <1>5, <1>9 DEF WaitContext, Contexts, Faults
<1>10. CASE ReadStale(p)
  <2> DEFINE r == [result[p] EXCEPT !.flag = stale]
             x == [ctx[p] EXCEPT !.over = ""]
  <2>1. /\ r \in Results /\ x \in Contexts
        /\ r.cat = result[p].cat /\ r.err = result[p].err /\ r.flag = stale
    BY <1>1 DEF Results, Contexts
  <2>2. /\ pc' = [pc EXCEPT ![p] = "idle"]
        /\ waits' = [waits EXCEPT ![p] = waits[p]]
        /\ ctx' = [ctx EXCEPT ![p] = x]
        /\ result' = [result EXCEPT ![p] = r]
        /\ late' = [late EXCEPT ![p] = late[p]]
        /\ UNCHANGED <<memo, stale, inflight, call, file, upstream, basis>>
        /\ pc[p] = "stale"
    BY <1>2, <1>10 DEF ReadStale, clientVars
  <2> HIDE DEF r, x
  <2> QED
    BY <1>1, <2>1, <2>2, CallerMovesOn DEF CallerInv
<1> QED
  BY <1>3, <1>6, <1>7, <1>8, <1>9, <1>10 DEF CallerStep

\* A context that ends keeps it: a caller leaves, the fetch goes on.
LEMMA ContextEndsInv ==
    ASSUME IInv, NEW p \in Callers, NEW why \in {"canceled", "deadline"},
           ContextEnds(p, why)
    PROVE  IInv'
<1>1. /\ pc[p] \in {"load", "wait"} /\ ctx[p] \in Contexts /\ CallerInv(p)
      /\ waits[p] \in Calls \cup {None} /\ result[p] \in Results /\ late[p] \in BOOLEAN
      /\ (pc[p] = "wait" => waits[p] \in Calls)
  BY DEF IInv, TypeOK, ContextEnds
<1> DEFINE x == [ctx[p] EXCEPT !.over = why]
<1>2. x \in Contexts
  BY <1>1 DEF Contexts
<1>3. /\ pc' = [pc EXCEPT ![p] = pc[p]]
      /\ waits' = [waits EXCEPT ![p] = waits[p]]
      /\ ctx' = [ctx EXCEPT ![p] = x]
      /\ result' = [result EXCEPT ![p] = result[p]]
      /\ late' = [late EXCEPT ![p] = late[p]]
      /\ UNCHANGED <<memo, stale, inflight, call, file, upstream, basis>>
  BY DEF ContextEnds, clientVars, IInv, TypeOK
<1> HIDE DEF x
<1> QED
  BY <1>1, <1>2, <1>3, CallerMovesOn DEF CallerInv

\* The caller that leads allocates a record nobody refers to: no waiter can
\* see it change, and no other fetch is running.
LEMMA LoadLeadInv ==
    ASSUME IInv, NEW p \in Callers, LoadLead(p)
    PROVE  IInv'
<1>1. /\ TypeOK
      /\ \A i \in Calls : CallInv(i)
      /\ \A q \in Callers : CallerInv(q)
      /\ ClientInv
  BY DEF IInv
<1>2. PICK k \in Calls :
         /\ Unreferenced(k)
         /\ inflight' = k
         /\ waits' = [waits EXCEPT ![p] = k]
         /\ call' = [call EXCEPT ![k] = NewCall(ctx[p].deadline, upstream)]
  BY DEF LoadLead
<1>3. /\ pc[p] = "load" /\ memo = None /\ inflight = None
      /\ pc' = [pc EXCEPT ![p] = "wait"]
      /\ UNCHANGED <<memo, stale, ctx, result, late, file, upstream, basis>>
  BY DEF LoadLead
<1>4. /\ call'[k] = NewCall(ctx[p].deadline, upstream)
      /\ \A i \in Calls \ {k} : call'[i] = call[i]
      /\ call' \in [Calls -> CallRecords]
  BY <1>1, <1>2, NewCallType DEF TypeOK
<1>5. /\ call'[k].at = "stat" /\ call'[k].cat = None /\ call'[k].err = ""
      /\ ~call'[k].fallback /\ call'[k].floor = upstream
  <2>1. call'[k] = NewCall(ctx[p].deadline, upstream)
    BY <1>4
  <2>2. /\ NewCall(ctx[p].deadline, upstream).at = "stat"
        /\ NewCall(ctx[p].deadline, upstream).cat = None
        /\ NewCall(ctx[p].deadline, upstream).err = ""
        /\ ~NewCall(ctx[p].deadline, upstream).fallback
        /\ NewCall(ctx[p].deadline, upstream).floor = upstream
    BY DEF NewCall
  <2> QED
    BY <2>1, <2>2
<1>6. /\ pc'[p] = "wait" /\ waits'[p] = k
      /\ \A q \in Callers \ {p} : pc'[q] = pc[q] /\ waits'[q] = waits[q]
  BY <1>1, <1>2, <1>3 DEF TypeOK
<1>7. TypeOK'
  <2>1. \A q \in Callers : pc'[q] = "wait" => waits'[q] \in Calls
    BY <1>1, <1>6 DEF TypeOK
  <2>2. inflight' \in Calls \cup {None} /\ waits' \in [Callers -> Calls \cup {None}]
        /\ pc' \in [Callers -> {"idle", "load", "wait", "stale"}]
    BY <1>1, <1>2, <1>3 DEF TypeOK
  <2> QED
    BY <1>1, <1>3, <1>4, <2>1, <2>2 DEF TypeOK
<1>8. ASSUME NEW i \in Calls PROVE CallInv(i)'
  <2>1. CASE i = k
    <3>1. call'[k].floor =< upstream
      <4>1. upstream \in Nat
        BY <1>1, VersionsAreNumbers DEF TypeOK
      <4>2. call'[k].floor = upstream
        BY <1>5
      <4> QED
        BY <4>1, <4>2
    <3> QED
      BY <1>2, <1>3, <1>5, <2>1, <3>1 DEF CallInv, RecordInv, Running
  <2>2. CASE i # k
    BY <1>1, <1>2, <1>3, <1>4, <2>2, NoneIsNothing DEF CallInv, RecordInv, Running, Basis
  <2> QED
    BY <2>1, <2>2
<1>9. ASSUME NEW q \in Callers PROVE CallerInv(q)'
  <2>1. CASE q = p
    BY <1>1, <1>3, <1>5, <1>6, <2>1 DEF CallerInv
  <2>2. CASE q # p
    <3>1. pc[q] = "wait" => waits[q] \in Calls \ {k}
      BY <1>1, <1>2, <2>2 DEF Unreferenced, WaitsFor, TypeOK
    <3> QED
      BY <1>1, <1>3, <1>4, <1>6, <2>2, <3>1, ZenonT(60) DEF CallerInv
  <2> QED
    BY <2>1, <2>2
<1>10. ClientInv'
  BY <1>3 DEF ClientInv, IInv
<1> QED
  BY <1>7, <1>8, <1>9, <1>10 DEF IInv

-----------------------------------------------------------------------------

\* The endpoint, the clock and other processes' cache writes keep it.
LEMMA SurroundingsInv == ASSUME IInv, Surroundings PROVE IInv'
<1>1. /\ UNCHANGED <<memo, stale, inflight, call, pc, waits, ctx, result, late, basis>>
      /\ TypeOK
  BY DEF Surroundings, UpstreamPublishes, TTLPasses, OtherClientWrites, CacheRemoved,
         clientVars, callerVars, IInv
<1>2. upstream \in Nat /\ upstream' \in Versions /\ upstream' >= upstream
  BY <1>1, ConstantsAssumption
     DEF TypeOK, Versions, Surroundings, UpstreamPublishes, TTLPasses,
         OtherClientWrites, CacheRemoved
<1>3. file' \in Files \cup {None}
  <2>1. CASE OtherClientWrites
    <3>1. PICK v \in 1 .. upstream, w \in BOOLEAN : file' = [body |-> v, within |-> w]
      BY <2>1 DEF OtherClientWrites
    <3>2. v \in Versions
      BY <1>1, <3>1, ConstantsAssumption DEF TypeOK, Versions
    <3> QED
      BY <3>1, <3>2 DEF Files, Bodies
  <2>2. CASE TTLPasses
    BY <1>1, <2>2 DEF TTLPasses, TypeOK, Files
  <2>3. CASE UpstreamPublishes \/ CacheRemoved
    BY <1>1, <2>3 DEF UpstreamPublishes, CacheRemoved, TypeOK
  <2> QED
    BY <2>1, <2>2, <2>3 DEF Surroundings
<1>4. TypeOK'
  BY <1>1, <1>2, <1>3 DEF TypeOK
<1>5. ASSUME NEW k \in Calls PROVE CallInv(k)'
  <2>1. call[k].floor \in Nat /\ call[k].floor =< upstream
    BY <1>1, VersionsAreNumbers DEF TypeOK, CallRecords, IInv, CallInv, RecordInv
  <2>2. call[k].floor =< upstream'
    BY <1>2, <2>1, VersionsAreNumbers
  <2> QED
    BY <1>1, <2>2 DEF IInv, CallInv, RecordInv, Running, Basis
<1>6. ASSUME NEW p \in Callers PROVE CallerInv(p)'
  BY <1>1 DEF IInv, CallerInv
<1>7. ClientInv'
  BY <1>1 DEF IInv, ClientInv
<1> QED
  BY <1>4, <1>5, <1>6, <1>7 DEF IInv

\* Every step keeps the inductive invariant.
LEMMA InvNext == IInv /\ [Next]_vars => IInv'
<1> SUFFICES ASSUME IInv, [Next]_vars PROVE IInv'
  OBVIOUS
<1>1. ASSUME NEW p \in Callers, Begin(p) \/ CallerStep(p) PROVE IInv'
  BY <1>1, CallerStepInv, LoadLeadInv
<1>2. ASSUME NEW p \in Callers, NEW why \in {"canceled", "deadline"}, ContextEnds(p, why)
      PROVE  IInv'
  BY <1>2, ContextEndsInv
<1>3. ASSUME NEW k \in Calls, FetchStep(k) PROVE IInv'
  BY <1>3, FetchLocalInv, PublishInv
<1>4. CASE Surroundings
  BY <1>4, SurroundingsInv
<1>5. CASE UNCHANGED vars
  <2>1. UNCHANGED <<memo, stale, inflight, call, pc, waits, ctx, result, late,
                    file, upstream, basis>>
    BY <1>5 DEF vars, clientVars, callerVars
  <2> QED
    BY <2>1 DEF IInv, TypeOK, CallInv, RecordInv, Running, Basis, CallerInv, ClientInv
<1> QED
  BY <1>1, <1>2, <1>3, <1>4, <1>5 DEF Next

\* The inductive invariant holds of every reachable state of the client.
THEOREM Invariance == Spec => []IInv
BY InvInit, InvNext, PTL DEF Spec

-----------------------------------------------------------------------------
(* What follows.                                                           *)

\* Every variable of the client, its callers and its fetches keeps its type.
THEOREM TypeCorrect == Spec => []TypeOK
<1>1. IInv => TypeOK
  BY DEF IInv
<1> QED
  BY <1>1, Invariance, PTL

\* However many callers race, cancel and retry, one fetch goroutine runs at a
\* time, and none once the catalog is there.
THEOREM OneFetchAtATime == Spec => []SingleFlight
<1>1. IInv => SingleFlight
  <2> SUFFICES ASSUME IInv, NEW k \in Calls, Running(k)
               PROVE  inflight = k /\ memo = None
    BY DEF SingleFlight
  <2>1. inflight = k
    BY DEF IInv, CallInv
  <2>2. k # None
    BY NoneIsNothing
  <2> QED
    BY <2>1, <2>2 DEF IInv, ClientInv
<1> QED
  BY <1>1, Invariance, PTL

\* All successful calls, of all callers and at all times, return one catalog.
THEOREM CallersAgree == Spec => []AnswersAgree
<1>1. IInv => AnswersAgree
  BY DEF IInv, CallerInv, AnswersAgree
<1> QED
  BY <1>1, Invariance, PTL

\* An answer that is not flagged stale is as new as the start of the attempt
\* behind it, or from a file within its TTL.
THEOREM UnflaggedAnswersAreCurrent == Spec => []UnflaggedIsCurrent
<1>1. IInv => UnflaggedIsCurrent
  BY DEF IInv, CallerInv, ClientInv, UnflaggedIsCurrent
<1> QED
  BY <1>1, Invariance, PTL

\* A forced refresh never succeeds with cached data.
THEOREM ForcedAnswersAreCurrent == Spec => []ForcedIsCurrent
<1>1. IInv => ForcedIsCurrent
  BY DEF IInv, ClientInv, ForcedIsCurrent
<1> QED
  BY <1>1, Invariance, PTL

\* No caller fails because another one's context was cancelled.
THEOREM CancellationIsPrivate == Spec => []NoForeignCancel
<1>1. IInv => NoForeignCancel
  BY DEF IInv, CallerInv, NoForeignCancel
<1> QED
  BY <1>1, Invariance, PTL

\* No step replaces a cache file that decodes by one that does not.
THEOREM CacheIsSafe == Spec => UsableCacheKept
<1> DEFINE Kept == file # None /\ file' # None => (Usable(file.body) => Usable(file'.body))
<1>1. IInv /\ [Next]_vars => [Kept]_vars
  <2> SUFFICES ASSUME IInv, Next PROVE Kept
    OBVIOUS
  <2>1. ASSUME NEW k \in Calls, Rename(k) PROVE Kept
    <3>1. call[k].cat \in Versions
      BY <2>1 DEF IInv, CallInv, RecordInv, Rename
    <3> QED
      BY <2>1, <3>1 DEF Rename, Usable
  <2>2. CASE OtherClientWrites
    <3>1. PICK v \in 1 .. upstream, w \in BOOLEAN : file' = [body |-> v, within |-> w]
      BY <2>2 DEF OtherClientWrites
    <3>2. v \in Versions
      BY <3>1, ConstantsAssumption DEF IInv, TypeOK, Versions
    <3> QED
      BY <3>1, <3>2 DEF Usable
  <2>3. CASE TTLPasses
    BY <2>3 DEF TTLPasses, IInv, TypeOK, Files
  <2>4. CASE UpstreamPublishes \/ CacheRemoved
    BY <2>4 DEF UpstreamPublishes, CacheRemoved
  <2>5. ASSUME NEW p \in Callers, Begin(p) \/ CallerStep(p) PROVE Kept
    BY <2>5 DEF Begin, CallerStep, LoadMemo, LoadJoin, LoadLead, WaitDone, WaitContext, ReadStale
  <2>6. ASSUME NEW p \in Callers, NEW why \in {"canceled", "deadline"}, ContextEnds(p, why)
        PROVE  Kept
    BY <2>6 DEF ContextEnds
  <2>7. ASSUME NEW k \in Calls, FetchStep(k), ~Rename(k) PROVE Kept
    BY <2>7 DEF FetchStep, FetchLocal, Get, FetchStat, FetchRead, GetBody, GetFails,
                GetExpires, DeadlinePasses, WriteTemp, Publish
  <2> QED
    BY <2>1, <2>2, <2>3, <2>4, <2>5, <2>6, <2>7 DEF Next, Surroundings
<1> QED
  BY <1>1, Invariance, PTL DEF Spec, UsableCacheKept

-----------------------------------------------------------------------------
(* The client implements CatalogCell: each step is one of the contract, or *)
(* leaves its variables alone.                                             *)

\* A new client is an empty cell.
LEMMA CellInit == Init => Cell!Init
<1> SUFFICES ASSUME Init PROVE Cell!Init
  OBVIOUS
<1>1. /\ memo = None
      /\ \A p \in Callers : pc[p] = "idle" /\ late[p] = FALSE /\ result[p].cat = None
  BY DEF Init
<1>2. CellAsked = {} /\ CellLate = {} /\ CellJoined = {} /\ CellRefused = {}
  BY <1>1 DEF CellAsked, CellLate, CellJoined, CellRefused
<1>3. CellAnswer = [p \in Callers |-> None]
  BY <1>1 DEF CellAnswer
<1> QED
  BY <1>1, <1>2, <1>3 DEF Cell!Init

\* A call returns: what the ways of doing so have in common.
LEMMA CellReturns ==
    ASSUME IInv, NEW p \in Callers, pc[p] \in {"load", "wait"},
           UNCHANGED <<memo, call, late>>,
           NEW s \in {"idle", "stale"}, pc' = [pc EXCEPT ![p] = s],
           waits' = [waits EXCEPT ![p] = None],
           NEW r \in Results, result' = [result EXCEPT ![p] = r]
    PROVE  Cell!Return(p, r.cat)
<1>1. TypeOK
  BY DEF IInv
<1>2. /\ pc'[p] = s /\ result'[p] = r
      /\ \A q \in Callers \ {p} :
            pc'[q] = pc[q] /\ waits'[q] = waits[q] /\ result'[q] = result[q]
  BY <1>1 DEF TypeOK
<1>3. p \in CellAsked /\ CellAsked' = CellAsked \ {p}
  BY <1>2 DEF CellAsked
<1>4. CellJoined' = CellJoined \ {p} /\ CellRefused' = CellRefused \ {p}
  BY <1>2 DEF CellJoined, CellRefused, Running
<1>5. CellAnswer' = [CellAnswer EXCEPT ![p] = r.cat]
  BY <1>1, <1>2 DEF CellAnswer, TypeOK
<1>6. CellLate' = CellLate
  BY DEF CellLate
<1> QED
  BY <1>3, <1>4, <1>5, <1>6 DEF Cell!Return

\* A step that moves no caller and closes no call is invisible.
LEMMA CellStutters ==
    ASSUME UNCHANGED <<memo, late>>,
           \A p \in Callers : /\ pc'[p] \in {"load", "wait"} <=> pc[p] \in {"load", "wait"}
                              /\ result'[p].cat = result[p].cat,
           CellJoined' = CellJoined, CellRefused' = CellRefused
    PROVE  UNCHANGED Cell!vars
<1>1. CellAsked' = CellAsked /\ CellLate' = CellLate /\ CellAnswer' = CellAnswer
  BY DEF CellAsked, CellLate, CellAnswer
<1> QED
  BY <1>1 DEF Cell!vars

\* A caller that begins to wait joins, and nothing else is seen of it.
LEMMA CellJoins ==
    ASSUME UNCHANGED <<memo, late, result>>, memo = None,
           NEW p \in Callers, pc[p] = "load", pc'[p] = "wait",
           \A q \in Callers \ {p} : pc'[q] = pc[q],
           p \notin CellJoined, CellJoined' = CellJoined \cup {p},
           p \notin CellRefused, CellRefused' = CellRefused
    PROVE  Cell!Join(p)
<1>1. p \in CellAsked /\ CellAsked' = CellAsked
  BY DEF CellAsked
<1>2. CellLate' = CellLate /\ CellAnswer' = CellAnswer
  BY DEF CellLate, CellAnswer
<1> QED
  BY <1>1, <1>2 DEF Cell!Join

\* A caller's step is a step of the cell: asking, joining, answering,
\* withdrawing.
LEMMA CellCaller ==
    ASSUME IInv, NEW p \in Callers, Begin(p) \/ CallerStep(p)
    PROVE  [Cell!Next]_(Cell!vars)
<1>1. /\ TypeOK /\ CallerInv(p) /\ result[p] \in Results /\ ctx[p] \in Contexts
      /\ (pc[p] = "wait" => waits[p] \in Calls /\ RecordInv(call[waits[p]])
                            /\ call[waits[p]] \in CallRecords)
  BY DEF IInv, TypeOK, CallInv
<1>2. CASE Begin(p)
  <2>1. /\ pc[p] = "idle" /\ pc' = [pc EXCEPT ![p] = "load"]
        /\ result' = [result EXCEPT ![p] = [cat |-> None, err |-> "", flag |-> FALSE]]
        /\ late' = [late EXCEPT ![p] = (memo # None)]
        /\ UNCHANGED <<memo, call, waits>>
    BY <1>2 DEF Begin, clientVars
  <2>2. /\ pc'[p] = "load" /\ result'[p].cat = None
        /\ \A q \in Callers \ {p} : /\ pc'[q] = pc[q] /\ result'[q] = result[q]
                                    /\ late'[q] = late[q]
    BY <1>1, <2>1 DEF TypeOK
  <2>3. /\ p \notin CellAsked /\ CellAsked' = CellAsked \cup {p}
        /\ CellJoined' = CellJoined /\ CellRefused' = CellRefused
    BY <2>1, <2>2 DEF CellAsked, CellJoined, CellRefused, Running
  <2>4. CellLate' = IF memo # None THEN CellLate \cup {p} ELSE CellLate \ {p}
    <3>1. late'[p] <=> memo # None
      BY <1>1, <2>1 DEF TypeOK
    <3> QED
      BY <2>2, <3>1 DEF CellLate
  <2>5. CellAnswer' = [CellAnswer EXCEPT ![p] = None]
    BY <2>2 DEF CellAnswer
  <2>6. Cell!Ask(p)
    BY <2>1, <2>3, <2>4, <2>5 DEF Cell!Ask
  <2> QED
    BY <2>6 DEF Cell!Next
<1>3. ASSUME pc[p] \in {"load", "wait"}, memo # None, Succeed(p, memo),
             UNCHANGED <<clientVars, call, ctx, late, file, upstream, basis>>
      PROVE  Cell!Next
  <2> DEFINE r == [result[p] EXCEPT !.cat = memo]
  <2>1. r \in Results /\ r.cat = memo
    BY <1>1 DEF Results, TypeOK
  <2>2. /\ pc' = [pc EXCEPT ![p] = "stale"] /\ waits' = [waits EXCEPT ![p] = None]
        /\ result' = [result EXCEPT ![p] = r] /\ UNCHANGED <<memo, call, late>>
    BY <1>3 DEF Succeed, clientVars
  <2> HIDE DEF r
  <2>3. Cell!Return(p, memo)
    BY <1>3, <2>1, <2>2, CellReturns
  <2> QED
    BY <1>3, <2>3 DEF Cell!Next, Cell!Answer
<1>4. ASSUME pc[p] = "wait", NEW e \in Faults, Abandon(p, e),
             UNCHANGED <<clientVars, call, ctx, late, file, upstream, basis>>
      PROVE  Cell!Return(p, None)
  <2> DEFINE r == [result[p] EXCEPT !.err = e]
  <2>1. r \in Results /\ r.cat = None
    BY <1>1, <1>4 DEF Results, CallerInv
  <2>2. /\ pc' = [pc EXCEPT ![p] = "idle"] /\ waits' = [waits EXCEPT ![p] = None]
        /\ result' = [result EXCEPT ![p] = r] /\ UNCHANGED <<memo, call, late>>
    BY <1>4 DEF Abandon, clientVars
  <2> HIDE DEF r
  <2> QED
    BY <1>4, <2>1, <2>2, CellReturns
<1>5. CASE LoadMemo(p)
  BY <1>3, <1>5 DEF LoadMemo
<1>6. CASE LoadJoin(p)
  <2>1. /\ pc[p] = "load" /\ pc' = [pc EXCEPT ![p] = "wait"]
        /\ waits' = [waits EXCEPT ![p] = inflight]
        /\ UNCHANGED <<memo, call, result, late>>
        /\ memo = None /\ inflight \in Calls /\ Running(inflight)
    BY <1>1, <1>6 DEF LoadJoin, clientVars, TypeOK, IInv, CallInv
  <2>2. /\ pc'[p] = "wait" /\ waits'[p] = inflight
        /\ \A q \in Callers \ {p} : pc'[q] = pc[q] /\ waits'[q] = waits[q]
    BY <1>1, <2>1 DEF TypeOK
  <2>3. /\ p \notin CellJoined /\ CellJoined' = CellJoined \cup {p}
        /\ p \notin CellRefused /\ CellRefused' = CellRefused
    BY <2>1, <2>2 DEF CellJoined, CellRefused, Running
  <2> QED
    BY <2>1, <2>2, <2>3, CellJoins DEF Cell!Next
<1>7. CASE LoadLead(p)
  <2>1. PICK k \in Calls :
           /\ Unreferenced(k)
           /\ waits' = [waits EXCEPT ![p] = k]
           /\ call' = [call EXCEPT ![k] = NewCall(ctx[p].deadline, upstream)]
    BY <1>7 DEF LoadLead
  <2>2. /\ pc[p] = "load" /\ pc' = [pc EXCEPT ![p] = "wait"]
        /\ UNCHANGED <<memo, result, late>>
    BY <1>7 DEF LoadLead
  <2>3. /\ pc'[p] = "wait" /\ waits'[p] = k
        /\ \A q \in Callers \ {p} : pc'[q] = pc[q] /\ waits'[q] = waits[q]
    BY <1>1, <2>1, <2>2 DEF TypeOK
  <2>4. /\ call'[k].at = "stat"
        /\ \A i \in Calls \ {k} : call'[i] = call[i]
    <3>1. call'[k] = NewCall(ctx[p].deadline, upstream)
      BY <1>1, <2>1 DEF TypeOK
    <3>2. NewCall(ctx[p].deadline, upstream).at = "stat"
      BY DEF NewCall
    <3> QED
      BY <1>1, <2>1, <3>1, <3>2 DEF TypeOK
  <2>5. \A q \in Callers : pc[q] = "wait" => waits[q] \in Calls \ {k}
    BY <1>1, <2>1 DEF Unreferenced, WaitsFor, TypeOK
  <2>6. p \notin CellJoined /\ p \notin CellRefused /\ p \in CellJoined' /\ p \notin CellRefused'
    BY <2>2, <2>3, <2>4 DEF CellJoined, CellRefused, Running
  <2>7. ASSUME NEW q \in Callers \ {p}
        PROVE  /\ q \in CellJoined' <=> q \in CellJoined
               /\ q \in CellRefused' <=> q \in CellRefused
    BY <2>3, <2>4, <2>5, ZenonT(60) DEF CellJoined, CellRefused, Running
  <2>8. CellJoined' = CellJoined \cup {p} /\ CellRefused' = CellRefused
    BY <2>6, <2>7 DEF CellJoined, CellRefused
  <2>9. memo = None
    BY <1>7 DEF LoadLead
  <2> QED
    BY <2>2, <2>3, <2>6, <2>8, <2>9, CellJoins DEF Cell!Next
<1>8. CASE WaitDone(p)
  <2>1. CASE memo # None
    BY <1>3, <1>8, <2>1 DEF WaitDone
  <2>2. CASE memo = None
    <3>1. call[waits[p]].err \in Faults /\ call[waits[p]].err # ""
      BY <1>1, <1>8, <2>2 DEF WaitDone, RecordInv, CallRecords
    <3>2. p \in CellRefused
      BY <1>8, <3>1 DEF WaitDone, CellRefused
    <3>3. Cell!Return(p, None)
      BY <1>4, <1>8, <2>2, <3>1 DEF WaitDone
    <3> QED
      BY <2>2, <3>2, <3>3 DEF Cell!Next, Cell!Fail
  <2> QED
    BY <2>1, <2>2
<1>9. CASE WaitContext(p)
  <2>1. Cell!Return(p, None)
    BY <1>1, <1>4, <1>9 DEF WaitContext, Contexts, Faults
  <2>2. p \notin CellLate
    BY <1>1, <1>9 DEF WaitContext, CallerInv, CellLate
  <2> QED
    BY <2>1, <2>2 DEF Cell!Next, Cell!Withdraw
<1>10. CASE ReadStale(p)
  <2>1. /\ pc[p] = "stale" /\ pc' = [pc EXCEPT ![p] = "idle"]
        /\ result' = [result EXCEPT ![p].flag = stale]
        /\ UNCHANGED <<memo, call, waits, late>>
    BY <1>10 DEF ReadStale, clientVars
  <2>2. /\ pc'[p] = "idle" /\ result'[p].cat = result[p].cat
        /\ \A q \in Callers \ {p} : pc'[q] = pc[q] /\ result'[q] = result[q]
    BY <1>1, <2>1 DEF TypeOK, Results
  <2>3. CellJoined' = CellJoined /\ CellRefused' = CellRefused
    BY <2>1, <2>2 DEF CellJoined, CellRefused, Running
  <2> QED
    BY <2>1, <2>2, <2>3, CellStutters
<1> QED
  BY <1>2, <1>5, <1>6, <1>7, <1>8, <1>9, <1>10 DEF CallerStep

\* A step of a fetch fills the cell, refuses its waiters, or is invisible.
LEMMA CellFetch ==
    ASSUME IInv, NEW k \in Calls, FetchStep(k)
    PROVE  [Cell!Next]_(Cell!vars)
<1>1. TypeOK /\ call[k] \in CallRecords /\ CallInv(k) /\ ClientInv
  BY DEF IInv, TypeOK
<1>2. UNCHANGED <<pc, waits, result, late>> /\ call[k].at \notin {"free", "done"}
  BY DEF FetchStep, FetchLocal, Get, FetchStat, FetchRead, GetBody, GetFails, GetExpires,
         DeadlinePasses, Running, WriteTemp, Rename, Publish, FetchVars, callerVars
<1>3. CASE ~Publish(k)
  <2> DEFINE Ended == {"free", "done"}
  <2>1. UNCHANGED memo
    BY <1>3 DEF FetchStep, FetchLocal, Get, FetchStat, FetchRead, GetBody, GetFails,
                GetExpires, DeadlinePasses, WriteTemp, Rename, FetchVars
  <2>2. ASSUME NEW c, Becomes(k, c), c.at \notin Ended
        PROVE  call'[k].at \notin Ended /\ \A i \in Calls \ {k} : call'[i] = call[i]
    BY <1>1, <2>2 DEF Becomes, TypeOK
  <2>3. call'[k].at \notin Ended /\ \A i \in Calls \ {k} : call'[i] = call[i]
    <3>1. CASE FetchStat(k)
      <4>1. [call[k] EXCEPT !.at = "get"].at \notin Ended
        BY <1>1 DEF CallRecords
      <4>2. [call[k] EXCEPT !.at = "read", !.within = file.within].at \notin Ended
        BY <1>1 DEF CallRecords
      <4> QED
        BY <2>2, <3>1, <4>1, <4>2 DEF FetchStat
    <3>2. CASE FetchRead(k)
      <4>1. PICK w \in {FALSE, call[k].within} :
               Becomes(k, Examined(call[k], IF file = None THEN None ELSE file.body, w))
        BY <3>2 DEF FetchRead
      <4>2. Examined(call[k], IF file = None THEN None ELSE file.body, w).at \notin Ended
        BY <1>1 DEF Examined, CallRecords
      <4> QED
        BY <2>2, <4>1, <4>2
    <3>3. CASE Get(k)
      <4>1. \A fault : FellBack(call[k], fault).at \notin Ended
        BY <1>1 DEF FellBack, CallRecords
      <4>2. \A b : [call[k] EXCEPT !.at = "temp", !.cat = b].at \notin Ended
        BY <1>1 DEF CallRecords
      <4> QED
        BY <2>2, <3>3, <4>1, <4>2 DEF Get, GetBody, GetFails, GetExpires
    <3>4. CASE DeadlinePasses(k)
      <4>1. [call[k] EXCEPT !.deadline = "passed"].at \notin Ended
        BY <1>1, <1>2 DEF CallRecords
      <4> QED
        BY <2>2, <3>4, <4>1 DEF DeadlinePasses
    <3>5. CASE WriteTemp(k) \/ Rename(k)
      <4>1. \A s \in {"rename", "publish"} : [call[k] EXCEPT !.at = s].at \notin Ended
        BY <1>1 DEF CallRecords
      <4> QED
        BY <2>2, <3>5, <4>1 DEF WriteTemp, Rename
    <3> QED
      BY <1>3, <3>1, <3>2, <3>3, <3>4, <3>5 DEF FetchStep, FetchLocal
  <2>4. CellJoined' = CellJoined /\ CellRefused' = CellRefused
    BY <1>1, <1>2, <2>3 DEF CellJoined, CellRefused, Running, TypeOK
  <2> QED
    BY <1>2, <2>1, <2>4, CellStutters
<1>4. CASE Publish(k)
  <2>1. /\ memo = None
        /\ call[k].err = "" => call[k].cat \in Versions
    BY <1>1, <1>4, NoneIsNothing DEF Publish, CallInv, RecordInv, Running, ClientInv
  <2>2. /\ call'[k] = Closed(call[k])
        /\ \A i \in Calls \ {k} : call'[i] = call[i]
    BY <1>1, <1>4 DEF Publish, Becomes, TypeOK
  <2>3. call'[k].at = "done" /\ call'[k].err = call[k].err
    BY <2>2 DEF Closed, NewCall
  <2>4. CellAsked' = CellAsked /\ CellLate' = CellLate /\ CellAnswer' = CellAnswer
    BY <1>2 DEF CellAsked, CellLate, CellAnswer
  <2>5. CellJoined = {p \in Callers : WaitsFor(p, k)}
    <3>1. ASSUME NEW p \in Callers, pc[p] = "wait", Running(waits[p]) PROVE waits[p] = k
      BY <1>1, <1>2, <3>1 DEF IInv, TypeOK, CallInv, Running
    <3> QED
      BY <1>2, <3>1 DEF CellJoined, WaitsFor, Running
  <2>6. CellJoined' = {}
    <3>1. ASSUME NEW p \in Callers, pc[p] = "wait", Running(waits[p])' PROVE FALSE
      <4>1. waits[p] \in Calls /\ waits[p] # k
        BY <1>1, <1>2, <2>3, <3>1 DEF Running, TypeOK
      <4>2. Running(waits[p])
        BY <1>2, <2>2, <3>1, <4>1 DEF Running
      <4> QED
        BY <2>5, <3>1, <4>1, <4>2 DEF CellJoined, WaitsFor
    <3> QED
      BY <1>2, <3>1 DEF CellJoined
  <2>7. CASE call[k].err = ""
    <3>1. CellRefused' = CellRefused
      BY <1>1, <1>2, <2>2, <2>3, <2>7 DEF CellRefused, TypeOK
    <3>2. memo' = call[k].cat
      BY <1>4, <2>7 DEF Publish
    <3>3. Cell!Fill(call[k].cat)
      BY <2>1, <2>4, <2>6, <3>1, <3>2 DEF Cell!Fill
    <3> QED
      BY <2>1, <2>7, <3>3 DEF Cell!Next
  <2>8. CASE call[k].err # ""
    <3>1. CellRefused' = CellRefused \cup CellJoined
      BY <1>1, <1>2, <2>2, <2>3, <2>5, <2>8 DEF CellRefused, WaitsFor, TypeOK
    <3>2. UNCHANGED memo
      BY <1>4, <2>8 DEF Publish
    <3>3. Cell!Refuse
      BY <2>1, <2>4, <2>6, <3>1, <3>2 DEF Cell!Refuse
    <3> QED
      BY <3>3 DEF Cell!Next
  <2> QED
    BY <2>7, <2>8
<1> QED
  BY <1>3, <1>4

\* One catalog for all callers, and no failure but a caller's own context or
\* an attempt it waited for while there was no catalog: the client, with its
\* files, locks and goroutines, implements CatalogCell.
THEOREM ClientKeepsPromise == Spec => KeepsPromise
<1>1. IInv /\ [Next]_vars => [Cell!Next]_(Cell!vars)
  <2> SUFFICES ASSUME IInv, [Next]_vars PROVE [Cell!Next]_(Cell!vars)
    OBVIOUS
  <2>1. ASSUME NEW p \in Callers, NEW why \in {"canceled", "deadline"}, ContextEnds(p, why)
        PROVE  UNCHANGED Cell!vars
    <3>1. UNCHANGED <<memo, late, pc, result, call, waits>>
      BY <2>1 DEF ContextEnds, clientVars
    <3>2. CellJoined' = CellJoined /\ CellRefused' = CellRefused
      BY <3>1 DEF CellJoined, CellRefused, Running
    <3> QED
      BY <3>1, <3>2, CellStutters
  <2>2. CASE Surroundings \/ UNCHANGED vars
    <3>1. UNCHANGED <<memo, late, pc, result, call, waits>>
      BY <2>2 DEF Surroundings, UpstreamPublishes, TTLPasses, OtherClientWrites,
                  CacheRemoved, clientVars, callerVars, vars
    <3>2. CellJoined' = CellJoined /\ CellRefused' = CellRefused
      BY <3>1 DEF CellJoined, CellRefused, Running
    <3> QED
      BY <3>1, <3>2, CellStutters
  <2> QED
    BY <2>1, <2>2, CellCaller, CellFetch DEF Next
<1> QED
  BY <1>1, CellInit, Invariance, PTL DEF Spec, KeepsPromise, Cell!Spec
=============================================================================
