------------------------ MODULE SqliteExecute_proofs ------------------------
(***************************************************************************)
(* Executing a SQL string of any number of statements, with any arguments, *)
(* any errors and drops: only the current statement is ever open, the      *)
(* statements start in order, none with a binding of an earlier execution, *)
(* and where every parameter is `?` each has the argument of its place, up *)
(* to the first statement that could not be bound.                         *)
(***************************************************************************)
EXTENDS SqliteExecute, SequenceTheorems, FiniteSetTheorems, WellFoundedInduction, TLAPS

Vm == {"init", "row", "done", "failed"}
Handle == [vm : Vm, bound : Seq(Nat)]
Item == {"none", "Row", "Done", "PrepareError", "BindError", "StepError", "ResetError"}
Start == [stmt : Nat, bound : Seq(Nat)]

\* A statement has a binding for each of its parameters.
Fits(hs) == \A k \in DOMAIN hs : DOMAIN hs[k].bound = DOMAIN query[k]

\* The types, with the handles within the statements of the SQL string and
\* the index within the handles.
ShapeInv ==
    /\ query \in Seq(Seq(Param))
    /\ handles \in Seq(Handle) /\ Len(handles) <= Len(query) /\ Fits(handles)
    /\ index \in NoIndex..Len(handles)
    /\ pc \in {"idle", "iter"} /\ values \in Nat /\ args_used \in Nat
    /\ goto_next \in BOOLEAN /\ item \in Item
    /\ ran \in Seq(Start)

Open(h) == h.vm \in {"row", "failed"}

\* Between executions no statement is open.  In one, the statements before
\* the current one are done, those behind it have not started, and next()
\* moves on exactly if the current one is done.
RunInv ==
    /\ pc = "idle" => \A k \in DOMAIN handles : ~ Open(handles[k])
    /\ pc = "iter" =>
         /\ \A k \in DOMAIN handles : k < index + 1 => handles[k].vm = "done"
         /\ \A k \in DOMAIN handles : k > index + 1 => handles[k].vm = "init"
         /\ index + 1 \in DOMAIN handles => (goto_next <=> handles[index + 1].vm = "done")
         /\ ~ goto_next => index + 1 \in DOMAIN handles

Within(b) == \A i \in DOMAIN b : b[i] <= values

\* The statement that next() would start again is bound by this execution.
BoundInv ==
    /\ \A j \in DOMAIN ran : Within(ran[j].bound)
    /\ pc = "iter" /\ ~ goto_next => Within(handles[index + 1].bound)

\* The inductive invariant.
ExecInv == ShapeInv /\ RunInv /\ BoundInv

-----------------------------------------------------------------------------
(* Smallest numbers. *)

\* Min of numbers is one of them and not above any.
LEMMA MinNat ==
    ASSUME NEW S, S \subseteq Nat, S # {}
    PROVE  Min(S) \in S /\ \A y \in S : Min(S) <= y
<1>1. PICK x \in S : \A y \in S : ~ (<<y, x>> \in OpToRel(<, Nat))
  BY NatLessThanWellFounded, WFMin, Zenon
<1>2. \A y, z \in Nat : y < z => <<y, z>> \in OpToRel(<, Nat)
  BY Zenon DEF OpToRel
<1>3. \A y \in S : ~ (y < x)
  BY <1>1, <1>2, Zenon
<1>4. \A y \in S : x =< y
  BY <1>3
<1> QED
  BY <1>4, Zenon DEF Min

\* NextIndex is one more, but not behind the handles.
LEMMA MinTwo ==
    ASSUME NEW a \in Int, NEW b \in Int
    PROVE  Min({a, b}) = IF a <= b THEN a ELSE b
<1>1. \E x \in {a, b} : \A y \in {a, b} : x =< y
  OBVIOUS
<1>2. Min({a, b}) \in {a, b} /\ \A y \in {a, b} : Min({a, b}) =< y
  BY <1>1 DEF Min
<1> QED
  BY <1>2

-----------------------------------------------------------------------------
(* SqliteArguments::bind. *)

\* A count of places is a number.
LEMMA CountIsNat ==
    ASSUME NEW n \in Nat, NEW T, T \subseteq 1..n
    PROVE  Cardinality(T) \in Nat
<1>1. IsFiniteSet(1..n)
  BY FS_Interval, SMT
<1>2. IsFiniteSet(T)
  BY <1>1, FS_Subset, Zenon
<1> QED
  BY <1>2, FS_CardinalityType, Zenon

\* The place of an argument is a number.
LEMMA ArgIsNat ==
    ASSUME NEW ps \in Seq(Param), NEW i \in DOMAIN ps, NEW offset \in Nat
    PROVE  ArgOf(ps, i, offset) \in Nat
<1>1. i \in Nat /\ ps[i] \in Param
  OBVIOUS
<1>2. Cardinality({j \in 1..i : ps[j].form = "anonymous"}) \in Nat
  <2>1. {j \in 1..i : ps[j].form = "anonymous"} \subseteq 1..i
    OBVIOUS
  <2> QED
    BY <1>1, <2>1, CountIsNat
<1>3. ps[i].n \in Nat
  BY <1>1 DEF Param
<1> QED
  BY <1>2, <1>3 DEF ArgOf

\* bind gives numbers of arguments there are, and the rest as it was, whether
\* the loop came to its end or failed at `stop`.
LEMMA BindWithin ==
    ASSUME NEW ps \in Seq(Param), NEW offset \in Nat, NEW count \in Nat, NEW b \in Seq(Nat),
           DOMAIN b = DOMAIN ps, \A i \in DOMAIN b : b[i] = Unbound,
           NEW stop \in Nat, stop <= BindStop(ps, offset, count)
    PROVE  /\ bind(b, ps, offset, stop) \in Seq(Nat)
           /\ DOMAIN bind(b, ps, offset, stop) = DOMAIN ps
           /\ \A i \in DOMAIN bind(b, ps, offset, stop) : bind(b, ps, offset, stop)[i] <= count
<1> DEFINE Stops == {i \in DOMAIN ps : \/ count = 0
                                       \/ ps[i].form = "named"
                                       \/ ArgOf(ps, i, offset) > count}
           bnd == bind(b, ps, offset, stop)
<1>1. DOMAIN ps = 1..Len(ps) /\ Len(ps) \in Nat
  OBVIOUS
<1>2. PICK end \in Nat : /\ end = BindStop(ps, offset, count)
                         /\ \A y \in Stops \cup {Len(ps) + 1} : end <= y
  <2>1. Stops \cup {Len(ps) + 1} \subseteq Nat
    BY <1>1
  <2>2. BindStop(ps, offset, count) = Min(Stops \cup {Len(ps) + 1})
    BY DEF BindStop
  <2> HIDE DEF Stops
  <2> QED
    BY <2>1, <2>2, MinNat
<1>3. stop <= end
  BY <1>2
<1>4. \A i \in DOMAIN ps : i < stop => ArgOf(ps, i, offset) <= count
  <2> SUFFICES ASSUME NEW i \in DOMAIN ps, i < stop PROVE ArgOf(ps, i, offset) <= count
    OBVIOUS
  <2>1. i \notin Stops
    <3> HIDE DEF Stops
    <3> QED
      BY <1>1, <1>2, <1>3
  <2>2. ArgOf(ps, i, offset) \in Nat
    BY ArgIsNat
  <2> QED
    BY <2>1, <2>2
<1>5. bnd = [i \in 1..Len(ps) |-> IF i < stop THEN ArgOf(ps, i, offset) ELSE b[i]]
  BY <1>1 DEF bind
<1>6. \A i \in 1..Len(ps) : b[i] = 0
  BY <1>1 DEF Unbound
<1>7. \A i \in 1..Len(ps) : bnd[i] \in Nat /\ bnd[i] <= count
  <2> SUFFICES ASSUME NEW i \in 1..Len(ps) PROVE bnd[i] \in Nat /\ bnd[i] <= count
    OBVIOUS
  <2>1. bnd[i] = IF i < stop THEN ArgOf(ps, i, offset) ELSE 0
    BY <1>5, <1>6
  <2>2. ArgOf(ps, i, offset) \in Nat
    BY <1>1, ArgIsNat, Zenon
  <2> HIDE DEF bnd
  <2> QED
    BY <1>1, <1>4, <2>1, <2>2
<1>8. DOMAIN bnd = 1..Len(ps)
  BY <1>5
<1>9. bnd \in Seq(Nat)
  <2>1. bnd = [i \in 1..Len(ps) |-> bnd[i]]
    BY <1>5
  <2> HIDE DEF bnd
  <2> QED
    BY <1>1, <1>7, <2>1, IsASeq
<1> QED
  BY <1>1, <1>7, <1>8, <1>9
-----------------------------------------------------------------------------
(* The handles. *)

\* The parts of a handle.
LEMMA HandleParts ==
    ASSUME NEW h \in Handle PROVE h.vm \in Vm /\ h.bound \in Seq(Nat)
BY DEF Handle

\* A statement that SQLite has just prepared.
LEMMA FreshShape ==
    ASSUME NEW ps \in Seq(Param)
    PROVE  Fresh(ps) \in Handle /\ DOMAIN Fresh(ps).bound = DOMAIN ps /\ Fresh(ps).vm = "init"
<1>1. [i \in DOMAIN ps |-> Unbound] \in Seq(Nat)
  BY DEF Unbound
<1> QED
  BY <1>1 DEF Fresh, Handle, Vm

\* clear_bindings keeps the parameters and leaves nothing bound.
LEMMA Cleared ==
    ASSUME NEW b \in Seq(Nat)
    PROVE  /\ clear_bindings(b) \in Seq(Nat) /\ DOMAIN clear_bindings(b) = DOMAIN b
           /\ \A i \in DOMAIN clear_bindings(b) : clear_bindings(b)[i] = Unbound
BY DEF clear_bindings, Unbound

\* reset changes neither the number of handles nor their parameters.
LEMMA ResetShape ==
    ASSUME NEW hs \in Seq(Handle), NEW e \in 1..Len(hs) + 1
    PROVE  /\ reset(hs, e) \in Seq(Handle) /\ Len(reset(hs, e)) = Len(hs)
           /\ DOMAIN reset(hs, e) = DOMAIN hs
           /\ \A i \in DOMAIN hs :
                 /\ reset(hs, e)[i].vm = (IF i <= e THEN "init" ELSE hs[i].vm)
                 /\ DOMAIN reset(hs, e)[i].bound = DOMAIN hs[i].bound
<1> DEFINE New(i) == [vm    |-> IF i <= e THEN "init" ELSE hs[i].vm,
                      bound |-> IF i < e THEN clear_bindings(hs[i].bound) ELSE hs[i].bound]
<1>1. \A i \in DOMAIN hs : hs[i].vm \in Vm /\ hs[i].bound \in Seq(Nat)
  <2>1. \A i \in DOMAIN hs : hs[i] \in Handle
    OBVIOUS
  <2> QED
    BY <2>1, HandleParts, Zenon
<1>2. \A i \in DOMAIN hs : /\ clear_bindings(hs[i].bound) \in Seq(Nat)
                           /\ DOMAIN clear_bindings(hs[i].bound) = DOMAIN hs[i].bound
  BY <1>1, Cleared
<1>3. \A i \in DOMAIN hs : /\ New(i) \in Handle
                           /\ New(i).vm = (IF i <= e THEN "init" ELSE hs[i].vm)
                           /\ DOMAIN New(i).bound = DOMAIN hs[i].bound
  BY <1>1, <1>2 DEF Handle, Vm
<1>4. reset(hs, e) = [i \in 1..Len(hs) |-> New(i)]
  BY DEF reset
<1> HIDE DEF New
<1>5. reset(hs, e) \in Seq(Handle) /\ Len(reset(hs, e)) = Len(hs)
  BY <1>3, <1>4, IsASeq
<1> QED
  BY <1>3, <1>4, <1>5

\* Between executions a reset meets no error and leaves all as if just prepared.
LEMMA IdleReset ==
    ASSUME ShapeInv, RunInv, pc = "idle", NEW e \in 1..Len(handles) + 1, ResetStops(handles, e)
    PROVE  /\ e \notin DOMAIN handles
           /\ \A i \in DOMAIN handles : reset(handles, e)[i].vm = "init"
<1>1. e \notin DOMAIN handles
  BY DEF ShapeInv, RunInv, Open, ResetStops
<1>2. \A i \in DOMAIN handles : i <= e
  BY <1>1 DEF ShapeInv
<1> QED
  BY <1>1, <1>2, ResetShape DEF ShapeInv

\* When next() moves on to statement k, those before it are done, and it and
\* those behind it have not started.
LEMMA Ahead ==
    ASSUME ShapeInv, RunInv, pc = "iter", goto_next
    PROVE  /\ NextIndex \in 0..Len(handles)
           /\ \A j \in DOMAIN handles : j < NextIndex + 1 => handles[j].vm = "done"
           /\ \A j \in DOMAIN handles : j >= NextIndex + 1 => handles[j].vm = "init"
<1>1. handles \in Seq(Handle) /\ Len(handles) \in Nat /\ index \in -1..Len(handles)
  BY DEF ShapeInv, NoIndex
<1>2. CASE index = -1
  BY <1>1, <1>2 DEF NextIndex, NoIndex, RunInv
<1>3. CASE index # -1
  <2>1. NextIndex = IF index + 1 <= Len(handles) THEN index + 1 ELSE Len(handles)
    BY <1>1, <1>3, MinTwo DEF NextIndex, NoIndex
  <2> QED
    BY <1>1, <1>3, <2>1 DEF RunInv
<1> QED
  BY <1>2, <1>3

\* The statement that next() moves on to.
LEMMA PreparedShape ==
    ASSUME ShapeInv, RunInv, pc = "iter", goto_next, NextIndex + 1 <= Len(query)
    PROVE  LET k == NextIndex + 1 IN
           /\ Prepared(k) \in Seq(Handle) /\ k \in 1..Len(Prepared(k))
           /\ Len(Prepared(k)) <= Len(query) /\ Fits(Prepared(k))
           /\ Prepared(k)[k].vm = "init"
           /\ \A j \in DOMAIN Prepared(k) : j < k => Prepared(k)[j].vm = "done"
           /\ \A j \in DOMAIN Prepared(k) : j > k => Prepared(k)[j].vm = "init"
<1> DEFINE k == NextIndex + 1
<1>1. k \in 1..Len(handles) + 1 /\ handles \in Seq(Handle) /\ query \in Seq(Seq(Param))
  BY Ahead DEF ShapeInv
<1>2. query[k] \in Seq(Param)
  BY <1>1
<1>3. \A j \in DOMAIN handles : /\ j < k => handles[j].vm = "done"
                                /\ j >= k => handles[j].vm = "init"
  BY Ahead
<1>4. Len(handles) <= Len(query) /\ Fits(handles)
  BY DEF ShapeInv
<1> HIDE DEF k
<1>5. CASE k > Len(handles)
  <2>1. Prepared(k) = Append(handles, Fresh(query[k]))
    BY <1>5 DEF Prepared
  <2>2. Fresh(query[k]) \in Handle /\ DOMAIN Fresh(query[k]).bound = DOMAIN query[k]
        /\ Fresh(query[k]).vm = "init"
    BY <1>2, FreshShape
  <2>3. /\ Prepared(k) \in Seq(Handle) /\ Len(Prepared(k)) = Len(handles) + 1
        /\ \A j \in DOMAIN handles : Prepared(k)[j] = handles[j]
        /\ Prepared(k)[Len(handles) + 1] = Fresh(query[k])
    BY <1>1, <2>1, <2>2, AppendProperties
  <2>4. k = Len(handles) + 1
    BY <1>1, <1>5
  <2>5. DOMAIN Prepared(k) = 1..k
    BY <2>3, <2>4
  <2>6. Fits(Prepared(k))
    <3>1. ASSUME NEW j \in 1..k PROVE DOMAIN Prepared(k)[j].bound = DOMAIN query[j]
      <4>1. CASE j = k
        BY <2>2, <2>3, <2>4, <4>1
      <4>2. CASE j # k
        <5>1. j \in DOMAIN handles
          BY <1>1, <2>4, <4>2
        <5> QED
          BY <1>4, <2>3, <5>1 DEF Fits
      <4> QED
        BY <4>1, <4>2
    <3> QED
      BY <2>5, <3>1 DEF Fits
  <2> QED
    BY <1>1, <1>3, <2>2, <2>3, <2>4, <2>5, <2>6 DEF k
<1>6. CASE ~ (k > Len(handles))
  <2>1. Prepared(k) = handles
    BY <1>6 DEF Prepared
  <2> QED
    BY <1>1, <1>3, <1>4, <1>6, <2>1 DEF k
<1> QED
  BY <1>5, <1>6

\* The loop ends at some parameter, and an error comes no later.
LEMMA StopIsNat ==
    ASSUME NEW ps \in Seq(Param), NEW offset, NEW count
    PROVE  /\ BindStop(ps, offset, count) \in Nat
           /\ \A stop : BindFails(ps, offset, count, stop) =>
                 stop \in Nat /\ stop <= BindStop(ps, offset, count)
<1> DEFINE Stops == {i \in DOMAIN ps : \/ count = 0
                                       \/ ps[i].form = "named"
                                       \/ ArgOf(ps, i, offset) > count}
<1>1. Stops \cup {Len(ps) + 1} \subseteq Nat
  OBVIOUS
<1>2. BindStop(ps, offset, count) = Min(Stops \cup {Len(ps) + 1})
  BY DEF BindStop
<1> HIDE DEF Stops
<1>3. BindStop(ps, offset, count) \in Nat
  BY <1>1, <1>2, MinNat
<1>4. ASSUME NEW stop, BindFails(ps, offset, count, stop)
      PROVE  stop \in Nat /\ stop <= BindStop(ps, offset, count)
  <2>1. PICK end \in Nat : end = BindStop(ps, offset, count)
    BY <1>3
  <2>2. stop \in DOMAIN ps /\ (stop < end \/ stop = end)
    BY <1>4, <2>1 DEF BindFails
  <2> QED
    BY <2>1, <2>2
<1> QED
  BY <1>3, <1>4

\* Its "sanity check" reset reports nothing, and its bindings are of this
\* execution, wherever the loop that binds them ends.
LEMMA ReboundShape ==
    ASSUME ShapeInv, RunInv, pc = "iter", goto_next, NextIndex + 1 <= Len(query)
    PROVE  LET k == NextIndex + 1 IN
           /\ ~ SanityFails(k) /\ query[k] \in Seq(Param)
           /\ \A stop \in Nat : stop <= BindStop(query[k], args_used, values) =>
                /\ Rebound(k, stop) \in Seq(Nat) /\ DOMAIN Rebound(k, stop) = DOMAIN query[k]
                /\ Within(Rebound(k, stop))
<1> DEFINE k == NextIndex + 1
           b == clear_bindings(Prepared(k)[k].bound)
<1>1. /\ Prepared(k) \in Seq(Handle) /\ k \in DOMAIN Prepared(k) /\ Fits(Prepared(k))
      /\ Prepared(k)[k].vm = "init"
  BY PreparedShape
<1>2. Prepared(k)[k].bound \in Seq(Nat) /\ DOMAIN Prepared(k)[k].bound = DOMAIN query[k]
  <2>1. Prepared(k)[k] \in Handle
    BY <1>1
  <2> QED
    BY <1>1, <2>1, HandleParts, Zenon DEF Fits
<1>3. b \in Seq(Nat) /\ DOMAIN b = DOMAIN query[k] /\ \A i \in DOMAIN b : b[i] = Unbound
  BY <1>2, Cleared
<1>4. query[k] \in Seq(Param) /\ args_used \in Nat /\ values \in Nat
  BY Ahead DEF ShapeInv
<1>5. \A stop : Rebound(k, stop) = bind(b, query[k], args_used, stop)
  BY DEF Rebound
<1>6. ~ SanityFails(k)
  BY <1>1 DEF SanityFails
<1> HIDE DEF k, b
<1>7. ASSUME NEW stop \in Nat, stop <= BindStop(query[k], args_used, values)
      PROVE  /\ Rebound(k, stop) \in Seq(Nat) /\ DOMAIN Rebound(k, stop) = DOMAIN query[k]
             /\ Within(Rebound(k, stop))
  <2>1. /\ Rebound(k, stop) \in Seq(Nat) /\ DOMAIN Rebound(k, stop) = DOMAIN query[k]
        /\ \A i \in DOMAIN Rebound(k, stop) : Rebound(k, stop)[i] <= values
    BY <1>3, <1>4, <1>5, <1>7, BindWithin
  <2> QED
    BY <2>1 DEF Within
<1> QED
  BY <1>4, <1>6, <1>7, Zenon DEF k
-----------------------------------------------------------------------------
(* The invariant, action by action. *)

\* It holds at the start.
LEMMA ExecStart == Init => ExecInv
<1> SUFFICES ASSUME Init PROVE ExecInv
  OBVIOUS
<1>1. query \in Seq(Seq(Param))
  BY ScriptsAssumption DEF Init
<1>2. ShapeInv
  BY <1>1 DEF Init, ShapeInv, Fits, NoIndex, Item
<1> QED
  BY <1>2 DEF Init, ExecInv, RunInv, BoundInv

\* What a step of statement k of hs changes: how it stands, and perhaps one
\* more start.
LEMMA StepEffect ==
    ASSUME ExecInv, NEW hs \in Seq(Handle), NEW k \in 1..Len(hs), Step(hs, k)
    PROVE  /\ handles' \in Seq(Handle) /\ Len(handles') = Len(hs) /\ DOMAIN handles' = 1..Len(hs)
           /\ handles'[k].bound = hs[k].bound
           /\ \A j \in 1..Len(hs) : j # k => handles'[j] = hs[j]
           /\ goto_next' \in BOOLEAN /\ (goto_next' <=> handles'[k].vm = "done")
           /\ item' \in Item /\ ran' \in Seq(Start)
           /\ \A j \in DOMAIN ran' : \/ ran'[j].stmt = k /\ ran'[j].bound = hs[k].bound
                                     \/ j \in DOMAIN ran /\ ran'[j] = ran[j]
<1>1. PICK res \in {"row", "done", "failed"} :
        /\ handles' = [hs EXCEPT ![k].vm = res]
        /\ item' = CASE res = "row" -> "Row" [] res = "done" -> "Done"
                     [] OTHER -> "StepError"
        /\ goto_next' = (res = "done")
        /\ IF hs[k].vm = "row" THEN UNCHANGED ran
           ELSE /\ Len(ran) < MaxStarts
                /\ ran' = Append(ran, [stmt |-> k, bound |-> hs[k].bound])
  BY Zenon DEF Step
<1>2. hs[k] \in Handle /\ Len(hs) \in Nat /\ DOMAIN hs = 1..Len(hs)
  OBVIOUS
<1>3. hs[k].vm \in Vm /\ hs[k].bound \in Seq(Nat)
  BY <1>2, HandleParts
<1>4. PICK h : h = [hs[k] EXCEPT !.vm = res]
  BY Zenon
<1>5. h \in Handle /\ h.vm = res /\ h.bound = hs[k].bound
  BY <1>1, <1>2, <1>3, <1>4, Zenon DEF Handle, Vm
<1>6. handles' = [hs EXCEPT ![k] = h]
  BY <1>1, <1>4
<1>7. /\ handles' \in Seq(Handle) /\ Len(handles') = Len(hs) /\ DOMAIN handles' = 1..Len(hs)
      /\ handles'[k] = h /\ \A j \in 1..Len(hs) : j # k => handles'[j] = hs[j]
  BY <1>2, <1>5, <1>6
<1>8. item' \in Item
  BY <1>1 DEF Item
<1>9. goto_next' \in BOOLEAN /\ (goto_next' <=> handles'[k].vm = "done")
  BY <1>1, <1>5, <1>7, Zenon
<1>10. ran \in Seq(Start)
  BY DEF ExecInv, ShapeInv
<1>11. PICK r : r = [stmt |-> k, bound |-> hs[k].bound]
  BY Zenon
<1>12. r \in Start /\ r.stmt = k /\ r.bound = hs[k].bound
  BY <1>3, <1>11 DEF Start
<1>13. ran' = ran \/ ran' = Append(ran, r)
  BY <1>1, <1>11
<1>14. /\ ran' \in Seq(Start)
       /\ \A j \in DOMAIN ran' : ran'[j] = r \/ (j \in DOMAIN ran /\ ran'[j] = ran[j])
  <2>1. CASE ran' = ran
    BY <1>10, <2>1
  <2>2. CASE ran' = Append(ran, r)
    <3>1. /\ ran' \in Seq(Start) /\ DOMAIN ran' = 1..Len(ran) + 1 /\ ran'[Len(ran) + 1] = r
          /\ \A j \in 1..Len(ran) : ran'[j] = ran[j]
      BY <1>10, <1>12, <2>2, AppendProperties
    <3>2. DOMAIN ran = 1..Len(ran) /\ Len(ran) \in Nat
      BY <1>10
    <3> QED
      BY <3>1, <3>2
  <2> QED
    BY <1>13, <2>1, <2>2
<1> QED
  BY <1>5, <1>7, <1>8, <1>9, <1>12, <1>14

\* Stepping the current statement k of hs, by a first or a later next().
LEMMA StepKeeps ==
    ASSUME ExecInv, NEW hs \in Seq(Handle), NEW k \in 1..Len(hs), Step(hs, k),
           Len(hs) <= Len(query), Fits(hs), Within(hs[k].bound),
           \A j \in DOMAIN hs : j < k => hs[j].vm = "done",
           \A j \in DOMAIN hs : j > k => hs[j].vm = "init",
           index' = k - 1, pc' = "iter", values' = values, query' = query, args_used' \in Nat
    PROVE  ExecInv'
<1>1. /\ handles' \in Seq(Handle) /\ Len(handles') = Len(hs) /\ DOMAIN handles' = 1..Len(hs)
      /\ handles'[k].bound = hs[k].bound
      /\ \A j \in 1..Len(hs) : j # k => handles'[j] = hs[j]
      /\ goto_next' \in BOOLEAN /\ (goto_next' <=> handles'[k].vm = "done")
      /\ item' \in Item /\ ran' \in Seq(Start)
      /\ \A j \in DOMAIN ran' : \/ ran'[j].stmt = k /\ ran'[j].bound = hs[k].bound
                                \/ j \in DOMAIN ran /\ ran'[j] = ran[j]
  BY StepEffect, Zenon
<1>2. Len(hs) \in Nat /\ DOMAIN hs = 1..Len(hs)
  OBVIOUS
<1>3. query \in Seq(Seq(Param)) /\ values \in Nat
  BY DEF ExecInv, ShapeInv
<1>4. Fits(handles)'
  BY <1>1, <1>2 DEF Fits
<1>5. ShapeInv'
  BY <1>1, <1>2, <1>3, <1>4 DEF ShapeInv, NoIndex
<1>6. RunInv'
  <2>1. \A j \in DOMAIN handles' : j < k => handles'[j].vm = "done"
    BY <1>1, <1>2
  <2>2. \A j \in DOMAIN handles' : j > k => handles'[j].vm = "init"
    BY <1>1, <1>2
  <2>3. index' + 1 = k
    OBVIOUS
  <2> QED
    BY <1>1, <2>1, <2>2, <2>3 DEF RunInv
<1>7. BoundInv'
  <2>1. \A j \in DOMAIN ran' : Within(ran'[j].bound)
    BY <1>1 DEF ExecInv, BoundInv
  <2>2. Within(handles'[index' + 1].bound)
    BY <1>1
  <2>3. \A j \in DOMAIN ran' : \A i \in DOMAIN ran'[j].bound : ran'[j].bound[i] <= values'
    BY <2>1 DEF Within
  <2>4. \A i \in DOMAIN handles'[index' + 1].bound : handles'[index' + 1].bound[i] <= values'
    BY <2>2 DEF Within
  <2> QED
    BY <2>3, <2>4 DEF BoundInv, Within
<1> QED
  BY <1>5, <1>6, <1>7 DEF ExecInv

\* execute::iter starts from handles that have not run.
LEMMA ExecuteKeeps ==
    ASSUME ExecInv, NEW count \in 0..MaxArgs, Execute(count) PROVE ExecInv'
<1> USE DEF ExecInv
<1>1. PICK e \in 1..Len(handles) + 1 :
          /\ get(handles, e)
          /\ pc' = IF GetFails(handles, e) THEN "idle" ELSE "iter"
          /\ item' = IF GetFails(handles, e) THEN "ResetError" ELSE "none"
  BY DEF Execute
<1>2. handles \in Seq(Handle) /\ Fits(handles) /\ Len(handles) <= Len(query)
      /\ query \in Seq(Seq(Param)) /\ pc = "idle" /\ query' = query
  BY DEF ShapeInv, Execute
<1>3. /\ handles' \in Seq(Handle) /\ Len(handles') <= Len(query)
      /\ \A i \in DOMAIN handles' : handles'[i].vm = "init"
      /\ Fits(handles)'
  <2>1. CASE persistent
    <3>1. ResetStops(handles, e) /\ handles' = reset(handles, e)
      BY <1>1, <2>1 DEF get
    <3>2. \A i \in DOMAIN handles : handles'[i].vm = "init"
      BY <1>2, <3>1, IdleReset
    <3> QED
      BY <1>2, <3>1, <3>2, ResetShape DEF Fits
  <2>2. CASE ~ persistent
    <3>1. handles' = <<>>
      BY <1>1, <2>2 DEF get
    <3> QED
      BY <1>2, <3>1 DEF Fits
  <2> QED
    BY <2>1, <2>2
<1>4. pc' \in {"idle", "iter"} /\ item' \in Item
  BY <1>1 DEF Item
<1>5. index' = -1 /\ values' = count /\ count \in Nat /\ args_used' = 0
      /\ goto_next' = TRUE /\ ran' = <<>>
  BY MaxAssumption DEF Execute, IndexAfterReset, NoIndex
<1>6. ShapeInv'
  BY <1>2, <1>3, <1>4, <1>5 DEF ShapeInv, NoIndex
<1>7. RunInv'
  BY <1>3, <1>5 DEF RunInv, Open
<1>8. BoundInv'
  BY <1>5 DEF BoundInv
<1> QED
  BY <1>6, <1>7, <1>8

\* prepare() adds statements that have not run.
LEMMA PrepareKeeps ==
    ASSUME ExecInv, Prepare PROVE ExecInv'
<1> USE DEF ExecInv
<1>1. PICK e \in 1..Len(handles) + 1, n \in Len(handles)..Len(query) :
          /\ ResetStops(handles, e)
          /\ handles' = reset(handles, e)
                        \o [i \in 1..n - Len(handles) |->
                              Fresh(query[Len(handles) + i])]
          /\ index' = IF e \in DOMAIN handles THEN IndexAfterReset ELSE n
  BY Zenon DEF Prepare
<1>2. handles \in Seq(Handle) /\ Fits(handles) /\ Len(handles) <= Len(query)
      /\ query \in Seq(Seq(Param)) /\ pc = "idle" /\ pc' = "idle" /\ query' = query
  BY DEF ShapeInv, Prepare
<1>3. e \notin DOMAIN handles /\ \A i \in DOMAIN handles : reset(handles, e)[i].vm = "init"
  BY <1>1, <1>2, IdleReset
<1>4. PICK m \in Nat : m = n - Len(handles)
  <2>1. n - Len(handles) \in Nat
    BY <1>2
  <2> QED
    BY <2>1
<1>5. PICK old : old = reset(handles, e)
  OBVIOUS
<1>6. PICK new : new = [i \in 1..m |-> Fresh(query[Len(handles) + i])]
  BY Zenon
<1>7. handles' = old \o new
  BY <1>1, <1>4, <1>5, <1>6
<1>a. old \in Seq(Handle) /\ Len(old) = Len(handles)
      /\ \A i \in 1..Len(handles) : old[i].vm = "init" /\ DOMAIN old[i].bound = DOMAIN query[i]
  <2>1. /\ old \in Seq(Handle) /\ Len(old) = Len(handles)
        /\ \A i \in DOMAIN handles : DOMAIN old[i].bound = DOMAIN handles[i].bound
    <3>1. /\ reset(handles, e) \in Seq(Handle) /\ Len(reset(handles, e)) = Len(handles)
          /\ \A i \in DOMAIN handles :
                DOMAIN reset(handles, e)[i].bound = DOMAIN handles[i].bound
      BY <1>2, ResetShape
    <3> QED
      BY <1>5, <3>1
  <2>2. DOMAIN handles = 1..Len(handles)
    BY <1>2
  <2>3. \A i \in DOMAIN handles : DOMAIN handles[i].bound = DOMAIN query[i]
    BY <1>2 DEF Fits
  <2>4. \A i \in DOMAIN handles : old[i].vm = "init"
    BY <1>3, <1>5
  <2> QED
    BY <2>1, <2>2, <2>3, <2>4
<1>b. \A i \in 1..m :
        /\ Fresh(query[Len(handles) + i]) \in Handle
        /\ DOMAIN Fresh(query[Len(handles) + i]).bound = DOMAIN query[Len(handles) + i]
        /\ Fresh(query[Len(handles) + i]).vm = "init"
  <2> SUFFICES ASSUME NEW i \in 1..m
               PROVE  query[Len(handles) + i] \in Seq(Param)
    BY FreshShape
  <2> QED
    BY <1>2, <1>4
<1>c. new \in Seq(Handle) /\ Len(new) = m
  <2>1. \A i \in 1..m : new[i] \in Handle
    BY <1>6, <1>b, Zenon
  <2>2. new = [i \in 1..m |-> new[i]]
    BY <1>6
  <2> QED
    BY <2>1, <2>2, IsASeq
<1>d. \A i \in 1..m : new[i].vm = "init" /\ DOMAIN new[i].bound = DOMAIN query[Len(handles) + i]
  BY <1>6, <1>b, Zenon
<1>e. Len(handles) \in Nat /\ n \in Nat /\ Len(handles) + m = n /\ n <= Len(query)
  BY <1>1, <1>2, <1>4
<1>8. /\ handles' \in Seq(Handle) /\ Len(handles') = n
      /\ \A i \in 1..n : handles'[i] = IF i <= Len(old) THEN old[i] ELSE new[i - Len(old)]
  <2>1. /\ old \o new \in Seq(Handle) /\ Len(old \o new) = Len(old) + Len(new)
        /\ \A i \in 1..Len(old) + Len(new) :
              (old \o new)[i] = IF i <= Len(old) THEN old[i] ELSE new[i - Len(old)]
    BY <1>a, <1>c, ConcatProperties, Zenon
  <2>2. Len(old) + Len(new) = n
    BY <1>a, <1>c, <1>e
  <2> QED
    BY <1>7, <2>1, <2>2
<1>9. \A i \in 1..n : handles'[i].vm = "init" /\ DOMAIN handles'[i].bound = DOMAIN query[i]
  <2> SUFFICES ASSUME NEW i \in 1..n
               PROVE  handles'[i].vm = "init" /\ DOMAIN handles'[i].bound = DOMAIN query[i]
    OBVIOUS
  <2>1. CASE i <= Len(handles)
    <3>1. i \in 1..Len(handles) /\ handles'[i] = old[i]
      BY <1>8, <1>a, <1>e, <2>1
    <3> QED
      BY <1>a, <3>1
  <2>2. CASE i > Len(handles)
    <3>1. PICK j \in 1..m : i = Len(handles) + j
      <4>1. i - Len(handles) \in 1..m /\ i = Len(handles) + (i - Len(handles))
        BY <1>e, <2>2
      <4> QED
        BY <4>1
    <3>2. handles'[i] = new[j]
      BY <1>8, <1>a, <1>e, <2>2, <3>1
    <3> QED
      BY <1>d, <3>1, <3>2
  <2> QED
    BY <1>e, <2>1, <2>2
<1>10. DOMAIN handles' = 1..n /\ n <= Len(query) /\ index' = n
  BY <1>1, <1>3, <1>8, <1>e
<1>11. ShapeInv'
  <2>1. Fits(handles)'
    BY <1>2, <1>9, <1>10 DEF Fits
  <2>2. /\ values' = values /\ args_used' = args_used /\ goto_next' = goto_next
        /\ item' = item /\ ran' = ran
    BY DEF Prepare
  <2>3. index' \in NoIndex..Len(handles')
    BY <1>8, <1>10, <1>e DEF NoIndex
  <2>4. Len(handles') <= Len(query')
    BY <1>2, <1>8, <1>10
  <2> QED
    BY <1>2, <1>8, <2>1, <2>2, <2>3, <2>4 DEF ShapeInv
<1>12. RunInv' /\ BoundInv'
  BY <1>2, <1>9, <1>10, Zenon DEF RunInv, BoundInv, Open, Prepare, Within
<1> QED
  BY <1>11, <1>12

\* The handles of an evicted statement are finalized.
LEMMA EvictKeeps ==
    ASSUME ExecInv, Evict PROVE ExecInv'
<1> USE DEF ExecInv
<1>1. handles' = <<>> /\ index' = -1 /\ pc' = "idle" /\ query' = query /\ values' = values
      /\ args_used' = args_used /\ goto_next' = goto_next /\ item' = item /\ ran' = ran
  BY DEF Evict, NoIndex, ShapeInv
<1>2. handles' \in Seq(Handle) /\ Len(handles') = 0 /\ DOMAIN handles' = {}
  BY <1>1
<1>3. Len(query) \in Nat
  BY DEF ShapeInv
<1>4. ShapeInv'
  BY <1>1, <1>2, <1>3 DEF ShapeInv, Fits, NoIndex
<1> QED
  BY <1>1, <1>2, <1>4 DEF RunInv, BoundInv, Within

\* After an error of prepare, next() is where it was.
LEMMA PrepareErrorKeeps ==
    ASSUME ExecInv, PrepareError PROVE ExecInv'
<1> USE DEF ExecInv
<1>1. pc = "iter" /\ goto_next /\ NextIndex = Len(handles)
  BY DEF PrepareError
<1>2. \A j \in DOMAIN handles : j < Len(handles) + 1 => handles[j].vm = "done"
  BY <1>1, Ahead
<1>3. index' = Len(handles) /\ item' = "PrepareError" /\ handles' = handles /\ query' = query
      /\ pc' = pc /\ values' = values /\ args_used' = args_used /\ goto_next' = goto_next
      /\ ran' = ran
  BY <1>1 DEF PrepareError
<1>4. handles \in Seq(Handle) /\ Len(handles) \in Nat /\ DOMAIN handles = 1..Len(handles)
  BY DEF ShapeInv
<1>5. ShapeInv'
  BY <1>3, <1>4 DEF ShapeInv, NoIndex, Item, Fits
<1>6. RunInv'
  BY <1>1, <1>2, <1>3, <1>4 DEF RunInv
<1>7. BoundInv'
  BY <1>1, <1>3 DEF BoundInv, Within
<1> QED
  BY <1>5, <1>6, <1>7

\* What BeginError leaves: the statement as it was bound up to `stop`.
LEMMA BeginErrors ==
    ASSUME ExecInv, BeginError
    PROVE  LET k == NextIndex + 1 IN
           \E stop \in Nat :
              /\ BindFails(query[k], args_used, values, stop)
              /\ stop <= BindStop(query[k], args_used, values)
              /\ handles' = [Prepared(k) EXCEPT
                                ![k] = [vm |-> "init", bound |-> Rebound(k, stop)]]
<1> DEFINE k == NextIndex + 1
<1>1. pc = "iter" /\ goto_next /\ k <= Len(query)
  BY DEF BeginError
<1>2. ~ SanityFails(k) /\ query[k] \in Seq(Param)
  BY <1>1, ReboundShape DEF ExecInv
<1>3. PICK stop \in 1..Len(query[k]) + 1 :
          /\ SanityFails(k) \/ BindFails(query[k], args_used, values, stop)
          /\ handles' = [Prepared(k) EXCEPT
                            ![k] = [vm |-> "init",
                                    bound |-> IF SanityFails(k) THEN @.bound
                                              ELSE Rebound(k, stop)]]
  BY Zenon DEF BeginError
<1>4. handles' = [Prepared(k) EXCEPT ![k] = [vm |-> "init", bound |-> Rebound(k, stop)]]
  BY <1>2, <1>3
<1> HIDE DEF k
<1>5. stop \in Nat /\ stop <= BindStop(query[k], args_used, values)
  BY <1>2, <1>3, StopIsNat
<1> QED
  BY <1>2, <1>3, <1>4, <1>5, Zenon DEF k

\* A statement with a parameter that cannot be bound is the current one, and
\* what is bound is of this execution.
LEMMA BeginErrorKeeps ==
    ASSUME ExecInv, BeginError PROVE ExecInv'
<1> USE DEF ExecInv
<1>1. PICK k : k = NextIndex + 1
  OBVIOUS
<1>2. pc = "iter" /\ goto_next /\ k <= Len(query)
  BY <1>1 DEF BeginError
<1>3. PICK hs : hs = Prepared(k)
  OBVIOUS
<1>4. /\ hs \in Seq(Handle) /\ k \in 1..Len(hs) /\ Len(hs) <= Len(query) /\ Fits(hs)
      /\ \A j \in DOMAIN hs : j < k => hs[j].vm = "done"
      /\ \A j \in DOMAIN hs : j > k => hs[j].vm = "init"
  BY <1>1, <1>2, <1>3, PreparedShape
<1>a. PICK stop \in Nat :
          /\ stop <= BindStop(query[k], args_used, values)
          /\ handles' = [hs EXCEPT ![k] = [vm |-> "init", bound |-> Rebound(k, stop)]]
  BY <1>1, <1>3, BeginErrors
<1>b. PICK bnd : bnd = Rebound(k, stop)
  OBVIOUS
<1>5. bnd \in Seq(Nat) /\ DOMAIN bnd = DOMAIN query[k] /\ Within(bnd)
  BY <1>1, <1>2, <1>a, <1>b, ReboundShape
<1>6. PICK h : h = [vm |-> "init", bound |-> bnd]
  BY Zenon
<1>7. h \in Handle /\ h.vm = "init" /\ h.bound = bnd
  BY <1>5, <1>6 DEF Handle, Vm
<1>8. /\ handles' = [hs EXCEPT ![k] = h] /\ index' = NextIndex /\ goto_next' = FALSE
      /\ item' = "BindError" /\ query' = query /\ pc' = pc /\ values' = values
      /\ args_used' = args_used /\ ran' = ran
  BY <1>a, <1>b, <1>6, Zenon DEF BeginError
<1>9. /\ handles' \in Seq(Handle) /\ Len(handles') = Len(hs) /\ DOMAIN handles' = 1..Len(hs)
      /\ handles'[k] = h /\ \A j \in 1..Len(hs) : j # k => handles'[j] = hs[j]
  BY <1>4, <1>7, <1>8
<1>10. Fits(handles)'
  BY <1>4, <1>5, <1>7, <1>8, <1>9 DEF Fits
<1>11. index' + 1 = k /\ index' \in -1..Len(handles')
  BY <1>1, <1>2, <1>4, <1>8, <1>9, Ahead
<1>12. ShapeInv'
  BY <1>4, <1>8, <1>9, <1>10, <1>11, Zenon DEF ShapeInv, NoIndex, Item
<1>13. RunInv'
  <2>1. \A j \in DOMAIN handles' : /\ j < k => handles'[j].vm = "done"
                                   /\ j > k => handles'[j].vm = "init"
    BY <1>4, <1>9
  <2> QED
    BY <1>2, <1>4, <1>7, <1>8, <1>9, <1>11, <2>1 DEF RunInv
<1>14. BoundInv'
  <2>1. \A i \in DOMAIN handles'[index' + 1].bound : handles'[index' + 1].bound[i] <= values'
    BY <1>5, <1>7, <1>8, <1>9, <1>11 DEF Within
  <2> QED
    BY <1>8, <2>1 DEF BoundInv, Within
<1> QED
  BY <1>12, <1>13, <1>14

\* Begin steps the statement it has bound.
LEMMA Begins ==
    ASSUME ExecInv, Begin
    PROVE  \E k \in Nat, hs \in Seq(Handle) :
              /\ k = NextIndex + 1 /\ k \in 1..Len(hs) /\ Step(hs, k)
              /\ Len(hs) <= Len(query) /\ Fits(hs) /\ Within(hs[k].bound)
              /\ \A j \in DOMAIN hs : j < k => hs[j].vm = "done"
              /\ \A j \in DOMAIN hs : j > k => hs[j].vm = "init"
<1> USE DEF ExecInv
<1>1. PICK k : k = NextIndex + 1
  OBVIOUS
<1>2. pc = "iter" /\ goto_next /\ k <= Len(query)
  BY <1>1 DEF Begin
<1>3. PICK hs : hs = Prepared(k)
  OBVIOUS
<1>4. /\ hs \in Seq(Handle) /\ k \in 1..Len(hs) /\ Len(hs) <= Len(query) /\ Fits(hs)
      /\ \A j \in DOMAIN hs : j < k => hs[j].vm = "done"
      /\ \A j \in DOMAIN hs : j > k => hs[j].vm = "init"
  BY <1>1, <1>2, <1>3, PreparedShape
<1>a. PICK stop : stop = BindStop(query[k], args_used, values)
  OBVIOUS
<1>b. stop \in Nat /\ stop <= stop
  BY <1>1, <1>2, <1>a, ReboundShape, StopIsNat
<1>c. PICK bnd : bnd = Rebound(k, stop)
  OBVIOUS
<1>5. bnd \in Seq(Nat) /\ DOMAIN bnd = DOMAIN query[k] /\ Within(bnd)
  BY <1>1, <1>2, <1>a, <1>b, <1>c, ReboundShape
<1>6. PICK h : h = [vm |-> "init", bound |-> bnd]
  BY Zenon
<1>7. h \in Handle /\ h.bound = bnd
  BY <1>5, <1>6 DEF Handle, Vm
<1>8. PICK gs : gs = [hs EXCEPT ![k] = h]
  BY Zenon
<1>9. Step(gs, k)
  BY <1>1, <1>3, <1>6, <1>8, <1>a, <1>c DEF Begin
<1>10. /\ gs \in Seq(Handle) /\ Len(gs) = Len(hs) /\ DOMAIN gs = 1..Len(hs)
       /\ gs[k] = h /\ \A j \in 1..Len(hs) : j # k => gs[j] = hs[j]
  BY <1>4, <1>7, <1>8
<1>11. Fits(gs)
  BY <1>4, <1>5, <1>7, <1>10 DEF Fits
<1>12. Within(gs[k].bound)
  BY <1>5, <1>7, <1>10
<1>13. \A j \in DOMAIN gs : /\ j < k => gs[j].vm = "done"
                            /\ j > k => gs[j].vm = "init"
  BY <1>4, <1>10
<1>14. k \in Nat /\ k \in 1..Len(gs) /\ Len(gs) <= Len(query)
  BY <1>4, <1>10
<1> QED
  BY <1>1, <1>9, <1>10, <1>11, <1>12, <1>13, <1>14, Zenon

\* The number of arguments a statement takes is a number.
LEMMA UsedIsNat ==
    ASSUME NEW ps \in Seq(Param), NEW offset, NEW count
    PROVE  ArgsUsed(ps, offset, count) \in Nat
<1>1. PICK n \in Nat : n = Len(ps)
  OBVIOUS
<1>2. DOMAIN ps = 1..n
  BY <1>1
<1> DEFINE T == {i \in DOMAIN ps : /\ count > 0
                                   /\ i <= BindStop(ps, offset, count)
                                   /\ ps[i].form = "anonymous"}
<1>3. T \subseteq 1..n
  BY <1>2
<1>4. ArgsUsed(ps, offset, count) = Cardinality(T)
  BY DEF ArgsUsed
<1> HIDE DEF T
<1> QED
  BY <1>3, <1>4, CountIsNat, Zenon

\* The first step of a statement.
LEMMA BeginKeeps ==
    ASSUME ExecInv, Begin PROVE ExecInv'
<1>1. PICK k \in Nat, hs \in Seq(Handle) :
          /\ k = NextIndex + 1 /\ k \in 1..Len(hs) /\ Step(hs, k)
          /\ Len(hs) <= Len(query) /\ Fits(hs) /\ Within(hs[k].bound)
          /\ \A j \in DOMAIN hs : j < k => hs[j].vm = "done"
          /\ \A j \in DOMAIN hs : j > k => hs[j].vm = "init"
  BY Begins
<1>2. pc' = "iter" /\ values' = values /\ query' = query /\ index' = NextIndex
      /\ args_used' = args_used + ArgsUsed(query[k], args_used, values)
  BY <1>1 DEF Begin
<1>3. query[k] \in Seq(Param) /\ args_used \in Nat
  BY <1>1 DEF ExecInv, ShapeInv
<1>4. args_used' \in Nat
  BY <1>2, <1>3, UsedIsNat
<1>5. NextIndex \in Int
  BY Ahead DEF ExecInv, Begin, ShapeInv
<1>6. index' = k - 1
  BY <1>1, <1>2, <1>5
<1> QED
  BY <1>1, <1>2, <1>4, <1>6, StepKeeps, Zenon

\* Continue steps the current statement.
LEMMA Continues ==
    ASSUME ExecInv, Continue
    PROVE  /\ index + 1 \in 1..Len(handles) /\ Within(handles[index + 1].bound)
           /\ handles[index + 1].vm # "done"
           /\ \A j \in DOMAIN handles : j < index + 1 => handles[j].vm = "done"
           /\ \A j \in DOMAIN handles : j > index + 1 => handles[j].vm = "init"
<1>1. pc = "iter" /\ ~ goto_next
  BY DEF Continue
<1>2. DOMAIN handles = 1..Len(handles)
  BY DEF ExecInv, ShapeInv
<1> QED
  BY <1>1, <1>2 DEF ExecInv, RunInv, BoundInv

\* A later step of a statement.
LEMMA ContinueKeeps ==
    ASSUME ExecInv, Continue PROVE ExecInv'
<1>1. PICK k : k = index + 1
  OBVIOUS
<1>2. /\ k \in 1..Len(handles) /\ Within(handles[k].bound)
      /\ \A j \in DOMAIN handles : j < k => handles[j].vm = "done"
      /\ \A j \in DOMAIN handles : j > k => handles[j].vm = "init"
  BY <1>1, Continues
<1>3. /\ handles \in Seq(Handle) /\ Len(handles) <= Len(query) /\ Fits(handles)
      /\ args_used \in Nat /\ index \in Int
  BY DEF ExecInv, ShapeInv, NoIndex
<1>4. /\ Step(handles, k) /\ pc' = "iter" /\ values' = values /\ query' = query
      /\ args_used' = args_used /\ index' = index
  BY <1>1 DEF Continue
<1>5. index' = k - 1 /\ args_used' \in Nat
  BY <1>1, <1>3, <1>4
<1> QED
  BY <1>2, <1>3, <1>4, <1>5, StepKeeps

\* Dropping the iterator closes the current statement, the only open one.
LEMMA DropKeeps ==
    ASSUME ExecInv, Drop PROVE ExecInv'
<1> USE DEF ExecInv
<1>1. PICK e \in 1..Len(handles) + 1 : ResetStops(handles, e) /\ handles' = reset(handles, e)
  BY DEF Drop
<1>2. /\ pc = "iter" /\ pc' = "idle" /\ index' = -1 /\ query' = query /\ values' = values
      /\ args_used' = args_used /\ goto_next' = goto_next /\ item' = item /\ ran' = ran
  BY DEF Drop, IndexAfterReset, NoIndex
<1>3. handles \in Seq(Handle) /\ Fits(handles) /\ index \in Int /\ Len(handles) \in Nat
      /\ DOMAIN handles = 1..Len(handles)
  BY DEF ShapeInv, NoIndex
<1>4. /\ handles' \in Seq(Handle) /\ Len(handles') = Len(handles)
      /\ DOMAIN handles' = DOMAIN handles
      /\ \A i \in DOMAIN handles :
            /\ handles'[i].vm = (IF i <= e THEN "init" ELSE handles[i].vm)
            /\ DOMAIN handles'[i].bound = DOMAIN handles[i].bound
  BY <1>1, <1>3, ResetShape
<1>5. Fits(handles)'
  BY <1>2, <1>3, <1>4 DEF Fits
<1>6. ShapeInv'
  BY <1>2, <1>3, <1>4, <1>5 DEF ShapeInv, NoIndex
<1>7. ASSUME NEW i \in DOMAIN handles PROVE ~ Open(handles'[i])
  <2>1. CASE i <= e
    BY <1>4, <2>1 DEF Open
  <2>2. CASE ~ (i <= e)
    <3>1. e \in DOMAIN handles /\ e < i /\ handles[e].vm \in {"failed", "row"}
      BY <1>1, <1>3, <2>2 DEF ResetStops
    <3>2. ~ (e < index + 1)
      BY <1>2, <3>1 DEF RunInv
    <3>3. i > index + 1
      BY <1>1, <1>3, <3>1, <3>2
    <3>4. handles[i].vm = "init"
      BY <1>2, <3>3 DEF RunInv
    <3> QED
      BY <1>4, <2>2, <3>4 DEF Open
  <2> QED
    BY <2>1, <2>2
<1>8. RunInv'
  BY <1>2, <1>4, <1>7 DEF RunInv, Open
<1>9. BoundInv'
  BY <1>2 DEF BoundInv, Within
<1> QED
  BY <1>6, <1>8, <1>9
-----------------------------------------------------------------------------
(* The theorems. *)

\* Every step keeps the invariant.
LEMMA ExecStep == ExecInv /\ [Next]_vars => ExecInv'
<1> SUFFICES ASSUME ExecInv, [Next]_vars PROVE ExecInv'
  OBVIOUS
<1>1. CASE \E count \in 0..MaxArgs : Execute(count)
  BY <1>1, ExecuteKeeps
<1>2. CASE Prepare
  BY <1>2, PrepareKeeps
<1>3. CASE Evict
  BY <1>3, EvictKeeps
<1>4. CASE PrepareError
  BY <1>4, PrepareErrorKeeps
<1>5. CASE BeginError
  BY <1>5, BeginErrorKeeps
<1>6. CASE Begin
  BY <1>6, BeginKeeps
<1>7. CASE Continue
  BY <1>7, ContinueKeeps
<1>8. CASE Drop
  BY <1>8, DropKeeps
<1>9. CASE UNCHANGED vars
  BY <1>9 DEF vars, ExecInv, ShapeInv, RunInv, BoundInv, Fits, Within, Open
<1> QED
  BY <1>1, <1>2, <1>3, <1>4, <1>5, <1>6, <1>7, <1>8, <1>9 DEF Next

\* The invariant always holds.
LEMMA ExecAlways == Spec => []ExecInv
BY ExecStart, ExecStep, PTL DEF Spec

\* However an execution ends - at its last row, with an error or by its
\* receiver going away - no statement of the SQL string stays open.
THEOREM OnlyCurrentOpenTheorem == Spec => []OnlyCurrentOpen
<1>1. ExecInv => OnlyCurrentOpen
  <2> SUFFICES ASSUME ExecInv, NEW k \in DOMAIN handles, Open(handles[k])
               PROVE  pc = "iter" /\ index = k - 1
    BY DEF OnlyCurrentOpen, Open
  <2>1. pc = "iter"
    BY DEF ExecInv, ShapeInv, RunInv
  <2>2. ~ (k < index + 1) /\ ~ (k > index + 1)
    BY <2>1 DEF ExecInv, RunInv, Open
  <2>3. k \in Int /\ index \in Int
    BY DEF ExecInv, ShapeInv, NoIndex
  <2> QED
    BY <2>1, <2>2, <2>3
<1> QED
  BY <1>1, ExecAlways, PTL

\* Whatever the cached statement was used for before, no value of an earlier
\* execution is bound when one of its statements starts.
THEOREM FreshBindingsTheorem == Spec => []FreshBindings
<1>1. ExecInv => FreshBindings
  BY DEF ExecInv, BoundInv, FreshBindings, Within
<1> QED
  BY <1>1, ExecAlways, PTL

\* The statements of the SQL string start in their order, each after the one
\* before it has run to its end.
THEOREM StartsInOrderTheorem == Spec => StartsInOrder
<1> DEFINE InOrder == Len(ran') > Len(ran) =>
                         LET k == ran'[Len(ran')].stmt IN
                         /\ \A j \in 1..k - 1 : handles[j].vm = "done"
                         /\ k \in DOMAIN handles => handles[k].vm # "done"
<1>1. ASSUME ExecInv, NEW hs \in Seq(Handle), NEW k \in Nat, Step(hs, k),
             \A j \in 1..k - 1 : handles[j].vm = "done",
             k \in DOMAIN handles => handles[k].vm # "done"
      PROVE  InOrder
  <2>1. ran \in Seq(Start)
    BY <1>1 DEF ExecInv, ShapeInv
  <2>2. PICK r : r = [stmt |-> k, bound |-> hs[k].bound]
    BY Zenon
  <2>3. ran' = ran \/ ran' = Append(ran, r)
    BY <1>1, <2>2 DEF Step
  <2>4. CASE ran' = ran
    BY <2>1, <2>4
  <2>5. CASE ran' = Append(ran, r)
    <3>1. Len(ran') = Len(ran) + 1 /\ ran'[Len(ran) + 1] = r
      BY <2>1, <2>5
    <3>2. ran'[Len(ran')].stmt = k
      BY <2>2, <3>1
    <3> QED
      BY <1>1, <3>2
  <2> QED
    BY <2>3, <2>4, <2>5
<1>2. ASSUME ExecInv, Begin PROVE InOrder
  <2>1. PICK k \in Nat, hs \in Seq(Handle) : k = NextIndex + 1 /\ Step(hs, k)
    BY <1>2, Begins, Zenon
  <2>2. /\ NextIndex \in 0..Len(handles) /\ DOMAIN handles = 1..Len(handles)
        /\ Len(handles) \in Nat
        /\ \A j \in DOMAIN handles : j < k => handles[j].vm = "done"
        /\ \A j \in DOMAIN handles : j >= k => handles[j].vm = "init"
    BY <1>2, <2>1, Ahead DEF ExecInv, ShapeInv, Begin
  <2>3. \A j \in 1..k - 1 : handles[j].vm = "done"
    BY <2>1, <2>2
  <2>4. k \in DOMAIN handles => handles[k].vm # "done"
    BY <2>2
  <2> HIDE DEF InOrder
  <2> QED
    BY <1>1, <1>2, <2>1, <2>3, <2>4
<1>3. ASSUME ExecInv, Continue PROVE InOrder
  <2>1. PICK k : k = index + 1
    OBVIOUS
  <2>2. /\ k \in 1..Len(handles) /\ handles[k].vm # "done" /\ Len(handles) \in Nat
        /\ DOMAIN handles = 1..Len(handles) /\ handles \in Seq(Handle)
        /\ \A j \in DOMAIN handles : j < k => handles[j].vm = "done"
    BY <1>3, <2>1, Continues DEF ExecInv, ShapeInv
  <2>3. \A j \in 1..k - 1 : handles[j].vm = "done"
    BY <2>2
  <2>4. Step(handles, k)
    BY <1>3, <2>1 DEF Continue
  <2> HIDE DEF InOrder
  <2> QED
    BY <1>1, <1>3, <2>2, <2>3, <2>4
<1>4. ExecInv /\ [Next]_vars => InOrder
  <2> SUFFICES ASSUME ExecInv, [Next]_vars PROVE InOrder
    OBVIOUS
  <2>1. CASE \E count \in 0..MaxArgs : Execute(count)
    <3>1. ran' = <<>> /\ Len(ran) \in Nat
      BY <2>1 DEF Execute, ExecInv, ShapeInv
    <3> QED
      BY <3>1
  <2>2. CASE ran' = ran
    <3>1. Len(ran) \in Nat
      BY DEF ExecInv, ShapeInv
    <3> QED
      BY <2>2, <3>1
  <2>3. Prepare \/ Evict \/ PrepareError \/ BeginError \/ Drop \/ UNCHANGED vars => ran' = ran
    BY DEF Prepare, Evict, PrepareError, BeginError, Drop, vars
  <2> HIDE DEF InOrder
  <2> QED
    BY <1>2, <1>3, <2>1, <2>2, <2>3 DEF Next
<1>5. ExecInv /\ [Next]_vars => [InOrder]_vars
  BY <1>4
<1>6. StartsInOrder <=> [][InOrder]_vars
  BY PTL DEF StartsInOrder
<1> HIDE DEF InOrder
<1> QED
  BY <1>5, <1>6, ExecAlways, PTL DEF Spec

-----------------------------------------------------------------------------
(* Where every parameter is `?`. *)

Anonymous(ps) == \A i \in DOMAIN ps : ps[i].form = "anonymous"
AllAnonymous == \A k \in DOMAIN query : Anonymous(query[k])

\* The bindings b of a statement that comes after c other parameters; `part`:
\* the loop that bound them may have failed on the way.
Aligned(b, c, count, part) ==
    \A i \in DOMAIN b : \/ b[i] = IF i + c <= count THEN i + c ELSE Unbound
                        \/ part /\ b[i] = Unbound

\* The argument the next statement starts with, after c parameters: the loop
\* stops one behind the last argument.
Taken(offset, c, count) ==
    count > 0 => IF c <= count THEN offset = c ELSE offset > count

\* The statement that next() starts next.
Upcoming == IF goto_next THEN NextIndex + 1 ELSE index + 2

\* All statements before k have been bound.
Unmoved(k) == \A r \in rejected : r >= k

\* The bindings b of statement k are aligned, if all before it were bound.
InPlace(b, k) ==
    Unmoved(k) => Aligned(b, ParamsBefore(k), values, k \in rejected)

\* What has started is aligned, the statement that would start again is, and
\* args_used says where the next one begins.
AlignInv ==
    /\ \A j \in DOMAIN ran : InPlace(ran[j].bound, ran[j].stmt)
    /\ pc = "iter" =>
         /\ IsFiniteSet(PlacesBefore(Upcoming))
         /\ \A r \in rejected : r \in Nat /\ r < Upcoming
         /\ rejected = {} => Taken(args_used, ParamsBefore(Upcoming), values)
         /\ ~ goto_next => InPlace(handles[index + 1].bound, index + 1)

\* The first n places are n.
LEMMA CountTo ==
    ASSUME NEW n \in Nat PROVE IsFiniteSet(1..n) /\ Cardinality(1..n) = n
BY FS_Interval

\* The parameters before the first statement.
LEMMA NonePlaced ==
    IsFiniteSet(PlacesBefore(1)) /\ ParamsBefore(1) = 0
<1>1. PlacesBefore(1) = {}
  BY DEF PlacesBefore
<1> QED
  BY <1>1, FS_EmptySet DEF ParamsBefore

\* The parameters before the statement after k.
LEMMA NextPlaced ==
    ASSUME query \in Seq(Seq(Param)), NEW k \in DOMAIN query, IsFiniteSet(PlacesBefore(k))
    PROVE  /\ IsFiniteSet(PlacesBefore(k + 1)) /\ ParamsBefore(k) \in Nat
           /\ ParamsBefore(k + 1) = ParamsBefore(k) + Len(query[k])
<1>1. k \in Nat /\ query[k] \in Seq(Param) /\ k >= 1
  OBVIOUS
<1>2. PICK n \in Nat : n = Len(query[k])
  BY <1>1
<1>3. DOMAIN query[k] = 1..n
  BY <1>1, <1>2
<1> DEFINE P == PlacesBefore(k)
           Q == {k} \X (1..n)
<1>4. PlacesBefore(k + 1) = P \cup Q
  <2>1. 1..(k + 1) - 1 = (1..k - 1) \cup {k}
    BY <1>1
  <2>2. PlacesBefore(k + 1) = PlacesBefore(k) \cup ({k} \X DOMAIN query[k])
    BY <2>1 DEF PlacesBefore
  <2> QED
    BY <1>3, <2>2
<1>5. P \cap Q = {}
  <2> SUFFICES ASSUME NEW x \in P, x \in Q PROVE FALSE
    OBVIOUS
  <2>1. PICK j \in 1..k - 1 : x \in {j} \X DOMAIN query[j]
    BY DEF PlacesBefore
  <2>2. x[1] = j /\ x[1] = k
    BY <2>1
  <2> QED
    BY <1>1, <2>2
<1>6. IsFiniteSet(Q) /\ Cardinality(Q) = n
  <2>1. IsFiniteSet({k}) /\ Cardinality({k}) = 1
    BY FS_Singleton, Zenon
  <2>2. IsFiniteSet(1..n) /\ Cardinality(1..n) = n
    BY <1>2, CountTo, Zenon
  <2>3. IsFiniteSet(Q) /\ Cardinality(Q) = Cardinality({k}) * Cardinality(1..n)
    BY <2>1, <2>2, FS_Product, Zenon
  <2> HIDE DEF Q
  <2> QED
    BY <2>1, <2>2, <2>3
<1>7. Cardinality(P) \in Nat
  BY FS_CardinalityType, Zenon
<1>a. ParamsBefore(k) = Cardinality(P) /\ ParamsBefore(k + 1) = Cardinality(P \cup Q)
  BY <1>4, Zenon DEF ParamsBefore
<1> HIDE DEF P, Q
<1>8. Cardinality(P \cap Q) = 0
  BY <1>5, FS_EmptySet, Zenon
<1>9. /\ IsFiniteSet(P \cup Q)
      /\ Cardinality(P \cup Q) = Cardinality(P) + Cardinality(Q) - Cardinality(P \cap Q)
  BY <1>6, FS_Union, Zenon DEF P
<1>b. Cardinality(P \cup Q) = Cardinality(P) + n
  BY <1>6, <1>7, <1>8, <1>9
<1> QED
  BY <1>2, <1>4, <1>7, <1>9, <1>a, <1>b, Zenon

\* bind takes the arguments in order, leaves those that are missing and those
\* behind an error unbound, and says where the next statement begins.
LEMMA BindInOrder ==
    ASSUME NEW ps \in Seq(Param), Anonymous(ps), NEW offset \in Nat, NEW count \in Nat,
           NEW c \in Nat, Taken(offset, c, count),
           NEW b, DOMAIN b = DOMAIN ps, \A i \in DOMAIN b : b[i] = Unbound
    PROVE  /\ \A stop \in Nat : stop <= BindStop(ps, offset, count) =>
                 Aligned(bind(b, ps, offset, stop), c, count, TRUE)
           /\ Aligned(bind(b, ps, offset, BindStop(ps, offset, count)), c, count, FALSE)
           /\ Taken(offset + ArgsUsed(ps, offset, count), c + Len(ps), count)
<1>1. PICK n \in Nat : n = Len(ps) /\ DOMAIN ps = 1..n
  OBVIOUS
<1>2. \A i \in 1..n : ArgOf(ps, i, offset) = offset + i
  <2> SUFFICES ASSUME NEW i \in 1..n PROVE ArgOf(ps, i, offset) = offset + i
    OBVIOUS
  <2>1. {j \in 1..i : ps[j].form = "anonymous"} = 1..i
    BY <1>1 DEF Anonymous
  <2>2. Cardinality(1..i) = i
    BY CountTo
  <2> QED
    BY <1>1, <2>1, <2>2, Zenon DEF ArgOf, Anonymous
<1>3. PICK S : S = {i \in 1..n : count = 0 \/ offset + i > count} \cup {n + 1}
  BY Zenon
<1>4. PICK stop : stop = BindStop(ps, offset, count)
  OBVIOUS
<1>5. stop = Min(S)
  <2>1. {i \in DOMAIN ps : \/ count = 0 \/ ps[i].form = "named" \/ ArgOf(ps, i, offset) > count}
        = {i \in 1..n : count = 0 \/ offset + i > count}
    BY <1>1, <1>2 DEF Anonymous
  <2> QED
    BY <1>1, <1>3, <1>4, <2>1, Zenon DEF BindStop
<1>6. stop \in S /\ \A y \in S : stop <= y
  <2>1. S \subseteq Nat /\ S # {}
    BY <1>3
  <2> QED
    BY <1>5, <2>1, MinNat, Zenon
<1>7. /\ stop \in 1..n + 1
      /\ \A i \in 1..n : i < stop <=> (count > 0 /\ offset + i <= count)
  <2>1. stop \in 1..n + 1
    BY <1>3, <1>6
  <2>2. ASSUME NEW i \in 1..n, i < stop PROVE count > 0 /\ offset + i <= count
    <3>1. i \notin S
      BY <1>6, <2>1, <2>2
    <3> QED
      BY <1>3, <3>1
  <2>3. ASSUME NEW i \in 1..n, ~ (i < stop) PROVE ~ (count > 0 /\ offset + i <= count)
    <3>1. stop \in 1..n
      BY <2>1, <2>3
    <3>2. count = 0 \/ offset + stop > count
      BY <1>3, <1>6, <3>1
    <3> QED
      BY <2>1, <2>3, <3>2
  <2> QED
    BY <2>1, <2>2, <2>3, Zenon
<1>8. ASSUME NEW i \in 1..n
      PROVE  /\ i < stop => offset + i = i + c /\ i + c <= count
             /\ ~ (i < stop) => ~ (i + c <= count)
  <2>1. i < stop <=> count > 0 /\ offset + i <= count
    BY <1>7, Zenon
  <2>2. count > 0 => (IF c <= count THEN offset = c ELSE offset > count)
    BY DEF Taken
  <2>3. i \in Nat /\ i > 0
    OBVIOUS
  <2> QED
    BY <2>1, <2>2, <2>3
<1>9. ASSUME NEW m \in Nat, m <= stop
      PROVE  /\ Aligned(bind(b, ps, offset, m), c, count, TRUE)
             /\ m = stop => Aligned(bind(b, ps, offset, m), c, count, FALSE)
  <2>1. bind(b, ps, offset, m) = [i \in 1..n |-> IF i < m THEN offset + i ELSE Unbound]
    BY <1>1, <1>2 DEF bind
  <2>2. stop \in Nat
    BY <1>7
  <2>3. ASSUME NEW i \in 1..n
        PROVE  /\ i < m => i + c <= count /\ bind(b, ps, offset, m)[i] = i + c
               /\ ~ (i < m) => bind(b, ps, offset, m)[i] = Unbound
               /\ ~ (i < m) /\ m = stop => ~ (i + c <= count)
    <3>1. i \in Nat
      OBVIOUS
    <3>2. bind(b, ps, offset, m)[i] = IF i < m THEN offset + i ELSE Unbound
      BY <2>1
    <3>3. /\ i < stop => offset + i = i + c /\ i + c <= count
          /\ ~ (i < stop) => ~ (i + c <= count)
      BY <1>8, Zenon
    <3>4. i < m => i < stop
      BY <1>9, <2>2, <3>1
    <3> QED
      BY <3>2, <3>3, <3>4, Zenon
  <2>4. DOMAIN bind(b, ps, offset, m) = 1..n
    BY <2>1
  <2>5. PICK bm : bm = bind(b, ps, offset, m)
    OBVIOUS
  <2>6. \A i \in 1..n : bm[i] = (IF i + c <= count THEN i + c ELSE Unbound) \/ bm[i] = Unbound
    BY <2>3, <2>5
  <2>7. m = stop => \A i \in 1..n : bm[i] = IF i + c <= count THEN i + c ELSE Unbound
    BY <2>3, <2>5
  <2>8. DOMAIN bm = 1..n
    BY <2>4, <2>5
  <2>9. Aligned(bm, c, count, TRUE)
    BY <2>6, <2>8 DEF Aligned
  <2>10. m = stop => Aligned(bm, c, count, FALSE)
    BY <2>7, <2>8 DEF Aligned
  <2> QED
    BY <2>5, <2>9, <2>10, Zenon
<1>10. Taken(offset + ArgsUsed(ps, offset, count), c + Len(ps), count)
  <2> SUFFICES ASSUME count > 0
               PROVE  IF c + n <= count THEN offset + ArgsUsed(ps, offset, count) = c + n
                      ELSE offset + ArgsUsed(ps, offset, count) > count
    BY <1>1 DEF Taken
  <2>1. PICK u \in Nat : u = IF stop <= n THEN stop ELSE n
    BY <1>7
  <2>2. ArgsUsed(ps, offset, count) = u
    <3>1. {i \in DOMAIN ps : /\ count > 0 /\ i <= BindStop(ps, offset, count)
                             /\ ps[i].form = "anonymous"} = 1..u
      BY <1>1, <1>4, <1>7, <2>1 DEF Anonymous
    <3>2. Cardinality(1..u) = u
      BY CountTo
    <3> QED
      BY <3>1, <3>2, Zenon DEF ArgsUsed
  <2>3. CASE stop = n + 1
    <3>1. n \in 1..n => offset + n <= count
      BY <1>7, <2>3
    <3>2. u = n
      BY <2>1, <2>3
    <3> QED
      BY <2>2, <3>1, <3>2 DEF Taken
  <2>4. CASE stop \in 1..n
    <3>1. offset + stop > count /\ u = stop
      BY <1>7, <2>1, <2>4
    <3> QED
      BY <2>2, <2>4, <3>1 DEF Taken
  <2> QED
    BY <1>7, <2>3, <2>4
<1>11. stop \in Nat /\ stop <= stop
  BY <1>7
<1> QED
  BY <1>4, <1>9, <1>10, <1>11, Zenon

\* What is behind the places of the statements: nothing but the SQL string.
LEMMA SamePlaces ==
    ASSUME query' = query, values' = values, rejected' = rejected
    PROVE  /\ \A k : IsFiniteSet(PlacesBefore(k))' <=> IsFiniteSet(PlacesBefore(k))
           /\ \A k : ParamsBefore(k)' = ParamsBefore(k)
           /\ \A b, k : InPlace(b, k)' <=> InPlace(b, k)
<1>1. \A k : PlacesBefore(k)' = PlacesBefore(k)
  BY Zenon DEF PlacesBefore
<1>2. \A k : ParamsBefore(k)' = ParamsBefore(k)
  BY <1>1, Zenon DEF ParamsBefore
<1>3. \A b, k : InPlace(b, k)' <=> InPlace(b, k)
  BY <1>2, Zenon DEF InPlace, Unmoved, Aligned
<1> QED
  BY <1>1, <1>2, <1>3, Zenon

\* Between executions there is nothing to align.
LEMMA IdleAligns ==
    ASSUME AlignInv, pc' = "idle", query' = query, values' = values, ran' = ran,
           rejected' = rejected
    PROVE  AlignInv'
<1>1. \A j \in DOMAIN ran' : InPlace(ran'[j].bound, ran'[j].stmt)
  BY Zenon DEF AlignInv
<1>2. \A j \in DOMAIN ran' : InPlace(ran[j].bound, ran[j].stmt)'
  BY <1>1 DEF InPlace, Unmoved, Aligned, ParamsBefore, PlacesBefore
<1>3. pc' # "iter"
  OBVIOUS
<1> QED
  BY <1>2, <1>3, Zenon DEF AlignInv

\* Stepping statement k of hs, whose bindings are in place.
LEMMA StepAligns ==
    ASSUME ExecInv, AlignInv, NEW hs \in Seq(Handle), NEW k \in 1..Len(hs), Step(hs, k),
           Len(hs) <= Len(query), k \in DOMAIN query, InPlace(hs[k].bound, k),
           IsFiniteSet(PlacesBefore(k + 1)), \A r \in rejected : r \in Nat /\ r < k + 1,
           rejected = {} => Taken(args_used', ParamsBefore(k + 1), values),
           index' = k - 1, pc' = "iter", values' = values, query' = query, rejected' = rejected
    PROVE  AlignInv'
<1>1. /\ handles' \in Seq(Handle) /\ Len(handles') = Len(hs)
      /\ handles'[k].bound = hs[k].bound
      /\ \A j \in DOMAIN ran' : \/ ran'[j].stmt = k /\ ran'[j].bound = hs[k].bound
                                \/ j \in DOMAIN ran /\ ran'[j] = ran[j]
  BY StepEffect
<1>2. \A j \in DOMAIN ran' : InPlace(ran'[j].bound, ran'[j].stmt)
  BY <1>1 DEF AlignInv
<1>3. Upcoming' = k + 1
  <2>1. CASE goto_next'
    <3>1. index' # NoIndex /\ index' + 1 = k /\ k <= Len(handles') /\ k \in Int /\ Len(handles') \in Int
      BY <1>1 DEF NoIndex
    <3>2. Min({k, Len(handles')}) = k
      BY <3>1, MinTwo
    <3> QED
      BY <2>1, <3>1, <3>2, Zenon DEF Upcoming, NextIndex
  <2>2. CASE ~ goto_next'
    BY <2>2 DEF Upcoming
  <2> QED
    BY <2>1, <2>2
<1>4. index' + 1 = k
  OBVIOUS
<1>5. /\ IsFiniteSet(PlacesBefore(Upcoming))'
      /\ rejected' = {} => Taken(args_used, ParamsBefore(Upcoming), values)'
  BY <1>3, SamePlaces DEF Taken, PlacesBefore, ParamsBefore
<1>6. InPlace(handles[index + 1].bound, index + 1)'
  <2>1. InPlace(hs[k].bound, k)'
    BY SamePlaces
  <2>2. handles'[index' + 1].bound = hs[k].bound
    BY <1>1, <1>4
  <2> QED
    BY <1>4, <2>1, <2>2 DEF InPlace, Unmoved, Aligned, ParamsBefore, PlacesBefore
<1>7. \A j \in DOMAIN ran' : InPlace(ran[j].bound, ran[j].stmt)'
  BY <1>2 DEF InPlace, Unmoved, Aligned, ParamsBefore, PlacesBefore
<1>8. \A r \in rejected' : r \in Nat /\ r < Upcoming'
  BY <1>3
<1> QED
  BY <1>5, <1>6, <1>7, <1>8, Zenon DEF AlignInv

\* The statement that comes up, before it is bound.
LEMMA ComesUp ==
    ASSUME ExecInv, AllAnonymous, AlignInv, pc = "iter", goto_next,
           NEW k, k = NextIndex + 1, k <= Len(query)
    PROVE  /\ k = Upcoming /\ k \in DOMAIN query /\ k \in Nat /\ query[k] \in Seq(Param)
           /\ \A r \in rejected : r \in Nat /\ r < k
           /\ Unmoved(k) => rejected = {}
           /\ IsFiniteSet(PlacesBefore(k + 1)) /\ ParamsBefore(k) \in Nat
           /\ rejected = {} =>
                /\ \A stop \in Nat : stop <= BindStop(query[k], args_used, values) =>
                      Aligned(Rebound(k, stop), ParamsBefore(k), values, TRUE)
                /\ Aligned(Rebound(k, BindStop(query[k], args_used, values)),
                           ParamsBefore(k), values, FALSE)
                /\ Taken(args_used + ArgsUsed(query[k], args_used, values),
                         ParamsBefore(k + 1), values)
<1> USE DEF ExecInv
<1>1. k = Upcoming
  BY DEF Upcoming
<1>2. PICK hs : hs = Prepared(k)
  OBVIOUS
<1>3. hs \in Seq(Handle) /\ k \in 1..Len(hs) /\ Len(hs) <= Len(query) /\ Fits(hs)
  BY <1>2, PreparedShape
<1>4. k \in DOMAIN query /\ k \in Nat /\ query[k] \in Seq(Param) /\ args_used \in Nat
      /\ values \in Nat /\ query \in Seq(Seq(Param))
  BY <1>3 DEF ShapeInv
<1>5. /\ IsFiniteSet(PlacesBefore(k)) /\ \A r \in rejected : r \in Nat /\ r < k
      /\ rejected = {} => Taken(args_used, ParamsBefore(k), values)
  BY <1>1 DEF AlignInv
<1>6. Unmoved(k) => rejected = {}
  BY <1>4, <1>5 DEF Unmoved
<1>7. /\ IsFiniteSet(PlacesBefore(k + 1)) /\ ParamsBefore(k) \in Nat
      /\ ParamsBefore(k + 1) = ParamsBefore(k) + Len(query[k])
  BY <1>4, <1>5, NextPlaced
<1>8. PICK b : b = clear_bindings(hs[k].bound)
  OBVIOUS
<1>9. DOMAIN b = DOMAIN query[k] /\ \A i \in DOMAIN b : b[i] = Unbound
  <2>1. hs[k] \in Handle /\ k \in DOMAIN hs
    BY <1>3
  <2>2. hs[k].bound \in Seq(Nat) /\ DOMAIN hs[k].bound = DOMAIN query[k]
    BY <1>3, <2>1, HandleParts, Zenon DEF Fits
  <2> QED
    BY <1>8, <2>2, Cleared
<1>10. \A stop : Rebound(k, stop) = bind(b, query[k], args_used, stop)
  BY <1>2, <1>8 DEF Rebound
<1>11. Anonymous(query[k])
  BY <1>4 DEF AllAnonymous
<1>12. ASSUME rejected = {}
       PROVE  /\ \A stop \in Nat : stop <= BindStop(query[k], args_used, values) =>
                    Aligned(bind(b, query[k], args_used, stop), ParamsBefore(k), values, TRUE)
              /\ Aligned(bind(b, query[k], args_used, BindStop(query[k], args_used, values)),
                         ParamsBefore(k), values, FALSE)
              /\ Taken(args_used + ArgsUsed(query[k], args_used, values),
                       ParamsBefore(k) + Len(query[k]), values)
  BY <1>4, <1>5, <1>7, <1>9, <1>11, <1>12, BindInOrder, Zenon
<1> QED
  BY <1>1, <1>4, <1>5, <1>6, <1>7, <1>10, <1>12, Zenon

\* The first step of a statement, bound where the one before it ended.
LEMMA BeginAligns ==
    ASSUME ExecInv, AllAnonymous, AlignInv, Begin PROVE AlignInv'
<1> USE DEF ExecInv
<1>1. PICK k : k = NextIndex + 1
  OBVIOUS
<1>2. pc = "iter" /\ goto_next /\ k <= Len(query)
  BY <1>1 DEF Begin
<1>3. PICK hs : hs = Prepared(k)
  OBVIOUS
<1>4. hs \in Seq(Handle) /\ k \in 1..Len(hs) /\ Len(hs) <= Len(query)
  BY <1>1, <1>2, <1>3, PreparedShape
<1>5. PICK stop : stop = BindStop(query[k], args_used, values)
  OBVIOUS
<1>6. PICK bnd : bnd = Rebound(k, stop)
  OBVIOUS
<1>7. /\ k \in DOMAIN query /\ k \in Nat /\ query[k] \in Seq(Param)
      /\ \A r \in rejected : r \in Nat /\ r < k
      /\ Unmoved(k) => rejected = {}
      /\ IsFiniteSet(PlacesBefore(k + 1))
      /\ rejected = {} => /\ Aligned(bnd, ParamsBefore(k), values, FALSE)
                          /\ Taken(args_used + ArgsUsed(query[k], args_used, values),
                                   ParamsBefore(k + 1), values)
  BY <1>1, <1>2, <1>5, <1>6, ComesUp, Zenon
<1>8. bnd \in Seq(Nat)
  <2>1. stop \in Nat /\ stop <= stop
    BY <1>5, <1>7, StopIsNat
  <2> QED
    BY <1>1, <1>2, <1>5, <1>6, <2>1, ReboundShape
<1>9. PICK h : h = [vm |-> "init", bound |-> bnd]
  BY Zenon
<1>10. h \in Handle /\ h.bound = bnd
  BY <1>8, <1>9 DEF Handle, Vm
<1>11. PICK gs : gs = [hs EXCEPT ![k] = h]
  BY Zenon
<1>12. gs \in Seq(Handle) /\ Len(gs) = Len(hs) /\ gs[k] = h
  BY <1>4, <1>10, <1>11
<1>13. /\ Step(gs, k) /\ index' = k - 1 /\ pc' = "iter" /\ values' = values /\ query' = query
       /\ args_used' = args_used + ArgsUsed(query[k], args_used, values)
       /\ rejected' = rejected
  <2>1. NextIndex \in Int
    BY <1>2, Ahead DEF ShapeInv
  <2>2. index' = k - 1
    BY <1>1, <2>1 DEF Begin
  <2> QED
    BY <1>1, <1>2, <1>3, <1>5, <1>6, <1>9, <1>11, <2>2 DEF Begin
<1>14. InPlace(gs[k].bound, k)
  BY <1>7, <1>10, <1>12 DEF InPlace, Aligned
<1>15. \A r \in rejected : r \in Nat /\ r < k + 1
  BY <1>7
<1>16. rejected = {} => Taken(args_used', ParamsBefore(k + 1), values)
  BY <1>7, <1>13
<1> QED
  BY <1>4, <1>7, <1>12, <1>13, <1>14, <1>15, <1>16, StepAligns, Zenon

\* A statement that cannot be bound: what is bound of it is in its place, and
\* nothing is said of those behind it.
LEMMA BeginErrorAligns ==
    ASSUME ExecInv, AllAnonymous, AlignInv, BeginError PROVE AlignInv'
<1> USE DEF ExecInv
<1>1. PICK k : k = NextIndex + 1
  OBVIOUS
<1>2. pc = "iter" /\ goto_next /\ k <= Len(query)
  BY <1>1 DEF BeginError
<1>3. PICK hs : hs = Prepared(k)
  OBVIOUS
<1>4. hs \in Seq(Handle) /\ k \in 1..Len(hs)
  BY <1>1, <1>2, <1>3, PreparedShape
<1>5. PICK stop \in Nat :
          /\ stop <= BindStop(query[k], args_used, values)
          /\ handles' = [hs EXCEPT ![k] = [vm |-> "init", bound |-> Rebound(k, stop)]]
  BY <1>1, <1>3, BeginErrors
<1>6. PICK bnd : bnd = Rebound(k, stop)
  OBVIOUS
<1>7. /\ k \in Nat
      /\ \A r \in rejected : r \in Nat /\ r < k
      /\ Unmoved(k) => rejected = {}
      /\ IsFiniteSet(PlacesBefore(k + 1))
      /\ rejected = {} => Aligned(bnd, ParamsBefore(k), values, TRUE)
  BY <1>1, <1>2, <1>5, <1>6, ComesUp, Zenon
<1>8. /\ index' = NextIndex /\ goto_next' = FALSE /\ query' = query /\ values' = values
      /\ ran' = ran /\ rejected' = rejected \cup {k}
  BY <1>1 DEF BeginError
<1>9. index' + 1 = k /\ Upcoming' = k + 1
  <2>1. NextIndex \in Int
    BY <1>2, Ahead DEF ShapeInv
  <2> QED
    BY <1>1, <1>8, <2>1 DEF Upcoming
<1>10. handles'[k].bound = bnd
  <2>1. handles'[k] = [vm |-> "init", bound |-> bnd]
    BY <1>4, <1>5, <1>6
  <2> QED
    BY <2>1
<1>11. \A j : PlacesBefore(j)' = PlacesBefore(j) /\ ParamsBefore(j)' = ParamsBefore(j)
  BY <1>8, Zenon DEF PlacesBefore, ParamsBefore
<1>12. \A j : Unmoved(j)' => Unmoved(j)
  BY <1>8 DEF Unmoved
<1>13. InPlace(handles[index + 1].bound, index + 1)'
  <2>1. Unmoved(k)' => Aligned(bnd, ParamsBefore(k), values, TRUE)
    BY <1>7, <1>12, Zenon
  <2>2. Unmoved(index + 1)' => Unmoved(k)'
    BY <1>9 DEF Unmoved
  <2>3. index' + 1 \in rejected' /\ ParamsBefore(index + 1)' = ParamsBefore(k)
    BY <1>8, <1>9, <1>11, Zenon DEF ParamsBefore, PlacesBefore
  <2>4. handles'[index' + 1].bound = bnd
    BY <1>9, <1>10
  <2> QED
    BY <1>8, <2>1, <2>2, <2>3, <2>4 DEF InPlace, Aligned
<1>14. \A j \in DOMAIN ran' : InPlace(ran[j].bound, ran[j].stmt)'
  <2> SUFFICES ASSUME NEW j \in DOMAIN ran', Unmoved(ran[j].stmt)'
               PROVE  Aligned(ran[j].bound, ParamsBefore(ran[j].stmt), values,
                              ran[j].stmt \in rejected)'
    BY DEF InPlace
  <2>1. PICK t, b : t = ran[j].stmt /\ b = ran[j].bound
    OBVIOUS
  <2>2. Unmoved(t)
    BY <1>8, <2>1 DEF Unmoved
  <2>3. Aligned(b, ParamsBefore(t), values, t \in rejected)
    BY <1>8, <2>1, <2>2, Zenon DEF AlignInv, InPlace
  <2>4. Aligned(b, ParamsBefore(t), values, t \in rejected')
    BY <1>8, <2>3 DEF Aligned
  <2> QED
    BY <1>8, <2>1, <2>4 DEF Aligned, ParamsBefore, PlacesBefore
<1>15. IsFiniteSet(PlacesBefore(Upcoming))'
  BY <1>7, <1>8, <1>9 DEF PlacesBefore
<1>16. \A r \in rejected' : r \in Nat /\ r < Upcoming'
  BY <1>7, <1>8, <1>9
<1>17. rejected' # {}
  BY <1>8
<1> QED
  BY <1>13, <1>14, <1>15, <1>16, <1>17 DEF AlignInv

\* A later step, or another start after a failure, of a statement.
LEMMA ContinueAligns ==
    ASSUME ExecInv, AlignInv, Continue PROVE AlignInv'
<1>1. PICK k : k = index + 1
  OBVIOUS
<1>2. k \in 1..Len(handles)
  BY <1>1, Continues
<1>3. /\ handles \in Seq(Handle) /\ Len(handles) <= Len(query) /\ index \in Int
      /\ query \in Seq(Seq(Param))
  BY DEF ExecInv, ShapeInv, NoIndex
<1>4. /\ Step(handles, k) /\ pc' = "iter" /\ values' = values /\ query' = query
      /\ args_used' = args_used /\ index' = index /\ pc = "iter" /\ ~ goto_next
      /\ rejected' = rejected
  BY <1>1 DEF Continue
<1>5. index' = k - 1 /\ k \in DOMAIN query /\ index + 2 = k + 1
  BY <1>1, <1>2, <1>3, <1>4
<1>6. Upcoming = k + 1
  BY <1>4, <1>5 DEF Upcoming
<1>7. /\ InPlace(handles[k].bound, k) /\ IsFiniteSet(PlacesBefore(k + 1))
      /\ \A r \in rejected : r \in Nat /\ r < k + 1
      /\ rejected = {} => Taken(args_used', ParamsBefore(k + 1), values)
  BY <1>1, <1>4, <1>6, Zenon DEF AlignInv
<1> QED
  BY <1>2, <1>3, <1>4, <1>5, <1>7, StepAligns, Zenon

\* An error of prepare leaves next() where it was.
LEMMA PrepareErrorAligns ==
    ASSUME ExecInv, AlignInv, PrepareError PROVE AlignInv'
<1>1. /\ pc = "iter" /\ goto_next /\ NextIndex = Len(handles) /\ index' = NextIndex
      /\ UNCHANGED <<query, handles, pc, values, args_used, goto_next, ran, rejected>>
  BY DEF PrepareError
<1>2. Len(handles) \in Nat
  BY DEF ExecInv, ShapeInv
<1>3. Min({Len(handles) + 1, Len(handles)}) = Len(handles)
  BY <1>2, MinTwo
<1>4. NextIndex' = NextIndex
  <2>1. index' # NoIndex /\ {index' + 1, Len(handles')} = {Len(handles) + 1, Len(handles)}
    BY <1>1, <1>2 DEF NoIndex
  <2>2. NextIndex' = Min({Len(handles) + 1, Len(handles)})
    BY <2>1, Zenon DEF NextIndex
  <2> QED
    BY <1>1, <1>3, <2>2
<1>5. Upcoming' = Upcoming
  BY <1>1, <1>4 DEF Upcoming
<1> QED
  BY <1>1, <1>5, SMTT(30) DEF AlignInv, InPlace, Unmoved, Aligned, Taken, ParamsBefore, PlacesBefore

\* Every step keeps the arguments aligned.
LEMMA AlignStep ==
    ExecInv /\ (AllAnonymous => AlignInv) /\ [Next]_vars => (AllAnonymous => AlignInv)'
<1> SUFFICES ASSUME ExecInv, AllAnonymous => AlignInv, [Next]_vars, AllAnonymous'
             PROVE  AlignInv'
  OBVIOUS
<1>1. query' = query
  BY Zenon DEF Next, vars, Execute, Prepare, Evict, PrepareError, BeginError, Begin, Continue, Drop
<1>2. AllAnonymous /\ AlignInv
  BY <1>1 DEF AllAnonymous, Anonymous
<1>3. CASE \E count \in 0..MaxArgs : Execute(count)
  <2>1. /\ index' = -1 /\ args_used' = 0 /\ goto_next' /\ ran' = <<>> /\ values' \in Nat
        /\ rejected' = {}
    BY <1>3, MaxAssumption DEF Execute, IndexAfterReset, NoIndex
  <2>2. Upcoming' = 1
    BY <2>1 DEF Upcoming, NextIndex, NoIndex
  <2>3. (IsFiniteSet(PlacesBefore(1)) /\ ParamsBefore(1) = 0)'
    BY NonePlaced, PTL
  <2>4. IsFiniteSet(PlacesBefore(Upcoming))' /\ Taken(args_used, ParamsBefore(Upcoming), values)'
    BY <2>1, <2>2, <2>3 DEF Taken
  <2>5. DOMAIN ran' = {}
    BY <2>1
  <2>6. \A r \in rejected' : r \in Nat /\ r < Upcoming'
    BY <2>1
  <2> QED
    BY <2>1, <2>4, <2>5, <2>6, Zenon DEF AlignInv
<1>4. CASE Prepare
  BY <1>2, <1>4, IdleAligns DEF Prepare
<1>5. CASE Evict
  BY <1>2, <1>5, IdleAligns DEF Evict
<1>6. CASE PrepareError
  BY <1>2, <1>6, PrepareErrorAligns
<1>7. CASE BeginError
  BY <1>2, <1>7, BeginErrorAligns
<1>8. CASE Begin
  BY <1>2, <1>8, BeginAligns
<1>9. CASE Continue
  BY <1>2, <1>9, ContinueAligns
<1>10. CASE Drop
  BY <1>2, <1>10, IdleAligns DEF Drop
<1>11. CASE UNCHANGED vars
  <2>1. /\ query' = query /\ handles' = handles /\ index' = index /\ pc' = pc /\ values' = values
        /\ args_used' = args_used /\ goto_next' = goto_next /\ ran' = ran /\ rejected' = rejected
    BY <1>11 DEF vars
  <2>2. Upcoming' = Upcoming
    BY <2>1 DEF Upcoming, NextIndex
  <2>3. \A k : PlacesBefore(k)' = PlacesBefore(k) /\ ParamsBefore(k)' = ParamsBefore(k)
    BY <2>1, Zenon DEF ParamsBefore, PlacesBefore
  <2>4. \A j \in DOMAIN ran : InPlace(ran[j].bound, ran[j].stmt)'
    BY <1>2, <2>1, <2>3, Zenon DEF AlignInv, InPlace, Unmoved, Aligned
  <2> QED
    BY <1>2, <2>1, <2>2, <2>3, <2>4, Zenon DEF AlignInv, InPlace, Unmoved, Aligned, Taken
<1> QED
  BY <1>3, <1>4, <1>5, <1>6, <1>7, <1>8, <1>9, <1>10, <1>11 DEF Next

\* Where all parameters are `?`, the statements of the SQL string take the
\* arguments one by one, whatever was prepared before and however often a
\* statement that failed is started again, and those left over are NULL, up
\* to the first statement that could not be bound, which is started with its
\* own arguments or NULL if the iterator goes on.
THEOREM ArgsAlignedTheorem == Spec => []ArgsAligned
<1>1. Init => (AllAnonymous => AlignInv)
  BY DEF Init, AlignInv
<1>2. (AllAnonymous => AlignInv) => ArgsAligned
  BY DEF AllAnonymous, Anonymous, AlignInv, InPlace, Unmoved, Aligned, ArgsAligned
<1> QED
  BY <1>1, <1>2, ExecAlways, AlignStep, PTL DEF Spec
=============================================================================
