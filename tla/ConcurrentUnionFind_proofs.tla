--------------------- MODULE ConcurrentUnionFind_proofs ---------------------
(***************************************************************************)
(* The forest stays a forest of the classes, and every answer is right,    *)
(* for any number of threads and elements.                                 *)
(***************************************************************************)
EXTENDS ConcurrentUnionFind, TLAPS

(* What a running operation knows of its local variables, whatever others   *)
(* have merged since it loaded them: they are in the classes of its         *)
(* arguments, inside the buffer, and pointers it followed went down.        *)
LocalsOK(t) ==
    /\ a[t] < len /\ b[t] < len /\ l[t] < len /\ r[t] < len
    /\ rep[l[t]] = rep[a[t]]
    /\ rep[r[t]] = rep[b[t]]
    /\ pc[t] \in {"loadNext", "loadGrand", "split"} =>
          cur[t] < len /\ rep[cur[t]] = IF side[t] = 1 THEN rep[a[t]] ELSE rep[b[t]]
    /\ pc[t] \in {"loadNext", "loadGrand", "split"} /\ op[t] = "find" => side[t] = 1
    /\ pc[t] \in {"loadGrand", "split"} =>
          next[t] <= cur[t] /\ rep[next[t]] = rep[cur[t]]
    /\ pc[t] = "split" =>
          /\ grand[t] < next[t] /\ rep[grand[t]] = rep[next[t]]
          /\ rep[next[t]] # next[t]

(* Classes only grow while a guard is held: representatives go down, and    *)
(* what was together when the operation began still is.                     *)
SeenOK(t) ==
    /\ rep[a[t]] <= repA[t]
    /\ repA[t] = repB[t] => rep[a[t]] = rep[b[t]]

(* When both roots are found they differ; if the arguments were together    *)
(* all along then the first is no longer a root.                            *)
FoundOK(t) ==
    /\ pc[t] \in {"link", "recheck"} => l[t] # r[t]
    /\ pc[t] = "recheck" /\ repA[t] = repB[t] => rep[l[t]] # l[t]
    /\ pc[t] = "link" => op[t] = "union"
    /\ pc[t] = "recheck" => op[t] = "same"

(* The cells copied so far point down, into their own classes.              *)
CopyOK(t) ==
    pc[t] = "copying" =>
        /\ op[t] = "copy"
        /\ cur[t] <= len
        /\ \A x \in Elt : x < cur[t] => copy[t][x] <= x /\ rep[copy[t][x]] = rep[x]

Running(t) ==
    /\ op[t] # "copy" => LocalsOK(t)
    /\ op[t] = "copy" => pc[t] \in {"copying", "done"}
    /\ op[t] # "reset"
    /\ SeenOK(t)
    /\ FoundOK(t)
    /\ CopyOK(t)

(* reset does not go through with_access.                                   *)
OpOK == \A t \in Thread : pc[t] \in {"access", "grow"} => op[t] # "reset"

IInv ==
    /\ TypeOK
    /\ OpOK
    /\ Forest
    /\ \A t \in Thread : pc[t] \in Guarded => Running(t)
    /\ Answers

-----------------------------------------------------------------------------
LEMMA EltFacts ==
    /\ 0 \in Elt
    /\ \A x \in Elt : x \in Nat /\ x \in 0 .. MaxElt + 1
    /\ \A x \in 0 .. MaxElt + 1 : x \in Nat /\ x + 1 \in Nat
    /\ \A n \in 0 .. MaxElt + 1, x \in 0 .. MaxElt + 1 : x < n => x \in Elt /\ x + 1 \in 0 .. MaxElt + 1
  BY SizeAssumption DEF Elt

LEMMA InitIInv == Init => IInv
  <1> SUFFICES ASSUME Init PROVE IInv
    OBVIOUS
  <1> USE NoneAssumption, SizeAssumption, EltFacts DEF Init, PC, Guarded
  <1>1. TypeOK
    <2>1. len \in 0 .. MaxElt + 1
      BY SizeAssumption
    <2>2. Types
      BY <2>1 DEF Types, Lock!Init
    <2> QED
      BY <2>2 DEF TypeOK, GuardDiscipline, Lock!Init
  <1>2. Forest
    BY DEF Forest
  <1>3. Answers /\ OpOK /\ \A t \in Thread : pc[t] \in Guarded => Running(t)
    BY DEF Answers, OpOK
  <1> QED
    BY <1>1, <1>2, <1>3 DEF IInv

LEMMA StepTypes == IInv /\ [Next]_vars => Types'
  <1> SUFFICES ASSUME IInv, [Next]_vars PROVE Types'
    OBVIOUS
  <1> USE NoneAssumption, OpsAssumption, EltFacts
      DEF Types, PC, lockVars, findVars, argVars,
          clsVars, histVars
  <1>0. Types
    BY DEF IInv, TypeOK
  <1>a. ASSUME NEW t \in Thread, pc[t] \in {"loadNext", "loadGrand", "split"}
        PROVE  cur[t] \in Elt /\ op[t] \in {"find", "same", "union"}
    <2>1. pc[t] \in Guarded /\ Running(t)
      BY <1>a DEF IInv, Guarded
    <2>2. op[t] \in {"find", "same", "union"} /\ cur[t] < len
      BY <1>0, <1>a, <2>1 DEF Running, LocalsOK, Types
    <2>3. cur[t] \in 0 .. MaxElt + 1 /\ len \in 0 .. MaxElt + 1
      BY <1>0 DEF Types
    <2> QED
      BY <2>2, <2>3, EltFacts
  <1> USE <1>0
  <1>1. CASE UNCHANGED vars
    BY <1>1 DEF vars
  <1>2. CASE Admit
    BY <1>2 DEF Admit, Lock!Admit
  <1>3. ASSUME NEW t \in Thread, Call(t) PROVE Types'
    BY <1>3 DEF Call, Goto
  <1>4. ASSUME NEW t \in Thread, Access(t) PROVE Types'
    BY <1>4 DEF Access, Goto, Need, MaxOf, Lock!Enter
  <1>5. ASSUME NEW t \in Thread, AccessShort(t) PROVE Types'
    BY <1>5 DEF AccessShort, Goto
  <1>6. ASSUME NEW t \in Thread, CloseLock(t) PROVE Types'
    BY <1>6 DEF CloseLock, Lock!Close
  <1>7. ASSUME NEW t \in Thread, Grow(t) PROVE Types'
    <2>1. /\ len' \in 0 .. MaxElt + 1
          /\ parent' \in [Elt -> Elt]
          /\ pc' \in [Thread -> PC]
      <3>1. Need(t) \in Nat
        BY DEF Need, MaxOf
      <3>2. CASE len < Need(t)
        <4>1. PICK n \in Need(t) .. MaxElt + 1 :
                 /\ len' = n
                 /\ parent' = [x \in Elt |-> IF x \in len .. n - 1 THEN x ELSE parent[x]]
          BY <1>7, <3>2 DEF Grow
        <4>2. n \in 0 .. MaxElt + 1
          BY <3>1, SizeAssumption
        <4> QED
          BY <1>7, <4>1, <4>2 DEF Grow, Goto
      <3>3. CASE ~(len < Need(t))
        BY <1>7, <3>3 DEF Grow, Goto
      <3> QED
        BY <3>2, <3>3
    <2> QED
      BY <1>7, <2>1 DEF Grow, Lock!Open
  <1>8. ASSUME NEW t \in Thread, Reset(t) PROVE Types'
    BY <1>8 DEF Reset, Goto, Lock!Open
  <1>9. ASSUME NEW t \in Thread, Return(t) PROVE Types'
    BY <1>9 DEF Return, Goto, Lock!Leave
  <1>10. ASSUME NEW t \in Thread, LoadNext(t) PROVE Types'
    BY <1>a, <1>10 DEF LoadNext, Goto
  <1>11. ASSUME NEW t \in Thread, LoadGrand(t) PROVE Types'
    BY <1>11 DEF LoadGrand, Goto
  <1>12. ASSUME NEW t \in Thread, Split(t) PROVE Types'
    BY <1>a, <1>12 DEF Split, Goto
  <1>13. ASSUME NEW t \in Thread, Found(t) PROVE Types'
    BY <1>a, <1>13 DEF Found, Goto, AfterFind
  <1>14. ASSUME NEW t \in Thread, Link(t) PROVE Types'
    BY <1>14 DEF Link, Goto, Parent, Child, MinOf, MaxOf
  <1>15. ASSUME NEW t \in Thread, LinkFail(t) PROVE Types'
    BY <1>15 DEF LinkFail, Goto, FindAgain, Parent, Child, MinOf, MaxOf
  <1>16. ASSUME NEW t \in Thread, Recheck(t) PROVE Types'
    <2>1. /\ pc' \in [Thread -> PC]
          /\ side' \in [Thread -> {1, 2}]
          /\ cur' \in [Thread -> 0 .. MaxElt + 1]
      <3>1. CASE parent[l[t]] = l[t]
        BY <1>16, <3>1 DEF Recheck, Goto
      <3>2. CASE parent[l[t]] # l[t]
        <4>1. l[t] \in 0 .. MaxElt + 1
          OBVIOUS
        <4>2. /\ side' = [side EXCEPT ![t] = 1]
              /\ cur' = [cur EXCEPT ![t] = l[t]]
              /\ pc' = [pc EXCEPT ![t] = "loadNext"]
          BY <1>16, <3>2 DEF Recheck, Goto, FindAgain
        <4> QED
          BY <4>1, <4>2
      <3> QED
        BY <3>1, <3>2
    <2> QED
      BY <1>16, <2>1 DEF Recheck
  <1>17. ASSUME NEW t \in Thread, CopyCell(t) PROVE Types'
    BY <1>17 DEF CopyCell
  <1>18. ASSUME NEW t \in Thread, CopyDone(t) PROVE Types'
    BY <1>18 DEF CopyDone, Goto
  <1> QED
    BY <1>1, <1>2, <1>3, <1>4, <1>5, <1>6, <1>7, <1>8, <1>9, <1>10, <1>11, <1>12, <1>13, <1>14, <1>15, <1>16, <1>17, <1>18 DEF Next, Step

LEMMA StepGuards == IInv /\ [Next]_vars => GuardDiscipline'
  <1> SUFFICES ASSUME IInv, [Next]_vars PROVE GuardDiscipline'
    OBVIOUS
  <1> USE NoneAssumption, SizeAssumption, OpsAssumption
      DEF TypeOK, Types, GuardDiscipline, Guarded, lockVars, findVars, argVars,
          clsVars, histVars
  <1>0. TypeOK
    BY DEF IInv
  <1> USE <1>0
  <1>1. CASE UNCHANGED vars
    BY <1>1 DEF vars
  <1>2. CASE Admit
    BY <1>2 DEF Admit, Lock!Admit
  <1>3. ASSUME NEW t \in Thread, Call(t) PROVE GuardDiscipline'
    BY <1>3 DEF Call, Goto
  <1>4. ASSUME NEW t \in Thread, Access(t) PROVE GuardDiscipline'
    BY <1>4 DEF Access, Goto, Need, MaxOf, Lock!Enter
  <1>5. ASSUME NEW t \in Thread, AccessShort(t) PROVE GuardDiscipline'
    BY <1>5 DEF AccessShort, Goto
  <1>6. ASSUME NEW t \in Thread, CloseLock(t) PROVE GuardDiscipline'
    BY <1>6 DEF CloseLock, Lock!Close
  <1>7. ASSUME NEW t \in Thread, Grow(t) PROVE GuardDiscipline'
    BY <1>7 DEF Grow, Goto, Need, MaxOf, Lock!Open
  <1>8. ASSUME NEW t \in Thread, Reset(t) PROVE GuardDiscipline'
    BY <1>8 DEF Reset, Goto, Lock!Open
  <1>9. ASSUME NEW t \in Thread, Return(t) PROVE GuardDiscipline'
    BY <1>9 DEF Return, Goto, Lock!Leave
  <1>10. ASSUME NEW t \in Thread, LoadNext(t) PROVE GuardDiscipline'
    BY <1>10 DEF LoadNext, Goto
  <1>11. ASSUME NEW t \in Thread, LoadGrand(t) PROVE GuardDiscipline'
    BY <1>11 DEF LoadGrand, Goto
  <1>12. ASSUME NEW t \in Thread, Split(t) PROVE GuardDiscipline'
    BY <1>12 DEF Split, Goto
  <1>13. ASSUME NEW t \in Thread, Found(t) PROVE GuardDiscipline'
    <2>1. op[t] \in {"find", "same", "union"}
      BY <1>13 DEF Found, IInv, Running
    <2> QED
      BY <1>13, <2>1 DEF Found, Goto, AfterFind
  <1>14. ASSUME NEW t \in Thread, Link(t) PROVE GuardDiscipline'
    BY <1>14 DEF Link, Goto, Parent, Child, MinOf, MaxOf
  <1>15. ASSUME NEW t \in Thread, LinkFail(t) PROVE GuardDiscipline'
    BY <1>15 DEF LinkFail, Goto, FindAgain, Parent, Child, MinOf, MaxOf
  <1>16. ASSUME NEW t \in Thread, Recheck(t) PROVE GuardDiscipline'
    BY <1>16 DEF Recheck, Goto, FindAgain
  <1>17. ASSUME NEW t \in Thread, CopyCell(t) PROVE GuardDiscipline'
    BY <1>17 DEF CopyCell
  <1>18. ASSUME NEW t \in Thread, CopyDone(t) PROVE GuardDiscipline'
    BY <1>18 DEF CopyDone, Goto
  <1> QED
    BY <1>1, <1>2, <1>3, <1>4, <1>5, <1>6, <1>7, <1>8, <1>9, <1>10, <1>11, <1>12, <1>13, <1>14, <1>15, <1>16, <1>17, <1>18 DEF Next, Step

(* What follows depends on the types only, so they are taken as given.      *)
TypesHold == Types /\ Types'

LEMMA TypesHoldLemma == IInv /\ [Next]_vars => TypesHold
  BY StepTypes DEF IInv, TypeOK, TypesHold

(* Two different roots found by a union are in different classes as long as *)
(* the child is a root: the parent's representative is below the child.     *)
LEMMA LinkFacts ==
    ASSUME IInv, TypesHold, NEW t \in Thread, Link(t)
    PROVE  /\ Parent(t) \in Elt /\ Child(t) \in Elt /\ Parent(t) < Child(t)
           /\ rep[Child(t)] = Child(t)
           /\ rep[Parent(t)] < Child(t)
           /\ Child(t) < len
           /\ op[t] = "union" /\ Running(t)
           /\ {l[t], r[t]} = {Parent(t), Child(t)}
  <1>1. Running(t)
    BY DEF IInv, Link, Guarded
  <1>2. l[t] # r[t] /\ op[t] = "union" /\ l[t] < len /\ r[t] < len
    BY <1>1 DEF Link, Running, FoundOK, LocalsOK
  <1>3. l[t] \in Nat /\ r[t] \in Nat /\ l[t] \in Elt /\ r[t] \in Elt
    BY EltFacts DEF TypesHold, Types
  <1>4. /\ Parent(t) \in Elt /\ Child(t) \in Elt /\ Parent(t) < Child(t)
        /\ Child(t) < len /\ {l[t], r[t]} = {Parent(t), Child(t)}
    BY <1>2, <1>3 DEF Parent, Child, MinOf, MaxOf
  <1>5. rep[Child(t)] = Child(t)
    BY <1>4 DEF Link, IInv, Forest
  <1>6. rep[Parent(t)] <= Parent(t) /\ rep[Parent(t)] \in Elt
    BY <1>4 DEF IInv, Forest, TypesHold, Types
  <1>7. rep[Parent(t)] < Child(t)
    BY <1>4, <1>6, EltFacts
  <1> QED
    BY <1>1, <1>2, <1>4, <1>5, <1>7

LEMMA StepForest == IInv /\ [Next]_vars => Forest'
  <1> SUFFICES ASSUME IInv, [Next]_vars PROVE Forest'
    OBVIOUS
  <1>0. TypesHold /\ Forest
    BY TypesHoldLemma DEF IInv
  <1>1. CASE UNCHANGED <<parent, rep, len>>
    BY <1>0, <1>1 DEF Forest
  <1>2. ASSUME NEW t \in Thread, Grow(t) PROVE Forest'
    <2>1. CASE len < Need(t)
      <3>1. PICK n \in Need(t) .. MaxElt + 1 :
               /\ len' = n
               /\ parent' = [x \in Elt |-> IF x \in len .. n - 1 THEN x ELSE parent[x]]
        BY <1>2, <2>1 DEF Grow
      <3>2. rep' = rep /\ len < n /\ n \in Nat /\ len \in Nat
        BY <1>0, <1>2, <2>1, <3>1, SizeAssumption, EltFacts DEF Grow, TypesHold, Types, Need, MaxOf
      <3>3. ASSUME NEW x \in Elt PROVE parent'[x] = parent[x]
        BY <1>0, <3>1, EltFacts DEF Forest
      <3> QED
        BY <1>0, <3>2, <3>3, <3>1, EltFacts DEF Forest
    <2>2. CASE ~(len < Need(t))
      BY <1>1, <1>2, <2>2 DEF Grow
    <2> QED
      BY <2>1, <2>2
  <1>3. ASSUME NEW t \in Thread, Reset(t) PROVE Forest'
    BY <1>0, <1>3, EltFacts DEF Reset, Forest
  (* grand is below next and next below cur, all in cur's class.            *)
  <1>4. ASSUME NEW t \in Thread, Split(t) PROVE Forest'
    <2>1. CASE parent[cur[t]] = next[t] /\ next[t] # cur[t]
      <3>1. /\ cur[t] \in Elt /\ grand[t] \in Elt /\ next[t] \in Elt
            /\ grand[t] <= next[t] /\ next[t] <= cur[t]
            /\ rep[grand[t]] = rep[cur[t]] /\ cur[t] < len
        <4>1. Running(t) /\ pc[t] = "split" /\ op[t] # "copy"
          BY <1>4 DEF IInv, Split, Guarded, Running
        <4>2. cur[t] < len /\ grand[t] < next[t] /\ next[t] <= cur[t]
              /\ rep[grand[t]] = rep[cur[t]]
          BY <4>1 DEF Running, LocalsOK
        <4>3. /\ cur[t] \in 0 .. MaxElt + 1 /\ len \in 0 .. MaxElt + 1
              /\ grand[t] \in Elt /\ next[t] \in Elt
          BY <1>0 DEF TypesHold, Types
        <4> QED
          BY <4>2, <4>3, EltFacts
      <3>2. rep' = rep /\ len' = len /\ parent' = [parent EXCEPT ![cur[t]] = grand[t]]
        BY <1>4, <2>1 DEF Split
      <3>3. rep[cur[t]] # cur[t] /\ grand[t] < cur[t]
        BY <1>0, <2>1, <3>1, EltFacts DEF Forest
      <3> QED
        BY <1>0, <3>1, <3>2, <3>3, EltFacts DEF Forest, TypesHold, Types
    <2>2. CASE parent[cur[t]] = next[t] /\ next[t] = cur[t]
      <3>1. cur[t] \in Elt /\ cur[t] = parent[cur[t]]
        BY <1>0, <2>2 DEF TypesHold, Types
      <3>2. rep[next[t]] # next[t]
        BY <1>4 DEF IInv, Split, Running, Guarded, LocalsOK
      <3> QED
        BY <1>0, <2>2, <3>1, <3>2 DEF Forest
    <2>3. CASE parent[cur[t]] # next[t]
      BY <1>1, <1>4, <2>3 DEF Split
    <2> QED
      BY <2>1, <2>2, <2>3
  <1>5. ASSUME NEW t \in Thread, Link(t) PROVE Forest'
    <2> DEFINE p == Parent(t)
               c == Child(t)
    <2>1. /\ p \in Elt /\ c \in Elt /\ p < c /\ rep[c] = c /\ rep[p] < c /\ c < len
      BY <1>0, <1>5, LinkFacts
    <2>2. /\ parent' = [parent EXCEPT ![c] = p] /\ len' = len
          /\ rep' = [x \in Elt |-> IF rep[x] = c THEN rep[p] ELSE rep[x]]
      BY <1>5 DEF Link
    <2>3. parent \in [Elt -> Elt] /\ rep \in [Elt -> Elt] /\ len \in Nat
      BY <1>0, EltFacts DEF TypesHold, Types
    <2> HIDE DEF p, c
    <2>4. ASSUME NEW x \in Elt
          PROVE  /\ rep'[x] = IF rep[x] = c THEN rep[p] ELSE rep[x]
                 /\ parent'[x] = IF x = c THEN p ELSE parent[x]
                 /\ x \in Nat /\ rep[x] \in Elt /\ parent[x] \in Elt
                 /\ rep[x] \in Nat /\ parent[x] \in Nat
      BY <2>1, <2>2, <2>3, EltFacts
    <2>5. ASSUME NEW x \in Elt
          PROVE  /\ parent'[x] <= x /\ rep'[x] <= x
                 /\ rep'[parent'[x]] = rep'[x]
                 /\ rep'[rep'[x]] = rep'[x]
                 /\ parent'[x] = x <=> rep'[x] = x
                 /\ x >= len' => parent'[x] = x
      <3>1. /\ parent[x] <= x /\ rep[x] <= x
            /\ rep[parent[x]] = rep[x] /\ rep[rep[x]] = rep[x]
            /\ parent[x] = x <=> rep[x] = x
            /\ x >= len => parent[x] = x
        BY <1>0 DEF Forest
      <3>2. rep[rep[p]] = rep[p] /\ rep[p] \in Elt /\ rep[p] \in Nat /\ rep'[p] = rep[p]
            /\ rep'[rep[p]] = rep[p] /\ rep'[c] = rep[p]
        BY <1>0, <2>1, <2>4, EltFacts DEF Forest
      <3>3. CASE rep[x] = c
        <4>1. rep'[x] = rep[p] /\ rep[p] < x
          BY <2>1, <2>4, <3>1, <3>2, <3>3, EltFacts
        <4>2. rep'[parent'[x]] = rep[p]
          BY <2>1, <2>4, <3>1, <3>2, <3>3
        <4>3. parent'[x] # x /\ parent'[x] <= x /\ x < len
          BY <2>1, <2>3, <2>4, <3>1, <3>3, EltFacts
        <4> QED
          BY <2>1, <2>2, <2>3, <2>4, <3>2, <4>1, <4>2, <4>3, EltFacts
      <3>4. CASE rep[x] # c
        BY <2>1, <2>2, <2>4, <3>1, <3>2, <3>4, EltFacts
      <3> QED
        BY <3>3, <3>4
    <2> QED
      BY <2>5 DEF Forest
  <1> QED
    BY <1>1, <1>2, <1>3, <1>4, <1>5
       DEF Next, Step, vars, lockVars, findVars, argVars, clsVars, histVars, Admit, Call, Access,
           AccessShort, CloseLock, Return, LoadNext, LoadGrand, Found,
           LinkFail, Recheck, CopyCell, CopyDone
(* While somebody holds a guard, classes are only joined and never renamed  *)
(* upwards, and the buffer keeps its length.                                *)
Coarser ==
    /\ len' = len
    /\ \A x, y \in Elt : rep[x] = rep[y] => rep'[x] = rep'[y]
    /\ \A x \in Elt : rep'[x] <= rep[x]
    /\ \A x \in Elt : rep[x] # x => rep'[x] # x

Alone == \A u \in Thread : pc[u] \notin Guarded /\ pc'[u] \notin Guarded

LEMMA StepCoarser == IInv /\ [Next]_vars => Coarser \/ Alone
  <1> SUFFICES ASSUME IInv, [Next]_vars PROVE Coarser \/ Alone
    OBVIOUS
  <1>0. TypesHold /\ Forest
    BY TypesHoldLemma DEF IInv
  <1>1. CASE UNCHANGED <<rep, len>>
    BY <1>0, <1>1, EltFacts DEF Coarser, TypesHold, Types
  <1>2. ASSUME NEW t \in Thread, Grow(t) \/ Reset(t) PROVE Alone
    <2>1. \A u \in Thread : pc[u] \notin Guarded
      BY <1>2 DEF Grow, Reset, Lock!Open, IInv, TypeOK, GuardDiscipline
    <2>2. pc' = [pc EXCEPT ![t] = "access"] \/ pc' = [pc EXCEPT ![t] = "idle"]
      BY <1>2 DEF Grow, Reset, Goto
    <2> QED
      BY <1>0, <2>1, <2>2 DEF Alone, Guarded, TypesHold, Types
  <1>3. ASSUME NEW t \in Thread, Link(t) PROVE Coarser
    <2>1. /\ Parent(t) \in Elt /\ Child(t) \in Elt
          /\ rep[Child(t)] = Child(t) /\ rep[Parent(t)] < Child(t)
      BY <1>0, <1>3, LinkFacts
    <2>2. /\ len' = len
          /\ rep' = [x \in Elt |-> IF rep[x] = Child(t) THEN rep[Parent(t)] ELSE rep[x]]
      BY <1>3 DEF Link
    <2>3. rep \in [Elt -> Elt]
      BY <1>0 DEF TypesHold, Types
    <2>4. ASSUME NEW x \in Elt PROVE rep'[x] <= rep[x] /\ (rep[x] # x => rep'[x] # x)
      <3>1. rep[x] \in Nat /\ x \in Nat /\ rep[x] <= x /\ rep[Parent(t)] \in Nat /\ Child(t) \in Nat
        BY <1>0, <2>1, <2>3, EltFacts DEF Forest
      <3>2. CASE rep[x] = Child(t)
        BY <2>1, <2>2, <3>1, <3>2
      <3>3. CASE rep[x] # Child(t)
        BY <2>2, <3>1, <3>3
      <3> QED
        BY <3>2, <3>3
    <2> QED
      BY <2>2, <2>4 DEF Coarser
  <1> QED
    BY <1>1, <1>2, <1>3
       DEF Next, Step, vars, lockVars, findVars, argVars, clsVars, histVars, Admit, Call, Access,
           AccessShort, CloseLock, Return, LoadNext, LoadGrand, Split, Found,
           LinkFail, Recheck, CopyCell, CopyDone

(* A thread that does not move keeps what it knows.                         *)
Same(u) ==
    /\ pc'[u] = pc[u] /\ op'[u] = op[u] /\ a'[u] = a[u] /\ b'[u] = b[u]
    /\ l'[u] = l[u] /\ r'[u] = r[u] /\ side'[u] = side[u] /\ cur'[u] = cur[u]
    /\ next'[u] = next[u] /\ grand'[u] = grand[u] /\ copy'[u] = copy[u]
    /\ repA'[u] = repA[u] /\ repB'[u] = repB[u]

LEMMA Types1 ==
    ASSUME Types, NEW u \in Thread
    PROVE  /\ a[u] \in Elt /\ b[u] \in Elt /\ l[u] \in Elt /\ r[u] \in Elt
           /\ next[u] \in Elt /\ grand[u] \in Elt
           /\ repA[u] \in Elt /\ repB[u] \in Elt
           /\ cur[u] \in 0 .. MaxElt + 1 /\ len \in 0 .. MaxElt + 1
           /\ copy[u] \in [Elt -> Elt]
           /\ \A x \in Elt : rep[x] \in Elt /\ parent[x] \in Elt
  BY DEF Types

LEMMA Stable ==
    ASSUME IInv, TypesHold, Coarser, NEW u \in Thread, Same(u), Running(u)
    PROVE  Running(u)'
  <1> USE Types1, EltFacts DEF TypesHold, Same
  <1>1. op[u] # "copy" => LocalsOK(u)'
    BY DEF Running, LocalsOK, Coarser
  <1>2. SeenOK(u)'
    <2>1. rep'[a[u]] <= rep[a[u]] /\ rep[a[u]] <= repA[u]
      BY DEF Running, SeenOK, Coarser
    <2>2. rep'[a[u]] \in Nat /\ rep[a[u]] \in Nat /\ repA[u] \in Nat
      BY DEF Types
    <2>3. repA[u] = repB[u] => rep'[a[u]] = rep'[b[u]]
      BY DEF Running, SeenOK, Coarser
    <2> QED
      BY <2>1, <2>2, <2>3 DEF SeenOK
  <1>3. FoundOK(u)'
    BY DEF Running, FoundOK, Coarser
  <1>4. CopyOK(u)'
    BY DEF Running, CopyOK, Coarser
  <1> QED
    BY <1>1, <1>2, <1>3, <1>4 DEF Running

LEMMA OthersStay ==
    ASSUME Types, NEW t \in Thread, NEW u \in Thread, t # u, Call(t) \/ Step(t)
    PROVE  Same(u)
  <1> USE DEF Same, lockVars, findVars, argVars, clsVars, histVars, Goto, Types
  <1>1. CASE Call(t)
    BY <1>1 DEF Call
  <1>2. CASE Access(t) \/ AccessShort(t) \/ CloseLock(t)
    BY <1>2 DEF Access, AccessShort, CloseLock
  <1>3. CASE Grow(t) \/ Reset(t) \/ Return(t)
    BY <1>3 DEF Grow, Reset, Return
  <1>4. CASE LoadNext(t) \/ LoadGrand(t) \/ Split(t)
    BY <1>4 DEF LoadNext, LoadGrand, Split
  <1>5. CASE Found(t)
    BY <1>5 DEF Found
  <1>6. CASE Link(t) \/ LinkFail(t)
    BY <1>6 DEF Link, LinkFail, FindAgain
  <1>7. CASE Recheck(t)
    BY <1>7 DEF Recheck, FindAgain
  <1>8. CASE CopyCell(t) \/ CopyDone(t)
    BY <1>8 DEF CopyCell, CopyDone
  <1> QED
    BY <1>1, <1>2, <1>3, <1>4, <1>5, <1>6, <1>7, <1>8 DEF Step

LEMMA Mover ==
    ASSUME Types, [Next]_vars, NEW u \in Thread
    PROVE  Same(u) \/ Call(u) \/ Step(u)
  <1>1. CASE UNCHANGED vars
    BY <1>1 DEF vars, Same, findVars, argVars, clsVars, histVars
  <1>2. CASE Admit
    BY <1>2 DEF Admit, Same, findVars, argVars, clsVars, histVars
  <1>3. ASSUME NEW t \in Thread, t # u, Call(t) \/ Step(t) PROVE Same(u)
    BY <1>3, OthersStay
  <1> QED
    BY <1>1, <1>2, <1>3 DEF Next

LEMMA StepRunning ==
    IInv /\ [Next]_vars => \A u \in Thread : pc'[u] \in Guarded => Running(u)'
  <1> SUFFICES ASSUME IInv, [Next]_vars, NEW t \in Thread, pc'[t] \in Guarded
               PROVE  Running(t)'
    OBVIOUS
  <1>0. TypesHold /\ Forest /\ Coarser /\ Types
    <2>1. ~Alone
      BY DEF Alone
    <2> QED
      BY <2>1, TypesHoldLemma, StepCoarser DEF IInv, TypesHold
  <1>a. pc[t] \in Guarded => Running(t)
    BY DEF IInv
  <1> USE <1>0, Types1, EltFacts DEF TypesHold
  <1>1. CASE Same(t)
    BY <1>1, <1>a, Stable DEF Same
  <1>2. CASE Access(t)
    <2>1. /\ op'[t] = op[t] /\ a'[t] = a[t] /\ b'[t] = b[t]
          /\ l'[t] = a[t] /\ r'[t] = b[t] /\ side'[t] = 1
          /\ cur'[t] = IF op[t] = "copy" THEN 0 ELSE a[t]
          /\ pc'[t] = IF op[t] = "copy" THEN "copying" ELSE "loadNext"
          /\ copy'[t] = [x \in Elt |-> x]
          /\ repA'[t] = rep[a[t]] /\ repB'[t] = rep[b[t]]
          /\ len' = len /\ rep' = rep /\ op[t] # "reset"
      BY <1>2 DEF Access, Goto, argVars, Types, IInv, OpOK
    <2>2. op[t] # "copy" => a[t] < len /\ b[t] < len
      BY <1>2 DEF Access, Need, MaxOf
    <2>3. len \in Nat /\ rep[a[t]] \in Nat
      OBVIOUS
    <2> QED
      BY <2>1, <2>2, <2>3 DEF Running, LocalsOK, SeenOK, FoundOK, CopyOK
  <1>3. CASE LoadNext(t)
    BY <1>3, <1>a DEF LoadNext, Goto, Guarded, Running, LocalsOK, SeenOK, FoundOK, CopyOK,
         argVars, clsVars, histVars, Types, Forest
  <1>4. CASE LoadGrand(t)
    <2>1. /\ grand'[t] = parent[next[t]] /\ pc'[t] = "split" /\ pc[t] = "loadGrand"
          /\ UNCHANGED <<len, rep, op, a, b, l, r, side, cur, next, repA, repB>>
          /\ parent[next[t]] # next[t] /\ Running(t)
      BY <1>4, <1>a DEF LoadGrand, Goto, Guarded, argVars, clsVars, histVars, Types
    <2>2. /\ parent[next[t]] < next[t] /\ rep[parent[next[t]]] = rep[next[t]]
          /\ rep[next[t]] # next[t]
      BY <2>1 DEF Forest
    <2> QED
      BY <2>1, <2>2 DEF Running, LocalsOK, SeenOK, FoundOK, CopyOK
  <1>5. CASE Split(t)
    BY <1>5, <1>a DEF Split, Goto, Guarded, Running, LocalsOK, SeenOK, FoundOK, CopyOK,
         argVars, clsVars, histVars, Types, Forest
  <1>6. CASE Found(t)
    <2>1. /\ UNCHANGED <<len, rep, op, a, b, repA, repB>>
          /\ l'[t] = IF side[t] = 1 THEN next[t] ELSE l[t]
          /\ r'[t] = IF side[t] = 2 THEN next[t] ELSE r[t]
          /\ side'[t] = 2
          /\ cur'[t] = IF side[t] = 1 THEN r[t] ELSE 0
          /\ pc'[t] = AfterFind(t)
          /\ pc[t] = "loadGrand" /\ parent[next[t]] = next[t] /\ Running(t)
          /\ side[t] \in {1, 2}
      BY <1>6, <1>a DEF Found, Goto, Guarded, argVars, histVars, Types
    <2>2. op[t] \in {"find", "same", "union"} /\ LocalsOK(t)
      BY <2>1 DEF Running, Types
    (* What was found is the representative of the class of a or b.         *)
    <2>3. /\ next[t] < len /\ rep[next[t]] = next[t]
          /\ rep[next[t]] = IF side[t] = 1 THEN rep[a[t]] ELSE rep[b[t]]
      BY <2>1, <2>2 DEF LocalsOK, Forest
    <2>4. pc'[t] \in {"done", "loadNext", "link", "recheck"}
          /\ (pc'[t] = "loadNext" => side[t] = 1 /\ op[t] # "find")
          /\ (pc'[t] \in {"link", "recheck"} => side[t] = 2 /\ l[t] # next[t])
          /\ (pc'[t] = "link" => op[t] = "union")
          /\ (pc'[t] = "recheck" => op[t] = "same")
      BY <2>1, <2>2 DEF AfterFind
    <2>5. LocalsOK(t)'
      BY <2>1, <2>2, <2>3, <2>4 DEF LocalsOK
    <2>6. FoundOK(t)'
      BY <2>1, <2>2, <2>3, <2>4 DEF FoundOK, LocalsOK, Running, SeenOK
    <2>7. SeenOK(t)' /\ CopyOK(t)'
      BY <2>1, <2>4 DEF SeenOK, CopyOK, Running
    <2> QED
      BY <2>1, <2>2, <2>5, <2>6, <2>7 DEF Running
  <1>7. CASE Link(t)
    <2>1. /\ pc'[t] = "done" /\ l'[t] = Parent(t) /\ r'[t] = Child(t)
          /\ op[t] = "union" /\ Running(t) /\ LocalsOK(t)
          /\ {l[t], r[t]} = {Parent(t), Child(t)}
          /\ UNCHANGED <<op, a, b, len, repA, repB>>
          /\ rep' = [x \in Elt |-> IF rep[x] = Child(t) THEN rep[Parent(t)] ELSE rep[x]]
          /\ rep[Child(t)] = Child(t)
      BY <1>7, LinkFacts DEF Link, Goto, argVars, histVars, Types, Running
    (* All four are in one class now.                                       *)
    <2>2. rep'[Parent(t)] = rep'[Child(t)] /\ Parent(t) \in Elt /\ Child(t) \in Elt
      BY <1>7, <2>1, LinkFacts
    <2>3. rep'[l[t]] = rep'[a[t]] /\ rep'[r[t]] = rep'[b[t]] /\ rep'[l[t]] = rep'[r[t]]
      <3>1. l[t] \in {Parent(t), Child(t)} /\ r[t] \in {Parent(t), Child(t)}
        BY <2>1
      <3>2. rep'[l[t]] = rep'[r[t]]
        BY <2>2, <3>1
      <3> QED
        BY <2>1, <3>2 DEF LocalsOK, Coarser
    <2>4. LocalsOK(t)'
      BY <2>1, <2>2, <2>3 DEF LocalsOK
    <2>5. SeenOK(t)'
      <3>1. rep'[a[t]] <= rep[a[t]] /\ rep[a[t]] <= repA[t]
            /\ rep'[a[t]] \in Nat /\ rep[a[t]] \in Nat /\ repA[t] \in Nat
        BY <2>1 DEF Coarser, Running, SeenOK, Types
      <3> QED
        BY <2>1, <2>3, <3>1 DEF SeenOK
    <2> QED
      BY <2>1, <2>4, <2>5 DEF Running, FoundOK, CopyOK
  <1>8. CASE LinkFail(t)
    BY <1>8, <1>a DEF LinkFail, FindAgain, Goto, Guarded, Running, LocalsOK, SeenOK, FoundOK, CopyOK,
         argVars, clsVars, histVars, Types, Forest
  <1>9. CASE Recheck(t)
    BY <1>9, <1>a DEF Recheck, FindAgain, Goto, Guarded, Running, LocalsOK, SeenOK, FoundOK, CopyOK,
         argVars, clsVars, histVars, Types, Forest
  <1>10. CASE CopyCell(t)
    <2>1. /\ UNCHANGED <<pc, op, a, b, l, r, side, next, grand, len, rep, repA, repB>>
          /\ pc[t] = "copying" /\ Running(t) /\ cur[t] < len /\ op[t] = "copy"
          /\ copy'[t] = [copy[t] EXCEPT ![cur[t]] = parent[cur[t]]]
          /\ cur'[t] = cur[t] + 1
      BY <1>10, <1>a DEF CopyCell, Guarded, argVars, clsVars, histVars, Types, Running, CopyOK
    <2>2. ASSUME NEW x \in Elt, x < cur'[t]
          PROVE  copy'[t][x] <= x /\ rep[copy'[t][x]] = rep[x]
      <3>1. cur[t] \in Elt /\ cur[t] \in Nat /\ (x < cur[t] \/ x = cur[t])
        BY <2>1, <2>2
      <3>2. CASE x < cur[t]
        BY <2>1, <3>1, <3>2 DEF Running, CopyOK
      <3>3. CASE x = cur[t]
        BY <2>1, <3>1, <3>3 DEF Forest
      <3> QED
        BY <3>1, <3>2, <3>3
    <2>3. CopyOK(t)'
      BY <2>1, <2>2 DEF CopyOK
    <2> QED
      BY <2>1, <2>3 DEF Running, SeenOK, FoundOK
  <1>11. CASE CopyDone(t)
    BY <1>11, <1>a DEF CopyDone, Goto, Guarded, Running, LocalsOK, SeenOK, FoundOK, CopyOK,
         argVars, clsVars, histVars, Types, Forest
  <1>12. CASE Call(t) \/ AccessShort(t) \/ CloseLock(t) \/ Grow(t) \/ Reset(t) \/ Return(t)
    BY <1>12 DEF Call, AccessShort, CloseLock, Grow, Reset, Return, Goto, Guarded, Types
  <1> QED
    BY <1>1, <1>2, <1>3, <1>4, <1>5, <1>6, <1>7, <1>8, <1>9, <1>10, <1>11, <1>12, Mover DEF Step
LEMMA StepOpOK == IInv /\ [Next]_vars => OpOK'
  <1> SUFFICES ASSUME IInv, [Next]_vars, NEW t \in Thread,
                      pc'[t] \in {"access", "grow"}
               PROVE  op'[t] # "reset"
    BY DEF OpOK
  <1>0. Types /\ (pc[t] \in {"access", "grow"} => op[t] # "reset")
    BY DEF IInv, TypeOK, OpOK
  <1> USE <1>0 DEF Types, Goto, argVars
  <1>1. CASE Same(t)
    BY <1>1 DEF Same
  <1>2. CASE Call(t)
    BY <1>2, OpsAssumption DEF Call
  <1>3. CASE Access(t) \/ AccessShort(t) \/ CloseLock(t) \/ Grow(t) \/ Reset(t) \/ Return(t)
    BY <1>3 DEF Access, AccessShort, CloseLock, Grow, Reset, Return
  <1>4. CASE LoadNext(t) \/ LoadGrand(t) \/ Split(t) \/ Link(t) \/ LinkFail(t)
             \/ CopyCell(t) \/ CopyDone(t)
    BY <1>4 DEF LoadNext, LoadGrand, Split, Link, LinkFail, FindAgain, CopyCell, CopyDone
  <1>5. CASE Found(t)
    <2>1. op[t] \in {"find", "same", "union"}
      BY <1>5 DEF Found, IInv, Guarded, Running
    <2> QED
      BY <1>5, <2>1 DEF Found, AfterFind
  <1>6. CASE Recheck(t)
    BY <1>6 DEF Recheck, FindAgain
  <1> QED
    BY <1>1, <1>2, <1>3, <1>4, <1>5, <1>6, Mover DEF Step

(* The part of an answer that does not mention the other threads.           *)
Answer(t) ==
    /\ op[t] = "find" => FindAnswer(t)
    /\ op[t] = "same" => SameSetAnswer(t)
    /\ op[t] = "union" =>
          /\ rep[a[t]] = rep[b[t]] /\ rep[l[t]] = rep[a[t]] /\ rep[r[t]] = rep[l[t]]
          /\ l[t] # r[t] => l[t] < r[t] /\ rep[r[t]] # r[t] /\ repA[t] # repB[t]
    /\ op[t] = "copy" => CopyAnswer(t)

(* No two unions that have yet to return report the same child.             *)
Linked(t) == pc[t] = "done" /\ op[t] = "union" /\ l[t] # r[t]

DistinctChildren ==
    \A t, u \in Thread : t # u /\ Linked(t) /\ Linked(u) => r[t] # r[u]

LEMMA AnswersIs ==
    Answers <=> DistinctChildren /\ \A t \in Thread : pc[t] = "done" => Answer(t)
  BY DEF Answers, DistinctChildren, Linked, Answer, UnionAnswer

LEMMA StableAnswer ==
    ASSUME TypesHold, Coarser, NEW u \in Thread, Same(u), Answer(u)
    PROVE  Answer(u)'
  <1> USE Types1, EltFacts DEF TypesHold, Same
  <1>1. FindAnswer(u) => FindAnswer(u)'
    <2>1. rep'[a[u]] <= rep[a[u]] /\ rep'[a[u]] \in Nat /\ rep[a[u]] \in Nat /\ l[u] \in Nat
      BY DEF Coarser, Types
    <2> QED
      BY <2>1 DEF FindAnswer, Coarser
  <1>2. SameSetAnswer(u) => SameSetAnswer(u)'
    BY DEF SameSetAnswer, Coarser
  <1>3. CopyAnswer(u) => CopyAnswer(u)'
    <2>1. \A x \in 0 .. len - 1 : x \in Elt
      BY SizeAssumption DEF Elt, Types
    <2> QED
      BY <2>1 DEF CopyAnswer, Coarser
  <1> QED
    BY <1>1, <1>2, <1>3 DEF Answer, Coarser
LEMMA StepAnswer ==
    IInv /\ [Next]_vars => \A u \in Thread : pc'[u] = "done" => Answer(u)'
  <1> SUFFICES ASSUME IInv, [Next]_vars, NEW t \in Thread, pc'[t] = "done"
               PROVE  Answer(t)'
    OBVIOUS
  <1>0. TypesHold /\ Forest /\ Forest' /\ Coarser /\ Types
    <2>1. ~Alone
      BY DEF Alone, Guarded
    <2> QED
      BY <2>1, TypesHoldLemma, StepCoarser, StepForest DEF IInv, TypesHold
  <1>a. Running(t)' /\ (pc[t] \in Guarded => Running(t))
    BY StepRunning DEF IInv, Guarded
  <1> USE <1>0, Types1, EltFacts DEF TypesHold
  <1>1. CASE Same(t)
    BY <1>1, AnswersIs, StableAnswer DEF Same, IInv
  <1>2. CASE Found(t)
    <2>1. /\ UNCHANGED <<len, rep, op, a, b, repA, repB>>
          /\ l'[t] = IF side[t] = 1 THEN next[t] ELSE l[t]
          /\ r'[t] = IF side[t] = 2 THEN next[t] ELSE r[t]
          /\ AfterFind(t) = "done"
          /\ parent[next[t]] = next[t] /\ Running(t) /\ pc[t] = "loadGrand"
      BY <1>2, <1>a DEF Found, Goto, Guarded, argVars, histVars, Types
    <2>2. op[t] \in {"find", "same", "union"} /\ LocalsOK(t) /\ SeenOK(t)
      BY <2>1 DEF Running, Types
    <2>3. /\ next[t] = rep[next[t]]
          /\ rep[next[t]] = IF side[t] = 1 THEN rep[a[t]] ELSE rep[b[t]]
      BY <2>1, <2>2 DEF LocalsOK, Forest
    <2>4. CASE op[t] = "find"
      <3>1. side[t] = 1 /\ l'[t] = next[t] /\ next[t] = rep[a[t]]
        BY <2>1, <2>2, <2>3, <2>4 DEF LocalsOK
      <3>2. rep'[l'[t]] = rep'[a'[t]] /\ rep'[a'[t]] <= l'[t] /\ l'[t] <= repA'[t]
        BY <2>1, <2>2, <2>3, <3>1 DEF SeenOK
      <3> QED
        BY <2>1, <2>4, <3>2 DEF Answer, FindAnswer
    <2>5. CASE op[t] # "find"
      <3>1. side[t] = 2 /\ l[t] = next[t] /\ l'[t] = l[t] /\ r'[t] = l[t]
        BY <2>1, <2>5 DEF AfterFind, Types
      <3>2. rep[a[t]] = rep[b[t]] /\ rep[l[t]] = rep[a[t]]
        BY <2>2, <2>3, <3>1 DEF LocalsOK
      <3> QED
        BY <2>1, <2>2, <2>5, <3>1, <3>2 DEF Answer, SameSetAnswer
    <2> QED
      BY <2>4, <2>5
  <1>3. CASE Link(t)
    <2>1. /\ op'[t] = "union" /\ l'[t] = Parent(t) /\ r'[t] = Child(t)
          /\ Parent(t) < Child(t) /\ Child(t) \in Elt
          /\ parent'[Child(t)] = Parent(t) /\ Parent(t) \in Nat /\ Child(t) \in Nat
          /\ UNCHANGED <<a, b, repA, repB>>
      <3>1. Parent(t) \in Elt /\ Child(t) \in Elt /\ Parent(t) < Child(t) /\ op[t] = "union"
        BY <1>3, LinkFacts
      <3> QED
        BY <1>3, <3>1 DEF Link, argVars, histVars, Types
    <2>2. rep'[Child(t)] # Child(t)
      BY <2>1 DEF Forest
    (* The arguments were apart: else they would still be together, and the *)
    (* parent, in the child's class, would have the child's representative. *)
    <2>3. repA[t] # repB[t]
      <3>1. rep[a[t]] # rep[b[t]]
        <4>1. Running(t) /\ op[t] = "union"
          BY <1>3, LinkFacts
        <4>2. rep[l[t]] = rep[a[t]] /\ rep[r[t]] = rep[b[t]]
          BY <4>1 DEF Running, LocalsOK
        <4>3. rep[Parent(t)] # rep[Child(t)]
          BY <1>3, LinkFacts
        <4> QED
          BY <4>2, <4>3 DEF Parent, Child, MinOf, MaxOf
      <3> QED
        BY <1>3, <3>1, LinkFacts DEF Running, SeenOK
    <2>4. LocalsOK(t)' /\ rep'[l'[t]] = rep'[r'[t]]
      <3>1. LocalsOK(t)'
        BY <1>a, <2>1 DEF Running
      <3>2. rep'[Parent(t)] = rep'[parent'[Child(t)]]
        BY <2>1
      <3> QED
        BY <2>1, <3>1, <3>2 DEF Forest
    <2>5. rep'[a'[t]] = rep'[b'[t]] /\ rep'[l'[t]] = rep'[a'[t]]
      BY <2>4 DEF LocalsOK
    <2> QED
      BY <2>1, <2>2, <2>3, <2>4, <2>5 DEF Answer
  <1>4. CASE Recheck(t)
    <2>1. /\ parent[l[t]] = l[t] /\ Running(t) /\ op[t] = "same" /\ pc[t] = "recheck"
          /\ UNCHANGED <<len, rep, op, a, b, l, r, repA, repB>>
      BY <1>4, <1>a DEF Recheck, FindAgain, Goto, Guarded, Running, FoundOK, argVars,
                        clsVars, histVars, Types
    <2>2. repA[t] # repB[t] /\ l[t] # r[t]
      BY <2>1 DEF Running, FoundOK, Forest
    <2> QED
      BY <2>1, <2>2 DEF Answer, SameSetAnswer
  <1>5. CASE CopyDone(t)
    <2>1. /\ cur[t] = len /\ Running(t) /\ op[t] = "copy" /\ pc[t] = "copying"
          /\ UNCHANGED <<len, rep, op, copy>>
      BY <1>5, <1>a DEF CopyDone, Guarded, argVars, Running, CopyOK
    <2>2. \A x \in 0 .. len - 1 : x \in Elt /\ x < len
      BY SizeAssumption DEF Elt, Types
    <2> QED
      BY <2>1, <2>2 DEF Answer, CopyAnswer, Running, CopyOK
  <1>6. CASE \/ Call(t) \/ Access(t) \/ AccessShort(t) \/ CloseLock(t) \/ Grow(t)
             \/ Reset(t) \/ Return(t) \/ LoadNext(t) \/ LoadGrand(t) \/ Split(t)
             \/ LinkFail(t) \/ CopyCell(t)
    BY <1>6 DEF Call, Access, AccessShort, CloseLock, Grow, Reset, Return, LoadNext,
         LoadGrand, Split, LinkFail, FindAgain, CopyCell, Goto, Types
  <1> QED
    BY <1>1, <1>2, <1>3, <1>4, <1>5, <1>6, Mover DEF Step

(* The child a union links was a root, those reported before are not.       *)
LEMMA StepDistinct == IInv /\ [Next]_vars => DistinctChildren'
  <1> SUFFICES ASSUME IInv, [Next]_vars PROVE DistinctChildren'
    OBVIOUS
  <1>0. TypesHold /\ Types /\ Answers
    BY TypesHoldLemma DEF IInv, TypesHold
  <1>1. ASSUME NEW t \in Thread, NEW u \in Thread, t # u, Call(t) \/ Step(t),
               Linked(t)', Linked(u)'
        PROVE  r'[t] # r'[u]
    <2>1. Same(u) /\ Linked(u)
      BY <1>0, <1>1, OthersStay DEF Same, Linked
    <2>2. rep[r[u]] # r[u]
      BY <1>0, <2>1 DEF Linked, Answers, UnionAnswer
    <2>3. pc'[t] = "done" /\ op'[t] = "union" /\ l'[t] # r'[t]
      BY <1>1 DEF Linked
    <2>4. CASE Link(t)
      <3>1. r'[t] = Child(t)
        BY <1>0, <2>4 DEF Link, Types
      <3>2. rep[Child(t)] = Child(t)
        BY <1>0, <2>4, LinkFacts
      <3> QED
        BY <2>1, <2>2, <3>1, <3>2 DEF Same
    <2>5. CASE Found(t)
      <3>1. /\ AfterFind(t) = "done" /\ op[t] = "union" /\ side[t] \in {1, 2}
            /\ l'[t] = IF side[t] = 1 THEN next[t] ELSE l[t]
            /\ r'[t] = IF side[t] = 2 THEN next[t] ELSE r[t]
        BY <1>0, <2>3, <2>5 DEF Found, Goto, argVars, Types
      <3> QED
        BY <2>3, <3>1 DEF AfterFind
    <2>6. CASE Recheck(t)
      BY <1>0, <2>3, <2>6 DEF Recheck, FindAgain, Goto, argVars, IInv, Guarded, Running,
                              FoundOK, Types
    <2>7. CASE CopyDone(t)
      BY <1>0, <2>3, <2>7 DEF CopyDone, argVars, IInv, Guarded, Running, CopyOK
    <2>8. CASE \/ Call(t) \/ Access(t) \/ AccessShort(t) \/ CloseLock(t) \/ Grow(t)
               \/ Reset(t) \/ Return(t) \/ LoadNext(t) \/ LoadGrand(t) \/ Split(t)
               \/ LinkFail(t) \/ CopyCell(t)
      BY <1>0, <2>3, <2>8 DEF Call, Access, AccessShort, CloseLock, Grow, Reset, Return,
           LoadNext, LoadGrand, Split, LinkFail, FindAgain, CopyCell, Goto, Types
    <2> QED
      BY <1>1, <2>4, <2>5, <2>6, <2>7, <2>8 DEF Step
  <1>2. ASSUME NEW t \in Thread, NEW u \in Thread, t # u, Same(t), Same(u),
               Linked(t)', Linked(u)'
        PROVE  r'[t] # r'[u]
    BY <1>0, <1>2, AnswersIs DEF Same, Linked, DistinctChildren
  <1> QED
    <2> SUFFICES ASSUME NEW t \in Thread, NEW u \in Thread, t # u, Linked(t)', Linked(u)'
                 PROVE  r'[t] # r'[u]
      BY DEF DistinctChildren
    <2> QED
      BY <1>0, <1>1, <1>2, Mover

LEMMA StepIInv == IInv /\ [Next]_vars => IInv'
  <1> SUFFICES ASSUME IInv, [Next]_vars PROVE IInv'
    OBVIOUS
  <1>1. TypeOK'
    BY StepTypes, StepGuards DEF TypeOK
  <1>2. Answers'
    <2>1. DistinctChildren' /\ \A t \in Thread : pc'[t] = "done" => Answer(t)'
      BY StepAnswer, StepDistinct
    <2> QED
      BY <2>1 DEF Answers, DistinctChildren, Linked, Answer, UnionAnswer
  <1> QED
    BY <1>1, <1>2, StepOpOK, StepForest, StepRunning DEF IInv

LEMMA Invariance == Spec => []IInv
  BY InitIInv, StepIInv, PTL DEF Spec

(* The state keeps its types, and a read guard is held exactly inside the   *)
(* operations, for any number of threads and elements.                      *)
THEOREM TypeCorrect == Spec => []TypeOK
  <1>1. IInv => TypeOK
    BY DEF IInv
  <1> QED
    BY Invariance, <1>1, PTL

(* Whatever the interleaving of finds, path halvings, unions, growth and    *)
(* resets, the atomic cells are a forest of the classes, with the least     *)
(* element of each class for its root.                                      *)
THEOREM ForestCorrect == Spec => []Forest
  <1>1. IInv => Forest
    BY DEF IInv
  <1> QED
    BY Invariance, <1>1, PTL

(* Every find, same_set, union and deep_copy returns a right answer.        *)
THEOREM AnswersCorrect == Spec => []Answers
  <1>1. IInv => Answers
    BY DEF IInv
  <1> QED
    BY Invariance, <1>1, PTL

LEMMA LinkMerges ==
    ASSUME IInv, TypesHold, NEW t \in Thread, Link(t)
    PROVE  LET x == rep[a[t]]  y == rep[b[t]] IN
           /\ op[t] = "union" /\ pc[t] # "idle"
           /\ rep' = [z \in Elt |-> IF rep[z] \in {x, y} THEN MinOf(x, y) ELSE rep[z]]
  <1>1. /\ op[t] = "union" /\ pc[t] # "idle"
        /\ rep' = [z \in Elt |-> IF rep[z] = Child(t) THEN rep[Parent(t)] ELSE rep[z]]
        /\ rep[Child(t)] = Child(t) /\ rep[Parent(t)] < Child(t)
        /\ {l[t], r[t]} = {Parent(t), Child(t)} /\ l[t] # r[t]
    <2>1. l[t] # r[t] /\ op[t] = "union"
      BY DEF IInv, Link, Guarded, Running, FoundOK
    <2> QED
      BY <2>1, LinkFacts DEF Link
  <1>2. rep[l[t]] = rep[a[t]] /\ rep[r[t]] = rep[b[t]]
    BY <1>1, LinkFacts DEF Running, LocalsOK
  <1>3. rep[Parent(t)] \in Nat /\ Child(t) \in Nat
    BY LinkFacts, EltFacts DEF TypesHold, Types
  <1>4. \/ rep[a[t]] = Child(t) /\ rep[b[t]] = rep[Parent(t)]
        \/ rep[b[t]] = Child(t) /\ rep[a[t]] = rep[Parent(t)]
    BY <1>1, <1>2
  <1>5. MinOf(rep[a[t]], rep[b[t]]) = rep[Parent(t)]
    BY <1>1, <1>3, <1>4 DEF MinOf
  <1>6. \A z \in Elt : (IF rep[z] = Child(t) THEN rep[Parent(t)] ELSE rep[z])
                       = IF rep[z] \in {rep[a[t]], rep[b[t]]} THEN rep[Parent(t)] ELSE rep[z]
    BY <1>4
  <1> QED
    BY <1>1, <1>5, <1>6

(* Classes are joined only by a union, and only those of its arguments,     *)
(* under the lesser representative; nothing else but a reset touches them.  *)
THEOREM MergesCorrect == Spec => MergesWhatWasAsked
  <1> DEFINE Merge ==
        \/ UNCHANGED rep
        \/ rep' = [x \in Elt |-> x]
        \/ \E t \in Thread :
              LET x == rep[a[t]]  y == rep[b[t]] IN
              /\ op[t] = "union" /\ pc[t] # "idle"
              /\ rep' = [z \in Elt |->
                            IF rep[z] \in {x, y} THEN MinOf(x, y) ELSE rep[z]]
  <1>1. IInv /\ [Next]_vars => [Merge]_vars
    <2> SUFFICES ASSUME IInv, [Next]_vars PROVE Merge \/ UNCHANGED vars
      OBVIOUS
    <2>1. ASSUME NEW t \in Thread, Link(t) PROVE Merge
      BY <2>1, LinkMerges, TypesHoldLemma
    <2>2. CASE UNCHANGED rep
      BY <2>2
    <2>3. ASSUME NEW t \in Thread, Reset(t) PROVE Merge
      BY <2>3 DEF Reset
    <2> QED
      BY <2>1, <2>2, <2>3
         DEF Next, Step, Admit, Call, Access, AccessShort, CloseLock, Grow, Return, LoadNext,
             LoadGrand, Split, Found, LinkFail, Recheck, CopyCell, CopyDone
  <1> QED
    BY Invariance, <1>1, PTL DEF Spec, MergesWhatWasAsked
=============================================================================
