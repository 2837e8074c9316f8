------------------------ MODULE ConcurrentUnionFind ------------------------
(***************************************************************************)
(* The concurrent union-find of union-find/src/concurrent: an array of     *)
(* atomic parent pointers behind a ReadOptimizedLock.  find, same_set and  *)
(* union run under a read guard with single loads and compare-and-swaps,   *)
(* halving paths as they go; growing the array and reset take the write    *)
(* guard.  deep_copy reads the cells one after the other under a read      *)
(* guard.  Every load, every compare-and-swap and every operation of the   *)
(* lock (the gate of RWGate) is a step.                                    *)
(***************************************************************************)
EXTENDS Integers, FiniteSets

CONSTANTS
    Thread,     \* the threads calling the structure
    None,       \* not a thread
    MaxElt,     \* the elements are 0 .. MaxElt
    Capacity,   \* with_capacity(Capacity)
    Ops         \* the operations called, a subset of the five below

ASSUME NoneAssumption == None \notin Thread
ASSUME SizeAssumption ==
    MaxElt \in Nat /\ Capacity \in Nat /\ Capacity <= MaxElt + 1
ASSUME OpsAssumption == Ops \subseteq {"find", "same", "union", "reset", "copy"}

Elt == 0 .. MaxElt

VARIABLES
    pc,         \* where each thread is
    op,         \* the operation it runs
    a, b,       \* its two arguments
    l, r,       \* the local variables l and r of same_set and merge
    side,       \* which of them find_impl is computing: 1 or 2
    cur, next, grand,   \* the local variables of find_impl
    len,        \* the length of the buffer
    parent,     \* the atomic cells; only the first len exist
    readers, closer, admitted,  \* the lock of the buffer
    copy,       \* the cells a deep_copy has read so far
    rep,        \* history: the canonical element of each class
    repA, repB  \* history: rep of a and b when the guard was taken

lockVars == <<readers, closer, admitted>>
findVars == <<side, cur, next, grand>>
argVars == <<op, a, b>>
clsVars == <<l, r>>
histVars == <<repA, repB>>
vars == <<pc, argVars, clsVars, findVars, len, parent, lockVars, copy, rep,
          histVars>>

Lock == INSTANCE RWGate WITH Nobody <- None

MinOf(x, y) == IF x <= y THEN x ELSE y
MaxOf(x, y) == IF x <= y THEN y ELSE x

PC == {"idle", "access", "grow", "loadNext", "loadGrand", "split", "link",
       "recheck", "copying", "done", "reset"}

Init ==
    /\ pc = [t \in Thread |-> "idle"]
    /\ op = [t \in Thread |-> "find"]
    /\ a = [t \in Thread |-> 0] /\ b = [t \in Thread |-> 0]
    /\ l = [t \in Thread |-> 0] /\ r = [t \in Thread |-> 0]
    /\ side = [t \in Thread |-> 1]
    /\ cur = [t \in Thread |-> 0]
    /\ next = [t \in Thread |-> 0]
    /\ grand = [t \in Thread |-> 0]
    /\ len = Capacity
    /\ parent = [x \in Elt |-> x]
    /\ Lock!Init
    /\ copy = [t \in Thread |-> [x \in Elt |-> x]]
    /\ rep = [x \in Elt |-> x]
    /\ repA = [t \in Thread |-> 0] /\ repB = [t \in Thread |-> 0]

Goto(t, label) == pc' = [pc EXCEPT ![t] = label]

-----------------------------------------------------------------------------
(* Buffer::with_access and the lock.                                        *)

Admit ==
    /\ Lock!Admit
    /\ UNCHANGED <<pc, argVars, clsVars, findVars, len, parent, copy, rep,
                   histVars>>

(* The length the operation needs the buffer to have.                       *)
Need(t) == IF op[t] = "copy" THEN 0 ELSE MaxOf(a[t], b[t]) + 1

Call(t) ==
    /\ pc[t] = "idle"
    /\ \E o \in Ops, x, y \in Elt :
          /\ o \in {"find", "copy", "reset"} => x = y
          /\ o \in {"copy", "reset"} => x = 0
          /\ op' = [op EXCEPT ![t] = o]
          /\ a' = [a EXCEPT ![t] = x]
          /\ b' = [b EXCEPT ![t] = y]
          /\ Goto(t, IF o = "reset" THEN "reset" ELSE "access")
    /\ UNCHANGED <<clsVars, findVars, len, parent, lockVars, copy, rep,
                   histVars>>

(* Long enough: the operation runs under the guard.                         *)
Access(t) ==
    /\ pc[t] = "access"
    /\ Need(t) <= len
    /\ Lock!Enter(t)
    /\ l' = [l EXCEPT ![t] = a[t]]
    /\ r' = [r EXCEPT ![t] = b[t]]
    /\ side' = [side EXCEPT ![t] = 1]
    /\ cur' = [cur EXCEPT ![t] = IF op[t] = "copy" THEN 0 ELSE a[t]]
    /\ Goto(t, IF op[t] = "copy" THEN "copying" ELSE "loadNext")
    /\ copy' = [copy EXCEPT ![t] = [x \in Elt |-> x]]
    /\ repA' = [repA EXCEPT ![t] = rep[a[t]]]
    /\ repB' = [repB EXCEPT ![t] = rep[b[t]]]
    /\ UNCHANGED <<argVars, next, grand, len, parent, rep>>

(* Too short: the read guard is dropped again and the write guard awaited.  *)
AccessShort(t) ==
    /\ pc[t] = "access"
    /\ closer = None
    /\ len < Need(t)
    /\ Goto(t, "grow")
    /\ UNCHANGED <<argVars, clsVars, findVars, len, parent, lockVars, copy,
                   rep, histVars>>

CloseLock(t) ==
    /\ pc[t] \in {"grow", "reset"}
    /\ Lock!Close(t)
    /\ UNCHANGED <<pc, argVars, clsVars, findVars, len, parent, copy, rep,
                   histVars>>

(* Mutant: growing initializes every cell, not only the new ones.           *)
GrowFromZero(t) ==
    /\ pc[t] = "grow"
    /\ closer = t
    /\ IF len < Need(t)
       THEN \E n \in Need(t) .. MaxElt + 1 :
               len' = n /\ parent' = [x \in Elt |-> IF x < n THEN x ELSE parent[x]]
       ELSE UNCHANGED <<len, parent>>
    /\ Lock!Open
    /\ Goto(t, "access")
    /\ UNCHANGED <<argVars, clsVars, findVars, copy, rep, histVars>>

(* The new cells point to themselves; the length is the next power of two,  *)
(* of which all that matters is that it suffices.                           *)
Grow(t) ==
    /\ pc[t] = "grow"
    /\ closer = t
    /\ IF len < Need(t)
       THEN \E n \in Need(t) .. MaxElt + 1 :
               /\ len' = n
               /\ parent' = [x \in Elt |-> IF x \in len .. n - 1 THEN x ELSE parent[x]]
       ELSE UNCHANGED <<len, parent>>
    /\ Lock!Open
    /\ Goto(t, "access")
    /\ UNCHANGED <<argVars, clsVars, findVars, copy, rep, histVars>>

(* Buffer::re_init.                                                         *)
Reset(t) ==
    /\ pc[t] = "reset"
    /\ closer = t
    /\ parent' = [x \in Elt |-> x]
    /\ rep' = [x \in Elt |-> x]
    /\ Lock!Open
    /\ op' = [op EXCEPT ![t] = "find"]
    /\ Goto(t, "idle")
    /\ UNCHANGED <<a, b, clsVars, findVars, len, copy, histVars>>

(* The result is delivered and the read guard dropped; the local variables  *)
(* are gone.                                                                *)
Return(t) ==
    /\ pc[t] = "done"
    /\ Lock!Leave(t)
    /\ Goto(t, "idle")
    /\ op' = [op EXCEPT ![t] = "find"]
    /\ a' = [a EXCEPT ![t] = 0]
    /\ b' = [b EXCEPT ![t] = 0]
    /\ l' = [l EXCEPT ![t] = 0]
    /\ r' = [r EXCEPT ![t] = 0]
    /\ repA' = [repA EXCEPT ![t] = 0]
    /\ repB' = [repB EXCEPT ![t] = 0]
    /\ side' = [side EXCEPT ![t] = 1]
    /\ cur' = [cur EXCEPT ![t] = 0]
    /\ copy' = [copy EXCEPT ![t] = [x \in Elt |-> x]]
    /\ UNCHANGED <<next, grand, len, parent, rep>>

-----------------------------------------------------------------------------
(* find_impl                                                                *)

LoadNext(t) ==
    /\ pc[t] = "loadNext"
    /\ next' = [next EXCEPT ![t] = parent[cur[t]]]
    /\ Goto(t, "loadGrand")
    /\ UNCHANGED <<argVars, clsVars, side, cur, grand, len, parent,
                   lockVars, copy, rep, histVars>>

(* next is not a root: go on.                                               *)
LoadGrand(t) ==
    /\ pc[t] = "loadGrand"
    /\ parent[next[t]] # next[t]
    /\ grand' = [grand EXCEPT ![t] = parent[next[t]]]
    /\ Goto(t, "split")
    /\ UNCHANGED <<argVars, clsVars, side, cur, next, len, parent, lockVars,
                   copy, rep, histVars>>

(* cur is made to point past next, unless somebody moved it meanwhile.      *)
Split(t) ==
    /\ pc[t] = "split"
    /\ parent' = IF parent[cur[t]] = next[t]
                 THEN [parent EXCEPT ![cur[t]] = grand[t]]
                 ELSE parent
    /\ cur' = [cur EXCEPT ![t] = next[t]]
    /\ next' = [next EXCEPT ![t] = 0]
    /\ grand' = [grand EXCEPT ![t] = 0]
    /\ Goto(t, "loadNext")
    /\ UNCHANGED <<argVars, clsVars, side, len, lockVars, copy, rep, histVars>>

(* find_impl returns next, which is a root: what the caller does then.      *)
AfterFind(t) ==
    IF op[t] = "find" THEN "done"
    ELSE IF side[t] = 1 THEN "loadNext"
    ELSE IF l[t] = next[t] THEN "done"
    ELSE IF op[t] = "union" THEN "link" ELSE "recheck"

Found(t) ==
    /\ pc[t] = "loadGrand"
    /\ parent[next[t]] = next[t]
    /\ l' = [l EXCEPT ![t] = IF side[t] = 1 THEN next[t] ELSE @]
    /\ r' = [r EXCEPT ![t] = IF side[t] = 2 THEN next[t] ELSE @]
    /\ Goto(t, AfterFind(t))
    /\ side' = [side EXCEPT ![t] = 2]
    /\ cur' = [cur EXCEPT ![t] = IF side[t] = 1 THEN r[t] ELSE 0]
    /\ next' = [next EXCEPT ![t] = 0]
    /\ UNCHANGED <<argVars, grand, len, parent, lockVars, copy, rep, histVars>>

(* `continue`: both finds again, from the elements found so far.            *)
FindAgain(t) ==
    /\ side' = [side EXCEPT ![t] = 1]
    /\ cur' = [cur EXCEPT ![t] = l[t]]
    /\ Goto(t, "loadNext")

-----------------------------------------------------------------------------
(* merge                                                                    *)

Parent(t) == MinOf(l[t], r[t])
Child(t) == MaxOf(l[t], r[t])

(* Mutant: a store in place of the compare-and-swap.                        *)
LinkBlind(t) ==
    /\ pc[t] = "link"
    /\ parent' = [parent EXCEPT ![Child(t)] = Parent(t)]
    /\ rep' = [x \in Elt |-> IF rep[x] = Child(t) THEN rep[Parent(t)] ELSE rep[x]]
    /\ l' = [l EXCEPT ![t] = Parent(t)]
    /\ r' = [r EXCEPT ![t] = Child(t)]
    /\ Goto(t, "done")
    /\ UNCHANGED <<argVars, findVars, len, lockVars, copy, histVars>>

(* The compare-and-swap that links the child.  rep follows: the child's     *)
(* class takes the representative of the parent's.                          *)
Link(t) ==
    /\ pc[t] = "link"
    /\ parent[Child(t)] = Child(t)
    /\ parent' = [parent EXCEPT ![Child(t)] = Parent(t)]
    /\ rep' = [x \in Elt |-> IF rep[x] = Child(t) THEN rep[Parent(t)] ELSE rep[x]]
    /\ l' = [l EXCEPT ![t] = Parent(t)]
    /\ r' = [r EXCEPT ![t] = Child(t)]
    /\ Goto(t, "done")
    /\ UNCHANGED <<argVars, findVars, len, lockVars, copy, histVars>>

(* Mutant: the compare-and-swap is retried without finding the roots again. *)
LinkSpin(t) ==
    /\ pc[t] = "link"
    /\ parent[Child(t)] # Child(t)
    /\ UNCHANGED vars

LinkFail(t) ==
    /\ pc[t] = "link"
    /\ parent[Child(t)] # Child(t)
    /\ FindAgain(t)
    /\ UNCHANGED <<argVars, clsVars, next, grand, len, parent, lockVars,
                   copy, rep, histVars>>

-----------------------------------------------------------------------------
(* same_set: two different roots are apart if the first is still a root.    *)

(* Mutant: two different roots are taken to be apart.                       *)
RecheckNever(t) ==
    /\ pc[t] = "recheck"
    /\ Goto(t, "done")
    /\ UNCHANGED <<argVars, clsVars, findVars, len, parent, lockVars, copy,
                   rep, histVars>>

Recheck(t) ==
    /\ pc[t] = "recheck"
    /\ IF parent[l[t]] = l[t]
       THEN Goto(t, "done") /\ UNCHANGED <<side, cur>>
       ELSE FindAgain(t)
    /\ UNCHANGED <<argVars, clsVars, next, grand, len, parent, lockVars,
                   copy, rep, histVars>>

-----------------------------------------------------------------------------
(* deep_copy: Buffer::clone, one cell at a time; cur is the loop's index.   *)

CopyCell(t) ==
    /\ pc[t] = "copying"
    /\ cur[t] < len
    /\ copy' = [copy EXCEPT ![t][cur[t]] = parent[cur[t]]]
    /\ cur' = [cur EXCEPT ![t] = @ + 1]
    /\ UNCHANGED <<pc, argVars, clsVars, side, next, grand, len, parent,
                   lockVars, rep, histVars>>

CopyDone(t) ==
    /\ pc[t] = "copying"
    /\ cur[t] = len
    /\ Goto(t, "done")
    /\ UNCHANGED <<argVars, clsVars, findVars, len, parent, lockVars, copy,
                   rep, histVars>>

-----------------------------------------------------------------------------
Step(t) ==
    \/ Access(t) \/ AccessShort(t) \/ CloseLock(t) \/ Grow(t) \/ Reset(t)
    \/ LoadNext(t) \/ LoadGrand(t) \/ Split(t) \/ Found(t)
    \/ Link(t) \/ LinkFail(t) \/ Recheck(t)
    \/ CopyCell(t) \/ CopyDone(t) \/ Return(t)

Next == Admit \/ \E t \in Thread : Call(t) \/ Step(t)

Spec == Init /\ [][Next]_vars

(* Threads keep running, and the lock admits its closer (RWGate).           *)
FairSpec == Spec /\ WF_vars(Admit) /\ \A t \in Thread : WF_vars(Step(t))

-----------------------------------------------------------------------------
(* The labels at which a thread holds a read guard on the buffer.           *)
Guarded == {"loadNext", "loadGrand", "split", "link", "recheck", "copying",
            "done"}

Types ==
    /\ pc \in [Thread -> PC]
    /\ op \in [Thread -> {"find", "same", "union", "reset", "copy"}]
    /\ a \in [Thread -> Elt] /\ b \in [Thread -> Elt]
    /\ l \in [Thread -> Elt] /\ r \in [Thread -> Elt]
    /\ side \in [Thread -> {1, 2}]
    /\ cur \in [Thread -> 0 .. MaxElt + 1]
    /\ next \in [Thread -> Elt]
    /\ grand \in [Thread -> Elt]
    /\ len \in 0 .. MaxElt + 1
    /\ parent \in [Elt -> Elt]
    /\ readers \subseteq Thread
    /\ closer \in Thread \cup {None}
    /\ admitted \in BOOLEAN
    /\ copy \in [Thread -> [Elt -> Elt]]
    /\ rep \in [Elt -> Elt]
    /\ repA \in [Thread -> Elt] /\ repB \in [Thread -> Elt]

(* Read guards are held exactly where the code holds them, and the write    *)
(* guard never beside one.                                                  *)
GuardDiscipline ==
    /\ readers = {t \in Thread : pc[t] \in Guarded}
    /\ admitted => closer # None /\ readers = {}

(* The state has its types and no path leaks a guard.                       *)
TypeOK == Types /\ GuardDiscipline

(* The forest and the classes tell the same story: pointers go down to the  *)
(* class's least element, path splitting moves nobody to another class, a   *)
(* root is what rep says it is, and cells yet to be added are singletons.   *)
Forest ==
    \A x \in Elt :
        /\ parent[x] <= x /\ rep[x] <= x
        /\ rep[parent[x]] = rep[x] /\ rep[rep[x]] = rep[x]
        /\ parent[x] = x <=> rep[x] = x
        /\ x >= len => parent[x] = x

(* find's answer was canonical at some moment of the call: it lies between  *)
(* the representatives of the class after and before it.                    *)
FindAnswer(t) ==
    /\ rep[l[t]] = rep[a[t]]
    /\ rep[a[t]] <= l[t]
    /\ l[t] <= repA[t]

(* same_set says yes only to elements that are in one class by now, and no  *)
(* only to elements that were apart while it ran.                           *)
SameSetAnswer(t) ==
    IF l[t] = r[t]
    THEN rep[a[t]] = rep[b[t]]
    ELSE repA[t] # repB[t]

(* union's arguments are in one class; when it reports a child, this call   *)
(* and no other one running unlinked it, and the arguments had been apart.  *)
UnionAnswer(t) ==
    LET p == l[t]  c == r[t] IN
    /\ rep[a[t]] = rep[b[t]]
    /\ rep[p] = rep[a[t]] /\ rep[c] = rep[p]
    /\ p # c =>
          /\ p < c /\ rep[c] # c
          /\ repA[t] # repB[t]
          /\ \A u \in Thread \ {t} :
                pc[u] = "done" /\ op[u] = "union" /\ l[u] # r[u] =>
                    r[u] # c

(* A deep copy is a union-find, and joins no elements that are apart.       *)
CopyAnswer(t) ==
    \A x \in 0 .. len - 1 : copy[t][x] <= x /\ rep[copy[t][x]] = rep[x]

(* What each operation returns is right whatever ran beside it.             *)
Answers ==
    \A t \in Thread : pc[t] = "done" =>
        /\ op[t] = "find" => FindAnswer(t)
        /\ op[t] = "same" => SameSetAnswer(t)
        /\ op[t] = "union" => UnionAnswer(t)
        /\ op[t] = "copy" => CopyAnswer(t)

(* The classes change only when a reset makes them singletons, or when a    *)
(* union joins the classes of its two arguments under the lesser of their   *)
(* representatives ("union by min").                                        *)
MergesWhatWasAsked ==
    [][ \/ UNCHANGED rep
        \/ rep' = [x \in Elt |-> x]
        \/ \E t \in Thread :
              LET x == rep[a[t]]  y == rep[b[t]] IN
              /\ op[t] = "union" /\ pc[t] # "idle"
              /\ rep' = [z \in Elt |->
                            IF rep[z] \in {x, y} THEN MinOf(x, y) ELSE rep[z]]
      ]_vars

Resetting == \E t \in Thread : op[t] = "reset" /\ pc[t] # "idle"

(* Every call returns: retries end because the merges that cause them do,   *)
(* unless resets for ever undo the merges.                                  *)
CallsReturn ==
    \/ []<>Resetting
    \/ \A t \in Thread : pc[t] = "access" ~> pc[t] = "idle"
=============================================================================
