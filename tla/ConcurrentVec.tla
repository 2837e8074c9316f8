--------------------------- MODULE ConcurrentVec ---------------------------
(***************************************************************************)
(* The ConcurrentVec of concurrency/src/concurrent_vec.rs: a vector of     *)
(* possibly uninitialized cells behind a ReadOptimizedLock (the gate of    *)
(* RWGate), an atomic head that says how many cells are published, and a   *)
(* mutex that serializes the writers.  Readers load head and then take the *)
(* read guard; a writer fills the cell under a read guard too and takes    *)
(* the write guard only to make the vector longer.                         *)
(***************************************************************************)
EXTENDS Integers, Sequences, FiniteSets, Threads

CONSTANTS
    Val,        \* the values pushed
    Fill,       \* the value of the closure given to resize_with
    Uninit,     \* what an uninitialized cell holds
    MaxLen,     \* bound: no call makes the vector longer
    Callers     \* the sets of methods that the owner of a vector may call

ASSUME CellAssumption == Uninit \notin Val \cup {Fill}
ASSUME BoundAssumption == MaxLen \in Nat
ASSUME CallersAssumption ==
    Callers \subseteq SUBSET {"push", "resize", "read"}

VARIABLES
    calls,      \* the methods that the owner of this vector calls
    pc,         \* where each thread is
    item,       \* the value it writes
    index,      \* the cell it writes it to
    init,       \* what it fills the cells with that it makes
    prefix,     \* the valid_prefix of its read handle
    cell,       \* the vector: a sequence whose cell i is cell[i + 1]
    head,       \* how many cells are published
    owner,      \* who holds write_lock
    readers, closer, admitted   \* the lock of the vector

gateVars == <<readers, closer, admitted>>
argVars == <<calls, item, index, init>>
vars == <<pc, argVars, prefix, cell, head, owner, gateVars>>

Lock == INSTANCE RWGate WITH Nobody <- None

PC == {"idle", "push", "wantResize", "resize", "enter", "write", "grow",
       "growing", "publish", "enterRead", "reading"}

Init ==
    /\ calls \in Callers
    /\ pc = [t \in Thread |-> "idle"]
    /\ item = [t \in Thread |-> Fill]
    /\ index = [t \in Thread |-> 0]
    /\ init = [t \in Thread |-> Fill]
    /\ prefix = [t \in Thread |-> 0]
    /\ cell = <<>>
    /\ head = 0
    /\ owner = None
    /\ Lock!Init

Goto(t, label) == pc' = [pc EXCEPT ![t] = label]

(* len is n.next_power_of_two(): the one power of two from n to 2 * n - 1.  *)
NextPowerOfTwo(len, n) == len < 2 * n /\ \E k \in 0 .. n : len = 2^k

InCall(t) == pc[t] \notin {"idle", "enterRead", "reading"}

(* The bound MaxLen leaves a cell for one more call.                        *)
Room == head + Cardinality({t \in Thread : InCall(t)}) < MaxLen

-----------------------------------------------------------------------------
(* push and resize_with up to push_at.                                      *)

CallPush(t) ==
    /\ pc[t] = "idle" /\ "push" \in calls /\ Room
    /\ \E v \in Val : item' = [item EXCEPT ![t] = v]
    /\ init' = [init EXCEPT ![t] = Uninit]
    /\ Goto(t, "push")
    /\ UNCHANGED <<calls, index, prefix, cell, head, owner, gateVars>>

(* Mutant: pushes are not serialized.                                       *)
LockPushShared(t) ==
    /\ pc[t] = "push"
    /\ owner' = t
    /\ index' = [index EXCEPT ![t] = head]
    /\ Goto(t, "enter")
    /\ UNCHANGED <<calls, item, init, prefix, cell, head, gateVars>>

(* The lock is taken and head read, which only its holder changes.          *)
LockPush(t) ==
    /\ pc[t] = "push"
    /\ owner = None
    /\ owner' = t
    /\ index' = [index EXCEPT ![t] = head]
    /\ Goto(t, "enter")
    /\ UNCHANGED <<calls, item, init, prefix, cell, head, gateVars>>

(* resize_with(new_len, f): the first look at head.                         *)
CallResize(t) ==
    /\ pc[t] = "idle" /\ "resize" \in calls /\ Room
    /\ \E newLen \in head + 1 .. MaxLen :
          index' = [index EXCEPT ![t] = newLen - 1]
    /\ item' = [item EXCEPT ![t] = Fill]
    /\ init' = [init EXCEPT ![t] = Fill]
    /\ Goto(t, "resize")
    /\ UNCHANGED <<calls, prefix, cell, head, owner, gateVars>>

(* Mutant: head is not read again under the lock.                           *)
LockResizeBlind(t) ==
    /\ pc[t] = "resize"
    /\ owner = None
    /\ owner' = t
    /\ Goto(t, "enter")
    /\ UNCHANGED <<argVars, prefix, cell, head, gateVars>>

(* The second look, under the lock: the vector may have become long enough. *)
LockResize(t) ==
    /\ pc[t] = "resize"
    /\ owner = None
    /\ IF index[t] < head
       THEN Goto(t, "idle") /\ UNCHANGED owner
       ELSE Goto(t, "enter") /\ owner' = t
    /\ UNCHANGED <<argVars, prefix, cell, head, gateVars>>

-----------------------------------------------------------------------------
(* push_at(item, index, init_fn)                                            *)

Enter(t) ==
    /\ pc[t] = "enter"
    /\ Lock!Enter(t)
    /\ Goto(t, "write")
    /\ UNCHANGED <<argVars, prefix, cell, head, owner>>

(* The cell exists: it is written and the read guard dropped.               *)
Write(t) ==
    /\ pc[t] = "write"
    /\ index[t] < Len(cell)
    /\ cell' = [cell EXCEPT ![index[t] + 1] = item[t]]
    /\ Lock!Leave(t)
    /\ Goto(t, "publish")
    /\ UNCHANGED <<argVars, prefix, head, owner>>

OutOfBounds(t) ==
    /\ pc[t] = "write"
    /\ index[t] >= Len(cell)
    /\ Lock!Leave(t)
    /\ Goto(t, "grow")
    /\ UNCHANGED <<argVars, prefix, cell, head, owner>>

CloseLock(t) ==
    /\ pc[t] = "grow"
    /\ Lock!Close(t)
    /\ Goto(t, "growing")
    /\ UNCHANGED <<argVars, prefix, cell, head, owner>>

Admit ==
    /\ Lock!Admit
    /\ UNCHANGED <<pc, argVars, prefix, cell, head, owner>>

(* Mutant: the vector is replaced by a fresh one of the new length.         *)
GrowFresh(t) ==
    /\ pc[t] = "growing"
    /\ admitted
    /\ \E len \in index[t] + 1 .. 2 * MaxLen :
          /\ NextPowerOfTwo(len, index[t] + 1)
          /\ cell' = [i \in 1 .. len |-> init[t]]
    /\ Lock!Open
    /\ Goto(t, "enter")
    /\ UNCHANGED <<argVars, prefix, head, owner>>

(* Mutant: the test for growing is off by one.                              *)
GrowShort(t) ==
    /\ pc[t] = "growing"
    /\ admitted
    /\ IF index[t] > Len(cell)
       THEN \E len \in index[t] + 1 .. 2 * MaxLen :
               /\ NextPowerOfTwo(len, index[t] + 1)
               /\ cell' = cell \o [i \in 1 .. len - Len(cell) |-> init[t]]
       ELSE UNCHANGED cell
    /\ Lock!Open
    /\ Goto(t, "enter")
    /\ UNCHANGED <<argVars, prefix, head, owner>>

(* The cells that Vec::resize_with makes come from init_fn; those that were *)
(* there keep what they hold.                                               *)
Grow(t) ==
    /\ pc[t] = "growing"
    /\ admitted
    /\ IF index[t] >= Len(cell)
       THEN \E len \in index[t] + 1 .. 2 * MaxLen :
               /\ NextPowerOfTwo(len, index[t] + 1)
               /\ cell' = cell \o [i \in 1 .. len - Len(cell) |-> init[t]]
       ELSE UNCHANGED cell
    /\ Lock!Open
    /\ Goto(t, "enter")
    /\ UNCHANGED <<argVars, prefix, head, owner>>

(* The store to head, and the drop of the lock that follows it: no one else *)
(* looks at the lock in between but to wait for it.                         *)
Publish(t) ==
    /\ pc[t] = "publish"
    /\ head' = index[t] + 1
    /\ owner' = None
    /\ Goto(t, "idle")
    /\ UNCHANGED <<argVars, prefix, cell, gateVars>>

-----------------------------------------------------------------------------
(* read() and the drop of its handle.                                       *)

LoadPrefix(t) ==
    /\ pc[t] = "idle" /\ "read" \in calls
    /\ prefix' = [prefix EXCEPT ![t] = head]
    /\ Goto(t, "enterRead")
    /\ UNCHANGED <<argVars, cell, head, owner, gateVars>>

EnterRead(t) ==
    /\ pc[t] = "enterRead"
    /\ Lock!Enter(t)
    /\ Goto(t, "reading")
    /\ UNCHANGED <<argVars, prefix, cell, head, owner>>

LeaveRead(t) ==
    /\ pc[t] = "reading"
    /\ Lock!Leave(t)
    /\ Goto(t, "idle")
    /\ UNCHANGED <<argVars, prefix, cell, head, owner>>

-----------------------------------------------------------------------------
Step(t) ==
    \/ LockPush(t) \/ LockResize(t)
    \/ Enter(t) \/ Write(t) \/ OutOfBounds(t) \/ CloseLock(t) \/ Grow(t)
    \/ Publish(t)
    \/ EnterRead(t) \/ LeaveRead(t)

Next ==
    \/ Admit
    \/ \E t \in Thread :
          CallPush(t) \/ CallResize(t) \/ LoadPrefix(t) \/ Step(t)

Spec == Init /\ [][Next]_vars

(* Threads run whenever they can, a mutex that is free for ever often is    *)
(* acquired, and read guards are dropped.                                   *)
Fairness ==
    /\ WF_vars(Admit)
    /\ \A t \in Thread : SF_vars(Step(t))

FairSpec == Spec /\ Fairness

-----------------------------------------------------------------------------
Looking(t) == pc[t] \in {"enterRead", "reading"}

Types ==
    /\ calls \in Callers
    /\ pc \in [Thread -> PC]
    /\ item \in [Thread -> Val \cup {Fill}]
    /\ init \in [Thread -> {Fill, Uninit}]
    /\ index \in [Thread -> Nat]
    /\ prefix \in [Thread -> Nat]
    /\ cell \in Seq(Val \cup {Fill, Uninit})
    /\ head \in Nat
    /\ owner \in Thread \cup {None}
    /\ readers \subseteq Thread
    /\ closer \in Thread \cup {None}
    /\ admitted \in BOOLEAN

(* The places where write_lock, a read guard and the write guard are held.  *)
Holding(t) ==
    /\ owner = t <=> InCall(t) /\ pc[t] \notin {"push", "resize"}
    /\ t \in readers <=> pc[t] \in {"write", "reading"}
    /\ closer = t <=> pc[t] = "growing"

(* The state has its types; write_lock is held from its acquisition to the  *)
(* store to head, and a guard on the vector exactly where it is used.       *)
TypeOK == Types /\ \A t \in Thread : Holding(t)

(* The slice of a reader lies within the vector: valid_prefix was read      *)
(* before the guard was taken, and vectors only grow.                       *)
SliceInBounds == \A t \in Thread : Looking(t) => prefix[t] <= Len(cell)

(* The unsynchronized write to a cell is to one that no reader can see, now *)
(* or later with the head it has loaded: reads need not wait for it.        *)
WritesUnseen ==
    \A t, u \in Thread :
        pc[t] \in {"enter", "write"} /\ Looking(u) => prefix[u] <= index[t]

(* The SAFETY comment of ReadHandle::deref: every element up to the prefix  *)
(* is valid.  Drop drops the same ones.                                     *)
PublishedValid == \A i \in 1 .. head : cell[i] # Uninit

(* The log that readers, pushes and resizes see: it grows by what a call    *)
(* adds, and a slice that a reader has in hand does not change.             *)
Log == INSTANCE AppendOnlyLog WITH
          log <- SubSeq(cell, 1, head),
          view <- [t \in Thread |->
                     IF Looking(t) THEN {SubSeq(cell, 1, prefix[t])} ELSE {}]

IsLog == Log!Spec

(* Every call returns: no thread waits for a guard or a lock for ever.      *)
CallsReturn == \A t \in Thread : pc[t] # "idle" ~> pc[t] = "idle"
=============================================================================
