------------------------ MODULE ConcurrentVec_proofs ------------------------
(***************************************************************************)
(* Slices stay in bounds, no write is seen by a reader, and published      *)
(* cells are initialized as long as nobody mixes push and resize_with, for *)
(* any number of threads and any bound on the length.  The second half is  *)
(* about the lock below the vector: exclusion, wake-ups, and that it       *)
(* implements the gate the vector is built on.                             *)
(***************************************************************************)
EXTENDS ConcurrentVec, ReadOptimizedLock, TLAPS

Writing(t) == pc[t] \in {"enter", "write", "grow", "growing", "publish"}

(* What is published lies within the vector, what is about to be written    *)
(* does not lie within what is published, and slices do.                    *)
Bounds ==
    /\ head <= Len(cell)
    /\ \A t \in Thread :
          /\ Writing(t) => head <= index[t]
          /\ pc[t] = "publish" => index[t] < Len(cell)
          /\ Looking(t) => prefix[t] <= head

IInv == TypeOK /\ Bounds

-----------------------------------------------------------------------------
LEMMA InitIInv == Init => IInv
  <1> SUFFICES ASSUME Init PROVE IInv
    OBVIOUS
  <1>1. Types
    <2>1. cell \in Seq(Val \cup {Fill, Uninit})
      BY DEF Init
    <2> QED
      BY <2>1, NoneAssumption DEF Init, Types, PC, Lock!Init
  <1>2. ASSUME NEW t \in Thread PROVE Holding(t)
    BY NoneAssumption DEF Init, Holding, InCall, Lock!Init
  <1>3. Bounds
    BY DEF Init, Bounds, Writing, Looking
  <1> QED
    BY <1>1, <1>2, <1>3 DEF IInv, TypeOK

(* Growing keeps the cells there are and makes room for index.              *)
LEMMA GrowFacts ==
    ASSUME IInv, NEW t \in Thread, Grow(t)
    PROVE  /\ cell' \in Seq(Val \cup {Fill, Uninit})
           /\ Len(cell) <= Len(cell')
           /\ index[t] < Len(cell')
           /\ \A i \in 1 .. Len(cell) : cell'[i] = cell[i]
           /\ \A i \in Len(cell) + 1 .. Len(cell') : cell'[i] = init[t]
  <1>1. cell \in Seq(Val \cup {Fill, Uninit}) /\ init[t] \in {Fill, Uninit}
        /\ index[t] \in Nat
    BY DEF IInv, TypeOK, Types
  <1>2. CASE index[t] < Len(cell)
    BY <1>1, <1>2 DEF Grow
  <1>3. CASE index[t] >= Len(cell)
    <2>1. PICK len \in index[t] + 1 .. 2 * MaxLen :
             cell' = cell \o [i \in 1 .. len - Len(cell) |-> init[t]]
      BY <1>3 DEF Grow
    <2>2. len \in Nat /\ len > index[t] /\ len - Len(cell) \in Nat
      BY <1>1, <1>3, <2>1, BoundAssumption
    <2> DEFINE new == [i \in 1 .. len - Len(cell) |-> init[t]]
    <2>3. new \in Seq(Val \cup {Fill, Uninit}) /\ Len(new) = len - Len(cell)
      BY <1>1, <2>2
    <2> QED
      BY <1>1, <2>1, <2>2, <2>3
  <1> QED
    BY <1>1, <1>2, <1>3

-----------------------------------------------------------------------------
(* Types and guards.                                                        *)

LEMMA KeepsTypes == IInv /\ [Next]_vars => Types'
  <1> SUFFICES ASSUME IInv, [Next]_vars PROVE Types'
    OBVIOUS
  <1> USE NoneAssumption DEF PC, Goto
  <1>0. Types
    BY DEF IInv, TypeOK
  <1>1. CASE Admit
    BY <1>0, <1>1 DEF Admit, Lock!Admit, Types, argVars
  <1>2. ASSUME NEW t \in Thread, CallPush(t) PROVE Types'
    BY <1>0, <1>2 DEF CallPush, Types, gateVars
  <1>3. ASSUME NEW t \in Thread, CallResize(t) PROVE Types'
    BY <1>0, <1>3, BoundAssumption DEF CallResize, Types, gateVars
  <1>4. ASSUME NEW t \in Thread, LoadPrefix(t) PROVE Types'
    BY <1>0, <1>4 DEF LoadPrefix, Types, gateVars, argVars
  <1>5. ASSUME NEW t \in Thread, LockPush(t) PROVE Types'
    BY <1>0, <1>5 DEF LockPush, Types, gateVars, argVars
  <1>6. ASSUME NEW t \in Thread, LockResize(t) PROVE Types'
    BY <1>0, <1>6 DEF LockResize, Types, gateVars, argVars
  <1>7. ASSUME NEW t \in Thread, Enter(t) \/ EnterRead(t) PROVE Types'
    BY <1>0, <1>7 DEF Enter, EnterRead, Lock!Enter, Types, argVars
  <1>8. ASSUME NEW t \in Thread, Write(t) PROVE Types'
    BY <1>0, <1>8 DEF Write, Lock!Leave, Types, argVars
  <1>9. ASSUME NEW t \in Thread, OutOfBounds(t) \/ LeaveRead(t) PROVE Types'
    BY <1>0, <1>9 DEF OutOfBounds, LeaveRead, Lock!Leave, Types, argVars
  <1>10. ASSUME NEW t \in Thread, CloseLock(t) PROVE Types'
    BY <1>0, <1>10 DEF CloseLock, Lock!Close, Types, argVars
  <1>11. ASSUME NEW t \in Thread, Grow(t) PROVE Types'
    <2>1. cell' \in Seq(Val \cup {Fill, Uninit})
      BY <1>11, GrowFacts
    <2>2. /\ pc' = [pc EXCEPT ![t] = "enter"]
          /\ Lock!Open
          /\ UNCHANGED <<argVars, prefix, head, owner>>
      BY <1>11 DEF Grow
    <2> QED
      BY <1>0, <2>1, <2>2 DEF Lock!Open, Types, argVars
  <1>12. ASSUME NEW t \in Thread, Publish(t) PROVE Types'
    BY <1>0, <1>12 DEF Publish, Types, argVars, gateVars
  <1>13. CASE UNCHANGED vars
    BY <1>0, <1>13 DEF Types, vars, argVars, gateVars
  <1> QED
    BY <1>1, <1>2, <1>3, <1>4, <1>5, <1>6, <1>7, <1>8, <1>9, <1>10, <1>11,
       <1>12, <1>13 DEF Next, Step

LEMMA KeepsHolding ==
    ASSUME IInv, [Next]_vars, NEW u \in Thread
    PROVE  Holding(u)'
  <1> USE NoneAssumption DEF Goto, InCall, Holding
  <1>0. Types /\ \A t \in Thread : Holding(t)
    BY DEF IInv, TypeOK
  <1>1. CASE Admit
    BY <1>0, <1>1 DEF Admit, Lock!Admit, Types
  <1>2. ASSUME NEW t \in Thread, CallPush(t) PROVE Holding(u)'
    BY <1>0, <1>2 DEF CallPush, Types, gateVars
  <1>3. ASSUME NEW t \in Thread, CallResize(t) PROVE Holding(u)'
    BY <1>0, <1>3 DEF CallResize, Types, gateVars
  <1>4. ASSUME NEW t \in Thread, LoadPrefix(t) PROVE Holding(u)'
    BY <1>0, <1>4 DEF LoadPrefix, Types, gateVars
  <1>5. ASSUME NEW t \in Thread, LockPush(t) PROVE Holding(u)'
    BY <1>0, <1>5 DEF LockPush, Types, gateVars
  <1>6. ASSUME NEW t \in Thread, LockResize(t) PROVE Holding(u)'
    BY <1>0, <1>6 DEF LockResize, Types, gateVars
  <1>7. ASSUME NEW t \in Thread, Enter(t) \/ EnterRead(t) PROVE Holding(u)'
    BY <1>0, <1>7 DEF Enter, EnterRead, Lock!Enter, Types
  <1>8. ASSUME NEW t \in Thread, Write(t) PROVE Holding(u)'
    BY <1>0, <1>8 DEF Write, Lock!Leave, Types
  <1>9. ASSUME NEW t \in Thread, OutOfBounds(t) \/ LeaveRead(t)
        PROVE  Holding(u)'
    BY <1>0, <1>9 DEF OutOfBounds, LeaveRead, Lock!Leave, Types
  <1>10. ASSUME NEW t \in Thread, CloseLock(t) PROVE Holding(u)'
    BY <1>0, <1>10 DEF CloseLock, Lock!Close, Types
  <1>11. ASSUME NEW t \in Thread, Grow(t) PROVE Holding(u)'
    <2>1. /\ pc[t] = "growing"
          /\ pc' = [pc EXCEPT ![t] = "enter"]
          /\ Lock!Open
          /\ owner' = owner
      BY <1>11 DEF Grow
    <2> QED
      BY <1>0, <2>1 DEF Lock!Open, Types
  <1>12. ASSUME NEW t \in Thread, Publish(t) PROVE Holding(u)'
    BY <1>0, <1>12 DEF Publish, Types, gateVars
  <1>13. CASE UNCHANGED vars
    BY <1>0, <1>13 DEF Types, vars, gateVars
  <1> QED
    BY <1>1, <1>2, <1>3, <1>4, <1>5, <1>6, <1>7, <1>8, <1>9, <1>10, <1>11,
       <1>12, <1>13 DEF Next, Step

-----------------------------------------------------------------------------
(* Bounds.                                                                  *)

(* Only the holder of write_lock is past its acquisition.                   *)
LEMMA WritersAlone ==
    ASSUME IInv, NEW t \in Thread, NEW u \in Thread, Writing(t), Writing(u)
    PROVE  t = u
  BY DEF IInv, TypeOK, Holding, Writing, InCall

LEMMA KeepsBounds == IInv /\ [Next]_vars => Bounds'
  <1> SUFFICES ASSUME IInv, [Next]_vars PROVE Bounds'
    OBVIOUS
  <1> USE DEF Goto, Writing, Looking
  <1>0. Types /\ Bounds
    BY DEF IInv, TypeOK
  <1>1. CASE Admit
    BY <1>0, <1>1 DEF Admit, Bounds, argVars
  <1>2. ASSUME NEW t \in Thread, CallPush(t) PROVE Bounds'
    BY <1>0, <1>2 DEF CallPush, Types, Bounds
  <1>3. ASSUME NEW t \in Thread, CallResize(t) PROVE Bounds'
    BY <1>0, <1>3 DEF CallResize, Types, Bounds
  <1>4. ASSUME NEW t \in Thread, LoadPrefix(t) PROVE Bounds'
    BY <1>0, <1>4 DEF LoadPrefix, Types, Bounds, argVars
  <1>5. ASSUME NEW t \in Thread, LockPush(t) PROVE Bounds'
    BY <1>0, <1>5 DEF LockPush, Types, Bounds
  <1>6. ASSUME NEW t \in Thread, LockResize(t) PROVE Bounds'
    BY <1>0, <1>6 DEF LockResize, Types, Bounds, argVars
  <1>7. ASSUME NEW t \in Thread, Enter(t) \/ EnterRead(t) PROVE Bounds'
    BY <1>0, <1>7 DEF Enter, EnterRead, Types, Bounds, argVars
  <1>8. ASSUME NEW t \in Thread, Write(t) PROVE Bounds'
    <2>1. Len(cell') = Len(cell)
      BY <1>0, <1>8 DEF Write, Types
    <2> QED
      BY <1>0, <1>8, <2>1 DEF Write, Types, Bounds, argVars
  <1>9. ASSUME NEW t \in Thread, OutOfBounds(t) \/ LeaveRead(t) PROVE Bounds'
    BY <1>0, <1>9 DEF OutOfBounds, LeaveRead, Types, Bounds, argVars
  <1>10. ASSUME NEW t \in Thread, CloseLock(t) PROVE Bounds'
    BY <1>0, <1>10 DEF CloseLock, Types, Bounds, argVars
  <1>11. ASSUME NEW t \in Thread, Grow(t) PROVE Bounds'
    <2>1. Len(cell) <= Len(cell') /\ Len(cell) \in Nat /\ Len(cell') \in Nat
      BY <1>0, <1>11, GrowFacts DEF Types
    <2>2. /\ pc[t] = "growing"
          /\ pc' = [pc EXCEPT ![t] = "enter"]
          /\ UNCHANGED <<argVars, prefix, head>>
      BY <1>11 DEF Grow
    <2> QED
      BY <1>0, <2>1, <2>2 DEF Types, Bounds, argVars
  <1>12. ASSUME NEW t \in Thread, Publish(t) PROVE Bounds'
    <2>1. /\ pc[t] = "publish" /\ Writing(t)
          /\ head' = index[t] + 1
          /\ pc' = [pc EXCEPT ![t] = "idle"]
          /\ UNCHANGED <<argVars, prefix, cell>>
      BY <1>12 DEF Publish
    <2>2. head <= index[t] /\ index[t] < Len(cell) /\ Len(cell) \in Nat
      BY <1>0, <2>1 DEF Bounds, Types
    <2>3. ASSUME NEW u \in Thread, Writing(u)' PROVE FALSE
      <3>1. u # t /\ Writing(u)
        BY <1>0, <2>1, <2>3 DEF Types
      <3> QED
        BY <2>1, <3>1, WritersAlone
    <2>4. ASSUME NEW u \in Thread, Looking(u)' PROVE prefix'[u] <= head'
      BY <1>0, <2>1, <2>2, <2>4 DEF Types, Bounds
    <2> QED
      BY <1>0, <2>1, <2>2, <2>3, <2>4 DEF Types, Bounds
  <1>13. CASE UNCHANGED vars
    BY <1>0, <1>13 DEF vars, Bounds, argVars
  <1> QED
    BY <1>1, <1>2, <1>3, <1>4, <1>5, <1>6, <1>7, <1>8, <1>9, <1>10, <1>11,
       <1>12, <1>13 DEF Next, Step

LEMMA StepIInv == IInv /\ [Next]_vars => IInv'
  BY KeepsTypes, KeepsHolding, KeepsBounds DEF IInv, TypeOK

-----------------------------------------------------------------------------
(* Types hold, and write_lock and the guards of the vector are held exactly *)
(* where push_at, resize_with and read use them.                            *)
THEOREM TypeCorrect == Spec => []TypeOK
  <1>1. IInv => TypeOK
    BY DEF IInv
  <1> QED
    BY <1>1, InitIInv, StepIInv, PTL DEF Spec

(* The slice of a ReadHandle never reaches beyond the vector.               *)
THEOREM SlicesInBounds == Spec => []SliceInBounds
  <1>1. IInv => SliceInBounds
    BY DEF IInv, TypeOK, Types, Bounds, SliceInBounds, Looking
  <1> QED
    BY <1>1, InitIInv, StepIInv, PTL DEF Spec

(* The write of push_at under a read guard is to a cell that no reader can  *)
(* see.                                                                     *)
THEOREM NoRacyWrite == Spec => []WritesUnseen
  <1>1. IInv => WritesUnseen
    BY DEF IInv, TypeOK, Types, Bounds, WritesUnseen, Looking, Writing
  <1> QED
    BY <1>1, InitIInv, StepIInv, PTL DEF Spec

-----------------------------------------------------------------------------
(* What the cells hold, for callers that keep to push or to resize_with.    *)

Unmixed == \A c \in Callers : ~ {"push", "resize"} \subseteq c

(* Pushes only: a push writes the first cell that is not published.         *)
PushesOnly ==
    /\ \A t \in Thread :
          /\ pc[t] # "resize"
          /\ Writing(t) => index[t] = head
          /\ pc[t] = "push" \/ Writing(t) => item[t] \in Val
          /\ pc[t] = "publish" => cell[index[t] + 1] = item[t]
    /\ \A i \in 1 .. head : cell[i] \in Val

(* Resizes only: every cell there is has been filled.                       *)
ResizesOnly ==
    /\ \A t \in Thread :
          pc[t] # "push" /\ item[t] = Fill /\ init[t] = Fill
    /\ \A i \in 1 .. Len(cell) : cell[i] = Fill

Contents ==
    /\ "resize" \notin calls => PushesOnly
    /\ "push" \notin calls => ResizesOnly

LEMMA InitContents == Init => Contents
  BY DEF Init, Contents, PushesOnly, ResizesOnly, Writing

LEMMA KeepsResizesOnly ==
    ASSUME IInv, [Next]_vars, ResizesOnly, "push" \notin calls
    PROVE  ResizesOnly'
  <1> USE DEF Goto, ResizesOnly
  <1>0. Types
    BY DEF IInv, TypeOK
  <1>1. CASE Admit
    BY <1>0, <1>1 DEF Admit, argVars
  <1>2. ASSUME NEW t \in Thread, CallPush(t) PROVE ResizesOnly'
    BY <1>2 DEF CallPush
  <1>3. ASSUME NEW t \in Thread, CallResize(t) PROVE ResizesOnly'
    BY <1>0, <1>3 DEF CallResize, Types
  <1>4. ASSUME NEW t \in Thread, LoadPrefix(t) PROVE ResizesOnly'
    BY <1>0, <1>4 DEF LoadPrefix, Types, argVars
  <1>5. ASSUME NEW t \in Thread, LockPush(t) PROVE ResizesOnly'
    BY <1>5 DEF LockPush
  <1>6. ASSUME NEW t \in Thread, LockResize(t) PROVE ResizesOnly'
    BY <1>0, <1>6 DEF LockResize, Types, argVars
  <1>7. ASSUME NEW t \in Thread,
               Enter(t) \/ OutOfBounds(t) \/ CloseLock(t) \/ Publish(t)
                 \/ EnterRead(t) \/ LeaveRead(t)
        PROVE  ResizesOnly'
    BY <1>0, <1>7 DEF Enter, OutOfBounds, CloseLock, Publish, EnterRead,
                      LeaveRead, Types, argVars
  <1>8. ASSUME NEW t \in Thread, Write(t) PROVE ResizesOnly'
    BY <1>0, <1>8 DEF Write, Types, argVars
  <1>9. ASSUME NEW t \in Thread, Grow(t) PROVE ResizesOnly'
    <2>1. /\ pc' = [pc EXCEPT ![t] = "enter"]
          /\ UNCHANGED argVars
      BY <1>9 DEF Grow
    <2>2. \A i \in 1 .. Len(cell') : cell'[i] = Fill
      BY <1>0, <1>9, GrowFacts DEF Types
    <2> QED
      BY <1>0, <2>1, <2>2 DEF Types, argVars
  <1>10. CASE UNCHANGED vars
    BY <1>10 DEF vars, argVars
  <1> QED
    BY <1>1, <1>2, <1>3, <1>4, <1>5, <1>6, <1>7, <1>8, <1>9, <1>10
    DEF Next, Step

LEMMA KeepsPushesOnly ==
    ASSUME IInv, [Next]_vars, PushesOnly, "resize" \notin calls
    PROVE  PushesOnly'
  <1> USE DEF Goto, PushesOnly, Writing
  <1>0. Types /\ Bounds
    BY DEF IInv, TypeOK
  <1>1. CASE Admit
    BY <1>0, <1>1 DEF Admit, argVars
  <1>2. ASSUME NEW t \in Thread, CallPush(t) PROVE PushesOnly'
    BY <1>0, <1>2 DEF CallPush, Types
  <1>3. ASSUME NEW t \in Thread, CallResize(t) PROVE PushesOnly'
    BY <1>3 DEF CallResize
  <1>4. ASSUME NEW t \in Thread, LoadPrefix(t) PROVE PushesOnly'
    BY <1>0, <1>4 DEF LoadPrefix, Types, argVars
  <1>5. ASSUME NEW t \in Thread, LockPush(t) PROVE PushesOnly'
    BY <1>0, <1>5 DEF LockPush, Types
  <1>6. ASSUME NEW t \in Thread, LockResize(t) PROVE PushesOnly'
    BY <1>6 DEF LockResize
  <1>7. ASSUME NEW t \in Thread,
               Enter(t) \/ OutOfBounds(t) \/ CloseLock(t)
                 \/ EnterRead(t) \/ LeaveRead(t)
        PROVE  PushesOnly'
    BY <1>0, <1>7 DEF Enter, OutOfBounds, CloseLock, EnterRead,
                      LeaveRead, Types, argVars
  <1>8. ASSUME NEW t \in Thread, Write(t) PROVE PushesOnly'
    <2>1. /\ pc[t] = "write" /\ index[t] < Len(cell) /\ index[t] = head
          /\ cell' = [cell EXCEPT ![index[t] + 1] = item[t]]
          /\ pc' = [pc EXCEPT ![t] = "publish"]
          /\ UNCHANGED <<argVars, head>>
      BY <1>8 DEF Write
    <2>2. \A i \in 1 .. head : cell'[i] \in Val
      BY <1>0, <2>1 DEF Types, Bounds
    <2>3. cell'[index[t] + 1] = item[t]
      BY <1>0, <2>1 DEF Types
    <2>4. \A u \in Thread \ {t} : pc[u] # "publish"
      BY <2>1, WritersAlone
    <2> QED
      BY <1>0, <2>1, <2>2, <2>3, <2>4 DEF Types, argVars
  <1>9. ASSUME NEW t \in Thread, Grow(t) PROVE PushesOnly'
    <2>1. /\ pc[t] = "growing"
          /\ pc' = [pc EXCEPT ![t] = "enter"]
          /\ UNCHANGED <<argVars, head>>
      BY <1>9 DEF Grow
    <2>2. \A i \in 1 .. head : cell'[i] \in Val
      <3>1. head \in Nat /\ Len(cell) \in Nat /\ head <= Len(cell)
        BY <1>0 DEF Types, Bounds
      <3>2. \A i \in 1 .. Len(cell) : cell'[i] = cell[i]
        BY <1>9, GrowFacts
      <3> QED
        BY <3>1, <3>2
    <2>3. \A u \in Thread \ {t} : pc[u] # "publish"
      BY <2>1, WritersAlone
    <2> QED
      BY <1>0, <2>1, <2>2, <2>3 DEF Types, argVars
  <1>10. ASSUME NEW t \in Thread, Publish(t) PROVE PushesOnly'
    <2>1. /\ pc[t] = "publish"
          /\ head' = head + 1
          /\ pc' = [pc EXCEPT ![t] = "idle"]
          /\ UNCHANGED <<argVars, cell>>
      BY <1>10 DEF Publish
    <2>2. \A i \in 1 .. head' : cell'[i] \in Val
      BY <1>0, <2>1 DEF Types
    <2>3. \A u \in Thread \ {t} : ~Writing(u)
      BY <2>1, WritersAlone
    <2> QED
      BY <1>0, <2>1, <2>2, <2>3 DEF Types, argVars
  <1>11. CASE UNCHANGED vars
    BY <1>11 DEF vars, argVars
  <1> QED
    BY <1>1, <1>2, <1>3, <1>4, <1>5, <1>6, <1>7, <1>8, <1>9, <1>10, <1>11
    DEF Next, Step

LEMMA CallsStay == ASSUME [Next]_vars PROVE calls' = calls
  BY DEF Next, Step, Admit, CallPush, CallResize, LoadPrefix, LockPush,
         LockResize, Enter, Write, OutOfBounds, CloseLock, Grow, Publish,
         EnterRead, LeaveRead, argVars, vars

LEMMA StepContents == IInv /\ Contents /\ [Next]_vars => Contents'
  BY KeepsPushesOnly, KeepsResizesOnly, CallsStay DEF Contents

(* The SAFETY comment of ReadHandle::deref holds for callers that keep to   *)
(* one of push and resize_with: what is published is initialized.           *)
THEOREM PublishedIsValid == Unmixed => (Spec => []PublishedValid)
  <1> SUFFICES ASSUME Unmixed PROVE Spec => []PublishedValid
    OBVIOUS
  <1>1. IInv /\ Contents => PublishedValid
    BY CellAssumption DEF Unmixed, IInv, TypeOK, Types, Bounds, Contents,
                          PushesOnly, ResizesOnly, PublishedValid
  <1> QED
    BY <1>1, InitIInv, StepIInv, InitContents, StepContents, PTL DEF Spec

-----------------------------------------------------------------------------
(* The vector implements the log.                                           *)

Published == SubSeq(cell, 1, head)
Slice(t) == IF Looking(t) THEN {SubSeq(cell, 1, prefix[t])} ELSE {}

LEMMA SamePrefix ==
    ASSUME NEW S, NEW s \in Seq(S), NEW r \in Seq(S), NEW n \in Nat,
           n <= Len(s), n <= Len(r), \A i \in 1 .. n : r[i] = s[i]
    PROVE  SubSeq(r, 1, n) = SubSeq(s, 1, n)
  OBVIOUS

LEMMA SameSequence ==
    ASSUME NEW S, NEW s \in Seq(S), NEW r \in Seq(S), Len(s) = Len(r),
           \A i \in 1 .. Len(s) : s[i] = r[i]
    PROVE  s = r
  OBVIOUS

LEMMA AllAlike ==
    ASSUME NEW S, NEW s \in Seq(S), NEW r \in Seq(S), NEW x,
           \A i \in 1 .. Len(s) : s[i] = x,
           \A i \in 1 .. Len(r) : r[i] = x
    PROVE  /\ s \o r \in Seq(S)
           /\ Len(s \o r) = Len(s) + Len(r)
           /\ \A i \in 1 .. Len(s \o r) : (s \o r)[i] = x
  OBVIOUS

(* A step that changes neither head nor a cell below it, and nobody's       *)
(* place in read(), is invisible.                                           *)
LEMMA Invisible ==
    ASSUME IInv, cell' \in Seq(Val \cup {Fill, Uninit}),
           Len(cell) <= Len(cell'),
           \A i \in 1 .. head : cell'[i] = cell[i],
           head' = head, prefix' = prefix,
           \A t \in Thread : Looking(t)' = Looking(t)
    PROVE  /\ Published' = Published
           /\ \A t \in Thread : Slice(t)' = Slice(t)
  <1>0. Types /\ Bounds
    BY DEF IInv, TypeOK
  <1>1. Published' = Published
    BY <1>0, SamePrefix DEF Types, Bounds, Published
  <1>2. ASSUME NEW t \in Thread PROVE Slice(t)' = Slice(t)
    <2>1. CASE Looking(t)
      <3>1. prefix[t] \in Nat /\ prefix[t] <= head
        BY <1>0, <2>1 DEF Types, Bounds
      <3>2. SubSeq(cell', 1, prefix[t]) = SubSeq(cell, 1, prefix[t])
        BY <1>0, <3>1, SamePrefix DEF Types, Bounds
      <3> QED
        BY <2>1, <3>2 DEF Slice
    <2>2. CASE ~Looking(t)
      BY <2>2 DEF Slice
    <2> QED
      BY <2>1, <2>2
  <1> QED
    BY <1>1, <1>2

(* head and the cells below it stay, and so does the part of a thread that  *)
(* is not reading.                                                          *)
LEMMA WriterStep ==
    ASSUME IInv, NEW t \in Thread, UNCHANGED <<cell, head, prefix>>,
           ~Looking(t), ~Looking(t)', \A u \in Thread \ {t} : pc'[u] = pc[u]
    PROVE  /\ Published' = Published
           /\ \A u \in Thread : Slice(u)' = Slice(u)
  BY Invisible DEF IInv, TypeOK, Types, Bounds, Looking

(* What publishing adds: the item of a push, or fillings.                   *)
LEMMA PublishGrows ==
    ASSUME IInv, Contents, Unmixed, NEW t \in Thread, Publish(t)
    PROVE  \/ \E v \in Val : Published' = Append(Published, v)
           \/ /\ Len(Published') > Len(Published)
              /\ Published' = Published \o
                    [i \in 1 .. Len(Published') - Len(Published) |-> Fill]
  <1>0. Types /\ Bounds
    BY DEF IInv, TypeOK
  <1>1. /\ pc[t] = "publish" /\ head' = index[t] + 1 /\ cell' = cell
        /\ index[t] \in Nat /\ head <= index[t] /\ index[t] < Len(cell)
    BY <1>0 DEF Publish, Types, Bounds, Writing
  <1>2. Len(Published) = head /\ Len(Published') = index[t] + 1
    BY <1>0, <1>1 DEF Types, Bounds, Published
  <1>3. CASE "resize" \notin calls
    <2>1. index[t] = head /\ item[t] \in Val /\ cell[head + 1] = item[t]
      BY <1>1, <1>3 DEF Contents, PushesOnly, Writing
    <2>2. Published' = Append(Published, item[t])
      BY <1>0, <1>1, <2>1 DEF Types, Bounds, Published
    <2> QED
      BY <2>1, <2>2
  <1>4. CASE "push" \notin calls
    <2>1. \A i \in 1 .. Len(cell) : cell[i] = Fill
      BY <1>4 DEF Contents, ResizesOnly
    <2> DEFINE more == [i \in 1 .. index[t] + 1 - head |-> Fill]
    <2>2. /\ more \in Seq(Val \cup {Fill, Uninit})
          /\ Len(more) = index[t] + 1 - head
          /\ \A i \in 1 .. Len(more) : more[i] = Fill
      BY <1>0, <1>1 DEF Types
    <2>3. Published \in Seq(Val \cup {Fill, Uninit})
      BY <1>0, <1>1 DEF Types, Bounds, Published
    <2>4. Published' = Published \o more
      <3> DEFINE all == Published \o more
      <3>6. \A i \in 1 .. Len(Published) : Published[i] = Fill
        BY <1>0, <1>1, <1>2, <2>1 DEF Types, Bounds, Published
      <3> HIDE DEF more
      <3>1. all \in Seq(Val \cup {Fill, Uninit})
            /\ Len(all) = Len(Published) + Len(more)
            /\ \A i \in 1 .. Len(all) : all[i] = Fill
        BY <2>2, <2>3, <3>6, AllAlike
      <3>2. Published' \in Seq(Val \cup {Fill, Uninit})
            /\ \A i \in 1 .. index[t] + 1 : Published'[i] = Fill
        <4>1. cell \in Seq(Val \cup {Fill, Uninit})
          BY <1>0 DEF Types
        <4>2. Published' = SubSeq(cell, 1, index[t] + 1)
          BY <1>1 DEF Published
        <4> QED
          BY <1>1, <2>1, <4>1, <4>2
      <3> HIDE DEF all
      <3>3. Len(all) = Len(Published') /\ Len(all) = index[t] + 1
        BY <1>0, <1>1, <1>2, <2>2, <3>1 DEF Types
      <3>4. \A i \in 1 .. Len(all) : Published'[i] = all[i]
        BY <3>1, <3>2, <3>3
      <3>5. Published' = all
        BY <3>1, <3>2, <3>3, <3>4, SameSequence
      <3> QED
        BY <3>5 DEF all
    <2>5. more = [i \in 1 .. Len(Published') - Len(Published) |-> Fill]
      BY <1>0, <1>1, <1>2 DEF Types
    <2>6. Len(Published') > Len(Published)
      BY <1>0, <1>1, <1>2 DEF Types
    <2> QED
      BY <2>4, <2>5, <2>6
  <1> QED
    BY <1>0, <1>3, <1>4 DEF Unmixed, Types

(* The refinement mapping as it appears in Log's definitions.               *)
LogView == [t \in Thread |-> Slice(t)]

LEMMA Stutters ==
    ASSUME Published' = Published, \A t \in Thread : Slice(t)' = Slice(t)
    PROVE  UNCHANGED <<Published, LogView>>
  BY DEF LogView

LEMMA StepRefines ==
    ASSUME IInv, Contents, Unmixed, [Next]_vars
    PROVE  [Log!Next]_(Log!logVars)
  <1>0. Types /\ Bounds
    BY DEF IInv, TypeOK
  <1>a. ASSUME UNCHANGED <<Published, LogView>>
        PROVE  [Log!Next]_(Log!logVars)
    BY <1>a DEF Log!logVars, Published, LogView, Slice
  <1>b. ASSUME NEW t \in Thread, UNCHANGED <<cell, head, prefix>>,
               ~Looking(t), ~Looking(t)', \A u \in Thread \ {t} : pc'[u] = pc[u]
        PROVE  [Log!Next]_(Log!logVars)
    BY <1>a, <1>b, WriterStep, Stutters
  <1> USE DEF Goto, Looking
  <1>1. CASE Admit
    BY <1>0, <1>1, <1>a, Stutters, Invisible DEF Admit, argVars, Types, Bounds
  <1>2. ASSUME NEW t \in Thread,
               CallPush(t) \/ CallResize(t) \/ LockPush(t) \/ LockResize(t)
                 \/ Enter(t) \/ OutOfBounds(t) \/ CloseLock(t)
        PROVE  [Log!Next]_(Log!logVars)
    <2>1. /\ UNCHANGED <<cell, head, prefix>>
          /\ ~Looking(t) /\ ~Looking(t)'
          /\ \A u \in Thread \ {t} : pc'[u] = pc[u]
      BY <1>0, <1>2 DEF CallPush, CallResize, LockPush, LockResize, Enter,
                        OutOfBounds, CloseLock, Types
    <2> QED
      BY <2>1, <1>b
  <1>3. ASSUME NEW t \in Thread, Write(t) PROVE [Log!Next]_(Log!logVars)
    <2>1. /\ head <= index[t] /\ index[t] < Len(cell)
          /\ cell' = [cell EXCEPT ![index[t] + 1] = item[t]]
          /\ item[t] \in Val \cup {Fill, Uninit} /\ index[t] \in Nat
          /\ UNCHANGED <<head, prefix>>
      BY <1>0, <1>3 DEF Write, Types, Bounds, Writing
    <2>2. /\ cell' \in Seq(Val \cup {Fill, Uninit})
          /\ Len(cell') = Len(cell)
          /\ \A i \in 1 .. head : cell'[i] = cell[i]
      BY <1>0, <2>1 DEF Types
    <2>3. \A u \in Thread : Looking(u)' = Looking(u)
      BY <1>0, <1>3 DEF Write, Types
    <2> QED
      BY <1>0, <1>a, <2>1, <2>2, <2>3, Invisible, Stutters DEF Types
  <1>4. ASSUME NEW t \in Thread, Grow(t) PROVE [Log!Next]_(Log!logVars)
    <2>1. /\ cell' \in Seq(Val \cup {Fill, Uninit})
          /\ Len(cell) <= Len(cell')
          /\ \A i \in 1 .. head : cell'[i] = cell[i]
      BY <1>0, <1>4, GrowFacts DEF Types, Bounds
    <2>2. /\ UNCHANGED <<head, prefix>>
          /\ \A u \in Thread : Looking(u)' = Looking(u)
      BY <1>0, <1>4 DEF Grow, Types
    <2> QED
      BY <1>a, <2>1, <2>2, Invisible, Stutters
  <1>5. ASSUME NEW t \in Thread, Publish(t) PROVE [Log!Next]_(Log!logVars)
    <2>1. \A u \in Thread : Slice(u)' = Slice(u)
      BY <1>0, <1>5 DEF Publish, Types, Slice
    <2>2. UNCHANGED LogView
      BY <2>1 DEF LogView
    <2>3. Log!Grow
      BY <2>2, <1>5, PublishGrows
      DEF Log!Grow, Log!Push, Log!ResizeTo, Published, LogView, Slice
    <2> QED
      BY <2>3 DEF Log!Next
  <1>6. ASSUME NEW t \in Thread, LoadPrefix(t) PROVE [Log!Next]_(Log!logVars)
    <2>1. /\ LogView[t] = {} /\ Published' = Published
          /\ LogView' = [LogView EXCEPT ![t] = {Published}]
      BY <1>0, <1>6 DEF LoadPrefix, Types, Slice, LogView, Published
    <2>2. Log!Look(t)
      BY <2>1 DEF Log!Look, Published, LogView, Slice
    <2> QED
      BY <2>2 DEF Log!Next
  <1>7. ASSUME NEW t \in Thread, EnterRead(t) PROVE [Log!Next]_(Log!logVars)
    <2>1. /\ UNCHANGED <<cell, head, prefix>>
          /\ \A u \in Thread : Looking(u)' = Looking(u)
      BY <1>0, <1>7 DEF EnterRead, Types
    <2> QED
      BY <1>0, <1>a, <2>1, Invisible, Stutters DEF Types, Bounds
  <1>8. ASSUME NEW t \in Thread, LeaveRead(t) PROVE [Log!Next]_(Log!logVars)
    <2>1. /\ LogView' = [LogView EXCEPT ![t] = {}] /\ Published' = Published
      BY <1>0, <1>8 DEF LeaveRead, Types, Slice, LogView, Published
    <2>2. Log!Done(t)
      BY <2>1 DEF Log!Done, Published, LogView, Slice
    <2> QED
      BY <2>2 DEF Log!Next
  <1>9. CASE UNCHANGED vars
    BY <1>9, <1>a DEF vars, Published, LogView, Slice
  <1> QED
    BY <1>1, <1>2, <1>3, <1>4, <1>5, <1>6, <1>7, <1>8, <1>9 DEF Next, Step

(* Callers that keep to push or to resize_with see a log that only grows,   *)
(* and the slice a reader has in hand does not change.                      *)
THEOREM Refinement == Unmixed => (Spec => IsLog)
  <1> SUFFICES ASSUME Unmixed PROVE Spec => Log!Spec
    BY DEF IsLog
  <1>1. Init => Log!Init
    BY DEF Init, Log!Init, Looking
  <1> QED
    BY <1>1, InitIInv, StepIInv, InitContents, StepContents, StepRefines, PTL
    DEF Spec, Log!Spec

-----------------------------------------------------------------------------
(* The lock of the vector: mutual exclusion, the absence of lost wake-ups   *)
(* and the refinement of the gate that ConcurrentVec is built on, for any   *)
(* number of threads and addresses.                                         *)

(* A thread reading, comparing or draining holds one guard, on a token that *)
(* was ReadOk when it was loaded and still is.                              *)
GuardsAreReadOk ==
    \A t \in Thread : lockPc[t] \in {"reading", "cas", "drain"} =>
        \E k \in Tok : held[t] = {k} /\ kind[k] = "ReadOk"

(* The current token is WriteOngoing exactly while a writer has the lock    *)
(* closed, it is that writer's, and there is only one such writer.          *)
OneCloser ==
    /\ \A t \in Closing : token = unblock[t] /\ kind[token] = "WriteOngoing"
    /\ \A t, u \in Closing : t = u
    /\ kind[token] = "WriteOngoing" => Closing # {}

(* The notification of a ReadOk token fires only when nobody refers to it.  *)
LiveNotNotified ==
    \A k \in Tok : LiveTok(k) /\ kind[k] = "ReadOk" => ~notified[k]

(* A ReadOk token somebody holds is the current one, or the one whose       *)
(* holders the closing writer is waiting for.                               *)
HeldIsCurrentOrDraining ==
    \A u \in Thread, k \in Tok : k \in held[u] /\ kind[k] = "ReadOk" =>
        \/ k = token
        \/ \E t \in Thread : lockPc[t] \in {"drain", "await"} /\ waitsOn[t] = k

(* The closing writer waits for a ReadOk token, which is not current.       *)
DrainsReadOk ==
    \A t \in Thread : lockPc[t] \in {"drain", "await"} =>
        /\ kind[waitsOn[t]] = "ReadOk"
        /\ lockPc[t] = "drain" => held[t] = {waitsOn[t]}

(* What a writer notifies is a token it stored itself, never a ReadOk one.  *)
OwnUnblock ==
    \A t \in Thread : unblock[t] # None => kind[unblock[t]] = "WriteOngoing"

LockIInv ==
    /\ LockTypeOK
    /\ GuardsAreReadOk
    /\ OneCloser
    /\ LiveNotNotified
    /\ HeldIsCurrentOrDraining
    /\ DrainsReadOk
    /\ OwnUnblock
    /\ NoLostWakeup
    /\ ReadersDoneIsOwed

-----------------------------------------------------------------------------
LEMMA InitLockIInv == LockInit => LockIInv
  BY NoneAssumption, TokAssumption DEF LockInit, LockIInv, LockTypeOK, GuardsAreReadOk, OneCloser, LiveNotNotified,
     LiveTok, HeldIsCurrentOrDraining, DrainsReadOk, OwnUnblock, NoLostWakeup,
     ReadersDoneIsOwed, Closing, LockPC

LEMMA LockStepTypeOK == LockTypeOK /\ GuardsAreReadOk /\ [LockNext]_lockVars => LockTypeOK'
  <1> SUFFICES ASSUME LockTypeOK, GuardsAreReadOk, [LockNext]_lockVars PROVE LockTypeOK'
    OBVIOUS
  <1> USE NoneAssumption, TokAssumption DEF LockTypeOK, LockPC
  <1>1. CASE UNCHANGED lockVars
    BY <1>1 DEF lockVars
  <1>2. ASSUME NEW t \in Thread, StartRead(t) \/ StartLock(t) PROVE LockTypeOK'
    BY <1>2 DEF StartRead, StartLock
  <1>3. ASSUME NEW t \in Thread, ReadLoadOk(t) \/ LockLoadOk(t) PROVE LockTypeOK'
    BY <1>3 DEF ReadLoadOk, LockLoadOk
  <1>4. ASSUME NEW t \in Thread, ReadLoadBlocked(t) \/ LockLoadBlocked(t)
        PROVE  LockTypeOK'
    BY <1>4 DEF ReadLoadBlocked, LockLoadBlocked
  <1>5. ASSUME NEW t \in Thread, ReadWake(t) \/ LockWake(t) PROVE LockTypeOK'
    BY <1>5 DEF ReadWake, LockWake
  <1>6. ASSUME NEW t \in Thread, EndRead(t) PROVE LockTypeOK'
    BY <1>6 DEF EndRead, DropGuard, GuardsAreReadOk
  <1>7. ASSUME NEW t \in Thread, CasOk(t) PROVE LockTypeOK'
    BY <1>7 DEF CasOk, NewToken
  <1>8. ASSUME NEW t \in Thread, CasFail(t) PROVE LockTypeOK'
    BY <1>8 DEF CasFail
  <1>9. ASSUME NEW t \in Thread, Retry(t) PROVE LockTypeOK'
    BY <1>9 DEF Retry, DropGuard
  <1>10. ASSUME NEW t \in Thread, Drain(t) PROVE LockTypeOK'
    BY <1>10 DEF Drain, DropGuard, GuardsAreReadOk
  <1>11. ASSUME NEW t \in Thread, BeginWrite(t) PROVE LockTypeOK'
    BY <1>11 DEF BeginWrite
  <1>12. ASSUME NEW t \in Thread, EndWrite(t) PROVE LockTypeOK'
    BY <1>12 DEF EndWrite, NewToken
  <1>13. ASSUME NEW t \in Thread, Unblock(t) PROVE LockTypeOK'
    BY <1>13 DEF Unblock
  <1>14. QED
    <2> HIDE DEF LockTypeOK
    <2> QED
      BY <1>1, <1>2, <1>3, <1>4, <1>5, <1>6, <1>7, <1>8, <1>9, <1>10, <1>11,
         <1>12, <1>13 DEF LockNext, LockStep

LEMMA StepLockIInv == LockIInv /\ [LockNext]_lockVars => LockIInv'
  <1> SUFFICES ASSUME LockIInv, [LockNext]_lockVars PROVE LockIInv'
    OBVIOUS
  <1>0. LockTypeOK' /\ LockTypeOK
    BY LockStepTypeOK DEF LockIInv
  <1> USE <1>0, NoneAssumption, TokAssumption DEF LockTypeOK, LockPC, LockIInv, GuardsAreReadOk, OneCloser, LiveNotNotified, HeldIsCurrentOrDraining, DrainsReadOk, OwnUnblock,
            NoLostWakeup, ReadersDoneIsOwed, LiveTok, Closing,
            Awakened
  <1>1. CASE UNCHANGED lockVars
    BY <1>1 DEF lockVars
  <1>2. ASSUME NEW t \in Thread, StartRead(t) \/ StartLock(t) PROVE LockIInv'
    BY <1>2 DEF StartRead, StartLock
  <1>3. ASSUME NEW t \in Thread, ReadLoadOk(t) \/ LockLoadOk(t) PROVE LockIInv'
    <2>1. CASE ReadLoadOk(t)
      BY <2>1, SMTT(30) DEF ReadLoadOk
    <2>2. CASE LockLoadOk(t)
      BY <2>2, SMTT(30) DEF LockLoadOk
    <2> QED
      BY <1>3, <2>1, <2>2
  (* A new sleeper: by OneCloser, the writer of the token it saw owes it.   *)
  <1>4. ASSUME NEW t \in Thread, ReadLoadBlocked(t) \/ LockLoadBlocked(t)
        PROVE  LockIInv'
    <2> USE <1>4 DEF ReadLoadBlocked, LockLoadBlocked
    <2>1. PICK u \in Closing : unblock[u] = token
      OBVIOUS
    <2>2. NoLostWakeup'
      BY <2>1
    <2> QED
      BY <2>2
  <1>5. ASSUME NEW t \in Thread, ReadWake(t) \/ LockWake(t) PROVE LockIInv'
    BY <1>5 DEF ReadWake, LockWake
  <1>6. ASSUME NEW t \in Thread, EndRead(t) PROVE LockIInv'
    BY <1>6 DEF EndRead, DropGuard, LastRef
  <1>7. ASSUME NEW t \in Thread, CasOk(t) PROVE LockIInv'
    BY <1>7 DEF CasOk, NewToken, LiveNote
  <1>8. ASSUME NEW t \in Thread, CasFail(t) PROVE LockIInv'
    BY <1>8 DEF CasFail
  <1>9. ASSUME NEW t \in Thread, Retry(t) PROVE LockIInv'
    BY <1>9 DEF Retry, DropGuard, LastRef
  <1>10. ASSUME NEW t \in Thread, Drain(t) PROVE LockIInv'
    BY <1>10 DEF Drain, DropGuard, LastRef
  <1>11. ASSUME NEW t \in Thread, BeginWrite(t) PROVE LockIInv'
    BY <1>11 DEF BeginWrite
  <1>12. ASSUME NEW t \in Thread, EndWrite(t) PROVE LockIInv'
    BY <1>12 DEF EndWrite, NewToken, LiveNote
  <1>13. ASSUME NEW t \in Thread, Unblock(t) PROVE LockIInv'
    BY <1>13 DEF Unblock
  <1> QED
    <2> HIDE DEF LockIInv
    <2> QED
      BY <1>1, <1>2, <1>3, <1>4, <1>5, <1>6, <1>7, <1>8, <1>9, <1>10, <1>11,
         <1>12, <1>13 DEF LockNext, LockStep

LEMMA LockInvariance == LockSpec => []LockIInv
  <1>1. LockIInv /\ UNCHANGED lockVars => LockIInv'
    BY StepLockIInv
  <1> QED
    BY InitLockIInv, StepLockIInv, PTL DEF LockSpec

-----------------------------------------------------------------------------
(* The state has its types and no guard is leaked, for any Thread and Tok.  *)
THEOREM LockTypeCorrect == LockSpec => []LockTypeOK
  BY LockInvariance, PTL DEF LockIInv

(* A writer is alone.  A reader holds a ReadOk token: either the current    *)
(* one, but that is the writer's WriteOngoing token, or one that a closing  *)
(* writer still waits for, but the only closing writer is already in.       *)
LEMMA LockExclusion == LockIInv => MutualExclusion
  BY DEF LockIInv, MutualExclusion, Readers, Writers, Closing, OneCloser,
         GuardsAreReadOk, HeldIsCurrentOrDraining

(* No two writers, and no reader beside a writer, in any execution.         *)
THEOREM LockSafety == LockSpec => []MutualExclusion
  BY LockInvariance, LockExclusion, PTL

(* A thread asleep in read() or lock() is owed its wake-up, and a writer    *)
(* asleep on readers_done is owed it by the holder of a guard.              *)
THEOREM LockWakeups == LockSpec => []NoLostWakeup /\ []ReadersDoneIsOwed
  BY LockInvariance, PTL DEF LockIInv

-----------------------------------------------------------------------------
(* Refinement: the closer of the gate is the one closing writer.            *)
LEMMA CloserIs ==
    ASSUME LockIInv
    PROVE  /\ Closing = {} => Closer = None
           /\ \A t \in Closing : Closer = t /\ Closing = {t}
           /\ Closing = {} <=> kind[token] = "ReadOk"
  <1>1. \A t \in Closing : Closing = {t}
    BY DEF LockIInv, OneCloser, Closing
  <1>2. Closing = {} => Closer = None
    BY DEF Closer
  <1>3. ASSUME NEW t \in Closing PROVE Closer = t
    BY <1>1 DEF Closer
  <1>4. Closing = {} <=> kind[token] = "ReadOk"
    BY DEF LockIInv, OneCloser, LockTypeOK
  <1> QED
    BY <1>1, <1>2, <1>3, <1>4

LEMMA GateInit == LockInit => Gate!Init
  BY NoneAssumption, TokAssumption DEF LockInit, Gate!Init, Readers, Closer, Writers, Closing

LEMMA GateStep == LockIInv /\ [LockNext]_lockVars => [Gate!Next]_(Gate!gateVars)
  <1> SUFFICES ASSUME LockIInv, [LockNext]_lockVars
               PROVE  Gate!Next \/ UNCHANGED Gate!gateVars
    OBVIOUS
  <1>0. LockIInv' /\ LockTypeOK
    BY StepLockIInv DEF LockIInv
  <1> USE <1>0, NoneAssumption, TokAssumption DEF LockTypeOK, LockPC, Readers, Writers, Gate!gateVars
  <1>1. ASSUME UNCHANGED <<Readers, Writers, Closing>>
        PROVE  UNCHANGED Gate!gateVars
    BY <1>1 DEF Closer
  <1>2. CASE UNCHANGED lockVars
    BY <1>1, <1>2 DEF lockVars, Closing
  (* The steps that the gate does not see.                                  *)
  <1>3. ASSUME NEW t \in Thread,
               \/ StartRead(t) \/ StartLock(t) \/ LockLoadOk(t)
               \/ ReadLoadBlocked(t) \/ LockLoadBlocked(t)
               \/ ReadWake(t) \/ LockWake(t)
               \/ CasFail(t) \/ Retry(t) \/ Drain(t) \/ Unblock(t)
        PROVE  UNCHANGED Gate!gateVars
    <2>1. PICK p \in LockPC : /\ lockPc' = [lockPc EXCEPT ![t] = p]
                              /\ p # "reading" /\ lockPc[t] # "reading"
                              /\ p # "writing" /\ lockPc[t] # "writing"
                              /\ p \in {"drain", "await"} <=> lockPc[t] \in {"drain", "await"}
      BY <1>3 DEF StartRead, StartLock, LockLoadOk, ReadLoadBlocked,
           LockLoadBlocked, ReadWake, LockWake, CasFail, Retry, Drain, Unblock
    <2> QED
      BY <1>1, <2>1 DEF Closing
  <1>4. ASSUME NEW t \in Thread, ReadLoadOk(t) PROVE Gate!Enter(t)
    <2>1. Closing = {} /\ Closing' = {} /\ Readers' = Readers \cup {t}
          /\ t \notin Readers /\ Writers = {} /\ Writers' = {}
      BY <1>4, CloserIs DEF ReadLoadOk, Closing
    <2> QED
      BY <2>1 DEF Closer, Gate!Enter
  <1>5. ASSUME NEW t \in Thread, EndRead(t) PROVE Gate!Leave(t)
    <2>1. Readers' = Readers \ {t} /\ t \in Readers /\ UNCHANGED <<Writers, Closing>>
      BY <1>5 DEF EndRead, Closing
    <2> QED
      BY <2>1 DEF Closer, Gate!Leave
  (* The guard's token is still current, hence ReadOk: the gate was open.   *)
  <1>6. ASSUME NEW t \in Thread, CasOk(t) PROVE Gate!Close(t)
    <2>1. kind[token] = "ReadOk"
      BY <1>6 DEF CasOk, LockIInv, GuardsAreReadOk
    <2>2. Closing = {} /\ Closing' = {t} /\ UNCHANGED <<Readers, Writers>>
          /\ t \notin Readers /\ Writers = {}
      BY <1>6, <2>1, CloserIs DEF CasOk, Closing
    <2> QED
      BY <2>2 DEF Closer, Gate!Close
  <1>7. ASSUME NEW t \in Thread, BeginWrite(t) PROVE Gate!Admit
    <2>1. Closing = {t} /\ Closer = t /\ UNCHANGED <<Readers, Closing>>
          /\ Writers = {} /\ Writers' = {t}
      BY <1>7, CloserIs DEF BeginWrite, Closing
    <2>2. Readers = {}
      <3>1. MutualExclusion'
        BY <1>0, LockExclusion, PTL
      <3> QED
        BY <2>1, <3>1 DEF MutualExclusion
    <2> QED
      BY <2>1, <2>2 DEF Closer, Gate!Admit
  <1>8. ASSUME NEW t \in Thread, EndWrite(t) PROVE Gate!Open
    <2>1. Closing = {t} /\ Closing' = {} /\ UNCHANGED Readers
          /\ Writers = {t} /\ Writers' = {}
      BY <1>8, CloserIs DEF EndWrite, Closing
    <2> QED
      BY <2>1 DEF Closer, Gate!Open
  <1> QED
    BY <1>2, <1>3, <1>4, <1>5, <1>6, <1>7, <1>8 DEF LockNext, LockStep, Gate!Next

(* The lock implements the abstract gate: RWGate's safety part.             *)
THEOREM LockIsGate == LockSpec => GateSafety
  BY LockInvariance, GateInit, GateStep, PTL DEF LockSpec, GateSafety, Gate!Spec
=============================================================================
