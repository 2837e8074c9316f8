----------------------- MODULE NotificationList_proofs -----------------------
(***************************************************************************)
(* No flag stays up with nobody to lower it and no notification is lost,   *)
(* for any number of threads and items.                                    *)
(***************************************************************************)
EXTENDS NotificationList, TLAPS

(* FlagIsUnderWay without the set of places: the places of an item are      *)
(* pairwise equal, and there is one if and only if its flag is up.          *)
OnePlace(k) ==
    /\ \A t, u \in Thread : Pushing(t, k) /\ Pushing(u, k) => t = u
    /\ \A m, n \in Nat : Listed(m, k) /\ Listed(n, k) => m = n
    /\ \A t, u \in Thread, m, n \in Nat :
          Lowering(t, m, k) /\ Lowering(u, n, k) => t = u /\ m = n
    /\ \A t \in Thread, n \in Nat : ~(Pushing(t, k) /\ Listed(n, k))
    /\ \A t, u \in Thread, n \in Nat : ~(Pushing(t, k) /\ Lowering(u, n, k))
    /\ \A u \in Thread, m, n \in Nat : ~(Listed(m, k) /\ Lowering(u, n, k))

SomePlace(k) ==
    \/ \E t \in Thread : Pushing(t, k)
    \/ \E n \in Nat : Listed(n, k)
    \/ \E t \in Thread, n \in Nat : Lowering(t, n, k)

Places == \A k \in Item : OnePlace(k) /\ (states[k] <=> SomePlace(k))

(* Only a reset that runs holds items.                                      *)
TakenByReset == \A t \in Thread : pc[t] # "lower" => taken[t] = <<>>

IInv == TypeOK /\ TakenByReset /\ Places /\ OwedIsUnderWay

-----------------------------------------------------------------------------
LEMMA PlacesMeanUnderWay ==
    ASSUME TypeOK PROVE Places => FlagIsUnderWay
  <1> SUFFICES ASSUME Places, NEW k \in Item
               PROVE  /\ states[k] <=> UnderWay(k) # {}
                      /\ \A x, y \in UnderWay(k) : x = y
    BY DEF FlagIsUnderWay
  <1>1. OnePlace(k) /\ (states[k] <=> SomePlace(k))
    BY DEF Places
  <1>2. \A x : x \in UnderWay(k) <=>
          \/ \E t \in Thread : Pushing(t, k) /\ x = <<"push", t>>
          \/ \E n \in Nat : Listed(n, k) /\ x = <<"list", n>>
          \/ \E t \in Thread, n \in Nat : Lowering(t, n, k) /\ x = <<"lower", t, n>>
    BY DEF UnderWay, Listed, Lowering, TypeOK
  <1>3. states[k] <=> UnderWay(k) # {}
    BY <1>1, <1>2 DEF SomePlace
  <1>4. ASSUME NEW x \in UnderWay(k), NEW y \in UnderWay(k) PROVE x = y
    BY <1>1, <1>2 DEF OnePlace
  <1> QED
    BY <1>3, <1>4

LEMMA InitIInv == Init => IInv
  <1> SUFFICES ASSUME Init PROVE IInv
    OBVIOUS
  <1>1. TypeOK
    BY DEF Init, TypeOK, PC
  <1>2. TakenByReset /\ OwedIsUnderWay
    BY DEF Init, TakenByReset, OwedIsUnderWay
  <1>3. Places
    BY DEF Init, Places, OnePlace, SomePlace, Pushing, Listed, Lowering
  <1> QED
    BY <1>1, <1>2, <1>3 DEF IInv

LEMMA KeepsTypes == IInv /\ [Next]_vars => TypeOK' /\ TakenByReset'
  <1> SUFFICES ASSUME IInv, [Next]_vars PROVE TypeOK' /\ TakenByReset'
    OBVIOUS
  <1>0. TypeOK /\ TakenByReset
    BY DEF IInv
  <1> USE <1>0 DEF TypeOK, TakenByReset, PC, Goto
  <1>1. ASSUME NEW t \in Thread, CallNotify(t) PROVE TypeOK' /\ TakenByReset'
    BY <1>1 DEF CallNotify
  <1>2. ASSUME NEW t \in Thread, Check(t) PROVE TypeOK' /\ TakenByReset'
    BY <1>2 DEF Check
  <1>3. ASSUME NEW t \in Thread, Swap(t) PROVE TypeOK' /\ TakenByReset'
    BY <1>3 DEF Swap
  <1>4. ASSUME NEW t \in Thread, Push(t) PROVE TypeOK' /\ TakenByReset'
    BY <1>4 DEF Push
  <1>5. ASSUME NEW t \in Thread, CallReset(t) PROVE TypeOK' /\ TakenByReset'
    BY <1>5 DEF CallReset
  <1>6. ASSUME NEW t \in Thread, Take(t) PROVE TypeOK' /\ TakenByReset'
    BY <1>6 DEF Take
  <1>7. ASSUME NEW t \in Thread, Lower(t) PROVE TypeOK' /\ TakenByReset'
    BY <1>7 DEF Lower
  <1>8. ASSUME NEW t \in Thread, Report(t) PROVE TypeOK' /\ TakenByReset'
    BY <1>8 DEF Report
  <1>9. CASE UNCHANGED vars
    BY <1>9 DEF vars
  <1> QED
    BY <1>1, <1>2, <1>3, <1>4, <1>5, <1>6, <1>7, <1>8, <1>9 DEF Next, Step

-----------------------------------------------------------------------------
(* The places of each item.                                                 *)

(* Steps that leave every place and every flag alone.                       *)
LEMMA SamePlaces ==
    ASSUME Places, UNCHANGED <<states, notified, taken, i>>,
           \A u \in Thread, k \in Item : Pushing(u, k)' <=> Pushing(u, k)
    PROVE  Places'
  BY DEF Places, OnePlace, SomePlace, Listed, Lowering

LEMMA KeepsPlaces == IInv /\ [Next]_vars => Places'
  <1> SUFFICES ASSUME IInv, [Next]_vars PROVE Places'
    OBVIOUS
  <1>0. TypeOK /\ TakenByReset /\ Places
    BY DEF IInv
  <1> USE DEF Goto
  <1>1. ASSUME NEW t \in Thread, CallNotify(t) \/ Check(t) \/ CallReset(t)
        PROVE  Places'
    BY <1>0, <1>1, SamePlaces
    DEF CallNotify, Check, CallReset, TypeOK, Pushing
  <1>2. ASSUME NEW t \in Thread, Swap(t) PROVE Places'
    <2>0. PICK k \in Item : k = item[t]
      BY <1>0 DEF TypeOK
    <2>1. /\ item[t] = k /\ pc[t] = "swap"
          /\ states' = [states EXCEPT ![k] = TRUE]
          /\ pc' = [pc EXCEPT ![t] = IF states[k] THEN "idle" ELSE "push"]
          /\ UNCHANGED <<item, notified, taken, i>>
      BY <1>0, <1>2, <2>0 DEF Swap, TypeOK
    <2>2. CASE states[k]
      BY <1>0, <2>1, <2>2, SamePlaces DEF TypeOK, Pushing
    <2>3. CASE ~states[k]
      <3>1. ~SomePlace(k)
        BY <1>0, <2>1, <2>3 DEF Places
      <3>2. OnePlace(k)' /\ SomePlace(k)' /\ states'[k]
        BY <1>0, <2>1, <2>3, <3>1
        DEF TypeOK, OnePlace, SomePlace, Pushing, Listed, Lowering
      <3>3. ASSUME NEW j \in Item \ {k}
            PROVE  OnePlace(j)' /\ (states'[j] <=> SomePlace(j)')
        <4>1. states'[j] = states[j]
          BY <1>0, <2>1 DEF TypeOK
        <4>2. \A u \in Thread : Pushing(u, j)' <=> Pushing(u, j)
          BY <1>0, <2>1 DEF TypeOK, Pushing
        <4>3. \A u \in Thread, n \in Nat :
                 /\ Listed(n, j)' <=> Listed(n, j)
                 /\ Lowering(u, n, j)' <=> Lowering(u, n, j)
          BY <2>1 DEF Listed, Lowering
        <4> QED
          BY <1>0, <4>1, <4>2, <4>3 DEF Places, OnePlace, SomePlace
      <3> QED
        BY <3>2, <3>3 DEF Places
    <2> QED
      BY <2>2, <2>3
  <1>3. ASSUME NEW t \in Thread, Push(t) PROVE Places'
    <2>0. PICK k \in Item : k = item[t]
      BY <1>0 DEF TypeOK
    <2>1. /\ Pushing(t, k) /\ ~ Pushing(t, k)'
          /\ notified' = Append(notified, k)
          /\ pc' = [pc EXCEPT ![t] = "idle"]
          /\ UNCHANGED <<item, states, taken, i>>
      BY <1>0, <1>3, <2>0 DEF Push, TypeOK, Pushing
    <2>6. PICK last \in Nat : last = Len(notified) + 1
      BY <1>0 DEF TypeOK
    <2>2. /\ Listed(last, k)'
          /\ \A j \in Item, n \in Nat :
                Listed(n, j)' <=> Listed(n, j) \/ (n = last /\ j = k)
      <3>1. /\ notified \in Seq(Item) /\ Len(notified) \in Nat
            /\ Len(notified') = last
            /\ notified'[last] = k
            /\ \A n \in 1 .. Len(notified) : notified'[n] = notified[n]
        BY <1>0, <2>1, <2>6 DEF TypeOK
      <3>2. Listed(last, k)'
        BY <2>6, <3>1 DEF Listed
      <3>3. ASSUME NEW j \in Item, NEW n \in Nat
            PROVE  Listed(n, j)' <=> Listed(n, j) \/ (n = last /\ j = k)
        <4>1. CASE n = last
          BY <2>6, <3>1, <4>1 DEF Listed
        <4>2. CASE n \in 1 .. Len(notified)
          <5>1. n # last /\ n \in 1 .. Len(notified') /\ notified'[n] = notified[n]
            BY <2>6, <3>1, <4>2
          <5> QED
            BY <4>2, <5>1 DEF Listed
        <4>3. CASE n # last /\ n \notin 1 .. Len(notified)
          BY <2>6, <3>1, <4>3 DEF Listed
        <4> QED
          BY <4>1, <4>2, <4>3
      <3> QED
        BY <3>2, <3>3
    <2>3. /\ \A j \in Item, u \in Thread, n \in Nat :
                Lowering(u, n, j)' <=> Lowering(u, n, j)
          /\ \A j \in Item, u \in Thread :
                Pushing(u, j)' <=> Pushing(u, j) /\ u # t
      BY <1>0, <2>1 DEF TypeOK, Lowering, Pushing
    <2>4. \A j \in Item : j # k => ~Pushing(t, j)
      BY <2>0 DEF Pushing
    <2>5. ASSUME NEW j \in Item
          PROVE  OnePlace(j)' /\ (SomePlace(j)' <=> SomePlace(j))
      <3>1. OnePlace(j)
        BY <1>0 DEF Places
      <3>2. Listed(last, j) => FALSE
        BY <1>0, <2>6 DEF Listed, TypeOK
      <3>3. CASE j = k
        BY <2>1, <2>2, <2>3, <3>1, <3>2, <3>3 DEF OnePlace, SomePlace
      <3>4. CASE j # k
        <4>1. \A u \in Thread, n \in Nat :
                 /\ Pushing(u, j)' <=> Pushing(u, j)
                 /\ Listed(n, j)' <=> Listed(n, j)
                 /\ Lowering(u, n, j)' <=> Lowering(u, n, j)
          BY <2>2, <2>3, <2>4, <3>4
        <4> QED
          BY <3>1, <4>1 DEF OnePlace, SomePlace
      <3> QED
        BY <3>3, <3>4
    <2> QED
      BY <1>0, <2>1, <2>5 DEF Places
  <1>4. ASSUME NEW t \in Thread, Take(t) PROVE Places'
    <2>1. /\ pc[t] = "take" /\ taken[t] = <<>>
          /\ taken' = [taken EXCEPT ![t] = notified]
          /\ i' = [i EXCEPT ![t] = 1]
          /\ notified' = <<>>
          /\ pc' = [pc EXCEPT ![t] = "lower"]
          /\ UNCHANGED <<item, states>>
      BY <1>0, <1>4 DEF Take, TakenByReset
    <2>2. ASSUME NEW j \in Item, NEW n \in Nat, NEW u \in Thread
          PROVE  /\ ~ Listed(n, j)'
                 /\ Pushing(u, j)' <=> Pushing(u, j)
                 /\ u # t => (Lowering(u, n, j)' <=> Lowering(u, n, j))
                 /\ Lowering(t, n, j)' <=> Listed(n, j)
                 /\ ~ Lowering(t, n, j)
      BY <1>0, <2>1 DEF TypeOK, Listed, Lowering, Pushing
    <2>3. ASSUME NEW j \in Item
          PROVE  OnePlace(j)' /\ (SomePlace(j)' <=> SomePlace(j))
      BY <1>0, <2>2 DEF Places, OnePlace, SomePlace
    <2> QED
      BY <1>0, <2>1, <2>3 DEF Places
  <1>5. ASSUME NEW t \in Thread, Lower(t) PROVE Places'
    <2>0. PICK k \in Item : k = taken[t][i[t]]
      BY <1>0, <1>5 DEF Lower, TypeOK
    <2>1. /\ pc[t] = "lower" /\ i[t] \in Nat /\ i[t] <= Len(taken[t])
          /\ taken[t][i[t]] = k
          /\ states' = [states EXCEPT ![k] = FALSE]
          /\ i' = [i EXCEPT ![t] = @ + 1]
          /\ UNCHANGED <<pc, item, notified, taken>>
      BY <1>0, <1>5, <2>0 DEF Lower, TypeOK
    <2>2. ASSUME NEW j \in Item, NEW n \in Nat, NEW u \in Thread
          PROVE  /\ Listed(n, j)' <=> Listed(n, j)
                 /\ Pushing(u, j)' <=> Pushing(u, j)
                 /\ Lowering(u, n, j)' <=>
                       Lowering(u, n, j) /\ ~(u = t /\ n = i[t])
      BY <1>0, <2>1 DEF TypeOK, Listed, Lowering, Pushing
    <2>3. Lowering(t, i[t], k)
      BY <1>0, <2>1 DEF Lowering, TypeOK
    <2>4. \A j \in Item : j # k => ~Lowering(t, i[t], j)
      BY <2>0 DEF Lowering
    <2>5. OnePlace(k)' /\ ~ SomePlace(k)' /\ ~states'[k]
      BY <1>0, <2>1, <2>2, <2>3 DEF Places, OnePlace, SomePlace, TypeOK
    <2>6. ASSUME NEW j \in Item \ {k}
          PROVE  OnePlace(j)' /\ (states'[j] <=> SomePlace(j)')
      <3>1. states'[j] = states[j]
        BY <1>0, <2>1 DEF TypeOK
      <3>2. \A u \in Thread, n \in Nat :
               Lowering(u, n, j)' <=> Lowering(u, n, j)
        BY <2>2, <2>4
      <3> QED
        BY <1>0, <2>2, <3>1, <3>2 DEF Places, OnePlace, SomePlace
    <2> QED
      BY <2>5, <2>6 DEF Places
  <1>6. ASSUME NEW t \in Thread, Report(t) PROVE Places'
    <2>1. /\ pc[t] = "lower" /\ i[t] > Len(taken[t])
          /\ taken' = [taken EXCEPT ![t] = <<>>]
          /\ i' = [i EXCEPT ![t] = 1]
          /\ pc' = [pc EXCEPT ![t] = "idle"]
          /\ UNCHANGED <<item, states, notified>>
      BY <1>6 DEF Report
    <2>2. ASSUME NEW j \in Item, NEW n \in Nat, NEW u \in Thread
          PROVE  /\ Listed(n, j)' <=> Listed(n, j)
                 /\ Pushing(u, j)' <=> Pushing(u, j)
                 /\ Lowering(u, n, j)' <=> Lowering(u, n, j)
      BY <1>0, <2>1 DEF TypeOK, Listed, Lowering, Pushing
    <2> QED
      BY <1>0, <2>1, <2>2 DEF Places, OnePlace, SomePlace
  <1>7. CASE UNCHANGED vars
    BY <1>0, <1>7, SamePlaces DEF vars, Pushing
  <1> QED
    BY <1>1, <1>2, <1>3, <1>4, <1>5, <1>6, <1>7 DEF Next, Step

-----------------------------------------------------------------------------
(* What is owed.                                                            *)

Covered(k) ==
    \/ \E n \in 1 .. Len(notified) : Listed(n, k)
    \/ \E t \in Thread : \/ pc[t] \in {"check", "swap", "push"} /\ item[t] = k
                         \/ k \in ToSet(taken[t])

LEMMA UpIsCovered ==
    ASSUME IInv, NEW k \in Item, states[k]
    PROVE  \/ \E n \in 1 .. Len(notified) : Listed(n, k)
           \/ \E t \in Thread : Pushing(t, k) \/ k \in ToSet(taken[t])
  <1>1. SomePlace(k)
    BY DEF IInv, Places
  <1>2. ASSUME NEW t \in Thread, NEW n \in Nat, Lowering(t, n, k)
        PROVE  k \in ToSet(taken[t])
    BY <1>2 DEF Lowering, ToSet, IInv, TypeOK
  <1> QED
    BY <1>1, <1>2 DEF SomePlace, Listed

LEMMA KeepsOwed == IInv /\ [Next]_vars => OwedIsUnderWay'
  <1> SUFFICES ASSUME IInv, [Next]_vars PROVE OwedIsUnderWay'
    OBVIOUS
  <1> SUFFICES ASSUME NEW k \in Item, k \in owed' PROVE Covered(k)'
    <2>1. owed' \subseteq Item
      BY KeepsTypes DEF TypeOK
    <2> QED
      BY <2>1 DEF OwedIsUnderWay, Covered
  <1>0. TypeOK /\ TakenByReset /\ (k \in owed => Covered(k))
    BY DEF IInv, OwedIsUnderWay, Covered
  <1> USE DEF Goto
  <1>1. ASSUME NEW t \in Thread, CallNotify(t) PROVE Covered(k)'
    <2>1. CASE item'[t] = k
      BY <1>0, <1>1, <2>1 DEF CallNotify, TypeOK, Covered
    <2>2. CASE item'[t] # k
      BY <1>0, <1>1, <2>2 DEF CallNotify, TypeOK, Covered, Listed
    <2> QED
      BY <2>1, <2>2
  <1>2. ASSUME NEW t \in Thread, Check(t) \/ Swap(t) PROVE Covered(k)'
    <2>1. /\ pc[t] \in {"check", "swap"} /\ k \in owed
          /\ pc' \in { [pc EXCEPT ![t] = "idle"], [pc EXCEPT ![t] = "push"],
                       [pc EXCEPT ![t] = "swap"] }
          /\ pc'[t] = "idle" => states[item[t]]
          /\ UNCHANGED <<item, notified, taken>>
      BY <1>0, <1>2 DEF Check, Swap, TypeOK
    <2>2. CASE item[t] = k /\ pc'[t] = "idle"
      BY <1>0, <2>1, <2>2, UpIsCovered
      DEF TypeOK, Covered, Pushing, Listed
    <2>3. CASE ~(item[t] = k /\ pc'[t] = "idle")
      BY <1>0, <2>1, <2>3 DEF TypeOK, Covered, Listed
    <2> QED
      BY <2>2, <2>3
  <1>3. ASSUME NEW t \in Thread, Push(t) PROVE Covered(k)'
    <2>1. /\ k \in owed /\ item[t] \in Item
          /\ notified' = Append(notified, item[t])
          /\ pc' = [pc EXCEPT ![t] = "idle"]
          /\ UNCHANGED <<item, taken>>
      BY <1>0, <1>3 DEF Push, TypeOK
    <2>2. /\ notified \in Seq(Item) /\ Len(notified) \in Nat
          /\ Len(notified') = Len(notified) + 1
          /\ notified'[Len(notified) + 1] = item[t]
          /\ \A n \in 1 .. Len(notified) : notified'[n] = notified[n]
      BY <1>0, <2>1 DEF TypeOK
    <2>3. CASE item[t] = k
      BY <2>2, <2>3 DEF Covered, Listed
    <2>4. CASE item[t] # k
      BY <1>0, <2>1, <2>2, <2>4 DEF TypeOK, Covered, Listed
    <2> QED
      BY <2>3, <2>4
  <1>4. ASSUME NEW t \in Thread, CallReset(t) PROVE Covered(k)'
    BY <1>0, <1>4 DEF CallReset, TypeOK, Covered, Listed
  <1>5. ASSUME NEW t \in Thread, Take(t) PROVE Covered(k)'
    <2>1. /\ pc[t] = "take" /\ taken[t] = <<>> /\ k \in owed
          /\ taken' = [taken EXCEPT ![t] = notified]
          /\ pc' = [pc EXCEPT ![t] = "lower"]
          /\ UNCHANGED item
      BY <1>0, <1>5 DEF Take, TakenByReset
    <2>2. ASSUME NEW n \in 1 .. Len(notified), Listed(n, k) PROVE Covered(k)'
      BY <1>0, <2>1, <2>2 DEF TypeOK, Covered, Listed, ToSet
    <2>3. ASSUME NEW u \in Thread, k \in ToSet(taken[u]) PROVE Covered(k)'
      BY <1>0, <2>1, <2>3 DEF TypeOK, Covered, ToSet
    <2>4. ASSUME NEW u \in Thread, pc[u] \in {"check", "swap", "push"},
                 item[u] = k
          PROVE  Covered(k)'
      BY <1>0, <2>1, <2>4 DEF TypeOK, Covered
    <2> QED
      BY <1>0, <2>1, <2>2, <2>3, <2>4 DEF Covered
  <1>6. ASSUME NEW t \in Thread, Lower(t) PROVE Covered(k)'
    BY <1>0, <1>6 DEF Lower, TypeOK, Covered, Listed
  <1>7. ASSUME NEW t \in Thread, Report(t) PROVE Covered(k)'
    <2>1. /\ pc[t] = "lower" /\ k \in owed /\ k \notin ToSet(taken[t])
          /\ taken' = [taken EXCEPT ![t] = <<>>]
          /\ pc' = [pc EXCEPT ![t] = "idle"]
          /\ UNCHANGED <<item, notified>>
      BY <1>7 DEF Report
    <2> QED
      BY <1>0, <2>1 DEF TypeOK, Covered, Listed
  <1>8. CASE UNCHANGED vars
    BY <1>0, <1>8 DEF vars, Covered, Listed
  <1> QED
    BY <1>1, <1>2, <1>3, <1>4, <1>5, <1>6, <1>7, <1>8 DEF Next, Step

LEMMA StepIInv == IInv /\ [Next]_vars => IInv'
  BY KeepsTypes, KeepsPlaces, KeepsOwed DEF IInv

-----------------------------------------------------------------------------
(* The state has its types.                                                 *)
THEOREM TypeCorrect == Spec => []TypeOK
  <1>1. IInv => TypeOK
    BY DEF IInv
  <1> QED
    BY <1>1, InitIInv, StepIInv, PTL DEF Spec

(* A flag is up exactly when its item is under way to a reset, once: notify *)
(* and reset never silence an item for ever.                                *)
THEOREM FlagsAreUnderWay == Spec => []FlagIsUnderWay
  <1>1. IInv => FlagIsUnderWay
    BY PlacesMeanUnderWay DEF IInv
  <1> QED
    BY <1>1, InitIInv, StepIInv, PTL DEF Spec

(* No interleaving of notify and reset loses a notification...              *)
THEOREM NothingIsLost == Spec => []OwedIsUnderWay
  <1>1. IInv => OwedIsUnderWay
    BY DEF IInv
  <1> QED
    BY <1>1, InitIInv, StepIInv, PTL DEF Spec

(* ... and a reset that no other call overlaps takes them all.              *)
THEOREM ResetsMissNone == Spec => []ResetMissesNone
  <1>1. IInv => ResetMissesNone
    <2> SUFFICES ASSUME IInv, NEW t \in Thread, pc[t] = "take", Alone(t),
                        NEW k \in owed
                 PROVE  k \in ToSet(notified)
      BY DEF ResetMissesNone
    <2>1. \A u \in Thread : taken[u] = <<>>
      BY DEF IInv, TakenByReset, Alone
    <2>2. \A u \in Thread : k \notin ToSet(taken[u])
      BY <2>1 DEF ToSet
    <2>3. PICK n \in 1 .. Len(notified) : Listed(n, k)
      BY <2>2 DEF IInv, OwedIsUnderWay, Alone
    <2> QED
      BY <2>3 DEF Listed, ToSet, IInv, TypeOK
  <1> QED
    BY <1>1, InitIInv, StepIInv, PTL DEF Spec
=============================================================================
