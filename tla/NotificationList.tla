-------------------------- MODULE NotificationList --------------------------
(***************************************************************************)
(* The NotificationList of concurrency/src/notification_list.rs: one flag  *)
(* for each item, so that notifying what is already notified touches       *)
(* nothing shared, and a list of the items notified, which reset takes     *)
(* before it lowers their flags one by one.  The flags live in a           *)
(* ConcurrentVec that resize_with keeps long enough; it is the log of      *)
(* AppendOnlyLog here, so that every flag is there.  The loads and swaps   *)
(* of the flags, which are Relaxed, are taken to be sequentially           *)
(* consistent.                                                             *)
(***************************************************************************)
EXTENDS Integers, Sequences, FiniteSets, SequencesExt

CONSTANTS
    Thread,
    Item        \* what can be notified: the tables of a database

VARIABLES
    pc,         \* where each thread is
    item,       \* the item it notifies
    states,     \* the flags
    notified,   \* the list
    taken,      \* of each thread in reset: the items it took from the list
    i,          \* ... and the one whose flag it lowers next
    owed        \* history: the items notified, since a reset last reported them

vars == <<pc, item, states, notified, taken, i, owed>>

PC == {"idle", "check", "swap", "push", "take", "lower"}

Init ==
    /\ pc = [t \in Thread |-> "idle"]
    /\ item \in [Thread -> Item]
    /\ states = [k \in Item |-> FALSE]
    /\ notified = <<>>
    /\ taken = [t \in Thread |-> <<>>]
    /\ i = [t \in Thread |-> 1]
    /\ owed = {}

Goto(t, label) == pc' = [pc EXCEPT ![t] = label]

-----------------------------------------------------------------------------
(* notify(item)                                                             *)

CallNotify(t) ==
    /\ pc[t] = "idle"
    /\ \E k \in Item :
          /\ item' = [item EXCEPT ![t] = k]
          /\ owed' = owed \cup {k}
    /\ Goto(t, "check")
    /\ UNCHANGED <<states, notified, taken, i>>

(* already_notified() or not.                                               *)
Check(t) ==
    /\ pc[t] = "check"
    /\ Goto(t, IF states[item[t]] THEN "idle" ELSE "swap")
    /\ UNCHANGED <<item, states, notified, taken, i, owed>>

(* attempt_notify(): whoever raises the flag pushes the item.               *)
Swap(t) ==
    /\ pc[t] = "swap"
    /\ states' = [states EXCEPT ![item[t]] = TRUE]
    /\ Goto(t, IF states[item[t]] THEN "idle" ELSE "push")
    /\ UNCHANGED <<item, notified, taken, i, owed>>

Push(t) ==
    /\ pc[t] = "push"
    /\ notified' = Append(notified, item[t])
    /\ Goto(t, "idle")
    /\ UNCHANGED <<item, states, taken, i, owed>>

-----------------------------------------------------------------------------
(* reset()                                                                  *)

CallReset(t) ==
    /\ pc[t] = "idle"
    /\ Goto(t, "take")
    /\ UNCHANGED <<item, states, notified, taken, i, owed>>

(* Mutant: the list is emptied under a second acquisition of the mutex, so  *)
(* that what is pushed in between is lost with it.                          *)
TakeTwice(t) ==
    /\ pc[t] = "take"
    /\ \/ /\ taken[t] = <<>>
          /\ notified # <<>>
          /\ taken' = [taken EXCEPT ![t] = notified]
          /\ UNCHANGED <<pc, notified>>
       \/ /\ taken[t] # <<>> \/ notified = <<>>
          /\ notified' = <<>>
          /\ Goto(t, "lower")
          /\ UNCHANGED taken
    /\ UNCHANGED <<item, states, i, owed>>

(* mem::take under the mutex.                                               *)
Take(t) ==
    /\ pc[t] = "take"
    /\ taken' = [taken EXCEPT ![t] = notified]
    /\ i' = [i EXCEPT ![t] = 1]
    /\ notified' = <<>>
    /\ Goto(t, "lower")
    /\ UNCHANGED <<item, states, owed>>

(* Mutant: the flag of the last item stays up.                              *)
LowerButLast(t) ==
    /\ pc[t] = "lower"
    /\ i[t] <= Len(taken[t])
    /\ states' = IF i[t] < Len(taken[t])
                 THEN [states EXCEPT ![taken[t][i[t]]] = FALSE]
                 ELSE states
    /\ i' = [i EXCEPT ![t] = @ + 1]
    /\ UNCHANGED <<pc, item, notified, taken, owed>>

Lower(t) ==
    /\ pc[t] = "lower"
    /\ i[t] <= Len(taken[t])
    /\ states' = [states EXCEPT ![taken[t][i[t]]] = FALSE]
    /\ i' = [i EXCEPT ![t] = @ + 1]
    /\ UNCHANGED <<pc, item, notified, taken, owed>>

(* The items taken are returned.                                            *)
Report(t) ==
    /\ pc[t] = "lower"
    /\ i[t] > Len(taken[t])
    /\ owed' = owed \ ToSet(taken[t])
    /\ taken' = [taken EXCEPT ![t] = <<>>]
    /\ i' = [i EXCEPT ![t] = 1]
    /\ Goto(t, "idle")
    /\ UNCHANGED <<item, states, notified>>

-----------------------------------------------------------------------------
Step(t) ==
    Check(t) \/ Swap(t) \/ Push(t) \/ Take(t) \/ Lower(t) \/ Report(t)

Next == \E t \in Thread : CallNotify(t) \/ CallReset(t) \/ Step(t)

Spec == Init /\ [][Next]_vars

(* Calls run to their end, and somebody resets again and again.             *)
FairSpec ==
    /\ Spec
    /\ \A t \in Thread : WF_vars(Step(t))
    /\ \A t \in Thread : SF_vars(CallReset(t))

-----------------------------------------------------------------------------
TypeOK ==
    /\ pc \in [Thread -> PC]
    /\ item \in [Thread -> Item]
    /\ states \in [Item -> BOOLEAN]
    /\ notified \in Seq(Item)
    /\ taken \in [Thread -> Seq(Item)]
    /\ i \in [Thread -> Nat \ {0}]
    /\ owed \subseteq Item

(* Who is to lower the flag of k again, directly or by way of the list: a   *)
(* notifier about to push k, a place in the list, or a place not yet        *)
(* reached in what a reset has taken.                                       *)
Pushing(t, k) == pc[t] = "push" /\ item[t] = k
Listed(n, k) == n \in 1 .. Len(notified) /\ notified[n] = k
Lowering(t, n, k) == n \in i[t] .. Len(taken[t]) /\ taken[t][n] = k

UnderWay(k) ==
    {<<"push", t>> : t \in {u \in Thread : Pushing(u, k)}}
    \cup {<<"list", n>> : n \in {m \in 1 .. Len(notified) : Listed(m, k)}}
    \cup UNION {{<<"lower", t, n>> :
                    n \in {m \in 1 .. Len(taken[t]) : Lowering(t, m, k)}} :
                t \in Thread}

(* A flag is up exactly when its item is on its way to a reset, and it is   *)
(* under way once: no flag stays up with nobody to lower it, which would    *)
(* silence the item for ever, and none is raised by two.                    *)
FlagIsUnderWay ==
    \A k \in Item :
        /\ states[k] <=> UnderWay(k) # {}
        /\ \A x, y \in UnderWay(k) : x = y

(* A notification that no reset has reported yet will be: the notifier is   *)
(* still running, the item is in the list, or a reset that has not returned *)
(* holds it.                                                                *)
OwedIsUnderWay ==
    \A k \in owed :
        \/ \E n \in 1 .. Len(notified) : Listed(n, k)
        \/ \E t \in Thread : \/ pc[t] \in {"check", "swap", "push"} /\ item[t] = k
                             \/ k \in ToSet(taken[t])

(* A reset that no other call overlaps takes every item notified since one  *)
(* was last reported.  (After overlapping calls it may take one again: the  *)
(* comment of reset says so.)                                               *)
Alone(t) == \A u \in Thread \ {t} : pc[u] = "idle"

ResetMissesNone ==
    \A t \in Thread : pc[t] = "take" /\ Alone(t) => owed \subseteq ToSet(notified)

(* Every notification is reported, as long as somebody calls reset.         *)
AllReported == \A k \in Item : k \in owed ~> k \notin owed
=============================================================================
