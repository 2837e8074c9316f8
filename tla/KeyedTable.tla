----------------------------- MODULE KeyedTable -----------------------------
(***************************************************************************)
(* What a table promises to those who stage mutations on it: a map from    *)
(* keys to values.  Nothing staged is visible before the next merge; a     *)
(* merge applies all removals and then all insertions, those of one key in *)
(* the order they were staged, an insertion over an existing value giving  *)
(* the two values combined by the table's merge function.                  *)
(***************************************************************************)
EXTENDS Naturals, Sequences

CONSTANTS
    Key,
    Absent,             \* the value of a key that is not in the table
    Combine(_, _)       \* the merge function, of the old and the new value

VARIABLES
    map,        \* the value of each key
    removals,   \* the keys staged for removal
    inserts,    \* the values staged for insertion, per key
    merging     \* what a merge is doing: "no", "delete" or "insert"

vars == <<map, removals, inserts, merging>>

Init ==
    /\ map = [k \in Key |-> Absent]
    /\ removals = {}
    /\ inserts = [k \in Key |-> <<>>]
    /\ merging = "no"

(* A buffer of mutations is dropped.                                        *)
Stage ==
    /\ merging = "no"
    /\ removals \subseteq removals'
    /\ \A k \in Key :
          /\ Len(inserts[k]) <= Len(inserts'[k])
          /\ inserts[k] = SubSeq(inserts'[k], 1, Len(inserts[k]))
    /\ UNCHANGED <<map, merging>>

Clear ==
    /\ merging = "no"
    /\ map' = [k \in Key |-> Absent]
    /\ removals' = {}
    /\ inserts' = [k \in Key |-> <<>>]
    /\ UNCHANGED merging

Begin ==
    /\ merging = "no"
    /\ merging' = "delete"
    /\ UNCHANGED <<map, removals, inserts>>

Remove ==
    /\ merging = "delete"
    /\ \E k \in removals :
          /\ map' = [map EXCEPT ![k] = Absent]
          /\ removals' = removals \ {k}
    /\ UNCHANGED <<inserts, merging>>

Removed ==
    /\ merging = "delete"
    /\ removals = {}
    /\ merging' = "insert"
    /\ UNCHANGED <<map, removals, inserts>>

Insert ==
    /\ merging = "insert"
    /\ \E k \in Key :
          /\ inserts[k] # <<>>
          /\ map' = [map EXCEPT ![k] =
                IF @ = Absent THEN Head(inserts[k])
                ELSE Combine(@, Head(inserts[k]))]
          /\ inserts' = [inserts EXCEPT ![k] = Tail(@)]
    /\ UNCHANGED <<removals, merging>>

End ==
    /\ merging = "insert"
    /\ \A k \in Key : inserts[k] = <<>>
    /\ merging' = "no"
    /\ UNCHANGED <<map, removals, inserts>>

Next == Stage \/ Clear \/ Begin \/ Remove \/ Removed \/ Insert \/ End

Spec == Init /\ [][Next]_vars
=============================================================================
