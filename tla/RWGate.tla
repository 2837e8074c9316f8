------------------------------- MODULE RWGate -------------------------------
(***************************************************************************)
(* What ReadOptimizedLock promises its callers: a gate that a writer       *)
(* closes.  While it is open readers come and go; a writer closes it, is   *)
(* admitted once the readers that were inside have left, and opens it      *)
(* again.  No reader enters a closed gate.                                 *)
(***************************************************************************)
CONSTANTS
    Thread,
    Nobody      \* not a thread

VARIABLES
    readers,    \* the threads reading
    closer,     \* the thread that closed the gate, or Nobody
    admitted    \* the closer may write

gateVars == <<readers, closer, admitted>>

Init == readers = {} /\ closer = Nobody /\ admitted = FALSE

Enter(t) ==
    /\ closer = Nobody
    /\ t \notin readers
    /\ readers' = readers \cup {t}
    /\ UNCHANGED <<closer, admitted>>

Leave(t) ==
    /\ t \in readers
    /\ readers' = readers \ {t}
    /\ UNCHANGED <<closer, admitted>>

Close(t) ==
    /\ closer = Nobody
    /\ t \notin readers
    /\ closer' = t
    /\ UNCHANGED <<readers, admitted>>

Admit ==
    /\ closer # Nobody
    /\ readers = {}
    /\ ~admitted
    /\ admitted' = TRUE
    /\ UNCHANGED <<readers, closer>>

Open ==
    /\ admitted
    /\ closer' = Nobody
    /\ admitted' = FALSE
    /\ UNCHANGED readers

Next == Admit \/ Open \/ \E t \in Thread : Enter(t) \/ Leave(t) \/ Close(t)

Spec == Init /\ [][Next]_gateVars

(* Readers leave, and a closed gate admits its closer and is opened again.  *)
FairSpec ==
    /\ Spec
    /\ \A t \in Thread : WF_gateVars(Leave(t))
    /\ WF_gateVars(Admit)
    /\ WF_gateVars(Open)
=============================================================================
