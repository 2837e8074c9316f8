---------------------------- MODULE StrictFunctions ----------------------------
(***************************************************************************)
(* TLC evaluates a function at each of its applications.  Comparing the    *)
(* function with another makes it evaluate every entry once.               *)
(***************************************************************************)

Empty == [t \in {} |-> 0]
Strict(f) == IF f = Empty THEN Empty ELSE f
=============================================================================
