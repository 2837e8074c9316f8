------------------------ MODULE MCSortedWritesTable ------------------------
(* Instances of SortedWritesTable for TLC.                                  *)
EXTENDS SortedWritesTable

Larger(x, y) == IF x >= y THEN x ELSE y     \* keeps one of its arguments

(* It meets what MergesInParallel asks of a merge function.                 *)
ASSUME LargerAssumption ==
    \A x, y, z \in 0 .. 2 :
        /\ Larger(x, y) \in {x, y}
        /\ Larger(Larger(x, y), z) = Larger(x, Larger(y, z))

(* The union of two sets of two elements, written as their bit masks: it    *)
(* may be neither of its arguments.                                         *)
BitOr(x, y) == IF x = 0 \/ x = y THEN y ELSE IF y = 0 THEN x ELSE 3

OddEven(k) == k % 2
=============================================================================
