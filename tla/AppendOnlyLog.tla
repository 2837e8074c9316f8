--------------------------- MODULE AppendOnlyLog ---------------------------
(***************************************************************************)
(* What ConcurrentVec promises: a log that only grows, to which pushes add *)
(* one value and resizes a run of equal ones, and readers that see a       *)
(* prefix of it which nothing changes while they look.                     *)
(***************************************************************************)
EXTENDS Integers, Sequences

CONSTANTS
    Thread,
    Val,        \* the values pushed
    Fill        \* the value a resize fills with

VARIABLES
    log,        \* the values published
    view        \* of each thread: the slices it may be reading, at most one

logVars == <<log, view>>

Init == log = <<>> /\ view = [t \in Thread |-> {}]

Push(v) == log' = Append(log, v) /\ UNCHANGED view

ResizeTo(n) ==
    /\ n > Len(log)
    /\ log' = log \o [i \in 1 .. n - Len(log) |-> Fill]
    /\ UNCHANGED view

Look(t) ==
    /\ view[t] = {}
    /\ view' = [view EXCEPT ![t] = {log}]
    /\ UNCHANGED log

Done(t) ==
    /\ view' = [view EXCEPT ![t] = {}]
    /\ UNCHANGED log

Grow == \/ \E v \in Val : Push(v)
        \/ ResizeTo(Len(log'))

Next == Grow \/ \E t \in Thread : Look(t) \/ Done(t)

Spec == Init /\ [][Next]_logVars
=============================================================================
