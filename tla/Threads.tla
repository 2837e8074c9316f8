------------------------------ MODULE Threads ------------------------------
(* The threads of a process.                                                *)
CONSTANTS
    Thread,
    None        \* not a thread

ASSUME NoneAssumption == None \notin Thread
=============================================================================
