---------------------------- MODULE MCScheduler -----------------------------
(* Instances of Scheduler for TLC.                                          *)
EXTENDS Scheduler, TLC

CONSTANTS f1, f2, f3, spread, close

(* One rule whose matches of f1 and f2 have the same head, which adds f3,   *)
(* and one that every fact matches.                                         *)
Bodies == spread :> {f1, f2} @@ close :> {f1, f2, f3}
Heads == spread :> (f1 :> "x" @@ f2 :> "x" @@ f3 :> "z")
         @@ close :> (f1 :> "x" @@ f2 :> "y" @@ f3 :> "z")
Additional == spread :> ("x" :> {f3} @@ "z" :> {})
              @@ close :> ("x" :> {} @@ "y" :> {} @@ "z" :> {f1})
=============================================================================
