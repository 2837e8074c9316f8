------------------------- MODULE MCNotificationList -------------------------
(* Instances of NotificationList for TLC.                                   *)
EXTENDS NotificationList, TLC

Symmetry == Permutations(Thread) \cup Permutations(Item)
=============================================================================
