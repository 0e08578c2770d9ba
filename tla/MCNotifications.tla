-------------------------- MODULE MCNotifications --------------------------
(***************************************************************************)
(* Instances of Notifications.                                             *)
(***************************************************************************)
EXTENDS Notifications

CONSTANTS n1, n2
=============================================================================
