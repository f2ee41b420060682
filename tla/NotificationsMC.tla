------------------------ MODULE NotificationsMC ------------------------
(* Instances of Notifications.                                                *)
EXTENDS Notifications, TLC

=============================================================================
