---------------------------- MODULE PostEventsMC ----------------------------
(* Instances of PostEvents.                                                *)
EXTENDS PostEvents, TLC

=============================================================================
