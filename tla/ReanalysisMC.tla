------------------------ MODULE ReanalysisMC ------------------------
(* Instances of Reanalysis.                                                   *)
EXTENDS Reanalysis, TLC

=============================================================================
