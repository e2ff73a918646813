----------------------------- MODULE MCCampaign -----------------------------
(***************************************************************************)
(* Small instances of Campaign for TLC: four stages, the first without a   *)
(* checkpoint, two in the middle, and the package stage.                   *)
(***************************************************************************)
EXTENDS Campaign
=============================================================================
