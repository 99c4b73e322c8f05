--------------------------- MODULE MCCampaignDialer ---------------------------
(* Instances of CampaignDialer for TLC. *)
EXTENDS CampaignDialer, TLC

CONSTANTS k1, k2, d1, d2
===============================================================================
