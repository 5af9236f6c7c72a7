------------------------- MODULE MCOrderAcceptance -------------------------
(* Instances of OrderAcceptance for TLC.                                   *)
EXTENDS OrderAcceptance
=============================================================================
