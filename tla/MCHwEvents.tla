----------------------------- MODULE MCHwEvents -----------------------------
(* Instances of HwEvents for TLC.                                           *)
EXTENDS HwEvents
=============================================================================
