--------------------------- MODULE MCDriverBilling ---------------------------
(* Instances of DriverBilling for TLC.                                      *)
EXTENDS DriverBilling, TLC

CONSTANTS basic, pro
=============================================================================
