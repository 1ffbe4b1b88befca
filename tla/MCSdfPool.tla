------------------------------ MODULE MCSdfPool ------------------------------
(* Instances of SdfPool for TLC.                                           *)
EXTENDS SdfPool
=============================================================================
