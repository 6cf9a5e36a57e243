-------------------------- MODULE MCSupersetCharm --------------------------
(* SupersetCharm for TLC: each .cfg picks the values and the kinds of change *)
(* the environment may make.                                                *)
EXTENDS SupersetCharm
=============================================================================
