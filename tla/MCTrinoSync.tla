---------------------------- MODULE MCTrinoSync ----------------------------
(* TrinoSync for TLC: each .cfg picks the units, the data and the kinds of   *)
(* change the environment may make.                                         *)
EXTENDS TrinoSync
=============================================================================
