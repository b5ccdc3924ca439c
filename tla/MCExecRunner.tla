---------------------------- MODULE MCExecRunner ----------------------------
(* Instances of ExecRunner for TLC.                                        *)
EXTENDS ExecRunner

=============================================================================
