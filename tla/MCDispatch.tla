----------------------------- MODULE MCDispatch -----------------------------
(* Instances of Dispatch for TLC.                                          *)
EXTENDS Dispatch, TLC

CONSTANTS near, far, window, gate, i1, i2, c1, c2, c3

MCTransport ==
  [a \in Agents |-> IF a = far THEN "remote"
                    ELSE IF a = window THEN "terminal" ELSE "local"]
=============================================================================
