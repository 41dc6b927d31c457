----------------------------- MODULE MCExecGate ----------------------------
(***************************************************************************)
(* Model-checking instances of ExecGate.                                   *)
(***************************************************************************)
EXTENDS ExecGate, TLC

MCVerdict == [c \in Cmds |-> IF c = "sh" THEN "safe" ELSE IF c = "curl" THEN "warn" ELSE "block"]

Setting(m, d, n) == [mode |-> m, depth |-> d, max |-> n]
MCSettings == {Setting("Block", "propagate", 0), Setting("Block", "ancestry", 2), Setting("Warn", "one_level", 0)}

=============================================================================
