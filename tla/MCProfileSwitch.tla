-------------------------- MODULE MCProfileSwitch --------------------------
(***************************************************************************)
(* Model-checking instances of ProfileSwitch.                              *)
(***************************************************************************)
EXTENDS ProfileSwitch, TLC

CONSTANTS b1, b2, n1, n2, bad
BinsAndBad == <<b1, bad, b2, b1>>
TwoNames == <<n1, n2>>

=============================================================================
