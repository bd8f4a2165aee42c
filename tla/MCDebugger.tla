----------------------------- MODULE MCDebugger -----------------------------
(***************************************************************************)
(* Instances of Debugger for TLC.  TwoByte is a target whose instructions  *)
(* are all longer than one byte, so that no instruction starts right       *)
(* behind a breakpoint; OneByte has one that is (PUSH RBP, NOP, RET ...).  *)
(***************************************************************************)
EXTENDS Debugger

TwoByte == {1, 3}
OneByte == {1, 2}
=============================================================================
