------------------------------- MODULE MCBleTx -------------------------------
(***************************************************************************)
(* Instances of BleTx for TLC: three frames, the second of them larger     *)
(* than an ATT write, all of them together larger than the credit.         *)
(***************************************************************************)
EXTENDS BleTx

MCFrames == <<1, 3, 2>>
=============================================================================
