------------------------------ MODULE MCDeposit -------------------------------
(***************************************************************************)
(* Instances of Deposit for TLC.                                            *)
(***************************************************************************)
EXTENDS DepositProofs
=============================================================================
