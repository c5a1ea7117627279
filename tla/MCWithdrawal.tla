----------------------------- MODULE MCWithdrawal -----------------------------
(***************************************************************************)
(* Instances of Withdrawal for TLC.  Signer quorums and deposits are model  *)
(* values with no order among them; the safety runs take them as symmetric. *)
(***************************************************************************)
EXTENDS WithdrawalStoreProofs, TLC

Symmetry == Permutations(Quorums) \cup Permutations(Deposits)
=============================================================================
