------------------------------- MODULE MCPayment ------------------------------
(* Three deposits, two recipients, and payments of one and of two outputs. *)
EXTENDS PaymentProofs

\* The two byte orders of a hash.
OtherOrder(hash) == IF Head(hash) = "reversed" THEN hash[2] ELSE <<"reversed", hash>>

Deposit(n, sats) == [txid |-> <<"deposit", n>>, sats |-> sats, recipient |-> n]
ThreeDeposits    == <<Deposit(1, 4), Deposit(2, 3), Deposit(3, 5)>>

Output(amount, kind) == [amount |-> amount, kind |-> kind, address |-> <<"user", kind>>]
OneOrTwo == {<<Output(2, P2pkh)>>, <<Output(2, P2sh), Output(3, P2pkh)>>}

\* The daemon's arguments, and those that differ from them in one place.
DaemonArgs == [index |-> 0, fee |-> 1, dust |-> 2, signing |-> TRUE]
OneIsOther == {DaemonArgs, [DaemonArgs EXCEPT !.index = 1], [DaemonArgs EXCEPT !.fee = 2],
               [DaemonArgs EXCEPT !.dust = 4], [DaemonArgs EXCEPT !.signing = FALSE]}
=============================================================================
