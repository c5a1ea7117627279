----------------------------- MODULE CustodyCoins -----------------------------
(***************************************************************************)
(* What the programs that write custody_utxos promise one another: the life *)
(* of a custody coin.  deposit-to-solana makes a coin available, the        *)
(* withdrawal operator reserves it for a payment, gives it back or pays     *)
(* with it, and books the payment, whose change is a coin of its own.  A    *)
(* coin that was paid with never comes back.                                *)
(*                                                                          *)
(* Withdrawal and Deposit keep to it but for the exceptions they name: a    *)
(* deposit that is registered again over its reservation or payment.        *)
(***************************************************************************)
CONSTANT Coin

VARIABLE status

CoinStatus == {"Absent", "Available", "Reserved", "Broadcast", "Spent"}

Init == status \in [Coin -> {"Absent"}]

\* The coins of S go from one status to the next.
Move(S, from, to) ==
  /\ \A c \in S : status[c] = from
  /\ status' = [c \in Coin |-> IF c \in S THEN to ELSE status[c]]

\* A confirmed deposit is registered.
Register(c) == Move({c}, "Absent", "Available")

\* A payment's inputs are selected, given back, or spent by its broadcast.
Reserve(S) == Move(S, "Available", "Reserved")
Release(S) == Move(S, "Reserved", "Available")
Pay(S)     == Move(S, "Reserved", "Broadcast")

\* A confirmed payment is booked: its inputs S are gone, its change C is new.
Book(S, C) ==
  /\ \A c \in S : status[c] = "Broadcast"
  /\ \A c \in C : status[c] = "Absent"
  /\ status' = [c \in Coin |-> CASE c \in S -> "Spent"
                                 [] c \in C -> "Available"
                                 [] OTHER   -> status[c]]

Next ==
  \/ \E c \in Coin : Register(c)
  \/ \E S \in SUBSET Coin : Reserve(S) \/ Release(S) \/ Pay(S)
  \/ \E S, C \in SUBSET Coin : Book(S, C)

Spec == Init /\ [][Next]_status
=============================================================================
