--------------------------- MODULE WithdrawalLedger ---------------------------
(***************************************************************************)
(* What the withdrawal operator promises, with the operator, its store, the *)
(* Managers and every failure left out: requests are made, a growing prefix *)
(* of them is snapshotted on Solana, snapshotted requests are paid on       *)
(* Dogecoin once each, and only what is paid is ever booked as confirmed.   *)
(***************************************************************************)
EXTENDS Integers

CONSTANT MaxRequests

VARIABLES
  requested,    \* how many withdrawals were requested
  snapshotted,  \* how many of them, from the first, were snapshotted
  paid,         \* the requests a confirmed Dogecoin transaction has paid
  booked        \* the requests the operator's books show as Confirmed

vars == <<requested, snapshotted, paid, booked>>

Init ==
  /\ requested = 0
  /\ snapshotted = 0
  /\ paid = {}
  /\ booked = {}

MakeRequest ==
  /\ requested < MaxRequests
  /\ requested' = requested + 1
  /\ UNCHANGED <<snapshotted, paid, booked>>

\* A snapshot extends the prefix, never past what was requested.
Snapshot ==
  /\ \E end \in snapshotted + 1 .. requested : snapshotted' = end
  /\ UNCHANGED <<requested, paid, booked>>

\* One Dogecoin transaction pays a run of snapshotted requests, none of which
\* was paid before.
Pay ==
  /\ \E lo, hi \in 0 .. snapshotted :
       /\ lo < hi
       /\ (lo .. hi - 1) \cap paid = {}
       /\ paid' = paid \cup (lo .. hi - 1)
  /\ UNCHANGED <<requested, snapshotted, booked>>

\* Paid requests are booked, and stay so.
Book ==
  /\ booked' \in SUBSET paid
  /\ booked \subseteq booked'
  /\ UNCHANGED <<requested, snapshotted, paid>>

Next == MakeRequest \/ Snapshot \/ Pay \/ Book

Spec == Init /\ [][Next]_vars
=============================================================================
