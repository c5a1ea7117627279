------------------------ MODULE WithdrawalStoreProofs ------------------------
(***************************************************************************)
(* The second layer of invariance proofs for Withdrawal: how the rows of    *)
(* the operator store fit together, whatever write the operator died after. *)
(*                                                                          *)
(* StoreInv rests on IInv of WithdrawalProofs (one incomplete batch, landed *)
(* ranges that do not meet, signatures from the Signed stage on).  Its      *)
(* parts are the rows of a batch at each of its stages (Rows), the requests *)
(* of its range (Requests), what the operator has already written when it   *)
(* comes to a call (Progress), the coins of a reservation (Held), where     *)
(* coins come from (Minted), and the Wormhole sequences the Manager was     *)
(* given (Sequences).  Inductive, the two together, is the invariant that   *)
(* the safety run checks and that these proofs show for every value of the *)
(* constants.                                                               *)
(*                                                                          *)
(* At the end, Withdrawal implements its two abstract specifications:       *)
(* CustodyCoins, the life of each custody coin but those of deposits that   *)
(* are registered again over a payment, and WithdrawalLedger, the           *)
(* withdrawals themselves.  Both proofs map the initial states and then     *)
(* each step, under Inductive, to a step of the abstract specification or   *)
(* to none.                                                                 *)
(***************************************************************************)
EXTENDS WithdrawalProofs

\* The stages at which a batch's requests are its own: its snapshot landed.
Claimed == {"Constructed", "Signed", "Broadcast", "Confirmed"}

\* A batch's reservation, transaction and process record at each of its stages.
\* The Broadcast transition moves the reservation first, so a Signed batch whose
\* reservation is still Reserved has the rest of its graph Signed.
RowsAt(b) ==
  /\ batch[b].status = "None" => reservation[b] = "None"
  /\ batch[b].status # "None" => inputs[b] # {}
  /\ batch[b].status \in {"Observed", "Constructed"} =>
       reservation[b] \in {"Reserved", "Released"}
  /\ batch[b].status = "Signed" =>
       \/ /\ reservation[b] = "Reserved"
          /\ dogeTx[b].status = "Signed" /\ process[b] = "Signed"
       \/ reservation[b] = "Broadcast"
  /\ batch[b].status = "Broadcast" =>
       /\ reservation[b] = "Broadcast"
       /\ dogeTx[b].status = "Broadcast" /\ process[b] = "Broadcast"
  /\ batch[b].status = "Confirmed" =>
       reservation[b] = "Spent" /\ SignedTx(b) \in mined
  /\ batch[b].status = "Failed" => reservation[b] = "Released"

Rows == \A b \in Batch : RowsAt(b)

\* A batch's requests at each of its stages.
RequestsAt(b) ==
  \A r \in Range(b) :
    /\ batch[b].status = "Constructed" => request[r] \in {"None", "Observed", "Constructed"}
    /\ batch[b].status = "Signed" =>
         request[r] = "Signed" \/ (reservation[b] = "Broadcast" /\ request[r] = "Broadcast")
    /\ batch[b].status = "Broadcast" => request[r] = "Broadcast"
    /\ batch[b].status = "Confirmed" => request[r] = "Confirmed"

Unclaimed(r) == \A b \in Batch : batch[b].status \in Claimed => r \notin Range(b)

\* A request that no batch has claimed is at most Observed.
Requests ==
  /\ \A b \in Batch : RequestsAt(b)
  /\ \A r \in Request : Unclaimed(r) => request[r] \in {"None", "Observed"}

\* What the operator has already written, or seen, when it comes to a call.
Progress ==
  /\ op.pc = "reserve" /\ NoopShim => op.sequence = op.cursor
  /\ op.pc = "setFailed" => reservation[op.b] = "Released"
  /\ op.pc \in {"markTx", "markProcess", "markRequestBroadcast", "markBatch"} =>
       reservation[op.b] = "Broadcast"
  /\ op.pc \in {"markProcess", "markRequestBroadcast", "markBatch"} =>
       dogeTx[op.b].status = "Broadcast"
  /\ op.pc \in {"markRequestBroadcast", "markBatch"} => process[op.b] = "Broadcast"
  /\ op.pc = "markRequestBroadcast" =>
       \A r \in Range(op.b) : r < op.i => request[r] = "Broadcast"
  /\ op.pc = "markBatch" => \A r \in Range(op.b) : request[r] = "Broadcast"
  /\ op.pc = "finalize" => SignedTx(op.b) \in mined

Holding == {"Reserved", "Broadcast", "Spent"}

\* The coins of a reservation that is not released have its status, and a coin
\* that is set aside belongs to such a reservation; a deposit that was registered
\* again over its reservation or payment may be in any status.
Held ==
  /\ \A b \in Batch : reservation[b] \in Holding =>
       \A c \in inputs[b] \ overwritten : custody[c] = reservation[b]
  /\ \A c \in Coin \ overwritten : custody[c] \in {"Reserved", "Broadcast"} =>
       \E b \in Batch : c \in inputs[b] /\ reservation[b] = custody[c]

\* A coin in the books is a deposit's, or the change of a confirmed payment.
Minted ==
  \A c \in Coin : custody[c] # "Absent" =>
    \/ c \in Deposits
    \/ c \in mined /\ batch[c[1]].status = "Confirmed"

\* No two landed snapshots carry the same Wormhole sequence (nor, under the
\* no-op shim, the start index in its place), and the Manager was given
\* transactions of landed snapshots only, each under its own sequence.
Sequences ==
  /\ NoopShim =>
       \A b \in Batch : batch[b].status # "None" => batch[b].sequence = batch[b].lo
  /\ ~NoopShim =>
       \A b \in Batch : solanaTx[b] = "Landed" => batch[b].sequence < sequence
  /\ \A b, c \in Batch :
       solanaTx[b] = "Landed" /\ solanaTx[c] = "Landed" /\ b # c =>
         batch[b].sequence # batch[c].sequence
  /\ \A s \in 0 .. MaxRequests : registered[s] # NoBatch =>
       /\ batch[registered[s]].status \in Claimed
       /\ batch[registered[s]].sequence = s

StoreInv == Rows /\ Requests /\ Progress /\ Held /\ Minted /\ Sequences

Inductive == IInv /\ StoreInv
\* What the types say, in the form the proofs below use it.
LEMMA Types ==
  ASSUME IInv
  PROVE  /\ batch \in [Batch -> BatchRow]
         /\ reservation \in [Batch -> ReservationStatus]
         /\ inputs \in [Batch -> SUBSET Coin]
         /\ change \in [Batch -> ChangeKind]
         /\ dogeTx \in [Batch -> GraphRow]
         /\ process \in [Batch -> GraphStatus]
         /\ request \in [Request -> RequestStatus]
         /\ custody \in [Coin -> CoinStatus]
         /\ cursor \in 0 .. MaxRequests /\ tip \in 0 .. MaxRequests
         /\ sequence \in 0 .. MaxRequests
         /\ solanaTx \in [Batch -> SolanaTx]
         /\ registered \in [0 .. MaxRequests -> Batch \cup {NoBatch}]
         /\ mempool \in SUBSET (Batch \X Quorums) /\ mined \in SUBSET (Batch \X Quorums)
         /\ overwritten \in SUBSET Deposits
         /\ op \in OpRow
  BY DEF IInv, TypeOK, StoreTypeOK, WorldTypeOK

\* The batch at hand, and its stage, by the call that is next (Control).
LEMMA AtHand ==
  ASSUME IInv
  PROVE  /\ op.pc \in ObservedPc => op.b \in Batch /\ batch[op.b].status = "Observed"
         /\ op.pc \in SigningPc => op.b \in Batch /\ batch[op.b].status = "Constructed"
         /\ op.pc \in SignedPc => op.b \in Batch /\ batch[op.b].status = "Signed"
         /\ op.pc \in ConfirmPc => op.b \in Batch /\ batch[op.b].status = "Broadcast"
  BY DEF IInv, Control, FreshPc, ObservedPc, SigningPc, SignedPc, ConfirmPc

\* Moving a batch to another stage keeps its range and sequence, and every other row.
LEMMA StageMove ==
  ASSUME IInv, NEW b \in Batch, NEW s \in BatchStatus, SetBatch(b, s)
  PROVE  /\ batch'[b].status = s
         /\ \A c \in Batch : /\ batch'[c].lo = batch[c].lo
                             /\ batch'[c].hi = batch[c].hi
                             /\ batch'[c].sequence = batch[c].sequence
                             /\ Range(c)' = Range(c)
         /\ \A c \in Batch \ {b} : batch'[c] = batch[c]
  BY Types DEF SetBatch, BatchRow, Range

\* A confirmed Dogecoin transaction stays confirmed.
LEMMA MinedGrows == ASSUME Next PROVE mined \subseteq mined'
<1>1. ASSUME NEW tx \in mempool, Mine(tx) PROVE mined \subseteq mined'
  BY <1>1 DEF Mine
<1>2. CASE PaymentStep
  BY <1>1, <1>2 DEF PaymentStep, ReserveSnapshot, SetConstructed, SetFailed, PersistSigned,
       BroadcastTx, MarkTx, MarkBatch, Finalize, Evict, doge
<1>3. QED BY <1>2, PaymentFrame

\* A batch none of whose rows a step writes keeps RowsAt.
LEMMA RowsFrame ==
  ASSUME IInv, Next, NEW b \in Batch, RowsAt(b),
         batch'[b] = batch[b], reservation'[b] = reservation[b], inputs'[b] = inputs[b],
         dogeTx'[b] = dogeTx[b], process'[b] = process[b]
  PROVE  RowsAt(b)'
  BY MinedGrows DEF RowsAt, SignedTx

\* Every step keeps the rows of each batch at its stage.
LEMMA RowsStep == ASSUME IInv, StoreInv, Next PROVE Rows'
<1> USE DEF At, ObservedPc, SigningPc, SignedPc, ConfirmPc
<1>t. Rows /\ Progress
  BY DEF StoreInv
<1> SUFFICES ASSUME NEW b \in Batch PROVE RowsAt(b)'
  BY DEF Rows
<1>u. RowsAt(b)
  BY <1>t DEF Rows
<1>1. CASE UNCHANGED store
  BY <1>1, <1>u, RowsFrame DEF store
<1>2. CASE RecordRequest
  BY <1>2, <1>u, RowsFrame DEF RecordRequest
<1>3. ASSUME NEW n \in Batch, NEW coins \in SUBSET Coin, NEW kind \in ChangeKind,
             ReserveSnapshot(n, coins, kind)
       PROVE  RowsAt(b)'
  <2>1. CASE b = n
    <3>1. /\ batch'[b].status = "Observed" /\ reservation'[b] = "Reserved"
          /\ inputs'[b] = coins /\ coins # {}
      BY <1>3, <2>1, Types DEF ReserveSnapshot
    <3>2. QED BY <3>1 DEF RowsAt
  <2>2. CASE b # n
    BY <1>3, <1>u, <2>2, Types, RowsFrame DEF ReserveSnapshot
  <2>3. QED BY <2>1, <2>2
<1>4. CASE SetConstructed
  <2>1. op.b \in Batch /\ batch[op.b].status = "Observed"
    BY <1>4, AtHand DEF SetConstructed
  <2>2. /\ batch'[op.b].status = "Constructed"
        /\ \A c \in Batch \ {op.b} : batch'[c] = batch[c]
    BY <1>4, <2>1, StageMove DEF SetConstructed, BatchStatus
  <2>3. UNCHANGED <<reservation, inputs, dogeTx, process>>
    BY <1>4 DEF SetConstructed
  <2>4. CASE b = op.b
    BY <1>u, <2>1, <2>2, <2>3, <2>4 DEF RowsAt
  <2>5. CASE b # op.b
    BY <1>u, <2>2, <2>3, <2>5, RowsFrame
  <2>6. QED BY <2>4, <2>5
<1>5. CASE MarkRequestConstructed
  BY <1>5, <1>u, RowsFrame DEF MarkRequestConstructed
<1>6. CASE ReleaseReservation
  <2>1. op.b \in Batch /\ batch[op.b].status = "Observed"
    BY <1>6, AtHand DEF ReleaseReservation
  <2>2. UNCHANGED <<batch, inputs, dogeTx, process>>
    BY <1>6 DEF ReleaseReservation
  <2>3. reservation'[b] = reservation[b] \/ (b = op.b /\ reservation'[b] = "Released")
    BY <1>6, Types DEF ReleaseReservation
  <2>4. QED BY <1>u, <2>1, <2>2, <2>3, RowsFrame DEF RowsAt
<1>7. CASE SetFailed
  <2>1. op.b \in Batch /\ batch[op.b].status = "Observed" /\ reservation[op.b] = "Released"
    BY <1>7, <1>t, AtHand DEF SetFailed, Progress
  <2>2. /\ batch'[op.b].status = "Failed"
        /\ \A c \in Batch \ {op.b} : batch'[c] = batch[c]
    BY <1>7, <2>1, StageMove DEF SetFailed, BatchStatus
  <2>3. UNCHANGED <<reservation, inputs, dogeTx, process>>
    BY <1>7 DEF SetFailed
  <2>4. CASE b = op.b
    BY <1>u, <2>1, <2>2, <2>3, <2>4 DEF RowsAt
  <2>5. CASE b # op.b
    BY <1>u, <2>2, <2>3, <2>5, RowsFrame
  <2>6. QED BY <2>4, <2>5
<1>8. CASE PersistSigned
  <2>1. op.b \in Batch /\ batch[op.b].status = "Constructed"
    BY <1>8, AtHand DEF PersistSigned
  <2>2. CASE reservation[op.b] = "Reserved"
    <3>1. /\ batch'[op.b].status = "Signed"
          /\ \A c \in Batch \ {op.b} : batch'[c] = batch[c]
      BY <1>8, <2>1, <2>2, StageMove DEF PersistSigned, BatchStatus
    <3>2. /\ dogeTx'[op.b].status = "Signed" /\ process'[op.b] = "Signed"
          /\ \A c \in Batch \ {op.b} : dogeTx'[c] = dogeTx[c] /\ process'[c] = process[c]
          /\ UNCHANGED <<reservation, inputs>>
      BY <1>8, <2>1, <2>2, Types DEF PersistSigned
    <3>3. CASE b = op.b
      BY <1>u, <2>1, <2>2, <3>1, <3>2, <3>3 DEF RowsAt
    <3>4. CASE b # op.b
      BY <1>u, <3>1, <3>2, <3>4, RowsFrame
    <3>5. QED BY <3>3, <3>4
  <2>3. CASE reservation[op.b] # "Reserved"
    BY <1>8, <1>u, <2>3, RowsFrame DEF PersistSigned
  <2>4. QED BY <2>2, <2>3
<1>9. CASE MarkReservation
  <2>1. op.b \in Batch /\ batch[op.b].status = "Signed"
    BY <1>9, AtHand DEF MarkReservation
  <2>2. UNCHANGED <<batch, inputs, dogeTx, process>>
    BY <1>9 DEF MarkReservation
  <2>3. reservation'[b] = reservation[b] \/ (b = op.b /\ reservation'[b] = "Broadcast")
    BY <1>9, Types DEF MarkReservation
  <2>4. QED BY <1>u, <2>1, <2>2, <2>3, RowsFrame DEF RowsAt
<1>10. CASE MarkTx
  <2>1. /\ op.b \in Batch /\ batch[op.b].status = "Signed"
        /\ reservation[op.b] = "Broadcast"
    BY <1>10, <1>t, AtHand DEF MarkTx, Progress
  <2>2. /\ UNCHANGED <<batch, reservation, inputs, process>>
        /\ \A c \in Batch \ {op.b} : dogeTx'[c] = dogeTx[c]
    BY <1>10, Types DEF MarkTx
  <2>3. QED BY <1>u, <2>1, <2>2, RowsFrame DEF RowsAt
<1>11. CASE MarkProcess
  <2>1. /\ op.b \in Batch /\ batch[op.b].status = "Signed"
        /\ reservation[op.b] = "Broadcast"
    BY <1>11, <1>t, AtHand DEF MarkProcess, Progress
  <2>2. /\ UNCHANGED <<batch, reservation, inputs, dogeTx>>
        /\ \A c \in Batch \ {op.b} : process'[c] = process[c]
    BY <1>11, Types DEF MarkProcess
  <2>3. QED BY <1>u, <2>1, <2>2, RowsFrame DEF RowsAt
<1>12. CASE MarkRequestBroadcast
  BY <1>12, <1>u, RowsFrame DEF MarkRequestBroadcast
<1>13. CASE MarkBatch
  <2>1. /\ op.b \in Batch /\ batch[op.b].status = "Signed"
        /\ reservation[op.b] = "Broadcast"
        /\ dogeTx[op.b].status = "Broadcast" /\ process[op.b] = "Broadcast"
    BY <1>13, <1>t, AtHand DEF MarkBatch, Progress
  <2>2. /\ batch'[op.b].status = "Broadcast"
        /\ \A c \in Batch \ {op.b} : batch'[c] = batch[c]
    BY <1>13, <2>1, StageMove DEF MarkBatch, BatchStatus
  <2>3. UNCHANGED <<reservation, inputs, dogeTx, process>>
    BY <1>13 DEF MarkBatch
  <2>4. CASE b = op.b
    BY <1>u, <2>1, <2>2, <2>3, <2>4 DEF RowsAt
  <2>5. CASE b # op.b
    BY <1>u, <2>2, <2>3, <2>5, RowsFrame
  <2>6. QED BY <2>4, <2>5
<1>14. CASE Finalize
  <2>1. /\ op.b \in Batch /\ batch[op.b].status = "Broadcast"
        /\ SignedTx(op.b) \in mined
    BY <1>14, <1>t, AtHand DEF Finalize, Progress
  <2>2. /\ batch'[op.b].status = "Confirmed"
        /\ \A c \in Batch \ {op.b} : batch'[c] = batch[c]
    BY <1>14, <2>1, StageMove DEF Finalize, BatchStatus
  <2>3. /\ reservation'[op.b] = "Spent" /\ dogeTx'[op.b].quorum = dogeTx[op.b].quorum
        /\ \A c \in Batch \ {op.b} : /\ dogeTx'[c] = dogeTx[c] /\ process'[c] = process[c]
                                      /\ reservation'[c] = reservation[c]
        /\ UNCHANGED <<inputs, mined>>
    BY <1>14, <2>1, Types DEF Finalize, GraphRow, doge
  <2>4. CASE b = op.b
    BY <1>u, <2>1, <2>2, <2>3, <2>4 DEF RowsAt, SignedTx
  <2>5. CASE b # op.b
    BY <1>u, <2>2, <2>3, <2>5, RowsFrame
  <2>6. QED BY <2>4, <2>5
<1>15. ASSUME NEW d \in Deposits, RegisterDeposit(d) PROVE RowsAt(b)'
  BY <1>15, <1>u, RowsFrame DEF RegisterDeposit
<1>q. QED BY <1>1, <1>2, <1>3, <1>4, <1>5, <1>6, <1>7, <1>8, <1>9, <1>10, <1>11,
           <1>12, <1>13, <1>14, <1>15, StoreFrame DEF StoreWrite

\* A persisted batch's range lies among the requests that exist.
LEMMA RangeExists ==
  ASSUME IInv, NEW b \in Batch, batch[b].status # "None"
  PROVE  Range(b) \subseteq Request
<1>1. batch[b].lo \in 0 .. MaxRequests /\ batch[b].hi \in 0 .. MaxRequests
  BY Types DEF BatchRow
<1>2. QED BY <1>1, BoundsAssumption DEF Range, Request

\* The ranges of two landed snapshots share no request.
LEMMA LandedDisjoint ==
  ASSUME IInv, NEW b \in Batch, NEW c \in Batch, b # c,
         solanaTx[b] = "Landed", solanaTx[c] = "Landed"
  PROVE  Range(b) \cap Range(c) = {}
<1>1. batch[b].hi <= batch[c].lo \/ batch[c].hi <= batch[b].lo
  BY DEF IInv, Landings
<1>2. /\ batch[b].lo \in Int /\ batch[b].hi \in Int
      /\ batch[c].lo \in Int /\ batch[c].hi \in Int
  BY Types DEF BatchRow
<1>3. QED BY <1>1, <1>2 DEF Range

\* A batch that has claimed its requests has landed.
LEMMA ClaimedLanded ==
  ASSUME IInv, NEW b \in Batch, batch[b].status \in Claimed
  PROVE  solanaTx[b] = "Landed"
  BY DEF IInv, Landings, Claimed

\* The call that is next works on a request of the batch at hand.
LEMMA LoopRange ==
  ASSUME IInv, op.pc \in {"markRequests", "markRequestBroadcast"}
  PROVE  op.i \in Range(op.b) /\ op.i \in Request
<1>1. op.b \in Batch /\ batch[op.b].status # "None"
  BY AtHand DEF SigningPc, SignedPc
<1>2. op.i \in Int /\ batch[op.b].lo \in Int /\ batch[op.b].hi \in Int
  BY <1>1, Types DEF BatchRow, OpRow
<1>3. op.i \in Range(op.b)
  BY <1>2 DEF IInv, Locals, Range
<1>4. QED BY <1>1, <1>3, RangeExists

\* A batch whose stage, range, reservation and requests a step leaves alone keeps
\* RequestsAt.
LEMMA RequestsFrame ==
  ASSUME NEW b \in Batch, RequestsAt(b),
         batch'[b].status = batch[b].status, Range(b)' = Range(b),
         reservation'[b] = reservation[b],
         \A r \in Range(b) : request'[r] = request[r]
  PROVE  RequestsAt(b)'
  BY DEF RequestsAt

\* A step that writes requests of the batch at hand only, claimed or landed, keeps
\* every other batch's requests.
LEMMA OtherRequests ==
  ASSUME IInv, StoreInv, op.b \in Batch, solanaTx[op.b] = "Landed",
         \A c \in Batch \ {op.b} : /\ batch'[c] = batch[c]
                                   /\ reservation'[c] = reservation[c],
         \A r \in Request \ Range(op.b) : request'[r] = request[r],
         NEW b \in Batch, b # op.b
  PROVE  RequestsAt(b)'
<1>1. RequestsAt(b)
  BY DEF StoreInv, Requests
<1>2. batch'[b] = batch[b] /\ Range(b)' = Range(b)
  BY DEF Range
<1>3. CASE batch[b].status \in Claimed
  <2>1. Range(b) \subseteq Request \ Range(op.b)
    BY <1>3, ClaimedLanded, LandedDisjoint, RangeExists DEF Claimed
  <2>2. QED BY <1>1, <1>2, <2>1, RequestsFrame
<1>4. CASE batch[b].status \notin Claimed
  BY <1>2, <1>4 DEF RequestsAt, Claimed
<1>5. QED BY <1>3, <1>4

\* Every step keeps the requests of each batch at its stage.
LEMMA RequestsStep == ASSUME IInv, StoreInv, Next PROVE Requests'
<1> USE DEF At, ObservedPc, SigningPc, SignedPc, ConfirmPc
<1>t. Rows /\ Progress /\ \A b \in Batch : RequestsAt(b)
  BY DEF StoreInv, Requests
<1>u. ASSUME NEW r \in Request, Unclaimed(r) PROVE request[r] \in {"None", "Observed"}
  BY <1>u DEF StoreInv, Requests
<1>f. ASSUME UNCHANGED <<batch, reservation>>,
             \A r \in Request : \/ request'[r] = request[r]
                               \/ (request[r] = "None" /\ request'[r] = "Observed")
      PROVE  Requests'
  <2>1. ASSUME NEW b \in Batch PROVE RequestsAt(b)'
    <3>1. CASE batch[b].status \in Claimed
      BY <1>f, <1>t, <3>1, RangeExists DEF RequestsAt, Claimed, Range
    <3>2. CASE batch[b].status \notin Claimed
      BY <1>f, <3>2 DEF RequestsAt, Claimed
    <3>3. QED BY <3>1, <3>2
  <2>2. ASSUME NEW r \in Request, Unclaimed(r)' PROVE request'[r] \in {"None", "Observed"}
    BY <1>f, <1>u, <2>2 DEF Unclaimed, Range
  <2>3. QED BY <2>1, <2>2 DEF Requests
<1>1. CASE UNCHANGED store
  BY <1>1, <1>f DEF store
<1>2. CASE RecordRequest
  <2>1. op.i \in Request => request'[op.i] = IF request[op.i] = "None" THEN "Observed" ELSE request[op.i]
    BY <1>2, Types DEF RecordRequest
  <2>2. \A r \in Request \ {op.i} : request'[r] = request[r]
    BY <1>2, Types DEF RecordRequest
  <2>3. UNCHANGED <<batch, reservation>>
    BY <1>2 DEF RecordRequest
  <2>4. QED BY <1>f, <2>1, <2>2, <2>3
<1>3. ASSUME NEW n \in Batch, NEW coins \in SUBSET Coin, NEW kind \in ChangeKind,
             ReserveSnapshot(n, coins, kind)
       PROVE  Requests'
  <2>1. /\ batch[n].status = "None" /\ batch'[n].status = "Observed"
        /\ UNCHANGED request
        /\ \A b \in Batch \ {n} : /\ batch'[b] = batch[b] /\ Range(b)' = Range(b)
                                  /\ reservation'[b] = reservation[b]
    BY <1>3, Types DEF ReserveSnapshot, Range
  <2>2. ASSUME NEW b \in Batch PROVE RequestsAt(b)'
    <3>1. CASE b = n
      BY <2>1, <3>1 DEF RequestsAt
    <3>2. CASE b # n
      BY <1>t, <2>1, <3>2, RequestsFrame
    <3>3. QED BY <3>1, <3>2
  <2>3. ASSUME NEW r \in Request, Unclaimed(r)' PROVE request'[r] \in {"None", "Observed"}
    <3>1. Unclaimed(r)
      BY <2>1, <2>3 DEF Unclaimed, Claimed
    <3>2. QED BY <1>u, <2>1, <3>1
  <2>4. QED BY <2>2, <2>3 DEF Requests
<1>4. CASE SetConstructed
  <2>1. /\ op.b \in Batch /\ batch[op.b].status = "Observed"
        /\ solanaTx[op.b] = "Landed"
    BY <1>4, AtHand DEF SetConstructed, IInv, Locals
  <2>2. /\ batch'[op.b].status = "Constructed"
        /\ \A c \in Batch \ {op.b} : batch'[c] = batch[c]
        /\ \A c \in Batch : Range(c)' = Range(c)
        /\ UNCHANGED <<request, reservation>>
    BY <1>4, <2>1, StageMove DEF SetConstructed, BatchStatus
  <2>3. ASSUME NEW r \in Range(op.b) PROVE request[r] \in {"None", "Observed"}
    <3>1. r \in Request
      BY <2>1, RangeExists
    <3>2. Unclaimed(r)
      BY <2>1, ClaimedLanded, LandedDisjoint DEF Unclaimed, Claimed
    <3>3. QED BY <1>u, <3>1, <3>2
  <2>4. \A b \in Batch : b = op.b => RequestsAt(b)'
    BY <2>2, <2>3 DEF RequestsAt
  <2>5. \A b \in Batch \ {op.b} : RequestsAt(b)'
    BY <2>1, <2>2, OtherRequests
  <2>6. ASSUME NEW r \in Request, Unclaimed(r)' PROVE request'[r] \in {"None", "Observed"}
    <3>1. Unclaimed(r)
      BY <2>1, <2>2, <2>6 DEF Unclaimed, Claimed
    <3>2. QED BY <1>u, <2>2, <3>1
  <2>7. QED BY <2>4, <2>5, <2>6 DEF Requests
<1>5. CASE MarkRequestConstructed
  <2>1. /\ op.b \in Batch /\ batch[op.b].status = "Constructed"
        /\ op.i \in Range(op.b) /\ op.i \in Request
    BY <1>5, AtHand, LoopRange DEF MarkRequestConstructed
  <2>2. /\ UNCHANGED <<batch, reservation>>
        /\ request'[op.i] = "Constructed"
        /\ \A r \in Request \ {op.i} : request'[r] = request[r]
    BY <1>5, <2>1, Types DEF MarkRequestConstructed
  <2>3. \A b \in Batch : b = op.b => RequestsAt(b)'
    BY <1>t, <2>1, <2>2, RangeExists DEF RequestsAt, Range
  <2>4. \A b \in Batch \ {op.b} : RequestsAt(b)'
    BY <2>1, <2>2, ClaimedLanded, OtherRequests DEF Claimed
  <2>5. ASSUME NEW r \in Request, Unclaimed(r)' PROVE request'[r] \in {"None", "Observed"}
    <3>1. Unclaimed(r)
      BY <2>2, <2>5 DEF Unclaimed, Range
    <3>2. r # op.i
      BY <2>1, <3>1 DEF Unclaimed, Claimed
    <3>3. QED BY <1>u, <2>2, <3>1, <3>2
  <2>6. QED BY <2>3, <2>4, <2>5 DEF Requests
<1>6. CASE ReleaseReservation
  <2>1. op.b \in Batch /\ batch[op.b].status = "Observed"
    BY <1>6, AtHand DEF ReleaseReservation
  <2>2. /\ UNCHANGED <<batch, request>>
        /\ \A b \in Batch : Range(b)' = Range(b)
        /\ \A b \in Batch \ {op.b} : reservation'[b] = reservation[b]
    BY <1>6, Types DEF ReleaseReservation, Range
  <2>3. ASSUME NEW b \in Batch PROVE RequestsAt(b)'
    <3>1. CASE b = op.b
      BY <2>1, <2>2, <3>1 DEF RequestsAt
    <3>2. CASE b # op.b
      BY <1>t, <2>2, <3>2, RequestsFrame
    <3>3. QED BY <3>1, <3>2
  <2>4. ASSUME NEW r \in Request, Unclaimed(r)' PROVE request'[r] \in {"None", "Observed"}
    BY <1>u, <2>2, <2>4 DEF Unclaimed
  <2>5. QED BY <2>3, <2>4 DEF Requests
<1>7. CASE SetFailed
  <2>1. op.b \in Batch /\ batch[op.b].status = "Observed"
    BY <1>7, AtHand DEF SetFailed
  <2>2. /\ batch'[op.b].status = "Failed"
        /\ \A c \in Batch \ {op.b} : batch'[c] = batch[c]
        /\ \A c \in Batch : Range(c)' = Range(c)
        /\ UNCHANGED <<request, reservation>>
    BY <1>7, <2>1, StageMove DEF SetFailed, BatchStatus
  <2>3. ASSUME NEW b \in Batch PROVE RequestsAt(b)'
    <3>1. CASE b = op.b
      BY <2>1, <2>2, <3>1 DEF RequestsAt
    <3>2. CASE b # op.b
      BY <1>t, <2>2, <3>2, RequestsFrame
    <3>3. QED BY <3>1, <3>2
  <2>4. ASSUME NEW r \in Request, Unclaimed(r)' PROVE request'[r] \in {"None", "Observed"}
    <3>1. Unclaimed(r)
      BY <2>1, <2>2, <2>4 DEF Unclaimed, Claimed
    <3>2. QED BY <1>u, <2>2, <3>1
  <2>5. QED BY <2>3, <2>4 DEF Requests
<1>8. CASE PersistSigned
  <2>1. op.b \in Batch /\ batch[op.b].status = "Constructed"
    BY <1>8, AtHand DEF PersistSigned
  <2>2. CASE reservation[op.b] = "Reserved"
    <3>1. /\ batch'[op.b].status = "Signed"
          /\ \A c \in Batch \ {op.b} : batch'[c] = batch[c]
          /\ \A c \in Batch : Range(c)' = Range(c)
      BY <1>8, <2>1, <2>2, StageMove DEF PersistSigned, BatchStatus
    <3>2. /\ UNCHANGED reservation
          /\ \A r \in Request : request'[r] = IF r \in Range(op.b) THEN "Signed" ELSE request[r]
      BY <1>8, <2>2 DEF PersistSigned, SetRange
    <3>3. \A b \in Batch : b = op.b => RequestsAt(b)'
      BY <2>1, <3>1, <3>2, RangeExists DEF RequestsAt
    <3>4. \A b \in Batch \ {op.b} : RequestsAt(b)'
      BY <2>1, <3>1, <3>2, ClaimedLanded, OtherRequests DEF Claimed
    <3>5. ASSUME NEW r \in Request, Unclaimed(r)' PROVE request'[r] \in {"None", "Observed"}
      <4>1. Unclaimed(r)
        BY <2>1, <3>1, <3>5 DEF Unclaimed, Claimed
      <4>2. QED BY <1>u, <2>1, <3>2, <4>1 DEF Unclaimed, Claimed
    <3>6. QED BY <3>3, <3>4, <3>5 DEF Requests
  <2>3. CASE reservation[op.b] # "Reserved"
    BY <1>8, <1>f, <2>3 DEF PersistSigned
  <2>4. QED BY <2>2, <2>3
<1>9. CASE MarkReservation
  <2>1. op.b \in Batch /\ batch[op.b].status = "Signed"
    BY <1>9, AtHand DEF MarkReservation
  <2>2. /\ UNCHANGED <<batch, request>>
        /\ \A b \in Batch : Range(b)' = Range(b)
        /\ \A b \in Batch \ {op.b} : reservation'[b] = reservation[b]
        /\ reservation'[op.b] = reservation[op.b] \/ reservation'[op.b] = "Broadcast"
    BY <1>9, <2>1, Types DEF MarkReservation, Range
  <2>3. ASSUME NEW b \in Batch PROVE RequestsAt(b)'
    <3>1. CASE b = op.b
      BY <1>t, <2>1, <2>2, <3>1 DEF RequestsAt
    <3>2. CASE b # op.b
      BY <1>t, <2>2, <3>2, RequestsFrame
    <3>3. QED BY <3>1, <3>2
  <2>4. ASSUME NEW r \in Request, Unclaimed(r)' PROVE request'[r] \in {"None", "Observed"}
    BY <1>u, <2>2, <2>4 DEF Unclaimed
  <2>5. QED BY <2>3, <2>4 DEF Requests
<1>10. CASE MarkTx
  BY <1>10, <1>f DEF MarkTx
<1>11. CASE MarkProcess
  BY <1>11, <1>f DEF MarkProcess
<1>12. CASE MarkRequestBroadcast
  <2>1. /\ op.b \in Batch /\ batch[op.b].status = "Signed"
        /\ op.i \in Range(op.b) /\ op.i \in Request
        /\ reservation[op.b] = "Broadcast"
    BY <1>12, <1>t, AtHand, LoopRange DEF MarkRequestBroadcast, Progress
  <2>2. /\ UNCHANGED <<batch, reservation>>
        /\ request'[op.i] = "Broadcast"
        /\ \A r \in Request \ {op.i} : request'[r] = request[r]
    BY <1>12, <2>1, Types DEF MarkRequestBroadcast
  <2>3. \A b \in Batch : b = op.b => RequestsAt(b)'
    BY <1>t, <2>1, <2>2, RangeExists DEF RequestsAt, Range
  <2>4. \A b \in Batch \ {op.b} : RequestsAt(b)'
    BY <2>1, <2>2, ClaimedLanded, OtherRequests DEF Claimed
  <2>5. ASSUME NEW r \in Request, Unclaimed(r)' PROVE request'[r] \in {"None", "Observed"}
    <3>1. Unclaimed(r)
      BY <2>2, <2>5 DEF Unclaimed, Range
    <3>2. r # op.i
      BY <2>1, <3>1 DEF Unclaimed, Claimed
    <3>3. QED BY <1>u, <2>2, <3>1, <3>2
  <2>6. QED BY <2>3, <2>4, <2>5 DEF Requests
<1>13. CASE MarkBatch
  <2>1. /\ op.b \in Batch /\ batch[op.b].status = "Signed"
        /\ \A r \in Range(op.b) : request[r] = "Broadcast"
    BY <1>13, <1>t, AtHand DEF MarkBatch, Progress
  <2>2. /\ batch'[op.b].status = "Broadcast"
        /\ \A c \in Batch \ {op.b} : batch'[c] = batch[c]
        /\ \A c \in Batch : Range(c)' = Range(c)
        /\ UNCHANGED <<request, reservation>>
    BY <1>13, <2>1, StageMove DEF MarkBatch, BatchStatus
  <2>3. \A b \in Batch : b = op.b => RequestsAt(b)'
    BY <2>1, <2>2 DEF RequestsAt
  <2>4. \A b \in Batch \ {op.b} : RequestsAt(b)'
    BY <2>1, <2>2, ClaimedLanded, OtherRequests DEF Claimed
  <2>5. ASSUME NEW r \in Request, Unclaimed(r)' PROVE request'[r] \in {"None", "Observed"}
    <3>1. Unclaimed(r)
      BY <2>1, <2>2, <2>5 DEF Unclaimed, Claimed
    <3>2. QED BY <1>u, <2>2, <3>1
  <2>6. QED BY <2>3, <2>4, <2>5 DEF Requests
<1>14. CASE Finalize
  <2>1. op.b \in Batch /\ batch[op.b].status = "Broadcast"
    BY <1>14, AtHand DEF Finalize
  <2>2. /\ batch'[op.b].status = "Confirmed"
        /\ \A c \in Batch \ {op.b} : batch'[c] = batch[c] /\ reservation'[c] = reservation[c]
        /\ \A c \in Batch : Range(c)' = Range(c)
        /\ \A r \in Request : request'[r] = IF r \in Range(op.b) THEN "Confirmed" ELSE request[r]
    BY <1>14, <2>1, StageMove, Types DEF Finalize, SetRange, BatchStatus
  <2>3. \A b \in Batch : b = op.b => RequestsAt(b)'
    BY <2>1, <2>2, RangeExists DEF RequestsAt
  <2>4. \A b \in Batch \ {op.b} : RequestsAt(b)'
    BY <2>1, <2>2, ClaimedLanded, OtherRequests DEF Claimed
  <2>5. ASSUME NEW r \in Request, Unclaimed(r)' PROVE request'[r] \in {"None", "Observed"}
    <3>1. Unclaimed(r)
      BY <2>1, <2>2, <2>5 DEF Unclaimed, Claimed
    <3>2. QED BY <1>u, <2>1, <2>2, <3>1 DEF Unclaimed, Claimed
  <2>6. QED BY <2>3, <2>4, <2>5 DEF Requests
<1>15. ASSUME NEW d \in Deposits, RegisterDeposit(d) PROVE Requests'
  BY <1>15, <1>f DEF RegisterDeposit
<1>q. QED BY <1>1, <1>2, <1>3, <1>4, <1>5, <1>6, <1>7, <1>8, <1>9, <1>10, <1>11,
           <1>12, <1>13, <1>14, <1>15, StoreFrame DEF StoreWrite

\* The calls at which Progress says something.
Counted == {"reserve", "setFailed", "markTx", "markProcess", "markRequestBroadcast",
            "markBatch", "finalize"}

\* A step comes to one of these calls, stays at it while something else happens,
\* or leaves them.
LEMMA ProgressFrame ==
  ASSUME IInv, Next
  PROVE  \/ op'.pc \notin Counted
         \/ UNCHANGED <<batch, reservation, dogeTx, process, request, op>>
         \/ ReadSequence \/ ReleaseReservation \/ MarkReservation \/ MarkTx
         \/ MarkProcess \/ MarkRequestBroadcast \/ CheckMined
<1> USE DEF Counted, At, Goto, Ensure, Idle
<1>t. op \in OpRow
  BY Types
<1>1. CASE DecideObserved
  <2>1. op' = Idle \/ \E p \in {"finish", "await", "submit", "release"} : op' = [op EXCEPT !.pc = p]
    BY <1>1, DecideOutcome
  <2>2. QED BY <1>t, <2>1 DEF OpRow
<1>2. CASE Environment
  BY <1>2, <1>t DEF Environment, NewRequest, RegisterDeposit, Land, Expire, Mine, Crash,
       DaemonStops, DaemonStarts, ManagerRestart, Evict, store
<1>3. CASE PollIdle
  BY <1>3, <1>t DEF PollIdle, vars, store
<1>4. CASE PollFresh
  BY <1>4, <1>t DEF PollFresh, OpRow
<1>5. CASE LoadHistory
  BY <1>5, <1>t DEF LoadHistory, OpRow
<1>6. CASE ReadState
  <2>1. op' = [op EXCEPT !.pc = "record", !.i = cursor] \/ op' = Idle
    BY <1>6 DEF ReadState
  <2>2. CASE op' = [op EXCEPT !.pc = "record", !.i = cursor]
    BY <1>t, <2>2 DEF OpRow
  <2>3. CASE op' = Idle
    BY <2>3
  <2>4. QED BY <2>1, <2>2, <2>3
<1>7. CASE RecordRequest
  BY <1>7, <1>t DEF RecordRequest, OpRow
<1>9. CASE \E b \in Batch, coins \in SUBSET Coin, kind \in ChangeKind :
              ReserveSnapshot(b, coins, kind)
  BY <1>9, <1>t DEF ReserveSnapshot
<1>10. CASE ReserveInsufficient
  BY <1>10, <1>t DEF ReserveInsufficient
<1>11. CASE Submit
  BY <1>11, <1>t DEF Submit, OpRow
<1>12. CASE SubmitRejected
  BY <1>12, <1>t DEF SubmitRejected
<1>13. CASE AwaitMetadata
  BY <1>13, <1>t DEF AwaitMetadata, OpRow
<1>14. CASE AwaitTimeout
  BY <1>14, <1>t DEF AwaitTimeout
<1>15. CASE FinishSnapshot
  BY <1>15, <1>t DEF FinishSnapshot, OpRow
<1>16. CASE CheckSequence
  BY <1>16, <1>t DEF CheckSequence, OpRow
<1>17. CASE SetConstructed
  BY <1>17, <1>t DEF SetConstructed, OpRow
<1>18. CASE SetFailed
  BY <1>18, <1>t DEF SetFailed
<1>19. CASE \E b \in Batch : ResumeObserved(b)
  BY <1>19, <1>t DEF ResumeObserved, OpRow
<1>20. CASE ReadCursor
  BY <1>20, <1>t DEF ReadCursor, OpRow
<1>21. CASE ReadStatus
  BY <1>21, <1>t DEF ReadStatus, OpRow
<1>22. CASE \E found \in BOOLEAN : ReadMetadata(found)
  BY <1>22, <1>t DEF ReadMetadata, OpRow
<1>23. CASE MarkRequestConstructed
  BY <1>23, <1>t DEF MarkRequestConstructed, OpRow
<1>24. CASE \E b \in Batch : ResumeConstructed(b)
  BY <1>24, <1>t DEF ResumeConstructed, OpRow
<1>25. CASE Register
  BY <1>25, <1>t DEF Register, OpRow
<1>26. CASE SigningTimeout
  BY <1>26, <1>t DEF SigningTimeout
<1>27. CASE PersistSigned
  BY <1>27, <1>t DEF PersistSigned, OpRow
<1>28. CASE \E q \in Quorums : FetchSignatures(q)
  BY <1>28, <1>t DEF FetchSignatures, OpRow
<1>29. ASSUME NEW b \in Batch, ResumeSigned(b) PROVE op'.pc \notin Counted
  <2>1. op' = [op EXCEPT !.pc = "broadcast", !.b = b] \/ op' = Idle
    BY <1>29 DEF ResumeSigned
  <2>2. CASE op' = Idle
    BY <2>2
  <2>3. CASE op' = [op EXCEPT !.pc = "broadcast", !.b = b]
    <3>1. op'.pc = "broadcast"
      BY <1>t, <2>3 DEF OpRow
    <3>2. QED BY <3>1
  <2>4. QED BY <2>1, <2>2, <2>3
<1>30. ASSUME NEW b \in Batch, ResumeTransition(b) PROVE op'.pc \notin Counted
  <2>1. \/ op' = [op EXCEPT !.pc = "markReservation", !.b = b, !.recovering = TRUE]
        \/ op' = Idle
    BY <1>30 DEF ResumeTransition
  <2>2. CASE op' = Idle
    BY <2>2
  <2>3. CASE op' = [op EXCEPT !.pc = "markReservation", !.b = b, !.recovering = TRUE]
    <3>1. op'.pc = "markReservation"
      BY <1>t, <2>3 DEF OpRow
    <3>2. QED BY <3>1
  <2>4. QED BY <2>1, <2>2, <2>3
<1>31. CASE BroadcastTx
  BY <1>31, <1>t DEF BroadcastTx, OpRow
<1>32. CASE MarkBatch
  BY <1>32, <1>t DEF MarkBatch, OpRow
<1>33. CASE \E b \in Batch : ResumeBroadcast(b)
  BY <1>33, <1>t DEF ResumeBroadcast, OpRow
<1>34. CASE Finalize
  BY <1>34, <1>t DEF Finalize
<1> HIDE DEF At, Goto, Ensure
<1>q. QED BY <1>1, <1>2, <1>3, <1>4, <1>5, <1>6, <1>7, <1>9, <1>10, <1>11,
       <1>12, <1>13, <1>14, <1>15, <1>16, <1>17, <1>18, <1>19, <1>20, <1>21, <1>22,
       <1>23, <1>24, <1>25, <1>26, <1>27, <1>28, <1>29, <1>30, <1>31, <1>32, <1>33,
       <1>34
  DEF Next, Operator, FreshStep, ObservedStep, SigningStep, BroadcastStep, ConfirmStep

\* Every step leaves behind what the next call counts on.
LEMMA ProgressStep == ASSUME IInv, StoreInv, Next PROVE Progress'
<1> USE DEF At, Goto, Ensure, Idle, ObservedPc, SigningPc, SignedPc, ConfirmPc
<1>t. op \in OpRow /\ Rows /\ Requests /\ Progress
  BY Types DEF StoreInv
<1>1. CASE op'.pc \notin Counted
  BY <1>1 DEF Progress, Counted
<1>2. CASE UNCHANGED <<batch, reservation, dogeTx, process, request, op>>
  BY <1>2, <1>t, MinedGrows DEF Progress, SignedTx, Range
<1>3. CASE ReleaseReservation
  <2>1. /\ op.b \in Batch /\ op'.pc = "setFailed" /\ op'.b = op.b
        /\ reservation[op.b] \in {"Reserved", "Released"}
    BY <1>3, <1>t, AtHand DEF ReleaseReservation, OpRow, Rows, RowsAt
  <2>2. reservation'[op.b] = "Released"
    BY <1>3, <2>1, Types DEF ReleaseReservation
  <2>3. QED BY <2>1, <2>2 DEF Progress
<1>4. CASE MarkReservation
  <2>1. op.b \in Batch /\ reservation[op.b] \in {"Reserved", "Broadcast"}
    BY <1>4, <1>t, AtHand DEF MarkReservation, Rows, RowsAt
  <2>2. \/ op'.pc = "idle"
        \/ op'.pc = "markTx" /\ op'.b = op.b /\ reservation'[op.b] = "Broadcast"
    BY <1>4, <1>t, <2>1, Types DEF MarkReservation, OpRow
  <2>3. QED BY <2>2 DEF Progress
<1>5. CASE MarkTx
  <2>1. op.b \in Batch /\ reservation[op.b] = "Broadcast"
    BY <1>5, <1>t, AtHand DEF MarkTx, Progress
  <2>2. dogeTx'[op.b].status = "Broadcast" /\ reservation' = reservation
    BY <1>5, <2>1, Types DEF MarkTx, GraphRow
  <2>3. op'.pc = "markProcess" /\ op'.b = op.b
    BY <1>5, <1>t DEF MarkTx, OpRow
  <2>4. QED BY <2>1, <2>2, <2>3 DEF Progress
<1>6. CASE MarkProcess
  <2>1. /\ op.b \in Batch /\ reservation[op.b] = "Broadcast"
        /\ dogeTx[op.b].status = "Broadcast"
    BY <1>6, <1>t, AtHand DEF MarkProcess, Progress
  <2>2. process'[op.b] = "Broadcast" /\ UNCHANGED <<batch, reservation, dogeTx>>
    BY <1>6, <2>1, Types DEF MarkProcess
  <2>3. op'.pc = "markRequestBroadcast" /\ op'.b = op.b /\ op'.i = batch[op.b].lo
    BY <1>6, <1>t DEF MarkProcess, OpRow
  <2>4. \A r \in batch[op.b].lo .. batch[op.b].hi - 1 : ~(r < batch[op.b].lo)
    BY <2>1, Types DEF BatchRow
  <2>5. QED BY <2>1, <2>2, <2>3, <2>4 DEF Progress, Range
<1>7. CASE MarkRequestBroadcast
  <2>1. /\ op.b \in Batch /\ op.i \in Request /\ batch[op.b].status # "None"
        /\ reservation[op.b] = "Broadcast"
        /\ dogeTx[op.b].status = "Broadcast" /\ process[op.b] = "Broadcast"
        /\ \A r \in Range(op.b) : r < op.i => request[r] = "Broadcast"
    BY <1>7, <1>t, AtHand, LoopRange DEF MarkRequestBroadcast, Progress
  <2>2. Range(op.b) \subseteq Request /\ op.i \in Int
    BY <2>1, RangeExists, BoundsAssumption DEF Request
  <2>3. /\ UNCHANGED <<batch, reservation, dogeTx, process>>
        /\ request'[op.i] = "Broadcast"
        /\ \A r \in Request \ {op.i} : request'[r] = request[r]
    BY <1>7, <2>1, Types DEF MarkRequestBroadcast
  <2>4. \A r \in Range(op.b) : r < op.i + 1 => request'[r] = "Broadcast"
    BY <2>1, <2>2, <2>3 DEF Range
  <2>5. CASE op.i + 1 < batch[op.b].hi
    <3>1. op'.pc = "markRequestBroadcast" /\ op'.b = op.b /\ op'.i = op.i + 1
      BY <1>7, <1>t, <2>5 DEF MarkRequestBroadcast, OpRow
    <3>2. QED BY <2>1, <2>3, <2>4, <3>1 DEF Progress, Range
  <2>6. CASE ~(op.i + 1 < batch[op.b].hi)
    <3>1. op'.pc = "markBatch" /\ op'.b = op.b
      BY <1>7, <1>t, <2>6 DEF MarkRequestBroadcast, OpRow
    <3>2. \A r \in Range(op.b) : r < op.i + 1
      BY <2>1, <2>2, <2>6, Types DEF Range, BatchRow
    <3>3. QED BY <2>1, <2>3, <2>4, <3>1, <3>2 DEF Progress, Range
  <2>7. QED BY <2>5, <2>6
<1>8. CASE CheckMined
  <2>1. \/ op'.pc = "idle"
        \/ op'.pc = "finalize" /\ op'.b = op.b /\ SignedTx(op.b) \in mined
    BY <1>8, <1>t DEF CheckMined, OpRow
  <2>2. UNCHANGED <<dogeTx, mined>>
    BY <1>8 DEF CheckMined, store, doge
  <2>3. QED BY <2>1, <2>2 DEF Progress, SignedTx
<1>9. CASE ReadSequence
  <2>1. /\ op'.pc = "reserve" /\ op'.cursor = op.cursor
        /\ op'.sequence = SequenceFor(op.cursor, sequence)
    BY <1>9, <1>t DEF ReadSequence, OpRow
  <2>2. QED BY <2>1 DEF Progress, SequenceFor
<1>q. QED BY <1>1, <1>2, <1>3, <1>4, <1>5, <1>6, <1>7, <1>8, <1>9, ProgressFrame

\* Only the batch at hand can have its coins set aside: a reservation is Reserved
\* or Broadcast while its batch is incomplete, and one batch is.
LEMMA OneReservation ==
  ASSUME IInv, StoreInv, NEW b \in Batch, NEW c \in Batch,
         reservation[b] \in {"Reserved", "Broadcast"},
         reservation[c] \in {"Reserved", "Broadcast"}
  PROVE  b = c
<1>1. ASSUME NEW d \in Batch, reservation[d] \in {"Reserved", "Broadcast"}
      PROVE  batch[d].status \in Incomplete
  <2>1. RowsAt(d) /\ batch[d].status \in BatchStatus
    BY Types DEF StoreInv, Rows, BatchRow
  <2>2. QED BY <1>1, <2>1 DEF RowsAt, BatchStatus, Incomplete
<1>2. QED BY <1>1 DEF IInv, Control

\* The change coin of the payment that is about to be booked is not in the books.
LEMMA ChangeIsNew ==
  ASSUME IInv, StoreInv, op.pc = "finalize"
  PROVE  /\ ConfirmedChange(op.b) \subseteq Coin
         /\ \A c \in ConfirmedChange(op.b) : /\ custody[c] = "Absent" /\ c \notin Deposits
                                             /\ c \in mined /\ c[1] = op.b
         /\ ConfirmedChange(op.b) \cap inputs[op.b] = {}
<1>1. op.b \in Batch /\ batch[op.b].status = "Broadcast"
  BY AtHand DEF ConfirmPc
<1>2. SignedTx(op.b) \in mined /\ SignedTx(op.b) \in Batch \X Quorums
  BY SignedTxType DEF StoreInv, Progress, ConfirmPc
<1>3. SignedTx(op.b) \notin Deposits /\ SignedTx(op.b)[1] = op.b
  BY <1>1, <1>2, DepositsAssumption DEF Batch, SignedTx
<1>4. custody[SignedTx(op.b)] = "Absent"
  BY <1>1, <1>2, <1>3 DEF StoreInv, Minted, Coin
<1>5. SignedTx(op.b) \notin inputs[op.b]
  <2>1. reservation[op.b] = "Broadcast"
    BY <1>1 DEF StoreInv, Rows, RowsAt
  <2>2. QED BY <1>1, <1>3, <1>4, <2>1, Types DEF StoreInv, Held, Holding
<1>6. QED BY <1>2, <1>3, <1>4, <1>5 DEF ConfirmedChange, Coin

\* The steps that change the status of a coin, or which coins a reservation has.
CustodyStep ==
  \/ \E b \in Batch, coins \in SUBSET Coin, kind \in ChangeKind :
       ReserveSnapshot(b, coins, kind)
  \/ ReleaseReservation
  \/ MarkReservation
  \/ Finalize
  \/ \E d \in Deposits : RegisterDeposit(d)

\* Only the registration of a deposit takes back a coin that is held or paid with.
LEMMA OverwrittenFrame ==
  ASSUME Next PROVE UNCHANGED overwritten \/ \E d \in Deposits : RegisterDeposit(d)
<1>1. WorldStep => UNCHANGED overwritten \/ \E d \in Deposits : RegisterDeposit(d)
  BY DEF WorldStep, ReserveSnapshot, Submit, Register, BroadcastTx, NewRequest, Land, Expire,
       Mine, Crash, DaemonStops, DaemonStarts, ManagerRestart, Evict, life
<1>2. QED BY <1>1, WorldFrame DEF life

\* Only these steps touch a coin or a reservation.
LEMMA CustodyFrame ==
  ASSUME Next PROVE UNCHANGED <<reservation, inputs, custody, overwritten>> \/ CustodyStep
<1>1. StoreWrite => UNCHANGED <<reservation, inputs, custody>> \/ CustodyStep
  BY DEF StoreWrite, CustodyStep, RecordRequest, SetConstructed, MarkRequestConstructed,
       SetFailed, PersistSigned, MarkTx, MarkProcess, MarkRequestBroadcast, MarkBatch
<1>2. QED BY <1>1, StoreFrame, OverwrittenFrame DEF store, CustodyStep

\* Whichever rows the store takes for a reservation's, they are coins it selected,
\* and while it is Reserved or Broadcast none is missing but for those that were
\* registered again.
LEMMA LoadedRows ==
  ASSUME IInv, StoreInv, NEW b \in Batch, NEW rows \in Loaded(b)
  PROVE  /\ rows \subseteq inputs[b] /\ rows \subseteq Coin
         /\ reservation[b] \in {"Reserved", "Broadcast"} => inputs[b] \ overwritten \subseteq rows
<1>1. inputs[b] \subseteq Coin
  BY Types
<1>2. reservation[b] \in {"Reserved", "Broadcast"} =>
        \A c \in inputs[b] \ overwritten : custody[c] \in {"Reserved", "Broadcast"}
  BY DEF StoreInv, Held, Holding
<1>3. QED BY <1>1, <1>2 DEF Loaded, Carried

\* The coins of a reservation that is not released are in the books.
LEMMA HeldInBooks ==
  ASSUME IInv, StoreInv, NEW b \in Batch, reservation[b] \in Holding, NEW c \in inputs[b]
  PROVE  c \in Deposits \/ custody[c] # "Absent"
<1>1. CASE c \in overwritten
  BY <1>1, Types
<1>2. CASE c \notin overwritten
  BY <1>2 DEF StoreInv, Held, Holding
<1>3. QED BY <1>1, <1>2

\* What a step does to the coins: those of S go to status s, others stay.
LEMMA CoinsMoved ==
  ASSUME IInv, NEW S, NEW s, SetCoins(S, s)
  PROVE  \A c \in Coin : custody'[c] = IF c \in S THEN s ELSE custody[c]
  BY DEF SetCoins

\* Every step keeps the coins of each reservation at its status.
LEMMA HeldStep == ASSUME IInv, StoreInv, Next PROVE Held'
<1> USE DEF At, ObservedPc, SigningPc, SignedPc, ConfirmPc, Holding
<1>t. Rows /\ Held /\ \A b \in Batch : inputs[b] \subseteq Coin
  BY Types DEF StoreInv
<1>1. CASE UNCHANGED <<reservation, inputs, custody, overwritten>>
  BY <1>1, <1>t DEF Held
<1>2. ASSUME NEW n \in Batch, NEW coins \in SUBSET Coin, NEW kind \in ChangeKind,
             ReserveSnapshot(n, coins, kind)
      PROVE  Held'
  <2>1. /\ reservation[n] = "None" /\ \A c \in coins : custody[c] = "Available"
        /\ reservation'[n] = "Reserved" /\ inputs'[n] = coins
        /\ \A b \in Batch \ {n} : reservation'[b] = reservation[b] /\ inputs'[b] = inputs[b]
        /\ overwritten' = overwritten
    BY <1>2, <1>t, Types DEF ReserveSnapshot, Rows, RowsAt, life
  <2>2. \A c \in Coin : custody'[c] = IF c \in coins THEN "Reserved" ELSE custody[c]
    BY <1>2, CoinsMoved DEF ReserveSnapshot
  <2>3. ASSUME NEW b \in Batch, reservation'[b] \in Holding, NEW c \in inputs'[b] \ overwritten
        PROVE  custody'[c] = reservation'[b]
    BY <1>t, <2>1, <2>2, <2>3 DEF Held
  <2>4. ASSUME NEW c \in Coin \ overwritten, custody'[c] \in {"Reserved", "Broadcast"}
        PROVE  \E b \in Batch : c \in inputs'[b] /\ reservation'[b] = custody'[c]
    <3>1. CASE c \in coins
      BY <2>1, <2>2, <3>1
    <3>2. CASE c \notin coins
      <4>1. PICK b \in Batch : c \in inputs[b] /\ reservation[b] = custody[c]
        BY <1>t, <2>2, <2>4, <3>2 DEF Held
      <4>2. b # n
        BY <2>1, <2>2, <2>4, <3>2, <4>1
      <4>3. QED BY <2>1, <2>2, <3>2, <4>1, <4>2
    <3>3. QED BY <3>1, <3>2
  <2>5. QED BY <2>1, <2>3, <2>4 DEF Held
<1>3. ASSUME op.b \in Batch, reservation[op.b] = "Reserved", NEW rows \in Loaded(op.b),
             NEW s, NEW t, s \notin Holding \/ s = t, t \in {"Reserved", "Broadcast"} => s = t,
             reservation' = [reservation EXCEPT ![op.b] = s], UNCHANGED <<inputs, overwritten>>,
             SetCoins(rows, t)
      PROVE  Held'
  <2>1. /\ reservation'[op.b] = s
        /\ \A b \in Batch \ {op.b} : reservation'[b] = reservation[b]
        /\ rows \subseteq inputs[op.b] /\ inputs[op.b] \ overwritten \subseteq rows
    BY <1>3, Types, LoadedRows
  <2>2. \A c \in Coin : custody'[c] = IF c \in rows THEN t ELSE custody[c]
    BY <1>3, CoinsMoved
  <2>3. ASSUME NEW b \in Batch, reservation'[b] \in Holding, NEW c \in inputs'[b] \ overwritten
        PROVE  custody'[c] = reservation'[b]
    <3>1. CASE b = op.b
      BY <1>3, <1>t, <2>1, <2>2, <2>3, <3>1
    <3>2. CASE b # op.b
      <4>1. custody[c] = reservation[b] /\ c \in inputs[b] /\ c \in Coin
        BY <1>3, <1>t, <2>1, <2>3, <3>2 DEF Held
      <4>2. c \notin inputs[op.b]
        BY <1>3, <1>t, <2>3, <3>2, <4>1, OneReservation DEF Held
      <4>3. QED BY <2>1, <2>2, <3>2, <4>1, <4>2
    <3>3. QED BY <3>1, <3>2
  <2>4. ASSUME NEW c \in Coin \ overwritten, custody'[c] \in {"Reserved", "Broadcast"}
        PROVE  \E b \in Batch : c \in inputs'[b] /\ reservation'[b] = custody'[c]
    <3>1. CASE c \in rows
      BY <1>3, <2>1, <2>2, <2>4, <3>1
    <3>2. CASE c \notin rows
      <4>1. PICK b \in Batch : c \in inputs[b] /\ reservation[b] = custody[c]
        BY <1>t, <2>2, <2>4, <3>2 DEF Held
      <4>2. b # op.b
        BY <2>1, <2>4, <3>2, <4>1
      <4>3. QED BY <1>3, <2>1, <2>2, <3>2, <4>1, <4>2
    <3>3. QED BY <3>1, <3>2
  <2>5. QED BY <1>3, <2>3, <2>4 DEF Held
<1>4. CASE ReleaseReservation
  <2>1. op.b \in Batch /\ UNCHANGED <<inputs, overwritten>>
    BY <1>4, AtHand DEF ReleaseReservation, life
  <2>2. CASE reservation[op.b] = "Reserved"
    <3>1. PICK rows \in Loaded(op.b) : SetCoins(rows, "Available")
      BY <1>4, <2>2 DEF ReleaseReservation
    <3>2. reservation' = [reservation EXCEPT ![op.b] = "Released"]
      BY <1>4, <2>2 DEF ReleaseReservation
    <3>3. QED BY <1>3, <2>1, <2>2, <3>1, <3>2
  <2>3. CASE reservation[op.b] # "Reserved"
    BY <1>1, <1>4, <2>1, <2>3 DEF ReleaseReservation
  <2>4. QED BY <2>2, <2>3
<1>5. CASE MarkReservation
  <2>1. op.b \in Batch /\ UNCHANGED <<inputs, overwritten>>
    BY <1>5, AtHand DEF MarkReservation, life
  <2>2. \/ UNCHANGED <<reservation, custody>>
        \/ /\ reservation[op.b] = "Reserved"
           /\ reservation' = [reservation EXCEPT ![op.b] = "Broadcast"]
           /\ \E rows \in Loaded(op.b) : SetCoins(rows, "Broadcast")
    BY <1>5 DEF MarkReservation
  <2>3. QED BY <1>1, <1>3, <2>1, <2>2
<1>6. CASE Finalize
  <2>1. op.b \in Batch /\ reservation[op.b] = "Broadcast" /\ overwritten' = overwritten
    BY <1>6, <1>t, AtHand DEF Finalize, Rows, RowsAt, life
  <2>2. \A c \in ConfirmedChange(op.b) : custody[c] = "Absent"
    BY <1>6, ChangeIsNew DEF Finalize
  <2>3. /\ reservation'[op.b] = "Spent" /\ UNCHANGED inputs
        /\ \A b \in Batch \ {op.b} : reservation'[b] = reservation[b]
    BY <1>6, <2>1, Types DEF Finalize
  <2>4. PICK rows \in Loaded(op.b) :
          \A c \in Coin : custody'[c] = CASE c \in rows -> "Spent"
                                         [] c \in ConfirmedChange(op.b) -> "Available"
                                         [] OTHER -> custody[c]
    BY <1>6 DEF Finalize
  <2>r. rows \subseteq inputs[op.b] /\ inputs[op.b] \ overwritten \subseteq rows
    BY <2>1, LoadedRows
  <2>s. \A c \in rows : custody'[c] = "Spent"
    BY <1>6, <1>t, <2>1, <2>4, <2>r, ChangeIsNew DEF Finalize
  <2>5. \A c \in inputs[op.b] \ overwritten : custody[c] = "Broadcast"
    BY <1>t, <2>1 DEF Held
  <2>6. ASSUME NEW b \in Batch, reservation'[b] \in Holding, NEW c \in inputs'[b] \ overwritten
        PROVE  custody'[c] = reservation'[b]
    <3>1. CASE b = op.b
      <4>1. c \in rows
        BY <2>3, <2>6, <2>r, <3>1
      <4>2. custody'[c] = "Spent"
        BY <2>s, <4>1
      <4>3. reservation'[b] = "Spent"
        BY <2>3, <3>1
      <4>4. QED BY <4>2, <4>3
    <3>2. CASE b # op.b
      <4>1. custody[c] = reservation[b] /\ c \in inputs[b] /\ c \in Coin
        BY <1>t, <2>3, <2>6, <3>2 DEF Held
      <4>2. c \notin rows
        BY <2>1, <2>5, <2>6, <2>r, <3>2, <4>1, OneReservation
      <4>3. c \notin ConfirmedChange(op.b)
        BY <2>2, <2>3, <2>6, <3>2, <4>1
      <4>4. QED BY <2>3, <2>4, <3>2, <4>1, <4>2, <4>3
    <3>3. QED BY <3>1, <3>2
  <2>7. ASSUME NEW c \in Coin \ overwritten, custody'[c] \in {"Reserved", "Broadcast"}
        PROVE  \E b \in Batch : c \in inputs'[b] /\ reservation'[b] = custody'[c]
    <3>1. c \notin rows /\ custody'[c] = custody[c]
      BY <2>4, <2>7
    <3>2. PICK b \in Batch : c \in inputs[b] /\ reservation[b] = custody[c]
      BY <1>t, <2>7, <3>1 DEF Held
    <3>3. b # op.b
      BY <2>7, <2>r, <3>1, <3>2
    <3>4. QED BY <2>3, <3>1, <3>2, <3>3
  <2>8. QED BY <2>1, <2>6, <2>7 DEF Held
<1>7. ASSUME NEW d \in Deposits, RegisterDeposit(d) PROVE Held'
  <2>1. /\ UNCHANGED <<reservation, inputs>>
        /\ \A c \in Coin : custody'[c] = IF c = d THEN "Available" ELSE custody[c]
        /\ IF custody[d] \in {"Absent", "Available"}
             THEN overwritten' = overwritten ELSE overwritten' = overwritten \cup {d}
    BY <1>7, Types DEF RegisterDeposit, Coin
  <2>2. overwritten \subseteq overwritten' /\ (custody[d] \in {"Absent", "Available"} \/ d \in overwritten')
    BY <2>1
  <2>3. QED BY <1>t, <2>1, <2>2 DEF Held
<1>q. QED BY <1>1, <1>2, <1>4, <1>5, <1>6, <1>7, CustodyFrame DEF CustodyStep

\* A batch that is Confirmed stays so.
LEMMA ConfirmedStays ==
  ASSUME IInv, Next, NEW b \in Batch, batch[b].status = "Confirmed"
  PROVE  batch'[b].status = "Confirmed"
<1> USE DEF At, ObservedPc, SigningPc, SignedPc, ConfirmPc
<1>1. CASE SnapshotStep
  <2>1. ASSUME NEW s \in BatchStatus, op.b \in Batch, batch[op.b].status # "Confirmed",
               SetBatch(op.b, s)
        PROVE  batch'[b] = batch[b]
    BY <2>1, StageMove
  <2>2. ASSUME NEW n \in Batch, NEW coins \in SUBSET Coin, NEW kind \in ChangeKind,
               ReserveSnapshot(n, coins, kind)
        PROVE  batch'[b] = batch[b]
    BY <2>2, Types DEF ReserveSnapshot
  <2>3. CASE SetConstructed
    BY <2>1, <2>3, AtHand DEF SetConstructed, BatchStatus
  <2>4. CASE SetFailed
    BY <2>1, <2>4, AtHand DEF SetFailed, BatchStatus
  <2>5. CASE PersistSigned
    BY <2>1, <2>5, AtHand DEF PersistSigned, BatchStatus
  <2>6. CASE MarkBatch
    BY <2>1, <2>6, AtHand DEF MarkBatch, BatchStatus
  <2>7. CASE Finalize
    BY <2>1, <2>7, AtHand DEF Finalize, BatchStatus
  <2>8. QED BY <1>1, <2>2, <2>3, <2>4, <2>5, <2>6, <2>7
         DEF SnapshotStep, Submit, NewRequest, Land, store
<1>2. QED BY <1>1, SnapshotFrame

\* Every step takes coins into the books from deposits and confirmed payments only.
LEMMA MintedStep == ASSUME IInv, StoreInv, Next PROVE Minted'
<1> USE DEF At, ObservedPc, SigningPc, SignedPc, ConfirmPc, Holding
<1>t. Rows /\ Held /\ Minted /\ mined \subseteq Batch \X Quorums
  BY Types DEF StoreInv
<1>n. ASSUME \A c \in Coin \ Deposits : custody[c] = "Absent" => custody'[c] = "Absent"
      PROVE  Minted'
  <2>1. ASSUME NEW c \in mined, batch[c[1]].status = "Confirmed"
        PROVE  c \in mined' /\ batch'[c[1]].status = "Confirmed"
    BY <1>t, <2>1, MinedGrows, ConfirmedStays
  <2>2. QED BY <1>n, <1>t, <2>1 DEF Minted
<1>1. CASE UNCHANGED custody
  BY <1>1, <1>n
<1>2. ASSUME NEW n \in Batch, NEW coins \in SUBSET Coin, NEW kind \in ChangeKind,
             ReserveSnapshot(n, coins, kind)
      PROVE  Minted'
  BY <1>2, <1>n, CoinsMoved DEF ReserveSnapshot
<1>3. ASSUME op.b \in Batch, reservation[op.b] = "Reserved",
             NEW rows \in Loaded(op.b), NEW s, SetCoins(rows, s)
      PROVE  Minted'
  <2>1. \A c \in rows : c \in Deposits \/ custody[c] # "Absent"
    BY <1>3, LoadedRows, HeldInBooks
  <2>2. QED BY <1>3, <1>n, <2>1, CoinsMoved
<1>4. CASE ReleaseReservation
  BY <1>1, <1>3, <1>4, AtHand DEF ReleaseReservation
<1>5. CASE MarkReservation
  BY <1>1, <1>3, <1>5, AtHand DEF MarkReservation
<1>6. CASE Finalize
  <2>1. op.b \in Batch /\ reservation[op.b] = "Broadcast"
    BY <1>6, <1>t, AtHand DEF Finalize, Rows, RowsAt
  <2>2. batch'[op.b].status = "Confirmed" /\ UNCHANGED mined
    BY <1>6, <2>1, StageMove DEF Finalize, BatchStatus, doge
  <2>3. PICK rows \in Loaded(op.b) :
          \A c \in Coin : custody'[c] = CASE c \in rows -> "Spent"
                                         [] c \in ConfirmedChange(op.b) -> "Available"
                                         [] OTHER -> custody[c]
    BY <1>6 DEF Finalize
  <2>4. \A c \in rows : c \in Deposits \/ custody[c] # "Absent"
    BY <2>1, LoadedRows, HeldInBooks
  <2>5. ASSUME NEW c \in Coin, custody'[c] # "Absent"
        PROVE  c \in Deposits \/ (c \in mined' /\ batch'[c[1]].status = "Confirmed")
    <3>1. CASE c \in ConfirmedChange(op.b)
      BY <1>6, <2>2, <3>1, ChangeIsNew DEF Finalize
    <3>2. CASE c \notin ConfirmedChange(op.b)
      <4>1. c \in Deposits \/ custody[c] # "Absent"
        BY <2>3, <2>4, <2>5, <3>2
      <4>2. QED BY <1>t, <2>2, <4>1, ConfirmedStays DEF Minted
    <3>3. QED BY <3>1, <3>2
  <2>6. QED BY <2>5 DEF Minted
<1>7. ASSUME NEW d \in Deposits, RegisterDeposit(d) PROVE Minted'
  <2>1. /\ UNCHANGED <<batch, mined>>
        /\ \A c \in Coin : c # d => custody'[c] = custody[c]
    BY <1>7, Types DEF RegisterDeposit, Coin, doge
  <2>2. QED BY <1>t, <2>1 DEF Minted
<1>q. QED BY <1>1, <1>2, <1>4, <1>5, <1>6, <1>7, CustodyFrame DEF CustodyStep

\* Only the Manager calls touch what the Manager has registered.
LEMMA ManagerFrame ==
  ASSUME Next PROVE UNCHANGED registered \/ Register \/ ManagerRestart
<1>1. WorldStep => UNCHANGED registered \/ Register \/ ManagerRestart
  BY DEF WorldStep, ReserveSnapshot, Submit, BroadcastTx, NewRequest, RegisterDeposit, Land,
       Expire, Mine, Crash, DaemonStops, DaemonStarts, Evict
<1>2. QED BY <1>1, WorldFrame

\* Every step keeps the sequences of landed snapshots apart, and what the Manager
\* has registered under them.
LEMMA SequencesStep == ASSUME IInv, StoreInv, Next PROVE Sequences'
<1> USE DEF At, ObservedPc, SigningPc, SignedPc, ConfirmPc
<1>t. /\ Sequences /\ Progress /\ Landings /\ Ranges
      /\ batch \in [Batch -> BatchRow] /\ solanaTx \in [Batch -> SolanaTx]
      /\ registered \in [0 .. MaxRequests -> Batch \cup {NoBatch}]
      /\ sequence \in Int /\ cursor \in Int
      /\ \A b \in Batch : /\ batch[b].lo \in Int /\ batch[b].hi \in Int
                          /\ batch[b].sequence \in 0 .. MaxRequests
  BY Types DEF StoreInv, IInv, BatchRow
<1>r. ASSUME NEW s \in 0 .. MaxRequests, registered[s] # NoBatch
      PROVE  registered[s] \in Batch
  BY <1>r, <1>t
<1>s. ASSUME op.b \in Batch, NEW s \in BatchStatus \ {"None"}, SetBatch(op.b, s),
             batch[op.b].status # "None", s \in Claimed \/ batch[op.b].status \notin Claimed,
             UNCHANGED <<sequence, solanaTx, registered>>
      PROVE  Sequences'
  <2>1. /\ batch'[op.b].status = s
        /\ \A c \in Batch : batch'[c].lo = batch[c].lo /\ batch'[c].sequence = batch[c].sequence
        /\ \A c \in Batch \ {op.b} : batch'[c] = batch[c]
    BY <1>s, StageMove
  <2>2. QED BY <1>s, <1>t, <1>r, <2>1 DEF Sequences
<1>1. CASE UNCHANGED <<batch, sequence, solanaTx, registered>>
  BY <1>1, <1>t DEF Sequences
<1>2. CASE Register
  <2>1. /\ op.b \in Batch /\ batch[op.b].status \in Claimed
        /\ UNCHANGED <<batch, sequence, solanaTx>>
    BY <1>2, AtHand DEF Register, Claimed, store, solana
  <2>2. \A s \in 0 .. MaxRequests : registered'[s] = registered[s] \/
          (s = batch[op.b].sequence /\ registered'[s] = op.b)
    BY <1>2, <1>t, <2>1 DEF Register
  <2>3. QED BY <1>t, <2>1, <2>2 DEF Sequences
<1>3. CASE ManagerRestart
  BY <1>3, <1>t DEF ManagerRestart, Sequences, store, solana
<1>4. ASSUME NEW n \in Batch, NEW coins \in SUBSET Coin, NEW kind \in ChangeKind,
             ReserveSnapshot(n, coins, kind)
      PROVE  Sequences'
  <2>1. /\ batch[n].status = "None" /\ batch'[n].lo = op.cursor /\ batch'[n].sequence = op.sequence
        /\ solanaTx'[n] = "Unsent" /\ UNCHANGED <<sequence, registered>>
        /\ \A c \in Batch \ {n} : batch'[c] = batch[c] /\ solanaTx'[c] = solanaTx[c]
    BY <1>4, <1>t DEF ReserveSnapshot
  <2>2. NoopShim => op.sequence = op.cursor
    BY <1>4, <1>t DEF ReserveSnapshot, Progress
  <2>3. \A s \in 0 .. MaxRequests : registered[s] # n
    BY <1>t, <2>1 DEF Sequences, Claimed, NoBatch, Batch
  <2>4. QED BY <1>t, <1>r, <2>1, <2>2, <2>3 DEF Sequences
<1>5. CASE Submit
  <2>1. /\ op.b \in Batch /\ solanaTx'[op.b] = "InFlight"
        /\ UNCHANGED <<batch, sequence, registered>>
        /\ \A c \in Batch \ {op.b} : solanaTx'[c] = solanaTx[c]
    BY <1>5, <1>t, AtHand DEF Submit, store
  <2>2. QED BY <1>t, <2>1 DEF Sequences
<1>6. CASE SetConstructed
  BY <1>6, <1>s, AtHand DEF SetConstructed, BatchStatus, Claimed, solana
<1>7. CASE SetFailed
  BY <1>7, <1>s, AtHand DEF SetFailed, BatchStatus, Claimed, solana
<1>8. CASE PersistSigned
  BY <1>8, <1>s, <1>1, AtHand DEF PersistSigned, BatchStatus, Claimed, solana
<1>9. CASE MarkBatch
  BY <1>9, <1>s, AtHand DEF MarkBatch, BatchStatus, Claimed, solana
<1>10. CASE Finalize
  BY <1>10, <1>s, AtHand DEF Finalize, BatchStatus, Claimed, solana
<1>11. CASE NewRequest
  BY <1>11, <1>t DEF NewRequest, Sequences, store
<1>12. ASSUME NEW b \in Batch, Land(b) PROVE Sequences'
  <2>1. UNCHANGED <<batch, registered>> /\ solanaTx[b] = "InFlight"
    BY <1>12 DEF Land, store
  <2>2. CASE WouldSucceed(b)
    <3>1. /\ solanaTx'[b] = "Landed"
          /\ \A c \in Batch \ {b} : solanaTx'[c] = solanaTx[c]
          /\ sequence' = IF NoopShim THEN sequence ELSE sequence + 1
      BY <1>12, <1>t, <2>2 DEF Land
    <3>2. cursor = batch[b].lo /\ (NoopShim \/ sequence = batch[b].sequence)
      BY <2>2 DEF WouldSucceed
    <3>3. batch[b].status # "None"
      BY <1>t, <2>1 DEF Ranges
    <3>4. ASSUME NEW c \in Batch \ {b}, solanaTx[c] = "Landed"
          PROVE  batch[c].sequence # batch[b].sequence
      <4>1. CASE NoopShim
        <5>1. batch[c].hi <= batch[b].lo /\ batch[c].status # "None"
          BY <1>t, <3>2, <3>4 DEF Landings, Ranges
        <5>2. batch[c].lo < batch[b].lo
          BY <1>t, <5>1 DEF Ranges
        <5>3. QED BY <1>t, <3>3, <4>1, <5>1, <5>2 DEF Sequences
      <4>2. CASE ~NoopShim
        BY <1>t, <3>2, <3>4, <4>2 DEF Sequences
      <4>3. QED BY <4>1, <4>2
    <3>5. ~NoopShim => \A c \in Batch : solanaTx'[c] = "Landed" => batch[c].sequence < sequence'
      BY <1>t, <3>1, <3>2 DEF Sequences
    <3>6. QED BY <1>t, <2>1, <3>1, <3>4, <3>5 DEF Sequences
  <2>3. CASE ~WouldSucceed(b)
    <3>1. /\ solanaTx'[b] = "Errored" /\ UNCHANGED sequence
          /\ \A c \in Batch \ {b} : solanaTx'[c] = solanaTx[c]
      BY <1>12, <1>t, <2>3 DEF Land
    <3>2. QED BY <1>t, <2>1, <3>1 DEF Sequences
  <2>4. QED BY <2>2, <2>3
<1>13. SnapshotStep => Sequences'
  BY <1>4, <1>5, <1>6, <1>7, <1>8, <1>9, <1>10, <1>11, <1>12 DEF SnapshotStep
<1>q. QED BY <1>1, <1>2, <1>3, <1>13, SnapshotFrame, ManagerFrame

\* Inductive is inductive.
THEOREM StoreInvariance == Spec => []Inductive
<1>1. Init => StoreInv
  <2> SUFFICES ASSUME Init PROVE StoreInv
    OBVIOUS
  <2> USE DEF Init
  <2>1. Rows
    BY DEF Rows, RowsAt
  <2>2. Requests
    BY DEF Requests, RequestsAt
  <2>3. Progress
    BY DEF Progress, Idle
  <2>4. Held /\ Minted
    BY DEF Held, Minted, Holding
  <2>5. Sequences
    BY DEF Sequences
  <2>6. QED BY <2>1, <2>2, <2>3, <2>4, <2>5 DEF StoreInv
<1>2. Inductive /\ [Next]_vars => StoreInv'
  <2>1. ASSUME Inductive, Next PROVE StoreInv'
    BY <2>1, RowsStep, RequestsStep, ProgressStep, HeldStep, MintedStep, SequencesStep
    DEF Inductive, StoreInv
  <2>2. ASSUME Inductive, UNCHANGED vars PROVE StoreInv'
    <3> USE <2>2 DEF vars, store, solana, doge, life, Inductive, StoreInv
    <3>1. Rows' /\ Requests'
      BY DEF Rows, RowsAt, SignedTx, Requests, RequestsAt, Unclaimed, Range
    <3>2. Progress'
      BY DEF Progress, SignedTx, Range
    <3>3. Held' /\ Minted' /\ Sequences'
      BY DEF Held, Minted, Sequences
    <3>4. QED BY <3>1, <3>2, <3>3
  <2>3. QED BY <2>1, <2>2
<1>3. IInv /\ StoreInv <=> Inductive
  BY DEF Inductive
<1>4. QED BY <1>1, <1>2, <1>3, Invariance, PTL DEF Spec

\* A coin offered for the next payment is a deposit or the change of a confirmed
\* payment, and no transaction that the Dogecoin node holds, unconfirmed or mined,
\* spends it; except a deposit that deposit-to-solana registered again after a
\* payment had reserved or spent it.
THEOREM CustodyBackedHolds == Spec => []CustodyBacked
<1>1. Inductive => CustodyBacked
  <2> SUFFICES ASSUME Inductive, NEW c \in Coin \ overwritten, custody[c] = "Available"
               PROVE  /\ c \in Deposits \/ c \in mined
                      /\ \A tx \in Known : c \notin Spends(tx)
    BY DEF CustodyBacked
  <2>1. c \in Deposits \/ c \in mined
    BY DEF Inductive, StoreInv, Minted
  <2>2. ASSUME NEW tx \in Known PROVE c \notin inputs[tx[1]]
    <3>1. tx[1] \in Batch /\ dogeTx[tx[1]].status # "None"
      BY DEF Inductive, IInv, TypeOK, WorldTypeOK, Known, Payments
    <3>2. batch[tx[1]].status \in {"Signed", "Broadcast", "Confirmed"}
      BY <3>1 DEF Inductive, IInv, Signatures
    <3>3. reservation[tx[1]] \in Holding
      BY <3>1, <3>2 DEF Inductive, StoreInv, Rows, RowsAt, Holding
    <3>4. QED BY <3>1, <3>3 DEF Inductive, StoreInv, Held, Holding
  <2>3. QED BY <2>1, <2>2 DEF Spends
<1>2. QED BY <1>1, StoreInvariance, PTL

\* The coins set aside are those of the unfinished batch's reservation: none stays
\* behind with a batch that failed, none is held twice; but for a deposit that was
\* registered again over a reservation or a payment.
THEOREM NoLeakedCustodyHolds == Spec => []NoLeakedCustody
<1>1. Inductive => NoLeakedCustody
  <2> SUFFICES ASSUME Inductive, NEW c \in Coin \ overwritten
               PROVE  custody[c] \in {"Reserved", "Broadcast"} <=>
                        \E b \in Batch : /\ Unfinished(b) /\ c \in inputs[b]
                                        /\ reservation[b] = custody[c]
    BY DEF NoLeakedCustody
  <2>t. Rows /\ Held /\ batch \in [Batch -> BatchRow] /\ reservation \in [Batch -> ReservationStatus]
        /\ custody[c] \in CoinStatus
    BY Types DEF Inductive, StoreInv
  <2>1. ASSUME NEW b \in Batch, reservation[b] \in {"Reserved", "Broadcast"}
        PROVE  Unfinished(b)
    BY <2>1, <2>t DEF Rows, RowsAt, Unfinished
  <2>2. ASSUME NEW b \in Batch, Unfinished(b)
        PROVE  reservation[b] \in {"Reserved", "Broadcast", "Released"}
    BY <2>2, <2>t DEF Rows, RowsAt, Unfinished, BatchRow, BatchStatus
  <2>3. QED BY <2>t, <2>1, <2>2 DEF Held, CoinStatus
<1>2. QED BY <1>1, StoreInvariance, PTL

\* The rows of a reservation none of whose coins was registered again are all of
\* them, and each carries its status.
LEMMA UndisturbedRows ==
  ASSUME Inductive, NEW b \in Batch, Undisturbed(b), batch[b].status # "None",
         reservation[b] \in {"Reserved", "Broadcast"}, NEW rows \in Loaded(b)
  PROVE  rows = inputs[b] /\ Linked(rows) /\ \A c \in rows : custody[c] = reservation[b]
<1>1. inputs[b] \ overwritten = inputs[b] /\ inputs[b] # {}
  BY DEF Undisturbed, Inductive, StoreInv, Rows, RowsAt
<1>2. rows = inputs[b]
  BY <1>1, LoadedRows DEF Inductive
<1>3. \A c \in inputs[b] : custody[c] = reservation[b]
  BY <1>1 DEF Inductive, StoreInv, Held, Holding
<1>4. QED BY <1>1, <1>2, <1>3 DEF Linked

\* A crash between any two writes of the signing and Broadcast stages leaves rows
\* that resume_signed_batch and resume_broadcast_batch accept, unless a deposit
\* among the inputs was registered again.
THEOREM TransitionRecoverableHolds == Spec => []TransitionRecoverable
<1>1. Inductive => TransitionRecoverable
  <2> SUFFICES ASSUME Inductive, NEW b \in Batch, Undisturbed(b), NEW rows \in Loaded(b)
               PROVE  /\ batch[b].status = "Signed" =>
                           \/ /\ TransitionStarted(b)
                              /\ Linked(rows)
                              /\ reservation[b] \in {"Reserved", "Broadcast"}
                           \/ SignedGraph(b, rows)
                      /\ batch[b].status = "Broadcast" => BroadcastGraph(b, rows)
    BY DEF TransitionRecoverable
  <2>t. RowsAt(b) /\ RequestsAt(b)
    BY DEF Inductive, StoreInv, Rows, Requests
  <2>1. CASE batch[b].status = "Signed"
    <3>1. CASE reservation[b] = "Broadcast"
      BY <2>1, <3>1, UndisturbedRows DEF TransitionStarted
    <3>2. CASE reservation[b] # "Broadcast"
      <4>1. /\ reservation[b] = "Reserved"
            /\ dogeTx[b].status = "Signed" /\ process[b] = "Signed"
        BY <2>t, <2>1, <3>2 DEF RowsAt
      <4>2. \A r \in Range(b) : request[r] = "Signed"
        BY <2>t, <2>1, <3>2 DEF RequestsAt
      <4>3. Linked(rows) /\ \A c \in rows : custody[c] = "Reserved"
        BY <2>1, <4>1, UndisturbedRows
      <4>4. QED BY <2>1, <4>1, <4>2, <4>3 DEF SignedGraph
    <3>3. QED BY <3>1, <3>2
  <2>2. CASE batch[b].status = "Broadcast"
    <3>1. /\ reservation[b] = "Broadcast"
          /\ dogeTx[b].status = "Broadcast" /\ process[b] = "Broadcast"
          /\ \A r \in Range(b) : request[r] = "Broadcast"
      BY <2>t, <2>2 DEF RowsAt, RequestsAt
    <3>2. Linked(rows)
      BY <2>2, <3>1, UndisturbedRows
    <3>3. QED BY <2>2, <3>1, <3>2 DEF BroadcastGraph
  <2>3. QED BY <2>1, <2>2
<1>2. QED BY <1>1, StoreInvariance, PTL

\* The Manager never holds another transaction under the sequence of the batch that
\* is being signed, with the Wormhole sequence or the no-op shim's.
THEOREM ManagerAgreesHolds == Spec => []ManagerAgrees
<1>1. Inductive => ManagerAgrees
  <2> SUFFICES ASSUME Inductive, NEW b \in Batch, batch[b].status = "Constructed",
                      registered[batch[b].sequence] # NoBatch
               PROVE  registered[batch[b].sequence] = b
    BY DEF ManagerAgrees
  <2> DEFINE c == registered[batch[b].sequence]
  <2>1. batch[b].sequence \in 0 .. MaxRequests /\ c \in Batch
    BY Types DEF Inductive, BatchRow
  <2>2. batch[c].status \in Claimed /\ batch[c].sequence = batch[b].sequence
    BY <2>1 DEF Inductive, StoreInv, Sequences
  <2>3. solanaTx[b] = "Landed" /\ solanaTx[c] = "Landed"
    BY <2>1, <2>2, ClaimedLanded DEF Inductive, Claimed
  <2>4. QED BY <2>1, <2>2, <2>3 DEF Inductive, StoreInv, Sequences
<1>2. QED BY <1>1, StoreInvariance, PTL

\* The statuses of a request, in the order a withdrawal goes through them.
LEMMA Ranks ==
  /\ Rank("None") = 0 /\ Rank("Observed") = 1 /\ Rank("Constructed") = 2
  /\ Rank("Signed") = 3 /\ Rank("Broadcast") = 4 /\ Rank("Confirmed") = 5
  BY DEF Rank

\* What a step does to the requests: most leave them alone, and the others move a
\* request forward.
LEMMA RequestsForward ==
  ASSUME Inductive, Next, NEW r \in Request
  PROVE  Rank(request[r]) <= Rank(request'[r])
<1> USE DEF At, ObservedPc, SigningPc, SignedPc, ConfirmPc
<1>t. /\ IInv /\ StoreInv /\ request \in [Request -> RequestStatus]
      /\ \A b \in Batch : RequestsAt(b)
  BY Types DEF Inductive, StoreInv, Requests
<1>s. Rank(request[r]) \in Int
  BY <1>t DEF Rank, RequestStatus
<1>1. CASE request'[r] = request[r]
  BY <1>1, <1>s
<1>2. CASE RecordRequest
  <2>1. request'[r] = request[r] \/ (request[r] = "None" /\ request'[r] = "Observed")
    BY <1>2, <1>t DEF RecordRequest
  <2>2. QED BY <1>1, <2>1, Ranks
<1>3. CASE MarkRequestConstructed
  <2>1. op.b \in Batch /\ batch[op.b].status = "Constructed" /\ op.i \in Range(op.b)
    BY <1>3, <1>t, AtHand, LoopRange DEF MarkRequestConstructed
  <2>2. request[op.i] \in {"None", "Observed", "Constructed"}
    BY <1>t, <2>1 DEF RequestsAt
  <2>3. request'[r] = request[r] \/ (r = op.i /\ request'[r] = "Constructed")
    BY <1>3, <1>t DEF MarkRequestConstructed
  <2>4. QED BY <1>1, <2>2, <2>3, Ranks
<1>4. CASE PersistSigned
  <2>1. op.b \in Batch /\ batch[op.b].status = "Constructed"
    BY <1>4, <1>t, AtHand DEF PersistSigned
  <2>2. r \in Range(op.b) => request[r] \in {"None", "Observed", "Constructed"}
    BY <1>t, <2>1 DEF RequestsAt
  <2>3. request'[r] = request[r] \/ (r \in Range(op.b) /\ request'[r] = "Signed")
    BY <1>4 DEF PersistSigned, SetRange
  <2>4. QED BY <1>1, <2>2, <2>3, Ranks
<1>5. CASE MarkRequestBroadcast
  <2>1. op.b \in Batch /\ batch[op.b].status = "Signed" /\ op.i \in Range(op.b)
    BY <1>5, <1>t, AtHand, LoopRange DEF MarkRequestBroadcast
  <2>2. request[op.i] \in {"Signed", "Broadcast"}
    BY <1>t, <2>1 DEF RequestsAt
  <2>3. request'[r] = request[r] \/ (r = op.i /\ request'[r] = "Broadcast")
    BY <1>5, <1>t DEF MarkRequestBroadcast
  <2>4. QED BY <1>1, <2>2, <2>3, Ranks
<1>6. CASE Finalize
  <2>1. op.b \in Batch /\ batch[op.b].status = "Broadcast"
    BY <1>6, <1>t, AtHand DEF Finalize
  <2>2. r \in Range(op.b) => request[r] = "Broadcast"
    BY <1>t, <2>1 DEF RequestsAt
  <2>3. request'[r] = request[r] \/ (r \in Range(op.b) /\ request'[r] = "Confirmed")
    BY <1>6 DEF Finalize, SetRange
  <2>4. QED BY <1>1, <2>2, <2>3, Ranks
<1>7. \/ UNCHANGED request \/ RecordRequest \/ MarkRequestConstructed \/ PersistSigned
      \/ MarkRequestBroadcast \/ Finalize
  <2>1. StoreWrite => \/ UNCHANGED request \/ RecordRequest \/ MarkRequestConstructed
                      \/ PersistSigned \/ MarkRequestBroadcast \/ Finalize
    BY DEF StoreWrite, ReserveSnapshot, SetConstructed, ReleaseReservation, SetFailed,
         MarkReservation, MarkTx, MarkProcess, MarkBatch, RegisterDeposit
  <2>2. QED BY <2>1, StoreFrame DEF store
<1>8. QED BY <1>1, <1>2, <1>3, <1>4, <1>5, <1>6, <1>7

\* No step of any run takes a request's status back (the upserts of record_requests
\* and of the Constructed, Signed, Broadcast and Confirmed stages).
THEOREM RequestsAdvanceHolds == Spec => RequestsAdvance
<1>1. Inductive /\ [Next]_vars =>
        [\A r \in Request : Rank(request[r]) <= Rank(request'[r])]_vars
  BY RequestsForward
<1>2. QED BY <1>1, StoreInvariance, PTL DEF Spec, RequestsAdvance

-----------------------------------------------------------------------------
(* The life of a custody coin. *)

\* Moving the coins of rows in the store is a move of CustodyCoins, for those that
\* were not registered again, when they all come from the same status.
LEMMA CoinsMove ==
  ASSUME NEW rows \in SUBSET Coin, NEW from, NEW to, SetCoins(rows, to), UNCHANGED overwritten,
         \A c \in rows \ overwritten : custody[c] = from
  PROVE  Coins!Move(rows \ overwritten, from, to)
  BY DEF SetCoins, Coins!Move, KeptRows, CoinRow

\* A deposit's registration begins the life of its coin, leaves it as it is, or is
\* the exception.
LEMMA RegistrationStep ==
  ASSUME Inductive, NEW d \in Deposits, RegisterDeposit(d)
  PROVE  Coins!Next \/ RegistersAgain \/ UNCHANGED KeptRows
<1>1. /\ custody' = [custody EXCEPT ![d] = "Available"]
      /\ custody[d] \in {"Absent", "Available"} => overwritten' = overwritten
      /\ custody[d] \notin {"Absent", "Available"} => overwritten' = overwritten \cup {d}
  BY DEF RegisterDeposit
<1>2. d \in Coin /\ custody \in [Coin -> CoinStatus]
  BY Types DEF Inductive, Coin
<1>3. CASE custody[d] \notin {"Absent", "Available"}
  <2>1. custody[d] \in {"Reserved", "Broadcast", "Spent"}
    BY <1>2, <1>3 DEF CoinStatus
  <2>2. QED BY <1>1, <1>3, <2>1 DEF RegistersAgain
<1>4. CASE custody[d] = "Absent" /\ d \notin overwritten
  <2>1. Coins!Register(d)
    BY <1>1, <1>2, <1>4 DEF Coins!Register, Coins!Move, KeptRows, CoinRow
  <2>2. QED BY <1>2, <2>1 DEF Coins!Next
<1>5. CASE custody[d] = "Available" \/ (custody[d] = "Absent" /\ d \in overwritten)
  <2>1. \A c \in Coin : CoinRow(c)' = CoinRow(c)
    BY <1>1, <1>2, <1>5 DEF CoinRow
  <2>2. QED BY <2>1 DEF KeptRows
<1>6. QED BY <1>3, <1>4, <1>5

\* Each store write moves coins the way CustodyCoins allows, moves none, or takes a
\* deposit back.
LEMMA CoinsStep ==
  ASSUME Inductive, Next PROVE Coins!Next \/ RegistersAgain \/ UNCHANGED KeptRows
<1> USE DEF At, ObservedPc, SigningPc, SignedPc, ConfirmPc
<1>t. /\ IInv /\ StoreInv /\ Rows /\ Held
      /\ inputs \in [Batch -> SUBSET Coin] /\ custody \in [Coin -> CoinStatus]
      /\ overwritten \subseteq Deposits
  BY Types DEF Inductive, StoreInv
<1>h. ASSUME NEW b \in Batch, reservation[b] \in {"Reserved", "Broadcast"}, NEW rows \in Loaded(b)
      PROVE  /\ rows \in SUBSET Coin /\ rows \ overwritten \in SUBSET Coin
             /\ \A c \in rows \ overwritten : custody[c] = reservation[b]
  BY <1>t, <1>h, LoadedRows DEF Held, Holding
<1>u. ASSUME UNCHANGED <<custody, overwritten>> PROVE UNCHANGED KeptRows
  BY <1>u DEF KeptRows, CoinRow
<1>1. ASSUME NEW b \in Batch, NEW coins \in SUBSET Coin, NEW kind \in ChangeKind,
             ReserveSnapshot(b, coins, kind)
      PROVE  Coins!Next
  <2>1. Coins!Reserve(coins \ overwritten)
    BY <1>1, CoinsMove DEF ReserveSnapshot, Coins!Reserve, life
  <2>2. QED BY <2>1 DEF Coins!Next
<1>2. CASE ReleaseReservation
  <2>1. op.b \in Batch /\ UNCHANGED overwritten
    BY <1>2, <1>t, AtHand DEF ReleaseReservation, life
  <2>2. CASE reservation[op.b] = "Reserved"
    <3>1. PICK rows \in Loaded(op.b) : SetCoins(rows, "Available")
      BY <1>2, <2>2 DEF ReleaseReservation
    <3>2. Coins!Release(rows \ overwritten)
      BY <1>h, <2>1, <2>2, <3>1, CoinsMove DEF Coins!Release
    <3>3. QED BY <1>h, <2>1, <2>2, <3>2 DEF Coins!Next
  <2>3. CASE reservation[op.b] # "Reserved"
    BY <1>2, <1>u, <2>1, <2>3 DEF ReleaseReservation
  <2>4. QED BY <2>2, <2>3
<1>3. CASE MarkReservation
  <2>1. op.b \in Batch /\ UNCHANGED overwritten
    BY <1>3, <1>t, AtHand DEF MarkReservation, life
  <2>2. CASE UNCHANGED custody
    BY <1>u, <2>1, <2>2
  <2>3. CASE reservation[op.b] = "Reserved" /\ \E rows \in Loaded(op.b) : SetCoins(rows, "Broadcast")
    <3>1. PICK rows \in Loaded(op.b) : SetCoins(rows, "Broadcast")
      BY <2>3
    <3>2. Coins!Pay(rows \ overwritten)
      BY <1>h, <2>1, <2>3, <3>1, CoinsMove DEF Coins!Pay
    <3>3. QED BY <1>h, <2>1, <2>3, <3>2 DEF Coins!Next
  <2>4. QED BY <1>3, <2>2, <2>3 DEF MarkReservation
<1>4. CASE Finalize
  <2>1. op.b \in Batch /\ reservation[op.b] = "Broadcast" /\ UNCHANGED overwritten
    BY <1>4, <1>t, AtHand DEF Finalize, Rows, RowsAt, life
  <2>2. /\ ConfirmedChange(op.b) \in SUBSET Coin
        /\ \A c \in ConfirmedChange(op.b) : custody[c] = "Absent" /\ c \notin overwritten
    BY <1>4, <1>t, ChangeIsNew DEF Finalize
  <2>3. PICK rows \in Loaded(op.b) :
          custody' = [c \in Coin |-> CASE c \in rows -> "Spent"
                                      [] c \in ConfirmedChange(op.b) -> "Available"
                                      [] OTHER -> custody[c]]
    BY <1>4 DEF Finalize
  <2>4. /\ rows \ overwritten \in SUBSET Coin
        /\ \A c \in rows \ overwritten : custody[c] = "Broadcast"
    BY <1>h, <2>1
  <2>5. Coins!Book(rows \ overwritten, ConfirmedChange(op.b))
    <3>1. \A c \in Coin : CoinRow(c)' =
            CASE c \in rows \ overwritten      -> "Spent"
              [] c \in ConfirmedChange(op.b)   -> "Available"
              [] OTHER                         -> CoinRow(c)
      BY <2>1, <2>2, <2>3, <2>4 DEF CoinRow
    <3>2. KeptRows' = [c \in Coin |-> CASE c \in rows \ overwritten      -> "Spent"
                                        [] c \in ConfirmedChange(op.b)   -> "Available"
                                        [] OTHER                         -> KeptRows[c]]
      BY <3>1 DEF KeptRows
    <3>3. /\ \A c \in rows \ overwritten : KeptRows[c] = "Broadcast"
          /\ \A c \in ConfirmedChange(op.b) : KeptRows[c] = "Absent"
      BY <2>2, <2>4 DEF KeptRows, CoinRow
    <3>4. QED BY <3>2, <3>3 DEF Coins!Book
  <2>6. QED BY <2>2, <2>4, <2>5 DEF Coins!Next
<1>5. ASSUME NEW d \in Deposits, RegisterDeposit(d)
      PROVE  Coins!Next \/ RegistersAgain \/ UNCHANGED KeptRows
  BY <1>5, RegistrationStep
<1>q. QED BY <1>1, <1>2, <1>3, <1>4, <1>5, <1>u, CustodyFrame DEF CustodyStep

\* Whatever fails and when, each custody coin only goes the way of CustodyCoins:
\* no payment takes a coin another one holds, and no coin paid with comes back;
\* except a deposit that deposit-to-solana registers again after it was reserved or
\* spent, from that step on.
THEOREM ImplementsCoinsHolds == Spec => ImplementsCoins
<1>1. Init => Coins!Init
  <2> SUFFICES ASSUME Init PROVE Coins!Init
    OBVIOUS
  <2>1. \A c \in Coin : CoinRow(c) = "Absent"
    BY DEF Init, CoinRow
  <2>2. QED BY <2>1 DEF Coins!Init, KeptRows
<1>2. Inductive /\ [Next]_vars => [Coins!Next \/ RegistersAgain]_KeptRows
  <2>1. ASSUME UNCHANGED vars PROVE UNCHANGED KeptRows
    BY <2>1 DEF vars, store, life, KeptRows, CoinRow
  <2>2. QED BY <2>1, CoinsStep
<1>3. QED BY <1>1, <1>2, StoreInvariance, PTL DEF Spec, ImplementsCoins

-----------------------------------------------------------------------------
(* The withdrawals. *)

\* The mapping: what the confirmed transactions pay, and what the books show.
Paid == UNION {Range(tx[1]) : tx \in mined}
Booked == {r \in Request : request[r] = "Confirmed"}

\* The range of a persisted batch never changes.
LEMMA RangeStays ==
  ASSUME IInv, Next, NEW b \in Batch, batch[b].status # "None"
  PROVE  Range(b)' = Range(b)
<1> USE DEF At, ObservedPc, SigningPc, SignedPc, ConfirmPc
<1>1. ASSUME NEW s \in BatchStatus, op.b \in Batch, SetBatch(op.b, s)
      PROVE  Range(b)' = Range(b)
  BY <1>1, StageMove
<1>2. CASE UNCHANGED batch
  BY <1>2 DEF Range
<1>3. ASSUME NEW n \in Batch, NEW coins \in SUBSET Coin, NEW kind \in ChangeKind,
             ReserveSnapshot(n, coins, kind)
      PROVE  Range(b)' = Range(b)
  BY <1>3, Types DEF ReserveSnapshot, Range
<1>4. CASE SetConstructed
  BY <1>1, <1>4, AtHand DEF SetConstructed, BatchStatus
<1>5. CASE SetFailed
  BY <1>1, <1>5, AtHand DEF SetFailed, BatchStatus
<1>6. CASE PersistSigned
  BY <1>1, <1>2, <1>6, AtHand DEF PersistSigned, BatchStatus
<1>7. CASE MarkBatch
  BY <1>1, <1>7, AtHand DEF MarkBatch, BatchStatus
<1>8. CASE Finalize
  BY <1>1, <1>8, AtHand DEF Finalize, BatchStatus
<1>9. SnapshotStep => Range(b)' = Range(b)
  BY <1>2, <1>3, <1>4, <1>5, <1>6, <1>7, <1>8 DEF SnapshotStep, Submit, NewRequest, Land, store
<1>10. QED BY <1>2, <1>9, SnapshotFrame

\* The batch of a transaction that the node holds has landed.
LEMMA KnownLanded ==
  ASSUME IInv, NEW tx \in Known
  PROVE  tx[1] \in Batch /\ batch[tx[1]].status # "None" /\ solanaTx[tx[1]] = "Landed"
<1>1. tx[1] \in Batch
  BY DEF IInv, TypeOK, WorldTypeOK, Known
<1>2. solanaTx[tx[1]] = "Landed"
  BY RecordedFromIInv DEF BroadcastIsRecorded
<1>3. QED BY <1>1, <1>2 DEF IInv, Ranges

\* While no transaction is mined, what is paid stays the same.
LEMMA PaidFrame == ASSUME IInv, Next, UNCHANGED mined PROVE Paid' = Paid
<1>1. \A tx \in mined : Range(tx[1])' = Range(tx[1])
  BY KnownLanded, RangeStays DEF Known
<1>2. QED BY <1>1 DEF Paid

\* Only finalize_confirmed_snapshot books a withdrawal, and no step unbooks one.
LEMMA BookedStep ==
  ASSUME Inductive, Next
  PROVE  Booked \subseteq Booked' /\ (Booked' = Booked \/ Finalize)
<1>t. IInv /\ request \in [Request -> RequestStatus]
  BY Types DEF Inductive
<1>1. ASSUME NEW r \in Request, request[r] = "Confirmed" PROVE request'[r] = "Confirmed"
  <2>1. Rank(request'[r]) >= 5 /\ request'[r] \in RequestStatus
    BY <1>1, <1>t, RequestsForward, StoreTypeStep, Ranks DEF StoreTypeOK
  <2>2. QED BY <2>1, Ranks DEF RequestStatus
<1>2. ASSUME ~Finalize, NEW r \in Request, request'[r] = "Confirmed"
      PROVE  request[r] = "Confirmed"
  <2>1. StoreWrite => request'[r] = request[r] \/ request'[r] # "Confirmed"
    BY <1>2, <1>t DEF StoreWrite, RecordRequest, ReserveSnapshot, SetConstructed,
         MarkRequestConstructed, ReleaseReservation, SetFailed, PersistSigned, SetRange,
         MarkReservation, MarkTx, MarkProcess, MarkRequestBroadcast, MarkBatch, RegisterDeposit
  <2>2. QED BY <1>2, <2>1, StoreFrame DEF store
<1>3. QED BY <1>1, <1>2 DEF Booked

\* What the books show is paid.
LEMMA BookedIsPaid == ASSUME Inductive PROVE Booked \subseteq Paid
<1> SUFFICES ASSUME NEW r \in Request, request[r] = "Confirmed" PROVE r \in Paid
  BY DEF Booked
<1>1. PICK b \in Batch : batch[b].status \in Claimed /\ r \in Range(b)
  BY DEF Inductive, StoreInv, Requests, Unclaimed
<1>2. batch[b].status = "Confirmed"
  BY <1>1 DEF Inductive, StoreInv, Requests, RequestsAt, Claimed
<1>3. SignedTx(b) \in mined
  BY <1>2 DEF Inductive, StoreInv, Rows, RowsAt
<1>4. QED BY <1>1, <1>3 DEF Paid, SignedTx

\* The steps that a ledger step stands for; no other changes what it sees.
LEMMA LedgerFrame ==
  ASSUME Next
  PROVE  \/ UNCHANGED <<tip, cursor, mined>>
         \/ NewRequest
         \/ \E b \in Batch : Land(b)
         \/ \E tx \in mempool : Mine(tx)
<1>1. WorldStep => \/ UNCHANGED <<tip, cursor, mined>>
                   \/ NewRequest
                   \/ \E b \in Batch : Land(b)
                   \/ \E tx \in mempool : Mine(tx)
  BY DEF WorldStep, ReserveSnapshot, Submit, Register, BroadcastTx, RegisterDeposit, Expire,
       Crash, DaemonStops, DaemonStarts, ManagerRestart, Evict, solana, doge
<1>2. QED BY <1>1, WorldFrame DEF solana, doge

\* Each step is a step of the ledger, or changes nothing the ledger sees.
LEMMA LedgerStep == ASSUME Inductive, Next PROVE Ledger!Next \/ UNCHANGED Ledger!vars
<1> USE DEF At, ObservedPc, SigningPc, SignedPc, ConfirmPc
<1>t. /\ IInv /\ StoreInv /\ Ranges /\ cursor \in Int /\ tip \in Int
      /\ batch \in [Batch -> BatchRow]
      /\ \A b \in Batch : batch[b].lo \in Nat /\ batch[b].hi \in Nat
  BY Types DEF Inductive, IInv, BatchRow
<1>m. Ledger!vars = <<tip, cursor, Paid, Booked>>
  BY DEF Ledger!vars, Paid, Booked
<1>1. CASE NewRequest
  <2>1. UNCHANGED <<cursor, Paid, Booked>>
    <3>1. UNCHANGED <<cursor, mined, request>>
      BY <1>1 DEF NewRequest, store, doge
    <3>2. QED BY <1>t, <3>1, PaidFrame DEF Booked
  <2>2. QED BY <1>1, <2>1 DEF NewRequest, Ledger!Next, Ledger!MakeRequest, Paid, Booked
<1>2. ASSUME NEW b \in Batch, Land(b) PROVE Ledger!Next \/ UNCHANGED Ledger!vars
  <2>1. UNCHANGED <<tip, Paid, Booked>> /\ batch[b].status # "None"
    <3>1. UNCHANGED <<tip, mined, request>>
      BY <1>2 DEF Land, store, doge
    <3>2. batch[b].status # "None"
      BY <1>2, <1>t DEF Land, Ranges
    <3>3. QED BY <1>t, <3>1, <3>2, PaidFrame DEF Booked
  <2>2. CASE WouldSucceed(b)
    <3>1. cursor' = batch[b].hi /\ cursor' \in cursor + 1 .. tip
      BY <1>2, <1>t, <2>1, <2>2 DEF Land, WouldSucceed, Ranges
    <3>2. QED BY <2>1, <3>1 DEF Ledger!Next, Ledger!Snapshot, Paid, Booked
  <2>3. CASE ~WouldSucceed(b)
    BY <1>2, <1>m, <2>1, <2>3 DEF Land, Ledger!vars, Paid, Booked
  <2>4. QED BY <2>2, <2>3
<1>3. ASSUME NEW tx \in mempool, Mine(tx) PROVE Ledger!Next \/ UNCHANGED Ledger!vars
  <2>1. UNCHANGED <<tip, cursor, batch, request>> /\ mined' = mined \cup {tx}
    BY <1>3 DEF Mine, store, solana
  <2>2. Paid' = Paid \cup Range(tx[1]) /\ Booked' = Booked
    BY <2>1 DEF Paid, Booked, Range
  <2>3. CASE tx \in mined
    <3>1. Paid' = Paid
      BY <2>2, <2>3 DEF Paid
    <3>2. QED BY <2>1, <2>2, <3>1 DEF Ledger!vars, Paid, Booked
  <2>4. CASE tx \notin mined
    <3>1. /\ tx[1] \in Batch /\ batch[tx[1]].status # "None"
          /\ solanaTx[tx[1]] = "Landed" /\ tx = SignedTx(tx[1])
      BY <1>t, KnownLanded, RecordedFromIInv DEF Known, BroadcastIsRecorded
    <3>2. Range(tx[1]) \cap Paid = {}
      <4>1. ASSUME NEW other \in mined PROVE Range(tx[1]) \cap Range(other[1]) = {}
        <5>1. /\ other[1] \in Batch /\ solanaTx[other[1]] = "Landed"
              /\ other = SignedTx(other[1])
          BY <1>t, KnownLanded, RecordedFromIInv DEF Known, BroadcastIsRecorded
        <5>2. other[1] # tx[1]
          BY <2>4, <3>1, <5>1
        <5>3. QED BY <1>t, <3>1, <5>1, <5>2, LandedDisjoint
      <4>2. QED BY <4>1 DEF Paid
    <3>3. /\ batch[tx[1]].lo < batch[tx[1]].hi /\ batch[tx[1]].hi <= cursor
          /\ batch[tx[1]].lo \in 0 .. cursor /\ batch[tx[1]].hi \in 0 .. cursor
      BY <1>t, <3>1 DEF Ranges, IInv, Landings
    <3>4. Ledger!Pay
      BY <2>1, <2>2, <3>2, <3>3 DEF Ledger!Pay, Range, Paid, Booked
    <3>5. QED BY <3>4 DEF Ledger!Next
  <2>5. QED BY <2>3, <2>4
<1>4. CASE Finalize
  <2>1. op.b \in Batch /\ batch[op.b].status = "Broadcast" /\ SignedTx(op.b) \in mined
    BY <1>4, <1>t, AtHand DEF Finalize, StoreInv, Progress
  <2>2. UNCHANGED <<tip, cursor, mined>>
    BY <1>4 DEF Finalize, solana, doge
  <2>3. Paid' = Paid
    BY <1>t, <2>2, PaidFrame
  <2>4. Booked' \subseteq Booked \cup Range(op.b)
    BY <1>4 DEF Finalize, SetRange, Booked
  <2>5. Range(op.b) \subseteq Paid
    BY <2>1 DEF Paid, SignedTx
  <2>6. Booked' \in SUBSET Paid /\ Booked \subseteq Booked'
    BY <2>4, <2>5, BookedIsPaid, BookedStep
  <2>7. QED BY <2>2, <2>3, <2>6 DEF Ledger!Next, Ledger!Book, Paid, Booked
<1>5. CASE ~Finalize /\ UNCHANGED <<tip, cursor, mined>>
  BY <1>5, <1>m, <1>t, BookedStep, PaidFrame DEF Ledger!vars, Paid, Booked
<1>q. QED BY <1>1, <1>2, <1>3, <1>4, <1>5, LedgerFrame

\* The operator, with its store and every failure, implements the ledger: only
\* snapshotted requests are paid, once each, and only paid ones are booked.
THEOREM ImplementsLedgerHolds == Spec => ImplementsLedger
<1>1. Init => Ledger!Init
  BY DEF Init, Ledger!Init
<1>2. Inductive /\ [Next]_vars => [Ledger!Next]_Ledger!vars
  <2>1. ASSUME UNCHANGED vars PROVE UNCHANGED Ledger!vars
    BY <2>1 DEF vars, store, solana, doge, Ledger!vars, Range
  <2>2. QED BY <2>1, LedgerStep
<1>3. QED BY <1>1, <1>2, StoreInvariance, PTL DEF Spec, ImplementsLedger, Ledger!Spec
=============================================================================
