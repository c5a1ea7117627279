--------------------------- MODULE WithdrawalProofs ---------------------------
(***************************************************************************)
(* Invariance proofs for Withdrawal, for every number of requests, batches, *)
(* deposits, quorums and faults, with or without the no-op shim.            *)
(*                                                                          *)
(* IInv is the inductive invariant.  Its parts are about different things:  *)
(* where ranges of requests lie (Ranges), what the operator's pc says of    *)
(* the batch it works on (Control), what its local variables say (Locals),  *)
(* which batches have a signed transaction (Signatures), which snapshots    *)
(* landed (Landings) and what the Dogecoin node holds (Payments).           *)
(***************************************************************************)
EXTENDS Withdrawal, TLAPS

\* Snapshots lie within what was requested, and only a persisted batch has a
\* Solana transaction.
Ranges ==
  /\ cursor <= tip
  /\ sequence <= cursor
  /\ \A b \in Batch : batch[b].status # "None" =>
       batch[b].lo < batch[b].hi /\ batch[b].hi <= batch[b].tip /\ batch[b].tip <= tip
  /\ \A b \in Batch : solanaTx[b] # "None" => batch[b].status # "None"

\* The operator works on the one incomplete batch there is, at the stage of
\* that batch; it begins a snapshot only when there is none.
Control ==
  /\ \A b, c \in Batch :
       batch[b].status \in Incomplete /\ batch[c].status \in Incomplete => b = c
  /\ op.pc \in {"idle"} \cup FreshPc => op.b = NoBatch
  /\ op.pc \in FreshPc => NoneIncomplete
  /\ op.pc \notin {"idle"} \cup FreshPc => op.b \in Batch
  /\ op.pc \in ObservedPc => batch[op.b].status = "Observed"
  /\ op.pc \in SigningPc => batch[op.b].status = "Constructed"
  /\ op.pc \in SignedPc => batch[op.b].status = "Signed"
  /\ op.pc \in ConfirmPc => batch[op.b].status = "Broadcast"

\* What the operator's local variables say: the range of a snapshot in
\* preparation lies inside what was requested, the per-request loops stay
\* inside their range, the signatures in hand are a quorum's, and a batch about
\* to be Constructed has landed.
Locals ==
  /\ op.pc \in {"record", "sequence", "reserve"} =>
       op.cursor < CappedBatchEnd(op.cursor, op.tip) /\ op.tip <= tip
  /\ op.pc = "record" =>
       op.cursor <= op.i /\ op.i < CappedBatchEnd(op.cursor, op.tip)
  /\ op.pc \in {"markRequests", "markRequestBroadcast"} =>
       batch[op.b].lo <= op.i /\ op.i < batch[op.b].hi
  /\ op.pc = "persistSigned" => op.quorum \in Quorums
  /\ op.pc = "setConstructed" => solanaTx[op.b] = "Landed"

\* A signed transaction exists exactly from the Signed stage on.
Signatures ==
  /\ \A b \in Batch : dogeTx[b].status # "None" <=>
       batch[b].status \in {"Signed", "Broadcast", "Confirmed"}
  /\ \A b \in Batch : dogeTx[b].status # "None" => dogeTx[b].quorum \in Quorums

\* The ranges of landed snapshots lie behind the cursor, one after another;
\* what is past Observed has landed.
Landings ==
  /\ \A b \in Batch : solanaTx[b] = "Landed" => batch[b].hi <= cursor
  /\ \A b, c \in Batch :
       solanaTx[b] = "Landed" /\ solanaTx[c] = "Landed" /\ b # c =>
         batch[b].hi <= batch[c].lo \/ batch[c].hi <= batch[b].lo
  /\ \A b \in Batch : batch[b].status \in {"Constructed", "Signed", "Broadcast", "Confirmed"} =>
       solanaTx[b] = "Landed"

\* Dogecoin holds only persisted transactions, as they were persisted.
Payments ==
  \A tx \in Known : dogeTx[tx[1]].status # "None" /\ tx[2] = dogeTx[tx[1]].quorum

IInv == TypeOK /\ Ranges /\ Control /\ Locals /\ Signatures /\ Landings /\ Payments

\* A snapshot range never ends past the requested tip (capped_batch_end).
LEMMA CappedBatchEndBound ==
  ASSUME NEW start \in Nat, NEW requestedTip \in 0 .. MaxRequests
  PROVE  /\ CappedBatchEnd(start, requestedTip) \in Int
         /\ CappedBatchEnd(start, requestedTip) <= requestedTip
         /\ CappedBatchEnd(start, requestedTip) <= MaxRequests
  BY BoundsAssumption DEF CappedBatchEnd

\* The local state of an operator that has just started is well typed.
LEMMA IdleType == Idle \in OpRow
  BY BoundsAssumption DEF OpRow, Idle, Pc, NoBatch

\* Moving on to the next call keeps the local state well typed.
LEMMA GotoType ==
  ASSUME op \in OpRow, NEW p \in Pc PROVE [op EXCEPT !.pc = p] \in OpRow
  BY DEF OpRow

\* So does moving a per-request loop to a request that exists.
LEMMA LoopType ==
  ASSUME op \in OpRow, NEW n \in 0 .. MaxRequests
  PROVE  [op EXCEPT !.i = n] \in OpRow
  BY DEF OpRow

\* Outside a poll and a fresh snapshot, the operator has a batch at hand, with a
\* range of requests.
LEMMA RangeType ==
  ASSUME IInv, op.pc \notin {"idle"} \cup FreshPc
  PROVE  /\ op.b \in Batch
         /\ batch[op.b].lo \in 0 .. MaxRequests
         /\ batch[op.b].hi \in 0 .. MaxRequests
  BY DEF IInv, TypeOK, StoreTypeOK, WorldTypeOK, Control, BatchRow

\* The next request of a per-request loop exists, while the loop has one.
LEMMA NextRequestType ==
  ASSUME IInv
  PROVE  /\ op.pc = "record" /\ op.i + 1 < CappedBatchEnd(op.cursor, op.tip) =>
              op.i + 1 \in 0 .. MaxRequests
         /\ op.pc \notin {"idle"} \cup FreshPc /\ op.i + 1 < batch[op.b].hi =>
              op.i + 1 \in 0 .. MaxRequests
<1>1. op.i \in 0 .. MaxRequests /\ op.cursor \in 0 .. MaxRequests /\ op.tip \in 0 .. MaxRequests
  BY DEF IInv, TypeOK, StoreTypeOK, WorldTypeOK, OpRow
<1>2. CappedBatchEnd(op.cursor, op.tip) \in Int /\ CappedBatchEnd(op.cursor, op.tip) <= MaxRequests
  BY <1>1, CappedBatchEndBound
<1>3. op.pc \notin {"idle"} \cup FreshPc => batch[op.b].hi \in 0 .. MaxRequests
  BY RangeType
<1>4. QED BY <1>1, <1>2, <1>3, BoundsAssumption

\* select_observed_batch_action answers one of its four actions.
LEMMA ObservedActionType ==
  ASSUME NEW sig \in {"none", "ok", "err"}, NEW found \in BOOLEAN,
         NEW hashValid \in BOOLEAN, NEW seenCursor, NEW start
  PROVE  ObservedAction(sig, found, hashValid, seenCursor, start)
           \in {"AwaitConfirmation", "ResendOriginal", "Fail", "Wait"}
  BY DEF ObservedAction

\* The decision on an Observed batch leads to one of four calls, or ends the run.
LEMMA DecideOutcome ==
  ASSUME IInv, DecideObserved
  PROVE  op' = Idle \/ \E p \in {"finish", "await", "submit", "release"} :
                          op' = [op EXCEPT !.pc = p]
<1>1. op.b \in Batch /\ blockhash[op.b] \in BOOLEAN
  BY DEF IInv, TypeOK, StoreTypeOK, WorldTypeOK, Control, DecideObserved, At,
       FreshPc
<1> DEFINE action == ObservedAction(op.sig, op.found, blockhash[op.b], op.cursor,
       batch[op.b].lo)
<1>2. action \in {"AwaitConfirmation", "ResendOriginal", "Fail", "Wait"}
  BY <1>1, ObservedActionType DEF IInv, TypeOK, StoreTypeOK, WorldTypeOK, OpRow
<1>3. op' = CASE action = "AwaitConfirmation" ->
                      [op EXCEPT !.pc = IF op.found THEN "finish" ELSE "await"]
              [] action = "ResendOriginal" -> [op EXCEPT !.pc = "submit"]
              [] action = "Fail"           -> [op EXCEPT !.pc = "release"]
              [] action = "Wait"           -> Idle
  BY DEF DecideObserved
<1> HIDE DEF action
<1>4. QED BY <1>2, <1>3

\* Every step leaves the local state of the operator well typed.
LEMMA OpTypeStep == ASSUME IInv, Next PROVE op' \in OpRow
<1>0. /\ op \in OpRow /\ cursor \in 0 .. MaxRequests
      /\ tip \in 0 .. MaxRequests /\ sequence \in 0 .. MaxRequests
  BY DEF IInv, TypeOK, WorldTypeOK
<1> USE <1>0, IdleType DEF Pc, FreshPc, ObservedPc, SigningPc, SignedPc, ConfirmPc,
       Goto, Ensure
<1>1. CASE PollIdle
  BY <1>1 DEF PollIdle, vars
<1>2. CASE PollFresh
  BY <1>2 DEF PollFresh, OpRow
<1>3. CASE LoadHistory
  BY <1>3 DEF LoadHistory, OpRow
<1>4. CASE ReadState
  <2>1. op' = [op EXCEPT !.pc = "record", !.i = cursor] \/ op' = Idle
    BY <1>4 DEF ReadState
  <2>2. QED BY <2>1 DEF OpRow
<1>5. CASE ReadSequence
  <2>1. SequenceFor(op.cursor, sequence) \in 0 .. MaxRequests
    BY DEF SequenceFor, OpRow
  <2>2. QED BY <1>5, <2>1 DEF ReadSequence, OpRow
<1>6. CASE ReserveInsufficient
  BY <1>6 DEF ReserveInsufficient, OpRow
<1>7. CASE SubmitRejected
  BY <1>7 DEF SubmitRejected, OpRow
<1>8. CASE AwaitMetadata
  BY <1>8 DEF AwaitMetadata, OpRow
<1>9. CASE AwaitTimeout
  BY <1>9 DEF AwaitTimeout, OpRow
<1>10. CASE FinishSnapshot
  <2>1. op' = Idle \/ \E p \in {"release", "checkSequence"} : op' = [op EXCEPT !.pc = p]
    BY <1>10 DEF FinishSnapshot
  <2>2. QED BY <2>1, GotoType, BoundsAssumption
<1>11. CASE CheckSequence
  BY <1>11 DEF CheckSequence, OpRow
<1>12. ASSUME NEW b \in Batch, ResumeObserved(b)
       PROVE  op' \in OpRow
  BY <1>12 DEF ResumeObserved, OpRow
<1>13. CASE ReadCursor
  BY <1>13 DEF ReadCursor, OpRow
<1>14. CASE ReadStatus
  <2>1. \E s \in {"none", "ok", "err"} : op' = [op EXCEPT !.pc = "metadata", !.sig = s]
    BY <1>14 DEF ReadStatus
  <2>2. QED BY <2>1 DEF OpRow
<1>15. ASSUME NEW found \in BOOLEAN, ReadMetadata(found)
       PROVE  op' \in OpRow
  BY <1>15 DEF ReadMetadata, OpRow
<1>16. CASE DecideObserved
  <2>1. op' = Idle \/ \E p \in {"finish", "await", "submit", "release"} : op' = [op EXCEPT !.pc = p]
    BY <1>16, DecideOutcome
  <2>2. QED BY <2>1, GotoType, BoundsAssumption
<1>17. ASSUME NEW b \in Batch, ResumeConstructed(b)
       PROVE  op' \in OpRow
  BY <1>17 DEF ResumeConstructed, OpRow
<1>18. ASSUME NEW q \in Quorums, FetchSignatures(q)
       PROVE  op' \in OpRow
  BY <1>18 DEF FetchSignatures, OpRow
<1>19. CASE SigningTimeout
  BY <1>19 DEF SigningTimeout, OpRow
<1>20. ASSUME NEW b \in Batch, ResumeSigned(b)
       PROVE  op' \in OpRow
  <2>1. op' = [op EXCEPT !.pc = "broadcast", !.b = b] \/ op' = Idle
    BY <1>20 DEF ResumeSigned
  <2>2. QED BY <1>20, <2>1 DEF OpRow
<1>21. ASSUME NEW b \in Batch, ResumeTransition(b)
       PROVE  op' \in OpRow
  <2>1. \/ op' = [op EXCEPT !.pc = "markReservation", !.b = b, !.recovering = TRUE]
        \/ op' = Idle
    BY <1>21 DEF ResumeTransition
  <2>2. QED BY <1>21, <2>1 DEF OpRow
<1>22. ASSUME NEW b \in Batch, ResumeBroadcast(b)
       PROVE  op' \in OpRow
  BY <1>22 DEF ResumeBroadcast, OpRow
<1>23. CASE CheckMined
  BY <1>23 DEF CheckMined, OpRow
<1>24. CASE RecordRequest
  <2>1. CASE op.i + 1 < CappedBatchEnd(op.cursor, op.tip)
    <3>1. op.i + 1 \in 0 .. MaxRequests
      BY <1>24, <2>1, NextRequestType DEF RecordRequest, At
    <3>2. op' = [op EXCEPT !.i = op.i + 1]
      BY <1>24, <2>1 DEF RecordRequest
    <3>3. QED BY <3>1, <3>2, LoopType
  <2>2. CASE ~(op.i + 1 < CappedBatchEnd(op.cursor, op.tip))
    <3>1. op' = [op EXCEPT !.pc = "sequence", !.i = 0]
      BY <1>24, <2>2 DEF RecordRequest
    <3>2. 0 \in 0 .. MaxRequests
      BY BoundsAssumption
    <3>3. QED BY <3>1, <3>2 DEF OpRow
  <2>3. QED BY <2>1, <2>2
<1>25. ASSUME NEW b \in Batch, NEW coins \in SUBSET Coin, NEW kind \in ChangeKind,
             ReserveSnapshot(b, coins, kind)
       PROVE  op' \in OpRow
  BY <1>25 DEF ReserveSnapshot, OpRow
<1>26. CASE Submit
  BY <1>26 DEF Submit, OpRow
<1>27. CASE SetConstructed
  BY <1>27, RangeType DEF SetConstructed, At, OpRow
<1>28. CASE ReleaseReservation
  BY <1>28 DEF ReleaseReservation, OpRow
<1>29. CASE SetFailed
  BY <1>29 DEF SetFailed, OpRow
<1>30. CASE MarkRequestConstructed
  <2>1. CASE op.i + 1 < batch[op.b].hi
    <3>1. op.i + 1 \in 0 .. MaxRequests
      BY <1>30, <2>1, NextRequestType DEF MarkRequestConstructed, At
    <3>2. op' = [op EXCEPT !.i = op.i + 1]
      BY <1>30, <2>1 DEF MarkRequestConstructed
    <3>3. QED BY <3>1, <3>2, LoopType
  <2>2. CASE ~(op.i + 1 < batch[op.b].hi)
    <3>1. op' = [op EXCEPT !.pc = "register", !.i = 0]
      BY <1>30, <2>2 DEF MarkRequestConstructed
    <3>2. 0 \in 0 .. MaxRequests
      BY BoundsAssumption
    <3>3. QED BY <3>1, <3>2 DEF OpRow
  <2>3. QED BY <2>1, <2>2
<1>31. CASE Register
  BY <1>31 DEF Register, OpRow
<1>32. CASE PersistSigned
  BY <1>32 DEF PersistSigned, OpRow
<1>33. CASE BroadcastTx
  BY <1>33 DEF BroadcastTx, OpRow
<1>34. CASE MarkReservation
  BY <1>34 DEF MarkReservation, OpRow
<1>35. CASE MarkTx
  BY <1>35 DEF MarkTx, OpRow
<1>36. CASE MarkProcess
  BY <1>36, RangeType DEF MarkProcess, At, OpRow
<1>37. CASE MarkRequestBroadcast
  <2>1. CASE op.i + 1 < batch[op.b].hi
    <3>1. op.i + 1 \in 0 .. MaxRequests
      BY <1>37, <2>1, NextRequestType DEF MarkRequestBroadcast, At
    <3>2. op' = [op EXCEPT !.i = op.i + 1]
      BY <1>37, <2>1 DEF MarkRequestBroadcast
    <3>3. QED BY <3>1, <3>2, LoopType
  <2>2. CASE ~(op.i + 1 < batch[op.b].hi)
    <3>1. op' = [op EXCEPT !.pc = "markBatch", !.i = 0]
      BY <1>37, <2>2 DEF MarkRequestBroadcast
    <3>2. 0 \in 0 .. MaxRequests
      BY BoundsAssumption
    <3>3. QED BY <3>1, <3>2 DEF OpRow
  <2>3. QED BY <2>1, <2>2
<1>38. CASE MarkBatch
  BY <1>38 DEF MarkBatch, OpRow
<1>39. CASE Finalize
  BY <1>39 DEF Finalize, OpRow
<1>40. CASE NewRequest
  BY <1>40 DEF NewRequest, OpRow
<1>41. ASSUME NEW d \in Deposits, RegisterDeposit(d)
       PROVE  op' \in OpRow
  BY <1>41 DEF RegisterDeposit, OpRow
<1>42. ASSUME NEW b \in Batch, Land(b)
       PROVE  op' \in OpRow
  BY <1>42 DEF Land, OpRow
<1>43. ASSUME NEW b \in Batch, Expire(b)
       PROVE  op' \in OpRow
  BY <1>43 DEF Expire, OpRow
<1>44. ASSUME NEW tx \in mempool, Mine(tx)
       PROVE  op' \in OpRow
  BY <1>44 DEF Mine, OpRow
<1>45. CASE Crash
  BY <1>45 DEF Crash, OpRow
<1>46. CASE ManagerRestart
  BY <1>46 DEF ManagerRestart, OpRow
<1>47. ASSUME NEW tx \in mempool, Evict(tx)
       PROVE  op' \in OpRow
  BY <1>47 DEF Evict, OpRow
<1>48. CASE DaemonStops \/ DaemonStarts
  BY <1>48 DEF DaemonStops, DaemonStarts
<1>q. QED BY <1>1, <1>2, <1>3, <1>4, <1>5, <1>6, <1>7, <1>8, <1>9, <1>10, <1>11, <1>48,
       <1>12, <1>13, <1>14, <1>15, <1>16, <1>17, <1>18, <1>19, <1>20, <1>21, <1>22, <1>23,
       <1>24, <1>25, <1>26, <1>27, <1>28, <1>29, <1>30, <1>31, <1>32, <1>33, <1>34, <1>35,
       <1>36, <1>37, <1>38, <1>39, <1>40, <1>41, <1>42, <1>43, <1>44, <1>45, <1>46, <1>47
  DEF Next, Operator, Environment, FreshStep, ObservedStep, SigningStep,
         BroadcastStep, ConfirmStep

\* The steps that write to the operator store.
StoreWrite ==
  \/ RecordRequest
  \/ \E b \in Batch, coins \in SUBSET Coin, kind \in ChangeKind :
       ReserveSnapshot(b, coins, kind)
  \/ SetConstructed
  \/ MarkRequestConstructed
  \/ ReleaseReservation
  \/ SetFailed
  \/ PersistSigned
  \/ MarkReservation
  \/ MarkTx
  \/ MarkProcess
  \/ MarkRequestBroadcast
  \/ MarkBatch
  \/ Finalize
  \/ \E d \in Deposits : RegisterDeposit(d)

\* Only these steps write to the store.
LEMMA StoreFrame == ASSUME Next PROVE UNCHANGED store \/ StoreWrite
<1>1. CASE FreshStep
  BY <1>1 DEF FreshStep, PollIdle, PollFresh, LoadHistory, ReadState,
     ReadSequence, ReserveInsufficient, StoreWrite, store, solana, doge, vars
<1>2. CASE ObservedStep
  BY <1>2 DEF ObservedStep, Submit, SubmitRejected, AwaitMetadata,
     AwaitTimeout, FinishSnapshot, CheckSequence, ResumeObserved, ReadCursor,
     ReadStatus, DecideObserved, ReadMetadata, StoreWrite, store, solana,
     doge, vars
<1>3. CASE SigningStep
  BY <1>3 DEF SigningStep, ResumeConstructed, Register, SigningTimeout,
     FetchSignatures, StoreWrite, store, solana, doge, vars
<1>4. CASE BroadcastStep
  BY <1>4 DEF BroadcastStep, ResumeSigned, ResumeTransition, BroadcastTx,
     StoreWrite, store, solana, doge, vars
<1>5. CASE ConfirmStep
  BY <1>5 DEF ConfirmStep, ResumeBroadcast, CheckMined, StoreWrite, store,
     solana, doge, vars
<1>6. CASE Environment
  BY <1>6 DEF Environment, NewRequest, Land, Expire, Mine, Crash,
     DaemonStops, DaemonStarts, ManagerRestart, Evict, StoreWrite, store, solana, doge, vars
<1>q. QED BY <1>1, <1>2, <1>3, <1>4, <1>5, <1>6 DEF Next, Operator

\* The steps that change Solana, the Manager service, Dogecoin, whether the
\* daemon is up, or what befell it.
WorldStep ==
  \/ \E b \in Batch, coins \in SUBSET Coin, kind \in ChangeKind :
       ReserveSnapshot(b, coins, kind)
  \/ Submit
  \/ Register
  \/ BroadcastTx
  \/ NewRequest
  \/ \E d \in Deposits : RegisterDeposit(d)
  \/ \E b \in Batch : Land(b)
  \/ \E b \in Batch : Expire(b)
  \/ \E tx \in mempool : Mine(tx)
  \/ Crash
  \/ DaemonStops \/ DaemonStarts
  \/ ManagerRestart
  \/ \E tx \in mempool : Evict(tx)

\* Only these steps change anything outside the operator and its store.
LEMMA WorldFrame == ASSUME Next PROVE UNCHANGED <<solana, registered, doge, life>> \/ WorldStep
<1>1. CASE FreshStep
  BY <1>1 DEF FreshStep, PollIdle, PollFresh, LoadHistory, ReadState,
     RecordRequest, ReadSequence, ReserveInsufficient, WorldStep, store,
     solana, doge, vars
<1>2. CASE ObservedStep
  BY <1>2 DEF ObservedStep, SubmitRejected, AwaitMetadata, AwaitTimeout,
     FinishSnapshot, CheckSequence, SetConstructed, ReleaseReservation,
     SetFailed, ResumeObserved, ReadCursor, ReadStatus, DecideObserved,
     ReadMetadata, WorldStep, store, solana, doge, vars
<1>3. CASE SigningStep
  BY <1>3 DEF SigningStep, MarkRequestConstructed, ResumeConstructed,
     SigningTimeout, PersistSigned, FetchSignatures, WorldStep, store, solana,
     doge, vars
<1>4. CASE BroadcastStep
  BY <1>4 DEF BroadcastStep, ResumeSigned, ResumeTransition,
     MarkReservation, MarkTx, MarkProcess, MarkRequestBroadcast, MarkBatch,
     WorldStep, store, solana, doge, vars
<1>5. CASE ConfirmStep
  BY <1>5 DEF ConfirmStep, ResumeBroadcast, CheckMined, Finalize,
     WorldStep, store, solana, doge, vars
<1>6. CASE Environment
  BY <1>6 DEF Environment, WorldStep
<1>q. QED BY <1>1, <1>2, <1>3, <1>4, <1>5, <1>6 DEF Next, Operator

\* Giving a batch another status keeps its row well typed.
LEMMA SetBatchType ==
  ASSUME batch \in [Batch -> BatchRow], NEW b \in Batch, NEW s \in BatchStatus, SetBatch(b, s)
  PROVE  batch' \in [Batch -> BatchRow]
<1>1. [batch[b] EXCEPT !.status = s] \in BatchRow
  BY DEF BatchRow
<1>2. QED BY <1>1 DEF SetBatch

\* So does giving its Dogecoin transaction another status.
LEMMA SetDogeTxType ==
  ASSUME dogeTx \in [Batch -> GraphRow], NEW b \in Batch, NEW s \in GraphStatus
  PROVE  [dogeTx EXCEPT ![b].status = s] \in [Batch -> GraphRow]
<1>1. [dogeTx[b] EXCEPT !.status = s] \in GraphRow
  BY DEF GraphRow
<1>2. QED BY <1>1

\* So does giving custody coins another status.
LEMMA SetCoinsType ==
  ASSUME custody \in [Coin -> CoinStatus], NEW S, NEW s \in CoinStatus, SetCoins(S, s)
  PROVE  custody' \in [Coin -> CoinStatus]
  BY DEF SetCoins

\* So does giving the requests of a batch another status.
LEMMA SetRangeType ==
  ASSUME request \in [Request -> RequestStatus], NEW b, NEW s \in RequestStatus, SetRange(b, s)
  PROVE  request' \in [Request -> RequestStatus]
  BY DEF SetRange

\* A snapshot in preparation has a range within the requests that exist.
LEMMA Bounds ==
  ASSUME IInv, op.pc \in {"record", "sequence", "reserve"}
  PROVE  /\ op.cursor \in 0 .. MaxRequests
         /\ op.tip \in 0 .. MaxRequests
         /\ op.sequence \in 0 .. MaxRequests
         /\ CappedBatchEnd(op.cursor, op.tip) \in 0 .. MaxRequests
<1>1. /\ op.cursor \in 0 .. MaxRequests /\ op.tip \in 0 .. MaxRequests
      /\ op.sequence \in 0 .. MaxRequests
  BY DEF IInv, TypeOK, OpRow
<1>2. CappedBatchEnd(op.cursor, op.tip) \in Int /\ CappedBatchEnd(op.cursor, op.tip) <= MaxRequests
  BY <1>1, CappedBatchEndBound
<1>3. op.cursor < CappedBatchEnd(op.cursor, op.tip)
  BY DEF IInv, Locals
<1>4. QED BY <1>1, <1>2, <1>3, BoundsAssumption

\* From the Signed stage on, the batch at hand has a quorum's transaction.
LEMMA SignedTxType ==
  ASSUME IInv, op.pc \in SignedPc \cup ConfirmPc
  PROVE  op.b \in Batch /\ SignedTx(op.b) \in Batch \X Quorums
<1>1. op.b \in Batch /\ batch[op.b].status \in {"Signed", "Broadcast"}
  BY DEF IInv, Control, SignedPc, ConfirmPc, FreshPc
<1>2. dogeTx[op.b].quorum \in Quorums
  BY <1>1 DEF IInv, Signatures
<1>3. QED BY <1>1, <1>2 DEF SignedTx

\* Every step leaves the store well typed.
LEMMA StoreTypeStep == ASSUME IInv, Next PROVE StoreTypeOK'
<1>t. /\ batch \in [Batch -> BatchRow]
      /\ reservation \in [Batch -> ReservationStatus]
      /\ inputs \in [Batch -> SUBSET Coin]
      /\ change \in [Batch -> ChangeKind]
      /\ dogeTx \in [Batch -> GraphRow]
      /\ process \in [Batch -> GraphStatus]
      /\ request \in [Request -> RequestStatus]
      /\ custody \in [Coin -> CoinStatus]
  BY DEF IInv, TypeOK, StoreTypeOK
<1>1. CASE UNCHANGED store
  BY <1>1, <1>t DEF StoreTypeOK, store, solana, doge
<1>2. CASE RecordRequest
  BY <1>2, <1>t, BoundsAssumption DEF RecordRequest, StoreTypeOK, GraphStatus,
       RequestStatus, CoinStatus
<1>3. ASSUME NEW b \in Batch, NEW coins \in SUBSET Coin, NEW kind \in ChangeKind,
             ReserveSnapshot(b, coins, kind)
       PROVE  StoreTypeOK'
  <2>1. batch' \in [Batch -> BatchRow]
    <3>1. [status |-> "Observed", lo |-> op.cursor,
           hi |-> CappedBatchEnd(op.cursor, op.tip), tip |-> op.tip,
           sequence |-> op.sequence] \in BatchRow
      BY <1>3, Bounds DEF ReserveSnapshot, At, BatchRow, BatchStatus
    <3>2. QED BY <1>3, <1>t, <3>1 DEF ReserveSnapshot
  <2>2. custody' \in [Coin -> CoinStatus]
    BY <1>3, <1>t, SetCoinsType DEF ReserveSnapshot, CoinStatus
  <2>3. QED BY <1>3, <1>t, <2>1, <2>2 DEF ReserveSnapshot, StoreTypeOK,
         ReservationStatus
<1>4. CASE SetConstructed
  <2>1. op.b \in Batch
    BY <1>4, RangeType DEF SetConstructed, At, FreshPc
  <2>2. batch' \in [Batch -> BatchRow]
    BY <1>4, <2>1, <1>t, SetBatchType DEF SetConstructed, BatchStatus
  <2>3. QED BY <1>4, <1>t, <2>2 DEF SetConstructed, StoreTypeOK
<1>5. CASE MarkRequestConstructed
  BY <1>5, <1>t, BoundsAssumption DEF MarkRequestConstructed, StoreTypeOK,
       GraphStatus, RequestStatus, CoinStatus
<1>6. CASE ReleaseReservation
  <2>1. custody' \in [Coin -> CoinStatus]
    BY <1>6, <1>t, SetCoinsType DEF ReleaseReservation, CoinStatus
  <2>2. reservation' \in [Batch -> ReservationStatus]
    BY <1>6, <1>t DEF ReleaseReservation, ReservationStatus
  <2>3. QED BY <1>6, <1>t, <2>1, <2>2 DEF ReleaseReservation, StoreTypeOK
<1>7. CASE SetFailed
  <2>1. op.b \in Batch
    BY <1>7, RangeType DEF SetFailed, At, FreshPc
  <2>2. batch' \in [Batch -> BatchRow]
    BY <1>7, <2>1, <1>t, SetBatchType DEF SetFailed, BatchStatus
  <2>3. QED BY <1>7, <1>t, <2>2 DEF SetFailed, StoreTypeOK
<1>8. CASE PersistSigned
  <2>1. op.b \in Batch
    BY <1>8, RangeType DEF PersistSigned, At, FreshPc
  <2>2. batch' \in [Batch -> BatchRow]
    BY <1>8, <2>1, <1>t, SetBatchType DEF PersistSigned, BatchStatus
  <2>3. request' \in [Request -> RequestStatus]
    BY <1>8, <1>t, SetRangeType DEF PersistSigned, RequestStatus
  <2>4. dogeTx' \in [Batch -> GraphRow]
    <3>1. [status |-> "Signed", quorum |-> op.quorum] \in GraphRow
      BY DEF IInv, TypeOK, OpRow, GraphRow, GraphStatus
    <3>2. QED BY <1>8, <1>t, <3>1 DEF PersistSigned
  <2>5. process' \in [Batch -> GraphStatus]
    BY <1>8, <1>t DEF PersistSigned, GraphStatus
  <2>6. QED BY <1>8, <1>t, <2>2, <2>3, <2>4, <2>5 DEF PersistSigned, StoreTypeOK
<1>9. CASE MarkReservation
  <2>1. custody' \in [Coin -> CoinStatus]
    BY <1>9, <1>t, SetCoinsType DEF MarkReservation, CoinStatus
  <2>2. reservation' \in [Batch -> ReservationStatus]
    BY <1>9, <1>t DEF MarkReservation, ReservationStatus
  <2>3. QED BY <1>9, <1>t, <2>1, <2>2 DEF MarkReservation, StoreTypeOK
<1>10. CASE MarkTx
  <2>1. op.b \in Batch
    BY <1>10, RangeType DEF MarkTx, At, FreshPc
  <2>2. dogeTx' \in [Batch -> GraphRow]
    BY <1>10, <2>1, <1>t, SetDogeTxType DEF MarkTx, GraphStatus
  <2>3. QED BY <1>10, <1>t, <2>2 DEF MarkTx, StoreTypeOK
<1>11. CASE MarkProcess
  BY <1>11, <1>t, BoundsAssumption DEF MarkProcess, StoreTypeOK, GraphStatus,
       RequestStatus, CoinStatus
<1>12. CASE MarkRequestBroadcast
  BY <1>12, <1>t, BoundsAssumption DEF MarkRequestBroadcast, StoreTypeOK,
       GraphStatus, RequestStatus, CoinStatus
<1>13. CASE MarkBatch
  <2>1. op.b \in Batch
    BY <1>13, RangeType DEF MarkBatch, At, FreshPc
  <2>2. batch' \in [Batch -> BatchRow]
    BY <1>13, <2>1, <1>t, SetBatchType DEF MarkBatch, BatchStatus
  <2>3. QED BY <1>13, <1>t, <2>2 DEF MarkBatch, StoreTypeOK
<1>14. CASE Finalize
  <2>1. op.b \in Batch
    BY <1>14, RangeType DEF Finalize, At, FreshPc
  <2>2. batch' \in [Batch -> BatchRow]
    BY <1>14, <2>1, <1>t, SetBatchType DEF Finalize, BatchStatus
  <2>3. request' \in [Request -> RequestStatus]
    BY <1>14, <1>t, SetRangeType DEF Finalize, RequestStatus
  <2>4. dogeTx' \in [Batch -> GraphRow]
    BY <1>14, <2>1, <1>t, SetDogeTxType DEF Finalize, GraphStatus
  <2>5. custody' \in [Coin -> CoinStatus]
    BY <1>14, <1>t DEF Finalize, CoinStatus
  <2>6. process' \in [Batch -> GraphStatus] /\ reservation' \in [Batch -> ReservationStatus]
    BY <1>14, <1>t DEF Finalize, GraphStatus, ReservationStatus
  <2>7. QED BY <1>14, <1>t, <2>2, <2>3, <2>4, <2>5, <2>6 DEF Finalize, StoreTypeOK
<1>15. ASSUME NEW d \in Deposits, RegisterDeposit(d)
       PROVE  StoreTypeOK'
  BY <1>15, <1>t, BoundsAssumption DEF RegisterDeposit, StoreTypeOK, GraphStatus,
       RequestStatus, CoinStatus
<1>q. QED BY <1>1, <1>2, <1>3, <1>4, <1>5, <1>6, <1>7, <1>8, <1>9, <1>10, <1>11,
           <1>12, <1>13, <1>14, <1>15, StoreFrame DEF StoreWrite

\* Every step leaves Solana, the Manager service and Dogecoin well typed.
LEMMA WorldTypeStep == ASSUME IInv, Next PROVE WorldTypeOK'
<1>t. /\ cursor \in 0 .. MaxRequests
      /\ tip \in 0 .. MaxRequests
      /\ sequence \in 0 .. MaxRequests
      /\ solanaTx \in [Batch -> SolanaTx]
      /\ blockhash \in [Batch -> BOOLEAN]
      /\ registered \in [0 .. MaxRequests -> Batch \cup {NoBatch}]
      /\ mempool \in SUBSET (Batch \X Quorums)
      /\ mined \in SUBSET (Batch \X Quorums)
      /\ running \in BOOLEAN /\ overwritten \in SUBSET Deposits /\ faults \in 0 .. MaxFaults
  BY DEF IInv, TypeOK, WorldTypeOK
<1>1. CASE UNCHANGED <<solana, registered, doge, life>>
  BY <1>1, <1>t DEF WorldTypeOK, store, solana, doge, life
<1>2. ASSUME NEW b \in Batch, NEW coins \in SUBSET Coin, NEW kind \in ChangeKind,
             ReserveSnapshot(b, coins, kind)
       PROVE  WorldTypeOK'
  BY <1>2, <1>t, BoundsAssumption DEF ReserveSnapshot, WorldTypeOK, SolanaTx, Fault,
       solana, doge, life
<1>3. CASE Submit
  BY <1>3, <1>t, BoundsAssumption DEF Submit, WorldTypeOK, SolanaTx, Fault, solana, doge, life
<1>4. CASE Register
  <2>1. op.b \in Batch
    BY <1>4, RangeType DEF Register, At, FreshPc
  <2>2. registered' \in [0 .. MaxRequests -> Batch \cup {NoBatch}]
    BY <1>4, <1>t, <2>1 DEF Register
  <2>3. QED BY <1>4, <1>t, <2>2 DEF Register, WorldTypeOK, solana, doge, life
<1>5. CASE BroadcastTx
  <2>1. mempool' \in SUBSET (Batch \X Quorums)
    BY <1>5, <1>t, SignedTxType DEF BroadcastTx, At, SignedPc
  <2>2. QED BY <1>5, <1>t, <2>1 DEF BroadcastTx, WorldTypeOK, solana, life
<1>6. CASE NewRequest
  BY <1>6, <1>t, BoundsAssumption DEF NewRequest, WorldTypeOK, SolanaTx, Fault,
       solana, doge, life
<1>7. ASSUME NEW b \in Batch, Land(b)
       PROVE  WorldTypeOK'
  <2>1. cursor' \in 0 .. MaxRequests /\ sequence' \in 0 .. MaxRequests
    <3>1. /\ batch[b].hi \in 0 .. MaxRequests /\ batch[b].lo \in 0 .. MaxRequests
          /\ batch[b].lo < batch[b].hi
      BY <1>7 DEF Land, IInv, TypeOK, StoreTypeOK, BatchRow, Ranges
    <3>2. sequence <= cursor
      BY DEF IInv, Ranges
    <3>3. QED BY <1>7, <1>t, <3>1, <3>2, BoundsAssumption DEF Land, WouldSucceed
  <2>2. solanaTx' \in [Batch -> SolanaTx]
    BY <1>7, <1>t DEF Land, SolanaTx
  <2>3. QED BY <1>7, <1>t, <2>1, <2>2 DEF Land, WorldTypeOK, doge, life
<1>8. ASSUME NEW b \in Batch, Expire(b)
       PROVE  WorldTypeOK'
  <2>1. faults' \in 0 .. MaxFaults
    BY <1>8, <1>t, BoundsAssumption DEF Expire
  <2>2. blockhash' \in [Batch -> BOOLEAN]
    BY <1>8, <1>t DEF Expire
  <2>3. QED BY <1>8, <1>t, <2>1, <2>2 DEF Expire, WorldTypeOK, doge
<1>9. ASSUME NEW tx \in mempool, Mine(tx)
       PROVE  WorldTypeOK'
  BY <1>9, <1>t, BoundsAssumption DEF Mine, WorldTypeOK, SolanaTx, Fault, solana, doge, life
<1>10. CASE Crash
  BY <1>10, <1>t, BoundsAssumption DEF Crash, Fault, WorldTypeOK, solana, doge, life
<1>11. CASE ManagerRestart
  BY <1>11, <1>t, BoundsAssumption DEF ManagerRestart, WorldTypeOK, SolanaTx, Fault,
       solana, doge, life
<1>12. ASSUME NEW tx \in mempool, Evict(tx)
       PROVE  WorldTypeOK'
  BY <1>12, <1>t, BoundsAssumption DEF Evict, WorldTypeOK, SolanaTx, Fault, solana, doge, life
<1>13. ASSUME NEW d \in Deposits, RegisterDeposit(d)
       PROVE  WorldTypeOK'
  <2>1. faults' \in 0 .. MaxFaults
    BY <1>13, <1>t, BoundsAssumption DEF RegisterDeposit, Fault
  <2>2. overwritten' \in SUBSET Deposits
    BY <1>13, <1>t DEF RegisterDeposit
  <2>3. QED BY <1>13, <1>t, <2>1, <2>2 DEF RegisterDeposit, WorldTypeOK, solana, doge
<1>14. CASE DaemonStops \/ DaemonStarts
  BY <1>14, <1>t DEF DaemonStops, DaemonStarts, WorldTypeOK, solana, doge
<1>q. QED BY <1>1, <1>2, <1>3, <1>4, <1>5, <1>6, <1>7, <1>8, <1>9, <1>10, <1>11,
           <1>12, <1>13, <1>14, WorldFrame DEF WorldStep

\* Every step leaves the operator on the one incomplete batch, at the stage that
\* batch has in the store, with local variables that say what Locals says.
LEMMA OperatorStep == ASSUME IInv, Next PROVE Control' /\ Locals'
<1> USE DEF At, Polls, Goto, Ensure, Idle, Pc, FreshPc, ObservedPc, SigningPc, SignedPc,
       ConfirmPc
<1>t. /\ op \in OpRow
      /\ batch \in [Batch -> BatchRow]
      /\ cursor \in 0 .. MaxRequests /\ tip \in 0 .. MaxRequests
      /\ Ranges /\ Control /\ Locals
  BY DEF IInv, TypeOK, StoreTypeOK, WorldTypeOK
<1> USE <1>t DEF Control, Locals, Ranges, NoneIncomplete, OpRow, BatchRow, store, solana,
       NoBatch, Batch, Incomplete, SetBatch
<1>1. CASE PollIdle
  BY <1>1, <1>t DEF PollIdle, vars, Control, Locals, NoneIncomplete, store, solana
<1>2. CASE PollFresh
  BY <1>2 DEF PollFresh
<1>3. CASE LoadHistory
  BY <1>3 DEF LoadHistory
<1>4. CASE ReadState
  <2>1. CASE op' = Idle
    BY <1>4, <1>t, <2>1 DEF ReadState, Control, Locals, NoneIncomplete, store
  <2>2. CASE /\ cursor < CappedBatchEnd(cursor, tip) /\ op.tip = tip /\ op.cursor = cursor
             /\ op' = [op EXCEPT !.pc = "record", !.i = cursor]
    <3>1. /\ op'.pc = "record" /\ op'.i = cursor /\ op'.b = op.b
          /\ op'.cursor = op.cursor /\ op'.tip = op.tip
      BY <1>t, <2>2 DEF OpRow
    <3>2. op.pc = "state" /\ UNCHANGED <<batch, tip>>
      BY <1>4 DEF ReadState, store, solana
    <3>3. CappedBatchEnd(op.cursor, op.tip)' = CappedBatchEnd(cursor, tip)
      BY <2>2, <3>1 DEF CappedBatchEnd
    <3>4. QED BY <1>t, <2>2, <3>1, <3>2 DEF Control, Locals, NoneIncomplete,
           CappedBatchEnd
  <2>3. QED BY <1>4, <2>1, <2>2 DEF ReadState
<1>5. CASE ReadSequence
  BY <1>5 DEF ReadSequence
<1>6. CASE ReserveInsufficient
  BY <1>6 DEF ReserveInsufficient
<1>7. CASE SubmitRejected
  BY <1>7 DEF SubmitRejected
<1>8. CASE AwaitMetadata
  BY <1>8 DEF AwaitMetadata
<1>9. CASE AwaitTimeout
  BY <1>9 DEF AwaitTimeout
<1>10. CASE FinishSnapshot
  BY <1>10 DEF FinishSnapshot
<1>11. CASE CheckSequence
  BY <1>11 DEF CheckSequence
<1>12. ASSUME NEW b \in Batch, ResumeObserved(b)
       PROVE  Control' /\ Locals'
  BY <1>12 DEF ResumeObserved
<1>13. CASE ReadCursor
  BY <1>13 DEF ReadCursor
<1>14. CASE ReadStatus
  BY <1>14 DEF ReadStatus
<1>15. ASSUME NEW found \in BOOLEAN, ReadMetadata(found)
       PROVE  Control' /\ Locals'
  BY <1>15 DEF ReadMetadata
<1>16. CASE DecideObserved
  <2>1. \/ op' = Idle
        \/ \E p \in {"finish", "await", "submit", "release"} : op' = [op EXCEPT !.pc = p]
    BY <1>16, DecideOutcome
  <2>2. op.pc = "blockhash" /\ UNCHANGED <<batch, tip, solanaTx>>
    BY <1>16 DEF DecideObserved, store, solana
  <2>3. /\ op'.pc \in {"idle", "finish", "await", "submit", "release"}
        /\ op'.b = IF op'.pc = "idle" THEN NoBatch ELSE op.b
    BY <1>t, <2>1 DEF OpRow
  <2>4. QED BY <1>t, <2>2, <2>3 DEF Control, Locals, NoneIncomplete
<1>17. ASSUME NEW b \in Batch, ResumeConstructed(b)
       PROVE  Control' /\ Locals'
  BY <1>17 DEF ResumeConstructed
<1>18. ASSUME NEW q \in Quorums, FetchSignatures(q)
       PROVE  Control' /\ Locals'
  BY <1>18 DEF FetchSignatures
<1>19. CASE SigningTimeout
  BY <1>19 DEF SigningTimeout
<1>20. ASSUME NEW b \in Batch, ResumeSigned(b)
       PROVE  Control' /\ Locals'
  <2>1. op' = [op EXCEPT !.pc = "broadcast", !.b = b] \/ op' = Idle
    BY <1>20 DEF ResumeSigned
  <2>2. op.pc = "idle" /\ batch[b].status = "Signed" /\ UNCHANGED <<batch, tip, solanaTx>>
    BY <1>20 DEF ResumeSigned
  <2>3. b \in Batch
    BY <1>20
  <2>4. CASE op' = [op EXCEPT !.pc = "broadcast", !.b = b]
    <3>1. op'.pc = "broadcast"
      BY <1>t, <2>4 DEF OpRow
    <3>2. op'.b = b
      BY <1>t, <2>4 DEF OpRow
    <3>3. QED BY <1>t, <2>2, <2>3, <3>1, <3>2
  <2>5. CASE op' = Idle
    BY <1>t, <2>2, <2>5
  <2>6. QED BY <2>1, <2>4, <2>5
<1>21. ASSUME NEW b \in Batch, ResumeTransition(b)
       PROVE  Control' /\ Locals'
  <2>1. \/ op' = [op EXCEPT !.pc = "markReservation", !.b = b, !.recovering = TRUE]
        \/ op' = Idle
    BY <1>21 DEF ResumeTransition
  <2>2. op.pc = "idle" /\ batch[b].status = "Signed" /\ UNCHANGED <<batch, tip, solanaTx>>
    BY <1>21 DEF ResumeTransition
  <2>3. b \in Batch
    BY <1>21
  <2>4. CASE op' = [op EXCEPT !.pc = "markReservation", !.b = b, !.recovering = TRUE]
    <3>1. op'.pc = "markReservation"
      BY <1>t, <2>4 DEF OpRow
    <3>2. op'.b = b
      BY <1>t, <2>4 DEF OpRow
    <3>3. QED BY <1>t, <2>2, <2>3, <3>1, <3>2
  <2>5. CASE op' = Idle
    BY <1>t, <2>2, <2>5
  <2>6. QED BY <2>1, <2>4, <2>5
<1>22. ASSUME NEW b \in Batch, ResumeBroadcast(b)
       PROVE  Control' /\ Locals'
  BY <1>22 DEF ResumeBroadcast
<1>23. CASE CheckMined
  BY <1>23 DEF CheckMined
<1>24. CASE RecordRequest
  BY <1>24 DEF RecordRequest
<1>25. ASSUME NEW b \in Batch, NEW coins \in SUBSET Coin, NEW kind \in ChangeKind,
             ReserveSnapshot(b, coins, kind)
       PROVE  Control' /\ Locals'
  BY <1>25 DEF ReserveSnapshot
<1>26. CASE Submit
  BY <1>26 DEF Submit
<1>27. CASE SetConstructed
  <2>1. op.b \in Batch /\ batch[op.b].status = "Observed"
    BY <1>27, <1>t DEF SetConstructed, Control
  <2>2. /\ \A b \in Batch \ {op.b} : batch'[b] = batch[b]
        /\ batch'[op.b].status = "Constructed"
        /\ batch'[op.b].lo = batch[op.b].lo /\ batch'[op.b].hi = batch[op.b].hi
    BY <1>27, <1>t, <2>1 DEF SetConstructed, SetBatch, BatchRow
  <2>3. op' = [op EXCEPT !.pc = "markRequests", !.i = batch[op.b].lo]
    BY <1>27 DEF SetConstructed
  <2>4. op'.pc = "markRequests" /\ op'.b = op.b /\ op'.i = batch[op.b].lo
    BY <1>t, <2>3 DEF OpRow
  <2>5. batch[op.b].lo < batch[op.b].hi /\ batch[op.b].lo \in Int
    BY <1>t, <2>1 DEF Ranges, BatchRow
  <2>6. QED BY <1>t, <2>1, <2>2, <2>4, <2>5 DEF Control, Locals, Incomplete
<1>28. CASE ReleaseReservation
  BY <1>28 DEF ReleaseReservation
<1>29. CASE SetFailed
  BY <1>29 DEF SetFailed
<1>30. CASE MarkRequestConstructed
  BY <1>30 DEF MarkRequestConstructed
<1>31. CASE Register
  BY <1>31 DEF Register
<1>32. CASE PersistSigned
  <2>1. op.b \in Batch /\ batch[op.b].status = "Constructed"
    BY <1>32, <1>t DEF PersistSigned, Control
  <2>2. CASE reservation[op.b] = "Reserved"
    <3>1. /\ \A b \in Batch \ {op.b} : batch'[b] = batch[b]
          /\ batch'[op.b].status = "Signed"
      BY <1>32, <1>t, <2>1, <2>2 DEF PersistSigned, SetBatch, BatchRow
    <3>2. op'.pc = "broadcast" /\ op'.b = op.b
      BY <1>32, <1>t, <2>2 DEF PersistSigned, OpRow
    <3>3. QED BY <1>t, <2>1, <3>1, <3>2 DEF Control, Locals, Incomplete
  <2>3. CASE reservation[op.b] # "Reserved"
    <3>1. op'.pc = "idle" /\ op'.b = NoBatch /\ batch' = batch
      BY <1>32, <2>3 DEF PersistSigned
    <3>2. QED BY <1>t, <3>1 DEF Control, Locals
  <2>4. QED BY <2>2, <2>3
<1>33. CASE BroadcastTx
  BY <1>33 DEF BroadcastTx
<1>34. CASE MarkReservation
  BY <1>34 DEF MarkReservation
<1>35. CASE MarkTx
  BY <1>35 DEF MarkTx
<1>36. CASE MarkProcess
  BY <1>36 DEF MarkProcess
<1>37. CASE MarkRequestBroadcast
  BY <1>37 DEF MarkRequestBroadcast
<1>38. CASE MarkBatch
  <2>1. op.b \in Batch /\ batch[op.b].status = "Signed"
    BY <1>38, <1>t DEF MarkBatch, Control
  <2>2. /\ \A b \in Batch \ {op.b} : batch'[b] = batch[b]
        /\ batch'[op.b].status = "Broadcast"
        /\ batch'[op.b].lo = batch[op.b].lo /\ batch'[op.b].hi = batch[op.b].hi
    BY <1>38, <1>t, <2>1 DEF MarkBatch, SetBatch, BatchRow
  <2>3. \/ op'.pc = "idle" /\ op'.b = NoBatch
        \/ op'.pc = "checkMined" /\ op'.b = op.b
    BY <1>38, <1>t DEF MarkBatch, OpRow
  <2>4. QED BY <1>t, <2>1, <2>2, <2>3 DEF Control, Locals, Incomplete
<1>39. CASE Finalize
  BY <1>39 DEF Finalize
<1>40. CASE NewRequest
  BY <1>40 DEF NewRequest
<1>41. ASSUME NEW d \in Deposits, RegisterDeposit(d)
       PROVE  Control' /\ Locals'
  BY <1>41 DEF RegisterDeposit
<1>42. ASSUME NEW b \in Batch, Land(b)
       PROVE  Control' /\ Locals'
  <2>1. solanaTx \in [Batch -> SolanaTx] /\ solanaTx[b] = "InFlight"
    BY <1>42 DEF Land, IInv, TypeOK, WorldTypeOK
  <2>2. op.pc = "setConstructed" => op.b \in Batch /\ solanaTx'[op.b] = "Landed"
    BY <1>42, <1>t, <2>1 DEF Land, Control, Locals
  <2>3. QED BY <1>42, <1>t, <2>2 DEF Land, Control, Locals, NoneIncomplete, store
<1>43. ASSUME NEW b \in Batch, Expire(b)
       PROVE  Control' /\ Locals'
  BY <1>43 DEF Expire
<1>44. ASSUME NEW tx \in mempool, Mine(tx)
       PROVE  Control' /\ Locals'
  BY <1>44 DEF Mine
<1>45. CASE Crash
  BY <1>45 DEF Crash
<1>46. CASE ManagerRestart
  BY <1>46 DEF ManagerRestart
<1>47. ASSUME NEW tx \in mempool, Evict(tx)
       PROVE  Control' /\ Locals'
  BY <1>47 DEF Evict
<1>48. CASE DaemonStops \/ DaemonStarts
  BY <1>48, <1>t DEF DaemonStops, DaemonStarts
<1> HIDE <1>t DEF Control, Locals, Ranges, OpRow, BatchRow, Batch, Goto, Ensure
<1>q. QED BY <1>1, <1>2, <1>3, <1>4, <1>5, <1>6, <1>7, <1>8, <1>9, <1>10, <1>11,
           <1>12, <1>13, <1>14, <1>15, <1>16, <1>17, <1>18, <1>19, <1>20,
           <1>21, <1>22, <1>23, <1>24, <1>25, <1>26, <1>27, <1>28, <1>29,
           <1>30, <1>31, <1>32, <1>33, <1>34, <1>35, <1>36, <1>37, <1>38,
           <1>39, <1>40, <1>41, <1>42, <1>43, <1>44, <1>45, <1>46, <1>47, <1>48
  DEF Next, Operator, Environment, FreshStep, ObservedStep, SigningStep,
         BroadcastStep, ConfirmStep

\* The steps that change a batch row, a cursor or the fate of a snapshot.
SnapshotStep ==
  \/ \E b \in Batch, coins \in SUBSET Coin, kind \in ChangeKind :
       ReserveSnapshot(b, coins, kind)
  \/ Submit
  \/ SetConstructed
  \/ SetFailed
  \/ PersistSigned
  \/ MarkBatch
  \/ Finalize
  \/ NewRequest
  \/ \E b \in Batch : Land(b)

\* Only these steps touch a batch row, the cursors or a snapshot's fate.
LEMMA SnapshotFrame ==
  ASSUME Next PROVE UNCHANGED <<batch, cursor, tip, sequence, solanaTx>> \/ SnapshotStep
<1>1. CASE FreshStep
  BY <1>1 DEF FreshStep, PollIdle, PollFresh, LoadHistory, ReadState,
     RecordRequest, ReadSequence, ReserveInsufficient, SnapshotStep, store,
     solana, doge, vars
<1>2. CASE ObservedStep
  BY <1>2 DEF ObservedStep, SubmitRejected, AwaitMetadata, AwaitTimeout,
     FinishSnapshot, CheckSequence, ReleaseReservation, ResumeObserved,
     ReadCursor, ReadStatus, DecideObserved, ReadMetadata, SnapshotStep,
     store, solana, doge, vars
<1>3. CASE SigningStep
  BY <1>3 DEF SigningStep, MarkRequestConstructed, ResumeConstructed,
     Register, SigningTimeout, FetchSignatures, SnapshotStep, store, solana,
     doge, vars
<1>4. CASE BroadcastStep
  BY <1>4 DEF BroadcastStep, ResumeSigned, ResumeTransition, BroadcastTx,
     MarkReservation, MarkTx, MarkProcess, MarkRequestBroadcast, SnapshotStep,
     store, solana, doge, vars
<1>5. CASE ConfirmStep
  BY <1>5 DEF ConfirmStep, ResumeBroadcast, CheckMined, SnapshotStep,
     store, solana, doge, vars
<1>6. CASE Environment
  BY <1>6 DEF Environment, RegisterDeposit, Expire, Mine, Crash,
     DaemonStops, DaemonStarts, ManagerRestart, Evict, SnapshotStep, store, solana, doge, vars
<1>q. QED BY <1>1, <1>2, <1>3, <1>4, <1>5, <1>6 DEF Next, Operator

\* The steps that change a signed transaction, a mempool or a batch row.
PaymentStep ==
  \/ \E b \in Batch, coins \in SUBSET Coin, kind \in ChangeKind :
       ReserveSnapshot(b, coins, kind)
  \/ SetConstructed
  \/ SetFailed
  \/ PersistSigned
  \/ BroadcastTx
  \/ MarkTx
  \/ MarkBatch
  \/ Finalize
  \/ \E tx \in mempool : Mine(tx)
  \/ \E tx \in mempool : Evict(tx)

\* Only these steps touch a batch row, a Dogecoin transaction's row or the network.
LEMMA PaymentFrame == ASSUME Next PROVE UNCHANGED <<batch, dogeTx, mempool, mined>> \/ PaymentStep
<1>1. CASE FreshStep
  BY <1>1 DEF FreshStep, PollIdle, PollFresh, LoadHistory, ReadState,
     RecordRequest, ReadSequence, ReserveInsufficient, PaymentStep, store,
     solana, doge, vars
<1>2. CASE ObservedStep
  BY <1>2 DEF ObservedStep, Submit, SubmitRejected, AwaitMetadata,
     AwaitTimeout, FinishSnapshot, CheckSequence, ReleaseReservation,
     ResumeObserved, ReadCursor, ReadStatus, DecideObserved, ReadMetadata,
     PaymentStep, store, solana, doge, vars
<1>3. CASE SigningStep
  BY <1>3 DEF SigningStep, MarkRequestConstructed, ResumeConstructed,
     Register, SigningTimeout, FetchSignatures, PaymentStep, store, solana,
     doge, vars
<1>4. CASE BroadcastStep
  BY <1>4 DEF BroadcastStep, ResumeSigned, ResumeTransition,
     MarkReservation, MarkProcess, MarkRequestBroadcast, PaymentStep, store,
     solana, doge, vars
<1>5. CASE ConfirmStep
  BY <1>5 DEF ConfirmStep, ResumeBroadcast, CheckMined, PaymentStep, store,
     solana, doge, vars
<1>6. CASE Environment
  BY <1>6 DEF Environment, NewRequest, RegisterDeposit, Land, Expire,
     Crash, DaemonStops, DaemonStarts, ManagerRestart, PaymentStep, store, solana, doge, vars
<1>q. QED BY <1>1, <1>2, <1>3, <1>4, <1>5, <1>6 DEF Next, Operator

\* A step that only moves the batch at hand to another status keeps Ranges.
LEMMA StatusOnly ==
  ASSUME IInv, op.b \in Batch, batch[op.b].status # "None",
         NEW s \in BatchStatus \ {"None"}, SetBatch(op.b, s),
         UNCHANGED <<cursor, tip, sequence, solanaTx>>
  PROVE  Ranges'
<1>1. batch \in [Batch -> BatchRow]
  BY DEF IInv, TypeOK, StoreTypeOK
<1>2. \A b \in Batch : /\ batch'[b].lo = batch[b].lo /\ batch'[b].hi = batch[b].hi
                       /\ batch'[b].tip = batch[b].tip
                       /\ batch'[b].status = "None" <=> batch[b].status = "None"
  BY <1>1 DEF SetBatch, BatchRow
<1>3. QED BY <1>2 DEF IInv, Ranges

\* Every step keeps the ranges of snapshots within what was requested.
LEMMA RangesStep == ASSUME IInv, Next PROVE Ranges'
<1>t. /\ batch \in [Batch -> BatchRow] /\ solanaTx \in [Batch -> SolanaTx] /\ op \in OpRow
      /\ cursor \in 0 .. MaxRequests /\ tip \in 0 .. MaxRequests /\ sequence \in 0 .. MaxRequests
      /\ Ranges /\ Control /\ Locals
  BY DEF IInv, TypeOK, StoreTypeOK, WorldTypeOK
<1>1. CASE UNCHANGED <<batch, cursor, tip, sequence, solanaTx>>
  BY <1>1, <1>t DEF Ranges
<1>2. ASSUME NEW b \in Batch, NEW coins \in SUBSET Coin, NEW kind \in ChangeKind,
             ReserveSnapshot(b, coins, kind)
       PROVE  Ranges'
  <2>1. CappedBatchEnd(op.cursor, op.tip) <= op.tip
    BY <1>2, <1>t, CappedBatchEndBound DEF OpRow
  <2>2. op.cursor < CappedBatchEnd(op.cursor, op.tip) /\ op.tip <= tip
    BY <1>2, <1>t DEF ReserveSnapshot, At, Locals
  <2>3. /\ batch'[b].lo = op.cursor /\ batch'[b].hi = CappedBatchEnd(op.cursor, op.tip)
        /\ batch'[b].tip = op.tip /\ batch'[b].status = "Observed"
        /\ \A c \in Batch \ {b} : batch'[c] = batch[c]
        /\ \A c \in Batch \ {b} : solanaTx'[c] = solanaTx[c]
        /\ UNCHANGED <<cursor, tip, sequence>>
    BY <1>2, <1>t DEF ReserveSnapshot
  <2>4. QED BY <1>t, <2>1, <2>2, <2>3 DEF Ranges
<1>3. CASE Submit
  BY <1>3, <1>t DEF Submit, Ranges, Control, At, ObservedPc, FreshPc, store
<1>4. CASE SetConstructed
  BY <1>4, <1>t, StatusOnly DEF SetConstructed, Control, At, ObservedPc, FreshPc,
       BatchStatus, solana
<1>5. CASE SetFailed
  BY <1>5, <1>t, StatusOnly DEF SetFailed, Control, At, ObservedPc, FreshPc,
       BatchStatus, solana
<1>6. CASE PersistSigned
  <2>1. /\ op.b \in Batch /\ batch[op.b].status = "Constructed"
        /\ UNCHANGED <<cursor, tip, sequence, solanaTx>>
    BY <1>6, <1>t DEF PersistSigned, Control, At, SigningPc, FreshPc, solana
  <2>2. CASE reservation[op.b] = "Reserved"
    BY <1>6, <2>1, <2>2, StatusOnly DEF PersistSigned, BatchStatus
  <2>3. CASE reservation[op.b] # "Reserved"
    BY <1>6, <1>t, <2>1, <2>3 DEF PersistSigned, Ranges
  <2>4. QED BY <2>2, <2>3
<1>7. CASE MarkBatch
  BY <1>7, <1>t, StatusOnly DEF MarkBatch, Control, At, SignedPc, FreshPc,
       BatchStatus, solana
<1>8. CASE Finalize
  BY <1>8, <1>t, StatusOnly DEF Finalize, Control, At, ConfirmPc, FreshPc,
       BatchStatus, solana
<1>9. CASE NewRequest
  BY <1>9, <1>t DEF NewRequest, Ranges, BatchRow, store
<1>10. ASSUME NEW b \in Batch, Land(b) PROVE Ranges'
  BY <1>10, <1>t DEF Land, Ranges, WouldSucceed, BatchRow, store
<1>q. QED BY <1>1, <1>2, <1>3, <1>4, <1>5, <1>6, <1>7, <1>8, <1>9, <1>10,
       SnapshotFrame DEF SnapshotStep

\* Every step keeps signed transactions to the stages from Signed on.
LEMMA SignaturesStep == ASSUME IInv, Next PROVE Signatures'
<1> USE DEF At, Incomplete, FreshPc, ObservedPc, SigningPc, SignedPc, ConfirmPc
<1>t. /\ batch \in [Batch -> BatchRow] /\ dogeTx \in [Batch -> GraphRow]
      /\ Signatures /\ Control /\ Locals
  BY DEF IInv, TypeOK, StoreTypeOK
<1>1. CASE UNCHANGED <<batch, dogeTx, mempool, mined>>
  BY <1>1, <1>t DEF Signatures
<1>2. ASSUME NEW b \in Batch, NEW coins \in SUBSET Coin, NEW kind \in ChangeKind,
             ReserveSnapshot(b, coins, kind)
       PROVE  Signatures'
  BY <1>2, <1>t DEF ReserveSnapshot, Signatures
<1>3. CASE SetConstructed
  BY <1>3, <1>t DEF SetConstructed, SetBatch, Control, Signatures, BatchRow
<1>4. CASE SetFailed
  BY <1>4, <1>t DEF SetFailed, SetBatch, Control, Signatures, BatchRow
<1>5. CASE PersistSigned
  <2>1. CASE reservation[op.b] = "Reserved"
    <3>1. op.b \in Batch /\ op.quorum \in Quorums
      BY <1>5, <1>t DEF PersistSigned, Control, Locals
    <3>2. /\ batch'[op.b].status = "Signed"
          /\ dogeTx'[op.b] = [status |-> "Signed", quorum |-> op.quorum]
          /\ \A b \in Batch \ {op.b} : batch'[b] = batch[b] /\ dogeTx'[b] = dogeTx[b]
      BY <1>5, <1>t, <2>1, <3>1 DEF PersistSigned, SetBatch, BatchRow
    <3>3. QED BY <1>t, <3>1, <3>2 DEF Signatures
  <2>2. CASE reservation[op.b] # "Reserved"
    BY <1>5, <1>t, <2>2 DEF PersistSigned, Signatures
  <2>3. QED BY <2>1, <2>2
<1>6. CASE BroadcastTx
  BY <1>6, <1>t DEF BroadcastTx, Signatures, store
<1>7. CASE MarkTx
  BY <1>7, <1>t DEF MarkTx, Control, Signatures, GraphRow
<1>8. CASE MarkBatch
  BY <1>8, <1>t DEF MarkBatch, SetBatch, Control, Signatures, BatchRow
<1>9. CASE Finalize
  BY <1>9, <1>t DEF Finalize, SetBatch, Control, Signatures, BatchRow, GraphRow
<1>10. ASSUME NEW tx \in mempool, Mine(tx) PROVE Signatures'
  BY <1>10, <1>t DEF Mine, Signatures, store
<1>11. ASSUME NEW tx \in mempool, Evict(tx) PROVE Signatures'
  BY <1>11, <1>t DEF Evict, Signatures, store
<1>q. QED BY <1>1, <1>2, <1>3, <1>4, <1>5, <1>6, <1>7, <1>8, <1>9, <1>10, <1>11,
           PaymentFrame DEF PaymentStep

\* Every step keeps the network to transactions the store holds.
LEMMA PaymentsStep == ASSUME IInv, Next PROVE Payments'
<1> USE DEF At, Incomplete, FreshPc, ObservedPc, SigningPc, SignedPc, ConfirmPc
<1>t. /\ batch \in [Batch -> BatchRow] /\ dogeTx \in [Batch -> GraphRow]
      /\ mempool \in SUBSET (Batch \X Quorums) /\ mined \in SUBSET (Batch \X Quorums)
      /\ Signatures /\ Control /\ Payments
  BY DEF IInv, TypeOK, StoreTypeOK, WorldTypeOK
<1>u. \A tx \in Known : tx[1] \in Batch
  BY <1>t DEF Known
<1>1. CASE UNCHANGED <<batch, dogeTx, mempool, mined>>
  BY <1>1, <1>t DEF Payments, Known
<1>2. ASSUME NEW b \in Batch, NEW coins \in SUBSET Coin, NEW kind \in ChangeKind,
             ReserveSnapshot(b, coins, kind)
       PROVE  Payments'
  BY <1>2, <1>t DEF ReserveSnapshot, Payments, Known, doge
<1>3. CASE SetConstructed
  BY <1>3, <1>t DEF SetConstructed, Payments, Known, doge
<1>4. CASE SetFailed
  BY <1>4, <1>t DEF SetFailed, Payments, Known, doge
<1>5. CASE PersistSigned
  <2>1. op.b \in Batch /\ dogeTx[op.b].status = "None"
    BY <1>5, <1>t DEF PersistSigned, Control, Signatures
  <2>2. \A tx \in Known : tx[1] \in Batch \ {op.b}
    BY <1>t, <1>u, <2>1 DEF Payments
  <2>3. \A b \in Batch \ {op.b} : dogeTx'[b] = dogeTx[b]
    BY <1>5, <1>t DEF PersistSigned
  <2>4. Known' = Known
    BY <1>5 DEF PersistSigned, Known, doge
  <2>5. QED BY <1>t, <2>2, <2>3, <2>4 DEF Payments
<1>6. CASE BroadcastTx
  <2>1. op.b \in Batch /\ dogeTx[op.b].status # "None"
    BY <1>6, <1>t DEF BroadcastTx, Control, Signatures
  <2>2. Known' \subseteq Known \cup {SignedTx(op.b)} /\ dogeTx' = dogeTx
    BY <1>6 DEF BroadcastTx, Known, store
  <2>3. QED BY <1>t, <2>1, <2>2 DEF Payments, SignedTx
<1>7. CASE MarkTx
  <2>1. op.b \in Batch
    BY <1>7, <1>t DEF MarkTx, Control
  <2>2. \A b \in Batch : /\ dogeTx'[b].quorum = dogeTx[b].quorum
                         /\ dogeTx'[b].status = "None" => dogeTx[b].status = "None"
    BY <1>7, <1>t, <2>1 DEF MarkTx, GraphRow
  <2>3. Known' = Known
    BY <1>7 DEF MarkTx, Known, doge
  <2>4. QED BY <1>t, <1>u, <2>2, <2>3 DEF Payments
<1>8. CASE MarkBatch
  BY <1>8, <1>t DEF MarkBatch, Payments, Known, doge
<1>9. CASE Finalize
  <2>1. op.b \in Batch
    BY <1>9, <1>t DEF Finalize, Control
  <2>2. \A b \in Batch : /\ dogeTx'[b].quorum = dogeTx[b].quorum
                         /\ dogeTx'[b].status = "None" => dogeTx[b].status = "None"
    BY <1>9, <1>t, <2>1 DEF Finalize, GraphRow
  <2>3. Known' = Known
    BY <1>9 DEF Finalize, Known, doge
  <2>4. QED BY <1>t, <1>u, <2>2, <2>3 DEF Payments
<1>10. ASSUME NEW tx \in mempool, Mine(tx) PROVE Payments'
  BY <1>10, <1>t DEF Mine, Payments, Known, store
<1>11. ASSUME NEW tx \in mempool, Evict(tx) PROVE Payments'
  BY <1>11, <1>t DEF Evict, Payments, Known, store
<1>q. QED BY <1>1, <1>2, <1>3, <1>4, <1>5, <1>6, <1>7, <1>8, <1>9, <1>10, <1>11,
           PaymentFrame DEF PaymentStep

\* Every step keeps the landed ranges disjoint and behind the cursor.
LEMMA LandingsStep == ASSUME IInv, Next PROVE Landings'
<1> USE DEF At, FreshPc, ObservedPc, SigningPc, SignedPc, ConfirmPc
<1>t. /\ batch \in [Batch -> BatchRow] /\ solanaTx \in [Batch -> SolanaTx]
      /\ cursor \in 0 .. MaxRequests
      /\ Ranges /\ Control /\ Locals /\ Landings
  BY DEF IInv, TypeOK, StoreTypeOK, WorldTypeOK
<1>s. ASSUME op.b \in Batch, NEW s \in BatchStatus, SetBatch(op.b, s),
             s \in {"Failed"} \/ solanaTx[op.b] = "Landed", UNCHANGED <<cursor, solanaTx>>
      PROVE  Landings'
  <2>1. \A b \in Batch : /\ batch'[b].lo = batch[b].lo /\ batch'[b].hi = batch[b].hi
                         /\ b # op.b => batch'[b].status = batch[b].status
    BY <1>s, <1>t DEF SetBatch, BatchRow
  <2>2. batch'[op.b].status = s
    BY <1>s, <1>t DEF SetBatch, BatchRow
  <2>3. QED BY <1>s, <1>t, <2>1, <2>2 DEF Landings
<1>1. CASE UNCHANGED <<batch, cursor, tip, sequence, solanaTx>>
  BY <1>1, <1>t DEF Landings
<1>2. ASSUME NEW b \in Batch, NEW coins \in SUBSET Coin, NEW kind \in ChangeKind,
             ReserveSnapshot(b, coins, kind)
       PROVE  Landings'
  <2>1. /\ batch'[b].status = "Observed" /\ solanaTx'[b] = "Unsent" /\ cursor' = cursor
        /\ \A c \in Batch \ {b} : batch'[c] = batch[c] /\ solanaTx'[c] = solanaTx[c]
    BY <1>2, <1>t DEF ReserveSnapshot
  <2>2. QED BY <1>t, <2>1 DEF Landings
<1>3. CASE Submit
  <2>1. op.b \in Batch /\ batch[op.b].status = "Observed"
    BY <1>3, <1>t DEF Submit, Control
  <2>2. /\ solanaTx'[op.b] = "InFlight" /\ cursor' = cursor /\ batch' = batch
        /\ \A c \in Batch \ {op.b} : solanaTx'[c] = solanaTx[c]
    BY <1>3, <1>t, <2>1 DEF Submit, store
  <2>3. QED BY <1>t, <2>1, <2>2 DEF Landings
<1>4. CASE SetConstructed
  BY <1>4, <1>t, <1>s DEF SetConstructed, Control, Locals, BatchStatus, solana
<1>5. CASE SetFailed
  BY <1>5, <1>t, <1>s DEF SetFailed, Control, BatchStatus, solana
<1>6. CASE PersistSigned
  <2>1. op.b \in Batch /\ solanaTx[op.b] = "Landed" /\ UNCHANGED <<cursor, solanaTx>>
    BY <1>6, <1>t DEF PersistSigned, Control, Landings, solana
  <2>2. CASE reservation[op.b] = "Reserved"
    BY <1>6, <1>s, <2>1, <2>2 DEF PersistSigned, BatchStatus
  <2>3. CASE reservation[op.b] # "Reserved"
    BY <1>6, <1>t, <2>1, <2>3 DEF PersistSigned, Landings
  <2>4. QED BY <2>2, <2>3
<1>7. CASE MarkBatch
  BY <1>7, <1>t, <1>s DEF MarkBatch, Control, Landings, BatchStatus, solana
<1>8. CASE Finalize
  BY <1>8, <1>t, <1>s DEF Finalize, Control, Landings, BatchStatus, solana
<1>9. CASE NewRequest
  BY <1>9, <1>t DEF NewRequest, Landings, store
<1>10. ASSUME NEW b \in Batch, Land(b) PROVE Landings'
  <2>1. batch' = batch /\ solanaTx[b] = "InFlight"
    BY <1>10 DEF Land, store
  <2>2. CASE WouldSucceed(b)
    <3>1. cursor = batch[b].lo /\ cursor' = batch[b].hi /\ cursor < cursor'
      BY <1>10, <1>t, <2>1, <2>2 DEF Land, WouldSucceed, Ranges, BatchRow
    <3>2. solanaTx' = [solanaTx EXCEPT ![b] = "Landed"]
      BY <1>10, <2>2 DEF Land
    <3>3. \A c \in Batch : batch[c].lo \in Int /\ batch[c].hi \in Int
      BY <1>t DEF BatchRow
    <3>4. QED BY <1>t, <2>1, <3>1, <3>2, <3>3 DEF Landings
  <2>3. CASE ~WouldSucceed(b)
    BY <1>10, <1>t, <2>1, <2>3 DEF Land, Landings
  <2>4. QED BY <2>2, <2>3
<1>q. QED BY <1>1, <1>2, <1>3, <1>4, <1>5, <1>6, <1>7, <1>8, <1>9, <1>10,
       SnapshotFrame DEF SnapshotStep

\* IInv is inductive.
THEOREM Invariance == Spec => []IInv
<1>1. Init => IInv
  <2> SUFFICES ASSUME Init PROVE IInv
    OBVIOUS
  <2> USE DEF Init
  <2>1. StoreTypeOK
    BY BoundsAssumption DEF StoreTypeOK, ChangeKind, BatchRow, BatchStatus, GraphRow,
         GraphStatus,
       ReservationStatus, RequestStatus, CoinStatus
  <2>2. WorldTypeOK
    BY BoundsAssumption DEF WorldTypeOK, SolanaTx
  <2>3. op \in OpRow
    BY IdleType
  <2>4. Ranges /\ Signatures /\ Landings
    BY DEF Ranges, Signatures, Landings
  <2>5. Control /\ Locals
    BY DEF Control, Locals, Idle, Incomplete, FreshPc, ObservedPc, SigningPc,
         SignedPc, ConfirmPc
  <2>6. Payments
    BY DEF Payments, Known
  <2>7. QED BY <2>1, <2>2, <2>3, <2>4, <2>5, <2>6 DEF IInv, TypeOK
<1>2. IInv /\ [Next]_vars => IInv'
  <2>1. ASSUME IInv, Next PROVE IInv'
    BY <2>1, StoreTypeStep, WorldTypeStep, OpTypeStep, RangesStep, OperatorStep,
       SignaturesStep, LandingsStep, PaymentsStep DEF IInv, TypeOK
  <2>2. ASSUME IInv, UNCHANGED vars PROVE IInv'
    <3> USE <2>2 DEF vars, store, solana, doge, life
    <3>1. TypeOK'
      BY DEF IInv, TypeOK, StoreTypeOK, WorldTypeOK
    <3>2. Ranges' /\ Signatures' /\ Landings'
      BY DEF IInv, Ranges, Signatures, Landings
    <3>3. Control' /\ Locals'
      BY DEF IInv, Control, Locals, NoneIncomplete
    <3>4. Payments'
      BY DEF IInv, Payments, Known
    <3>5. QED BY <3>1, <3>2, <3>3, <3>4 DEF IInv
  <2>3. QED BY <2>1, <2>2
<1>3. QED BY <1>1, <1>2, PTL DEF Spec

\* Every variable keeps its type: no snapshot range passes the requests that
\* exist, for any batch cap.
THEOREM TypeCorrect == Spec => []TypeOK
<1>1. IInv => TypeOK
  BY DEF IInv
<1>2. QED BY <1>1, Invariance, PTL

\* Whatever crashes and when, one batch at most is unfinished, and it is the
\* one the operator works on (poll_once, run_with_store).
THEOREM OneUnfinishedHolds == Spec => []OneUnfinished
<1>1. IInv => OneUnfinished
  <2> SUFFICES ASSUME IInv PROVE OneUnfinished
    OBVIOUS
  <2>1. \A b \in Batch : Unfinished(b) <=> batch[b].status \in Incomplete
    BY DEF IInv, TypeOK, StoreTypeOK, BatchRow, BatchStatus, Unfinished, Incomplete
  <2>2. op.b # NoBatch => op.b \in Batch /\ batch[op.b].status \in Incomplete
    BY DEF IInv, TypeOK, OpRow, Pc, Control, Incomplete
  <2>3. QED BY <2>1, <2>2 DEF IInv, Control, OneUnfinished
<1>2. QED BY <1>1, Invariance, PTL

\* What the Dogecoin node holds, unconfirmed or mined, was persisted first, and its snapshot landed
\* (persist_signed_snapshot before broadcast_electrs_idempotent).
LEMMA RecordedFromIInv == IInv => BroadcastIsRecorded
<1> SUFFICES ASSUME IInv, NEW tx \in Known
             PROVE  /\ dogeTx[tx[1]].status # "None" /\ tx = SignedTx(tx[1])
                    /\ solanaTx[tx[1]] = "Landed"
  BY DEF BroadcastIsRecorded
<1>1. tx \in Batch \X Quorums
  BY DEF IInv, TypeOK, WorldTypeOK, Known
<1>2. dogeTx[tx[1]].status # "None" /\ tx[2] = dogeTx[tx[1]].quorum
  BY DEF IInv, Payments
<1>3. solanaTx[tx[1]] = "Landed"
  BY <1>1, <1>2 DEF IInv, Signatures, Landings
<1>4. QED BY <1>1, <1>2, <1>3 DEF SignedTx

\* Every transaction the Dogecoin node holds, unconfirmed or mined, is the
\* persisted one of a landed snapshot (persist_signed_snapshot comes before broadcast_electrs).
THEOREM BroadcastRecorded == Spec => []BroadcastIsRecorded
BY RecordedFromIInv, Invariance, PTL

\* No request is paid twice: the transactions the Dogecoin node holds,
\* unconfirmed or mined, pay the disjoint ranges of different landed snapshots, one transaction each.
THEOREM NoDoublePaymentHolds == Spec => []NoDoublePayment
<1>1. IInv => NoDoublePayment
  <2> SUFFICES ASSUME IInv, NEW tx \in Known, NEW other \in Known, tx # other
               PROVE  Range(tx[1]) \cap Range(other[1]) = {}
    BY DEF NoDoublePayment
  <2>1. tx[1] \in Batch /\ other[1] \in Batch
    BY DEF IInv, TypeOK, WorldTypeOK, Known
  <2>2. /\ tx = SignedTx(tx[1]) /\ solanaTx[tx[1]] = "Landed"
        /\ other = SignedTx(other[1]) /\ solanaTx[other[1]] = "Landed"
    BY RecordedFromIInv DEF BroadcastIsRecorded
  <2>3. tx[1] # other[1]
    BY <2>2 DEF SignedTx
  <2>4. batch[tx[1]].hi <= batch[other[1]].lo \/ batch[other[1]].hi <= batch[tx[1]].lo
    BY <2>1, <2>2, <2>3 DEF IInv, Landings
  <2>5. /\ batch[tx[1]].lo \in Int /\ batch[tx[1]].hi \in Int
        /\ batch[other[1]].lo \in Int /\ batch[other[1]].hi \in Int
    BY <2>1 DEF IInv, TypeOK, StoreTypeOK, BatchRow
  <2>6. QED BY <2>4, <2>5 DEF Range
<1>2. QED BY <1>1, Invariance, PTL

\* A persisted signed transaction keeps its signatures: no run asks the
\* Managers again for a batch that has one (resume_signed_batch).
THEOREM SignedOnceHolds == Spec => SignedOnce
<1>1. IInv /\ [Next]_vars => [KeepsQuorum]_vars
  <2> SUFFICES ASSUME IInv, Next PROVE KeepsQuorum
    OBVIOUS
  <2> USE DEF KeepsQuorum, At, FreshPc, SigningPc, SignedPc, ConfirmPc
  <2>t. dogeTx \in [Batch -> GraphRow] /\ Control /\ Signatures
    BY DEF IInv, TypeOK, StoreTypeOK
  <2>1. CASE UNCHANGED dogeTx
    BY <2>1
  <2>2. CASE PersistSigned
    <3>1. op.b \in Batch /\ dogeTx[op.b].status = "None"
      BY <2>2, <2>t DEF PersistSigned, Control, Signatures
    <3>2. \A b \in Batch \ {op.b} : dogeTx'[b] = dogeTx[b]
      BY <2>2, <2>t DEF PersistSigned
    <3>3. QED BY <3>1, <3>2
  <2>3. CASE MarkTx
    BY <2>3, <2>t DEF MarkTx, GraphRow
  <2>4. CASE Finalize
    BY <2>4, <2>t DEF Finalize, GraphRow
  <2>5. PaymentStep => UNCHANGED dogeTx \/ PersistSigned \/ MarkTx \/ Finalize
    BY DEF PaymentStep, ReserveSnapshot, SetConstructed, SetFailed, BroadcastTx, MarkBatch,
       Mine, Evict, store
  <2>6. UNCHANGED dogeTx \/ PersistSigned \/ MarkTx \/ Finalize
    BY <2>5, PaymentFrame
  <2> HIDE DEF KeepsQuorum
  <2>7. QED BY <2>1, <2>2, <2>3, <2>4, <2>6
<1>2. QED BY <1>1, Invariance, PTL DEF Spec, SignedOnce
===============================================================================
