------------------------------ MODULE Withdrawal ------------------------------
(***************************************************************************)
(* The withdrawal operator of doge/src/commands/process_withdrawal.rs, as   *)
(* the operator daemon drives it: one process, holding the operator lock,   *)
(* that snapshots requested withdrawals on Solana, has the Managers sign    *)
(* the Dogecoin payment, broadcasts it and books its confirmation.          *)
(*                                                                          *)
(* The operator is sequential, but every await is a place where it can be   *)
(* killed, cancelled by a signal or told of an RPC error, and everything it *)
(* does is spread over a local database, Solana, a Manager service and      *)
(* Dogecoin.  So every store call and every remote call is one action, in   *)
(* the order of the code, and Crash may follow any of them: a Crash just    *)
(* before a remote call is a request that never arrived, a Crash just after *)
(* it is an answer that was lost.                                           *)
(*                                                                          *)
(* An `Err` return and a crash leave the same thing behind (the store) and  *)
(* are the same transition: op becomes Idle.                                *)
(***************************************************************************)
EXTENDS Integers, FiniteSets

CONSTANTS
  MaxRequests,   \* bound: requests 0 .. MaxRequests-1 are ever made on Solana
  MaxBatches,    \* bound: snapshot attempts (rows of snapshot_batches)
  BatchCap,      \* SNAPSHOT_PROOF_MAX_BATCH (319 in the program)
  Deposits,      \* custody UTXOs that deposits create
  Quorums,       \* sets of M signers a Manager answer can consist of
  NoQuorum,      \* no signature set
  NoopShim,      \* TRUE: the localhost no-op Wormhole shim is in use
  MaxInputs,     \* MAX_PERSISTED_INPUTS (1,000 in the program)
  MaxFaults      \* bound: faults (crashes, expiries, restarts, evictions,
                 \* deposits registered a second time)

ASSUME BoundsAssumption ==
  /\ MaxRequests \in Nat
  /\ MaxBatches \in Nat
  /\ BatchCap \in Nat \ {0}
  /\ MaxInputs \in Nat \ {0}
  /\ MaxFaults \in Nat

ASSUME ModeAssumption ==
  /\ NoopShim \in BOOLEAN
  /\ NoQuorum \notin Quorums

\* A deposit's outpoint is not the change output of a payment.
ASSUME DepositsAssumption == Deposits \cap ((1 .. MaxBatches) \X Quorums) = {}

Request == 0 .. MaxRequests - 1
Batch   == 1 .. MaxBatches
NoBatch == 0

\* A custody outpoint: a deposit's output, or the change output of the
\* Dogecoin transaction of a batch.  Dogecoin has no witness, so the txid, and
\* with it the change outpoint, depends on whose signatures are in it.
Coin == Deposits \cup (Batch \X Quorums)

BatchStatus == {"None", "Observed", "Constructed", "Signed", "Broadcast",
                "Confirmed", "Failed"}
GraphStatus == {"None", "Signed", "Broadcast", "Confirmed"}
RequestStatus == {"None", "Observed", "Constructed", "Signed", "Broadcast",
                  "Confirmed"}
ReservationStatus == {"None", "Reserved", "Released", "Broadcast", "Spent"}
CoinStatus == {"Absent", "Available", "Reserved", "Broadcast", "Spent"}

\* A payment's change output: none, or one whose inputs have one key reference
\* between them, or several.
ChangeKind == {"None", "OneKey", "MixedKeys"}

\* What became of a batch's persisted Solana transaction.
SolanaTx == {"None", "Unsent", "InFlight", "Landed", "Errored"}

VARIABLES
  (* OperatorStore, the durable SQLite database *)
  batch,        \* snapshot_batches: status, range, tip and sequence it expects
  reservation,  \* custody_reservations: status of a batch's reservation
  inputs,       \* the custody coins a batch's reservation selected
  change,       \* what change output a batch's Dogecoin transaction has
  dogeTx,       \* dogecoin_transactions: status and signer quorum per batch
  process,      \* process_withdrawals: status per batch
  request,      \* withdrawal_requests: status per request
  custody,      \* custody_utxos: status per coin
  (* Solana *)
  cursor,       \* withdrawal_snapshot.next_requested_withdrawals_tree_index
  tip,          \* requested_withdrawals_tree.next_index
  sequence,     \* the Wormhole sequence of the bridge emitter
  solanaTx,     \* fate of each batch's Solana transaction
  blockhash,    \* whether its recent blockhash is still valid
  (* Manager service *)
  registered,   \* the batch whose transaction is registered under a sequence
  (* Dogecoin *)
  mempool,      \* unconfirmed Dogecoin transactions, as <<batch, quorum>>
  mined,        \* confirmed ones
  (* the running operator *)
  op,
  running,      \* whether the daemon that polls is up
  overwritten,  \* deposits whose row a later registration took back (history)
  faults        \* the fault budget used

store  == <<batch, reservation, inputs, change, dogeTx, process, request, custody>>
solana == <<cursor, tip, sequence, solanaTx, blockhash>>
doge   == <<mempool, mined>>
life   == <<running, overwritten, faults>>
vars   == <<store, solana, registered, doge, op, life>>

-----------------------------------------------------------------------------
(* Pure helpers of the code. *)

\* Mutant: the tip is taken for the index of the last request.
EndPastTip(start, requestedTip) ==
  IF start + BatchCap < requestedTip THEN start + BatchCap ELSE requestedTip + 1

\* capped_batch_end: at most BatchCap requests, and none past the tip.
CappedBatchEnd(start, requestedTip) ==
  IF start + BatchCap < requestedTip THEN start + BatchCap ELSE requestedTip

Range(b) == batch[b].lo .. batch[b].hi - 1

\* The statuses the store counts as incomplete: Broadcast is one of them.
Incomplete == {"Observed", "Constructed", "Signed", "Broadcast"}

\* oldest_incomplete_snapshot_batch of the store.
IsOldestIncomplete(b) ==
  /\ batch[b].status \in Incomplete
  /\ \A c \in Batch : batch[c].status \in Incomplete => b <= c

\* Mutant: only a snapshot still to be confirmed holds a new one back.
NoneObserved == \A b \in Batch : batch[b].status # "Observed"

\* run_with_store and poll_once begin a snapshot only when nothing is resumed.
NoneIncomplete == \A b \in Batch : batch[b].status \notin Incomplete

\* select_observed_batch_action: what to do about a persisted snapshot, from
\* its signature status, whether its metadata was readable, whether its
\* blockhash is valid, and the snapshot cursor.
ObservedAction(sig, found, hashValid, seenCursor, start) ==
  LET giveUp == IF seenCursor = start THEN "Fail" ELSE "Wait"
  IN  CASE sig = "err"                           -> giveUp
        [] sig = "ok"                            -> "AwaitConfirmation"
        [] sig = "none" /\ found                 -> "AwaitConfirmation"
        [] sig = "none" /\ ~found /\ hashValid   -> "ResendOriginal"
        [] sig = "none" /\ ~found /\ ~hashValid  -> giveUp

\* Mutant: the no-op shim's missing sequence account is read anyway.
SequenceOnChain(start, onChain) == onChain

\* The sequence a new snapshot expects: its own start under the no-op shim.
SequenceFor(start, onChain) == IF NoopShim THEN start ELSE onChain

\* Mutant: only the Dogecoin transaction's row is looked at.
TransitionStartedByTx(b) == dogeTx[b].status = "Broadcast"

\* broadcast_transition_started: some row of the signed graph has already
\* been moved to Broadcast.
TransitionStarted(b) ==
  \/ reservation[b] = "Broadcast"
  \/ dogeTx[b].status = "Broadcast"
  \/ process[b] = "Broadcast"
  \/ \E c \in inputs[b] : custody[c] = "Broadcast"

\* The rows the store takes for a reservation's: the coins it selected, or
\* those of them whose rows still carry it.  They are the same set until a
\* deposit among them is registered again; what the store, which is not in the
\* repository, does then is left open.
Carried(b) == {c \in inputs[b] : custody[c] \in {"Reserved", "Broadcast"}}
Loaded(b) == {inputs[b], Carried(b)}

\* load_persisted_withdrawal_graph: every row of the reservation must carry it.
\* The graph's other links, of batch, process record, transaction and request
\* mappings, are written together with the transaction and never change.
Linked(rows) ==
  /\ rows # {}
  /\ \A c \in rows : custody[c] \in {"Reserved", "Broadcast"}

\* load_complete_signed_graph: the statuses a Signed batch must have.
SignedGraph(b, rows) ==
  /\ Linked(rows)
  /\ dogeTx[b].status = "Signed"
  /\ process[b] = "Signed"
  /\ reservation[b] = "Reserved"
  /\ \A c \in rows : custody[c] = "Reserved"
  /\ \A r \in Range(b) : request[r] = "Signed"

\* The statuses resume_broadcast_batch demands.
BroadcastGraph(b, rows) ==
  /\ Linked(rows)
  /\ dogeTx[b].status = "Broadcast"
  /\ process[b] = "Broadcast"
  /\ reservation[b] = "Broadcast"
  /\ \A r \in Range(b) : request[r] = "Broadcast"

\* Mutant: the reader refuses as many inputs as the writer may persist.
RestorableBelow(b, rows) == rows = inputs[b] /\ Cardinality(rows) < MaxInputs

\* prepared_from_reservation restores the persisted unsigned transaction over
\* the reservation's coins: they must be the ones it spends, and the reader of
\* persisted bytes takes no more than MaxInputs.  Amounts, scripts and the
\* command line, which it checks too, are module Payment's.
Restorable(b, rows) == rows = inputs[b] /\ Cardinality(rows) <= MaxInputs

\* derive_confirmed_change: a payment without change has nothing to derive; the
\* change of another is restored like the payment and booked under the one key
\* reference of its inputs.  Its output's value and script are Payment's.
ChangeDerivable(b, rows) ==
  change[b] = "None" \/ (change[b] = "OneKey" /\ Restorable(b, rows))

\* The signed transaction the store holds for a batch.
SignedTx(b) == <<b, dogeTx[b].quorum>>

-----------------------------------------------------------------------------
(* Dogecoin. *)

Known == mempool \cup mined

Spends(tx) == inputs[tx[1]]

\* A coin exists once the transaction that creates it is known to the node.
Exists(c) == c \in Deposits \/ c \in Known

\* A node takes a transaction whose inputs exist and are unspent.
Acceptable(tx) ==
  /\ \A c \in Spends(tx) : Exists(c)
  /\ \A other \in Known : Spends(other) \cap Spends(tx) = {}

(* Solana. *)

\* snapshot_withdrawals checks the expected_* fields of its instruction
\* against the bridge state when it executes.
WouldSucceed(b) ==
  /\ cursor = batch[b].lo
  /\ tip = batch[b].tip
  /\ NoopShim \/ sequence = batch[b].sequence

Viable(b) == blockhash[b] /\ WouldSucceed(b)

-----------------------------------------------------------------------------
(* The operator's local state: pc names the next call; b is the batch at     *)
(* hand, i the next request of a per-request loop; cursor, tip, sequence,    *)
(* sig, found and quorum are answers read and not yet used; recovering says  *)
(* that an interrupted Broadcast transition is being completed.              *)

Idle == [pc |-> "idle", b |-> NoBatch, i |-> 0, cursor |-> 0, tip |-> 0,
         sequence |-> 0, sig |-> "none", found |-> FALSE, quorum |-> NoQuorum,
         recovering |-> FALSE]

FreshPc    == {"history", "state", "record", "sequence", "reserve"}
ObservedPc == {"cursor", "status", "metadata", "blockhash", "submit", "await",
               "finish", "checkSequence", "release", "setFailed",
               "setConstructed"}
SigningPc  == {"markRequests", "register", "signatures", "persistSigned"}
SignedPc   == {"broadcast", "markReservation", "markTx", "markProcess",
               "markRequestBroadcast", "markBatch"}
ConfirmPc  == {"checkMined", "finalize"}
Pc == {"idle"} \cup FreshPc \cup ObservedPc \cup SigningPc \cup SignedPc
        \cup ConfirmPc

At(pc) == op.pc = pc
Goto(pc) == op' = [op EXCEPT !.pc = pc]

\* bail! unless cond holds.
Ensure(cond, pc) == op' = IF cond THEN [op EXCEPT !.pc = pc] ELSE Idle

SetBatch(b, s) == batch' = [batch EXCEPT ![b].status = s]
SetCoins(S, s) == custody' = [c \in Coin |-> IF c \in S THEN s ELSE custody[c]]
SetRange(b, s) == request' = [r \in Request |->
                                IF r \in Range(b) THEN s ELSE request[r]]

Init ==
  /\ batch = [b \in Batch |-> [status |-> "None", lo |-> 0, hi |-> 0,
                               tip |-> 0, sequence |-> 0]]
  /\ reservation = [b \in Batch |-> "None"]
  /\ inputs = [b \in Batch |-> {}]
  /\ change = [b \in Batch |-> "None"]
  /\ dogeTx = [b \in Batch |-> [status |-> "None", quorum |-> NoQuorum]]
  /\ process = [b \in Batch |-> "None"]
  /\ request = [r \in Request |-> "None"]
  /\ custody = [c \in Coin |-> "Absent"]
  /\ cursor = 0
  /\ tip = 0
  /\ sequence = 0
  /\ solanaTx = [b \in Batch |-> "None"]
  /\ blockhash = [b \in Batch |-> FALSE]
  /\ registered = [s \in 0 .. MaxRequests |-> NoBatch]
  /\ mempool = {}
  /\ mined = {}
  /\ op = Idle
  /\ running = TRUE
  /\ overwritten = {}
  /\ faults = 0

-----------------------------------------------------------------------------
(* A fresh snapshot: poll_once, then run_with_store. *)

\* A poll begins: the daemon is up and its last poll is over.
Polls == running /\ At("idle")

\* poll_once: nothing incomplete, requests past the cursor, so the daemon
\* dispatches --request-index <cursor>.
PollFresh ==
  /\ Polls
  /\ NoneIncomplete
  /\ cursor < tip
  /\ op' = [op EXCEPT !.pc = "history", !.cursor = cursor]
  /\ UNCHANGED <<store, solana, registered, doge, life>>

\* poll_once with no work: nothing happens.
PollIdle ==
  /\ Polls
  /\ NoneIncomplete
  /\ cursor >= tip
  /\ UNCHANGED vars

\* load_indexed_requests: as many requests as the history holds by now.
LoadHistory ==
  /\ At("history")
  /\ op' = [op EXCEPT !.pc = "state", !.tip = tip]
  /\ UNCHANGED <<store, solana, registered, doge, life>>

\* read_bridge_state: the range must be nonempty, the history complete, and
\* the cursor the one dispatched.
ReadState ==
  /\ At("state")
  /\ IF cursor < CappedBatchEnd(cursor, tip) /\ op.tip = tip /\ op.cursor = cursor
       THEN op' = [op EXCEPT !.pc = "record", !.i = cursor]
       ELSE op' = Idle
  /\ UNCHANGED <<store, solana, registered, doge, life>>

\* record_requests, one upsert: an existing row keeps its status.
RecordRequest ==
  /\ At("record")
  /\ request' = [request EXCEPT ![op.i] = IF @ = "None" THEN "Observed" ELSE @]
  /\ op' = IF op.i + 1 < CappedBatchEnd(op.cursor, op.tip)
             THEN [op EXCEPT !.i = @ + 1]
             ELSE [op EXCEPT !.pc = "sequence", !.i = 0]
  /\ UNCHANGED <<batch, reservation, inputs, change, dogeTx, process, custody,
                 solana, registered, doge, life>>

\* read_wormhole_sequence (or the start index under the no-op shim).
ReadSequence ==
  /\ At("sequence")
  /\ op' = [op EXCEPT !.pc = "reserve", !.sequence = SequenceFor(op.cursor, sequence)]
  /\ UNCHANGED <<store, solana, registered, doge, life>>

\* Mutant: coins are selected whatever their status.
ReserveAnyRow(b, coins, kind) ==
  /\ At("reserve")
  /\ batch[b].status = "None"
  /\ \A c \in Batch : c < b => batch[c].status # "None"
  /\ coins # {}
  /\ kind = "MixedKeys" => Cardinality(coins) > 1
  /\ \A c \in coins : custody[c] # "Absent"
  /\ batch' = [batch EXCEPT ![b] =
        [status |-> "Observed", lo |-> op.cursor,
         hi |-> CappedBatchEnd(op.cursor, op.tip), tip |-> op.tip,
         sequence |-> op.sequence]]
  /\ reservation' = [reservation EXCEPT ![b] = "Reserved"]
  /\ inputs' = [inputs EXCEPT ![b] = coins]
  /\ change' = [change EXCEPT ![b] = kind]
  /\ SetCoins(coins, "Reserved")
  /\ solanaTx' = [solanaTx EXCEPT ![b] = "Unsent"]
  /\ blockhash' = [blockhash EXCEPT ![b] = TRUE]
  /\ op' = [Idle EXCEPT !.pc = "submit", !.b = b]
  /\ UNCHANGED <<dogeTx, process, request, cursor, tip, sequence, registered,
                 doge, life>>

\* Sign the snapshot with a fresh blockhash, then in one store transaction
\* reserve custody coins and persist the Observed batch with both unsent
\* transactions (reserve_custody_for_snapshot).  Amounts and key references are
\* abstracted: any nonempty set of available coins may be the one that covers
\* the payment, with change or without, and several may differ in their keys.
\* Bound: a batch number must be free.
ReserveSnapshot(b, coins, kind) ==
  /\ At("reserve")
  /\ batch[b].status = "None"
  /\ \A c \in Batch : c < b => batch[c].status # "None"
  /\ coins # {}
  /\ kind = "MixedKeys" => Cardinality(coins) > 1
  /\ \A c \in coins : custody[c] = "Available"
  /\ batch' = [batch EXCEPT ![b] =
        [status |-> "Observed", lo |-> op.cursor,
         hi |-> CappedBatchEnd(op.cursor, op.tip), tip |-> op.tip,
         sequence |-> op.sequence]]
  /\ reservation' = [reservation EXCEPT ![b] = "Reserved"]
  /\ inputs' = [inputs EXCEPT ![b] = coins]
  /\ change' = [change EXCEPT ![b] = kind]
  /\ SetCoins(coins, "Reserved")
  /\ solanaTx' = [solanaTx EXCEPT ![b] = "Unsent"]
  /\ blockhash' = [blockhash EXCEPT ![b] = TRUE]
  /\ op' = [Idle EXCEPT !.pc = "submit", !.b = b]
  /\ UNCHANGED <<dogeTx, process, request, cursor, tip, sequence, registered,
                 doge, life>>

\* The store finds no coins that cover the payment: nothing is written.
ReserveInsufficient ==
  /\ At("reserve")
  /\ \A c \in Coin : custody[c] # "Available"
  /\ op' = Idle
  /\ UNCHANGED <<store, solana, registered, doge, life>>

-----------------------------------------------------------------------------
(* Submission and the outcome of the persisted Solana transaction. *)

\* send_transaction of the persisted bytes, new or resent, that passes the
\* RPC node's preflight.
Submit ==
  /\ At("submit")
  /\ Viable(op.b)
  /\ solanaTx' = [solanaTx EXCEPT ![op.b] = "InFlight"]
  /\ Goto("await")
  /\ UNCHANGED <<store, cursor, tip, sequence, blockhash, registered, doge, life>>

\* Preflight rejects it (expired blockhash, moved cursor, new tip): Err.
SubmitRejected ==
  /\ At("submit")
  /\ ~Viable(op.b)
  /\ op' = Idle
  /\ UNCHANGED <<store, solana, registered, doge, life>>

Resolved(b) == solanaTx[b] \in {"Landed", "Errored"}

\* wait_for_transaction_meta returns the transaction's metadata ...
AwaitMetadata ==
  /\ At("await")
  /\ Resolved(op.b)
  /\ Goto("finish")
  /\ UNCHANGED <<store, solana, registered, doge, life>>

\* ... or times out after thirty seconds.
AwaitTimeout ==
  /\ At("await")
  /\ ~Resolved(op.b)
  /\ op' = Idle
  /\ UNCHANGED <<store, solana, registered, doge, life>>

\* Mutant: a failed snapshot's reservation is not released.
FinishWithoutRelease ==
  /\ At("finish")
  /\ IF solanaTx[op.b] = "Errored"
       THEN Ensure(cursor = batch[op.b].lo, "setFailed")
       ELSE Ensure(cursor = batch[op.b].hi, "checkSequence")
  /\ UNCHANGED <<store, solana, registered, doge, life>>

\* finish_confirmed_snapshot re-reads the cursor.  A failed transaction is
\* given up only at an unmoved cursor; a successful one must have moved the
\* cursor to the end of the batch.
FinishSnapshot ==
  /\ At("finish")
  /\ IF solanaTx[op.b] = "Errored"
       THEN Ensure(cursor = batch[op.b].lo, "release")
       ELSE Ensure(cursor = batch[op.b].hi, "checkSequence")
  /\ UNCHANGED <<store, solana, registered, doge, life>>

\* The snapshot's own shim message must be in the history, and the Wormhole
\* sequence must have advanced by exactly one.
CheckSequence ==
  /\ At("checkSequence")
  /\ Ensure(solanaTx[op.b] = "Landed" /\
              (NoopShim \/ sequence = batch[op.b].sequence + 1), "setConstructed")
  /\ UNCHANGED <<store, solana, registered, doge, life>>

\* upsert_snapshot_batch: the batch is Constructed ...
SetConstructed ==
  /\ At("setConstructed")
  /\ SetBatch(op.b, "Constructed")
  /\ op' = [op EXCEPT !.pc = "markRequests", !.i = batch[op.b].lo]
  /\ UNCHANGED <<reservation, inputs, change, dogeTx, process, request, custody,
                 solana, registered, doge, life>>

\* ... and then, one write each, so are its requests.
MarkRequestConstructed ==
  /\ At("markRequests")
  /\ request' = [request EXCEPT ![op.i] = "Constructed"]
  /\ op' = IF op.i + 1 < batch[op.b].hi
             THEN [op EXCEPT !.i = @ + 1]
             ELSE [op EXCEPT !.pc = "register", !.i = 0]
  /\ UNCHANGED <<batch, reservation, inputs, change, dogeTx, process, custody,
                 solana, registered, doge, life>>

\* The Fail effect, first write: release a Reserved reservation.
ReleaseReservation ==
  /\ At("release")
  /\ IF reservation[op.b] = "Reserved"
       THEN /\ reservation' = [reservation EXCEPT ![op.b] = "Released"]
            /\ \E rows \in Loaded(op.b) : SetCoins(rows, "Available")
       ELSE UNCHANGED <<reservation, custody>>
  /\ Goto("setFailed")
  /\ UNCHANGED <<batch, inputs, change, dogeTx, process, request, solana,
                 registered, doge, life>>

\* The Fail effect, second write: the batch is Failed, and the run bails.
SetFailed ==
  /\ At("setFailed")
  /\ SetBatch(op.b, "Failed")
  /\ op' = Idle
  /\ UNCHANGED <<reservation, inputs, change, dogeTx, process, request, custody,
                 solana, registered, doge, life>>

-----------------------------------------------------------------------------
(* Resuming an Observed batch: four separate reads, then a decision. *)

ResumeObserved(b) ==
  /\ Polls
  /\ IsOldestIncomplete(b)
  /\ batch[b].status = "Observed"
  /\ op' = [op EXCEPT !.pc = "cursor", !.b = b]
  /\ UNCHANGED <<store, solana, registered, doge, life>>

ReadCursor ==
  /\ At("cursor")
  /\ op' = [op EXCEPT !.pc = "status", !.cursor = cursor]
  /\ UNCHANGED <<store, solana, registered, doge, life>>

\* get_signature_statuses_with_history.
ReadStatus ==
  /\ At("status")
  /\ op' = [op EXCEPT !.pc = "metadata",
              !.sig = CASE solanaTx[op.b] = "Landed"  -> "ok"
                        [] solanaTx[op.b] = "Errored" -> "err"
                        [] OTHER                      -> "none"]
  /\ UNCHANGED <<store, solana, registered, doge, life>>

\* get_transaction(...).ok(): an error of the call reads as "not found".
ReadMetadata(found) ==
  /\ At("metadata")
  /\ found => Resolved(op.b)
  /\ op' = [op EXCEPT !.pc = "blockhash", !.found = found]
  /\ UNCHANGED <<store, solana, registered, doge, life>>

\* Mutant: metadata found on resume is taken for a verified snapshot.
DecideTrustingMetadata ==
  /\ At("blockhash")
  /\ LET action == ObservedAction(op.sig, op.found, blockhash[op.b],
                                  op.cursor, batch[op.b].lo)
     IN  op' = CASE action = "AwaitConfirmation" ->
                      [op EXCEPT !.pc = IF op.found THEN "setConstructed" ELSE "await"]
                 [] action = "ResendOriginal" -> [op EXCEPT !.pc = "submit"]
                 [] action = "Fail"           -> [op EXCEPT !.pc = "release"]
                 [] action = "Wait"           -> Idle
  /\ UNCHANGED <<store, solana, registered, doge, life>>

\* is_blockhash_valid (asked only when nothing was found), then
\* select_observed_batch_action on the four answers and its effect.
DecideObserved ==
  /\ At("blockhash")
  /\ LET action == ObservedAction(op.sig, op.found, blockhash[op.b],
                                  op.cursor, batch[op.b].lo)
     IN  op' = CASE action = "AwaitConfirmation" ->
                      [op EXCEPT !.pc = IF op.found THEN "finish" ELSE "await"]
                 [] action = "ResendOriginal" -> [op EXCEPT !.pc = "submit"]
                 [] action = "Fail"           -> [op EXCEPT !.pc = "release"]
                 [] action = "Wait"           -> Idle
  /\ UNCHANGED <<store, solana, registered, doge, life>>

-----------------------------------------------------------------------------
(* continue_snapshot_batch: signing. *)

ResumeConstructed(b) ==
  /\ Polls
  /\ IsOldestIncomplete(b)
  /\ batch[b].status = "Constructed"
  /\ op' = [op EXCEPT !.pc = "register", !.b = b]
  /\ UNCHANGED <<store, solana, registered, doge, life>>

\* The payment is restored; then register_unsigned_transaction: the Manager
\* keeps the first transaction it is given under a sequence and refuses a
\* different one.
Register ==
  /\ At("register")
  /\ \E rows \in Loaded(op.b) :
       LET s == batch[op.b].sequence
           restored == Restorable(op.b, rows)
       IN  /\ registered' = [registered EXCEPT ![s] =
                               IF restored /\ @ = NoBatch THEN op.b ELSE @]
           /\ Ensure(restored /\ registered[s] \in {NoBatch, op.b}, "signatures")
  /\ UNCHANGED <<store, solana, doge, life>>

\* Mutant: the signed transaction is broadcast before it is persisted.
BroadcastBeforePersist(q) ==
  /\ At("signatures")
  /\ registered[batch[op.b].sequence] = op.b
  /\ mempool' = IF Acceptable(<<op.b, q>>) THEN mempool \cup {<<op.b, q>>} ELSE mempool
  /\ op' = [op EXCEPT !.pc = "persistSigned", !.quorum = q]
  /\ UNCHANGED <<store, solana, registered, mined, life>>

\* wait_for_manager_signatures, fetch_signed_vaa and the checks on both: some
\* quorum has signed the registered transaction.
FetchSignatures(q) ==
  /\ At("signatures")
  /\ registered[batch[op.b].sequence] = op.b
  /\ op' = [op EXCEPT !.pc = "persistSigned", !.quorum = q]
  /\ UNCHANGED <<store, solana, registered, doge, life>>

\* The Manager no longer knows the sequence: the wait times out.
SigningTimeout ==
  /\ At("signatures")
  /\ registered[batch[op.b].sequence] # op.b
  /\ op' = Idle
  /\ UNCHANGED <<store, solana, registered, doge, life>>

\* persist_signed_snapshot: transaction, process record, mappings, requests
\* and batch in one store transaction, of a batch whose reservation is held.
PersistSigned ==
  /\ At("persistSigned")
  /\ IF reservation[op.b] = "Reserved"
       THEN /\ dogeTx' = [dogeTx EXCEPT ![op.b] =
                            [status |-> "Signed", quorum |-> op.quorum]]
            /\ process' = [process EXCEPT ![op.b] = "Signed"]
            /\ SetRange(op.b, "Signed")
            /\ SetBatch(op.b, "Signed")
       ELSE UNCHANGED <<batch, dogeTx, process, request>>
  /\ Ensure(reservation[op.b] = "Reserved", "broadcast")
  /\ UNCHANGED <<reservation, inputs, change, custody, solana, registered, doge,
                 life>>

-----------------------------------------------------------------------------
(* Broadcasting the persisted transaction, and the Broadcast transition. *)

\* Mutant: a Signed batch goes back to the Managers.
ResumeSigning(b) ==
  /\ Polls
  /\ IsOldestIncomplete(b)
  /\ batch[b].status = "Signed"
  /\ ~TransitionStarted(b)
  /\ op' = [op EXCEPT !.pc = "register", !.b = b]
  /\ UNCHANGED <<store, solana, registered, doge, life>>

\* A Signed batch none of whose rows has been moved to Broadcast: the whole
\* graph must still be Signed, or the run fails.
ResumeSigned(b) ==
  /\ Polls
  /\ IsOldestIncomplete(b)
  /\ batch[b].status = "Signed"
  /\ ~TransitionStarted(b)
  /\ \E rows \in Loaded(b) :
       op' = IF SignedGraph(b, rows) THEN [op EXCEPT !.pc = "broadcast", !.b = b]
                                     ELSE Idle
  /\ UNCHANGED <<store, solana, registered, doge, life>>

\* An interrupted transition is completed, whatever row it stopped at, while
\* the reservation's rows carry it.
ResumeTransition(b) ==
  /\ Polls
  /\ IsOldestIncomplete(b)
  /\ batch[b].status = "Signed"
  /\ TransitionStarted(b)
  /\ \E rows \in Loaded(b) :
       op' = IF Linked(rows)
               THEN [op EXCEPT !.pc = "markReservation", !.b = b, !.recovering = TRUE]
               ELSE Idle
  /\ UNCHANGED <<store, solana, registered, doge, life>>

\* broadcast_electrs_idempotent: a transaction Electrs has is not posted.
BroadcastTx ==
  /\ At("broadcast")
  /\ LET tx == SignedTx(op.b)
     IN  /\ mempool' = IF tx \notin Known /\ Acceptable(tx)
                         THEN mempool \cup {tx} ELSE mempool
         /\ Ensure(tx \in Known \/ Acceptable(tx), "markReservation")
  /\ UNCHANGED <<store, solana, registered, mined, life>>

\* complete_broadcast_transition, its writes in order.  A run that has posted
\* loads the graph again before them (mark_batch_broadcast).
MarkReservation ==
  /\ At("markReservation")
  /\ \E rows, moved \in Loaded(op.b) :
       LET accepted == op.recovering \/ Linked(rows)
       IN  /\ IF accepted /\ reservation[op.b] = "Reserved"
                THEN /\ reservation' = [reservation EXCEPT ![op.b] = "Broadcast"]
                     /\ SetCoins(moved, "Broadcast")
                ELSE UNCHANGED <<reservation, custody>>
           /\ Ensure(accepted /\ reservation[op.b] \in {"Reserved", "Broadcast"},
                     "markTx")
  /\ UNCHANGED <<batch, inputs, change, dogeTx, process, request, solana,
                 registered, doge, life>>

MarkTx ==
  /\ At("markTx")
  /\ dogeTx' = [dogeTx EXCEPT ![op.b].status = "Broadcast"]
  /\ Goto("markProcess")
  /\ UNCHANGED <<batch, reservation, inputs, change, process, request, custody,
                 solana, registered, doge, life>>

MarkProcess ==
  /\ At("markProcess")
  /\ process' = [process EXCEPT ![op.b] = "Broadcast"]
  /\ op' = [op EXCEPT !.pc = "markRequestBroadcast", !.i = batch[op.b].lo]
  /\ UNCHANGED <<batch, reservation, inputs, change, dogeTx, request, custody,
                 solana, registered, doge, life>>

\* Mutant: the range is taken as inclusive.
MarkRequestBroadcastInclusive ==
  /\ At("markRequestBroadcast")
  /\ request' = [request EXCEPT ![op.i] = "Broadcast"]
  /\ op' = IF op.i < batch[op.b].hi
             THEN [op EXCEPT !.i = @ + 1]
             ELSE [op EXCEPT !.pc = "markBatch", !.i = 0]
  /\ UNCHANGED <<batch, reservation, inputs, change, dogeTx, process, custody,
                 solana, registered, doge, life>>

MarkRequestBroadcast ==
  /\ At("markRequestBroadcast")
  /\ request' = [request EXCEPT ![op.i] = "Broadcast"]
  /\ op' = IF op.i + 1 < batch[op.b].hi
             THEN [op EXCEPT !.i = @ + 1]
             ELSE [op EXCEPT !.pc = "markBatch", !.i = 0]
  /\ UNCHANGED <<batch, reservation, inputs, change, dogeTx, process, custody,
                 solana, registered, doge, life>>

\* The run that broadcast ends here; a recovery goes on to confirmation.
MarkBatch ==
  /\ At("markBatch")
  /\ SetBatch(op.b, "Broadcast")
  /\ op' = IF op.recovering THEN [op EXCEPT !.pc = "checkMined"] ELSE Idle
  /\ UNCHANGED <<reservation, inputs, change, dogeTx, process, request, custody,
                 solana, registered, doge, life>>

-----------------------------------------------------------------------------
(* Confirmation. *)

ResumeBroadcast(b) ==
  /\ Polls
  /\ IsOldestIncomplete(b)
  /\ batch[b].status = "Broadcast"
  /\ op' = [op EXCEPT !.pc = "checkMined", !.b = b]
  /\ UNCHANGED <<store, solana, registered, doge, life>>

\* Mutant: a transaction in the mempool counts as confirmed.
CheckKnown ==
  /\ At("checkMined")
  /\ \E rows \in Loaded(op.b) :
       Ensure(/\ BroadcastGraph(op.b, rows)
              /\ SignedTx(op.b) \in Known
              /\ ChangeDerivable(op.b, rows), "finalize")
  /\ UNCHANGED <<store, solana, registered, doge, life>>

\* The whole graph must be Broadcast; then fetch_confirmed_withdrawal, for
\* which one confirmation is enough and none is an Err; then the change is
\* derived, or the run fails and the batch stays Broadcast.
CheckMined ==
  /\ At("checkMined")
  /\ \E rows \in Loaded(op.b) :
       Ensure(/\ BroadcastGraph(op.b, rows)
              /\ SignedTx(op.b) \in mined
              /\ ChangeDerivable(op.b, rows), "finalize")
  /\ UNCHANGED <<store, solana, registered, doge, life>>

\* The change coin to book: the change output of the confirmed transaction.
ConfirmedChange(b) == IF change[b] = "None" THEN {} ELSE {SignedTx(b)}

\* finalize_confirmed_snapshot, one store transaction: everything is
\* Confirmed, the inputs are Spent and the change coin is Available.
Finalize ==
  /\ At("finalize")
  /\ dogeTx' = [dogeTx EXCEPT ![op.b].status = "Confirmed"]
  /\ process' = [process EXCEPT ![op.b] = "Confirmed"]
  /\ SetRange(op.b, "Confirmed")
  /\ SetBatch(op.b, "Confirmed")
  /\ reservation' = [reservation EXCEPT ![op.b] = "Spent"]
  /\ \E rows \in Loaded(op.b) :
       custody' = [c \in Coin |->
         CASE c \in rows                  -> "Spent"
           [] c \in ConfirmedChange(op.b) -> "Available"
           [] OTHER                       -> custody[c]]
  /\ op' = Idle
  /\ UNCHANGED <<inputs, change, solana, registered, doge, life>>

-----------------------------------------------------------------------------
(* The world around the operator. *)

Fault == faults < MaxFaults /\ faults' = faults + 1

\* A user burns wrapped tokens and asks for a withdrawal (bound: MaxRequests).
NewRequest ==
  /\ tip < MaxRequests
  /\ tip' = tip + 1
  /\ UNCHANGED <<store, cursor, sequence, solanaTx, blockhash, registered, doge,
                 op, life>>

\* deposit-to-solana registers a confirmed deposit: without the operator's lock
\* and without a look at the row, which is Available afterwards whatever it
\* was.  To find it reserved or spent takes two runs of the command on one
\* deposit (module Deposit); that is a fault and counts against the budget.
RegisterDeposit(d) ==
  /\ custody' = [custody EXCEPT ![d] = "Available"]
  /\ IF custody[d] \in {"Absent", "Available"}
       THEN UNCHANGED <<overwritten, faults>>
       ELSE Fault /\ overwritten' = overwritten \cup {d}
  /\ UNCHANGED <<batch, reservation, inputs, change, dogeTx, process, request,
                 solana, registered, doge, op, running>>

\* Solana executes the snapshot while its blockhash is valid.
Land(b) ==
  /\ solanaTx[b] = "InFlight"
  /\ blockhash[b]
  /\ IF WouldSucceed(b)
       THEN /\ solanaTx' = [solanaTx EXCEPT ![b] = "Landed"]
            /\ cursor' = batch[b].hi
            /\ sequence' = IF NoopShim THEN sequence ELSE sequence + 1
       ELSE /\ solanaTx' = [solanaTx EXCEPT ![b] = "Errored"]
            /\ UNCHANGED <<cursor, sequence>>
  /\ UNCHANGED <<store, tip, blockhash, registered, doge, op, life>>

\* Time passes and the blockhash expires.  Losing a transaction that could
\* still have landed is a fault and counts against the budget.
Expire(b) ==
  /\ blockhash[b]
  /\ Resolved(b) \/ ~WouldSucceed(b) \/ faults < MaxFaults
  /\ faults' = IF Resolved(b) \/ ~WouldSucceed(b) THEN faults ELSE faults + 1
  /\ blockhash' = [blockhash EXCEPT ![b] = FALSE]
  /\ UNCHANGED <<store, cursor, tip, sequence, solanaTx, registered, doge, op,
                 running, overwritten>>

Mine(tx) ==
  /\ tx \in mempool
  /\ \A c \in Spends(tx) : c \in Deposits \/ c \in mined
  /\ mempool' = mempool \ {tx}
  /\ mined' = mined \cup {tx}
  /\ UNCHANGED <<store, solana, registered, op, life>>

\* The operator dies or is cancelled, and the daemon with it, or a call of its
\* returns an error, which ends the poll only.
Crash ==
  /\ Fault
  /\ ~At("idle")
  /\ op' = Idle
  /\ running' \in BOOLEAN
  /\ UNCHANGED <<store, solana, registered, doge, overwritten>>

\* Between two polls the daemon ends: it aborts after too many failed polls, as
\* many as module Daemon counts and any number here, or a signal stops it.
DaemonStops ==
  /\ Polls
  /\ running' = FALSE
  /\ UNCHANGED <<store, solana, registered, doge, op, overwritten, faults>>

\* Whoever runs the daemon starts it again; nothing in the repository does.
DaemonStarts ==
  /\ ~running
  /\ running' = TRUE
  /\ UNCHANGED <<store, solana, registered, doge, op, overwritten, faults>>

\* The local Manager service keeps its registrations in memory only.
ManagerRestart ==
  /\ Fault
  /\ \E s \in DOMAIN registered : registered[s] # NoBatch
  /\ registered' = [s \in DOMAIN registered |-> NoBatch]
  /\ UNCHANGED <<store, solana, doge, op, running, overwritten>>

\* A Dogecoin node may drop an unconfirmed transaction.
Evict(tx) ==
  /\ Fault
  /\ tx \in mempool
  /\ mempool' = mempool \ {tx}
  /\ UNCHANGED <<store, solana, registered, mined, op, running, overwritten>>

-----------------------------------------------------------------------------
FreshStep ==
  \/ PollIdle
  \/ PollFresh \/ LoadHistory \/ ReadState \/ RecordRequest \/ ReadSequence
  \/ \E b \in Batch, coins \in SUBSET Coin, kind \in ChangeKind :
       ReserveSnapshot(b, coins, kind)
  \/ ReserveInsufficient

ObservedStep ==
  \/ Submit \/ SubmitRejected \/ AwaitMetadata \/ AwaitTimeout
  \/ FinishSnapshot \/ CheckSequence \/ SetConstructed
  \/ ReleaseReservation \/ SetFailed
  \/ \E b \in Batch : ResumeObserved(b)
  \/ ReadCursor \/ ReadStatus \/ DecideObserved
  \/ \E found \in BOOLEAN : ReadMetadata(found)

SigningStep ==
  \/ MarkRequestConstructed
  \/ \E b \in Batch : ResumeConstructed(b)
  \/ Register \/ SigningTimeout \/ PersistSigned
  \/ \E q \in Quorums : FetchSignatures(q)

BroadcastStep ==
  \/ \E b \in Batch : ResumeSigned(b)
  \/ \E b \in Batch : ResumeTransition(b)
  \/ BroadcastTx \/ MarkReservation \/ MarkTx \/ MarkProcess
  \/ MarkRequestBroadcast \/ MarkBatch

ConfirmStep ==
  \/ \E b \in Batch : ResumeBroadcast(b)
  \/ CheckMined \/ Finalize

\* Whatever the operator does next: exactly one call is next at any time.
Operator ==
  FreshStep \/ ObservedStep \/ SigningStep \/ BroadcastStep \/ ConfirmStep

Environment ==
  \/ NewRequest
  \/ \E d \in Deposits : RegisterDeposit(d)
  \/ \E b \in Batch : Land(b)
  \/ \E b \in Batch : Expire(b)
  \/ \E tx \in mempool : Mine(tx)
  \/ Crash
  \/ DaemonStops \/ DaemonStarts
  \/ ManagerRestart
  \/ \E tx \in mempool : Evict(tx)

Next == Operator \/ Environment

Spec == Init /\ [][Next]_vars

(* The operator takes its next step, to which the service it calls answers, *)
(* and a daemon that is started again and again polls now and then (it only *)
(* aborts after several failed polls), hence strong fairness; Solana        *)
(* executes what it was sent and blockhashes expire (about a minute);       *)
(* Dogecoin mines what is in the mempool.  Faults are bounded, never fair,  *)
(* and nobody is obliged to start the daemon again.                         *)
Fairness ==
  /\ SF_vars(Operator)
  /\ WF_vars(\E b \in Batch : Land(b))
  /\ WF_vars(\E b \in Batch : Expire(b))
  /\ WF_vars(\E tx \in mempool : Mine(tx))

FairSpec == Spec /\ Fairness

-----------------------------------------------------------------------------
(* Properties. *)

BatchRow == [status: BatchStatus, lo: 0 .. MaxRequests, hi: 0 .. MaxRequests,
             tip: 0 .. MaxRequests, sequence: 0 .. MaxRequests]

OpRow == [pc: Pc, b: Batch \cup {NoBatch}, i: 0 .. MaxRequests,
          cursor: 0 .. MaxRequests, tip: 0 .. MaxRequests,
          sequence: 0 .. MaxRequests, sig: {"none", "ok", "err"},
          found: BOOLEAN, quorum: Quorums \cup {NoQuorum}, recovering: BOOLEAN]

GraphRow == [status: GraphStatus, quorum: Quorums \cup {NoQuorum}]

StoreTypeOK ==
  /\ batch \in [Batch -> BatchRow]
  /\ reservation \in [Batch -> ReservationStatus]
  /\ inputs \in [Batch -> SUBSET Coin]
  /\ change \in [Batch -> ChangeKind]
  /\ dogeTx \in [Batch -> GraphRow]
  /\ process \in [Batch -> GraphStatus]
  /\ request \in [Request -> RequestStatus]
  /\ custody \in [Coin -> CoinStatus]

WorldTypeOK ==
  /\ cursor \in 0 .. MaxRequests
  /\ tip \in 0 .. MaxRequests
  /\ sequence \in 0 .. MaxRequests
  /\ solanaTx \in [Batch -> SolanaTx]
  /\ blockhash \in [Batch -> BOOLEAN]
  /\ registered \in [0 .. MaxRequests -> Batch \cup {NoBatch}]
  /\ mempool \in SUBSET (Batch \X Quorums)
  /\ mined \in SUBSET (Batch \X Quorums)
  /\ running \in BOOLEAN
  /\ overwritten \in SUBSET Deposits
  /\ faults \in 0 .. MaxFaults

\* Every variable has its type: in particular no batch reaches past the
\* requests that exist (capped_batch_end).
TypeOK == StoreTypeOK /\ WorldTypeOK /\ op \in OpRow

Unfinished(b) == batch[b].status \notin {"None", "Confirmed", "Failed"}

\* At most one snapshot batch is unfinished, whatever crashed and when: a new
\* snapshot is never begun beside one that may still pay, and a resumed run
\* never works on a batch that is not the unfinished one.
OneUnfinished ==
  /\ \A b, c \in Batch : Unfinished(b) /\ Unfinished(c) => b = c
  /\ op.b # NoBatch => Unfinished(op.b)

\* No request is paid twice: any two Dogecoin transactions the node holds,
\* unconfirmed or mined, pay disjoint ranges of requests.
NoDoublePayment ==
  \A tx, other \in Known : tx # other => Range(tx[1]) \cap Range(other[1]) = {}

\* What the Dogecoin node holds, unconfirmed or mined, is what the store holds:
\* the transaction was persisted, byte for byte, before it was posted, and its
\* snapshot landed.
BroadcastIsRecorded ==
  \A tx \in Known :
    /\ dogeTx[tx[1]].status # "None"
    /\ tx = SignedTx(tx[1])
    /\ solanaTx[tx[1]] = "Landed"

\* A coin the store offers for the next payment really is a confirmed output
\* that no transaction the node holds spends; except a deposit whose row a
\* later registration took back from a reservation or from Spent, which is
\* offered while a payment holds it or has spent it.
CustodyBacked ==
  \A c \in Coin \ overwritten : custody[c] = "Available" =>
    /\ c \in Deposits \/ c \in mined
    /\ \A tx \in Known : c \notin Spends(tx)

\* The coins set aside are exactly those of the reservation of the unfinished
\* batch: none leaks with a batch that failed, none is held twice.  Deposits
\* that were registered again over a reservation or a payment are excepted.
NoLeakedCustody ==
  \A c \in Coin \ overwritten :
    custody[c] \in {"Reserved", "Broadcast"} <=>
      \E b \in Batch : /\ Unfinished(b)
                       /\ c \in inputs[b]
                       /\ reservation[b] = custody[c]

\* No input of a batch was registered again over its reservation or payment.
Undisturbed(b) == inputs[b] \cap overwritten = {}

\* A crash between any two writes of the signing and Broadcast stages leaves a
\* graph that the checks of the next run accept, unless a deposit among the
\* inputs was registered again meanwhile.
TransitionRecoverable ==
  \A b \in Batch : Undisturbed(b) => \A rows \in Loaded(b) :
    /\ batch[b].status = "Signed" =>
         \/ /\ TransitionStarted(b)
            /\ Linked(rows)
            /\ reservation[b] \in {"Reserved", "Broadcast"}
         \/ SignedGraph(b, rows)
    /\ batch[b].status = "Broadcast" => BroadcastGraph(b, rows)

\* The Manager never holds another transaction under the sequence of the batch
\* that is being signed: an abandoned attempt was not registered.
ManagerAgrees ==
  \A b \in Batch : batch[b].status = "Constructed" =>
    registered[batch[b].sequence] \in {NoBatch, b}

\* A batch is given up as "failed or expired before advancing the cursor": its
\* snapshot never landed.
FailedBeforeCursor ==
  \A b \in Batch : batch[b].status = "Failed" => solanaTx[b] # "Landed"

Rank(s) == CASE s = "None" -> 0 [] s = "Observed" -> 1 [] s = "Constructed" -> 2
             [] s = "Signed" -> 3 [] s = "Broadcast" -> 4 [] s = "Confirmed" -> 5

\* No step of any run takes a request's status back.
RequestsAdvance ==
  [][\A r \in Request : Rank(request[r]) <= Rank(request'[r])]_vars

KeepsQuorum ==
  \A b \in Batch : dogeTx[b].status # "None" => dogeTx'[b].quorum = dogeTx[b].quorum

\* A payment is signed once: a persisted signed transaction is never replaced
\* by one with other signatures (its txid would differ).
SignedOnce == [][KeepsQuorum]_vars

\* Custody has a coin for the next snapshot, unless one is under way.  Whether
\* the coins a store selects cover a payment, and whether its plan takes them, is
\* abstracted (ReserveSnapshot).
CustodyHeld == ~NoneIncomplete \/ \E c \in Coin : custody[c] = "Available"

\* The two ways a payment is lost for good: a snapshot that landed after its
\* reservation was released, and a Broadcast batch whose transaction the
\* Dogecoin network dropped, which no run posts again.
Lost(b) ==
  \/ solanaTx[b] = "Landed" /\ reservation[b] = "Released"
  \/ /\ batch[b].status \in {"Signed", "Broadcast"}
     /\ TransitionStarted(b)
     /\ SignedTx(b) \notin Known

\* The three ways a batch can stop every later poll: it spends more coins than
\* the reader of its persisted transaction takes, its change is refused for
\* the different key references of its inputs, or a deposit it spends was
\* registered again.
Wedged(b) ==
  \/ batch[b].status = "Constructed" /\ Cardinality(inputs[b]) > MaxInputs
  \/ batch[b].status = "Broadcast" /\ change[b] = "MixedKeys"
  \/ Unfinished(b) /\ ~Undisturbed(b)

Impaired == \E b \in Batch : Lost(b) \/ Wedged(b)

\* If custody does not run dry, the daemon, whenever it stops, is started again,
\* and the services it calls answer, every requested withdrawal is eventually
\* booked as confirmed, through every crash, restart and expiry, unless a payment
\* was lost in one of the two ways (Lost) or stands in one of the three that no
\* run gets past (Wedged).
EventuallyPaid ==
  []<>CustodyHeld /\ []<>running =>
    \A r \in Request : (r < tip) ~> (request[r] = "Confirmed" \/ Impaired)

\* The ledger this implements: paid is what confirmed transactions pay.
Ledger == INSTANCE WithdrawalLedger WITH
  requested   <- tip,
  snapshotted <- cursor,
  paid        <- UNION {Range(tx[1]) : tx \in mined},
  booked      <- {r \in Request : request[r] = "Confirmed"}

\* The operator, with its store and every failure, implements the ledger: only
\* snapshotted requests are paid, once each, and only paid ones are booked.
ImplementsLedger == Ledger!Spec

\* The custody rows of the store, as the life of their coins; but for a
\* deposit that was registered again over a reservation or a payment, whose
\* life this says nothing more of.
CoinRow(c) == IF c \in overwritten THEN "Absent" ELSE custody[c]
KeptRows == [c \in Coin |-> CoinRow(c)]

Coins == INSTANCE CustodyCoins WITH status <- KeptRows

\* The one step that no coin's life has: a deposit that is reserved or spent is
\* registered again.
RegistersAgain ==
  \E d \in Deposits :
    /\ custody[d] \in {"Reserved", "Broadcast", "Spent"}
    /\ custody' = [custody EXCEPT ![d] = "Available"]
    /\ overwritten' = overwritten \cup {d}

\* Whatever fails, each custody coin only ever goes the way of CustodyCoins: no
\* payment takes a coin another one holds, and none that was paid with comes
\* back.  The exception is a deposit that is registered again after it was
\* reserved or spent; every step of every other coin is in the way of
\* CustodyCoins even so.
ImplementsCoins ==
  Coins!Init /\ [][Coins!Next \/ RegistersAgain]_KeptRows
=============================================================================
