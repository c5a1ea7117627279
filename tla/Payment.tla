-------------------------------- MODULE Payment -------------------------------
(***************************************************************************)
(* One payment after another, in bytes and signatures: where Withdrawal has *)
(* "signed" as a status, this module has what the operator builds, stores,  *)
(* restores, has signed, broadcasts and books (process_withdrawal.rs), with *)
(* a Manager service behind it: the local one of a development machine, or  *)
(* the Guardians' one, whose answers may hold anything.                     *)
(*                                                                          *)
(* The order of store writes, the snapshot on Solana and the lost answers   *)
(* are Withdrawal's: a snapshot that is reserved here has landed.  Every    *)
(* run of the operator has its own command line, which may differ from the  *)
(* one the payment was reserved with.                                       *)
(***************************************************************************)
EXTENDS Managers, Amounts

CONSTANTS
  Threshold, SetSize,   \* m and n of every Manager set: 5 and 7
  Deposits,     \* bound: the deposits, [txid, sats, recipient]
  Payments,     \* bound: the outputs a snapshot may have to pay
  Invocations,  \* bound: the command lines that a run may have
  MaxPayments,  \* bound: payments made
  MaxFaults     \* bound: answers and VAAs that are not the honest ones, crashes

ASSUME SettingsAssumption ==
  /\ Threshold \in Nat /\ SetSize \in Nat \ {0} /\ ByteRange \in Nat \ {0}

\* --manager-set-index, --fee-sats, --dust-threshold-sats, --manager-signing-enabled.
ASSUME InvocationsAssumption ==
  Invocations \subseteq [index : {0, 1}, fee : Nat, dust : Nat, signing : BOOLEAN]

\* The outputs of a payload, with room for the change; a deposit's transaction
\* id is some bytes, of no other deposit.
ASSUME SnapshotsAssumption ==
  \A outputs \in Payments :
    /\ outputs \in Seq([amount : Nat, kind : AddressTypes,
                       address : {outputs[i].address : i \in DOMAIN outputs}])
    /\ Len(outputs) < MaxPersistedOutputs
ASSUME FundsAssumption ==
  /\ Deposits \in Seq(ToSet(Deposits))
  /\ \A d \in ToSet(Deposits) : d.sats \in Nat /\ Reversed(Reversed(d.txid)) = d.txid
  /\ \A c, d \in ToSet(Deposits) : c.txid = d.txid => c = d

ManagerSet(index) ==
  [m |-> Threshold, keys |-> [k \in 1 .. SetSize |-> <<index, k>>]]

\* The scriptPubKey of a P2SH output, by what it is the hash of.
CustodyScript(recipient, index) ==
  Hash160(RedeemScript(recipient, ManagerSet(index).m, ManagerSet(index).keys))

\* original_recipient_address of a change output.
Zero == "zero"

\* Arguments that make the same payment.
TheSame(a, b) == [a EXCEPT !.signing = FALSE] = [b EXCEPT !.signing = FALSE]

VARIABLES
  service,   \* "local", or "guardians", which have no registration
  registry,  \* withdrawals registered at the local service, by sequence
  custody,   \* custody_utxos that are Available
  batch,     \* the batch at hand: its stage, and what is stored of it
  utxos,     \* outputs a Dogecoin node knows as unspent
  mined,     \* whether the batch's transaction is in a block
  number,    \* the number of the payment, its Wormhole sequence
  op,        \* the running operator: pc, its arguments, answers not yet used
  failure,   \* why the operator's last run failed, "none" if it did not
  faults

vars == <<service, registry, custody, batch, utxos, mined, number, op, failure, faults>>

NoBatch == [stage |-> "None"]
Idle    == [pc |-> "idle"]

Sum(f(_), s) == FoldLeft(LAMBDA n, e : n + f(e), 0, s)
TotalSats(coins)     == Sum(LAMBDA c : c.sats, coins)
TotalAmount(outputs) == Sum(LAMBDA o : o.amount, outputs)

\* Deposits were made under one Manager set and recorded with one label, or the
\* first one under another set, or with another label.
Init ==
  /\ service \in {"local", "guardians"}
  /\ \E index \in {0, 1}, label \in {"key-1", "key-2"} :
       /\ index = 0 \/ label = "key-1"
       /\ custody = {LET first == d = Head(Deposits)
                     IN  [txid |-> d.txid, vout |-> 0, sats |-> d.sats,
                          recipient |-> d.recipient,
                          script |-> CustodyScript(d.recipient, IF first THEN index ELSE 0),
                          keyRef |-> IF first THEN label ELSE "key-1"]
                     : d \in ToSet(Deposits)}
  /\ utxos = {[txid |-> c.txid, vout |-> c.vout, sats |-> c.sats, script |-> c.script]
              : c \in custody}
  /\ registry = [s \in {} |-> <<>>]
  /\ batch = NoBatch
  /\ mined = FALSE
  /\ number = 1
  /\ op = Idle
  /\ failure = "none"
  /\ faults = 0

\* `Err`: the run ends, the store is left as it is.
Fail(why) ==
  /\ op' = Idle /\ failure' = why
  /\ UNCHANGED <<service, registry, custody, batch, utxos, mined, number, faults>>

Goto(state) == op' = state /\ failure' = "none"

\* The daemon, or somebody, runs the operator.
Start ==
  /\ op.pc = "idle"
  /\ number <= MaxPayments
  /\ \E args \in Invocations :
       Goto([pc |-> IF batch.stage = "None" THEN "reserve" ELSE "continue",
             args |-> args])
  /\ UNCHANGED <<service, registry, custody, batch, utxos, mined, number, faults>>

-----------------------------------------------------------------------------
(* The unsigned transaction. *)

\* prepared_from_reservation: the transaction that pays a payload from coins
\* that are reserved, built, or restored from `stored` if that is not empty.
Prepared(args, payload, coins, required, stored) ==
  LET paid     == TotalAmount(payload.outputs)
      set      == ManagerSet(payload.index)
      plan     == PlanCustody(TotalSats(coins), paid, args.fee, args.dust)
      selected == [i \in DOMAIN coins |->
                     [txid |-> Reversed(coins[i].txid), vout |-> coins[i].vout,
                      redeem |-> RedeemScript(coins[i].recipient, set.m, set.keys)]]
      change   == IF plan.change = 0 THEN <<>>
                  ELSE <<[amount |-> plan.change, kind |-> P2sh,
                          address |-> CustodyScript(Zero, payload.index)]>>
      tx       == IF stored = <<>> THEN New(selected, payload.outputs \o change)
                                   ELSE FromPersisted(stored, selected)
  IN  IF /\ required = paid + args.fee
         /\ plan.ok
         /\ Redeemable(set.m, set.keys)
         /\ \A i \in DOMAIN coins : coins[i].script = Hash160(selected[i].redeem)
         /\ tx.ok /\ tx.value.outputs = payload.outputs \o change
         /\ stored = <<>> \/ Wire(tx.value) = stored
        THEN Some([tx |-> tx.value, change |-> plan.change])
        ELSE None

\* reserve_custody_for_snapshot: some coins that cover the payment, and the
\* transaction they make, or nothing.
Reserve ==
  /\ op.pc = "reserve"
  /\ \E outputs \in Payments :
     LET payload  == [chain |-> DOGECOIN_CHAIN_ID, index |-> op.args.index,
                      outputs |-> outputs]
         required == TotalAmount(outputs) + op.args.fee
     IN  \E chosen \in SUBSET custody :
         LET coins    == SetToSeq(chosen)
             prepared == Prepared(op.args, payload, coins, required, <<>>)
         IN  /\ TotalSats(coins) >= required
             /\ IF prepared.ok
                  THEN /\ batch' = [stage |-> "Constructed",
                                    payload |-> PayloadBytes(payload),
                                    required |-> required, coins |-> coins,
                                    unsigned |-> Wire(prepared.value.tx),
                                    args |-> op.args]
                       /\ custody' = custody \ chosen
                       /\ Goto([op EXCEPT !.pc = "continue"])
                       /\ UNCHANGED <<service, registry, utxos, mined, number, faults>>
                  ELSE Fail("reserve")

ReserveInsufficient ==
  /\ op.pc = "reserve"
  /\ \E outputs \in Payments :
       TotalSats(SetToSeq(custody)) < TotalAmount(outputs) + op.args.fee
  /\ Fail("reserve")

\* The payload and the transaction as the store has them, for this run.
StoredPayload == ParsePayload(batch.payload).value
Restored == Prepared(op.args, StoredPayload, batch.coins, batch.required, batch.unsigned)

\* continue_snapshot_batch: the payload is for the Manager set of this run; an
\* unsigned transaction is always restored, a signed one is taken as it is.
Continue ==
  /\ op.pc = "continue"
  /\ IF StoredPayload.index # op.args.index THEN Fail("identity")
     ELSE IF batch.stage = "Constructed" /\ ~Restored.ok THEN Fail("prepare")
     ELSE /\ Goto([op EXCEPT !.pc =
               CASE batch.stage = "Constructed" /\ op.args.signing -> "register"
                 [] batch.stage = "Constructed" /\ ~op.args.signing -> "ask"
                 [] batch.stage = "Signed"    -> "broadcast"
                 [] batch.stage = "Broadcast" -> "book"])
          /\ UNCHANGED <<service, registry, custody, batch, utxos, mined, number, faults>>

-----------------------------------------------------------------------------
(* The Managers. *)

\* Mutant: transaction ids are registered as the store has them.
StoredOrderRegistration ==
  [sequence |-> number, payload |-> batch.payload, unsigned |-> batch.unsigned,
   inputs   |-> [i \in DOMAIN batch.coins |->
                   [recipient |-> batch.coins[i].recipient,
                    txid |-> batch.coins[i].txid, vout |-> batch.coins[i].vout]],
   outputs  |-> Restored.value.tx.outputs]

\* Mutant: a payment is registered under the sequence of the next one.
NextSequenceRegistration ==
  [sequence |-> number + 1, payload |-> batch.payload, unsigned |-> batch.unsigned,
   inputs   |-> [i \in DOMAIN batch.coins |->
                   [recipient |-> batch.coins[i].recipient,
                    txid |-> Reversed(batch.coins[i].txid), vout |-> batch.coins[i].vout]],
   outputs  |-> Restored.value.tx.outputs]

\* register_unsigned_transaction, the request.
Registration ==
  [sequence |-> number, payload |-> batch.payload, unsigned |-> batch.unsigned,
   inputs   |-> [i \in DOMAIN batch.coins |->
                   [recipient |-> batch.coins[i].recipient,
                    txid |-> Reversed(batch.coins[i].txid), vout |-> batch.coins[i].vout]],
   outputs  |-> Restored.value.tx.outputs]

Register ==
  /\ op.pc = "register"
  /\ IF service = "local" /\ RegisterStatus(registry, Registration, ManagerSet(0)) = "OK"
       THEN /\ registry' = Registered(registry, Registration, ManagerSet(0))
            /\ Goto([op EXCEPT !.pc = "ask"])
            /\ UNCHANGED <<service, custody, batch, utxos, mined, number, faults>>
       ELSE Fail("register")

\* What the Managers sign: the digests of the transaction that is stored.
Digests == LET tx == Restored.value.tx
           IN  [i \in DOMAIN batch.coins |-> SighashAll(tx, i)]

HonestVaa == Vaa(number, batch.payload)
HonestAnswer(signers, digests) ==
  LET index == StoredPayload.index
      keys  == ManagerSet(index).keys
  IN  [complete   |-> Len(signers) >= Threshold,
       vaaHash    |-> VaaDigest(HonestVaa),
       chain      |-> DOGECOIN_CHAIN_ID, index |-> index,
       required   |-> Threshold, total |-> SetSize,
       signatures |-> [k \in DOMAIN signers |->
         [signer |-> signers[k],
          signatures |-> [i \in DOMAIN digests |->
                            Signature(keys[signers[k] + 1], digests[i])]]]]

\* Answers that differ from an honest one in one place; of a signer, the first.
Unlike(answer) ==
  LET first == Head(answer.signatures)
      Instead(signer) == [answer EXCEPT !.signatures = <<signer>> \o Tail(@)]
  IN  {[answer EXCEPT !.complete = FALSE], [answer EXCEPT !.vaaHash = NoHash],
       [answer EXCEPT !.vaaHash = VaaDigest(Vaa(number + 1, batch.payload))],
       [answer EXCEPT !.chain = Absent], [answer EXCEPT !.chain = @ + U16Range],
       [answer EXCEPT !.index = 1 - @], [answer EXCEPT !.required = @ - 1],
       [answer EXCEPT !.total = Absent]}
        \cup IF answer.signatures = <<>> THEN {}
             ELSE {[answer EXCEPT !.signatures = Append(@, first)]} \cup
                  {Instead(signer) : signer \in
                     {[first EXCEPT !.signer = @ + ByteRange],
                      [first EXCEPT !.signer = SetSize],
                      [first EXCEPT !.signer = Absent],
                      [first EXCEPT !.signatures = Tail(@)],
                      [first EXCEPT !.signatures[1].digest = DoubleSha(<<>>)],
                      [first EXCEPT !.signatures[1].hashType = 2]}}

\* With signing enabled the operator asks until an answer is complete.
Answered(json) ==
  LET answer == ParseAnswer(json)
  IN  /\ answer.ok
      /\ op.args.signing => answer.value.complete
      /\ Goto([pc |-> "askVaa", args |-> op.args, answer |-> answer.value])

AskLocal ==
  /\ op.pc = "ask" /\ service = "local" /\ number \in DOMAIN registry
  /\ Answered(registry[number].answer)
  /\ UNCHANGED <<service, registry, custody, batch, utxos, mined, number, faults>>

Signers == {s \in BoundedSeq(0 .. SetSize - 1, SetSize) : IsInjective(s)}

\* Bound: answers that are not honest are unlike those of the last Managers, in
\* their order, as many as are needed or more.
Enough == {s \in Signers : /\ Len(s) >= Threshold
                           /\ \A i \in DOMAIN s : s[i] = SetSize - Len(s) + i - 1}

AskGuardians ==
  /\ op.pc = "ask" /\ service = "guardians"
  /\ LET digests == Digests
     IN  \E signers \in Signers : Answered(HonestAnswer(signers, digests))
  /\ UNCHANGED <<service, registry, custody, batch, utxos, mined, number, faults>>

AskFaulty ==
  /\ op.pc = "ask" /\ service = "guardians" /\ faults < MaxFaults
  /\ LET digests == Digests
     IN  \E signers \in Enough :
         \E json \in Unlike(HonestAnswer(signers, digests)) : Answered(json)
  /\ faults' = faults + 1
  /\ UNCHANGED <<service, registry, custody, batch, utxos, mined, number>>

\* Not registered (any more), not complete in time, or not to be parsed.
AskFails == op.pc = "ask" /\ Fail("ask")

Told(vaa) ==
  Goto([pc |-> "apply", args |-> op.args, answer |-> op.answer, vaa |-> vaa])

AskVaa ==
  /\ op.pc = "askVaa"
  /\ \/ /\ service = "local" /\ number \in DOMAIN registry
        /\ Told(registry[number].vaa)
        /\ UNCHANGED faults
     \/ /\ service = "guardians"
        /\ Told(HonestVaa)
        /\ UNCHANGED faults
     \/ /\ service = "guardians" /\ faults < MaxFaults
        /\ \E vaa \in {Vaa(number + 1, batch.payload), Vaa(number, Tail(batch.payload)),
                       [HonestVaa EXCEPT !.emitter = "another"]} : Told(vaa)
        /\ faults' = faults + 1
  /\ UNCHANGED <<service, registry, custody, batch, utxos, mined, number>>

AskVaaFails == op.pc = "askVaa" /\ Fail("ask")

\* assert_vaa_and_manager, apply_manager_signatures, persist_signed_snapshot.
Apply ==
  /\ op.pc = "apply"
  /\ LET payload  == StoredPayload
         set      == ManagerSet(payload.index)
         prepared == Restored.value
         signed   == ApplySignatures(prepared.tx, op.answer.signatures, set)
     IN  IF AnswerBelongs(op.vaa, op.answer, number, payload, set) /\ signed.ok
           THEN /\ batch' = [stage |-> "Signed", payload |-> batch.payload,
                             required |-> batch.required, coins |-> batch.coins,
                             unsigned |-> batch.unsigned, args |-> batch.args,
                             tx |-> signed.value, change |-> prepared.change]
                /\ Goto([pc |-> "broadcast", args |-> op.args])
                /\ UNCHANGED <<service, registry, custody, utxos, mined, number, faults>>
           ELSE Fail("answer")

-----------------------------------------------------------------------------
(* Dogecoin, and the books. *)

\* P2SH and OP_CHECKMULTISIG: the script is the one paid to, and every
\* signature is under a key after that of the signature before it.
Unlocks(tx, i, script) ==
  LET stack      == tx.inputs[i].scriptSig
      redeem     == Last(stack)
      signatures == SubSeq(stack, 2, Len(stack) - 1)
      m          == redeem[3]
      keys       == redeem[4]
  IN  /\ Head(stack) = 0
      /\ Hash160(redeem) = script
      /\ Len(signatures) = m
      /\ \E at \in [1 .. m -> DOMAIN keys] :
           /\ \A k \in 1 .. m - 1 : at[k] < at[k + 1]
           /\ \A k \in 1 .. m : signatures[k] = Signature(keys[at[k]], SighashAll(tx, i))

\* A Dogecoin node takes a transaction that spends unspent outputs, unlocks
\* them, and pays no more than they are worth.
SpentBy(tx, i) ==
  {u \in utxos : u.txid = tx.inputs[i].txid /\ u.vout = tx.inputs[i].vout}
Created(tx) == {[txid |-> DoubleSha(Wire(tx)), vout |-> i - 1, sats |-> tx.outputs[i].amount,
                 script |-> tx.outputs[i].address] : i \in DOMAIN tx.outputs}
Accepts(tx) ==
  /\ \A i \in DOMAIN tx.inputs : \E u \in SpentBy(tx, i) : Unlocks(tx, i, u.script)
  /\ IsInjective([i \in DOMAIN tx.inputs |-> <<tx.inputs[i].txid, tx.inputs[i].vout>>])
  /\ TotalSats(SetToSeq(UNION {SpentBy(tx, i) : i \in DOMAIN tx.inputs}))
       >= TotalAmount(tx.outputs)

\* broadcast_electrs and the Broadcast transition.
Broadcast ==
  /\ op.pc = "broadcast"
  /\ IF Accepts(batch.tx)
       THEN /\ utxos' = (utxos \ UNION {SpentBy(batch.tx, i) : i \in DOMAIN batch.tx.inputs})
                          \cup Created(batch.tx)
            /\ batch' = [batch EXCEPT !.stage = "Broadcast"]
            /\ Goto(Idle)
            /\ UNCHANGED <<service, registry, custody, mined, number, faults>>
       ELSE Fail("broadcast")

Mine ==
  /\ batch.stage = "Broadcast" /\ ~mined
  /\ mined' = TRUE
  /\ UNCHANGED <<service, registry, custody, batch, utxos, number, op, failure, faults>>

\* Mutant: the outpoint of the change is in display order.
ChangeRowDisplayed(tx, at, keyRef) ==
  [txid |-> Txid(tx), vout |-> at, sats |-> Last(tx.outputs).amount, recipient |-> Zero,
   script |-> Last(tx.outputs).address, keyRef |-> keyRef]

\* The row that the change of a transaction makes.
ChangeRow(tx, at, keyRef) ==
  [txid |-> DoubleSha(Wire(tx)), vout |-> at, sats |-> Last(tx.outputs).amount,
   recipient |-> Zero, script |-> Last(tx.outputs).address, keyRef |-> keyRef]

\* Mutant: the outputs of a transaction with change are counted without it.
DerivedChangeBefore(tx, coins, outputs, change, stored) ==
  IF Len(tx.outputs) # Len(outputs) THEN None
  ELSE Some(IF change = 0 THEN {} ELSE {ChangeRow(tx, Len(outputs), Head(coins).keyRef)})

\* derive_confirmed_change: the rows that the change of a confirmed transaction
\* makes, one or none, from what was prepared and what the node shows.
DerivedChange(tx, coins, outputs, change, stored) ==
  LET selected == [i \in DOMAIN coins |-> [txid |-> Reversed(coins[i].txid),
                                           vout |-> coins[i].vout, redeem |-> 81]]
      restored == FromPersisted(stored, selected)
      shown    == Last(tx.outputs)
      keyRef   == Head(coins).keyRef
  IN  IF change = 0
        THEN IF Len(tx.outputs) = Len(outputs) THEN Some({}) ELSE None
      ELSE IF /\ Len(tx.outputs) = Len(outputs) + 1
              /\ shown.amount = change /\ shown.kind = P2sh
              /\ restored.ok /\ Last(restored.value.outputs) = shown
              /\ \A i \in DOMAIN coins : coins[i].keyRef = keyRef
        THEN Some({ChangeRow(tx, Len(outputs), keyRef)})
      ELSE None

\* plan_confirmed_withdrawal: the transaction as Electrs shows it in its block.
Confirmed == IF mined THEN Some(batch.tx) ELSE None

\* resume_broadcast_batch: not before it is confirmed; then the change is a
\* coin like the deposits (finalize_confirmed_snapshot).
Book ==
  /\ op.pc = "book"
  /\ LET change == DerivedChange(Confirmed.value, batch.coins, StoredPayload.outputs,
                                 batch.change, batch.unsigned)
     IN  IF ~Confirmed.ok THEN Fail("unconfirmed")
         ELSE IF ~change.ok THEN Fail("book")
         ELSE /\ custody' = custody \cup change.value
              /\ batch' = NoBatch
              /\ mined' = FALSE
              /\ number' = number + 1
              /\ Goto(Idle)
              /\ UNCHANGED <<service, registry, utxos, faults>>

\* The operator is killed; its batch is what the store has.
Crash ==
  /\ op.pc # "idle" /\ faults < MaxFaults
  /\ op' = Idle
  /\ failure' = "none"
  /\ faults' = faults + 1
  /\ UNCHANGED <<service, registry, custody, batch, utxos, mined, number>>

\* The local Manager service keeps its registrations in memory.
RestartService ==
  /\ DOMAIN registry # {} /\ faults < MaxFaults
  /\ registry' = [s \in {} |-> <<>>]
  /\ faults' = faults + 1
  /\ UNCHANGED <<service, custody, batch, utxos, mined, number, op, failure>>

Next ==
  \/ Start \/ Reserve \/ ReserveInsufficient \/ Continue
  \/ Register \/ AskLocal \/ AskGuardians \/ AskFaulty \/ AskFails
  \/ AskVaa \/ AskVaaFails \/ Apply
  \/ Broadcast \/ Mine \/ Book
  \/ Crash \/ RestartService

Spec == Init /\ [][Next]_vars

-----------------------------------------------------------------------------
(* Properties. *)

\* What the store has as Available can be spent: it is an unspent output on
\* chain, of the same worth, and its script is the one its recipient and a
\* Manager set make.  This is what the operator relies on for change, whose
\* row it derives, long after building it, from what a node shows.
BooksMatchChain ==
  \A c \in custody :
    /\ [txid |-> c.txid, vout |-> c.vout, sats |-> c.sats, script |-> c.script] \in utxos
    /\ \E index \in {0, 1} : c.script = CustodyScript(c.recipient, index)

\* A transaction that is stored as signed is, apart from its scripts, the one
\* stored before the Managers were asked; it spends the coins reserved and a
\* node's script interpreter lets it; it pays what Solana authorised, in order,
\* the fee it was reserved with, and the rest to the Managers.  Whatever the
\* Guardians' service answered and with whatever arguments it was run.
SignedIsThePayment ==
  batch.stage \in {"Signed", "Broadcast"} =>
    LET tx       == batch.tx
        coins    == batch.coins
        outputs  == StoredPayload.outputs
        unsigned == [tx EXCEPT !.inputs = [i \in DOMAIN @ |-> [@[i] EXCEPT !.scriptSig = <<>>]]]
    IN  /\ Wire(unsigned) = batch.unsigned
        /\ Len(tx.inputs) = Len(coins)
        /\ \A i \in DOMAIN coins :
             /\ tx.inputs[i].txid = coins[i].txid /\ tx.inputs[i].vout = coins[i].vout
             /\ Unlocks(tx, i, coins[i].script)
        /\ IsPrefix(outputs, tx.outputs) /\ Len(tx.outputs) <= Len(outputs) + 1
        /\ Len(tx.outputs) > Len(outputs) =>
             /\ Last(tx.outputs).kind = P2sh
             /\ Last(tx.outputs).address = CustodyScript(Zero, StoredPayload.index)
             /\ Last(tx.outputs).amount >= batch.args.dust
        /\ TotalSats(coins) - TotalAmount(tx.outputs) = batch.args.fee

\* Enough honest Managers, in any order and however many, get the payment
\* signed: a run that has their answer and the VAA stores the transaction.
HonestAnswersCount ==
  [][/\ op.pc = "apply" /\ op' # op /\ faults' = faults
     /\ op.vaa = HonestVaa
     /\ LET digests == Digests
             signers == [k \in DOMAIN op.answer.signatures |-> op.answer.signatures[k].signer]
         IN  /\ signers \in Signers /\ Len(signers) >= Threshold
             /\ op.answer = HonestAnswer(signers, digests)
     => batch'.stage = "Signed"]_vars

\* A payment that is reserved can be taken up by every later run that is given
\* the Manager set, fee and dust threshold it was reserved with, at every
\* stage; the exception: one of more inputs than the reader takes, which the
\* builder does not refuse.
SameArgsRecover ==
  [][op.pc = "continue" /\ failure' \in {"identity", "prepare"} /\ op' = Idle
     => ~TheSame(op.args, batch.args) \/ Len(batch.coins) > MaxPersistedInputs]_vars

\* The local Manager service takes every registration of the first Manager set,
\* the first time and when it is repeated, before and after a restart of it:
\* it describes the transaction that was stored, of coins and change alike.
RegistrationAccepted ==
  [][op.pc = "register" /\ failure' = "register"
     => service = "guardians" \/ StoredPayload.index # 0]_vars

\* A payment that is confirmed can be booked; the exception: change of coins
\* that were recorded with different labels.
ConfirmedIsBookable ==
  [][op.pc = "book" /\ failure' = "book"
     => /\ batch.change > 0
        /\ \E i, j \in DOMAIN batch.coins : batch.coins[i].keyRef # batch.coins[j].keyRef]_vars
=============================================================================
