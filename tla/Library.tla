-------------------------------- MODULE Library -------------------------------
(***************************************************************************)
(* Calls of the pure functions of the operator's crate, over small inputs:  *)
(* Transactions, SpentTree and Amounts are what they compute, the           *)
(* properties what they are for.  A behaviour is one call, or a row of      *)
(* payments whose inputs are proved unspent and spent.                      *)
(***************************************************************************)
EXTENDS Amounts, SpentTree

CONSTANTS
  Alphabet,   \* bound: the characters of the amounts parsed
  MaxText,    \* bound: their length
  Units,      \* bound: the fields an encoding is damaged with
  Height,     \* height of the trees: 45 and 32
  MaxBatch,   \* bound: inputs of a payment
  MaxSpent,   \* bound: outputs spent when a payment starts
  MaxTxids    \* bound: transactions in a block

ASSUME BoundsNat == Height \in Nat /\ MaxBatch \in Nat /\ MaxTxids \in Nat
                    /\ MaxText \in Nat

\* Small transaction ids, so that the two orders of 1 are 1 and -1.
Negated(txid) == -txid

Wires == INSTANCE Transactions WITH
  MaxPersistedInputs <- 8, MaxPersistedOutputs <- 7,
  CountByte <- 6, CountU16 <- 9, CountU32 <- 12, Reversed <- Negated

VARIABLES
  spent,   \* outputs whose bits are set on chain
  call     \* the last call: its function, its arguments and its result

vars == <<spent, call>>

Init == spent = {} /\ call = [fn |-> "none"]

\* A function is called once, before any payment.
Uncalled == call.fn = "none" /\ spent = {}
Call(record) == call' = record /\ UNCHANGED spent

-----------------------------------------------------------------------------
(* The calls. *)

CallParseAmount ==
  /\ Uncalled
  /\ \E n \in 0 .. MaxText : \E text \in [1 .. n -> Alphabet] :
       Call([fn |-> "amount", text |-> text, result |-> ParseAmount(text)])

\* What a wallet may make of a payment of custody: outpoints, and outputs to
\* the recipient, the change address, another one, or two of them.
Outpoint == [txid : {1, 2}, vout : {0}] \cup {[txid |-> 2, vout |-> 1]}
Shown == {o \in [n : {0}, addresses : SUBSET {"recipient", "change", "other"}, sats : 1 .. 3] :
            Cardinality(o.addresses) \in 1 .. 2}
Numbered(outputs) == [i \in DOMAIN outputs |-> [outputs[i] EXCEPT !.n = i - 1]]

\* What a payment is decided to be; one of them is decoded in every form.
Decided == {d \in [pay : 1 .. 6, selected : 1 .. 6,
                   changeAddress : {"", "recipient", "change"}] :
              d.selected <= MaxU64 /\ PlanCustody(d.selected, d.pay, 1, 1).ok}
Typical == [pay |-> 2, selected |-> 5, changeAddress |-> "change"]
Wanted == <<[txid |-> 1, vout |-> 0], [txid |-> 2, vout |-> 1]>>

CallValidateDecoded ==
  /\ Uncalled
  /\ \E d \in Decided :
     \E outputs \in BoundedSeq(Shown, IF d = Typical THEN 3 ELSE 2) :
     \E inputs \in IF d = Typical /\ Len(outputs) < 3 THEN BoundedSeq(Outpoint, 2)
                                                   ELSE {Wanted} :
       LET plan == PlanCustody(d.selected, d.pay, 1, 1) IN
       Call([fn |-> "decoded", inputs |-> inputs, outputs |-> Numbered(outputs),
             changeAddress |-> d.changeAddress, plan |-> plan,
             accepted |-> ValidateDecoded(inputs, Numbered(outputs), Wanted,
                            "recipient", d.changeAddress, plan, d.selected),
             found |-> ExtractVout(Numbered(outputs), "change")])

\* A transaction was built and its encoding stored; a field of it is another,
\* is missing or is one too many when it is read back, or none is.
Selected(n) == [i \in 1 .. n |-> [txid |-> i, vout |-> i % 2, redeem |-> i]]
Paid(n, kind) == [i \in 1 .. n |-> [amount |-> i, address |-> i,
                                     kind |-> IF i = n THEN kind ELSE 1 - kind]]
Damaged(bytes) ==
  {bytes}
    \cup {RemoveAt(bytes, i) : i \in DOMAIN bytes}
    \cup {ReplaceAt(bytes, i, u) : i \in DOMAIN bytes, u \in Units}
    \cup {InsertAt(bytes, i, u) : i \in 1 .. Len(bytes) + 1, u \in Units}

CallRestore ==
  /\ Uncalled
  /\ \E inputs \in {1, 2, 8, 9}, others \in {0, 1}, outputs \in {1, 2, 7, 8},
        kind \in Wires!AddressTypes :
       LET tx == Wires!New(Selected(inputs), Paid(outputs, kind)).value
           reserved == IF others = 0 THEN Selected(inputs) ELSE Reverse(Selected(inputs))
       IN \E bytes \in IF inputs + outputs <= 3 THEN Damaged(Wires!Wire(tx))
                                                ELSE {Wires!Wire(tx)} :
            Call([fn |-> "restore", tx |-> tx, reserved |-> reserved, bytes |-> bytes,
                  result |-> Wires!FromPersisted(bytes, reserved)])

CallMembership ==
  /\ Uncalled
  /\ \E n \in 1 .. 2 ^ Height : \E empty \in SUBSET (1 .. n), index \in 0 .. n :
       LET leaves == [i \in 1 .. n |-> IF i \in empty THEN EmptyLeaf ELSE {i}]
       IN  Call([fn |-> "membership", leaves |-> leaves, index |-> index,
                 result |-> FixedProofs(leaves, <<index>>, Height)])

CallBranch ==
  /\ Uncalled
  /\ \E n \in 0 .. MaxTxids : \E index \in 0 .. n :
       LET txids == [i \in 1 .. n |-> <<i>>]
       IN  Call([fn |-> "branch", txids |-> txids, index |-> index,
                 result |-> TransactionBranch(txids, index)])

\* A payment: the leaves are rebuilt from what the store has as spent.
CallSpentProofs ==
  /\ call.fn = "none"
  /\ Cardinality(spent) <= MaxSpent
  /\ \E n \in 1 .. MaxBatch : \E outputs \in [1 .. n -> 0 .. 2 ^ Height * LeafBits - 1] :
       LET result == SpentProofs(RebuiltLeaves(spent), outputs, Height)
       IN  /\ call' = [fn |-> "spent", before |-> spent, outputs |-> outputs,
                       result |-> result]
           /\ spent' = IF result.ok THEN spent \cup ToSet(outputs) ELSE spent

NextPayment ==
  /\ call.fn = "spent"
  /\ call' = [fn |-> "none"]
  /\ UNCHANGED spent

Next ==
  \/ CallParseAmount \/ CallValidateDecoded \/ CallRestore
  \/ CallMembership \/ CallBranch
  \/ CallSpentProofs \/ NextPayment

Spec == Init /\ [][Next]_vars

-----------------------------------------------------------------------------
(* What the functions are for. *)

\* A mantissa and the exponent of ten it stands with, of a text of either form.
Mantissa(text) == Before(text, Find(text, {"e", "E"}))
PointAt(text)  == LET m == Mantissa(text)
                  IN  IF Find(m, {"."}) = 0 THEN Len(m) ELSE Find(m, {"."}) - 1
AllDigits(text) == LET m == Mantissa(text)
                   IN  IF Find(m, {"."}) = 0 THEN m ELSE RemoveAt(m, Find(m, {"."}))
Exponent(text) == LET e == Find(text, {"e", "E"})
                  IN  IF e = 0 THEN 0 ELSE ParseI32(After(text, e)).value
Plain(text) ==
  /\ text # <<>> /\ Head(text) \in Digit
  /\ ToSet(text) \subseteq Digit \cup {"."}
  /\ ToSet(AllDigits(text)) \subseteq Digit

\* An amount that is accepted is exactly the one written, in satoshis; and
\* every plain decimal of a u64 of satoshis is accepted, none with a smaller
\* part.  (Scientific notation may be refused where it denotes a whole number.)
AmountExact ==
  call.fn = "amount" =>
    LET text  == call.text
        shift == Decimals + Exponent(text) - (Len(AllDigits(text)) - PointAt(text))
        sats  == Denotes(AllDigits(text)) * Ten[shift]
    IN  /\ call.result.ok => shift >= 0 /\ call.result.value = sats
        /\ Plain(text) => (call.result.ok <=> shift >= 0 /\ sats <= MaxU64)

\* The same elements, each as often.
IsPermutation(s, t) ==
  \E f \in Injection(DOMAIN s, DOMAIN t) : Len(s) = Len(t) /\ \A i \in DOMAIN s : s[i] = t[f[i]]

\* A decoded transaction that is accepted spends the reserved outpoints, each
\* once, and has one output to the recipient, another one of the change if the
\* plan has any, and no more; and one that has them, alone in their outputs, is
\* accepted and the change is found in it.  The exception: if both amounts are
\* equal, an output that lists both addresses stands for both.
DecodedIsThePlan ==
  call.fn = "decoded" =>
    LET plan       == call.plan
        outputs    == call.outputs
        outputSize == IF plan.change = 0 THEN 1 ELSE 2
        paid(i) == Pays(outputs[i], "recipient", plan.recipient)
        returned(i) == Pays(outputs[i], "change", plan.change)
        alone(i, address, sats) == outputs[i].addresses = {address} /\ outputs[i].sats = sats
        standsForBoth == /\ plan.recipient = plan.change
                         /\ \E i \in DOMAIN outputs : paid(i) /\ returned(i)
    IN  /\ call.accepted => IsPermutation(call.inputs, Wanted)
        /\ call.accepted /\ ~standsForBoth =>
             /\ Len(outputs) = outputSize
             /\ \E i \in DOMAIN outputs :
                  /\ paid(i)
                  /\ \A j \in DOMAIN outputs \ {i} : returned(j)
        /\ /\ IsPermutation(call.inputs, Wanted)
           /\ Len(outputs) = outputSize
           /\ plan.change = 0 \/ call.changeAddress = "change"
           /\ \E i \in DOMAIN outputs :
                /\ alone(i, "recipient", plan.recipient)
                /\ \A j \in DOMAIN outputs \ {i} : alone(j, "change", plan.change)
           => /\ call.accepted
              /\ plan.change # 0 => call.found.ok /\ call.found.sats = plan.change

\* What is restored from the store with the outputs that were planned is what
\* was stored, for the inputs it was stored for, byte by byte; and what was
\* stored is restored, within the limits of the reader.
RestoredIsStored ==
  call.fn = "restore" =>
    LET tx == call.tx
        same == call.bytes = Wires!Wire(tx)
                  /\ call.reserved = Selected(Len(tx.inputs))
        planned == call.result.ok /\ call.result.value.outputs = tx.outputs
    IN  /\ planned => same /\ call.result.value = tx
        /\ same /\ Len(tx.inputs) <= 8 /\ Len(tx.outputs) <= 7 => planned

\* The root of the full tree over some leaves, of a height.
DenseRoot(leaves, height) ==
  LET level[h \in 0 .. height] ==
        IF h = 0 THEN leaves
        ELSE [i \in Nat |-> <<level[h - 1][2 * i], level[h - 1][2 * i + 1]>>]
  IN  level[height][0]
SpentRoot(outputs) ==
  DenseRoot([i \in Nat |-> {BitOf(o) : o \in {p \in outputs : LeafOf(p) = i}}], Height)

\* A payment is proved exactly if none of its inputs is spent, before it or by
\* it, and its proofs lead from the root on chain to the one with its inputs
\* spent, each from where the one before it ends.
SpentProofsChain ==
  call.fn = "spent" =>
    LET proofs == call.result.proofs
        n == Len(call.outputs)
    IN  /\ call.result.ok <=> /\ IsInjective(call.outputs)
                              /\ ToSet(call.outputs) \cap call.before = {}
        /\ call.result.ok =>
             /\ Len(proofs) = n
             /\ \A k \in 1 .. n :
                  /\ proofs[k].oldRoot = SpentRoot(call.before
                                                   \cup ToSet(SubSeq(call.outputs, 1, k - 1)))
                  /\ proofs[k].newRoot = SpentRoot(call.before
                                                   \cup ToSet(SubSeq(call.outputs, 1, k)))
                  /\ proofs[k].bit \notin proofs[k].leaf
                  /\ RootFromProof(proofs[k].leaf \cup {proofs[k].bit}, proofs[k].index,
                                   proofs[k].siblings) = proofs[k].newRoot

\* The Merkle root of a block, from the top: a node without a right child has
\* its left one twice.
BlockRoot(txids) ==
  LET width[h \in 0 .. Len(txids)] ==
        IF h = 0 THEN Len(txids) ELSE (width[h - 1] + 1) \div 2
      level[h \in 0 .. Len(txids)] ==
        IF h = 0 THEN [i \in 0 .. Len(txids) - 1 |-> txids[i + 1]]
        ELSE [i \in 0 .. width[h] - 1 |->
               <<level[h - 1][2 * i],
                 level[h - 1][IF 2 * i + 1 < width[h - 1] THEN 2 * i + 1 ELSE 2 * i]>>]
      top == Min({h \in 0 .. Len(txids) : width[h] = 1})
  IN  level[top][0]

\* Membership of a request and of a transaction is proved for every index there
\* is and no other, against the root of the whole tree.
MembershipProofsVerify ==
  /\ call.fn = "membership" =>
       /\ call.result.ok <=> call.index < Len(call.leaves)
       /\ call.result.ok =>
            /\ call.result.root =
                 DenseRoot([i \in Nat |-> IF i < Len(call.leaves) THEN call.leaves[i + 1]
                                                               ELSE EmptyLeaf], Height)
            /\ RootFromProof(call.leaves[call.index + 1], call.index,
                             call.result.proofs[1].siblings) = call.result.root
  /\ call.fn = "branch" =>
       /\ call.result.ok <=> call.index < Len(call.txids)
       /\ call.result.ok =>
            /\ call.result.root = BlockRoot(call.txids)
            /\ RootFromProof(call.txids[call.index + 1], call.index,
                             call.result.branch) = call.result.root
=============================================================================
