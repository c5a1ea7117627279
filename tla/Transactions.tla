----------------------------- MODULE Transactions -----------------------------
(***************************************************************************)
(* doge/src/wormhole/tx.rs, utx0.rs and redeem.rs: the Dogecoin transaction *)
(* of a withdrawal, the payload that authorises it and their encodings.     *)
(*                                                                          *)
(* An encoding is a sequence of fields: a fixed-width integer, a hash, an   *)
(* opcode, a script that is pushed.  Only counts, whose encoding varies in  *)
(* width, have more than one form.  A hash is the term it is the hash of.   *)
(***************************************************************************)
EXTENDS Integers, Sequences, SequencesExt

CONSTANTS
  MaxPersistedInputs, MaxPersistedOutputs,  \* 1,000 and 320 in the program
  CountByte, CountU16, CountU32,   \* largest counts of 1, 3 and 5 bytes
  Reversed(_)   \* the other byte order of a transaction id

ASSUME LimitsAssumption == MaxPersistedInputs \in Nat /\ MaxPersistedOutputs \in Nat

TX_VERSION     == 1
SIGHASH_ALL    == 1
SEQUENCE_FINAL == CountU32   \* the largest u32

P2pkh == 0
P2sh  == 1
AddressTypes == {P2pkh, P2sh}

Hash(tag, data)  == <<tag, data>>
DoubleSha(bytes) == Hash("sha256d", bytes)
Hash160(script)  == Hash("hash160", script)

\* One of these, or a reason why there is none.
None == [ok |-> FALSE]
Some(value) == [ok |-> TRUE, value |-> value]

-----------------------------------------------------------------------------
(* The UTX0 payload: what the bridge authorises. *)

\* An output is [amount, kind, address], a payload [chain, index, outputs].
PayloadBytes(payload) ==
  <<"UTX0", payload.chain, payload.index, Len(payload.outputs)>>
    \o FlattenSeq([i \in DOMAIN payload.outputs |->
         <<payload.outputs[i].amount, payload.outputs[i].kind,
           payload.outputs[i].address>>])

\* Utx0UnlockPayload::parse: the length follows from the count exactly.
ParsePayload(bytes) ==
  LET output(i) == [amount |-> bytes[3 * i + 2], kind |-> bytes[3 * i + 3],
                    address |-> bytes[3 * i + 4]]
  IN  IF /\ Len(bytes) >= 4
         /\ bytes[1] = "UTX0"
         /\ Len(bytes) = 4 + 3 * bytes[4]
         /\ \A i \in 1 .. bytes[4] : output(i).kind \in AddressTypes
        THEN Some([chain |-> bytes[2], index |-> bytes[3],
                   outputs |-> [i \in 1 .. bytes[4] |-> output(i)]])
        ELSE None

-----------------------------------------------------------------------------
(* Scripts. *)

MaxPubkeys == 13

\* build_redeem_script: the emitter and the recipient, dropped, then an m-of-n
\* over the Managers' keys.
Redeemable(m, keys) == Len(keys) <= MaxPubkeys /\ m \in 1 .. Len(keys)
RedeemScript(recipient, m, keys) == <<"redeem", recipient, m, keys>>

\* script_pub_key_for, opcodes as they are.
ScriptPubKey(kind, address) ==
  IF kind = P2pkh THEN <<118, 169, 20, address, 136, 172>>
                  ELSE <<169, 20, address, 135>>

MaxStandardScript == Len(ScriptPubKey(P2pkh, 0))

\* parse_standard_output.
ParseScript(script) ==
  IF Len(script) = 6 /\ SubSeq(script, 1, 3) = <<118, 169, 20>>
                     /\ SubSeq(script, 5, 6) = <<136, 172>>
    THEN Some([kind |-> P2pkh, address |-> script[4]])
  ELSE IF Len(script) = 4 /\ SubSeq(script, 1, 2) = <<169, 20>>
                          /\ script[4] = 135
    THEN Some([kind |-> P2sh, address |-> script[3]])
  ELSE None

-----------------------------------------------------------------------------
(* Serialisation. *)

\* write_varint.
Count(n) ==
  CASE n <= CountByte                    -> <<n>>
    [] n > CountByte /\ n <= CountU16    -> <<CountByte + 1, n>>
    [] n > CountU16 /\ n <= CountU32     -> <<CountByte + 2, n>>
    [] n > CountU32                      -> <<CountByte + 3, n>>

\* One byte counts the bytes of every standard script.
ASSUME CountsAssumption ==
  /\ CountByte \in Nat /\ CountU16 \in Nat /\ CountU32 \in Nat
  /\ MaxStandardScript <= CountByte /\ CountByte < CountU16 /\ CountU16 < CountU32

\* serialize_transaction.
Wire(tx) ==
  <<tx.version>>
    \o Count(Len(tx.inputs))
    \o FlattenSeq([i \in DOMAIN tx.inputs |->
         LET input == tx.inputs[i]
         IN  <<input.txid, input.vout>> \o Count(Len(input.scriptSig))
               \o input.scriptSig \o <<input.sequence>>])
    \o Count(Len(tx.outputs))
    \o FlattenSeq([i \in DOMAIN tx.outputs |->
         LET script == ScriptPubKey(tx.outputs[i].kind, tx.outputs[i].address)
         IN  <<tx.outputs[i].amount>> \o Count(Len(script)) \o script])
    \o <<tx.locktime>>

\* UnsignedTransaction::txid, in display order.
Txid(tx) == Reversed(DoubleSha(Wire(tx)))

-----------------------------------------------------------------------------
(* UnsignedTransaction: [version, inputs, outputs, locktime, redeem]. *)

\* An input spends what was selected, [txid in display order, vout, redeem].
InputOf(selected) == [txid |-> Reversed(selected.txid), vout |-> selected.vout,
                      scriptSig |-> <<>>, sequence |-> SEQUENCE_FINAL]

\* UnsignedTransaction::new.
New(selected, outputs) ==
  IF selected = <<>> \/ outputs = <<>> THEN None
  ELSE Some([version  |-> TX_VERSION,
             inputs   |-> [i \in DOMAIN selected |-> InputOf(selected[i])],
             outputs  |-> outputs,
             locktime |-> 0,
             redeem   |-> [i \in DOMAIN selected |-> selected[i].redeem]])

\* sighash_all: input i carries its redeem script, the others nothing.
SighashAll(tx, i) ==
  LET commit == [j \in DOMAIN tx.inputs |->
                   [tx.inputs[j] EXCEPT !.scriptSig =
                      IF j = i THEN <<tx.redeem[i]>> ELSE <<>>]]
  IN  DoubleSha(Append(Wire([tx EXCEPT !.inputs = commit]), SIGHASH_ALL))

\* apply_script_sig: OP_0, the signatures, the redeem script.
ScriptSig(tx, i, signatures) == <<0>> \o signatures \o <<tx.redeem[i]>>

-----------------------------------------------------------------------------
(* from_persisted_bytes: an unsigned transaction is read back from the store. *)

\* TransactionReader::read_count: a count at a position, in its shortest form,
\* and the position after it.
NoCount == [n |-> -1, next |-> 0]
ReadCount(bytes, at) ==
  IF at \notin DOMAIN bytes THEN NoCount
  ELSE IF bytes[at] <= CountByte THEN [n |-> bytes[at], next |-> at + 1]
  ELSE IF /\ at + 1 \in DOMAIN bytes
          /\ Count(bytes[at + 1]) = <<bytes[at], bytes[at + 1]>>
    THEN [n |-> bytes[at + 1], next |-> at + 2]
  ELSE NoCount

\* Mutant: a script of the greatest length there is, P2PKH, is too long.
ReadOutputBelow(bytes, read) ==
  LET length == ReadCount(bytes, read.at + 1)
      after  == length.next + length.n
      script == ParseScript(SubSeq(bytes, length.next, after - 1))
  IN  IF /\ read.ok
         /\ read.at \in DOMAIN bytes
         /\ length.n \in 0 .. MaxStandardScript - 1
         /\ after <= Len(bytes) + 1
         /\ script.ok
        THEN [read EXCEPT !.at = after, !.outputs = Append(@,
                [amount |-> bytes[read.at], kind |-> script.value.kind,
                 address |-> script.value.address])]
        ELSE [read EXCEPT !.ok = FALSE]

\* One output at the position reached, appended to those read before it.
ReadOutput(bytes, read) ==
  LET length == ReadCount(bytes, read.at + 1)
      after  == length.next + length.n
      script == ParseScript(SubSeq(bytes, length.next, after - 1))
  IN  IF /\ read.ok
         /\ read.at \in DOMAIN bytes
         /\ length.n \in 0 .. MaxStandardScript
         /\ after <= Len(bytes) + 1
         /\ script.ok
        THEN [read EXCEPT !.at = after, !.outputs = Append(@,
                [amount |-> bytes[read.at], kind |-> script.value.kind,
                 address |-> script.value.address])]
        ELSE [read EXCEPT !.ok = FALSE]

ReadOutputs(bytes, at, n) ==
  FoldLeft(LAMBDA read, i : ReadOutput(bytes, read),
           [ok |-> TRUE, at |-> at, outputs |-> <<>>], [i \in 1 .. n |-> i])

\* The inputs have to be the ones the reservation selected, in order, unsigned
\* and final; the encoding has to be the one Wire gives.
FromPersisted(bytes, selected) ==
  LET inputs  == ReadCount(bytes, 2)
      input(i) == SubSeq(bytes, inputs.next + 4 * (i - 1), inputs.next + 4 * i - 1)
      outputs == ReadCount(bytes, inputs.next + 4 * inputs.n)
      read    == ReadOutputs(bytes, outputs.next, outputs.n)
      tx      == New(selected, read.outputs)
  IN  IF /\ selected # <<>>
         /\ bytes # <<>> /\ bytes[1] = TX_VERSION
         /\ inputs.n = Len(selected) /\ inputs.n <= MaxPersistedInputs
         /\ outputs.n \in 1 .. MaxPersistedOutputs
         /\ \A i \in 1 .. inputs.n :
              input(i) = <<Reversed(selected[i].txid), selected[i].vout, 0,
                           SEQUENCE_FINAL>>
         /\ read.ok
         /\ read.at = Len(bytes) /\ bytes[read.at] = 0
         /\ Wire(tx.value) = bytes
        THEN tx
        ELSE None
=============================================================================
