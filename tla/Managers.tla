------------------------------- MODULE Managers -------------------------------
(***************************************************************************)
(* doge/src/wormhole/manager.rs and the checks of process_withdrawal.rs:    *)
(* what the operator makes of a Manager's answer, and the Manager service   *)
(* of a development machine (with local_manager_service.rs).                *)
(*                                                                          *)
(* A Manager set is [m, keys].  A signature is what it signs and under      *)
(* which key.  An answer is [complete, vaaHash, chain, index, required,     *)
(* total, signatures], with [signer, signatures] for each signer.           *)
(***************************************************************************)
EXTENDS Transactions

CONSTANTS
  ByteRange,   \* the values of a byte: 256
  U16Range     \* the values of a u16

SOLANA_EMITTER_CHAIN == 1
DOGECOIN_CHAIN_ID    == 65
BridgeState          == "bridge"

Signature(key, digest) ==
  [key |-> key, digest |-> digest, hashType |-> SIGHASH_ALL]

\* A VAA without its guardian signatures, which nothing checks.
Vaa(sequence, payload) ==
  [emitterChain |-> SOLANA_EMITTER_CHAIN, emitter |-> BridgeState,
   sequence |-> sequence, payload |-> payload]
VaaDigest(vaa) == Hash("keccak256d", vaa)

-----------------------------------------------------------------------------
(* The answer of a Manager. *)

\* A number that is missing from the JSON is 0, and a missing hash is an Err.
Absent   == -1
OrZero(n) == IF n = Absent THEN 0 ELSE n
NoHash   == <<>>

\* parse_manager_signatures: signers are narrowed to a byte, the destination
\* chain to a u16.
ParseAnswer(json) ==
  IF json.vaaHash = NoHash THEN None
  ELSE Some([complete   |-> json.complete,
             vaaHash    |-> json.vaaHash,
             chain      |-> OrZero(json.chain) % U16Range,
             index      |-> OrZero(json.index),
             required   |-> OrZero(json.required),
             total      |-> OrZero(json.total),
             signatures |-> [k \in DOMAIN json.signatures |->
               [signer     |-> OrZero(json.signatures[k].signer) % ByteRange,
                signatures |-> json.signatures[k].signatures]]])

\* assert_vaa_and_manager: the answer belongs to the VAA, and the VAA to the
\* snapshot.
AnswerBelongs(vaa, answer, sequence, payload, set) ==
  /\ answer.vaaHash = VaaDigest(vaa)
  /\ vaa.emitterChain = SOLANA_EMITTER_CHAIN
  /\ vaa.emitter = BridgeState
  /\ vaa.sequence = sequence
  /\ ParsePayload(vaa.payload) = Some(payload)
  /\ answer.chain = DOGECOIN_CHAIN_ID
  /\ answer.index = payload.index
  /\ answer.required = set.m
  /\ answer.total = Len(set.keys)

\* What apply_manager_signatures asks of one signer: a key of the set, and a
\* valid SIGHASH_ALL signature of every input (verify_manager_signature).
SignerValid(digests, signer, set) ==
  /\ signer.signer < Len(set.keys)
  /\ signer.signatures = [i \in DOMAIN digests |->
                            Signature(set.keys[signer.signer + 1], digests[i])]

\* Signers, all different, by index.
InOrder(signers) ==
  CHOOSE s \in [DOMAIN signers -> ToSet(signers)] :
    \A k, l \in DOMAIN signers : k < l => s[k].signer < s[l].signer

\* Mutant: the signatures are put into the script in the order they came.
ApplyInOrder(tx, signers, set) ==
  LET digests == [i \in DOMAIN tx.inputs |-> SighashAll(tx, i)]
      signature(k, i) == signers[k].signatures[i]
  IN  IF /\ IsInjective([k \in DOMAIN signers |-> signers[k].signer])
         /\ \A k \in DOMAIN signers : SignerValid(digests, signers[k], set)
         /\ Len(signers) >= set.m
        THEN Some([tx EXCEPT !.inputs = [i \in DOMAIN tx.inputs |->
                    [tx.inputs[i] EXCEPT !.scriptSig =
                       ScriptSig(tx, i, [k \in 1 .. set.m |-> signature(k, i)])]]])
        ELSE None

\* Mutant: no more signers than are needed.
ApplyExactly(tx, signers, set) ==
  LET digests == [i \in DOMAIN tx.inputs |-> SighashAll(tx, i)]
      inOrder == InOrder(signers)
      signature(k, i) == inOrder[k].signatures[i]
  IN  IF /\ IsInjective([k \in DOMAIN signers |-> signers[k].signer])
         /\ \A k \in DOMAIN signers : SignerValid(digests, signers[k], set)
         /\ Len(signers) = set.m
        THEN Some([tx EXCEPT !.inputs = [i \in DOMAIN tx.inputs |->
                    [tx.inputs[i] EXCEPT !.scriptSig =
                       ScriptSig(tx, i, [k \in 1 .. set.m |-> signature(k, i)])]]])
        ELSE None

\* apply_manager_signatures: all signers are valid and different, and there are
\* m; the signatures of the first m, by index, unlock each input.
ApplySignatures(tx, signers, set) ==
  LET digests == [i \in DOMAIN tx.inputs |-> SighashAll(tx, i)]
      inOrder == InOrder(signers)
      signature(k, i) == inOrder[k].signatures[i]
  IN  IF /\ IsInjective([k \in DOMAIN signers |-> signers[k].signer])
         /\ \A k \in DOMAIN signers : SignerValid(digests, signers[k], set)
         /\ Len(signers) >= set.m
        THEN Some([tx EXCEPT !.inputs = [i \in DOMAIN tx.inputs |->
                    [tx.inputs[i] EXCEPT !.scriptSig =
                       ScriptSig(tx, i, [k \in 1 .. set.m |-> signature(k, i)])]]])
        ELSE None

-----------------------------------------------------------------------------
(* LocalManagerService.  A registration is [sequence, payload, unsigned,    *)
(* inputs, outputs], with [recipient, txid, vout] for each input.           *)

\* The transaction a registration describes, for the redeem scripts of a set.
Described(registration, set) ==
  New([i \in DOMAIN registration.inputs |->
         [txid   |-> registration.inputs[i].txid,
          vout   |-> registration.inputs[i].vout,
          redeem |-> RedeemScript(registration.inputs[i].recipient, set.m, set.keys)]],
      registration.outputs)

\* The outputs pay what the payload authorises, then at most one P2SH change.
OutputsAuthorised(outputs, authorised) ==
  /\ IsPrefix(authorised, outputs)
  /\ Len(outputs) <= Len(authorised) + 1
  /\ Len(outputs) > Len(authorised) => Last(outputs).kind = P2sh

\* build_local_signed_withdrawal: the first m Managers sign what is described.
SignLocally(registration, set) ==
  LET payload == ParsePayload(registration.payload)
      tx      == Described(registration, set)
      vaa     == Vaa(registration.sequence, registration.payload)
  IN  IF /\ payload.ok
         /\ payload.value.index = 0
         /\ payload.value.chain = DOGECOIN_CHAIN_ID
         /\ payload.value.outputs # <<>> /\ registration.inputs # <<>>
         /\ OutputsAuthorised(registration.outputs, payload.value.outputs)
         /\ tx.ok /\ Wire(tx.value) = registration.unsigned
        THEN Some([payload  |-> registration.payload,
                   unsigned |-> registration.unsigned,
                   vaa      |-> vaa,
                   answer   |->
                     [complete |-> TRUE, vaaHash |-> VaaDigest(vaa),
                      chain |-> DOGECOIN_CHAIN_ID, index |-> payload.value.index,
                      required |-> set.m, total |-> Len(set.keys),
                      signatures |-> [k \in 1 .. set.m |->
                        [signer |-> k - 1,
                         signatures |-> [i \in DOMAIN tx.value.inputs |->
                           Signature(set.keys[k], SighashAll(tx.value, i))]]]]])
        ELSE None

\* decode_registration: every output has an address type there is.
Decodable(registration) ==
  \A i \in DOMAIN registration.outputs : registration.outputs[i].kind \in AddressTypes

\* register and register_withdrawal: the same again is fine, something else
\* under the sequence is a conflict, and what cannot be signed a bad request.
\* `service` is the withdrawals registered, by sequence.
RegisterStatus(service, registration, set) ==
  IF ~Decodable(registration) THEN "BAD_REQUEST"
  ELSE IF registration.sequence \in DOMAIN service
    THEN LET known == service[registration.sequence]
         IN  IF known.payload = registration.payload
                /\ known.unsigned = registration.unsigned
               THEN "OK" ELSE "CONFLICT"
  ELSE IF SignLocally(registration, set).ok THEN "OK" ELSE "BAD_REQUEST"

Registered(service, registration, set) ==
  [s \in DOMAIN service \cup {registration.sequence} |->
     IF s \in DOMAIN service THEN service[s] ELSE SignLocally(registration, set).value]
=============================================================================
