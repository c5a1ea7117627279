# psy-doge-solana-cli: TLA+ models, checks and proofs

This directory is a verification project for the operator side of the
Dogecoin-Solana bridge. It holds TLA+ modules translated from the source, TLC
configurations that check them on small instances, and theorems about them that
TLAPS checks for every value of the constants. `PROJECT.json` maps each
definition to the source lines it stands for. Paths below are relative to the
repository; `PW` is `doge/src/commands/process_withdrawal.rs`.

    tlc -config WithdrawalSafety.cfg MCWithdrawal      # a run
    tlapm WithdrawalStoreProofs.tla                    # the proofs of a module

## 1. Inventory

| Component | State it keeps | Operations | Talks to |
| --- | --- | --- | --- |
| **Withdrawal operator** (`PW`) | none of its own; everything is in the store | snapshot, submit, confirm, sign, broadcast, book; resume each stage | store, Solana RPC, Manager service, Electrs |
| **Operator store** (`doge-bridge-client`, outside the repository) | SQLite: snapshot batches, reservations, custody UTXOs, Dogecoin transactions, process records, requests; the operator lock | row upserts; the atomic `reserve_custody_for_snapshot`, `persist_signed_snapshot`, `finalize_confirmed_snapshot` | - |
| **Operator daemon** (`operator_daemon.rs`) | consecutive failure count | poll, dispatch, count, abort, stop on a signal | withdrawal operator, Solana RPC |
| **Devnet supervisor** (`tools/devnet/start.ts`) | array of running services, `stopping` flag | preflight, start in order, wait for readiness, stop all | sender, IBC pipeline, daemon (processes, signals, logs) |
| **Deposit** (`deposit_to_solana.rs`) | evidence file, which nothing reads | verify funding, broadcast, wait for a confirmation, register the custody UTXO | Electrs, store (no lock) |
| **Local Manager service** (`local_manager_service.rs`, `wormhole/manager.rs`) | registrations in memory, by VAA key | register, serve signatures, serve VAA | HTTP |
| **Formats** (`wormhole/tx.rs`, `utx0.rs`, `redeem.rs`) | none | serialise, parse, sighash, scripts | - |
| **Custody operations** (`custody_ops.rs`) | none | combined index; proofs that outputs are unspent, of membership, of a transaction in its block | - |
| **Amounts and plans** (`lib.rs`) | none | parse amounts, plan change, compare a decoded transaction with its plan | - |
| **Network profiles** (`network.rs`) | none | validate URLs, programs, manager set | - |
| **Initialisation, end-to-end drivers, legacy CLI** (`init_bridge.rs`, `cli/`, `tools/local/`, `tools/internal/`) | files | one-shot set-up and test orchestration | everything |

How a withdrawal travels: a user burns wrapped tokens on Solana, which appends a
request. The daemon polls; with nothing unfinished and requests past the
snapshot cursor it starts a run. The run reads the history and the bridge state,
records the requests, reads the Wormhole sequence, and in one store transaction
reserves custody and persists an *Observed* batch with an unsent Solana
transaction and an unsigned Dogecoin transaction. It submits the first; when it
has landed the batch is *Constructed*. It registers the second with the Manager
service, waits for a quorum of signatures, persists the signed bytes (*Signed*),
posts them to Electrs, and moves reservation, transaction, process record,
requests and batch to *Broadcast*, one write each. Later polls ask Electrs for a
confirmation and book it atomically (*Confirmed*).

What is hard: the operator is one sequential process, but its state is spread
over a database, two chains and a service that forgets. Each await is a place
where it is killed, cancelled or told of an error, answers are stale when used,
and the next run has only the store to go by. What makes each part correct:

- *operator*: no request is paid twice; only recorded transactions are
  broadcast; custody offered is real and none leaks; every interruption can be
  resumed; everything requested is eventually paid;
- *daemon*: outages end it, working does not;
- *supervisor*: services live and die together, in order;
- *deposit*: a confirmed deposit is registered once, and a rerun never
  resurrects a spent coin;
- *Manager*: one transaction per sequence, signatures only for what was
  authorised;
- *formats and maths*: round trips, value conservation, no truncation.

`PROJECT.json` lists the hazards by line, with the properties that cover each
or the reason none does yet.

## 2. Modules

| Module | Models |
| --- | --- |
| `Withdrawal` | the operator as the daemon drives it, with its store, Solana, the Manager service, Dogecoin and the failures |
| `WithdrawalLedger` | what it promises: an abstract ledger of requested, snapshotted, paid and booked requests |
| `CustodyCoins` | what the writers of `custody_utxos` promise each other: the life of a custody coin |
| `WithdrawalProofs` | proofs about `Withdrawal`: payments, snapshots and signatures |
| `WithdrawalStoreProofs` | the second layer: the rows of the store, its coins, requests and sequences; that `Withdrawal` implements `WithdrawalLedger` and `CustodyCoins` |
| `Deposit` | concurrent runs of the deposit command beside Dogecoin, Electrs and the operator |
| `DepositProofs` | proofs about `Deposit` |
| `Transactions` | payloads, scripts, transactions, sighashes and the reader of stored ones, as operators |
| `Amounts` | amounts, custody plans, decoded transactions, as operators |
| `Managers` | what the operator makes of a Manager's answer; the local Manager service |
| `Payment` | payments in bytes and signatures, from coins to change; composes `Transactions`, `Amounts` and `Managers` |
| `TransactionLemmas` | proofs about the operators of `Transactions` and `Managers` |
| `PaymentProofs` | proofs about `Payment` |
| `SpentTree` | Merkle trees and proofs, as operators |
| `Library` | calls of `Transactions`, `Amounts` and `SpentTree` over small inputs, against reference definitions |
| `LibraryProofs` | proofs about `Library`: the Merkle trees of `SpentTree`, amounts and decoded transactions of `Amounts` |
| `Daemon`, `DaemonProofs` | the poll loop's failure counter, abort and signals; proofs about them |
| `Supervisor`, `SupervisorProofs` | `main()` of the devnet supervisor; proofs about it |
| `MCWithdrawal`, `MCDeposit`, `MCPayment` | the TLC instances |

How they meet: `Withdrawal` has the order of every store write and what a crash
between two leaves, and takes a signed transaction as a status; `Payment` has
one stage after another without lost answers, and what is in each transaction.
`Withdrawal` implements `CustodyCoins` but for deposits registered again over a
payment, and `Deposit` uses `CustodyCoins` for the operator beside it, so that the
operator a deposit meets is the one that was checked. When a second registration can
come is `Deposit`'s; what it does to the operator is `Withdrawal`'s.

### Withdrawal and the code

*State.* The store's tables are one variable each, keyed by batch number (the
order in which attempts were persisted): `batch`, `reservation`, `inputs` and
`change` (the reservation's selected coins; whether its plan has a change output,
and if so whether the coins have one key reference or several), `dogeTx`,
`process`, `request`, `custody`. Solana is `cursor`, `tip`,
`sequence` and, per batch, the fate of its transaction and whether its blockhash
is valid. The Manager is `registered`, Dogecoin `mempool` and `mined`. `op` is
the running operator: the call it makes next, the batch at hand, and the answers
it has read and not yet used; `running` says whether the daemon that polls is up.
`overwritten` is a history variable, the deposits that were registered again after a
payment had reserved or spent them; `faults` counts against the bound on faults.

*Actions.* One per store call and per remote call, in the order of the code, so
a crash may fall between any two. What an `Err` return leaves behind is what a
crash leaves behind, so both are `op' = Idle`; `Crash` covers any call failing
anywhere, a lost request (crash before it) and a lost answer (crash after it).
A check that fails (`Ensure`) ends the run too: a row that does not carry its
reservation (`Linked`), a stored payment that is not restored (`Restorable`), change
that is refused (`ChangeDerivable`). `RegisterDeposit` is the upsert of
`deposit-to-solana` at any moment: without the lock, without reading the row, and
Available whatever the row was. The daemon stops and starts between polls.
The groups follow the functions: a fresh snapshot (`run_with_store`), the
outcome of the Solana transaction (`confirm_snapshot_batch`,
`finish_confirmed_snapshot`), the four reads and the decision of
`resume_snapshot_batch`, signing (`continue_snapshot_batch`), the transition to
Broadcast (`complete_broadcast_transition`), confirmation
(`resume_broadcast_batch`).

*Taken from how the source uses the external store.* `reserve_custody_for_snapshot`,
`persist_signed_snapshot` and `finalize_confirmed_snapshot` are atomic;
`persist_signed_snapshot` demands a held reservation; an upsert of a known
request keeps its status; Observed, Constructed, Signed and Broadcast count as
incomplete. The source does not tell what the store makes of a reservation one of
whose rows was overwritten: whether it loads the coins it selected or those whose rows
still carry it. Each read and write takes either (`Loaded`), so nothing rests on it.

*Abstractions.*
- Amounts: any nonempty set of available coins may be the one that covers a
  payment, with or without change, and two or more of them may have different key
  references; conservation of value is `Payment`'s.
- A deposit is registered any number of times. That it comes when a payment holds or
  has spent the coin takes two live runs of the command or a disconnected block
  (`Deposit`), so here it is a fault and counts against `MaxFaults`, at any moment.
- The daemon's abort after five failed polls is `Daemon`'s; here it may end after any
  number of polls, also none.
- Bytes, hashes and scripts: a Dogecoin transaction is its batch and the signer
  quorum in it; its txid and change outpoint depend on both, as without witness.
  What is in them is `Payment`'s.
- Buffer uploads, fee funding and evidence change nothing the operator
  reads again and are part of the neighbouring actions.
- The daemon always passes `--broadcast-enabled` and
  `--manager-signing-enabled`, so runs that stop before signing or broadcasting
  are not modelled, nor is the manual use of `--request-index`.
- The preflight of `send_transaction` rejects a transaction that would fail; one
  that passed may still fail when it executes, if a request moved the tip.
- One confirmation is final, as in the code; the model has no reorganisation.
- A Dogecoin node accepts a transaction whose inputs exist and are unspent.
- One operator: the store's lock is held, and no other store signs snapshots.

### Deposit and the code

A run is the command from its arguments to the registration: `Start` is
everything up to the built transaction (`verify_funding_utxo` looks the funding
output up, not whether it is spent), then one action per call: `Post`
(`broadcast_electrs`), `Poll` (`poll_deposit` and the search for the custody
output), `ReadBlock`, `ReadTip`, `Register` (`upsert_custody_utxo`). A run holds
no lock and reads nothing back, so runs interleave with each other and with the
operator. The transaction is a function of the arguments (signing is
deterministic), so a rerun posts the same bytes; the node takes one it has
unconfirmed, and refuses one in a block. `held` is what the operator's
reservations hold, which the upsert does not look at. Electrs may lag its node;
a block may be disconnected, its transactions being unconfirmed again.
`interrupted`, `twins` and `reorged` are history variables that name, per
deposit, the three things after which the code promises less.

### Payment, Managers and the formats

An encoding is a sequence of fields; a hash is the term it hashes, so equal
hashes mean equal data; a signature is what it signs and under which key.
Widths matter only where the code narrows or where an encoding changes form:
signer and chain of an answer (`% ByteRange`, `% U16Range`), and counts, whose
boundaries are scaled (`CountByte`, `CountU16`, `CountU32`). `Reversed` is the
other byte order of a transaction id; each place where the code reverses one
reverses it here.

In `Payment` every run of the operator has its own command line (one of
`Invocations`): Manager set, fee, dust threshold, with and without signing. `batch` is what the
store has of the payment at hand. `Reserve` builds it from any covering set of
coins, `Continue` is `continue_snapshot_batch` up to what is needed next,
`Register` the request to the local service, `AskLocal`, `AskGuardians` and
`AskFaulty` the answer, `Apply` the checks, the unlocking scripts and
`persist_signed_snapshot`, `Broadcast` and `Book` the rest. The `Guardians`'
service has no registration; its answers come from any Managers in any order,
and a faulty one differs from an honest one in one place (`Unlike`): a
signature, a signer, a count, the VAA, the chain. `Unlocks` is the script
interpreter for P2SH multisig, whose keys must come in the order of the signatures.
`failure` keeps why a run failed, for the properties. Runs without
`--broadcast-enabled` stop after `Apply`, as a run killed there does.

In `Library` a behaviour is one call of a function on one of its inputs, or a
row of payments whose inputs are proved unspent on a growing tree. The reference
definitions are in the properties: what a text denotes, a dense Merkle tree, a
multiset, the stored bytes.

### Daemon and Supervisor

`Daemon` keeps the failure counter of `PollFailureTracker` and the stage of one
withdrawal, and leaves to `Withdrawal` what a poll does to the store. `results`,
the last `Threshold` poll results, is a history variable for the properties.

`Supervisor` is one JavaScript thread: an action is what runs between two
awaits, so readiness and the next `spawn` are one step, and a signal handler runs
between any two. `plan` is the part of `shutdown()`'s copied array that it has not
finished with, the head being the service that was sent SIGTERM. A second
signal of the same kind kills the supervisor and is left out. The daemon's abort
is one way in which service 3 exits.

## 3. Runs

| Run | Bounds | Shows |
| --- | --- | --- |
| `safety` | 2 requests, 3 attempts, cap 2, 1 deposit, 1 quorum, 2 faults; 636,878 states | `OneUnfinished`, `NoDoublePayment`, `TransitionRecoverable`, `Inductive`; `Spec` implements `WithdrawalLedger`, and `CustodyCoins` with its exception |
| `shim` | no-op shim, 2 requests, 2 attempts, cap 1, 2 deposits, 2 quorums, 1 fault; symmetric quorums and deposits; 690,230 states | `ManagerAgrees`, `NoLeakedCustody`, `CustodyBacked`, `BroadcastIsRecorded`, `RequestsAdvance`, `SignedOnce` |
| `liveness` | 2 requests, 3 attempts, cap 2, 1 deposit, 1 quorum, reader of 1 input, 1 fault; deadlock checked; 125,904 states | `EventuallyPaid` |
| `liveness_inputs` | 1 request, 2 attempts, cap 2, 3 deposits, 1 quorum, reader of 2 inputs, no fault; deadlock checked; 12,301 states | `EventuallyPaid` |
| `lost_snapshot` | 2 requests, 2 attempts, 1 fault | violation: `FailedBeforeCursor` |
| `daemon` | threshold 5, 2 outages | `IInv`, `AbortIsConsecutive`, `OutageEscalates` |
| `daemon_abort` | the same | violation: `AbortMeansOutage` |
| `supervisor` | both signals | `IInv`, `ReverseOrder`, `DoneLeavesNothing`, `OneForAll` |
| `supervisor_signal` | both signals | violation: `SignalStopsAll` |
| `deposit` | 2 runs, 1 funding coin, 2 recipients, amounts below dust, with change, exact; 2 blocks, 1 fault, 1 disconnected block; 421,344 states | `IInv`, `OfferedIsFree`, `BackedByDogecoin`, `KeepsCoins`, `MinedIsRegistered` |
| `library` | texts of 5 of 6 characters; encodings of 1 to 9 inputs and 1 to 8 outputs, small ones damaged in any field; trees of height 3, blocks of 9; 239,264 states | `AmountExact`, `DecodedIsThePlan`, `RestoredIsStored`, `SpentProofsChain`, `MembershipProofsVerify` |
| `payment` | 2 payments of 1 or 2 outputs, 3 deposits, sets of 2 of 3, 2 Manager sets, 1 fault; 182,208 states | `Inductive`, `BooksMatchChain`, `SignedIsThePayment`, `HonestAnswersCount`, `SameArgsRecover`, `RegistrationAccepted`, `ConfirmedIsBookable` |

*Why the bounds are enough.* A cap of 2 with 2 requests gives full,
partial and consecutive batches, and a cap of 1 gives one batch per request. Two
attempts give a retry after a failed snapshot and a payment after a payment;
three give both, and in the liveness run are as many as can fail and still leave one
(a request that arrives, an expiry), so that the bound never is what stops it:
deadlock is checked. One deposit makes the next payment
spend the change of the previous one; two let payments have several inputs, and give a
second snapshot something to spend beside an unfinished one; three, with at most two
inputs restored, give payments at the reader's limit and past it, and several inputs
give several key references. Two quorums let a repeated signing give another txid.
Two faults let a second crash hit the recovery from the first, or a crash meet a
second registration of a deposit. In the first two runs, too, the reader takes 2
inputs. Most of what is checked does not depend on whether the
shim is in use; the two modes share the properties, and the proofs are for both.
Deadlock checking is off where the bounds
on requests, attempts, coins, blocks or payments may stop the system, or where a
behaviour is a single call, and on in the liveness runs.

In `deposit`, two runs on one coin are the same deposit twice or two deposits
that compete; two blocks let a run see a tip above its block, or a
transaction mined again elsewhere after its block went. Amounts 1, 7 and 8 of a
coin of 9 with fee 1 and dust 2 are below dust, one that would leave dust, and exact.
In `payment`, deposits of 4, 3 and 5 against payments of 2 and 5 with fee 1 and dust 2
give change, no change, dust change and several inputs; two payments let the second spend the
change of the first; `MaxPersistedInputs` 2 puts a payment of three inputs past
the reader. Sets of 3 have surplus signers and every order. Command lines are
the daemon's and those that differ from it in one argument. A faulty answer starts from that of
the last 2, or of all 3, in their order (`Enough`). In `library` the
limits of the reader (8 inputs, 7 outputs) lie past the first width boundary of
a count, 6; amounts with two decimals reach the overflow at `MaxU64` 2000; two bits a leaf and up to
three spent outputs give inputs in one leaf, in neighbours, and apart; blocks up
to 9 have odd levels at every height.

*Fairness* (`FairSpec`). Strong fairness of `Operator`: a live operator takes its
next step, to which the RPC nodes, Electrs and a quorum of Managers answer, and if the
daemon is up again and again it polls again and again. That it is up again and again
is not part of the specification: the daemon may stop between any two polls (it
aborts after five failures, which waiting for a block can cause, see the findings)
and nothing in the repository starts it again. `EventuallyPaid` has it as a
hypothesis, `[]<>running`: its claim is for a daemon that somebody (a service manager, a
person) starts again. Weak fairness of `Land`,
`Expire` and `Mine`: a transaction sent with a valid blockhash is executed, one
that is not expires, an unconfirmed payment is mined. Nothing is fair about
faults, requests or deposits. `EventuallyPaid` also assumes that custody does
not run dry for good (`CustodyHeld`), and excepts, by name (`Impaired`), five
situations. In two a payment is lost (`Lost`): a snapshot that landed after it was
given up, the first finding below, and a broadcast transaction the network dropped, which
`resume_broadcast_batch` waits for and never posts again. In three a batch stands and
every later poll stops at it (`Wedged`): it spends more coins than the
reader of its stored payment takes (`tx.rs:14`), its change is refused for the
different key references of its coins (`PW:1411`), or a deposit it spends was registered
again (`deposit_to_solana.rs:487`).
In `Daemon` only the loop is fair; in `Supervisor` only `main()` and the ten
seconds of `stop()`, since services owe nothing. In `Deposit` a run that is not
killed takes its next step and Electrs catches up with its node (weak fairness of
`Step` and `Index`); nothing is fair about mining, so `MinedIsRegistered` starts from
a deposit that was mined. `Payment` and `Library` have no liveness.

*Exceptions the properties name.* Where the code promises less than one would
wish, the property says so instead of the model leaving it out:
- `CustodyBacked`, `NoLeakedCustody`, `TransitionRecoverable`, `ImplementsCoins`: a
  deposit that was registered again after a payment had reserved or spent it
  (`overwritten`) is offered although the payment holds it, or is still to be resumed
  with it; nothing is claimed of that coin, or of a batch that spends it, from then
  on. Of all others the four hold, in the same states;
- `EventuallyPaid`: the five situations named above;
- `OfferedIsFree`, `KeepsCoins`: a deposit live in two runs, or whose block was
  disconnected, is registered twice, and offered again though a payment holds it;
- `BackedByDogecoin`: a coin registered at one confirmation keeps its leaf index
  when its block is disconnected;
- `MinedIsRegistered`: a deposit interrupted after its broadcast is registered by
  no later run once it is mined, since the node refuses the rerun's broadcast;
- `SameArgsRecover`: a payment of more inputs than the reader takes (1,000) is
  built, stored and never restored;
- `ConfirmedIsBookable`: change of coins with different key references is
  refused only once the payment is confirmed, at every poll from then on;
- `DecodedIsThePlan`: an output with both addresses stands for both when the
  amounts are equal;
- `AmountExact`: scientific notation may be refused where it denotes a whole
  number of satoshis.

*Findings.*
1. `lost_snapshot` (`PW:729`). Resuming reads the cursor first and the signature
   status, metadata and blockhash validity after it. A snapshot that lands in between
   is judged at the old cursor: its custody is released and its batch is Failed "before
   advancing the cursor", yet the cursor has moved past its requests, which no
   later snapshot covers. Reading the cursor last would close the window.
2. `daemon_abort` (`operator_daemon.rs:179`). A payment that is not yet mined is
   a poll error, so five polls, 25 seconds at the default interval, abort a
   healthy daemon, and the devnet supervisor then stops the other two services.
   The doc comment speaks of permanent outages.
3. `supervisor_signal` (`tools/devnet/start.ts:486`). A signal during start-up
   copies the array of services; `main()`, not told, may spawn the next one,
   which nothing stops. The README promises that Ctrl+C stops all three.

## 4. Proofs

Every theorem holds for all values of the constants that satisfy the named
assumptions; the runs check the same definitions on small instances. The inductive
invariant of each stateful module is itself an invariant of a run, but for `Past` and
`Written` of `Payment`, which say that some set or transaction exists and cannot
be enumerated.

| Module | Theorem | Establishes |
| --- | --- | --- |
| `WithdrawalProofs` | `Invariance`, `TypeCorrect` | `[]IInv`, `[]TypeOK` |
| | `OneUnfinishedHolds`, `BroadcastRecorded`, `NoDoublePaymentHolds` | `[]OneUnfinished`, `[]BroadcastIsRecorded`, `[]NoDoublePayment` |
| | `SignedOnceHolds` | the action property `SignedOnce` |
| `WithdrawalStoreProofs` | `StoreInvariance` | `[]Inductive` |
| | `CustodyBackedHolds`, `NoLeakedCustodyHolds`, `TransitionRecoverableHolds`, `ManagerAgreesHolds` | the four invariants, the first three with their exception |
| | `RequestsAdvanceHolds` | the action property `RequestsAdvance` |
| | `ImplementsLedgerHolds`, `ImplementsCoinsHolds` | `Withdrawal` implements both abstract specifications, the second with its exception |
| `DepositProofs` | `Invariance`, `TypeCorrect` | `[]IInv`, `[]TypeOK` |
| | `OfferedIsFreeHolds`, `BackedByDogecoinHolds` | the two invariants |
| | `KeepsCoinsHolds` | the runs keep to `CustodyCoins`, as the property says |
| `DaemonProofs` | `Invariance`, `TypeCorrect`, `AbortIsConsecutiveHolds` | the counter counts consecutive failures |
| `SupervisorProofs` | `Invariance`, `TypeCorrect`, `ReverseOrderHolds`, `DoneLeavesNothingHolds` | shutdown stops all it knows of, last first |
| `TransactionLemmas` | `PayloadRoundTrip` | a payload is read back as it was written |
| | `WireRoundTrip` | a transaction is restored from its encoding as it was built |
| | `SignaturesInOrder` | what `apply_manager_signatures` puts on each input |
| `PaymentProofs` | `Invariance`, `RecoverableHolds`, `InductiveHolds` | `[](Strengthening /\ SignedIsThePayment)`, `[]Recoverable`, `[]Inductive` |
| | `SignedIsThePaymentHolds` | the invariant |
| | `BooksMatchChainHolds` | the invariant |
| | `SameArgsRecoverHolds`, `HonestAnswersCountHolds`, `RegistrationAcceptedHolds`, `ConfirmedIsBookableHolds` | the four action properties |
| `LibraryProofs` | `SpentProofsChainHolds`, `MembershipProofsVerifyHolds` | the two invariants about Merkle trees, for every height |
| | `AmountExactHolds`, `DecodedIsThePlanHolds` | the two invariants about amounts, for every text, and decoded transactions |

### Assumptions

All but the last two are `ASSUME`s that TLC evaluates on the instances.
- `Withdrawal`: the bounds are naturals, the cap and the number of inputs the reader
  takes are positive (`BoundsAssumption`); the shim flag is a Boolean and `NoQuorum` is no quorum
  (`ModeAssumption`); a deposit's outpoint is not the change output of a
  payment (`DepositsAssumption`).
- `Deposit`: amounts and bounds are naturals (`DepositBounds`); there are finitely
  many funding coins (`FundingAssumption`).
- `Daemon`: the threshold is positive (`ThresholdAssumption`); the constant of the code is 5.
- `Transactions`: one byte counts the bytes of any standard script, and the widths
  of a count are in order (`CountsAssumption`); the reader's limits are naturals
  (`LimitsAssumption`).
- `SpentTree`: a leaf has room for an output (`LeafBitsPositive`). `Library`: the
  height and the bounds are naturals (`BoundsNat`). `Amounts`: the number of decimals
  is a natural and the largest u64 is not 0 (`AmountBounds`).
- `Payment`: set sizes and widths are naturals (`SettingsAssumption`), so are fees
  and dust thresholds, and there are two Manager sets (`InvocationsAssumption`);
  a snapshot's outputs have an amount and an address type, and leave room for the
  change within what the reader takes (`SnapshotsAssumption`): `capped_batch_end`
  (`PW:635`) reserves one of the `MAX_PERSISTED_OUTPUTS` places for it, and the
  test at `PW:2328` fixes 319 recipients; a deposit's transaction id has two byte
  orders and is of no other deposit (`FundsAssumption`).
- `HashOrders`, a hypothesis of the theorems of `PaymentProofs`: so has every
  hash, that is, reversing it twice changes nothing. It quantifies over all byte
  sequences, so TLC cannot evaluate it; the instance's `OtherOrder` satisfies it.
- `DepositsApart`, a hypothesis of `InductiveHolds` and `BooksMatchChainHolds`: no
  deposit's id is the hash of bytes that are written in the model. Deposits are
  made by users' transactions, whose contents are outside of it; the instance
  gives them ids of another shape than its hashes.

### Withdrawal: payments

No double payment is far from inductive. Two transactions pay
disjoint ranges because each is the persisted transaction of its batch
(`Payments`), a batch with a persisted transaction has landed (`Signatures`,
`Landings`), and landed ranges follow one another behind the cursor
(`Landings`): a snapshot lands only at the cursor and moves it to its end. That
only one transaction per batch exists needs the operator to sign only
Constructed batches, which is what its pc says of the batch at hand (`Control`),
which in turn needs at most one batch to be incomplete. That a Constructed batch
has landed needs what the locals say after the checks of
`finish_confirmed_snapshot` (`Locals`), and that ranges are nonempty and within
what was requested needs `Ranges`. `IInv` is `TypeOK` and these six.

### Withdrawal: the store

`StoreInv` rests on `IInv` and says how rows of different tables fit together
after any write the operator may have died after. `Rows` gives reservation,
transaction and process record of a batch at each of its stages; a Signed batch
has two forms, since the transition moves the reservation first and the batch last.
`Requests` gives the requests of a batch's range, and that those no landed batch
has claimed are at most Observed; it uses the disjoint ranges of `IInv`.
`Progress` says what the running operator has already written, or found mined,
when it comes to a call. `Held` ties coins to reservations both ways, for all coins
but those of `overwritten`, `Minted`
says that a coin in the books is a deposit or the change of a confirmed payment,
and `Sequences` that landed snapshots have different Wormhole sequences, also under
the shim, where a batch's sequence is its start index.

A second registration disturbs only `Held`, and only for its deposit, which it puts
into `overwritten` (`RegistrationStep`). A batch none of whose inputs is there has its
rows as they were written, so what `Loaded` leaves open does not matter for it
(`UndisturbedRows`).

`CustodyBacked` follows from `Minted`, `Held` and `Payments` (what spends a coin is
recorded, so its reservation holds the coin); `NoLeakedCustody` from `Held`, `Rows` and
`Control`; `TransitionRecoverable` from `Rows` and `Requests`, `ManagerAgrees`
from `Sequences`. `RequestsAdvance` needs `Requests` for each write of a
request's status: a batch marks only requests of its own range, which no other
batch has taken further.

### The refinements

The mapping of `WithdrawalLedger` is in `Withdrawal` (`Ledger`). Under `Inductive`
each step is mapped to a step of the ledger or to a stutter: a snapshot that
lands claims its range, the post of a transaction is a payment the first time and a
stutter when it is repeated (`BroadcastIsRecorded` makes the repeated one the same),
`finalize_confirmed_snapshot` books what is mined (`Progress`), everything else leaves
the ledger alone. For `CustodyCoins`, each write of the store moves a set of coins
from one status to the next, which `Held` says they all have. An overwritten coin is
mapped to Absent, so that steps that move it beside others are steps of the others;
the one step outside `CustodyCoins` is the second registration itself
(`RegistersAgain`).

### Deposit, Daemon, Supervisor

`Deposit`: no transaction has two places in the chain or is in a block and
unconfirmed (`Blocks`), no coin is spent twice (`OneSpend`), a run past its poll has
the place of its transaction (`Found`), what a run carries is not registered yet and
carried by no other (`Carried`), a leaf is where its deposit is (`Leaves`), and what a
reservation holds is not offered (`Held`); the last four except the deposits the
properties name, in terms of the same history variables.

`Daemon`: the count is the length of the whole run of failures at the end of the
history, so the daemon gives up at the threshold exactly. `Supervisor`: `plan` is
always the services from some k down to the first, all above its head have
exited, and only the head or what is above it was told to stop.

### Payment

The formats come first. A fold over a set or sequence is a choice of a recursive
function, so what it computes is shown for the function on pairs (fold so far,
element) by induction on the naturals, which `NatSet` states for sets of numbers,
the form the provers can use. With it, elements of a concatenation of encodings
stand where the counts before them say, and `PayloadRoundTrip` follows: the
reader, a fold over a position, stands at output i after i - 1 of them.
`SignaturesInOrder` says what sorting and taking the first M leaves: signatures
under keys in ascending order, which is what the script interpreter asks for.

`Strengthening` says what is stored of a batch (`Reserved`): the bytes of a payload
of `Payments` for the reservation's Manager set, the required sum, and the bytes of
the transaction that pays it from the coins at the reservation's fee and dust
threshold. An operator with other arguments reads that payload back
(`PayloadRoundTrip`), so a transaction it restores has the payload's outputs; the
required sum has the fee in it, so a different fee is refused; and with the fee the
change is the same, whatever the dust threshold. `Progress`
keeps this until `Apply`, `Answers` the numbers in an answer, `Registrations` that
what the local service has under a sequence is this payment, and `Bookable` that
the stored bytes are read back with the same outputs when the change is derived,
without the redeem scripts. `SignedIsThePayment` then needs, of an answer
that is accepted, only that its signatures verify: it may have come from anyone.
Three action properties follow from the same invariant; `HonestAnswersCount`
needs that an honest answer passes every check, `RegistrationAccepted` that the
request describes the stored bytes, `ConfirmedIsBookable` that only the
key references are left to differ.

`SameArgsRecover` needs the whole transaction back, not only its outputs.
`WireRoundTrip` reads an encoding part by part: counts, then inputs, whose amounts
and scripts come from the selected coins, then outputs, each a fold over a
position as in a payload. `Recoverable` then says that
`prepared_from_reservation`, given the reservation's arguments and what is stored,
builds the same transaction and accepts the stored one. No step changes what is
stored of a batch, so it lasts until the batch is confirmed. Its exception is part of it: with
more coins than the reader takes, the stored bytes restore to nothing.

`BooksMatchChain` is about coins, and a coin that is booked as change must be the
output a transaction made and not yet spent. `Backing` adds what that takes: rows
are of different outputs, a reserved coin is out of the books, and once the
transaction is on chain its outputs are there and the books have none of them yet. The
step that can break it is `Broadcast`: it takes the inputs off the chain and adds
outputs under a new id, which is new only if the transaction was never on chain
before. That is what `Past` is for. Some set of spent outputs is disjoint from the
unspent ones, and every output, spent or not, is of a deposit or of a
transaction whose first input is among the spent. A transaction that is
broadcast has an unspent first input, so it is none of those (`SpendsSomethingNew`);
its id differs from theirs since the id is a hash of the encoding, which hashes as
terms keep apart. `Written` says that what is signed is a well-formed transaction,
whose encoding shows its first input.

### Merkle trees

`SpentTree` computes with sparse trees, paths and levels that are folded up one
another; `Library` says what they are for in terms of the full tree. `LibraryProofs`
goes up the levels, by induction over sets of naturals. The sparse nodes with the
roots of empty trees between them are the nodes of the full tree (`SparseIsFull`). A path
of siblings leads from a leaf to the root (`PathLeads`), and since two trees that differ
in one leaf agree outside its path (`NodesAgree`), the same path leads from a new
value of the leaf to the root of the tree with it (`WitnessLeads`). So the two
comparisons of roots in `build_sequential_spent_txo_proofs` never fail: an output is
refused exactly if its bit is set (`SpendProves`, `SpendRefuses`), and the bits set after
k inputs are those of what was spent and of the k inputs (`PaymentProves`). That bits
and outputs correspond one to one is division by the size of a leaf (`BitTells`).

In a block a level has half the nodes of the one below, rounded up, so the last of as
many levels as there are transactions has one (`WidthsShrink`); until then the climb has
the nodes of its level and, per level below, what the node of the transaction is
hashed with, which is the node itself where it is odd and last (`OneLevel`,
`HashedBeside`); after that it stands still.

### Amounts and decoded transactions

What a run of digits denotes is computed digit by digit; two runs, one after the
other, denote the first shifted by the length of the second, and the second
(`DenotesConcat`). `parse_doge_decimal` computes from the whole part and the fraction
apart, `AmountExact` says what all the digits denote together: that the two agree is
`DenotesConcat` and that powers of ten multiply (`Satoshis`). Neither part exceeds
the sum, so a part that overflows a u64 is refused only where the amount does
(`PlainIs`). The scientific form shifts all the digits by the exponent less the length of
the fraction (`ScientificIs`).

Two sequences have each element as often exactly if one is a permutation of the
other (`SameIsPermutation`): bijections between the places of each element are put
together to one of all places. One output pays the recipient and one the change
address; as many outputs as the plan has leave room for no third
(`AcceptedIsPlanned`). In the other direction the outputs add up to what the plan
leaves after the fee (`PlannedIsAccepted`). These lemmas hold for all inputs and
outputs; the theorem takes them to the calls of `Library`.

### Only model-checked

- Liveness: `EventuallyPaid`, `OutageEscalates`, `OneForAll`, `MinedIsRegistered`,
  which need fairness and ENABLED.
- `RestoredIsStored` of `Library`. `WireRoundTrip` proves the half about undamaged
  bytes. The other half is about encodings with one field changed, left out or added,
  which the definition of the call enumerates; TLC evaluates all of them.
- The three runs that expect a violation.

## 5. Plan

1. **Done**: `Withdrawal`, its ledger, its invariant and six theorems; `Daemon`;
   `Supervisor`.
2. **Done**: `CustodyCoins` and its refinement; `Deposit`; the formats, amounts
   and Merkle proofs (`Transactions`, `Amounts`, `SpentTree`, `Library`); the
   Managers and the payment in bytes (`Managers`, `Payment`).
3. **Done**: the second invariant of `Withdrawal` and its theorems, both
   refinements, `Deposit`, `Daemon`, `Supervisor`, and the payment in bytes.
4. **Done**: the second half of the invariant of `Payment`, for `SameArgsRecover`
   and `BooksMatchChain`; the Merkle trees of `SpentTree`, for every height; amounts
   and decoded transactions, for every text and every plan.
5. `LocalStack`: process supervision of `tools/local/runner.ts` and
   `tools/internal/runtime.ts`, sharing the shape of `Supervisor`.
6. Network profiles as operators, with the arguments of a run composed with them.

*Not modelled, and why.* Option parsing, preflight checks, evidence files and
logging have no state that later steps depend on. `network.rs` compares arguments
with constants before any state exists. Of `lib.rs`, `validate_proof_artifacts`
checks two file sizes and `tracked_utxo_spent_commitment` is one hash over a
sorted list; no command calls either. Cryptography is assumed to do its job: hashes and
signatures are terms. HTTP, JSON and hexadecimal syntax are abstracted to the
records they carry. Initialisation (`init_bridge.rs`, `cli/`) and the legacy CLI
are straight lines of RPC calls; the end-to-end drivers orchestrate a development
machine. The SQLite store and the bridge programs are outside the repository and
modelled only as far as the source uses them: in particular which coins the
store selects for a payment, so that nothing is claimed about a selection that
fails at every poll.
