------------------------------- MODULE Deposit --------------------------------
(***************************************************************************)
(* doge/src/commands/deposit_to_solana.rs: the command that pays Dogecoin   *)
(* to bridge custody, waits for the payment to be mined and registers the   *)
(* output as a custody coin of the operator store.                          *)
(*                                                                          *)
(* Any number of runs of it may go on at once, with the same arguments or   *)
(* others: unlike the withdrawal operator, a run takes no lock and reads    *)
(* nothing back from the store.  Each store write and remote call is one    *)
(* action.  An Err return and a crash leave the same behind.  The evidence  *)
(* file, which neither this command nor the operator reads, is left out.    *)
(*                                                                          *)
(* Around the runs: a Dogecoin node and its Electrs index, which may lag    *)
(* and may see a block disconnected, and the withdrawal operator, as far as *)
(* CustodyCoins lets it act.                                                *)
(***************************************************************************)
EXTENDS Integers, Sequences, SequencesExt, FiniteSets

CONSTANTS
  Runs,          \* bound: runs of the command that may be live at once
  Funding,       \* outpoints with Dogecoin of the depositor
  FundingSats,   \* what a funding outpoint holds
  Recipients,    \* recipient token accounts, each with a custody script
  Amounts,       \* values of --amount-sats
  Fee, Dust,     \* DEFAULT_FEE_SATS and DOGE_DUST_LIMIT_SATS, scaled
  MaxHeight,     \* bound: blocks mined above the funding
  MaxFaults,     \* bound: crashes, errors, timeouts, evictions
  MaxReorgs      \* bound: disconnected blocks

ASSUME DepositBounds ==
  /\ FundingSats \in Nat \ {0}
  /\ Amounts \subseteq Nat
  /\ {Fee, Dust, MaxHeight, MaxFaults, MaxReorgs} \subseteq Nat

\* Any finite number of funding outpoints; "none" is not one of them.
ASSUME FundingAssumption == IsFiniteSet(Funding) /\ "none" \notin Funding

\* run and build_signed_deposit_transaction: the amount is no dust, the funding
\* coin covers it and the fee, and what is left is nothing or no dust.
Buildable(amount) ==
  /\ amount >= Dust
  /\ FundingSats >= amount + Fee
  /\ FundingSats = amount + Fee \/ FundingSats - (amount + Fee) >= Dust

\* The transaction of a run: a function of its arguments, signature included,
\* so that a rerun posts the same bytes under the same txid.
Tx == {t \in [coin : Funding, to : Recipients, amount : Amounts] :
         Buildable(t.amount)}

\* No transaction of this command: none, or in a block someone else's.
NoTx == [coin |-> "none", to |-> "none", amount |-> 0]

\* A place in the chain.  Index 0 of a block is its coinbase transaction.
NoPlace == [height |-> 0, index |-> 0]
Places == {NoPlace}
  \cup [height : 1 .. MaxHeight, index : 1 .. Cardinality(Funding) + 1]

VARIABLES
  run,          \* each run: where it is, its transaction, where that was found
  (* custody_utxos, the rows of deposits *)
  custody,      \* status
  leaf,         \* combined index: where the deposit was found
  held,         \* coins a reservation of the withdrawal operator holds
  (* Dogecoin *)
  mempool, chain,   \* chain: the blocks, each a sequence of transactions
  electrs,      \* how many of the blocks Electrs has indexed
  (* history and budget *)
  interrupted,  \* deposits whose last run ended after posting, unregistered
  twins,        \* deposits that were live in two runs at once
  reorged,      \* deposits that were in a disconnected block
  faults, reorgs

store == <<custody, leaf, held>>
doge  == <<mempool, chain, electrs>>
past  == <<interrupted, twins, reorged, faults, reorgs>>
vars  == <<run, store, doge, past>>

Coins == INSTANCE CustodyCoins WITH Coin <- Tx, status <- custody

Pc == {"idle", "post", "poll", "block", "tip", "register"}
Idle == [pc |-> "idle", tx |-> NoTx, place |-> NoPlace, stale |-> FALSE]
Run == [pc : Pc, tx : Tx \cup {NoTx}, place : Places, stale : BOOLEAN]

\* Where t is in the blocks up to a height, or NoPlace.
PlaceOf(t, height) ==
  LET found == {p \in Places \ {NoPlace} :
                  /\ p.height <= height
                  /\ p.index <= Len(chain[p.height])
                  /\ chain[p.height][p.index] = t}
  IN  IF found = {} THEN NoPlace ELSE CHOOSE p \in found : TRUE

Mined(t) == PlaceOf(t, Len(chain)) # NoPlace
MinedSet == {t \in Tx : Mined(t)}

\* A run that has posted its transaction and has not registered it yet.
Carries(r, t) ==
  run[r].tx = t /\ run[r].pc \notin {"idle", "post"}

At(r, pc) == run[r].pc = pc
Goto(r, pc) == run' = [run EXCEPT ![r].pc = pc]

\* An Err return, or the end of a run.
End(r) == run' = [run EXCEPT ![r] = Idle]

-----------------------------------------------------------------------------
(* A run of the command. *)

Init ==
  /\ run = [r \in Runs |-> Idle]
  /\ Coins!Init
  /\ leaf = [t \in Tx |-> NoPlace]
  /\ held = {}
  /\ mempool = {}
  /\ chain = <<>>
  /\ electrs = 0
  /\ interrupted = {}
  /\ twins = {}
  /\ reorged = {}
  /\ faults = 0
  /\ reorgs = 0

\* The arguments are checked and the transaction is built and signed.
\* verify_funding_utxo looks the funding output up but not whether it is spent,
\* so any confirmed funding coin will do.
Start(r, t) ==
  /\ At(r, "idle")
  /\ run' = [run EXCEPT ![r] = [Idle EXCEPT !.pc = "post", !.tx = t]]
  /\ UNCHANGED <<store, doge, past>>

\* What the node (Dogecoin Core behind Electrs) does with a posted transaction:
\* one it holds unconfirmed is fine, one in a block is an error, and one whose
\* coin is spent otherwise is refused.
NodeAccepts(t) ==
  \/ t \in mempool
  \/ \A u \in mempool \cup MinedSet : u.coin # t.coin

\* Mutant: "already in block chain" is taken for success, so that a rerun of
\* the command can pick a confirmed deposit up.
PostAgain(r) ==
  LET t == run[r].tx IN
  /\ At(r, "post")
  /\ IF NodeAccepts(t) \/ Mined(t)
       THEN /\ mempool' = mempool \cup ({t} \ MinedSet)
            /\ Goto(r, "poll")
            /\ interrupted' = interrupted \ {t}
            /\ twins' = IF \E other \in Runs \ {r} : Carries(other, t)
                          THEN twins \cup {t} ELSE twins
       ELSE /\ End(r)
            /\ UNCHANGED <<mempool, interrupted, twins>>
  /\ UNCHANGED <<store, chain, electrs, reorged, faults, reorgs>>

\* broadcast_electrs: any answer but success is an Err.
Post(r) ==
  LET t == run[r].tx IN
  /\ At(r, "post")
  /\ IF NodeAccepts(t)
       THEN /\ mempool' = mempool \cup {t}
            /\ Goto(r, "poll")
            /\ interrupted' = interrupted \ {t}
            /\ twins' = IF \E other \in Runs \ {r} : Carries(other, t)
                          THEN twins \cup {t} ELSE twins
       ELSE /\ End(r)
            /\ UNCHANGED <<mempool, interrupted, twins>>
  /\ UNCHANGED <<store, chain, electrs, reorged, faults, reorgs>>

\* poll_deposit: Electrs shows the transaction confirmed; the one output that
\* pays the custody script is found in it.
Poll(r) ==
  LET place == PlaceOf(run[r].tx, electrs) IN
  /\ At(r, "poll")
  /\ place # NoPlace
  /\ run' = [run EXCEPT ![r].pc = "block", ![r].place = place]
  /\ UNCHANGED <<store, doge, past>>

\* The transaction's index among the block's txids.  A block that was
\* disconnected in the meantime may still be served, or be unknown: an Err.
ReadBlock(r) ==
  /\ At(r, "block")
  /\ Goto(r, "tip") \/ (run[r].stale /\ End(r))
  /\ UNCHANGED <<store, doge, past>>

\* Mutant: the transaction's own block is not counted as a confirmation.
ReadTipAbove(r) ==
  /\ At(r, "tip")
  /\ IF electrs > run[r].place.height THEN Goto(r, "register") ELSE End(r)
  /\ UNCHANGED <<store, doge, past>>

\* The tip gives the confirmations; a tip below the block is an Err.
ReadTip(r) ==
  /\ At(r, "tip")
  /\ IF electrs >= run[r].place.height THEN Goto(r, "register") ELSE End(r)
  /\ UNCHANGED <<store, doge, past>>

\* Mutant: the deposit is filed under the tip instead of its block.
RegisterAtTip(r) ==
  LET t == run[r].tx IN
  /\ At(r, "register")
  /\ custody' = [custody EXCEPT ![t] = "Available"]
  /\ leaf' = [leaf EXCEPT ![t] = [run[r].place EXCEPT !.height = electrs]]
  /\ End(r)
  /\ UNCHANGED <<held, doge, past>>

\* Mutant: positions in the block are counted from one.
RegisterFromOne(r) ==
  LET t == run[r].tx IN
  /\ At(r, "register")
  /\ custody' = [custody EXCEPT ![t] = "Available"]
  /\ leaf' = [leaf EXCEPT ![t] = [run[r].place EXCEPT !.index = @ + 1]]
  /\ End(r)
  /\ UNCHANGED <<held, doge, past>>

\* upsert_custody_utxo: the row is written as Available and unreserved,
\* whatever was there.
Register(r) ==
  LET t == run[r].tx IN
  /\ At(r, "register")
  /\ custody' = [custody EXCEPT ![t] = "Available"]
  /\ leaf' = [leaf EXCEPT ![t] = run[r].place]
  /\ End(r)
  /\ UNCHANGED <<held, doge, past>>

Step(r) ==
  Post(r) \/ Poll(r) \/ ReadBlock(r) \/ ReadTip(r) \/ Register(r)

\* A run is killed, is told of a failed call, or its deadline passes while the
\* transaction is not confirmed or Electrs does not answer.
Abort(r) ==
  /\ ~At(r, "idle")
  /\ faults < MaxFaults
  /\ faults' = faults + 1
  /\ End(r)
  /\ interrupted' = IF Carries(r, run[r].tx) THEN interrupted \cup {run[r].tx}
                                             ELSE interrupted
  /\ UNCHANGED <<store, doge, twins, reorged, reorgs>>

-----------------------------------------------------------------------------
(* Dogecoin and Electrs. *)

Mine ==
  /\ Len(chain) < MaxHeight
  /\ \E S \in SUBSET mempool :
     \E others \in IF S = {} THEN {{}} ELSE {{}, {NoTx}} :
     \E block \in SetToSeqs(S \cup others) :
       /\ chain' = Append(chain, block)
       /\ mempool' = mempool \ S
  /\ UNCHANGED <<run, store, electrs, past>>

Index ==
  /\ electrs < Len(chain)
  /\ electrs' = electrs + 1
  /\ UNCHANGED <<run, store, mempool, chain, past>>

\* The last block is disconnected, and its transactions are unconfirmed again.
Reorganise ==
  LET height == Len(chain) IN
  /\ height > 0
  /\ reorgs < MaxReorgs
  /\ reorgs' = reorgs + 1
  /\ chain' = SubSeq(chain, 1, height - 1)
  /\ electrs' = IF electrs = height THEN height - 1 ELSE electrs
  /\ mempool' = mempool \cup (ToSet(chain[height]) \cap Tx)
  /\ reorged' = reorged \cup (ToSet(chain[height]) \cap Tx)
  /\ run' = [r \in Runs |-> [run[r] EXCEPT
               !.stale = @ \/ (~At(r, "idle") /\ run[r].place.height = height)]]
  /\ UNCHANGED <<store, interrupted, twins, faults>>

\* The node forgets an unconfirmed transaction.
Evict(t) ==
  /\ faults < MaxFaults
  /\ faults' = faults + 1
  /\ t \in mempool
  /\ mempool' = mempool \ {t}
  /\ UNCHANGED <<run, store, chain, electrs, interrupted, twins,
                 reorged, reorgs>>

-----------------------------------------------------------------------------
(* The withdrawal operator: CustodyCoins, with what its reservations hold. *)

OperatorReserves(t) ==
  /\ Coins!Reserve({t})
  /\ held' = held \cup {t}
  /\ UNCHANGED <<run, leaf, doge, past>>

OperatorReleases(t) ==
  /\ Coins!Release({t})
  /\ held' = held \ {t}
  /\ UNCHANGED <<run, leaf, doge, past>>

OperatorPays(t) ==
  /\ Coins!Pay({t}) \/ Coins!Book({t}, {})
  /\ UNCHANGED <<run, leaf, held, doge, past>>

Next ==
  \/ \E r \in Runs : Step(r) \/ Abort(r) \/ \E t \in Tx : Start(r, t)
  \/ Mine \/ Index \/ Reorganise
  \/ \E t \in Tx : \/ Evict(t)
                   \/ OperatorReserves(t) \/ OperatorReleases(t) \/ OperatorPays(t)

\* A run that is not killed goes on, and Electrs catches up with its node.
\* Nothing is assumed of the miners.
Fairness ==
  /\ \A r \in Runs : WF_vars(Step(r))
  /\ WF_vars(Index)

Spec == Init /\ [][Next]_vars /\ Fairness

-----------------------------------------------------------------------------
(* What holds of it. *)

TypeOK ==
  /\ run \in [Runs -> Run]
  /\ custody \in [Tx -> Coins!CoinStatus]
  /\ leaf \in [Tx -> Places]
  /\ held \subseteq Tx
  /\ mempool \subseteq Tx
  /\ chain \in Seq(Seq(Tx \cup {NoTx})) /\ Len(chain) <= MaxHeight
  /\ electrs \in 0 .. Len(chain)
  /\ interrupted \cup twins \cup reorged \subseteq Tx
  /\ faults \in 0 .. MaxFaults /\ reorgs \in 0 .. MaxReorgs

\* The exceptions: registering is not exclusive and happens at one confirmation.
Exposed == twins \cup reorged

\* A coin that a payment holds or has spent is not offered to another payment.
\* A registration that comes a second time would do it; it takes two live runs
\* of the same deposit, or a reorganisation, to have one.
OfferedIsFree ==
  \A t \in Tx \ Exposed : custody[t] = "Available" => t \notin held

\* Every custody coin stands for a deposit Dogecoin has, in the block and at
\* the index its leaf says, unless its block was disconnected.
BackedByDogecoin ==
  \A t \in Tx \ reorged :
    custody[t] # "Absent" => leaf[t] # NoPlace /\ leaf[t] = PlaceOf(t, Len(chain))

\* The runs and the operator keep to the life of a custody coin in every step
\* but one that registers an exposed deposit again.
KeepsCoins ==
  [][\/ Coins!Next
     \/ \E t \in Exposed : custody[t] # "Absent" /\ custody'[t] = "Available"
    ]_custody

\* A deposit that was mined ends up in the store, unless the last run that
\* posted it was interrupted (no later run gets past the node then) or its
\* block was disconnected.
MinedIsRegistered ==
  \A t \in Tx :
    Mined(t) ~> (custody[t] # "Absent" \/ t \in interrupted \cup reorged)
=============================================================================
