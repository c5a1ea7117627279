----------------------------- MODULE DepositProofs ----------------------------
(***************************************************************************)
(* Concurrent runs of the deposit command keep the life of a custody coin,  *)
(* for any numbers of runs, coins, recipients, blocks, faults and           *)
(* disconnected blocks: an inductive invariant and what follows from it.    *)
(***************************************************************************)
EXTENDS Deposit, FiniteSetTheorems, SequenceTheorems, TLAPS

\* A block: the transactions of this command in it, and one of someone else.
Block == Seq(Tx \cup {NoTx})

\* The most transactions a block can hold.
MaxBlock == Cardinality(Funding) + 1

\* Transaction t is in the chain at place p.
Spot(p, t) ==
  /\ p.height \in 1 .. Len(chain)
  /\ p.index \in 1 .. Len(chain[p.height])
  /\ chain[p.height][p.index] = t

\* The transactions of the command that are in some block.
InChain == {t \in Tx : \E p \in Places : Spot(p, t)}

\* No transaction is in the chain twice, or in a block and unconfirmed.
Blocks ==
  /\ \A h \in 1 .. Len(chain) : Len(chain[h]) <= MaxBlock
  /\ \A t \in Tx : \A p, q \in Places : Spot(p, t) /\ Spot(q, t) => p = q
  /\ mempool \cap InChain = {}

\* Dogecoin lets no two transactions spend the same coin.
OneSpend == \A t, u \in mempool \cup InChain : t.coin = u.coin => t = u

\* A run that has found its transaction has it where it is, unless its block
\* was disconnected.
Found ==
  \A r \in Runs :
    /\ run[r].pc # "idle" => run[r].tx \in Tx
    /\ run[r].pc \in {"block", "tip", "register"} /\ run[r].tx \notin reorged
         => Spot(run[r].place, run[r].tx)

\* A deposit that a run carries is not registered yet, and no other run
\* carries it, unless it is exposed.
Carried ==
  \A r \in Runs : \A t \in Tx : Carries(r, t) =>
    /\ t \in Exposed \/ custody[t] = "Absent"
    /\ \A s \in Runs \ {r} : Carries(s, t) => t \in twins

\* A registered deposit is where its leaf says, unless disconnected.
Leaves == \A t \in Tx \ reorged : custody[t] # "Absent" => Spot(leaf[t], t)

\* A coin that a reservation holds is not offered, unless exposed.
Held == \A t \in Tx \ Exposed : custody[t] \in {"Absent", "Available"} => t \notin held

IInv ==
  TypeOK /\ Blocks /\ OneSpend /\ Found /\ Carried /\ Leaves /\ Held

-----------------------------------------------------------------------------
(* Constants, records and the chain. *)

\* The numbers among the constants, and that no transaction of the command is
\* someone else's.
LEMMA Constants ==
  /\ Cardinality(Funding) \in Nat /\ MaxBlock \in Nat
  /\ MaxHeight \in Nat /\ MaxFaults \in Nat /\ MaxReorgs \in Nat
  /\ NoTx \notin Tx
<1>1. Cardinality(Funding) \in Nat
  BY FundingAssumption, FS_CardinalityType
<1>2. NoTx \notin Tx
  BY FundingAssumption DEF NoTx, Tx
<1> QED
  BY <1>1, <1>2, DepositBounds DEF MaxBlock

\* Blocks are finite rows of transactions.
LEMMA BlockIs ==
  ASSUME TypeOK, NEW h \in 1 .. Len(chain)
  PROVE  /\ chain[h] \in Block /\ Len(chain[h]) \in Nat
         /\ \A i \in 1 .. Len(chain[h]) : chain[h][i] \in Tx \cup {NoTx}
<1>1. chain \in Seq(Seq(Tx \cup {NoTx}))
  BY DEF TypeOK
<1>2. chain[h] \in Seq(Tx \cup {NoTx})
  BY <1>1, ElementOfSeq
<1> QED
  BY <1>2, ElementOfSeq, LenProperties DEF Block

\* Where the operators of the code find a transaction is where it is.
LEMMA PlaceIs ==
  ASSUME TypeOK, Blocks, NEW t \in Tx, NEW height \in 0 .. Len(chain)
  PROVE  /\ PlaceOf(t, height) \in Places
         /\ PlaceOf(t, height) # NoPlace => Spot(PlaceOf(t, height), t)
<1> DEFINE found == {p \in Places \ {NoPlace} :
                      /\ p.height <= height
                      /\ p.index <= Len(chain[p.height])
                      /\ chain[p.height][p.index] = t}
<1>1. PlaceOf(t, height) = IF found = {} THEN NoPlace ELSE CHOOSE p \in found : TRUE
  BY DEF PlaceOf
<1>2. Len(chain) \in Nat
  BY DEF TypeOK
<1>3. \A p \in found : p \in Places /\ Spot(p, t)
  <2> SUFFICES ASSUME NEW p \in found PROVE p \in Places /\ Spot(p, t)
    OBVIOUS
  <2>1. p.height \in 1 .. Len(chain) /\ p.index \in Nat \ {0}
    BY <1>2, Constants DEF Places
  <2>2. Len(chain[p.height]) \in Nat
    BY <2>1, BlockIs
  <2> QED
    BY <2>1, <2>2 DEF Spot
<1> HIDE DEF found
<1>4. NoPlace \in Places
  BY DEF Places
<1> QED
  BY <1>1, <1>3, <1>4

\* A transaction that is in the chain is found where it is.
LEMMA PlaceOfSpot ==
  ASSUME TypeOK, Blocks, NEW t \in Tx, NEW q \in Places, Spot(q, t)
  PROVE  q # NoPlace /\ PlaceOf(t, Len(chain)) = q
<1> DEFINE found == {p \in Places \ {NoPlace} :
                      /\ p.height <= Len(chain)
                      /\ p.index <= Len(chain[p.height])
                      /\ chain[p.height][p.index] = t}
<1>1. Len(chain) \in Nat
  BY DEF TypeOK
<1>2. q # NoPlace
  BY <1>1 DEF Spot, NoPlace
<1>3. q \in found
  <2>1. q.height \in 1 .. Len(chain)
    BY DEF Spot
  <2>2. Len(chain[q.height]) \in Nat
    BY <2>1, BlockIs
  <2> QED
    BY <1>1, <1>2, <2>1, <2>2 DEF Spot
<1>4. PlaceOf(t, Len(chain)) = IF found = {} THEN NoPlace ELSE CHOOSE p \in found : TRUE
  BY DEF PlaceOf
<1> HIDE DEF found
<1>5. PlaceOf(t, Len(chain)) # NoPlace
  <2>1. (CHOOSE p \in found : TRUE) \in found
    BY <1>3
  <2> QED
    BY <1>3, <1>4, <2>1 DEF found
<1>6. Len(chain) \in 0 .. Len(chain)
  BY <1>1
<1>7. PlaceOf(t, Len(chain)) \in Places /\ Spot(PlaceOf(t, Len(chain)), t)
  BY <1>5, <1>6, PlaceIs
<1> QED
  BY <1>2, <1>7 DEF Blocks

\* The mined transactions are those in the chain.
LEMMA MinedIs ==
  ASSUME TypeOK, Blocks
  PROVE  MinedSet = InChain /\ \A t \in Tx : Mined(t) <=> t \in InChain
<1>1. ASSUME NEW t \in Tx PROVE Mined(t) <=> t \in InChain
  <2>1. ASSUME Mined(t) PROVE t \in InChain
    <3>1. Len(chain) \in 0 .. Len(chain)
      BY DEF TypeOK
    <3>2. PlaceOf(t, Len(chain)) \in Places /\ Spot(PlaceOf(t, Len(chain)), t)
      BY <2>1, <3>1, PlaceIs DEF Mined
    <3> QED
      BY <3>2 DEF InChain
  <2>2. ASSUME t \in InChain PROVE Mined(t)
    BY <2>2, PlaceOfSpot DEF InChain, Mined
  <2> QED
    BY <2>1, <2>2
<1> QED
  BY <1>1 DEF MinedSet, InChain

-----------------------------------------------------------------------------
(* How the chain moves. *)

\* A block holds some of the unconfirmed transactions and perhaps one of
\* someone else, each once, and no more than there is room for.
LEMMA MineIs ==
  ASSUME TypeOK, OneSpend, Mine
  PROVE  \E S \in SUBSET mempool : \E b \in Block :
           /\ chain' = Append(chain, b)
           /\ mempool' = mempool \ S
           /\ Len(b) <= MaxBlock
           /\ \A i \in 1 .. Len(b) : b[i] \in S \cup {NoTx}
           /\ \A i, j \in 1 .. Len(b) : b[i] = b[j] => i = j
<1>1. PICK S \in SUBSET mempool, others \in {{}, {NoTx}} :
        \E block \in SetToSeqs(S \cup others) :
          chain' = Append(chain, block) /\ mempool' = mempool \ S
  BY DEF Mine
<1>2. PICK b \in SetToSeqs(S \cup others) :
        chain' = Append(chain, b) /\ mempool' = mempool \ S
  BY <1>1
<1>3. IsFiniteSet(S) /\ Cardinality(S) <= Cardinality(Funding)
  <2> DEFINE f == [t \in S |-> t.coin]
  <2>1. S \subseteq Tx
    BY DEF TypeOK
  <2>2. \A t \in S : t.coin \in Funding
    BY <2>1 DEF Tx
  <2>3. f \in [S -> Funding]
    BY <2>2
  <2>4. \A t, u \in S : f[t] = f[u] => t = u
    BY DEF OneSpend
  <2>5. f \in Injection(S, Funding)
    BY <2>3, <2>4 DEF Injection, IsInjective
  <2> QED
    BY <2>5, FS_Injection, FundingAssumption
<1>4. IsFiniteSet(S \cup others) /\ Cardinality(S \cup others) <= MaxBlock
  <2>1. Cardinality(S) \in Nat
    BY <1>3, FS_CardinalityType
  <2>2. CASE others = {}
    <3>1. S \cup others = S
      BY <2>2
    <3>2. Cardinality(S) <= MaxBlock
      BY <1>3, <2>1, Constants DEF MaxBlock
    <3> QED
      BY <1>3, <3>1, <3>2, Zenon
  <2>3. CASE others = {NoTx}
    <3>1. /\ IsFiniteSet(S \cup {NoTx})
          /\ Cardinality(S \cup {NoTx}) \in {Cardinality(S), Cardinality(S) + 1}
      <4>1. ASSUME NEW x
            PROVE  /\ IsFiniteSet(S \cup {x})
                   /\ Cardinality(S \cup {x}) \in {Cardinality(S), Cardinality(S) + 1}
        <5>1. IsFiniteSet(S \cup {x})
              /\ Cardinality(S \cup {x})
                   = IF x \in S THEN Cardinality(S) ELSE Cardinality(S) + 1
          BY <1>3, FS_AddElement
        <5> QED
          BY <5>1
      <4> QED
        BY <4>1
    <3>2. Cardinality(S \cup {NoTx}) <= MaxBlock
      BY <1>3, <2>1, <3>1, Constants DEF MaxBlock
    <3> QED
      BY <2>3, <3>1, <3>2
  <2> QED
    BY <1>1, <2>2, <2>3
<1> DEFINE n == Cardinality(S \cup others)
<1>5. n \in Nat
  BY <1>4, FS_CardinalityType
<1>6. b \in [1 .. n -> S \cup others] /\ \A i, j \in 1 .. n : i # j => b[i] # b[j]
  BY <1>2 DEF SetToSeqs
<1>7. S \cup others \subseteq Tx \cup {NoTx} /\ S \cup others \subseteq S \cup {NoTx}
  BY DEF TypeOK
<1> HIDE DEF n
<1>8. b \in Seq(S \cup others) /\ Len(b) = n
  BY <1>5, <1>6
<1>9. b \in Block
  BY <1>7, <1>8, SeqMonotonic DEF Block
<1> QED
  BY <1>2, <1>4, <1>6, <1>7, <1>8, <1>9 DEF n

\* A mined block adds its transactions to the chain and moves no other.
LEMMA SpotMine ==
  ASSUME TypeOK, NEW b \in Block, chain' = Append(chain, b),
         NEW p \in Places, NEW t \in Tx
  PROVE  Spot(p, t)' <=>
           \/ Spot(p, t)
           \/ /\ p.height = Len(chain) + 1
              /\ p.index \in 1 .. Len(b)
              /\ b[p.index] = t
<1> DEFINE n == Len(chain)
<1>1. /\ Len(chain') = n + 1 /\ chain'[n + 1] = b
      /\ \A h \in 1 .. n : chain'[h] = chain[h]
  <2>1. chain \in Seq(Block)
    BY DEF TypeOK, Block
  <2> QED
    BY <2>1, AppendProperties
<1>2. n \in Nat
  BY DEF TypeOK
<1> HIDE DEF n
<1>3. CASE p.height = n + 1
  <2>1. ~Spot(p, t)
    BY <1>2, <1>3 DEF Spot, n
  <2>2. p.height \in 1 .. Len(chain') /\ chain'[p.height] = b
    BY <1>1, <1>2, <1>3
  <2> QED
    BY <1>3, <2>1, <2>2 DEF Spot, n
<1>4. CASE p.height # n + 1
  <2>1. p.height \in 1 .. Len(chain') <=> p.height \in 1 .. n
    BY <1>1, <1>2, <1>4
  <2>2. p.height \in 1 .. n => chain'[p.height] = chain[p.height]
    BY <1>1
  <2> QED
    BY <1>4, <2>1, <2>2 DEF Spot, n
<1> QED
  BY <1>3, <1>4

\* A reorganisation takes the transactions of the last block and moves no other.
LEMMA ReorganiseIs ==
  ASSUME TypeOK, Reorganise
  PROVE  /\ Len(chain) \in 1 .. MaxHeight /\ Len(chain') = Len(chain) - 1
         /\ chain' \in Seq(Block)
         /\ \A h \in 1 .. Len(chain) - 1 : chain'[h] = chain[h]
<1> DEFINE n == Len(chain)
<1>1. n \in Nat \ {0} /\ n <= MaxHeight /\ chain \in Seq(Block)
  BY DEF TypeOK, Reorganise, Block
<1>2. chain' = SubSeq(chain, 1, n - 1)
  BY DEF Reorganise
<1>3. \A i \in 1 .. n - 1 : chain[i] \in Block
  BY <1>1
<1>4. ASSUME NEW c, c = SubSeq(chain, 1, n - 1)
      PROVE  /\ c \in Seq(Block) /\ Len(c) = n - 1
             /\ \A h \in 1 .. n - 1 : c[h] = chain[h]
  <2> HIDE DEF n
  <2>1. /\ c \in Seq(Block)
        /\ Len(c) = IF 1 <= n - 1 THEN n - 1 - 1 + 1 ELSE 0
        /\ \A i \in 1 .. n - 1 - 1 + 1 : c[i] = chain[1 + i - 1]
    BY <1>1, <1>3, <1>4, SubSeqProperties
  <2> QED
    BY <1>1, <2>1
<1>5. n \in 1 .. MaxHeight
  BY <1>1, Constants
<1> QED
  BY <1>2, <1>4, <1>5

\* After a reorganisation, what is in the chain was there below its last block.
LEMMA SpotReorganise ==
  ASSUME TypeOK, Reorganise, NEW p \in Places, NEW t \in Tx
  PROVE  Spot(p, t)' <=> Spot(p, t) /\ p.height # Len(chain)
<1> DEFINE n == Len(chain)
<1>1. /\ n \in Nat \ {0} /\ Len(chain') = n - 1
      /\ \A h \in 1 .. n - 1 : chain'[h] = chain[h]
  BY ReorganiseIs, Constants
<1> HIDE DEF n
<1>2. p.height \in 1 .. Len(chain') <=> p.height \in 1 .. n /\ p.height # n
  BY <1>1
<1>3. p.height \in 1 .. Len(chain') => chain'[p.height] = chain[p.height]
  BY <1>1
<1> QED
  BY <1>2, <1>3 DEF Spot, n

\* The transactions of the disconnected block.
LEMMA Disconnected ==
  ASSUME TypeOK, Blocks, Reorganise, NEW t \in Tx
  PROVE  t \in ToSet(chain[Len(chain)]) <=>
           \E p \in Places : Spot(p, t) /\ p.height = Len(chain)
<1> DEFINE n == Len(chain)
<1>1. n \in 1 .. MaxHeight
  BY ReorganiseIs
<1>2. n \in 1 .. n /\ chain[n] \in Block /\ Len(chain[n]) \in Nat
  BY <1>1, BlockIs, Constants
<1>3. DOMAIN chain[n] = 1 .. Len(chain[n])
  BY <1>2 DEF Block
<1>4. Len(chain[n]) <= MaxBlock
  BY <1>2 DEF Blocks
<1>5. ASSUME t \in ToSet(chain[n])
      PROVE  \E p \in Places : Spot(p, t) /\ p.height = n
  <2>1. PICK i \in 1 .. Len(chain[n]) : chain[n][i] = t
    BY <1>3, <1>5 DEF ToSet
  <2>2. [height |-> n, index |-> i] \in Places
    BY <1>1, <1>2, <1>4, <2>1, Constants DEF Places, MaxBlock
  <2> QED
    BY <1>2, <2>1, <2>2 DEF Spot
<1>6. ASSUME NEW p \in Places, Spot(p, t), p.height = n
      PROVE  t \in ToSet(chain[n])
  BY <1>3, <1>6 DEF ToSet, Spot
<1> QED
  BY <1>5, <1>6

-----------------------------------------------------------------------------
(* Each step keeps each part of the invariant. *)

\* The chain changes in two actions only, and the unconfirmed transactions in
\* two others.
LEMMA DogeFrame ==
  ASSUME [Next]_vars
  PROVE  \/ Mine
         \/ Reorganise
         \/ UNCHANGED <<chain, mempool, reorged>>
         \/ UNCHANGED chain /\ \E r \in Runs : Post(r)
         \/ UNCHANGED chain /\ \E t \in Tx : Evict(t)
<1>1. ASSUME NEW r \in Runs, Step(r) \/ Abort(r) \/ \E t \in Tx : Start(r, t)
      PROVE  \/ UNCHANGED <<chain, mempool, reorged>>
             \/ UNCHANGED chain /\ Post(r)
  BY <1>1 DEF Step, Abort, Start, Post, Poll, ReadBlock, ReadTip, Register, doge, past
<1>2. ASSUME NEW t \in Tx, OperatorReserves(t) \/ OperatorReleases(t) \/ OperatorPays(t)
      PROVE  UNCHANGED <<chain, mempool, reorged>>
  BY <1>2 DEF OperatorReserves, OperatorReleases, OperatorPays, doge, past
<1>3. ASSUME NEW t \in Tx, Evict(t) PROVE UNCHANGED chain
  BY <1>3 DEF Evict
<1>4. CASE Index
  BY <1>4 DEF Index, past
<1>5. CASE UNCHANGED vars
  BY <1>5 DEF vars, doge, past
<1> QED
  BY <1>1, <1>2, <1>3, <1>4, <1>5 DEF Next

\* What a run is at, and where, in the words of the type invariant.
LEMMA RunIs ==
  ASSUME TypeOK, NEW r \in Runs
  PROVE  /\ run[r] \in [pc : Pc, tx : Tx \cup {NoTx}, place : Places, stale : BOOLEAN]
         /\ run[r].pc \in Pc /\ run[r].tx \in Tx \cup {NoTx}
         /\ run[r].place \in Places /\ run[r].stale \in BOOLEAN
  BY DEF TypeOK, Run

\* Every variable keeps its type.
LEMMA TypeStep ==
  ASSUME IInv, [Next]_vars
  PROVE  TypeOK'
<1> USE DEF IInv
<1> TypeOK
  OBVIOUS
<1>1. ASSUME NEW run2, NEW r \in Runs, NEW pc \in Pc, run2 = [run EXCEPT ![r].pc = pc]
      PROVE  run2 \in [Runs -> Run]
  BY <1>1 DEF TypeOK, Run
<1>2. ASSUME NEW run2, NEW r \in Runs, run2 = [run EXCEPT ![r] = Idle]
      PROVE  run2 \in [Runs -> Run]
  <2>1. Idle \in Run
    BY DEF Idle, Run, Pc, Places
  <2> QED
    BY <1>2, <2>1 DEF TypeOK
<1>3. ASSUME NEW r \in Runs, NEW t \in Tx, Start(r, t) PROVE TypeOK'
  <2>1. [Idle EXCEPT !.pc = "post", !.tx = t] \in Run
    BY DEF Idle, Run, Pc, Places
  <2> QED
    BY <1>3, <2>1 DEF Start, TypeOK, store, doge, past
<1>4. ASSUME NEW r \in Runs, Post(r) PROVE TypeOK'
  <2>1. run[r].tx \in Tx
    BY <1>4 DEF Post, At, Found
  <2>2. run' \in [Runs -> Run]
    BY <1>1, <1>2, <1>4 DEF Post, Goto, End, Pc
  <2>3. mempool' \subseteq Tx /\ interrupted' \subseteq Tx /\ twins' \subseteq Tx
    BY <1>4, <2>1 DEF Post, TypeOK
  <2> QED
    BY <1>4, <2>2, <2>3 DEF Post, TypeOK, store
<1>5. ASSUME NEW r \in Runs, Poll(r) PROVE TypeOK'
  <2>1. run[r].tx \in Tx
    BY <1>5 DEF Poll, At, Found
  <2>2. electrs \in 0 .. Len(chain)
    BY DEF TypeOK
  <2>3. PlaceOf(run[r].tx, electrs) \in Places
    BY <2>1, <2>2, PlaceIs
  <2>4. run' \in [Runs -> Run]
    BY <1>5, <2>3 DEF Poll, TypeOK, Run, Pc
  <2> QED
    BY <1>5, <2>4 DEF Poll, TypeOK, store, doge, past
<1>6. ASSUME NEW r \in Runs, ReadBlock(r) \/ ReadTip(r) PROVE TypeOK'
  <2>1. run' \in [Runs -> Run]
    BY <1>1, <1>2, <1>6 DEF ReadBlock, ReadTip, Goto, End, Pc
  <2> QED
    BY <1>6, <2>1 DEF ReadBlock, ReadTip, TypeOK, store, doge, past
<1>7. ASSUME NEW r \in Runs, Register(r) PROVE TypeOK'
  <2>1. run' \in [Runs -> Run]
    BY <1>2, <1>7 DEF Register, End
  <2>2. custody' \in [Tx -> Coins!CoinStatus] /\ leaf' \in [Tx -> Places]
    BY <1>7, RunIs DEF Register, TypeOK, Coins!CoinStatus
  <2> QED
    BY <1>7, <2>1, <2>2 DEF Register, TypeOK, doge, past
<1>8. ASSUME NEW r \in Runs, Abort(r) PROVE TypeOK'
  <2>1. run' \in [Runs -> Run] /\ run[r].tx \in Tx
    BY <1>2, <1>8 DEF Abort, End, At, Found
  <2>2. interrupted' \subseteq Tx /\ faults' \in 0 .. MaxFaults
    BY <1>8, <2>1, Constants DEF Abort, TypeOK
  <2> QED
    BY <1>8, <2>1, <2>2 DEF Abort, TypeOK, store, doge
<1>9. CASE Mine
  <2>1. PICK S \in SUBSET mempool, b \in Block :
          chain' = Append(chain, b) /\ mempool' = mempool \ S
    BY <1>9, MineIs
  <2>2. chain \in Seq(Block) /\ Len(chain) \in Nat /\ Len(chain) < MaxHeight
    BY <1>9 DEF Mine, TypeOK, Block
  <2>3. chain' \in Seq(Block) /\ Len(chain') = Len(chain) + 1
    BY <2>1, <2>2, AppendProperties
  <2>4. mempool' \subseteq Tx
    BY <2>1 DEF TypeOK
  <2>5. Len(chain') <= MaxHeight /\ electrs \in 0 .. Len(chain')
    BY <2>2, <2>3, Constants DEF TypeOK
  <2> QED
    BY <1>9, <2>3, <2>4, <2>5 DEF Mine, TypeOK, Block, store, past
<1>10. CASE Index
  BY <1>10 DEF Index, TypeOK, store, past
<1>11. CASE Reorganise
  <2>1. Len(chain) \in 1 .. MaxHeight /\ Len(chain') = Len(chain) - 1 /\ chain' \in Seq(Block)
    BY <1>11, ReorganiseIs
  <2>2. electrs' \in 0 .. Len(chain') /\ Len(chain') <= MaxHeight
    BY <1>11, <2>1, Constants DEF Reorganise, TypeOK
  <2>3. mempool' \subseteq Tx /\ reorged' \subseteq Tx
    BY <1>11 DEF Reorganise, TypeOK
  <2>4. run' \in [Runs -> Run]
    <3>1. ASSUME NEW r \in Runs, NEW s \in BOOLEAN
          PROVE  [run[r] EXCEPT !.stale = s] \in Run
      BY RunIs DEF Run
    <3>2. ASSUME NEW r \in Runs
          PROVE  run'[r] = [run[r] EXCEPT !.stale =
                   run[r].stale \/ (~At(r, "idle") /\ run[r].place.height = Len(chain))]
      BY <1>11 DEF Reorganise
    <3>3. ASSUME NEW r \in Runs
          PROVE  (run[r].stale \/ (~At(r, "idle") /\ run[r].place.height = Len(chain))) \in BOOLEAN
      BY RunIs
    <3>4. \A r \in Runs : run'[r] \in Run
      BY <3>1, <3>2, <3>3
    <3> QED
      BY <1>11, <3>4 DEF Reorganise
  <2>5. reorgs' \in 0 .. MaxReorgs
    BY <1>11, Constants DEF Reorganise, TypeOK
  <2> QED
    BY <1>11, <2>1, <2>2, <2>3, <2>4, <2>5 DEF Reorganise, TypeOK, Block, store
<1>12. ASSUME NEW t \in Tx, Evict(t) PROVE TypeOK'
  <2>1. faults' \in 0 .. MaxFaults /\ mempool' \subseteq Tx
    BY <1>12, Constants DEF Evict, TypeOK
  <2> QED
    BY <1>12, <2>1 DEF Evict, TypeOK, store
<1>13. ASSUME NEW t \in Tx, OperatorReserves(t) \/ OperatorReleases(t) \/ OperatorPays(t)
       PROVE  TypeOK'
  <2>1. custody' \in [Tx -> Coins!CoinStatus]
    BY <1>13 DEF OperatorReserves, OperatorReleases, OperatorPays, TypeOK, Coins!CoinStatus,
         Coins!Reserve, Coins!Release, Coins!Pay, Coins!Book, Coins!Move
  <2> QED
    BY <1>13, <2>1 DEF OperatorReserves, OperatorReleases, OperatorPays, TypeOK, doge, past
<1>14. CASE UNCHANGED vars
  BY <1>14 DEF vars, store, doge, past, TypeOK
<1> QED
  BY <1>3, <1>4, <1>5, <1>6, <1>7, <1>8, <1>9, <1>10, <1>11, <1>12, <1>13, <1>14
  DEF Next, Step

\* A transaction stays where it is in the chain until its block is
\* disconnected; the exposed deposits stay exposed.
LEMMA SpotStays ==
  ASSUME IInv, [Next]_vars, NEW p \in Places, NEW t \in Tx
  PROVE  Spot(p, t) /\ t \notin reorged' => Spot(p, t)'
<1> USE DEF IInv
<1>1. CASE Mine
  BY <1>1, MineIs, SpotMine
<1>2. CASE Reorganise
  <2>1. reorged' = reorged \cup (ToSet(chain[Len(chain)]) \cap Tx)
    BY <1>2 DEF Reorganise
  <2> QED
    BY <1>2, <2>1, SpotReorganise, Disconnected
<1>3. CASE UNCHANGED chain
  BY <1>3 DEF Spot
<1> QED
  BY <1>1, <1>2, <1>3, DogeFrame

\* Nothing undoes an exposure.
LEMMA ExposedStays ==
  ASSUME [Next]_vars
  PROVE  reorged \subseteq reorged' /\ Exposed \subseteq Exposed'
<1>1. reorged \subseteq reorged' /\ twins \subseteq twins'
  BY DEF Next, Step, Start, Post, Poll, ReadBlock, ReadTip, Register, Abort, Mine,
     Index, Reorganise, Evict, OperatorReserves, OperatorReleases, OperatorPays,
     vars, past
<1> QED
  BY <1>1 DEF Exposed

\* A posted transaction that the node takes is not in the chain, and nothing
\* else spends its coin.
LEMMA Accepted ==
  ASSUME TypeOK, Blocks, OneSpend, NEW t \in Tx, NodeAccepts(t)
  PROVE  /\ t \notin InChain
         /\ \A u \in mempool \cup InChain : u.coin = t.coin => u = t
<1>1. CASE t \in mempool
  BY <1>1 DEF Blocks, OneSpend
<1>2. CASE \A u \in mempool \cup MinedSet : u.coin # t.coin
  BY <1>2, MinedIs
<1> QED
  BY <1>1, <1>2 DEF NodeAccepts

\* What is mined was unconfirmed, what is disconnected is unconfirmed again,
\* and what is unconfirmed besides was posted and accepted: a transaction is
\* never in two places, and a coin never spent by two.
LEMMA BlocksStep ==
  ASSUME IInv, [Next]_vars
  PROVE  Blocks' /\ OneSpend'
<1> USE DEF IInv
<1>1. CASE Mine
  <2>1. PICK S \in SUBSET mempool, b \in Block :
          /\ chain' = Append(chain, b) /\ mempool' = mempool \ S
          /\ Len(b) <= MaxBlock
          /\ \A i \in 1 .. Len(b) : b[i] \in S \cup {NoTx}
          /\ \A i, j \in 1 .. Len(b) : b[i] = b[j] => i = j
    BY <1>1, MineIs
  <2>2. \A p \in Places, t \in Tx :
          Spot(p, t)' <=> \/ Spot(p, t)
                         \/ /\ p.height = Len(chain) + 1
                            /\ p.index \in 1 .. Len(b)
                            /\ b[p.index] = t
    BY <2>1, SpotMine
  <2>3. \A p \in Places, t \in Tx : Spot(p, t)' => Spot(p, t) \/ t \in S
    BY <2>1, <2>2, Constants
  <2>4. InChain' \subseteq InChain \cup S
    BY <2>3 DEF InChain
  <2>5. mempool' \cap InChain' = {}
    BY <2>1, <2>4 DEF Blocks
  <2>6. OneSpend'
    BY <2>1, <2>4 DEF OneSpend
  <2>7. chain \in Seq(Block) /\ Len(chain) \in Nat
    BY DEF TypeOK, Block
  <2>8. \A h \in 1 .. Len(chain') : Len(chain'[h]) <= MaxBlock
    BY <2>1, <2>7, AppendProperties DEF Blocks
  <2>9. ASSUME NEW t \in Tx, NEW p \in Places, NEW q \in Places, Spot(p, t)', Spot(q, t)'
        PROVE  p = q
    <3>1. ASSUME NEW a \in Places, Spot(a, t) PROVE t \notin S
      BY <3>1 DEF Blocks, InChain
    <3>2. CASE Spot(p, t) \/ Spot(q, t)
      BY <2>2, <2>3, <2>9, <3>1, <3>2, <2>1, Constants DEF Blocks
    <3>3. CASE ~Spot(p, t) /\ ~Spot(q, t)
      <4>1. p.height = q.height /\ p.index = q.index
        BY <2>1, <2>2, <2>9, <3>3
      <4> QED
        BY <4>1 DEF Places, NoPlace
    <3> QED
      BY <3>2, <3>3
  <2> QED
    BY <2>5, <2>6, <2>8, <2>9 DEF Blocks
<1>2. CASE Reorganise
  <2>1. \A p \in Places, t \in Tx : Spot(p, t)' <=> Spot(p, t) /\ p.height # Len(chain)
    BY <1>2, SpotReorganise
  <2> DEFINE out == ToSet(chain[Len(chain)]) \cap Tx
  <2>2. mempool' = mempool \cup out
    BY <1>2 DEF Reorganise
  <2>3. \A t \in out : t \in InChain /\ \A p \in Places : ~Spot(p, t)'
    <3> SUFFICES ASSUME NEW t \in out
                 PROVE  t \in InChain /\ \A p \in Places : ~Spot(p, t)'
      OBVIOUS
    <3>1. PICK p \in Places : Spot(p, t) /\ p.height = Len(chain)
      BY <1>2, Disconnected
    <3> QED
      BY <2>1, <3>1 DEF InChain, Blocks
  <2> HIDE DEF out
  <2>4. InChain' \subseteq InChain /\ out \cap InChain' = {}
    BY <2>1, <2>3 DEF InChain
  <2>5. mempool' \cap InChain' = {}
    BY <2>2, <2>4 DEF Blocks
  <2>6. OneSpend'
    BY <2>2, <2>3, <2>4 DEF OneSpend
  <2>7. \A h \in 1 .. Len(chain') : Len(chain'[h]) <= MaxBlock
    BY <1>2, ReorganiseIs, Constants DEF Blocks
  <2> QED
    BY <2>1, <2>5, <2>6, <2>7 DEF Blocks
<1>3. CASE UNCHANGED <<chain, mempool, reorged>>
  BY <1>3 DEF Blocks, OneSpend, InChain, Spot
<1>4. ASSUME UNCHANGED chain, NEW r \in Runs, Post(r) PROVE Blocks' /\ OneSpend'
  <2> DEFINE t == run[r].tx
  <2>1. t \in Tx
    BY <1>4 DEF Post, At, Found
  <2>2. CASE NodeAccepts(t)
    <3>1. /\ t \notin InChain
          /\ \A u \in mempool \cup InChain : u.coin = t.coin => u = t
      BY <2>1, <2>2, Accepted
    <3>2. mempool' = mempool \cup {t} /\ InChain' = InChain
      BY <1>4, <2>2 DEF Post, InChain, Spot
    <3> HIDE DEF t
    <3>3. mempool' \cap InChain' = {} /\ OneSpend'
      BY <3>1, <3>2 DEF Blocks, OneSpend
    <3> QED
      BY <1>4, <3>3 DEF Blocks, Spot
  <2>3. CASE ~NodeAccepts(t)
    BY <1>4, <2>3 DEF Post, Blocks, OneSpend, InChain, Spot
  <2> QED
    BY <2>2, <2>3
<1>5. ASSUME UNCHANGED chain, NEW t \in Tx, Evict(t) PROVE Blocks' /\ OneSpend'
  <2>1. mempool' \subseteq mempool /\ InChain' = InChain
    BY <1>5 DEF Evict, InChain, Spot
  <2>2. mempool' \cap InChain' = {} /\ OneSpend'
    BY <2>1 DEF Blocks, OneSpend
  <2> QED
    BY <1>5, <2>2 DEF Blocks, Spot
<1> QED
  BY <1>1, <1>2, <1>3, <1>4, <1>5, DogeFrame

\* Which runs move, and how.
LEMMA RunFrame ==
  ASSUME TypeOK, [Next]_vars, NEW r \in Runs
  PROVE  \/ /\ run'[r].pc = run[r].pc /\ run'[r].tx = run[r].tx
            /\ run'[r].place = run[r].place
         \/ run'[r].pc = "idle"
         \/ \E t \in Tx : Start(r, t) /\ run'[r].pc = "post" /\ run'[r].tx = t
         \/ Post(r) /\ NodeAccepts(run[r].tx) /\ run'[r].pc = "poll" /\ run'[r].tx = run[r].tx
         \/ Poll(r)
         \/ /\ run[r].pc \in {"block", "tip"} /\ run'[r].tx = run[r].tx
            /\ run'[r].place = run[r].place
<1>1. Idle.pc = "idle"
  BY DEF Idle
<1>2. ASSUME NEW q \in Runs, NEW t \in Tx, Start(q, t)
      PROVE  IF q = r THEN run'[r].pc = "post" /\ run'[r].tx = t ELSE run'[r] = run[r]
  BY <1>2 DEF Start, TypeOK, Idle
<1>3. ASSUME NEW q \in Runs, Post(q)
      PROVE  \/ run'[r] = run[r]
             \/ run'[r].pc = "idle"
             \/ q = r /\ NodeAccepts(run[r].tx) /\ run'[r].pc = "poll" /\ run'[r].tx = run[r].tx
  <2>1. \/ run' = [run EXCEPT ![q].pc = "poll"] /\ NodeAccepts(run[q].tx)
        \/ run' = [run EXCEPT ![q] = Idle]
    BY <1>3 DEF Post, Goto, End
  <2> QED
    BY <1>1, <2>1, RunIs DEF TypeOK
<1>4. ASSUME NEW q \in Runs, Poll(q) PROVE q = r \/ run'[r] = run[r]
  BY <1>4 DEF Poll, TypeOK
<1>5. ASSUME NEW q \in Runs, ReadBlock(q) \/ ReadTip(q)
      PROVE  \/ run'[r] = run[r]
             \/ run'[r].pc = "idle"
             \/ /\ run[r].pc \in {"block", "tip"} /\ run'[r].tx = run[r].tx
                /\ run'[r].place = run[r].place
  <2>1. run[q].pc \in {"block", "tip"}
    BY <1>5 DEF ReadBlock, ReadTip, At
  <2>2. \/ \E pc \in Pc : run' = [run EXCEPT ![q].pc = pc]
        \/ run' = [run EXCEPT ![q] = Idle]
    BY <1>5 DEF ReadBlock, ReadTip, Goto, End, Pc
  <2> QED
    BY <1>1, <2>1, <2>2, RunIs DEF TypeOK
<1>6. ASSUME NEW q \in Runs, Register(q) \/ Abort(q)
      PROVE  run'[r] = run[r] \/ run'[r].pc = "idle"
  <2>1. run' = [run EXCEPT ![q] = Idle]
    BY <1>6 DEF Register, Abort, End
  <2> QED
    BY <1>1, <2>1 DEF TypeOK
<1>7. CASE Reorganise
  <2>1. run'[r] = [run[r] EXCEPT !.stale =
                     run[r].stale \/ (~At(r, "idle") /\ run[r].place.height = Len(chain))]
    BY <1>7 DEF Reorganise
  <2> QED
    BY <2>1, RunIs
<1>8. CASE UNCHANGED run
  BY <1>8
<1>9. CASE Mine \/ Index \/ \E t \in Tx : \/ Evict(t) \/ OperatorReserves(t)
                                        \/ OperatorReleases(t) \/ OperatorPays(t)
  BY <1>8, <1>9 DEF Mine, Index, Evict, OperatorReserves, OperatorReleases, OperatorPays
<1>10. CASE UNCHANGED vars
  BY <1>8, <1>10 DEF vars
<1> QED
  BY <1>2, <1>3, <1>4, <1>5, <1>6, <1>7, <1>9, <1>10 DEF Next, Step

\* A run that found its transaction found it where it is.
LEMMA FoundStep ==
  ASSUME IInv, [Next]_vars
  PROVE  Found'
<1> USE DEF IInv
<1> SUFFICES ASSUME NEW r \in Runs
             PROVE  /\ run'[r].pc # "idle" => run'[r].tx \in Tx
                    /\ /\ run'[r].pc \in {"block", "tip", "register"}
                       /\ run'[r].tx \notin reorged'
                       => Spot(run[r].place, run[r].tx)'
  BY DEF Found
<1>1. CASE /\ run'[r].pc = run[r].pc \/ run[r].pc \in {"block", "tip"}
           /\ run'[r].tx = run[r].tx /\ run'[r].place = run[r].place
  <2>1. run'[r].pc # "idle" => run'[r].tx \in Tx
    BY <1>1 DEF Found
  <2>2. ASSUME run'[r].pc \in {"block", "tip", "register"}, run'[r].tx \notin reorged'
        PROVE  Spot(run[r].place, run[r].tx)'
    <3>1. run[r].pc \in {"block", "tip", "register"} /\ run[r].tx \notin reorged
      BY <1>1, <2>2, ExposedStays
    <3>2. run[r].tx \in Tx /\ run[r].place \in Places /\ Spot(run[r].place, run[r].tx)
      BY <3>1, RunIs DEF Found
    <3>3. \A p \in Places, t \in Tx : Spot(p, t) /\ t \notin reorged' => Spot(p, t)'
      BY SpotStays
    <3>4. \A p \in Places, t \in Tx :
            p = run[r].place /\ t = run[r].tx => Spot(p, t)'
      BY <1>1, <2>2, <3>2, <3>3
    <3> QED
      BY <1>1, <3>2, <3>4 DEF Spot
  <2> QED
    BY <2>1, <2>2
<1>2. CASE run'[r].pc \in {"idle", "post", "poll"} /\ (run'[r].pc # "idle" => run'[r].tx \in Tx)
  BY <1>2
<1>3. CASE Poll(r)
  <2> DEFINE t == run[r].tx
             p == PlaceOf(t, electrs)
  <2>1. t \in Tx /\ p # NoPlace /\ electrs \in 0 .. Len(chain)
    BY <1>3 DEF Poll, At, Found, TypeOK
  <2>2. p \in Places /\ Spot(p, t)
    BY <2>1, PlaceIs
  <2>3. run'[r].tx = t /\ run'[r].place = p /\ chain' = chain
    BY <1>3, RunIs DEF Poll, TypeOK, doge
  <2> HIDE DEF p, t
  <2> QED
    BY <2>1, <2>2, <2>3 DEF Spot
<1>4. ASSUME Post(r), run'[r].tx = run[r].tx, run'[r].pc = "poll" PROVE run'[r].tx \in Tx
  BY <1>4 DEF Post, At, Found
<1> QED
  BY <1>1, <1>2, <1>3, <1>4, RunFrame

\* Only a registration makes a coin of a deposit that is none.
LEMMA CustodyFrame ==
  ASSUME TypeOK, [Next]_vars, NEW t \in Tx
  PROVE  \/ custody'[t] = custody[t] /\ leaf'[t] = leaf[t]
         \/ custody[t] # "Absent" /\ custody'[t] # "Absent" /\ leaf'[t] = leaf[t]
         \/ \E r \in Runs : /\ Register(r) /\ run[r].tx = t
                            /\ custody'[t] = "Available" /\ leaf'[t] = run[r].place
<1>1. ASSUME NEW r \in Runs, Register(r)
      PROVE  \/ custody'[t] = custody[t] /\ leaf'[t] = leaf[t]
             \/ run[r].tx = t /\ custody'[t] = "Available" /\ leaf'[t] = run[r].place
  BY <1>1 DEF Register, TypeOK
<1>2. ASSUME NEW u \in Tx, OperatorReserves(u) \/ OperatorReleases(u) \/ OperatorPays(u)
      PROVE  \/ custody'[t] = custody[t] /\ leaf'[t] = leaf[t]
             \/ custody[t] # "Absent" /\ custody'[t] # "Absent" /\ leaf'[t] = leaf[t]
  BY <1>2 DEF OperatorReserves, OperatorReleases, OperatorPays, TypeOK,
       Coins!Reserve, Coins!Release, Coins!Pay, Coins!Book, Coins!Move
<1>3. CASE UNCHANGED <<custody, leaf>>
  BY <1>3
<1> QED
  BY <1>1, <1>2, <1>3 DEF Next, Step, Start, Post, Poll, ReadBlock, ReadTip, Abort, Mine,
     Index, Reorganise, Evict, vars, store

\* A leaf is where its deposit is, from the registration on.
LEMMA LeavesStep ==
  ASSUME IInv, [Next]_vars
  PROVE  Leaves'
<1> USE DEF IInv
<1> SUFFICES ASSUME NEW t \in Tx, t \notin reorged', custody'[t] # "Absent"
             PROVE  Spot(leaf[t], t)'
  BY DEF Leaves
<1>1. \A p \in Places : Spot(p, t) => Spot(p, t)'
  BY SpotStays
<1>2. t \notin reorged
  BY ExposedStays
<1>3. \E p \in Places : Spot(p, t) /\ leaf'[t] = p
  <2>1. CASE custody[t] # "Absent" /\ leaf'[t] = leaf[t]
    BY <1>2, <2>1 DEF Leaves, TypeOK
  <2>2. ASSUME NEW r \in Runs, Register(r), run[r].tx = t, leaf'[t] = run[r].place
        PROVE  \E p \in Places : Spot(p, t) /\ leaf'[t] = p
    BY <1>2, <2>2, RunIs DEF Register, At, Found
  <2> QED
    BY <2>1, <2>2, CustodyFrame
<1> QED
  BY <1>1, <1>3 DEF Spot

\* A run comes to carry a deposit by posting it.
LEMMA CarriesFrame ==
  ASSUME TypeOK, [Next]_vars, NEW r \in Runs, NEW t \in Tx, Carries(r, t)'
  PROVE  Carries(r, t) \/ (Post(r) /\ run[r].tx = t /\ NodeAccepts(t))
<1>1. run'[r].tx = t /\ run'[r].pc \notin {"idle", "post"}
  BY DEF Carries
<1>2. ASSUME run'[r].tx = run[r].tx,
             run'[r].pc = run[r].pc \/ run[r].pc \in {"block", "tip"}
      PROVE  Carries(r, t)
  BY <1>1, <1>2 DEF Carries
<1>3. ASSUME Poll(r) PROVE Carries(r, t)
  <2>1. run'[r].tx = run[r].tx
    BY <1>3, RunIs DEF Poll, TypeOK
  <2> QED
    BY <1>1, <1>3, <2>1 DEF Poll, At, Carries
<1>4. ASSUME Post(r), NodeAccepts(run[r].tx), run'[r].tx = run[r].tx
      PROVE  Post(r) /\ run[r].tx = t /\ NodeAccepts(t)
  <2>1. run[r].tx = t
    BY <1>1, <1>4
  <2>2. NodeAccepts(t)
    BY <1>4, <2>1 DEF NodeAccepts
  <2> QED
    BY <1>4, <2>1, <2>2
<1>5. run'[r].pc # "idle" /\ run'[r].pc # "post"
  BY <1>1
<1>6. \/ /\ run'[r].tx = run[r].tx
         /\ run'[r].pc = run[r].pc \/ run[r].pc \in {"block", "tip"}
      \/ Poll(r)
      \/ Post(r) /\ NodeAccepts(run[r].tx) /\ run'[r].tx = run[r].tx
  BY <1>5, RunFrame
<1> QED
  BY <1>2, <1>3, <1>4, <1>6

\* A registration is by a run that carries the deposit.
LEMMA RegisterCarries ==
  ASSUME NEW r \in Runs, Register(r)
  PROVE  Carries(r, run[r].tx)
  BY DEF Register, At, Carries

\* A posted deposit becomes a twin of the one that another run carries.
LEMMA PostTwins ==
  ASSUME NEW r \in Runs, Post(r), NodeAccepts(run[r].tx),
         NEW s \in Runs \ {r}, Carries(s, run[r].tx)
  PROVE  run[r].tx \in twins'
  BY DEF Post

\* While a run carries a deposit it is not registered, and the run is alone
\* with it, unless the deposit is exposed.
LEMMA CarriedStep ==
  ASSUME IInv, [Next]_vars
  PROVE  Carried'
<1> USE DEF IInv
<1> SUFFICES ASSUME NEW r \in Runs, NEW t \in Tx, Carries(r, t)'
             PROVE  /\ t \in Exposed' \/ custody'[t] = "Absent"
                    /\ \A s \in Runs \ {r} : Carries(s, t)' => t \in twins'
  BY DEF Carried
<1>1. Exposed \subseteq Exposed' /\ reorged \subseteq reorged' /\ twins' \subseteq Exposed'
  BY ExposedStays DEF Exposed
<1>2. Carries(r, t) \/ (Post(r) /\ run[r].tx = t /\ NodeAccepts(t))
  BY CarriesFrame
<1>3. twins \subseteq twins'
  BY DEF Next, Step, Start, Post, Poll, ReadBlock, ReadTip, Register, Abort, Mine,
     Index, Reorganise, Evict, OperatorReserves, OperatorReleases, OperatorPays,
     vars, past
<1>4. ASSUME NEW s \in Runs \ {r}, Carries(s, t)' PROVE t \in twins'
  <2>1. Carries(s, t) \/ (Post(s) /\ run[s].tx = t /\ NodeAccepts(t))
    BY <1>4, CarriesFrame
  <2>2. CASE Carries(r, t) /\ Carries(s, t)
    BY <1>3, <2>2 DEF Carried
  <2>3. CASE Post(r) /\ run[r].tx = t /\ NodeAccepts(t) /\ Carries(s, t)
    BY <2>3, PostTwins
  <2>4. CASE Post(s) /\ run[s].tx = t /\ NodeAccepts(t) /\ Carries(r, t)
    BY <2>4, PostTwins
  <2>5. ASSUME Post(r), Post(s) PROVE FALSE
    <3>1. run[r].pc = "post" /\ run[s].pc = "post"
      BY <2>5 DEF Post, At
    <3>2. run' \in {[run EXCEPT ![r].pc = "poll"], [run EXCEPT ![r] = Idle]}
      BY <2>5 DEF Post, Goto, End
    <3>3. run'[s] = run[s]
      BY <3>2 DEF TypeOK
    <3> QED
      BY <1>4, <3>1, <3>3 DEF Carries
  <2> QED
    BY <1>2, <2>1, <2>2, <2>3, <2>4, <2>5
<1>5. t \in Exposed' \/ custody'[t] = "Absent"
  <2> SUFFICES ASSUME t \notin Exposed' PROVE custody'[t] = "Absent"
    OBVIOUS
  <2>1. t \notin Exposed /\ t \notin reorged
    BY <1>1 DEF Exposed
  <2>2. custody[t] = "Absent"
    <3>1. CASE Carries(r, t)
      BY <2>1, <3>1 DEF Carried
    <3>2. CASE Post(r) /\ run[r].tx = t /\ NodeAccepts(t)
      <4>1. t \notin InChain
        BY <3>2, Accepted
      <4>2. leaf[t] \in Places
        BY DEF TypeOK
      <4> QED
        BY <2>1, <4>1, <4>2 DEF Leaves, InChain
    <3> QED
      BY <1>2, <3>1, <3>2
  <2>3. ASSUME NEW q \in Runs, Register(q), run[q].tx = t PROVE FALSE
    <3>1. Carries(q, t)
      BY <2>3, RegisterCarries
    <3>2. run' = [run EXCEPT ![q] = Idle] /\ ~Post(r)
      <4>1. run[q].pc = "register" /\ run' = [run EXCEPT ![q] = Idle]
        BY <2>3 DEF Register, At, End
      <4>2. ASSUME Post(r) PROVE FALSE
        <5>1. UNCHANGED custody /\ custody'[t] = "Available"
          BY <2>3, <4>2 DEF Post, Register, store, TypeOK
        <5> QED
          BY <2>2, <5>1
      <4> QED
        BY <4>1, <4>2
    <3>3. q # r
      BY <3>2 DEF Carries, TypeOK, Idle
    <3>4. Carries(r, t) /\ t \in twins
      BY <1>2, <3>1, <3>2, <3>3 DEF Carried
    <3> QED
      BY <2>1, <3>4 DEF Exposed
  <2> QED
    BY <2>2, <2>3, CustodyFrame
<1> QED
  BY <1>4, <1>5

\* What the operator's reservations hold moves with the status of the coin,
\* and a registration finds the coin of an unexposed deposit not held.
LEMMA HeldStep ==
  ASSUME IInv, [Next]_vars
  PROVE  Held'
<1> USE DEF IInv
<1> SUFFICES ASSUME NEW t \in Tx, t \notin Exposed', custody'[t] \in {"Absent", "Available"}
             PROVE  t \notin held'
  BY DEF Held
<1>1. t \notin Exposed
  BY ExposedStays
<1>2. CASE UNCHANGED <<custody, held>>
  BY <1>1, <1>2 DEF Held
<1>3. ASSUME NEW r \in Runs, Register(r) PROVE t \notin held'
  <2>1. custody[t] \in {"Absent", "Available"}
    <3>1. CASE run[r].tx = t
      BY <1>1, <1>3, <3>1, RegisterCarries DEF Carried
    <3>2. CASE run[r].tx # t
      BY <1>3, <3>2 DEF Register, TypeOK
    <3> QED
      BY <3>1, <3>2
  <2> QED
    BY <1>1, <1>3, <2>1 DEF Register, Held
<1>4. ASSUME NEW u \in Tx, OperatorReserves(u) PROVE t \notin held'
  BY <1>1, <1>4 DEF OperatorReserves, Coins!Reserve, Coins!Move, Held
<1>5. ASSUME NEW u \in Tx, OperatorReleases(u) PROVE t \notin held'
  BY <1>1, <1>5 DEF OperatorReleases, Coins!Release, Coins!Move, Held
<1>6. ASSUME NEW u \in Tx, OperatorPays(u) PROVE t \notin held'
  BY <1>1, <1>6 DEF OperatorPays, Coins!Pay, Coins!Book, Coins!Move, Held
<1> QED
  BY <1>2, <1>3, <1>4, <1>5, <1>6 DEF Next, Step, Start, Post, Poll, ReadBlock, ReadTip,
     Abort, Mine, Index, Reorganise, Evict, vars, store

\* A step that moves a coin is one of the coin's life, or registers an exposed
\* deposit again.
LEMMA KeepsCoinsStep ==
  ASSUME IInv, [Next]_vars
  PROVE  \/ Coins!Next
         \/ \E t \in Exposed : custody[t] # "Absent" /\ custody'[t] = "Available"
         \/ UNCHANGED custody
<1> DEFINE Kept == \/ Coins!Next
                   \/ \E t \in Exposed : custody[t] # "Absent" /\ custody'[t] = "Available"
<1> USE DEF IInv
<1>1. ASSUME NEW r \in Runs, Register(r) PROVE Kept
  <2> DEFINE t == run[r].tx
  <2>1. t \in Tx /\ Carries(r, t)
    BY <1>1, RegisterCarries DEF Register, At, Found
  <2>2. custody' = [custody EXCEPT ![t] = "Available"]
    BY <1>1 DEF Register
  <2> HIDE DEF t
  <2>3. CASE custody[t] = "Absent"
    <3>1. Coins!Register(t)
      BY <2>1, <2>2, <2>3 DEF Coins!Register, Coins!Move, TypeOK
    <3> QED
      BY <2>1, <3>1 DEF Coins!Next
  <2>4. CASE custody[t] # "Absent"
    <3>1. t \in Exposed
      BY <2>1, <2>4, <1>1 DEF Carried
    <3> QED
      BY <2>1, <2>2, <2>4, <3>1 DEF TypeOK
  <2> QED
    BY <2>3, <2>4
<1>2. ASSUME NEW t \in Tx, OperatorReserves(t) \/ OperatorReleases(t) \/ OperatorPays(t)
      PROVE  Kept
  <2>1. {t} \in SUBSET Tx /\ {} \in SUBSET Tx
    OBVIOUS
  <2>2. Coins!Reserve({t}) \/ Coins!Release({t}) \/ Coins!Pay({t}) \/ Coins!Book({t}, {})
    BY <1>2 DEF OperatorReserves, OperatorReleases, OperatorPays
  <2> QED
    BY <2>1, <2>2 DEF Coins!Next
<1>3. CASE UNCHANGED custody
  BY <1>3
<1> QED
  BY <1>1, <1>2, <1>3 DEF Next, Step, Start, Post, Poll, ReadBlock, ReadTip, Abort, Mine,
     Index, Reorganise, Evict, vars, store

-----------------------------------------------------------------------------
(* The theorems. *)

\* The invariant holds in every reachable state of the runs, Dogecoin and the
\* operator beside them.
THEOREM Invariance == Spec => []IInv
<1>1. Init => IInv
  <2> SUFFICES ASSUME Init PROVE IInv
    OBVIOUS
  <2>1. Idle \in Run /\ NoPlace \in Places /\ Idle.pc = "idle"
    BY DEF Idle, Run, Pc, Places
  <2>2. chain \in Seq(Seq(Tx \cup {NoTx})) /\ Len(chain) = 0
    BY DEF Init
  <2>3. TypeOK
    BY <2>1, <2>2, Constants DEF Init, TypeOK, Coins!Init, Coins!CoinStatus
  <2>4. InChain = {}
    BY <2>2 DEF InChain, Spot
  <2>5. Blocks /\ OneSpend
    BY <2>2, <2>4 DEF Init, Blocks, OneSpend, Spot
  <2>6. Found /\ Carried
    BY <2>1 DEF Init, Found, Carried, Carries
  <2>7. Leaves /\ Held
    BY DEF Init, Leaves, Held, Coins!Init
  <2> QED
    BY <2>3, <2>5, <2>6, <2>7 DEF IInv
<1>2. IInv /\ [Next]_vars => IInv'
  BY TypeStep, BlocksStep, FoundStep, CarriedStep, LeavesStep, HeldStep DEF IInv
<1> QED
  BY <1>1, <1>2, PTL DEF Spec

\* Every variable of the runs, of Dogecoin and of the store keeps its type.
THEOREM TypeCorrect == Spec => []TypeOK
<1>1. IInv => TypeOK
  BY DEF IInv
<1> QED
  BY <1>1, Invariance, PTL

\* upsert_custody_utxo never offers a coin that a payment holds or has spent,
\* unless its deposit was live in two runs or in a disconnected block.
THEOREM OfferedIsFreeHolds == Spec => []OfferedIsFree
<1>1. IInv => OfferedIsFree
  BY DEF IInv, Held, OfferedIsFree
<1> QED
  BY <1>1, Invariance, PTL

\* Every custody coin stands for a deposit that is in the chain where the
\* coin's leaf says, unless its block was disconnected.
THEOREM BackedByDogecoinHolds == Spec => []BackedByDogecoin
<1>1. IInv => BackedByDogecoin
  <2> SUFFICES ASSUME IInv, NEW t \in Tx \ reorged, custody[t] # "Absent"
               PROVE  leaf[t] # NoPlace /\ leaf[t] = PlaceOf(t, Len(chain))
    BY DEF BackedByDogecoin
  <2>1. leaf[t] \in Places /\ Spot(leaf[t], t)
    BY DEF IInv, TypeOK, Leaves
  <2> QED
    BY <2>1, PlaceOfSpot DEF IInv
<1> QED
  BY <1>1, Invariance, PTL

\* The runs and the operator keep to the life of a custody coin in every step
\* but one that registers an exposed deposit again.
THEOREM KeepsCoinsHolds == Spec => KeepsCoins
<1>1. IInv /\ [Next]_vars =>
        [\/ Coins!Next
         \/ \E t \in Exposed : custody[t] # "Absent" /\ custody'[t] = "Available"
        ]_custody
  BY KeepsCoinsStep
<1> QED
  BY <1>1, Invariance, PTL DEF Spec, KeepsCoins
=============================================================================
