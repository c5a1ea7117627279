----------------------------- MODULE PaymentProofs -----------------------------
(***************************************************************************)
(* Proofs about Payment, for all coins, snapshots, fees and Manager sets,   *)
(* and however many payments and faults: what is stored as signed is the    *)
(* payment that was reserved, a request to the local Managers describes it, *)
(* honest answers are enough, and what is confirmed can be booked; the same *)
(* arguments take a reservation up again; and the books match the chain.    *)
(*                                                                          *)
(* The invariant says what is stored of a batch that is reserved: the bytes *)
(* of a payload of Payments and of the transaction that pays it from the    *)
(* coins, at the fee and dust threshold of the reservation.  An operator    *)
(* with other arguments restores that transaction or fails, since a payload *)
(* is read back as it was written and the required sum has the fee in it;   *)
(* whatever the Managers then answer, signatures that are applied are those *)
(* of the restored transaction under keys in ascending order.               *)
(*                                                                          *)
(* Two more conjuncts follow.  Recoverable: what is stored of a batch reads *)
(* back as the payload and the transaction that were built, for whoever has *)
(* the arguments of the reservation.  Backing: where each row of the books  *)
(* stands on chain.  It rests on the past of the chain, that a transaction  *)
(* on it spends its inputs there: one that spends a coin of the books is    *)
(* then new, and so are its outputs.                                        *)
(***************************************************************************)
EXTENDS Payment, TransactionLemmas

-----------------------------------------------------------------------------
(* Sums. *)

\* The recursion of a sum over the positions of a sequence.
Sums(f, n, v) ==
  f = [t \in SUBSET (1 .. n) |-> IF t = {} THEN 0 ELSE f[t \ {Max(t)}] + v[Max(t)]]

LEMMA SumExists ==
  ASSUME NEW n \in Nat, NEW v \in [1 .. n -> Int]
  PROVE  \E f : Sums(f, n, v)
<1> DEFINE step == [x \in Int \X (1 .. n) |-> x[1] + v[x[2]]]
<1>1. step \in [Int \X (1 .. n) -> Int]
  OBVIOUS
<1>2. PICK f \in [SUBSET (1 .. n) -> Int] : Folds(f, n, 0, step)
  <2>1. 0 \in Int
    OBVIOUS
  <2> HIDE DEF step
  <2> QED BY <1>1, <2>1, FoldExists
<1>3. ASSUME NEW t \in SUBSET (1 .. n), t # {}
      PROVE  f[t] = f[t \ {Max(t)}] + v[Max(t)]
  <2>1. Max(t) \in 1 .. n
    BY <1>3, Greatest
  <2>2. f[t] = step[<<f[t \ {Max(t)}], Max(t)>>]
    BY <1>2, <1>3 DEF Folds
  <2>3. f[t \ {Max(t)}] \in Int
    BY <1>2
  <2> QED BY <2>1, <2>2, <2>3
<1>4. f[{}] = 0
  BY <1>2 DEF Folds
<1>5. f = [t \in SUBSET (1 .. n) |-> IF t = {} THEN 0 ELSE f[t \ {Max(t)}] + v[Max(t)]]
  BY <1>2, <1>3, <1>4
<1> QED BY <1>5 DEF Sums

\* The sums of the first elements, of none to all.
Partial(p, n, v) ==
  /\ p \in [0 .. n -> Int] /\ p[0] = 0
  /\ \A k \in 1 .. n : p[k] = p[k - 1] + v[k]

LEMMA SumPartial ==
  ASSUME NEW n \in Nat, NEW v \in [1 .. n -> Int], NEW f, Sums(f, n, v)
  PROVE  \E p : Partial(p, n, v) /\ f[1 .. n] = p[n]
<1> DEFINE p == [k \in 0 .. n |-> f[1 .. k]]
<1>1. p[0] = 0
  <2>1. 1 .. 0 = {}
    OBVIOUS
  <2> QED BY <2>1 DEF Sums
<1>2. ASSUME NEW k \in 1 .. n PROVE p[k] = p[k - 1] + v[k]
  <2>1. 1 .. k \in SUBSET (1 .. n) /\ 1 .. k # {} /\ k - 1 \in 0 .. n /\ k \in 0 .. n
    OBVIOUS
  <2>2. Max(1 .. k) = k
    <3>1. Max(1 .. k) \in 1 .. k /\ \A i \in 1 .. k : Max(1 .. k) >= i
      BY <2>1, Greatest
    <3> QED BY <3>1
  <2>3. (1 .. k) \ {k} = 1 .. k - 1
    OBVIOUS
  <2>4. f[1 .. k] = f[(1 .. k) \ {Max(1 .. k)}] + v[Max(1 .. k)]
    BY <2>1 DEF Sums
  <2> QED BY <2>1, <2>2, <2>3, <2>4
<1>3. \A k \in 0 .. n : p[k] \in Int
  <2> DEFINE T == {k \in Nat : k <= n => p[k] \in Int}
  <2>1. T \in SUBSET Nat /\ 0 \in T
    BY <1>1
  <2>2. ASSUME NEW k \in T PROVE k + 1 \in T
    <3>1. SUFFICES ASSUME k + 1 <= n PROVE p[k + 1] \in Int
      OBVIOUS
    <3>2. k + 1 \in 1 .. n /\ (k + 1) - 1 = k /\ p[k] \in Int
      BY <3>1
    <3>3. v[k + 1] \in Int
      BY <3>2
    <3> HIDE DEF p
    <3>4. p[k + 1] = p[(k + 1) - 1] + v[k + 1]
      BY <1>2, <3>2
    <3> QED BY <3>2, <3>3, <3>4
  <2>3. \A k \in Nat : k \in T
    <3> HIDE DEF T
    <3> QED BY <2>1, <2>2, NatSet
  <2>4. \A k \in 0 .. n : k \in Nat /\ k <= n
    OBVIOUS
  <2> HIDE DEF p
  <2> QED BY <2>3, <2>4
<1>4. p \in [0 .. n -> Int] /\ f[1 .. n] = p[n]
  <2>1. p \in [0 .. n -> Int]
    BY <1>3
  <2> QED BY <2>1
<1> HIDE DEF p
<1> QED BY <1>1, <1>2, <1>4 DEF Partial

\* Partial sums of which one continues the other agree.
LEMMA SumUnique ==
  ASSUME NEW n \in Nat, NEW v \in [1 .. n -> Int], NEW p, Partial(p, n, v),
         NEW q, q[0] = 0, \A k \in 1 .. n : q[k] = q[k - 1] + v[k]
  PROVE  p[n] = q[n]
<1> DEFINE T == {k \in Nat : k <= n => p[k] = q[k]}
<1>1. T \in SUBSET Nat /\ 0 \in T
  BY DEF Partial
<1>2. ASSUME NEW k \in T PROVE k + 1 \in T
  <2>1. SUFFICES ASSUME k + 1 <= n PROVE p[k + 1] = q[k + 1]
    OBVIOUS
  <2>2. k + 1 \in 1 .. n /\ (k + 1) - 1 = k /\ p[k] = q[k]
    BY <2>1
  <2>3. p[k + 1] = p[(k + 1) - 1] + v[k + 1] /\ q[k + 1] = q[(k + 1) - 1] + v[k + 1]
    BY <2>2 DEF Partial
  <2> QED BY <2>2, <2>3
<1>3. \A k \in Nat : k \in T
  <2> HIDE DEF T
  <2> QED BY <1>1, <1>2, NatSet
<1> QED BY <1>3

\* What TotalAmount and TotalSats add up.
LEMMA TotalAmountSums ==
  ASSUME NEW S, NEW s \in Seq(S), \A i \in DOMAIN s : s[i].amount \in Int
  PROVE  \E f : Sums(f, Len(s), [i \in 1 .. Len(s) |-> s[i].amount])
                  /\ TotalAmount(s) = f[1 .. Len(s)]
<1> DEFINE n == Len(s)
           v == [i \in 1 .. n |-> s[i].amount]
           R(f) == f = [t \in SUBSET DOMAIN s |-> IF t = {} THEN 0
                          ELSE LET x == Max(t) IN f[t \ {x}] + s[x].amount]
<1>1. n \in Nat /\ DOMAIN s = 1 .. n /\ v \in [1 .. n -> Int]
  OBVIOUS
<1>2. \A f : R(f) <=> Sums(f, n, v)
  <2>1. TAKE f
  <2>2. \A t \in SUBSET (1 .. n) : t # {} => s[Max(t)].amount = v[Max(t)]
    <3>1. \A t \in SUBSET (1 .. n) : t # {} => Max(t) \in 1 .. n
      BY <1>1, Greatest
    <3> QED BY <3>1
  <2> HIDE DEF v, n
  <2>3. [t \in SUBSET (1 .. n) |-> IF t = {} THEN 0
            ELSE LET x == Max(t) IN f[t \ {x}] + s[x].amount] =
        [t \in SUBSET (1 .. n) |-> IF t = {} THEN 0 ELSE f[t \ {Max(t)}] + v[Max(t)]]
    BY <2>2
  <2> QED BY <1>1, <2>3 DEF Sums
<1>3. TotalAmount(s) = (CHOOSE f : R(f))[DOMAIN s]
  BY DEF TotalAmount, Sum, FoldLeft, MapThenFoldSet
<1>4. \E f : R(f)
  <2> HIDE DEF R, v, n
  <2> QED BY <1>1, <1>2, SumExists
<1> HIDE DEF R, v
<1>5. R(CHOOSE f : R(f))
  BY <1>4
<1> QED BY <1>1, <1>2, <1>3, <1>5 DEF v

LEMMA TotalSatsSums ==
  ASSUME NEW S, NEW s \in Seq(S), \A i \in DOMAIN s : s[i].sats \in Int
  PROVE  \E f : Sums(f, Len(s), [i \in 1 .. Len(s) |-> s[i].sats])
                  /\ TotalSats(s) = f[1 .. Len(s)]
<1> DEFINE n == Len(s)
           v == [i \in 1 .. n |-> s[i].sats]
           R(f) == f = [t \in SUBSET DOMAIN s |-> IF t = {} THEN 0
                          ELSE LET x == Max(t) IN f[t \ {x}] + s[x].sats]
<1>1. n \in Nat /\ DOMAIN s = 1 .. n /\ v \in [1 .. n -> Int]
  OBVIOUS
<1>2. \A f : R(f) <=> Sums(f, n, v)
  <2>1. TAKE f
  <2>2. \A t \in SUBSET (1 .. n) : t # {} => s[Max(t)].sats = v[Max(t)]
    <3>1. \A t \in SUBSET (1 .. n) : t # {} => Max(t) \in 1 .. n
      BY <1>1, Greatest
    <3> QED BY <3>1
  <2> HIDE DEF v, n
  <2>3. [t \in SUBSET (1 .. n) |-> IF t = {} THEN 0
            ELSE LET x == Max(t) IN f[t \ {x}] + s[x].sats] =
        [t \in SUBSET (1 .. n) |-> IF t = {} THEN 0 ELSE f[t \ {Max(t)}] + v[Max(t)]]
    BY <2>2
  <2> QED BY <1>1, <2>3 DEF Sums
<1>3. TotalSats(s) = (CHOOSE f : R(f))[DOMAIN s]
  BY DEF TotalSats, Sum, FoldLeft, MapThenFoldSet
<1>4. \E f : R(f)
  <2> HIDE DEF R, v, n
  <2> QED BY <1>1, <1>2, SumExists
<1> HIDE DEF R, v
<1>5. R(CHOOSE f : R(f))
  BY <1>4
<1> QED BY <1>1, <1>2, <1>3, <1>5 DEF v

LEMMA TotalAmountPartial ==
  ASSUME NEW S, NEW s \in Seq(S), \A i \in DOMAIN s : s[i].amount \in Int
  PROVE  \E p : Partial(p, Len(s), [i \in 1 .. Len(s) |-> s[i].amount])
                  /\ TotalAmount(s) = p[Len(s)]
<1> DEFINE n == Len(s)
           v == [i \in 1 .. n |-> s[i].amount]
<1>1. PICK f : Sums(f, n, v) /\ TotalAmount(s) = f[1 .. n]
  BY TotalAmountSums
<1>2. n \in Nat /\ v \in [1 .. n -> Int]
  OBVIOUS
<1> HIDE DEF v, n
<1>3. PICK p : Partial(p, n, v) /\ f[1 .. n] = p[n]
  BY <1>1, <1>2, SumPartial
<1> QED BY <1>1, <1>3 DEF n, v

\* Sums of amounts are numbers, nothing adds up to 0, and one more adds to it.
LEMMA TotalAmountFacts ==
  ASSUME NEW S, NEW s \in Seq(S), \A i \in DOMAIN s : s[i].amount \in Int
  PROVE  /\ TotalAmount(s) \in Int
         /\ s = <<>> => TotalAmount(s) = 0
         /\ \A o \in S : o.amount \in Int =>
              TotalAmount(s \o <<o>>) = TotalAmount(s) + o.amount
<1> DEFINE n == Len(s)
           v == [i \in 1 .. n |-> s[i].amount]
<1>1. PICK p : Partial(p, n, v) /\ TotalAmount(s) = p[n]
  BY TotalAmountPartial
<1>2. n \in Nat /\ n \in 0 .. n /\ v \in [1 .. n -> Int]
        /\ \A k \in 1 .. n : v[k] = s[k].amount
  OBVIOUS
<1> HIDE DEF v
<1>3. TotalAmount(s) \in Int /\ (s = <<>> => TotalAmount(s) = 0)
  BY <1>1, <1>2 DEF Partial
<1>4. ASSUME NEW o \in S, o.amount \in Int
      PROVE  TotalAmount(s \o <<o>>) = TotalAmount(s) + o.amount
  <2> DEFINE t == s \o <<o>>
             w == [i \in 1 .. Len(t) |-> t[i].amount]
  <2>1. t \in Seq(S) /\ Len(t) = n + 1 /\ t[n + 1] = o
          /\ \A i \in 1 .. n : t[i] = s[i]
    OBVIOUS
  <2>2. \A i \in DOMAIN t : t[i].amount \in Int
    <3>1. \A i \in 1 .. n : t[i].amount \in Int
      BY <2>1
    <3>2. DOMAIN t = 1 .. n + 1
      BY <2>1
    <3> HIDE DEF t, n
    <3> QED BY <1>2, <1>4, <2>1, <3>1, <3>2
  <2>3. PICK q : Partial(q, Len(t), w) /\ TotalAmount(t) = q[Len(t)]
    <3> HIDE DEF t
    <3> QED BY <2>1, <2>2, TotalAmountPartial
  <2>4. /\ \A k \in 1 .. n + 1 : w[k] = t[k].amount
        /\ \A k \in 1 .. n : k \in 1 .. n + 1
    BY <2>1
  <2> HIDE DEF t, w, n
  <2>5. q[0] = 0 /\ \A k \in 1 .. n : q[k] = q[k - 1] + v[k]
    BY <1>2, <2>1, <2>3, <2>4 DEF Partial
  <2>6. p[n] = q[n]
    BY <1>1, <1>2, <2>5, SumUnique
  <2>7. n + 1 \in 1 .. n + 1 /\ (n + 1) - 1 = n
    BY <1>2
  <2>8. q[n + 1] = q[n] + o.amount
    BY <2>1, <2>3, <2>4, <2>7 DEF Partial
  <2> QED BY <1>1, <2>1, <2>3, <2>6, <2>8 DEF t
<1> QED BY <1>3, <1>4

LEMMA TotalSatsFacts ==
  ASSUME NEW S, NEW s \in Seq(S), \A i \in DOMAIN s : s[i].sats \in Int
  PROVE  TotalSats(s) \in Int
<1> DEFINE n == Len(s)
           v == [i \in 1 .. n |-> s[i].sats]
<1>1. PICK f : Sums(f, n, v) /\ TotalSats(s) = f[1 .. n]
  BY TotalSatsSums
<1>2. n \in Nat /\ n \in 0 .. n /\ v \in [1 .. n -> Int]
  OBVIOUS
<1> HIDE DEF v, n
<1>3. PICK p : Partial(p, n, v) /\ f[1 .. n] = p[n]
  BY <1>1, <1>2, SumPartial
<1> QED BY <1>1, <1>2, <1>3 DEF Partial

-----------------------------------------------------------------------------
(* The inductive invariant. *)

IsSeq(s) == s \in Seq(ToSet(s))

\* Who is where: an operator that is past a step has found the batch at that
\* stage, and there is no other operator to move it on.
Control ==
  /\ service \in {"local", "guardians"}
  /\ number \in Nat \ {0} /\ faults \in Nat /\ mined \in BOOLEAN
  /\ batch.stage \in {"None", "Constructed", "Signed", "Broadcast"}
  /\ op.pc \in {"idle", "reserve", "continue", "register", "ask", "askVaa", "apply",
                "broadcast", "book"}
  /\ op.pc # "idle" => op.args \in Invocations /\ failure = "none"
  /\ op.pc \in {"reserve", "continue", "register"} => op = [pc |-> op.pc, args |-> op.args]
  /\ op.pc = "reserve" => batch.stage = "None"
  /\ op.pc = "continue" => batch.stage # "None"
  /\ op.pc = "broadcast" => batch.stage = "Signed"
  /\ op.pc = "book" => batch.stage = "Broadcast"
  /\ mined => batch.stage = "Broadcast"

\* A row of custody_utxos.
IsCoin(c) == c.sats \in Nat /\ Reversed(Reversed(c.txid)) = c.txid

Coins == IsFiniteSet(custody) /\ \A c \in custody : IsCoin(c)

\* The outputs of the transaction: those of the payload, then the change.
Outputs(index, outputs, change) ==
  outputs \o IF change = 0 THEN <<>>
             ELSE <<[amount |-> change, kind |-> P2sh, address |-> CustodyScript(Zero, index)]>>

Selected(coins, index) ==
  [i \in DOMAIN coins |->
     [txid |-> Reversed(coins[i].txid), vout |-> coins[i].vout,
      redeem |-> RedeemScript(coins[i].recipient, ManagerSet(index).m, ManagerSet(index).keys)]]

\* What is stored of a batch is what a snapshot of Payments was reserved with.
ReservedWith(b, outputs) ==
  LET args == b.args
      plan == PlanCustody(TotalSats(b.coins), TotalAmount(outputs), args.fee, args.dust)
  IN  /\ b.payload = PayloadBytes([chain |-> DOGECOIN_CHAIN_ID,
                                   index |-> args.index, outputs |-> outputs])
      /\ b.required = TotalAmount(outputs) + args.fee
      /\ plan.ok
      /\ b.unsigned # <<>>
      /\ b.unsigned = Wire(New(Selected(b.coins, args.index),
                               Outputs(args.index, outputs, plan.change)).value)
IsReserved(b) ==
  /\ b.args \in Invocations
  /\ IsSeq(b.coins) /\ b.coins # <<>>
  /\ \A i \in DOMAIN b.coins : IsCoin(b.coins[i])
  /\ \E outputs \in Payments : ReservedWith(b, outputs)
Reserved == batch.stage # "None" => IsReserved(batch)

Progress ==
  op.pc \in {"register", "ask", "askVaa", "apply"} =>
    /\ batch.stage = "Constructed"
    /\ StoredPayload.index = op.args.index
    /\ Restored.ok

\* The signers of an answer are numbers.
Signed(answer) ==
  /\ IsSeq(answer.signatures)
  /\ \A k \in DOMAIN answer.signatures : answer.signatures[k].signer \in Int

Answers ==
  op.pc \in {"askVaa", "apply"} =>
    /\ Signed(op.answer)
    /\ \A k \in DOMAIN op.answer.signatures : op.answer.signatures[k].signer \in Nat

Registrations ==
  /\ \A s \in DOMAIN registry : s \in 1 .. number /\ Signed(registry[s].answer)
  /\ number \in DOMAIN registry =>
       /\ batch.stage # "None"
       /\ registry[number].payload = batch.payload
       /\ registry[number].unsigned = batch.unsigned

\* The coins as derive_confirmed_change has them, without redeem scripts.
Plain(coins) ==
  [i \in DOMAIN coins |->
     [txid |-> Reversed(coins[i].txid), vout |-> coins[i].vout, redeem |-> 81]]

\* A signed batch has all its fields, and the change it was made with.
IsSigned(b) ==
  LET payload  == ParsePayload(b.payload).value
      restored == FromPersisted(b.unsigned, Plain(b.coins))
  IN  /\ b = [stage |-> b.stage, payload |-> b.payload, required |-> b.required,
              coins |-> b.coins, unsigned |-> b.unsigned, args |-> b.args,
              tx |-> b.tx, change |-> b.change]
      /\ b.change \in Nat
      /\ b.tx.outputs = Outputs(payload.index, payload.outputs, b.change)
      /\ restored.ok /\ restored.value.outputs = b.tx.outputs
Bookable == batch.stage \in {"Signed", "Broadcast"} => IsSigned(batch)

Strengthening ==
  Control /\ Coins /\ Reserved /\ Progress /\ Answers /\ Registrations /\ Bookable

IInv == Strengthening /\ SignedIsThePayment

-----------------------------------------------------------------------------
(* The transaction, restored. *)

\* What is restored is what is built of the same coins, and its encoding is the
\* one that is stored.
LEMMA RestoredIsNew ==
  ASSUME NEW bytes, NEW selected, FromPersisted(bytes, selected).ok
  PROVE  LET tx == FromPersisted(bytes, selected)
         IN  /\ tx = New(selected, tx.value.outputs)
             /\ Wire(tx.value) = bytes
<1>1. PICK outputs : /\ FromPersisted(bytes, selected) = New(selected, outputs)
                     /\ Wire(New(selected, outputs).value) = bytes
  BY DEF FromPersisted, None
<1>2. New(selected, outputs).value.outputs = outputs
  <2>1. New(selected, outputs).ok
    BY <1>1
  <2>2. Built(New(selected, outputs).value, selected, outputs)
    BY <2>1, NewFacts
  <2> QED BY <2>2 DEF Built
<1> QED BY <1>1, <1>2

\* The redeem scripts are not stored: coins that are the same but for them
\* restore the same.
LEMMA RestoredAlike ==
  ASSUME NEW bytes, NEW S, NEW a \in Seq(S), NEW b \in Seq(S), Len(a) = Len(b),
         \A i \in 1 .. Len(a) : a[i].txid = b[i].txid /\ a[i].vout = b[i].vout,
         FromPersisted(bytes, a).ok
  PROVE  /\ FromPersisted(bytes, b).ok
         /\ FromPersisted(bytes, b).value.outputs = FromPersisted(bytes, a).value.outputs
<1> DEFINE n == Len(a)
           inputs  == ReadCount(bytes, 2)
           outputs == ReadCount(bytes, inputs.next + 4 * inputs.n)
           read    == ReadOutputs(bytes, outputs.next, outputs.n)
           input(i) == SubSeq(bytes, inputs.next + 4 * (i - 1), inputs.next + 4 * i - 1)
           One(s) == /\ s # <<>>
                     /\ bytes # <<>> /\ bytes[1] = TX_VERSION
                     /\ inputs.n = Len(s) /\ inputs.n <= MaxPersistedInputs
                     /\ outputs.n \in 1 .. MaxPersistedOutputs
                     /\ \A i \in 1 .. inputs.n :
                          input(i) = <<Reversed(s[i].txid), s[i].vout, 0, SEQUENCE_FINAL>>
                     /\ read.ok
                     /\ read.at = Len(bytes) /\ bytes[read.at] = 0
                     /\ Wire(New(s, read.outputs).value) = bytes
<1>1. \A s : FromPersisted(bytes, s) = IF One(s) THEN New(s, read.outputs) ELSE None
  BY DEF FromPersisted
<1> HIDE DEF inputs, outputs, read, input
<1>2. One(a) /\ New(a, read.outputs).ok
  BY <1>1 DEF None
<1>3. n \in Nat /\ DOMAIN a = 1 .. n /\ DOMAIN b = 1 .. n /\ b # <<>>
  BY <1>2
<1>4. New(b, read.outputs).ok
  BY <1>2, <1>3, NewOk
<1>5. [i \in DOMAIN a |-> InputOf(a[i])] = [i \in DOMAIN b |-> InputOf(b[i])]
  BY <1>3 DEF InputOf
<1>8. /\ Built(New(a, read.outputs).value, a, read.outputs)
      /\ Built(New(b, read.outputs).value, b, read.outputs)
  BY <1>2, <1>4, NewFacts
<1>6. Wire(New(a, read.outputs).value) = Wire(New(b, read.outputs).value)
  <2> DEFINE x == New(a, read.outputs).value
             y == New(b, read.outputs).value
  <2>1. x.version = y.version /\ x.inputs = y.inputs /\ x.outputs = y.outputs
          /\ x.locktime = y.locktime
    BY <1>5, <1>8 DEF Built
  <2> HIDE DEF x, y
  <2>2. Wire(x) = Wire(y)
    BY <2>1 DEF Wire
  <2> QED BY <2>2 DEF x, y
<1>7. One(b)
  BY <1>2, <1>3, <1>6
<1>9. /\ New(a, read.outputs).value.outputs = read.outputs
      /\ New(b, read.outputs).value.outputs = read.outputs
  BY <1>8 DEF Built
<1> HIDE DEF One
<1> QED BY <1>1, <1>2, <1>4, <1>7, <1>9

\* prepared_from_reservation, when it succeeds.
PreparedAs(args, payload, coins, required, stored, tx, change) ==
  LET plan == PlanCustody(TotalSats(coins), TotalAmount(payload.outputs), args.fee, args.dust)
      selected == Selected(coins, payload.index)
  IN  /\ required = TotalAmount(payload.outputs) + args.fee
      /\ plan.ok /\ change = plan.change
      /\ Redeemable(Threshold, ManagerSet(payload.index).keys)
      /\ \A i \in DOMAIN coins : coins[i].script = Hash160(selected[i].redeem)
      /\ New(selected, tx.outputs).ok /\ tx = New(selected, tx.outputs).value
      /\ tx.outputs = Outputs(payload.index, payload.outputs, change)
      /\ stored # <<>> => /\ Wire(tx) = stored
                         /\ FromPersisted(stored, selected).ok
                         /\ FromPersisted(stored, selected).value = tx

LEMMA PreparedFacts ==
  ASSUME NEW args, NEW payload, NEW coins, NEW required, NEW stored,
         Prepared(args, payload, coins, required, stored).ok
  PROVE  LET prepared == Prepared(args, payload, coins, required, stored).value
         IN  PreparedAs(args, payload, coins, required, stored, prepared.tx, prepared.change)
<1> DEFINE set      == ManagerSet(payload.index)
           plan     == PlanCustody(TotalSats(coins), TotalAmount(payload.outputs),
                                   args.fee, args.dust)
           selected == Selected(coins, payload.index)
           change   == IF plan.change = 0 THEN <<>>
                       ELSE <<[amount |-> plan.change, kind |-> P2sh,
                               address |-> CustodyScript(Zero, payload.index)]>>
           tx       == IF stored = <<>> THEN New(selected, payload.outputs \o change)
                                        ELSE FromPersisted(stored, selected)
<1>1. /\ required = TotalAmount(payload.outputs) + args.fee
      /\ plan.ok
      /\ Redeemable(set.m, set.keys)
      /\ \A i \in DOMAIN coins : coins[i].script = Hash160(selected[i].redeem)
      /\ tx.ok /\ tx.value.outputs = payload.outputs \o change
      /\ stored = <<>> \/ Wire(tx.value) = stored
      /\ Prepared(args, payload, coins, required, stored).value =
           [tx |-> tx.value, change |-> plan.change]
  BY DEF Prepared, Some, None, Selected
<1>2. payload.outputs \o change = Outputs(payload.index, payload.outputs, plan.change)
  BY DEF Outputs
<1>3. set.m = Threshold
  BY DEF ManagerSet
<1> HIDE DEF selected, change, plan, set
<1>4. /\ New(selected, tx.value.outputs).ok
      /\ tx.value = New(selected, tx.value.outputs).value
  <2>1. CASE stored = <<>>
    <3>1. tx = New(selected, payload.outputs \o change)
      BY <2>1
    <3> QED BY <1>1, <3>1
  <2>2. CASE stored # <<>>
    <3>1. tx = FromPersisted(stored, selected)
      BY <2>2
    <3> HIDE DEF tx
    <3>2. tx = New(selected, tx.value.outputs)
      BY <1>1, <3>1, RestoredIsNew
    <3> QED BY <1>1, <3>2
  <2> QED BY <2>1, <2>2
<1>5. stored # <<>> => tx = FromPersisted(stored, selected)
  OBVIOUS
<1> HIDE DEF tx
<1> QED BY <1>1, <1>2, <1>3, <1>4, <1>5 DEF PreparedAs, selected, plan, set

-----------------------------------------------------------------------------
(* What the Managers sign, and what unlocks the coins. *)

\* A transaction and an input with other inputs and another script.
Spending(inputs, outputs, redeem) ==
  [version |-> TX_VERSION, inputs |-> inputs, outputs |-> outputs, locktime |-> 0,
   redeem |-> redeem]
Unlocked(selected, scriptSig) ==
  [txid |-> Reversed(selected.txid), vout |-> selected.vout, scriptSig |-> scriptSig,
   sequence |-> SEQUENCE_FINAL]

LEMMA OtherInputs ==
  ASSUME NEW inputs, NEW others, NEW outputs, NEW redeem
  PROVE  [Spending(inputs, outputs, redeem) EXCEPT !.inputs = others]
           = Spending(others, outputs, redeem)
BY DEF Spending

LEMMA OtherScript ==
  ASSUME NEW selected, NEW scriptSig, NEW other
  PROVE  [Unlocked(selected, scriptSig) EXCEPT !.scriptSig = other] = Unlocked(selected, other)
BY DEF Unlocked

LEMMA BuiltSpends ==
  ASSUME NEW tx, NEW selected, NEW outputs, Built(tx, selected, outputs)
  PROVE  /\ tx = Spending([i \in DOMAIN selected |-> Unlocked(selected[i], <<>>)], outputs,
                          [i \in DOMAIN selected |-> selected[i].redeem])
         /\ tx.inputs = [i \in DOMAIN selected |-> Unlocked(selected[i], <<>>)]
<1>1. [i \in DOMAIN selected |-> InputOf(selected[i])]
        = [i \in DOMAIN selected |-> Unlocked(selected[i], <<>>)]
  BY DEF InputOf, Unlocked
<1>2. tx = [version  |-> TX_VERSION,
           inputs   |-> [i \in DOMAIN selected |-> InputOf(selected[i])],
           outputs  |-> outputs, locktime |-> 0,
           redeem   |-> [i \in DOMAIN selected |-> selected[i].redeem]]
  BY DEF Built
<1>3. tx.inputs = [i \in DOMAIN selected |-> InputOf(selected[i])]
  BY DEF Built
<1> QED BY <1>1, <1>2, <1>3 DEF Spending

\* The scripts of the inputs are not signed.
LEMMA ScriptsAreNotSigned ==
  ASSUME NEW selected, NEW outputs, NEW redeem, NEW scripts, NEW others, NEW i
  PROVE  SighashAll(Spending([j \in DOMAIN selected |-> Unlocked(selected[j], scripts[j])],
                             outputs, redeem), i)
           = SighashAll(Spending([j \in DOMAIN selected |-> Unlocked(selected[j], others[j])],
                                 outputs, redeem), i)
<1> DEFINE ins(s) == [j \in DOMAIN selected |-> Unlocked(selected[j], s[j])]
           script(j) == IF j = i THEN <<redeem[i]>> ELSE <<>>
           commit == [j \in DOMAIN selected |-> Unlocked(selected[j], script(j))]
<1>1. ASSUME NEW s
      PROVE  SighashAll(Spending(ins(s), outputs, redeem), i)
               = DoubleSha(Append(Wire(Spending(commit, outputs, redeem)), SIGHASH_ALL))
  <2> DEFINE tx == Spending(ins(s), outputs, redeem)
  <2>1. tx.inputs = ins(s) /\ tx.redeem = redeem
    BY DEF Spending
  <2>2. DOMAIN ins(s) = DOMAIN selected
    OBVIOUS
  <2>3. \A j \in DOMAIN selected :
          [ins(s)[j] EXCEPT !.scriptSig = script(j)] = Unlocked(selected[j], script(j))
    <3>1. TAKE j \in DOMAIN selected
    <3>2. ins(s)[j] = Unlocked(selected[j], s[j])
      OBVIOUS
    <3> HIDE DEF ins, script
    <3> QED BY <3>2, OtherScript
  <2>4. [tx EXCEPT !.inputs = commit] = Spending(commit, outputs, redeem)
    <3> HIDE DEF ins, commit
    <3> QED BY OtherInputs
  <2> HIDE DEF ins, tx
  <2>5. [j \in DOMAIN tx.inputs |->
           [tx.inputs[j] EXCEPT !.scriptSig = IF j = i THEN <<tx.redeem[i]>> ELSE <<>>]]
          = commit
    BY <2>1, <2>2, <2>3
  <2>6. SighashAll(tx, i) =
          DoubleSha(Append(Wire([tx EXCEPT !.inputs =
            [j \in DOMAIN tx.inputs |->
               [tx.inputs[j] EXCEPT !.scriptSig = IF j = i THEN <<tx.redeem[i]>> ELSE <<>>]]]),
            SIGHASH_ALL))
    BY DEF SighashAll
  <2> HIDE DEF commit
  <2> QED BY <2>4, <2>5, <2>6 DEF tx
<1> HIDE DEF commit
<1> QED BY <1>1

\* What a node's interpreter finds in a script: OP_0, signatures, the script.
Stacked(stack, first, last, s, m) ==
  /\ Head(stack) = first /\ Last(stack) = last
  /\ SubSeq(stack, 2, Len(stack) - 1) = s /\ Len(s) = m
LEMMA Stack ==
  ASSUME NEW first, NEW last, NEW m \in Nat \ {0}, NEW s, s = [k \in 1 .. m |-> s[k]]
  PROVE  Stacked(<<first>> \o s \o <<last>>, first, last, s, m)
<1> DEFINE V == {first, last} \cup {s[k] : k \in 1 .. m}
           front == <<first>> \o s
           stack == front \o <<last>>
<1>1. s \in Seq(V) /\ Len(s) = m
  <2>1. \A k \in 1 .. m : s[k] \in V
    OBVIOUS
  <2> HIDE DEF V
  <2> QED BY <2>1, FunctionIsSeq
<1>2. <<first>> \in Seq(V) /\ Len(<<first>>) = 1 /\ <<first>>[1] = first
      /\ <<last>> \in Seq(V) /\ Len(<<last>>) = 1 /\ <<last>>[1] = last
  OBVIOUS
<1> HIDE DEF V
<1>3. /\ front \in Seq(V) /\ Len(front) = 1 + m /\ front[1] = first
      /\ \A k \in 1 .. m : front[1 + k] = s[k]
  <2>1. /\ <<first>> \o s \in Seq(V)
        /\ Len(<<first>> \o s) = Len(<<first>>) + Len(s)
        /\ \A k \in 1 .. Len(<<first>>) : (<<first>> \o s)[k] = <<first>>[k]
        /\ \A k \in 1 .. Len(s) : (<<first>> \o s)[Len(<<first>>) + k] = s[k]
    BY <1>1, <1>2, ConcatPlaces
  <2>2. 1 \in 1 .. Len(<<first>>)
    OBVIOUS
  <2> QED BY <1>1, <1>2, <2>1, <2>2
<1>4. stack = front \o <<last>> /\ m \in Nat
  OBVIOUS
<1> HIDE DEF front, stack
<1>5. /\ stack \in Seq(V) /\ Len(stack) = m + 2 /\ stack[1] = first /\ stack[m + 2] = last
      /\ \A k \in 1 .. m : stack[1 + k] = s[k]
  <2>1. /\ front \o <<last>> \in Seq(V)
        /\ Len(front \o <<last>>) = Len(front) + Len(<<last>>)
        /\ \A k \in 1 .. Len(front) : (front \o <<last>>)[k] = front[k]
        /\ \A k \in 1 .. Len(<<last>>) : (front \o <<last>>)[Len(front) + k] = <<last>>[k]
    <3>1. front \in Seq(V) /\ <<last>> \in Seq(V)
      BY <1>2, <1>3
    <3> QED BY <3>1, ConcatPlaces
  <2>2. 1 \in 1 .. Len(front) /\ \A k \in 1 .. m : 1 + k \in 1 .. Len(front)
    BY <1>3
  <2>3. 1 \in 1 .. Len(<<last>>)
    OBVIOUS
  <2>4. /\ Len(front \o <<last>>) = m + 2 /\ (front \o <<last>>)[1] = first
        /\ (front \o <<last>>)[Len(front) + 1] = last
    <3>1. Len(front \o <<last>>) = m + 2
      BY <1>2, <1>3, <1>4, <2>1
    <3>2. (front \o <<last>>)[1] = first
      BY <1>3, <2>1, <2>2
    <3>3. (front \o <<last>>)[Len(front) + 1] = last
      BY <1>2, <2>1, <2>3
    <3> QED BY <3>1, <3>2, <3>3
  <2>5. Len(front) + 1 = m + 2
    BY <1>3
  <2>6. \A k \in 1 .. m : (front \o <<last>>)[1 + k] = s[k]
    BY <1>3, <2>1, <2>2
  <2> HIDE DEF front
  <2> QED BY <1>4, <2>1, <2>4, <2>5, <2>6
<1>6. Head(stack) = first /\ Last(stack) = last
  BY <1>5 DEF Last
<1>7. SubSeq(stack, 2, Len(stack) - 1) = s
  <2>1. Len(stack) - 1 = m + 1 /\ m + 1 - 2 + 1 = m
    BY <1>4, <1>5
  <2>2. SubSeq(stack, 2, Len(stack) - 1) = [k \in 1 .. m |-> stack[1 + k]]
    BY <1>5, <2>1
  <2> QED BY <1>5, <2>2
<1> QED BY <1>1, <1>6, <1>7 DEF front, stack, Stacked

\* Signatures of the Managers who[1] to who[m] unlock the coins.
Signatures(tx, who, index, i) ==
  [k \in 1 .. Threshold |-> Signature(ManagerSet(index).keys[who[k] + 1], SighashAll(tx, i))]
SignedBy(tx, who, index) ==
  [tx EXCEPT !.inputs = [i \in DOMAIN tx.inputs |->
     [tx.inputs[i] EXCEPT !.scriptSig = ScriptSig(tx, i, Signatures(tx, who, index, i))]]]

LEMMA SignedFacts ==
  ASSUME NEW coins, NEW index, NEW outputs, NEW who, NEW tx,
         Built(tx, Selected(coins, index), outputs)
  PROVE  LET signed   == SignedBy(tx, who, index)
             selected == Selected(coins, index)
         IN  /\ signed = Spending([i \in DOMAIN coins |->
                            Unlocked(selected[i], ScriptSig(tx, i, Signatures(tx, who, index, i)))],
                            outputs, tx.redeem)
             /\ signed.inputs = [i \in DOMAIN coins |->
                            Unlocked(selected[i], ScriptSig(tx, i, Signatures(tx, who, index, i)))]
             /\ signed.outputs = outputs
             /\ [signed EXCEPT !.inputs =
                   [i \in DOMAIN @ |-> [@[i] EXCEPT !.scriptSig = <<>>]]] = tx
             /\ \A i : SighashAll(signed, i) = SighashAll(tx, i)
<1> DEFINE selected == Selected(coins, index)
           script(i) == ScriptSig(tx, i, Signatures(tx, who, index, i))
           scripts  == [i \in DOMAIN coins |-> script(i)]
           bare     == [i \in DOMAIN coins |-> Unlocked(selected[i], <<>>)]
           ins      == [i \in DOMAIN coins |-> Unlocked(selected[i], script(i))]
           signed   == SignedBy(tx, who, index)
<1>1. DOMAIN selected = DOMAIN coins
  BY DEF Selected
<1>2. tx = Spending(bare, outputs, tx.redeem) /\ tx.inputs = bare
  <2>1. tx = Spending([i \in DOMAIN selected |-> Unlocked(selected[i], <<>>)], outputs,
                      [i \in DOMAIN selected |-> selected[i].redeem])
        /\ tx.inputs = [i \in DOMAIN selected |-> Unlocked(selected[i], <<>>)]
    BY BuiltSpends
  <2>2. tx.redeem = [i \in DOMAIN selected |-> selected[i].redeem]
    BY DEF Built
  <2> QED BY <1>1, <2>1, <2>2
<1>3. [i \in DOMAIN tx.inputs |-> [tx.inputs[i] EXCEPT !.scriptSig = script(i)]] = ins
  <2>1. ASSUME NEW i \in DOMAIN coins
        PROVE  [bare[i] EXCEPT !.scriptSig = script(i)] = Unlocked(selected[i], script(i))
    <3>1. bare[i] = Unlocked(selected[i], <<>>)
      OBVIOUS
    <3> HIDE DEF bare, selected
    <3> QED BY <3>1, OtherScript
  <2>2. DOMAIN tx.inputs = DOMAIN coins
    BY <1>2
  <2> HIDE DEF script, selected
  <2> QED BY <1>2, <2>1, <2>2
<1>4. signed = [tx EXCEPT !.inputs = ins]
  <2> HIDE DEF ins
  <2> QED BY <1>3 DEF SignedBy
<1>5. signed = Spending(ins, outputs, tx.redeem)
  <2> HIDE DEF ins, bare, signed
  <2>1. [Spending(bare, outputs, tx.redeem) EXCEPT !.inputs = ins] = Spending(ins, outputs, tx.redeem)
    BY OtherInputs
  <2> QED BY <1>2, <1>4, <2>1
<1>6. signed.inputs = ins /\ signed.outputs = outputs
  <2> HIDE DEF signed, ins
  <2> QED BY <1>5 DEF Spending
<1>7. [signed EXCEPT !.inputs = [i \in DOMAIN @ |-> [@[i] EXCEPT !.scriptSig = <<>>]]] = tx
  <2>1. ASSUME NEW i \in DOMAIN coins
        PROVE  [ins[i] EXCEPT !.scriptSig = <<>>] = Unlocked(selected[i], <<>>)
    <3>1. ins[i] = Unlocked(selected[i], script(i))
      OBVIOUS
    <3> HIDE DEF ins, selected, script
    <3> QED BY <3>1, OtherScript
  <2>2. DOMAIN signed.inputs = DOMAIN coins
    <3> HIDE DEF signed
    <3> QED BY <1>6
  <2>3. [i \in DOMAIN signed.inputs |-> [signed.inputs[i] EXCEPT !.scriptSig = <<>>]] = bare
    <3> HIDE DEF signed, selected, script
    <3> QED BY <1>6, <2>1, <2>2
  <2> HIDE DEF signed, bare, ins
  <2>4. [signed EXCEPT !.inputs = bare] = Spending(bare, outputs, tx.redeem)
    BY <1>5, OtherInputs
  <2> QED BY <1>2, <2>3, <2>4
<1>8. ASSUME NEW i PROVE SighashAll(signed, i) = SighashAll(tx, i)
  <2> DEFINE none == [j \in DOMAIN coins |-> <<>>]
  <2>1. /\ ins = [j \in DOMAIN selected |-> Unlocked(selected[j], scripts[j])]
        /\ bare = [j \in DOMAIN selected |-> Unlocked(selected[j], none[j])]
    <3> HIDE DEF selected, script
    <3> QED BY <1>1
  <2>2. SighashAll(Spending([j \in DOMAIN selected |-> Unlocked(selected[j], scripts[j])],
                             outputs, tx.redeem), i)
           = SighashAll(Spending([j \in DOMAIN selected |-> Unlocked(selected[j], none[j])],
                                 outputs, tx.redeem), i)
    <3> HIDE DEF selected, scripts, none
    <3> QED BY ScriptsAreNotSigned
  <2> HIDE DEF selected, scripts, none, ins, bare, signed
  <2> QED BY <1>2, <1>5, <2>1, <2>2
<1> QED BY <1>5, <1>6, <1>7, <1>8

LEMMA Keys ==
  ASSUME NEW index
  PROVE  /\ ManagerSet(index).m = Threshold
         /\ DOMAIN ManagerSet(index).keys = 1 .. SetSize
         /\ Len(ManagerSet(index).keys) = SetSize
<1> DEFINE keys == [k \in 1 .. SetSize |-> <<index, k>>]
           S == {<<index, k>> : k \in 1 .. SetSize}
<1>1. SetSize \in Nat \ {0} /\ keys = [k \in 1 .. SetSize |-> keys[k]]
      /\ \A k \in 1 .. SetSize : keys[k] \in S
  BY SettingsAssumption
<1>2. ManagerSet(index).keys = keys /\ ManagerSet(index).m = Threshold
  BY DEF ManagerSet
<1>3. DOMAIN keys = 1 .. SetSize
  OBVIOUS
<1> HIDE DEF keys, S
<1>4. Len(keys) = SetSize
  BY <1>1, FunctionIsSeq
<1> QED BY <1>2, <1>3, <1>4

LEMMA Unlocking ==
  ASSUME NEW coins, NEW index, NEW outputs, NEW tx,
         Built(tx, Selected(coins, index), outputs),
         NEW who \in [1 .. Threshold -> 0 .. SetSize - 1],
         \A k, l \in 1 .. Threshold : k < l => who[k] < who[l],
         Redeemable(Threshold, ManagerSet(index).keys), NEW i \in DOMAIN coins,
         coins[i].script = Hash160(Selected(coins, index)[i].redeem)
  PROVE  Unlocks(SignedBy(tx, who, index), i, coins[i].script)
<1> DEFINE signed == SignedBy(tx, who, index)
           keys   == ManagerSet(index).keys
           sigs   == Signatures(tx, who, index, i)
           redeem == RedeemScript(coins[i].recipient, Threshold, keys)
           stack  == signed.inputs[i].scriptSig
           at     == [k \in 1 .. Threshold |-> who[k] + 1]
<1>1. Selected(coins, index)[i].redeem = redeem /\ tx.redeem[i] = redeem
  <2>1. Selected(coins, index)[i].redeem = redeem /\ i \in DOMAIN Selected(coins, index)
    BY Keys DEF Selected
  <2>2. tx.redeem = [j \in DOMAIN Selected(coins, index) |-> Selected(coins, index)[j].redeem]
    BY DEF Built
  <2> QED BY <2>1, <2>2
<1>2. redeem[3] = Threshold /\ redeem[4] = keys
  BY DEF RedeemScript
<1>3. Threshold \in Nat \ {0}
  BY SettingsAssumption, Keys DEF Redeemable
<1>4. sigs = [k \in 1 .. Threshold |-> sigs[k]]
      /\ \A k \in 1 .. Threshold : sigs[k] = Signature(keys[who[k] + 1], SighashAll(tx, i))
  BY DEF Signatures
<1>5. signed.inputs = [j \in DOMAIN coins |->
          Unlocked(Selected(coins, index)[j], ScriptSig(tx, j, Signatures(tx, who, index, j)))]
      /\ \A j : SighashAll(signed, j) = SighashAll(tx, j)
  BY SignedFacts
<1> HIDE DEF signed, redeem, sigs, keys
<1>6. stack = <<0>> \o sigs \o <<redeem>>
  <2>1. stack = ScriptSig(tx, i, sigs)
    BY <1>5 DEF Unlocked, sigs
  <2> QED BY <1>1, <2>1 DEF ScriptSig
<1>7. /\ Head(stack) = 0 /\ Last(stack) = redeem
      /\ SubSeq(stack, 2, Len(stack) - 1) = sigs /\ Len(sigs) = Threshold
  <2> HIDE DEF stack
  <2>1. Stacked(<<0>> \o sigs \o <<redeem>>, 0, redeem, sigs, Threshold)
    BY <1>3, <1>4, Stack
  <2> QED BY <1>6, <2>1 DEF Stacked
<1>8. /\ at \in [1 .. Threshold -> DOMAIN keys]
      /\ \A k \in 1 .. Threshold - 1 : at[k] < at[k + 1]
      /\ \A k \in 1 .. Threshold : sigs[k] = Signature(keys[at[k]], SighashAll(signed, i))
  <2>1. \A k \in 1 .. Threshold : who[k] + 1 \in DOMAIN keys
    <3>1. DOMAIN keys = 1 .. SetSize
      BY Keys DEF keys
    <3> QED BY <3>1, SettingsAssumption
  <2>2. at \in [1 .. Threshold -> DOMAIN keys]
    BY <2>1
  <2>3. ASSUME NEW k \in 1 .. Threshold - 1 PROVE at[k] < at[k + 1]
    <3>1. k \in 1 .. Threshold /\ k + 1 \in 1 .. Threshold /\ k < k + 1
      BY <1>3
    <3>2. who[k] < who[k + 1] /\ who[k] \in Int /\ who[k + 1] \in Int
      BY <3>1
    <3> QED BY <3>1, <3>2
  <2>4. \A k \in 1 .. Threshold : sigs[k] = Signature(keys[at[k]], SighashAll(signed, i))
    BY <1>4, <1>5
  <2> QED BY <2>2, <2>3, <2>4
<1> HIDE DEF at, stack
<1>9. coins[i].script = Hash160(redeem)
  BY <1>1
<1> DEFINE Under(m, ks, ss) ==
             \E f \in [1 .. m -> DOMAIN ks] :
               /\ \A k \in 1 .. m - 1 : f[k] < f[k + 1]
               /\ \A k \in 1 .. m : ss[k] = Signature(ks[f[k]], SighashAll(signed, i))
<1>10. Under(Threshold, keys, sigs)
  BY <1>8
<1>11. Under(Last(stack)[3], Last(stack)[4], SubSeq(stack, 2, Len(stack) - 1))
  <2> HIDE DEF Under
  <2>1. Last(stack)[3] = Threshold /\ Last(stack)[4] = keys
    BY <1>2, <1>7
  <2> QED BY <1>7, <1>10, <2>1
<1>12. /\ Head(stack) = 0
       /\ Hash160(Last(stack)) = coins[i].script
       /\ Len(SubSeq(stack, 2, Len(stack) - 1)) = Last(stack)[3]
  BY <1>2, <1>7, <1>9
<1> QED BY <1>11, <1>12, Zenon DEF Unlocks, stack, signed

-----------------------------------------------------------------------------
(* What is paid. *)

Planned(selected, recipient, fee, dust, change) ==
  /\ change = selected - (recipient + fee) /\ change \in Nat
  /\ change = 0 \/ change >= dust
  /\ recipient > 0
LEMMA PlanFacts ==
  ASSUME NEW selected \in Int, NEW recipient \in Int, NEW fee \in Nat, NEW dust \in Nat,
         PlanCustody(selected, recipient, fee, dust).ok
  PROVE  Planned(selected, recipient, fee, dust,
                 PlanCustody(selected, recipient, fee, dust).change)
BY DEF PlanCustody, Err, Planned

\* The outputs of a snapshot, and what is stored of them.
Places(outputs) == {outputs[i].address : i \in DOMAIN outputs}
LEMMA PaymentFacts ==
  ASSUME NEW outputs \in Payments
  PROVE  /\ outputs \in Seq([amount : Nat, kind : AddressTypes, address : Places(outputs)])
         /\ TotalAmount(outputs) \in Int
         /\ outputs = <<>> => TotalAmount(outputs) = 0
<1> DEFINE S == [amount : Nat, kind : AddressTypes, address : Places(outputs)]
<1>1. outputs \in Seq(S)
  BY SnapshotsAssumption DEF Places
<1>2. \A i \in DOMAIN outputs : outputs[i].amount \in Int
  <2>1. \A i \in DOMAIN outputs : outputs[i] \in S
    <3> HIDE DEF S
    <3> QED BY <1>1
  <2> QED BY <2>1
<1> HIDE DEF S
<1>3. /\ TotalAmount(outputs) \in Int
      /\ outputs = <<>> => TotalAmount(outputs) = 0
  BY <1>1, <1>2, TotalAmountFacts
<1> QED BY <1>1, <1>3 DEF S

\* The outputs of a transaction, and their sum.
Own(outputs, index) == Places(outputs) \cup {CustodyScript(Zero, index)}
Paying(all, outputs, index, change) ==
  /\ all \in Seq([amount : Nat, kind : AddressTypes, address : Own(outputs, index)])
  /\ TotalAmount(all) = TotalAmount(outputs) + change
  /\ Len(outputs) \in Nat
  /\ change = 0 => all = outputs
  /\ change # 0 => /\ Len(all) = Len(outputs) + 1
                   /\ Last(all) = [amount |-> change, kind |-> P2sh,
                                   address |-> CustodyScript(Zero, index)]
                   /\ \A i \in 1 .. Len(outputs) : all[i] = outputs[i]
LEMMA OutputsFacts ==
  ASSUME NEW outputs \in Payments, NEW index, NEW change \in Nat
  PROVE  Paying(Outputs(index, outputs, change), outputs, index, change)
<1> DEFINE own == Places(outputs) \cup {CustodyScript(Zero, index)}
           S == [amount : Nat, kind : AddressTypes, address : own]
           row == [amount |-> change, kind |-> P2sh, address |-> CustodyScript(Zero, index)]
           all == Outputs(index, outputs, change)
<1>1. outputs \in Seq(S) /\ row \in S
  <2>1. [amount : Nat, kind : AddressTypes, address : Places(outputs)] \subseteq S
    OBVIOUS
  <2>2. row \in S
    BY DEF AddressTypes
  <2>3. outputs \in Seq([amount : Nat, kind : AddressTypes, address : Places(outputs)])
    BY PaymentFacts
  <2> DEFINE R == [amount : Nat, kind : AddressTypes, address : Places(outputs)]
  <2> HIDE DEF S, R
  <2>4. R \subseteq S /\ outputs \in Seq(R)
    BY <2>1, <2>3 DEF R
  <2>5. outputs \in Seq(S)
    BY <2>4
  <2> QED BY <2>2, <2>5
<1>2. \A o \in S : o.amount \in Int
  OBVIOUS
<1>3. row.amount = change /\ change \in Int
  OBVIOUS
<1> HIDE DEF S, row
<1>4. CASE change = 0
  <2>1. all = outputs \o <<>>
    BY <1>4 DEF Outputs
  <2>2. outputs \o <<>> = outputs
    BY <1>1
  <2>3. TotalAmount(outputs) \in Int
    BY PaymentFacts
  <2> HIDE DEF all
  <2>4. all = outputs /\ all \in Seq(S) /\ Len(outputs) \in Nat
    BY <1>1, <2>1, <2>2
  <2>5. TotalAmount(all) = TotalAmount(outputs) + change
    BY <1>4, <2>3, <2>4
  <2> QED BY <1>4, <2>4, <2>5 DEF S, all, Paying, Own
<1>5. CASE change # 0
  <2>1. all = outputs \o <<row>>
    BY <1>5 DEF Outputs, row
  <2>2. \A i \in DOMAIN outputs : outputs[i].amount \in Int
    <3>1. \A i \in DOMAIN outputs : outputs[i] \in S
      BY <1>1
    <3> QED BY <1>2, <3>1
  <2>3. TotalAmount(outputs \o <<row>>) = TotalAmount(outputs) + change
    BY <1>1, <1>3, <2>2, TotalAmountFacts
  <2>4. /\ outputs \o <<row>> \in Seq(S)
        /\ Len(outputs \o <<row>>) = Len(outputs) + 1 /\ Len(outputs) \in Nat
        /\ (outputs \o <<row>>)[Len(outputs) + 1] = row
        /\ \A i \in 1 .. Len(outputs) : (outputs \o <<row>>)[i] = outputs[i]
    BY <1>1
  <2> HIDE DEF all
  <2>5. Last(all) = row
    BY <2>1, <2>4 DEF Last
  <2> QED BY <1>5, <2>1, <2>3, <2>4, <2>5 DEF S, all, row, Paying, Own
<1> QED BY <1>4, <1>5

\* The payload that is stored is the one of the reservation.
LEMMA StoredFacts ==
  ASSUME NEW b, NEW outputs \in Payments, ReservedWith(b, outputs)
  PROVE  ParsePayload(b.payload) =
           Some([chain |-> DOGECOIN_CHAIN_ID, index |-> b.args.index, outputs |-> outputs])
<1>1. outputs \in Seq([amount : Nat, kind : AddressTypes, address : Places(outputs)])
  BY PaymentFacts
<1>2. LET payload == [chain |-> DOGECOIN_CHAIN_ID, index |-> b.args.index, outputs |-> outputs]
      IN  ParsePayload(PayloadBytes(payload)) = Some(payload)
  BY <1>1, PayloadRoundTrip
<1> QED BY <1>2 DEF ReservedWith

LEMMA SomeFacts ==
  ASSUME NEW v PROVE Some(v).ok /\ Some(v).value = v
BY DEF Some

\* Arguments and coins.
LEMMA InvocationFacts ==
  ASSUME NEW args \in Invocations
  PROVE  args.fee \in Nat /\ args.dust \in Nat /\ args.index \in {0, 1}
BY InvocationsAssumption

LEMMA CoinsFacts ==
  ASSUME NEW coins, IsSeq(coins), \A i \in DOMAIN coins : IsCoin(coins[i])
  PROVE  /\ TotalSats(coins) \in Int
         /\ Len(coins) \in Nat /\ DOMAIN coins = 1 .. Len(coins)
<1>1. coins \in Seq(ToSet(coins))
  BY DEF IsSeq
<1>2. \A i \in DOMAIN coins : coins[i].sats \in Int
  BY DEF IsCoin
<1> QED BY <1>1, <1>2, TotalSatsFacts

LEMMA SeqOfItself ==
  ASSUME NEW S, NEW s \in Seq(S)
  PROVE  IsSeq(s)
<1>1. s \in [1 .. Len(s) -> ToSet(s)] /\ Len(s) \in Nat
  BY DEF ToSet
<1> QED BY <1>1 DEF IsSeq

LEMMA SelectedFacts ==
  ASSUME NEW coins, IsSeq(coins), NEW index
  PROVE  /\ IsSeq(Selected(coins, index)) /\ IsSeq(Plain(coins))
         /\ Len(Selected(coins, index)) = Len(coins) /\ Len(Plain(coins)) = Len(coins)
         /\ DOMAIN coins = 1 .. Len(coins) /\ Len(coins) \in Nat
         /\ coins = <<>> <=> Selected(coins, index) = <<>>
<1> DEFINE P(c) == [txid |-> Reversed(c.txid), vout |-> c.vout, redeem |-> 81]
           Q(c) == [txid |-> Reversed(c.txid), vout |-> c.vout,
                    redeem |-> RedeemScript(c.recipient, ManagerSet(index).m,
                                            ManagerSet(index).keys)]
           SP == {P(c) : c \in ToSet(coins)}
           SQ == {Q(c) : c \in ToSet(coins)}
           n == Len(coins)
<1>1. n \in Nat /\ DOMAIN coins = 1 .. n /\ \A i \in 1 .. n : coins[i] \in ToSet(coins)
  BY DEF IsSeq
<1>2. Plain(coins) = [i \in 1 .. n |-> P(coins[i])]
      /\ Selected(coins, index) = [i \in 1 .. n |-> Q(coins[i])]
  BY <1>1 DEF Plain, Selected
<1>3. \A i \in 1 .. n : P(coins[i]) \in SP /\ Q(coins[i]) \in SQ
  BY <1>1
<1> HIDE DEF P, Q, SP, SQ, n
<1>4. Plain(coins) \in [1 .. n -> SP] /\ Selected(coins, index) \in [1 .. n -> SQ]
  BY <1>2, <1>3
<1>5. /\ Plain(coins) \in Seq(SP) /\ Len(Plain(coins)) = n
      /\ Selected(coins, index) \in Seq(SQ) /\ Len(Selected(coins, index)) = n
  BY <1>1, <1>4
<1>6. coins = <<>> <=> Selected(coins, index) = <<>>
  <2>1. coins = <<>> <=> n = 0
    BY DEF n, IsSeq
  <2>2. Selected(coins, index) = <<>> <=> n = 0
    BY <1>5
  <2> QED BY <2>1, <2>2
<1>7. IsSeq(Selected(coins, index)) /\ IsSeq(Plain(coins))
  BY <1>5, SeqOfItself
<1> QED BY <1>1, <1>5, <1>6, <1>7 DEF n

\* What is built has an encoding, which is not empty.
LEMMA BuiltIsTx ==
  ASSUME NEW coins, IsSeq(coins), coins # <<>>, NEW index, NEW tx, NEW outputs, NEW A,
         Built(tx, Selected(coins, index), outputs),
         outputs \in Seq([amount : Nat, kind : AddressTypes, address : A]), outputs # <<>>
  PROVE  \E V : A \subseteq V /\ IsTx(tx, V)
<1> DEFINE V == Int \cup A \cup {Reversed(Reversed(c.txid)) : c \in ToSet(coins)}
                  \cup {c.vout : c \in ToSet(coins)}
           n == Len(coins)
           selected == Selected(coins, index)
           I == [txid : V, vout : V, scriptSig : Seq(V), sequence : V]
           O == [amount : V, kind : AddressTypes, address : V]
           P == [amount : Nat, kind : AddressTypes, address : A]
<1>1. /\ DOMAIN coins = 1 .. n /\ n \in Nat /\ n # 0
      /\ \A i \in 1 .. n : coins[i] \in ToSet(coins)
  BY DEF IsSeq
<1>2. Int \subseteq V /\ A \subseteq V /\ \A c \in ToSet(coins) :
        Reversed(Reversed(c.txid)) \in V /\ c.vout \in V
  OBVIOUS
<1>3. SEQUENCE_FINAL \in V /\ TX_VERSION \in V /\ 0 \in V
  BY CountsAssumption DEF SEQUENCE_FINAL, TX_VERSION
<1> HIDE DEF V, n
<1>4. tx.inputs = [i \in 1 .. n |-> InputOf(selected[i])]
  <2>1. tx.inputs = [i \in DOMAIN selected |-> InputOf(selected[i])]
    BY DEF Built
  <2>2. DOMAIN selected = 1 .. n
    BY <1>1 DEF Selected
  <2> QED BY <2>1, <2>2
<1>5. ASSUME NEW i \in 1 .. n PROVE InputOf(selected[i]) \in I
  <2>1. selected[i].txid = Reversed(coins[i].txid) /\ selected[i].vout = coins[i].vout
    BY <1>1 DEF Selected
  <2>2. Reversed(selected[i].txid) \in V /\ selected[i].vout \in V
    BY <1>1, <1>2, <2>1
  <2>3. <<>> \in Seq(V)
    OBVIOUS
  <2> HIDE DEF selected
  <2> QED BY <1>3, <2>2, <2>3 DEF InputOf
<1> HIDE DEF I, selected
<1>6. tx.inputs \in Seq(I) /\ Len(tx.inputs) = n /\ tx.inputs # <<>>
  <2> DEFINE f == tx.inputs
  <2>1. f = [i \in 1 .. n |-> f[i]] /\ \A i \in 1 .. n : f[i] \in I
    BY <1>4, <1>5
  <2>2. n \in Nat \ {0}
    BY <1>1
  <2> HIDE DEF f
  <2>3. f \in Seq(I) /\ Len(f) = n /\ f # <<>>
    BY <2>1, <2>2, FunctionIsSeq
  <2> QED BY <2>3 DEF f
<1>7. P \subseteq O
  <2>1. Nat \subseteq V
    BY <1>2
  <2> QED BY <1>2, <2>1
<1>8. outputs \in Seq(O)
  <2>1. outputs \in Seq(P)
    OBVIOUS
  <2> HIDE DEF O, P
  <2> QED BY <1>7, <2>1
<1>9. tx.outputs = outputs /\ tx.version = TX_VERSION /\ tx.locktime = 0
  BY DEF Built
<1>10. IsTx(tx, V)
  BY <1>2, <1>3, <1>6, <1>8, <1>9 DEF IsTx, I, O
<1> QED BY <1>2, <1>10

LEMMA WireNotEmpty ==
  ASSUME NEW tx, NEW V, IsTx(tx, V)
  PROVE  Wire(tx) # <<>>
<1>1. Len(Wire(tx)) = OutputsEnd(tx) + 1 /\ OutputsEnd(tx) \in Nat
  BY WirePlaces DEF WireStands
<1> QED BY <1>1

-----------------------------------------------------------------------------
(* The invariant holds at first, and after every step of an operator that    *)
(* leaves the store alone.                                                   *)

\* SignedIsThePayment, of a batch.
ThePayment(b) ==
  LET tx       == b.tx
      coins    == b.coins
      payload  == ParsePayload(b.payload).value
      outputs  == payload.outputs
      unsigned == [tx EXCEPT !.inputs = [i \in DOMAIN @ |-> [@[i] EXCEPT !.scriptSig = <<>>]]]
  IN  /\ Wire(unsigned) = b.unsigned
      /\ Len(tx.inputs) = Len(coins)
      /\ \A i \in DOMAIN coins :
           /\ tx.inputs[i].txid = coins[i].txid /\ tx.inputs[i].vout = coins[i].vout
           /\ Unlocks(tx, i, coins[i].script)
      /\ IsPrefix(outputs, tx.outputs) /\ Len(tx.outputs) <= Len(outputs) + 1
      /\ Len(tx.outputs) > Len(outputs) =>
           /\ Last(tx.outputs).kind = P2sh
           /\ Last(tx.outputs).address = CustodyScript(Zero, payload.index)
           /\ Last(tx.outputs).amount >= b.args.dust
      /\ TotalSats(coins) - TotalAmount(tx.outputs) = b.args.fee

LEMMA PaymentOfBatch ==
  SignedIsThePayment <=> (batch.stage \in {"Signed", "Broadcast"} => ThePayment(batch))
BY Zenon DEF SignedIsThePayment, ThePayment, StoredPayload

LEMMA PaymentOfNextBatch ==
  SignedIsThePayment' <=> (batch'.stage \in {"Signed", "Broadcast"} => ThePayment(batch'))
BY Zenon DEF SignedIsThePayment, ThePayment, StoredPayload

LEMMA StoreKept ==
  ASSUME IInv, batch' = batch, custody' = custody
  PROVE  Coins' /\ Reserved' /\ Bookable' /\ SignedIsThePayment'
<1>1. Coins'
  BY DEF IInv, Strengthening, Coins
<1>2. Reserved'
  BY DEF IInv, Strengthening, Reserved
<1>3. Bookable'
  BY DEF IInv, Strengthening, Bookable
<1>4. SignedIsThePayment'
  BY PaymentOfBatch, PaymentOfNextBatch DEF IInv
<1> QED BY <1>1, <1>2, <1>3, <1>4

\* An operator that is not at the Managers'.
LEMMA Elsewhere ==
  ASSUME IInv, batch' = batch, custody' = custody, registry' = registry, number' = number,
         Control', op'.pc \notin {"register", "ask", "askVaa", "apply"}
  PROVE  IInv'
<1>1. Coins' /\ Reserved' /\ Bookable' /\ SignedIsThePayment'
  BY StoreKept
<1>2. Progress' /\ Answers'
  BY DEF Progress, Answers
<1>3. Registrations'
  BY DEF IInv, Strengthening, Registrations
<1> QED BY <1>1, <1>2, <1>3 DEF IInv, Strengthening

LEMMA FailKeeps ==
  ASSUME IInv, NEW why, Fail(why)
  PROVE  IInv'
<1>1. op'.pc = "idle" /\ batch' = batch /\ custody' = custody /\ registry' = registry
      /\ number' = number
  BY DEF Fail, Idle
<1>2. Control'
  BY <1>1 DEF IInv, Strengthening, Control, Fail
<1> QED BY <1>1, <1>2, Elsewhere

LEMMA InitIInv ==
  ASSUME Init PROVE IInv
<1>1. batch.stage = "None" /\ op.pc = "idle" /\ registry = [s \in {} |-> <<>>] /\ number = 1
  BY DEF Init, NoBatch, Idle
<1>2. Control
  <2>1. service \in {"local", "guardians"} /\ mined = FALSE /\ faults = 0
    BY DEF Init
  <2>2. number \in Nat \ {0}
    BY <1>1
  <2>3. /\ batch.stage \in {"None", "Constructed", "Signed", "Broadcast"}
        /\ op.pc \in {"idle", "reserve", "continue", "register", "ask",
                     "askVaa", "apply", "broadcast", "book"}
    BY <1>1
  <2> QED BY <1>1, <2>1, <2>2, <2>3 DEF Control
<1>3. Coins
  <2>1. PICK index \in {0, 1}, label \in {"key-1", "key-2"} :
          custody = {LET first == d = Head(Deposits)
                     IN  [txid |-> d.txid, vout |-> 0, sats |-> d.sats,
                          recipient |-> d.recipient,
                          script |-> CustodyScript(d.recipient, IF first THEN index ELSE 0),
                          keyRef |-> IF first THEN label ELSE "key-1"]
                     : d \in ToSet(Deposits)}
    BY DEF Init
  <2> DEFINE row(d) == [txid |-> d.txid, vout |-> 0, sats |-> d.sats,
                        recipient |-> d.recipient,
                        script |-> CustodyScript(d.recipient, IF d = Head(Deposits) THEN index ELSE 0),
                        keyRef |-> IF d = Head(Deposits) THEN label ELSE "key-1"]
             rows == [i \in DOMAIN Deposits |-> row(Deposits[i])]
  <2>2. custody = {row(d) : d \in ToSet(Deposits)}
    BY <2>1
  <2>3. \A d \in ToSet(Deposits) : IsCoin(row(d))
    BY FundsAssumption DEF IsCoin
  <2>4. DOMAIN Deposits = 1 .. Len(Deposits) /\ Len(Deposits) \in Nat
    BY FundsAssumption
  <2>5. IsFiniteSet(custody)
    <3>1. rows \in [1 .. Len(Deposits) -> custody]
      <4>1. \A i \in DOMAIN Deposits : row(Deposits[i]) \in custody
        <5> HIDE DEF row
        <5> QED BY <2>2 DEF ToSet
      <4> HIDE DEF row
      <4> QED BY <2>4, <4>1
    <3>2. \A c \in custody : \E i \in 1 .. Len(Deposits) : rows[i] = c
      <4>1. TAKE c \in custody
      <4>2. PICK d \in ToSet(Deposits) : c = row(d)
        BY <2>2
      <4>3. PICK i \in DOMAIN Deposits : d = Deposits[i]
        BY DEF ToSet
      <4> HIDE DEF row
      <4> QED BY <2>4, <4>2, <4>3
    <3>3. rows \in Surjection(1 .. Len(Deposits), custody)
      <4> HIDE DEF rows
      <4> QED BY <3>1, <3>2 DEF Surjection
    <3>4. ExistsSurjection(1 .. Len(Deposits), custody)
      BY <3>3 DEF ExistsSurjection
    <3> QED BY <2>4, <3>4, FS_NatSurjection
  <2> HIDE DEF row, rows
  <2> QED BY <2>2, <2>3, <2>5 DEF Coins
<1>4. Reserved /\ Bookable /\ SignedIsThePayment /\ Progress /\ Answers
  BY <1>1 DEF Reserved, Bookable, SignedIsThePayment, Progress, Answers
<1>5. Registrations
  BY <1>1 DEF Registrations
<1> QED BY <1>2, <1>3, <1>4, <1>5 DEF IInv, Strengthening

LEMMA StartKeeps ==
  ASSUME IInv, Start PROVE IInv'
<1>1. PICK args \in Invocations :
        op' = [pc |-> IF batch.stage = "None" THEN "reserve" ELSE "continue", args |-> args]
        /\ failure' = "none"
  BY DEF Start, Goto
<1>2. /\ op'.pc = IF batch.stage = "None" THEN "reserve" ELSE "continue"
      /\ op'.args = args /\ op' = [pc |-> op'.pc, args |-> op'.args]
  BY <1>1
<1>3. /\ batch' = batch /\ custody' = custody /\ registry' = registry /\ number' = number
      /\ service' = service /\ mined' = mined /\ faults' = faults
  BY DEF Start
<1>4. Control'
  BY <1>1, <1>2, <1>3 DEF IInv, Strengthening, Control
<1> QED BY <1>2, <1>3, <1>4, Elsewhere

LEMMA ContinueKeeps ==
  ASSUME IInv, Continue PROVE IInv'
<1>1. CASE StoredPayload.index # op.args.index
  BY <1>1, FailKeeps DEF Continue
<1>2. CASE StoredPayload.index = op.args.index /\ batch.stage = "Constructed" /\ ~Restored.ok
  BY <1>2, FailKeeps DEF Continue
<1>3. CASE StoredPayload.index = op.args.index /\ ~(batch.stage = "Constructed" /\ ~Restored.ok)
  <2> DEFINE pc == CASE batch.stage = "Constructed" /\ op.args.signing -> "register"
                     [] batch.stage = "Constructed" /\ ~op.args.signing -> "ask"
                     [] batch.stage = "Signed"    -> "broadcast"
                     [] batch.stage = "Broadcast" -> "book"
  <2>1. /\ op.pc = "continue" /\ op' = [op EXCEPT !.pc = pc] /\ failure' = "none"
        /\ batch' = batch /\ custody' = custody /\ registry' = registry /\ number' = number
        /\ service' = service /\ mined' = mined /\ faults' = faults
    BY <1>3 DEF Continue, Goto
  <2>2. op = [pc |-> op.pc, args |-> op.args] /\ op.args \in Invocations
        /\ batch.stage \in {"Constructed", "Signed", "Broadcast"}
    BY <2>1 DEF IInv, Strengthening, Control
  <2>3. /\ batch.stage = "Constructed" => pc \in {"register", "ask"}
        /\ batch.stage = "Signed" => pc = "broadcast"
        /\ batch.stage = "Broadcast" => pc = "book"
    BY InvocationsAssumption
  <2> HIDE DEF pc
  <2>4. op' = [pc |-> pc, args |-> op.args] /\ op'.pc = pc /\ op'.args = op.args
    <3>1. [[pc |-> op.pc, args |-> op.args] EXCEPT !.pc = pc] = [pc |-> pc, args |-> op.args]
      OBVIOUS
    <3>2. op' = [pc |-> pc, args |-> op.args]
      BY <2>1, <2>2, <3>1
    <3> QED BY <3>2
  <2>5. Control'
    BY <2>1, <2>2, <2>3, <2>4 DEF IInv, Strengthening, Control
  <2>6. Progress'
    BY <1>3, <2>1, <2>2, <2>3, <2>4 DEF Progress, StoredPayload, Restored
  <2>7. Answers'
    BY <2>2, <2>3, <2>4 DEF Answers
  <2>8. Registrations'
    BY <2>1 DEF IInv, Strengthening, Registrations
  <2>9. Coins' /\ Reserved' /\ Bookable' /\ SignedIsThePayment'
    BY <2>1, StoreKept
  <2> QED BY <2>5, <2>6, <2>7, <2>8, <2>9 DEF IInv, Strengthening
<1> QED BY <1>1, <1>2, <1>3

LEMMA CrashKeeps ==
  ASSUME IInv, Crash PROVE IInv'
<1>1. /\ op'.pc = "idle" /\ batch' = batch /\ custody' = custody /\ registry' = registry
      /\ number' = number /\ service' = service /\ mined' = mined /\ faults' = faults + 1
  BY DEF Crash, Idle
<1>2. Control'
  BY <1>1 DEF IInv, Strengthening, Control
<1> QED BY <1>1, <1>2, Elsewhere

LEMMA RestartServiceKeeps ==
  ASSUME IInv, RestartService PROVE IInv'
<1>1. /\ registry' = [s \in {} |-> <<>>] /\ op' = op /\ failure' = failure
      /\ batch' = batch /\ custody' = custody
      /\ number' = number /\ service' = service /\ mined' = mined /\ faults' = faults + 1
  BY DEF RestartService
<1>2. Control'
  BY <1>1 DEF IInv, Strengthening, Control
<1>3. Progress'
  BY <1>1 DEF IInv, Strengthening, Progress, StoredPayload, Restored
<1>4. Answers'
  BY <1>1 DEF IInv, Strengthening, Answers, Signed
<1>5. Registrations'
  BY <1>1 DEF Registrations
<1>6. Coins' /\ Reserved' /\ Bookable' /\ SignedIsThePayment'
  BY <1>1, StoreKept
<1> QED BY <1>2, <1>3, <1>4, <1>5, <1>6 DEF IInv, Strengthening

LEMMA MineKeeps ==
  ASSUME IInv, Mine PROVE IInv'
<1>1. /\ mined' = TRUE /\ op' = op /\ failure' = failure /\ registry' = registry
      /\ batch' = batch /\ custody' = custody /\ batch.stage = "Broadcast"
      /\ number' = number /\ service' = service /\ faults' = faults
  BY DEF Mine
<1>2. Control'
  BY <1>1 DEF IInv, Strengthening, Control
<1>3. Progress'
  BY <1>1 DEF IInv, Strengthening, Progress, StoredPayload, Restored
<1>4. Answers'
  BY <1>1 DEF IInv, Strengthening, Answers, Signed
<1>5. Registrations'
  BY <1>1 DEF IInv, Strengthening, Registrations, Signed
<1>6. Coins' /\ Reserved' /\ Bookable' /\ SignedIsThePayment'
  BY <1>1, StoreKept
<1> QED BY <1>2, <1>3, <1>4, <1>5, <1>6 DEF IInv, Strengthening

-----------------------------------------------------------------------------
(* A reservation. *)

LEMMA Distinct ==
  ASSUME NEW S, IsFiniteSet(S)
  PROVE  /\ SetToSeq(S) \in Seq(S) /\ Len(SetToSeq(S)) = Cardinality(S)
         /\ DOMAIN SetToSeq(S) = 1 .. Cardinality(S) /\ Cardinality(S) \in Nat
         /\ \A i, j \in DOMAIN SetToSeq(S) : SetToSeq(S)[i] = SetToSeq(S)[j] => i = j
         /\ \A i \in DOMAIN SetToSeq(S) : SetToSeq(S)[i] \in S
<1> DEFINE n == Cardinality(S)
           s == SetToSeq(S)
<1>1. n \in Nat /\ ExistsBijection(1 .. n, S)
  BY FS_CardinalityType
<1>2. PICK f \in [1 .. n -> S] : IsInjective(f)
  BY <1>1 DEF ExistsBijection, Bijection, Injection
<1>3. s = CHOOSE g \in [1 .. n -> S] : IsInjective(g)
  BY DEF SetToSeq
<1>4. s \in [1 .. n -> S] /\ IsInjective(s)
  <2> HIDE DEF s, n
  <2> QED BY <1>2, <1>3
<1> HIDE DEF s, n
<1>5. s \in Seq(S) /\ Len(s) = n /\ DOMAIN s = 1 .. n
  BY <1>1, <1>4
<1>6. \A i, j \in DOMAIN s : s[i] = s[j] => i = j
  BY <1>4 DEF IsInjective
<1>7. \A i \in DOMAIN s : s[i] \in S
  BY <1>4
<1> QED BY <1>1, <1>5, <1>6, <1>7 DEF s, n

\* The transaction that is prepared is one, and is what is stored of it.
LEMMA PreparedIsTx ==
  ASSUME NEW args \in Invocations, NEW outputs \in Payments, NEW coins, NEW required,
         NEW payload, payload.outputs = outputs,
         NEW stored, NEW tx, NEW change, IsSeq(coins), \A i \in DOMAIN coins : IsCoin(coins[i]),
         PreparedAs(args, payload, coins, required, stored, tx, change)
  PROVE  /\ coins # <<>> /\ Wire(tx) # <<>>
         /\ Built(tx, Selected(coins, payload.index), Outputs(payload.index, outputs, change))
         /\ tx.outputs = Outputs(payload.index, outputs, change)
         /\ change \in Nat /\ (change = 0 \/ change >= args.dust)
         /\ change = TotalSats(coins) - (TotalAmount(outputs) + args.fee)
         /\ outputs # <<>>
         /\ Len(tx.inputs) = Len(coins)
         /\ \E V : IsTx(tx, V)
<1> DEFINE selected == Selected(coins, payload.index)
           all == Outputs(payload.index, outputs, change)
           own == Places(outputs) \cup {CustodyScript(Zero, payload.index)}
<1>1. /\ New(selected, tx.outputs).ok /\ tx = New(selected, tx.outputs).value
      /\ tx.outputs = all
      /\ PlanCustody(TotalSats(coins), TotalAmount(outputs), args.fee, args.dust).ok
      /\ change = PlanCustody(TotalSats(coins), TotalAmount(outputs), args.fee, args.dust).change
  BY DEF PreparedAs
<1>2. /\ args.fee \in Nat /\ args.dust \in Nat /\ TotalSats(coins) \in Int
      /\ TotalAmount(outputs) \in Int /\ (outputs = <<>> => TotalAmount(outputs) = 0)
      /\ Len(coins) \in Nat /\ DOMAIN coins = 1 .. Len(coins)
  BY InvocationFacts, CoinsFacts, PaymentFacts
<1>3. /\ change = TotalSats(coins) - (TotalAmount(outputs) + args.fee) /\ change \in Nat
      /\ change = 0 \/ change >= args.dust
      /\ TotalAmount(outputs) > 0
  <2>1. Planned(TotalSats(coins), TotalAmount(outputs), args.fee, args.dust, change)
    BY <1>1, <1>2, PlanFacts
  <2> QED BY <2>1 DEF Planned
<1>4. selected # <<>> /\ all # <<>>
  BY <1>1, NewOk
<1>5. coins # <<>>
  BY <1>4, SelectedFacts
<1>6. outputs # <<>>
  BY <1>2, <1>3
<1>7. Built(tx, selected, all)
  BY <1>1, NewFacts
<1>8. all \in Seq([amount : Nat, kind : AddressTypes, address : own])
  <2>1. Paying(all, outputs, payload.index, change)
    <3> HIDE DEF all
    <3> QED BY <1>3, OutputsFacts DEF all
  <2> QED BY <2>1 DEF Paying, Own
<1>9. \E V : own \subseteq V /\ IsTx(tx, V)
  <2> HIDE DEF all, own, selected
  <2> QED BY <1>4, <1>5, <1>7, <1>8, BuiltIsTx DEF selected
<1>10. Wire(tx) # <<>>
  BY <1>9, WireNotEmpty
<1>11. Len(tx.inputs) = Len(coins)
  <2>1. tx.inputs = [i \in DOMAIN selected |-> InputOf(selected[i])]
    BY <1>7 DEF Built
  <2>2. DOMAIN selected = 1 .. Len(coins)
    BY <1>2 DEF Selected
  <2>3. Len(coins) \in Nat
    BY <1>2
  <2> DEFINE n == Len(coins)
             f(i) == InputOf(selected[i])
  <2>4. tx.inputs = [i \in 1 .. n |-> f(i)]
    BY <2>1, <2>2
  <2> HIDE DEF n, f
  <2>5. Len(tx.inputs) = n
    BY <2>3, <2>4 DEF n
  <2> QED BY <2>5 DEF n
<1> QED BY <1>1, <1>3, <1>5, <1>6, <1>7, <1>9, <1>10, <1>11

LEMMA ReserveKeeps ==
  ASSUME IInv, Reserve PROVE IInv'
<1>0. op.pc = "reserve" /\ op = [pc |-> op.pc, args |-> op.args] /\ op.args \in Invocations
      /\ batch.stage = "None"
  BY DEF Reserve, IInv, Strengthening, Control
<1> DEFINE payload(outputs) == [chain |-> DOGECOIN_CHAIN_ID, index |-> op.args.index,
                                outputs |-> outputs]
           required(outputs) == TotalAmount(outputs) + op.args.fee
           prepared(outputs, coins) ==
             Prepared(op.args, payload(outputs), coins, required(outputs), <<>>)
<1>1. PICK outputs \in Payments, chosen \in SUBSET custody :
        IF prepared(outputs, SetToSeq(chosen)).ok
          THEN /\ batch' = [stage |-> "Constructed",
                            payload |-> PayloadBytes(payload(outputs)),
                            required |-> required(outputs), coins |-> SetToSeq(chosen),
                            unsigned |-> Wire(prepared(outputs, SetToSeq(chosen)).value.tx),
                            args |-> op.args]
               /\ custody' = custody \ chosen
               /\ Goto([op EXCEPT !.pc = "continue"])
               /\ UNCHANGED <<service, registry, utxos, mined, number, faults>>
          ELSE Fail("reserve")
  BY DEF Reserve
<1> DEFINE coins == SetToSeq(chosen)
           p == prepared(outputs, coins)
<1>2. CASE ~p.ok
  <2>1. Fail("reserve")
    BY <1>1, <1>2
  <2> QED BY <2>1, FailKeeps
<1>3. CASE p.ok
  <2>1. /\ batch' = [stage |-> "Constructed",
                     payload |-> PayloadBytes(payload(outputs)),
                     required |-> required(outputs), coins |-> coins,
                     unsigned |-> Wire(p.value.tx), args |-> op.args]
        /\ custody' = custody \ chosen
        /\ op' = [op EXCEPT !.pc = "continue"] /\ failure' = "none"
        /\ service' = service /\ registry' = registry /\ mined' = mined
        /\ number' = number /\ faults' = faults
    BY <1>1, <1>3 DEF Goto
  <2>2. op' = [pc |-> "continue", args |-> op.args]
    <3>1. [[pc |-> op.pc, args |-> op.args] EXCEPT !.pc = "continue"]
            = [pc |-> "continue", args |-> op.args]
      OBVIOUS
    <3> QED BY <1>0, <2>1, <3>1
  <2>3. op'.pc = "continue" /\ op'.args = op.args
    BY <2>2
  <2>4. /\ batch'.stage = "Constructed" /\ batch'.payload = PayloadBytes(payload(outputs))
        /\ batch'.required = required(outputs) /\ batch'.coins = coins
        /\ batch'.unsigned = Wire(p.value.tx) /\ batch'.args = op.args
    <3> HIDE DEF p, coins, payload, required
    <3> QED BY <2>1
  <2>5. PreparedAs(op.args, payload(outputs), coins, required(outputs), <<>>,
                   p.value.tx, p.value.change)
    BY <1>3, PreparedFacts
  <2>6. IsFiniteSet(chosen) /\ \A c \in chosen : IsCoin(c)
    BY FS_Subset DEF IInv, Strengthening, Coins
  <2>7. IsSeq(coins) /\ \A i \in DOMAIN coins : IsCoin(coins[i])
    BY <2>6, Distinct, SeqOfItself
  <2> HIDE DEF p, coins, required
  <2>8. /\ coins # <<>> /\ Wire(p.value.tx) # <<>>
        /\ p.value.tx.outputs = Outputs(op.args.index, outputs, p.value.change)
    <3>1. payload(outputs).outputs = outputs /\ payload(outputs).index = op.args.index
      OBVIOUS
    <3> HIDE DEF payload
    <3> QED BY <1>0, <2>5, <2>7, <3>1, PreparedIsTx
  <2>9. ReservedWith(batch', outputs)
    <3>1. /\ required(outputs) = TotalAmount(outputs) + op.args.fee
          /\ PlanCustody(TotalSats(coins), TotalAmount(outputs), op.args.fee, op.args.dust).ok
          /\ p.value.change =
               PlanCustody(TotalSats(coins), TotalAmount(outputs), op.args.fee, op.args.dust).change
          /\ p.value.tx = New(Selected(coins, op.args.index), p.value.tx.outputs).value
      BY <2>5 DEF PreparedAs
    <3>2. batch'.unsigned = Wire(New(Selected(coins, op.args.index),
                               Outputs(op.args.index, outputs, p.value.change)).value)
      BY <2>4, <2>8, <3>1
    <3> QED BY <2>4, <2>8, <3>1, <3>2 DEF ReservedWith
  <2>10. Reserved'
    <3>1. IsReserved(batch')
      BY <1>0, <2>4, <2>7, <2>8, <2>9 DEF IsReserved
    <3> QED BY <3>1 DEF Reserved
  <2>11. Control'
    BY <1>0, <2>1, <2>2, <2>3, <2>4 DEF IInv, Strengthening, Control
  <2>12. Coins'
    <3>1. IsFiniteSet(custody) /\ \A c \in custody : IsCoin(c)
      BY DEF IInv, Strengthening, Coins
    <3>2. IsFiniteSet(custody') /\ \A c \in custody' : IsCoin(c)
      BY <2>1, <3>1, FS_Subset
    <3> QED BY <3>2 DEF Coins
  <2>13. Progress' /\ Answers'
    BY <2>3 DEF Progress, Answers
  <2>14. Registrations'
    BY <1>0, <2>1, <2>4 DEF IInv, Strengthening, Registrations
  <2>15. Bookable' /\ SignedIsThePayment'
    BY <2>4, PaymentOfNextBatch DEF Bookable
  <2> QED BY <2>10, <2>11, <2>12, <2>13, <2>14, <2>15 DEF IInv, Strengthening
<1> QED BY <1>2, <1>3

-----------------------------------------------------------------------------
(* The Managers' answers. *)

\* The payment an operator that asks the Managers has restored.
AtHand(outputs) ==
  LET restored == Restored.value
      index    == op.args.index
  IN  /\ ReservedWith(batch, outputs)
      /\ ParsePayload(batch.payload) = Some(StoredPayload)
      /\ StoredPayload = [chain |-> DOGECOIN_CHAIN_ID, index |-> index, outputs |-> outputs]
      /\ batch.args.index = index /\ batch.args \in Invocations /\ op.args \in Invocations
      /\ IsSeq(batch.coins) /\ batch.coins # <<>>
      /\ \A i \in DOMAIN batch.coins : IsCoin(batch.coins[i])
      /\ batch.unsigned # <<>>
      /\ PreparedAs(op.args, StoredPayload, batch.coins, batch.required, batch.unsigned,
                    restored.tx, restored.change)
      /\ Built(restored.tx, Selected(batch.coins, index), Outputs(index, outputs, restored.change))

LEMMA RestoredFacts ==
  ASSUME IInv, op.pc \in {"register", "ask", "askVaa", "apply"}
  PROVE  \E outputs \in Payments : AtHand(outputs)
<1>1. /\ batch.stage = "Constructed" /\ StoredPayload.index = op.args.index /\ Restored.ok
      /\ IsReserved(batch) /\ op.args \in Invocations
  BY DEF IInv, Strengthening, Progress, Reserved, Control
<1>2. PICK outputs \in Payments : ReservedWith(batch, outputs)
  BY <1>1 DEF IsReserved
<1> DEFINE payload == [chain |-> DOGECOIN_CHAIN_ID, index |-> batch.args.index,
                       outputs |-> outputs]
<1>3. ParsePayload(batch.payload) = Some(payload)
  BY <1>2, StoredFacts
<1>4. StoredPayload = payload /\ ParsePayload(batch.payload) = Some(StoredPayload)
  <2> HIDE DEF payload
  <2> QED BY <1>3, SomeFacts DEF StoredPayload
<1>5. batch.args.index = op.args.index
  BY <1>1, <1>4
<1>6. PreparedAs(op.args, StoredPayload, batch.coins, batch.required, batch.unsigned,
                 Restored.value.tx, Restored.value.change)
  BY <1>1, PreparedFacts DEF Restored
<1>7. /\ IsSeq(batch.coins) /\ batch.coins # <<>> /\ batch.args \in Invocations
      /\ \A i \in DOMAIN batch.coins : IsCoin(batch.coins[i])
  BY <1>1 DEF IsReserved
<1>8. batch.unsigned # <<>>
  BY <1>2 DEF ReservedWith
<1>9. StoredPayload.outputs = outputs /\ StoredPayload.index = op.args.index
  BY <1>1, <1>4
<1>10. Built(Restored.value.tx, Selected(batch.coins, StoredPayload.index),
             Outputs(StoredPayload.index, outputs, Restored.value.change))
  <2> HIDE DEF payload
  <2> QED BY <1>1, <1>6, <1>7, <1>9, PreparedIsTx
<1> QED BY <1>1, <1>2, <1>4, <1>5, <1>6, <1>7, <1>8, <1>9, <1>10 DEF AtHand

\* The signers of all answers are numbers.
LEMMA SignedFunction ==
  ASSUME NEW n \in Nat, NEW f, f = [k \in 1 .. n |-> f[k]],
         \A k \in 1 .. n : f[k].signer \in Int,
         NEW answer, answer.signatures = f
  PROVE  Signed(answer)
<1>1. \A k \in 1 .. n : f[k] \in ToSet(f)
  BY DEF ToSet
<1>2. f \in [1 .. n -> ToSet(f)] /\ DOMAIN f = 1 .. n
  BY <1>1
<1>3. f \in Seq(ToSet(f))
  BY <1>2
<1> QED BY <1>2, <1>3 DEF Signed, IsSeq

LEMMA LocalAnswer ==
  ASSUME NEW registration, NEW set, set.m \in Nat, SignLocally(registration, set).ok
  PROVE  /\ SignLocally(registration, set).value.payload = registration.payload
         /\ SignLocally(registration, set).value.unsigned = registration.unsigned
         /\ Signed(SignLocally(registration, set).value.answer)
<1> DEFINE tx == Described(registration, set)
           f == [k \in 1 .. set.m |->
                   [signer |-> k - 1,
                    signatures |-> [i \in DOMAIN tx.value.inputs |->
                      Signature(set.keys[k], SighashAll(tx.value, i))]]]
           local == SignLocally(registration, set).value
<1>1. /\ local.payload = registration.payload /\ local.unsigned = registration.unsigned
      /\ local.answer.signatures = f
  BY DEF SignLocally, Some, None
<1>2. \A k \in 1 .. set.m : f[k].signer \in Int
  OBVIOUS
<1>3. f = [k \in 1 .. set.m |-> f[k]]
  OBVIOUS
<1> HIDE DEF f, local
<1>4. Signed(local.answer)
  BY <1>1, <1>2, <1>3, SignedFunction
<1> QED BY <1>1, <1>4 DEF local

LEMMA HonestSigned ==
  ASSUME NEW signers \in Signers, NEW digests
  PROVE  /\ Signed(HonestAnswer(signers, digests))
         /\ \E n \in Nat : DOMAIN signers = 1 .. n /\ signers \in Seq(0 .. SetSize - 1)
                             /\ Len(signers) = n
<1>1. PICK n \in Nat : signers \in [1 .. n -> 0 .. SetSize - 1]
  BY SettingsAssumption DEF Signers, BoundedSeq, SeqOf
<1> DEFINE answer == HonestAnswer(signers, digests)
           keys == ManagerSet(StoredPayload.index).keys
           f == [k \in DOMAIN signers |->
                   [signer |-> signers[k],
                    signatures |-> [i \in DOMAIN digests |->
                      Signature(keys[signers[k] + 1], digests[i])]]]
<1>2. answer.signatures = f
  BY DEF HonestAnswer
<1>3. f = [k \in 1 .. n |-> f[k]] /\ \A k \in 1 .. n : f[k].signer \in Int
  BY <1>1, SettingsAssumption
<1> HIDE DEF f, answer
<1>4. Signed(answer)
  BY <1>2, <1>3, SignedFunction
<1> DEFINE Members == 0 .. SetSize - 1
<1>5. DOMAIN signers = 1 .. n /\ signers \in Seq(Members) /\ Len(signers) = n
  <2>1. signers \in [1 .. n -> Members]
    BY <1>1
  <2> HIDE DEF Members
  <2> QED BY <2>1
<1> QED BY <1>4, <1>5 DEF answer

LEMMA AppendSigned ==
  ASSUME NEW s, s \in Seq(ToSet(s)), \A k \in DOMAIN s : s[k].signer \in Int,
         NEW e, e.signer \in Int, NEW json, json.signatures = Append(s, e)
  PROVE  Signed(json)
<1> DEFINE n == Len(s) + 1
           f == json.signatures
<1>1. Len(s) \in Nat /\ DOMAIN s = 1 .. Len(s)
  OBVIOUS
<1>2. /\ f = [k \in 1 .. n |-> IF k = n THEN e ELSE s[k]]
  <2> DEFINE V == ToSet(s) \cup {e}
  <2>1. s \in Seq(V) /\ e \in V
    OBVIOUS
  <2> HIDE DEF V
  <2>2. /\ Append(s, e) \in Seq(V) /\ Len(Append(s, e)) = Len(s) + 1
        /\ Append(s, e)[Len(s) + 1] = e
        /\ \A k \in 1 .. Len(s) : Append(s, e)[k] = s[k]
    BY <2>1
  <2> DEFINE a == Append(s, e)
  <2> HIDE DEF a
  <2>3. a = [k \in 1 .. n |-> IF k = n THEN e ELSE s[k]]
    <3>1. a \in Seq(V) /\ Len(a) = n /\ a[n] = e /\ \A k \in 1 .. Len(s) : a[k] = s[k]
      BY <2>2 DEF a
    <3>2. DOMAIN a = 1 .. n /\ a = [k \in 1 .. n |-> a[k]]
      BY <3>1
    <3>3. \A k \in 1 .. n : k = n \/ k \in 1 .. Len(s)
      BY <1>1
    <3> QED BY <3>1, <3>2, <3>3
  <2> QED BY <2>3 DEF a
<1>3. \A k \in 1 .. n : f[k].signer \in Int
  BY <1>1, <1>2
<1>4. f = [k \in 1 .. n |-> f[k]] /\ n \in Nat
  BY <1>1, <1>2
<1> HIDE DEF f, n
<1>5. json.signatures = f
  BY DEF f
<1> QED BY <1>3, <1>4, <1>5, SignedFunction

LEMMA InsteadSigned ==
  ASSUME NEW s, s \in Seq(ToSet(s)), \A k \in DOMAIN s : s[k].signer \in Int, s # <<>>,
         NEW e, e.signer \in Int, NEW json, json.signatures = <<e>> \o Tail(s)
  PROVE  Signed(json)
<1> DEFINE n == Len(s)
           f == json.signatures
           V == ToSet(s) \cup {e}
<1>1. n \in Nat /\ n # 0 /\ DOMAIN s = 1 .. n
  OBVIOUS
<1>2. s \in Seq(V) /\ e \in V
  OBVIOUS
<1> HIDE DEF V
<1>3. /\ Tail(s) \in Seq(V) /\ Len(Tail(s)) = n - 1
      /\ \A k \in 1 .. n - 1 : Tail(s)[k] = s[k + 1]
  BY <1>2
<1>4. <<e>> \in Seq(V) /\ Len(<<e>>) = 1 /\ <<e>>[1] = e
  BY <1>2
<1> HIDE DEF n
<1>5. /\ <<e>> \o Tail(s) \in Seq(V)
      /\ Len(<<e>> \o Tail(s)) = Len(<<e>>) + Len(Tail(s))
      /\ \A k \in 1 .. Len(<<e>>) : (<<e>> \o Tail(s))[k] = <<e>>[k]
      /\ \A k \in 1 .. Len(Tail(s)) : (<<e>> \o Tail(s))[Len(<<e>>) + k] = Tail(s)[k]
  BY <1>3, <1>4, ConcatPlaces
<1>6. f \in Seq(V) /\ Len(f) = n /\ f[1] = e /\ \A k \in 1 .. n - 1 : f[1 + k] = s[k + 1]
  <2>1. 1 \in 1 .. Len(<<e>>)
    BY <1>4
  <2>2. (<<e>> \o Tail(s))[1] = e
    BY <1>4, <1>5, <2>1
  <2>3. \A k \in 1 .. n - 1 : (<<e>> \o Tail(s))[1 + k] = s[k + 1]
    <3>1. TAKE k \in 1 .. n - 1
    <3>2. k \in 1 .. Len(Tail(s))
      BY <1>3
    <3> QED BY <1>3, <1>4, <1>5, <3>2
  <2>4. Len(<<e>> \o Tail(s)) = n
    BY <1>1, <1>3, <1>4, <1>5
  <2> QED BY <1>5, <2>2, <2>3, <2>4
<1> HIDE DEF f
<1>7. \A k \in 1 .. n : f[k].signer \in Int
  <2>1. TAKE k \in 1 .. n
  <2>2. CASE k = 1
    BY <1>6, <2>2
  <2>3. CASE k # 1
    <3>1. k - 1 \in 1 .. n - 1 /\ 1 + (k - 1) = k /\ (k - 1) + 1 = k
      BY <1>1, <2>3
    <3>2. f[k] = s[k] /\ k \in DOMAIN s
      BY <1>1, <1>6, <3>1
    <3> QED BY <3>2
  <2> QED BY <2>2, <2>3
<1>8. f = [k \in 1 .. n |-> f[k]]
  BY <1>1, <1>6
<1>9. json.signatures = f
  BY DEF f
<1> QED BY <1>1, <1>7, <1>8, <1>9, SignedFunction

LEMMA UnlikeSigned ==
  ASSUME NEW signers \in Signers, NEW digests,
         NEW json \in Unlike(HonestAnswer(signers, digests))
  PROVE  Signed(json)
<1> DEFINE answer == HonestAnswer(signers, digests)
           index == StoredPayload.index
           s == [k \in DOMAIN signers |->
                   [signer |-> signers[k],
                    signatures |-> [i \in DOMAIN digests |->
                      Signature(ManagerSet(index).keys[signers[k] + 1], digests[i])]]]
           first == Head(s)
           Others == {[first EXCEPT !.signer = @ + ByteRange],
                      [first EXCEPT !.signer = SetSize],
                      [first EXCEPT !.signer = Absent],
                      [first EXCEPT !.signatures = Tail(@)],
                      [first EXCEPT !.signatures[1].digest = DoubleSha(<<>>)],
                      [first EXCEPT !.signatures[1].hashType = 2]}
<1>1. Signed(answer) /\ answer.signatures = s
  BY HonestSigned DEF HonestAnswer
<1>2. /\ s \in Seq(ToSet(s)) /\ \A k \in DOMAIN s : s[k].signer \in Int
  BY <1>1 DEF Signed, IsSeq
<1>3. \/ json.signatures = s
      \/ s # <<>> /\ json.signatures = Append(s, first)
      \/ s # <<>> /\ \E signer \in Others : json.signatures = <<signer>> \o Tail(s)
  <2> DEFINE r == [complete |-> Len(signers) >= Threshold,
                   vaaHash |-> VaaDigest(HonestVaa), chain |-> DOGECOIN_CHAIN_ID,
                   index |-> index, required |-> Threshold, total |-> SetSize,
                   signatures |-> s]
  <2>1. answer = r
    BY DEF HonestAnswer
  <2>2. json \in Unlike(r) /\ r.signatures = s
    BY <2>1
  <2> DEFINE Same == {[r EXCEPT !.complete = FALSE], [r EXCEPT !.vaaHash = NoHash],
                      [r EXCEPT !.vaaHash = VaaDigest(Vaa(number + 1, batch.payload))],
                      [r EXCEPT !.chain = Absent], [r EXCEPT !.chain = @ + U16Range],
                      [r EXCEPT !.index = 1 - @], [r EXCEPT !.required = @ - 1],
                      [r EXCEPT !.total = Absent]}
             Twice == [r EXCEPT !.signatures = Append(@, first)]
             Instead(signer) == [r EXCEPT !.signatures = <<signer>> \o Tail(@)]
  <2> HIDE DEF s
  <2>3. ASSUME NEW other \in Same PROVE other.signatures = s
    <3> HIDE DEF first, Others
    <3> QED OBVIOUS
  <2>4. Twice.signatures = Append(s, first)
    <3> HIDE DEF first, Others
    <3> QED OBVIOUS
  <2>5. ASSUME NEW signer PROVE Instead(signer).signatures = <<signer>> \o Tail(s)
    <3> HIDE DEF first, Others
    <3> QED OBVIOUS
  <2>6. json \in Same \cup (IF s = <<>> THEN {}
                            ELSE {Twice} \cup {Instead(signer) : signer \in Others})
    <3> HIDE DEF r
    <3> QED BY <2>2 DEF Unlike
  <2> HIDE DEF r, Same, Twice, Instead, Others
  <2> QED BY <2>3, <2>4, <2>5, <2>6
<1>4. Len(s) \in Nat /\ DOMAIN s = 1 .. Len(s)
  BY <1>2
<1>5. ASSUME s # <<>>
      PROVE  \E a \in Int : \E g : first = [signer |-> a, signatures |-> g]
  <2>1. 1 \in DOMAIN s /\ DOMAIN s = DOMAIN signers
    BY <1>2, <1>5
  <2> DEFINE g == [i \in DOMAIN digests |->
                     Signature(ManagerSet(index).keys[signers[1] + 1], digests[i])]
  <2>2. s[1] = [signer |-> signers[1], signatures |-> g]
    BY <2>1
  <2>3. s[1].signer \in Int
    BY <1>2, <2>1
  <2>4. first = s[1]
    <3> HIDE DEF s
    <3> QED BY <1>2, <1>5
  <2> HIDE DEF s, first, g
  <2> QED BY <2>2, <2>3, <2>4
<1>6. ASSUME s # <<>>, NEW signer \in Others
      PROVE  signer.signer \in Int
  <2>0. PICK a \in Int : \E g : first = [signer |-> a, signatures |-> g]
    BY <1>5, <1>6
  <2>1. PICK g : first = [signer |-> a, signatures |-> g]
    BY <2>0
  <2>2. ByteRange \in Int /\ SetSize \in Int /\ Absent \in Int
    <3> HIDE DEF s, first, Others
    <3> QED BY SettingsAssumption DEF Absent
  <2> HIDE DEF first
  <2>3. /\ [first EXCEPT !.signer = @ + ByteRange].signer = a + ByteRange
        /\ [first EXCEPT !.signer = SetSize].signer = SetSize
        /\ [first EXCEPT !.signer = Absent].signer = Absent
        /\ [first EXCEPT !.signatures = Tail(@)].signer = a
    BY <2>1
  <2>4. /\ [first EXCEPT !.signatures[1].digest = DoubleSha(<<>>)].signer = a
        /\ [first EXCEPT !.signatures[1].hashType = 2].signer = a
    BY <2>1
  <2>5. a + ByteRange \in Int
    <3> HIDE DEF s, Others
    <3> QED BY <2>2
  <2>6. \/ signer = [first EXCEPT !.signer = @ + ByteRange]
        \/ signer = [first EXCEPT !.signer = SetSize]
        \/ signer = [first EXCEPT !.signer = Absent]
        \/ signer = [first EXCEPT !.signatures = Tail(@)]
        \/ signer = [first EXCEPT !.signatures[1].digest = DoubleSha(<<>>)]
        \/ signer = [first EXCEPT !.signatures[1].hashType = 2]
    <3> HIDE DEF s
    <3> QED BY <1>6, Zenon
  <2> HIDE DEF s, Others
  <2>7. signer.signer \in {a + ByteRange, SetSize, Absent, a}
    BY <2>3, <2>4, <2>6
  <2> QED BY <2>2, <2>5, <2>7
<1> HIDE DEF s, first, Others
<1>7. CASE json.signatures = s
  BY <1>1, <1>7 DEF Signed
<1>8. CASE s # <<>> /\ json.signatures = Append(s, first)
  <2>1. first.signer \in Int
    BY <1>5, <1>8
  <2> QED BY <1>2, <1>8, <2>1, AppendSigned
<1>9. ASSUME s # <<>>, NEW signer \in Others, json.signatures = <<signer>> \o Tail(s)
      PROVE  Signed(json)
  BY <1>2, <1>6, <1>9, InsteadSigned
<1> QED BY <1>3, <1>7, <1>8, <1>9

\* What is parsed of an answer has signers that are bytes.
LEMMA ParsedFacts ==
  ASSUME NEW json, Signed(json), ParseAnswer(json).ok
  PROVE  LET answer == ParseAnswer(json).value
         IN  /\ Signed(answer)
             /\ \A k \in DOMAIN answer.signatures : answer.signatures[k].signer \in Nat
<1> DEFINE n == Len(json.signatures)
           byte(k) == OrZero(json.signatures[k].signer) % ByteRange
           f == [k \in DOMAIN json.signatures |->
                   [signer |-> byte(k), signatures |-> json.signatures[k].signatures]]
           answer == ParseAnswer(json).value
<1>1. answer.signatures = f
  BY DEF ParseAnswer, Some, None
<1>2. n \in Nat /\ DOMAIN json.signatures = 1 .. n
      /\ \A k \in 1 .. n : json.signatures[k].signer \in Int
  BY DEF Signed, IsSeq
<1>3. \A k \in 1 .. n : byte(k) \in Nat
  <2>1. TAKE k \in 1 .. n
  <2>2. OrZero(json.signatures[k].signer) \in Int
    BY <1>2 DEF OrZero
  <2>3. ByteRange \in Nat \ {0}
    BY SettingsAssumption
  <2> QED BY <2>2, <2>3
<1> HIDE DEF byte, n
<1>4. f = [k \in 1 .. n |-> f[k]] /\ \A k \in 1 .. n : f[k].signer \in Nat
  BY <1>2, <1>3
<1>5. DOMAIN f = 1 .. n
  BY <1>2
<1> HIDE DEF f, answer
<1>6. Signed(answer)
  <2>1. \A k \in 1 .. n : f[k].signer \in Int
    BY <1>4
  <2> QED BY <1>1, <1>2, <1>4, <2>1, SignedFunction
<1> QED BY <1>1, <1>4, <1>5, <1>6 DEF answer

LEMMA AnsweredKeeps ==
  ASSUME IInv, op.pc = "ask", NEW json, Signed(json), Answered(json),
         UNCHANGED <<service, registry, custody, batch, mined, number>>,
         faults' \in Nat
  PROVE  IInv'
<1> DEFINE answer == ParseAnswer(json)
<1>1. answer.ok /\ op' = [pc |-> "askVaa", args |-> op.args, answer |-> answer.value]
      /\ failure' = "none"
  BY DEF Answered, Goto
<1>2. Signed(answer.value)
      /\ \A k \in DOMAIN answer.value.signatures : answer.value.signatures[k].signer \in Nat
  BY <1>1, ParsedFacts
<1> HIDE DEF answer
<1>3. op'.pc = "askVaa" /\ op'.args = op.args /\ op'.answer = answer.value
  BY <1>1
<1>4. Control'
  BY <1>1, <1>3 DEF IInv, Strengthening, Control
<1>5. Progress'
  BY <1>3 DEF IInv, Strengthening, Progress, StoredPayload, Restored
<1>6. Answers'
  BY <1>2, <1>3 DEF Answers, Signed
<1>7. Registrations'
  BY DEF IInv, Strengthening, Registrations, Signed
<1>8. Coins' /\ Reserved' /\ Bookable' /\ SignedIsThePayment'
  BY StoreKept
<1> QED BY <1>4, <1>5, <1>6, <1>7, <1>8 DEF IInv, Strengthening

LEMMA AskKeeps ==
  ASSUME IInv, AskLocal \/ AskGuardians \/ AskFaulty \/ AskFails PROVE IInv'
<1>1. CASE AskLocal
  <2>1. Signed(registry[number].answer)
    BY <1>1 DEF AskLocal, IInv, Strengthening, Registrations
  <2>2. /\ op.pc = "ask" /\ Answered(registry[number].answer)
        /\ UNCHANGED <<service, registry, custody, batch, mined, number>> /\ faults' = faults
    BY <1>1 DEF AskLocal
  <2>3. faults' \in Nat
    BY <2>2 DEF IInv, Strengthening, Control
  <2> DEFINE json == registry[number].answer
  <2> HIDE DEF json
  <2>4. Signed(json) /\ Answered(json)
    BY <2>1, <2>2 DEF json
  <2> QED BY <2>2, <2>3, <2>4, AnsweredKeeps
<1>2. CASE AskGuardians
  <2>1. PICK signers \in Signers : Answered(HonestAnswer(signers, Digests))
    BY <1>2 DEF AskGuardians
  <2>2. Signed(HonestAnswer(signers, Digests))
    BY HonestSigned
  <2>3. op.pc = "ask" /\ UNCHANGED <<service, registry, custody, batch, mined, number>>
        /\ faults' = faults
    BY <1>2 DEF AskGuardians
  <2>4. faults' \in Nat
    BY <2>3 DEF IInv, Strengthening, Control
  <2> DEFINE json == HonestAnswer(signers, Digests)
  <2> HIDE DEF json
  <2>5. Signed(json) /\ Answered(json)
    BY <2>1, <2>2 DEF json
  <2> QED BY <2>3, <2>4, <2>5, AnsweredKeeps
<1>3. CASE AskFaulty
  <2>1. PICK signers \in Enough : \E json \in Unlike(HonestAnswer(signers, Digests)) :
          Answered(json)
    BY <1>3 DEF AskFaulty
  <2>2. PICK json \in Unlike(HonestAnswer(signers, Digests)) : Answered(json)
    BY <2>1
  <2>3. Signed(json)
    BY UnlikeSigned DEF Enough
  <2>4. op.pc = "ask" /\ UNCHANGED <<service, registry, custody, batch, mined, number>>
        /\ faults' = faults + 1
    BY <1>3 DEF AskFaulty
  <2>5. faults' \in Nat
    BY <2>4 DEF IInv, Strengthening, Control
  <2> QED BY <2>2, <2>3, <2>4, <2>5, AnsweredKeeps
<1>4. CASE AskFails
  BY <1>4, FailKeeps DEF AskFails
<1> QED BY <1>1, <1>2, <1>3, <1>4

LEMMA AskVaaKeeps ==
  ASSUME IInv, AskVaa \/ AskVaaFails PROVE IInv'
<1>1. CASE AskVaa
  <2>1. /\ op.pc = "askVaa" /\ UNCHANGED <<service, registry, custody, batch, mined, number>>
        /\ \E vaa : Told(vaa)
        /\ faults' \in {faults, faults + 1}
    <3>1. (\E vaa : Told(vaa)) /\ faults' \in {faults, faults + 1}
      BY <1>1 DEF AskVaa
    <3> QED BY <1>1, <3>1 DEF AskVaa
  <2>2. PICK vaa : Told(vaa)
    BY <2>1
  <2>3. /\ op' = [pc |-> "apply", args |-> op.args, answer |-> op.answer, vaa |-> vaa]
        /\ failure' = "none"
    BY <2>2 DEF Told, Goto
  <2>4. op'.pc = "apply" /\ op'.args = op.args /\ op'.answer = op.answer
    BY <2>3
  <2>5. Control'
    BY <2>1, <2>3, <2>4 DEF IInv, Strengthening, Control
  <2>6. Progress'
    BY <2>1, <2>4 DEF IInv, Strengthening, Progress, StoredPayload, Restored
  <2>7. Answers'
    BY <2>1, <2>4 DEF IInv, Strengthening, Answers, Signed
  <2>8. Registrations'
    BY <2>1 DEF IInv, Strengthening, Registrations, Signed
  <2>9. Coins' /\ Reserved' /\ Bookable' /\ SignedIsThePayment'
    BY <2>1, StoreKept
  <2> QED BY <2>5, <2>6, <2>7, <2>8, <2>9 DEF IInv, Strengthening
<1>2. CASE AskVaaFails
  BY <1>2, FailKeeps DEF AskVaaFails
<1> QED BY <1>1, <1>2

LEMMA RegisterKeeps ==
  ASSUME IInv, Register PROVE IInv'
<1>0. op.pc = "register" /\ op = [pc |-> op.pc, args |-> op.args]
      /\ batch.stage = "Constructed" /\ number \in Nat \ {0}
  BY DEF Register, IInv, Strengthening, Control, Progress
<1> DEFINE request == Registration
           status == RegisterStatus(registry, request, ManagerSet(0))
<1>1. CASE ~(service = "local" /\ status = "OK")
  BY <1>1, FailKeeps DEF Register
<1>2. CASE service = "local" /\ status = "OK"
  <2>1. /\ registry' = Registered(registry, request, ManagerSet(0))
        /\ op' = [op EXCEPT !.pc = "ask"] /\ failure' = "none"
        /\ UNCHANGED <<service, custody, batch, mined, number, faults>>
    BY <1>2 DEF Register, Goto
  <2>2. op' = [pc |-> "ask", args |-> op.args]
    <3>1. [[pc |-> op.pc, args |-> op.args] EXCEPT !.pc = "ask"] = [pc |-> "ask", args |-> op.args]
      OBVIOUS
    <3> QED BY <1>0, <2>1, <3>1
  <2>3. op'.pc = "ask" /\ op'.args = op.args
    BY <2>2
  <2>4. /\ request.sequence = number /\ request.payload = batch.payload
        /\ request.unsigned = batch.unsigned
    BY DEF Registration
  <2> HIDE DEF request
  <2> DEFINE local == SignLocally(request, ManagerSet(0))
  <2>5. /\ DOMAIN registry' = DOMAIN registry \cup {number}
        /\ \A s \in DOMAIN registry : registry'[s] = registry[s]
        /\ number \notin DOMAIN registry => registry'[number] = local.value
    BY <2>1, <2>4 DEF Registered
  <2>6. number \notin DOMAIN registry =>
          /\ local.ok
          /\ local.value.payload = batch.payload
          /\ local.value.unsigned = batch.unsigned
          /\ Signed(local.value.answer)
    <3>1. SUFFICES ASSUME number \notin DOMAIN registry
                   PROVE  /\ local.ok
                          /\ local.value.payload = batch.payload
                          /\ local.value.unsigned = batch.unsigned
                          /\ Signed(local.value.answer)
      OBVIOUS
    <3>2. local.ok
      BY <1>2, <2>4, <3>1 DEF RegisterStatus
    <3>3. ManagerSet(0).m \in Nat
      BY Keys, SettingsAssumption
    <3>4. /\ local.value.payload = request.payload
          /\ local.value.unsigned = request.unsigned
          /\ Signed(local.value.answer)
      BY <3>2, <3>3, LocalAnswer
    <3> QED BY <2>4, <3>2, <3>4
  <2> HIDE DEF local
  <2>7. Control'
    BY <1>0, <2>1, <2>3 DEF IInv, Strengthening, Control
  <2>8. Progress'
    BY <1>0, <2>1, <2>3 DEF IInv, Strengthening, Progress, StoredPayload, Restored
  <2>9. Answers'
    BY <2>3 DEF Answers
  <2>10. Registrations'
    <3>1. /\ \A s \in DOMAIN registry : s \in 1 .. number /\ Signed(registry[s].answer)
          /\ number \in DOMAIN registry =>
               /\ batch.stage # "None"
               /\ registry[number].payload = batch.payload
               /\ registry[number].unsigned = batch.unsigned
      BY DEF IInv, Strengthening, Registrations
    <3>2. number \in 1 .. number
      BY <1>0
    <3>3. \A s \in DOMAIN registry' : s \in 1 .. number /\ Signed(registry'[s].answer)
      BY <2>5, <2>6, <3>1, <3>2
    <3>4. /\ registry'[number].payload = batch.payload
          /\ registry'[number].unsigned = batch.unsigned
      BY <2>5, <2>6, <3>1
    <3> QED BY <1>0, <2>1, <3>3, <3>4 DEF Registrations, Signed
  <2>11. Coins' /\ Reserved' /\ Bookable' /\ SignedIsThePayment'
    BY <2>1, StoreKept
  <2> QED BY <2>7, <2>8, <2>9, <2>10, <2>11 DEF IInv, Strengthening
<1> QED BY <1>1, <1>2

LEMMA BroadcastKeeps ==
  ASSUME IInv, Broadcast PROVE IInv'
<1>1. CASE ~Accepts(batch.tx)
  BY <1>1, FailKeeps DEF Broadcast
<1>2. CASE Accepts(batch.tx)
  <2>1. /\ op.pc = "broadcast" /\ batch' = [batch EXCEPT !.stage = "Broadcast"]
        /\ op' = Idle /\ failure' = "none"
        /\ UNCHANGED <<service, registry, custody, mined, number, faults>>
    BY <1>2 DEF Broadcast, Goto
  <2>2. batch.stage = "Signed" /\ op'.pc = "idle"
    BY <2>1 DEF IInv, Strengthening, Control, Idle
  <2>3. IsSigned(batch)
    BY <2>2 DEF IInv, Strengthening, Bookable
  <2> DEFINE stood == [stage |-> batch.stage, payload |-> batch.payload,
                       required |-> batch.required, coins |-> batch.coins,
                       unsigned |-> batch.unsigned, args |-> batch.args,
                       tx |-> batch.tx, change |-> batch.change]
             next == [stage |-> "Broadcast", payload |-> batch.payload,
                      required |-> batch.required, coins |-> batch.coins,
                      unsigned |-> batch.unsigned, args |-> batch.args,
                      tx |-> batch.tx, change |-> batch.change]
  <2>4. batch = stood
    BY <2>3 DEF IsSigned
  <2>5. [stood EXCEPT !.stage = "Broadcast"] = next
    OBVIOUS
  <2>6. batch' = next
    <3> HIDE DEF stood, next
    <3> QED BY <2>1, <2>4, <2>5
  <2>7. /\ batch'.stage = "Broadcast" /\ batch'.payload = batch.payload
        /\ batch'.required = batch.required /\ batch'.coins = batch.coins
        /\ batch'.unsigned = batch.unsigned /\ batch'.args = batch.args
        /\ batch'.tx = batch.tx /\ batch'.change = batch.change
    BY <2>6
  <2>8. Control'
    BY <2>1, <2>2, <2>7, <2>1 DEF IInv, Strengthening, Control
  <2>9. Coins'
    BY <2>1 DEF IInv, Strengthening, Coins
  <2>10. Reserved'
    <3>1. IsReserved(batch)
      BY <2>2 DEF IInv, Strengthening, Reserved
    <3>2. IsReserved(batch')
      BY <2>7, <3>1 DEF IsReserved, ReservedWith
    <3> QED BY <3>2 DEF Reserved
  <2>11. Progress' /\ Answers'
    BY <2>2 DEF Progress, Answers
  <2>12. Registrations'
    BY <2>1, <2>7 DEF IInv, Strengthening, Registrations, Signed
  <2>13. Bookable'
    <3>1. IsSigned(batch')
      <4>1. batch' = [stage |-> batch'.stage, payload |-> batch'.payload,
                      required |-> batch'.required, coins |-> batch'.coins,
                      unsigned |-> batch'.unsigned, args |-> batch'.args,
                      tx |-> batch'.tx, change |-> batch'.change]
        BY <2>6
      <4> QED BY <2>3, <2>7, <4>1 DEF IsSigned
    <3> QED BY <3>1 DEF Bookable
  <2>14. SignedIsThePayment'
    <3>1. ThePayment(batch)
      BY <2>2, PaymentOfBatch DEF IInv
    <3>2. ThePayment(batch')
      BY <2>7, <3>1 DEF ThePayment
    <3> QED BY <3>2, PaymentOfNextBatch
  <2> QED BY <2>8, <2>9, <2>10, <2>11, <2>12, <2>13, <2>14 DEF IInv, Strengthening
<1> QED BY <1>1, <1>2

-----------------------------------------------------------------------------
(* Bookkeeping, and the signatures. *)

LEMMA BookKeeps ==
  ASSUME IInv, Book, \A bytes : Reversed(Reversed(DoubleSha(bytes))) = DoubleSha(bytes)
  PROVE  IInv'
<1> DEFINE derived == DerivedChange(Confirmed.value, batch.coins, StoredPayload.outputs,
                                    batch.change, batch.unsigned)
<1>1. CASE ~Confirmed.ok
  BY <1>1, FailKeeps DEF Book
<1>2. CASE Confirmed.ok /\ ~derived.ok
  BY <1>2, FailKeeps DEF Book
<1>3. CASE Confirmed.ok /\ derived.ok
  <2>1. /\ op.pc = "book"
        /\ custody' = custody \cup derived.value
        /\ batch' = NoBatch /\ mined' = FALSE /\ number' = number + 1
        /\ op' = Idle /\ failure' = "none"
        /\ service' = service /\ registry' = registry /\ faults' = faults
    BY <1>3 DEF Book, Goto
  <2>2. batch.stage = "Broadcast" /\ number \in Nat \ {0}
    BY <2>1 DEF IInv, Strengthening, Control
  <2>3. batch.change \in Nat
    BY <2>2 DEF IInv, Strengthening, Bookable, IsSigned
  <2>4. \/ derived.value = {}
        \/ \E tx, at, keyRef : /\ derived.value = {ChangeRow(tx, at, keyRef)}
                               /\ Last(tx.outputs).amount = batch.change
    BY <1>3 DEF DerivedChange, Some, None
  <2>5. IsFiniteSet(derived.value) /\ \A c \in derived.value : IsCoin(c)
    <3> HIDE DEF derived
    <3>1. CASE derived.value = {}
      BY <3>1, FS_EmptySet
    <3>2. ASSUME NEW tx, NEW at, NEW keyRef,
                 derived.value = {ChangeRow(tx, at, keyRef)},
                 Last(tx.outputs).amount = batch.change
          PROVE  IsFiniteSet(derived.value) /\ \A c \in derived.value : IsCoin(c)
      <4>1. /\ ChangeRow(tx, at, keyRef).sats = batch.change
            /\ ChangeRow(tx, at, keyRef).txid = DoubleSha(Wire(tx))
        BY <3>2 DEF ChangeRow
      <4>2. IsCoin(ChangeRow(tx, at, keyRef))
        BY <2>3, <4>1 DEF IsCoin
      <4> QED BY <3>2, <4>2, FS_Singleton
    <3> QED BY <2>4, <3>1, <3>2
  <2> HIDE DEF derived
  <2>6. batch'.stage = "None" /\ op'.pc = "idle"
    BY <2>1 DEF NoBatch, Idle
  <2>7. Control'
    <3>1. number' \in Nat \ {0}
      BY <2>1, <2>2
    <3> QED BY <2>1, <2>6, <3>1 DEF IInv, Strengthening, Control
  <2>8. Coins'
    <3>1. IsFiniteSet(custody) /\ \A c \in custody : IsCoin(c)
      BY DEF IInv, Strengthening, Coins
    <3>2. IsFiniteSet(custody') /\ \A c \in custody' : IsCoin(c)
      BY <2>1, <2>5, <3>1, FS_Union
    <3> QED BY <3>2 DEF Coins
  <2>9. Registrations'
    <3>1. \A s \in DOMAIN registry : s \in 1 .. number /\ Signed(registry[s].answer)
      BY DEF IInv, Strengthening, Registrations
    <3>2. number' \notin DOMAIN registry'
      BY <2>1, <2>2, <3>1
    <3>3. \A s \in DOMAIN registry' : s \in 1 .. number'
      BY <2>1, <2>2, <3>1
    <3> QED BY <2>1, <3>1, <3>2, <3>3 DEF Registrations, Signed
  <2>10. Reserved' /\ Progress' /\ Answers' /\ Bookable' /\ SignedIsThePayment'
    BY <2>6, PaymentOfNextBatch DEF Reserved, Progress, Answers, Bookable
  <2> QED BY <2>7, <2>8, <2>9, <2>10 DEF IInv, Strengthening
<1> QED BY <1>1, <1>2, <1>3

\* What is paid is what was authorised, the fee and the change, with the fee and
\* the dust threshold of the reservation.
LEMMA PaidAsReserved ==
  ASSUME NEW outputs \in Payments, AtHand(outputs)
  PROVE  LET all    == Outputs(op.args.index, outputs, Restored.value.change)
             change == Restored.value.change
         IN  /\ IsPrefix(outputs, all) /\ Len(all) <= Len(outputs) + 1
             /\ Len(all) > Len(outputs) =>
                  /\ Last(all).kind = P2sh
                  /\ Last(all).address = CustodyScript(Zero, op.args.index)
                  /\ Last(all).amount >= batch.args.dust
             /\ TotalSats(batch.coins) - TotalAmount(all) = batch.args.fee
             /\ change \in Nat
             /\ Len(Restored.value.tx.inputs) = Len(batch.coins)
<1> DEFINE change == Restored.value.change
           index  == op.args.index
           all    == Outputs(index, outputs, change)
           tx     == Restored.value.tx
           sats   == TotalSats(batch.coins)
           paid   == TotalAmount(outputs)
<1>1. /\ StoredPayload.outputs = outputs /\ StoredPayload.index = index
      /\ PreparedAs(op.args, StoredPayload, batch.coins, batch.required, batch.unsigned,
                    tx, change)
      /\ IsSeq(batch.coins) /\ \A i \in DOMAIN batch.coins : IsCoin(batch.coins[i])
      /\ op.args \in Invocations /\ batch.args \in Invocations
  BY DEF AtHand
<1>2. /\ change \in Nat
      /\ change = sats - (paid + op.args.fee)
      /\ Len(tx.inputs) = Len(batch.coins)
  <2> HIDE DEF tx, change
  <2> QED BY <1>1, PreparedIsTx
<1>3. /\ op.args.fee \in Nat /\ batch.args.fee \in Nat /\ batch.args.dust \in Nat
      /\ sats \in Int /\ paid \in Int
  BY <1>1, InvocationFacts, CoinsFacts, PaymentFacts
<1>4. batch.required = paid + batch.args.fee /\ batch.required = paid + op.args.fee
  BY <1>1 DEF AtHand, ReservedWith, PreparedAs
<1>5. op.args.fee = batch.args.fee
  <2> HIDE DEF paid
  <2> QED BY <1>3, <1>4
<1>6. PlanCustody(sats, paid, batch.args.fee, batch.args.dust).ok
  BY DEF AtHand, ReservedWith
<1> DEFINE planned == PlanCustody(sats, paid, batch.args.fee, batch.args.dust).change
<1>7. Planned(sats, paid, batch.args.fee, batch.args.dust, planned)
  <2> HIDE DEF sats, paid
  <2> QED BY <1>3, <1>6, PlanFacts
<1> HIDE DEF planned, sats, paid, tx, change
<1>8. change = 0 \/ change >= batch.args.dust
  <2>1. planned = change
    BY <1>2, <1>3, <1>5, <1>7 DEF Planned
  <2> QED BY <1>7, <2>1 DEF Planned
<1>9. Paying(all, outputs, index, change)
  BY <1>2, OutputsFacts
<1> HIDE DEF all
<1>10. sats - TotalAmount(all) = batch.args.fee
  <2>1. TotalAmount(all) = paid + change
    BY <1>9 DEF Paying, paid
  <2> QED BY <1>2, <1>3, <1>5, <2>1
<1>11. IsPrefix(outputs, all)
  <2>1. outputs \in Seq([amount : Nat, kind : AddressTypes, address : Places(outputs)])
    BY PaymentFacts
  <2>2. all \in Seq([amount : Nat, kind : AddressTypes,
                     address : Own(outputs, index)])
    BY <1>9 DEF Paying
  <2>3. Len(outputs) <= Len(all) /\ \A i \in 1 .. Len(outputs) : outputs[i] = all[i]
    BY <1>9 DEF Paying
  <2>4. SubSeq(outputs, 1, Len(outputs)) = SubSeq(all, 1, Len(outputs))
    BY <1>9, <2>1, <2>2, <2>3 DEF Paying
  <2> QED BY <2>3, <2>4 DEF IsPrefix
<1>12. /\ Len(all) <= Len(outputs) + 1
       /\ Len(all) > Len(outputs) =>
                  /\ Last(all).kind = P2sh
                  /\ Last(all).address = CustodyScript(Zero, index)
                  /\ Last(all).amount >= batch.args.dust
  <2>1. CASE change = 0
    BY <1>9, <2>1 DEF Paying
  <2>2. CASE change # 0
    BY <1>8, <1>9, <2>2 DEF Paying
  <2> QED BY <2>1, <2>2
<1> QED BY <1>2, <1>10, <1>11, <1>12 DEF all, sats, change, tx

\* Coins without their redeem scripts restore the same transaction.
LEMMA RestoredPlain ==
  ASSUME NEW outputs \in Payments, AtHand(outputs)
  PROVE  LET restored == FromPersisted(batch.unsigned, Plain(batch.coins))
         IN  restored.ok /\ restored.value.outputs = Restored.value.tx.outputs
<1> DEFINE coins == batch.coins
           index == op.args.index
           a == Selected(coins, index)
           b == Plain(coins)
           S == ToSet(a)
           T == ToSet(b)
<1>1. IsSeq(coins) /\ StoredPayload.index = index
  BY DEF AtHand
<1>2. /\ a \in Seq(S) /\ b \in Seq(T) /\ Len(a) = Len(coins) /\ Len(b) = Len(coins)
      /\ DOMAIN coins = 1 .. Len(coins)
  BY <1>1, SelectedFacts DEF IsSeq
<1>3. \A i \in 1 .. Len(coins) : a[i].txid = b[i].txid /\ a[i].vout = b[i].vout
  <2>1. \A i \in DOMAIN coins : a[i].txid = b[i].txid /\ a[i].vout = b[i].vout
    BY DEF Selected, Plain
  <2> QED BY <1>2, <2>1
<1>4. FromPersisted(batch.unsigned, a).ok
      /\ FromPersisted(batch.unsigned, a).value = Restored.value.tx
  BY <1>1 DEF AtHand, PreparedAs
<1> HIDE DEF S, T, a, b
<1>5. a \in Seq(S \cup T) /\ b \in Seq(S \cup T)
  BY <1>2
<1>6. Len(a) = Len(b) /\ \A i \in 1 .. Len(a) : a[i].txid = b[i].txid /\ a[i].vout = b[i].vout
  BY <1>2, <1>3
<1>7. /\ FromPersisted(batch.unsigned, b).ok
      /\ FromPersisted(batch.unsigned, b).value.outputs
           = FromPersisted(batch.unsigned, a).value.outputs
  BY <1>4, <1>5, <1>6, RestoredAlike
<1> QED BY <1>4, <1>7 DEF b

LEMMA ApplyKeeps ==
  ASSUME IInv, Apply PROVE IInv'
<1> DEFINE index  == op.args.index
           tx     == Restored.value.tx
           change == Restored.value.change
           set    == ManagerSet(StoredPayload.index)
           signed == ApplySignatures(tx, op.answer.signatures, set)
           coins  == batch.coins
           stored == [stage |-> "Signed", payload |-> batch.payload,
                      required |-> batch.required, coins |-> batch.coins,
                      unsigned |-> batch.unsigned, args |-> batch.args,
                      tx |-> signed.value, change |-> change]
<1>1. CASE ~(AnswerBelongs(op.vaa, op.answer, number, StoredPayload, set) /\ signed.ok)
  BY <1>1, FailKeeps DEF Apply
<1>2. CASE AnswerBelongs(op.vaa, op.answer, number, StoredPayload, set) /\ signed.ok
  <2>1. /\ op.pc = "apply" /\ batch' = stored
        /\ op' = [pc |-> "broadcast", args |-> op.args] /\ failure' = "none"
        /\ UNCHANGED <<service, registry, custody, mined, number, faults>>
    BY <1>2 DEF Apply, Goto
  <2>2. PICK outputs \in Payments : AtHand(outputs)
    BY <2>1, RestoredFacts
  <2>3. StoredPayload.index = index /\ StoredPayload.outputs = outputs
        /\ StoredPayload = ParsePayload(batch.payload).value
    BY <2>2 DEF AtHand, StoredPayload
  <2>4. set.m = Threshold /\ Len(set.keys) = SetSize /\ set.keys = ManagerSet(index).keys
    BY <2>3, Keys
  <2>5. PICK who \in [1 .. Threshold -> 0 .. SetSize - 1] :
          /\ \A k, l \in 1 .. Threshold : k < l => who[k] < who[l]
          /\ signed.value = SignedBy(tx, who, index)
    <3>1. op.answer.signatures \in Seq(ToSet(op.answer.signatures))
          /\ \A k \in DOMAIN op.answer.signatures : op.answer.signatures[k].signer \in Nat
      BY <2>1 DEF IInv, Strengthening, Answers, Signed, IsSeq
    <3>2. set.m \in Nat /\ Len(set.keys) \in Nat
      BY <2>4, SettingsAssumption
    <3> HIDE DEF set, tx
    <3>3. UnlockedInOrder(tx, set, signed.value)
      BY <1>2, <3>1, <3>2, SignaturesInOrder
    <3>4. PICK who \in [1 .. set.m -> 0 .. Len(set.keys) - 1] :
           /\ \A k, l \in 1 .. set.m : k < l => who[k] < who[l]
           /\ signed.value =
                [tx EXCEPT !.inputs = [i \in DOMAIN tx.inputs |->
                   [tx.inputs[i] EXCEPT !.scriptSig =
                      ScriptSig(tx, i, [k \in 1 .. set.m |->
                        Signature(set.keys[who[k] + 1], SighashAll(tx, i))])]]]
      BY <3>3 DEF UnlockedInOrder
    <3>5. signed.value = SignedBy(tx, who, index)
      BY <2>4, <3>4 DEF SignedBy, Signatures
    <3> QED BY <2>4, <3>4, <3>5
  <2> DEFINE all == Outputs(index, outputs, change)
  <2> HIDE DEF signed, set, tx, change
  <2>6. /\ batch'.stage = "Signed" /\ batch'.payload = batch.payload
        /\ batch'.required = batch.required /\ batch'.coins = coins
        /\ batch'.unsigned = batch.unsigned /\ batch'.args = batch.args
        /\ batch'.tx = signed.value /\ batch'.change = change
    BY <2>1
  <2>7. /\ Built(tx, Selected(coins, index), all)
        /\ IsSeq(coins) /\ \A i \in DOMAIN coins : IsCoin(coins[i])
        /\ PreparedAs(op.args, StoredPayload, coins, batch.required, batch.unsigned, tx, change)
        /\ batch.unsigned # <<>>
    BY <2>2 DEF AtHand, tx, change
  <2>8. /\ Wire(tx) = batch.unsigned
        /\ Redeemable(Threshold, ManagerSet(index).keys)
        /\ \A i \in DOMAIN coins : coins[i].script = Hash160(Selected(coins, index)[i].redeem)
        /\ tx.outputs = all
    BY <2>3, <2>7 DEF PreparedAs
  <2>9. /\ IsPrefix(outputs, all) /\ Len(all) <= Len(outputs) + 1
        /\ Len(all) > Len(outputs) =>
             /\ Last(all).kind = P2sh
             /\ Last(all).address = CustodyScript(Zero, index)
             /\ Last(all).amount >= batch.args.dust
        /\ TotalSats(coins) - TotalAmount(all) = batch.args.fee
        /\ change \in Nat
    BY <2>2, PaidAsReserved DEF change
  <2>10. /\ FromPersisted(batch.unsigned, Plain(coins)).ok
         /\ FromPersisted(batch.unsigned, Plain(coins)).value.outputs = all
    BY <2>2, <2>8, RestoredPlain DEF tx
  <2> HIDE DEF all
  <2>11. /\ signed.value.inputs = [i \in DOMAIN coins |->
                 Unlocked(Selected(coins, index)[i],
                          ScriptSig(tx, i, Signatures(tx, who, index, i)))]
         /\ signed.value.outputs = all
         /\ [signed.value EXCEPT !.inputs =
               [i \in DOMAIN @ |-> [@[i] EXCEPT !.scriptSig = <<>>]]] = tx
    BY <2>5, <2>7, SignedFacts
  <2>12. Len(signed.value.inputs) = Len(coins)
    <3> DEFINE n == Len(coins)
               f(i) == Unlocked(Selected(coins, index)[i],
                          ScriptSig(tx, i, Signatures(tx, who, index, i)))
    <3>1. n \in Nat /\ DOMAIN coins = 1 .. n
      BY <2>7, CoinsFacts
    <3>2. signed.value.inputs = [i \in 1 .. n |-> f(i)]
      BY <2>11, <3>1
    <3> HIDE DEF n, f
    <3>3. Len(signed.value.inputs) = n
      BY <3>1, <3>2
    <3> QED BY <3>3 DEF n
  <2>13. ASSUME NEW i \in DOMAIN coins
         PROVE  /\ signed.value.inputs[i].txid = coins[i].txid
                /\ signed.value.inputs[i].vout = coins[i].vout
                /\ Unlocks(signed.value, i, coins[i].script)
    <3>1. /\ Selected(coins, index)[i].txid = Reversed(coins[i].txid)
          /\ Selected(coins, index)[i].vout = coins[i].vout
      BY DEF Selected
    <3>2. Reversed(Reversed(coins[i].txid)) = coins[i].txid
      BY <2>7 DEF IsCoin
    <3>3. /\ signed.value.inputs[i].txid = Reversed(Selected(coins, index)[i].txid)
          /\ signed.value.inputs[i].vout = Selected(coins, index)[i].vout
      BY <2>11 DEF Unlocked
    <3>4. Unlocks(SignedBy(tx, who, index), i, coins[i].script)
      BY <2>5, <2>7, <2>8, Unlocking
    <3> QED BY <2>5, <3>1, <3>2, <3>3, <3>4
  <2>14. ThePayment(batch')
    BY <2>3, <2>6, <2>8, <2>9, <2>11, <2>12, <2>13 DEF ThePayment
  <2>15. SignedIsThePayment'
    BY <2>14, PaymentOfNextBatch
  <2>16. IsSigned(batch')
    <3>1. batch' = [stage |-> batch'.stage, payload |-> batch'.payload,
                    required |-> batch'.required, coins |-> batch'.coins,
                    unsigned |-> batch'.unsigned, args |-> batch'.args,
                    tx |-> batch'.tx, change |-> batch'.change]
      BY <2>1
    <3>2. all = Outputs(StoredPayload.index, StoredPayload.outputs, change)
      BY <2>3 DEF all
    <3> QED BY <2>3, <2>6, <2>9, <2>10, <2>11, <3>1, <3>2 DEF IsSigned
  <2>17. op'.pc = "broadcast" /\ op'.args = op.args
    BY <2>1
  <2>18. Control'
    <3>1. Control /\ op.pc = "apply" /\ batch.stage = "Constructed"
      BY <2>1 DEF IInv, Strengthening, Progress
    <3> QED BY <2>1, <2>6, <2>17, <3>1 DEF Control
  <2>19. Coins'
    BY <2>1 DEF IInv, Strengthening, Coins
  <2>20. Reserved'
    <3>1. batch.stage = "Constructed"
      BY <2>1 DEF IInv, Strengthening, Progress
    <3>2. IsReserved(batch)
      BY <3>1 DEF IInv, Strengthening, Reserved
    <3>3. IsReserved(batch')
      BY <2>6, <3>2 DEF IsReserved, ReservedWith
    <3> QED BY <3>3 DEF Reserved
  <2>21. Progress' /\ Answers'
    BY <2>17 DEF Progress, Answers
  <2>22. Registrations'
    BY <2>1, <2>6 DEF IInv, Strengthening, Registrations, Signed
  <2>23. Bookable'
    BY <2>16 DEF Bookable
  <2> QED BY <2>15, <2>18, <2>19, <2>20, <2>21, <2>22, <2>23 DEF IInv, Strengthening
<1> QED BY <1>1, <1>2

-----------------------------------------------------------------------------
(* Theorems. *)

\* The two byte orders of a hash: reversing it twice changes nothing.
HashOrders == \A bytes : Reversed(Reversed(DoubleSha(bytes))) = DoubleSha(bytes)

LEMMA StutterKeeps ==
  ASSUME IInv, UNCHANGED vars PROVE IInv'
<1>1. /\ service' = service /\ registry' = registry /\ custody' = custody /\ batch' = batch
      /\ mined' = mined /\ number' = number /\ op' = op /\ failure' = failure
      /\ faults' = faults
  BY DEF vars
<1>2. Control'
  BY <1>1 DEF IInv, Strengthening, Control
<1>3. Progress'
  BY <1>1 DEF IInv, Strengthening, Progress, StoredPayload, Restored
<1>4. Answers'
  BY <1>1 DEF IInv, Strengthening, Answers, Signed
<1>5. Registrations'
  BY <1>1 DEF IInv, Strengthening, Registrations, Signed
<1>6. Coins' /\ Reserved' /\ Bookable' /\ SignedIsThePayment'
  BY <1>1, StoreKept
<1> QED BY <1>2, <1>3, <1>4, <1>5, <1>6 DEF IInv, Strengthening

LEMMA NextKeeps ==
  ASSUME HashOrders, IInv, [Next]_vars PROVE IInv'
<1>1. CASE Start
  BY <1>1, StartKeeps
<1>2. CASE Reserve
  BY <1>2, ReserveKeeps
<1>3. CASE ReserveInsufficient
  BY <1>3, FailKeeps DEF ReserveInsufficient
<1>4. CASE Continue
  BY <1>4, ContinueKeeps
<1>5. CASE Register
  BY <1>5, RegisterKeeps
<1>6. CASE AskLocal \/ AskGuardians \/ AskFaulty \/ AskFails
  BY <1>6, AskKeeps
<1>7. CASE AskVaa \/ AskVaaFails
  BY <1>7, AskVaaKeeps
<1>8. CASE Apply
  BY <1>8, ApplyKeeps
<1>9. CASE Broadcast
  BY <1>9, BroadcastKeeps
<1>10. CASE Mine
  BY <1>10, MineKeeps
<1>11. CASE Book
  BY <1>11, BookKeeps DEF HashOrders
<1>12. CASE Crash
  BY <1>12, CrashKeeps
<1>13. CASE RestartService
  BY <1>13, RestartServiceKeeps
<1>14. CASE UNCHANGED vars
  BY <1>14, StutterKeeps
<1> QED BY <1>1, <1>2, <1>3, <1>4, <1>5, <1>6, <1>7, <1>8, <1>9, <1>10, <1>11,
           <1>12, <1>13, <1>14 DEF Next

\* Whatever the Managers answer, whichever arguments the operator is run with
\* and wherever it crashes, what is stored of a batch is what the reservation
\* stored, a registration is of the batch of its sequence, and a signed batch
\* holds the payment Solana authorised, at the reservation's fee, with enough
\* valid signatures on every input.
THEOREM Invariance ==
  ASSUME HashOrders
  PROVE  Spec => [](Strengthening /\ SignedIsThePayment)
<1>1. Init => IInv
  BY InitIInv
<1>2. IInv /\ [Next]_vars => IInv'
  BY NextKeeps
<1>3. IInv => Strengthening /\ SignedIsThePayment
  BY DEF IInv
<1> QED BY <1>1, <1>2, <1>3, PTL DEF Spec

\* The transaction that apply_manager_signatures stores pays the payload's
\* outputs and the reservation's change and nothing else, spends the reserved
\* coins, and is signed as the redeem scripts ask.
THEOREM SignedIsThePaymentHolds ==
  ASSUME HashOrders
  PROVE  Spec => []SignedIsThePayment
BY Invariance, PTL

\* An honest answer and its VAA, for the transaction at hand.
LEMMA HonestAccepted ==
  ASSUME IInv, op.pc = "apply", op.vaa = HonestVaa,
         NEW signers \in Signers, Len(signers) >= Threshold,
         op.answer = HonestAnswer(signers, Digests)
  PROVE  LET set == ManagerSet(StoredPayload.index)
         IN  /\ AnswerBelongs(op.vaa, op.answer, number, StoredPayload, set)
             /\ ApplySignatures(Restored.value.tx, op.answer.signatures, set).ok
<1> DEFINE index == StoredPayload.index
           set == ManagerSet(index)
           tx  == Restored.value.tx
           coins == batch.coins
           s == op.answer.signatures
           digests == [i \in DOMAIN tx.inputs |-> SighashAll(tx, i)]
<1>1. PICK outputs \in Payments : AtHand(outputs)
  BY RestoredFacts
<1>2. set.m = Threshold /\ Len(set.keys) = SetSize
  BY Keys
<1>3. AnswerBelongs(op.vaa, op.answer, number, StoredPayload, set)
  <2>1. /\ op.answer.vaaHash = VaaDigest(op.vaa) /\ op.answer.chain = DOGECOIN_CHAIN_ID
        /\ op.answer.index = index /\ op.answer.required = Threshold
        /\ op.answer.total = SetSize
    BY DEF HonestAnswer
  <2>2. /\ op.vaa.emitterChain = SOLANA_EMITTER_CHAIN /\ op.vaa.emitter = BridgeState
        /\ op.vaa.sequence = number /\ op.vaa.payload = batch.payload
    BY DEF HonestVaa, Vaa
  <2>3. ParsePayload(batch.payload) = Some(StoredPayload)
    BY <1>1 DEF AtHand
  <2> HIDE DEF set
  <2> QED BY <1>2, <2>1, <2>2, <2>3 DEF AnswerBelongs
<1>4. /\ DOMAIN tx.inputs = DOMAIN coins
  <2>1. Built(tx, Selected(coins, op.args.index),
              Outputs(op.args.index, outputs, Restored.value.change))
    BY <1>1 DEF AtHand
  <2>2. tx.inputs = [i \in DOMAIN Selected(coins, op.args.index) |->
                       InputOf(Selected(coins, op.args.index)[i])]
    BY <2>1 DEF Built
  <2> HIDE DEF tx
  <2> QED BY <2>2 DEF Selected
<1>5. digests = Digests
  BY <1>4 DEF Digests
<1>6. PICK n \in Nat : DOMAIN signers = 1 .. n /\ signers \in Seq(0 .. SetSize - 1)
                         /\ Len(signers) = n
  BY HonestSigned
<1>7. s = [k \in DOMAIN signers |->
             [signer |-> signers[k],
              signatures |-> [i \in DOMAIN Digests |->
                                Signature(set.keys[signers[k] + 1], Digests[i])]]]
  BY DEF HonestAnswer
<1> HIDE DEF set, s, tx, digests
<1>8. DOMAIN s = 1 .. n /\ Len(s) = n
  BY <1>6, <1>7
<1>9. ASSUME NEW k \in DOMAIN s
      PROVE  SignerValid(digests, s[k], set) /\ s[k].signer = signers[k]
  <2>1. /\ s[k].signer = signers[k]
        /\ s[k].signatures = [i \in DOMAIN Digests |->
                                Signature(set.keys[signers[k] + 1], Digests[i])]
    BY <1>6, <1>7, <1>8
  <2>2. signers[k] \in 0 .. SetSize - 1
    <3> DEFINE Members == 0 .. SetSize - 1
    <3>1. signers \in Seq(Members) /\ k \in 1 .. Len(signers)
      BY <1>6, <1>8
    <3> HIDE DEF Members
    <3>2. signers[k] \in Members
      BY <3>1
    <3> QED BY <3>2 DEF Members
  <2>3. signers[k] < Len(set.keys)
    BY <1>2, <2>2, SettingsAssumption
  <2> QED BY <1>5, <2>1, <2>3 DEF SignerValid
<1>10. IsInjective([k \in DOMAIN s |-> s[k].signer])
  <2>1. IsInjective(signers)
    BY DEF Signers
  <2>2. \A k, l \in DOMAIN signers : signers[k] = signers[l] => k = l
    BY <2>1 DEF IsInjective
  <2> QED BY <1>6, <1>8, <1>9, <2>2 DEF IsInjective
<1>11. Len(s) >= set.m
  BY <1>2, <1>6, <1>8
<1>12. ApplySignatures(tx, s, set).ok
  BY <1>9, <1>10, <1>11 DEF ApplySignatures, Some, digests
<1> QED BY <1>3, <1>12 DEF set, s, tx

\* An answer of enough honest Managers, in any order and of more than are
\* needed, always makes the batch Signed: fetch_manager_signatures refuses none.
THEOREM HonestAnswersCountHolds ==
  ASSUME HashOrders
  PROVE  Spec => HonestAnswersCount
<1> DEFINE who == [k \in DOMAIN op.answer.signatures |-> op.answer.signatures[k].signer]
           A == /\ op.pc = "apply" /\ op' # op /\ faults' = faults
                /\ op.vaa = HonestVaa
                /\ who \in Signers /\ Len(who) >= Threshold
                /\ op.answer = HonestAnswer(who, Digests)
                => batch'.stage = "Signed"
<1>1. IInv /\ [Next]_vars => [A]_vars
  <2>1. SUFFICES ASSUME IInv, Next, op.pc = "apply", op' # op, faults' = faults,
                        op.vaa = HonestVaa,
                        who \in Signers, Len(who) >= Threshold,
                        op.answer = HonestAnswer(who, Digests)
                 PROVE  batch'.stage = "Signed"
    OBVIOUS
  <2>2. faults \in Nat
    BY <2>1 DEF IInv, Strengthening, Control
  <2>3. Apply
    <3>1. ~Crash
      BY <2>1, <2>2 DEF Crash
    <3>2. ~RestartService /\ ~Mine
      BY <2>1 DEF RestartService, Mine
    <3> QED BY <2>1, <3>1, <3>2 DEF Next, Start, Reserve, ReserveInsufficient, Continue,
              Register, AskLocal, AskGuardians, AskFaulty, AskFails, AskVaa, AskVaaFails,
              Broadcast, Book
  <2> DEFINE set == ManagerSet(StoredPayload.index)
             signed == ApplySignatures(Restored.value.tx, op.answer.signatures, set)
  <2>4. AnswerBelongs(op.vaa, op.answer, number, StoredPayload, set) /\ signed.ok
    <3> HIDE DEF who
    <3> QED BY <2>1, HonestAccepted
  <2> QED BY <2>3, <2>4 DEF Apply
<1>2. Strengthening /\ SignedIsThePayment => IInv
  BY DEF IInv
<1> QED BY <1>1, <1>2, Invariance, PTL DEF Spec, HonestAnswersCount

\* The request describes the transaction at hand.
LEMMA RegistrationTaken ==
  ASSUME IInv, op.pc = "register", StoredPayload.index = 0
  PROVE  RegisterStatus(registry, Registration, ManagerSet(0)) = "OK"
<1> DEFINE request == Registration
           coins == batch.coins
           tx == Restored.value.tx
           change == Restored.value.change
           set == ManagerSet(0)
<1>1. PICK outputs \in Payments : AtHand(outputs)
  BY RestoredFacts
<1>2. /\ op.args.index = 0 /\ StoredPayload.outputs = outputs
      /\ ParsePayload(batch.payload) = Some(StoredPayload)
      /\ StoredPayload.chain = DOGECOIN_CHAIN_ID
      /\ coins # <<>>
      /\ IsSeq(coins) /\ \A i \in DOMAIN coins : IsCoin(coins[i])
      /\ op.args \in Invocations
      /\ PreparedAs(op.args, StoredPayload, coins, batch.required, batch.unsigned, tx, change)
      /\ batch.unsigned # <<>>
  BY <1>1 DEF AtHand
<1>3. /\ request.sequence = number /\ request.payload = batch.payload
      /\ request.unsigned = batch.unsigned /\ request.outputs = tx.outputs
      /\ request.inputs = [i \in DOMAIN coins |->
           [recipient |-> coins[i].recipient, txid |-> Reversed(coins[i].txid),
            vout |-> coins[i].vout]]
  BY DEF Registration
<1>4. /\ New(Selected(coins, 0), tx.outputs).ok
      /\ tx = New(Selected(coins, 0), tx.outputs).value
      /\ Wire(tx) = batch.unsigned
      /\ tx.outputs = Outputs(0, outputs, change)
  BY <1>2 DEF PreparedAs
<1> HIDE DEF request, set, tx, change
<1>5. outputs # <<>>
  BY <1>2, PreparedIsTx
<1>6. /\ IsPrefix(outputs, tx.outputs) /\ Len(tx.outputs) <= Len(outputs) + 1
      /\ Len(tx.outputs) > Len(outputs) => Last(tx.outputs).kind = P2sh
      /\ change \in Nat
  BY <1>1, <1>2, <1>4, PaidAsReserved DEF change
<1>7. Decodable(request)
  <2>1. Paying(tx.outputs, outputs, 0, change)
    BY <1>4, <1>6, OutputsFacts
  <2> DEFINE row == [amount : Nat, kind : AddressTypes, address : Own(outputs, 0)]
  <2>2. tx.outputs \in Seq(row)
    BY <2>1 DEF Paying
  <2>3. \A o \in row : o.kind \in AddressTypes
    OBVIOUS
  <2> HIDE DEF row
  <2>4. \A i \in DOMAIN tx.outputs : tx.outputs[i] \in row
    BY <2>2
  <2> QED BY <1>3, <2>3, <2>4 DEF Decodable
<1>8. CASE number \in DOMAIN registry
  <2>1. registry[number].payload = batch.payload /\ registry[number].unsigned = batch.unsigned
    BY <1>8 DEF IInv, Strengthening, Registrations
  <2> QED BY <1>3, <1>7, <1>8, <2>1 DEF RegisterStatus, request, set
<1>9. CASE number \notin DOMAIN registry
  <2>1. Described(request, set) = New(Selected(coins, 0), tx.outputs)
    <3>1. [i \in DOMAIN request.inputs |->
             [txid   |-> request.inputs[i].txid,
              vout   |-> request.inputs[i].vout,
              redeem |-> RedeemScript(request.inputs[i].recipient, set.m, set.keys)]]
            = Selected(coins, 0)
      BY <1>3 DEF Selected, set
    <3> QED BY <1>3, <3>1 DEF Described
  <2>2. request.inputs # <<>>
    <3>1. 1 \in DOMAIN coins
      BY <1>2 DEF IsSeq
    <3>2. 1 \in DOMAIN request.inputs
      BY <1>3, <3>1
    <3> QED BY <3>2
  <2>3. OutputsAuthorised(request.outputs, outputs)
    BY <1>3, <1>6 DEF OutputsAuthorised
  <2>4. ParsePayload(request.payload).ok /\ ParsePayload(request.payload).value = StoredPayload
    BY <1>2, <1>3, SomeFacts
  <2>5. SignLocally(request, set).ok
    BY <1>2, <1>3, <1>4, <1>5, <2>1, <2>2, <2>3, <2>4 DEF SignLocally, Some
  <2> QED BY <1>3, <1>7, <1>9, <2>5 DEF RegisterStatus, request, set
<1> QED BY <1>8, <1>9

\* The local Manager service accepts every registration the operator sends for
\* its own Manager set: the request it builds from the store describes the
\* transaction whose bytes it sends, and a repetition is the same request.
THEOREM RegistrationAcceptedHolds ==
  ASSUME HashOrders
  PROVE  Spec => RegistrationAccepted
<1> DEFINE A == op.pc = "register" /\ failure' = "register"
                => service = "guardians" \/ StoredPayload.index # 0
<1>1. IInv /\ [Next]_vars => [A]_vars
  <2>1. SUFFICES ASSUME IInv, Next, op.pc = "register", failure' = "register"
                 PROVE  service = "guardians" \/ StoredPayload.index # 0
    OBVIOUS
  <2>2. failure = "none" /\ service \in {"local", "guardians"}
    BY <2>1 DEF IInv, Strengthening, Control
  <2>3. Register
    <3>1. ~Crash
      BY <2>1 DEF Crash
    <3>2. ~RestartService /\ ~Mine
      BY <2>1, <2>2 DEF RestartService, Mine
    <3> QED BY <2>1, <3>1, <3>2 DEF Next, Start, Reserve, ReserveInsufficient, Continue,
              AskLocal, AskGuardians, AskFaulty, AskFails, AskVaa, AskVaaFails, Apply,
              Broadcast, Book
  <2>4. ~(service = "local" /\ RegisterStatus(registry, Registration, ManagerSet(0)) = "OK")
    BY <2>1, <2>3 DEF Register, Goto
  <2> QED BY <2>1, <2>2, <2>4, RegistrationTaken
<1>2. Strengthening /\ SignedIsThePayment => IInv
  BY DEF IInv
<1> QED BY <1>1, <1>2, Invariance, PTL DEF Spec, RegistrationAccepted

LEMMA DerivedOr ==
  ASSUME IInv, batch.stage = "Broadcast",
         ~DerivedChange(batch.tx, batch.coins, StoredPayload.outputs, batch.change,
                        batch.unsigned).ok
  PROVE  /\ batch.change > 0
         /\ \E i, j \in DOMAIN batch.coins : batch.coins[i].keyRef # batch.coins[j].keyRef
<1> DEFINE tx == batch.tx
           coins == batch.coins
           change == batch.change
           restored == FromPersisted(batch.unsigned, Plain(coins))
<1>1. IsReserved(batch) /\ IsSigned(batch)
  BY DEF IInv, Strengthening, Reserved, Bookable
<1>2. PICK outputs \in Payments : ReservedWith(batch, outputs)
  BY <1>1 DEF IsReserved
<1> DEFINE index == batch.args.index
           payload == [chain |-> DOGECOIN_CHAIN_ID, index |-> index, outputs |-> outputs]
<1>3. StoredPayload = payload
  <2>1. ParsePayload(batch.payload) = Some(payload)
    BY <1>2, StoredFacts
  <2> HIDE DEF payload
  <2> QED BY <2>1, SomeFacts DEF StoredPayload
<1>4. StoredPayload.outputs = outputs /\ StoredPayload.index = index
  BY <1>3
<1> HIDE DEF payload
<1>5. /\ change \in Nat
      /\ tx.outputs = Outputs(index, outputs, change)
      /\ restored.ok /\ restored.value.outputs = tx.outputs
  BY <1>1, <1>4 DEF IsSigned, StoredPayload
<1>6. Paying(tx.outputs, outputs, index, change)
  BY <1>5, OutputsFacts
<1>7. coins # <<>> /\ coins \in Seq(ToSet(coins))
  BY <1>1 DEF IsReserved, IsSeq
<1>8. Head(coins) = coins[1] /\ 1 \in DOMAIN coins
  BY <1>7
<1>9. Plain(coins) = [i \in DOMAIN coins |-> [txid |-> Reversed(coins[i].txid),
                                              vout |-> coins[i].vout, redeem |-> 81]]
  BY DEF Plain
<1> DEFINE shown == Last(tx.outputs)
<1>10. change # 0
  <2>1. SUFFICES ASSUME change = 0 PROVE FALSE
    OBVIOUS
  <2>2. Len(tx.outputs) = Len(outputs)
    BY <1>6, <2>1 DEF Paying
  <2> QED BY <1>4, <2>1, <2>2 DEF DerivedChange, Some
<1>11. /\ Len(tx.outputs) = Len(outputs) + 1
       /\ shown.amount = change /\ shown.kind = P2sh
  BY <1>6, <1>10 DEF Paying
<1>12. ~ \A i \in DOMAIN coins : coins[i].keyRef = Head(coins).keyRef
  <2>1. Last(restored.value.outputs) = shown /\ restored.ok
    BY <1>5
  <2> HIDE DEF shown
  <2> QED BY <1>4, <1>9, <1>10, <1>11, <2>1 DEF DerivedChange, Some, shown
<1> QED BY <1>5, <1>8, <1>10, <1>12

\* A confirmed payment is refused by the books only for change of coins recorded
\* under different key references.
THEOREM ConfirmedIsBookableHolds ==
  ASSUME HashOrders
  PROVE  Spec => ConfirmedIsBookable
<1> DEFINE A == op.pc = "book" /\ failure' = "book"
                => /\ batch.change > 0
                   /\ \E i, j \in DOMAIN batch.coins :
                        batch.coins[i].keyRef # batch.coins[j].keyRef
<1>1. IInv /\ [Next]_vars => [A]_vars
  <2>1. SUFFICES ASSUME IInv, Next, op.pc = "book", failure' = "book"
                 PROVE  /\ batch.change > 0
                        /\ \E i, j \in DOMAIN batch.coins :
                             batch.coins[i].keyRef # batch.coins[j].keyRef
    OBVIOUS
  <2>2. failure = "none" /\ batch.stage = "Broadcast"
    BY <2>1 DEF IInv, Strengthening, Control
  <2>3. Book
    <3>1. ~Crash
      BY <2>1 DEF Crash
    <3>2. ~RestartService /\ ~Mine
      BY <2>1, <2>2 DEF RestartService, Mine
    <3> QED BY <2>1, <3>1, <3>2 DEF Next, Start, Reserve, ReserveInsufficient, Continue,
              Register, AskLocal, AskGuardians, AskFaulty, AskFails, AskVaa, AskVaaFails,
              Apply, Broadcast
  <2> DEFINE derived(tx) == DerivedChange(tx, batch.coins, StoredPayload.outputs,
                                          batch.change, batch.unsigned)
  <2>4. Confirmed.ok /\ ~derived(Confirmed.value).ok
    <3> HIDE DEF derived
    <3>1. Confirmed.ok
      BY <2>1, <2>3 DEF Book, Fail
    <3>2. ~derived(Confirmed.value).ok
      BY <2>1, <2>3, <3>1 DEF Book, Goto, derived
    <3> QED BY <3>1, <3>2
  <2>5. Confirmed.value = batch.tx
    BY <2>4, SomeFacts DEF Confirmed, None
  <2>6. ~derived(batch.tx).ok
    BY <2>4, <2>5
  <2> QED BY <2>1, <2>2, <2>6, DerivedOr
<1>2. Strengthening /\ SignedIsThePayment => IInv
  BY DEF IInv
<1> QED BY <1>1, <1>2, Invariance, PTL DEF Spec, ConfirmedIsBookable

-----------------------------------------------------------------------------
(* Every later run with the same arguments. *)

\* What is stored of a batch, of no more coins than the reader takes, restores
\* with the arguments it was reserved with.
Restorable(b) ==
  Len(b.coins) <= MaxPersistedInputs =>
    Prepared(b.args, ParsePayload(b.payload).value, b.coins, b.required, b.unsigned).ok
Recoverable == batch.stage # "None" => Restorable(batch)

LEMMA RestorableAlike ==
  ASSUME NEW b, NEW c, c.args = b.args, c.payload = b.payload, c.coins = b.coins,
         c.required = b.required, c.unsigned = b.unsigned, Restorable(b)
  PROVE  Restorable(c)
BY DEF Restorable

\* prepared_from_reservation takes what satisfies its conditions.
LEMMA PreparedWhen ==
  ASSUME NEW args, NEW payload, NEW coins, NEW required, NEW stored, NEW tx, NEW change,
         PreparedAs(args, payload, coins, required, stored, tx, change),
         stored # <<>>
  PROVE  Prepared(args, payload, coins, required, stored).ok
<1> DEFINE set      == ManagerSet(payload.index)
           plan     == PlanCustody(TotalSats(coins), TotalAmount(payload.outputs),
                                   args.fee, args.dust)
           selected == Selected(coins, payload.index)
           rest     == IF plan.change = 0 THEN <<>>
                       ELSE <<[amount |-> plan.change, kind |-> P2sh,
                               address |-> CustodyScript(Zero, payload.index)]>>
           read     == FromPersisted(stored, selected)
<1>1. /\ required = TotalAmount(payload.outputs) + args.fee /\ plan.ok /\ change = plan.change
      /\ Redeemable(Threshold, set.keys)
      /\ \A i \in DOMAIN coins : coins[i].script = Hash160(selected[i].redeem)
      /\ tx.outputs = Outputs(payload.index, payload.outputs, change)
      /\ Wire(tx) = stored /\ read.ok /\ read.value = tx
  BY DEF PreparedAs
<1>2. set.m = Threshold
  BY Keys
<1>3. payload.outputs \o rest = Outputs(payload.index, payload.outputs, plan.change)
  BY DEF Outputs
<1>4. selected = [i \in DOMAIN coins |->
        [txid |-> Reversed(coins[i].txid), vout |-> coins[i].vout,
         redeem |-> RedeemScript(coins[i].recipient, set.m, set.keys)]]
  BY DEF Selected
<1>5. Prepared(args, payload, coins, required, stored) =
        IF /\ required = TotalAmount(payload.outputs) + args.fee
           /\ plan.ok
           /\ Redeemable(set.m, set.keys)
           /\ \A i \in DOMAIN coins : coins[i].script = Hash160(selected[i].redeem)
           /\ read.ok /\ read.value.outputs = payload.outputs \o rest
           /\ stored = <<>> \/ Wire(read.value) = stored
          THEN Some([tx |-> read.value, change |-> plan.change])
          ELSE None
  <2> HIDE DEF set, plan
  <2> QED BY <1>4 DEF Prepared, plan, set
<1> HIDE DEF set, plan, selected, rest, read
<1>6. read.value.outputs = payload.outputs \o rest /\ Wire(read.value) = stored
  BY <1>1, <1>3
<1>7. Prepared(args, payload, coins, required, stored)
        = Some([tx |-> read.value, change |-> plan.change])
  BY <1>1, <1>2, <1>5, <1>6
<1> QED BY <1>7, SomeFacts

\* What is prepared and stored can be prepared from the store.
LEMMA PreparedRestores ==
  ASSUME NEW args \in Invocations, NEW outputs \in Payments, NEW coins, NEW required,
         NEW payload, payload.outputs = outputs, NEW tx, NEW change,
         IsSeq(coins), \A i \in DOMAIN coins : IsCoin(coins[i]),
         PreparedAs(args, payload, coins, required, <<>>, tx, change),
         Len(coins) <= MaxPersistedInputs
  PROVE  Prepared(args, payload, coins, required, Wire(tx)).ok
<1> DEFINE selected == Selected(coins, payload.index)
           all == Outputs(payload.index, outputs, change)
           stored == Wire(tx)
<1>1. /\ stored # <<>> /\ Built(tx, selected, all) /\ tx.outputs = all
      /\ change \in Nat
      /\ \E V : IsTx(tx, V)
  BY PreparedIsTx
<1>2. /\ New(selected, tx.outputs).ok /\ tx = New(selected, tx.outputs).value
  BY DEF PreparedAs
<1>3. New(selected, tx.outputs) = Some(tx)
  <2> HIDE DEF selected
  <2> QED BY <1>2 DEF New, None, Some
<1>4. selected \in Seq(ToSet(selected)) /\ Len(selected) = Len(coins)
  BY SelectedFacts DEF IsSeq
<1>5. Len(tx.outputs) <= MaxPersistedOutputs
  <2>1. Paying(all, outputs, payload.index, change)
    <3> HIDE DEF all
    <3> QED BY <1>1, OutputsFacts DEF all
  <2>2. Len(outputs) < MaxPersistedOutputs
    BY SnapshotsAssumption
  <2>3. Len(all) \in {Len(outputs), Len(outputs) + 1} /\ Len(outputs) \in Nat
    <3> HIDE DEF all
    <3> QED BY <2>1 DEF Paying
  <2> HIDE DEF all
  <2> QED BY <1>1, <2>2, <2>3, LimitsAssumption
<1>6. PICK V : IsTx(tx, V)
  BY <1>1
<1>7. FromPersisted(stored, selected) = Some(tx)
  <2> DEFINE S == ToSet(selected)
  <2>1. selected \in Seq(S) /\ New(selected, tx.outputs) = Some(tx) /\ IsTx(tx, V)
        /\ Len(selected) <= MaxPersistedInputs /\ Len(tx.outputs) <= MaxPersistedOutputs
    BY <1>3, <1>4, <1>5, <1>6
  <2> HIDE DEF S, selected
  <2> QED BY <2>1, WireRoundTrip
<1>8. PreparedAs(args, payload, coins, required, stored, tx, change)
  <2> HIDE DEF stored
  <2>1. FromPersisted(stored, selected).ok /\ FromPersisted(stored, selected).value = tx
    BY <1>7, SomeFacts
  <2>2. Wire(tx) = stored
    BY DEF stored
  <2> HIDE DEF selected
  <2>3. /\ FromPersisted(stored, Selected(coins, payload.index)).ok
        /\ FromPersisted(stored, Selected(coins, payload.index)).value = tx
    BY <2>1 DEF selected
  <2> QED BY <2>2, <2>3 DEF PreparedAs
<1> HIDE DEF stored
<1>9. Prepared(args, payload, coins, required, stored).ok
  BY <1>1, <1>8, PreparedWhen
<1> QED BY <1>9 DEF stored

-----------------------------------------------------------------------------
(* The steps that change what is stored of coins and batches, or the chain.  *)

Untouched == batch' = batch /\ custody' = custody /\ utxos' = utxos

LEMMA FailTouchesNothing ==
  ASSUME NEW why, Fail(why) PROVE Untouched
BY DEF Fail, Untouched

LEMMA StepsThatTouch ==
  ASSUME [Next]_vars
  PROVE  Untouched \/ Reserve \/ Apply \/ Broadcast \/ Book
<1>1. CASE Start \/ Crash \/ RestartService \/ Mine
  BY <1>1 DEF Start, Crash, RestartService, Mine, Untouched
<1>2. CASE Continue \/ ReserveInsufficient \/ Register
  BY <1>2, FailTouchesNothing DEF Continue, ReserveInsufficient, Register, Untouched
<1>3. CASE AskLocal \/ AskGuardians \/ AskFaulty \/ AskFails
  BY <1>3, FailTouchesNothing DEF AskLocal, AskGuardians, AskFaulty, AskFails, Untouched
<1>4. CASE AskVaa \/ AskVaaFails
  BY <1>4, FailTouchesNothing DEF AskVaa, AskVaaFails, Untouched
<1>5. CASE UNCHANGED vars
  BY <1>5 DEF vars, Untouched
<1> QED BY <1>1, <1>2, <1>3, <1>4, <1>5 DEF Next

\* A snapshot and its coins are reserved.
Reserving(outputs, chosen, tx, change) ==
  LET coins == SetToSeq(chosen)
  IN  /\ op.args \in Invocations
      /\ custody' = custody \ chosen /\ utxos' = utxos
      /\ batch'.stage = "Constructed" /\ batch'.args = op.args
      /\ batch'.coins = coins /\ batch'.unsigned = Wire(tx)
      /\ batch'.payload = PayloadBytes([chain |-> DOGECOIN_CHAIN_ID, index |-> op.args.index,
                                        outputs |-> outputs])
      /\ IsFiniteSet(chosen)
      /\ IsSeq(coins) /\ \A i \in DOMAIN coins : IsCoin(coins[i])
      /\ PreparedAs(op.args, [chain |-> DOGECOIN_CHAIN_ID, index |-> op.args.index,
                              outputs |-> outputs],
                    coins, batch'.required, <<>>, tx, change)
LEMMA ReserveSteps ==
  ASSUME IInv, Reserve
  PROVE  \/ Untouched
         \/ \E outputs \in Payments, chosen \in SUBSET custody :
            \E tx, change : Reserving(outputs, chosen, tx, change)
<1>0. op.pc = "reserve" /\ op = [pc |-> op.pc, args |-> op.args] /\ op.args \in Invocations
      /\ batch.stage = "None"
  BY DEF Reserve, IInv, Strengthening, Control
<1> DEFINE payload(outputs) == [chain |-> DOGECOIN_CHAIN_ID, index |-> op.args.index,
                                outputs |-> outputs]
           required(outputs) == TotalAmount(outputs) + op.args.fee
           prepared(outputs, coins) ==
             Prepared(op.args, payload(outputs), coins, required(outputs), <<>>)
<1>1. PICK outputs \in Payments, chosen \in SUBSET custody :
        IF prepared(outputs, SetToSeq(chosen)).ok
          THEN /\ batch' = [stage |-> "Constructed",
                            payload |-> PayloadBytes(payload(outputs)),
                            required |-> required(outputs), coins |-> SetToSeq(chosen),
                            unsigned |-> Wire(prepared(outputs, SetToSeq(chosen)).value.tx),
                            args |-> op.args]
               /\ custody' = custody \ chosen
               /\ Goto([op EXCEPT !.pc = "continue"])
               /\ UNCHANGED <<service, registry, utxos, mined, number, faults>>
          ELSE Fail("reserve")
  BY DEF Reserve
<1> DEFINE coins == SetToSeq(chosen)
           p == prepared(outputs, coins)
<1>2. CASE ~p.ok
  BY <1>1, <1>2, FailTouchesNothing
<1>3. CASE p.ok
  <2>1. /\ batch' = [stage |-> "Constructed",
                     payload |-> PayloadBytes(payload(outputs)),
                     required |-> required(outputs), coins |-> coins,
                     unsigned |-> Wire(p.value.tx), args |-> op.args]
        /\ custody' = custody \ chosen /\ utxos' = utxos
    BY <1>1, <1>3
  <2>2. PreparedAs(op.args, payload(outputs), coins, required(outputs), <<>>,
                   p.value.tx, p.value.change)
    BY <1>3, PreparedFacts
  <2>3. IsFiniteSet(chosen) /\ \A c \in chosen : IsCoin(c)
    BY FS_Subset DEF IInv, Strengthening, Coins
  <2>4. IsSeq(coins) /\ \A i \in DOMAIN coins : IsCoin(coins[i])
    BY <2>3, Distinct, SeqOfItself
  <2>5. payload(outputs) = [chain |-> DOGECOIN_CHAIN_ID, index |-> op.args.index,
                            outputs |-> outputs]
    OBVIOUS
  <2> HIDE DEF p, coins, payload, required
  <2>6. /\ batch'.stage = "Constructed" /\ batch'.payload = PayloadBytes(payload(outputs))
        /\ batch'.required = required(outputs) /\ batch'.coins = coins
        /\ batch'.unsigned = Wire(p.value.tx) /\ batch'.args = op.args
    BY <2>1
  <2>7. Reserving(outputs, chosen, p.value.tx, p.value.change)
    BY <1>0, <2>1, <2>2, <2>3, <2>4, <2>5, <2>6 DEF Reserving, coins
  <2> QED BY <2>7
<1> QED BY <1>2, <1>3

\* A transaction is signed.
KeepsTheBatch == /\ batch'.args = batch.args /\ batch'.payload = batch.payload
                 /\ batch'.coins = batch.coins /\ batch'.required = batch.required
                 /\ batch'.unsigned = batch.unsigned
Signing(outputs, who) ==
  /\ batch.stage = "Constructed" /\ batch'.stage = "Signed" /\ KeepsTheBatch
  /\ custody' = custody /\ utxos' = utxos
  /\ AtHand(outputs)
  /\ batch'.tx = SignedBy(Restored.value.tx, who, op.args.index)
LEMMA ApplySteps ==
  ASSUME IInv, Apply
  PROVE  Untouched \/ \E outputs \in Payments : \E who : Signing(outputs, who)
<1> DEFINE index  == op.args.index
           tx     == Restored.value.tx
           change == Restored.value.change
           set    == ManagerSet(StoredPayload.index)
           signed == ApplySignatures(tx, op.answer.signatures, set)
           stored == [stage |-> "Signed", payload |-> batch.payload,
                      required |-> batch.required, coins |-> batch.coins,
                      unsigned |-> batch.unsigned, args |-> batch.args,
                      tx |-> signed.value, change |-> change]
<1>1. CASE ~(AnswerBelongs(op.vaa, op.answer, number, StoredPayload, set) /\ signed.ok)
  BY <1>1, FailTouchesNothing DEF Apply
<1>2. CASE AnswerBelongs(op.vaa, op.answer, number, StoredPayload, set) /\ signed.ok
  <2>1. op.pc = "apply" /\ batch' = stored /\ custody' = custody /\ utxos' = utxos
    BY <1>2 DEF Apply
  <2>2. PICK outputs \in Payments : AtHand(outputs)
    BY <2>1, RestoredFacts
  <2>3. StoredPayload.index = index
    BY <2>2 DEF AtHand
  <2>4. set.m = Threshold /\ set.keys = ManagerSet(index).keys /\ Len(set.keys) = SetSize
    BY <2>3, Keys
  <2>5. PICK who : signed.value = SignedBy(tx, who, index)
    <3>1. op.answer.signatures \in Seq(ToSet(op.answer.signatures))
          /\ \A k \in DOMAIN op.answer.signatures : op.answer.signatures[k].signer \in Nat
      BY <2>1 DEF IInv, Strengthening, Answers, Signed, IsSeq
    <3>2. set.m \in Nat /\ Len(set.keys) \in Nat
      BY <2>4, SettingsAssumption
    <3> HIDE DEF set, tx
    <3>3. UnlockedInOrder(tx, set, signed.value)
      BY <1>2, <3>1, <3>2, SignaturesInOrder
    <3>4. PICK who \in [1 .. set.m -> 0 .. Len(set.keys) - 1] :
           /\ \A k, l \in 1 .. set.m : k < l => who[k] < who[l]
           /\ signed.value =
                [tx EXCEPT !.inputs = [i \in DOMAIN tx.inputs |->
                   [tx.inputs[i] EXCEPT !.scriptSig =
                      ScriptSig(tx, i, [k \in 1 .. set.m |->
                        Signature(set.keys[who[k] + 1], SighashAll(tx, i))])]]]
      BY <3>3 DEF UnlockedInOrder
    <3>5. signed.value = SignedBy(tx, who, index)
      BY <2>4, <3>4 DEF SignedBy, Signatures
    <3> QED BY <3>5
  <2>6. batch.stage = "Constructed"
    BY <2>1 DEF IInv, Strengthening, Progress
  <2> HIDE DEF signed, change
  <2>7. batch'.stage = "Signed" /\ KeepsTheBatch /\ batch'.tx = signed.value
    BY <2>1 DEF KeepsTheBatch
  <2>8. Signing(outputs, who)
    BY <2>1, <2>2, <2>5, <2>6, <2>7 DEF Signing
  <2> QED BY <2>8
<1> QED BY <1>1, <1>2

\* A transaction is broadcast.
Broadcasting ==
  /\ batch.stage = "Signed" /\ batch'.stage = "Broadcast" /\ KeepsTheBatch
  /\ batch'.tx = batch.tx
  /\ custody' = custody
  /\ Accepts(batch.tx)
  /\ utxos' = (utxos \ UNION {SpentBy(batch.tx, i) : i \in DOMAIN batch.tx.inputs})
                \cup Created(batch.tx)
LEMMA BroadcastSteps ==
  ASSUME IInv, Broadcast PROVE Untouched \/ Broadcasting
<1>1. CASE ~Accepts(batch.tx)
  BY <1>1, FailTouchesNothing DEF Broadcast
<1>2. CASE Accepts(batch.tx)
  <2>1. /\ op.pc = "broadcast" /\ batch' = [batch EXCEPT !.stage = "Broadcast"]
        /\ custody' = custody
        /\ utxos' = (utxos \ UNION {SpentBy(batch.tx, i) : i \in DOMAIN batch.tx.inputs})
                      \cup Created(batch.tx)
    BY <1>2 DEF Broadcast
  <2>2. batch.stage = "Signed"
    BY <2>1 DEF IInv, Strengthening, Control
  <2>3. IsSigned(batch)
    BY <2>2 DEF IInv, Strengthening, Bookable
  <2> DEFINE stood == [stage |-> batch.stage, payload |-> batch.payload,
                       required |-> batch.required, coins |-> batch.coins,
                       unsigned |-> batch.unsigned, args |-> batch.args,
                       tx |-> batch.tx, change |-> batch.change]
             next == [stage |-> "Broadcast", payload |-> batch.payload,
                      required |-> batch.required, coins |-> batch.coins,
                      unsigned |-> batch.unsigned, args |-> batch.args,
                      tx |-> batch.tx, change |-> batch.change]
  <2>4. batch = stood
    BY <2>3 DEF IsSigned
  <2>5. [stood EXCEPT !.stage = "Broadcast"] = next
    OBVIOUS
  <2>6. batch' = next
    <3> HIDE DEF stood, next
    <3> QED BY <2>1, <2>4, <2>5
  <2>7. batch'.stage = "Broadcast" /\ KeepsTheBatch /\ batch'.tx = batch.tx
    BY <2>6 DEF KeepsTheBatch
  <2> HIDE DEF next, stood
  <2>8. Broadcasting
    BY <1>2, <2>1, <2>2, <2>7 DEF Broadcasting
  <2> QED BY <2>8
<1> QED BY <1>1, <1>2

\* A payment is booked, and its change.
Booking ==
  /\ batch.stage = "Broadcast" /\ batch'.stage = "None" /\ utxos' = utxos
  /\ \/ custody' = custody
     \/ \E keyRef :
          /\ custody' = custody \cup {ChangeRow(batch.tx, Len(StoredPayload.outputs), keyRef)}
          /\ Len(batch.tx.outputs) = Len(StoredPayload.outputs) + 1
LEMMA BookSteps ==
  ASSUME IInv, Book PROVE Untouched \/ Booking
<1> DEFINE derived == DerivedChange(Confirmed.value, batch.coins, StoredPayload.outputs,
                                    batch.change, batch.unsigned)
<1>1. CASE ~Confirmed.ok \/ ~derived.ok
  BY <1>1, FailTouchesNothing DEF Book
<1>2. CASE Confirmed.ok /\ derived.ok
  <2>1. /\ op.pc = "book" /\ utxos' = utxos
        /\ custody' = custody \cup derived.value
        /\ batch' = NoBatch
    BY <1>2 DEF Book
  <2>2. batch.stage = "Broadcast"
    BY <2>1 DEF IInv, Strengthening, Control
  <2>3. Confirmed.value = batch.tx
    BY <1>2, SomeFacts DEF Confirmed, None
  <2>4. \/ derived.value = {}
        \/ \E keyRef :
             /\ derived.value = {ChangeRow(batch.tx, Len(StoredPayload.outputs), keyRef)}
             /\ Len(batch.tx.outputs) = Len(StoredPayload.outputs) + 1
    BY <1>2, <2>3 DEF DerivedChange, Some, None
  <2> HIDE DEF derived
  <2>5. batch'.stage = "None"
    BY <2>1 DEF NoBatch
  <2>6. Booking
    BY <2>1, <2>2, <2>4, <2>5 DEF Booking
  <2> QED BY <2>6
<1> QED BY <1>1, <1>2

LEMMA InitRecoverable ==
  ASSUME Init PROVE Recoverable
BY DEF Init, NoBatch, Recoverable

LEMMA RestorableOnceReserved ==
  ASSUME NEW outputs \in Payments, NEW chosen \in SUBSET custody, NEW tx, NEW change,
         Reserving(outputs, chosen, tx, change)
  PROVE  Restorable(batch')
<1> DEFINE payload == [chain |-> DOGECOIN_CHAIN_ID, index |-> op.args.index,
                       outputs |-> outputs]
           coins == SetToSeq(chosen)
<1>1. /\ op.args \in Invocations
      /\ batch'.args = op.args /\ batch'.coins = coins /\ batch'.unsigned = Wire(tx)
      /\ batch'.payload = PayloadBytes(payload)
      /\ IsSeq(coins) /\ \A i \in DOMAIN coins : IsCoin(coins[i])
      /\ PreparedAs(op.args, payload, coins, batch'.required, <<>>, tx, change)
  BY DEF Reserving
<1>2. payload.outputs = outputs
  OBVIOUS
<1>3. ParsePayload(PayloadBytes(payload)).value = payload
  <2>1. outputs \in Seq([amount : Nat, kind : AddressTypes, address : Places(outputs)])
    BY PaymentFacts
  <2>2. ParsePayload(PayloadBytes(payload)) = Some(payload)
    BY <2>1, PayloadRoundTrip
  <2> HIDE DEF payload
  <2> QED BY <2>2, SomeFacts
<1> HIDE DEF payload, coins
<1>4. ASSUME Len(coins) <= MaxPersistedInputs
      PROVE  Prepared(op.args, payload, coins, batch'.required, Wire(tx)).ok
  <2> DEFINE required == batch'.required
             args == op.args
  <2>1. args \in Invocations /\ PreparedAs(args, payload, coins, required, <<>>, tx, change)
    BY <1>1
  <2> HIDE DEF args, required
  <2>2. Prepared(args, payload, coins, required, Wire(tx)).ok
    BY <1>1, <1>2, <1>4, <2>1, PreparedRestores
  <2> QED BY <2>2 DEF args, required
<1> QED BY <1>1, <1>3, <1>4 DEF Restorable

LEMMA RecoverableKept ==
  ASSUME IInv, Recoverable, [Next]_vars PROVE Recoverable'
<1>1. CASE Untouched
  BY <1>1 DEF Untouched, Recoverable
<1>2. CASE Reserve /\ ~Untouched
  <2>1. PICK outputs \in Payments, chosen \in SUBSET custody :
          \E tx, change : Reserving(outputs, chosen, tx, change)
    BY <1>2, ReserveSteps
  <2>2. Restorable(batch')
    BY <2>1, RestorableOnceReserved
  <2> QED BY <2>2 DEF Recoverable
<1>3. ASSUME KeepsTheBatch, batch.stage # "None" PROVE Recoverable'
  <2>1. Restorable(batch)
    BY <1>3 DEF Recoverable
  <2> DEFINE b == batch
             c == batch'
  <2>2. c.args = b.args /\ c.payload = b.payload /\ c.coins = b.coins
        /\ c.required = b.required /\ c.unsigned = b.unsigned /\ Restorable(b)
    BY <1>3, <2>1 DEF KeepsTheBatch
  <2> HIDE DEF b, c
  <2>3. Restorable(c)
    BY <2>2, RestorableAlike
  <2> QED BY <2>3 DEF Recoverable, c
<1>4. CASE Apply /\ ~Untouched
  BY <1>3, <1>4, ApplySteps DEF Signing
<1>5. CASE Broadcast /\ ~Untouched
  BY <1>3, <1>5, BroadcastSteps DEF Broadcasting
<1>6. CASE Book /\ ~Untouched
  BY <1>6, BookSteps DEF Booking, Recoverable
<1> QED BY <1>1, <1>2, <1>4, <1>5, <1>6, StepsThatTouch

\* Arguments that differ in whether the Managers are asked prepare the same.
LEMMA SameArguments ==
  ASSUME NEW a \in Invocations, NEW b \in Invocations, TheSame(a, b)
  PROVE  a.index = b.index /\ a.fee = b.fee /\ a.dust = b.dust
<1> DEFINE x == [a EXCEPT !.signing = FALSE]
           y == [b EXCEPT !.signing = FALSE]
<1>1. /\ a \in [index : {0, 1}, fee : Nat, dust : Nat, signing : BOOLEAN]
      /\ b \in [index : {0, 1}, fee : Nat, dust : Nat, signing : BOOLEAN]
  BY InvocationsAssumption
<1>2. /\ x["index"] = a["index"] /\ x["fee"] = a["fee"] /\ x["dust"] = a["dust"]
      /\ y["index"] = b["index"] /\ y["fee"] = b["fee"] /\ y["dust"] = b["dust"]
  BY <1>1
<1>3. x = y
  BY DEF TheSame
<1> HIDE DEF x, y
<1> QED BY <1>2, <1>3

LEMMA PreparedTheSame ==
  ASSUME NEW a \in Invocations, NEW b \in Invocations, TheSame(a, b),
         NEW payload, NEW coins, NEW required, NEW stored
  PROVE  Prepared(a, payload, coins, required, stored)
           = Prepared(b, payload, coins, required, stored)
<1>1. a.fee = b.fee /\ a.dust = b.dust
  BY SameArguments
<1> QED BY <1>1 DEF Prepared

\* A run with the arguments of the reservation takes the batch up.
LEMMA ContinueTakesUp ==
  ASSUME IInv, Recoverable, Continue, TheSame(op.args, batch.args),
         Len(batch.coins) <= MaxPersistedInputs
  PROVE  failure' = "none"
<1>1. /\ op.args \in Invocations /\ batch.stage # "None"
      /\ IsReserved(batch) /\ batch.args \in Invocations
  BY DEF Continue, IInv, Strengthening, Control, Reserved, IsReserved
<1>2. op.args.index = batch.args.index
  BY <1>1, SameArguments
<1>3. StoredPayload.index = batch.args.index
  <2>1. PICK outputs \in Payments : ReservedWith(batch, outputs)
    BY <1>1 DEF IsReserved
  <2> DEFINE payload == [chain |-> DOGECOIN_CHAIN_ID, index |-> batch.args.index,
                         outputs |-> outputs]
  <2>2. ParsePayload(batch.payload) = Some(payload)
    BY <2>1, StoredFacts
  <2>3. payload.index = batch.args.index
    OBVIOUS
  <2> HIDE DEF payload
  <2> QED BY <2>2, <2>3, SomeFacts DEF StoredPayload
<1>4. Prepared(batch.args, StoredPayload, batch.coins, batch.required, batch.unsigned).ok
  BY <1>1 DEF Recoverable, Restorable, StoredPayload
<1>5. Restored.ok
  <2>1. Restored = Prepared(batch.args, StoredPayload, batch.coins, batch.required,
                            batch.unsigned)
    <3> DEFINE a == op.args
               b == batch.args
               payload == StoredPayload
               coins == batch.coins
               required == batch.required
               stored == batch.unsigned
    <3>1. a \in Invocations /\ b \in Invocations /\ TheSame(a, b)
      BY <1>1
    <3> HIDE DEF a, b, payload, coins, required, stored
    <3>2. Prepared(a, payload, coins, required, stored)
            = Prepared(b, payload, coins, required, stored)
      BY <3>1, PreparedTheSame
    <3> QED BY <3>2 DEF Restored, a, b, payload, coins, required, stored
  <2> QED BY <1>4, <2>1
<1> QED BY <1>2, <1>3, <1>5 DEF Continue, Goto

\* Whatever happened before, what is stored of a reservation restores with the
\* arguments it was made with.
THEOREM RecoverableHolds ==
  ASSUME HashOrders
  PROVE  Spec => []Recoverable
<1>1. Init => Recoverable
  BY InitRecoverable
<1>2. IInv /\ Recoverable /\ [Next]_vars => Recoverable'
  BY RecoverableKept
<1>3. Strengthening /\ SignedIsThePayment => IInv
  BY DEF IInv
<1> QED BY <1>1, <1>2, <1>3, Invariance, PTL DEF Spec

\* A snapshot that an operator has reserved is continued by every later run with
\* the same Manager set, fee and dust threshold, crashes and failed runs between
\* them notwithstanding; unless it has more inputs than the store's reader
\* takes, which building it does not check.
THEOREM SameArgsRecoverHolds ==
  ASSUME HashOrders
  PROVE  Spec => SameArgsRecover
<1> DEFINE A == op.pc = "continue" /\ failure' \in {"identity", "prepare"} /\ op' = Idle
                => ~TheSame(op.args, batch.args) \/ Len(batch.coins) > MaxPersistedInputs
<1>1. IInv /\ Recoverable /\ [Next]_vars => [A]_vars
  <2>1. SUFFICES ASSUME IInv, Recoverable, Next, op.pc = "continue",
                        failure' \in {"identity", "prepare"},
                        TheSame(op.args, batch.args),
                        ~(Len(batch.coins) > MaxPersistedInputs)
                 PROVE  FALSE
    OBVIOUS
  <2>2. failure = "none" /\ IsReserved(batch)
    BY <2>1 DEF IInv, Strengthening, Control, Reserved
  <2>3. Continue
    <3>1. ~Crash
      BY <2>1 DEF Crash
    <3>2. ~RestartService /\ ~Mine
      BY <2>1, <2>2 DEF RestartService, Mine
    <3> QED BY <2>1, <3>1, <3>2 DEF Next, Start, Reserve, ReserveInsufficient, Register,
              AskLocal, AskGuardians, AskFaulty, AskFails, AskVaa, AskVaaFails, Apply,
              Broadcast, Book
  <2>4. Len(batch.coins) \in Nat /\ MaxPersistedInputs \in Nat
    BY <2>2, CoinsFacts, LimitsAssumption DEF IsReserved
  <2>5. failure' = "none"
    BY <2>1, <2>3, <2>4, ContinueTakesUp
  <2> QED BY <2>1, <2>5
<1>2. Strengthening /\ SignedIsThePayment => IInv
  BY DEF IInv
<1> QED BY <1>1, <1>2, Invariance, RecoverableHolds, PTL DEF Spec, SameArgsRecover

-----------------------------------------------------------------------------
(* The books and the chain. *)

\* Where an unspent output or a coin is, and the output that an encoded
\* transaction spends first.
Outpoint(u) == <<u.txid, u.vout>>
FirstOf(bytes) == LET at == IF bytes[2] <= CountByte THEN 3 ELSE 4
                  IN  <<bytes[at], bytes[at + 1]>>

LEMMA FirstSpent ==
  ASSUME NEW V, NEW tx, IsTx(tx, V)
  PROVE  FirstOf(Wire(tx)) = <<tx.inputs[1].txid, tx.inputs[1].vout>>
<1> DEFINE n == Len(tx.inputs)
           parts == InputParts(tx)
           flat == FlattenSeq(parts)
           bytes == Wire(tx)
           h == Header(tx)
<1>1. n \in Nat \ {0} /\ DOMAIN tx.inputs = 1 .. n
      /\ tx.inputs[1] \in [txid : V, vout : V, scriptSig : Seq(V), sequence : V]
  <2> DEFINE I == [txid : V, vout : V, scriptSig : Seq(V), sequence : V]
  <2>1. tx.inputs \in Seq(I) /\ tx.inputs # <<>>
    BY DEF IsTx
  <2> HIDE DEF I
  <2>2. n \in Nat \ {0} /\ DOMAIN tx.inputs = 1 .. n /\ 1 \in 1 .. n
    BY <2>1
  <2>3. tx.inputs[1] \in I
    BY <2>1, <2>2, ElementOfSeq
  <2> QED BY <2>2, <2>3 DEF I
<1>2. /\ parts \in Seq(Seq(V)) /\ Len(parts) = n /\ flat \in Seq(V)
  BY WireParts
<1>3. /\ h = 1 + Len(Count(n)) /\ StandsAt(bytes, 1, Count(n)) /\ StandsAt(bytes, h, flat)
  BY WirePlaces DEF WireStands, Header
<1> DEFINE a == tx.inputs[1].txid
           b == tx.inputs[1].vout
           script == tx.inputs[1].scriptSig
           last == <<tx.inputs[1].sequence>>
           count == Count(Len(script))
<1>4. a \in V /\ b \in V /\ script \in Seq(V) /\ last \in Seq(V)
  BY <1>1
<1>5. parts[1] = <<a, b>> \o count \o script \o last
  <2>1. 1 \in DOMAIN tx.inputs
    BY <1>1
  <2>2. InputParts(tx)[1] = <<tx.inputs[1].txid, tx.inputs[1].vout>>
          \o Count(Len(tx.inputs[1].scriptSig)) \o tx.inputs[1].scriptSig
          \o <<tx.inputs[1].sequence>>
    BY <2>1, Zenon DEF InputParts
  <2> QED BY <2>2
<1>6. count \in Seq(V)
  <2>1. Int \subseteq V
    BY DEF IsTx
  <2>2. Len(script) \in Nat
    BY <1>4
  <2> HIDE DEF script
  <2>3. count \in Seq(Int)
    BY <2>2, CountForms
  <2> HIDE DEF count
  <2> QED BY <2>1, <2>3, IntsOf
<1> HIDE DEF n, parts, flat, bytes, h, a, b, script, last, count
<1> DEFINE front == <<a, b>>
<1>7. front \in Seq(V) /\ Len(front) = 2 /\ front[1] = a /\ front[2] = b
  BY <1>4
<1> HIDE DEF front
<1>8. /\ Len(parts[1]) \in Nat /\ Len(parts[1]) >= 2 /\ parts[1][1] = a /\ parts[1][2] = b
  <2> DEFINE w1 == front \o count
             w2 == w1 \o script
             w3 == w2 \o last
  <2>1. w1 \in Seq(V) /\ Len(w1) >= 2 /\ w1[1] = a /\ w1[2] = b
    <3>1. /\ front \o count \in Seq(V) /\ Len(front \o count) = Len(front) + Len(count)
          /\ Len(count) \in Nat
          /\ \A k \in 1 .. Len(front) : (front \o count)[k] = front[k]
      BY <1>6, <1>7, ConcatPlaces
    <3>2. 1 \in 1 .. Len(front) /\ 2 \in 1 .. Len(front)
      BY <1>7
    <3> QED BY <1>7, <3>1, <3>2
  <2>2. w2 \in Seq(V) /\ Len(w2) >= 2 /\ w2[1] = a /\ w2[2] = b
    <3> HIDE DEF w1
    <3>1. /\ w1 \o script \in Seq(V) /\ Len(w1 \o script) = Len(w1) + Len(script)
          /\ Len(script) \in Nat /\ Len(w1) \in Nat
          /\ \A k \in 1 .. Len(w1) : (w1 \o script)[k] = w1[k]
      BY <1>4, <2>1, ConcatPlaces
    <3>2. 1 \in 1 .. Len(w1) /\ 2 \in 1 .. Len(w1)
      BY <2>1, <3>1
    <3> QED BY <2>1, <3>1, <3>2
  <2>3. w3 \in Seq(V) /\ Len(w3) >= 2 /\ w3[1] = a /\ w3[2] = b /\ Len(w3) \in Nat
    <3> HIDE DEF w2
    <3>1. /\ w2 \o last \in Seq(V) /\ Len(w2 \o last) = Len(w2) + Len(last)
          /\ Len(last) \in Nat /\ Len(w2) \in Nat
          /\ \A k \in 1 .. Len(w2) : (w2 \o last)[k] = w2[k]
      BY <1>4, <2>2, ConcatPlaces
    <3>2. 1 \in 1 .. Len(w2) /\ 2 \in 1 .. Len(w2)
      BY <2>2, <3>1
    <3> QED BY <2>2, <3>1, <3>2
  <2>4. parts[1] = w3
    BY <1>5 DEF front
  <2> HIDE DEF w3
  <2> QED BY <2>3, <2>4
<1>9. flat[1] = a /\ flat[2] = b /\ Len(flat) >= 2
  <2>1. parts \in Seq(Seq(V)) /\ parts # <<>>
    BY <1>1, <1>2
  <2>2. PICK at \in [1 .. Len(parts) -> Nat] :
          /\ at[1] = 0
          /\ \A i \in 1 .. Len(parts) :
               /\ at[i] + Len(parts[i]) <= Len(FlattenSeq(parts))
               /\ \A k \in 1 .. Len(parts[i]) : FlattenSeq(parts)[at[i] + k] = parts[i][k]
    BY <2>1, FlattenParts
  <2>3. 1 \in 1 .. Len(parts) /\ 1 \in 1 .. Len(parts[1]) /\ 2 \in 1 .. Len(parts[1])
    BY <1>1, <1>2, <1>8
  <2>4. at[1] + Len(parts[1]) <= Len(flat) /\ flat[at[1] + 1] = parts[1][1]
        /\ flat[at[1] + 2] = parts[1][2]
    BY <2>2, <2>3 DEF flat
  <2>5. Len(flat) \in Nat /\ 0 + 1 = 1 /\ 0 + 2 = 2
    BY <1>2
  <2> QED BY <1>8, <2>2, <2>4, <2>5
<1>10. h \in {2, 3} /\ bytes[h + 1] = a /\ bytes[h + 2] = b
  <2>1. 1 \in 1 .. Len(flat) /\ 2 \in 1 .. Len(flat)
    BY <1>2, <1>9
  <2>2. bytes[h + 1] = flat[1] /\ bytes[h + 2] = flat[2]
    BY <1>3, <2>1 DEF StandsAt
  <2>3. Len(Count(n)) \in {1, 2}
    BY <1>1, CountForms
  <2>4. h \in {2, 3}
    <3> DEFINE c == Len(Count(n))
    <3>1. h = 1 + c /\ (c = 1 \/ c = 2)
      BY <1>3, <2>3
    <3> HIDE DEF c
    <3> QED BY <3>1
  <2>5. bytes[h + 1] = a /\ bytes[h + 2] = b
    BY <1>9, <2>2
  <2> QED BY <2>4, <2>5
<1>11. CASE n <= CountByte
  <2>1. Count(n) = <<n>>
    BY <1>1, <1>11, CountForms
  <2>2. Len(Count(n)) = 1 /\ Count(n)[1] = n
    BY <2>1
  <2>3. bytes[2] = n /\ h = 2
    <3>1. 1 \in 1 .. Len(Count(n)) /\ 1 + 1 = 2
      BY <2>2
    <3> QED BY <1>3, <2>2, <3>1 DEF StandsAt
  <2>4. bytes[3] = a /\ bytes[4] = b
    BY <1>10, <2>3
  <2> QED BY <1>11, <2>3, <2>4 DEF FirstOf, bytes, a, b
<1>12. CASE n > CountByte
  <2>1. PICK mark \in Int : mark > CountByte /\ Count(n) = <<mark, n>>
    BY <1>1, <1>12, CountForms
  <2>2. Len(Count(n)) = 2 /\ Count(n)[1] = mark
    BY <2>1
  <2>3. bytes[2] = mark /\ h = 3
    <3>1. 1 \in 1 .. Len(Count(n)) /\ 1 + 1 = 2
      BY <2>2
    <3> QED BY <1>3, <2>2, <3>1 DEF StandsAt
  <2>4. bytes[4] = a /\ bytes[5] = b
    BY <1>10, <2>3
  <2>5. ~(bytes[2] <= CountByte)
    BY <2>1, <2>3, CountsAssumption
  <2> QED BY <2>4, <2>5 DEF FirstOf, bytes, a, b
<1> QED BY <1>1, <1>11, <1>12, CountsAssumption

\* A transaction with its signatures is still one.
LEMMA SignedIsTx ==
  ASSUME NEW coins, IsSeq(coins), NEW index, NEW outputs, NEW who, NEW tx,
         Built(tx, Selected(coins, index), outputs), NEW V, IsTx(tx, V)
  PROVE  \E W : IsTx(SignedBy(tx, who, index), W)
<1> DEFINE n == Len(coins)
           selected == Selected(coins, index)
           signed == SignedBy(tx, who, index)
           signature(i, k) == Signature(ManagerSet(index).keys[who[k] + 1], SighashAll(tx, i))
           W == V \cup {signature(i, k) : i \in 1 .. n, k \in 1 .. Threshold}
                  \cup {tx.redeem[i] : i \in 1 .. n}
           I == [txid : W, vout : W, scriptSig : Seq(W), sequence : W]
           script(i) == ScriptSig(tx, i, Signatures(tx, who, index, i))
<1>1. n \in Nat /\ DOMAIN coins = 1 .. n /\ DOMAIN selected = 1 .. n
  BY DEF IsSeq, Selected
<1>2. /\ signed = Spending([i \in DOMAIN coins |-> Unlocked(selected[i], script(i))],
                           outputs, tx.redeem)
      /\ signed.inputs = [i \in DOMAIN coins |-> Unlocked(selected[i], script(i))]
      /\ signed.outputs = outputs
  BY SignedFacts
<1>3. /\ Int \subseteq V /\ tx.inputs # <<>> /\ tx.outputs # <<>> /\ tx.outputs = outputs
      /\ tx.inputs \in Seq([txid : V, vout : V, scriptSig : Seq(V), sequence : V])
      /\ tx.outputs \in Seq([amount : V, kind : AddressTypes, address : V])
      /\ tx.inputs = [i \in DOMAIN selected |-> InputOf(selected[i])]
  BY DEF IsTx, Built
<1>4. V \subseteq W /\ Int \subseteq W
  BY <1>3
<1>5. ASSUME NEW i \in 1 .. n
      PROVE  script(i) \in Seq(W)
  <2> DEFINE s == Signatures(tx, who, index, i)
             r == tx.redeem[i]
             zero == <<0>>
             last == <<r>>
  <2>1. \A k \in 1 .. Threshold : signature(i, k) \in W
    OBVIOUS
  <2>2. s = [k \in 1 .. Threshold |-> signature(i, k)]
    BY DEF Signatures
  <2>3. r \in W
    OBVIOUS
  <2> HIDE DEF W, signature
  <2>4. s \in Seq(W)
    <3>1. s \in [1 .. Threshold -> W]
      BY <2>1, <2>2
    <3> HIDE DEF s
    <3> QED BY <3>1, SettingsAssumption
  <2>5. zero \in Seq(W) /\ last \in Seq(W)
    BY <1>4, <2>3
  <2> HIDE DEF zero, last, s
  <2>6. zero \o s \in Seq(W)
    BY <2>4, <2>5
  <2> DEFINE front == zero \o s
  <2> HIDE DEF front
  <2>7. front \o last \in Seq(W)
    BY <2>5, <2>6 DEF front
  <2> QED BY <2>7 DEF ScriptSig, front, zero, last, s
<1> HIDE DEF W, script, signed, selected, n
<1>6. ASSUME NEW i \in 1 .. n
      PROVE  Unlocked(selected[i], script(i)) \in I
  <2>1. tx.inputs[i] = InputOf(selected[i]) /\ DOMAIN tx.inputs = 1 .. n
    BY <1>1, <1>3
  <2>2. tx.inputs[i] \in [txid : V, vout : V, scriptSig : Seq(V), sequence : V]
    <3> DEFINE J == [txid : V, vout : V, scriptSig : Seq(V), sequence : V]
    <3>1. tx.inputs \in Seq(J)
      BY <1>3
    <3>2. i \in DOMAIN tx.inputs
      BY <2>1
    <3> HIDE DEF J
    <3>3. tx.inputs[i] \in J
      BY <3>1, <3>2
    <3> QED BY <3>3 DEF J
  <2>3. /\ tx.inputs[i].txid \in V /\ tx.inputs[i].vout \in V /\ tx.inputs[i].sequence \in V
    BY <2>2
  <2>4. /\ tx.inputs[i].txid = Reversed(selected[i].txid)
        /\ tx.inputs[i].vout = selected[i].vout /\ tx.inputs[i].sequence = SEQUENCE_FINAL
    BY <2>1 DEF InputOf
  <2> QED BY <1>4, <1>5, <2>3, <2>4 DEF Unlocked
<1>7. signed.inputs \in Seq(I) /\ signed.inputs # <<>>
  <2> DEFINE f == signed.inputs
  <2>1. f = [i \in 1 .. n |-> f[i]] /\ \A i \in 1 .. n : f[i] \in I
    <3> HIDE DEF I
    <3> QED BY <1>1, <1>2, <1>6
  <2>2. n \in Nat \ {0}
    <3>1. DOMAIN tx.inputs = 1 .. n
      BY <1>1, <1>3
    <3>2. n # 0
      <4>1. tx.inputs = <<>> <=> DOMAIN tx.inputs = {}
        BY <1>3
      <4> QED BY <1>1, <1>3, <3>1, <4>1
    <3> QED BY <1>1, <3>2
  <2> HIDE DEF f, I
  <2>3. f \in Seq(I) /\ Len(f) = n /\ f # <<>>
    BY <2>1, <2>2, FunctionIsSeq
  <2> QED BY <2>3 DEF f
<1>8. signed.outputs \in Seq([amount : W, kind : AddressTypes, address : W])
      /\ signed.outputs # <<>>
  <2> DEFINE O == [amount : V, kind : AddressTypes, address : V]
             P == [amount : W, kind : AddressTypes, address : W]
  <2>1. O \subseteq P
    BY <1>4
  <2>2. outputs \in Seq(O)
    BY <1>3
  <2> HIDE DEF O, P
  <2>3. outputs \in Seq(P)
    BY <2>1, <2>2
  <2> QED BY <1>2, <1>3, <2>3 DEF P
<1>9. signed.version \in W /\ signed.locktime \in W
  BY <1>2, <1>4 DEF Spending, TX_VERSION
<1>10. IsTx(signed, W)
  BY <1>4, <1>7, <1>8, <1>9 DEF IsTx, I
<1> QED BY <1>10 DEF signed

-----------------------------------------------------------------------------
(* The coins of the store are backed by outputs that nothing else spends.    *)

\* Rows are of different outputs, none of them those of the batch at hand, and
\* once its transaction is on chain it makes what it pays.
DifferentRows == \A c, d \in custody : Outpoint(c) = Outpoint(d) => c = d
BatchApart ==
  batch.stage \in {"Constructed", "Signed"} =>
    \A i \in DOMAIN batch.coins, c \in custody : Outpoint(c) # Outpoint(batch.coins[i])
OutputsMade ==
  batch.stage = "Broadcast" =>
    /\ Created(batch.tx) \subseteq utxos
    /\ \A c \in custody : c.txid # DoubleSha(Wire(batch.tx))
Backing == BooksMatchChain /\ DifferentRows /\ BatchApart /\ OutputsMade

\* What is signed has an encoding; and what has been spent is spent: every
\* output there is or was is of a deposit, or of a transaction whose first input
\* was spent then.  So a transaction that spends an output there is, is new.
Written == batch.stage \in {"Signed", "Broadcast"} => \E V : IsTx(batch.tx, V)
Outpoints(S) == {Outpoint(u) : u \in S}
Known(o, spent) ==
  \/ \E d \in ToSet(Deposits) : o[1] = d.txid
  \/ \E w : o[1] = DoubleSha(w) /\ FirstOf(w) \in spent
Ancestry(spent, S) ==
  /\ \A o \in S : o \notin spent
  /\ \A o \in spent \cup S : Known(o, spent)
Past == \E spent : Ancestry(spent, Outpoints(utxos))
Backed == Backing /\ Written /\ Past

\* The deposits are on chain before the bridge pays: their ids are none of those
\* of transactions that are written here.
DepositsApart == \A d \in ToSet(Deposits) : \A bytes : d.txid # DoubleSha(bytes)

LEMMA ShaDiffers ==
  ASSUME NEW a, NEW b, DoubleSha(a) = DoubleSha(b) PROVE a = b
<1>1. Hash("sha256d", a)[2] = a /\ Hash("sha256d", b)[2] = b
  BY DEF Hash
<1>2. Hash("sha256d", a) = Hash("sha256d", b)
  BY DEF DoubleSha
<1> QED BY <1>1, <1>2

LEMMA InitBacked ==
  ASSUME Init PROVE Backed
<1>1. batch.stage = "None"
  BY DEF Init, NoBatch
<1>2. PICK index \in {0, 1}, label \in {"key-1", "key-2"} :
        custody = {LET first == d = Head(Deposits)
                   IN  [txid |-> d.txid, vout |-> 0, sats |-> d.sats,
                        recipient |-> d.recipient,
                        script |-> CustodyScript(d.recipient, IF first THEN index ELSE 0),
                        keyRef |-> IF first THEN label ELSE "key-1"]
                   : d \in ToSet(Deposits)}
  BY DEF Init
<1> DEFINE at(d) == IF d = Head(Deposits) THEN index ELSE 0
           key(d) == IF d = Head(Deposits) THEN label ELSE "key-1"
           row(d) == [txid |-> d.txid, vout |-> 0, sats |-> d.sats,
                      recipient |-> d.recipient,
                      script |-> CustodyScript(d.recipient, at(d)), keyRef |-> key(d)]
<1>3. custody = {row(d) : d \in ToSet(Deposits)}
  BY <1>2
<1>4. ASSUME NEW d
      PROVE  /\ row(d).txid = d.txid /\ row(d).recipient = d.recipient
             /\ \E i \in {0, 1} : row(d).script = CustodyScript(row(d).recipient, i)
  <2>1. at(d) \in {0, 1}
    OBVIOUS
  <2> QED BY <2>1
<1> HIDE DEF row, at, key
<1>5. utxos = {[txid |-> c.txid, vout |-> c.vout, sats |-> c.sats, script |-> c.script]
               : c \in custody}
  BY DEF Init
<1>6. BooksMatchChain
  <2>1. \A c \in custody : \E i \in {0, 1} : c.script = CustodyScript(c.recipient, i)
    BY <1>3, <1>4
  <2> QED BY <1>5, <2>1 DEF BooksMatchChain
<1>7. DifferentRows
  <2>1. SUFFICES ASSUME NEW c \in custody, NEW d \in custody, Outpoint(c) = Outpoint(d)
                 PROVE  c = d
    BY DEF DifferentRows
  <2>2. PICK x \in ToSet(Deposits), y \in ToSet(Deposits) : c = row(x) /\ d = row(y)
    BY <1>3
  <2>3. c.txid = d.txid
    BY <2>1 DEF Outpoint
  <2>4. x.txid = y.txid
    BY <1>4, <2>2, <2>3
  <2> QED BY <2>2, <2>4, FundsAssumption
<1>8. BatchApart /\ OutputsMade /\ Written
  BY <1>1 DEF BatchApart, OutputsMade, Written
<1>9. Past
  <2>1. ASSUME NEW o \in Outpoints(utxos) PROVE Known(o, {})
    <3>1. PICK u \in utxos : o = Outpoint(u)
      BY DEF Outpoints
    <3>2. PICK c \in custody : u = [txid |-> c.txid, vout |-> c.vout, sats |-> c.sats,
                                    script |-> c.script]
      BY <1>5, <3>1
    <3>3. PICK d \in ToSet(Deposits) : c = row(d)
      BY <1>3, <3>2
    <3>4. o[1] = d.txid
      BY <1>4, <3>1, <3>2, <3>3 DEF Outpoint
    <3> QED BY <3>4 DEF Known
  <2>2. Ancestry({}, Outpoints(utxos))
    BY <2>1 DEF Ancestry
  <2> QED BY <2>2 DEF Past
<1> QED BY <1>6, <1>7, <1>8, <1>9 DEF Backed, Backing

LEMMA UntouchedBacked ==
  ASSUME Backed, Untouched PROVE Backed'
<1>1. batch' = batch /\ custody' = custody /\ utxos' = utxos
  BY DEF Untouched
<1>2. BooksMatchChain'
  BY <1>1 DEF Backed, Backing, BooksMatchChain
<1>3. DifferentRows' /\ BatchApart'
  BY <1>1 DEF Backed, Backing, DifferentRows, BatchApart
<1>4. OutputsMade' /\ Written'
  BY <1>1 DEF Backed, Backing, OutputsMade, Written
<1>5. Past'
  BY <1>1 DEF Backed, Past
<1> QED BY <1>2, <1>3, <1>4, <1>5 DEF Backed, Backing

LEMMA ReservingBacked ==
  ASSUME Backed, NEW outputs, NEW chosen \in SUBSET custody, NEW tx, NEW change,
         Reserving(outputs, chosen, tx, change)
  PROVE  Backed'
<1>1. /\ custody' = custody \ chosen /\ utxos' = utxos
      /\ batch'.stage = "Constructed" /\ batch'.coins = SetToSeq(chosen)
      /\ IsFiniteSet(chosen)
  BY DEF Reserving
<1>2. BooksMatchChain' /\ DifferentRows'
  BY <1>1 DEF Backed, Backing, BooksMatchChain, DifferentRows
<1>3. BatchApart'
  <2>1. ASSUME NEW i \in DOMAIN batch'.coins, NEW c \in custody'
        PROVE  Outpoint(c) # Outpoint(batch'.coins[i])
    <3> DEFINE d == SetToSeq(chosen)[i]
    <3>1. d \in chosen
      BY <1>1, Distinct
    <3>2. batch'.coins[i] = d
      BY <1>1
    <3> HIDE DEF d
    <3>3. c \in custody /\ d \in custody /\ c # d
      BY <1>1, <3>1
    <3> QED BY <3>2, <3>3 DEF Backed, Backing, DifferentRows
  <2> QED BY <2>1 DEF BatchApart
<1>4. OutputsMade' /\ Written'
  BY <1>1 DEF OutputsMade, Written
<1>5. Past'
  BY <1>1 DEF Backed, Past
<1> QED BY <1>2, <1>3, <1>4, <1>5 DEF Backed, Backing

LEMMA SigningBacked ==
  ASSUME Backed, NEW outputs \in Payments, NEW who, Signing(outputs, who)
  PROVE  Backed'
<1> DEFINE tx == Restored.value.tx
           coins == batch.coins
           index == op.args.index
           change == Restored.value.change
<1>1. /\ batch.stage = "Constructed" /\ batch'.stage = "Signed" /\ batch'.coins = batch.coins
      /\ custody' = custody /\ utxos' = utxos
      /\ batch'.tx = SignedBy(tx, who, index)
      /\ AtHand(outputs)
  BY DEF Signing, KeepsTheBatch
<1>2. BooksMatchChain' /\ DifferentRows' /\ BatchApart'
  BY <1>1 DEF Backed, Backing, BooksMatchChain, DifferentRows, BatchApart
<1>3. OutputsMade'
  BY <1>1 DEF OutputsMade
<1>4. Written'
  <2>1. /\ IsSeq(coins) /\ \A i \in DOMAIN coins : IsCoin(coins[i])
        /\ Built(tx, Selected(coins, index), Outputs(index, outputs, change))
        /\ PreparedAs(op.args, StoredPayload, coins, batch.required, batch.unsigned, tx, change)
        /\ op.args \in Invocations /\ StoredPayload.outputs = outputs
    BY <1>1 DEF AtHand
  <2> HIDE DEF tx, coins, index, change
  <2>2. PICK V : IsTx(tx, V)
    <3> DEFINE args == op.args
               payload == StoredPayload
               required == batch.required
               stored == batch.unsigned
    <3>1. /\ args \in Invocations /\ payload.outputs = outputs
          /\ PreparedAs(args, payload, coins, required, stored, tx, change)
      BY <2>1
    <3> HIDE DEF args, payload, required, stored
    <3> QED BY <2>1, <3>1, PreparedIsTx
  <2>3. \E W : IsTx(SignedBy(tx, who, index), W)
    <3> DEFINE all == Outputs(index, outputs, change)
    <3>1. IsSeq(coins) /\ Built(tx, Selected(coins, index), all) /\ IsTx(tx, V)
      BY <2>1, <2>2
    <3> HIDE DEF all
    <3> QED BY <3>1, SignedIsTx
  <2> QED BY <1>1, <2>3 DEF Written, tx, index
<1>5. Past'
  BY <1>1 DEF Backed, Past
<1> QED BY <1>2, <1>3, <1>4, <1>5 DEF Backed, Backing

LEMMA BookingBacked ==
  ASSUME IInv, Backed, Booking PROVE Backed'
<1>1. /\ batch.stage = "Broadcast" /\ batch'.stage = "None" /\ utxos' = utxos
  BY DEF Booking
<1>2. BatchApart' /\ OutputsMade' /\ Written'
  BY <1>1 DEF BatchApart, OutputsMade, Written
<1>3. Past'
  BY <1>1 DEF Backed, Past
<1>4. CASE custody' = custody
  <2>1. BooksMatchChain' /\ DifferentRows'
    BY <1>1, <1>4 DEF Backed, Backing, BooksMatchChain, DifferentRows
  <2> QED BY <1>2, <1>3, <2>1 DEF Backed, Backing
<1>5. ASSUME NEW keyRef,
             custody' = custody \cup {ChangeRow(batch.tx, Len(StoredPayload.outputs), keyRef)},
             Len(batch.tx.outputs) = Len(StoredPayload.outputs) + 1
      PROVE  Backed'
  <2> DEFINE tx == batch.tx
             outputs == StoredPayload.outputs
             m == Len(outputs)
             row == ChangeRow(tx, m, keyRef)
             index == StoredPayload.index
  <2>1. /\ IsReserved(batch) /\ ThePayment(batch)
    BY <1>1, PaymentOfBatch DEF IInv, Strengthening, Reserved
  <2>2. PICK paid \in Payments : ReservedWith(batch, paid)
    BY <2>1 DEF IsReserved
  <2>3. outputs = paid /\ index = batch.args.index /\ index \in {0, 1} /\ m \in Nat
    <3> DEFINE payload == [chain |-> DOGECOIN_CHAIN_ID, index |-> batch.args.index,
                           outputs |-> paid]
    <3>1. ParsePayload(batch.payload) = Some(payload)
      BY <2>2, StoredFacts
    <3>2. payload.index = batch.args.index /\ payload.outputs = paid
      OBVIOUS
    <3>3. StoredPayload = payload
      <4> HIDE DEF payload
      <4> QED BY <3>1, SomeFacts DEF StoredPayload
    <3>4. batch.args \in Invocations
      BY <2>1 DEF IsReserved
    <3>5. Len(paid) \in Nat
      BY PaymentFacts
    <3> HIDE DEF payload
    <3> QED BY <3>2, <3>3, <3>4, <3>5, InvocationFacts
  <2>4. Last(tx.outputs).address = CustodyScript(Zero, index) /\ Last(tx.outputs).kind = P2sh
    <3>1. Len(tx.outputs) > Len(outputs)
      BY <1>5, <2>3
    <3> QED BY <2>1, <3>1 DEF ThePayment, StoredPayload
  <2>5. /\ row.txid = DoubleSha(Wire(tx)) /\ row.vout = m
        /\ row.sats = Last(tx.outputs).amount /\ row.recipient = Zero
        /\ row.script = Last(tx.outputs).address
    BY DEF ChangeRow
  <2>6. Created(tx) \subseteq utxos /\ \A c \in custody : c.txid # DoubleSha(Wire(tx))
    BY <1>1 DEF Backed, Backing, OutputsMade
  <2> HIDE DEF tx, outputs, row, index
  <2>7. [txid |-> row.txid, vout |-> row.vout, sats |-> row.sats, script |-> row.script]
          \in Created(tx)
    <3>1. PICK V : IsTx(tx, V)
      BY <1>1 DEF Backed, Written, tx
    <3>2. Len(tx.outputs) = m + 1 /\ Last(tx.outputs) = tx.outputs[m + 1]
      BY <1>5 DEF tx, outputs, Last
    <3>3. m + 1 \in DOMAIN tx.outputs /\ m + 1 - 1 = m
      <4>1. tx.outputs \in Seq([amount : V, kind : AddressTypes, address : V])
        BY <3>1 DEF IsTx
      <4>2. DOMAIN tx.outputs = 1 .. Len(tx.outputs)
        BY <4>1
      <4> QED BY <2>3, <3>2, <4>2
    <3> QED BY <2>5, <3>2, <3>3 DEF Created
  <2>8. BooksMatchChain'
    <3>1. ASSUME NEW c \in custody'
          PROVE  /\ [txid |-> c.txid, vout |-> c.vout, sats |-> c.sats, script |-> c.script]
                      \in utxos'
                 /\ \E i \in {0, 1} : c.script = CustodyScript(c.recipient, i)
      <4>1. CASE c \in custody
        BY <1>1, <4>1 DEF Backed, Backing, BooksMatchChain
      <4>2. CASE c = row
        BY <1>1, <2>3, <2>4, <2>5, <2>6, <2>7, <4>2
      <4>3. c \in custody \/ c = row
        BY <1>5 DEF row, tx, outputs
      <4> QED BY <4>1, <4>2, <4>3
    <3> QED BY <3>1 DEF BooksMatchChain
  <2>9. DifferentRows'
    <3>1. ASSUME NEW c \in custody', NEW d \in custody', Outpoint(c) = Outpoint(d)
          PROVE  c = d
      <4>1. (c \in custody \/ c = row) /\ (d \in custody \/ d = row)
        BY <1>5 DEF row, tx, outputs
      <4>2. c.txid = d.txid
        BY <3>1 DEF Outpoint
      <4>3. CASE c \in custody /\ d \in custody
        BY <3>1, <4>3 DEF Backed, Backing, DifferentRows
      <4>4. CASE c = row /\ d \in custody
        BY <2>5, <2>6, <4>2, <4>4
      <4>5. CASE d = row /\ c \in custody
        BY <2>5, <2>6, <4>2, <4>5
      <4> QED BY <4>1, <4>3, <4>4, <4>5
    <3> QED BY <3>1 DEF DifferentRows
  <2> QED BY <1>2, <1>3, <2>8, <2>9 DEF Backed, Backing
<1> QED BY <1>4, <1>5 DEF Booking

\* A transaction that spends an output there is has not been on chain: no output
\* there is or was is of it.
LEMMA SpendsSomethingNew ==
  ASSUME DepositsApart, NEW spent, NEW S, Ancestry(spent, S), NEW bytes, FirstOf(bytes) \in S,
         NEW o \in spent \cup S
  PROVE  o[1] # DoubleSha(bytes)
<1>1. SUFFICES ASSUME o[1] = DoubleSha(bytes) PROVE FALSE
  OBVIOUS
<1>2. Known(o, spent) /\ FirstOf(bytes) \notin spent
  BY DEF Ancestry
<1>3. CASE \E d \in ToSet(Deposits) : o[1] = d.txid
  BY <1>1, <1>3 DEF DepositsApart
<1>4. ASSUME NEW w, o[1] = DoubleSha(w), FirstOf(w) \in spent PROVE FALSE
  <2>1. w = bytes
    BY <1>1, <1>4, ShaDiffers
  <2> QED BY <1>2, <1>4, <2>1
<1> QED BY <1>2, <1>3, <1>4 DEF Known

\* The outputs that a transaction spends, and those that it makes.
SpentOf(tx) == {<<tx.inputs[i].txid, tx.inputs[i].vout>> : i \in DOMAIN tx.inputs}

Replaces(T, S, inputs, bytes, outs) ==
  /\ FirstOf(bytes) \in inputs /\ inputs \subseteq S
  /\ \A o \in outs : o[1] = DoubleSha(bytes)
  /\ T \subseteq (S \ inputs) \cup outs

\* What is spent has been, when the outputs of a transaction replace it.
LEMMA AncestryGrows ==
  ASSUME DepositsApart, NEW spent, NEW S, NEW T, NEW inputs, NEW bytes, NEW outs,
         Ancestry(spent, S), Replaces(T, S, inputs, bytes, outs)
  PROVE  Ancestry(spent \cup inputs, T)
<1>0. /\ FirstOf(bytes) \in inputs /\ inputs \subseteq S
      /\ \A o \in outs : o[1] = DoubleSha(bytes)
      /\ T \subseteq (S \ inputs) \cup outs
  BY DEF Replaces
<1>1. FirstOf(bytes) \in S
  BY <1>0
<1>2. \A o \in spent \cup S : o[1] # DoubleSha(bytes)
  BY <1>1, SpendsSomethingNew
<1>3. ASSUME NEW o \in T PROVE o \notin spent \cup inputs
  <2>1. CASE o \in S \ inputs
    BY <2>1 DEF Ancestry
  <2>2. CASE o \in outs
    BY <1>0, <1>2, <2>2
  <2> QED BY <1>0, <2>1, <2>2
<1>4. ASSUME NEW o \in (spent \cup inputs) \cup T PROVE Known(o, spent \cup inputs)
  <2>1. CASE o \in spent \cup S
    <3>1. Known(o, spent)
      BY <2>1 DEF Ancestry
    <3> QED BY <3>1 DEF Known
  <2>2. CASE o \in outs
    BY <1>0, <2>2 DEF Known
  <2> QED BY <1>0, <2>1, <2>2
<1> QED BY <1>3, <1>4 DEF Ancestry

LEMMA BroadcastingBacked ==
  ASSUME DepositsApart, IInv, Backed, Broadcasting PROVE Backed'
<1> DEFINE tx == batch.tx
           coins == batch.coins
           bytes == Wire(tx)
           inputs == SpentOf(tx)
           gone == UNION {SpentBy(tx, i) : i \in DOMAIN tx.inputs}
           made == Created(tx)
<1>1. /\ batch.stage = "Signed" /\ batch'.stage = "Broadcast" /\ batch'.tx = tx
      /\ custody' = custody /\ Accepts(tx) /\ utxos' = (utxos \ gone) \cup made
  BY DEF Broadcasting
<1>2. PICK V : IsTx(tx, V)
  BY <1>1 DEF Backed, Written
<1>3. DOMAIN tx.inputs = 1 .. Len(tx.inputs) /\ 1 \in DOMAIN tx.inputs
  <2> DEFINE I == [txid : V, vout : V, scriptSig : Seq(V), sequence : V]
  <2>1. tx.inputs \in Seq(I) /\ tx.inputs # <<>>
    BY <1>2 DEF IsTx
  <2> HIDE DEF I, tx
  <2> QED BY <2>1
<1>4. FirstOf(bytes) = <<tx.inputs[1].txid, tx.inputs[1].vout>>
  <2> HIDE DEF tx
  <2> QED BY <1>2, FirstSpent
<1>5. FirstOf(bytes) \in inputs
  BY <1>3, <1>4 DEF SpentOf
<1>6. /\ \A i \in DOMAIN tx.inputs : \E u \in utxos :
           u.txid = tx.inputs[i].txid /\ u.vout = tx.inputs[i].vout
  BY <1>1 DEF Accepts, SpentBy
<1>7. inputs \subseteq Outpoints(utxos)
  BY <1>6 DEF SpentOf, Outpoints, Outpoint
<1>8. ASSUME NEW i \in DOMAIN tx.inputs
      PROVE  /\ i \in DOMAIN coins
             /\ tx.inputs[i].txid = coins[i].txid /\ tx.inputs[i].vout = coins[i].vout
  <2>1. ThePayment(batch) /\ IsReserved(batch)
    BY <1>1, PaymentOfBatch DEF IInv, Strengthening, Reserved
  <2>2. Len(tx.inputs) = Len(coins) /\ DOMAIN coins = 1 .. Len(coins)
    BY <2>1 DEF ThePayment, IsReserved, IsSeq
  <2>3. i \in DOMAIN coins
    <3> HIDE DEF tx, coins
    <3> QED BY <1>3, <2>2
  <2> QED BY <2>1, <2>3 DEF ThePayment
<1>9. \A o \in Outpoints(made) : o[1] = DoubleSha(bytes)
  BY DEF Outpoints, Outpoint, Created
<1>10. \A u \in gone : Outpoint(u) \in inputs
  BY DEF SpentBy, SpentOf, Outpoint
<1>11. \A u \in utxos \ gone : Outpoint(u) \notin inputs
  <2>1. SUFFICES ASSUME NEW u \in utxos, Outpoint(u) \in inputs PROVE u \in gone
    OBVIOUS
  <2>2. PICK i \in DOMAIN tx.inputs : Outpoint(u) = <<tx.inputs[i].txid, tx.inputs[i].vout>>
    BY <2>1 DEF SpentOf
  <2>3. u.txid = tx.inputs[i].txid /\ u.vout = tx.inputs[i].vout
    BY <2>2 DEF Outpoint
  <2>4. u \in SpentBy(tx, i)
    BY <2>1, <2>3 DEF SpentBy
  <2> QED BY <2>4
<1> HIDE DEF gone, made, inputs, bytes
<1>12. Outpoints(utxos') \subseteq (Outpoints(utxos) \ inputs) \cup Outpoints(made)
  BY <1>1, <1>11 DEF Outpoints
<1>13. PICK spent : Ancestry(spent, Outpoints(utxos))
  BY DEF Backed, Past
<1>14. Past'
  <2> DEFINE S == Outpoints(utxos)
             T == Outpoints(utxos')
             outs == Outpoints(made)
  <2>1. Ancestry(spent, S) /\ Replaces(T, S, inputs, bytes, outs)
    BY <1>5, <1>7, <1>9, <1>12, <1>13 DEF Replaces
  <2> HIDE DEF S, T, outs
  <2>2. Ancestry(spent \cup inputs, T)
    BY <2>1, AncestryGrows
  <2> QED BY <2>2 DEF Past, T
<1>15. \A c \in custody : Outpoint(c) \in Outpoints(utxos) /\ Outpoint(c) \notin inputs
  <2>1. TAKE c \in custody
  <2> DEFINE u == [txid |-> c.txid, vout |-> c.vout, sats |-> c.sats, script |-> c.script]
  <2>2. u \in utxos
    BY DEF Backed, Backing, BooksMatchChain
  <2>3. Outpoint(u) = Outpoint(c)
    BY DEF Outpoint
  <2> HIDE DEF u
  <2>4. Outpoint(c) \in Outpoints(utxos)
    BY <2>2, <2>3 DEF Outpoints
  <2>5. Outpoint(c) \notin inputs
    <3>1. SUFFICES ASSUME Outpoint(c) \in inputs PROVE FALSE
      OBVIOUS
    <3>2. PICK i \in DOMAIN tx.inputs : Outpoint(c) = <<tx.inputs[i].txid, tx.inputs[i].vout>>
      BY <3>1 DEF inputs, SpentOf
    <3>3. i \in DOMAIN coins /\ Outpoint(c) = Outpoint(coins[i])
      BY <1>8, <3>2 DEF Outpoint
    <3> QED BY <1>1, <3>3 DEF Backed, Backing, BatchApart
  <2> QED BY <2>4, <2>5
<1>16. BooksMatchChain'
  <2>1. ASSUME NEW c \in custody
        PROVE  /\ [txid |-> c.txid, vout |-> c.vout, sats |-> c.sats, script |-> c.script]
                    \in utxos'
               /\ \E i \in {0, 1} : c.script = CustodyScript(c.recipient, i)
    <3> DEFINE u == [txid |-> c.txid, vout |-> c.vout, sats |-> c.sats, script |-> c.script]
    <3>1. u \in utxos /\ \E i \in {0, 1} : c.script = CustodyScript(c.recipient, i)
      BY DEF Backed, Backing, BooksMatchChain
    <3>2. Outpoint(u) = Outpoint(c)
      BY DEF Outpoint
    <3> HIDE DEF u
    <3>3. u \notin gone
      BY <1>10, <1>15, <3>2
    <3>4. u \in utxos'
      BY <1>1, <3>1, <3>3
    <3> QED BY <3>1, <3>4 DEF u
  <2> QED BY <1>1, <2>1 DEF BooksMatchChain
<1>17. DifferentRows'
  BY <1>1 DEF Backed, Backing, DifferentRows
<1>18. BatchApart'
  BY <1>1 DEF BatchApart
<1>19. OutputsMade'
  <2>1. ASSUME NEW c \in custody PROVE c.txid # DoubleSha(bytes)
    <3> DEFINE S == Outpoints(utxos)
               o == Outpoint(c)
    <3>1. Ancestry(spent, S) /\ FirstOf(bytes) \in S /\ o \in spent \cup S
      BY <1>5, <1>7, <1>13, <1>15
    <3>2. o[1] = c.txid
      BY DEF Outpoint
    <3> HIDE DEF S, o
    <3>3. o[1] # DoubleSha(bytes)
      BY <3>1, SpendsSomethingNew
    <3> QED BY <3>2, <3>3
  <2> QED BY <1>1, <2>1 DEF OutputsMade, made, bytes
<1>20. Written'
  BY <1>1, <1>2 DEF Written
<1> QED BY <1>14, <1>16, <1>17, <1>18, <1>19, <1>20 DEF Backed, Backing

LEMMA BackedKept ==
  ASSUME DepositsApart, IInv, Backed, [Next]_vars PROVE Backed'
<1>1. CASE Untouched
  BY <1>1, UntouchedBacked
<1>2. CASE Reserve /\ ~Untouched
  BY <1>2, ReserveSteps, ReservingBacked
<1>3. CASE Apply /\ ~Untouched
  BY <1>3, ApplySteps, SigningBacked
<1>4. CASE Broadcast /\ ~Untouched
  BY <1>4, BroadcastSteps, BroadcastingBacked
<1>5. CASE Book /\ ~Untouched
  BY <1>5, BookSteps, BookingBacked
<1> QED BY <1>1, <1>2, <1>3, <1>4, <1>5, StepsThatTouch

\* What the proofs of this module carry along the run: the stored bytes of a
\* reserved batch and the control of an invocation (Strengthening), that what is
\* signed is what was reserved, that a reservation can be taken up by whoever made
\* it (Recoverable), and where each row of the books stands on chain (Backing).
Inductive == Strengthening /\ SignedIsThePayment /\ Recoverable /\ Backing

\* What every step keeps.  Beyond the stored bytes: the books and the chain agree
\* on which rows are of the batch at hand and on what its transaction made once it
\* is on chain, and no transaction of the bridge is on chain twice, since its first
\* input is spent by then.
THEOREM InductiveHolds ==
  ASSUME HashOrders, DepositsApart
  PROVE  Spec => []Inductive
<1>1. Init => Backed
  BY InitBacked
<1>2. IInv /\ Backed /\ [Next]_vars => Backed'
  BY BackedKept
<1>3. Strengthening /\ SignedIsThePayment => IInv
  BY DEF IInv
<1>4. Strengthening /\ SignedIsThePayment /\ Recoverable /\ Backed => Inductive
  BY DEF Backed, Inductive
<1> QED BY <1>1, <1>2, <1>3, <1>4, Invariance, RecoverableHolds, PTL DEF Spec

\* Every coin the store offers is an unspent output on chain, of the same worth
\* and of a script that a Manager set unlocks, whatever is crashed, retried,
\* answered wrongly or confirmed late: the change row that is derived from what a
\* node shows is the output the transaction made.
THEOREM BooksMatchChainHolds ==
  ASSUME HashOrders, DepositsApart
  PROVE  Spec => []BooksMatchChain
<1>1. Inductive => BooksMatchChain
  BY DEF Inductive, Backing
<1> QED BY <1>1, InductiveHolds, PTL
=============================================================================
