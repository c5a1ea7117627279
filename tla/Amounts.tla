-------------------------------- MODULE Amounts -------------------------------
(***************************************************************************)
(* doge/src/lib.rs: amounts as Dogecoin Core writes them, the plan of a     *)
(* payment from custody, and the comparison of a decoded transaction with   *)
(* its plan.                                                                *)
(*                                                                          *)
(* A text is a sequence of characters.  An amount in satoshis fits a u64.   *)
(***************************************************************************)
EXTENDS Integers, Sequences, FiniteSets, SequencesExt, FiniteSetsExt

CONSTANTS
  Decimals,   \* fractional digits of a DOGE amount: 8
  MaxU64      \* the largest u64

ASSUME AmountBounds == Decimals \in Nat /\ MaxU64 \in Nat \ {0}

Digits == [c \in {"0", "1", "2", "3", "4", "5", "6", "7", "8", "9"} |->
             CASE c = "0" -> 0 [] c = "1" -> 1 [] c = "2" -> 2 [] c = "3" -> 3
               [] c = "4" -> 4 [] c = "5" -> 5 [] c = "6" -> 6 [] c = "7" -> 7
               [] c = "8" -> 8 [] c = "9" -> 9]
Digit == DOMAIN Digits

Err == [ok |-> FALSE]

Ten[k \in Nat] == IF k = 0 THEN 1 ELSE 10 * Ten[k - 1]   \* powers of ten

\* The largest power of ten in a u64: checked_pow.
MaxPower == CHOOSE k \in 0 .. MaxU64 : Ten[k] <= MaxU64 /\ MaxU64 < Ten[k + 1]
Fits(n) == IF n <= MaxU64 THEN [ok |-> TRUE, value |-> n] ELSE Err

\* The number a run of digits denotes; str::parse::<u64> of it.
Denotes(text) ==
  LET prefix[n \in 0 .. Len(text)] ==
        IF n = 0 THEN 0 ELSE 10 * prefix[n - 1] + Digits[text[n]]
  IN  prefix[Len(text)]
ParseU64(text) == IF text # <<>> /\ ToSet(text) \subseteq Digit
                    THEN Fits(Denotes(text)) ELSE Err

\* str::parse::<i32>: an optional sign, then digits.
ParseI32(text) ==
  LET signed == text # <<>> /\ Head(text) \in {"+", "-"}
      digits == IF signed THEN Tail(text) ELSE text
  IN  IF digits # <<>> /\ ToSet(digits) \subseteq Digit
        THEN [ok |-> TRUE, value |-> IF signed /\ Head(text) = "-"
                                       THEN -Denotes(digits) ELSE Denotes(digits)]
        ELSE Err

\* The position of the first of some characters in a text, or 0.
Find(text, chars) ==
  LET at == {i \in DOMAIN text : text[i] \in chars}
  IN  IF at = {} THEN 0 ELSE Min(at)

Before(text, at) == IF at = 0 THEN text ELSE SubSeq(text, 1, at - 1)
After(text, at)  == IF at = 0 THEN <<>> ELSE SubSeq(text, at + 1, Len(text))

-----------------------------------------------------------------------------
(* doge_amount_to_sats. *)

\* parse_scientific_doge_decimal: digits with at most one dot, shifted by the
\* exponent.  Both the power of ten and the product are checked, one by one.
ParseScientific(mantissa, exponent) ==
  LET dot      == Find(mantissa, {"."})
      fraction == After(mantissa, dot)
      base     == ParseU64(Before(mantissa, dot) \o fraction)
      e        == ParseI32(exponent)
      shift    == e.value - Len(fraction) + Decimals
  IN  IF e.ok /\ base.ok /\ shift \in 0 .. MaxPower
        THEN Fits(base.value * Ten[shift])
        ELSE Err

\* Mutant: a fraction is taken for satoshis as it stands.
ParsePlainUnpadded(text) ==
  LET dot      == Find(text, {"."})
      whole    == ParseU64(Before(text, dot))
      fraction == After(text, dot)
      part     == IF fraction = <<>> THEN Fits(0) ELSE ParseU64(fraction)
  IN  IF whole.ok /\ part.ok /\ Len(fraction) <= Decimals
        THEN Fits(whole.value * Ten[Decimals] + part.value)
        ELSE Err

\* The rest of parse_doge_decimal: digits, and after a dot no more than
\* Decimals digits, or none.
ParsePlain(text) ==
  LET dot      == Find(text, {"."})
      whole    == ParseU64(Before(text, dot))
      fraction == After(text, dot)
      part     == IF fraction = <<>> THEN Fits(0) ELSE ParseU64(fraction)
  IN  IF whole.ok /\ part.ok /\ Len(fraction) <= Decimals
        THEN Fits(whole.value * Ten[Decimals]
                    + part.value * Ten[Decimals - Len(fraction)])
        ELSE Err

\* parse_doge_decimal: of a text without blanks around it.
ParseAmount(text) ==
  LET e == Find(text, {"e", "E"})
  IN  IF text = <<>> \/ Head(text) = "-" THEN Err
      ELSE IF e # 0 THEN ParseScientific(Before(text, e), After(text, e))
      ELSE ParsePlain(text)

-----------------------------------------------------------------------------
(* Custody payments. *)

\* plan_custody_transaction: the change, or none because an addition or a
\* subtraction leaves the u64s, nobody is paid, or the change would be dust.
PlanCustody(selected, recipient, fee, dust) ==
  LET change == selected - (recipient + fee)
  IN  IF /\ recipient > 0
         /\ recipient + fee <= MaxU64
         /\ change >= 0
         /\ change = 0 \/ change >= dust
        THEN [ok |-> TRUE, recipient |-> recipient, change |-> change, fee |-> fee]
        ELSE Err

\* An output as decoderawtransaction shows it: the addresses it pays, in its
\* `address` or its `addresses`, and its value.
Pays(output, address, sats) ==
  address \in output.addresses /\ output.sats = sats

\* extract_vout_and_sats: the one output that pays an address.
ExtractVout(outputs, address) ==
  LET at == {i \in DOMAIN outputs : address \in outputs[i].addresses}
  IN  IF \E i \in at : at = {i}
        THEN LET i == Min(at)
             IN  [ok |-> TRUE, vout |-> outputs[i].n, sats |-> outputs[i].sats]
        ELSE Err

\* Mutant: the inputs are compared as a set of transactions.
SameInputTxids(actual, wanted) ==
  /\ Len(actual) = Len(wanted)
  /\ {actual[i].txid : i \in DOMAIN actual} = {wanted[i].txid : i \in DOMAIN wanted}

\* The inputs of a transaction and of a reservation, sorted, are equal.
Times(inputs, input) == Cardinality({i \in DOMAIN inputs : inputs[i] = input})
SameInputs(actual, wanted) ==
  /\ Len(actual) = Len(wanted)
  /\ \A input \in ToSet(actual) \cup ToSet(wanted) :
       Times(actual, input) = Times(wanted, input)

\* validate_decoded_custody_transaction.  No change address is "".
ValidateDecoded(inputs, outputs, wanted, recipient, changeAddress, plan, selected) ==
  LET matches(address, sats) ==
        Cardinality({i \in DOMAIN outputs : Pays(outputs[i], address, sats)})
      total == FoldLeft(LAMBDA n, o : n + o.sats, 0, outputs)
  IN  /\ SameInputs(inputs, wanted)
      /\ Len(outputs) = IF plan.change = 0 THEN 1 ELSE 2
      /\ plan.change = 0 \/ changeAddress # recipient
      /\ total <= MaxU64
      /\ matches(recipient, plan.recipient) = 1
      /\ plan.change = 0 \/ (changeAddress # "" /\ matches(changeAddress, plan.change) = 1)
      /\ selected >= total
      /\ selected - total = plan.fee
=============================================================================
