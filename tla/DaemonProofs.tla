----------------------------- MODULE DaemonProofs -----------------------------
(***************************************************************************)
(* The failure counter of the operator daemon is a count of consecutive     *)
(* failures, whatever the threshold: an inductive invariant and what        *)
(* follows from it.                                                         *)
(***************************************************************************)
EXTENDS Daemon, TLAPS

Result == {"ok", "outage", "unconfirmed"}

\* The count is the length of the run of failures at the end of the history,
\* all of it, and a daemon that has given up has reached the threshold.
Consecutive ==
  /\ failures <= Len(results)
  /\ \A i \in Len(results) - failures + 1 .. Len(results) : results[i] # "ok"
  /\ failures < Len(results) => results[Len(results) - failures] = "ok"
  /\ daemon = "aborted" => failures = Threshold

IInv == TypeOK /\ Consecutive

-----------------------------------------------------------------------------
(* The history. *)

\* The history is a sequence of at most Threshold results.
LEMMA History ==
  ASSUME TypeOK
  PROVE  results \in Seq(Result) /\ Len(results) \in 0 .. Threshold
<1>1. PICK n \in 0 .. Threshold : results \in [1 .. n -> Result]
  BY DEF TypeOK, Result
<1>2. n \in Nat
  BY ThresholdAssumption
<1> QED
  BY <1>1, <1>2

\* A sequence of at most Threshold results is a history.
LEMMA IsHistory ==
  ASSUME NEW s \in Seq(Result), Len(s) <= Threshold
  PROVE  s \in UNION {[1 .. n -> Result] : n \in 0 .. Threshold}
<1>1. Len(s) \in 0 .. Threshold /\ s \in [1 .. Len(s) -> Result]
  BY ThresholdAssumption
<1> QED
  BY <1>1

\* Recording a result appends it and lets the oldest go when there are more
\* than Threshold.
LEMMA RecordedIs ==
  ASSUME TypeOK, NEW r \in Result
  PROVE  LET s == Recorded(r)
             d == IF Len(results) = Threshold THEN 1 ELSE 0
         IN  /\ s \in Seq(Result)
             /\ Len(s) = Len(results) + 1 - d
             /\ Len(s) <= Threshold
             /\ s[Len(s)] = r
             /\ \A i \in 1 .. Len(s) - 1 : s[i] = results[i + d]
<1>1. results \in Seq(Result) /\ Len(results) \in 0 .. Threshold
  BY History
<1> DEFINE all == Append(results, r)
<1>2. /\ all \in Seq(Result) /\ Len(all) = Len(results) + 1
      /\ all[Len(results) + 1] = r
      /\ \A i \in 1 .. Len(results) : all[i] = results[i]
  BY <1>1
<1>3. CASE Len(results) = Threshold
  <2>1. Recorded(r) = Tail(all)
    BY <1>2, <1>3, ThresholdAssumption DEF Recorded
  <2>2. /\ Tail(all) \in Seq(Result) /\ Len(Tail(all)) = Len(all) - 1
        /\ \A i \in 1 .. Len(all) - 1 : Tail(all)[i] = all[i + 1]
    BY <1>2, <1>1
  <2> HIDE DEF all
  <2> QED
    BY <1>1, <1>2, <1>3, <2>1, <2>2, ThresholdAssumption
<1>4. CASE Len(results) # Threshold
  <2>1. Recorded(r) = all
    BY <1>1, <1>2, <1>4, ThresholdAssumption DEF Recorded
  <2> HIDE DEF all
  <2> QED
    BY <1>1, <1>2, <1>4, <2>1, ThresholdAssumption
<1> QED
  BY <1>3, <1>4

-----------------------------------------------------------------------------
(* The steps. *)

\* A success empties the count.
LEMMA SuccessStep ==
  ASSUME IInv, RecordSuccess
  PROVE  /\ failures' = 0 /\ daemon' = "sleeping"
         /\ results' \in UNION {[1 .. n -> Result] : n \in 0 .. Threshold}
         /\ Consecutive'
<1>1. results' = Recorded("ok") /\ failures' = 0 /\ daemon' = "sleeping"
  BY DEF RecordSuccess
<1>2. Recorded("ok") \in Seq(Result) /\ Len(Recorded("ok")) <= Threshold
  BY RecordedIs DEF IInv, Result
<1>3. results' \in UNION {[1 .. n -> Result] : n \in 0 .. Threshold}
  BY <1>1, <1>2, IsHistory
<1>4. Len(results') \in Nat /\ results'[Len(results')] = "ok"
  BY <1>1, <1>2, RecordedIs DEF IInv, Result
<1> QED
  BY <1>1, <1>3, <1>4 DEF Consecutive

\* A failure below the threshold makes the run at the end one longer; the
\* daemon gives up when the run has reached the threshold.
LEMMA FailureStep ==
  ASSUME IInv, daemon = "polling", NEW cause \in Result \ {"ok"}, RecordFailure(cause)
  PROVE  /\ daemon' \in {"sleeping", "aborted"}
         /\ failures' \in 0 .. IF daemon' = "aborted" THEN Threshold ELSE Threshold - 1
         /\ results' \in UNION {[1 .. n -> Result] : n \in 0 .. Threshold}
         /\ Consecutive'
<1>1. /\ results' = Recorded(cause) /\ failures' = failures + 1
      /\ daemon' = IF failures + 1 >= Threshold THEN "aborted" ELSE "sleeping"
  BY DEF RecordFailure
<1>2. failures \in 0 .. Threshold - 1 /\ failures <= Len(results)
  BY DEF IInv, TypeOK, Consecutive
<1>3. results \in Seq(Result) /\ Len(results) \in 0 .. Threshold
  BY History DEF IInv
<1> DEFINE s == Recorded(cause)
           d == IF Len(results) = Threshold THEN 1 ELSE 0
<1>4. /\ s \in Seq(Result) /\ Len(s) = Len(results) + 1 - d /\ Len(s) <= Threshold
      /\ s[Len(s)] = cause /\ \A i \in 1 .. Len(s) - 1 : s[i] = results[i + d]
  BY RecordedIs DEF IInv
<1>5. results' \in UNION {[1 .. n -> Result] : n \in 0 .. Threshold}
  BY <1>1, <1>4, IsHistory
<1>6. failures' <= Len(results')
  BY <1>1, <1>2, <1>3, <1>4, ThresholdAssumption
<1>7. ASSUME NEW i \in Len(results') - failures' + 1 .. Len(results')
      PROVE  results'[i] # "ok"
  <2>1. CASE i = Len(results')
    BY <1>1, <1>4, <2>1
  <2>2. CASE i # Len(results')
    <3>1. i \in 1 .. Len(s) - 1 /\ i + d \in Len(results) - failures + 1 .. Len(results)
      BY <1>1, <1>2, <1>3, <1>4, <1>6, <1>7, <2>2, ThresholdAssumption
    <3>2. results[i + d] # "ok"
      BY <3>1 DEF IInv, Consecutive
    <3> QED
      BY <1>1, <1>4, <3>1, <3>2
  <2> QED
    BY <2>1, <2>2
<1>10. ASSUME failures' < Len(results')
       PROVE  results'[Len(results') - failures'] = "ok"
  <2>1. /\ Len(s) - (failures + 1) \in 1 .. Len(s) - 1
        /\ Len(s) - (failures + 1) + d = Len(results) - failures
        /\ failures < Len(results)
    BY <1>1, <1>2, <1>3, <1>4, <1>10, ThresholdAssumption
  <2>2. results[Len(results) - failures] = "ok"
    BY <2>1 DEF IInv, Consecutive
  <2> QED
    BY <1>1, <1>4, <2>1, <2>2
<1>8. daemon' = "aborted" => failures' = Threshold
  BY <1>1, <1>2, ThresholdAssumption
<1>9. failures' \in 0 .. IF daemon' = "aborted" THEN Threshold ELSE Threshold - 1
  BY <1>1, <1>2, ThresholdAssumption
<1> QED
  BY <1>1, <1>5, <1>6, <1>7, <1>8, <1>9, <1>10 DEF Consecutive

\* Every step of the daemon and of the world around it keeps the invariant.
LEMMA Step ==
  ASSUME IInv, [Next]_vars
  PROVE  IInv'
<1> USE DEF IInv
<1>1. CASE PollNothing
  BY <1>1, SuccessStep, ThresholdAssumption DEF PollNothing, TypeOK, Result
<1>2. CASE PollBroadcasts
  BY <1>2, SuccessStep, ThresholdAssumption DEF PollBroadcasts, TypeOK, Result
<1>3. CASE PollUnconfirmed
  <2>1. "unconfirmed" \in Result \ {"ok"}
    BY DEF Result
  <2> QED
    BY <1>3, <2>1, FailureStep DEF PollUnconfirmed, TypeOK, Result
<1>4. CASE PollConfirms
  BY <1>4, SuccessStep, ThresholdAssumption DEF PollConfirms, TypeOK, Result
<1>5. CASE PollFails
  <2>1. "outage" \in Result \ {"ok"}
    BY DEF Result
  <2> QED
    BY <1>5, <2>1, FailureStep DEF PollFails, TypeOK, Result
<1>6. CASE WakeUp
  BY <1>6 DEF WakeUp, TypeOK, Consecutive
<1>7. CASE Signal
  BY <1>7 DEF Signal, TypeOK, Consecutive
<1>8. CASE Request \/ Mine
  BY <1>8 DEF Request, Mine, TypeOK, Consecutive
<1>9. CASE Outage
  <2>1. outages' \in 0 .. MaxOutages
    BY <1>9, ThresholdAssumption DEF Outage, TypeOK
  <2>2. up' \in BOOLEAN
    BY <1>9 DEF Outage
  <2> QED
    BY <1>9, <2>1, <2>2 DEF Outage, TypeOK, Consecutive
<1>10. CASE Recover
  BY <1>10 DEF Recover, TypeOK, Consecutive
<1>11. CASE UNCHANGED vars
  BY <1>11 DEF vars, TypeOK, Consecutive
<1> QED
  BY <1>1, <1>2, <1>3, <1>4, <1>5, <1>6, <1>7, <1>8, <1>9, <1>10, <1>11
  DEF Next, Loop

-----------------------------------------------------------------------------
(* The theorems. *)

\* The invariant holds in every reachable state of the daemon, for every
\* threshold and any number of outages.
THEOREM Invariance == Spec => []IInv
<1>1. Init => IInv
  BY ThresholdAssumption, IsHistory DEF Init, IInv, TypeOK, Consecutive, Result
<1>2. IInv /\ [Next]_vars => IInv'
  BY Step
<1> QED
  BY <1>1, <1>2, PTL DEF Spec

\* Every variable of the poll loop keeps its type: a daemon that goes on has
\* counted fewer failures than POLL_FAILURE_THRESHOLD.
THEOREM TypeCorrect == Spec => []TypeOK
<1>1. IInv => TypeOK
  BY DEF IInv
<1> QED
  BY <1>1, Invariance, PTL

\* record_failure aborts after Threshold failures in a row and not before: a
\* daemon has given up exactly when its last Threshold polls all failed.
THEOREM AbortIsConsecutiveHolds == Spec => []AbortIsConsecutive
<1>1. IInv => AbortIsConsecutive
  <2> SUFFICES ASSUME IInv PROVE AbortIsConsecutive
    OBVIOUS
  <2> DEFINE AllFailed == Len(results) = Threshold
                          /\ \A i \in 1 .. Threshold : results[i] # "ok"
  <2>1. Len(results) \in 0 .. Threshold /\ failures <= Len(results)
    BY History DEF IInv, Consecutive
  <2>2. ASSUME daemon = "aborted" PROVE AllFailed
    <3>1. failures = Threshold
      BY <2>2 DEF IInv, Consecutive
    <3>2. Len(results) = Threshold /\ Len(results) - failures + 1 = 1
      BY <2>1, <3>1, ThresholdAssumption
    <3> QED
      BY <3>1, <3>2 DEF IInv, Consecutive
  <2>3. ASSUME daemon # "aborted", AllFailed PROVE FALSE
    <3>1. failures \in 0 .. Threshold - 1
      BY <2>3 DEF IInv, TypeOK
    <3>2. failures < Len(results) /\ Len(results) - failures \in 1 .. Threshold
      BY <2>3, <3>1, ThresholdAssumption
    <3>3. results[Len(results) - failures] = "ok"
      BY <3>2 DEF IInv, Consecutive
    <3> QED
      BY <2>3, <3>2, <3>3
  <2> QED
    BY <2>2, <2>3 DEF AbortIsConsecutive
<1> QED
  BY <1>1, Invariance, PTL
=============================================================================
