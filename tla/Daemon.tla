-------------------------------- MODULE Daemon --------------------------------
(***************************************************************************)
(* The poll loop of doge/src/commands/operator_daemon.rs: how poll results  *)
(* are counted and when the daemon gives up.  What a poll does to the store *)
(* is module Withdrawal; here a poll has only a result, which depends on    *)
(* the stage of the withdrawal at hand and on whether the services that the *)
(* poll calls answer.  An outage is any of them not answering.              *)
(***************************************************************************)
EXTENDS Integers, Sequences

CONSTANTS
  Threshold,     \* POLL_FAILURE_THRESHOLD: consecutive failures tolerated
  MaxOutages     \* bound: how often the services go down

ASSUME ThresholdAssumption ==
  /\ Threshold \in Nat \ {0}
  /\ MaxOutages \in Nat

VARIABLES
  daemon,    \* "sleeping", "polling", "stopped" by a signal, or "aborted"
  failures,  \* PollFailureTracker.consecutive
  stage,     \* the withdrawal: "none", "requested", "broadcast" or "mined"
  up,        \* whether the services the poll calls answer
  outages,   \* outages so far
  results    \* history: what the last Threshold polls came to

vars == <<daemon, failures, stage, up, outages, results>>

Init ==
  /\ daemon = "polling"
  /\ failures = 0
  /\ stage = "none"
  /\ up = TRUE
  /\ outages = 0
  /\ results = <<>>

Recorded(result) ==
  LET all == Append(results, result)
  IN  IF Len(all) > Threshold THEN Tail(all) ELSE all

\* Mutant: a success leaves the count alone.
SuccessKeepsCount ==
  /\ daemon' = "sleeping"
  /\ failures' = failures
  /\ results' = Recorded("ok")

\* record_success: the count restarts.
RecordSuccess ==
  /\ daemon' = "sleeping"
  /\ failures' = 0
  /\ results' = Recorded("ok")

\* Mutant: the threshold is compared before the failure is counted, and the
\* count saturates one short of it.
FailureSaturates(cause) ==
  /\ failures' = IF failures + 1 < Threshold THEN failures + 1 ELSE failures
  /\ daemon' = IF failures >= Threshold THEN "aborted" ELSE "sleeping"
  /\ results' = Recorded(cause)

\* Mutant: one failure more than the threshold is tolerated.
FailureOffByOne(cause) ==
  /\ failures' = failures + 1
  /\ daemon' = IF failures + 1 > Threshold THEN "aborted" ELSE "sleeping"
  /\ results' = Recorded(cause)

\* record_failure: at the threshold the daemon returns an error.
RecordFailure(cause) ==
  /\ failures' = failures + 1
  /\ daemon' = IF failures + 1 >= Threshold THEN "aborted" ELSE "sleeping"
  /\ results' = Recorded(cause)

-----------------------------------------------------------------------------
(* Poll cycles. *)

\* No incomplete batch and nothing requested: the cycle succeeds.
PollNothing ==
  /\ daemon = "polling" /\ up
  /\ stage = "none"
  /\ RecordSuccess
  /\ UNCHANGED <<stage, up, outages>>

\* A fresh snapshot goes from submission to broadcast in one cycle.
PollBroadcasts ==
  /\ daemon = "polling" /\ up
  /\ stage = "requested"
  /\ stage' = "broadcast"
  /\ RecordSuccess
  /\ UNCHANGED <<up, outages>>

\* resume_broadcast_batch: "is not yet confirmed" is an error of the cycle.
PollUnconfirmed ==
  /\ daemon = "polling" /\ up
  /\ stage = "broadcast"
  /\ RecordFailure("unconfirmed")
  /\ UNCHANGED <<stage, up, outages>>

PollConfirms ==
  /\ daemon = "polling" /\ up
  /\ stage = "mined"
  /\ stage' = "none"
  /\ RecordSuccess
  /\ UNCHANGED <<up, outages>>

\* Some call of the cycle fails, before or after the broadcast.
PollFails ==
  /\ daemon = "polling" /\ ~up
  /\ stage' \in {stage} \cup (IF stage = "requested" THEN {"broadcast"} ELSE {})
  /\ RecordFailure("outage")
  /\ UNCHANGED <<up, outages>>

\* The sleep between two cycles.
WakeUp ==
  /\ daemon = "sleeping"
  /\ daemon' = "polling"
  /\ UNCHANGED <<failures, stage, up, outages, results>>

\* SIGINT or SIGTERM ends the select!, cancelling the cycle it finds.
Signal ==
  /\ daemon \in {"polling", "sleeping"}
  /\ daemon' = "stopped"
  /\ UNCHANGED <<failures, stage, up, outages, results>>

(* The world. *)

Request ==
  /\ stage = "none"
  /\ stage' = "requested"
  /\ UNCHANGED <<daemon, failures, up, outages, results>>

Mine ==
  /\ stage = "broadcast"
  /\ stage' = "mined"
  /\ UNCHANGED <<daemon, failures, up, outages, results>>

Outage ==
  /\ up
  /\ outages < MaxOutages
  /\ up' = FALSE
  /\ outages' = outages + 1
  /\ UNCHANGED <<daemon, failures, stage, results>>

Recover ==
  /\ ~up
  /\ up' = TRUE
  /\ UNCHANGED <<daemon, failures, stage, outages, results>>

Loop ==
  \/ PollNothing \/ PollBroadcasts \/ PollUnconfirmed \/ PollConfirms
  \/ PollFails \/ WakeUp

Next == Loop \/ Signal \/ Request \/ Mine \/ Outage \/ Recover

Spec == Init /\ [][Next]_vars

(* The loop never stops by itself; nothing is promised of the world.        *)
FairSpec == Spec /\ WF_vars(Loop)

-----------------------------------------------------------------------------
(* Properties. *)

\* Every variable has its type: in particular a live daemon has counted fewer
\* failures than the threshold.
TypeOK ==
  /\ daemon \in {"polling", "sleeping", "stopped", "aborted"}
  /\ failures \in 0 .. IF daemon = "aborted" THEN Threshold ELSE Threshold - 1
  /\ stage \in {"none", "requested", "broadcast", "mined"}
  /\ up \in BOOLEAN
  /\ outages \in 0 .. MaxOutages
  /\ results \in UNION {[1 .. n -> {"ok", "outage", "unconfirmed"}] : n \in 0 .. Threshold}

\* Occasional failures are tolerated however many they are, and a row of them
\* is not masked: the daemon has aborted exactly when the last Threshold polls
\* all failed.
AbortIsConsecutive ==
  daemon = "aborted" <=>
    Len(results) = Threshold /\ \A i \in 1 .. Threshold : results[i] # "ok"

\* An outage that lasts is not masked for ever: the daemon ends.
OutageEscalates ==
  <>[](~up) => <>(daemon \in {"aborted", "stopped"})

\* "This counter escalates ... permanent outages ... transient flakiness is
\* still tolerated": the daemon gives up only when a service did not answer.
AbortMeansOutage ==
  daemon = "aborted" => \E i \in DOMAIN results : results[i] = "outage"
=============================================================================
