------------------------------ MODULE Supervisor ------------------------------
(***************************************************************************)
(* main() of tools/devnet/start.ts: the devnet supervisor starts the block  *)
(* sender, the IBC pipeline and the withdrawal daemon, each once the one    *)
(* before it is ready, and stops them when one exits or a signal arrives.   *)
(*                                                                          *)
(* It is one JavaScript thread, so an action is what runs between two       *)
(* awaits.  Signal handlers and the main flow interleave at the awaits, and *)
(* both call shutdown(), which works on a copy of the array of services.    *)
(***************************************************************************)
EXTENDS Integers, Sequences, SequencesExt, FiniteSets

CONSTANT Signals    \* the signals with a handler: SIGINT and SIGTERM

\* The services in the order they are started: sender, ibc, daemon.
Services == 1 .. 3

VARIABLES
  child,      \* each service's process: "none", "alive" or "exited"
  ready,      \* services whose readiness (health answer, log line) shows
  termed,     \* services that were sent SIGTERM
  running,    \* the array `running`: services spawned so far, in order
  main,       \* where main() is: "wait", "race", "finally" or "done"
  stopping,   \* the flag of shutdown()
  copied,     \* how many services shutdown()'s copy of `running` holds
  plan,       \* services shutdown() has still to stop; the head is being stopped
  signalled   \* signals received; each handler runs once

vars == <<child, ready, termed, running, main, stopping, copied, plan, signalled>>

Alive(s) == child[s] = "alive"

\* stop() returns at once for a service that has exited.
FromFirstAlive(list) ==
  LET n == CHOOSE k \in 1 .. Len(list) + 1 :
             /\ k <= Len(list) => Alive(list[k])
             /\ \A j \in 1 .. k - 1 : ~Alive(list[j])
  IN  SubSeq(list, n, Len(list))

\* Mutant: services are stopped in the order they were started.
StopInStartOrder(list) ==
  /\ plan' = FromFirstAlive(SortSeq(list, <))
  /\ termed' = IF plan' = <<>> THEN termed ELSE termed \cup {Head(plan')}

\* The loop of shutdown() up to its next await: SIGTERM to the next live one.
StopNextOf(list) ==
  /\ plan' = FromFirstAlive(list)
  /\ termed' = IF plan' = <<>> THEN termed ELSE termed \cup {Head(plan')}

\* shutdown(): only the first call does anything.
Shutdown ==
  IF stopping
    THEN UNCHANGED <<stopping, copied, plan, termed>>
    ELSE /\ stopping' = TRUE
         /\ copied' = Len(running)
         /\ StopNextOf(Reverse(running))

Spawn(s) ==
  /\ child' = [child EXCEPT ![s] = "alive"]
  /\ running' = Append(running, s)

Init ==
  /\ child = [s \in Services |-> IF s = 1 THEN "alive" ELSE "none"]
  /\ ready = {}
  /\ termed = {}
  /\ running = <<1>>
  /\ main = "wait"
  /\ stopping = FALSE
  /\ copied = 0
  /\ plan = <<>>
  /\ signalled = {}

-----------------------------------------------------------------------------
(* main() *)

Newest == Len(running)

\* waitFor / waitForLog find the newest service alive and ready: the next is
\* spawned in the same turn of the event loop, or all are ready.
WaitReady ==
  /\ main = "wait"
  /\ Alive(Newest) /\ Newest \in ready
  /\ IF Newest < 3
       THEN Spawn(Newest + 1) /\ UNCHANGED main
       ELSE main' = "race" /\ UNCHANGED <<child, running>>
  /\ UNCHANGED <<ready, termed, stopping, copied, plan, signalled>>

\* Mutant: a service that failed its wait is started once more.
WaitRespawns ==
  /\ main = "wait"
  /\ ~Alive(Newest) \/ Newest \notin ready
  /\ Spawn(Newest)
  /\ UNCHANGED <<ready, termed, main, stopping, copied, plan, signalled>>

\* The wait fails: the service exited, or its deadline passed unready.
WaitFails ==
  /\ main = "wait"
  /\ ~Alive(Newest) \/ Newest \notin ready
  /\ main' = "finally"
  /\ UNCHANGED <<child, ready, termed, running, stopping, copied, plan, signalled>>

\* Promise.race of every exit and the end of a signal's shutdown (which a
\* signal that finds the shutdown under way reaches at once).
RaceEnds ==
  /\ main = "race"
  /\ \/ \E s \in Services : child[s] = "exited"
     \/ signalled # {} /\ plan = <<>>
     \/ Cardinality(signalled) > 1
  /\ main' = "finally"
  /\ UNCHANGED <<child, ready, termed, running, stopping, copied, plan, signalled>>

\* Mutant: the finally block is missing.
FinallyNothing ==
  /\ main = "finally"
  /\ main' = "done"
  /\ UNCHANGED <<child, ready, termed, running, stopping, copied, plan, signalled>>

\* finally { await shutdown() }: main() is over, its shutdown() may still be
\* stopping services.
Finally ==
  /\ main = "finally"
  /\ main' = "done"
  /\ Shutdown
  /\ UNCHANGED <<child, ready, running, signalled>>

(* shutdown() and the signal handlers *)

\* Mutant: a service that outlives the grace period is left alone.
StopEndsGracefully ==
  /\ plan # <<>>
  /\ ~Alive(Head(plan))
  /\ child' = child
  /\ StopNextOf(Tail(plan))
  /\ UNCHANGED <<ready, running, main, stopping, copied, signalled>>

\* stop() of the head ends: it exited, or after ten seconds was sent SIGKILL.
StopEnds ==
  /\ plan # <<>>
  /\ child' = [child EXCEPT ![Head(plan)] = "exited"]
  /\ StopNextOf(Tail(plan))
  /\ UNCHANGED <<ready, running, main, stopping, copied, signalled>>

Signal(g) ==
  /\ g \notin signalled
  /\ signalled' = signalled \cup {g}
  /\ Shutdown
  /\ UNCHANGED <<child, ready, running, main>>

(* the services *)

BecomesReady(s) ==
  /\ Alive(s)
  /\ s \notin ready
  /\ ready' = ready \cup {s}
  /\ UNCHANGED <<child, termed, running, main, stopping, copied, plan, signalled>>

\* A service ends, by itself (the daemon's abort among them) or on SIGTERM.
Exits(s) ==
  /\ Alive(s)
  /\ child' = [child EXCEPT ![s] = "exited"]
  /\ UNCHANGED <<ready, termed, running, main, stopping, copied, plan, signalled>>

Main == WaitReady \/ WaitFails \/ RaceEnds \/ Finally

Next ==
  \/ Main
  \/ StopEnds
  \/ \E g \in Signals : Signal(g)
  \/ \E s \in Services : BecomesReady(s)
  \/ \E s \in Services : Exits(s)

Spec == Init /\ [][Next]_vars

(* Waits have deadlines and stop() has one; services owe nothing.           *)
FairSpec == Spec /\ WF_vars(Main) /\ WF_vars(StopEnds)

-----------------------------------------------------------------------------
(* Properties. *)

\* Every variable has its type: no service is spawned twice or out of turn.
TypeOK ==
  /\ child \in [Services -> {"none", "alive", "exited"}]
  /\ ready \subseteq Services
  /\ termed \subseteq Services
  /\ running \in {<<1>>, <<1, 2>>, <<1, 2, 3>>}
  /\ main \in {"wait", "race", "finally", "done"}
  /\ stopping \in BOOLEAN
  /\ copied \in {0} \cup Services
  /\ plan \in {<<>>, <<1>>, <<2, 1>>, <<3, 2, 1>>}
  /\ signalled \subseteq Signals

NoneAlive == \A s \in Services : ~Alive(s)

\* A service was spawned after shutdown() had copied the array.
SpawnedLate == stopping /\ copied < Len(running)

\* Of the services shutdown() knows of, none is told to stop while one that
\* was started after it, and may depend on it, still runs.
ReverseOrder ==
  \A s, t \in 1 .. copied : s < t /\ s \in termed => ~Alive(t)

\* When main() has returned and shutdown() has nothing left to do, nothing it
\* started still runs, unless it was spawned behind shutdown()'s back.
DoneLeavesNothing ==
  main = "done" /\ plan = <<>> => NoneAlive \/ SpawnedLate

\* README: "Ctrl+C/SIGTERM stops daemon, IBC/SP1, and Sender in reverse
\* order."  Whenever the signal comes, the supervisor leaves none running.
SignalStopsAll ==
  main = "done" /\ plan = <<>> /\ signalled # {} => NoneAlive

\* The three services live and die together: once one has exited or a signal
\* has come, all are eventually stopped (late ones excepted).
OneForAll ==
  (signalled # {} \/ \E s \in Services : child[s] = "exited")
    ~> (NoneAlive \/ SpawnedLate)
=============================================================================
