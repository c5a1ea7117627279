--------------------------- MODULE SupervisorProofs ---------------------------
(***************************************************************************)
(* The devnet supervisor stops what it started, last started first, for any *)
(* set of signals: an inductive invariant about shutdown()'s plan and what  *)
(* follows from it.                                                         *)
(***************************************************************************)
EXTENDS Supervisor, SequenceTheorems, TLAPS

\* The services from n down to the first, as shutdown() goes through them.
Down(n) == [i \in 1 .. n |-> n + 1 - i]

\* A service has a process once it is in the array of services.
Spawned == \A s \in Services : child[s] = "none" <=> s > Len(running)

\* shutdown() goes down its copy of the array: what is above the head of the
\* plan has exited, and only the head or what is above it was told to stop.
Planned ==
  /\ plan = Down(Len(plan))
  /\ Len(plan) <= copied /\ copied <= Len(running)
  /\ \A s \in Len(plan) + 1 .. copied : child[s] = "exited"
  /\ \A s \in termed : Len(plan) <= s /\ s <= copied

\* Nothing is planned before shutdown(), which main() does not end without.
Begun ==
  /\ ~stopping => copied = 0 /\ termed = {}
  /\ main = "done" => stopping

IInv == TypeOK /\ Spawned /\ Planned /\ Begun

-----------------------------------------------------------------------------
(* Rows of services. *)

\* Down(n) is a sequence of length n that begins with n, and its tail is
\* Down(n - 1).
LEMMA DownIs ==
  ASSUME NEW n \in 0 .. 3
  PROVE  /\ Down(n) \in Seq(Services) /\ Len(Down(n)) = n
         /\ n # 0 => /\ Down(n) # <<>> /\ Head(Down(n)) = n
                     /\ Tail(Down(n)) = Down(n - 1)
         /\ n = 0 => Down(n) = <<>>
<1>1. Down(n) \in [1 .. n -> Services]
  BY DEF Down, Services
<1>2. Down(n) \in Seq(Services) /\ Len(Down(n)) = n
  BY <1>1
<1>3. ASSUME n # 0
      PROVE  /\ Down(n) # <<>> /\ Head(Down(n)) = n
             /\ Tail(Down(n)) = Down(n - 1)
  <2>1. Down(n) # <<>> /\ Down(n)[1] = n
    BY <1>2, <1>3 DEF Down
  <2>2. Head(Down(n)) = n
    BY <2>1 DEF Down
  <2>3. /\ Tail(Down(n)) \in Seq(Services) /\ Len(Tail(Down(n))) = n - 1
        /\ \A i \in 1 .. n - 1 : Tail(Down(n))[i] = Down(n)[i + 1]
    BY <1>2, <2>1, HeadTailProperties
  <2>4. Down(n - 1) \in [1 .. n - 1 -> Services]
    BY <1>3 DEF Down, Services
  <2>5. Down(n - 1) \in Seq(Services) /\ Len(Down(n - 1)) = n - 1
    BY <1>3, <2>4
  <2>6. \A i \in 1 .. n - 1 : Tail(Down(n))[i] = Down(n - 1)[i]
    BY <2>3 DEF Down
  <2>7. Tail(Down(n)) = Down(n - 1)
    BY <2>3, <2>5, <2>6, SeqEqual
  <2> QED
    BY <2>1, <2>2, <2>7
<1>4. n = 0 => Down(n) = <<>>
  BY <1>2
<1> QED
  BY <1>2, <1>3, <1>4

\* The array of services holds the first ones in the order of their numbers,
\* and its reverse is Down of its length.
LEMMA RunningIs ==
  ASSUME TypeOK
  PROVE  /\ Len(running) \in Services
         /\ Reverse(running) = Down(Len(running))
<1>1. CASE running = <<1>>
  BY <1>1 DEF Services, Reverse, Down
<1>2. CASE running = <<1, 2>>
  BY <1>2 DEF Services, Reverse, Down
<1>3. CASE running = <<1, 2, 3>>
  BY <1>3 DEF Services, Reverse, Down
<1> QED
  BY <1>1, <1>2, <1>3 DEF TypeOK

\* stop() of one service after another gets to the highest one that is alive.
LEMMA FromFirstAliveIs ==
  ASSUME NEW n \in 0 .. 3
  PROVE  \E k \in 0 .. n :
           /\ FromFirstAlive(Down(n)) = Down(k)
           /\ \A s \in k + 1 .. n : ~Alive(s)
<1>1. \E k \in 0 .. n : (k # 0 => Alive(k)) /\ \A s \in k + 1 .. n : ~Alive(s)
  BY DEF Alive
<1>2. PICK m \in 0 .. n : (m # 0 => Alive(m)) /\ \A s \in m + 1 .. n : ~Alive(s)
  BY <1>1
<1>3. Len(Down(n)) = n /\ \A i \in 1 .. n : Down(n)[i] = n + 1 - i
  BY DownIs DEF Down
<1> DEFINE P(j) == /\ j <= Len(Down(n)) => Alive(Down(n)[j])
                   /\ \A i \in 1 .. j - 1 : ~Alive(Down(n)[i])
           c == CHOOSE j \in 1 .. Len(Down(n)) + 1 : P(j)
<1>4. P(n - m + 1) /\ n - m + 1 \in 1 .. Len(Down(n)) + 1
  <2>1. n - m + 1 <= n => Down(n)[n - m + 1] = m /\ m # 0
    BY <1>3
  <2>2. \A i \in 1 .. n - m : Down(n)[i] \in m + 1 .. n
    BY <1>3
  <2> QED
    BY <1>2, <1>3, <2>1, <2>2
<1>5. P(c) /\ c \in 1 .. n + 1
  <2> HIDE DEF P
  <2> QED
    BY <1>3, <1>4
<1> HIDE DEF c
<1>6. FromFirstAlive(Down(n)) = SubSeq(Down(n), c, n)
  BY <1>3 DEF FromFirstAlive, c
<1>7. SubSeq(Down(n), c, n) = Down(n - c + 1)
  <2>1. SubSeq(Down(n), c, n) = [i \in 1 .. n - c + 1 |-> Down(n)[c + i - 1]]
    BY <1>3, <1>5, DownIs
  <2>2. \A i \in 1 .. n - c + 1 : Down(n)[c + i - 1] = (n - c + 1) + 1 - i
    BY <1>3, <1>5
  <2> QED
    BY <2>1, <2>2 DEF Down
<1>8. ASSUME NEW s \in (n - c + 1) + 1 .. n PROVE ~Alive(s)
  <2>1. n + 1 - s \in 1 .. c - 1 /\ Down(n)[n + 1 - s] = s
    BY <1>3, <1>5
  <2> QED
    BY <1>5, <2>1
<1> QED
  BY <1>5, <1>6, <1>7, <1>8

-----------------------------------------------------------------------------
(* The steps. *)

\* The plan that shutdown() and stop() go on with: the services above its head
\* are not alive, and the head is the only one newly told to stop.
LEMMA StopNextOfIs ==
  ASSUME NEW n \in 0 .. 3, StopNextOf(Down(n))
  PROVE  \E k \in 0 .. n :
           /\ plan' = Down(k) /\ Len(plan') = k
           /\ \A s \in k + 1 .. n : ~Alive(s)
           /\ termed' = IF k = 0 THEN termed ELSE termed \cup {k}
<1>1. PICK k \in 0 .. n : /\ FromFirstAlive(Down(n)) = Down(k)
                          /\ \A s \in k + 1 .. n : ~Alive(s)
  BY FromFirstAliveIs
<1>2. k \in 0 .. 3
  OBVIOUS
<1>3. /\ Len(Down(k)) = k /\ (k = 0 <=> Down(k) = <<>>)
      /\ k # 0 => Head(Down(k)) = k
  BY <1>2, DownIs
<1> QED
  BY <1>1, <1>3 DEF StopNextOf

\* A call of shutdown() keeps the invariant, wherever main() is and whatever
\* signals have come.
LEMMA ShutdownStep ==
  ASSUME IInv, Shutdown, UNCHANGED <<child, running, ready>>,
         main' \in {"wait", "race", "finally", "done"}, signalled' \subseteq Signals,
         main' = "done" => main = "done" \/ stopping' = TRUE
  PROVE  IInv'
<1> USE DEF IInv
<1>1. CASE stopping
  BY <1>1 DEF Shutdown, TypeOK, Spawned, Planned, Begun
<1>2. CASE ~stopping
  <2> DEFINE n == Len(running)
  <2>1. n \in 1 .. 3 /\ Reverse(running) = Down(n)
    BY RunningIs DEF Services
  <2>2. stopping' = TRUE /\ copied' = n /\ StopNextOf(Down(n)) /\ termed = {}
    BY <1>2, <2>1 DEF Shutdown, Begun
  <2>a. /\ child \in [Services -> {"none", "alive", "exited"}] /\ child' = child
        /\ \A s \in Services : child[s] = "none" <=> s > n
    BY DEF TypeOK, Spawned
  <2>b. running' = running /\ n' = n
    OBVIOUS
  <2> HIDE DEF n
  <2>c. n \in 0 .. 3
    BY <2>1
  <2>3. PICK k \in 0 .. n :
          /\ plan' = Down(k) /\ Len(plan') = k
          /\ \A s \in k + 1 .. n : ~Alive(s)
          /\ termed' = IF k = 0 THEN termed ELSE termed \cup {k}
    BY <2>2, <2>c, StopNextOfIs
  <2>4. \A s \in k + 1 .. n : child'[s] = "exited"
    BY <2>1, <2>3, <2>a DEF Services, Alive
  <2>5. termed' \subseteq Services /\ \A s \in termed' : k <= s /\ s <= n
    BY <2>1, <2>2, <2>3 DEF Services
  <2>6. plan' \in {<<>>, <<1>>, <<2, 1>>, <<3, 2, 1>>}
    <3>1. k \in {0, 1, 2, 3}
      BY <2>1
    <3>2. Down(0) = <<>> /\ Down(1) = <<1>> /\ Down(2) = <<2, 1>> /\ Down(3) = <<3, 2, 1>>
      BY DEF Down
    <3> QED
      BY <2>3, <3>1, <3>2
  <2>7. TypeOK'
    BY <2>1, <2>2, <2>5, <2>6 DEF TypeOK, Services
  <2>8. Spawned'
    BY <2>a, <2>b DEF Spawned, n
  <2>9. Planned'
    <3>1. k <= n /\ n <= Len(running')
      BY <2>1, <2>b DEF n
    <3> QED
      BY <2>2, <2>3, <2>4, <2>5, <3>1 DEF Planned
  <2> QED
    BY <2>2, <2>7, <2>8, <2>9 DEF Begun
<1> QED
  BY <1>1, <1>2

\* The end of one stop() and the beginning of the next keep the invariant.
LEMMA StopEndsStep ==
  ASSUME IInv, StopEnds
  PROVE  IInv'
<1> USE DEF IInv
<1> DEFINE n == Len(plan)
<1>1. n \in 1 .. 3 /\ plan = Down(n)
  BY DEF StopEnds, TypeOK, Planned
<1> HIDE DEF n
<1>2. Head(plan) = n /\ Tail(plan) = Down(n - 1) /\ n - 1 \in 0 .. 3 /\ n \in Services
  <2>1. n \in 0 .. 3 /\ n # 0 /\ n - 1 \in 0 .. 3 /\ n \in Services
    BY <1>1 DEF Services
  <2> QED
    BY <1>1, <2>1, DownIs
<1>3. PICK k \in 0 .. n - 1 :
        /\ plan' = Down(k) /\ Len(plan') = k
        /\ \A s \in k + 1 .. n - 1 : ~Alive(s)
        /\ termed' = IF k = 0 THEN termed ELSE termed \cup {k}
  BY <1>2, StopNextOfIs DEF StopEnds
<1>4. child' = [child EXCEPT ![n] = "exited"] /\ child'[n] = "exited"
  BY <1>2 DEF StopEnds, TypeOK
<1>5. n <= copied /\ copied <= Len(running) /\ Len(running) \in 1 .. 3 /\ copied \in 0 .. 3
  BY RunningIs DEF Planned, Services, TypeOK, n
<1>6. ASSUME NEW s \in k + 1 .. copied PROVE child'[s] = "exited"
  <2>1. s \in Services
    BY <1>5 DEF Services
  <2>2. CASE s = n
    BY <1>4, <2>2
  <2>3. CASE s > n
    BY <1>1, <1>4, <1>5, <2>1, <2>3 DEF Planned, TypeOK, n
  <2>4. CASE s < n
    <3>1. s \in k + 1 .. n - 1 /\ ~(s > Len(running))
      BY <1>1, <1>5, <2>4
    <3> QED
      BY <1>3, <1>4, <2>1, <2>4, <3>1 DEF Spawned, TypeOK, Alive
  <2> QED
    BY <1>1, <2>2, <2>3, <2>4
<1>7. termed' \subseteq Services /\ \A s \in termed' : k <= s /\ s <= copied
  BY <1>1, <1>3, <1>5 DEF Planned, TypeOK, Services, n
<1>8. plan' \in {<<>>, <<1>>, <<2, 1>>, <<3, 2, 1>>}
  <2>1. k \in {0, 1, 2, 3}
    BY <1>1, <1>3
  <2>2. Down(0) = <<>> /\ Down(1) = <<1>> /\ Down(2) = <<2, 1>> /\ Down(3) = <<3, 2, 1>>
    BY DEF Down
  <2> QED
    BY <1>3, <2>1, <2>2
<1>9. TypeOK'
  BY <1>4, <1>7, <1>8 DEF StopEnds, TypeOK
<1>10. Spawned'
  BY <1>1, <1>2, <1>4, <1>5 DEF StopEnds, TypeOK, Spawned, Services
<1>11. k <= copied
  BY <1>1, <1>5
<1>12. copied' = copied /\ running' = running /\ main' = main /\ stopping' = stopping
  BY DEF StopEnds
<1>13. Planned'
  BY <1>3, <1>5, <1>6, <1>7, <1>11, <1>12 DEF Planned
<1>14. Begun'
  <2>1. stopping
    BY <1>1, <1>5 DEF Begun, n
  <2> QED
    BY <1>12, <2>1 DEF Begun
<1> QED
  BY <1>9, <1>10, <1>13, <1>14

\* main() starting the next service, or finding all of them ready, keeps the
\* invariant, also when shutdown() is under way.
LEMMA WaitReadyStep ==
  ASSUME IInv, WaitReady
  PROVE  IInv'
<1> USE DEF IInv
<1>1. CASE Len(running) < 3
  <2> DEFINE n == Len(running)
  <2>1. /\ n \in 1 .. 2 /\ n + 1 \in Services
        /\ child' = [child EXCEPT ![n + 1] = "alive"]
        /\ running' = Append(running, n + 1) /\ Len(running') = n + 1
        /\ UNCHANGED <<ready, termed, main, stopping, copied, plan, signalled>>
    BY <1>1, RunningIs DEF WaitReady, Newest, Spawn, TypeOK, Services
  <2>2. running' \in {<<1>>, <<1, 2>>, <<1, 2, 3>>}
    <3> /\ running' \in Seq(Nat) /\ running'[n + 1] = n + 1
        /\ \A i \in 1 .. n : running'[i] = running[i]
      <4>1. running \in Seq(Nat)
        <5>1. <<1>> \in Seq(Nat) /\ <<1, 2>> \in Seq(Nat) /\ <<1, 2, 3>> \in Seq(Nat)
          OBVIOUS
        <5> QED
          BY <5>1 DEF TypeOK
      <4>2. n + 1 \in Nat /\ running' = Append(running, n + 1)
        BY <2>1
      <4> HIDE DEF n
      <4> QED
        BY <4>1, <4>2, AppendProperties DEF n
    <3>1. CASE running = <<1>>
      <4>1. Len(running') = 2 /\ running'[1] = 1 /\ running'[2] = 2
        BY <2>1, <3>1
      <4> QED
        BY <4>1
    <3>2. CASE running = <<1, 2>>
      <4>1. Len(running') = 3 /\ running'[1] = 1 /\ running'[2] = 2 /\ running'[3] = 3
        BY <2>1, <3>2
      <4> QED
        BY <4>1
    <3>3. CASE running = <<1, 2, 3>>
      BY <1>1, <3>3
    <3> QED
      BY <3>1, <3>2, <3>3 DEF TypeOK
  <2>3. TypeOK'
    BY <2>1, <2>2 DEF TypeOK
  <2>4. Spawned'
    BY <2>1 DEF TypeOK, Spawned, Services
  <2>5. Planned'
    BY <2>1 DEF TypeOK, Planned, Services
  <2> QED
    BY <2>1, <2>3, <2>4, <2>5 DEF Begun
<1>2. CASE ~(Len(running) < 3)
  BY <1>2 DEF WaitReady, Newest, TypeOK, Spawned, Planned, Begun
<1> QED
  BY <1>1, <1>2

\* Every step of main(), of the signal handlers and of the services keeps the
\* invariant.
LEMMA Step ==
  ASSUME IInv, [Next]_vars
  PROVE  IInv'
<1> USE DEF IInv
<1>1. CASE WaitReady
  BY <1>1, WaitReadyStep
<1>2. CASE WaitFails \/ RaceEnds
  BY <1>2 DEF WaitFails, RaceEnds, TypeOK, Spawned, Planned, Begun
<1>3. CASE Finally
  <2>1. stopping' = TRUE
    BY <1>3 DEF Finally, Shutdown, TypeOK
  <2>2. main' = "done" /\ signalled' \subseteq Signals
    BY <1>3 DEF Finally, TypeOK
  <2> QED
    BY <1>3, <2>1, <2>2, ShutdownStep DEF Finally
<1>4. CASE StopEnds
  BY <1>4, StopEndsStep
<1>5. ASSUME NEW g \in Signals, Signal(g) PROVE IInv'
  BY <1>5, ShutdownStep DEF Signal, TypeOK
<1>6. ASSUME NEW s \in Services, BecomesReady(s) PROVE IInv'
  BY <1>6 DEF BecomesReady, TypeOK, Spawned, Planned, Begun
<1>7. ASSUME NEW s \in Services, Exits(s) PROVE IInv'
  <2>1. /\ child' = [child EXCEPT ![s] = "exited"] /\ child[s] = "alive"
        /\ UNCHANGED <<ready, termed, running, main, stopping, copied, plan, signalled>>
    BY <1>7 DEF Exits, Alive
  <2>2. \A t \in Len(plan) + 1 .. copied : t \in Services
    BY DEF TypeOK, Planned, Services
  <2> QED
    BY <2>1, <2>2 DEF TypeOK, Spawned, Planned, Begun
<1>8. CASE UNCHANGED vars
  BY <1>8 DEF vars, TypeOK, Spawned, Planned, Begun
<1> QED
  BY <1>1, <1>2, <1>3, <1>4, <1>5, <1>6, <1>7, <1>8 DEF Next, Main

-----------------------------------------------------------------------------
(* The theorems. *)

\* The invariant holds in every reachable state of the supervisor.
THEOREM Invariance == Spec => []IInv
<1>1. Init => IInv
  <2> SUFFICES ASSUME Init PROVE IInv
    OBVIOUS
  <2>1. TypeOK
    BY DEF Init, TypeOK, Services
  <2>2. Spawned
    BY DEF Init, Spawned, Services
  <2>3. plan = Down(0) /\ Len(plan) = 0
    BY DownIs DEF Init
  <2>4. Planned
    BY <2>3 DEF Init, Planned
  <2> QED
    BY <2>1, <2>2, <2>4 DEF Init, IInv, Begun
<1>2. IInv /\ [Next]_vars => IInv'
  BY Step
<1> QED
  BY <1>1, <1>2, PTL DEF Spec

\* Every variable of the supervisor keeps its type: services are started once
\* each, in their order.
THEOREM TypeCorrect == Spec => []TypeOK
<1>1. IInv => TypeOK
  BY DEF IInv
<1> QED
  BY <1>1, Invariance, PTL

\* shutdown() tells a service to stop only when every service started after it
\* that shutdown() knows of has exited.
THEOREM ReverseOrderHolds == Spec => []ReverseOrder
<1>1. IInv => ReverseOrder
  BY DEF IInv, TypeOK, Planned, ReverseOrder, Services, Alive
<1> QED
  BY <1>1, Invariance, PTL

\* When main() is over and shutdown() has no more to do, nothing runs but what
\* was started after shutdown() had copied the array of services.
THEOREM DoneLeavesNothingHolds == Spec => []DoneLeavesNothing
<1>1. IInv => DoneLeavesNothing
  <2> SUFFICES ASSUME IInv, main = "done", plan = <<>>, ~SpawnedLate
               PROVE  NoneAlive
    BY DEF DoneLeavesNothing
  <2>1. copied = Len(running) /\ Len(plan) = 0
    BY RunningIs DEF IInv, Begun, Planned, SpawnedLate, TypeOK, Services
  <2> QED
    BY <2>1, RunningIs DEF IInv, Planned, Spawned, NoneAlive, Alive, Services, TypeOK
<1> QED
  BY <1>1, Invariance, PTL
=============================================================================
