-------------------------- MODULE SupervisorProofs --------------------------
(***************************************************************************)
(* Proofs about the master, for any number of workers and failures: the    *)
(* slots and the processes always agree, a clean exit leaves nobody, and   *)
(* restarts follow failures after their backoff.                           *)
(***************************************************************************)
EXTENDS Supervisor, FiniteSetTheorems, TLAPS

Slot == [pid : {NoPid} \cup Pids, failures : Nat, since : 0 .. StableWindow, restart_in : Int]
States == {"none", "forked", "serving", "clean", "failed"}
Process == [cpu : {0} \cup Cpus, state : States, term : BOOLEAN, deaf : BOOLEAN,
            reaped : BOOLEAN]

\* The types of the state.
TypeOK ==
  /\ slots \in [Cpus -> Slot]
  /\ children \in [Pids -> Process]
  /\ requested \in BOOLEAN /\ stopping \in BOOLEAN
  /\ pc \in {"spawn", "check", "wait", "restart", "done", "error"}
  /\ at \in 1 .. Workers + 1
  /\ crashes \in 0 .. MaxCrashes

\* A process exists, or its pid has not been given out; pids are given out in order.
Known(p) == children[p].state # "none"
InOrder == \A p, q \in Pids : p < q /\ Known(q) => Known(p)

Unreaped(p) == Known(p) /\ ~children[p].reaped

\* Only processes that ended are reaped, and every process is of some slot.
Sound ==
  \A p \in Pids :
    /\ children[p].reaped => children[p].state \in {"clean", "failed"}
    /\ children[p].cpu \in Cpus <=> Known(p)

\* The slots name exactly the processes not yet reaped, each the last of its cpu_id.
Last(c, p) == children[p].cpu = c /\ \A q \in Pids : children[q].cpu = c => q <= p
Agree ==
  /\ \A p \in Pids : Unreaped(p) => slots[children[p].cpu].pid = p
  /\ \A c \in Cpus : slots[c].pid # NoPid => Unreaped(slots[c].pid) /\ Last(c, slots[c].pid)

Pending(c) == slots[c].pid = NoPid /\ slots[c].restart_in # Never

\* A restart is scheduled only for a slot without a process whose last one failed, and
\* with the backoff still to wait that has not passed since that process was started.
Scheduled ==
  \A c \in Cpus :
    /\ slots[c].pid # NoPid => slots[c].restart_in = Never
    /\ Pending(c) => /\ \E p \in Pids : Last(c, p) /\ children[p].state = "failed"
                     /\ slots[c].failures # 0
                     /\ slots[c].since + slots[c].restart_in >= restart_delay(slots[c].failures)

\* What the program counter says of the slots.
Phase ==
  /\ pc = "spawn" => \A c \in Cpus : c >= at => slots[c].pid = NoPid /\ slots[c].restart_in = Never
  /\ pc = "done" => \A c \in Cpus : slots[c].pid = NoPid

\* Every fork has its cause: the start of a slot or a failure.
Forks == {p \in Pids : Known(p)}
Owed == {c \in Cpus : Pending(c)}
Unseen == {p \in Pids : children[p].state = "failed" /\ ~children[p].reaped}
Begun == IF pc = "spawn" THEN at - 1 ELSE Workers
Caused == Cardinality(Forks) + Cardinality(Owed) + Cardinality(Unseen) <= Begun + crashes

IInv == TypeOK /\ InOrder /\ Sound /\ Agree /\ Scheduled /\ Phase /\ Caused

-----------------------------------------------------------------------------
(* Counting.                                                                 *)

LEMMA CpusPids ==
  /\ IsFiniteSet(Cpus) /\ IsFiniteSet(Pids)
  /\ Cardinality(Pids) = Workers + MaxCrashes
  /\ Cpus \in SUBSET (Nat \ {0}) /\ Pids \in SUBSET (Nat \ {0}) /\ NoPid \notin Pids
<1>1. Workers \in Nat \ {0} /\ MaxCrashes \in Nat  BY SupervisorAssumption
<1>2. IsFiniteSet(Cpus)  BY <1>1, FS_Interval DEF Cpus
<1>3. IsFiniteSet(Pids) /\ Cardinality(Pids) = Workers + MaxCrashes
  BY <1>1, FS_Interval DEF Pids
<1> QED  BY <1>1, <1>2, <1>3 DEF Cpus, Pids, NoPid

LEMMA FiniteCounts ==
  /\ IsFiniteSet(Forks) /\ Cardinality(Forks) \in Nat
  /\ IsFiniteSet(Owed) /\ Cardinality(Owed) \in Nat
  /\ IsFiniteSet(Unseen) /\ Cardinality(Unseen) \in Nat
<1>1. Forks \in SUBSET Pids /\ Owed \in SUBSET Cpus /\ Unseen \in SUBSET Pids
  BY DEF Forks, Owed, Unseen
<1> QED  BY <1>1, CpusPids, FS_Subset, FS_CardinalityType

\* The least-number principle.
LEMMA Least ==
  ASSUME NEW S \in SUBSET Nat, S # {}
  PROVE  \E x \in S : \A y \in S : x <= y
<1> DEFINE R == OpToRel(<, Nat)
<1>1. IsWellFoundedOn(R, Nat)  BY NatLessThanWellFounded
<1>2. \A x \in Nat, y \in Nat : y < x => <<y, x>> \in R  BY DEF OpToRel
<1> HIDE DEF R
<1>3. PICK x \in S : \A y \in S : ~(<<y, x>> \in R)  BY <1>1, WFMin
<1>4. ASSUME NEW y \in S  PROVE x <= y
  <2>1. ~(<<y, x>> \in R) /\ x \in Nat /\ y \in Nat  BY <1>3
  <2>2. ~(y < x)  BY <1>2, <2>1
  <2> QED  BY <2>1, <2>2
<1> QED  BY <1>4

\* While a pid is left, spawn_worker takes the one just above those given out before.
LEMMA FreshPid ==
  ASSUME TypeOK, InOrder, Cardinality(Forks) < Workers + MaxCrashes
  PROVE  Fresh \in Pids /\ ~Known(Fresh) /\ \A q \in Pids : Known(q) <=> q < Fresh
<1> DEFINE S == {p \in Pids : ~Known(p)}
<1>1. S # {}
  <2>1. SUFFICES ASSUME S = {}  PROVE FALSE  OBVIOUS
  <2>2. Forks = Pids  BY <2>1 DEF Forks
  <2> QED  BY <2>2, CpusPids, SupervisorAssumption
<1>2. S \in SUBSET Nat  BY CpusPids
<1> HIDE DEF S
<1>3. \E x \in S : \A y \in S : x <= y  BY <1>1, <1>2, Least
<1>4. \E p \in Pids : /\ children[p].state = "none"
                      /\ \A q \in Pids : children[q].state = "none" => p <= q
  BY <1>3 DEF S, Known
<1>5. /\ Fresh \in Pids /\ children[Fresh].state = "none"
      /\ \A q \in Pids : children[q].state = "none" => Fresh <= q
  BY <1>4 DEF Fresh
<1>6. ASSUME NEW q \in Pids, Known(q)  PROVE q < Fresh
  <2>1. ~(Fresh < q)  BY <1>5, <1>6 DEF InOrder, Known
  <2>2. Fresh # q  BY <1>5, <1>6 DEF Known
  <2> QED  BY <1>5, <2>1, <2>2, CpusPids
<1>7. ASSUME NEW q \in Pids, q < Fresh  PROVE Known(q)
  BY <1>5, <1>7, CpusPids DEF Known
<1> QED  BY <1>5, <1>6, <1>7 DEF Known

-----------------------------------------------------------------------------
(* Steps of the processes and signals to them.                               *)

\* The processes change what they do, but none starts, is reaped or comes back to life.
Continues(p) ==
  /\ children'[p].cpu = children[p].cpu
  /\ children'[p].reaped = children[p].reaped
  /\ children[p].state = "none" <=> children'[p].state = "none"
  /\ children[p].state \in {"clean", "failed"} => children'[p].state = children[p].state

LEMMA ContinuesKeeps ==
  ASSUME IInv, slots' = slots, at' = at, pc' = pc \/ pc' = "wait", \A p \in Pids : Continues(p)
  PROVE  InOrder' /\ Sound' /\ Agree' /\ Scheduled' /\ Phase'
<1>1. \A p \in Pids : /\ Known(p)' <=> Known(p)
                      /\ Unreaped(p)' <=> Unreaped(p)
                      /\ children'[p].cpu = children[p].cpu
  BY DEF Known, Unreaped, Continues
<1>2. \A c \in Cpus, p \in Pids : Last(c, p)' <=> Last(c, p)  BY <1>1 DEF Last
<1>3. \A c \in Cpus : slots[c].pid \in {NoPid} \cup Pids  BY DEF IInv, TypeOK, Slot
<1>4. InOrder'  BY <1>1 DEF IInv, InOrder
<1>5. Sound'
  <2> SUFFICES ASSUME NEW p \in Pids
               PROVE  /\ children'[p].reaped => children'[p].state \in {"clean", "failed"}
                      /\ children'[p].cpu \in Cpus <=> Known(p)'
    BY DEF Sound
  <2> QED  BY <1>1 DEF IInv, Sound, Continues
<1>6. Agree'  BY <1>1, <1>2, <1>3 DEF IInv, Agree
<1>7. Scheduled'
  <2> SUFFICES ASSUME NEW c \in Cpus
               PROVE  /\ slots'[c].pid # NoPid => slots'[c].restart_in = Never
                      /\ Pending(c)' =>
                           /\ \E p \in Pids : Last(c, p)' /\ children'[p].state = "failed"
                           /\ slots'[c].failures # 0
                           /\ slots'[c].since + slots'[c].restart_in
                                >= restart_delay(slots'[c].failures)
    BY DEF Scheduled
  <2>1. Pending(c)' <=> Pending(c)  BY DEF Pending
  <2>2. \A p \in Pids : children[p].state = "failed" => children'[p].state = "failed"
    BY DEF Continues
  <2> QED  BY <1>2, <2>1, <2>2 DEF IInv, Scheduled
<1>8. Phase'  BY DEF IInv, Phase
<1> QED  BY <1>4, <1>5, <1>6, <1>7, <1>8

\* Unless a process fails, the counts stay.
LEMMA ContinuesCounts ==
  ASSUME IInv, slots' = slots, \A p \in Pids : Continues(p)
  PROVE  Forks' = Forks /\ Owed' = Owed
BY DEF Forks, Owed, Pending, Known, Continues

\* One process p becomes ch.
LEMMA BecomeContinues ==
  ASSUME IInv, NEW p \in Pids, NEW ch \in Process, Alive(p),
         children' = [children EXCEPT ![p] = ch],
         ch.cpu = children[p].cpu, ~ch.reaped, ch.state # "none"
  PROVE  children' \in [Pids -> Process] /\ \A q \in Pids : Continues(q)
<1>1. children \in [Pids -> Process]  BY DEF IInv, TypeOK
<1>2. ~children[p].reaped /\ children[p].state \notin {"none", "clean", "failed"}
  BY DEF IInv, Sound, Alive
<1>3. children[p].reaped \in BOOLEAN /\ ch.reaped \in BOOLEAN  BY <1>1 DEF Process
<1>4. Continues(p)  BY <1>1, <1>2, <1>3 DEF Continues
<1>5. \A q \in Pids \ {p} : children'[q] = children[q]  BY <1>1
<1>6. \A q \in Pids \ {p} : Continues(q)  BY <1>5 DEF Continues
<1> QED  BY <1>1, <1>4, <1>6

LEMMA InstallSignalsKeeps == ASSUME IInv, NEW p \in Pids, InstallSignals(p) PROVE IInv'
<1> DEFINE ch == [children[p] EXCEPT !.state = "serving"]
<1>1. children \in [Pids -> Process] /\ children[p].state = "forked"
  BY DEF IInv, TypeOK, InstallSignals
<1>2. /\ children' = [children EXCEPT ![p] = ch] /\ slots' = slots /\ requested' = requested
      /\ stopping' = stopping /\ pc' = pc /\ at' = at /\ crashes' = crashes
  BY DEF InstallSignals, Become
<1>3. /\ ch \in Process /\ ch.cpu = children[p].cpu /\ ch.reaped = children[p].reaped
      /\ ch.state = "serving"
  BY <1>1 DEF Process, States
<1>4. ~children[p].reaped /\ Alive(p)  BY <1>1 DEF IInv, Sound, Alive
<1> HIDE DEF ch
<1>5. children' \in [Pids -> Process] /\ \A q \in Pids : Continues(q)
  BY <1>2, <1>3, <1>4, BecomeContinues
<1>6. Forks' = Forks /\ Owed' = Owed  BY <1>2, <1>5, ContinuesCounts
<1>7. Unseen' = Unseen  BY <1>1, <1>2, <1>3 DEF Unseen
<1>8. Caused'  BY <1>2, <1>6, <1>7 DEF IInv, Caused, Begun
<1>9. TypeOK'  BY <1>2, <1>5 DEF IInv, TypeOK
<1> QED  BY <1>2, <1>5, <1>8, <1>9, ContinuesKeeps DEF IInv

LEMMA ExitedProcess ==
  ASSUME TypeOK, NEW p \in Pids, NEW state \in {"clean", "failed"}
  PROVE  /\ Exited(p, state) \in Process /\ Exited(p, state).cpu = children[p].cpu
         /\ ~Exited(p, state).reaped /\ Exited(p, state).state = state
<1>1. children[p].cpu \in {0} \cup Cpus  BY DEF TypeOK, Process
<1> QED  BY <1>1 DEF Exited, Forked, NoChild, Process, States

LEMMA DrainsKeeps == ASSUME IInv, NEW p \in Pids, Drains(p) PROVE IInv'
<1> DEFINE ch == Exited(p, "clean")
<1>1. children \in [Pids -> Process] /\ children[p].state = "serving"
  BY DEF IInv, TypeOK, Drains
<1>2. /\ children' = [children EXCEPT ![p] = ch] /\ slots' = slots /\ requested' = requested
      /\ stopping' = stopping /\ pc' = pc /\ at' = at /\ crashes' = crashes
  BY DEF Drains, Become
<1>3. /\ ch \in Process /\ ch.cpu = children[p].cpu /\ ~ch.reaped /\ ch.state = "clean"
  BY ExitedProcess DEF IInv
<1>4. Alive(p)  BY <1>1 DEF Alive
<1> HIDE DEF ch
<1>5. children' \in [Pids -> Process] /\ \A q \in Pids : Continues(q)
  BY <1>2, <1>3, <1>4, BecomeContinues
<1>6. Forks' = Forks /\ Owed' = Owed  BY <1>2, <1>5, ContinuesCounts
<1>7. Unseen' = Unseen  BY <1>1, <1>2, <1>3 DEF Unseen
<1>8. Caused'  BY <1>2, <1>6, <1>7 DEF IInv, Caused, Begun
<1>9. TypeOK'  BY <1>2, <1>5 DEF IInv, TypeOK
<1> QED  BY <1>2, <1>5, <1>8, <1>9, ContinuesKeeps DEF IInv

\* A failure adds a process that is still to be reaped, and is counted.
LEMMA FailsKeeps == ASSUME IInv, NEW p \in Pids, Fails(p) PROVE IInv'
<1> DEFINE ch == Exited(p, "failed")
<1>1. children \in [Pids -> Process] /\ Alive(p) /\ crashes \in Nat /\ crashes < MaxCrashes
  BY DEF IInv, TypeOK, Fails
<1>2. /\ children' = [children EXCEPT ![p] = ch] /\ slots' = slots /\ requested' = requested
      /\ stopping' = stopping /\ pc' = pc /\ at' = at /\ crashes' = crashes + 1
  BY DEF Fails, Become
<1>3. /\ ch \in Process /\ ch.cpu = children[p].cpu /\ ~ch.reaped /\ ch.state = "failed"
  BY ExitedProcess DEF IInv
<1> HIDE DEF ch
<1>4. children' \in [Pids -> Process] /\ \A q \in Pids : Continues(q)
  BY <1>1, <1>2, <1>3, BecomeContinues
<1>5. Forks' = Forks /\ Owed' = Owed  BY <1>2, <1>4, ContinuesCounts
<1>6. Unseen' = Unseen \cup {p} /\ p \notin Unseen  BY <1>1, <1>2, <1>3 DEF Unseen, Alive
<1>7. Cardinality(Unseen') = Cardinality(Unseen) + 1  BY <1>6, FiniteCounts, FS_AddElement
<1>8. Begun' = Begun /\ Begun \in Int
  BY <1>2, SupervisorAssumption DEF Begun, IInv, TypeOK
<1>9. Caused'
  BY <1>1, <1>2, <1>5, <1>7, <1>8, FiniteCounts DEF IInv, Caused
<1>10. TypeOK'  BY <1>1, <1>2, <1>4, SupervisorAssumption DEF IInv, TypeOK
<1> QED  BY <1>2, <1>4, <1>9, <1>10, ContinuesKeeps DEF IInv

LEMMA ToldKeeps == ASSUME IInv, NEW p \in Pids, Told(p) PROVE IInv'
<1> DEFINE ch == [children[p] EXCEPT !.term = TRUE]
<1>1. children \in [Pids -> Process] /\ children[p].state = "serving"
  BY DEF IInv, TypeOK, Told
<1>2. /\ children' = [children EXCEPT ![p] = ch] /\ slots' = slots /\ requested' = requested
      /\ stopping' = stopping /\ pc' = pc /\ at' = at /\ crashes' = crashes
  BY DEF Told
<1>3. /\ ch \in Process /\ ch.cpu = children[p].cpu /\ ch.reaped = children[p].reaped
      /\ ch.state = "serving"
  BY <1>1 DEF Process
<1>4. ~children[p].reaped /\ Alive(p)  BY <1>1 DEF IInv, Sound, Alive
<1> HIDE DEF ch
<1>5. children' \in [Pids -> Process] /\ \A q \in Pids : Continues(q)
  BY <1>2, <1>3, <1>4, BecomeContinues
<1>6. Forks' = Forks /\ Owed' = Owed  BY <1>2, <1>5, ContinuesCounts
<1>7. Unseen' = Unseen  BY <1>1, <1>2, <1>3 DEF Unseen
<1>8. Caused'  BY <1>2, <1>6, <1>7 DEF IInv, Caused, Begun
<1>9. TypeOK'  BY <1>2, <1>5 DEF IInv, TypeOK
<1> QED  BY <1>2, <1>5, <1>8, <1>9, ContinuesKeeps DEF IInv

\* kill(SIGTERM) to every worker the slots name.
LEMMA CheckKeeps == ASSUME IInv, Check PROVE IInv'
<1>1. children \in [Pids -> Process] /\ pc = "check"  BY DEF IInv, TypeOK, Check
<1>2. /\ slots' = slots /\ requested' = requested /\ pc' = "wait" /\ at' = at
      /\ crashes' = crashes /\ stopping' \in BOOLEAN
  BY DEF Check, IInv, TypeOK
<1>3. \A ch \in Process : LET s == Sigterm(ch) IN
        s \in Process /\ s.cpu = ch.cpu /\ s.state = ch.state /\ s.reaped = ch.reaped
  BY DEF Sigterm, Process
<1>4. /\ children' \in [Pids -> Process]
      /\ \A p \in Pids : /\ children'[p].cpu = children[p].cpu
                         /\ children'[p].state = children[p].state
                         /\ children'[p].reaped = children[p].reaped
  <2>1. CASE requested /\ ~stopping
    <3>1. children' = [p \in Pids |-> IF \E c \in Cpus : slots[c].pid = p
                                      THEN Sigterm(children[p]) ELSE children[p]]
      BY <2>1 DEF Check
    <3> HIDE DEF Process
    <3> QED  BY <1>1, <1>3, <3>1
  <2>2. CASE ~(requested /\ ~stopping)
    <3>1. children' = children  BY <2>2 DEF Check
    <3> QED  BY <1>1, <3>1
  <2> QED  BY <2>1, <2>2
<1>5. \A q \in Pids : Continues(q)  BY <1>4 DEF Continues
<1>6. Forks' = Forks /\ Owed' = Owed  BY <1>2, <1>5, ContinuesCounts
<1>7. Unseen' = Unseen  BY <1>4 DEF Unseen
<1>8. Caused'  BY <1>1, <1>2, <1>6, <1>7 DEF IInv, Caused, Begun
<1>9. TypeOK'  BY <1>2, <1>4 DEF IInv, TypeOK
<1> QED  BY <1>2, <1>5, <1>8, <1>9, ContinuesKeeps DEF IInv

-----------------------------------------------------------------------------
(* Steps that leave the processes alone.                                     *)

LEMMA SignalKeeps == ASSUME IInv, Signal PROVE IInv'
<1>1. /\ slots' = slots /\ children' = children /\ requested' \in BOOLEAN
      /\ stopping' = stopping /\ pc' = pc /\ at' = at /\ crashes' = crashes
  BY DEF Signal
<1>2. \A p \in Pids : Continues(p)  BY <1>1 DEF Continues
<1>3. Forks' = Forks /\ Owed' = Owed /\ Unseen' = Unseen
  BY <1>1, <1>2, ContinuesCounts DEF Unseen
<1>4. Caused'  BY <1>1, <1>3 DEF IInv, Caused, Begun
<1>5. TypeOK'  BY <1>1 DEF IInv, TypeOK
<1> QED  BY <1>1, <1>2, <1>4, <1>5, ContinuesKeeps DEF IInv

\* The backoff is at most RESTART_MAX_DELAY, so the stable window covers it.
LEMMA DelayBounded ==
  ASSUME NEW f \in Nat \ {0}
  PROVE  restart_delay(f) \in Int /\ restart_delay(f) <= StableWindow
<1>1. Lesser(f - 1, MaxExponent) \in Nat  BY SupervisorAssumption DEF Lesser
<1>2. 2 ^ Lesser(f - 1, MaxExponent) \in Int  BY <1>1
<1> QED  BY <1>2, SupervisorAssumption DEF restart_delay, Lesser

LEMMA AgedSlot ==
  ASSUME NEW x \in Slot
  PROVE  LET y == Aged(x) IN
         /\ y \in Slot /\ y.pid = x.pid /\ y.failures = x.failures
         /\ y.restart_in = Never <=> x.restart_in = Never
         /\ x.failures # 0 /\ x.since + x.restart_in >= restart_delay(x.failures)
              => y.since + y.restart_in >= restart_delay(x.failures)
<1> DEFINE y == Aged(x)
<1>1. /\ y.pid = x.pid /\ y.failures = x.failures
      /\ y.since = (IF x.since + 1 <= StableWindow THEN x.since + 1 ELSE StableWindow)
      /\ y.restart_in = (IF x.restart_in > 0 THEN x.restart_in - 1 ELSE x.restart_in)
  BY DEF Aged, Lesser, Slot
<1>2. /\ x.since \in 0 .. StableWindow /\ x.restart_in \in Int /\ x.failures \in Nat
      /\ StableWindow \in Nat
  BY SupervisorAssumption DEF Slot
<1>3. y \in Slot
  <2>1. y.since \in 0 .. StableWindow /\ y.restart_in \in Int  BY <1>1, <1>2
  <2>2. y = [x EXCEPT !.since = y.since, !.restart_in = y.restart_in]  BY DEF Aged, Slot
  <2> HIDE DEF y
  <2> QED  BY <2>1, <2>2 DEF Slot
<1> HIDE DEF y
<1>4. y.restart_in = Never <=> x.restart_in = Never  BY <1>1, <1>2 DEF Never
<1>5. ASSUME x.failures # 0, x.since + x.restart_in >= restart_delay(x.failures)
      PROVE  y.since + y.restart_in >= restart_delay(x.failures)
  <2>1. restart_delay(x.failures) \in Int /\ restart_delay(x.failures) <= StableWindow
    BY <1>2, <1>5, DelayBounded
  <2> QED  BY <1>1, <1>2, <1>5, <2>1
<1>6. y = Aged(x)  BY DEF y
<1> QED  BY <1>1, <1>3, <1>4, <1>5, <1>6

LEMMA TickKeeps == ASSUME IInv, Tick PROVE IInv'
<1>1. slots \in [Cpus -> Slot]  BY DEF IInv, TypeOK
<1>2. /\ slots' = [c \in Cpus |-> IF c < at \/ pc # "spawn" THEN Aged(slots[c]) ELSE slots[c]]
      /\ children' = children /\ requested' = requested
      /\ stopping' = stopping /\ pc' = pc /\ at' = at /\ crashes' = crashes
  BY DEF Tick
<1>3. \A c \in Cpus : slots'[c] = slots[c] \/ slots'[c] = Aged(slots[c])  BY <1>2
<1>4. ASSUME NEW c \in Cpus
      PROVE  /\ slots'[c] \in Slot /\ slots'[c].pid = slots[c].pid
             /\ slots'[c].failures = slots[c].failures
             /\ slots'[c].restart_in = Never <=> slots[c].restart_in = Never
             /\ slots[c].failures # 0
                /\ slots[c].since + slots[c].restart_in >= restart_delay(slots[c].failures)
                => slots'[c].since + slots'[c].restart_in >= restart_delay(slots[c].failures)
  <2>1. slots[c] \in Slot  BY <1>1
  <2>2. CASE slots'[c] = slots[c]  BY <2>1, <2>2
  <2>3. CASE slots'[c] = Aged(slots[c])
    <3> DEFINE x == slots[c]
    <3> HIDE DEF x
    <3>1. x \in Slot  BY <2>1 DEF x
    <3>2. slots'[c] = Aged(x)  BY <2>3 DEF x
    <3>3. /\ slots'[c] \in Slot /\ slots'[c].pid = x.pid
          /\ slots'[c].failures = x.failures
          /\ slots'[c].restart_in = Never <=> x.restart_in = Never
          /\ x.failures # 0 /\ x.since + x.restart_in >= restart_delay(x.failures)
                => slots'[c].since + slots'[c].restart_in >= restart_delay(x.failures)
      BY <3>1, <3>2, AgedSlot
    <3> QED  BY <3>3 DEF x
  <2> QED  BY <1>3, <2>2, <2>3
<1>5. slots' \in [Cpus -> Slot]
  <2>1. slots' = [c \in Cpus |-> slots'[c]]  BY <1>2
  <2> QED  BY <1>4, <2>1
<1>6. \A p \in Pids : children'[p] = children[p]  BY <1>2
<1>7. \A c \in Cpus : Pending(c)' <=> Pending(c)  BY <1>4 DEF Pending
<1>8. TypeOK'  BY <1>2, <1>5 DEF IInv, TypeOK
<1>9. InOrder' /\ Sound'  BY <1>2 DEF IInv, InOrder, Sound, Known
<1>10. Agree'
  <2>1. \A p \in Pids : Unreaped(p)' <=> Unreaped(p)  BY <1>2 DEF Unreaped, Known
  <2>2. \A p \in Pids : Unreaped(p) => children[p].cpu \in Cpus
    BY DEF IInv, Sound, Unreaped
  <2>3. \A c \in Cpus : slots[c].pid \in {NoPid} \cup Pids  BY <1>1 DEF Slot
  <2>4. \A c \in Cpus, p \in Pids : Last(c, p)' <=> Last(c, p)  BY <1>2 DEF Last
  <2> QED  BY <1>2, <1>4, <2>1, <2>2, <2>3, <2>4 DEF IInv, Agree
<1>11. Scheduled'
  <2> SUFFICES ASSUME NEW c \in Cpus
               PROVE  /\ slots'[c].pid # NoPid => slots'[c].restart_in = Never
                      /\ Pending(c)' =>
                           /\ \E p \in Pids : Last(c, p)' /\ children'[p].state = "failed"
                           /\ slots'[c].failures # 0
                           /\ slots'[c].since + slots'[c].restart_in
                                >= restart_delay(slots'[c].failures)
    BY DEF Scheduled
  <2>1. slots'[c].pid # NoPid => slots'[c].restart_in = Never
    BY <1>4 DEF IInv, Scheduled
  <2>2. ASSUME Pending(c)'
        PROVE  /\ \E p \in Pids : Last(c, p)' /\ children'[p].state = "failed"
               /\ slots[c].failures # 0
               /\ slots[c].since + slots[c].restart_in >= restart_delay(slots[c].failures)
    BY <1>2, <1>7, <2>2 DEF IInv, Scheduled, Last
  <2> QED  BY <1>4, <2>1, <2>2
<1>12. Phase'  BY <1>2, <1>4 DEF IInv, Phase
<1>13. Caused'
  <2>1. Forks' = Forks /\ Owed' = Owed /\ Unseen' = Unseen
    BY <1>2, <1>7 DEF Forks, Owed, Unseen, Known
  <2> QED  BY <1>2, <2>1 DEF IInv, Caused, Begun
<1> QED  BY <1>8, <1>9, <1>10, <1>11, <1>12, <1>13 DEF IInv

\* The steps of the master that only move its program counter.
LEMMA MovesKeep ==
  ASSUME IInv, UNCHANGED <<slots, children, requested, stopping, crashes>>,
         at' \in 1 .. Workers + 1, pc' \in {"check", "restart", "done", "error"},
         pc = "spawn" => at = Workers + 1 \/ pc' = "error",
         pc' = "done" => \A c \in Cpus : slots[c].pid = NoPid
  PROVE  IInv'
<1>1. TypeOK'  BY DEF IInv, TypeOK
<1>2. InOrder' /\ Sound' /\ Agree'
  BY DEF IInv, InOrder, Sound, Agree, Known, Unreaped, Last
<1>3. Scheduled'  BY DEF IInv, Scheduled, Pending, Last
<1>4. Phase'  BY DEF IInv, Phase
<1>5. Caused'
  <2>1. Forks' = Forks /\ Owed' = Owed /\ Unseen' = Unseen
    BY DEF Forks, Owed, Unseen, Known, Pending
  <2>2. Begun \in Int /\ Begun' \in Int /\ Begun <= Begun'
    <3>1. Begun' = Workers /\ Workers \in Nat
      BY SupervisorAssumption, pc' # "spawn" DEF Begun
    <3>2. Begun \in 0 .. Workers  BY <3>1 DEF IInv, TypeOK, Begun
    <3> QED  BY <3>1, <3>2
  <2>3. crashes' = crashes /\ crashes \in Int  BY DEF IInv, TypeOK
  <2> QED  BY <2>1, <2>2, <2>3, FiniteCounts DEF IInv, Caused
<1> QED  BY <1>1, <1>2, <1>3, <1>4, <1>5 DEF IInv

LEMMA SpawnedKeeps == ASSUME IInv, Spawned PROVE IInv'
<1>1. at = Workers + 1  BY SupervisorAssumption DEF IInv, TypeOK, Spawned, Cpus
<1> QED  BY <1>1, MovesKeep DEF Spawned, IInv, TypeOK

LEMMA StopKeeps == ASSUME IInv, Stop PROVE IInv'
BY MovesKeep DEF Stop, AllStopped, IInv, TypeOK

LEMMA RestartedKeeps == ASSUME IInv, Restarted PROVE IInv'
BY MovesKeep DEF Restarted, IInv, TypeOK

-----------------------------------------------------------------------------
(* spawn_worker.                                                             *)

\* A fork gives slot c, which has no process, a pid above all others.
LEMMA ForkKeeps ==
  ASSUME IInv, NEW c \in Cpus, NEW f \in Pids, slots[c].pid = NoPid, c = at,
         ~Known(f), \A q \in Pids : Known(q) <=> q < f,
         slots' = [slots EXCEPT ![c] = Started(@, f)],
         children' = [children EXCEPT ![f] = Forked(c)],
         at' = at + 1, pc' = pc, pc \in {"spawn", "restart"},
         UNCHANGED <<requested, stopping, crashes>>
  PROVE  /\ TypeOK' /\ InOrder' /\ Sound' /\ Agree' /\ Scheduled' /\ Phase'
         /\ Forks' = Forks \cup {f} /\ Owed' = Owed \ {c} /\ Unseen' = Unseen
<1>1. slots \in [Cpus -> Slot] /\ children \in [Pids -> Process] /\ f # NoPid
  BY CpusPids DEF IInv, TypeOK
<1>2. /\ Forked(c) \in Process /\ Forked(c).cpu = c /\ Forked(c).state = "forked"
      /\ ~Forked(c).reaped
  BY DEF Forked, NoChild, Process, States
<1>3. /\ Started(slots[c], f) \in Slot /\ Started(slots[c], f).pid = f
      /\ Started(slots[c], f).restart_in = Never
  <2>1. slots[c] \in Slot /\ 0 \in 0 .. StableWindow  BY <1>1, SupervisorAssumption
  <2>2. Never \in Int /\ f \in {NoPid} \cup Pids  BY DEF Never
  <2>3. ASSUME NEW x \in Slot
        PROVE  /\ Started(x, f) \in Slot /\ Started(x, f).pid = f
               /\ Started(x, f).restart_in = Never
    BY <2>1, <2>2 DEF Started, Slot
  <2> QED  BY <2>1, <2>3
<1>4. slots' \in [Cpus -> Slot] /\ children' \in [Pids -> Process]
  BY <1>1, <1>2, <1>3
<1>5. /\ slots'[c].pid = f /\ slots'[c].restart_in = Never
      /\ \A d \in Cpus \ {c} : slots'[d] = slots[d]
  BY <1>1, <1>3
<1>6. /\ children'[f].cpu = c /\ children'[f].state = "forked" /\ ~children'[f].reaped
      /\ \A q \in Pids \ {f} : children'[q] = children[q]
  BY <1>1, <1>2
<1>7. /\ Known(f)' /\ Unreaped(f)'
      /\ \A q \in Pids \ {f} : (Known(q)' <=> Known(q)) /\ (Unreaped(q)' <=> Unreaped(q))
  BY <1>6 DEF Known, Unreaped
<1>8. \A q \in Pids : children[q].cpu \in Cpus => q < f  BY DEF IInv, Sound
<1>9. Last(c, f)'
  <2>1. \A q \in Pids \ {f} : children'[q].cpu = c => q <= f  BY <1>6, <1>8, CpusPids
  <2>2. f <= f  BY CpusPids
  <2> QED  BY <1>6, <2>1, <2>2 DEF Last
<1>10. \A d \in Cpus \ {c} : \A p \in Pids : Last(d, p) => Last(d, p)' /\ p # f
  <2> SUFFICES ASSUME NEW d \in Cpus \ {c}, NEW p \in Pids, Last(d, p)
               PROVE  Last(d, p)' /\ p # f
    OBVIOUS
  <2>1. children[p].cpu = d  BY DEF Last
  <2>2. p # f  BY <2>1 DEF IInv, Sound
  <2> QED  BY <1>6, <2>1, <2>2 DEF Last
<1>11. TypeOK'
  <2>1. at' \in 1 .. Workers + 1  BY SupervisorAssumption DEF Cpus
  <2> QED  BY <1>4, <2>1 DEF IInv, TypeOK
<1>12. InOrder'
  <2> SUFFICES ASSUME NEW p \in Pids, NEW q \in Pids, p < q, Known(q)'  PROVE Known(p)'
    BY DEF InOrder
  <2>1. CASE q = f
    <3>1. Known(p) /\ p # f  BY <2>1
    <3> QED  BY <1>7, <3>1
  <2>2. CASE q # f
    <3>1. Known(q) /\ Known(p)  BY <1>7, <2>2 DEF IInv, InOrder
    <3> QED  BY <1>7, <3>1
  <2> QED  BY <2>1, <2>2
<1>13. Sound'
  <2> SUFFICES ASSUME NEW p \in Pids
               PROVE  /\ children'[p].reaped => children'[p].state \in {"clean", "failed"}
                      /\ children'[p].cpu \in Cpus <=> Known(p)'
    BY DEF Sound
  <2>1. CASE p = f  BY <1>6, <1>7, <2>1
  <2>2. CASE p # f  BY <1>6, <1>7, <2>2 DEF IInv, Sound
  <2> QED  BY <2>1, <2>2
<1>14. Agree'
  <2>1. ASSUME NEW p \in Pids, Unreaped(p)'  PROVE slots'[children'[p].cpu].pid = p
    <3>1. CASE p = f  BY <1>5, <1>6, <3>1
    <3>2. CASE p # f
      <4>1. Unreaped(p) /\ children'[p].cpu = children[p].cpu  BY <1>6, <1>7, <2>1, <3>2
      <4>2. slots[children[p].cpu].pid = p /\ children[p].cpu \in Cpus
        BY <4>1 DEF IInv, Agree, Sound, Unreaped
      <4>3. children[p].cpu # c  BY <4>2, CpusPids
      <4> QED  BY <1>5, <4>1, <4>2, <4>3
    <3> QED  BY <3>1, <3>2
  <2>2. ASSUME NEW d \in Cpus, slots'[d].pid # NoPid
        PROVE  Unreaped(slots[d].pid)' /\ Last(d, slots[d].pid)'
    <3>1. CASE d = c  BY <1>5, <1>7, <1>9, <3>1
    <3>2. CASE d # c
      <4>1. slots'[d] = slots[d] /\ slots[d].pid \in Pids
        BY <1>1, <1>5, <2>2, <3>2 DEF Slot
      <4>2. PICK p \in Pids : p = slots[d].pid  BY <4>1
      <4>3. Unreaped(p) /\ Last(d, p)  BY <2>2, <4>1, <4>2 DEF IInv, Agree
      <4>4. p # f /\ Last(d, p)'  BY <1>10, <3>2, <4>3
      <4>5. Unreaped(p)'  BY <1>7, <4>3, <4>4
      <4> QED  BY <4>1, <4>2, <4>4, <4>5
    <3> QED  BY <3>1, <3>2
  <2> QED  BY <2>1, <2>2 DEF Agree
<1>15. ~Pending(c)' /\ \A d \in Cpus \ {c} : Pending(d)' <=> Pending(d)
  BY <1>1, <1>5 DEF Pending
<1>16. Scheduled'
  <2> SUFFICES ASSUME NEW d \in Cpus
               PROVE  /\ slots'[d].pid # NoPid => slots'[d].restart_in = Never
                      /\ Pending(d)' =>
                           /\ \E p \in Pids : Last(d, p)' /\ children'[p].state = "failed"
                           /\ slots'[d].failures # 0
                           /\ slots'[d].since + slots'[d].restart_in
                                >= restart_delay(slots'[d].failures)
    BY DEF Scheduled
  <2>1. CASE d = c  BY <1>5, <1>15, <2>1
  <2>2. CASE d # c
    <3>1. slots'[d] = slots[d] /\ (Pending(d)' <=> Pending(d))  BY <1>5, <1>15, <2>2
    <3>2. \A p \in Pids : Last(d, p) => Last(d, p)' /\ children'[p] = children[p]
      BY <1>6, <1>10, <2>2
    <3> QED  BY <3>1, <3>2 DEF IInv, Scheduled
  <2> QED  BY <2>1, <2>2
<1>17. Phase'
  <2>1. \A d \in Cpus : d >= at + 1 => d # c /\ d >= at  BY SupervisorAssumption DEF Cpus
  <2> QED  BY <1>5, <2>1 DEF IInv, Phase
<1>18. Forks' = Forks \cup {f}  BY <1>7 DEF Forks
<1>19. Owed' = Owed \ {c}  BY <1>15 DEF Owed
<1>20. Unseen' = Unseen
  <2>1. f \notin Unseen /\ f \notin Unseen'  BY <1>6 DEF Unseen, Known
  <2> QED  BY <1>6, <2>1 DEF Unseen
<1> QED  BY <1>11, <1>12, <1>13, <1>14, <1>16, <1>17, <1>18, <1>19, <1>20


LEMMA ForkFailsKeeps ==
  ASSUME IInv, pc' = "error", UNCHANGED <<slots, children, at, requested, stopping, crashes>>
  PROVE  IInv'
BY MovesKeep DEF IInv, TypeOK

LEMMA SpawnKeeps == ASSUME IInv, Spawn PROVE IInv'
<1>1. /\ pc = "spawn" /\ at \in Cpus /\ requested' = requested /\ stopping' = stopping
      /\ crashes' = crashes /\ SpawnWorker(at)
  BY DEF Spawn
<1>2. CASE "fork" \in Faults /\ pc' = "error" /\ UNCHANGED <<slots, children, at>>
  BY <1>1, <1>2, ForkFailsKeeps
<1>3. CASE /\ slots' = [slots EXCEPT ![at] = Started(@, Fresh)]
           /\ children' = [children EXCEPT ![Fresh] = Forked(at)]
           /\ at' = at + 1 /\ UNCHANGED pc
  <2>1. slots[at].pid = NoPid /\ at \notin Owed
    <3>1. at >= at  BY <1>1, CpusPids
    <3> QED  BY <1>1, <3>1 DEF IInv, Phase, Owed, Pending
  <2>2. Begun = at - 1 /\ at \in 1 .. Workers /\ crashes \in 0 .. MaxCrashes
    BY <1>1 DEF Begun, Cpus, IInv, TypeOK
  <2>3. Cardinality(Forks) + Cardinality(Owed) + Cardinality(Unseen) <= at - 1 + crashes
    BY <2>2 DEF IInv, Caused
  <2>4. Cardinality(Forks) < Workers + MaxCrashes
    BY <2>2, <2>3, FiniteCounts, SupervisorAssumption
  <2>5. PICK f \in Pids : f = Fresh /\ ~Known(f) /\ \A q \in Pids : Known(q) <=> q < f
    BY <2>4, FreshPid DEF IInv
  <2>6. /\ TypeOK' /\ InOrder' /\ Sound' /\ Agree' /\ Scheduled' /\ Phase'
        /\ Forks' = Forks \cup {f} /\ Owed' = Owed \ {at} /\ Unseen' = Unseen
    BY <1>1, <1>3, <2>1, <2>5, ForkKeeps
  <2>7. Cardinality(Forks') = Cardinality(Forks) + 1
    BY <2>5, <2>6, FiniteCounts, FS_AddElement DEF Forks
  <2>8. Owed' = Owed  BY <2>1, <2>6
  <2>9. Begun' = at  BY <1>1, <1>3, <2>2 DEF Begun
  <2>10. Caused'  BY <1>1, <2>2, <2>3, <2>6, <2>7, <2>8, <2>9, FiniteCounts DEF Caused
  <2> QED  BY <2>6, <2>10 DEF IInv
<1> QED  BY <1>1, <1>2, <1>3 DEF SpawnWorker

LEMMA RestartKeeps == ASSUME IInv, Restart PROVE IInv'
<1>1. /\ pc = "restart" /\ at \in Cpus /\ requested' = requested /\ stopping' = stopping
      /\ crashes' = crashes
  BY DEF Restart
<1>2. CASE ~Due(slots[at])
  <2>1. at' = at + 1 /\ UNCHANGED <<slots, children, pc>>  BY <1>2 DEF Restart
  <2>2. at' \in 1 .. Workers + 1  BY <1>1, <2>1, SupervisorAssumption DEF Cpus
  <2> QED  BY <1>1, <2>1, <2>2, MovesKeep
<1>3. CASE Due(slots[at])
  <2>1. SpawnWorker(at) /\ slots[at].pid = NoPid /\ at \in Owed
    BY <1>1, <1>3 DEF Restart, Due, Owed, Pending, Never
  <2>2. CASE "fork" \in Faults /\ pc' = "error" /\ UNCHANGED <<slots, children, at>>
    BY <1>1, <2>2, ForkFailsKeeps
  <2>3. CASE /\ slots' = [slots EXCEPT ![at] = Started(@, Fresh)]
             /\ children' = [children EXCEPT ![Fresh] = Forked(at)]
             /\ at' = at + 1 /\ UNCHANGED pc
    <3>1. Begun = Workers /\ Begun' = Workers /\ crashes \in 0 .. MaxCrashes
      BY <1>1, <2>3 DEF Begun, IInv, TypeOK
    <3>2. Cardinality(Forks) + Cardinality(Owed) + Cardinality(Unseen) <= Workers + crashes
      BY <3>1 DEF IInv, Caused
    <3>3. Cardinality(Owed \ {at}) = Cardinality(Owed) - 1
      BY <2>1, FiniteCounts, FS_RemoveElement
    <3>4. Cardinality(Owed \ {at}) \in Nat
      BY FiniteCounts, FS_RemoveElement, FS_CardinalityType
    <3>5. Cardinality(Forks) < Workers + MaxCrashes
      BY <3>1, <3>2, <3>3, <3>4, FiniteCounts, SupervisorAssumption
    <3>6. PICK f \in Pids : f = Fresh /\ ~Known(f) /\ \A q \in Pids : Known(q) <=> q < f
      BY <3>5, FreshPid DEF IInv
    <3>7. /\ TypeOK' /\ InOrder' /\ Sound' /\ Agree' /\ Scheduled' /\ Phase'
          /\ Forks' = Forks \cup {f} /\ Owed' = Owed \ {at} /\ Unseen' = Unseen
      BY <1>1, <2>1, <2>3, <3>6, ForkKeeps
    <3>8. Cardinality(Forks') = Cardinality(Forks) + 1
      BY <3>6, <3>7, FiniteCounts, FS_AddElement DEF Forks
    <3>9. Caused'
      BY <1>1, <3>1, <3>2, <3>3, <3>7, <3>8, FiniteCounts, SupervisorAssumption DEF Caused
    <3> QED  BY <3>7, <3>9 DEF IInv
  <2> QED  BY <2>1, <2>2, <2>3 DEF SpawnWorker
<1> QED  BY <1>2, <1>3

-----------------------------------------------------------------------------
(* waitpid.                                                                  *)

\* The slot of a process that was not reaped is the one of its cpu_id.
LEMMA SlotOfChild ==
  ASSUME IInv, NEW p \in Pids, Unreaped(p)
  PROVE  /\ children[p].cpu \in Cpus /\ slots[children[p].cpu].pid = p
         /\ SlotOf(p) = children[p].cpu /\ Last(children[p].cpu, p)
<1>1. children[p].cpu \in Cpus /\ slots[children[p].cpu].pid = p
  BY DEF IInv, Sound, Agree, Unreaped
<1>2. \A d \in Cpus : slots[d].pid = p => Last(d, p)  BY CpusPids DEF IInv, Agree
<1>3. \A d \in Cpus : slots[d].pid = p => d = children[p].cpu  BY <1>2 DEF Last
<1>4. SlotOf(p) = children[p].cpu  BY <1>1, <1>3 DEF SlotOf
<1> QED  BY <1>1, <1>2, <1>4

\* What the loss of its worker does to a slot.
LEMMA ReapedSlot ==
  ASSUME NEW x \in Slot, NEW status, x.restart_in = Never
  PROVE  LET y == Reaped(x, status) IN
         /\ y \in Slot /\ y.pid = NoPid
         /\ y.restart_in # Never =>
              /\ status = "failed" /\ y.failures # 0
              /\ y.since + y.restart_in >= restart_delay(y.failures)
<1> DEFINE z == [x EXCEPT !.pid = NoPid]
           y == Reaped(x, status)
<1>1. z \in Slot /\ z.pid = NoPid /\ z.restart_in = Never  BY DEF Slot
<1>2. CASE ~stopping /\ status = "failed"
  <2>1. y = Backoff(z)  BY <1>2 DEF Reaped
  <2> HIDE DEF z, y
  <2> DEFINE f == Failures(z)
  <2>2. f \in Nat \ {0}  BY <1>1, SupervisorAssumption DEF Failures, Lesser, Slot
  <2>3. restart_delay(f) \in Int  BY <2>2, DelayBounded
  <2>4. y = [z EXCEPT !.failures = f, !.restart_in = restart_delay(f)]
    BY <2>1 DEF Backoff
  <2> HIDE DEF f
  <2>5. /\ y \in Slot /\ y.pid = NoPid /\ y.failures = f /\ y.since = z.since
        /\ y.restart_in = restart_delay(f) /\ z.since \in 0 .. StableWindow
    BY <1>1, <2>2, <2>3, <2>4 DEF Slot
  <2>6. y.since + y.restart_in >= restart_delay(y.failures)
    BY <2>3, <2>5, SupervisorAssumption
  <2> QED  BY <1>2, <2>2, <2>5, <2>6 DEF y
<1>3. CASE ~(~stopping /\ status = "failed")
  <2>1. y = z  BY <1>3 DEF Reaped
  <2> QED  BY <1>1, <2>1
<1> QED  BY <1>2, <1>3

LEMMA ReapKeeps ==
  ASSUME IInv, NEW p \in Zombies, pc = "wait", pc' = "restart", at' = 1,
         slots' = [slots EXCEPT ![SlotOf(p)] = Reaped(@, children[p].state)],
         children' = [children EXCEPT ![p].reaped = TRUE],
         UNCHANGED <<requested, stopping, crashes>>
  PROVE  IInv'
<1>1. slots \in [Cpus -> Slot] /\ children \in [Pids -> Process] /\ p \in Pids
  BY DEF IInv, TypeOK, Zombies
<1>2. Unreaped(p) /\ children[p].state \in {"clean", "failed"}
  BY DEF Zombies, Unreaped, Known
<1>3. PICK c \in Cpus : /\ c = children[p].cpu /\ slots[c].pid = p /\ c = SlotOf(p)
                        /\ Last(c, p)
  BY <1>1, <1>2, SlotOfChild
<1>4. slots[c].restart_in = Never  BY <1>1, <1>3, CpusPids DEF IInv, Scheduled
<1>5. PICK y : y = Reaped(slots[c], children[p].state)  OBVIOUS
<1>6. /\ y \in Slot /\ y.pid = NoPid
      /\ y.restart_in # Never =>
           /\ children[p].state = "failed" /\ y.failures # 0
           /\ y.since + y.restart_in >= restart_delay(y.failures)
  BY <1>1, <1>4, <1>5, ReapedSlot
<1>7. slots' = [slots EXCEPT ![c] = y]  BY <1>3, <1>5
<1>8. /\ slots' \in [Cpus -> Slot] /\ slots'[c] = y
      /\ \A d \in Cpus \ {c} : slots'[d] = slots[d]
  BY <1>1, <1>6, <1>7
<1>9. /\ children' \in [Pids -> Process]
      /\ children'[p].reaped /\ children'[p].state = children[p].state
      /\ \A q \in Pids : children'[q].cpu = children[q].cpu
      /\ \A q \in Pids \ {p} : children'[q] = children[q]
  BY <1>1 DEF Process
<1>10. /\ ~Unreaped(p)' /\ \A q \in Pids : Known(q)' <=> Known(q)
       /\ \A q \in Pids \ {p} : Unreaped(q)' <=> Unreaped(q)
  BY <1>2, <1>9 DEF Unreaped, Known
<1>11. \A d \in Cpus, q \in Pids : Last(d, q)' <=> Last(d, q)  BY <1>9 DEF Last
<1>12. TypeOK'
  BY <1>8, <1>9, SupervisorAssumption DEF IInv, TypeOK
<1>13. InOrder'  BY <1>10 DEF IInv, InOrder
<1>14. Sound'
  <2> SUFFICES ASSUME NEW q \in Pids
               PROVE  /\ children'[q].reaped => children'[q].state \in {"clean", "failed"}
                      /\ children'[q].cpu \in Cpus <=> Known(q)'
    BY DEF Sound
  <2>1. CASE q = p  BY <1>2, <1>9, <1>10, <2>1 DEF IInv, Sound
  <2>2. CASE q # p  BY <1>9, <1>10, <2>2 DEF IInv, Sound
  <2> QED  BY <2>1, <2>2
<1>15. Agree'
  <2>1. ASSUME NEW q \in Pids, Unreaped(q)'  PROVE slots'[children'[q].cpu].pid = q
    <3>1. q # p /\ Unreaped(q)  BY <1>10, <2>1
    <3>2. children[q].cpu \in Cpus /\ slots[children[q].cpu].pid = q  BY <3>1, SlotOfChild
    <3>3. children[q].cpu # c  BY <1>3, <3>1, <3>2
    <3> QED  BY <1>8, <1>9, <3>2, <3>3
  <2>2. ASSUME NEW d \in Cpus, slots'[d].pid # NoPid
        PROVE  Unreaped(slots[d].pid)' /\ Last(d, slots[d].pid)'
    <3>1. d # c  BY <1>6, <1>8, <2>2
    <3>2. slots'[d] = slots[d] /\ slots[d].pid \in Pids  BY <1>1, <1>8, <2>2, <3>1 DEF Slot
    <3>3. PICK q \in Pids : q = slots[d].pid  BY <3>2
    <3>4. Unreaped(q) /\ Last(d, q)  BY <2>2, <3>2, <3>3 DEF IInv, Agree
    <3>5. q # p  BY <1>3, <3>1, <3>4 DEF Last
    <3>6. Unreaped(q)' /\ Last(d, q)'  BY <1>10, <1>11, <3>4, <3>5
    <3> QED  BY <3>2, <3>3, <3>6
  <2> QED  BY <2>1, <2>2 DEF Agree
<1>16. /\ \A d \in Cpus \ {c} : Pending(d)' <=> Pending(d)
       /\ ~Pending(c) /\ (Pending(c)' <=> y.restart_in # Never)
  BY <1>1, <1>3, <1>6, <1>8, CpusPids DEF Pending
<1>17. Scheduled'
  <2> SUFFICES ASSUME NEW d \in Cpus
               PROVE  /\ slots'[d].pid # NoPid => slots'[d].restart_in = Never
                      /\ Pending(d)' =>
                           /\ \E q \in Pids : Last(d, q)' /\ children'[q].state = "failed"
                           /\ slots'[d].failures # 0
                           /\ slots'[d].since + slots'[d].restart_in
                                >= restart_delay(slots'[d].failures)
    BY DEF Scheduled
  <2>1. CASE d = c  BY <1>1, <1>3, <1>6, <1>8, <1>9, <1>11, <1>16, <2>1
  <2>2. CASE d # c
    <3>1. slots'[d] = slots[d] /\ (Pending(d)' <=> Pending(d))  BY <1>8, <1>16, <2>2
    <3>2. \A q \in Pids : children'[q].state = children[q].state  BY <1>9
    <3> QED  BY <1>11, <3>1, <3>2 DEF IInv, Scheduled
  <2> QED  BY <2>1, <2>2
<1>18. Phase'  BY DEF Phase
<1>19. Caused'
  <2>1. Forks' = Forks  BY <1>10 DEF Forks
  <2>2. Begun = Workers /\ Begun' = Workers /\ crashes' = crashes /\ crashes \in Nat
    BY DEF Begun, IInv, TypeOK
  <2>3. Cardinality(Forks) + Cardinality(Owed) + Cardinality(Unseen) <= Workers + crashes
    BY <2>2 DEF IInv, Caused
  <2>4. CASE children[p].state = "clean"
    <3>1. Unseen' = Unseen  BY <1>9, <2>4 DEF Unseen
    <3>2. Owed' = Owed  BY <1>6, <1>16, <2>4 DEF Owed
    <3> QED  BY <2>1, <2>2, <2>3, <3>1, <3>2 DEF Caused
  <2>5. CASE children[p].state = "failed"
    <3>1. p \in Unseen /\ Unseen' = Unseen \ {p}
      BY <1>1, <1>2, <1>9, <2>5 DEF Unseen, Unreaped
    <3>2. Cardinality(Unseen') = Cardinality(Unseen) - 1
      BY <3>1, FiniteCounts, FS_RemoveElement
    <3>3. c \notin Owed /\ (Owed' = Owed \/ Owed' = Owed \cup {c})  BY <1>16 DEF Owed
    <3>4. PICK n \in Nat : n = Cardinality(Owed)  BY FiniteCounts
    <3>5. Cardinality(Owed') \in {n, n + 1}
      <4>1. Cardinality(Owed \cup {c}) = n + 1
        BY <3>3, <3>4, FiniteCounts, FS_AddElement
      <4> QED  BY <3>3, <3>4, <4>1
    <3> QED
      BY <2>1, <2>2, <2>3, <3>2, <3>4, <3>5, FiniteCounts, SupervisorAssumption DEF Caused
  <2> QED  BY <1>2, <2>4, <2>5
<1> QED  BY <1>12, <1>13, <1>14, <1>15, <1>17, <1>18, <1>19 DEF IInv

LEMMA WaitKeeps == ASSUME IInv, Wait PROVE IInv'
<1>1. pc = "wait" /\ pc' = "restart" /\ at' = 1 /\ UNCHANGED <<requested, stopping, crashes>>
  BY DEF Wait
<1>2. CASE Zombies = {} /\ UNCHANGED <<slots, children>>
  BY <1>1, <1>2, MovesKeep, SupervisorAssumption
<1>3. CASE \E p \in Zombies :
             /\ slots' = [slots EXCEPT ![SlotOf(p)] = Reaped(@, children[p].state)]
             /\ children' = [children EXCEPT ![p].reaped = TRUE]
  BY <1>1, <1>3, ReapKeeps
<1> QED  BY <1>2, <1>3 DEF Wait

-----------------------------------------------------------------------------
(* The theorems.                                                             *)

LEMMA InitSound == Init => IInv
<1> SUFFICES ASSUME Init PROVE IInv  OBVIOUS
<1>1. NoSlot \in Slot /\ NoSlot.pid = NoPid /\ NoSlot.restart_in = Never
  BY SupervisorAssumption DEF NoSlot, Slot, Never
<1>2. NoChild \in Process /\ NoChild.state = "none" /\ NoChild.cpu = 0 /\ ~NoChild.reaped
  BY DEF NoChild, Process, States
<1>3. \A c \in Cpus : slots[c] = NoSlot  BY DEF Init
<1>4. \A p \in Pids : children[p] = NoChild  BY DEF Init
<1>5. TypeOK
  <2>1. slots \in [Cpus -> Slot] /\ children \in [Pids -> Process]
    BY <1>1, <1>2 DEF Init
  <2>2. 1 \in 1 .. Workers + 1 /\ 0 \in 0 .. MaxCrashes  BY SupervisorAssumption
  <2> QED  BY <2>1, <2>2 DEF Init, TypeOK
<1>6. InOrder /\ Sound
  BY <1>2, <1>4, CpusPids DEF InOrder, Sound, Known
<1>7. Agree  BY <1>1, <1>2, <1>3, <1>4 DEF Agree, Unreaped, Known
<1>8. Scheduled  BY <1>1, <1>3 DEF Scheduled, Pending
<1>9. Phase  BY <1>1, <1>3 DEF Phase, Init
<1>10. Caused
  <2>1. Forks = {} /\ Owed = {} /\ Unseen = {}
    BY <1>1, <1>2, <1>3, <1>4 DEF Forks, Owed, Unseen, Known, Pending
  <2>2. Cardinality({}) = 0  BY FS_EmptySet
  <2> QED  BY <2>1, <2>2 DEF Caused, Begun, Init
<1> QED  BY <1>5, <1>6, <1>7, <1>8, <1>9, <1>10 DEF IInv

LEMMA NextSound == IInv /\ [Next]_vars => IInv'
<1> SUFFICES ASSUME IInv, [Next]_vars PROVE IInv'  OBVIOUS
<1>1. CASE Master
  BY <1>1, SpawnKeeps, SpawnedKeeps, CheckKeeps, WaitKeeps, StopKeeps, RestartKeeps,
     RestartedKeeps DEF Master
<1>2. CASE Signal  BY <1>2, SignalKeeps
<1>3. CASE Tick  BY <1>3, TickKeeps
<1>4. CASE \E p \in Pids : Child(p) \/ Fails(p) \/ Told(p)
  BY <1>4, InstallSignalsKeeps, DrainsKeeps, FailsKeeps, ToldKeeps DEF Child
<1>5. CASE UNCHANGED vars
  <2>1. /\ slots' = slots /\ children' = children /\ requested' = requested
        /\ stopping' = stopping /\ pc' = pc /\ at' = at /\ crashes' = crashes
    BY <1>5 DEF vars
  <2>2. \A p \in Pids : Continues(p)  BY <2>1 DEF Continues
  <2>3. Forks' = Forks /\ Owed' = Owed /\ Unseen' = Unseen
    BY <2>1, <2>2, ContinuesCounts DEF Unseen
  <2>4. Caused'  BY <2>1, <2>3 DEF IInv, Caused, Begun
  <2>5. TypeOK'  BY <2>1 DEF IInv, TypeOK
  <2> QED  BY <2>1, <2>2, <2>4, <2>5, ContinuesKeeps DEF IInv
<1> QED  BY <1>1, <1>2, <1>3, <1>4, <1>5 DEF Next

\* Whatever fails, whoever is told to stop and whenever the signals arrive, the slots of
\* supervise_workers and the processes fork returned agree.
THEOREM SupervisorSound == Spec => []IInv
BY InitSound, NextSound, PTL DEF Spec

\* The master names every process it has not reaped in the slot of its cpu_id, for any
\* number of workers and any sequence of failures and signals.
THEOREM ChildrenTracked == Spec => []EveryChildIsTracked
<1>1. IInv => EveryChildIsTracked
  BY DEF IInv, Agree, Unreaped, Known, EveryChildIsTracked
<1> QED  BY <1>1, SupervisorSound, PTL

\* supervise_workers returns Ok only when no worker process is left.
THEOREM ExitLeavesNoWorker == Spec => []CleanExitLeavesNoWorker
<1>1. IInv => CleanExitLeavesNoWorker
  <2> SUFFICES ASSUME IInv, pc = "done", NEW p \in Pids, Alive(p)  PROVE FALSE
    BY DEF CleanExitLeavesNoWorker
  <2>1. Unreaped(p)  BY DEF IInv, Sound, Alive, Unreaped, Known
  <2>2. children[p].cpu \in Cpus /\ slots[children[p].cpu].pid = p  BY <2>1, SlotOfChild
  <2>3. slots[children[p].cpu].pid = NoPid  BY <2>2 DEF IInv, Phase
  <2> QED  BY <2>2, <2>3, CpusPids
<1> QED  BY <1>1, SupervisorSound, PTL

\* A slot without a process gets one only in the restart loop, when its restart is due.
LEMMA ReforkIsDue ==
  ASSUME IInv, [Next]_vars, NEW c \in Cpus, Refork(c)
  PROVE  ~stopping /\ Due(slots[c])
<1>1. pc = "restart" /\ slots[c].pid = NoPid /\ slots'[c].pid # NoPid  BY DEF Refork
<1>2. slots \in [Cpus -> Slot]  BY DEF IInv, TypeOK
<1>3. slots' # slots  BY <1>1
<1>4. ~Tick
  <2> SUFFICES ASSUME Tick PROVE FALSE  OBVIOUS
  <2>1. slots'[c] = slots[c] \/ slots'[c] = Aged(slots[c])  BY DEF Tick
  <2>2. Aged(slots[c]).pid = slots[c].pid  BY <1>2 DEF Aged, Slot
  <2> QED  BY <1>1, <2>1, <2>2
<1>5. Restart
  <2>1. ~UNCHANGED vars /\ ~Signal /\ ~Stop /\ ~Restarted /\ ~Spawned /\ ~Check
    BY <1>3 DEF vars, Signal, Stop, Restarted, Spawned, Check
  <2>2. \A p \in Pids : ~Child(p) /\ ~Fails(p) /\ ~Told(p)
    BY <1>3 DEF Child, InstallSignals, Drains, Fails, Told, Become
  <2>3. ~Spawn /\ ~Wait  BY <1>1 DEF Spawn, Wait
  <2> QED  BY <1>4, <2>1, <2>2, <2>3 DEF Next, Master
<1>6. Due(slots[at])  BY <1>3, <1>5 DEF Restart
<1>7. slots' = [slots EXCEPT ![at] = Started(@, Fresh)]
  BY <1>3, <1>5, <1>6 DEF Restart, SpawnWorker
<1>8. at = c  BY <1>1, <1>2, <1>7
<1> QED  BY <1>5, <1>6, <1>8 DEF Restart

\* A worker is forked again only after its last process failed, and never while stopping:
\* the restart that is due was scheduled by the failure of that very process.
THEOREM RestartsFollow == Spec => RestartsFollowFailures
<1> DEFINE A == \A c \in Cpus : Refork(c) => children[Latest(c)].state = "failed" /\ ~stopping
<1>1. IInv /\ [Next]_vars => A
  <2> SUFFICES ASSUME IInv, [Next]_vars, NEW c \in Cpus, Refork(c)
               PROVE  children[Latest(c)].state = "failed" /\ ~stopping
    OBVIOUS
  <2>1. ~stopping /\ Due(slots[c])  BY ReforkIsDue
  <2>2. Pending(c)  BY <2>1 DEF Due, Pending, Never
  <2>3. PICK p \in Pids : Last(c, p) /\ children[p].state = "failed"
    BY <2>2 DEF IInv, Scheduled
  <2>4. PICK l \in Pids : l = Latest(c) /\ Last(c, l)  BY <2>3 DEF Latest, Last
  <2>5. l <= p /\ p <= l /\ l \in Nat /\ p \in Nat  BY <2>3, <2>4, CpusPids DEF Last
  <2>6. Latest(c) = p  BY <2>4, <2>5
  <2> QED  BY <2>1, <2>3, <2>6
<1>2. IInv /\ [Next]_vars => [A]_vars  BY <1>1
<1>3. Spec => [][A]_vars  BY <1>2, SupervisorSound, PTL DEF Spec
<1> QED  BY <1>3 DEF RestartsFollowFailures

\* Two forks of one slot are at least the backoff of its failures apart, for any
\* RESTART_MAX_DELAY within RESTART_STABLE_WINDOW.
THEOREM RestartsSpaced == Spec => RestartsAreSpaced
<1> DEFINE A == \A c \in Cpus : Refork(c) => slots[c].since >= restart_delay(slots[c].failures)
<1>1. IInv /\ [Next]_vars => A
  <2> SUFFICES ASSUME IInv, [Next]_vars, NEW c \in Cpus, Refork(c)
               PROVE  slots[c].since >= restart_delay(slots[c].failures)
    OBVIOUS
  <2>1. Due(slots[c])  BY ReforkIsDue
  <2>2. Pending(c) /\ slots[c].restart_in = 0  BY <2>1 DEF Due, Pending, Never
  <2>3. slots[c].since + slots[c].restart_in >= restart_delay(slots[c].failures)
    BY <2>2 DEF IInv, Scheduled
  <2>4. slots[c].since \in Nat  BY SupervisorAssumption DEF IInv, TypeOK, Slot
  <2>5. slots[c].since + 0 = slots[c].since  BY <2>4
  <2> QED  BY <2>2, <2>3, <2>5
<1>2. IInv /\ [Next]_vars => [A]_vars  BY <1>1
<1>3. Spec => [][A]_vars  BY <1>2, SupervisorSound, PTL DEF Spec
<1> QED  BY <1>3 DEF RestartsAreSpaced

=============================================================================
