----------------------------- MODULE Supervisor -----------------------------
(***************************************************************************)
(* The master process (run/master/src/main.rs): it forks one worker per    *)
(* slot, then loops: pass a shutdown on to the workers, reap one child,    *)
(* restart the failed ones whose backoff is over.  Children are forked     *)
(* processes that run start_worker (run/slave/src/startup.rs).             *)
(*                                                                         *)
(* Time is counted in ticks of RESTART_BASE_DELAY.  An Instant in the      *)
(* future is kept as the ticks left to it, one in the past as the ticks    *)
(* since it, up to the stable window.                                      *)
(***************************************************************************)
EXTENDS Integers

CONSTANTS
  Workers,        \* worker_count
  MaxDelay,       \* RESTART_MAX_DELAY
  StableWindow,   \* RESTART_STABLE_WINDOW
  MaxExponent,    \* 16 in restart_delay
  MaxFailures,    \* u32::MAX, where failures saturates
  MaxCrashes,     \* bound: failures of children
  Faults          \* {} or {"fork"}: fork() may fail

ASSUME SupervisorAssumption ==
  /\ Workers \in Nat \ {0} /\ MaxExponent \in Nat /\ MaxCrashes \in Nat
  /\ MaxDelay \in Nat \ {0} /\ MaxFailures \in Nat \ {0}
  /\ StableWindow \in Nat /\ MaxDelay <= StableWindow
  /\ Faults \subseteq {"fork"}

VARIABLES
  slots,      \* Vec<WorkerSlot>
  children,   \* the processes forked so far, by pid
  requested,  \* shutdown_requested
  stopping,
  pc,         \* "spawn", "check", "wait", "restart", "done", "error"
  at,         \* the slot the loop of "spawn" or "restart" has reached
  crashes     \* failures so far, up to MaxCrashes

vars == <<slots, children, requested, stopping, pc, at, crashes>>

Cpus == 1 .. Workers
Pids == 1 .. Workers + MaxCrashes
NoPid == 0
Never == -1

-----------------------------------------------------------------------------
(* Processes.  The flag handlers of main are registered before the fork, so  *)
(* a child inherits them: until install_shutdown_signals has run in it, a    *)
(* SIGTERM only sets its private copy of shutdown_requested, which nothing   *)
(* in the child reads.                                                       *)

NoChild == [cpu |-> 0, state |-> "none", term |-> FALSE, deaf |-> FALSE, reaped |-> FALSE]
Forked(c) == [NoChild EXCEPT !.cpu = c, !.state = "forked"]

Alive(p) == children[p].state \in {"forked", "serving"}
Zombies == {p \in Pids : children[p].state \in {"clean", "failed"} /\ ~children[p].reaped}
Fresh == CHOOSE p \in Pids : /\ children[p].state = "none"
                             /\ \A q \in Pids : children[q].state = "none" => p <= q

\* kill(pid, SIGTERM).  "deaf" records that the signal went to the inherited
\* handler.
Sigterm(ch) ==
  CASE ch.state = "forked" -> [ch EXCEPT !.deaf = TRUE]
    [] ch.state = "serving" -> [ch EXCEPT !.term = TRUE]
    [] OTHER -> ch

-----------------------------------------------------------------------------
(* WorkerSlot.                                                               *)

NoSlot == [pid |-> NoPid, failures |-> 0, since |-> 0, restart_in |-> Never]

Lesser(a, b) == IF a <= b THEN a ELSE b

restart_delay(failures) == Lesser(2 ^ Lesser(failures - 1, MaxExponent), MaxDelay)

\* Mutant: the restart that was done stays scheduled.
Started_still_due(x, p) == [x EXCEPT !.pid = p, !.since = 0]

\* worker.pid, started_at and restart_at after a fork.
Started(x, p) == [x EXCEPT !.pid = p, !.since = 0, !.restart_in = Never]

Failures(x) == Lesser((IF x.since >= StableWindow THEN 0 ELSE x.failures) + 1, MaxFailures)

\* Mutant: the restart is due at once.
Backoff_none(x) == [x EXCEPT !.failures = Failures(x), !.restart_in = 0]

\* A worker failed while the master was not stopping.
Backoff(x) ==
  [x EXCEPT !.failures = Failures(x), !.restart_in = restart_delay(Failures(x))]

\* Mutant: a worker is restarted only once.
Reaped_once(x, status) ==
  LET y == [x EXCEPT !.pid = NoPid]
  IN  IF ~stopping /\ status = "failed" /\ x.failures = 0 THEN Backoff(y) ELSE y

Reaped(x, status) ==
  LET y == [x EXCEPT !.pid = NoPid]
  IN  IF ~stopping /\ status = "failed" THEN Backoff(y) ELSE y

Due(x) == x.pid = NoPid /\ x.restart_in = 0

\* Mutant: one stopped worker is enough.
AllStopped_any == \E c \in Cpus : slots[c].pid = NoPid

AllStopped == \A c \in Cpus : slots[c].pid = NoPid

-----------------------------------------------------------------------------
(* The master.                                                               *)

\* spawn_worker for slot c; `?` makes the master return when fork() fails.
SpawnWorker(c) ==
  \/ /\ slots' = [slots EXCEPT ![c] = Started(@, Fresh)]
     /\ children' = [children EXCEPT ![Fresh] = Forked(c)]
     /\ at' = at + 1 /\ UNCHANGED pc
  \/ /\ "fork" \in Faults
     /\ pc' = "error" /\ UNCHANGED <<slots, children, at>>

Spawn ==
  /\ pc = "spawn" /\ at \in Cpus
  /\ SpawnWorker(at)
  /\ UNCHANGED <<requested, stopping, crashes>>

Spawned ==
  /\ pc = "spawn" /\ at \notin Cpus
  /\ pc' = "check" /\ UNCHANGED <<slots, children, requested, stopping, at, crashes>>

\* Mutant: the workers are not told.
Check_silent ==
  /\ pc = "check"
  /\ pc' = "wait"
  /\ stopping' = (stopping \/ requested)
  /\ UNCHANGED <<children, slots, requested, at, crashes>>

Check ==
  /\ pc = "check"
  /\ pc' = "wait"
  /\ IF requested /\ ~stopping
     THEN /\ stopping' = TRUE
          /\ children' = [p \in Pids |-> IF \E c \in Cpus : slots[c].pid = p
                                         THEN Sigterm(children[p]) ELSE children[p]]
     ELSE UNCHANGED <<stopping, children>>
  /\ UNCHANGED <<slots, requested, at, crashes>>

\* Mutant: the first running slot is taken for the one of the dead process.
SlotOf_first(p) ==
  CHOOSE c \in Cpus : /\ slots[c].pid # NoPid
                      /\ \A d \in Cpus : slots[d].pid # NoPid => c <= d

\* workers.iter_mut().find(|worker| worker.pid == Some(pid))
SlotOf(p) == CHOOSE c \in Cpus : slots[c].pid = p

\* waitpid(WNOHANG): one zombie, or StillAlive or ECHILD.
Wait ==
  /\ pc = "wait"
  /\ pc' = "restart" /\ at' = 1
  /\ \/ /\ Zombies = {} /\ UNCHANGED <<slots, children>>
     \/ \E p \in Zombies :
          /\ slots' = [slots EXCEPT ![SlotOf(p)] = Reaped(@, children[p].state)]
          /\ children' = [children EXCEPT ![p].reaped = TRUE]
  /\ UNCHANGED <<requested, stopping, crashes>>

Stop ==
  /\ pc = "restart" /\ stopping
  /\ pc' = IF AllStopped THEN "done" ELSE "check"
  /\ UNCHANGED <<slots, children, requested, stopping, at, crashes>>

Restart ==
  /\ pc = "restart" /\ ~stopping /\ at \in Cpus
  /\ IF Due(slots[at])
     THEN SpawnWorker(at)
     ELSE at' = at + 1 /\ UNCHANGED <<slots, children, pc>>
  /\ UNCHANGED <<requested, stopping, crashes>>

\* The end of a pass: every worker that is gone left cleanly, or go round again.
Restarted ==
  /\ pc = "restart" /\ ~stopping /\ at \notin Cpus
  /\ pc' = IF \A c \in Cpus : slots[c].pid = NoPid /\ slots[c].restart_in = Never
           THEN "done" ELSE "check"
  /\ UNCHANGED <<slots, children, requested, stopping, at, crashes>>

Master == Spawn \/ Spawned \/ Check \/ Wait \/ Stop \/ Restart \/ Restarted

-----------------------------------------------------------------------------
(* Children, signals and time.                                               *)

Become(p, ch) ==
  /\ children' = [children EXCEPT ![p] = ch]
  /\ UNCHANGED <<slots, requested, stopping, pc, at>>

\* What is left of a process that ended, until it is reaped.
Exited(p, state) == [Forked(children[p].cpu) EXCEPT !.state = state]

\* install_shutdown_signals
InstallSignals(p) ==
  children[p].state = "forked" /\ Become(p, [children[p] EXCEPT !.state = "serving"]) /\ UNCHANGED crashes

\* A worker that was told to stop drains and exits with 0.
Drains(p) ==
  children[p].state = "serving" /\ children[p].term /\ Become(p, Exited(p, "clean")) /\ UNCHANGED crashes

\* start_worker returns an error, panics, or the process is killed.
Fails(p) ==
  /\ Alive(p)
  /\ crashes < MaxCrashes /\ crashes' = crashes + 1
  /\ Become(p, Exited(p, "failed"))

\* Someone sends SIGTERM to one worker.
Told(p) ==
  /\ children[p].state = "serving" /\ ~children[p].term
  /\ children' = [children EXCEPT ![p].term = TRUE]
  /\ UNCHANGED <<slots, requested, stopping, pc, at, crashes>>

\* SIGINT or SIGTERM to the master.
Signal ==
  /\ ~requested /\ requested' = TRUE
  /\ UNCHANGED <<slots, children, stopping, pc, at, crashes>>

Aged(x) ==
  [x EXCEPT !.since = Lesser(@ + 1, StableWindow),
            !.restart_in = IF @ > 0 THEN @ - 1 ELSE @]

Tick ==
  /\ slots' = [c \in Cpus |-> IF c < at \/ pc # "spawn" THEN Aged(slots[c]) ELSE slots[c]]
  /\ slots' # slots
  /\ UNCHANGED <<children, requested, stopping, pc, at, crashes>>

Init ==
  /\ slots = [c \in Cpus |-> NoSlot]
  /\ children = [p \in Pids |-> NoChild]
  /\ requested = FALSE /\ stopping = FALSE
  /\ pc = "spawn" /\ at = 1 /\ crashes = 0

Child(p) == InstallSignals(p) \/ Drains(p)

Next ==
  \/ Master \/ Signal \/ Tick
  \/ \E p \in Pids : Child(p) \/ Fails(p) \/ Told(p)

Spec == Init /\ [][Next]_vars

-----------------------------------------------------------------------------
(* Safety.                                                                   *)

\* Every process that has not been reaped is the one its slot names, so the
\* master signals it on shutdown and never runs two workers for one cpu_id.
EveryChildIsTracked ==
  \A p \in Pids : LET ch == children[p] IN
    ch.state # "none" /\ ~ch.reaped => slots[ch.cpu].pid = p

\* When supervise_workers returns Ok, no worker process is left behind.
CleanExitLeavesNoWorker == pc = "done" => \A p \in Pids : ~Alive(p)

-----------------------------------------------------------------------------
(* What a step may never do.                                                 *)

Refork(c) == pc = "restart" /\ slots[c].pid = NoPid /\ slots'[c].pid # NoPid

Latest(c) == CHOOSE p \in Pids : /\ children[p].cpu = c
                                 /\ \A q \in Pids : children[q].cpu = c => q <= p

\* A worker is forked again only when its last process failed: not after a clean
\* exit, however often the slot failed before, and not while stopping.
RestartsFollowFailures ==
  [][\A c \in Cpus : Refork(c) => children[Latest(c)].state = "failed" /\ ~stopping]_vars

\* Two forks for one slot are at least the backoff of its failures apart.
RestartsAreSpaced ==
  [][\A c \in Cpus : Refork(c) => slots[c].since >= restart_delay(slots[c].failures)]_vars

-----------------------------------------------------------------------------
(* Liveness: the master and the children run, time passes, and a worker that *)
(* was told to stop exits (what ShutdownEnds says of ReadinessWorker).       *)

FairSupervisor ==
  /\ Spec /\ WF_vars(Master) /\ WF_vars(Tick)
  /\ \A p \in Pids : WF_vars(Child(p))

\* A worker that failed is replaced, unless a shutdown was requested or fork()
\* failed: its restart is never forgotten or put off for ever.
FailedWorkerIsReplaced ==
  \A c \in Cpus :
    slots[c].pid # NoPid /\ children[slots[c].pid].state = "failed"
      ~> \/ slots[c].pid # NoPid /\ Alive(slots[c].pid)
         \/ requested \/ pc = "error"

\* A shutdown ends the master once every worker that is left heard its SIGTERM.
ShutdownEndsUnlessUnheard ==
  requested ~> pc \in {"done", "error"} \/ \E p \in Pids : Alive(p) /\ children[p].deaf

\* A shutdown ends the master.
MasterShutdownEnds == requested ~> pc \in {"done", "error"}

=============================================================================
