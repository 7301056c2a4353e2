------------------------------- MODULE Master -------------------------------
(***************************************************************************)
(* The master process: it forks the workers, reaps and respawns the ones   *)
(* that die, replaces all of them on SIGHUP and stops them on SIGTERM.     *)
(*                                                                         *)
(* A step is a piece of master_run between two points where a signal or a  *)
(* child can make a difference: one fork, one kill, one waitpid, one test  *)
(* of a flag.  A worker process is its life cycle only; module Worker says *)
(* what happens inside.                                                    *)
(***************************************************************************)
EXTENDS Integers, FiniteSets

CONSTANTS
  Pids,             \* process ids; an id can be used again once reaped
  Configs,          \* contents the configuration file can have
  WorkerProcesses,  \* worker_processes of a configuration
  MaxWorkers,       \* MAX_WORKERS
  Ports,            \* the listen_ports of a configuration
  ForkFails,        \* may fork fail?
  BindFails,        \* may socket_create_listener fail in a reload?
  Interrupts,       \* may a signal arrive while waitpid blocks?
  SlowStart         \* may a SIGTERM reach a child before its signal_init?

ASSUME MasterAssumption ==
  /\ MaxWorkers \in Nat /\ WorkerProcesses \in [Configs -> Nat]
  /\ 0 \notin Pids
  /\ {ForkFails, BindFails, Interrupts, SlowStart} \subseteq BOOLEAN

VARIABLES
  pc,               \* where master_run is
  i,                \* the loop index
  next,             \* what follows wait_workers: "rebind" or "exit"
  worker_pids, worker_count,
  g_reload, g_shutdown,
  cfg, new_cfg, listeners,
  interrupted,      \* the blocked waitpid returns EINTR
  proc              \* kernel: the children, by process id

vars == <<pc, i, next, worker_pids, worker_count, g_reload, g_shutdown, cfg,
          new_cfg, listeners, interrupted, proc>>

Slots == 0..(MaxWorkers - 1)

\* worker_processes, at most MAX_WORKERS.
WorkerCount(c) ==
  IF WorkerProcesses[c] > MaxWorkers THEN MaxWorkers ELSE WorkerProcesses[c]

NoProc == [st |-> "none"]
Child(c, l) == [st |-> "starting", cfg |-> c, listeners |-> l]

Live(p) == proc[p].st \in {"starting", "running", "draining"}

Goto(label) == pc' = label /\ i' = 0

-----------------------------------------------------------------------------
(* master.c *)

Init ==
  /\ pc = "spawn" /\ i = 0 /\ next = "rebind"
  /\ worker_pids = [k \in Slots |-> 0]
  /\ g_reload = FALSE /\ g_shutdown = FALSE /\ interrupted = FALSE
  /\ cfg \in Configs /\ new_cfg = cfg
  /\ worker_count = WorkerCount(cfg) /\ listeners = Ports[cfg]
  /\ proc = [p \in Pids |-> NoProc]

\* spawn_worker: the child takes the configuration and the sockets of this
\* moment.  A fork that fails leaves worker_pids[id] as it is.
spawn_worker(id) ==
  \/ \E p \in Pids :
       /\ proc[p].st = "none"
       /\ proc' = [proc EXCEPT ![p] = Child(cfg, listeners)]
       /\ worker_pids' = [worker_pids EXCEPT ![id] = p]
  \/ ForkFails /\ UNCHANGED <<proc, worker_pids>>

SpawnNext ==
  /\ pc = "spawn"
  /\ IF i < worker_count
     THEN spawn_worker(i) /\ i' = i + 1 /\ pc' = pc
     ELSE Goto("loop") /\ UNCHANGED <<proc, worker_pids>>
  /\ UNCHANGED <<next, worker_count, g_reload, g_shutdown, cfg, new_cfg,
                 listeners, interrupted>>

\* while (!g_shutdown)
Loop ==
  /\ pc = "loop"
  /\ IF g_shutdown THEN Goto("kill") /\ next' = "exit"
     ELSE Goto("reap") /\ next' = next
  /\ UNCHANGED <<worker_pids, worker_count, g_reload, g_shutdown, cfg, new_cfg,
                 listeners, interrupted, proc>>

\* waitpid(-1, WNOHANG) finds child p dead; i is its slot, if it has one.
Reap(p) ==
  /\ pc = "reap" /\ proc[p].st = "zombie"
  /\ proc' = [proc EXCEPT ![p] = NoProc]
  /\ \/ /\ pc' = "respawn"
        /\ i' \in {k \in 0..(worker_count - 1) : worker_pids[k] = p
                     /\ \A j \in 0..(k - 1) : worker_pids[j] # p}
     \/ /\ \A k \in 0..(worker_count - 1) : worker_pids[k] # p
        /\ Goto("reload")
  /\ UNCHANGED <<next, worker_pids, worker_count, g_reload, g_shutdown, cfg,
                 new_cfg, listeners, interrupted>>

ReapNothing ==
  /\ pc = "reap" /\ \A p \in Pids : proc[p].st # "zombie"
  /\ Goto("reload")
  /\ UNCHANGED <<next, worker_pids, worker_count, g_reload, g_shutdown, cfg,
                 new_cfg, listeners, interrupted, proc>>

\* Mutant: a pending reload is left to replace the dead worker.
RespawnUnlessReload ==
  /\ pc = "respawn"
  /\ IF g_shutdown \/ g_reload THEN UNCHANGED <<proc, worker_pids>>
     ELSE spawn_worker(i)
  /\ Goto("reload")
  /\ UNCHANGED <<next, worker_count, g_reload, g_shutdown, cfg, new_cfg,
                 listeners, interrupted>>

Respawn ==
  /\ pc = "respawn"
  /\ IF g_shutdown THEN UNCHANGED <<proc, worker_pids>> ELSE spawn_worker(i)
  /\ Goto("reload")
  /\ UNCHANGED <<next, worker_count, g_reload, g_shutdown, cfg, new_cfg,
                 listeners, interrupted>>

\* Mutant: the old workers are neither killed nor waited for.
ReloadAtOnce ==
  /\ pc = "reload"
  /\ \/ /\ g_reload /\ g_reload' = FALSE
        /\ Goto("rebind") /\ new_cfg' \in Configs
     \/ /\ ~g_reload /\ Goto("loop")
        /\ UNCHANGED <<g_reload, new_cfg>>
  /\ UNCHANGED <<next, worker_pids, worker_count, g_shutdown, cfg, listeners,
                 interrupted, proc>>

\* if (g_reload): a configuration that does not load is not used.
Reload ==
  /\ pc = "reload"
  /\ \/ /\ g_reload /\ g_reload' = FALSE
        /\ \/ Goto("loop") /\ UNCHANGED <<next, new_cfg>>
           \/ Goto("kill") /\ next' = "rebind" /\ new_cfg' \in Configs
     \/ /\ ~g_reload /\ Goto("loop")
        /\ UNCHANGED <<g_reload, next, new_cfg>>
  /\ UNCHANGED <<worker_pids, worker_count, g_shutdown, cfg, listeners,
                 interrupted, proc>>

\* kill(p, SIGTERM): the signalfd of a running worker stops it.  A child that
\* has not reached signal_init still has the master's handler, which sets a
\* flag that worker_run never reads.
Signalled(p) ==
  IF proc[p].st = "running" THEN [proc EXCEPT ![p].st = "draining"] ELSE proc

\* Mutant: the last worker is not signalled.
KillAllButLast ==
  /\ pc = "kill"
  /\ SlowStart \/ \A p \in Pids : proc[p].st # "starting"
  /\ IF i < worker_count - 1
     THEN /\ proc' = IF worker_pids[i] \in Pids THEN Signalled(worker_pids[i])
                     ELSE proc
          /\ i' = i + 1 /\ pc' = pc
     ELSE Goto("wait") /\ proc' = proc
  /\ UNCHANGED <<next, worker_pids, worker_count, g_reload, g_shutdown, cfg,
                 new_cfg, listeners, interrupted>>

kill_workers ==
  /\ pc = "kill"
  /\ SlowStart \/ \A p \in Pids : proc[p].st # "starting"
  /\ IF i < worker_count
     THEN /\ proc' = IF worker_pids[i] \in Pids THEN Signalled(worker_pids[i])
                     ELSE proc
          /\ i' = i + 1 /\ pc' = pc
     ELSE Goto("wait") /\ proc' = proc
  /\ UNCHANGED <<next, worker_pids, worker_count, g_reload, g_shutdown, cfg,
                 new_cfg, listeners, interrupted>>

\* Mutant: waitpid does not block.
WaitNoHang ==
  /\ pc = "wait"
  /\ IF i = worker_count
     THEN Goto(next) /\ UNCHANGED <<proc, worker_pids>>
     ELSE LET p == worker_pids[i]
          IN  /\ TRUE
              /\ proc' = IF p \in Pids /\ proc[p].st = "zombie"
                         THEN [proc EXCEPT ![p] = NoProc] ELSE proc
              /\ worker_pids' = [worker_pids EXCEPT ![i] = 0]
              /\ i' = i + 1 /\ pc' = pc
  /\ UNCHANGED <<next, worker_count, g_reload, g_shutdown, cfg, new_cfg,
                 listeners, interrupted>>

\* Mutant: the loop stops one short.
WaitAllButLast ==
  /\ pc = "wait"
  /\ IF i >= worker_count - 1
     THEN Goto(next) /\ UNCHANGED <<proc, worker_pids>>
     ELSE LET p == worker_pids[i]
          IN  /\ p \in Pids => ~Live(p)
              /\ proc' = IF p \in Pids /\ proc[p].st = "zombie"
                         THEN [proc EXCEPT ![p] = NoProc] ELSE proc
              /\ worker_pids' = [worker_pids EXCEPT ![i] = 0]
              /\ i' = i + 1 /\ pc' = pc
  /\ UNCHANGED <<next, worker_count, g_reload, g_shutdown, cfg, new_cfg,
                 listeners, interrupted>>

\* Mutant: waitpid is repeated until it returns the child.
WaitUntilReaped ==
  /\ pc = "wait"
  /\ IF i = worker_count
     THEN Goto(next) /\ UNCHANGED <<proc, worker_pids>>
     ELSE LET p == worker_pids[i]
          IN  /\ p \in Pids => proc[p].st = "zombie"
              /\ proc' = IF p \in Pids /\ proc[p].st = "zombie"
                         THEN [proc EXCEPT ![p] = NoProc] ELSE proc
              /\ worker_pids' = [worker_pids EXCEPT ![i] = 0]
              /\ i' = i + 1 /\ pc' = pc
  /\ UNCHANGED <<next, worker_count, g_reload, g_shutdown, cfg, new_cfg,
                 listeners, interrupted>>

\* waitpid(p, NULL, 0) returns because p is dead, because p is not a child
\* (ECHILD) or because of a signal; its result is not looked at.
wait_workers ==
  /\ pc = "wait"
  /\ IF i = worker_count
     THEN Goto(next) /\ UNCHANGED <<proc, worker_pids, interrupted>>
     ELSE LET p == worker_pids[i]
          IN  /\ \/ p = 0 /\ proc' = proc
                 \/ p \in Pids /\ proc[p].st = "none" /\ proc' = proc
                 \/ /\ p \in Pids /\ proc[p].st = "zombie"
                    /\ proc' = [proc EXCEPT ![p] = NoProc]
                 \/ interrupted /\ proc' = proc
              /\ worker_pids' = [worker_pids EXCEPT ![i] = 0]
              /\ i' = i + 1 /\ pc' = pc /\ interrupted' = FALSE
  /\ UNCHANGED <<next, worker_count, g_reload, g_shutdown, cfg, new_cfg,
                 listeners>>

\* The rest of a reload up to the spawn loop: the sockets are closed and
\* bound again, each port once.
Rebind ==
  /\ pc = "rebind"
  /\ cfg' = new_cfg /\ worker_count' = WorkerCount(new_cfg)
  /\ listeners' \in IF BindFails THEN SUBSET Ports[new_cfg] ELSE {Ports[new_cfg]}
  /\ Goto("spawn")
  /\ UNCHANGED <<next, worker_pids, g_reload, g_shutdown, new_cfg, interrupted,
                 proc>>

\* The sockets are closed and master_run returns.
Exit ==
  /\ pc = "exit" /\ Goto("done") /\ listeners' = {}
  /\ UNCHANGED <<next, worker_pids, worker_count, g_reload, g_shutdown, cfg,
                 new_cfg, interrupted, proc>>

\* master_sighandler; without SA_RESTART it ends a blocked waitpid.
Signal ==
  /\ pc # "done" /\ (Interrupts \/ pc # "wait")
  /\ \/ g_reload' = TRUE /\ g_shutdown' = g_shutdown
     \/ g_shutdown' = TRUE /\ g_reload' = g_reload
  /\ interrupted' \in IF /\ pc = "wait" /\ i < worker_count
                         /\ worker_pids[i] \in Pids /\ Live(worker_pids[i])
                      THEN {TRUE, interrupted} ELSE {interrupted}
  /\ UNCHANGED <<pc, i, next, worker_pids, worker_count, cfg, new_cfg,
                 listeners, proc>>

-----------------------------------------------------------------------------
(* The children *)

SetChild(p, st) ==
  /\ proc' = [proc EXCEPT ![p].st = st]
  /\ UNCHANGED <<pc, i, next, worker_pids, worker_count, g_reload, g_shutdown,
                 cfg, new_cfg, listeners, interrupted>>

\* worker_run has reached signal_init.
ChildReady(p) == proc[p].st = "starting" /\ SetChild(p, "running")

\* worker_run returns after the drain, at most shutdown_timeout later.
ChildDrained(p) == proc[p].st = "draining" /\ SetChild(p, "zombie")

\* A worker crashes, fails to start or is killed from outside.
ChildDies(p) == Live(p) /\ SetChild(p, "zombie")

MasterStep ==
  \/ SpawnNext \/ Loop \/ ReapNothing \/ Respawn \/ Reload \/ kill_workers
  \/ wait_workers \/ Rebind \/ Exit \/ \E p \in Pids : Reap(p)

Next ==
  \/ MasterStep \/ Signal
  \/ \E p \in Pids : ChildReady(p) \/ ChildDrained(p) \/ ChildDies(p)

\* The master is scheduled, and does not pass over a dead child for ever; a
\* child is scheduled while it starts and while it drains.  Nobody has to
\* send a signal, and no worker has to crash.
Fairness ==
  /\ WF_vars(MasterStep)
  /\ \A p \in Pids : /\ SF_vars(Reap(p))
                     /\ WF_vars(ChildReady(p)) /\ WF_vars(ChildDrained(p))

Spec == Init /\ [][Next]_vars

FairSpec == Spec /\ Fairness

-----------------------------------------------------------------------------
AllPorts == UNION {Ports[c] : c \in Configs}

ProcT == [st : {"none"}] \cup
         [st : {"starting", "running", "draining", "zombie"},
          cfg : Configs, listeners : SUBSET AllPorts]

TypeOK ==
  /\ pc \in {"spawn", "loop", "reap", "respawn", "reload", "kill", "wait",
             "rebind", "exit", "done"}
  /\ i \in 0..MaxWorkers /\ next \in {"rebind", "exit"}
  /\ worker_pids \in [Slots -> Pids \cup {0}] /\ worker_count \in 0..MaxWorkers
  /\ {g_reload, g_shutdown, interrupted} \subseteq BOOLEAN
  /\ {cfg, new_cfg} \subseteq Configs
  /\ listeners \subseteq AllPorts /\ proc \in [Pids -> ProcT]

Tracked(p) == \E k \in 0..(worker_count - 1) : worker_pids[k] = p

\* architecture.md:39, "waits for them to drain": the master never forgets a
\* child, so every child that exists, dead or alive, is in worker_pids and a
\* later kill_workers or wait_workers reaches it.
ChildrenTracked == \A p \in Pids : proc[p].st # "none" => Tracked(p)

\* After a reload no worker runs with the old configuration or serves the
\* old sockets, also when workers die and are respawned around the reload.
WorkersCurrent ==
  \A p \in Pids : Live(p) =>
    proc[p].cfg = cfg /\ proc[p].listeners = listeners

\* architecture.md:40, "signals all workers, waits, then exits": master_run
\* returns with no worker left running.
NoWorkerOutlives == pc = "done" => \A p \in Pids : proc[p].st = "none"

\* architecture.md:37, "if a worker crashes, the master respawns it": a slot
\* whose worker is dead gets a live one again, or the master is stopping or
\* has fewer workers now.
Vacant(k) ==
  k < worker_count /\ worker_pids[k] \in Pids /\ ~Live(worker_pids[k])

CrashedRespawned ==
  \A k \in Slots : Vacant(k) ~> (~Vacant(k) \/ g_shutdown)

\* A SIGTERM ends the master, whatever it was doing, also in the middle of a
\* reload or while workers die.
ShutdownEnds == g_shutdown ~> pc = "done"

\* A reload that has started to kill the workers comes to an end.
ReloadEnds == (pc = "kill" /\ next = "rebind") ~> pc = "loop"
=============================================================================
