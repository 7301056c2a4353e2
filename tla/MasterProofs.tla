---------------------------- MODULE MasterProofs ----------------------------
(***************************************************************************)
(* The master's bookkeeping is right for any number of workers, pids and   *)
(* configurations, with failing forks, failing binds, crashing workers and *)
(* signals at any time except inside a blocked waitpid (MCMaster_eintr     *)
(* shows what happens there).                                              *)
(***************************************************************************)
EXTENDS Master, TLAPS

NoChild == \A p \in Pids : proc[p].st = "none"

\* What is true at each point of master_run.  In the spawn loop and at a
\* respawn the slot about to be written holds no child; wait_workers leaves
\* empty slots behind, so when it ends there is no child at all.
AtPoint ==
  /\ pc = "spawn" => /\ i <= worker_count
                     /\ \A p \in Pids : proc[p].st # "none"
                          => \E k \in 0..(i - 1) : worker_pids[k] = p
  /\ pc = "respawn" => /\ i < worker_count
                       /\ \A p \in Pids : proc[p].st # "none"
                            => worker_pids[i] # p
  /\ pc \in {"kill", "wait"} => i <= worker_count
  /\ pc = "wait" => \A k \in 0..(i - 1) : worker_pids[k] = 0
  /\ pc \in {"rebind", "exit", "done"} => NoChild

Inv ==
  /\ TypeOK /\ ChildrenTracked /\ WorkersCurrent /\ AtPoint
  /\ interrupted = FALSE

\* A configuration is capped at MaxWorkers.
LEMMA WorkerCountType == \A c \in Configs : WorkerCount(c) \in 0..MaxWorkers
<1>. QED
  BY MasterAssumption DEF WorkerCount

\* Every configuration has its ports among all ports.
LEMMA PortsIn == \A c \in Configs : Ports[c] \subseteq AllPorts
<1>. QED
  BY DEF AllPorts

\* The master starts without children.
LEMMA InitInv == Init => Inv
<1>. SUFFICES ASSUME Init PROVE Inv
  OBVIOUS
<1>1. TypeOK
  <2>1. proc \in [Pids -> ProcT]
    BY DEF Init, NoProc, ProcT
  <2>2. worker_count \in 0..MaxWorkers /\ listeners \subseteq AllPorts
    BY WorkerCountType, PortsIn DEF Init
  <2>3. 0 \in 0..MaxWorkers
    BY MasterAssumption
  <2>. QED
    BY <2>1, <2>2, <2>3 DEF Init, TypeOK
<1>2. ChildrenTracked /\ WorkersCurrent /\ AtPoint
  BY <1>1 DEF Init, ChildrenTracked, WorkersCurrent, Live, AtPoint, NoProc,
     TypeOK
<1>. QED
  BY <1>1, <1>2 DEF Inv, Init

\* A fork adds one child, in the slot it is started for; nothing else about
\* the children changes.
LEMMA SpawnFacts ==
  ASSUME TypeOK, NEW id \in Slots, spawn_worker(id)
  PROVE  /\ proc' \in [Pids -> ProcT]
         /\ worker_pids' \in [Slots -> Pids \cup {0}]
         /\ \A k \in Slots : k # id => worker_pids'[k] = worker_pids[k]
         /\ \A p \in Pids : \/ proc'[p] = proc[p]
                            \/ /\ proc'[p].st = "starting" /\ proc'[p].cfg = cfg
                               /\ proc'[p].listeners = listeners
                               /\ worker_pids'[id] = p
<1>1. CASE UNCHANGED <<proc, worker_pids>>
  BY <1>1 DEF TypeOK
<1>2. ASSUME NEW q \in Pids,
             proc' = [proc EXCEPT ![q] = Child(cfg, listeners)],
             worker_pids' = [worker_pids EXCEPT ![id] = q]
      PROVE  /\ proc' \in [Pids -> ProcT]
             /\ worker_pids' \in [Slots -> Pids \cup {0}]
             /\ \A k \in Slots : k # id => worker_pids'[k] = worker_pids[k]
             /\ \A p \in Pids : \/ proc'[p] = proc[p]
                                \/ /\ proc'[p].st = "starting"
                                   /\ proc'[p].cfg = cfg
                                   /\ proc'[p].listeners = listeners
                                   /\ worker_pids'[id] = p
  <2>1. Child(cfg, listeners) \in ProcT
    BY DEF Child, ProcT, TypeOK
  <2>. QED
    BY <1>2, <2>1 DEF TypeOK, Child
<1>. QED
  BY <1>1, <1>2 DEF spawn_worker

\* The spawn loop: a child for slot i, or the loop is done.
LEMMA SpawnNextInv == Inv /\ SpawnNext => Inv'
<1>. SUFFICES ASSUME Inv, SpawnNext PROVE Inv'
  OBVIOUS
<1>0. TypeOK /\ ChildrenTracked /\ WorkersCurrent /\ AtPoint /\ MaxWorkers \in Nat
  BY MasterAssumption DEF Inv
<1>1. CASE i < worker_count
  <2>1. i \in Slots /\ spawn_worker(i) /\ i' = i + 1 /\ pc' = "spawn" /\ pc = "spawn"
    BY <1>0, <1>1 DEF SpawnNext, Slots, TypeOK
  <2>2. /\ proc' \in [Pids -> ProcT] /\ worker_pids' \in [Slots -> Pids \cup {0}]
        /\ \A k \in Slots : k # i => worker_pids'[k] = worker_pids[k]
        /\ \A p \in Pids : \/ proc'[p] = proc[p]
                           \/ /\ proc'[p].st = "starting" /\ proc'[p].cfg = cfg
                              /\ proc'[p].listeners = listeners
                              /\ worker_pids'[i] = p
    BY <1>0, <2>1, SpawnFacts
  <2>3. TypeOK'
    BY <1>0, <1>1, <2>1, <2>2 DEF TypeOK, SpawnNext, AllPorts, ProcT
  <2>4. WorkersCurrent'
    BY <1>0, <2>2 DEF WorkersCurrent, Live, SpawnNext
  <2>5. \A p \in Pids : proc'[p].st # "none" => \E k \in 0..i : worker_pids'[k] = p
    <3>. SUFFICES ASSUME NEW p \in Pids, proc'[p].st # "none"
                  PROVE  \E k \in 0..i : worker_pids'[k] = p
      OBVIOUS
    <3>1. CASE worker_pids'[i] = p
      BY <3>1, <1>0 DEF TypeOK
    <3>2. CASE proc'[p] = proc[p]
      <4>1. PICK k \in 0..(i - 1) : worker_pids[k] = p
        BY <1>0, <2>1, <3>2 DEF AtPoint
      <4>2. k \in Slots /\ k # i /\ k \in 0..i
        BY <1>0, <2>1 DEF Slots, TypeOK
      <4>. QED
        BY <2>2, <4>1, <4>2
    <3>. QED
      BY <2>2, <3>1, <3>2
  <2>6. AtPoint'
    BY <1>0, <1>1, <2>1, <2>5 DEF AtPoint, SpawnNext, TypeOK
  <2>7. ChildrenTracked'
    <3>1. \A k \in 0..i : k \in 0..(worker_count - 1)
      BY <1>0, <1>1 DEF TypeOK
    <3>. QED
      BY <2>5, <3>1 DEF ChildrenTracked, Tracked, SpawnNext
  <2>. QED
    BY <2>3, <2>4, <2>6, <2>7 DEF Inv, SpawnNext
<1>2. CASE ~(i < worker_count)
  <2>1. /\ pc' = "loop" /\ i' = 0
        /\ UNCHANGED <<proc, worker_pids, next, worker_count, g_reload,
                       g_shutdown, cfg, new_cfg, listeners, interrupted>>
    BY <1>2 DEF SpawnNext, Goto
  <2>. QED
    BY <1>0, <2>1 DEF Inv, TypeOK, ChildrenTracked, Tracked, WorkersCurrent,
       Live, AtPoint, AllPorts, ProcT
<1>. QED
  BY <1>1, <1>2

\* Steps of the master that move its program counter and leave the children
\* and their slots alone.
LEMMA ControlInv ==
  Inv /\ (Loop \/ ReapNothing \/ Reload) => Inv'
<1>. SUFFICES ASSUME Inv, Loop \/ ReapNothing \/ Reload PROVE Inv'
  OBVIOUS
<1>1. TypeOK /\ MaxWorkers \in Nat
  BY MasterAssumption DEF Inv
<1>2. /\ pc' \in {"loop", "reap", "reload", "kill"} /\ i' = 0
      /\ next' \in {"rebind", "exit"} /\ new_cfg' \in Configs
      /\ g_reload' \in BOOLEAN
      /\ UNCHANGED <<worker_pids, worker_count, g_shutdown, cfg, listeners,
                     interrupted, proc>>
  BY <1>1 DEF Loop, ReapNothing, Reload, Goto, TypeOK
<1>3. TypeOK'
  BY <1>1, <1>2 DEF TypeOK, AllPorts, ProcT
<1>4. ChildrenTracked' /\ WorkersCurrent' /\ AtPoint'
  BY <1>1, <1>2 DEF Inv, ChildrenTracked, Tracked, WorkersCurrent, Live,
     AtPoint, TypeOK
<1>. QED
  BY <1>2, <1>3, <1>4 DEF Inv

\* waitpid has returned a dead child.
LEMMA ReapInv == ASSUME NEW p \in Pids PROVE Inv /\ Reap(p) => Inv'
<1>. SUFFICES ASSUME Inv, Reap(p) PROVE Inv'
  OBVIOUS
<1>1. TypeOK /\ ChildrenTracked /\ WorkersCurrent /\ MaxWorkers \in Nat
  BY MasterAssumption DEF Inv
<1>2. /\ proc' = [proc EXCEPT ![p] = NoProc]
      /\ UNCHANGED <<next, worker_pids, worker_count, g_reload, g_shutdown, cfg,
                     new_cfg, listeners, interrupted>>
  BY DEF Reap
<1>3. /\ proc' \in [Pids -> ProcT] /\ proc'[p].st = "none"
      /\ \A q \in Pids : q # p => proc'[q] = proc[q]
  BY <1>1, <1>2 DEF TypeOK, NoProc, ProcT
<1>4. \/ /\ pc' = "respawn" /\ i' \in 0..(worker_count - 1)
         /\ worker_pids[i'] = p
      \/ pc' = "reload" /\ i' = 0
  BY DEF Reap, Goto
<1>5. TypeOK'
  BY <1>1, <1>2, <1>3, <1>4 DEF TypeOK, AllPorts, ProcT
<1>6. ChildrenTracked' /\ WorkersCurrent'
  BY <1>1, <1>2, <1>3 DEF ChildrenTracked, Tracked, WorkersCurrent, Live
<1>7. AtPoint'
  BY <1>1, <1>2, <1>3, <1>4 DEF AtPoint, TypeOK
<1>. QED
  BY <1>2, <1>5, <1>6, <1>7 DEF Inv

\* The slot of the dead child gets a new one, or the fork fails.
LEMMA RespawnInv == Inv /\ Respawn => Inv'
<1>. SUFFICES ASSUME Inv, Respawn PROVE Inv'
  OBVIOUS
<1>0. /\ TypeOK /\ ChildrenTracked /\ WorkersCurrent /\ AtPoint
      /\ MaxWorkers \in Nat /\ pc = "respawn" /\ pc' = "reload" /\ i' = 0
      /\ UNCHANGED <<next, worker_count, g_reload, g_shutdown, cfg, new_cfg,
                     listeners, interrupted>>
  BY MasterAssumption DEF Inv, Respawn, Goto
<1>1. i \in Slots /\ i < worker_count
  BY <1>0 DEF AtPoint, Slots, TypeOK
<1>2. /\ proc' \in [Pids -> ProcT] /\ worker_pids' \in [Slots -> Pids \cup {0}]
      /\ \A k \in Slots : k # i => worker_pids'[k] = worker_pids[k]
      /\ \A p \in Pids : \/ proc'[p] = proc[p]
                         \/ /\ proc'[p].st = "starting" /\ proc'[p].cfg = cfg
                            /\ proc'[p].listeners = listeners
                            /\ worker_pids'[i] = p
  <2>1. CASE g_shutdown
    BY <1>0, <2>1 DEF Respawn, TypeOK
  <2>2. CASE ~g_shutdown
    BY <1>0, <1>1, <2>2, SpawnFacts DEF Respawn
  <2>. QED
    BY <2>1, <2>2
<1>3. TypeOK'
  BY <1>0, <1>2 DEF TypeOK, AllPorts, ProcT
<1>4. WorkersCurrent'
  BY <1>0, <1>2 DEF WorkersCurrent, Live
<1>5. AtPoint'
  BY <1>0 DEF AtPoint
<1>6. ChildrenTracked'
  <2>. SUFFICES ASSUME NEW p \in Pids, proc'[p].st # "none"
                PROVE  \E k \in 0..(worker_count - 1) : worker_pids'[k] = p
    BY <1>0 DEF ChildrenTracked, Tracked
  <2>1. CASE worker_pids'[i] = p
    BY <1>0, <1>1, <2>1 DEF TypeOK
  <2>2. CASE proc'[p] = proc[p]
    <3>1. PICK k \in 0..(worker_count - 1) : worker_pids[k] = p
      BY <1>0, <2>2 DEF ChildrenTracked, Tracked
    <3>2. k # i
      BY <1>0, <2>2, <3>1 DEF AtPoint
    <3>3. k \in Slots
      BY <1>0 DEF Slots, TypeOK
    <3>. QED
      BY <1>2, <3>1, <3>2, <3>3
  <2>. QED
    BY <1>2, <2>1, <2>2
<1>. QED
  BY <1>0, <1>3, <1>4, <1>5, <1>6 DEF Inv

\* A status change of one child that does not remove it.
LEMMA StatusFacts ==
  ASSUME Inv, NEW p \in Pids,
         NEW st \in {"running", "draining", "zombie"},
         proc[p].st # "none", proc[p].st = "zombie" => st = "zombie",
         proc' = [proc EXCEPT ![p].st = st]
  PROVE  /\ proc' \in [Pids -> ProcT]
         /\ \A q \in Pids : (proc'[q].st = "none") <=> (proc[q].st = "none")
         /\ \A q \in Pids : Live(q)' => /\ Live(q) /\ proc'[q].cfg = proc[q].cfg
                                        /\ proc'[q].listeners = proc[q].listeners
<1>1. proc \in [Pids -> ProcT]
  BY DEF Inv, TypeOK
<1>2. proc[p] \in [st : {"starting", "running", "draining", "zombie"},
                   cfg : Configs, listeners : SUBSET AllPorts]
  BY <1>1 DEF ProcT
<1>. DEFINE r == [proc[p] EXCEPT !.st = st]
<1>3. /\ r \in ProcT /\ r.st = st /\ r.cfg = proc[p].cfg
      /\ r.listeners = proc[p].listeners
  BY <1>2 DEF ProcT
<1>4. proc' = [proc EXCEPT ![p] = r]
  OBVIOUS
<1>. HIDE DEF r
<1>5. \A q \in Pids : proc'[q] = IF q = p THEN r ELSE proc[q]
  BY <1>1, <1>4
<1>6. proc' \in [Pids -> ProcT]
  BY <1>1, <1>3, <1>4
<1>. QED
  BY <1>2, <1>3, <1>5, <1>6 DEF Live

\* Such a change preserves the invariant wherever the master is.
LEMMA StatusInv ==
  ASSUME Inv, proc' \in [Pids -> ProcT],
         \A q \in Pids : (proc'[q].st = "none") <=> (proc[q].st = "none"),
         \A q \in Pids : Live(q)' => /\ Live(q) /\ proc'[q].cfg = proc[q].cfg
                                     /\ proc'[q].listeners = proc[q].listeners,
         UNCHANGED <<worker_pids, worker_count, cfg, listeners, next, g_reload,
                     g_shutdown, new_cfg, interrupted>>
  PROVE  /\ ChildrenTracked' /\ WorkersCurrent'
         /\ (pc' = pc /\ i' = i => AtPoint' /\ TypeOK')
<1>1. ChildrenTracked'
  BY DEF Inv, ChildrenTracked, Tracked
<1>2. WorkersCurrent'
  BY DEF Inv, WorkersCurrent
<1>3. pc' = pc /\ i' = i => AtPoint'
  BY DEF Inv, AtPoint, NoChild
<1>4. pc' = pc /\ i' = i => TypeOK'
  BY DEF Inv, TypeOK, AllPorts, ProcT
<1>. QED
  BY <1>1, <1>2, <1>3, <1>4

\* Steps of the children: start, drain, crash.
LEMMA ChildInv ==
  ASSUME NEW p \in Pids
  PROVE  Inv /\ (ChildReady(p) \/ ChildDrained(p) \/ ChildDies(p)) => Inv'
<1>. SUFFICES ASSUME Inv, ChildReady(p) \/ ChildDrained(p) \/ ChildDies(p)
              PROVE  Inv'
  OBVIOUS
<1>1. PICK st \in {"running", "zombie"} :
        /\ proc[p].st \in {"starting", "running", "draining"}
        /\ proc' = [proc EXCEPT ![p].st = st]
  BY DEF ChildReady, ChildDrained, ChildDies, SetChild, Live
<1>2. UNCHANGED <<pc, i, next, worker_pids, worker_count, g_reload, g_shutdown,
                  cfg, new_cfg, listeners, interrupted>>
  BY DEF ChildReady, ChildDrained, ChildDies, SetChild
<1>3. /\ proc' \in [Pids -> ProcT]
      /\ \A q \in Pids : (proc'[q].st = "none") <=> (proc[q].st = "none")
      /\ \A q \in Pids : Live(q)' => /\ Live(q) /\ proc'[q].cfg = proc[q].cfg
                                     /\ proc'[q].listeners = proc[q].listeners
  BY <1>1, StatusFacts
<1>. QED
  BY <1>2, <1>3, StatusInv DEF Inv

\* kill_workers, slot by slot.
LEMMA KillInv == Inv /\ kill_workers => Inv'
<1>. SUFFICES ASSUME Inv, kill_workers PROVE Inv'
  OBVIOUS
<1>0. /\ TypeOK /\ MaxWorkers \in Nat /\ pc = "kill" /\ i <= worker_count
      /\ UNCHANGED <<next, worker_pids, worker_count, g_reload, g_shutdown, cfg,
                     new_cfg, listeners, interrupted>>
  BY MasterAssumption DEF Inv, AtPoint, kill_workers
<1>1. /\ proc' \in [Pids -> ProcT]
      /\ \A q \in Pids : (proc'[q].st = "none") <=> (proc[q].st = "none")
      /\ \A q \in Pids : Live(q)' => /\ Live(q) /\ proc'[q].cfg = proc[q].cfg
                                     /\ proc'[q].listeners = proc[q].listeners
  <2>1. CASE proc' = proc
    BY <1>0, <2>1 DEF TypeOK, Live
  <2>2. ASSUME NEW p \in Pids, proc[p].st = "running",
               proc' = [proc EXCEPT ![p].st = "draining"]
        PROVE  <1>1
    BY <2>2, StatusFacts
  <2>. QED
    BY <2>1, <2>2 DEF kill_workers, Signalled
<1>2. ChildrenTracked' /\ WorkersCurrent'
  BY <1>0, <1>1, StatusInv
<1>3. \/ pc' = "kill" /\ i' = i + 1 /\ i < worker_count
      \/ pc' = "wait" /\ i' = 0
  BY <1>0 DEF kill_workers, Goto
<1>4. TypeOK'
  BY <1>0, <1>1, <1>3 DEF TypeOK, AllPorts, ProcT
<1>5. AtPoint'
  BY <1>0, <1>3 DEF AtPoint, TypeOK
<1>. QED
  BY <1>0, <1>2, <1>4, <1>5 DEF Inv

\* wait_workers, slot by slot, without interruption.
LEMMA WaitInv == Inv /\ wait_workers => Inv'
<1>. SUFFICES ASSUME Inv, wait_workers PROVE Inv'
  OBVIOUS
<1>0. /\ TypeOK /\ ChildrenTracked /\ WorkersCurrent /\ MaxWorkers \in Nat
      /\ pc = "wait" /\ i <= worker_count /\ interrupted = FALSE
      /\ 0 \notin Pids
      /\ \A k \in 0..(i - 1) : worker_pids[k] = 0
      /\ UNCHANGED <<next, worker_count, g_reload, g_shutdown, cfg, new_cfg,
                     listeners>>
  BY MasterAssumption DEF Inv, AtPoint, wait_workers
<1>1. CASE i = worker_count
  <2>1. /\ pc' = next /\ i' = 0 /\ UNCHANGED <<proc, worker_pids, interrupted>>
    BY <1>0, <1>1 DEF wait_workers, Goto
  <2>2. NoChild
    BY <1>0, <1>1 DEF NoChild, ChildrenTracked, Tracked
  <2>3. TypeOK'
    BY <1>0, <2>1 DEF TypeOK, AllPorts, ProcT
  <2>4. ChildrenTracked' /\ WorkersCurrent'
    BY <1>0, <2>1 DEF ChildrenTracked, Tracked, WorkersCurrent, Live
  <2>5. AtPoint'
    BY <1>0, <2>1, <2>2 DEF AtPoint, NoChild, TypeOK
  <2>. QED
    BY <1>0, <2>1, <2>3, <2>4, <2>5 DEF Inv
<1>2. CASE i # worker_count
  <2>. DEFINE p == worker_pids[i]
  <2>1. /\ i \in Slots /\ i \in 0..(worker_count - 1) /\ i' = i + 1
        /\ pc' = "wait" /\ interrupted' = FALSE
        /\ worker_pids' = [worker_pids EXCEPT ![i] = 0]
    BY <1>0, <1>2 DEF wait_workers, TypeOK, Slots
  <2>2. \/ p = 0 /\ proc' = proc
        \/ p \in Pids /\ proc[p].st = "none" /\ proc' = proc
        \/ p \in Pids /\ proc' = [proc EXCEPT ![p] = NoProc]
    BY <1>0, <1>2 DEF wait_workers
  <2>3. /\ proc' \in [Pids -> ProcT]
        /\ \A q \in Pids : \/ proc'[q] = proc[q] /\ (q = p => proc[q].st = "none")
                           \/ proc'[q].st = "none"
    <3>1. NoProc \in ProcT /\ NoProc.st = "none"
      BY DEF NoProc, ProcT
    <3>. QED
      BY <1>0, <2>2, <3>1 DEF TypeOK
  <2>4. /\ worker_pids' \in [Slots -> Pids \cup {0}] /\ worker_pids'[i] = 0
        /\ \A k \in Slots : k # i => worker_pids'[k] = worker_pids[k]
    BY <1>0, <2>1 DEF TypeOK
  <2>5. TypeOK'
    <3>1. i' \in 0..MaxWorkers
      BY <1>0, <2>1 DEF TypeOK
    <3>. QED
      BY <1>0, <2>1, <2>3, <2>4, <3>1 DEF TypeOK, AllPorts, ProcT
  <2>6. WorkersCurrent'
    BY <1>0, <2>3 DEF WorkersCurrent, Live
  <2>7. ChildrenTracked'
    <3>. SUFFICES ASSUME NEW q \in Pids, proc'[q].st # "none"
                  PROVE  \E k \in 0..(worker_count - 1) : worker_pids'[k] = q
      BY <1>0 DEF ChildrenTracked, Tracked
    <3>1. proc'[q] = proc[q] /\ q # p
      BY <2>3
    <3>2. PICK k \in 0..(worker_count - 1) : worker_pids[k] = q
      BY <1>0, <3>1 DEF ChildrenTracked, Tracked
    <3>3. k # i /\ k \in Slots
      BY <1>0, <3>1, <3>2 DEF Slots, TypeOK
    <3>. QED
      BY <2>4, <3>2, <3>3
  <2>8. AtPoint'
    <3>1. \A k \in 0..i : worker_pids'[k] = 0
      <4>. SUFFICES ASSUME NEW k \in 0..i PROVE worker_pids'[k] = 0
        OBVIOUS
      <4>1. k = i \/ (k \in 0..(i - 1) /\ k \in Slots /\ k # i)
        BY <1>0, <2>1 DEF Slots, TypeOK
      <4>. QED
        BY <1>0, <2>4, <4>1
    <3>. QED
      BY <1>0, <2>1, <3>1 DEF AtPoint, TypeOK
  <2>. QED
    BY <2>1, <2>5, <2>6, <2>7, <2>8 DEF Inv
<1>. QED
  BY <1>1, <1>2

\* After the wait there is no child: rebind, or exit.
LEMMA RebindExitInv == Inv /\ (Rebind \/ Exit) => Inv'
<1>. SUFFICES ASSUME Inv, Rebind \/ Exit PROVE Inv'
  OBVIOUS
<1>0. /\ TypeOK /\ MaxWorkers \in Nat /\ NoChild /\ i' = 0
      /\ UNCHANGED <<next, worker_pids, g_reload, g_shutdown, new_cfg,
                     interrupted, proc>>
  BY MasterAssumption DEF Inv, AtPoint, Rebind, Exit, Goto
<1>1. /\ pc' \in {"spawn", "done"} /\ cfg' \in Configs
      /\ worker_count' \in 0..MaxWorkers /\ listeners' \subseteq AllPorts
  <2>1. CASE Rebind
    BY <1>0, <2>1, WorkerCountType, PortsIn DEF Rebind, Goto, TypeOK
  <2>2. CASE Exit
    BY <1>0, <2>2 DEF Exit, Goto, TypeOK
  <2>. QED
    BY <2>1, <2>2
<1>2. TypeOK'
  BY <1>0, <1>1 DEF TypeOK, AllPorts, ProcT
<1>3. ChildrenTracked' /\ WorkersCurrent'
  BY <1>0 DEF NoChild, ChildrenTracked, WorkersCurrent, Live
<1>4. AtPoint'
  BY <1>0, <1>1 DEF AtPoint, NoChild, TypeOK
<1>. QED
  BY <1>0, <1>2, <1>3, <1>4 DEF Inv

\* A signal sets a flag.
LEMMA SignalInv == Interrupts = FALSE /\ Inv /\ Signal => Inv'
<1>. SUFFICES ASSUME Interrupts = FALSE, Inv, Signal PROVE Inv'
  OBVIOUS
<1>1. /\ g_reload' \in BOOLEAN /\ g_shutdown' \in BOOLEAN
      /\ interrupted' = interrupted
      /\ UNCHANGED <<pc, i, next, worker_pids, worker_count, cfg, new_cfg,
                     listeners, proc>>
  BY DEF Signal, Inv, TypeOK
<1>2. TypeOK'
  BY <1>1 DEF Inv, TypeOK, AllPorts, ProcT
<1>3. ChildrenTracked' /\ WorkersCurrent' /\ AtPoint'
  BY <1>1 DEF Inv, ChildrenTracked, Tracked, WorkersCurrent, Live, AtPoint, NoChild
<1>. QED
  BY <1>1, <1>2, <1>3 DEF Inv

\* Inv is inductive.
LEMMA NextInv == Interrupts = FALSE /\ Inv /\ [Next]_vars => Inv'
<1>. SUFFICES ASSUME Interrupts = FALSE, Inv, [Next]_vars PROVE Inv'
  OBVIOUS
<1>1. CASE UNCHANGED vars
  BY <1>1 DEF vars, Inv, TypeOK, ChildrenTracked, Tracked, WorkersCurrent, Live,
     AtPoint, NoChild, AllPorts, ProcT
<1>2. CASE MasterStep
  BY <1>2, SpawnNextInv, ControlInv, ReapInv, RespawnInv, KillInv, WaitInv,
     RebindExitInv DEF MasterStep
<1>. QED
  BY <1>1, <1>2, SignalInv, ChildInv DEF Next

\* Every child of master_run that exists is in worker_pids, so that it can be
\* signalled and waited for, as long as no signal interrupts a blocked waitpid.
THEOREM ChildrenAccounted ==
  ASSUME Interrupts = FALSE
  PROVE  Spec => []ChildrenTracked
<1>1. Inv => ChildrenTracked
  BY DEF Inv
<1>. QED
  BY <1>1, InitInv, NextInv, PTL DEF Spec

\* Every live worker has the configuration and the sockets of the moment,
\* through any sequence of reloads and crashes.
THEOREM WorkersFollowReload ==
  ASSUME Interrupts = FALSE
  PROVE  Spec => []WorkersCurrent
<1>1. Inv => WorkersCurrent
  BY DEF Inv
<1>. QED
  BY <1>1, InitInv, NextInv, PTL DEF Spec

\* When master_run returns no worker is left.
THEOREM WorkersEndFirst ==
  ASSUME Interrupts = FALSE
  PROVE  Spec => []NoWorkerOutlives
<1>1. Inv => NoWorkerOutlives
  BY DEF Inv, AtPoint, NoChild, NoWorkerOutlives
<1>. QED
  BY <1>1, InitInv, NextInv, PTL DEF Spec
=============================================================================
