------------------------------ MODULE Startup ------------------------------
(***************************************************************************)
(* Processes from main to exit: main.c, daemon.c, module.c, and the        *)
(* listening sockets.  Several processes may be started on one             *)
(* configuration file, one after the other or side by side; they share the *)
(* file and the pid files.  What happens inside master_run is in Master;   *)
(* here a reload is one step.                                              *)
(***************************************************************************)
EXTENDS ConfigFile

CONSTANTS
  Procs,        \* the processes, in any order
  Files,        \* contents of the configuration file
  TestFiles,    \* further contents, tried once and with -t only
  CONFIG_MAX_MODULES,
  Overlap,      \* may a process be started while another is running?
  Daemons,      \* values of the option -d
  Faults        \* {"file", "module", "bind", "fork", "pid_file", "kill"}: what may fail

NOBODY == "nobody"

ASSUME StartupAssumption ==
  /\ NOBODY \notin Procs /\ Overlap \in BOOLEAN /\ Daemons \subseteq BOOLEAN
  /\ Faults \subseteq {"file", "module", "bind", "fork", "pid_file", "kill"}

VARIABLES
  file,         \* the configuration file
  pc,           \* where a process is
  read,         \* the contents its configuration comes from
  cfg,          \* its np_config_t
  detach,       \* the option -d
  g_modules,    \* paths of the modules that are loaded and initialised
  listeners,    \* ports of its listening sockets
  unbound,      \* history: the servers whose socket could not be made
  pid_path,     \* the path it wrote its pid to
  pids          \* the pid in each pid file

vars == <<file, pc, read, cfg, detach, g_modules, listeners, unbound, pid_path, pids>>

Paths == {config_load(f).global[pid_file] : f \in Files}

Unread == [servers |-> <<>>, global |-> DefaultGlobal]

Ended == {"failed", "done", "killed"}

Alive(p) == pc[p] \notin {"new"} \cup Ended

Init ==
  /\ file \in Files \cup TestFiles
  /\ pc = [p \in Procs |-> "new"] /\ read = [p \in Procs |-> <<>>]
  /\ cfg = [p \in Procs |-> Unread] /\ detach = [p \in Procs |-> FALSE]
  /\ g_modules = [p \in Procs |-> <<>>] /\ listeners = [p \in Procs |-> <<>>]
  /\ unbound = [p \in Procs |-> {}]
  /\ pid_path = [p \in Procs |-> ""] /\ pids = [path \in Paths |-> NOBODY]

Go(p, label) == pc' = [pc EXCEPT ![p] = label]

\* Someone edits the file.
Edit ==
  /\ file \in Files /\ file' \in Files \ {file}
  /\ UNCHANGED <<pc, read, cfg, detach, g_modules, listeners, unbound, pid_path, pids>>

\* getopt and config_load; -t and -d are the options that matter.
Start(p) ==
  /\ pc[p] = "new" /\ (Overlap \/ \A q \in Procs : ~Alive(q))
  /\ file \in Files \/ \A q \in Procs : pc[q] = "new"
  /\ \/ "file" \in Faults /\ Go(p, "failed") /\ UNCHANGED <<read, cfg, detach>>
     \/ /\ read' = [read EXCEPT ![p] = file]
        /\ cfg' = [cfg EXCEPT ![p] = config_load(file)]
        /\ \/ Go(p, "test_modules") /\ detach' = detach
           \/ /\ file \in Files /\ Go(p, "modules")
              /\ \E d \in Daemons : detach' = [detach EXCEPT ![p] = d]
  /\ UNCHANGED <<file, g_modules, listeners, unbound, pid_path, pids>>

ModulePaths(c) == FlattenSeq([i \in DOMAIN c.servers |-> c.servers[i][load_module]])

\* A module that does not load ends main; those before it stay as they are.
module_load_all(p) ==
  /\ pc[p] \in {"modules", "test_modules"}
  /\ LET paths == ModulePaths(cfg[p])
     IN  \E n \in (IF "module" \in Faults THEN 0..Len(paths) ELSE {Len(paths)}) :
           /\ g_modules' = [g_modules EXCEPT ![p] = SubSeq(paths, 1, n)]
           /\ Go(p, CASE n < Len(paths)           -> "failed"
                      [] pc[p] = "test_modules"   -> "done"
                      [] OTHER                    -> "bind")
  /\ UNCHANGED <<file, read, cfg, detach, listeners, unbound, pid_path, pids>>

-----------------------------------------------------------------------------
(* The listening sockets: main.c 78-102 and master.c 108-134 *)

PortsOf(c) == [i \in DOMAIN c.servers |-> c.servers[i][listen_port]]

\* Mutant: only the port of the server before is looked at.
BoundAfterLast(ports, failing) ==
  FoldLeftDomain(LAMBDA bound, i :
                   IF (i > 1 /\ ports[i - 1] = ports[i]) \/ i \in failing THEN bound
                   ELSE Append(bound, ports[i]),
                 <<>>, ports)

\* The sockets for ports, when the calls for the servers in failing fail.  A
\* port that is bound already is not tried again.
Bound(ports, failing) ==
  FoldLeftDomain(LAMBDA bound, i :
                   IF ports[i] \in ToSet(bound) \/ i \in failing THEN bound
                   ELSE Append(bound, ports[i]),
                 <<>>, ports)

\* A socket that cannot be made ends main.
BindListeners(p) ==
  /\ pc[p] = "bind"
  /\ \/ "bind" \in Faults /\ Go(p, "failed") /\ listeners' = listeners
     \/ /\ listeners' = [listeners EXCEPT ![p] = Bound(PortsOf(cfg[p]), {})]
        /\ Go(p, IF detach[p] \/ cfg[p].global[daemon] THEN "fork" ELSE "run")
  /\ UNCHANGED <<file, read, cfg, detach, g_modules, unbound, pid_path, pids>>

\* master.c on SIGHUP: a file that cannot be read changes nothing; a socket that
\* cannot be made is left out.  The modules stay.
Reload(p) ==
  /\ pc[p] = "run"
  /\ LET c == config_load(file)
         ports == PortsOf(c)
     IN  \E failing \in (IF "bind" \in Faults THEN SUBSET DOMAIN ports ELSE {{}}) :
           /\ cfg' = [cfg EXCEPT ![p] = c] /\ read' = [read EXCEPT ![p] = file]
           /\ listeners' = [listeners EXCEPT ![p] = Bound(ports, failing)]
           /\ unbound' = [unbound EXCEPT ![p] = failing]
  /\ UNCHANGED <<file, pc, detach, g_modules, pid_path, pids>>

-----------------------------------------------------------------------------
(* daemon.c *)

\* The two forks of daemonize: the first process exits here, and whoever started
\* it goes on.
Fork(p) ==
  /\ pc[p] = "fork"
  /\ \/ "fork" \in Faults /\ Go(p, "failed")
     \/ Go(p, "pid_file")
  /\ UNCHANGED <<file, read, cfg, detach, g_modules, listeners, unbound, pid_path, pids>>

\* Mutant: the file is opened to append, so that its first line stays.
WritePidAppends(p) ==
  LET path == cfg[p].global[pid_file]
  IN  /\ pc[p] = "pid_file" /\ Go(p, "run") /\ path # ""
      /\ pids' = [pids EXCEPT ![path] = IF @ = NOBODY THEN p ELSE @]
      /\ pid_path' = [pid_path EXCEPT ![p] = path]
      /\ UNCHANGED <<file, read, cfg, detach, g_modules, listeners, unbound>>

\* Lines 39-45: a file that cannot be opened is passed over.
WritePid(p) ==
  LET path == cfg[p].global[pid_file]
  IN  /\ pc[p] = "pid_file" /\ Go(p, "run")
      /\ \/ (path = "" \/ "pid_file" \in Faults) /\ UNCHANGED <<pids, pid_path>>
         \/ /\ path # "" /\ pids' = [pids EXCEPT ![path] = p]
            /\ pid_path' = [pid_path EXCEPT ![p] = path]
      /\ UNCHANGED <<file, read, cfg, detach, g_modules, listeners, unbound>>

\* master_run or worker_run has returned: pid_file_remove, module_unload_all.
Exit(p) ==
  LET path == cfg[p].global[pid_file]
  IN  /\ pc[p] = "run" /\ Go(p, "done")
      /\ pids' = IF path = "" THEN pids ELSE [pids EXCEPT ![path] = NOBODY]
      /\ g_modules' = [g_modules EXCEPT ![p] = <<>>]
      /\ listeners' = [listeners EXCEPT ![p] = <<>>] /\ unbound' = [unbound EXCEPT ![p] = {}]
      /\ UNCHANGED <<file, read, cfg, detach, pid_path>>

\* The process dies; its files stay.
Killed(p) ==
  /\ "kill" \in Faults /\ Alive(p) /\ Go(p, "killed")
  /\ listeners' = [listeners EXCEPT ![p] = <<>>] /\ unbound' = [unbound EXCEPT ![p] = {}]
  /\ g_modules' = [g_modules EXCEPT ![p] = <<>>]
  /\ UNCHANGED <<file, read, cfg, detach, pid_path, pids>>

Next ==
  \/ Edit
  \/ \E p \in Procs : \/ Start(p) \/ module_load_all(p) \/ BindListeners(p) \/ Fork(p)
                      \/ WritePid(p) \/ Reload(p) \/ Exit(p) \/ Killed(p)

Spec == Init /\ [][Next]_vars

-----------------------------------------------------------------------------
Running(p) == pc[p] = "run"

Detached(p) == detach[p] \/ cfg[p].global[daemon]

\* docs/configuration.md:70, "per-server block": every server of the configuration
\* has exactly the settings of its own block, the last of each key, and the
\* defaults for the others; no line leaks into another block.
ConfigByBlock ==
  \A p \in Procs : Alive(p) /\ Cardinality(Blocks(read[p])) <= CONFIG_MAX_SERVERS
    => cfg[p] = Means(read[p])

\* docs/virtual-hosts.md:158, "binds the port once and shares the listener": a
\* running process has one socket for each port of its servers and no other,
\* after the start and after every reload; a port is left out only if no
\* server could get a socket for it.
ListenersServe ==
  \A p \in Procs : Running(p) =>
    LET ports == PortsOf(cfg[p])
    IN  /\ IsInjective(listeners[p])
        /\ ToSet(listeners[p]) = {ports[i] : i \in DOMAIN ports \ unbound[p]}

\* README.md:105, "kill -HUP $(cat /run/nproxy.pid)": the pid file names the
\* running daemon, also after an earlier one was killed and left its file, and
\* no file names a process that has ended by itself.
PidFileNames ==
  \A p \in Procs :
    /\ Running(p) /\ pid_path[p] # "" => pids[pid_path[p]] = p
    /\ pc[p] = "done" => \A path \in Paths : pids[path] # p

\* README.md:184, "-d  Daemonize (background mode with PID file)": the pid file
\* is there once the command has returned.
PidFileReady ==
  \A p \in Procs : pc[p] \in {"pid_file", "run"} /\ Detached(p)
    => pids[cfg[p].global[pid_file]] = p

\* docs/modules.md:17, "up to 16 per server block": the modules of all servers
\* fit the one table they are put into.
ModulesFit == \A p \in Procs : Len(g_modules[p]) <= CONFIG_MAX_MODULES

\* docs/modules.md, "Called at shutdown for cleanup": a process that has ended by
\* itself has destroyed every module that it had initialised.
ModulesDestroyed == \A p \in Procs : pc[p] \in {"failed", "done"} => g_modules[p] = <<>>

\* docs/modules.md:196, "requires restart or SIGHUP": the loaded modules are those
\* of the configuration in force.
ModulesCurrent ==
  \A p \in Procs : Running(p) => g_modules[p] = ModulePaths(cfg[p])

\* docs/virtual-hosts.md:157, "Maximum server blocks: 16": a block beyond the
\* limit leaves the servers before it as they are.
BlocksBeyondIgnored ==
  \A p \in Procs : Alive(p) =>
    LET meant == Means(read[p]).servers
    IN  cfg[p].servers = SubSeq(meant, 1, Min({Len(meant), CONFIG_MAX_SERVERS}))

\* docs/configuration.md:75: a server has the documented defaults, whichever
\* block of the file it comes from.
DefaultsUniform ==
  \A p \in Procs : Alive(p) =>
    \A i \in DOMAIN cfg[p].servers, f \in ServerFields \ Lists :
      {n \in Setting(read[p], f) : BlockOf(read[p], n) = i} = {}
        => cfg[p].servers[i][f] = FirstServer[f]
=============================================================================
