----------------------------- MODULE MCStartup -----------------------------
EXTENDS Startup

AtoiDef == [v \in {"80", "81", "65617", "yes", "m"} |->
              CASE v = "80" -> 80 [] v = "81" -> 81 [] v = "65617" -> 65617 [] OTHER -> 0]

\* Every file of at most MaxLines of these lines: blocks, a block with a longer
\* name, sections of a block, keys that occur in one section, in several and
\* in none, a list, a port beyond 16 bits, and noise.
MaxLines == 4

Alphabet ==
  {Section("server"), Section("server2"), Section("proxy"), Section("upstream"),
   Set("listen_port", "65617"), Set("listen_port", "80"), Set("enabled", "yes"),
   Set("load_module", "m"), Set("backend", <<"h">>), Noise}

AllFiles == UNION {[1..n -> Alphabet] : n \in 0..MaxLines}

\* A server with a module; two servers on two ports; three that share a port
\* around another one.  All of them are daemons with one pid file.
OneServer(path) ==
  <<Section("server"), Set("listen_port", "80"), Set("load_module", "m"),
    Section("process"), Set("daemon", "yes"), Set("pid_file", path)>>

TwoPorts ==
  <<Section("process"), Set("daemon", "yes"), Set("pid_file", "p"),
    Section("server"), Set("listen_port", "80"), Section("proxy"), Set("enabled", "yes"),
    Section("server"), Set("listen_port", "81")>>

SharedPort ==
  <<Section("server"), Set("listen_port", "80"), Section("process"), Set("pid_file", "p"),
    Section("server"), Set("listen_port", "81"), Set("load_module", "m"),
    Section("server"), Set("listen_port", "80"), Set("load_module", "m")>>

LiveFiles == {OneServer("p"), TwoPorts, SharedPort}

MovedPidFile == {OneServer("p"), OneServer("q")}

NoFiles == {}

Symmetry == Permutations(Procs)
============================================================================
