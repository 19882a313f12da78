---------------------------- MODULE ServerDiscovery ----------------------------
(***************************************************************************)
(* How the hook servers of one machine replace each other and how hooks    *)
(* and the command line find one: the lock file of every server, the one   *)
(* port file they share (server/ensure.go, lock.go, discover.go), and the  *)
(* programs that start a server: the TUI, `lazyclaude setup`, the daemon.  *)
(* Editors with a Claude extension keep lock files in the same directory.  *)
(*                                                                         *)
(* A `setup` and the detached server it starts are one process here, the   *)
(* second begins where the first ends; so are a TUI whose own server could *)
(* not start and the server it starts instead.  The system hands out a     *)
(* port once: ephemeral ports are not used again within an execution.      *)
(***************************************************************************)
EXTENDS Naturals, FiniteSets

CONSTANTS
  TUIs, Setups, Daemons,  (* the processes                                 *)
  Editors,                (* programs of others: VS Code, JetBrains        *)
  Nobody,                 (* owner of no lock                              *)
  Ports,                  (* ports of the servers; 0 is none               *)
  Launches,               (* bound: processes launched                     *)
  Crashes,                (* bound: processes killed without a clean up    *)
  Quits                   (* bound: TUIs and daemons asked to end          *)

Procs == TUIs \cup Setups \cup Daemons
Programs == Procs \cup Editors

ASSUME DiscoveryAssumption ==
  /\ Ports \subseteq Nat \ {0} /\ Nobody \notin Programs
  /\ Editors \cap Procs = {}
  /\ TUIs \cap Setups = {} /\ TUIs \cap Daemons = {} /\ Setups \cap Daemons = {}
  /\ {Launches, Crashes, Quits} \subseteq Nat

VARIABLES
  pc,         (* where each process is                                     *)
  port,       (* the port each process listens on                          *)
  locks,      (* ~/.claude/ide/<port>.lock: the pid in it                  *)
  portFile,   (* the port in the shared port file, 0: no file              *)
  fresh,      (* the port file is younger than restartDebounce             *)
  target,     (* the port a process read from the port file                *)
  scan,       (* the lock files a process still has to look at             *)
  detached,   (* processes that stand for a detached server                *)
  signalled,  (* processes that were sent SIGINT                           *)
  ended,      (* processes that crashed or were asked to end               *)
  crashed, quit

files == <<locks, portFile, fresh>>
history == <<signalled, ended, crashed, quit>>
discoveryVars == <<pc, port, files, target, scan, detached, history>>

Idle == {"off", "dead", "done"}
Ending == {"closed"}
Launching == {"check", "stop", "restart", "ensure", "kill", "unport", "listen"}
Started == {"clean", "portfile", "except", "starting", "serving"}
Stopping == {"unlock", "close"}

Alive(p) == pc[p] \notin Idle
Listening(p) == pc[p] \in Started \cup Stopping \cup {"open"}
Owners(n) == {p \in Programs : port[p] = n /\ Listening(p)}
\* isServerAlive.
Reachable(n) == Owners(n) # {}
Locked == {n \in Ports : locks[n] # Nobody}

DiscoveryTypeOK ==
  /\ pc \in [Programs -> Idle \cup Launching \cup Started \cup Stopping \cup Ending \cup {"open"}]
  /\ port \in [Programs -> Ports \cup {0}]
  /\ locks \in [Ports -> Programs \cup {Nobody}]
  /\ portFile \in Ports \cup {0} /\ fresh \in BOOLEAN
  /\ target \in [Procs -> Ports \cup {0}] /\ scan \in [Procs -> SUBSET Ports]
  /\ detached \subseteq Procs /\ signalled \subseteq Programs /\ ended \subseteq Procs
  /\ crashed \in 0 .. Crashes /\ quit \in 0 .. Quits

DiscoveryInit ==
  /\ pc = [p \in Programs |-> "off"] /\ port = [p \in Programs |-> 0]
  /\ locks = [n \in Ports |-> Nobody] /\ portFile = 0 /\ fresh = FALSE
  /\ target = [p \in Procs |-> 0] /\ scan = [p \in Procs |-> {}]
  /\ detached = {} /\ signalled = {} /\ ended = {} /\ crashed = 0 /\ quit = 0

Goto(p, l) == pc' = [pc EXCEPT ![p] = l]
MayLaunch == Cardinality({q \in Programs : pc[q] # "off"}) < Launches
\* The system hands out a port nobody has had.
Bind(p) == \E n \in Ports : n \notin Locked /\ (\A q \in Programs : port[q] # n) /\ port' = [port EXCEPT ![p] = n]

-----------------------------------------------------------------------------
(* Launching.                                                              *)

\* A TUI first looks for a server to stop, a setup restarts one, a daemon
\* starts its own at once.
Launch(p) ==
  /\ pc[p] = "off" /\ MayLaunch
  /\ Goto(p, IF p \in TUIs THEN "check" ELSE IF p \in Setups THEN "restart" ELSE "listen")
  /\ UNCHANGED <<port, files, target, scan, detached, history>>

\* IsAlive of tryStartInProcessServer.
Check(p) ==
  /\ pc[p] = "check" /\ Goto(p, IF portFile # 0 /\ Reachable(portFile) THEN "stop" ELSE "listen")
  /\ UNCHANGED <<port, files, target, scan, detached, history>>

\* StopDaemon reads the port file again.
StopDaemon(p) ==
  /\ pc[p] = "stop" /\ target' = [target EXCEPT ![p] = portFile]
  /\ Goto(p, IF portFile = 0 THEN "listen" ELSE "kill")
  /\ UNCHANGED <<port, files, scan, detached, history>>

RestartServer(p) ==
  /\ pc[p] = "restart" /\ target' = [target EXCEPT ![p] = portFile]
  /\ Goto(p, IF portFile = 0 THEN "listen"
             ELSE IF fresh /\ Reachable(portFile) THEN "done" ELSE "kill")
  /\ UNCHANGED <<port, files, scan, detached, history>>

\* SIGINT: a TUI ignores it once the GUI is up, a server or a daemon that
\* serves stops; a process that is still starting has the default action.
Signalled(q) ==
  CASE pc[q] = "serving" /\ q \in TUIs \ detached -> pc[q]
    [] pc[q] = "serving" -> "unlock"
    [] pc[q] \in Stopping \cup Ending \cup Idle -> pc[q]
    [] OTHER -> "dead"

\* killServerOnPort: the owner of the lock is signalled, the lock removed.
KillServerOnPort(p) ==
  /\ pc[p] = "kill"
  /\ LET q == locks[target[p]]
     IN IF q = Nobody
        THEN Goto(p, "unport") /\ UNCHANGED <<locks, signalled>>
        ELSE /\ pc' = [pc EXCEPT ![p] = "unport", ![q] = Signalled(q)]
             /\ locks' = [locks EXCEPT ![target[p]] = Nobody]
             /\ signalled' = signalled \cup {q}
  /\ UNCHANGED <<port, portFile, fresh, target, scan, detached, ended, crashed, quit>>

\* The port file goes, whoever has written it by now.
RemovePortFile(p) ==
  /\ pc[p] = "unport" /\ Goto(p, "listen")
  /\ portFile' = 0 /\ fresh' = FALSE /\ target' = [target EXCEPT ![p] = 0]
  /\ UNCHANGED <<port, locks, scan, detached, history>>

-----------------------------------------------------------------------------
(* Server.Start.                                                           *)

\* A setup hands over to the server it has started.
Listen(p) ==
  /\ pc[p] = "listen" /\ Goto(p, "clean") /\ Bind(p)
  /\ scan' = [scan EXCEPT ![p] = Locked]
  /\ detached' = IF p \in Setups THEN detached \cup {p} ELSE detached
  /\ UNCHANGED <<files, target, history>>

\* The server of a TUI does not start: EnsureServer takes over.
StartFails(p) ==
  /\ pc[p] = "listen" /\ p \in TUIs \ detached
  /\ Goto(p, "ensure") /\ detached' = detached \cup {p}
  /\ UNCHANGED <<port, files, target, scan, history>>

EnsureServer(p) ==
  /\ pc[p] = "ensure"
  /\ IF portFile # 0 /\ Reachable(portFile)
     THEN Goto(p, "done") /\ UNCHANGED <<portFile, fresh>>
     ELSE Goto(p, "listen") /\ portFile' = 0 /\ fresh' = FALSE
  /\ UNCHANGED <<port, locks, target, scan, detached, history>>

\* Mutant of Stale: whatever the port file does not name.
NotCurrent(n) == n # portFile

\* A lock is stale if its process is gone or its port unreachable.
Stale(n) == ~Alive(locks[n]) \/ ~Reachable(n)

\* CleanStale, one lock file.
CleanStale(p, n) ==
  /\ pc[p] = "clean" /\ n \in scan[p] /\ scan' = [scan EXCEPT ![p] = @ \ {n}]
  /\ locks' = IF locks[n] # Nobody /\ Stale(n) THEN [locks EXCEPT ![n] = Nobody] ELSE locks
  /\ UNCHANGED <<pc, port, portFile, fresh, target, detached, history>>

WriteLock(p) ==
  /\ pc[p] = "clean" /\ scan[p] = {} /\ Goto(p, "portfile")
  /\ locks' = [locks EXCEPT ![port[p]] = p]
  /\ UNCHANGED <<port, portFile, fresh, target, scan, detached, history>>

\* Mutant of WritePortFile: CleanAllExcept spares nothing.
CleanEvery(p) ==
  /\ pc[p] = "portfile"
  /\ (portFile' = port[p] /\ fresh' = TRUE) \/ UNCHANGED <<portFile, fresh>>
  /\ IF p \in TUIs \ detached
     THEN Goto(p, "except") /\ scan' = [scan EXCEPT ![p] = Locked]
     ELSE Goto(p, "starting") /\ UNCHANGED scan
  /\ UNCHANGED <<port, locks, target, detached, history>>

\* A failed write is only logged.  The TUI goes on with CleanAllExcept.
WritePortFile(p) ==
  /\ pc[p] = "portfile"
  /\ (portFile' = port[p] /\ fresh' = TRUE) \/ UNCHANGED <<portFile, fresh>>
  /\ IF p \in TUIs \ detached
     THEN Goto(p, "except") /\ scan' = [scan EXCEPT ![p] = Locked \ {port[p]}]
     ELSE Goto(p, "starting") /\ UNCHANGED scan
  /\ UNCHANGED <<port, locks, target, detached, history>>

\* CleanAllExcept, one lock file: its owner is signalled, the lock removed,
\* unless the lock is an editor's.
CleanAllExcept(p, n) ==
  /\ pc[p] = "except" /\ n \in scan[p] /\ scan' = [scan EXCEPT ![p] = @ \ {n}]
  /\ IF locks[n] \in Editors \cup {Nobody}
     THEN UNCHANGED <<pc, locks, signalled>>
     ELSE /\ pc' = [pc EXCEPT ![locks[n]] = Signalled(locks[n])]
          /\ signalled' = signalled \cup {locks[n]}
          /\ locks' = [locks EXCEPT ![n] = Nobody]
  /\ UNCHANGED <<port, portFile, fresh, target, detached, ended, crashed, quit>>

CleanedAll(p) ==
  /\ pc[p] = "except" /\ scan[p] = {} /\ Goto(p, "starting")
  /\ UNCHANGED <<port, files, target, scan, detached, history>>

\* NewGui installs its handler for SIGINT, a server or a daemon waits for it.
Serve(p) ==
  /\ pc[p] = "starting" /\ Goto(p, "serving")
  /\ UNCHANGED <<port, files, target, scan, detached, history>>

-----------------------------------------------------------------------------
(* Server.Stop and the end of a process.                                   *)

\* The user quits the TUI; POST /shutdown reaches the daemon.
AskToEnd(p) ==
  /\ pc[p] = "serving" /\ p \in (TUIs \cup Daemons) \ detached
  /\ quit < Quits /\ quit' = quit + 1 /\ ended' = ended \cup {p} /\ Goto(p, "unlock")
  /\ UNCHANGED <<port, files, target, scan, detached, signalled, crashed>>

\* Mutant of RemoveLock: the lock file stays.
KeepLock(p) ==
  /\ pc[p] = "unlock" /\ Goto(p, "close")
  /\ UNCHANGED <<port, files, target, scan, detached, history>>

\* Stop removes the lock file of its port before the listener is closed.
RemoveLock(p) ==
  /\ pc[p] = "unlock" /\ Goto(p, "close")
  /\ locks' = [locks EXCEPT ![port[p]] = Nobody]
  /\ UNCHANGED <<port, portFile, fresh, target, scan, detached, history>>

Shutdown(p) ==
  /\ pc[p] = "close" /\ Goto(p, "closed")
  /\ UNCHANGED <<port, files, target, scan, detached, history>>

\* The program ends after its deferred calls.
Exit(p) ==
  /\ pc[p] = "closed" /\ Goto(p, "dead")
  /\ UNCHANGED <<port, files, target, scan, detached, history>>

Crash(p) ==
  /\ Alive(p) /\ crashed < Crashes /\ crashed' = crashed + 1 /\ ended' = ended \cup {p}
  /\ Goto(p, "dead")
  /\ UNCHANGED <<port, files, target, scan, detached, signalled, quit>>

-----------------------------------------------------------------------------
(* Editors.                                                                *)

\* An editor's server with its lock file of another app.
OpenEditor(e) ==
  /\ pc[e] = "off" /\ MayLaunch /\ Goto(e, "open") /\ Bind(e)
  /\ \E n \in Ports : port'[e] = n /\ locks' = [locks EXCEPT ![n] = e]
  /\ UNCHANGED <<portFile, fresh, target, scan, detached, history>>

\* It ends, its lock file may stay.
CloseEditor(e) ==
  /\ pc[e] = "open" /\ Goto(e, "dead")
  /\ locks' = [locks EXCEPT ![port[e]] = Nobody] \/ UNCHANGED locks
  /\ UNCHANGED <<port, portFile, fresh, target, scan, detached, history>>

\* restartDebounce has passed.
Age ==
  /\ fresh /\ fresh' = FALSE
  /\ UNCHANGED <<pc, port, locks, portFile, target, scan, detached, history>>

Progress(p) ==
  \/ Check(p) \/ StopDaemon(p) \/ RestartServer(p) \/ KillServerOnPort(p) \/ RemovePortFile(p)
  \/ Listen(p) \/ EnsureServer(p) \/ WriteLock(p) \/ WritePortFile(p) \/ CleanedAll(p) \/ Serve(p)
  \/ RemoveLock(p) \/ Shutdown(p) \/ Exit(p)
  \/ \E n \in Ports : CleanStale(p, n) \/ CleanAllExcept(p, n)

DiscoveryNext ==
  \/ \E p \in Procs : Launch(p) \/ Progress(p) \/ StartFails(p) \/ AskToEnd(p) \/ Crash(p)
  \/ \E e \in Editors : OpenEditor(e) \/ CloseEditor(e)
  \/ Age

DiscoverySpec == DiscoveryInit /\ [][DiscoveryNext]_discoveryVars

\* A process that has begun goes on.
DiscoveryFairSpec == DiscoverySpec /\ \A p \in Procs : WF_discoveryVars(Progress(p))

-----------------------------------------------------------------------------
(* Properties                                                              *)

\* findAliveLockJS: the locks that name a live process, an editor's too.
HookPorts == {n \in Locked : Alive(locks[n])}
\* DiscoverServer: the locks of lazyclaude whose port accepts a connection.
CliPorts == {n \in Locked : locks[n] \notin Editors /\ Reachable(n)}
\* Both take the highest.
Highest(ports, n) == n \in ports /\ \A m \in ports : m =< n

\* Hooks, which only look at the pid of a lock, and the command line, which
\* dials its port, take the same server, and it is the one that listens there
\* (discover.go:19 "matching the hooks' behavior"); except that hooks go to an
\* editor while the lock of one has a port above every server's.
HooksAndCliAgree ==
  \A n \in Ports :
    /\ Highest(HookPorts, n) => locks[n] \in Owners(n) /\ (locks[n] \in Editors \/ Highest(CliPorts, n))
    /\ Highest(CliPorts, n) => Highest(HookPorts, n) \/ \E m \in HookPorts : m > n /\ locks[m] \in Editors

\* A server that has started and that nobody has sent a signal keeps its
\* lock file: neither the clean up of another start nor the removal of a
\* replaced server's files takes it away.
ServingIsDiscoverable ==
  \A p \in Procs : pc[p] \in {"portfile", "except", "starting", "serving"} /\ p \notin signalled => locks[port[p]] = p

\* However a TUI, setups and daemons replace each other's servers: once one
\* of them was launched, and unless a process has crashed or was asked to end,
\* there is a server for the hooks to find from some time on.
HooksFindServer ==
  <>[]((\E p \in Procs : pc[p] # "off") => (\E n \in HookPorts : locks[n] \in Procs) \/ ended # {})
=============================================================================
