------------------------------- MODULE Daemon -------------------------------
(***************************************************************************)
(* The processes of greyd, how they are started, and how they end.  The    *)
(* process that is started becomes the scanner.  It forks the firewall     *)
(* process, the main process (which serves the clients) and the reader.    *)
(* None of them is waited for: they learn of each other's end by SIGCHLD,  *)
(* by the hangup of a pipe, or by SIGTERM.                                 *)
(*                                                                         *)
(*   - the scanner ends when a signal, SIGCHLD included, has set its flag; *)
(*     it then signals the main process and the reader;                    *)
(*   - the main process ends on a signal or when the trap pipe has no      *)
(*     writer; it then signals the firewall process;                       *)
(*   - the reader ends when the grey pipe has no writer, or when it finds  *)
(*     its flag set between two messages;                                  *)
(*   - the firewall process ends when it finds its flag set.               *)
(*                                                                         *)
(* A list is written into a pipe in `Chunks' pieces, and a pipe holds      *)
(* PipeSize of them.                                                       *)
(***************************************************************************)
EXTENDS Naturals

CONSTANTS
    Chunks,      \* pieces of a list of addresses
    PipeSize,    \* pieces a pipe holds
    Crashers,    \* processes that may die: killed, or by i_critical()
    Targets,     \* processes that may get a signal from outside
    MaxCrashes, MaxSignals, MaxClients, MaxScans   \* bounds

Procs == {"scanner", "fw", "main", "reader"}

ASSUME DaemonAssumption ==
    /\ {Chunks, PipeSize} \subseteq Nat \ {0}
    /\ Crashers \subseteq Procs /\ Targets \subseteq Procs
    /\ {MaxCrashes, MaxSignals, MaxClients, MaxScans} \subseteq Nat

VARIABLES
    at,        \* where each process is
    flag,      \* its shutdown flag
    trap,      \* pieces in the pipe scanner -> main process
    fwp,       \* pieces in the pipe scanner -> firewall process
    sent,      \* pieces of the current list the scanner has written
    part,      \* pieces of the current list the firewall process has read
    grey,      \* messages in the pipe main process -> reader
    orderly,   \* has the main process gone through its shutdown code?
    pidfile,   \* is the pidfile there?
    crashes, signals, clients, scans   \* how much of the bounds is used

bounds == <<crashes, signals, clients, scans>>
pipes  == <<trap, fwp, sent, part, grey>>
vars   == <<at, flag, pipes, orderly, pidfile, bounds>>

Alive(p) == at[p] \notin {"none", "ended"}
Ended(p) == at[p] = "ended"

Init ==
    /\ at = [p \in Procs |-> IF p = "scanner" THEN "bind" ELSE "none"]
    /\ flag = [p \in Procs |-> FALSE]
    /\ trap = 0 /\ fwp = 0 /\ sent = 0 /\ part = 0 /\ grey = 0
    /\ orderly = FALSE
    /\ pidfile = FALSE
    /\ crashes = 0 /\ signals = 0 /\ clients = 0 /\ scans = 0

\* Who has installed a handler for SIGTERM; the reader inherits the scanner's.
Handles(p) ==
    at[p] \notin {"none", "ended", "bind", "pid", "forkfw", "forkmain",
                  "handlers", "born", "jail"}

\* The state of p after a signal.  Without a handler the signal ends it.  It
\* interrupts poll() and sleep(), and the read() of the firewall process,
\* whose handler is installed without SA_RESTART.
Signalled(p, a) ==
    IF a[p] \in {"none", "ended"} THEN a
    ELSE IF ~Handles(p) THEN [a EXCEPT ![p] = "ended"]
    ELSE [a EXCEPT ![p] = CASE p = "main" /\ @ = "poll" -> "check"
                            [] p = "scanner" /\ @ = "sleep" -> "check"
                            [] p = "fw" /\ @ = "read" -> "loop"
                            [] OTHER -> @]

Flagged(P) == [p \in Procs |-> flag[p] \/ (p \in P /\ Alive(p) /\ Handles(p))]

\* Mutant: SIGCHLD is not handled.
ChildEndedSilently(a, P) == at' = a /\ flag' = Flagged(P)

\* The processes go to a, with signals to P.  If one of the children ends in
\* this step the scanner gets SIGCHLD, which is lost unless it is handled.
ChildEnded(a, P) ==
    IF /\ \E p \in Procs \ {"scanner"} : Alive(p) /\ a[p] = "ended"
       /\ a["scanner"] \notin {"none", "ended"}
       /\ Handles("scanner")
    THEN at' = Signalled("scanner", a) /\ flag' = Flagged(P \cup {"scanner"})
    ELSE at' = a /\ flag' = Flagged(P)

Moved(p, l) == [at EXCEPT ![p] = l]
Move(p, l) == at' = Moved(p, l) /\ UNCHANGED flag

----------------------------------------------------------------------------
(* The scanner. *)

\* Sockets for clients and configuration.
Bind ==
    /\ at["scanner"] = "bind"
    /\ Move("scanner", "pid")
    /\ UNCHANGED <<pipes, orderly, pidfile, bounds>>

\* write_pidfile.
WritePidfile ==
    /\ at["scanner"] = "pid"
    /\ Move("scanner", "forkfw")
    /\ pidfile' = TRUE
    /\ UNCHANGED <<pipes, orderly, bounds>>

ForkFw ==
    /\ at["scanner"] = "forkfw"
    /\ at' = [at EXCEPT !["scanner"] = "forkmain", !["fw"] = "born"]
    /\ UNCHANGED <<flag, pipes, orderly, pidfile, bounds>>

ForkMain ==
    /\ at["scanner"] = "forkmain"
    /\ at' = [at EXCEPT !["scanner"] = "handlers", !["main"] = "jail"]
    /\ UNCHANGED <<flag, pipes, orderly, pidfile, bounds>>

\* Grey_start.
Handlers ==
    /\ at["scanner"] = "handlers"
    /\ Move("scanner", "forkreader")
    /\ UNCHANGED <<pipes, orderly, pidfile, bounds>>

ForkReader ==
    /\ at["scanner"] = "forkreader"
    /\ at' = [at EXCEPT !["scanner"] = "check", !["reader"] = "setup"]
    /\ flag' = [flag EXCEPT !["reader"] = flag["scanner"]]
    /\ UNCHANGED <<pipes, orderly, pidfile, bounds>>

\* Grey_start_scanner: on with the next scan, or signal the others and end.
ScannerCheck ==
    /\ at["scanner"] = "check"
    /\ IF flag["scanner"]
       THEN /\ at' = Signalled("main", Signalled("reader", Moved("scanner", "ended")))
            /\ flag' = Flagged({"main", "reader"})
       ELSE scans < MaxScans /\ Move("scanner", "trap")
    /\ scans' = IF flag["scanner"] THEN scans ELSE scans + 1
    /\ UNCHANGED <<pipes, orderly, pidfile, crashes, signals, clients>>

\* Greyd_send_config.  Without a reader the write fails, and is given up.
SendTraps ==
    /\ at["scanner"] = "trap"
    /\ \/ /\ Alive("main") /\ trap < PipeSize
          /\ trap' = trap + 1
          /\ sent' = (sent + 1) % Chunks
          /\ Move("scanner", IF sent' = 0 THEN "fw" ELSE "trap")
       \/ /\ ~Alive("main")
          /\ sent' = 0
          /\ UNCHANGED trap
          /\ Move("scanner", "fw")
    /\ UNCHANGED <<fwp, part, grey, orderly, pidfile, bounds>>

\* The main process keeps a descriptor of the reading end.
FwReaders == {"fw", "main"}

\* update_firewall.
SendFw ==
    /\ at["scanner"] = "fw"
    /\ \/ /\ \E p \in FwReaders : Alive(p)
          /\ fwp < PipeSize
          /\ fwp' = fwp + 1
          /\ sent' = (sent + 1) % Chunks
          /\ Move("scanner", IF sent' = 0 THEN "sleep" ELSE "fw")
       \/ /\ \A p \in FwReaders : ~Alive(p)
          /\ sent' = 0
          /\ UNCHANGED fwp
          /\ Move("scanner", "sleep")
    /\ UNCHANGED <<trap, part, grey, orderly, pidfile, bounds>>

Sleep ==
    /\ at["scanner"] = "sleep"
    /\ Move("scanner", "check")
    /\ UNCHANGED <<pipes, orderly, pidfile, bounds>>

----------------------------------------------------------------------------
(* The firewall process. *)

FwHandlers ==
    /\ at["fw"] = "born"
    /\ Move("fw", "loop")
    /\ UNCHANGED <<pipes, orderly, pidfile, bounds>>

\* Greyd_start_fw_child: poll() never sees a hangup, as the process keeps the
\* writing end of its own pipe.
FwLoop ==
    /\ at["fw"] = "loop"
    /\ \/ /\ flag["fw"]
          /\ ChildEnded(Moved("fw", "ended"), {})
          /\ UNCHANGED <<fwp, part>>
       \/ /\ ~flag["fw"]
          /\ fwp > 0
          /\ fwp' = fwp - 1
          /\ part' = (part + 1) % Chunks
          /\ Move("fw", IF part' = 0 THEN "loop" ELSE "parse")
    /\ UNCHANGED <<trap, sent, grey, orderly, pidfile, bounds>>

\* The parser wants more than has arrived, and reads.
FwParse ==
    /\ at["fw"] = "parse"
    /\ Move("fw", "read")
    /\ UNCHANGED <<pipes, orderly, pidfile, bounds>>

\* Mutant: the end of the list is not seen.
FwReadOn ==
    /\ at["fw"] = "read"
    /\ fwp > 0
    /\ fwp' = fwp - 1
    /\ part' = part + 1
    /\ Move("fw", "parse")
    /\ UNCHANGED <<trap, sent, grey, orderly, pidfile, bounds>>

FwRead ==
    /\ at["fw"] = "read"
    /\ fwp > 0
    /\ fwp' = fwp - 1
    /\ part' = (part + 1) % Chunks
    /\ Move("fw", IF part' = 0 THEN "loop" ELSE "parse")
    /\ UNCHANGED <<trap, sent, grey, orderly, pidfile, bounds>>

----------------------------------------------------------------------------
(* The main process. *)

\* Sync, handlers, chroot, privileges, listen().
Jail ==
    /\ at["main"] = "jail"
    /\ Move("main", "check")
    /\ UNCHANGED <<pipes, orderly, pidfile, bounds>>

MainCheck ==
    /\ at["main"] = "check"
    /\ Move("main", IF flag["main"] THEN "stop" ELSE "gap")
    /\ UNCHANGED <<pipes, orderly, pidfile, bounds>>

\* A signal that comes before poll() starts does not interrupt it.
MainPoll ==
    /\ at["main"] = "gap"
    /\ Move("main", "poll")
    /\ UNCHANGED <<pipes, orderly, pidfile, bounds>>

\* The reader closes its copy of the writing end when it is set up.
TrapWriters == {p \in {"scanner", "reader"} :
                   Alive(p) /\ (p = "reader" => at[p] = "setup")}

\* Mutant: a hangup is not looked for.
MainTrapDeaf ==
    /\ at["main"] = "poll"
    /\ trap > 0 /\ trap' = trap - 1 /\ Move("main", "check")
    /\ UNCHANGED <<fwp, sent, part, grey, orderly, pidfile, bounds>>

\* The trap pipe is read, or has no writer any more.
MainTrap ==
    /\ at["main"] = "poll"
    /\ \/ trap > 0 /\ trap' = trap - 1 /\ Move("main", "check")
       \/ trap = 0 /\ TrapWriters = {} /\ Move("main", "stop") /\ UNCHANGED trap
    /\ UNCHANGED <<fwp, sent, part, grey, orderly, pidfile, bounds>>

\* A client is greylisted.  With nobody to read the pipe the write fails.
MainClient ==
    /\ at["main"] = "poll"
    /\ clients < MaxClients
    /\ clients' = clients + 1
    /\ Move("main", "write")
    /\ UNCHANGED <<pipes, orderly, pidfile, crashes, signals, scans>>

\* The scanner has the reading end until the reader is forked.
GreyReaders == {p \in {"reader", "scanner"} :
                   Alive(p) /\ (p = "scanner" => at[p] \in {"handlers", "forkreader"})}

MainWrite ==
    /\ at["main"] = "write"
    /\ \/ GreyReaders # {} /\ grey < PipeSize /\ grey' = grey + 1
       \/ GreyReaders = {} /\ UNCHANGED grey
    /\ Move("main", "check")
    /\ UNCHANGED <<trap, fwp, sent, part, orderly, pidfile, bounds>>

\* Mutant: the firewall process is not told.
MainStopAlone ==
    /\ at["main"] = "stop"
    /\ ChildEnded(Moved("main", "ended"), {})
    /\ orderly' = TRUE
    /\ pidfile' = FALSE
    /\ UNCHANGED <<pipes, bounds>>

\* Mutant: the pidfile stays.
MainStopLeaves ==
    /\ at["main"] = "stop"
    /\ ChildEnded(Signalled("fw", Moved("main", "ended")), {"fw"})
    /\ orderly' = TRUE
    /\ UNCHANGED <<pipes, pidfile, bounds>>

\* The shutdown code: signal the firewall process, remove the pidfile.
MainStop ==
    /\ at["main"] = "stop"
    /\ ChildEnded(Signalled("fw", Moved("main", "ended")), {"fw"})
    /\ orderly' = TRUE
    /\ pidfile' = FALSE
    /\ UNCHANGED <<pipes, bounds>>

----------------------------------------------------------------------------
(* The reader. *)

ReaderSetup ==
    /\ at["reader"] = "setup"
    /\ Move("reader", "check")
    /\ UNCHANGED <<pipes, orderly, pidfile, bounds>>

\* Grey_start_reader.  A signal does not interrupt its read (SA_RESTART).
ReaderLoop ==
    /\ \/ /\ at["reader"] = "check"
          /\ flag["reader"]
          /\ ChildEnded(Moved("reader", "ended"), {})
          /\ UNCHANGED grey
       \/ /\ at["reader"] = "check"
          /\ ~flag["reader"]
          /\ Move("reader", "read")
          /\ UNCHANGED grey
       \/ /\ at["reader"] = "read"
          /\ grey > 0
          /\ grey' = grey - 1
          /\ Move("reader", "check")
       \/ /\ at["reader"] = "read"
          /\ grey = 0
          /\ ~Alive("main")
          /\ ChildEnded(Moved("reader", "ended"), {})
          /\ UNCHANGED grey
    /\ UNCHANGED <<trap, fwp, sent, part, orderly, pidfile, bounds>>

----------------------------------------------------------------------------
(* The rest of the world. *)

\* A process is killed, or meets an error it does not survive.
Crash(p) ==
    /\ p \in Crashers
    /\ Alive(p)
    /\ crashes < MaxCrashes
    /\ crashes' = crashes + 1
    /\ ChildEnded(Moved(p, "ended"), {})
    /\ UNCHANGED <<pipes, orderly, pidfile, signals, clients, scans>>

\* SIGTERM, SIGHUP or SIGINT.
Signal(p) ==
    /\ p \in Targets
    /\ Alive(p)
    /\ signals < MaxSignals
    /\ signals' = signals + 1
    /\ ChildEnded(Signalled(p, at), {p})
    /\ UNCHANGED <<pipes, orderly, pidfile, crashes, clients, scans>>

Scanner == Bind \/ WritePidfile \/ ForkFw \/ ForkMain \/ Handlers \/ ForkReader
           \/ ScannerCheck \/ SendTraps \/ SendFw \/ Sleep
Fw      == FwHandlers \/ FwLoop \/ FwParse \/ FwRead
Main    == Jail \/ MainCheck \/ MainPoll \/ MainTrap \/ MainWrite \/ MainStop
Reader  == ReaderSetup \/ ReaderLoop

Next ==
    \/ Scanner \/ Fw \/ Main \/ Reader
    \/ MainClient
    \/ \E p \in Procs : Crash(p) \/ Signal(p)

Spec == Init /\ [][Next]_vars

\* Every process gets to run; clients, crashes and signals need not come.
FairSpec ==
    Spec /\ WF_vars(Scanner) /\ WF_vars(Fw) /\ WF_vars(Main) /\ WF_vars(Reader)

----------------------------------------------------------------------------
Places == {"none", "ended", "bind", "pid", "forkfw", "forkmain", "handlers",
           "forkreader", "check", "trap", "fw", "sleep", "born", "loop", "parse",
           "read", "jail", "gap", "poll", "write", "stop", "setup"}

\* The pipes never hold more than they can, and the firewall process is never
\* left with more of a list than the list has pieces.
TypeOK ==
    /\ at \in [Procs -> Places]
    /\ flag \in [Procs -> BOOLEAN]
    /\ {trap, fwp, grey} \subseteq 0 .. PipeSize
    /\ {sent, part} \subseteq 0 .. Chunks - 1
    /\ {orderly, pidfile} \subseteq BOOLEAN
    /\ crashes \in 0 .. MaxCrashes /\ signals \in 0 .. MaxSignals
    /\ clients \in 0 .. MaxClients /\ scans \in 0 .. MaxScans

\* Whoever has to act on the end of another process has notice of it.  SIGCHLD
\* of the reader is never lost, as the handlers are installed before it is
\* forked (Grey_start), and no end of the main process by its shutdown code
\* passes the firewall process by.
EndsKnown ==
    /\ Ended("reader") /\ Alive("scanner") => flag["scanner"]
    /\ orderly /\ Alive("fw") => flag["fw"]

\* Scanner, main process and reader: when one of them ends, however and
\* whenever it does, the others end, too.
AllStop ==
    \A p, q \in {"scanner", "main", "reader"} :
        Ended(p) /\ Alive(q) ~> Ended(q)

\* A shutdown of the main process ends the firewall process, unless the
\* scanner has died in the middle of a list: the rest of it never comes, and
\* no hangup either, as the firewall process keeps the writing end itself.
FwStops ==
    orderly ~> ~Alive("fw") \/ (Ended("scanner") /\ at["fw"] \in {"parse", "read"})

\* Once it is up, the daemon stopped by a signal to the process its pidfile
\* names removes the pidfile, unless one of its processes is killed meanwhile.
StopsClean ==
    (\A p \in {"scanner", "main", "reader"} : Handles(p)) /\ flag["scanner"]
        ~> ~pidfile \/ crashes > 0
============================================================================
