---------------------------- MODULE DaemonProofs ----------------------------
(***************************************************************************)
(* The processes of greyd keep to their places, the pipes to their size,   *)
(* and the end of a process is known to the one that has to act on it.     *)
(***************************************************************************)
EXTENDS Daemon, TLAPS

\* The order in which the processes are forked.
ForkOrder ==
    /\ at["reader"] # "none" =>
          at["scanner"] \in {"check", "trap", "fw", "sleep", "ended"}
    /\ at["main"] # "none" =>
          at["scanner"] \notin {"bind", "pid", "forkfw", "forkmain"}
    /\ orderly => Ended("main")

\* The inductive invariant, on top of TypeOK.
KnownInv == ForkOrder /\ EndsKnown

----------------------------------------------------------------------------
(* Signals. *)

LEMMA SignalledType ==
    ASSUME NEW p \in Procs, NEW a \in [Procs -> Places]
    PROVE  /\ Signalled(p, a) \in [Procs -> Places]
           /\ \A q \in Procs : q # p => Signalled(p, a)[q] = a[q]
BY DEF Signalled, Places

\* A signal ends no process that handles it, starts none and revives none.
LEMMA SignalledEnd ==
    ASSUME NEW p \in Procs, NEW a \in [Procs -> Places]
    PROVE  /\ a[p] \in {"none", "ended"} => Signalled(p, a)[p] = a[p]
           /\ a[p] \notin {"none", "ended"} => Signalled(p, a)[p] # "none"
           /\ a[p] \notin {"none", "ended"} /\ Handles(p)
                => Signalled(p, a)[p] # "ended"
           /\ a[p] \notin {"none", "ended"} /\ ~Handles(p)
                => Signalled(p, a)[p] = "ended"
BY DEF Signalled, Places

LEMMA FlaggedType ==
    ASSUME NEW P, flag \in [Procs -> BOOLEAN]
    PROVE  /\ Flagged(P) \in [Procs -> BOOLEAN]
           /\ \A p \in Procs : flag[p] => Flagged(P)[p]
           /\ \A p \in Procs : p \in P /\ Alive(p) /\ Handles(p) => Flagged(P)[p]
BY DEF Flagged, Alive, Handles

LEMMA ChildEndedType ==
    ASSUME TypeOK, NEW a \in [Procs -> Places], NEW P, ChildEnded(a, P)
    PROVE  at' \in [Procs -> Places] /\ flag' \in [Procs -> BOOLEAN]
<1>1. "scanner" \in Procs /\ flag \in [Procs -> BOOLEAN]
  BY DEF Procs, TypeOK
<1>. QED  BY <1>1, SignalledType, FlaggedType DEF ChildEnded
LEMMA MoveType ==
    ASSUME TypeOK, NEW p \in Procs, NEW l \in Places
    PROVE  /\ Moved(p, l) \in [Procs -> Places]
           /\ Move(p, l) => at' \in [Procs -> Places] /\ flag' \in [Procs -> BOOLEAN]
BY DEF TypeOK, Moved, Move

\* A piece of a list more is a piece of this list or the begin of the next.
LEMMA NextPiece ==
    ASSUME NEW n \in 0 .. Chunks - 1
    PROVE  (n + 1) % Chunks \in 0 .. Chunks - 1
BY DaemonAssumption

LEMMA RestStutter ==
    ASSUME TypeOK
    PROVE  /\ UNCHANGED pipes =>
                 /\ ({trap, fwp, grey} \subseteq 0 .. PipeSize)'
                 /\ ({sent, part} \subseteq 0 .. Chunks - 1)'
           /\ UNCHANGED <<orderly, pidfile>> => ({orderly, pidfile} \subseteq BOOLEAN)'
           /\ UNCHANGED bounds =>
                 /\ (crashes \in 0 .. MaxCrashes)' /\ (signals \in 0 .. MaxSignals)'
                 /\ (clients \in 0 .. MaxClients)' /\ (scans \in 0 .. MaxScans)'
BY DEF TypeOK, pipes, bounds

----------------------------------------------------------------------------
(* Types. *)

LEMMA ScannerKeepsTypes ==
    ASSUME TypeOK, Scanner
    PROVE  TypeOK'
<1>. "scanner" \in Procs /\ "fw" \in Procs /\ "main" \in Procs /\ "reader" \in Procs
  BY DEF Procs
<1>1. CASE Bind \/ Handlers \/ Sleep
  <2>1. at' \in [Procs -> Places] /\ flag' \in [Procs -> BOOLEAN]
    BY <1>1, MoveType DEF Bind, Handlers, Sleep, Places
  <2>. QED  BY <1>1, <2>1, RestStutter DEF Bind, Handlers, Sleep, TypeOK
<1>2. CASE WritePidfile
  <2>1. at' \in [Procs -> Places] /\ flag' \in [Procs -> BOOLEAN]
    BY <1>2, MoveType DEF WritePidfile, Places
  <2>. QED  BY <1>2, <2>1, RestStutter DEF WritePidfile, TypeOK
<1>3. CASE ForkFw \/ ForkMain \/ ForkReader
  <2>1. at' \in [Procs -> Places] /\ flag' \in [Procs -> BOOLEAN]
    BY <1>3 DEF ForkFw, ForkMain, ForkReader, Places, TypeOK
  <2>. QED  BY <1>3, <2>1, RestStutter DEF ForkFw, ForkMain, ForkReader, TypeOK
<1>4. CASE ScannerCheck
  <2>1. at' \in [Procs -> Places] /\ flag' \in [Procs -> BOOLEAN]
    <3>1. CASE flag["scanner"]
      <4>1. Moved("scanner", "ended") \in [Procs -> Places]
        BY MoveType DEF Places
      <4>2. flag \in [Procs -> BOOLEAN]
        BY DEF TypeOK
      <4>. QED  BY <1>4, <3>1, <4>1, <4>2, SignalledType, FlaggedType DEF ScannerCheck
    <3>2. CASE ~flag["scanner"]
      BY <1>4, <3>2, MoveType DEF ScannerCheck, Places
    <3>. QED  BY <3>1, <3>2
  <2>2. scans' \in 0 .. MaxScans
    BY <1>4, DaemonAssumption DEF ScannerCheck, TypeOK
  <2>3. /\ crashes' \in 0 .. MaxCrashes /\ signals' \in 0 .. MaxSignals
        /\ clients' \in 0 .. MaxClients
    BY <1>4 DEF ScannerCheck, TypeOK
  <2>. QED  BY <1>4, <2>1, <2>2, <2>3, RestStutter DEF ScannerCheck, TypeOK
<1>5. CASE SendTraps
  <2>1. at' \in [Procs -> Places] /\ flag' \in [Procs -> BOOLEAN]
    BY <1>5, MoveType DEF SendTraps, Places
  <2>2. trap' \in 0 .. PipeSize /\ sent' \in 0 .. Chunks - 1
    BY <1>5, NextPiece, DaemonAssumption DEF SendTraps, TypeOK
  <2>3. /\ fwp' \in 0 .. PipeSize /\ grey' \in 0 .. PipeSize
        /\ part' \in 0 .. Chunks - 1
    BY <1>5 DEF SendTraps, TypeOK
  <2>. QED  BY <1>5, <2>1, <2>2, <2>3, RestStutter DEF SendTraps, TypeOK
<1>6. CASE SendFw
  <2>1. at' \in [Procs -> Places] /\ flag' \in [Procs -> BOOLEAN]
    BY <1>6, MoveType DEF SendFw, Places
  <2>2. fwp' \in 0 .. PipeSize /\ sent' \in 0 .. Chunks - 1
    BY <1>6, NextPiece, DaemonAssumption DEF SendFw, TypeOK
  <2>3. /\ trap' \in 0 .. PipeSize /\ grey' \in 0 .. PipeSize
        /\ part' \in 0 .. Chunks - 1
    BY <1>6 DEF SendFw, TypeOK
  <2>. QED  BY <1>6, <2>1, <2>2, <2>3, RestStutter DEF SendFw, TypeOK
<1>. QED  BY <1>1, <1>2, <1>3, <1>4, <1>5, <1>6 DEF Scanner

LEMMA FwKeepsTypes ==
    ASSUME TypeOK, Fw
    PROVE  TypeOK'
<1>. "fw" \in Procs
  BY DEF Procs
<1>1. CASE FwHandlers \/ FwParse
  <2>1. at' \in [Procs -> Places] /\ flag' \in [Procs -> BOOLEAN]
    BY <1>1, MoveType DEF FwHandlers, FwParse, Places
  <2>. QED  BY <1>1, <2>1, RestStutter DEF FwHandlers, FwParse, TypeOK
<1>2. CASE FwLoop \/ FwRead
  <2>1. at' \in [Procs -> Places] /\ flag' \in [Procs -> BOOLEAN]
    BY <1>2, MoveType, ChildEndedType DEF FwLoop, FwRead, Places
  <2>2. fwp' \in 0 .. PipeSize /\ part' \in 0 .. Chunks - 1
    BY <1>2, NextPiece, DaemonAssumption DEF FwLoop, FwRead, TypeOK
  <2>3. /\ trap' \in 0 .. PipeSize /\ grey' \in 0 .. PipeSize
        /\ sent' \in 0 .. Chunks - 1
    BY <1>2 DEF FwLoop, FwRead, TypeOK
  <2>. QED  BY <1>2, <2>1, <2>2, <2>3, RestStutter DEF FwLoop, FwRead, TypeOK
<1>. QED  BY <1>1, <1>2 DEF Fw

LEMMA MainKeepsTypes ==
    ASSUME TypeOK, Main \/ MainClient
    PROVE  TypeOK'
<1>. "main" \in Procs /\ "fw" \in Procs
  BY DEF Procs
<1>1. CASE Jail \/ MainCheck \/ MainPoll
  <2>1. at' \in [Procs -> Places] /\ flag' \in [Procs -> BOOLEAN]
    BY <1>1, MoveType DEF Jail, MainCheck, MainPoll, Places
  <2>. QED  BY <1>1, <2>1, RestStutter DEF Jail, MainCheck, MainPoll, TypeOK
<1>2. CASE MainTrap \/ MainWrite
  <2>1. at' \in [Procs -> Places] /\ flag' \in [Procs -> BOOLEAN]
    BY <1>2, MoveType DEF MainTrap, MainWrite, Places
  <2>2. trap' \in 0 .. PipeSize /\ grey' \in 0 .. PipeSize
    BY <1>2, DaemonAssumption DEF MainTrap, MainWrite, TypeOK
  <2>3. fwp' \in 0 .. PipeSize /\ {sent', part'} \subseteq 0 .. Chunks - 1
    BY <1>2 DEF MainTrap, MainWrite, TypeOK
  <2>. QED  BY <1>2, <2>1, <2>2, <2>3, RestStutter DEF MainTrap, MainWrite, TypeOK
<1>3. CASE MainStop
  <2>1. Signalled("fw", Moved("main", "ended")) \in [Procs -> Places]
    BY MoveType, SignalledType DEF Places
  <2>2. at' \in [Procs -> Places] /\ flag' \in [Procs -> BOOLEAN]
    BY <1>3, <2>1, ChildEndedType DEF MainStop
  <2>. QED  BY <1>3, <2>2, RestStutter DEF MainStop, TypeOK
<1>4. CASE MainClient
  <2>1. at' \in [Procs -> Places] /\ flag' \in [Procs -> BOOLEAN]
    BY <1>4, MoveType DEF MainClient, Places
  <2>2. clients' \in 0 .. MaxClients
    BY <1>4, DaemonAssumption DEF MainClient, TypeOK
  <2>3. /\ crashes' \in 0 .. MaxCrashes /\ signals' \in 0 .. MaxSignals
        /\ scans' \in 0 .. MaxScans
    BY <1>4 DEF MainClient, TypeOK
  <2>. QED  BY <1>4, <2>1, <2>2, <2>3, RestStutter DEF MainClient, TypeOK
<1>. QED  BY <1>1, <1>2, <1>3, <1>4 DEF Main

LEMMA ReaderKeepsTypes ==
    ASSUME TypeOK, Reader
    PROVE  TypeOK'
<1>. "reader" \in Procs
  BY DEF Procs
<1>1. at' \in [Procs -> Places] /\ flag' \in [Procs -> BOOLEAN]
  BY MoveType, ChildEndedType DEF Reader, ReaderSetup, ReaderLoop, Places
<1>2. CASE ReaderSetup
  BY <1>1, <1>2, RestStutter DEF ReaderSetup, TypeOK
<1>3. CASE ReaderLoop
  <2>1. grey' \in 0 .. PipeSize
    BY <1>3, DaemonAssumption DEF ReaderLoop, TypeOK
  <2>2. {trap', fwp'} \subseteq 0 .. PipeSize /\ {sent', part'} \subseteq 0 .. Chunks - 1
    BY <1>3 DEF ReaderLoop, TypeOK
  <2>. QED  BY <1>1, <1>3, <2>1, <2>2, RestStutter DEF ReaderLoop, TypeOK
<1>. QED  BY <1>2, <1>3 DEF Reader

LEMMA WorldKeepsTypes ==
    ASSUME TypeOK, NEW p \in Procs, Crash(p) \/ Signal(p)
    PROVE  TypeOK'
<1>1. at \in [Procs -> Places]
  BY DEF TypeOK
<1>2. at' \in [Procs -> Places] /\ flag' \in [Procs -> BOOLEAN]
  BY <1>1, MoveType, SignalledType, ChildEndedType DEF Crash, Signal, Places
<1>3. crashes' \in 0 .. MaxCrashes /\ signals' \in 0 .. MaxSignals
  BY DaemonAssumption DEF Crash, Signal, TypeOK
<1>4. clients' \in 0 .. MaxClients /\ scans' \in 0 .. MaxScans
  BY DEF Crash, Signal, TypeOK
<1>. QED  BY <1>2, <1>3, <1>4, RestStutter DEF Crash, Signal, TypeOK

\* However processes are forked, signalled and killed, each is at a place of
\* its own program, no pipe holds more than it can, and the firewall process
\* is never left with more of a list than the list has pieces.
THEOREM DaemonTypeInvariance == Spec => []TypeOK
<1>1. Init => TypeOK
  <2>. SUFFICES ASSUME Init
                PROVE  TypeOK
    OBVIOUS
  <2>1. at \in [Procs -> Places] /\ flag \in [Procs -> BOOLEAN]
    BY DEF Init, Places
  <2>2. {trap, fwp, grey} \subseteq 0 .. PipeSize /\ {sent, part} \subseteq 0 .. Chunks - 1
    BY DaemonAssumption DEF Init
  <2>3. /\ crashes \in 0 .. MaxCrashes /\ signals \in 0 .. MaxSignals
        /\ clients \in 0 .. MaxClients /\ scans \in 0 .. MaxScans
    BY DaemonAssumption DEF Init
  <2>4. {orderly, pidfile} \subseteq BOOLEAN
    BY DEF Init
  <2>. QED  BY <2>1, <2>2, <2>3, <2>4 DEF TypeOK
<1>2. TypeOK /\ [Next]_vars => TypeOK'
  <2>. SUFFICES ASSUME TypeOK, [Next]_vars
                PROVE  TypeOK'
    OBVIOUS
  <2>1. CASE UNCHANGED vars
    BY <2>1, RestStutter DEF vars, TypeOK
  <2>. QED
    BY <2>1, ScannerKeepsTypes, FwKeepsTypes, MainKeepsTypes, ReaderKeepsTypes,
       WorldKeepsTypes DEF Next
<1>. QED  BY <1>1, <1>2, PTL DEF Spec
----------------------------------------------------------------------------
(* Notice of an end. *)

Early == {"bind", "pid", "forkfw", "forkmain"}
Late  == {"check", "trap", "fw", "sleep", "ended"}

\* What every step but a fork does: no process is revived or started, the
\* scanner does not go back, no flag is lost, and notice is given of the end
\* of the reader and of the shutdown of the main process.
GivesNotice ==
    /\ \A p \in Procs : at[p] \in {"none", "ended"} => at'[p] = at[p]
    /\ at["scanner"] \notin Early => at'["scanner"] \notin Early
    /\ at["scanner"] \in Late => at'["scanner"] \in Late
    /\ \A p \in Procs : flag[p] => flag'[p]
    /\ ~Ended("reader") /\ Ended("reader")' /\ Alive("scanner")' => flag'["scanner"]
    /\ ~orderly /\ orderly' => Ended("main")' /\ (Alive("fw")' => flag'["fw"])

LEMMA NoticeKeepsKnown ==
    ASSUME KnownInv, GivesNotice
    PROVE  KnownInv'
<1>. "scanner" \in Procs /\ "fw" \in Procs /\ "main" \in Procs /\ "reader" \in Procs
  BY DEF Procs
<1>1. ForkOrder'
  BY DEF KnownInv, ForkOrder, GivesNotice, Early, Late, Ended
<1>2. EndsKnown'
  BY DEF KnownInv, EndsKnown, GivesNotice, Ended, Alive
<1>. QED  BY <1>1, <1>2 DEF KnownInv

LEMMA MoveGivesNotice ==
    ASSUME TypeOK, NEW p \in Procs, NEW l \in Places, Move(p, l), UNCHANGED orderly,
           Alive(p), l # "ended",
           p = "scanner" => l \in Late \/ (l \notin Early /\ at[p] \notin Late)
                              \/ (at[p] \in Early)
    PROVE  GivesNotice
<1>. "scanner" \in Procs /\ "reader" \in Procs
  BY DEF Procs
<1>1. /\ at'[p] = l /\ \A q \in Procs : q # p => at'[q] = at[q]
      /\ UNCHANGED flag
  BY DEF Move, Moved, TypeOK
<1>. QED  BY <1>1 DEF GivesNotice, Alive, Ended, Early, Late

LEMMA ChildEndedPlaces ==
    ASSUME TypeOK, NEW a \in [Procs -> Places], NEW P, ChildEnded(a, P)
    PROVE  /\ \A p \in Procs \ {"scanner"} : at'[p] = a[p]
           /\ \/ at'["scanner"] = a["scanner"]
              \/ a["scanner"] = "sleep" /\ at'["scanner"] = "check"
           /\ \A p \in Procs : flag[p] => flag'[p]
           /\ \A p \in P \cap Procs : Alive(p) /\ Handles(p) => flag'[p]
           /\ \A p \in Procs \ {"scanner"} :
                 /\ Alive(p) /\ a[p] = "ended"
                 /\ a["scanner"] \notin {"none", "ended"} /\ Handles("scanner")
                 => flag'["scanner"]
<1>. "scanner" \in Procs /\ flag \in [Procs -> BOOLEAN]
  BY DEF Procs, TypeOK
<1>1. CASE at' = a /\ flag' = Flagged(P)
           /\ ~(/\ \E p \in Procs \ {"scanner"} : Alive(p) /\ a[p] = "ended"
                /\ a["scanner"] \notin {"none", "ended"}
                /\ Handles("scanner"))
  BY <1>1, FlaggedType
<1>2. CASE /\ \E p \in Procs \ {"scanner"} : Alive(p) /\ a[p] = "ended"
           /\ a["scanner"] \notin {"none", "ended"}
           /\ Handles("scanner")
           /\ at' = Signalled("scanner", a) /\ flag' = Flagged(P \cup {"scanner"})
  <2>1. \A p \in Procs \ {"scanner"} : at'[p] = a[p]
    BY <1>2, SignalledType
  <2>2. \/ at'["scanner"] = a["scanner"]
        \/ a["scanner"] = "sleep" /\ at'["scanner"] = "check"
    BY <1>2 DEF Signalled
  <2>3. flag'["scanner"]
    BY <1>2, FlaggedType DEF Handles, Alive
  <2>. QED  BY <1>2, <2>1, <2>2, <2>3, FlaggedType
<1>. QED  BY <1>1, <1>2 DEF ChildEnded

\* The scanner handles signals when there is a reader.
LEMMA ReaderIsHandled ==
    ASSUME KnownInv, Alive("reader"), Alive("scanner")
    PROVE  Handles("scanner")
BY DEF KnownInv, ForkOrder, Alive, Handles
LEMMA EndGivesNotice ==
    ASSUME TypeOK, KnownInv, NEW a \in [Procs -> Places], NEW P, ChildEnded(a, P),
           \A p \in Procs : at[p] \in {"none", "ended"} => a[p] = at[p],
           \/ a["scanner"] \in {at["scanner"], "ended"}
           \/ at["scanner"] = "sleep" /\ a["scanner"] = "check",
           ~orderly /\ orderly' =>
               a["main"] = "ended" /\ (a["fw"] \notin {"none", "ended"} => flag'["fw"])
    PROVE  GivesNotice
<1>. "scanner" \in Procs /\ "fw" \in Procs /\ "main" \in Procs /\ "reader" \in Procs
  BY DEF Procs
<1>1. /\ \A p \in Procs \ {"scanner"} : at'[p] = a[p]
      /\ \/ at'["scanner"] = a["scanner"]
         \/ a["scanner"] = "sleep" /\ at'["scanner"] = "check"
      /\ \A p \in Procs : flag[p] => flag'[p]
  BY ChildEndedPlaces
<1>2. \A p \in Procs : at[p] \in {"none", "ended"} => at'[p] = at[p]
  BY <1>1
<1>3. /\ at["scanner"] \notin Early => at'["scanner"] \notin Early
      /\ at["scanner"] \in Late => at'["scanner"] \in Late
  BY <1>1 DEF Early, Late
<1>4. ASSUME ~Ended("reader"), Ended("reader")', Alive("scanner")'
      PROVE  flag'["scanner"]
  <2>1. Alive("reader") /\ a["reader"] = "ended"
    BY <1>1, <1>4 DEF Alive, Ended
  <2>2. Alive("scanner") /\ a["scanner"] \notin {"none", "ended"}
    BY <1>1, <1>4 DEF Alive
  <2>3. Handles("scanner")
    BY <2>1, <2>2, ReaderIsHandled
  <2>. QED  BY <2>1, <2>2, <2>3, ChildEndedPlaces
<1>5. ~orderly /\ orderly' => Ended("main")' /\ (Alive("fw")' => flag'["fw"])
  BY <1>1 DEF Ended, Alive
<1>. QED  BY <1>1, <1>2, <1>3, <1>4, <1>5 DEF GivesNotice

\* A process that ends by itself.
LEMMA EndingGivesNotice ==
    ASSUME TypeOK, KnownInv, NEW p \in Procs, Alive(p), NEW P,
           ChildEnded(Moved(p, "ended"), P), UNCHANGED orderly
    PROVE  GivesNotice
<1>1. Moved(p, "ended") \in [Procs -> Places]
  BY MoveType DEF Places
<1>2. /\ Moved(p, "ended")[p] = "ended"
      /\ \A q \in Procs : q # p => Moved(p, "ended")[q] = at[q]
  BY DEF Moved, TypeOK
<1>3. "scanner" \in Procs
  BY DEF Procs
<1>. QED  BY <1>1, <1>2, <1>3, EndGivesNotice DEF Alive

LEMMA ScannerKeepsKnown ==
    ASSUME TypeOK, KnownInv, Scanner
    PROVE  KnownInv'
<1>. "scanner" \in Procs /\ "fw" \in Procs /\ "main" \in Procs /\ "reader" \in Procs
  BY DEF Procs
<1>. at \in [Procs -> Places] /\ flag \in [Procs -> BOOLEAN]
  BY DEF TypeOK
<1>1. CASE Bind \/ WritePidfile \/ Handlers \/ Sleep \/ SendTraps \/ SendFw
  <2>1. UNCHANGED orderly /\ Alive("scanner")
    BY <1>1 DEF Bind, WritePidfile, Handlers, Sleep, SendTraps, SendFw, Alive
  <2>2. CASE Bind \/ WritePidfile
    BY <2>1, <2>2, MoveGivesNotice, NoticeKeepsKnown
       DEF Bind, WritePidfile, Early, Late, Places
  <2>3. CASE Handlers
    BY <2>1, <2>3, MoveGivesNotice, NoticeKeepsKnown DEF Handlers, Early, Late, Places
  <2>4. CASE Sleep \/ SendTraps \/ SendFw
    BY <2>1, <2>4, MoveGivesNotice, NoticeKeepsKnown
       DEF Sleep, SendTraps, SendFw, Late, Places
  <2>. QED  BY <1>1, <2>2, <2>3, <2>4
<1>2. CASE ForkFw
  BY <1>2 DEF ForkFw, KnownInv, ForkOrder, EndsKnown, Ended, Alive
<1>3. CASE ForkMain
  BY <1>3 DEF ForkMain, KnownInv, ForkOrder, EndsKnown, Ended, Alive
<1>4. CASE ForkReader
  BY <1>4 DEF ForkReader, KnownInv, ForkOrder, EndsKnown, Ended, Alive
<1>5. CASE ScannerCheck
  <2>1. CASE flag["scanner"]
    <3>. DEFINE m == Moved("scanner", "ended")
                s == Signalled("reader", m)
    <3>1. m \in [Procs -> Places] /\ s \in [Procs -> Places]
      BY MoveType, SignalledType DEF Places
    <3>2. /\ m["scanner"] = "ended"
          /\ \A q \in Procs : q # "scanner" => m[q] = at[q]
      BY DEF Moved
    <3>3. /\ at' = Signalled("main", s) /\ UNCHANGED orderly
          /\ flag' = Flagged({"main", "reader"})
      BY <1>5, <2>1 DEF ScannerCheck
    <3>4. \A q \in Procs : q # "main" /\ q # "reader" => at'[q] = m[q]
      BY <3>1, <3>3, SignalledType
    <3>5. at'["main"] = Signalled("main", s)["main"] /\ s["main"] = m["main"]
      BY <3>1, <3>3, SignalledType
    <3>6. at'["reader"] = s["reader"]
      BY <3>1, <3>3, SignalledType
    <3>7. \A p \in Procs : at[p] \in {"none", "ended"} => at'[p] = at[p]
      <4>1. at["main"] \in {"none", "ended"} => at'["main"] = at["main"]
        BY <3>1, <3>2, <3>5, SignalledEnd
      <4>2. at["reader"] \in {"none", "ended"} => at'["reader"] = at["reader"]
        BY <3>1, <3>2, <3>6, SignalledEnd
      <4>3. at["scanner"] = "check"
        BY <1>5 DEF ScannerCheck
      <4>. QED  BY <3>2, <3>4, <4>1, <4>2, <4>3
    <3>8. \A p \in Procs : flag[p] => flag'[p]
      BY <3>3, FlaggedType
    <3>9. at'["scanner"] = "ended"
      BY <3>2, <3>4
    <3>. QED
      BY <3>3, <3>7, <3>8, <3>9, NoticeKeepsKnown
         DEF GivesNotice, Early, Late, Alive
  <2>2. CASE ~flag["scanner"]
    BY <1>5, <2>2, MoveGivesNotice, NoticeKeepsKnown
       DEF ScannerCheck, Alive, Late, Places
  <2>. QED  BY <2>1, <2>2
<1>. QED  BY <1>1, <1>2, <1>3, <1>4, <1>5 DEF Scanner

LEMMA ChildrenKeepKnown ==
    ASSUME TypeOK, KnownInv, Fw \/ Main \/ MainClient \/ Reader
    PROVE  KnownInv'
<1>. "fw" \in Procs /\ "main" \in Procs /\ "reader" \in Procs
  BY DEF Procs
<1>1. CASE Fw
  <2>1. Alive("fw") /\ UNCHANGED orderly
    BY <1>1 DEF Fw, FwHandlers, FwLoop, FwParse, FwRead, Alive
  <2>2. \/ \E l \in Places \ {"ended"} : Move("fw", l)
        \/ ChildEnded(Moved("fw", "ended"), {})
    BY <1>1 DEF Fw, FwHandlers, FwLoop, FwParse, FwRead, Places
  <2>. QED  BY <2>1, <2>2, MoveGivesNotice, EndingGivesNotice, NoticeKeepsKnown
<1>2. CASE Reader
  <2>1. Alive("reader") /\ UNCHANGED orderly
    BY <1>2 DEF Reader, ReaderSetup, ReaderLoop, Alive
  <2>2. \/ \E l \in Places \ {"ended"} : Move("reader", l)
        \/ ChildEnded(Moved("reader", "ended"), {})
    BY <1>2 DEF Reader, ReaderSetup, ReaderLoop, Places
  <2>. QED  BY <2>1, <2>2, MoveGivesNotice, EndingGivesNotice, NoticeKeepsKnown
<1>3. CASE (Main \/ MainClient) /\ ~MainStop
  <2>1. Alive("main") /\ UNCHANGED orderly
    BY <1>3 DEF Main, MainClient, Jail, MainCheck, MainPoll, MainTrap, MainWrite, Alive
  <2>2. \E l \in Places \ {"ended"} : Move("main", l)
    BY <1>3 DEF Main, MainClient, Jail, MainCheck, MainPoll, MainTrap, MainWrite, Places
  <2>. QED  BY <2>1, <2>2, MoveGivesNotice, NoticeKeepsKnown
<1>4. CASE MainStop
  <2>. DEFINE m == Moved("main", "ended")
              a == Signalled("fw", m)
  <2>1. m \in [Procs -> Places] /\ a \in [Procs -> Places]
    BY MoveType, SignalledType DEF Places
  <2>2. m["main"] = "ended" /\ \A q \in Procs : q # "main" => m[q] = at[q]
    BY DEF Moved, TypeOK
  <2>3. \A q \in Procs : q # "fw" => a[q] = m[q]
    BY <2>1, SignalledType
  <2>4. ChildEnded(a, {"fw"}) /\ Alive("main")
    BY <1>4 DEF MainStop, Alive
  <2>5. \A p \in Procs : at[p] \in {"none", "ended"} => a[p] = at[p]
    <3>1. at["main"] \notin {"none", "ended"}
      BY <2>4 DEF Alive
    <3>2. at["fw"] \in {"none", "ended"} => a["fw"] = at["fw"]
      BY <2>1, <2>2, SignalledEnd
    <3>. QED  BY <2>2, <2>3, <3>1, <3>2
  <2>6. ASSUME a["fw"] \notin {"none", "ended"}
        PROVE  flag'["fw"]
    <3>1. Alive("fw") /\ Handles("fw")
      BY <2>1, <2>2, <2>6, SignalledEnd DEF Alive
    <3>. QED  BY <2>1, <2>4, <3>1, ChildEndedPlaces
  <2>7. a["scanner"] = at["scanner"] /\ a["main"] = "ended"
    BY <2>2, <2>3 DEF Procs
  <2>. QED
    BY <2>1, <2>4, <2>5, <2>6, <2>7, EndGivesNotice, NoticeKeepsKnown
<1>. QED  BY <1>1, <1>2, <1>3, <1>4 DEF Main

LEMMA WorldKeepsKnown ==
    ASSUME TypeOK, KnownInv, NEW p \in Procs, Crash(p) \/ Signal(p)
    PROVE  KnownInv'
<1>. "scanner" \in Procs /\ at \in [Procs -> Places]
  BY DEF Procs, TypeOK
<1>1. CASE Crash(p)
  BY <1>1, EndingGivesNotice, NoticeKeepsKnown DEF Crash
<1>2. CASE Signal(p)
  <2>. DEFINE a == Signalled(p, at)
  <2>1. a \in [Procs -> Places] /\ \A q \in Procs : q # p => a[q] = at[q]
    BY SignalledType
  <2>2. ChildEnded(a, {p}) /\ UNCHANGED orderly /\ Alive(p)
    BY <1>2 DEF Signal
  <2>3. \A q \in Procs : at[q] \in {"none", "ended"} => a[q] = at[q]
    BY <2>1, <2>2 DEF Alive
  <2>4. \/ a["scanner"] \in {at["scanner"], "ended"}
        \/ at["scanner"] = "sleep" /\ a["scanner"] = "check"
    <3>1. CASE p = "scanner"
      BY <3>1 DEF Signalled
    <3>. QED  BY <2>1, <3>1
  <2>. QED
    BY <2>1, <2>2, <2>3, <2>4, EndGivesNotice, NoticeKeepsKnown
<1>. QED  BY <1>1, <1>2

\* The reader cannot end behind the scanner's back, however early, and no
\* shutdown of the main process leaves the firewall process without notice,
\* wherever signals and crashes fall in the startup and in the scans.
THEOREM EndsAreKnown == Spec => []EndsKnown
<1>1. Init => KnownInv
  BY DEF Init, KnownInv, ForkOrder, EndsKnown, Procs, Ended, Alive
<1>2. TypeOK /\ KnownInv /\ [Next]_vars => KnownInv'
  <2>. SUFFICES ASSUME TypeOK, KnownInv, [Next]_vars
                PROVE  KnownInv'
    OBVIOUS
  <2>1. CASE UNCHANGED vars
    BY <2>1 DEF vars, KnownInv, ForkOrder, EndsKnown, Ended, Alive
  <2>. QED
    BY <2>1, ScannerKeepsKnown, ChildrenKeepKnown, WorldKeepsKnown DEF Next
<1>3. KnownInv => EndsKnown
  BY DEF KnownInv
<1>. QED  BY <1>1, <1>2, <1>3, DaemonTypeInvariance, PTL DEF Spec
=============================================================================
