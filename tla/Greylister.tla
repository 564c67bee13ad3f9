----------------------------- MODULE Greylister -----------------------------
(***************************************************************************)
(* The greylisting engine of greyd and the programs that share its         *)
(* database:                                                               *)
(*                                                                         *)
(*   - the main daemon writes the delivery attempts of greylisted hosts,   *)
(*     and what sync peers announce, into the grey pipe;                   *)
(*   - the reader (Grey_start_reader) takes one message at a time off the  *)
(*     pipe and updates the database in a transaction;                     *)
(*   - the scanner (Grey_start_scanner) wakes up every minute, sweeps the  *)
(*     database, turns retried tuples into whitelist entries and publishes *)
(*     the trapped addresses to the main daemon and the whitelisted ones   *)
(*     to the firewall process;                                            *)
(*   - greylogd and greydb update the database from outside the daemon.    *)
(*                                                                         *)
(* All of them are processes of their own.  Every process reads the clock  *)
(* before it opens its transaction, so the time it works with may be old.  *)
(* With the bdb and sqlite drivers a transaction excludes every other      *)
(* (`lock'); with mysql and postgresql a value may change between the get  *)
(* and the put of a transaction.                                           *)
(***************************************************************************)
EXTENDS GreyEntries, Sequences, FiniteSets

CONSTANTS
    Drivers,     \* the database drivers the daemon may be configured with
    SpamTraps,   \* the spamtrap addresses configured when the daemon starts
    FileDomains, \* recipients in a domain of the permitted_domains file
    DbDomains,   \* db_permitted_domains: are domains in the database checked?
    EnableIpv6,  \* enable_ipv6
    HavePeer,    \* does a sync peer send updates to this daemon?
    Spf,         \* is the SPF check enabled?
    SpfWhite,    \* whitelist_on_pass
    LowPrioMx,   \* is a low priority MX configured?
    PeerExpires, \* expiry times announced by sync peers
    MaxTime,     \* bound on the clock
    MaxMsgs,     \* bound on the messages written into the grey pipe
    MaxOps,      \* bound on the runs of greydb and captures of greylogd
    MaxFaults,   \* bound on database, firewall and daemon failures
    PipeSize     \* messages a pipe holds before its writer blocks

ASSUME GreylisterAssumption ==
    /\ Drivers \subseteq {"bdb", "sqlite", "mysql", "postgresql"}
    /\ SpamTraps \subseteq Rcpts
    /\ FileDomains \subseteq Rcpts
    /\ None \notin Rcpts
    /\ {DbDomains, EnableIpv6, HavePeer} \subseteq BOOLEAN
    /\ {Spf, SpfWhite, LowPrioMx} \subseteq BOOLEAN
    /\ PeerExpires \subseteq Nat
    /\ {MaxTime, MaxMsgs, MaxOps, MaxFaults} \subseteq Nat
    /\ PipeSize \in Nat \ {0}

VARIABLES
    driver,      \* the configured database driver
    now,         \* the wall clock
    addr,        \* database: entries keyed by an address
    grey,        \* database: entries keyed by a tuple
    spamtraps,   \* database: spamtrap recipients
    domains,     \* database: recipients in a permitted domain
    lock,        \* the process whose transaction holds the database
    greyPipe,    \* main daemon -> reader
    rPc, rMsg, rNow, rVerdict, rVal,     \* the reader
    tPc, tOp, tIp, tNow, tVal,           \* greylogd or greydb
    sPc, sNow, sSwept,                   \* the scanner, its clock readings,
    todoAddr, todoGrey,                  \* the keys its cursor has not reached,
    wAddr, wGrey,                        \* what its transaction has written,
    white, trapped,                      \* and the lists it collects
    trapPipe,    \* scanner -> main daemon
    blacklist,   \* the greytrap blacklist of the main daemon
    fwPipe,      \* scanner -> firewall process
    fwBuf,       \* messages in the stdio buffer of the firewall process
    fwWhite,     \* the whitelist sets installed in the firewall
    attempts,    \* history: times of the attempts recorded for a tuple
    vouched,     \* history: addresses whitelisted from outside greylisting
    msgs, ops, faults                    \* how much of the bounds is used

dbVars      == <<addr, grey, spamtraps, domains, lock>>
readerVars  == <<rPc, rMsg, rNow, rVerdict, rVal>>
toolVars    == <<tPc, tOp, tIp, tNow, tVal>>
scanVars    == <<sPc, sNow, sSwept, todoAddr, todoGrey, wAddr, wGrey,
                 white, trapped>>
fwVars      == <<fwBuf, fwWhite>>
historyVars == <<attempts, vouched>>
boundVars   == <<msgs, ops, faults>>

vars == <<driver, now, dbVars, greyPipe, readerVars, toolVars, scanVars, trapPipe,
          blacklist, fwPipe, fwVars, historyVars, boundVars>>

\* BEGIN IMMEDIATE, and the two-phase locking of a bdb environment.
Exclusive == driver \in {"bdb", "sqlite"}

NoAddr == [i \in Ips |-> None]
NoGrey == [k \in Tuples |-> None]

GreyMsg == [type : {"grey"}, ip : Ips, to : Rcpts, low : BOOLEAN, sync : BOOLEAN]
PeerMsg == [type : {"white", "trap"}, ip : Ips, expires : Nat, delete : BOOLEAN]
Message == GreyMsg \cup PeerMsg

Families == {"inet", "inet6"}
OfFamily(af) == IF af = "inet6" THEN Inet6 ELSE Ips \ Inet6
FwMsg == [af : Families, ips : SUBSET Ips]

Init ==
    /\ driver \in Drivers
    /\ now = 1
    /\ addr = NoAddr
    /\ grey = NoGrey
    /\ spamtraps = SpamTraps
    /\ domains = {}
    /\ lock = "free"
    /\ greyPipe = <<>>
    /\ rPc = "idle" /\ rMsg = None /\ rNow = 0 /\ rVerdict = "grey" /\ rVal = None
    /\ tPc = "idle" /\ tOp = "log" /\ tIp = None /\ tNow = 0 /\ tVal = None
    /\ sPc = "sleep" /\ sNow = 0 /\ sSwept = 0 /\ todoAddr = {} /\ todoGrey = {}
    /\ wAddr = NoAddr /\ wGrey = NoGrey /\ white = {} /\ trapped = {}
    /\ trapPipe = <<>>
    /\ blacklist = {}
    /\ fwPipe = <<>>
    /\ fwBuf = <<>>
    /\ fwWhite = {}
    /\ attempts = [k \in Tuples |-> {}]
    /\ vouched = {}
    /\ msgs = 0 /\ ops = 0 /\ faults = 0

Tick ==
    /\ now < MaxTime
    /\ now' = now + 1
    /\ UNCHANGED <<driver, dbVars, greyPipe, readerVars, toolVars, scanVars, trapPipe,
                   blacklist, fwPipe, fwVars, historyVars, boundVars>>
----------------------------------------------------------------------------
(* The database transactions. *)

\* Mutant: the get and the put are not in one transaction.
BeginNothing(p) == UNCHANGED lock

\* DB_start_txn.
Begin(p) ==
    IF Exclusive THEN lock = "free" /\ lock' = p ELSE UNCHANGED lock

\* DB_commit_txn.
End == lock' = "free"

\* Mutant: the transaction is left open when an operation fails.
RollbackNothing(p) == UNCHANGED lock

\* DB_rollback_txn, if p has a transaction to roll back.
Rollback(p) == lock' = IF lock = p THEN "free" ELSE lock

----------------------------------------------------------------------------
(* The main daemon.  A client whose connection was not blacklisted when it  *)
(* was accepted is greylisted until it hangs up, whatever has become of its *)
(* address meanwhile, so attempts may come from any address.                *)

\* `low': the attempt was made to the low priority MX, and the daemon has
\* been running for more than a minute.
MainGrey(i, r, low) ==
    /\ msgs < MaxMsgs
    /\ Len(greyPipe) < PipeSize
    /\ low => LowPrioMx
    /\ greyPipe' = Append(greyPipe, [type |-> "grey", ip |-> i, to |-> r,
                                     low |-> low, sync |-> TRUE])
    /\ msgs' = msgs + 1
    /\ UNCHANGED <<driver, now, dbVars, readerVars, toolVars, scanVars, trapPipe,
                   blacklist, fwPipe, fwVars, historyVars, ops, faults>>

\* Sync_recv: what a peer announces, always of an IPv4 address, is written
\* into the grey pipe.
SyncRecv ==
    /\ HavePeer
    /\ msgs < MaxMsgs
    /\ Len(greyPipe) < PipeSize
    /\ \E i \in Ips \ Inet6 :
          \/ \E r \in Rcpts :
                greyPipe' = Append(greyPipe,
                    [type |-> "grey", ip |-> i, to |-> r,
                     low |-> FALSE, sync |-> FALSE])
          \/ \E type \in {"white", "trap"}, x \in PeerExpires, del \in BOOLEAN :
                greyPipe' = Append(greyPipe,
                    [type |-> type, ip |-> i, expires |-> x, delete |-> del])
    /\ msgs' = msgs + 1
    /\ UNCHANGED <<driver, now, dbVars, readerVars, toolVars, scanVars, trapPipe,
                   blacklist, fwPipe, fwVars, historyVars, ops, faults>>

\* Greyd_process_config on the trap pipe: the head of the pipe replaces the
\* greytrap blacklist.  The parser reads through a stdio buffer of its own
\* that is thrown away afterwards, with whatever else had arrived in it.
MainReadTraps ==
    /\ trapPipe # <<>>
    /\ blacklist' = Head(trapPipe)
    /\ \E n \in 1 .. Len(trapPipe) :
          trapPipe' = SubSeq(trapPipe, n + 1, Len(trapPipe))
    /\ UNCHANGED <<driver, now, dbVars, greyPipe, readerVars, toolVars, scanVars,
                   fwPipe, fwVars, historyVars, boundVars>>

----------------------------------------------------------------------------
(* The reader. *)

\* trap_check: is the recipient outside the permitted domains, or a spamtrap?
TrapCheck(to) ==
    LET match == to \in FileDomains \/ (DbDomains /\ to \in domains)
        check == FileDomains # {} \/ DbDomains
    IN  (check /\ ~match) \/ to \in spamtraps

\* What process_grey decides before it opens its transaction.  An SPF answer
\* counts only for mail seen by this daemon that no spamtrap caught.
Verdicts(m) ==
    IF m.type # "grey" THEN {"peer"}
    ELSE IF TrapCheck(m.to) THEN {"trap"}
    ELSE IF Spf /\ m.sync
    THEN {"grey", "trap"} \cup (IF SpfWhite THEN {"spfpass"} ELSE {})
    ELSE {"grey"}

ReaderDone ==
    /\ rPc' = "idle"
    /\ rMsg' = None
    /\ rNow' = 0
    /\ rVerdict' = "grey"
    /\ rVal' = None

\* process_non_grey: no expiry time, and nothing to delete.
Rejected(m) == m.type # "grey" /\ ~m.delete /\ m.expires = 0

\* A message is taken off the pipe, the clock is read and the recipient is
\* checked, all outside of any transaction.
ReaderCheck ==
    /\ rPc = "idle"
    /\ greyPipe # <<>>
    /\ greyPipe' = Tail(greyPipe)
    /\ LET m == Head(greyPipe) IN
          \/ /\ Rejected(m)
             /\ UNCHANGED readerVars
          \/ /\ ~Rejected(m)
             /\ rPc' = "checked"
             /\ rMsg' = m
             /\ rNow' = now
             /\ rVerdict' \in Verdicts(m)
             /\ UNCHANGED rVal
    /\ UNCHANGED <<driver, now, dbVars, toolVars, scanVars, trapPipe, blacklist,
                   fwPipe, fwVars, historyVars, boundVars>>

\* DB_start_txn and DB_get on the key the verdict selects.
ReaderGet ==
    /\ rPc = "checked"
    /\ rVerdict # "spfpass"
    /\ Begin("reader")
    /\ rVal' = IF rVerdict = "grey" THEN grey[<<rMsg.ip, rMsg.to>>]
                                    ELSE addr[rMsg.ip]
    /\ rPc' = "got"
    /\ UNCHANGED <<driver, now, addr, grey, spamtraps, domains, greyPipe, rMsg, rNow,
                   rVerdict, toolVars, scanVars, trapPipe, blacklist, fwPipe,
                   fwVars, historyVars, boundVars>>

\* First seen at the low priority MX: the address is trapped instead, over
\* whatever entry it may have.
LowPrioHit == rVal = None /\ rMsg.sync /\ LowPrioMx /\ rMsg.low

\* The rest of process_grey for a tuple, up to the commit.
ReaderPutGrey ==
    /\ rPc = "got"
    /\ rVerdict = "grey"
    /\ IF LowPrioHit
       THEN /\ addr' = [addr EXCEPT ![rMsg.ip] =
                            NewGreyEntry(rNow, TrapExp, Trapped)]
            /\ UNCHANGED <<grey, attempts>>
       ELSE LET k == <<rMsg.ip, rMsg.to>> IN
            /\ grey' = [grey EXCEPT ![k] =
                            GreyUpdate(rVal, rNow, GreyExp, Passing)]
            /\ attempts' = [attempts EXCEPT ![k] = @ \cup {rNow}]
            /\ UNCHANGED addr
    /\ End
    /\ ReaderDone
    /\ UNCHANGED <<driver, now, spamtraps, domains, greyPipe, toolVars, scanVars,
                   trapPipe, blacklist, fwPipe, fwVars, vouched, boundVars>>

\* The rest of process_grey for an address caught by a trap.
ReaderPutTrap ==
    /\ rPc = "got"
    /\ rVerdict = "trap"
    /\ addr' = [addr EXCEPT ![rMsg.ip] =
                    GreyUpdate(rVal, rNow, TrapExp, Trapped)]
    /\ End
    /\ ReaderDone
    /\ UNCHANGED <<driver, now, grey, spamtraps, domains, greyPipe, toolVars, scanVars,
                   trapPipe, blacklist, fwPipe, fwVars, historyVars, boundVars>>

\* The rest of process_non_grey.
ReaderPutPeer ==
    /\ rPc = "got"
    /\ rVerdict = "peer"
    /\ addr' = [addr EXCEPT ![rMsg.ip] =
                    NonGreyUpdate(rVal, rNow, rMsg.type = "trap",
                                  rMsg.expires, rMsg.delete)]
    /\ vouched' = IF rMsg.type = "white" /\ ~rMsg.delete
                  THEN vouched \cup {rMsg.ip} ELSE vouched
    /\ End
    /\ ReaderDone
    /\ UNCHANGED <<driver, now, grey, spamtraps, domains, greyPipe, toolVars, scanVars,
                   trapPipe, blacklist, fwPipe, fwVars, attempts, boundVars>>

\* An SPF pass is written at once, outside of a transaction.
ReaderPutSpf ==
    /\ rPc = "checked"
    /\ rVerdict = "spfpass"
    /\ lock = "free"
    /\ addr' = [addr EXCEPT ![rMsg.ip] = SpfPassEntry(rNow)]
    /\ vouched' = vouched \cup {rMsg.ip}
    /\ ReaderDone
    /\ UNCHANGED <<driver, now, grey, spamtraps, domains, lock, greyPipe, toolVars,
                   scanVars, trapPipe, blacklist, fwPipe, fwVars, attempts,
                   boundVars>>

\* A database error: the transaction is rolled back and the message is lost.
ReaderFault ==
    /\ rPc # "idle"
    /\ faults < MaxFaults
    /\ faults' = faults + 1
    /\ Rollback("reader")
    /\ ReaderDone
    /\ UNCHANGED <<driver, now, addr, grey, spamtraps, domains, greyPipe, toolVars,
                   scanVars, trapPipe, blacklist, fwPipe, fwVars, historyVars,
                   msgs, ops>>

----------------------------------------------------------------------------
(* greylogd and greydb, one run or one captured address at a time. *)

ToolOps == {"log", "white", "traphit", "delete"}

\* The clock is read before the transaction is opened.
ToolStart(op, i) ==
    /\ tPc = "idle"
    /\ ops < MaxOps
    /\ ops' = ops + 1
    /\ tPc' = "started"
    /\ tOp' = op
    /\ tIp' = i
    /\ tNow' = now
    /\ UNCHANGED <<driver, now, dbVars, greyPipe, readerVars, tVal, scanVars, trapPipe,
                   blacklist, fwPipe, fwVars, historyVars, msgs, faults>>

ToolGet ==
    /\ tPc = "started"
    /\ Begin("tool")
    /\ tVal' = addr[tIp]
    /\ tPc' = "got"
    /\ UNCHANGED <<driver, now, addr, grey, spamtraps, domains, greyPipe, readerVars,
                   tOp, tIp, tNow, scanVars, trapPipe, blacklist, fwPipe,
                   fwVars, historyVars, boundVars>>

ToolDone ==
    /\ tPc' = "idle"
    /\ tOp' = "log"
    /\ tIp' = None
    /\ tNow' = 0
    /\ tVal' = None

\* greylogd: the address of a logged connection is whitelisted.
GreylogdPut ==
    /\ tPc = "got"
    /\ tOp = "log"
    /\ addr' = [addr EXCEPT ![tIp] = GreylogdUpdate(tVal, tNow)]
    /\ vouched' = vouched \cup {tIp}
    /\ End
    /\ ToolDone
    /\ UNCHANGED <<driver, now, grey, spamtraps, domains, greyPipe, readerVars,
                   scanVars, trapPipe, blacklist, fwPipe, fwVars, attempts,
                   boundVars>>

\* db_update of greydb for an address: -a, -t -a and -d.
GreydbPut ==
    /\ tPc = "got"
    /\ tOp # "log"
    /\ addr' = [addr EXCEPT ![tIp] =
                    IF tOp = "delete" THEN None
                    ELSE GreydbUpdate(tVal, tNow, tOp = "traphit")]
    /\ vouched' = IF tOp = "white" THEN vouched \cup {tIp} ELSE vouched
    /\ End
    /\ ToolDone
    /\ UNCHANGED <<driver, now, grey, spamtraps, domains, greyPipe, readerVars,
                   scanVars, trapPipe, blacklist, fwPipe, fwVars, attempts,
                   boundVars>>

\* The tool fails, or is killed: its transaction is rolled back.
ToolFault ==
    /\ tPc # "idle"
    /\ faults < MaxFaults
    /\ faults' = faults + 1
    /\ Rollback("tool")
    /\ ToolDone
    /\ UNCHANGED <<driver, now, addr, grey, spamtraps, domains, greyPipe, readerVars,
                   scanVars, trapPipe, blacklist, fwPipe, fwVars, historyVars,
                   msgs, ops>>

\* db_update of greydb for a spamtrap (-T) or a permitted domain (-D).
GreydbList(r) ==
    /\ ops < MaxOps
    /\ ops' = ops + 1
    /\ lock = "free"
    /\ \/ /\ spamtraps' \in {spamtraps \cup {r}, spamtraps \ {r}}
          /\ UNCHANGED domains
       \/ /\ DbDomains
          /\ domains' \in {domains \cup {r}, domains \ {r}}
          /\ UNCHANGED spamtraps
    /\ UNCHANGED <<driver, now, addr, grey, lock, greyPipe, readerVars, toolVars,
                   scanVars, trapPipe, blacklist, fwPipe, fwVars, historyVars,
                   msgs, faults>>

----------------------------------------------------------------------------
(* The scanner: Grey_scan_db. *)

ScanClock ==
    /\ sPc = "sleep"
    /\ sPc' = "clocked"
    /\ sNow' = now
    /\ UNCHANGED <<driver, now, dbVars, greyPipe, readerVars, toolVars, sSwept,
                   todoAddr, todoGrey, wAddr, wGrey, white, trapped, trapPipe,
                   blacklist, fwPipe, fwVars, historyVars, boundVars>>

\* Mutant: the entry keyed by the address is not put.
PromotedNoPut(e) == None

\* A tuple entry that becomes the whitelist entry of its address.
Promoted(e) == [e EXCEPT !.expire = sNow + WhiteExp]

\* Mutant: the cursor survives the transaction.
ScanIdleOpenCursor ==
    /\ sNow' = 0
    /\ sSwept' = 0
    /\ UNCHANGED <<todoAddr, todoGrey>>
    /\ wAddr' = NoAddr
    /\ wGrey' = NoGrey

ScanIdle ==
    /\ sNow' = 0
    /\ sSwept' = 0
    /\ todoAddr' = {}
    /\ todoGrey' = {}
    /\ wAddr' = NoAddr
    /\ wGrey' = NoGrey

(* Mod_scan_db of the bdb driver: one transaction, and a cursor that meets *)
(* the keys of the hash table in an order of its own.                      *)

ScanOpen ==
    /\ driver = "bdb"
    /\ sPc = "clocked"
    /\ Begin("scanner")
    /\ sPc' = "txn"
    /\ todoAddr' = {i \in Ips : addr[i] # None}
    /\ todoGrey' = {k \in Tuples : grey[k] # None}
    /\ wAddr' = addr
    /\ wGrey' = grey
    /\ UNCHANGED <<driver, now, addr, grey, spamtraps, domains, greyPipe, readerVars,
                   toolVars, sNow, sSwept, white, trapped, trapPipe, blacklist,
                   fwPipe, fwVars, historyVars, boundVars>>

VisitAddr(i) ==
    /\ sPc = "txn"
    /\ i \in todoAddr
    /\ todoAddr' = todoAddr \ {i}
    /\ LET e == wAddr[i] IN
       /\ wAddr' = IF Expired(e, sNow) THEN [wAddr EXCEPT ![i] = None] ELSE wAddr
       /\ trapped' = IF ~Expired(e, sNow) /\ IsTrapped(e)
                     THEN trapped \cup {i} ELSE trapped
       /\ white' = IF ~Expired(e, sNow) /\ IsDue(e, sNow)
                   THEN white \cup {i} ELSE white
    /\ UNCHANGED <<driver, now, dbVars, greyPipe, readerVars, toolVars, sPc, sNow,
                   sSwept, todoGrey, wGrey, trapPipe, blacklist, fwPipe,
                   fwVars, historyVars, boundVars>>

\* Mutant: nobody asks for the state of the address.
AddrIsTrappedNever(i) == FALSE

\* DB_addr_state on the address of a tuple, within the transaction.
AddrIsTrapped(i) == IsTrapped(wAddr[i])

\* An address entry put while the cursor is open may be inserted before or
\* behind the cursor.
VisitTuple(k) ==
    /\ sPc = "txn"
    /\ k \in todoGrey
    /\ todoGrey' = todoGrey \ {k}
    /\ LET e == wGrey[k]
           i == k[1]
       IN  \/ /\ Expired(e, sNow)
              /\ wGrey' = [wGrey EXCEPT ![k] = None]
              /\ UNCHANGED <<wAddr, white, todoAddr>>
           \/ /\ ~Expired(e, sNow) /\ IsDue(e, sNow) /\ ~AddrIsTrapped(i)
              /\ white' = white \cup {i}
              /\ wAddr' = [wAddr EXCEPT ![i] = Promoted(e)]
              /\ wGrey' = [wGrey EXCEPT ![k] = None]
              /\ \/ UNCHANGED todoAddr
                 \/ wAddr[i] = None /\ todoAddr' = todoAddr \cup {i}
           \/ /\ ~Expired(e, sNow)
              /\ ~(IsDue(e, sNow) /\ ~AddrIsTrapped(i))
              /\ UNCHANGED <<wAddr, wGrey, white, todoAddr>>
    /\ UNCHANGED <<driver, now, dbVars, greyPipe, readerVars, toolVars, sPc, sNow,
                   sSwept, trapped, trapPipe, blacklist, fwPipe, fwVars,
                   historyVars, boundVars>>

ScanCommit ==
    /\ sPc = "txn"
    /\ todoAddr = {}
    /\ todoGrey = {}
    /\ addr' = wAddr
    /\ grey' = wGrey
    /\ End
    /\ sPc' = "publish"
    /\ ScanIdle
    /\ UNCHANGED <<driver, now, spamtraps, domains, greyPipe, readerVars, toolVars,
                   white, trapped, trapPipe, blacklist, fwPipe, fwVars,
                   historyVars, boundVars>>

(* Mod_scan_db of the SQL drivers: the entries expired at time d are       *)
(* deleted, then a statement evaluated at time t clears the tuple fields   *)
(* of the due entries whose address has no entry yet, then the lists are   *)
(* selected.                                                               *)

Swept(f, d) == [x \in DOMAIN f |-> IF Expired(f[x], d) THEN None ELSE f[x]]

\* Mutant: entries that pass just now are left out.
DueRcptsLate(d, t, i) ==
    IF Swept(addr, d)[i] # None THEN {}
    ELSE {r \in Rcpts : IsDue(Swept(grey, d)[<<i, r>>], t - 1)}

\* Mutant: the entry an address already has is not looked for.
DueRcptsAnyAddr(d, t, i) ==
    {r \in Rcpts : IsDue(Swept(grey, d)[<<i, r>>], t)}

DueRcpts(d, t, i) ==
    IF Swept(addr, d)[i] # None THEN {}
    ELSE {r \in Rcpts : IsDue(Swept(grey, d)[<<i, r>>], t)}

\* Which of the due tuples of an address becomes its entry.
Winners(d, t) ==
    {w \in [Ips -> Rcpts \cup {None}] :
        \A i \in Ips : IF DueRcpts(d, t, i) = {} THEN w[i] = None
                       ELSE w[i] \in DueRcpts(d, t, i)}

SqlWrite(d, t, w, losersGo) ==
    /\ addr' = [i \in Ips |-> IF w[i] = None THEN Swept(addr, d)[i]
                              ELSE Promoted(grey[<<i, w[i]>>])]
    /\ grey' = [k \in Tuples |->
                   IF k[2] \in DueRcpts(d, t, k[1]) /\ (losersGo \/ w[k[1]] = k[2])
                   THEN None ELSE Swept(grey, d)[k]]

\* Mutant: the lists are selected before anything is deleted.
SqlListsFirst ==
    /\ white' = {i \in Ips : IsPassing(addr[i])}
    /\ trapped' = {i \in Ips : IsTrapped(addr[i])}

\* The lists hold every address entry, whatever its pass time.
SqlLists ==
    /\ white' = {i \in Ips : IsPassing(addr'[i])}
    /\ trapped' = {i \in Ips : IsTrapped(addr'[i])}

SqlUnchanged ==
    UNCHANGED <<driver, now, spamtraps, domains, lock, greyPipe, readerVars, toolVars,
                trapPipe, blacklist, fwPipe, fwVars, historyVars, boundVars>>

\* UPDATE OR REPLACE: the last of the due tuples of an address replaces the
\* others.  Both statements use the time read before the transaction.
ScanSqlite ==
    /\ driver = "sqlite"
    /\ sPc = "clocked"
    /\ lock = "free"
    /\ \E w \in Winners(sNow, sNow) : SqlWrite(sNow, sNow, w, TRUE)
    /\ SqlLists
    /\ sPc' = "publish"
    /\ ScanIdle
    /\ SqlUnchanged

\* Two due tuples of one address collide on the primary key.  The error of
\* the statement is not returned: the lists stay empty, and the commit of the
\* failed transaction undoes it.  now() is the time the transaction started.
ScanPostgresql ==
    /\ driver = "postgresql"
    /\ sPc = "clocked"
    /\ LET clash == \E i \in Ips : Cardinality(DueRcpts(now, now, i)) > 1 IN
          \/ clash /\ UNCHANGED <<addr, grey, white, trapped>>
          \/ /\ ~clash
             /\ \E w \in Winners(now, now) : SqlWrite(now, now, w, TRUE)
             /\ SqlLists
    /\ sPc' = "publish"
    /\ ScanIdle
    /\ SqlUnchanged

\* UNIX_TIMESTAMP() is evaluated by each statement.  UPDATE IGNORE leaves the
\* tuples that lose as they are.
ScanMysqlDelete ==
    /\ driver = "mysql"
    /\ sPc = "clocked"
    /\ sPc' = "swept"
    /\ sSwept' = now
    /\ UNCHANGED <<addr, grey, sNow, todoAddr, todoGrey, wAddr, wGrey, white,
                   trapped>>
    /\ SqlUnchanged

ScanMysqlUpdate ==
    /\ sPc = "swept"
    /\ \E w \in Winners(sSwept, now) : SqlWrite(sSwept, now, w, FALSE)
    /\ SqlLists
    /\ sPc' = "publish"
    /\ ScanIdle
    /\ SqlUnchanged

\* A database error.  bdb and sqlite roll back and nothing is published; mysql
\* commits what the scan had done before the update or the select failed, and
\* publishes its empty lists, that is, nothing.
ScanFault ==
    /\ sPc \in {"clocked", "txn", "swept"}
    /\ faults < MaxFaults
    /\ faults' = faults + 1
    /\ \/ sPc # "swept" /\ UNCHANGED <<addr, grey>>
       \/ sPc = "swept" /\ addr' = Swept(addr, sSwept) /\ grey' = Swept(grey, sSwept)
       \/ sPc = "swept" /\ \E w \in Winners(sSwept, now) :
                                SqlWrite(sSwept, now, w, FALSE)
    /\ Rollback("scanner")
    /\ sPc' = "sleep"
    /\ white' = {}
    /\ trapped' = {}
    /\ ScanIdle
    /\ UNCHANGED <<driver, now, spamtraps, domains, greyPipe, readerVars, toolVars,
                   trapPipe, blacklist, fwPipe, fwVars, historyVars, msgs, ops>>

(* Greyd_send_config and update_firewall: a list is sent only when it is   *)
(* not empty, and the writer of a full pipe waits.                         *)

\* Mutant: the IPv6 whitelist is never sent.
FwUpdateInetOnly(af) ==
    IF af = "inet" /\ white \ Inet6 # {}
    THEN <<[af |-> af, ips |-> white \ Inet6]>> ELSE <<>>

FwUpdate(af) ==
    LET ips == white \cap OfFamily(af)
    IN  IF ips # {} /\ (af = "inet6" => EnableIpv6)
        THEN <<[af |-> af, ips |-> ips]>> ELSE <<>>

ScanPublish ==
    /\ sPc = "publish"
    /\ Len(trapPipe) < PipeSize
    /\ Len(fwPipe) < PipeSize
    /\ trapPipe' = IF trapped # {} THEN Append(trapPipe, trapped) ELSE trapPipe
    /\ fwPipe' = fwPipe \o FwUpdate("inet") \o FwUpdate("inet6")
    /\ sPc' = "sleep"
    /\ white' = {}
    /\ trapped' = {}
    /\ UNCHANGED <<driver, now, dbVars, greyPipe, readerVars, toolVars, sNow, sSwept,
                   todoAddr, todoGrey, wAddr, wGrey, blacklist, fwVars,
                   historyVars, boundVars>>

----------------------------------------------------------------------------
(* The firewall process: Greyd_start_fw_child. *)

\* FW_replace swaps in the new set of one family.
Installed(m) == (fwWhite \ OfFamily(m.af)) \cup m.ips

\* poll() has seen input, and one message is parsed and applied.  The parser
\* reads through a stdio buffer that lives as long as the process: only when
\* the buffer is empty does it read, and then as much as has arrived.
FwRead ==
    /\ fwPipe # <<>>
    /\ LET m == IF fwBuf # <<>> THEN Head(fwBuf) ELSE Head(fwPipe) IN
          \/ fwWhite' = Installed(m) /\ UNCHANGED faults
          \/ /\ faults < MaxFaults      \* FW_replace fails; the old set stays
             /\ faults' = faults + 1
             /\ UNCHANGED fwWhite
    /\ IF fwBuf # <<>>
       THEN fwBuf' = Tail(fwBuf) /\ UNCHANGED fwPipe
       ELSE \E n \in 1 .. Len(fwPipe) :
               /\ fwBuf' = SubSeq(fwPipe, 2, n)
               /\ fwPipe' = SubSeq(fwPipe, n + 1, Len(fwPipe))
    /\ UNCHANGED <<driver, now, dbVars, greyPipe, readerVars, toolVars, scanVars,
                   trapPipe, blacklist, historyVars, msgs, ops>>

----------------------------------------------------------------------------
(* The daemon is stopped, or dies, and is started again.  The database and  *)
(* the firewall keep what was committed and installed; the rest is lost.    *)

Restart ==
    /\ faults < MaxFaults
    /\ faults' = faults + 1
    /\ lock' = IF lock = "tool" THEN "tool" ELSE "free"
    /\ greyPipe' = <<>>
    /\ ReaderDone
    /\ sPc' = "sleep"
    /\ white' = {}
    /\ trapped' = {}
    /\ ScanIdle
    /\ trapPipe' = <<>>
    /\ blacklist' = {}
    /\ fwPipe' = <<>>
    /\ fwBuf' = <<>>
    /\ UNCHANGED <<driver, now, addr, grey, spamtraps, domains, toolVars, fwWhite,
                   historyVars, msgs, ops>>

----------------------------------------------------------------------------

ReaderStep ==
    \/ ReaderCheck \/ ReaderGet
    \/ ReaderPutGrey \/ ReaderPutTrap \/ ReaderPutPeer \/ ReaderPutSpf

ToolStep == ToolGet \/ GreylogdPut \/ GreydbPut

BdbScanStep ==
    \/ ScanOpen \/ ScanCommit
    \/ \E i \in Ips : VisitAddr(i)
    \/ \E k \in Tuples : VisitTuple(k)

SqlScanStep ==
    ScanSqlite \/ ScanPostgresql \/ ScanMysqlDelete \/ ScanMysqlUpdate

ScanStep == ScanClock \/ BdbScanStep \/ SqlScanStep \/ ScanPublish

Environment ==
    \/ Tick
    \/ \E i \in Ips, r \in Rcpts, low \in BOOLEAN : MainGrey(i, r, low)
    \/ SyncRecv
    \/ \E op \in ToolOps, i \in Ips : ToolStart(op, i)
    \/ \E r \in Rcpts : GreydbList(r)

Fault == ReaderFault \/ ToolFault \/ ScanFault \/ Restart

Next ==
    \/ Environment \/ ReaderStep \/ ToolStep \/ ScanStep
    \/ MainReadTraps \/ FwRead \/ Fault

Spec == Init /\ [][Next]_vars

\* Each process goes on as long as it has something to do.
Fairness ==
    /\ WF_vars(ReaderStep)
    /\ WF_vars(ToolStep)
    /\ WF_vars(ScanStep)
    /\ WF_vars(MainReadTraps)
    /\ WF_vars(FwRead)

FairSpec == Spec /\ Fairness

----------------------------------------------------------------------------
(* Properties. *)

TypeDb ==
    /\ driver \in Drivers
    /\ addr \in [Ips -> MaybeEntry]
    /\ grey \in [Tuples -> MaybeEntry]
    /\ spamtraps \subseteq Rcpts
    /\ domains \subseteq Rcpts
    /\ lock \in {"free", "reader", "tool", "scanner"}

TypeReader ==
    /\ rPc \in {"idle", "checked", "got"}
    /\ rVerdict \in {"grey", "trap", "peer", "spfpass"}
    /\ rPc # "idle" => rMsg \in (IF rVerdict = "peer" THEN PeerMsg ELSE GreyMsg)
    /\ rNow \in Nat
    /\ rVal \in MaybeEntry

TypeTool ==
    /\ tPc \in {"idle", "started", "got"}
    /\ tOp \in ToolOps
    /\ tPc # "idle" => tIp \in Ips
    /\ tNow \in Nat
    /\ tVal \in MaybeEntry

TypeScan ==
    /\ sPc \in {"sleep", "clocked", "txn", "swept", "publish"}
    /\ sNow \in Nat
    /\ sSwept \in Nat
    /\ todoAddr \subseteq {i \in Ips : wAddr[i] # None}
    /\ todoGrey \subseteq {k \in Tuples : wGrey[k] # None}
    /\ wAddr \in [Ips -> MaybeEntry]
    /\ wGrey \in [Tuples -> MaybeEntry]
    /\ white \subseteq Ips
    /\ trapped \subseteq Ips

TypePipes ==
    /\ greyPipe \in Seq(Message)
    /\ trapPipe \in Seq(SUBSET Ips)
    /\ blacklist \subseteq Ips
    /\ fwPipe \in Seq(FwMsg)
    /\ fwBuf \in Seq(FwMsg)
    /\ fwWhite \subseteq Ips

TypeHistory ==
    /\ now \in Nat
    /\ attempts \in [Tuples -> SUBSET Nat]
    /\ vouched \subseteq Ips
    /\ msgs \in Nat
    /\ ops \in Nat
    /\ faults \in Nat

\* Every variable keeps to the values the code can give it; the cursor of the
\* scanner only points at keys that are there.
TypeOK ==
    TypeDb /\ TypeReader /\ TypeTool /\ TypeScan /\ TypePipes /\ TypeHistory

\* Two attempts to deliver the same message, further apart than the pass time
\* and closer than the life of a grey entry.
Earned(i) ==
    \E r \in Rcpts : \E t1, t2 \in attempts[<<i, r>>] :
        t1 + PassTime < t2 /\ t2 < t1 + GreyExp

\* The promise of greylisting (grey.c, "a grey entry will not be whitelisted
\* unless they retry with the same tuple"): no address gets into the whitelist
\* of the firewall unless one of its deliveries was retried within the time
\* window, or someone outside greylisting vouched for it.
AlwaysEarned == \A i \in fwWhite : i \in vouched \/ Earned(i)

\* The same with every driver but mysql, whose scan reads the clock twice.
WhitelistEarned == driver # "mysql" => AlwaysEarned

(* The inductive strengthening of WhitelistEarned: every entry on the way   *)
(* from an attempt to the firewall is accounted for by the history.         *)

Good(i) == i \in vouched \/ Earned(i)

\* A tuple entry was made by a recorded attempt and lives for GreyExp.  Its
\* pass time is its expiry, which it does not outlive, until a recorded retry
\* lowers it.
GreyBacked(k, e) ==
    e # None =>
        /\ e.first \in attempts[k]
        /\ e.expire = e.first + GreyExp
        /\ \/ e.pass = e.expire
           \/ e.pass \in attempts[k] /\ e.first + PassTime < e.pass

BackedDb ==
    /\ \A k \in Tuples : GreyBacked(k, grey[k])
    /\ \A i \in Ips : IsPassing(addr[i]) => Good(i)

BackedReader ==
    (rPc = "got" /\ rVerdict = "grey") => GreyBacked(<<rMsg.ip, rMsg.to>>, rVal)

BackedScan ==
    /\ sPc # "swept"
    /\ \A k \in Tuples : GreyBacked(k, wGrey[k])
    /\ \A i \in Ips : IsPassing(wAddr[i]) => Good(i)
    /\ \A i \in white : Good(i)

GoodMsg == [af : Families, ips : SUBSET {i \in Ips : Good(i)}]

BackedFw ==
    /\ fwPipe \in Seq(GoodMsg)
    /\ fwBuf \in Seq(GoodMsg)
    /\ \A i \in fwWhite : Good(i)

AllBacked == BackedDb /\ BackedReader /\ BackedScan /\ BackedFw

\* With any driver but mysql, whose scan reads the clock twice, the database,
\* what the reader has in hand, the work of the scanner and everything on its
\* way to the firewall are backed by recorded attempts or vouched for.
GreyInv == driver # "mysql" => AllBacked

\* A transaction of the reader, of greylogd or of greydb writes what follows
\* from the value that is in the database when it writes it: nobody has
\* changed the entry between its get and its put.
SeesLatest ==
    /\ rPc = "got" =>
          rVal = IF rVerdict = "grey" THEN grey[<<rMsg.ip, rMsg.to>>]
                                      ELSE addr[rMsg.ip]
    /\ tPc = "got" => tVal = addr[tIp]

\* No update is lost with bdb and sqlite, whose transactions exclude each other.
NoLostUpdate == Exclusive => SeesLatest

\* Why this holds: whoever has read an entry to update it, or is in the middle
\* of a scan, holds the database.
LockHeld ==
    /\ rPc = "got" => lock = "reader"
    /\ tPc = "got" => lock = "tool"
    /\ sPc = "txn" => lock = "scanner"
    /\ sPc # "swept"

ScanEnds == sPc # "publish" /\ sPc' = "publish"

\* When a scan ends, in whatever order its cursor met the keys, its lists say
\* what the database it leaves behind says: the trap list holds the addresses
\* with a greytrap entry, and nothing the whitelist holds is trapped or has no
\* passing entry.  The scan of postgresql leaves its lists empty when it fails.
ListsMatchDb ==
    [][ScanEnds /\ (driver = "postgresql" => trapped' # {}) =>
          /\ trapped' = {i \in Ips : IsTrapped(addr'[i])}
          /\ \A i \in white' : IsPassing(addr'[i])]_vars

\* What greyd(8) promises to a host that retries: after a scan, the address of
\* a retried tuple that has come due has an entry of its own, unless the scan
\* met it while a trap of the address that had just run out was still there.
RetriedPromoted ==
    ScanEnds => \A k \in Tuples :
        (IsDue(grey[k], sNow) /\ ~Expired(grey[k], now))
            => addr'[k[1]] # None \/ IsTrapped(addr[k[1]])

\* Every scan does so ...
AlwaysPromotes == [][RetriedPromoted]_vars

\* ... with every driver but postgresql, where two such tuples of one address
\* stop each other.
ScanPromotesRetried == [][driver # "postgresql" => RetriedPromoted]_vars

\* A scan never lifts a greytrap that is still running, and never whitelists
\* its address: DB_addr_state in the cursor loop, NOT IN in the SQL drivers.
ScanKeepsTraps ==
    [][ScanEnds => \A i \in Ips :
          (IsTrapped(addr[i]) /\ addr[i].expire > now)
              => addr'[i] = addr[i] /\ i \notin white']_vars

\* A trapped address reaches the blacklist of the main daemon, unless its trap
\* ends first; lost pipe contents and restarts only delay it.
TrapReachesMain ==
    \A i \in Ips :
        IsTrapped(addr[i]) ~> (i \in blacklist \/ ~IsTrapped(addr[i]))

\* A whitelisted address reaches the firewall, unless its entry ends first.
WhiteReachesFw ==
    \A i \in Ips :
        IsDue(addr[i], now) ~> (i \in fwWhite \/ ~IsPassing(addr[i]))

\* greyd(8): a host that mails a spamtrap "is blacklisted for 24 hours".  Once
\* its entry is gone from the database, the main daemon lets go of it.
TrapEnds ==
    \A i \in Ips :
        (i \in blacklist /\ addr[i] = None) ~>
            (i \notin blacklist \/ addr[i] # None)
=============================================================================
