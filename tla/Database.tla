------------------------------ MODULE Database ------------------------------
(***************************************************************************)
(* The programs that share a database, and what they ask of its driver:    *)
(* an update (DB_start_txn, DB_get, DB_put or DB_del, DB_commit_txn), the  *)
(* scan of a database through an iterator inside of a transaction, the     *)
(* listing of greydb outside of one, and the search for a permitted        *)
(* domain.  Any call of a database library may fail.  A program that ends  *)
(* is started again.                                                       *)
(***************************************************************************)
EXTENDS Drivers

CONSTANTS
    Procs,       \* processes that use the database
    Dbs,         \* the drivers that are looked at
    Content,     \* the keys that may have a record to begin with
    MaxUpdates,  \* bound on what the programs do
    MaxFaults    \* bound on failing library calls

ASSUME DatabaseAssumption ==
    /\ Dbs \subseteq {"bdb", "sqlite", "mysql", "postgresql"}
    /\ Content \subseteq Keys
    /\ {MaxUpdates, MaxFaults} \subseteq Nat

VARIABLES
    driver,   \* configuration
    db,       \* the committed records
    h,        \* the handle of each process
    pc,       \* where each program is
    scan,     \* does it scan?
    key,      \* the key of its update
    got,      \* what DB_get has returned
    tries,    \* of sqlite's BEGIN and COMMIT
    missed,   \* history: DB_get failed to find a record that is there
    listed,   \* what a listing has shown, "junk" for an undefined record
    steady,   \* history: records that were there all through the listing
    dead,     \* bdb: locks of processes that are gone
    updates, faults   \* how much of the bounds is used

progVars == <<scan, key, got, tries, missed, listed>>
vars == <<driver, db, h, pc, progVars, steady, dead, updates, faults>>

Pcs == {"none", "idle", "start", "get", "write", "next", "curr", "commit",
        "rollback", "itr"}

Init ==
    /\ driver \in Dbs
    /\ \E C \in SUBSET Content, v \in Vals :
          db = [k \in Keys |-> IF k \in C THEN v ELSE None]
    /\ h = [p \in Procs |-> NoHandle]
    /\ pc = [p \in Procs |-> "none"]
    /\ scan = [p \in Procs |-> FALSE]
    /\ key = [p \in Procs |-> None]
    /\ got = [p \in Procs |-> None]
    /\ tries = [p \in Procs |-> 0]
    /\ missed = [p \in Procs |-> FALSE]
    /\ listed = [p \in Procs |-> {}]
    /\ steady = [p \in Procs |-> {}]
    /\ dead = [rd |-> {}, wr |-> {}]
    /\ updates = 0
    /\ faults = 0

----------------------------------------------------------------------------
(* greydb.c: the driver that is configured. *)

DB_init(s) == [bdb |-> BdbInit(s), sqlite |-> SqliteInit(s),
               mysql |-> MysqlInit(s), postgresql |-> PgInit(s)][driver]
DB_open(s) == [bdb |-> BdbOpen(s), sqlite |-> SqliteOpen(s),
               mysql |-> MysqlOpen(s), postgresql |-> PgOpen(s)][driver]
DB_start_txn(s, n) ==
    [bdb |-> BdbStart(s), sqlite |-> SqliteStart(s, n),
     mysql |-> MysqlStart(s), postgresql |-> PgStart(s)][driver]
DB_commit_txn(s, n) ==
    [bdb |-> BdbCommit(s), sqlite |-> SqliteCommit(s, n),
     mysql |-> MysqlCommit(s), postgresql |-> PgCommit(s)][driver]
DB_rollback_txn(s) ==
    [bdb |-> BdbRollback(s), sqlite |-> SqliteRollback(s),
     mysql |-> MysqlRollback(s), postgresql |-> PgRollback(s)][driver]
DB_close(s) == [bdb |-> BdbClose(s), sqlite |-> SqliteClose(s),
                mysql |-> MysqlClose(s), postgresql |-> PgClose(s)][driver]
DB_put(s, k, v) ==
    [bdb |-> BdbPut(s, k, v), sqlite |-> SqlitePut(s, k, v),
     mysql |-> MysqlPut(s, k, v), postgresql |-> PgPut(s, k, v)][driver]
DB_get(s, k) == [bdb |-> BdbGet(s, k), sqlite |-> SqliteGet(s, k),
                 mysql |-> MysqlGet(s, k), postgresql |-> PgGet(s, k)][driver]
DB_del(s, k) == [bdb |-> BdbDel(s, k), sqlite |-> SqliteDel(s, k),
                 mysql |-> MysqlDel(s, k), postgresql |-> PgDel(s, k)][driver]
DB_get_itr(s) == [bdb |-> BdbGetItr(s), sqlite |-> SqliteGetItr(s),
                  mysql |-> MysqlGetItr(s), postgresql |-> PgGetItr(s)][driver]
DB_itr_next(s) ==
    [bdb |-> BdbItrNext(s), sqlite |-> SqliteItrNext(s),
     mysql |-> MysqlItrNext(s), postgresql |-> PgItrNext(s)][driver]
DB_itr_replace_curr(s, v) ==
    [bdb |-> BdbReplaceCurr(s, v), sqlite |-> SqliteReplaceCurr(s, v),
     mysql |-> MysqlReplaceCurr(s, v), postgresql |-> PgReplaceCurr(s, v)][driver]
DB_itr_del_curr(s) ==
    [bdb |-> BdbDelCurr(s), sqlite |-> SqliteDelCurr(s),
     mysql |-> MysqlDelCurr(s), postgresql |-> PgDelCurr(s)][driver]
DB_close_itr(s) ==
    [bdb |-> BdbItrClose(s), sqlite |-> SqliteItrClose(s),
     mysql |-> MysqlItrClose(s), postgresql |-> PgItrClose(s)][driver]

----------------------------------------------------------------------------
(* Calls.  *)

Others(p) == Procs \ {p}

S(p) == [h |-> h[p], db |-> db,
         locked  |-> \E q \in Others(p) : h[q].wr # {},
         reading |-> \E q \in Others(p) : h[q].itr = "open"]

\* What others keep p from reading or from writing.
ReadLocked(p)  == dead.rd \cup UNION {h[q].rd : q \in Others(p)}
WriteLocked(p) == dead.wr \cup UNION {h[q].wr : q \in Others(p)}

MayRead(p, keys) == driver = "bdb" => keys \cap WriteLocked(p) = {}
MayWrite(p, k) ==
    CASE driver = "bdb" -> Table(k) \cap (ReadLocked(p) \cup WriteLocked(p)) = {}
      [] driver = "sqlite" -> TRUE
      [] OTHER -> k \notin WriteLocked(p)

Gone(o) == o[2] \in {"exit", "die"}

\* The outcome o of a call of p.  When p ends, its library or its server
\* rolls back, but a bdb environment keeps the locks of a process that died.
Effect(p, o) ==
    /\ faults + o[3] <= MaxFaults
    /\ faults' = faults + o[3]
    /\ h' = [h EXCEPT ![p] = IF Gone(o) THEN NoHandle ELSE o[1].h]
    /\ db' = o[1].db
    /\ dead' = IF driver = "bdb" /\ o[2] = "die"
               THEN [rd |-> dead.rd \cup h[p].rd, wr |-> dead.wr \cup h[p].wr]
               ELSE dead
    /\ steady' = [q \in Procs |-> {k \in steady[q] : o[1].db[k] # None}]
    /\ UNCHANGED driver

\* Where p goes on, or that it is gone.
Goto(p, o, l) == pc' = [pc EXCEPT ![p] = IF Gone(o) THEN "none" ELSE l]

\* The program variables of p go back to where they were at the start.
Reset(p) ==
    /\ scan' = [scan EXCEPT ![p] = FALSE]
    /\ key' = [key EXCEPT ![p] = None]
    /\ got' = [got EXCEPT ![p] = None]
    /\ tries' = [tries EXCEPT ![p] = 0]
    /\ missed' = [missed EXCEPT ![p] = FALSE]
    /\ listed' = [listed EXCEPT ![p] = {}]

\* Mutant: the retries are not counted.
AgainUncounted(p) == UNCHANGED tries

\* sqlite is busy: sleep and retry.
Again(p) == tries' = [tries EXCEPT ![p] = @ + 1]

Begun(p) ==
    /\ pc[p] = "idle"
    /\ h[p].open
    /\ updates < MaxUpdates
    /\ updates' = updates + 1

----------------------------------------------------------------------------
(* The programs. *)

ProgramStart(p) ==
    /\ pc[p] = "none"
    /\ \E o \in DB_init(S(p)) : Effect(p, o) /\ Goto(p, o, "idle")
    /\ UNCHANGED <<progVars, updates>>

Open(p) ==
    /\ pc[p] = "idle"
    /\ ~h[p].open
    /\ \E o \in DB_open(S(p)) : Effect(p, o) /\ Goto(p, o, "idle")
    /\ UNCHANGED <<progVars, updates>>

Close(p) ==
    /\ Begun(p)
    /\ \E o \in DB_close(S(p)) : Effect(p, o) /\ pc' = [pc EXCEPT ![p] = "none"]
    /\ UNCHANGED progVars

\* trap_check: is the domain of the recipient among the permitted ones?
TrapCheck(p) ==
    /\ Begun(p)
    /\ MayRead(p, Doms)
    /\ \E o \in DB_get(S(p), Part) :
          /\ Effect(p, o)
          /\ Goto(p, o, "idle")
          /\ got' = [got EXCEPT ![p] = IF Gone(o) THEN None ELSE o[2]]
    /\ UNCHANGED <<scan, key, tries, missed, listed>>

\* process_grey, process_non_grey, greylogd and greydb update one record.
UpdateStart(p, k) ==
    /\ Begun(p)
    /\ pc' = [pc EXCEPT ![p] = "start"]
    /\ key' = [key EXCEPT ![p] = k]
    /\ UNCHANGED <<driver, db, h, scan, got, tries, missed, listed, steady, dead,
                   faults>>

\* Grey_scan_db.
ScanStart(p) ==
    /\ Begun(p)
    /\ pc' = [pc EXCEPT ![p] = "start"]
    /\ scan' = [scan EXCEPT ![p] = TRUE]
    /\ UNCHANGED <<driver, db, h, key, got, tries, missed, listed, steady, dead,
                   faults>>

\* The result of DB_start_txn is ignored.  A scan opens its iterator next.
StartTxn(p) ==
    /\ pc[p] = "start"
    /\ \E o \in DB_start_txn(S(p), tries[p]) :
          /\ Effect(p, o)
          /\ \/ /\ o[2] = "retry"
                /\ Again(p)
                /\ UNCHANGED <<pc, scan, key, got, missed, listed>>
             \/ /\ o[2] \in {"OK", "ERR"}
                /\ pc' = [pc EXCEPT ![p] = IF scan[p] THEN "itr" ELSE "get"]
                /\ tries' = [tries EXCEPT ![p] = 0]
                /\ UNCHANGED <<scan, key, got, missed, listed>>
             \/ Gone(o) /\ Goto(p, o, "none") /\ Reset(p)
    /\ UNCHANGED updates

Get(p) ==
    /\ pc[p] = "get"
    /\ MayRead(p, Table(key[p]))
    /\ \E o \in DB_get(S(p), key[p]) :
          /\ Effect(p, o)
          /\ Goto(p, o, IF o[2] = "ERR" THEN "rollback" ELSE "write")
          /\ IF Gone(o) THEN Reset(p)
             ELSE /\ got' = [got EXCEPT ![p] = o[2]]
                  /\ missed' = [missed EXCEPT ![p] =
                                    o[2] = None /\ View(S(p), key[p]) # None]
                  /\ UNCHANGED <<scan, key, tries, listed>>
    /\ UNCHANGED updates

\* A record that was found is changed or deleted, one that was not is added.
\* An error is followed by a rollback, or, in process_non_grey, by a commit.
Write(p) ==
    /\ pc[p] = "write"
    /\ MayWrite(p, key[p])
    /\ \E o \in (UNION {DB_put(S(p), key[p], v) : v \in Vals})
                 \cup (IF got[p] = None THEN {} ELSE DB_del(S(p), key[p])) :
          /\ Effect(p, o)
          /\ IF Gone(o) THEN Goto(p, o, "none") /\ Reset(p)
             ELSE /\ \/ Goto(p, o, "commit")
                     \/ o[2] # "OK" /\ Goto(p, o, "rollback")
                  /\ UNCHANGED progVars
    /\ UNCHANGED updates

\* The result of DB_commit_txn is ignored, too.
Commit(p) ==
    /\ pc[p] = "commit"
    /\ \E o \in DB_commit_txn(S(p), tries[p]) :
          /\ Effect(p, o)
          /\ \/ /\ o[2] = "retry"
                /\ Again(p)
                /\ UNCHANGED <<pc, scan, key, got, missed, listed>>
             \/ o[2] # "retry" /\ Goto(p, o, "idle") /\ Reset(p)
    /\ UNCHANGED updates

Rollback(p) ==
    /\ pc[p] = "rollback"
    /\ \E o \in DB_rollback_txn(S(p)) : Effect(p, o) /\ Goto(p, o, "idle")
    /\ Reset(p)
    /\ UNCHANGED updates

\* The scan.
ScanItr(p) ==
    /\ pc[p] = "itr"
    /\ \E o \in DB_get_itr(S(p)) :
          /\ Effect(p, o)
          /\ Goto(p, o, "next")
          /\ IF Gone(o) THEN Reset(p) ELSE UNCHANGED progVars
    /\ UNCHANGED updates

\* db_list.  A run of greydb that lists has started no transaction.
ListStart(p) ==
    /\ Begun(p)
    /\ ~h[p].txn
    /\ \E o \in DB_get_itr(S(p)) :
          /\ faults + o[3] <= MaxFaults
          /\ faults' = faults + o[3]
          /\ h' = [h EXCEPT ![p] = IF Gone(o) THEN NoHandle ELSE o[1].h]
          /\ Goto(p, o, "next")
          /\ steady' = [steady EXCEPT ![p] =
                            IF Gone(o) THEN {} ELSE {k \in Keys : db[k] # None}]
    /\ UNCHANGED <<driver, db, dead, progVars>>

\* DB_itr_next, and DB_close_itr at the end.  db_list goes on after an error.
ItrNext(p) ==
    /\ pc[p] = "next"
    /\ MayRead(p, Keys)
    /\ \E o \in DB_itr_next(S(p)) :
        LET end == o[2] = None \/ (scan[p] /\ o[2] = "ERR")
        IN  \E e \in IF end THEN DB_close_itr(o[1]) ELSE {o} :
              /\ Effect(p, <<e[1], IF Gone(o) THEN o[2] ELSE e[2], o[3]>>)
              /\ Goto(p, o, IF ~end THEN IF scan[p] THEN "curr" ELSE "next"
                            ELSE IF scan[p] THEN "commit" ELSE "idle")
              /\ IF Gone(o) \/ (end /\ ~scan[p]) THEN Reset(p)
                 ELSE /\ listed' = [listed EXCEPT ![p] =
                             IF scan[p] THEN {}
                             ELSE @ \cup {IF o[2] = "ERR" THEN "junk" ELSE o[2]}]
                      /\ UNCHANGED <<scan, key, got, tries, missed>>
    /\ UNCHANGED updates

\* The scan leaves a record alone, deletes or replaces it.
ScanCurr(p) ==
    /\ pc[p] = "curr"
    /\ \/ /\ pc' = [pc EXCEPT ![p] = "next"]
          /\ UNCHANGED <<driver, db, h, progVars, steady, dead, updates, faults>>
       \/ /\ MayWrite(p, h[p].curr)
          /\ \E o \in DB_itr_del_curr(S(p))
                      \cup UNION {DB_itr_replace_curr(S(p), v) : v \in Vals} :
              \E e \in IF o[2] = "ERR" THEN DB_close_itr(o[1]) ELSE {o} :
                /\ Effect(p, <<e[1], IF Gone(o) THEN o[2] ELSE e[2], o[3]>>)
                /\ Goto(p, o, IF o[2] = "ERR" THEN "rollback" ELSE "next")
                /\ IF Gone(o) THEN Reset(p) ELSE UNCHANGED progVars
          /\ UNCHANGED updates

Step(p) ==
    \/ StartTxn(p) \/ Get(p) \/ Write(p) \/ Commit(p) \/ Rollback(p)
    \/ ScanItr(p) \/ ItrNext(p) \/ ScanCurr(p)

Next ==
    \E p \in Procs :
        \/ ProgramStart(p) \/ Open(p) \/ Close(p) \/ TrapCheck(p)
        \/ \E k \in Keys : UpdateStart(p, k)
        \/ ScanStart(p) \/ ListStart(p)
        \/ Step(p)

Spec == Init /\ [][Next]_vars

\* A process that has started something goes on with it.
FairSpec == Spec /\ \A p \in Procs : WF_vars(Step(p))

----------------------------------------------------------------------------
\* Handles, results and locks keep to their types with every driver: sqlite
\* gives up after MAX_RETRY, and nothing but a value, a failure or "not found"
\* comes out of a get.
TypeOK ==
    /\ driver \in Dbs
    /\ db \in [Keys -> Vals \cup {None}]
    /\ h \in [Procs -> Handle]
    /\ pc \in [Procs -> Pcs]
    /\ scan \in [Procs -> BOOLEAN]
    /\ key \in [Procs -> Keys \cup {None}]
    /\ got \in [Procs -> Vals \cup {None, Part, "ERR"}]
    /\ tries \in [Procs -> 0 .. MaxRetry]
    /\ missed \in [Procs -> BOOLEAN]
    /\ listed \in [Procs -> SUBSET (Keys \cup {"junk"})]
    /\ steady \in [Procs -> SUBSET Keys]
    /\ dead \in [rd : SUBSET Keys, wr : SUBSET Keys]
    /\ updates \in 0 .. MaxUpdates
    /\ faults \in 0 .. MaxFaults

\* Refinement: whatever fails, a driver's `txn' flag, the transaction of its
\* library and the committed records behave as the Store that greydb.h
\* describes: what is written while the flag is set is committed as a whole
\* or not at all, and what is written while it is not is committed at once.
Promise ==
    INSTANCE Store WITH in <- {p \in Procs : h[p].txn},
                        work <- [p \in Procs |-> h[p].work]

StoreSpec == Promise!Spec

\* Mod_db_get of postgresql reports an error as GREYDB_NOT_FOUND, and bdb
\* ends the process: with these drivers no update overwrites a record that
\* its DB_get failed to find.
NoBlindWrite ==
    [][\A p \in Procs :
          driver \in {"bdb", "postgresql"} /\ missed[p] =>
             /\ h'[p].work[key[p]] = h[p].work[key[p]]
                 \/ h'[p].work[key[p]] = Same
             /\ pc'[p] # pc[p] => db' = db]_vars

\* db_list shows every record that was there all the while it ran, with any
\* driver, whoever else uses the database.
ListComplete ==
    [][\A p \in Procs :
          pc[p] = "next" /\ ~scan[p] /\ pc'[p] = "idle" => steady[p] \subseteq listed[p]]_vars

\* With sqlite, mysql and postgresql every update, scan and listing ends: no
\* one waits for ever for a lock, and no failure makes a loop endless.
UpdatesEnd ==
    \A p \in Procs :
        driver # "bdb" /\ pc[p] \notin {"none", "idle"} ~> pc[p] \in {"none", "idle"}
============================================================================
