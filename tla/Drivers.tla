------------------------------ MODULE Drivers ------------------------------
(***************************************************************************)
(* The four database drivers behind greydb.h, operation by operation.      *)
(*                                                                         *)
(* An operation is given the state `s' it finds: the handle of the calling *)
(* process (s.h), the committed content of the database (s.db), and        *)
(* whether another process holds sqlite's write lock (s.locked) or is in   *)
(* the middle of a query (s.reading).  It returns the set of its possible  *)
(* outcomes <<state, result, faults>>, where `faults' is how many calls of *)
(* the library failed on the way.  The result "exit" is an exit() after    *)
(* the library was told to close, "die" one without.                       *)
(*                                                                         *)
(* Abstraction.  A key stands for an address, a tuple, a spamtrap or a     *)
(* domain; packing, escaping and the text of the SQL are left out.  The    *)
(* result of a get is the value found, or None for GREYDB_NOT_FOUND.       *)
(***************************************************************************)
EXTENDS Naturals, FiniteSets

CONSTANTS
    Entries, Mails, Doms,  \* the keys of the three tables
    Part,                  \* DB_KEY_DOM_PART: an address all of Doms match
    Vals,                  \* values of records
    None,                  \* no record
    Same,                  \* not written by the transaction
    MaxRetry               \* MAX_RETRY

Keys == Entries \cup Mails \cup Doms

ASSUME DriversAssumption ==
    /\ Entries \cap Mails = {} /\ Entries \cap Doms = {} /\ Mails \cap Doms = {}
    /\ Part \notin Keys /\ None \notin Keys
    /\ {None, Same} \cap Vals = {} /\ None # Same
    /\ {"OK", "ERR", "exit", "die", "retry"}
          \cap (Vals \cup Keys \cup {None, Same, Part}) = {}
    /\ MaxRetry \in Nat

\* One page holds a table, so bdb locks all of it.
Table(k) == IF k \in Entries THEN Entries ELSE IF k \in Mails THEN Mails ELSE Doms

NoWork == [k \in Keys |-> Same]

\* txn is the driver's flag, srv what the library or the server makes of it.
\* left is what an iterator has not returned yet, curr its last record.
Handle == [made : BOOLEAN, open : BOOLEAN, txn : BOOLEAN,
           srv : {"idle", "active", "aborted"},
           work : [Keys -> Vals \cup {None, Same}],
           rd : SUBSET Keys, wr : SUBSET Keys,
           itr : {"none", "fresh", "open"}, left : SUBSET Keys,
           curr : Keys \cup {None}]

NoHandle == [made |-> FALSE, open |-> FALSE, txn |-> FALSE, srv |-> "idle",
             work |-> NoWork, rd |-> {}, wr |-> {},
             itr |-> "none", left |-> {}, curr |-> None]

Made(s) == [s EXCEPT !.h = [NoHandle EXCEPT !.made = TRUE]]

----------------------------------------------------------------------------
(* What the libraries do. *)

\* The record of k as the transaction of s sees it.
View(s, k) == IF s.h.work[k] = Same THEN s.db[k] ELSE s.h.work[k]

Present(s) == {k \in Keys : View(s, k) # None}
Matching(s) == {k \in Doms : View(s, k) # None}

\* A statement that writes.  Outside of a transaction it is committed at once.
Wrote(s, k, v, locks) ==
    IF s.h.srv = "active"
    THEN [s EXCEPT !.h.work[k] = v, !.h.wr = @ \cup locks]
    ELSE [s EXCEPT !.db[k] = v]

Ended(s) == [s EXCEPT !.h.srv = "idle", !.h.work = NoWork,
                      !.h.rd = {}, !.h.wr = {}]
Committed(s) == Ended([s EXCEPT !.db = [k \in Keys |-> View(s, k)]])

\* Mutant: the flag is not reset.
UnflaggedStill(s) == s

\* The flag is reset once the library has ended the transaction.
Unflagged(s) == [s EXCEPT !.h.txn = FALSE]

Exits(s) == {<<s, "exit", 1>>}
Dies(s)  == {<<s, "die", 1>>}

\* The error path of put and del in the SQL drivers, by way of `rollback'.
Failing(rollback, fault) ==
    {<<o[1], IF o[2] = "exit" THEN "exit" ELSE "ERR", o[3] + fault>> : o \in rollback}

\* An error of DB_get_itr in the SQL drivers: roll back, then exit.
ItrFails(rollback) == {<<o[1], "exit", o[3] + 1>> : o \in rollback}

\* The rows of a result set, in any order, or the end of it.
Rows(s) ==
    IF s.h.left = {} THEN {<<s, None, 0>>}
    ELSE {<<[s EXCEPT !.h.left = @ \ {k}, !.h.curr = k], k, 0>> : k \in s.h.left}

\* A query for an iterator has run.
Queried(s) == [s EXCEPT !.h.itr = "open", !.h.left = Present(s), !.h.curr = None]

Closed(s) == [s EXCEPT !.h.itr = "none", !.h.left = {}, !.h.curr = None]

----------------------------------------------------------------------------
(* Berkeley DB.  Every read locks its page until the transaction ends.     *)
(* i_error() ends the process with the transaction, and its locks, still   *)
(* in the environment.                                                     *)

BdbInit(s) == {<<Made(s), "OK", 0>>} \cup Dies(s)

BdbOpen(s) ==
    IF s.h.open THEN {<<s, "OK", 0>>}
    ELSE {<<[s EXCEPT !.h.open = TRUE], "OK", 0>>} \cup Exits(s)

BdbStart(s) ==
    IF s.h.txn THEN {<<s, "ERR", 0>>}
    ELSE {<<[s EXCEPT !.h.txn = TRUE, !.h.srv = "active"], "OK", 0>>}
         \cup Exits(s)

BdbCommit(s) ==
    IF ~s.h.txn THEN {<<s, "ERR", 0>>}
    ELSE {<<Unflagged(Committed(s)), "OK", 0>>} \cup Exits(s)

BdbRollback(s) ==
    IF ~s.h.txn THEN {<<s, "ERR", 0>>} ELSE {<<Unflagged(Ended(s)), "OK", 0>>}

BdbClose(s) == {<<[s EXCEPT !.h = NoHandle], "OK", 0>>}

BdbPut(s, k, v) == {<<Wrote(s, k, v, Table(k)), "OK", 0>>} \cup Dies(s)

BdbRead(s, locks) ==
    IF s.h.srv = "active" THEN [s EXCEPT !.h.rd = @ \cup locks] ELSE s

\* check_partial_dom: a cursor over all of the domains.
BdbPartial(s) ==
    {<<BdbRead(s, Doms), IF Matching(s) # {} THEN Part ELSE None, 0>>}
    \cup Dies(s)

BdbGet(s, k) ==
    IF k = Part THEN BdbPartial(s)
    ELSE {<<BdbRead(s, Table(k)), View(s, k), 0>>} \cup Dies(s)

BdbDel(s, k) ==
    {IF View(s, k) = None THEN <<BdbRead(s, Table(k)), "NOT_FOUND", 0>>
     ELSE <<Wrote(s, k, None, Table(k)), "OK", 0>>} \cup Dies(s)

BdbGetItr(s) ==
    {<<[s EXCEPT !.h.itr = "open", !.h.left = Keys, !.h.curr = None], "OK", 0>>}
    \cup Dies(s)

BdbItrClose(s) == {<<Closed(s), "OK", 0>>}

\* The cursors of the three databases, one after the other; what they have
\* not reached is read when they get there.
BdbItrNext(s) ==
    LET there == s.h.left \cap Present(s)
        first == {k \in there : /\ k \notin Entries => there \cap Entries = {}
                                /\ k \in Doms => there \cap Mails = {}}
        passed(k) == IF k \in Entries THEN {}
                     ELSE IF k \in Mails THEN Entries ELSE Entries \cup Mails
    IN  Dies(s) \cup
        IF there = {}
        THEN {<<BdbRead([s EXCEPT !.h.left = {}], Keys), None, 0>>}
        ELSE {<<BdbRead([s EXCEPT !.h.left = @ \ ({k} \cup passed(k)),
                                  !.h.curr = k], Table(k)), k, 0>> : k \in first}

BdbReplaceCurr(s, v) == BdbPut(s, s.h.curr, v)

BdbDelCurr(s) ==
    IF View(s, s.h.curr) = None THEN Dies(s)
    ELSE {<<Wrote(s, s.h.curr, None, Table(s.h.curr)), "OK", 0>>} \cup Dies(s)

----------------------------------------------------------------------------
(* SQLite.  BEGIN IMMEDIATE takes the only write lock of the database.  A  *)
(* statement outside of a transaction that finds it taken fails.           *)

SqliteInit(s) == {<<Made(s), "OK", 0>>} \cup Dies(s)

SqliteOpen(s) ==
    IF s.h.open THEN {<<s, "OK", 0>>}
    ELSE {<<[s EXCEPT !.h.open = TRUE], "OK", 0>>} \cup Dies(s)

\* Mutant: one try too many.
SqliteStartMore(s, tries) ==
    IF s.h.txn THEN {<<s, "ERR", 0>>}
    ELSE IF s.locked
    THEN {<<s, IF tries <= MaxRetry THEN "retry" ELSE "ERR", 0>>}
    ELSE {<<[s EXCEPT !.h.txn = TRUE, !.h.srv = "active", !.h.wr = Keys], "OK", 0>>,
          <<s, "ERR", 1>>}

\* After MAX_RETRY tries the caller is left without a transaction.
SqliteStart(s, tries) ==
    IF s.h.txn THEN {<<s, "ERR", 0>>}
    ELSE IF s.locked
    THEN {<<s, IF tries < MaxRetry THEN "retry" ELSE "ERR", 0>>}
    ELSE {<<[s EXCEPT !.h.txn = TRUE, !.h.srv = "active", !.h.wr = Keys], "OK", 0>>,
          <<s, "ERR", 1>>}

\* A commit that fails leaves its transaction open.
SqliteCommit(s, tries) ==
    IF ~s.h.txn THEN {<<s, "ERR", 0>>}
    ELSE IF s.reading
    THEN {<<s, IF tries < MaxRetry THEN "retry" ELSE "ERR", 0>>}
    ELSE {<<Unflagged(Committed(s)), "OK", 0>>, <<s, "ERR", 1>>}

SqliteRollback(s) ==
    IF ~s.h.txn THEN {<<s, "ERR", 0>>}
    ELSE {<<Unflagged(Ended(s)), "OK", 0>>} \cup Exits(s)

SqliteClose(s) == {<<[s EXCEPT !.h = NoHandle], "OK", 0>>}

\* Only an error before the statement runs rolls the transaction back.
SqliteWrite(s, k, v) ==
    {IF s.h.srv = "idle" /\ (s.locked \/ s.reading)
     THEN <<s, "ERR", 0>> ELSE <<Wrote(s, k, v, Keys), "OK", 0>>,
     <<s, "ERR", 1>>} \cup Failing(SqliteRollback(s), 1)

\* INSERT OR REPLACE for entries, INSERT OR IGNORE for the others.
SqlitePut(s, k, v) ==
    SqliteWrite(s, k, IF k \in Entries \/ View(s, k) = None THEN v ELSE View(s, k))

\* `res' is not initialised when the statement cannot be prepared.
SqliteGet(s, k) ==
    {<<s, IF k # Part THEN View(s, k)
          ELSE IF Matching(s) # {} THEN Part ELSE None, 0>>}
    \cup {<<s, r, 1>> : r \in {"ERR", None} \cup (IF k = Part THEN {Part} ELSE Vals)}

SqliteDel(s, k) == SqliteWrite(s, k, None)

SqliteGetItr(s) ==
    {<<[s EXCEPT !.h.itr = "fresh", !.h.left = {}, !.h.curr = None], "OK", 0>>}
    \cup ItrFails(SqliteRollback(s))

SqliteItrClose(s) == {<<Closed(s), "OK", 0>>}

\* The first step runs the query; after an error a step starts it again.
SqliteItrNext(s) ==
    Rows(IF s.h.itr = "fresh" THEN Queried(s) ELSE s)
    \cup {<<[s EXCEPT !.h.itr = "fresh", !.h.left = {}], "ERR", 1>>}

SqliteReplaceCurr(s, v) == SqlitePut(s, s.h.curr, v)

SqliteDelCurr(s) ==
    IF s.h.curr = None THEN {<<s, "ERR", 0>>} ELSE SqliteDel(s, s.h.curr)

----------------------------------------------------------------------------
(* MySQL.  Rows that are written stay locked until the transaction ends.   *)

MysqlInit(s) == {<<Made(s), "OK", 0>>} \cup Dies(s)

MysqlOpen(s) ==
    IF s.h.open THEN {<<s, "OK", 0>>}
    ELSE {<<[s EXCEPT !.h.open = TRUE], "OK", 0>>} \cup Dies(s)

MysqlStart(s) ==
    IF s.h.txn THEN {<<s, "ERR", 0>>}
    ELSE {<<[s EXCEPT !.h.txn = TRUE, !.h.srv = "active"], "OK", 0>>}
         \cup Exits(s)

MysqlCommit(s) ==
    IF ~s.h.txn THEN {<<s, "ERR", 0>>}
    ELSE {<<Unflagged(Committed(s)), "OK", 0>>} \cup Exits(s)

MysqlRollback(s) ==
    IF ~s.h.txn THEN {<<s, "ERR", 0>>}
    ELSE {<<Unflagged(Ended(s)), "OK", 0>>} \cup Exits(s)

MysqlClose(s) == {<<[s EXCEPT !.h = NoHandle], "OK", 0>>}

\* REPLACE for entries, INSERT IGNORE for the others; any error rolls back.
MysqlPut(s, k, v) ==
    LET new == IF k \in Entries \/ View(s, k) = None THEN v ELSE View(s, k)
    IN  {<<Wrote(s, k, new, {k}), "OK", 0>>} \cup Failing(MysqlRollback(s), 1)

\* An error looks like GREYDB_NOT_FOUND, and so do two rows.
MysqlGet(s, k) ==
    {<<s, IF k # Part THEN View(s, k)
          ELSE IF Cardinality(Matching(s)) = 1 THEN Part ELSE None, 0>>,
     <<s, None, 1>>}

MysqlDel(s, k) ==
    {<<Wrote(s, k, None, {k}), "OK", 0>>} \cup Failing(MysqlRollback(s), 1)

MysqlGetItr(s) == {<<Queried(s), "OK", 0>>} \cup ItrFails(MysqlRollback(s))

MysqlItrClose(s) == {<<Closed(s), "OK", 0>>}

MysqlItrNext(s) == Rows(s)

MysqlReplaceCurr(s, v) == MysqlPut(s, s.h.curr, v)

MysqlDelCurr(s) ==
    IF s.h.curr = None THEN {<<s, "ERR", 0>>} ELSE MysqlDel(s, s.h.curr)

----------------------------------------------------------------------------
(* PostgreSQL.  After an error the server refuses every statement of the   *)
(* transaction but its end, and END then rolls back.  escape() hands an    *)
(* uninitialised pointer to the library, which may end the process.        *)

PgInit(s) == {<<Made(s), "OK", 0>>} \cup Dies(s)

PgOpen(s) ==
    IF s.h.open THEN {<<s, "OK", 0>>}
    ELSE {<<[s EXCEPT !.h.open = TRUE], "OK", 0>>} \cup Dies(s)

PgStart(s) ==
    IF s.h.txn THEN {<<s, "ERR", 0>>}
    ELSE {<<[s EXCEPT !.h.txn = TRUE, !.h.srv = "active"], "OK", 0>>}
         \cup Exits(s)

PgCommit(s) ==
    IF ~s.h.txn THEN {<<s, "ERR", 0>>}
    ELSE {<<Unflagged(IF s.h.srv = "active" THEN Committed(s) ELSE Ended(s)), "OK", 0>>}
         \cup Exits(s)

PgRollback(s) ==
    IF ~s.h.txn THEN {<<s, "ERR", 0>>}
    ELSE {<<Unflagged(Ended(s)), "OK", 0>>} \cup Exits(s)

PgClose(s) == {<<[s EXCEPT !.h = NoHandle], "OK", 0>>}

PgWrite(s, k, v) ==
    (IF s.h.srv = "aborted" THEN Failing(PgRollback(s), 0)
     ELSE {<<Wrote(s, k, v, {k}), "OK", 0>>})
    \cup Failing(PgRollback(s), 1) \cup Dies(s)

\* ON CONFLICT DO UPDATE for entries, DO NOTHING for the others.
PgPut(s, k, v) ==
    PgWrite(s, k, IF k \in Entries \/ View(s, k) = None THEN v ELSE View(s, k))

\* Mutant: an error of a get rolls back, as an error of a put does.
PgGetRollsBack(s, k) ==
    {<<s, IF k = Part THEN None ELSE View(s, k), 0>>}
    \cup {<<o[1], None, o[3] + 1>> : o \in PgRollback(s)}

PgGet(s, k) ==
    (IF s.h.srv = "aborted" THEN {<<s, None, 0>>}
     ELSE {<<s, IF k # Part THEN View(s, k)
                ELSE IF Cardinality(Matching(s)) = 1 THEN Part ELSE None, 0>>,
           <<[s EXCEPT !.h.srv = IF @ = "active" THEN "aborted" ELSE @], None, 1>>})
    \cup Dies(s)

PgDel(s, k) == PgWrite(s, k, None)

PgGetItr(s) == {<<Queried(s), "OK", 0>>} \cup ItrFails(PgRollback(s))

PgItrClose(s) == {<<Closed(s), "OK", 0>>}

\* Mutant: the index of the last row is taken for the number of rows.
PgItrNextShort(s) ==
    IF Cardinality(s.h.left) <= 1 THEN {<<s, None, 0>>} ELSE Rows(s)

PgItrNext(s) == Rows(s)

PgReplaceCurr(s, v) == PgPut(s, s.h.curr, v)

PgDelCurr(s) ==
    IF s.h.curr = None THEN {<<s, "ERR", 0>>} ELSE PgDel(s, s.h.curr)
============================================================================
