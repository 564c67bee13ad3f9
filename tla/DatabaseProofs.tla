---------------------------- MODULE DatabaseProofs ----------------------------
(* The programs keep to their types with every driver, a driver implements   *)
(* the Store, no update of bdb or postgresql overwrites what it has missed,  *)
(* and a listing is complete.                                                *)
EXTENDS Database, TLAPS

----------------------------------------------------------------------------
(* The drivers: what every operation of every database driver may do to a    *)
(* handle and to the database.                                               *)

State == [h : Handle, db : [Keys -> Vals \cup {None}], locked : BOOLEAN,
          reading : BOOLEAN]

\* The flag of driver d says whether its library is in a transaction, nothing
\* is left of the writes of a transaction that has ended, and only the server
\* of postgresql knows a transaction that has failed.
Fits(d, hd) ==
    /\ hd.txn <=> hd.srv # "idle"
    /\ ~hd.txn => hd.work = NoWork
    /\ hd.srv = "aborted" => d = "postgresql"
    /\ hd.itr = "fresh" => d = "sqlite"

Sound(d, s) == s \in State /\ Fits(d, s.h)

\* From state s to state t nothing happens that the Store would see, or one of
\* its steps is taken.
Keeps(s, t)  == t.db = s.db /\ t.h.txn = s.h.txn /\ t.h.work = s.h.work
Begins(s, t) == t.db = s.db /\ ~s.h.txn /\ t.h.txn /\ t.h.work = s.h.work
Writes(s, t) ==
    /\ s.h.txn /\ t.h.txn /\ t.db = s.db
    /\ \E k \in Keys, v \in Vals \cup {None} : t.h.work = [s.h.work EXCEPT ![k] = v]
WritesThrough(s, t) ==
    /\ ~s.h.txn /\ ~t.h.txn /\ t.h.work = s.h.work
    /\ \E k \in Keys, v \in Vals \cup {None} : t.db = [s.db EXCEPT ![k] = v]
Commits(s, t) ==
    /\ s.h.txn /\ ~t.h.txn /\ t.h.work = NoWork
    /\ t.db = [k \in Keys |-> View(s, k)]
Aborts(s, t) == s.h.txn /\ ~t.h.txn /\ t.h.work = NoWork /\ t.db = s.db

Moves(s, t) ==
    \/ Keeps(s, t) \/ Begins(s, t) \/ Writes(s, t) \/ WritesThrough(s, t)
    \/ Commits(s, t) \/ Aborts(s, t)

\* The outcome o of an operation of driver d in state s.  An operation that
\* ends the process has not changed the database.
Proper(d, s, o) ==
    /\ Sound(d, o[1])
    /\ Moves(s, o[1])
    /\ o[3] \in Nat
    /\ o[2] \in {"exit", "die"} => o[1].db = s.db

----------------------------------------------------------------------------
(* The parts operations are made of. *)

LEMMA HandleParts ==
    ASSUME NEW s \in State
    PROVE  /\ s.h \in Handle /\ s.db \in [Keys -> Vals \cup {None}]
           /\ s.h.txn \in BOOLEAN /\ s.h.open \in BOOLEAN
           /\ s.h.srv \in {"idle", "active", "aborted"}
           /\ s.h.work \in [Keys -> Vals \cup {None, Same}]
           /\ s.h.rd \in SUBSET Keys /\ s.h.wr \in SUBSET Keys
           /\ s.h.itr \in {"none", "fresh", "open"} /\ s.h.left \in SUBSET Keys
           /\ s.h.curr \in Keys \cup {None}
BY DEF State, Handle

LEMMA ViewType ==
    ASSUME NEW s \in State, NEW k \in Keys
    PROVE  View(s, k) \in Vals \cup {None}
BY HandleParts DEF View

LEMMA TableType ==
    ASSUME NEW k
    PROVE  Table(k) \subseteq Keys
BY DEF Table, Keys

LEMMA MoveIsProper ==
    ASSUME NEW d, NEW s, NEW t, Sound(d, t), Moves(s, t), NEW r, NEW n \in Nat,
           r \in {"exit", "die"} => t.db = s.db
    PROVE  Proper(d, s, <<t, r, n>>)
BY DEF Proper

LEMMA StayIsProper ==
    ASSUME NEW d, NEW s, Sound(d, s), NEW r, NEW n \in Nat
    PROVE  Proper(d, s, <<s, r, n>>)
BY DEF Proper, Moves, Keeps

LEMMA EndIsProper ==
    ASSUME NEW d, NEW s, Sound(d, s)
    PROVE  \A o \in Exits(s) \cup Dies(s) : Proper(d, s, o)
BY StayIsProper DEF Exits, Dies

LEMMA NoHandleFits ==
    ASSUME NEW d
    PROVE  NoHandle \in Handle /\ Fits(d, NoHandle)
BY DEF NoHandle, NoWork, Handle, Fits

LEMMA EndedParts ==
    ASSUME NEW s \in State
    PROVE  LET t == Ended(s) IN
           /\ t \in State /\ t.db = s.db
           /\ t.h.txn = s.h.txn /\ t.h.srv = "idle" /\ t.h.work = NoWork
           /\ t.h.itr = s.h.itr
BY DEF Ended, State, Handle, NoWork

LEMMA UnflaggedParts ==
    ASSUME NEW s \in State
    PROVE  LET t == Unflagged(s) IN
           /\ t \in State /\ t.db = s.db
           /\ ~t.h.txn /\ t.h.srv = s.h.srv /\ t.h.work = s.h.work
           /\ t.h.itr = s.h.itr
BY DEF Unflagged, State, Handle

LEMMA CommittedParts ==
    ASSUME NEW s \in State
    PROVE  LET t == Committed(s) IN
           /\ t \in State /\ t.db = [k \in Keys |-> View(s, k)]
           /\ t.h.txn = s.h.txn /\ t.h.srv = "idle" /\ t.h.work = NoWork
           /\ t.h.itr = s.h.itr
<1>. DEFINE u == [s EXCEPT !.db = [k \in Keys |-> View(s, k)]]
<1>1. /\ u \in State /\ u.db = [k \in Keys |-> View(s, k)]
      /\ u.h = s.h
  BY ViewType DEF State
<1>2. Committed(s) = Ended(u)
  BY DEF Committed
<1>. HIDE DEF u
<1>. QED  BY <1>1, <1>2, EndedParts

LEMMA AbortIsProper ==
    ASSUME NEW d, NEW s, Sound(d, s), s.h.txn, NEW r, NEW n \in Nat
    PROVE  Proper(d, s, <<Unflagged(Ended(s)), r, n>>)
<1>. DEFINE t == Unflagged(Ended(s))
<1>1. /\ t \in State /\ t.db = s.db
      /\ ~t.h.txn /\ t.h.srv = "idle" /\ t.h.work = NoWork /\ t.h.itr = s.h.itr
  BY EndedParts, UnflaggedParts DEF Sound
<1>2. Sound(d, t) /\ Moves(s, t)
  <2>. HIDE DEF t
  <2>. QED  BY <1>1 DEF Sound, Fits, Moves, Aborts
<1>. QED  BY <1>1, <1>2, MoveIsProper

LEMMA CommitIsProper ==
    ASSUME NEW d, NEW s, Sound(d, s), s.h.txn, NEW n \in Nat
    PROVE  Proper(d, s, <<Unflagged(Committed(s)), "OK", n>>)
<1>. DEFINE t == Unflagged(Committed(s))
<1>1. /\ t \in State /\ t.db = [k \in Keys |-> View(s, k)]
      /\ ~t.h.txn /\ t.h.srv = "idle" /\ t.h.work = NoWork /\ t.h.itr = s.h.itr
  BY CommittedParts, UnflaggedParts DEF Sound
<1>2. Sound(d, t) /\ Moves(s, t)
  <2>. HIDE DEF t
  <2>. QED  BY <1>1 DEF Sound, Fits, Moves, Commits
<1>. QED  BY <1>1, <1>2, MoveIsProper

\* A statement that writes one record: into the transaction if there is one.
LEMMA WriteIsProper ==
    ASSUME NEW d, NEW s, Sound(d, s), s.h.srv # "aborted",
           NEW k \in Keys, NEW v \in Vals \cup {None}, NEW locks \in SUBSET Keys
    PROVE  Proper(d, s, <<Wrote(s, k, v, locks), "OK", 0>>)
<1>. DEFINE t == Wrote(s, k, v, locks)
<1>1. CASE s.h.srv = "active"
  <2>1. /\ t \in State /\ t.db = s.db
        /\ t.h.txn = s.h.txn /\ t.h.srv = s.h.srv /\ t.h.itr = s.h.itr
        /\ t.h.work = [s.h.work EXCEPT ![k] = v]
    BY <1>1 DEF Wrote, Sound, State, Handle
  <2>2. Sound(d, t) /\ Moves(s, t)
    <3>. HIDE DEF t
    <3>. QED  BY <1>1, <2>1 DEF Sound, Fits, Moves, Writes
  <2>. QED  BY <2>2, MoveIsProper
<1>2. CASE s.h.srv = "idle"
  <2>1. t \in State /\ t.h = s.h /\ t.db = [s.db EXCEPT ![k] = v]
    BY <1>2 DEF Wrote, Sound, State
  <2>2. Sound(d, t) /\ Moves(s, t)
    <3>. HIDE DEF t
    <3>. QED  BY <1>2, <2>1 DEF Sound, Fits, Moves, WritesThrough
  <2>. QED  BY <2>2, MoveIsProper
<1>. QED  BY <1>1, <1>2, HandleParts DEF Sound

\* Only the iterator of the handle, or its read locks, change.
LEMMA IteratorIsProper ==
    ASSUME NEW d, NEW s, Sound(d, s), NEW t \in State, t.db = s.db,
           t.h.txn = s.h.txn, t.h.srv = s.h.srv, t.h.work = s.h.work,
           t.h.itr = "fresh" => d = "sqlite", NEW r, NEW n \in Nat
    PROVE  Proper(d, s, <<t, r, n>>)
BY DEF Proper, Sound, Fits, Moves, Keeps

LEMMA BdbReadParts ==
    ASSUME NEW s \in State, NEW locks \in SUBSET Keys
    PROVE  LET t == BdbRead(s, locks) IN
           /\ t \in State /\ t.db = s.db
           /\ t.h.txn = s.h.txn /\ t.h.srv = s.h.srv /\ t.h.work = s.h.work
           /\ t.h.itr = s.h.itr /\ t.h.left = s.h.left /\ t.h.curr = s.h.curr
BY DEF BdbRead, State, Handle

LEMMA BdbReadIsProper ==
    ASSUME NEW s, Sound("bdb", s), NEW locks \in SUBSET Keys, NEW r
    PROVE  Proper("bdb", s, <<BdbRead(s, locks), r, 0>>)
BY BdbReadParts, IteratorIsProper DEF Sound, Fits

LEMMA QueriedParts ==
    ASSUME NEW s \in State
    PROVE  LET t == Queried(s) IN
           /\ t \in State /\ t.db = s.db
           /\ t.h.txn = s.h.txn /\ t.h.srv = s.h.srv /\ t.h.work = s.h.work
           /\ t.h.itr = "open" /\ t.h.left = Present(s)
BY DEF Queried, Present, State, Handle

LEMMA ClosedParts ==
    ASSUME NEW s \in State
    PROVE  LET t == Closed(s) IN
           /\ t \in State /\ t.db = s.db
           /\ t.h.txn = s.h.txn /\ t.h.srv = s.h.srv /\ t.h.work = s.h.work
           /\ t.h.itr = "none"
BY DEF Closed, State, Handle

\* The rows of a result set: an iterator returns a key it had left.
LEMMA RowsParts ==
    ASSUME NEW s \in State, NEW o \in Rows(s)
    PROVE  /\ o[1] \in State /\ o[1].db = s.db /\ o[3] = 0
           /\ o[1].h.txn = s.h.txn /\ o[1].h.srv = s.h.srv /\ o[1].h.work = s.h.work
           /\ o[1].h.itr = s.h.itr
           /\ \/ o[2] = None /\ s.h.left = {} /\ o[1] = s
              \/ /\ o[2] \in s.h.left /\ o[1].h.curr = o[2]
                 /\ o[1].h.left = s.h.left \ {o[2]}
<1>1. CASE s.h.left = {}
  BY <1>1 DEF Rows
<1>2. CASE s.h.left # {}
  <2>1. PICK k \in s.h.left : o = <<[s EXCEPT !.h.left = @ \ {k}, !.h.curr = k], k, 0>>
    BY <1>2 DEF Rows
  <2>2. k \in Keys
    BY HandleParts
  <2>. QED  BY <2>1, <2>2 DEF State, Handle
<1>. QED  BY <1>1, <1>2

LEMMA MadeIsProper ==
    ASSUME NEW d, NEW s, Sound(d, s)
    PROVE  Proper(d, s, <<Made(s), "OK", 0>>)
<1>. DEFINE t == Made(s)
<1>1. /\ t \in State /\ t.db = s.db
      /\ ~t.h.txn /\ t.h.srv = "idle" /\ t.h.work = NoWork /\ t.h.itr = "none"
  BY DEF Made, NoHandle, NoWork, Sound, State, Handle
<1>2. Sound(d, t) /\ Moves(s, t)
  <2>. HIDE DEF t
  <2>. QED  BY <1>1, HandleParts DEF Sound, Fits, Moves, Keeps, Aborts
<1>. QED  BY <1>1, <1>2, MoveIsProper

LEMMA DropIsProper ==
    ASSUME NEW d, NEW s, Sound(d, s)
    PROVE  Proper(d, s, <<[s EXCEPT !.h = NoHandle], "OK", 0>>)
<1>. DEFINE t == [s EXCEPT !.h = NoHandle]
<1>1. /\ t \in State /\ t.db = s.db
      /\ ~t.h.txn /\ t.h.srv = "idle" /\ t.h.work = NoWork /\ t.h.itr = "none"
  BY DEF NoHandle, NoWork, Sound, State, Handle
<1>2. Sound(d, t) /\ Moves(s, t)
  <2>. HIDE DEF t
  <2>. QED  BY <1>1, HandleParts DEF Sound, Fits, Moves, Keeps, Aborts
<1>. QED  BY <1>1, <1>2, MoveIsProper

LEMMA OpenedIsProper ==
    ASSUME NEW d, NEW s, Sound(d, s)
    PROVE  Proper(d, s, <<[s EXCEPT !.h.open = TRUE], "OK", 0>>)
<1>. DEFINE t == [s EXCEPT !.h.open = TRUE]
<1>1. /\ t \in State /\ t.db = s.db
      /\ t.h.txn = s.h.txn /\ t.h.srv = s.h.srv /\ t.h.work = s.h.work
      /\ t.h.itr = s.h.itr
  BY DEF Sound, State, Handle
<1>. QED  BY <1>1, IteratorIsProper DEF Sound, Fits

LEMMA BegunIsProper ==
    ASSUME NEW d, NEW s, Sound(d, s), ~s.h.txn
    PROVE  /\ Proper(d, s, <<[s EXCEPT !.h.txn = TRUE, !.h.srv = "active"], "OK", 0>>)
           /\ Proper(d, s, <<[s EXCEPT !.h.txn = TRUE, !.h.srv = "active",
                                       !.h.wr = Keys], "OK", 0>>)
<1>. DEFINE t == [s EXCEPT !.h.txn = TRUE, !.h.srv = "active"]
            u == [s EXCEPT !.h.txn = TRUE, !.h.srv = "active", !.h.wr = Keys]
<1>1. /\ t \in State /\ t.db = s.db
      /\ t.h.txn /\ t.h.srv = "active" /\ t.h.work = s.h.work /\ t.h.itr = s.h.itr
  BY DEF Sound, State, Handle
<1>2. /\ u \in State /\ u.db = s.db
      /\ u.h.txn /\ u.h.srv = "active" /\ u.h.work = s.h.work /\ u.h.itr = s.h.itr
  BY DEF Sound, State, Handle
<1>3. Sound(d, t) /\ Moves(s, t) /\ Sound(d, u) /\ Moves(s, u)
  <2>. HIDE DEF t, u
  <2>. QED  BY <1>1, <1>2 DEF Sound, Fits, Moves, Begins
<1>. QED  BY <1>3, MoveIsProper

----------------------------------------------------------------------------
(* The operations. *)

LEMMA InitIsProper ==
    ASSUME NEW d, NEW s, Sound(d, s)
    PROVE  \A o \in BdbInit(s) \cup SqliteInit(s) \cup MysqlInit(s) \cup PgInit(s) :
              Proper(d, s, o)
BY MadeIsProper, EndIsProper DEF BdbInit, SqliteInit, MysqlInit, PgInit

LEMMA OpenIsProper ==
    ASSUME NEW d, NEW s, Sound(d, s)
    PROVE  \A o \in BdbOpen(s) \cup SqliteOpen(s) \cup MysqlOpen(s) \cup PgOpen(s) :
              Proper(d, s, o)
BY OpenedIsProper, StayIsProper, EndIsProper DEF BdbOpen, SqliteOpen, MysqlOpen, PgOpen

LEMMA CloseIsProper ==
    ASSUME NEW d, NEW s, Sound(d, s)
    PROVE  \A o \in BdbClose(s) \cup SqliteClose(s) \cup MysqlClose(s) \cup PgClose(s) :
              Proper(d, s, o)
BY DropIsProper DEF BdbClose, SqliteClose, MysqlClose, PgClose

\* With all drivers but sqlite the caller has a transaction, or is gone.
LEMMA StartIsProper ==
    ASSUME NEW d, NEW s, Sound(d, s), NEW n \in Nat
    PROVE  /\ \A o \in BdbStart(s) \cup MysqlStart(s) \cup PgStart(s) :
                 Proper(d, s, o) /\ o[2] # "retry" /\ (o[1].h.txn \/ o[2] = "exit")
           /\ \A o \in SqliteStart(s, n) :
                 Proper(d, s, o) /\ (o[2] = "retry" => n < MaxRetry)
<1>1. [s EXCEPT !.h.txn = TRUE, !.h.srv = "active"].h.txn
  BY DEF Sound, State, Handle
<1>2. ASSUME NEW o \in Exits(s)
      PROVE  Proper(d, s, o) /\ o[2] = "exit"
  BY EndIsProper DEF Exits
<1>3. CASE s.h.txn
  BY <1>3, StayIsProper DEF BdbStart, MysqlStart, PgStart, SqliteStart
<1>4. CASE ~s.h.txn
  <2>. DEFINE t == [s EXCEPT !.h.txn = TRUE, !.h.srv = "active"]
              u == [s EXCEPT !.h.txn = TRUE, !.h.srv = "active", !.h.wr = Keys]
  <2>3. /\ BdbStart(s) = {<<t, "OK", 0>>} \cup Exits(s)
        /\ MysqlStart(s) = {<<t, "OK", 0>>} \cup Exits(s)
        /\ PgStart(s) = {<<t, "OK", 0>>} \cup Exits(s)
        /\ s.locked =>
              SqliteStart(s, n) = {<<s, IF n < MaxRetry THEN "retry" ELSE "ERR", 0>>}
        /\ ~s.locked => SqliteStart(s, n) = {<<u, "OK", 0>>, <<s, "ERR", 1>>}
    BY <1>4 DEF BdbStart, MysqlStart, PgStart, SqliteStart
  <2>4. Proper(d, s, <<t, "OK", 0>>) /\ Proper(d, s, <<u, "OK", 0>>) /\ t.h.txn
    BY <1>1, <1>4, BegunIsProper
  <2>. HIDE DEF t, u
  <2>1. \A o \in BdbStart(s) \cup MysqlStart(s) \cup PgStart(s) :
           Proper(d, s, o) /\ o[2] # "retry" /\ (o[1].h.txn \/ o[2] = "exit")
    BY <1>2, <2>3, <2>4
  <2>2. \A o \in SqliteStart(s, n) :
           Proper(d, s, o) /\ (o[2] = "retry" => n < MaxRetry)
    <3>1. /\ Proper(d, s, <<s, "retry", 0>>) /\ Proper(d, s, <<s, "ERR", 0>>)
          /\ Proper(d, s, <<s, "ERR", 1>>)
      BY StayIsProper
    <3>. QED  BY <2>3, <2>4, <3>1
  <2>. QED  BY <2>1, <2>2
<1>. QED  BY <1>3, <1>4

LEMMA CommitTxnIsProper ==
    ASSUME NEW d, NEW s, Sound(d, s), NEW n \in Nat
    PROVE  /\ \A o \in BdbCommit(s) \cup MysqlCommit(s) \cup PgCommit(s) :
                 Proper(d, s, o) /\ o[2] # "retry"
           /\ \A o \in SqliteCommit(s, n) :
                 Proper(d, s, o) /\ (o[2] = "retry" => n < MaxRetry)
<1>1. \A o \in BdbCommit(s) \cup MysqlCommit(s) : Proper(d, s, o) /\ o[2] # "retry"
  BY CommitIsProper, StayIsProper, EndIsProper DEF BdbCommit, MysqlCommit, Exits
<1>2. \A o \in PgCommit(s) : Proper(d, s, o) /\ o[2] # "retry"
  BY CommitIsProper, AbortIsProper, StayIsProper, EndIsProper DEF PgCommit, Exits
<1>3. \A o \in SqliteCommit(s, n) : Proper(d, s, o) /\ (o[2] = "retry" => n < MaxRetry)
  BY CommitIsProper, StayIsProper DEF SqliteCommit
<1>. QED  BY <1>1, <1>2, <1>3

\* A rollback leaves no transaction, unless it ends the process, and leaves
\* the database as it was.
LEMMA RollbackIsProper ==
    ASSUME NEW d, NEW s, Sound(d, s)
    PROVE  \A o \in BdbRollback(s) \cup SqliteRollback(s) \cup MysqlRollback(s)
                    \cup PgRollback(s) :
              /\ Proper(d, s, o)
              /\ o[1].db = s.db
              /\ ~o[1].h.txn \/ o[2] = "exit"
<1>1. Unflagged(Ended(s)).db = s.db /\ ~Unflagged(Ended(s)).h.txn
  BY EndedParts, UnflaggedParts DEF Sound
<1>. QED
  BY <1>1, AbortIsProper, StayIsProper, EndIsProper
     DEF BdbRollback, SqliteRollback, MysqlRollback, PgRollback, Exits

LEMMA FailingIsProper ==
    ASSUME NEW d, NEW s, NEW R, NEW fault \in Nat,
           \A o \in R : /\ Proper(d, s, o) /\ o[1].db = s.db
                        /\ ~o[1].h.txn \/ o[2] = "exit"
    PROVE  \A o \in Failing(R, fault) \cup ItrFails(R) :
              /\ Proper(d, s, o) /\ o[1].db = s.db
              /\ ~o[1].h.txn \/ o[2] = "exit"
<1>1. ASSUME NEW q \in R
      PROVE  /\ Sound(d, q[1]) /\ Moves(s, q[1]) /\ q[1].db = s.db
             /\ q[3] + fault \in Nat /\ q[3] + 1 \in Nat
             /\ ~q[1].h.txn \/ q[2] = "exit"
  BY DEF Proper
<1>2. ASSUME NEW o \in Failing(R, fault)
      PROVE  /\ Proper(d, s, o) /\ o[1].db = s.db
             /\ ~o[1].h.txn \/ o[2] = "exit"
  <2>1. PICK q \in R : o = <<q[1], IF q[2] = "exit" THEN "exit" ELSE "ERR", q[3] + fault>>
    BY DEF Failing
  <2>. QED  BY <1>1, <2>1, MoveIsProper
<1>3. ASSUME NEW o \in ItrFails(R)
      PROVE  /\ Proper(d, s, o) /\ o[1].db = s.db
             /\ ~o[1].h.txn \/ o[2] = "exit"
  <2>1. PICK q \in R : o = <<q[1], "exit", q[3] + 1>>
    BY DEF ItrFails
  <2>. QED  BY <1>1, <2>1, MoveIsProper
<1>. QED  BY <1>2, <1>3

LEMMA FailedIsProper ==
    ASSUME NEW d, NEW s, Sound(d, s), NEW fault \in Nat
    PROVE  \A o \in Failing(SqliteRollback(s), fault) \cup Failing(MysqlRollback(s), fault)
                    \cup Failing(PgRollback(s), fault) \cup ItrFails(SqliteRollback(s))
                    \cup ItrFails(MysqlRollback(s)) \cup ItrFails(PgRollback(s)) :
              /\ Proper(d, s, o) /\ o[1].db = s.db
              /\ ~o[1].h.txn \/ o[2] = "exit"
<1>. DEFINE Good(o) == /\ Proper(d, s, o) /\ o[1].db = s.db
                       /\ ~o[1].h.txn \/ o[2] = "exit"
<1>1. \A o \in SqliteRollback(s) : Good(o)
  BY RollbackIsProper
<1>2. \A o \in MysqlRollback(s) : Good(o)
  BY RollbackIsProper
<1>3. \A o \in PgRollback(s) : Good(o)
  BY RollbackIsProper
<1>4. \A o \in Failing(SqliteRollback(s), fault) \cup ItrFails(SqliteRollback(s)) : Good(o)
  BY <1>1, FailingIsProper
<1>5. \A o \in Failing(MysqlRollback(s), fault) \cup ItrFails(MysqlRollback(s)) : Good(o)
  BY <1>2, FailingIsProper
<1>6. \A o \in Failing(PgRollback(s), fault) \cup ItrFails(PgRollback(s)) : Good(o)
  BY <1>3, FailingIsProper
<1>. QED  BY <1>4, <1>5, <1>6

\* An error of postgresql makes the server refuse what follows: then a write
\* rolls back, and nothing is written.
LEMMA PgWriteIsProper ==
    ASSUME NEW s, Sound("postgresql", s), NEW k \in Keys, NEW v \in Vals \cup {None}
    PROVE  \A o \in PgWrite(s, k, v) :
              /\ Proper("postgresql", s, o)
              /\ s.h.srv = "aborted" =>
                    o[1].db = s.db /\ (~o[1].h.txn \/ o[2] \in {"exit", "die"})
<1>1. \A o \in Dies(s) : /\ Proper("postgresql", s, o)
                         /\ o[1].db = s.db /\ o[2] = "die"
  BY EndIsProper DEF Dies
<1>2. \A o \in Failing(PgRollback(s), 0) \cup Failing(PgRollback(s), 1) :
         /\ Proper("postgresql", s, o)
         /\ o[1].db = s.db /\ (~o[1].h.txn \/ o[2] = "exit")
  BY FailedIsProper
<1>3. s.h.srv # "aborted" => Proper("postgresql", s, <<Wrote(s, k, v, {k}), "OK", 0>>)
  BY WriteIsProper
<1>. QED  BY <1>1, <1>2, <1>3 DEF PgWrite

LEMMA PutIsProper ==
    ASSUME NEW s, NEW k \in Keys, NEW v \in Vals
    PROVE  /\ Sound("bdb", s) => \A o \in BdbPut(s, k, v) : Proper("bdb", s, o)
           /\ Sound("sqlite", s) => \A o \in SqlitePut(s, k, v) : Proper("sqlite", s, o)
           /\ Sound("mysql", s) => \A o \in MysqlPut(s, k, v) : Proper("mysql", s, o)
           /\ Sound("postgresql", s) =>
                 \A o \in PgPut(s, k, v) :
                    /\ Proper("postgresql", s, o)
                    /\ s.h.srv = "aborted" =>
                          o[1].db = s.db /\ (~o[1].h.txn \/ o[2] \in {"exit", "die"})
<1>. DEFINE new == IF k \in Entries \/ View(s, k) = None THEN v ELSE View(s, k)
<1>v. s \in State => new \in Vals \cup {None}
  BY ViewType
<1>n. ASSUME NEW d, Sound(d, s), d # "postgresql"
      PROVE  s \in State /\ s.h.srv # "aborted"
  BY <1>n DEF Sound, Fits
<1>k. Table(k) \in SUBSET Keys /\ {k} \in SUBSET Keys /\ Keys \in SUBSET Keys
  BY TableType
<1>1. ASSUME Sound("bdb", s)
      PROVE  \A o \in BdbPut(s, k, v) : Proper("bdb", s, o)
  BY <1>1, <1>n, <1>k, WriteIsProper, EndIsProper DEF BdbPut
<1>2. ASSUME Sound("sqlite", s)
      PROVE  \A o \in SqlitePut(s, k, v) : Proper("sqlite", s, o)
  <2>. HIDE DEF new
  <2>1. \A o \in SqliteWrite(s, k, new) : Proper("sqlite", s, o)
    BY <1>2, <1>n, <1>v, <1>k, WriteIsProper, StayIsProper, FailedIsProper DEF SqliteWrite
  <2>2. SqlitePut(s, k, v) = SqliteWrite(s, k, new)
    BY DEF SqlitePut, new
  <2>. QED  BY <2>1, <2>2
<1>3. ASSUME Sound("mysql", s)
      PROVE  \A o \in MysqlPut(s, k, v) : Proper("mysql", s, o)
  <2>. HIDE DEF new
  <2>1. MysqlPut(s, k, v) =
           {<<Wrote(s, k, new, {k}), "OK", 0>>} \cup Failing(MysqlRollback(s), 1)
    BY DEF MysqlPut, new
  <2>. QED  BY <1>3, <1>n, <1>v, <1>k, <2>1, WriteIsProper, FailedIsProper
<1>4. ASSUME Sound("postgresql", s)
      PROVE  \A o \in PgPut(s, k, v) :
                /\ Proper("postgresql", s, o)
                /\ s.h.srv = "aborted" =>
                      o[1].db = s.db /\ (~o[1].h.txn \/ o[2] \in {"exit", "die"})
  <2>1. PgPut(s, k, v) = PgWrite(s, k, new)
    BY DEF PgPut
  <2>2. s \in State
    BY <1>4 DEF Sound
  <2>. HIDE DEF new
  <2>. QED  BY <1>4, <1>v, <2>1, <2>2, PgWriteIsProper
<1>. QED  BY <1>1, <1>2, <1>3, <1>4

\* With bdb an operation that comes back has deleted the record or found none.
LEMMA DelIsProper ==
    ASSUME NEW s, NEW k \in Keys
    PROVE  /\ Sound("bdb", s) => \A o \in BdbDel(s, k) : Proper("bdb", s, o)
           /\ Sound("sqlite", s) => \A o \in SqliteDel(s, k) : Proper("sqlite", s, o)
           /\ Sound("mysql", s) => \A o \in MysqlDel(s, k) : Proper("mysql", s, o)
           /\ Sound("postgresql", s) =>
                 \A o \in PgDel(s, k) :
                    /\ Proper("postgresql", s, o)
                    /\ s.h.srv = "aborted" =>
                          o[1].db = s.db /\ (~o[1].h.txn \/ o[2] \in {"exit", "die"})
<1>n. ASSUME NEW d, Sound(d, s), d # "postgresql"
      PROVE  s \in State /\ s.h.srv # "aborted"
  BY <1>n DEF Sound, Fits
<1>k. Table(k) \in SUBSET Keys /\ {k} \in SUBSET Keys /\ Keys \in SUBSET Keys
  BY TableType
<1>1. ASSUME Sound("bdb", s)
      PROVE  \A o \in BdbDel(s, k) : Proper("bdb", s, o)
  BY <1>1, <1>n, <1>k, WriteIsProper, BdbReadIsProper, EndIsProper DEF BdbDel
<1>2. ASSUME Sound("sqlite", s)
      PROVE  \A o \in SqliteDel(s, k) : Proper("sqlite", s, o)
  BY <1>2, <1>n, <1>k, WriteIsProper, StayIsProper, FailedIsProper
     DEF SqliteDel, SqliteWrite
<1>3. ASSUME Sound("mysql", s)
      PROVE  \A o \in MysqlDel(s, k) : Proper("mysql", s, o)
  BY <1>3, <1>n, <1>k, WriteIsProper, FailedIsProper DEF MysqlDel
<1>4. ASSUME Sound("postgresql", s)
      PROVE  \A o \in PgDel(s, k) :
                /\ Proper("postgresql", s, o)
                /\ s.h.srv = "aborted" =>
                      o[1].db = s.db /\ (~o[1].h.txn \/ o[2] \in {"exit", "die"})
  BY <1>4, PgWriteIsProper DEF PgDel
<1>. QED  BY <1>1, <1>2, <1>3, <1>4

\* What a get may return for a record and for the search of a domain.
Found(k) == IF k = Part THEN {Part, None, "ERR", "die"}
            ELSE Vals \cup {None, "ERR", "die"}

\* A get changes nothing but read locks and the server's mind.
Gets(d, s, k, o) == Proper(d, s, o) /\ o[1].db = s.db /\ o[2] \in Found(k)

LEMMA BdbGets ==
    ASSUME NEW s, Sound("bdb", s), NEW k \in Keys \cup {Part}, NEW o \in BdbGet(s, k)
    PROVE  /\ Gets("bdb", s, k, o)
           /\ k # Part /\ o[2] = None => View(s, k) = None
<1>1. s \in State
  BY DEF Sound
<1>2. CASE o = <<s, "die", 1>>
  BY <1>2, StayIsProper, DriversAssumption DEF Gets, Found
<1>3. CASE k = Part /\ o # <<s, "die", 1>>
  <2>1. o = <<BdbRead(s, Doms), IF Matching(s) # {} THEN Part ELSE None, 0>>
    BY <1>3 DEF BdbGet, BdbPartial, Dies
  <2>2. Doms \in SUBSET Keys
    BY DEF Keys
  <2>3. Proper("bdb", s, o) /\ o[1].db = s.db
    BY <1>1, <2>1, <2>2, BdbReadIsProper, BdbReadParts
  <2>. QED  BY <1>3, <2>1, <2>3 DEF Gets, Found
<1>4. CASE k \in Keys /\ k # Part /\ o # <<s, "die", 1>>
  <2>1. o = <<BdbRead(s, Table(k)), View(s, k), 0>>
    BY <1>4 DEF BdbGet, Dies
  <2>2. Proper("bdb", s, o) /\ o[1].db = s.db
    BY <1>1, <2>1, TableType, BdbReadIsProper, BdbReadParts
  <2>. QED  BY <1>1, <1>4, <2>1, <2>2, ViewType DEF Gets, Found
<1>. QED  BY <1>2, <1>3, <1>4

LEMMA SqliteGets ==
    ASSUME NEW s, Sound("sqlite", s), NEW k \in Keys \cup {Part},
           NEW o \in SqliteGet(s, k)
    PROVE  Gets("sqlite", s, k, o)
<1>1. s \in State
  BY DEF Sound
<1>2. o[1] = s /\ o[3] \in {0, 1} /\ o = <<s, o[2], o[3]>>
  BY DEF SqliteGet
<1>3. o[2] \in Found(k)
  BY <1>1, ViewType DEF SqliteGet, Found
<1>4. Proper("sqlite", s, <<s, o[2], o[3]>>)
  BY <1>2, StayIsProper
<1>. QED  BY <1>2, <1>3, <1>4 DEF Gets

LEMMA MysqlGets ==
    ASSUME NEW s, Sound("mysql", s), NEW k \in Keys \cup {Part},
           NEW o \in MysqlGet(s, k)
    PROVE  Gets("mysql", s, k, o)
<1>1. s \in State
  BY DEF Sound
<1>2. o[1] = s /\ o[3] \in {0, 1} /\ o = <<s, o[2], o[3]>>
  BY DEF MysqlGet
<1>3. o[2] \in Found(k)
  BY <1>1, ViewType DEF MysqlGet, Found
<1>4. Proper("mysql", s, <<s, o[2], o[3]>>)
  BY <1>2, StayIsProper
<1>. QED  BY <1>2, <1>3, <1>4 DEF Gets

\* When postgresql fails to find a record in a transaction, the transaction
\* is lost.
LEMMA PgGets ==
    ASSUME NEW s, Sound("postgresql", s), NEW k \in Keys \cup {Part},
           NEW o \in PgGet(s, k)
    PROVE  /\ Gets("postgresql", s, k, o)
           /\ k # Part /\ s.h.txn /\ o[2] = None =>
                 View(s, k) = None \/ o[1].h.srv = "aborted"
<1>. DEFINE t == [s EXCEPT !.h.srv = IF @ = "active" THEN "aborted" ELSE @]
<1>1. s \in State
  BY DEF Sound
<1>2. CASE o = <<s, "die", 1>>
  BY <1>2, StayIsProper, DriversAssumption DEF Gets, Found
<1>3. CASE s.h.srv = "aborted" /\ o = <<s, None, 0>>
  BY <1>3, StayIsProper DEF Gets, Found
<1>4. CASE o = <<s, IF k # Part THEN View(s, k)
                    ELSE IF Cardinality(Matching(s)) = 1 THEN Part ELSE None, 0>>
  BY <1>1, <1>4, StayIsProper, ViewType DEF Gets, Found
<1>5. CASE s.h.srv # "aborted" /\ o = <<t, None, 1>>
  <2>1. /\ t \in State /\ t.db = s.db /\ t.h.txn = s.h.txn /\ t.h.work = s.h.work
        /\ t.h.itr = s.h.itr
        /\ t.h.srv = IF s.h.srv = "active" THEN "aborted" ELSE s.h.srv
    BY <1>1 DEF State, Handle
  <2>2. Sound("postgresql", t) /\ Moves(s, t) /\ (s.h.txn => t.h.srv = "aborted")
    <3>. HIDE DEF t
    <3>. QED  BY <1>1, <1>5, <2>1, HandleParts DEF Sound, Fits, Moves, Keeps
  <2>3. Proper("postgresql", s, o)
    <3>. HIDE DEF t
    <3>. QED  BY <1>5, <2>1, <2>2, MoveIsProper
  <2>. HIDE DEF t
  <2>. QED  BY <1>5, <2>1, <2>2, <2>3 DEF Gets, Found
<1>6. \/ o = <<s, "die", 1>>
      \/ s.h.srv = "aborted" /\ o = <<s, None, 0>>
      \/ o = <<s, IF k # Part THEN View(s, k)
                    ELSE IF Cardinality(Matching(s)) = 1 THEN Part ELSE None, 0>>
      \/ s.h.srv # "aborted" /\ o = <<t, None, 1>>
  BY DEF PgGet, Dies
<1>. QED  BY <1>2, <1>3, <1>4, <1>5, <1>6

----------------------------------------------------------------------------
(* Iterators. *)

\* The records an iterator will still come to, if they stay: sqlite runs its
\* query at the first step.
Ahead(s) == IF s.h.itr = "fresh" THEN Present(s) ELSE s.h.left

\* The outcome o of opening an iterator.
Opens(d, s, o) ==
    /\ Proper(d, s, o)
    /\ o[2] \in {"OK", "exit", "die"}
    /\ o[2] = "OK" => Keeps(s, o[1]) /\ Present(s) \subseteq Ahead(o[1])

LEMMA GetItrOpens ==
    ASSUME NEW s
    PROVE  /\ Sound("bdb", s) => \A o \in BdbGetItr(s) : Opens("bdb", s, o)
           /\ Sound("sqlite", s) => \A o \in SqliteGetItr(s) : Opens("sqlite", s, o)
           /\ Sound("mysql", s) => \A o \in MysqlGetItr(s) : Opens("mysql", s, o)
           /\ Sound("postgresql", s) => \A o \in PgGetItr(s) : Opens("postgresql", s, o)
<1>p. Present(s) \subseteq Keys
  BY DEF Present
<1>d. ASSUME NEW d, Sound(d, s), NEW o \in Dies(s)
      PROVE  Opens(d, s, o)
  <2>1. o[2] = "die" /\ Proper(d, s, o)
    BY <1>d, EndIsProper DEF Dies
  <2>. QED  BY <2>1 DEF Opens
<1>f. ASSUME NEW d, Sound(d, s), NEW R, NEW o \in ItrFails(R),
             R \in {SqliteRollback(s), MysqlRollback(s), PgRollback(s)}
      PROVE  Opens(d, s, o)
  <2>1. o[2] = "exit" /\ Proper(d, s, o)
    BY <1>f, FailedIsProper DEF ItrFails
  <2>. QED  BY <2>1 DEF Opens
<1>1. ASSUME Sound("bdb", s), NEW o \in BdbGetItr(s)
      PROVE  Opens("bdb", s, o)
  <2>. DEFINE t == [s EXCEPT !.h.itr = "open", !.h.left = Keys, !.h.curr = None]
  <2>1. /\ t \in State /\ t.db = s.db /\ t.h.txn = s.h.txn /\ t.h.srv = s.h.srv
        /\ t.h.work = s.h.work /\ t.h.itr = "open" /\ t.h.left = Keys
    BY <1>1 DEF Sound, State, Handle
  <2>2. o = <<t, "OK", 0>> \/ o \in Dies(s)
    BY <1>1 DEF BdbGetItr
  <2>. HIDE DEF t
  <2>3. Proper("bdb", s, <<t, "OK", 0>>)
    BY <1>1, <2>1, IteratorIsProper
  <2>4. CASE o = <<t, "OK", 0>>
    BY <1>p, <2>1, <2>3, <2>4 DEF Opens, Keeps, Ahead
  <2>. QED  BY <1>1, <1>d, <2>2, <2>4
<1>2. ASSUME Sound("sqlite", s), NEW o \in SqliteGetItr(s)
      PROVE  Opens("sqlite", s, o)
  <2>. DEFINE t == [s EXCEPT !.h.itr = "fresh", !.h.left = {}, !.h.curr = None]
  <2>1. /\ t \in State /\ t.db = s.db /\ t.h.txn = s.h.txn /\ t.h.srv = s.h.srv
        /\ t.h.work = s.h.work /\ t.h.itr = "fresh"
    BY <1>2 DEF Sound, State, Handle
  <2>2. o = <<t, "OK", 0>> \/ o \in ItrFails(SqliteRollback(s))
    BY <1>2 DEF SqliteGetItr
  <2>. HIDE DEF t
  <2>3. Proper("sqlite", s, <<t, "OK", 0>>)
    BY <1>2, <2>1, IteratorIsProper
  <2>4. Present(s) = Present(t)
    BY <2>1 DEF Present, View
  <2>5. CASE o = <<t, "OK", 0>>
    BY <2>1, <2>3, <2>4, <2>5 DEF Opens, Keeps, Ahead
  <2>. QED  BY <1>2, <1>f, <2>2, <2>5
<1>q. ASSUME NEW d, Sound(d, s)
      PROVE  Opens(d, s, <<Queried(s), "OK", 0>>)
  <2>1. /\ Queried(s) \in State /\ Queried(s).db = s.db
        /\ Queried(s).h.txn = s.h.txn /\ Queried(s).h.srv = s.h.srv
        /\ Queried(s).h.work = s.h.work /\ Queried(s).h.itr = "open"
        /\ Queried(s).h.left = Present(s)
    BY <1>q, QueriedParts DEF Sound
  <2>2. Proper(d, s, <<Queried(s), "OK", 0>>)
    BY <1>q, <2>1, IteratorIsProper
  <2>. QED  BY <2>1, <2>2 DEF Opens, Keeps, Ahead
<1>3. ASSUME Sound("mysql", s), NEW o \in MysqlGetItr(s)
      PROVE  Opens("mysql", s, o)
  BY <1>3, <1>q, <1>f DEF MysqlGetItr
<1>4. ASSUME Sound("postgresql", s), NEW o \in PgGetItr(s)
      PROVE  Opens("postgresql", s, o)
  BY <1>4, <1>q, <1>f DEF PgGetItr
<1>. QED  BY <1>1, <1>2, <1>3, <1>4

\* The outcome o of a step of an iterator: at the end no record is ahead, and
\* none is lost on the way, by an error neither.
Steps(d, s, o) ==
    /\ Proper(d, s, o)
    /\ Keeps(s, o[1])
    /\ o[2] \in Keys \cup {None, "ERR", "die"}
    /\ o[2] \in Keys => o[1].h.curr = o[2]
    /\ o[2] = None => Ahead(s) \cap Present(s) = {}
    /\ o[2] \in Keys => Ahead(s) \cap Present(s) \subseteq Ahead(o[1]) \cup {o[2]}
    /\ o[2] = "ERR" => Ahead(s) \cap Present(s) \subseteq Ahead(o[1])

LEMMA RowsSteps ==
    ASSUME NEW d, NEW s, Sound(d, s), s.h.itr # "fresh", NEW o \in Rows(s)
    PROVE  Steps(d, s, o)
<1>1. s \in State /\ s.h.left \subseteq Keys
  BY HandleParts DEF Sound
<1>2. /\ o[1] \in State /\ o[1].db = s.db /\ o[3] = 0
      /\ o[1].h.txn = s.h.txn /\ o[1].h.srv = s.h.srv /\ o[1].h.work = s.h.work
      /\ o[1].h.itr = s.h.itr
      /\ \/ o[2] = None /\ s.h.left = {} /\ o[1] = s
         \/ /\ o[2] \in s.h.left /\ o[1].h.curr = o[2]
            /\ o[1].h.left = s.h.left \ {o[2]}
  BY <1>1, RowsParts
<1>3. Proper(d, s, o)
  BY <1>2 DEF Proper, Sound, Fits, Moves, Keeps
<1>4. Keeps(s, o[1])
  BY <1>2 DEF Keeps
<1>5. None \notin Keys /\ "ERR" \notin Keys /\ None # "ERR"
  BY DriversAssumption
<1>. QED  BY <1>1, <1>2, <1>3, <1>4, <1>5 DEF Steps, Ahead

LEMMA SqliteItrSteps ==
    ASSUME NEW s, Sound("sqlite", s), NEW o \in SqliteItrNext(s)
    PROVE  Steps("sqlite", s, o)
<1>. DEFINE t == [s EXCEPT !.h.itr = "fresh", !.h.left = {}]
            u == IF s.h.itr = "fresh" THEN Queried(s) ELSE s
<1>1. s \in State
  BY DEF Sound
<1>2. /\ t \in State /\ t.db = s.db /\ t.h.txn = s.h.txn /\ t.h.srv = s.h.srv
      /\ t.h.work = s.h.work /\ t.h.itr = "fresh"
  BY <1>1 DEF State, Handle
<1>3. o \in Rows(u) \/ o = <<t, "ERR", 1>>
  BY DEF SqliteItrNext
<1>4. CASE o = <<t, "ERR", 1>>
  <2>. HIDE DEF t
  <2>1. Proper("sqlite", s, o)
    BY <1>2, <1>4, IteratorIsProper
  <2>2. Present(t) = Present(s)
    BY <1>2 DEF Present, View
  <2>3. "ERR" \notin Keys /\ "ERR" # None
    BY DriversAssumption
  <2>. QED  BY <1>2, <1>4, <2>1, <2>2, <2>3 DEF Steps, Keeps, Ahead
<1>5. /\ u \in State /\ u.db = s.db /\ u.h.txn = s.h.txn /\ u.h.srv = s.h.srv
      /\ u.h.work = s.h.work /\ u.h.itr # "fresh" /\ u.h.left = Ahead(s)
  BY <1>1, QueriedParts DEF Ahead
<1>6. CASE o \in Rows(u)
  <2>. HIDE DEF u
  <2>1. Sound("sqlite", u)
    BY <1>5 DEF Sound, Fits
  <2>2. Steps("sqlite", u, o)
    BY <1>5, <1>6, <2>1, RowsSteps
  <2>3. Present(u) = Present(s) /\ Ahead(u) = Ahead(s)
    BY <1>5 DEF Present, View, Ahead
  <2>4. Keeps(s, o[1])
    BY <1>5, <2>2 DEF Steps, Keeps
  <2>5. Proper("sqlite", s, o)
    BY <1>5, <2>2, <2>4 DEF Steps, Proper, Moves
  <2>. QED  BY <2>2, <2>3, <2>4, <2>5 DEF Steps
<1>. QED  BY <1>3, <1>4, <1>6

\* The cursor of bdb leaves a database only when nothing is ahead in it.
LEMMA BdbItrSteps ==
    ASSUME NEW s, Sound("bdb", s), NEW o \in BdbItrNext(s)
    PROVE  Steps("bdb", s, o)
<1>. DEFINE there == s.h.left \cap Present(s)
            first == {k \in there : /\ k \notin Entries => there \cap Entries = {}
                                    /\ k \in Doms => there \cap Mails = {}}
            passed(k) == IF k \in Entries THEN {}
                         ELSE IF k \in Mails THEN Entries ELSE Entries \cup Mails
            z == [s EXCEPT !.h.left = {}]
            t(k) == [s EXCEPT !.h.left = @ \ ({k} \cup passed(k)), !.h.curr = k]
<1>1. s \in State /\ s.h.itr # "fresh" /\ there \subseteq Keys
  BY DEF Sound, Fits, Present
<1>2. \/ o = <<s, "die", 1>>
      \/ there = {} /\ o = <<BdbRead(z, Keys), None, 0>>
      \/ \E k \in first : o = <<BdbRead(t(k), Table(k)), k, 0>>
  BY DEF BdbItrNext, Dies
<1>n. /\ None \notin Keys /\ {"ERR", "die"} \cap Keys = {}
      /\ "ERR" # None /\ "die" # None
  BY DriversAssumption
<1>3. CASE o = <<s, "die", 1>>
  BY <1>3, <1>n, StayIsProper DEF Steps, Keeps
<1>4. CASE there = {} /\ o = <<BdbRead(z, Keys), None, 0>>
  <2>1. /\ z \in State /\ z.db = s.db /\ z.h.txn = s.h.txn /\ z.h.srv = s.h.srv
        /\ z.h.work = s.h.work /\ z.h.itr = s.h.itr
    BY <1>1 DEF State, Handle
  <2>. HIDE DEF z
  <2>2. /\ o[1] \in State /\ o[1].db = s.db /\ o[1].h.txn = s.h.txn
        /\ o[1].h.srv = s.h.srv /\ o[1].h.work = s.h.work /\ o[1].h.itr = s.h.itr
    BY <1>4, <2>1, BdbReadParts
  <2>3. Proper("bdb", s, <<o[1], None, 0>>)
    BY <1>1, <2>2, IteratorIsProper
  <2>. QED  BY <1>1, <1>4, <1>n, <2>2, <2>3 DEF Steps, Keeps, Ahead
<1>5. ASSUME NEW k \in first, o = <<BdbRead(t(k), Table(k)), k, 0>>
      PROVE  Steps("bdb", s, o)
  <2>1. k \in Keys
    BY <1>1
  <2>2. /\ t(k) \in State /\ t(k).db = s.db /\ t(k).h.txn = s.h.txn
        /\ t(k).h.srv = s.h.srv /\ t(k).h.work = s.h.work /\ t(k).h.itr = s.h.itr
        /\ t(k).h.left = s.h.left \ ({k} \cup passed(k)) /\ t(k).h.curr = k
    BY <1>1, <2>1 DEF State, Handle
  <2>3. there \cap passed(k) = {}
    BY <2>1 DEF Keys
  <2>4. there \subseteq t(k).h.left \cup {k}
    <3>1. t(k).h.left = s.h.left \ ({k} \cup passed(k))
      BY <2>2
    <3>. HIDE DEF t, passed
    <3>. QED  BY <2>3, <3>1
  <2>. HIDE DEF t
  <2>5. /\ o[1] \in State /\ o[1].db = s.db /\ o[1].h.txn = s.h.txn
        /\ o[1].h.srv = s.h.srv /\ o[1].h.work = s.h.work /\ o[1].h.itr = s.h.itr
        /\ o[1].h.left = t(k).h.left /\ o[1].h.curr = k
    BY <1>5, <2>2, TableType, BdbReadParts
  <2>6. Proper("bdb", s, <<o[1], k, 0>>)
    BY <1>1, <2>5, IteratorIsProper
  <2>. QED  BY <1>1, <1>5, <1>n, <2>1, <2>4, <2>5, <2>6 DEF Steps, Keeps, Ahead
<1>. QED  BY <1>2, <1>3, <1>4, <1>5

----------------------------------------------------------------------------
(* The driver that is configured. *)

LEMMA Configured ==
    ASSUME driver \in Dbs
    PROVE  driver \in {"bdb", "sqlite", "mysql", "postgresql"}
BY DatabaseAssumption

LEMMA DbInit ==
    ASSUME driver \in Dbs, NEW s, Sound(driver, s), NEW o \in DB_init(s)
    PROVE  Proper(driver, s, o)
BY Configured, InitIsProper DEF DB_init

LEMMA DbOpen ==
    ASSUME driver \in Dbs, NEW s, Sound(driver, s), NEW o \in DB_open(s)
    PROVE  Proper(driver, s, o)
BY Configured, OpenIsProper DEF DB_open

LEMMA DbClose ==
    ASSUME driver \in Dbs, NEW s, Sound(driver, s), NEW o \in DB_close(s)
    PROVE  Proper(driver, s, o)
BY Configured, CloseIsProper DEF DB_close

LEMMA DbStartTxn ==
    ASSUME driver \in Dbs, NEW s, Sound(driver, s), NEW n \in Nat,
           NEW o \in DB_start_txn(s, n)
    PROVE  /\ Proper(driver, s, o)
           /\ o[2] = "retry" => n < MaxRetry
           /\ driver # "sqlite" => o[2] # "retry" /\ (o[1].h.txn \/ o[2] = "exit")
<1>1. CASE driver = "sqlite"
  BY <1>1, StartIsProper DEF DB_start_txn
<1>2. CASE driver # "sqlite"
  <2>1. o \in BdbStart(s) \cup MysqlStart(s) \cup PgStart(s)
    BY <1>2, Configured DEF DB_start_txn
  <2>. QED  BY <1>2, <2>1, StartIsProper
<1>. QED  BY <1>1, <1>2

\* Without a transaction a commit does nothing.
LEMMA DbCommitTxn ==
    ASSUME driver \in Dbs, NEW s, Sound(driver, s), NEW n \in Nat,
           NEW o \in DB_commit_txn(s, n)
    PROVE  /\ Proper(driver, s, o)
           /\ o[2] = "retry" => n < MaxRetry
           /\ ~s.h.txn => o[1] = s /\ o[2] = "ERR"
<1>1. CASE driver = "sqlite"
  <2>1. o \in SqliteCommit(s, n)
    BY <1>1 DEF DB_commit_txn
  <2>2. ~s.h.txn => o[1] = s /\ o[2] = "ERR"
    BY <2>1 DEF SqliteCommit
  <2>. QED  BY <2>1, <2>2, CommitTxnIsProper
<1>2. CASE driver # "sqlite"
  <2>1. o \in BdbCommit(s) \cup MysqlCommit(s) \cup PgCommit(s)
    BY <1>2, Configured DEF DB_commit_txn
  <2>2. ~s.h.txn => o[1] = s /\ o[2] = "ERR"
    BY <2>1 DEF BdbCommit, MysqlCommit, PgCommit
  <2>. QED  BY <1>2, <2>1, <2>2, CommitTxnIsProper
<1>. QED  BY <1>1, <1>2

LEMMA DbRollbackTxn ==
    ASSUME driver \in Dbs, NEW s, Sound(driver, s), NEW o \in DB_rollback_txn(s)
    PROVE  Proper(driver, s, o) /\ o[1].db = s.db /\ (~o[1].h.txn \/ o[2] = "exit")
BY Configured, RollbackIsProper DEF DB_rollback_txn

LEMMA DbGet ==
    ASSUME driver \in Dbs, NEW s, Sound(driver, s), NEW k \in Keys \cup {Part},
           NEW o \in DB_get(s, k)
    PROVE  /\ Gets(driver, s, k, o)
           /\ driver = "bdb" /\ k # Part /\ o[2] = None => View(s, k) = None
           /\ driver = "postgresql" /\ k # Part /\ s.h.txn /\ o[2] = None =>
                 View(s, k) = None \/ o[1].h.srv = "aborted"
<1>1. CASE driver = "bdb"
  BY <1>1, BdbGets DEF DB_get
<1>2. CASE driver = "sqlite"
  BY <1>2, SqliteGets DEF DB_get
<1>3. CASE driver = "mysql"
  BY <1>3, MysqlGets DEF DB_get
<1>4. CASE driver = "postgresql"
  BY <1>4, PgGets DEF DB_get
<1>. QED  BY <1>1, <1>2, <1>3, <1>4, Configured

\* The outcome o of a write of driver d: when the server has given up the
\* transaction, nothing is written and the transaction is over.
Written(d, s, o) ==
    /\ Proper(d, s, o)
    /\ d = "postgresql" /\ s.h.srv = "aborted" =>
          o[1].db = s.db /\ (~o[1].h.txn \/ o[2] \in {"exit", "die"})

LEMMA DbPut ==
    ASSUME driver \in Dbs, NEW s, Sound(driver, s), NEW k \in Keys, NEW v \in Vals,
           NEW o \in DB_put(s, k, v)
    PROVE  Written(driver, s, o)
<1>1. CASE driver = "bdb"
  BY <1>1, PutIsProper DEF DB_put, Written
<1>2. CASE driver = "sqlite"
  BY <1>2, PutIsProper DEF DB_put, Written
<1>3. CASE driver = "mysql"
  BY <1>3, PutIsProper DEF DB_put, Written
<1>4. CASE driver = "postgresql"
  BY <1>4, PutIsProper DEF DB_put, Written
<1>. QED  BY <1>1, <1>2, <1>3, <1>4, Configured

LEMMA DbDel ==
    ASSUME driver \in Dbs, NEW s, Sound(driver, s), NEW k \in Keys,
           NEW o \in DB_del(s, k)
    PROVE  Written(driver, s, o)
<1>1. CASE driver = "bdb"
  BY <1>1, DelIsProper DEF DB_del, Written
<1>2. CASE driver = "sqlite"
  BY <1>2, DelIsProper DEF DB_del, Written
<1>3. CASE driver = "mysql"
  BY <1>3, DelIsProper DEF DB_del, Written
<1>4. CASE driver = "postgresql"
  BY <1>4, DelIsProper DEF DB_del, Written
<1>. QED  BY <1>1, <1>2, <1>3, <1>4, Configured

LEMMA DbGetItr ==
    ASSUME driver \in Dbs, NEW s, Sound(driver, s), NEW o \in DB_get_itr(s)
    PROVE  Opens(driver, s, o)
BY Configured, GetItrOpens DEF DB_get_itr

LEMMA DbItrNext ==
    ASSUME driver \in Dbs, NEW s, Sound(driver, s), NEW o \in DB_itr_next(s)
    PROVE  Steps(driver, s, o)
<1>1. CASE driver = "bdb"
  BY <1>1, BdbItrSteps DEF DB_itr_next
<1>2. CASE driver = "sqlite"
  BY <1>2, SqliteItrSteps DEF DB_itr_next
<1>3. CASE driver \in {"mysql", "postgresql"}
  <2>1. s.h.itr # "fresh"
    BY <1>3 DEF Sound, Fits
  <2>2. o \in Rows(s)
    BY <1>3 DEF DB_itr_next, MysqlItrNext, PgItrNext
  <2>. QED  BY <2>1, <2>2, RowsSteps
<1>. QED  BY <1>1, <1>2, <1>3, Configured

LEMMA DbCloseItr ==
    ASSUME driver \in Dbs, NEW s, NEW e \in DB_close_itr(s)
    PROVE  e = <<Closed(s), "OK", 0>>
BY Configured DEF DB_close_itr, BdbItrClose, SqliteItrClose, MysqlItrClose, PgItrClose

LEMMA DbItrReplaceCurr ==
    ASSUME driver \in Dbs, NEW s, Sound(driver, s), s.h.curr \in Keys, NEW v \in Vals,
           NEW o \in DB_itr_replace_curr(s, v)
    PROVE  Proper(driver, s, o)
<1>1. o \in DB_put(s, s.h.curr, v)
  BY Configured
     DEF DB_itr_replace_curr, BdbReplaceCurr, SqliteReplaceCurr, MysqlReplaceCurr,
         PgReplaceCurr, DB_put
<1>. QED  BY <1>1, DbPut DEF Written

LEMMA DbItrDelCurr ==
    ASSUME driver \in Dbs, NEW s, Sound(driver, s), s.h.curr \in Keys,
           NEW o \in DB_itr_del_curr(s)
    PROVE  Proper(driver, s, o)
<1>n. s.h.curr # None
  BY DriversAssumption
<1>1. CASE driver = "bdb"
  <2>1. o \in BdbDelCurr(s)
    BY <1>1 DEF DB_itr_del_curr
  <2>2. o \in BdbDel(s, s.h.curr) \/ o \in Dies(s)
    BY <2>1 DEF BdbDelCurr, BdbDel
  <2>. QED  BY <1>1, <2>2, EndIsProper, DelIsProper
<1>2. CASE driver # "bdb"
  <2>1. o \in DB_del(s, s.h.curr)
    BY <1>n, <1>2, Configured
       DEF DB_itr_del_curr, SqliteDelCurr, MysqlDelCurr, PgDelCurr, DB_del
  <2>. QED  BY <2>1, DbDel DEF Written
<1>. QED  BY <1>1, <1>2

----------------------------------------------------------------------------
(* The invariant. *)

Flagged == \A p \in Procs : Fits(driver, h[p])

\* A program that gets or writes has a key, one at a record of its scan is
\* there.
PlacedAt(p) ==
    /\ pc[p] \in {"get", "write"} => key[p] \in Keys
    /\ pc[p] = "start" /\ ~scan[p] => key[p] \in Keys
    /\ pc[p] \in {"itr", "curr"} => scan[p]
    /\ pc[p] = "curr" => h[p].curr \in Keys

\* Only sqlite lets a program get a record without a transaction.  With
\* postgresql a program that has missed a record has lost its transaction.
DoomedAt(p) ==
    /\ driver # "sqlite" /\ pc[p] = "get" => h[p].txn
    /\ missed[p] => key[p] \in Keys /\ pc[p] \in {"write", "commit", "rollback"}
    /\ driver \in {"bdb", "postgresql"} /\ missed[p] =>
          /\ driver = "postgresql"
          /\ pc[p] = "write" => h[p].srv = "aborted"
          /\ pc[p] \in {"commit", "rollback"} => ~h[p].txn

\* A record that stays has been listed, or the iterator will come to it.
ListingAt(p) ==
    pc[p] = "next" /\ ~scan[p] =>
        /\ ~h[p].txn
        /\ h[p].itr = "fresh" \/ steady[p] \subseteq listed[p] \cup h[p].left

At(p) == PlacedAt(p) /\ DoomedAt(p) /\ ListingAt(p)

Steady == \A p \in Procs : steady[p] \subseteq {k \in Keys : db[k] # None}

DbInv == TypeOK /\ Flagged /\ Steady /\ \A p \in Procs : At(p)

LEMMA CallSound ==
    ASSUME TypeOK, Flagged, NEW p \in Procs
    PROVE  /\ Sound(driver, S(p)) /\ S(p).h = h[p] /\ S(p).db = db
           /\ S(p) \in State
BY DEF TypeOK, Flagged, Sound, State, S

\* What the outcome of a call leaves of the types and of the flags.
LEMMA EffectParts ==
    ASSUME TypeOK, Flagged, NEW p \in Procs, NEW o, Proper(driver, S(p), o),
           Effect(p, o)
    PROVE  /\ driver' = driver /\ db' \in [Keys -> Vals \cup {None}] /\ db' = o[1].db
           /\ h' \in [Procs -> Handle]
           /\ \A q \in Procs : q # p => h'[q] = h[q]
           /\ h'[p] = IF Gone(o) THEN NoHandle ELSE o[1].h
           /\ Flagged'
           /\ dead' \in [rd : SUBSET Keys, wr : SUBSET Keys]
           /\ steady' \in [Procs -> SUBSET Keys]
           /\ \A q \in Procs : steady'[q] = {k \in steady[q] : db'[k] # None}
           /\ faults' \in 0 .. MaxFaults
<1>1. /\ o[1] \in State /\ Fits(driver, o[1].h) /\ o[3] \in Nat
      /\ o[1].h \in Handle /\ o[1].db \in [Keys -> Vals \cup {None}]
  BY DEF Proper, Sound, State
<1>2. NoHandle \in Handle /\ Fits(driver, NoHandle)
  BY NoHandleFits
<1>3. /\ h' \in [Procs -> Handle]
      /\ \A q \in Procs : q # p => h'[q] = h[q]
      /\ h'[p] = IF Gone(o) THEN NoHandle ELSE o[1].h
  BY <1>1, <1>2 DEF Effect, TypeOK
<1>4. driver' = driver /\ db' = o[1].db
  BY DEF Effect
<1>5. Flagged'
  BY <1>1, <1>2, <1>3, <1>4 DEF Flagged
<1>6. dead' \in [rd : SUBSET Keys, wr : SUBSET Keys]
  <2>1. h[p].rd \in SUBSET Keys /\ h[p].wr \in SUBSET Keys
    BY DEF TypeOK, Handle
  <2>2. dead.rd \in SUBSET Keys /\ dead.wr \in SUBSET Keys
    BY DEF TypeOK
  <2>. QED  BY <2>1, <2>2 DEF Effect, TypeOK
<1>7. /\ steady' \in [Procs -> SUBSET Keys]
      /\ \A q \in Procs : steady'[q] = {k \in steady[q] : db'[k] # None}
  BY <1>4 DEF Effect, TypeOK
<1>8. faults' \in 0 .. MaxFaults
  BY <1>1, DatabaseAssumption DEF Effect, TypeOK
<1>. QED  BY <1>1, <1>3, <1>4, <1>5, <1>6, <1>7, <1>8

\* A step of the Store, for the outcome of a call.
StoreStep == [Promise!Next]_<<db, {p \in Procs : h[p].txn}, [p \in Procs |-> h[p].work]>>

LEMMA MoveIsStoreStep ==
    ASSUME TypeOK, h' \in [Procs -> Handle], NEW p \in Procs, NEW t \in State, Moves(S(p), t),
           \A q \in Procs : q # p => h'[q] = h[q],
           h'[p] = t.h, db' = t.db
    PROVE  StoreStep
<1>. DEFINE in == {q \in Procs : h[q].txn}
            work == [q \in Procs |-> h[q].work]
            z == S(p)
<1>1. z.h = h[p] /\ z.db = db
  BY DEF S
<1>2. /\ h \in [Procs -> Handle] /\ h' \in [Procs -> Handle]
      /\ \A q \in Procs : h[q].txn \in BOOLEAN /\ h'[q].txn \in BOOLEAN
  BY DEF TypeOK, Handle
<1>a. in' = {q \in Procs : h'[q].txn} /\ work' = [q \in Procs |-> h'[q].work]
  OBVIOUS
<1>3. CASE Keeps(z, t)
  <2>1. h'[p].txn = h[p].txn /\ h'[p].work = h[p].work /\ db' = db
    BY <1>1, <1>3 DEF Keeps
  <2>2. in' = in /\ work' = work
    BY <2>1
  <2>. QED  BY <2>1, <2>2 DEF StoreStep
<1>4. CASE Begins(z, t)
  <2>1. ~h[p].txn /\ h'[p].txn /\ h'[p].work = h[p].work /\ db' = db
    BY <1>1, <1>4 DEF Begins
  <2>2. in' = in \cup {p} /\ p \notin in /\ work' = work
    BY <2>1, <1>2
  <2>3. Promise!Begin(p)
    BY <2>1, <2>2 DEF Promise!Begin
  <2>. QED  BY <2>3 DEF StoreStep, Promise!Next
<1>5. CASE Writes(z, t)
  <2>1. h[p].txn /\ h'[p].txn /\ db' = db
    BY <1>1, <1>5 DEF Writes
  <2>2. PICK k \in Keys, v \in Vals \cup {None} : h'[p].work = [h[p].work EXCEPT ![k] = v]
    BY <1>1, <1>5 DEF Writes
  <2>3. in' = in /\ p \in in
    BY <2>1, <1>2
  <2>4. work' = [work EXCEPT ![p][k] = v]
    BY <2>2
  <2>5. Promise!Write(p)
    BY <2>1, <2>3, <2>4 DEF Promise!Write
  <2>. QED  BY <2>5 DEF StoreStep, Promise!Next
<1>6. CASE WritesThrough(z, t)
  <2>1. ~h[p].txn /\ ~h'[p].txn /\ h'[p].work = h[p].work
    BY <1>1, <1>6 DEF WritesThrough
  <2>2. \E k \in Keys, v \in Vals \cup {None} : db' = [db EXCEPT ![k] = v]
    BY <1>1, <1>6 DEF WritesThrough
  <2>3. in' = in /\ p \notin in /\ work' = work
    BY <2>1, <1>2
  <2>4. Promise!WriteThrough(p)
    BY <2>2, <2>3 DEF Promise!WriteThrough
  <2>. QED  BY <2>4 DEF StoreStep, Promise!Next
<1>7. CASE Commits(z, t)
  <2>1. h[p].txn /\ ~h'[p].txn /\ h'[p].work = NoWork
    BY <1>1, <1>7 DEF Commits
  <2>2. db' = [k \in Keys |-> IF h[p].work[k] = Same THEN db[k] ELSE h[p].work[k]]
    BY <1>1, <1>7 DEF Commits, View
  <2>3. in' = in \ {p} /\ p \in in
    BY <2>1, <1>2
  <2>4. work' = [work EXCEPT ![p] = Promise!Empty]
    BY <2>1 DEF Promise!Empty, NoWork
  <2>5. Promise!Commit(p)
    BY <2>2, <2>3, <2>4 DEF Promise!Commit
  <2>. QED  BY <2>5 DEF StoreStep, Promise!Next
<1>8. CASE Aborts(z, t)
  <2>1. h[p].txn /\ ~h'[p].txn /\ h'[p].work = NoWork /\ db' = db
    BY <1>1, <1>8 DEF Aborts
  <2>2. in' = in \ {p} /\ p \in in
    BY <2>1, <1>2
  <2>3. work' = [work EXCEPT ![p] = Promise!Empty]
    BY <2>1 DEF Promise!Empty, NoWork
  <2>4. Promise!Abort(p)
    BY <2>1, <2>2, <2>3 DEF Promise!Abort
  <2>. QED  BY <2>4 DEF StoreStep, Promise!Next
<1>. QED  BY <1>3, <1>4, <1>5, <1>6, <1>7, <1>8 DEF Moves

LEMMA EffectIsStoreStep ==
    ASSUME TypeOK, Flagged, NEW p \in Procs, NEW o, Proper(driver, S(p), o),
           Effect(p, o)
    PROVE  StoreStep
<1>1. /\ h' \in [Procs -> Handle] /\ db' = o[1].db
      /\ \A q \in Procs : q # p => h'[q] = h[q]
      /\ h'[p] = IF Gone(o) THEN NoHandle ELSE o[1].h
  BY EffectParts
<1>2. Sound(driver, S(p)) /\ S(p) \in State
  BY CallSound
<1>3. CASE Gone(o)
  <2>. DEFINE t == [S(p) EXCEPT !.h = NoHandle]
  <2>1. Proper(driver, S(p), <<t, "OK", 0>>)
    BY <1>2, DropIsProper
  <2>2. t \in State /\ Moves(S(p), t)
    BY <2>1 DEF Proper, Sound
  <2>3. t.h = NoHandle /\ t.db = S(p).db
    BY <1>2 DEF State
  <2>4. db' = S(p).db
    BY <1>1, <1>3 DEF Proper, Gone
  <2>. HIDE DEF t
  <2>. QED  BY <1>1, <1>3, <2>2, <2>3, <2>4, MoveIsStoreStep
<1>4. CASE ~Gone(o)
  <2>1. o[1] \in State /\ Moves(S(p), o[1])
    BY DEF Proper, Sound
  <2>. QED  BY <1>1, <1>4, <2>1, MoveIsStoreStep
<1>. QED  BY <1>3, <1>4

ProgType ==
    /\ pc \in [Procs -> Pcs]
    /\ scan \in [Procs -> BOOLEAN]
    /\ key \in [Procs -> Keys \cup {None}]
    /\ got \in [Procs -> Vals \cup {None, Part, "ERR"}]
    /\ tries \in [Procs -> 0 .. MaxRetry]
    /\ missed \in [Procs -> BOOLEAN]
    /\ listed \in [Procs -> SUBSET (Keys \cup {"junk"})]
    /\ updates \in 0 .. MaxUpdates

\* The other programs are where they were.
Frame(p) ==
    \A q \in Procs \ {p} :
        /\ pc'[q] = pc[q] /\ scan'[q] = scan[q] /\ key'[q] = key[q]
        /\ missed'[q] = missed[q] /\ listed'[q] = listed[q]

Only(p) == \A q \in Procs \ {p} : h'[q] = h[q] /\ pc'[q] = pc[q]

\* Others only remove records from what a listing has to show.
LEMMA FrameKeeps ==
    ASSUME DbInv, NEW p \in Procs, Frame(p), driver' = driver,
           NEW q \in Procs, q # p, h'[q] = h[q], steady'[q] \subseteq steady[q]
    PROVE  At(q)'
<1>1. /\ pc'[q] = pc[q] /\ scan'[q] = scan[q] /\ key'[q] = key[q]
      /\ missed'[q] = missed[q] /\ listed'[q] = listed[q]
  BY DEF Frame
<1>2. PlacedAt(q)'
  BY <1>1 DEF DbInv, At, PlacedAt
<1>3. DoomedAt(q)'
  BY <1>1 DEF DbInv, At, DoomedAt
<1>4. ListingAt(q)'
  BY <1>1 DEF DbInv, At, ListingAt
<1>. QED  BY <1>2, <1>3, <1>4 DEF At

LEMMA CallKeeps ==
    ASSUME DbInv, NEW p \in Procs, NEW o, Proper(driver, S(p), o), Effect(p, o),
           ProgType', Frame(p), At(p)'
    PROVE  DbInv' /\ StoreStep /\ Only(p)
<1>1. TypeOK /\ Flagged
  BY DEF DbInv
<1>2. /\ driver' = driver /\ db' \in [Keys -> Vals \cup {None}]
      /\ h' \in [Procs -> Handle]
      /\ \A q \in Procs : q # p => h'[q] = h[q]
      /\ Flagged'
      /\ dead' \in [rd : SUBSET Keys, wr : SUBSET Keys]
      /\ steady' \in [Procs -> SUBSET Keys]
      /\ \A q \in Procs : steady'[q] = {k \in steady[q] : db'[k] # None}
      /\ faults' \in 0 .. MaxFaults
  BY <1>1, EffectParts
<1>3. TypeOK'
  BY <1>1, <1>2 DEF TypeOK, ProgType
<1>4. Steady'
  BY <1>1, <1>2 DEF Steady, TypeOK
<1>5. ASSUME NEW q \in Procs
      PROVE  At(q)'
  BY <1>2, FrameKeeps
<1>6. StoreStep
  BY <1>1, EffectIsStoreStep
<1>7. Only(p)
  BY <1>2 DEF Only, Frame
<1>. QED  BY <1>2, <1>3, <1>4, <1>5, <1>6, <1>7 DEF DbInv

\* A program that has ended, or waits for something to do.
LEMMA RestIsAt ==
    ASSUME NEW p, pc'[p] \in {"none", "idle"}, ~missed'[p]
    PROVE  At(p)'
BY DEF At, PlacedAt, DoomedAt, ListingAt

LEMMA ResetParts ==
    ASSUME DbInv, NEW p \in Procs, Reset(p)
    PROVE  /\ scan' \in [Procs -> BOOLEAN]
           /\ key' \in [Procs -> Keys \cup {None}]
           /\ got' \in [Procs -> Vals \cup {None, Part, "ERR"}]
           /\ tries' \in [Procs -> 0 .. MaxRetry]
           /\ missed' \in [Procs -> BOOLEAN]
           /\ listed' \in [Procs -> SUBSET (Keys \cup {"junk"})]
           /\ ~missed'[p]
           /\ \A q \in Procs \ {p} :
                 /\ scan'[q] = scan[q] /\ key'[q] = key[q]
                 /\ missed'[q] = missed[q] /\ listed'[q] = listed[q]
BY DriversAssumption DEF DbInv, TypeOK, Reset

LEMMA GotoParts ==
    ASSUME DbInv, NEW p \in Procs, NEW o, NEW l \in Pcs, Goto(p, o, l)
    PROVE  /\ pc' \in [Procs -> Pcs]
           /\ pc'[p] = IF Gone(o) THEN "none" ELSE l
           /\ \A q \in Procs \ {p} : pc'[q] = pc[q]
BY DEF DbInv, TypeOK, Goto, Pcs

LEMMA NotMissed ==
    ASSUME DbInv, NEW p \in Procs, pc[p] \in {"none", "idle", "start", "get"}
    PROVE  ~missed[p]
BY DEF DbInv, At, DoomedAt

----------------------------------------------------------------------------
(* The programs. *)

LEMMA ProgramStartKeeps ==
    ASSUME DbInv, NEW p \in Procs, ProgramStart(p)
    PROVE  DbInv' /\ StoreStep /\ Only(p)
<1>1. PICK o \in DB_init(S(p)) : Effect(p, o) /\ Goto(p, o, "idle")
  BY DEF ProgramStart
<1>2. Proper(driver, S(p), o)
  BY CallSound, DbInit DEF DbInv, TypeOK
<1>3. /\ pc' \in [Procs -> Pcs] /\ pc'[p] \in {"none", "idle"}
      /\ \A q \in Procs \ {p} : pc'[q] = pc[q]
  BY <1>1, GotoParts DEF Pcs
<1>4. ProgType' /\ Frame(p)
  BY <1>3 DEF DbInv, TypeOK, ProgType, Frame, ProgramStart, progVars
<1>5. At(p)'
  BY <1>3, NotMissed, RestIsAt DEF ProgramStart, progVars
<1>. QED  BY <1>1, <1>2, <1>4, <1>5, CallKeeps

LEMMA OpenKeeps ==
    ASSUME DbInv, NEW p \in Procs, Open(p)
    PROVE  DbInv' /\ StoreStep /\ Only(p)
<1>1. PICK o \in DB_open(S(p)) : Effect(p, o) /\ Goto(p, o, "idle")
  BY DEF Open
<1>2. Proper(driver, S(p), o)
  BY CallSound, DbOpen DEF DbInv, TypeOK
<1>3. /\ pc' \in [Procs -> Pcs] /\ pc'[p] \in {"none", "idle"}
      /\ \A q \in Procs \ {p} : pc'[q] = pc[q]
  BY <1>1, GotoParts DEF Pcs
<1>4. ProgType' /\ Frame(p)
  BY <1>3 DEF DbInv, TypeOK, ProgType, Frame, Open, progVars
<1>5. At(p)'
  BY <1>3, NotMissed, RestIsAt DEF Open, progVars
<1>. QED  BY <1>1, <1>2, <1>4, <1>5, CallKeeps

LEMMA BegunParts ==
    ASSUME DbInv, NEW p \in Procs, Begun(p)
    PROVE  updates' \in 0 .. MaxUpdates /\ pc[p] = "idle" /\ ~missed[p]
BY NotMissed, DatabaseAssumption DEF DbInv, TypeOK, Begun

LEMMA CloseKeeps ==
    ASSUME DbInv, NEW p \in Procs, Close(p)
    PROVE  DbInv' /\ StoreStep /\ Only(p)
<1>1. PICK o \in DB_close(S(p)) : Effect(p, o) /\ pc' = [pc EXCEPT ![p] = "none"]
  BY DEF Close
<1>2. Proper(driver, S(p), o)
  BY CallSound, DbClose DEF DbInv, TypeOK
<1>3. updates' \in 0 .. MaxUpdates /\ ~missed[p]
  BY BegunParts DEF Close
<1>4. ProgType' /\ Frame(p) /\ pc'[p] = "none"
  BY <1>1, <1>3 DEF DbInv, TypeOK, ProgType, Frame, Close, progVars, Pcs
<1>5. At(p)'
  BY <1>3, <1>4, RestIsAt DEF Close, progVars
<1>. QED  BY <1>1, <1>2, <1>4, <1>5, CallKeeps

LEMMA TrapCheckKeeps ==
    ASSUME DbInv, NEW p \in Procs, TrapCheck(p)
    PROVE  DbInv' /\ StoreStep /\ Only(p)
<1>1. PICK o \in DB_get(S(p), Part) :
         /\ Effect(p, o)
         /\ Goto(p, o, "idle")
         /\ got' = [got EXCEPT ![p] = IF Gone(o) THEN None ELSE o[2]]
  BY DEF TrapCheck
<1>2. Gets(driver, S(p), Part, o)
  BY CallSound, DbGet DEF DbInv, TypeOK
<1>3. updates' \in 0 .. MaxUpdates /\ ~missed[p]
  BY BegunParts DEF TrapCheck
<1>4. /\ pc' \in [Procs -> Pcs] /\ pc'[p] \in {"none", "idle"}
      /\ \A q \in Procs \ {p} : pc'[q] = pc[q]
  BY <1>1, GotoParts DEF Pcs
<1>5. got' \in [Procs -> Vals \cup {None, Part, "ERR"}]
  BY <1>1, <1>2 DEF Gets, Found, Gone, DbInv, TypeOK
<1>6. ProgType' /\ Frame(p)
  BY <1>3, <1>4, <1>5 DEF DbInv, TypeOK, ProgType, Frame, TrapCheck
<1>7. At(p)'
  BY <1>3, <1>4, RestIsAt DEF TrapCheck
<1>. QED  BY <1>1, <1>2, <1>6, <1>7, CallKeeps DEF Gets

LEMMA BeginKeeps ==
    ASSUME DbInv, NEW p \in Procs,
           ScanStart(p) \/ \E k \in Keys : UpdateStart(p, k)
    PROVE  DbInv' /\ StoreStep /\ Only(p)
<1>1. updates' \in 0 .. MaxUpdates /\ pc[p] = "idle" /\ ~missed[p]
  BY BegunParts DEF ScanStart, UpdateStart
<1>2. /\ pc' = [pc EXCEPT ![p] = "start"]
      /\ UNCHANGED <<driver, db, h, got, tries, missed, listed, steady, dead, faults>>
  BY DEF ScanStart, UpdateStart
<1>3. \/ scan' = [scan EXCEPT ![p] = TRUE] /\ key' = key
      \/ scan' = scan /\ \E k \in Keys : key' = [key EXCEPT ![p] = k]
  BY DEF ScanStart, UpdateStart
<1>4. TypeOK'
  <2>1. pc' \in [Procs -> Pcs]
    BY <1>2 DEF DbInv, TypeOK, Pcs
  <2>2. scan' \in [Procs -> BOOLEAN] /\ key' \in [Procs -> Keys \cup {None}]
    BY <1>3 DEF DbInv, TypeOK
  <2>. QED  BY <1>1, <1>2, <2>1, <2>2 DEF DbInv, TypeOK
<1>5. Frame(p) /\ pc'[p] = "start" /\ (scan'[p] \/ key'[p] \in Keys)
  BY <1>2, <1>3 DEF Frame, DbInv, TypeOK
<1>6. At(p)'
  BY <1>1, <1>2, <1>5 DEF At, PlacedAt, DoomedAt, ListingAt
<1>7. \A q \in Procs \ {p} : At(q)'
  BY <1>2, <1>5, FrameKeeps
<1>8. Flagged' /\ Steady'
  BY <1>2 DEF DbInv, Flagged, Steady
<1>9. StoreStep /\ Only(p)
  BY <1>2, <1>5 DEF StoreStep, Only, Frame
<1>. QED  BY <1>4, <1>6, <1>7, <1>8, <1>9 DEF DbInv

LEMMA StartTxnKeeps ==
    ASSUME DbInv, NEW p \in Procs, StartTxn(p)
    PROVE  DbInv' /\ StoreStep /\ Only(p)
<1>n. tries[p] \in Nat /\ MaxRetry \in Nat
  BY DriversAssumption DEF DbInv, TypeOK
<1>1. PICK o \in DB_start_txn(S(p), tries[p]) :
         /\ Effect(p, o)
         /\ \/ /\ o[2] = "retry"
               /\ Again(p)
               /\ UNCHANGED <<pc, scan, key, got, missed, listed>>
            \/ /\ o[2] \in {"OK", "ERR"}
               /\ pc' = [pc EXCEPT ![p] = IF scan[p] THEN "itr" ELSE "get"]
               /\ tries' = [tries EXCEPT ![p] = 0]
               /\ UNCHANGED <<scan, key, got, missed, listed>>
            \/ Gone(o) /\ Goto(p, o, "none") /\ Reset(p)
  BY DEF StartTxn
<1>2. /\ Proper(driver, S(p), o)
      /\ o[2] = "retry" => tries[p] < MaxRetry
      /\ driver # "sqlite" => o[2] # "retry" /\ (o[1].h.txn \/ o[2] = "exit")
  BY <1>n, CallSound, DbStartTxn DEF DbInv, TypeOK
<1>3. pc[p] = "start" /\ ~missed[p] /\ updates' = updates
  BY NotMissed DEF StartTxn
<1>4. CASE o[2] = "retry" /\ Again(p) /\ UNCHANGED <<pc, scan, key, got, missed, listed>>
  <2>1. tries' \in [Procs -> 0 .. MaxRetry]
    BY <1>n, <1>2, <1>4 DEF Again, DbInv, TypeOK
  <2>2. ProgType' /\ Frame(p)
    BY <1>3, <1>4, <2>1 DEF DbInv, TypeOK, ProgType, Frame
  <2>3. At(p)'
    BY <1>3, <1>4 DEF DbInv, At, PlacedAt, DoomedAt, ListingAt
  <2>. QED  BY <1>1, <1>2, <2>2, <2>3, CallKeeps
<1>5. CASE /\ o[2] \in {"OK", "ERR"}
           /\ pc' = [pc EXCEPT ![p] = IF scan[p] THEN "itr" ELSE "get"]
           /\ tries' = [tries EXCEPT ![p] = 0]
           /\ UNCHANGED <<scan, key, got, missed, listed>>
  <2>1. ProgType' /\ Frame(p) /\ pc'[p] = IF scan[p] THEN "itr" ELSE "get"
    BY <1>n, <1>3, <1>5 DEF DbInv, TypeOK, ProgType, Frame, Pcs
  <2>2. driver' = driver /\ h'[p] = o[1].h
    BY <1>1, <1>2, <1>5, EffectParts DEF DbInv, Gone
  <2>3. At(p)'
    BY <1>2, <1>3, <1>5, <2>1, <2>2 DEF DbInv, At, PlacedAt, DoomedAt, ListingAt
  <2>. QED  BY <1>1, <1>2, <2>1, <2>3, CallKeeps
<1>6. CASE Gone(o) /\ Goto(p, o, "none") /\ Reset(p)
  <2>1. /\ pc' \in [Procs -> Pcs] /\ pc'[p] = "none"
        /\ \A q \in Procs \ {p} : pc'[q] = pc[q]
    BY <1>6, GotoParts DEF Pcs
  <2>2. ProgType' /\ Frame(p) /\ ~missed'[p]
    BY <1>3, <1>6, <2>1, ResetParts DEF DbInv, TypeOK, ProgType, Frame
  <2>. QED  BY <1>1, <1>2, <2>1, <2>2, RestIsAt, CallKeeps
<1>. QED  BY <1>1, <1>4, <1>5, <1>6

LEMMA GetKeeps ==
    ASSUME DbInv, NEW p \in Procs, Get(p)
    PROVE  DbInv' /\ StoreStep /\ Only(p)
<1>1. PICK o \in DB_get(S(p), key[p]) :
         /\ Effect(p, o)
         /\ Goto(p, o, IF o[2] = "ERR" THEN "rollback" ELSE "write")
         /\ IF Gone(o) THEN Reset(p)
            ELSE /\ got' = [got EXCEPT ![p] = o[2]]
                 /\ missed' = [missed EXCEPT ![p] =
                                   o[2] = None /\ View(S(p), key[p]) # None]
                 /\ UNCHANGED <<scan, key, tries, listed>>
  BY DEF Get
<1>2. /\ pc[p] = "get" /\ updates' = updates /\ key[p] \in Keys /\ key[p] # Part
      /\ driver # "sqlite" => h[p].txn
  BY DriversAssumption DEF Get, DbInv, At, PlacedAt, DoomedAt
<1>3. /\ Gets(driver, S(p), key[p], o)
      /\ driver = "bdb" /\ o[2] = None => View(S(p), key[p]) = None
      /\ driver = "postgresql" /\ o[2] = None =>
            View(S(p), key[p]) = None \/ o[1].h.srv = "aborted"
  BY <1>2, CallSound, DbGet DEF DbInv, TypeOK
<1>4. /\ pc' \in [Procs -> Pcs]
      /\ pc'[p] = IF Gone(o) THEN "none"
                  ELSE IF o[2] = "ERR" THEN "rollback" ELSE "write"
      /\ \A q \in Procs \ {p} : pc'[q] = pc[q]
  BY <1>1, GotoParts DEF Pcs
<1>5. CASE Gone(o)
  <2>1. ProgType' /\ Frame(p) /\ ~missed'[p] /\ pc'[p] = "none"
    BY <1>1, <1>2, <1>4, <1>5, ResetParts DEF DbInv, TypeOK, ProgType, Frame
  <2>. QED  BY <1>1, <1>3, <2>1, RestIsAt, CallKeeps DEF Gets
<1>6. CASE ~Gone(o)
  <2>1. got' \in [Procs -> Vals \cup {None, Part, "ERR"}]
    BY <1>1, <1>2, <1>3, <1>6 DEF Gets, Found, Gone, DbInv, TypeOK
  <2>2. /\ missed' \in [Procs -> BOOLEAN]
        /\ missed'[p] = (o[2] = None /\ View(S(p), key[p]) # None)
        /\ \A q \in Procs \ {p} : missed'[q] = missed[q]
        /\ UNCHANGED <<scan, key, tries, listed>>
    BY <1>1, <1>6 DEF DbInv, TypeOK
  <2>3. ProgType' /\ Frame(p)
    BY <1>2, <1>4, <2>1, <2>2 DEF DbInv, TypeOK, ProgType, Frame
  <2>4. driver' = driver /\ h'[p] = o[1].h
    BY <1>1, <1>3, <1>6, EffectParts DEF DbInv, Gets
  <2>5. "ERR" # None /\ driver \in {"bdb", "sqlite", "mysql", "postgresql"}
    BY DriversAssumption, Configured DEF DbInv, TypeOK
  <2>6. At(p)'
    BY <1>2, <1>3, <1>4, <1>6, <2>2, <2>4, <2>5 DEF At, PlacedAt, DoomedAt, ListingAt
  <2>. QED  BY <1>1, <1>3, <2>3, <2>6, CallKeeps DEF Gets
<1>. QED  BY <1>5, <1>6

LEMMA WriteKeeps ==
    ASSUME DbInv, NEW p \in Procs, Write(p)
    PROVE  DbInv' /\ StoreStep /\ Only(p)
<1>1. PICK o \in (UNION {DB_put(S(p), key[p], v) : v \in Vals})
                 \cup (IF got[p] = None THEN {} ELSE DB_del(S(p), key[p])) :
         /\ Effect(p, o)
         /\ IF Gone(o) THEN Goto(p, o, "none") /\ Reset(p)
            ELSE /\ \/ Goto(p, o, "commit")
                    \/ o[2] # "OK" /\ Goto(p, o, "rollback")
                 /\ UNCHANGED progVars
  BY DEF Write
<1>2. pc[p] = "write" /\ updates' = updates /\ key[p] \in Keys
  BY DEF Write, DbInv, At, PlacedAt
<1>3. Written(driver, S(p), o)
  <2>1. (\E v \in Vals : o \in DB_put(S(p), key[p], v)) \/ o \in DB_del(S(p), key[p])
    BY <1>1
  <2>. QED  BY <1>2, <2>1, CallSound, DbPut, DbDel DEF DbInv, TypeOK
<1>4. CASE Gone(o)
  <2>1. /\ pc' \in [Procs -> Pcs] /\ pc'[p] = "none"
        /\ \A q \in Procs \ {p} : pc'[q] = pc[q]
    BY <1>1, <1>4, GotoParts DEF Pcs
  <2>2. ProgType' /\ Frame(p) /\ ~missed'[p]
    BY <1>1, <1>2, <1>4, <2>1, ResetParts DEF DbInv, TypeOK, ProgType, Frame
  <2>. QED  BY <1>1, <1>3, <2>1, <2>2, RestIsAt, CallKeeps DEF Written
<1>5. CASE ~Gone(o)
  <2>1. /\ pc' \in [Procs -> Pcs] /\ pc'[p] \in {"commit", "rollback"}
        /\ \A q \in Procs \ {p} : pc'[q] = pc[q]
    BY <1>1, <1>5, GotoParts DEF Pcs
  <2>2. UNCHANGED <<scan, key, got, tries, missed, listed>>
    BY <1>1, <1>5 DEF progVars
  <2>3. ProgType' /\ Frame(p)
    BY <1>2, <2>1, <2>2 DEF DbInv, TypeOK, ProgType, Frame
  <2>4. driver' = driver /\ h'[p] = o[1].h /\ S(p).h = h[p]
    BY <1>1, <1>3, <1>5, EffectParts, CallSound DEF DbInv, Written
  <2>5. driver = "postgresql" /\ h[p].srv = "aborted" => ~h'[p].txn
    BY <1>3, <1>5, <2>4 DEF Written, Gone
  <2>6. At(p)'
    BY <1>2, <2>1, <2>2, <2>4, <2>5 DEF DbInv, At, PlacedAt, DoomedAt, ListingAt
  <2>. QED  BY <1>1, <1>3, <2>3, <2>6, CallKeeps DEF Written
<1>. QED  BY <1>4, <1>5

LEMMA CommitKeeps ==
    ASSUME DbInv, NEW p \in Procs, Commit(p)
    PROVE  DbInv' /\ StoreStep /\ Only(p)
<1>n. tries[p] \in Nat /\ MaxRetry \in Nat
  BY DriversAssumption DEF DbInv, TypeOK
<1>1. PICK o \in DB_commit_txn(S(p), tries[p]) :
         /\ Effect(p, o)
         /\ \/ /\ o[2] = "retry"
               /\ Again(p)
               /\ UNCHANGED <<pc, scan, key, got, missed, listed>>
            \/ o[2] # "retry" /\ Goto(p, o, "idle") /\ Reset(p)
  BY DEF Commit
<1>2. /\ Proper(driver, S(p), o)
      /\ o[2] = "retry" => tries[p] < MaxRetry
      /\ ~S(p).h.txn => o[1] = S(p) /\ o[2] = "ERR"
  BY <1>n, CallSound, DbCommitTxn DEF DbInv, TypeOK
<1>3. pc[p] = "commit" /\ updates' = updates
  BY DEF Commit
<1>4. CASE o[2] = "retry" /\ Again(p) /\ UNCHANGED <<pc, scan, key, got, missed, listed>>
  <2>1. tries' \in [Procs -> 0 .. MaxRetry]
    BY <1>n, <1>2, <1>4 DEF Again, DbInv, TypeOK
  <2>2. ProgType' /\ Frame(p)
    BY <1>3, <1>4, <2>1 DEF DbInv, TypeOK, ProgType, Frame
  <2>3. driver' = driver /\ h[p].txn
    BY <1>1, <1>2, <1>4, CallSound DEF DbInv, Effect
  <2>4. At(p)'
    BY <1>3, <1>4, <2>3 DEF DbInv, At, PlacedAt, DoomedAt, ListingAt
  <2>. QED  BY <1>1, <1>2, <2>2, <2>4, CallKeeps
<1>5. CASE o[2] # "retry" /\ Goto(p, o, "idle") /\ Reset(p)
  <2>1. /\ pc' \in [Procs -> Pcs] /\ pc'[p] \in {"none", "idle"}
        /\ \A q \in Procs \ {p} : pc'[q] = pc[q]
    BY <1>5, GotoParts DEF Pcs
  <2>2. ProgType' /\ Frame(p) /\ ~missed'[p]
    BY <1>3, <1>5, <2>1, ResetParts DEF DbInv, TypeOK, ProgType, Frame
  <2>. QED  BY <1>1, <1>2, <2>1, <2>2, RestIsAt, CallKeeps
<1>. QED  BY <1>1, <1>4, <1>5

LEMMA RollbackKeeps ==
    ASSUME DbInv, NEW p \in Procs, Rollback(p)
    PROVE  DbInv' /\ StoreStep /\ Only(p)
<1>1. PICK o \in DB_rollback_txn(S(p)) : Effect(p, o) /\ Goto(p, o, "idle")
  BY DEF Rollback
<1>2. Proper(driver, S(p), o)
  BY CallSound, DbRollbackTxn DEF DbInv, TypeOK
<1>3. /\ pc' \in [Procs -> Pcs] /\ pc'[p] \in {"none", "idle"}
      /\ \A q \in Procs \ {p} : pc'[q] = pc[q]
  BY <1>1, GotoParts DEF Pcs
<1>4. ProgType' /\ Frame(p) /\ ~missed'[p]
  BY <1>3, ResetParts DEF Rollback, DbInv, TypeOK, ProgType, Frame
<1>. QED  BY <1>1, <1>2, <1>3, <1>4, RestIsAt, CallKeeps

LEMMA ScanItrKeeps ==
    ASSUME DbInv, NEW p \in Procs, ScanItr(p)
    PROVE  DbInv' /\ StoreStep /\ Only(p)
<1>1. PICK o \in DB_get_itr(S(p)) :
         /\ Effect(p, o)
         /\ Goto(p, o, "next")
         /\ IF Gone(o) THEN Reset(p) ELSE UNCHANGED progVars
  BY DEF ScanItr
<1>2. Proper(driver, S(p), o)
  BY CallSound, DbGetItr DEF DbInv, TypeOK, Opens
<1>3. pc[p] = "itr" /\ updates' = updates /\ scan[p] /\ ~missed[p]
  BY DEF ScanItr, DbInv, At, PlacedAt, DoomedAt
<1>4. /\ pc' \in [Procs -> Pcs] /\ pc'[p] = IF Gone(o) THEN "none" ELSE "next"
      /\ \A q \in Procs \ {p} : pc'[q] = pc[q]
  BY <1>1, GotoParts DEF Pcs
<1>5. CASE Gone(o)
  <2>1. ProgType' /\ Frame(p) /\ ~missed'[p] /\ pc'[p] = "none"
    BY <1>1, <1>3, <1>4, <1>5, ResetParts DEF DbInv, TypeOK, ProgType, Frame
  <2>. QED  BY <1>1, <1>2, <2>1, RestIsAt, CallKeeps
<1>6. CASE ~Gone(o)
  <2>1. ProgType' /\ Frame(p)
    BY <1>1, <1>3, <1>4, <1>6 DEF DbInv, TypeOK, ProgType, Frame, progVars
  <2>2. At(p)'
    BY <1>1, <1>3, <1>4, <1>6 DEF At, PlacedAt, DoomedAt, ListingAt, progVars
  <2>. QED  BY <1>1, <1>2, <2>1, <2>2, CallKeeps
<1>. QED  BY <1>5, <1>6

\* Outside of a transaction a process sees the committed records.
LEMMA PresentIsDb ==
    ASSUME TypeOK, Flagged, NEW p \in Procs, ~h[p].txn
    PROVE  Present(S(p)) = {k \in Keys : db[k] # None}
<1>1. h[p].work = NoWork /\ S(p).h = h[p] /\ S(p).db = db
  BY CallSound DEF Flagged, Fits
<1>2. \A k \in Keys : View(S(p), k) = db[k]
  BY <1>1 DEF View, NoWork
<1>. QED  BY <1>2 DEF Present

LEMMA ListStartKeeps ==
    ASSUME DbInv, NEW p \in Procs, ListStart(p)
    PROVE  DbInv' /\ StoreStep /\ Only(p)
<1>1. PICK o \in DB_get_itr(S(p)) :
         /\ faults + o[3] <= MaxFaults
         /\ faults' = faults + o[3]
         /\ h' = [h EXCEPT ![p] = IF Gone(o) THEN NoHandle ELSE o[1].h]
         /\ Goto(p, o, "next")
         /\ steady' = [steady EXCEPT ![p] =
                           IF Gone(o) THEN {} ELSE {k \in Keys : db[k] # None}]
  BY DEF ListStart
<1>2. Opens(driver, S(p), o)
  BY CallSound, DbGetItr DEF DbInv, TypeOK
<1>3. /\ updates' \in 0 .. MaxUpdates /\ ~missed[p] /\ ~h[p].txn
      /\ UNCHANGED <<driver, db, dead, scan, key, got, tries, missed, listed>>
  BY BegunParts DEF ListStart, progVars
<1>4. /\ pc' \in [Procs -> Pcs] /\ pc'[p] = IF Gone(o) THEN "none" ELSE "next"
      /\ \A q \in Procs \ {p} : pc'[q] = pc[q]
  BY <1>1, GotoParts DEF Pcs
<1>5. /\ o[1] \in State /\ o[1].h \in Handle /\ Fits(driver, o[1].h) /\ o[3] \in Nat
      /\ NoHandle \in Handle /\ Fits(driver, NoHandle)
  BY <1>2, NoHandleFits DEF Opens, Proper, Sound, State
<1>6. TypeOK /\ Flagged /\ Steady /\ S(p).h = h[p] /\ S(p).db = db
      /\ Sound(driver, S(p)) /\ S(p) \in State
  BY CallSound DEF DbInv
<1>7. /\ h' \in [Procs -> Handle]
      /\ h'[p] = IF Gone(o) THEN NoHandle ELSE o[1].h
      /\ \A q \in Procs : q # p => h'[q] = h[q]
  BY <1>1, <1>5, <1>6 DEF TypeOK
<1>8. /\ steady' \in [Procs -> SUBSET Keys]
      /\ steady'[p] = IF Gone(o) THEN {} ELSE {k \in Keys : db[k] # None}
      /\ \A q \in Procs : q # p => steady'[q] = steady[q]
  BY <1>1, <1>6 DEF TypeOK
<1>9. TypeOK'
  <2>1. faults' \in 0 .. MaxFaults
    BY <1>1, <1>5, <1>6, DatabaseAssumption DEF TypeOK
  <2>. QED  BY <1>3, <1>4, <1>6, <1>7, <1>8, <2>1 DEF TypeOK
<1>10. Flagged' /\ Steady'
  BY <1>3, <1>5, <1>6, <1>7, <1>8 DEF Flagged, Steady
<1>11. Frame(p) /\ Only(p)
  BY <1>3, <1>4, <1>7 DEF Frame, Only
<1>12. \A q \in Procs \ {p} : At(q)'
  BY <1>3, <1>7, <1>8, <1>11, FrameKeeps
<1>13. At(p)' /\ StoreStep
  <2>1. CASE Gone(o)
    <3>1. At(p)'
      BY <1>3, <1>4, <2>1, RestIsAt
    <3>. DEFINE t == [S(p) EXCEPT !.h = NoHandle]
    <3>2. t \in State /\ Moves(S(p), t)
      BY <1>6, DropIsProper DEF Proper, Sound
    <3>3. t.h = NoHandle /\ t.db = S(p).db
      BY <1>6 DEF State
    <3>. HIDE DEF t
    <3>4. StoreStep
      BY <1>3, <1>6, <1>7, <2>1, <3>2, <3>3, MoveIsStoreStep
    <3>. QED  BY <3>1, <3>4
  <2>2. CASE ~Gone(o)
    <3>1. Keeps(S(p), o[1]) /\ Present(S(p)) \subseteq Ahead(o[1])
      BY <1>2, <2>2 DEF Opens, Gone
    <3>2. StoreStep
      BY <1>3, <1>5, <1>6, <1>7, <2>2, <3>1, MoveIsStoreStep DEF Moves, Keeps
    <3>3. h'[p].itr = "fresh" \/ steady'[p] \subseteq h'[p].left
      BY <1>3, <1>6, <1>7, <1>8, <2>2, <3>1, PresentIsDb DEF Ahead
    <3>4. ~h'[p].txn
      BY <1>3, <1>6, <1>7, <2>2, <3>1 DEF Keeps
    <3>5. At(p)'
      BY <1>3, <1>4, <2>2, <3>3, <3>4 DEF At, PlacedAt, DoomedAt, ListingAt
    <3>. QED  BY <3>2, <3>5
  <2>. QED  BY <2>1, <2>2
<1>. QED  BY <1>9, <1>10, <1>11, <1>12, <1>13 DEF DbInv

\* An iterator is closed after what the call before it did.
LEMMA CloseItrIsProper ==
    ASSUME driver \in Dbs, NEW s, NEW o, Proper(driver, s, o),
           NEW e \in DB_close_itr(o[1]), NEW n \in Nat
    PROVE  /\ Proper(driver, s, <<e[1], e[2], n>>) /\ e[2] = "OK"
           /\ e[1].db = o[1].db /\ e[1].h.txn = o[1].h.txn
<1>1. e = <<Closed(o[1]), "OK", 0>>
  BY DbCloseItr
<1>2. /\ e[1] \in State /\ e[1].db = o[1].db /\ e[2] = "OK"
      /\ e[1].h.txn = o[1].h.txn /\ e[1].h.srv = o[1].h.srv
      /\ e[1].h.work = o[1].h.work /\ e[1].h.itr = "none"
  BY <1>1, ClosedParts DEF Proper, Sound
<1>3. Sound(driver, e[1])
  BY <1>2 DEF Proper, Sound, Fits
<1>4. Moves(s, e[1])
  BY <1>2 DEF Proper, Moves, Keeps, Begins, Writes, WritesThrough, Commits, Aborts
<1>. QED  BY <1>2, <1>3, <1>4 DEF Proper

\* At the end of a listing every record that stayed has been listed, and
\* before it none is lost.
LEMMA ListingGoesOn ==
    ASSUME DbInv, NEW p \in Procs, pc[p] = "next", ~scan[p],
           NEW o, Steps(driver, S(p), o)
    PROVE  /\ ~o[1].h.txn
           /\ o[2] = None => steady[p] \subseteq listed[p]
           /\ o[2] \in Keys =>
                 steady[p] \subseteq listed[p] \cup Ahead(o[1]) \cup {o[2]}
           /\ o[2] = "ERR" => steady[p] \subseteq listed[p] \cup Ahead(o[1])
<1>1. /\ ~h[p].txn
      /\ h[p].itr = "fresh" \/ steady[p] \subseteq listed[p] \cup h[p].left
      /\ steady[p] \subseteq {k \in Keys : db[k] # None}
  BY DEF DbInv, At, ListingAt, Steady
<1>2. S(p).h = h[p] /\ Present(S(p)) = {k \in Keys : db[k] # None}
  BY <1>1, CallSound, PresentIsDb DEF DbInv
<1>3. steady[p] \subseteq listed[p] \cup (Ahead(S(p)) \cap Present(S(p)))
  BY <1>1, <1>2 DEF Ahead
<1>. QED  BY <1>1, <1>2, <1>3 DEF Steps, Keeps

\* A step of an iterator, and the close at the end of it, as one call.
LEMMA ItrNextCall ==
    ASSUME DbInv, NEW p \in Procs, ItrNext(p)
    PROVE  \E o, e :
              LET end == o[2] = None \/ (scan[p] /\ o[2] = "ERR")
                  out == <<e[1], IF Gone(o) THEN o[2] ELSE e[2], o[3]>>
              IN  /\ Steps(driver, S(p), o)
                  /\ Proper(driver, S(p), out) /\ Effect(p, out)
                  /\ Gone(out) <=> Gone(o)
                  /\ end => ~Gone(o)
                  /\ ~end => e = o
                  /\ Goto(p, o, IF ~end THEN IF scan[p] THEN "curr" ELSE "next"
                                ELSE IF scan[p] THEN "commit" ELSE "idle")
                  /\ IF Gone(o) \/ (end /\ ~scan[p]) THEN Reset(p)
                     ELSE /\ listed' = [listed EXCEPT ![p] =
                                 IF scan[p] THEN {}
                                 ELSE @ \cup {IF o[2] = "ERR" THEN "junk" ELSE o[2]}]
                          /\ UNCHANGED <<scan, key, got, tries, missed>>
<1>1. PICK o \in DB_itr_next(S(p)) :
        LET end == o[2] = None \/ (scan[p] /\ o[2] = "ERR")
        IN  \E e \in IF end THEN DB_close_itr(o[1]) ELSE {o} :
              /\ Effect(p, <<e[1], IF Gone(o) THEN o[2] ELSE e[2], o[3]>>)
              /\ Goto(p, o, IF ~end THEN IF scan[p] THEN "curr" ELSE "next"
                            ELSE IF scan[p] THEN "commit" ELSE "idle")
              /\ IF Gone(o) \/ (end /\ ~scan[p]) THEN Reset(p)
                 ELSE /\ listed' = [listed EXCEPT ![p] =
                             IF scan[p] THEN {}
                             ELSE @ \cup {IF o[2] = "ERR" THEN "junk" ELSE o[2]}]
                      /\ UNCHANGED <<scan, key, got, tries, missed>>
  BY DEF ItrNext
<1>. DEFINE end == o[2] = None \/ (scan[p] /\ o[2] = "ERR")
<1>2. PICK e \in IF end THEN DB_close_itr(o[1]) ELSE {o} :
              /\ Effect(p, <<e[1], IF Gone(o) THEN o[2] ELSE e[2], o[3]>>)
              /\ Goto(p, o, IF ~end THEN IF scan[p] THEN "curr" ELSE "next"
                            ELSE IF scan[p] THEN "commit" ELSE "idle")
              /\ IF Gone(o) \/ (end /\ ~scan[p]) THEN Reset(p)
                 ELSE /\ listed' = [listed EXCEPT ![p] =
                             IF scan[p] THEN {}
                             ELSE @ \cup {IF o[2] = "ERR" THEN "junk" ELSE o[2]}]
                      /\ UNCHANGED <<scan, key, got, tries, missed>>
  BY <1>1
<1>. DEFINE out == <<e[1], IF Gone(o) THEN o[2] ELSE e[2], o[3]>>
<1>3. Steps(driver, S(p), o) /\ driver \in Dbs
  BY CallSound, DbItrNext DEF DbInv, TypeOK
<1>4. Proper(driver, S(p), o) /\ o[3] \in Nat
  BY <1>3 DEF Steps, Proper
<1>5. end => ~Gone(o)
  BY DriversAssumption DEF Gone
<1>6. CASE end
  <2>1. Proper(driver, S(p), <<e[1], e[2], o[3]>>) /\ e[2] = "OK"
    BY <1>2, <1>3, <1>4, <1>6, CloseItrIsProper
  <2>2. out = <<e[1], e[2], o[3]>> /\ ~Gone(out)
    BY <1>5, <1>6, <2>1 DEF Gone
  <2>3. Proper(driver, S(p), out) /\ (Gone(out) <=> Gone(o))
    BY <1>5, <1>6, <2>1, <2>2
  <2>. QED  BY <1>2, <1>3, <1>5, <1>6, <2>3
<1>7. CASE ~end
  <2>1. e = o
    BY <1>2, <1>7
  <2>2. out[1] = o[1] /\ out[2] = o[2] /\ out[3] = o[3]
    BY <2>1
  <2>3. Proper(driver, S(p), out) /\ (Gone(out) <=> Gone(o))
    BY <1>4, <2>2 DEF Proper, Gone
  <2>. QED  BY <1>2, <1>3, <1>7, <2>1, <2>3
<1>. QED  BY <1>6, <1>7

LEMMA ItrNextKeeps ==
    ASSUME DbInv, NEW p \in Procs, ItrNext(p)
    PROVE  DbInv' /\ StoreStep /\ Only(p)
<1>1. PICK o, e :
        LET end == o[2] = None \/ (scan[p] /\ o[2] = "ERR")
            out == <<e[1], IF Gone(o) THEN o[2] ELSE e[2], o[3]>>
        IN  /\ Steps(driver, S(p), o)
            /\ Proper(driver, S(p), out) /\ Effect(p, out)
            /\ Gone(out) <=> Gone(o)
            /\ end => ~Gone(o)
            /\ ~end => e = o
            /\ Goto(p, o, IF ~end THEN IF scan[p] THEN "curr" ELSE "next"
                          ELSE IF scan[p] THEN "commit" ELSE "idle")
            /\ IF Gone(o) \/ (end /\ ~scan[p]) THEN Reset(p)
               ELSE /\ listed' = [listed EXCEPT ![p] =
                           IF scan[p] THEN {}
                           ELSE @ \cup {IF o[2] = "ERR" THEN "junk" ELSE o[2]}]
                    /\ UNCHANGED <<scan, key, got, tries, missed>>
  BY ItrNextCall
<1>. DEFINE end == o[2] = None \/ (scan[p] /\ o[2] = "ERR")
            out == <<e[1], IF Gone(o) THEN o[2] ELSE e[2], o[3]>>
            l == IF ~end THEN IF scan[p] THEN "curr" ELSE "next"
                 ELSE IF scan[p] THEN "commit" ELSE "idle"
<1>2. /\ Steps(driver, S(p), o)
      /\ Proper(driver, S(p), out) /\ Effect(p, out)
      /\ Gone(out) <=> Gone(o)
      /\ end => ~Gone(o)
      /\ ~end => e = o
      /\ Goto(p, o, l)
  BY <1>1
<1>3. pc[p] = "next" /\ updates' = updates /\ ~missed[p]
  BY DEF ItrNext, DbInv, At, DoomedAt
<1>4. /\ pc' \in [Procs -> Pcs] /\ pc'[p] = IF Gone(o) THEN "none" ELSE l
      /\ \A q \in Procs \ {p} : pc'[q] = pc[q]
  <2>1. l \in Pcs
    BY DEF Pcs
  <2>. HIDE DEF l
  <2>. QED  BY <1>2, <2>1, GotoParts
<1>5. CASE Gone(o) \/ (end /\ ~scan[p])
  <2>1. Reset(p)
    BY <1>1, <1>5
  <2>2. pc'[p] \in {"none", "idle"}
    BY <1>4, <1>5
  <2>3. ProgType' /\ Frame(p) /\ ~missed'[p]
    BY <1>3, <1>4, <2>1, ResetParts DEF DbInv, TypeOK, ProgType, Frame
  <2>4. At(p)'
    BY <2>2, <2>3, RestIsAt
  <2>. HIDE DEF out
  <2>. QED  BY <1>2, <2>3, <2>4, CallKeeps
<1>6. CASE ~Gone(o) /\ (~end \/ scan[p])
  <2>1. /\ listed' = [listed EXCEPT ![p] =
                 IF scan[p] THEN {}
                 ELSE @ \cup {IF o[2] = "ERR" THEN "junk" ELSE o[2]}]
        /\ UNCHANGED <<scan, key, got, tries, missed>>
    BY <1>1, <1>6
  <2>2. o[2] \in Keys \cup {None, "ERR", "die"}
    BY <1>2 DEF Steps
  <2>3. ~end => o[2] \in Keys \/ (o[2] = "ERR" /\ ~scan[p])
    BY <1>6, <2>2 DEF Gone
  <2>4. /\ listed' \in [Procs -> SUBSET (Keys \cup {"junk"})]
        /\ \A q \in Procs \ {p} : listed'[q] = listed[q]
        /\ ~scan[p] => listed'[p] = listed[p] \cup
                                    {IF o[2] = "ERR" THEN "junk" ELSE o[2]}
    BY <1>6, <2>1, <2>3 DEF DbInv, TypeOK
  <2>5. ProgType' /\ Frame(p)
    BY <1>3, <1>4, <2>1, <2>4 DEF DbInv, TypeOK, ProgType, Frame
  <2>6. /\ h'[p] = e[1].h /\ driver' = driver /\ steady'[p] \subseteq steady[p]
    <3>. DEFINE oo == out
    <3>1. /\ driver' = driver /\ h'[p] = IF Gone(oo) THEN NoHandle ELSE oo[1].h
          /\ steady'[p] = {k \in steady[p] : db'[k] # None}
      <4>. HIDE DEF oo
      <4>1. Proper(driver, S(p), oo) /\ Effect(p, oo)
        BY <1>2 DEF oo
      <4>. QED  BY <4>1, EffectParts DEF DbInv
    <3>2. oo[1] = e[1] /\ ~Gone(oo)
      BY <1>2, <1>6
    <3>. QED  BY <3>1, <3>2
  <2>7. CASE scan[p]
    <3>1. pc'[p] = "curr" => h'[p].curr \in Keys
      BY <1>2, <1>4, <1>6, <2>3, <2>6, <2>7 DEF Steps
    <3>2. pc'[p] \in {"curr", "commit"}
      BY <1>4, <1>6, <2>7
    <3>3. At(p)'
      BY <1>3, <2>1, <2>7, <3>1, <3>2 DEF At, PlacedAt, DoomedAt, ListingAt
    <3>. HIDE DEF out
    <3>. QED  BY <1>2, <2>5, <3>3, CallKeeps
  <2>8. CASE ~scan[p]
    <3>1. ~end /\ e = o /\ pc'[p] = "next"
      BY <1>2, <1>4, <1>6, <2>8
    <3>2. /\ ~o[1].h.txn
          /\ o[2] \in Keys =>
                steady[p] \subseteq listed[p] \cup Ahead(o[1]) \cup {o[2]}
          /\ o[2] = "ERR" => steady[p] \subseteq listed[p] \cup Ahead(o[1])
      BY <1>2, <1>3, <2>8, ListingGoesOn
    <3>3. o[2] \in Keys \/ o[2] = "ERR"
      BY <2>3, <3>1
    <3>4. steady'[p] \subseteq listed'[p] \cup Ahead(o[1])
      <4>1. CASE o[2] = "ERR"
        BY <2>4, <2>6, <2>8, <3>2, <4>1
      <4>2. CASE o[2] # "ERR"
        BY <2>4, <2>6, <2>8, <3>2, <3>3, <4>2
      <4>. QED  BY <4>1, <4>2
    <3>5. ListingAt(p)'
      BY <2>6, <3>1, <3>2, <3>4 DEF ListingAt, Ahead
    <3>6. PlacedAt(p)' /\ DoomedAt(p)'
      BY <1>3, <2>1, <3>1 DEF PlacedAt, DoomedAt
    <3>7. At(p)'
      BY <3>5, <3>6 DEF At
    <3>. HIDE DEF out
    <3>. QED  BY <1>2, <2>5, <3>7, CallKeeps
  <2>. QED  BY <2>7, <2>8
<1>. QED  BY <1>5, <1>6

LEMMA ScanCurrKeeps ==
    ASSUME DbInv, NEW p \in Procs, ScanCurr(p)
    PROVE  DbInv' /\ StoreStep /\ Only(p)
<1>1. pc[p] = "curr" /\ scan[p] /\ h[p].curr \in Keys /\ ~missed[p] /\ updates' = updates
  BY DEF ScanCurr, DbInv, At, PlacedAt, DoomedAt
<1>2. CASE /\ pc' = [pc EXCEPT ![p] = "next"]
           /\ UNCHANGED <<driver, db, h, progVars, steady, dead, updates, faults>>
  <2>1. UNCHANGED <<driver, db, h, scan, key, got, tries, missed, listed, steady, dead,
                    updates, faults>>
    BY <1>2 DEF progVars
  <2>2. pc' \in [Procs -> Pcs] /\ pc'[p] = "next" /\ \A q \in Procs \ {p} : pc'[q] = pc[q]
    BY <1>2 DEF DbInv, TypeOK, Pcs
  <2>3. TypeOK' /\ Flagged' /\ Steady'
    BY <2>1, <2>2 DEF DbInv, TypeOK, Flagged, Steady
  <2>4. Frame(p) /\ Only(p) /\ StoreStep
    BY <2>1, <2>2 DEF Frame, Only, StoreStep
  <2>5. At(p)'
    BY <1>1, <2>1, <2>2 DEF At, PlacedAt, DoomedAt, ListingAt
  <2>6. \A q \in Procs \ {p} : At(q)'
    BY <2>1, <2>4, FrameKeeps
  <2>. QED  BY <2>3, <2>4, <2>5, <2>6 DEF DbInv
<1>3. ASSUME NEW o \in DB_itr_del_curr(S(p))
                       \cup UNION {DB_itr_replace_curr(S(p), v) : v \in Vals},
             NEW e \in IF o[2] = "ERR" THEN DB_close_itr(o[1]) ELSE {o},
             Effect(p, <<e[1], IF Gone(o) THEN o[2] ELSE e[2], o[3]>>),
             Goto(p, o, IF o[2] = "ERR" THEN "rollback" ELSE "next"),
             IF Gone(o) THEN Reset(p) ELSE UNCHANGED progVars
      PROVE  DbInv' /\ StoreStep /\ Only(p)
  <2>. DEFINE out == <<e[1], IF Gone(o) THEN o[2] ELSE e[2], o[3]>>
  <2>1. driver \in Dbs /\ Sound(driver, S(p)) /\ S(p).h.curr \in Keys
    BY <1>1, CallSound DEF DbInv, TypeOK
  <2>2. Proper(driver, S(p), o)
    <3>1. \/ o \in DB_itr_del_curr(S(p))
          \/ \E v \in Vals : o \in DB_itr_replace_curr(S(p), v)
      OBVIOUS
    <3>. QED  BY <2>1, <3>1, DbItrDelCurr, DbItrReplaceCurr
  <2>3. Proper(driver, S(p), out)
    <3>1. CASE o[2] = "ERR"
      <4>1. Proper(driver, S(p), <<e[1], e[2], o[3]>>)
        BY <1>3, <2>1, <2>2, <3>1, CloseItrIsProper DEF Proper
      <4>2. ~Gone(o)
        BY <3>1 DEF Gone
      <4>. QED  BY <4>1, <4>2
    <3>2. CASE o[2] # "ERR"
      <4>1. e = o
        BY <1>3, <3>2
      <4>2. out[1] = o[1] /\ out[2] = o[2] /\ out[3] = o[3]
        BY <4>1
      <4>. QED  BY <2>2, <4>2 DEF Proper
    <3>. QED  BY <3>1, <3>2
  <2>4. /\ pc' \in [Procs -> Pcs] 
        /\ pc'[p] = IF Gone(o) THEN "none" ELSE IF o[2] = "ERR" THEN "rollback" ELSE "next"
        /\ \A q \in Procs \ {p} : pc'[q] = pc[q]
    BY <1>3, GotoParts DEF Pcs
  <2>5. CASE Gone(o)
    <3>1. ProgType' /\ Frame(p) /\ ~missed'[p] /\ pc'[p] = "none"
      BY <1>1, <1>3, <2>4, <2>5, ResetParts DEF DbInv, TypeOK, ProgType, Frame
    <3>2. At(p)'
      BY <3>1, RestIsAt
    <3>. QED  BY <1>3, <2>3, <3>1, <3>2, CallKeeps
  <2>6. CASE ~Gone(o)
    <3>1. UNCHANGED <<scan, key, got, tries, missed, listed>>
      BY <1>3, <2>6 DEF progVars
    <3>2. ProgType' /\ Frame(p)
      BY <1>1, <2>4, <3>1 DEF DbInv, TypeOK, ProgType, Frame
    <3>3. At(p)'
      BY <1>1, <2>4, <2>6, <3>1 DEF At, PlacedAt, DoomedAt, ListingAt
    <3>. QED  BY <1>3, <2>3, <3>2, <3>3, CallKeeps
  <2>. QED  BY <2>5, <2>6
<1>. QED  BY <1>2, <1>3 DEF ScanCurr

LEMMA InitIsDbInv == Init => DbInv
<1>. SUFFICES ASSUME Init
              PROVE  DbInv
  OBVIOUS
<1>1. db \in [Keys -> Vals \cup {None}]
  BY DEF Init
<1>2. h \in [Procs -> Handle] /\ Flagged
  BY NoHandleFits DEF Init, Flagged
<1>3. TypeOK
  BY <1>1, <1>2, DriversAssumption, DatabaseAssumption DEF Init, TypeOK, Pcs
<1>4. Steady /\ \A p \in Procs : At(p)
  BY DEF Init, Steady, At, PlacedAt, DoomedAt, ListingAt
<1>. QED  BY <1>2, <1>3, <1>4 DEF DbInv

LEMMA NextKeepsDbInv ==
    ASSUME DbInv, Next
    PROVE  DbInv' /\ StoreStep
<1>1. PICK p \in Procs :
         \/ ProgramStart(p) \/ Open(p) \/ Close(p) \/ TrapCheck(p)
         \/ \E k \in Keys : UpdateStart(p, k)
         \/ ScanStart(p) \/ ListStart(p)
         \/ Step(p)
  BY DEF Next
<1>2. CASE Step(p)
  BY <1>2, StartTxnKeeps, GetKeeps, WriteKeeps, CommitKeeps, RollbackKeeps,
     ScanItrKeeps, ItrNextKeeps, ScanCurrKeeps DEF Step
<1>. QED
  BY <1>1, <1>2, ProgramStartKeeps, OpenKeeps, CloseKeeps, TrapCheckKeeps, BeginKeeps,
     ListStartKeeps

LEMMA StutterKeepsDbInv ==
    ASSUME DbInv, UNCHANGED vars
    PROVE  DbInv' /\ StoreStep
<1>. USE DEF vars, progVars
<1>1. TypeOK' /\ Flagged' /\ Steady'
  BY DEF DbInv, TypeOK, Flagged, Steady
<1>2. \A p \in Procs : At(p)'
  BY DEF DbInv, At, PlacedAt, DoomedAt, ListingAt
<1>3. StoreStep
  BY DEF StoreStep
<1>. QED  BY <1>1, <1>2, <1>3 DEF DbInv

LEMMA DbInvariance == Spec => []DbInv
<1>1. DbInv /\ [Next]_vars => DbInv'
  BY NextKeepsDbInv, StutterKeepsDbInv
<1>. QED  BY <1>1, InitIsDbInv, PTL DEF Spec

\* Whatever the drivers and their libraries do, handles, results, locks and
\* the programs' variables keep to their types: sqlite's retries are bounded
\* by MAX_RETRY, and a get returns a value, a failure or "not found".
THEOREM DatabaseTypeInvariance == Spec => []TypeOK
BY DbInvariance, PTL DEF DbInv

\* Every driver implements the Store, for any processes, records and number of
\* failures: what is written while the driver's flag is set reaches the
\* database as a whole or not at all, and everything else at once.
THEOREM DriversImplementStore == Spec => StoreSpec
<1>1. Init => Promise!Init
  <2>. SUFFICES ASSUME Init
                PROVE  Promise!Init
    OBVIOUS
  <2>1. db \in [Keys -> Vals \cup {None}]
    BY DEF Init
  <2>2. \A p \in Procs : ~h[p].txn /\ h[p].work = NoWork
    BY DEF Init, NoHandle
  <2>. QED  BY <2>1, <2>2 DEF Promise!Init, Promise!Empty, NoWork
<1>2. DbInv /\ [Next]_vars => StoreStep
  BY NextKeepsDbInv, StutterKeepsDbInv
<1>. QED
  BY <1>1, <1>2, DbInvariance, PTL DEF Spec, StoreSpec, Promise!Spec, StoreStep

\* An update that missed its record writes nothing with bdb or postgresql.
LEMMA MissedWritesNothing ==
    ASSUME DbInv, NEW p \in Procs, driver \in {"bdb", "postgresql"}, missed[p],
           Write(p) \/ Commit(p) \/ Rollback(p)
    PROVE  /\ h'[p].work[key[p]] = h[p].work[key[p]] \/ h'[p].work[key[p]] = Same
           /\ db' = db
<1>1. /\ driver = "postgresql" /\ key[p] \in Keys
      /\ pc[p] = "write" => h[p].srv = "aborted"
      /\ pc[p] \in {"commit", "rollback"} => ~h[p].txn
  BY DEF DbInv, At, DoomedAt
<1>2. /\ TypeOK /\ Flagged /\ driver \in Dbs
      /\ Sound(driver, S(p)) /\ S(p).h = h[p] /\ S(p).db = db
  BY CallSound DEF DbInv, TypeOK
<1>3. ASSUME NEW o, Proper(driver, S(p), o), Effect(p, o), o[1].db = db,
             ~o[1].h.txn \/ Gone(o)
      PROVE  h'[p].work[key[p]] = Same /\ db' = db
  <2>1. h'[p] = (IF Gone(o) THEN NoHandle ELSE o[1].h) /\ db' = db
    BY <1>2, <1>3, EffectParts
  <2>2. h'[p].work = NoWork
    <3>1. CASE Gone(o)
      BY <2>1, <3>1 DEF NoHandle
    <3>2. CASE ~Gone(o)
      BY <1>3, <2>1, <3>2 DEF Proper, Sound, Fits
    <3>. QED  BY <3>1, <3>2
  <2>. QED  BY <1>1, <2>1, <2>2 DEF NoWork
<1>4. CASE Write(p)
  <2>1. PICK o \in (UNION {DB_put(S(p), key[p], v) : v \in Vals})
                 \cup (IF got[p] = None THEN {} ELSE DB_del(S(p), key[p])) :
           Effect(p, o)
    BY <1>4 DEF Write
  <2>2. (\E v \in Vals : o \in DB_put(S(p), key[p], v)) \/ o \in DB_del(S(p), key[p])
    BY <2>1
  <2>3. Written(driver, S(p), o)
    BY <1>1, <1>2, <2>2, DbPut, DbDel
  <2>4. pc[p] = "write"
    BY <1>4 DEF Write
  <2>. QED  BY <1>1, <1>2, <1>3, <2>1, <2>3, <2>4 DEF Written, Gone
<1>5. CASE Commit(p)
  <2>1. PICK o \in DB_commit_txn(S(p), tries[p]) : Effect(p, o)
    BY <1>5 DEF Commit
  <2>2. pc[p] = "commit" /\ tries[p] \in Nat
    BY <1>5 DEF Commit, DbInv, TypeOK
  <2>3. Proper(driver, S(p), o) /\ (~S(p).h.txn => o[1] = S(p))
    BY <1>2, <2>1, <2>2, DbCommitTxn
  <2>. QED  BY <1>1, <1>2, <1>3, <2>1, <2>2, <2>3
<1>6. CASE Rollback(p)
  <2>1. PICK o \in DB_rollback_txn(S(p)) : Effect(p, o)
    BY <1>6 DEF Rollback
  <2>2. pc[p] = "rollback"
    BY <1>6 DEF Rollback
  <2>3. /\ Proper(driver, S(p), o) /\ o[1].db = S(p).db
        /\ ~o[1].h.txn \/ o[2] = "exit"
    BY <1>2, <2>1, DbRollbackTxn
  <2>. QED  BY <1>2, <1>3, <2>1, <2>3 DEF Gone
<1>. QED  BY <1>4, <1>5, <1>6

\* A step is one program's.
LEMMA NextIsOnes ==
    ASSUME DbInv, Next
    PROVE  \E p \in Procs :
              /\ Only(p)
              /\ pc[p] \in {"write", "commit", "rollback"} =>
                    Write(p) \/ Commit(p) \/ Rollback(p)
              /\ pc[p] = "next" => ItrNext(p)
<1>1. PICK p \in Procs :
         \/ ProgramStart(p) \/ Open(p) \/ Close(p) \/ TrapCheck(p)
         \/ \E k \in Keys : UpdateStart(p, k)
         \/ ScanStart(p) \/ ListStart(p)
         \/ Step(p)
  BY DEF Next
<1>2. CASE Step(p)
  <2>1. Only(p)
    BY <1>2, StartTxnKeeps, GetKeeps, WriteKeeps, CommitKeeps, RollbackKeeps,
       ScanItrKeeps, ItrNextKeeps, ScanCurrKeeps DEF Step
  <2>. QED
    BY <1>2, <2>1 DEF Step, StartTxn, Get, Write, Commit, Rollback, ScanItr, ItrNext,
                      ScanCurr
<1>3. CASE ~Step(p)
  <2>1. Only(p)
    BY <1>1, <1>3, ProgramStartKeeps, OpenKeeps, CloseKeeps, TrapCheckKeeps, BeginKeeps,
       ListStartKeeps
  <2>2. pc[p] \in {"none", "idle"}
    BY <1>1, <1>3 DEF ProgramStart, Open, Close, TrapCheck, UpdateStart, ScanStart,
                      ListStart, Begun
  <2>. QED  BY <2>1, <2>2
<1>. QED  BY <1>2, <1>3

\* With bdb and postgresql no update, in a transaction or by its commit,
\* overwrites a record that its DB_get failed to find.
THEOREM NoUpdateIsBlind == Spec => NoBlindWrite
<1>. DEFINE A == \A p \in Procs :
                    driver \in {"bdb", "postgresql"} /\ missed[p] =>
                       /\ h'[p].work[key[p]] = h[p].work[key[p]]
                           \/ h'[p].work[key[p]] = Same
                       /\ pc'[p] # pc[p] => db' = db
<1>1. DbInv /\ Next => A
  <2>. SUFFICES ASSUME DbInv, Next, NEW q \in Procs,
                       driver \in {"bdb", "postgresql"}, missed[q]
                PROVE  /\ h'[q].work[key[q]] = h[q].work[key[q]]
                            \/ h'[q].work[key[q]] = Same
                       /\ pc'[q] # pc[q] => db' = db
    OBVIOUS
  <2>1. PICK p \in Procs :
              /\ Only(p)
              /\ pc[p] \in {"write", "commit", "rollback"} =>
                    Write(p) \/ Commit(p) \/ Rollback(p)
    BY NextIsOnes
  <2>2. CASE p = q
    <3>1. pc[p] \in {"write", "commit", "rollback"}
      BY <2>2 DEF DbInv, At, DoomedAt
    <3>. QED  BY <2>1, <2>2, <3>1, MissedWritesNothing
  <2>3. CASE p # q
    BY <2>1, <2>3 DEF Only
  <2>. QED  BY <2>2, <2>3
<1>2. DbInv /\ [Next]_vars => [A]_vars
  BY <1>1
<1>3. Spec => [][A]_vars
  BY <1>2, DbInvariance, PTL DEF Spec
<1>. QED  BY <1>3 DEF NoBlindWrite

\* A listing that comes to its end has shown every record that was there all
\* the while, with every driver and whatever the others did meanwhile.
THEOREM ListingIsComplete == Spec => ListComplete
<1>. DEFINE A == \A p \in Procs :
                    pc[p] = "next" /\ ~scan[p] /\ pc'[p] = "idle"
                       => steady[p] \subseteq listed[p]
<1>1. DbInv /\ Next => A
  <2>. SUFFICES ASSUME DbInv, Next, NEW q \in Procs,
                       pc[q] = "next", ~scan[q], pc'[q] = "idle"
                PROVE  steady[q] \subseteq listed[q]
    OBVIOUS
  <2>1. PICK p \in Procs : Only(p) /\ (pc[p] = "next" => ItrNext(p))
    BY NextIsOnes
  <2>2. p = q /\ ItrNext(q)
    BY <2>1 DEF Only
  <2>3. PICK o, e :
        LET end == o[2] = None \/ (scan[q] /\ o[2] = "ERR")
        IN  /\ Steps(driver, S(q), o)
            /\ Goto(q, o, IF ~end THEN IF scan[q] THEN "curr" ELSE "next"
                          ELSE IF scan[q] THEN "commit" ELSE "idle")
    BY <2>2, ItrNextCall
  <2>4. o[2] = None
    <3>1. CASE o[2] # None
      <4>1. Goto(q, o, "next")
        BY <2>3, <3>1
      <4>2. pc'[q] \in {"none", "next"}
        BY <4>1, GotoParts DEF Pcs
      <4>. QED  BY <4>2
    <3>. QED  BY <3>1
  <2>. QED  BY <2>3, <2>4, ListingGoesOn
<1>2. DbInv /\ [Next]_vars => [A]_vars
  BY <1>1
<1>3. Spec => [][A]_vars
  BY <1>2, DbInvariance, PTL DEF Spec
<1>. QED  BY <1>3 DEF ListComplete
=============================================================================
