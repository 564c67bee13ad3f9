------------------------------- MODULE Store -------------------------------
(***************************************************************************)
(* What greydb.h promises of a database that several processes share: what *)
(* a process writes in a transaction reaches the database when the         *)
(* transaction is committed, all of it in one step, or never; what it      *)
(* writes outside of a transaction is there at once.  Nothing is said of   *)
(* isolation: a committed record may be overwritten by a process that has  *)
(* not seen it.                                                            *)
(***************************************************************************)
CONSTANTS Procs, Keys, Vals, None, Same

VARIABLES
    db,     \* the committed records
    in,     \* the processes that are in a transaction
    work    \* what each of them has written in it

Empty == [k \in Keys |-> Same]

Init ==
    /\ db \in [Keys -> Vals \cup {None}]
    /\ in = {}
    /\ work = [p \in Procs |-> Empty]

Begin(p) ==
    /\ p \notin in
    /\ in' = in \cup {p}
    /\ UNCHANGED <<db, work>>

Write(p) ==
    /\ p \in in
    /\ \E k \in Keys, v \in Vals \cup {None} : work' = [work EXCEPT ![p][k] = v]
    /\ UNCHANGED <<db, in>>

WriteThrough(p) ==
    /\ p \notin in
    /\ \E k \in Keys, v \in Vals \cup {None} : db' = [db EXCEPT ![k] = v]
    /\ UNCHANGED <<in, work>>

Commit(p) ==
    /\ p \in in
    /\ db' = [k \in Keys |-> IF work[p][k] = Same THEN db[k] ELSE work[p][k]]
    /\ in' = in \ {p}
    /\ work' = [work EXCEPT ![p] = Empty]

\* A rollback, asked for or forced by an error or by the end of the process.
Abort(p) ==
    /\ p \in in
    /\ in' = in \ {p}
    /\ work' = [work EXCEPT ![p] = Empty]
    /\ UNCHANGED db

Next ==
    \E p \in Procs :
        Begin(p) \/ Write(p) \/ WriteThrough(p) \/ Commit(p) \/ Abort(p)

Spec == Init /\ [][Next]_<<db, in, work>>
============================================================================
