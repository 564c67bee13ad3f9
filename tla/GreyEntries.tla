---------------------------- MODULE GreyEntries ----------------------------
(***************************************************************************)
(* The records of the greyd database and the updates the programs make to  *)
(* them.  An entry is keyed by a bare address (a whitelist entry or a      *)
(* greytrap) or by a tuple (ip, helo, from, to) of one delivery attempt.   *)
(*                                                                         *)
(* Abstraction.  The helo and the envelope sender only make tuples         *)
(* distinct, so a tuple is an address and a recipient.  No code branches   *)
(* on bcount or on the size of pcount, only on its sign: bcount is left    *)
(* out, and pcount is Trapped (-1) or Passing (0, standing for any count   *)
(* of passed mail).  Incrementing it, `pcount++`, gives Passing from both. *)
(***************************************************************************)
EXTENDS Integers

CONSTANTS
    Ips,         \* the sending addresses
    Inet6,       \* the ones of them that are IPv6 addresses
    Rcpts,       \* the recipient addresses
    None,        \* no such key in the database
    PassTime,    \* pass_time:    a retry counts once this time has gone by
    GreyExp,     \* grey_expiry:  life of a tuple entry
    TrapExp,     \* trap_expiry:  life of a greytrap
    WhiteExp     \* white_expiry: life of a whitelist entry

Trapped == -1
Passing == 0

Tuples == Ips \X Rcpts

Entry == [first : Nat, pass : Nat, expire : Nat, pcount : {Trapped, Passing}]

MaybeEntry == Entry \cup {None}

ASSUME ConstantsAssumption ==
    /\ Inet6 \subseteq Ips
    /\ None \notin Entry
    /\ PassTime \in Nat
    /\ GreyExp \in Nat \ {0}
    /\ TrapExp \in Nat \ {0}
    /\ WhiteExp \in Nat \ {0}

IsTrapped(e) == e # None /\ e.pcount = Trapped
IsPassing(e) == e # None /\ e.pcount = Passing

\* What a scan at time t looks at.
Expired(e, t) == e # None /\ e.expire <= t

\* Mutant: the sign of pcount is not looked at.
IsDueTrapped(e, t) == e # None /\ e.pass <= t

IsDue(e, t) == IsPassing(e) /\ e.pass <= t

----------------------------------------------------------------------------
(* process_grey: a delivery attempt seen by the daemon at time t. *)

\* Mutant: a new entry passes by itself once the pass time is over.
NewGreyEntryPassEarly(t, life, pc) ==
    [first |-> t, pass |-> t + PassTime, expire |-> t + life, pcount |-> pc]

\* No entry yet.  Pass and expire are the same instant.
NewGreyEntry(t, life, pc) ==
    [first |-> t, pass |-> t + life, expire |-> t + life, pcount |-> pc]

\* Mutant: a retry right at the pass time counts.
SeenGreyEntryEarly(e, t, pc) ==
    [e EXCEPT !.pass = IF e.first + PassTime <= t THEN t ELSE @,
              !.pcount = pc]

\* A retry, or one more hit of a trap.  The expiry is left as it was.
SeenGreyEntry(e, t, pc) ==
    [e EXCEPT !.pass = IF e.first + PassTime < t THEN t ELSE @,
              !.pcount = pc]

GreyUpdate(e, t, life, pc) ==
    IF e = None THEN NewGreyEntry(t, life, pc) ELSE SeenGreyEntry(e, t, pc)

\* SPF validation passed and whitelist_on_pass is set.
SpfPassEntry(t) ==
    [first |-> t, pass |-> t, expire |-> t + WhiteExp, pcount |-> Passing]

----------------------------------------------------------------------------
(* process_non_grey: a TRAP or WHITE message of a peer, handled at time t. *)

\* Mutant: a trap is counted as the spamtrap addresses are.
NonGreyUpdateSpamtrap(e, t, spamtrap, expires, delete) ==
    IF delete
    THEN None
    ELSE [first |-> t, pass |-> IF spamtrap THEN expires ELSE t,
          expire |-> expires, pcount |-> IF spamtrap THEN -2 ELSE Passing]

NonGreyUpdate(e, t, spamtrap, expires, delete) ==
    IF delete
    THEN None
    ELSE IF e = None
    THEN [first |-> t, pass |-> IF spamtrap THEN expires ELSE t,
          expire |-> expires, pcount |-> IF spamtrap THEN Trapped ELSE Passing]
    ELSE [e EXCEPT !.pcount = IF spamtrap THEN Trapped ELSE Passing]

----------------------------------------------------------------------------
(* greylogd: a logged SMTP connection of an address. *)

GreylogdUpdate(e, t) ==
    IF e = None
    THEN [first |-> t, pass |-> t, expire |-> t + WhiteExp, pcount |-> Passing]
    ELSE [e EXCEPT !.pcount = Passing, !.expire = t + WhiteExp]

----------------------------------------------------------------------------
(* greydb -a (TYPE_WHITE) and greydb -t -a (TYPE_TRAPHIT): db_update. *)

GreydbUpdate(e, t, traphit) ==
    LET old == IF e = None
               THEN [first |-> t, pass |-> 0, expire |-> 0, pcount |-> Passing]
               ELSE e
    IN  IF traphit
        THEN [old EXCEPT !.expire = t + TrapExp, !.pcount = Trapped]
        ELSE [old EXCEPT !.pass = t, !.expire = t + WhiteExp, !.pcount = Passing]
============================================================================
