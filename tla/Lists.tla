------------------------------- MODULE Lists -------------------------------
(***************************************************************************)
(* greyd-setup, the blacklists of the main daemon and the blacklist table  *)
(* of the firewall.                                                        *)
(*                                                                         *)
(* A run of greyd-setup goes through the configured lists.  A blacklist is *)
(* fetched and parsed into ranges, the whitelists that follow are taken    *)
(* out of it, and it is sent to the daemon when the next one begins.  In   *)
(* blacklist-only mode (-b) the networks of all lists are given to the     *)
(* firewall with the last one.  A feed may be missing, or end in the       *)
(* middle; any step may fail and end the run.  The daemon also gets the    *)
(* list of greytraps from the scanner, and loses its lists at a restart.   *)
(***************************************************************************)
EXTENDS IpLists

CONSTANTS
    Setup,       \* `lists' of section setup: a sequence of names
    Black,       \* the ones of them that are defined as blacklists
    White,       \* ... and as whitelists
    Feeds,       \* Feeds[name]: what may be fetched, sequences of entries
    Traps,       \* the name of the list of greytraps
    TrapLists,   \* lists of trapped addresses the scanner may send
    FwDriver,
    TableSize,   \* NUM_BLACKLISTS
    MaxRuns, MaxTraps, MaxRestarts   \* bounds

Names == Black \cup {Traps}

\* An entry of a feed is a network or a range of addresses.
Entry == [first : Addrs, bits : 0 .. W] \cup [first : Addrs, last : Addrs]

ASSUME ListsAssumption ==
    /\ Setup \in Seq(ToSet(Setup))
    /\ Black \cap White = {} /\ Traps \notin Black
    /\ Names \subseteq DOMAIN HashOf
    /\ \A n \in Black \cup White : Feeds[n] \subseteq Seq(Entry)
    /\ TrapLists \subseteq Seq(Addrs)
    /\ FwDriver \in {"netfilter", "pf", "npf"}
    /\ TableSize \in Nat \ {0}
    /\ {MaxRuns, MaxTraps, MaxRestarts} \subseteq Nat

VARIABLES
    pc,          \* where greyd-setup is: "idle", "list" or "fetch"
    next,        \* the list it is at
    greyonly,    \* no -b
    cur,         \* its current blacklist
    all,         \* all_cidrs
    conns,       \* config connections the daemon has not read
    blacklists,  \* the hash table of the daemon
    fw,          \* the table greyd-blacklist of the firewall
    latest,      \* history: the last list of each name the daemon has read
    fwMeant,     \* history: what the firewall was given, by the feeds
    runs, traps, restarts   \* how much of the bounds is used

setupVars == <<pc, next, greyonly, cur, all>>
vars == <<setupVars, conns, blacklists, fw, latest, fwMeant, runs, traps, restarts>>

Init ==
    /\ pc = "idle" /\ next = 1 /\ greyonly = TRUE /\ cur = Nil /\ all = <<>>
    /\ conns = <<>>
    /\ blacklists = Hash_create(TableSize)
    /\ fw = {}
    /\ latest = [n \in {} |-> Nil]
    /\ fwMeant = [addrs |-> {}, plain |-> TRUE]
    /\ runs = 0 /\ traps = 0 /\ restarts = 0

----------------------------------------------------------------------------
(* Feeds. *)

\* 1 << n, of which a shift by the width of the type is undefined.
Shl(n, ub) == IF n < W THEN Pow2[n] ELSE ub

\* grammar_entry and IP_cidr_to_range: the address after the last one.
EntryEnd(e, ub) ==
    Wrap(IF "bits" \in DOMAIN e THEN e.first + Shl(W - e.bits, ub) ELSE e.last + 1)

\* What the entry means.  A network has its size from the address that it is
\* written with on, even if that is not where a network begins.
EntryAddrs(e) ==
    {a \in Addrs : e.first <= a /\ a <= IF "bits" \in DOMAIN e THEN e.first + Size(e.bits) - 1
                                        ELSE e.last}

\* The end of an entry that reaches the last address is not an address.
Plain(e) == Pow2[W] - 1 \notin EntryAddrs(e)

\* Spamd_parser_start: the entries of a feed, up to the first it cannot parse.
Parsed(list, feed, black, ub) ==
    LET at[n \in 0 .. Len(feed)] ==
            IF n = 0 THEN list
            ELSE LET l == at[n - 1]
                     e == feed[n]
                 IN  [name |-> l.name,
                      marks |-> Blacklist_add_range(l.marks, e.first, EntryEnd(e, ub), black),
                      black |-> IF black THEN l.black \cup EntryAddrs(e) ELSE l.black,
                      white |-> IF black THEN l.white ELSE l.white \cup EntryAddrs(e),
                      plain |-> l.plain /\ Plain(e)]
    IN  at[Len(feed)]

NewList(n) == [name |-> n, marks |-> <<>>, black |-> {}, white |-> {}, plain |-> TRUE]

----------------------------------------------------------------------------
(* greyd-setup. *)

Idle == pc' = "idle" /\ next' = 1 /\ greyonly' = TRUE /\ cur' = Nil /\ all' = <<>>

SetupStart(b) ==
    /\ pc = "idle"
    /\ runs < MaxRuns
    /\ runs' = runs + 1
    /\ pc' = "list"
    /\ greyonly' = ~b
    /\ UNCHANGED <<next, cur, all, conns, blacklists, fw, latest, fwMeant, traps,
                   restarts>>

AllCidrs == IF greyonly THEN <<>> ELSE all \o <<[cur EXCEPT !.marks = Blacklist_collapse(@)]>>

\* Mod_fw_replace: pf and npf do nothing for an empty list.
FwReplaced(lists) ==
    LET cidrs == UNION {ToSet(lists[i].marks) : i \in DOMAIN lists}
    IN  IF cidrs = {} /\ FwDriver # "netfilter" THEN fw ELSE cidrs

Meant(lists) ==
    [addrs |-> UNION {lists[i].black \ lists[i].white : i \in DOMAIN lists},
     plain |-> \A i \in DOMAIN lists : lists[i].plain]

\* The run ends with an error: an empty list with -b (LIST_EACH of NULL), the
\* firewall (unless it is reached), the connection to the daemon, or a crash.
SendFails(final) ==
    /\ IF final /\ ~greyonly /\ cur.marks # <<>>
       THEN \/ UNCHANGED <<fw, fwMeant>>
            \/ fw' = FwReplaced(AllCidrs) /\ fwMeant' = Meant(AllCidrs)
       ELSE UNCHANGED <<fw, fwMeant>>
    /\ UNCHANGED conns

\* send_blacklist: an empty list is not sent.
SendBlacklist(final) ==
    /\ greyonly \/ cur.marks # <<>>
    /\ LET cidrs == Blacklist_collapse(cur.marks)
       IN  conns' = IF cidrs \in {Nil, <<>>} THEN conns
                    ELSE Append(conns, [name |-> cur.name, cidrs |-> cidrs, black |-> cur.black,
                                        white |-> cur.white, plain |-> cur.plain])
    /\ IF final /\ ~greyonly
       THEN fw' = FwReplaced(AllCidrs) /\ fwMeant' = Meant(AllCidrs)
       ELSE UNCHANGED <<fw, fwMeant>>

\* The next list of the configuration.
NextList ==
    /\ pc = "list"
    /\ next <= Len(Setup)
    /\ LET n == Setup[next] IN
        \/ /\ n \in Black /\ cur = Nil
           /\ cur' = NewList(n) /\ pc' = "fetch"
           /\ UNCHANGED <<next, greyonly, all, conns, fw, fwMeant>>
        \/ /\ n \in Black /\ cur # Nil
           /\ SendBlacklist(FALSE)
           /\ all' = AllCidrs
           /\ cur' = NewList(n) /\ pc' = "fetch"
           /\ UNCHANGED <<next, greyonly>>
        \/ /\ n \in Black /\ cur # Nil
           /\ SendFails(FALSE)
           /\ Idle
        \/ /\ n \in White /\ cur # Nil
           /\ pc' = "fetch"
           /\ UNCHANGED <<next, greyonly, cur, all, conns, fw, fwMeant>>
        \/ /\ n \notin Black /\ (n \in White => cur = Nil)
           /\ next' = next + 1
           /\ UNCHANGED <<pc, greyonly, cur, all, conns, fw, fwMeant>>
    /\ UNCHANGED <<blacklists, latest, runs, traps, restarts>>

\* get_parser and Spamd_parser_start.
Fetch(feed, ub) ==
    /\ pc = "fetch"
    /\ cur' = Parsed(cur, feed, Setup[next] \in Black, ub)
    /\ next' = next + 1
    /\ pc' = "list"
    /\ UNCHANGED <<greyonly, all, conns, blacklists, fw, latest, fwMeant, runs, traps,
                   restarts>>

\* The end of the lists: the last blacklist is sent.
Finish ==
    /\ pc = "list"
    /\ next > Len(Setup)
    /\ \/ cur = Nil /\ UNCHANGED <<conns, fw, fwMeant>>
       \/ cur # Nil /\ SendBlacklist(TRUE)
       \/ cur # Nil /\ SendFails(TRUE)
    /\ Idle
    /\ UNCHANGED <<blacklists, latest, runs, traps, restarts>>

----------------------------------------------------------------------------
(* The main daemon. *)

\* Greyd_process_config: a list replaces the one of its name.
Insert(l) ==
    LET v == [trie |-> TrieOf(l.cidrs), cidrs |-> l.cidrs, black |-> l.black,
              white |-> l.white, plain |-> l.plain]
    IN  /\ blacklists' = Hash_insert(blacklists, l.name, v)
        /\ latest' = Set(latest, l.name, v)

\* Connections are accepted one after the other; one may be aborted.
ConfigRead ==
    /\ conns # <<>>
    /\ Insert(Head(conns)) \/ UNCHANGED <<blacklists, latest>>
    /\ conns' = Tail(conns)
    /\ UNCHANGED <<setupVars, fw, fwMeant, runs, traps, restarts>>

\* A list of greytraps: Greyd_send_config gives an address its full length.
TrapRead(addrs) ==
    /\ traps < MaxTraps
    /\ traps' = traps + 1
    /\ Insert([name |-> Traps, black |-> ToSet(addrs), white |-> {}, plain |-> TRUE,
               cidrs |-> [i \in DOMAIN addrs |-> [addr |-> addrs[i], bits |-> W]]])
    /\ UNCHANGED <<setupVars, conns, fw, fwMeant, runs, restarts>>

\* The daemon starts again, and connections are reset.
Restart ==
    /\ restarts < MaxRestarts
    /\ restarts' = restarts + 1
    /\ blacklists' = Hash_create(TableSize)
    /\ latest' = [n \in {} |-> Nil]
    /\ conns' = <<>>
    /\ UNCHANGED <<setupVars, fw, fwMeant, runs, traps>>

\* Con_init: the lists a client is on.
ListsOf(a) == {n \in Hash_keys(blacklists) : Blacklist_match(Hash_get(blacklists, n), a)}

Next ==
    \/ \E b \in BOOLEAN : SetupStart(b)
    \/ NextList
    \/ /\ pc = "fetch"
       /\ \E feed \in UNION {Prefixes(f) : f \in Feeds[Setup[next]] \cup {<<>>}} :
             \E ub \in 0 .. 1 : Fetch(feed, ub)
    \/ Finish
    \/ ConfigRead
    \/ \E addrs \in TrapLists : TrapRead(addrs)
    \/ Restart

Spec == Init /\ [][Next]_vars

----------------------------------------------------------------------------
List == [name : Names, marks : Seq(Mark), black : SUBSET Addrs, white : SUBSET Addrs,
         plain : BOOLEAN]

\* greyd-setup and the daemon keep to their types; the hash table counts its
\* entries as it holds them and is never over-full.
TypeOK ==
    /\ pc \in {"idle", "list", "fetch"}
    /\ next \in 1 .. Len(Setup) + 1
    /\ greyonly \in BOOLEAN
    /\ cur \in List \cup {Nil}
    /\ \A i \in DOMAIN all : all[i].marks \in Seq(Cidr)
    /\ \A i \in DOMAIN conns : conns[i].name \in Black /\ conns[i].cidrs \in Seq(Cidr)
    /\ blacklists.num = Cardinality(Hash_keys(blacklists))
    /\ blacklists.num <= blacklists.size
    /\ fw \subseteq Cidr
    /\ fwMeant.addrs \subseteq Addrs

Covered(cidrs) == {a \in Addrs : \E c \in cidrs : Matches(c, a)}

\* blacklist.h: the networks that greyd-setup sends do not overlap, and they
\* make up what is black and not white, however ranges and networks overlap,
\* touch and repeat.  (An entry that reaches the last address is lost: its end
\* wraps around and Blacklist_add_range ignores it.)
CollapseExact ==
    \A i \in DOMAIN conns : LET l == conns[i] IN
        l.plain =>
            /\ Covered(ToSet(l.cidrs)) = l.black \ l.white
            /\ \A j, k \in DOMAIN l.cidrs :
                  j # k => Covered({l.cidrs[j]}) \cap Covered({l.cidrs[k]}) = {}

\* With netfilter, the table of the firewall is that of one run of greyd-setup,
\* all of its lists together, whether the run ended well or not.
FwExact ==
    FwDriver = "netfilter" /\ fwMeant.plain => Covered(fw) = fwMeant.addrs

\* state.blacklists is a map: whatever names collide and however the table
\* grows, each name has the list that was read last.
TableIsMap ==
    /\ Hash_keys(blacklists) = DOMAIN latest
    /\ \A n \in DOMAIN latest : Hash_get(blacklists, n) = latest[n]

\* No client is blacklisted by a list that does not name it, nor one that a
\* whitelist takes out.
OnlyListed ==
    \A a \in Addrs : \A n \in ListsOf(a) :
        /\ a \in latest[n].black
        /\ latest[n].plain => a \notin latest[n].white

\* A list whose networks are all of one length, as the greytraps are, names
\* each of its addresses.
SameLengthFound ==
    \A n \in Hash_keys(blacklists) : LET l == latest[n] IN
        l.plain /\ Cardinality({l.cidrs[i].bits : i \in DOMAIN l.cidrs}) = 1
            => \A a \in l.black \ l.white : n \in ListsOf(a)

\* blacklist.h: "Return 1 if the source address is in the list, otherwise
\* return 0."
MatchesList ==
    \A n \in Hash_keys(blacklists) : LET l == latest[n] IN
        \A a \in Addrs : n \in ListsOf(a) <=> \E i \in DOMAIN l.cidrs : Matches(l.cidrs[i], a)
============================================================================
