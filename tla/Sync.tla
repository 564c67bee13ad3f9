-------------------------------- MODULE Sync --------------------------------
(***************************************************************************)
(* Daemons on several machines that keep their databases in step by UDP.   *)
(* The reader of a daemon, greydb and greylogd announce what they write,   *)
(* in datagrams of one record, to the configured hosts and the multicast   *)
(* group; the main daemon of a receiver hands a record to its reader.      *)
(*                                                                         *)
(* The network loses, duplicates, reorders and delays datagrams.  A record *)
(* is handled at most MaxDelay after it was sent, the time it waits in the *)
(* grey pipe of the receiver included; nothing in it tells a receiver that *)
(* it has had it before (sh_counter and sg_timestamp are not looked at).   *)
(*                                                                         *)
(* The transactions of one machine are the subject of module Greylister:   *)
(* here an update of a database is one step.                               *)
(***************************************************************************)
EXTENDS GreyEntries, FiniteSets

CONSTANTS
    Hosts,       \* the machines
    SyncHosts,   \* sync hosts, as addresses: whom a machine sends to
    Iface,       \* machines whose sync hosts name an interface: multicast
    BindTo,      \* bind_address: "none", an "addr"ess or an "iface"
    Ones,        \* 255.255.255.255
    SpamTraps,   \* SpamTraps[h]: the spamtrap addresses of machine h
    Foreign,     \* tuples of other groups that reach a machine: <<h, i, r>>
    MaxDelay,    \* of a datagram
    MaxTime, MaxOps, MaxFaults, MaxNoise   \* bounds

ASSUME SyncAssumption ==
    /\ SyncHosts \in [Hosts -> SUBSET Hosts]
    /\ Iface \subseteq Hosts
    /\ BindTo \in [Hosts -> {"none", "addr", "iface"}]
    /\ Ones \in Ips \ Inet6
    /\ SpamTraps \in [Hosts -> SUBSET Rcpts]
    /\ Foreign \subseteq Hosts \X Ips \X Rcpts
    /\ MaxDelay \in 0 .. PassTime
    /\ MaxTime \in Nat \ {0}
    /\ {MaxOps, MaxFaults, MaxNoise} \subseteq Nat

VARIABLES
    now,
    addr,        \* addr[h]: the address entries of machine h
    grey,        \* grey[h]: its tuple entries
    net,         \* datagrams on their way
    attempts,    \* history: when hosts tried to deliver a tuple, anywhere
    vouched,     \* history: addresses whitelisted by greylogd or greydb
    ops, faults, noise   \* how much of the bounds is used

vars == <<now, addr, grey, net, attempts, vouched, ops, faults, noise>>

Init ==
    /\ now = 1
    /\ addr = [h \in Hosts |-> [i \in Ips |-> None]]
    /\ grey = [h \in Hosts |-> [k \in Tuples |-> None]]
    /\ net = {}
    /\ attempts = [k \in Tuples |-> {}]
    /\ vouched = {}
    /\ ops = 0 /\ faults = 0 /\ noise = 0

Clients == Ips \ {Ones}

----------------------------------------------------------------------------
(* Sending. *)

\* inet_addr(): an IPv6 address does not parse, which is INADDR_NONE.
InetAddr(i) == IF i \in Inet6 THEN Ones ELSE i

Grey(i, r) == [type |-> "grey", ip |-> InetAddr(i), to |-> r]
Address(type, i, x, del) ==
    [type |-> type, ip |-> InetAddr(i), expires |-> x, delete |-> del]

\* Sync_start in the main daemon, which has no sync hosts of its own: does its
\* socket get what is sent to h?  A multicast takes an interface.
Receives(h, multicast) ==
    BindTo[h] = "iface" \/ (BindTo[h] = "addr" /\ ~multicast)

\* Sync_init and Sync_start in a sender: whom a datagram of h reaches.  The
\* group includes h itself.
Reached(h) ==
    {g \in SyncHosts[h] : Receives(g, FALSE)}
    \cup {g \in Hosts : h \in Iface /\ Receives(g, TRUE)}

\* send_sync_message: the record goes out signed with the key of the group.
Sent(h, rec) ==
    {[from |-> h, to |-> g, rec |-> rec, born |-> now, signed |-> TRUE] :
        g \in Reached(h)}

----------------------------------------------------------------------------
(* What happens on a machine of its own accord. *)

Local == ops < MaxOps /\ ops' = ops + 1

\* Whether a transaction that has sent its record gets to its commit.
Commits(ok) == IF ok THEN UNCHANGED faults
               ELSE faults < MaxFaults /\ faults' = faults + 1

\* A client tries to deliver to r.  process_grey announces the update before
\* it commits.
Attempt(h, i, r, ok) ==
    /\ Local
    /\ Commits(ok)
    /\ LET k == <<i, r>>
           trap == r \in SpamTraps[h]
       IN  /\ attempts' = [attempts EXCEPT ![k] = @ \cup {now}]
           /\ net' = net \cup Sent(h, IF trap
                                      THEN Address("trap", i, now + TrapExp, FALSE)
                                      ELSE Grey(i, r))
           /\ addr' = IF ok /\ trap
                      THEN [addr EXCEPT ![h][i] = GreyUpdate(@, now, TrapExp, Trapped)]
                      ELSE addr
           /\ grey' = IF ok /\ ~trap
                      THEN [grey EXCEPT ![h][k] = GreyUpdate(@, now, GreyExp, Passing)]
                      ELSE grey
    /\ UNCHANGED <<now, vouched, noise>>

\* greylogd announces before it commits, too.
Log(h, i, ok) ==
    /\ Local
    /\ Commits(ok)
    /\ addr' = IF ok THEN [addr EXCEPT ![h][i] = GreylogdUpdate(@, now)] ELSE addr
    /\ net' = net \cup Sent(h, Address("white", i, now + WhiteExp, FALSE))
    /\ vouched' = vouched \cup {i, InetAddr(i)}
    /\ UNCHANGED <<now, grey, attempts, noise>>

\* greydb -a, after the commit.
Add(h, i, trap) ==
    /\ Local
    /\ addr' = [addr EXCEPT ![h][i] = GreydbUpdate(@, now, trap)]
    /\ net' = net \cup Sent(h, Address(IF trap THEN "trap" ELSE "white", i,
                                       addr'[h][i].expire, FALSE))
    /\ vouched' = IF trap THEN vouched ELSE vouched \cup {i, InetAddr(i)}
    /\ UNCHANGED <<now, grey, attempts, faults, noise>>

\* greydb -d: an entry that is there, of whatever kind.
Delete(h, i, trap) ==
    /\ Local
    /\ addr[h][i] # None
    /\ addr' = [addr EXCEPT ![h][i] = None]
    /\ net' = net \cup Sent(h, Address(IF trap THEN "trap" ELSE "white", i, 0, TRUE))
    /\ UNCHANGED <<now, grey, attempts, vouched, faults, noise>>

\* A scan.  Nothing is announced: the others have the tuples, too.
Scan(h) ==
    LET Due(i) == {k \in Tuples : /\ k[1] = i
                                  /\ IsDue(grey[h][k], now)
                                  /\ ~Expired(grey[h][k], now)
                                  /\ ~IsTrapped(addr[h][i])}
    IN  /\ \E w \in [Ips -> Tuples \cup {None}] :
              /\ \A i \in Ips : IF Due(i) = {} THEN w[i] = None ELSE w[i] \in Due(i)
              /\ addr' = [addr EXCEPT ![h] = [i \in Ips |->
                    IF w[i] # None THEN [grey[h][w[i]] EXCEPT !.expire = now + WhiteExp]
                    ELSE IF Expired(@[i], now) THEN None ELSE @[i]]]
        /\ grey' = [grey EXCEPT ![h] = [k \in Tuples |->
              IF Expired(@[k], now) \/ k \in Due(k[1]) THEN None ELSE @[k]]]
        /\ UNCHANGED <<now, net, attempts, vouched, ops, faults, noise>>

----------------------------------------------------------------------------
(* Receiving: Sync_recv, and the reader for a record with `sync = 0'. *)

\* Mutant: the signature is not verified.
AcceptedUnsigned(h, d) == d.from # h

\* The socket is not read for what came from its own interface's address,
\* and the HMAC has to match.
Accepted(h, d) == (BindTo[h] = "iface" => d.from # h) /\ d.signed

\* Mutant: the update is announced like one of the daemon's own.
ForwardedOn(h, rec) == Sent(h, rec)

\* A record from a peer is not announced again.
Forwarded(h, rec) == {}

\* process_grey and process_non_grey without SPF and low priority MX.
Applied(h, rec) ==
    \/ /\ rec.type = "grey"
       /\ rec.to \notin SpamTraps[h]
       /\ grey' = [grey EXCEPT ![h][<<rec.ip, rec.to>>] =
                       GreyUpdate(@, now, GreyExp, Passing)]
       /\ UNCHANGED addr
    \/ /\ rec.type = "grey"
       /\ rec.to \in SpamTraps[h]
       /\ addr' = [addr EXCEPT ![h][rec.ip] = GreyUpdate(@, now, TrapExp, Trapped)]
       /\ UNCHANGED grey
    \/ /\ rec.type # "grey"
       /\ addr' = [addr EXCEPT ![h][rec.ip] =
                       NonGreyUpdate(@, now, rec.type = "trap", rec.expires, rec.delete)]
       /\ UNCHANGED grey

\* `again': the network keeps a copy.
Receive(d, again) ==
    /\ d \in net
    /\ net' = (IF again THEN net ELSE net \ {d})
              \cup (IF Accepted(d.to, d) THEN Forwarded(d.to, d.rec) ELSE {})
    /\ \/ Accepted(d.to, d) /\ Applied(d.to, d.rec)
       \/ ~Accepted(d.to, d) /\ UNCHANGED <<addr, grey>>
    /\ UNCHANGED <<now, attempts, vouched, ops, faults, noise>>

Lose(d) ==
    /\ d \in net
    /\ net' = net \ {d}
    /\ UNCHANGED <<now, addr, grey, attempts, vouched, ops, faults, noise>>

\* A datagram of somebody who does not have the key.
Noise(h, i, r) ==
    /\ <<h, i, r>> \in Foreign
    /\ noise < MaxNoise
    /\ noise' = noise + 1
    /\ net' = net \cup {[from |-> None, to |-> h, rec |-> Grey(i, r), born |-> now,
                         signed |-> FALSE]}
    /\ UNCHANGED <<now, addr, grey, attempts, vouched, ops, faults>>

Tick ==
    /\ now < MaxTime
    /\ \A d \in net : now < d.born + MaxDelay
    /\ now' = now + 1
    /\ UNCHANGED <<addr, grey, net, attempts, vouched, ops, faults, noise>>

Next ==
    \/ Tick
    \/ \E h \in Hosts, i \in Clients, r \in Rcpts, ok \in BOOLEAN : Attempt(h, i, r, ok)
    \/ \E h \in Hosts, i \in Clients, ok \in BOOLEAN : Log(h, i, ok)
    \/ \E h \in Hosts, i \in Clients, trap \in BOOLEAN : Add(h, i, trap) \/ Delete(h, i, trap)
    \/ \E h \in Hosts : Scan(h)
    \/ \E h \in Hosts, i \in Clients, r \in Rcpts : Noise(h, i, r)
    \/ \E d \in net : Lose(d) \/ \E again \in BOOLEAN : Receive(d, again)

Spec == Init /\ [][Next]_vars

\* The network delivers or loses what it has.
FairSpec == Spec /\ WF_vars(\E d \in net : Receive(d, FALSE) \/ Lose(d))

----------------------------------------------------------------------------
Record == [type : {"grey"}, ip : Ips \ Inet6, to : Rcpts]
          \cup [type : {"white", "trap"}, ip : Ips \ Inet6, expires : Nat,
                delete : BOOLEAN]

\* The entries that records and local updates leave in each database are proper
\* ones (a trap has the count that marks it), and no datagram outlives MaxDelay.
TypeOK ==
    /\ now \in 1 .. MaxTime
    /\ addr \in [Hosts -> [Ips -> MaybeEntry]]
    /\ grey \in [Hosts -> [Tuples -> MaybeEntry]]
    /\ \A d \in net : /\ d.to \in Hosts
                      /\ d.rec \in Record
                      /\ d.born \in now - MaxDelay .. now
    /\ attempts \in [Tuples -> SUBSET (1 .. MaxTime)]
    /\ vouched \subseteq Ips
    /\ ops \in 0 .. MaxOps /\ faults \in 0 .. MaxFaults /\ noise \in 0 .. MaxNoise

\* The attempts a machine may know of under address i: its own, and those of
\* the clients a record gives that address.
Known(i, r) == UNION {attempts[<<j, r>>] : j \in {c \in Ips : c = i \/ InetAddr(c) = i}}

\* Two deliveries of one message.
TwoTries(i, r) ==
    \E t1, t2 \in Known(i, r) : t1 < t2 /\ t1 + PassTime < t2 + MaxDelay

\* Greylisting holds for the machines together ("a grey entry will not be
\* whitelisted unless they retry with the same tuple"): copies of one record,
\* however often and in whatever order they come, never make up for a second
\* attempt, at any machine, as long as none is delayed beyond the pass time.
ClusterEarned ==
    \A h \in Hosts, i \in Ips :
        /\ IsPassing(addr[h][i]) => i \in vouched \/ \E r \in Rcpts : TwoTries(i, r)
        /\ \A r \in Rcpts : LET e == grey[h][<<i, r>>] IN
              e # None /\ e.pass # e.expire => TwoTries(i, r)

\* Machines that announce to each other do not echo: when they have nothing
\* new to say, the network falls silent for good.
Quiet == <>[](net = {})
=============================================================================
