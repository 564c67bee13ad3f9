----------------------------- MODULE SyncProofs -----------------------------
(* Theorems about daemons that keep their databases in step, and proofs. *)
EXTENDS Sync, GreyEntriesProofs, TLAPS

----------------------------------------------------------------------------
(* Records and databases. *)

LEMMA InetAddrType ==
    ASSUME NEW i \in Ips
    PROVE  InetAddr(i) \in Ips /\ InetAddr(i) \in Ips \ Inet6
BY SyncAssumption DEF InetAddr

LEMMA GreyType ==
    ASSUME NEW i \in Ips, NEW r \in Rcpts
    PROVE  Grey(i, r) \in Record
BY InetAddrType DEF Grey, Record

LEMMA AddressType ==
    ASSUME NEW type \in {"white", "trap"}, NEW i \in Ips, NEW x \in Nat,
           NEW del \in BOOLEAN
    PROVE  Address(type, i, x, del) \in Record
BY InetAddrType DEF Address, Record

LEMMA TimeType ==
    ASSUME TypeOK
    PROVE  /\ now \in Nat /\ now \in 1 .. MaxTime /\ now \in now - MaxDelay .. now
           /\ MaxDelay \in Nat /\ MaxTime \in Nat
BY SyncAssumption, ConstantsAssumption DEF TypeOK

\* The part of TypeOK about datagrams.
NetOK(N, t) ==
    \A d \in N : /\ d.to \in Hosts
                 /\ d.rec \in Record
                 /\ d.born \in t - MaxDelay .. t

LEMMA SentOK ==
    ASSUME TypeOK, NEW h \in Hosts, NEW rec \in Record
    PROVE  NetOK(Sent(h, rec), now)
<1>1. Reached(h) \subseteq Hosts
  BY SyncAssumption DEF Reached
<1>. QED  BY <1>1, TimeType DEF NetOK, Sent

LEMMA OneEntry ==
    ASSUME TypeOK, NEW h \in Hosts, NEW i \in Ips, NEW e \in MaybeEntry
    PROVE  [addr EXCEPT ![h][i] = e] \in [Hosts -> [Ips -> MaybeEntry]]
BY DEF TypeOK

LEMMA OneTuple ==
    ASSUME TypeOK, NEW h \in Hosts, NEW k \in Tuples, NEW e \in MaybeEntry
    PROVE  [grey EXCEPT ![h][k] = e] \in [Hosts -> [Tuples -> MaybeEntry]]
BY DEF TypeOK

LEMMA BoundsOK ==
    ASSUME TypeOK
    PROVE  /\ Local => ops' \in 0 .. MaxOps
           /\ \A ok \in BOOLEAN : Commits(ok) => faults' \in 0 .. MaxFaults
BY SyncAssumption DEF TypeOK, Local, Commits

----------------------------------------------------------------------------
(* Types. *)

LEMMA AttemptKeepsTypes ==
    ASSUME TypeOK, NEW h \in Hosts, NEW i \in Clients, NEW r \in Rcpts,
           NEW ok \in BOOLEAN, Attempt(h, i, r, ok)
    PROVE  TypeOK'
<1>. DEFINE k == <<i, r>>
            trap == r \in SpamTraps[h]
            rec == IF trap THEN Address("trap", i, now + TrapExp, FALSE) ELSE Grey(i, r)
<1>i. i \in Ips /\ k \in Tuples
  BY DEF Clients, Tuples
<1>1. rec \in Record
  <2>1. now + TrapExp \in Nat
    BY TimeType, TimesAreNaturals
  <2>. QED  BY <1>i, <2>1, GreyType, AddressType
<1>2. net' = net \cup Sent(h, rec)
  BY DEF Attempt
<1>3. NetOK(net', now')
  <2>. HIDE DEF rec
  <2>. QED  BY <1>1, <1>2, SentOK DEF Attempt, NetOK, TypeOK
<1>4. addr' \in [Hosts -> [Ips -> MaybeEntry]]
  <2>1. addr[h][i] \in MaybeEntry
    BY <1>i DEF TypeOK
  <2>2. GreyUpdate(addr[h][i], now, TrapExp, Trapped) \in MaybeEntry
    BY <2>1, TimeType, TimesAreNaturals, GreyUpdateType DEF MaybeEntry
  <2>. QED  BY <1>i, <2>2, OneEntry DEF Attempt, TypeOK
<1>5. grey' \in [Hosts -> [Tuples -> MaybeEntry]]
  <2>1. grey[h][k] \in MaybeEntry
    BY <1>i DEF TypeOK
  <2>2. GreyUpdate(grey[h][k], now, GreyExp, Passing) \in MaybeEntry
    BY <2>1, TimeType, TimesAreNaturals, GreyUpdateType DEF MaybeEntry
  <2>. QED  BY <1>i, <2>2, OneTuple DEF Attempt, TypeOK
<1>6. attempts' \in [Tuples -> SUBSET (1 .. MaxTime)]
  BY <1>i, TimeType DEF Attempt, TypeOK
<1>7. ops' \in 0 .. MaxOps /\ faults' \in 0 .. MaxFaults
  BY BoundsOK DEF Attempt
<1>. QED  BY <1>3, <1>4, <1>5, <1>6, <1>7 DEF Attempt, TypeOK, NetOK

LEMMA LogKeepsTypes ==
    ASSUME TypeOK, NEW h \in Hosts, NEW i \in Clients, NEW ok \in BOOLEAN,
           Log(h, i, ok)
    PROVE  TypeOK'
<1>. DEFINE rec == Address("white", i, now + WhiteExp, FALSE)
<1>i. i \in Ips
  BY DEF Clients
<1>1. rec \in Record
  <2>1. now + WhiteExp \in Nat
    BY TimeType, TimesAreNaturals
  <2>. QED  BY <1>i, <2>1, AddressType
<1>2. net' = net \cup Sent(h, rec)
  BY DEF Log
<1>3. NetOK(net', now')
  <2>. HIDE DEF rec
  <2>. QED  BY <1>1, <1>2, SentOK DEF Log, NetOK, TypeOK
<1>4. addr' \in [Hosts -> [Ips -> MaybeEntry]]
  <2>1. GreylogdUpdate(addr[h][i], now) \in MaybeEntry
    BY <1>i, TimeType, GreylogdUpdateType DEF MaybeEntry, TypeOK
  <2>. QED  BY <1>i, <2>1, OneEntry DEF Log, TypeOK
<1>5. ops' \in 0 .. MaxOps /\ faults' \in 0 .. MaxFaults
  BY BoundsOK DEF Log
<1>6. vouched' \subseteq Ips
  BY <1>i, InetAddrType DEF Log, TypeOK
<1>. QED  BY <1>3, <1>4, <1>5, <1>6 DEF Log, TypeOK, NetOK

LEMMA AddKeepsTypes ==
    ASSUME TypeOK, NEW h \in Hosts, NEW i \in Clients, NEW trap \in BOOLEAN,
           Add(h, i, trap)
    PROVE  TypeOK'
<1>. DEFINE e == GreydbUpdate(addr[h][i], now, trap)
            rec == Address(IF trap THEN "trap" ELSE "white", i, e.expire, FALSE)
<1>i. i \in Ips
  BY DEF Clients
<1>e. e \in Entry
  BY <1>i, TimeType, GreydbUpdateType DEF TypeOK
<1>a. addr' = [addr EXCEPT ![h][i] = e]
  BY DEF Add
<1>1. rec \in Record
  <2>1. e.expire \in Nat
    BY <1>e DEF Entry
  <2>. HIDE DEF e
  <2>. QED  BY <1>i, <2>1, AddressType
<1>2. net' = net \cup Sent(h, rec)
  <2>1. addr'[h][i] = e
    BY <1>i, <1>a DEF TypeOK
  <2>. HIDE DEF e
  <2>. QED  BY <2>1 DEF Add
<1>3. NetOK(net', now')
  <2>. HIDE DEF rec
  <2>. QED  BY <1>1, <1>2, SentOK DEF Add, NetOK, TypeOK
<1>4. addr' \in [Hosts -> [Ips -> MaybeEntry]]
  <2>. HIDE DEF e
  <2>. QED  BY <1>i, <1>e, <1>a, OneEntry DEF MaybeEntry
<1>5. ops' \in 0 .. MaxOps
  BY BoundsOK DEF Add
<1>6. vouched' \subseteq Ips
  BY <1>i, InetAddrType DEF Add, TypeOK
<1>. QED  BY <1>3, <1>4, <1>5, <1>6 DEF Add, TypeOK, NetOK

LEMMA DeleteKeepsTypes ==
    ASSUME TypeOK, NEW h \in Hosts, NEW i \in Clients, NEW trap \in BOOLEAN,
           Delete(h, i, trap)
    PROVE  TypeOK'
<1>. DEFINE rec == Address(IF trap THEN "trap" ELSE "white", i, 0, TRUE)
<1>i. i \in Ips
  BY DEF Clients
<1>1. rec \in Record
  BY <1>i, AddressType
<1>2. net' = net \cup Sent(h, rec)
  BY DEF Delete
<1>3. NetOK(net', now')
  <2>. HIDE DEF rec
  <2>. QED  BY <1>1, <1>2, SentOK DEF Delete, NetOK, TypeOK
<1>4. addr' \in [Hosts -> [Ips -> MaybeEntry]]
  BY <1>i, OneEntry DEF Delete, MaybeEntry
<1>5. ops' \in 0 .. MaxOps
  BY BoundsOK DEF Delete
<1>. QED  BY <1>3, <1>4, <1>5 DEF Delete, TypeOK, NetOK

LEMMA ScanKeepsTypes ==
    ASSUME TypeOK, NEW h \in Hosts, Scan(h)
    PROVE  TypeOK'
<1>1. addr' \in [Hosts -> [Ips -> MaybeEntry]]
  <2>1. PICK f \in [Ips -> MaybeEntry] : addr' = [addr EXCEPT ![h] = f]
    <3>. DEFINE Due(i) == {k \in Tuples : /\ k[1] = i
                                          /\ IsDue(grey[h][k], now)
                                          /\ ~Expired(grey[h][k], now)
                                          /\ ~IsTrapped(addr[h][i])}
                F(w) == [i \in Ips |->
                    IF w[i] # None THEN [grey[h][w[i]] EXCEPT !.expire = now + WhiteExp]
                    ELSE IF Expired(addr[h][i], now) THEN None ELSE addr[h][i]]
    <3>1. PICK w \in [Ips -> Tuples \cup {None}] :
             /\ \A i \in Ips : IF Due(i) = {} THEN w[i] = None ELSE w[i] \in Due(i)
             /\ addr' = [addr EXCEPT ![h] = F(w)]
      BY Zenon DEF Scan
    <3>2. ASSUME NEW i \in Ips
          PROVE  F(w)[i] \in MaybeEntry
      <4>1. CASE w[i] # None
        <5>1. w[i] \in Due(i)
          BY <3>1, <4>1
        <5>2. grey[h][w[i]] \in Entry
          BY <5>1 DEF TypeOK, MaybeEntry, IsDue, IsPassing
        <5>3. now + WhiteExp \in Nat
          BY TimeType, TimesAreNaturals
        <5>. QED  BY <4>1, <5>2, <5>3 DEF Entry, MaybeEntry
      <4>2. CASE w[i] = None
        BY <4>2 DEF TypeOK, MaybeEntry
      <4>. QED  BY <4>1, <4>2
    <3>3. F(w) \in [Ips -> MaybeEntry]
      BY <3>2
    <3>. QED  BY <3>1, <3>3
  <2>. QED  BY <2>1 DEF TypeOK
<1>2. grey' \in [Hosts -> [Tuples -> MaybeEntry]]
  BY DEF Scan, TypeOK, MaybeEntry
<1>. QED  BY <1>1, <1>2 DEF Scan, TypeOK

\* A record that is accepted was signed; it changes one entry, or nothing.
LEMMA ReceiveCases ==
    ASSUME TypeOK, NEW d, NEW again \in BOOLEAN, Receive(d, again)
    PROVE  /\ d \in net /\ net' \subseteq net /\ d.to \in Hosts /\ d.rec \in Record
           /\ d.rec.ip \in Ips
           /\ UNCHANGED <<now, attempts, vouched, ops, faults, noise>>
           /\ \/ UNCHANGED <<addr, grey>>
              \/ d.signed /\ Applied(d.to, d.rec)
<1>1. /\ d \in net /\ net' \subseteq net /\ d.to \in Hosts /\ d.rec \in Record
  BY DEF Receive, Forwarded, TypeOK
<1>2. d.rec.ip \in Ips
  BY <1>1 DEF Record
<1>. QED  BY <1>1, <1>2 DEF Receive, Accepted

LEMMA AppliedCases ==
    ASSUME TypeOK, NEW h \in Hosts, NEW rec \in Record, Applied(h, rec)
    PROVE  \/ /\ rec.type = "grey" /\ rec.to \in Rcpts /\ <<rec.ip, rec.to>> \in Tuples
              /\ \E e \in Entry :
                    /\ e = GreyUpdate(grey[h][<<rec.ip, rec.to>>], now, GreyExp, Passing)
                    /\ grey' = [grey EXCEPT ![h][<<rec.ip, rec.to>>] = e]
              /\ UNCHANGED addr
           \/ /\ rec.type = "grey"
              /\ \E e \in Entry :
                    /\ e = GreyUpdate(addr[h][rec.ip], now, TrapExp, Trapped)
                    /\ addr' = [addr EXCEPT ![h][rec.ip] = e]
              /\ UNCHANGED grey
           \/ /\ rec.type \in {"white", "trap"}
              /\ \E e \in MaybeEntry :
                    /\ e = NonGreyUpdate(addr[h][rec.ip], now, rec.type = "trap",
                                         rec.expires, rec.delete)
                    /\ addr' = [addr EXCEPT ![h][rec.ip] = e]
              /\ UNCHANGED grey
<1>1. rec.ip \in Ips
  BY DEF Record
<1>2. CASE rec.type = "grey" /\ rec.to \notin SpamTraps[h]
  <2>. DEFINE k == <<rec.ip, rec.to>>
              e == GreyUpdate(grey[h][k], now, GreyExp, Passing)
  <2>1. rec.to \in Rcpts /\ k \in Tuples
    BY <1>1, <1>2 DEF Record, Tuples
  <2>2. e \in Entry
    BY <2>1, TimeType, TimesAreNaturals, GreyUpdateType DEF TypeOK
  <2>. QED  BY <1>2, <2>1, <2>2 DEF Applied
<1>3. CASE rec.type = "grey" /\ rec.to \in SpamTraps[h]
  <2>. DEFINE e == GreyUpdate(addr[h][rec.ip], now, TrapExp, Trapped)
  <2>1. e \in Entry
    BY <1>1, TimeType, TimesAreNaturals, GreyUpdateType DEF TypeOK
  <2>. QED  BY <1>3, <2>1 DEF Applied
<1>4. CASE rec.type # "grey"
  <2>. DEFINE e == NonGreyUpdate(addr[h][rec.ip], now, rec.type = "trap",
                                 rec.expires, rec.delete)
  <2>1. rec.type \in {"white", "trap"} /\ rec.expires \in Nat /\ rec.delete \in BOOLEAN
    BY <1>4 DEF Record
  <2>2. e \in MaybeEntry
    <3>1. (rec.type = "trap") \in BOOLEAN /\ addr[h][rec.ip] \in MaybeEntry
      BY <1>1 DEF TypeOK
    <3>. QED  BY <2>1, <3>1, TimeType, NonGreyUpdateType
  <2>. QED  BY <1>4, <2>1, <2>2 DEF Applied
<1>. QED  BY <1>2, <1>3, <1>4

LEMMA AppliedKeepsTypes ==
    ASSUME TypeOK, NEW h \in Hosts, NEW rec \in Record, Applied(h, rec)
    PROVE  /\ addr' \in [Hosts -> [Ips -> MaybeEntry]]
           /\ grey' \in [Hosts -> [Tuples -> MaybeEntry]]
<1>. DEFINE k == <<rec.ip, rec.to>>
<1>1. rec.ip \in Ips
  BY DEF Record
<1>2. ASSUME k \in Tuples, UNCHANGED addr,
             NEW e \in Entry, grey' = [grey EXCEPT ![h][k] = e]
      PROVE  /\ addr' \in [Hosts -> [Ips -> MaybeEntry]]
             /\ grey' \in [Hosts -> [Tuples -> MaybeEntry]]
  <2>. HIDE DEF k
  <2>. QED  BY <1>2, OneTuple DEF TypeOK, MaybeEntry
<1>3. ASSUME UNCHANGED grey,
             NEW e \in MaybeEntry, addr' = [addr EXCEPT ![h][rec.ip] = e]
      PROVE  /\ addr' \in [Hosts -> [Ips -> MaybeEntry]]
             /\ grey' \in [Hosts -> [Tuples -> MaybeEntry]]
  BY <1>1, <1>3, OneEntry DEF TypeOK
<1>4. ASSUME UNCHANGED grey,
             NEW e \in Entry, addr' = [addr EXCEPT ![h][rec.ip] = e]
      PROVE  /\ addr' \in [Hosts -> [Ips -> MaybeEntry]]
             /\ grey' \in [Hosts -> [Tuples -> MaybeEntry]]
  BY <1>3, <1>4 DEF MaybeEntry
<1>5. \/ \E e \in Entry : /\ k \in Tuples /\ UNCHANGED addr
                           /\ grey' = [grey EXCEPT ![h][k] = e]
      \/ \E e \in Entry : UNCHANGED grey /\ addr' = [addr EXCEPT ![h][rec.ip] = e]
      \/ \E e \in MaybeEntry : UNCHANGED grey /\ addr' = [addr EXCEPT ![h][rec.ip] = e]
  BY AppliedCases
<1>. HIDE DEF k
<1>. QED  BY <1>2, <1>3, <1>4, <1>5

LEMMA ReceiveKeepsTypes ==
    ASSUME TypeOK, NEW d, NEW again \in BOOLEAN, Receive(d, again)
    PROVE  TypeOK'
<1>1. d.to \in Hosts /\ d.rec \in Record
  BY ReceiveCases
<1>2. /\ addr' \in [Hosts -> [Ips -> MaybeEntry]]
      /\ grey' \in [Hosts -> [Tuples -> MaybeEntry]]
  <2>1. CASE UNCHANGED <<addr, grey>>
    BY <2>1 DEF TypeOK
  <2>2. CASE Applied(d.to, d.rec)
    BY <1>1, <2>2, AppliedKeepsTypes
  <2>. QED  BY <2>1, <2>2, ReceiveCases
<1>. QED  BY <1>2, ReceiveCases DEF TypeOK

LEMMA NoiseKeepsTypes ==
    ASSUME TypeOK, NEW h \in Hosts, NEW i \in Clients, NEW r \in Rcpts,
           Noise(h, i, r)
    PROVE  TypeOK'
<1>1. i \in Ips /\ Grey(i, r) \in Record
  BY GreyType DEF Clients
<1>2. NetOK(net', now')
  BY <1>1, TimeType DEF Noise, NetOK, TypeOK
<1>. QED  BY <1>2, SyncAssumption DEF Noise, NetOK, TypeOK

LEMMA TickKeepsTypes ==
    ASSUME TypeOK, Tick
    PROVE  TypeOK'
<1>1. NetOK(net', now')
  BY TimeType DEF Tick, NetOK, TypeOK
<1>2. now' \in 1 .. MaxTime
  BY TimeType DEF Tick
<1>. QED  BY <1>1, <1>2 DEF Tick, NetOK, TypeOK

\* Whatever records machines exchange, and however they are lost, repeated and
\* delayed, every database holds proper entries, and no datagram is handled
\* later than MaxDelay after it was sent.
THEOREM SyncTypeInvariance == Spec => []TypeOK
<1>1. Init => TypeOK
  <2>. SUFFICES ASSUME Init PROVE TypeOK
    OBVIOUS
  <2>1. now \in 1 .. MaxTime
    BY SyncAssumption DEF Init
  <2>2. /\ addr \in [Hosts -> [Ips -> MaybeEntry]]
        /\ grey \in [Hosts -> [Tuples -> MaybeEntry]]
        /\ attempts \in [Tuples -> SUBSET (1 .. MaxTime)]
    BY DEF Init, MaybeEntry
  <2>3. ops \in 0 .. MaxOps /\ faults \in 0 .. MaxFaults /\ noise \in 0 .. MaxNoise
    BY SyncAssumption DEF Init
  <2>. QED  BY <2>1, <2>2, <2>3 DEF Init, TypeOK
<1>2. TypeOK /\ [Next]_vars => TypeOK'
  <2>. SUFFICES ASSUME TypeOK, [Next]_vars PROVE TypeOK'
    OBVIOUS
  <2>1. CASE Next
    <3>1. ASSUME NEW d \in net, Lose(d)
          PROVE  TypeOK'
      BY <3>1 DEF Lose, TypeOK
    <3>. QED
      BY <2>1, <3>1, TickKeepsTypes, AttemptKeepsTypes, LogKeepsTypes, AddKeepsTypes,
         DeleteKeepsTypes, ScanKeepsTypes, NoiseKeepsTypes, ReceiveKeepsTypes
         DEF Next
  <2>2. CASE UNCHANGED vars
    BY <2>2 DEF vars, TypeOK
  <2>. QED  BY <2>1, <2>2
<1>. QED  BY <1>1, <1>2, PTL DEF Spec

----------------------------------------------------------------------------
(* Two attempts.  What the machines hold goes back to attempts: the entry  *)
(* of a tuple began no earlier than one it may know of, a signed datagram  *)
(* was sent at the time of one, and a white one names a vouched address.   *)

\* The entry of a tuple, as a machine may have it.
TupleEarned(i, r, e) ==
    e # None =>
        /\ \E a \in Known(i, r) : a <= e.first
        /\ e.pass # e.expire => TwoTries(i, r)

TuplesEarned ==
    \A h \in Hosts, i \in Ips, r \in Rcpts : TupleEarned(i, r, grey[h][<<i, r>>])

AddrsEarned ==
    \A h \in Hosts, i \in Ips :
        IsPassing(addr[h][i]) => i \in vouched \/ \E r \in Rcpts : TwoTries(i, r)

RecordBacked(rec, born) ==
    /\ rec.type = "grey" => born \in Known(rec.ip, rec.to)
    /\ rec.type = "white" /\ ~rec.delete => rec.ip \in vouched

NetBacked == \A d \in net : d.signed => RecordBacked(d.rec, d.born)

EarnedInv == TuplesEarned /\ AddrsEarned /\ NetBacked

LEMMA KnownType ==
    ASSUME TypeOK, NEW i \in Ips, NEW r \in Rcpts
    PROVE  Known(i, r) \subseteq Nat
<1>1. ASSUME NEW j \in Ips
      PROVE  attempts[<<j, r>>] \subseteq Nat
  <2>1. <<j, r>> \in Tuples
    BY DEF Tuples
  <2>2. attempts[<<j, r>>] \subseteq 1 .. MaxTime
    BY <2>1 DEF TypeOK
  <2>. QED  BY <2>2, SyncAssumption
<1>. QED  BY <1>1 DEF Known

LEMMA KnownTypeNext ==
    ASSUME TypeOK', NEW i \in Ips, NEW r \in Rcpts
    PROVE  Known(i, r)' \subseteq Nat
<1>1. ASSUME NEW j \in Ips
      PROVE  attempts'[<<j, r>>] \subseteq Nat
  <2>1. <<j, r>> \in Tuples
    BY DEF Tuples
  <2>2. attempts'[<<j, r>>] \subseteq 1 .. MaxTime
    BY <2>1 DEF TypeOK
  <2>. QED  BY <2>2, SyncAssumption
<1>. QED  BY <1>1 DEF Known

LEMMA KnownGrows ==
    ASSUME TypeOK, NEW i \in Ips, NEW r \in Rcpts,
           \A k \in Tuples : attempts[k] \subseteq attempts'[k]
    PROVE  Known(i, r) \subseteq Known(i, r)'
<1>1. ASSUME NEW j \in Ips
      PROVE  attempts[<<j, r>>] \subseteq attempts'[<<j, r>>]
  BY DEF Tuples
<1>. QED  BY <1>1 DEF Known

LEMMA TwoTriesStay ==
    ASSUME TypeOK, NEW i \in Ips, NEW r \in Rcpts,
           \A k \in Tuples : attempts[k] \subseteq attempts'[k],
           TwoTries(i, r)
    PROVE  TwoTries(i, r)'
BY KnownGrows DEF TwoTries

LEMMA TupleEarnedStays ==
    ASSUME TypeOK, NEW i \in Ips, NEW r \in Rcpts, NEW e,
           \A k \in Tuples : attempts[k] \subseteq attempts'[k],
           TupleEarned(i, r, e)
    PROVE  TupleEarned(i, r, e)'
BY KnownGrows, TwoTriesStay DEF TupleEarned

\* An attempt, or a record of one that is MaxDelay old at most: a retry that
\* counts is an attempt of its own, as MaxDelay is no longer than PassTime.
LEMMA UpdateIsEarned ==
    ASSUME TypeOK, TypeOK', NEW i \in Ips, NEW r \in Rcpts, NEW e \in MaybeEntry,
           \A k \in Tuples : attempts[k] \subseteq attempts'[k],
           TupleEarned(i, r, e),
           NEW t \in Nat, NEW b \in Known(i, r)', b <= t, t <= b + MaxDelay,
           NEW u \in Entry, u = GreyUpdate(e, t, GreyExp, Passing)
    PROVE  TupleEarned(i, r, u)'
<1>t. /\ MaxDelay \in Nat /\ PassTime \in Nat /\ MaxDelay <= PassTime
      /\ b \in Nat
  BY KnownTypeNext, SyncAssumption, ConstantsAssumption
<1>1. CASE e = None
  <2>1. u = NewGreyEntry(t, GreyExp, Passing)
    BY <1>1 DEF GreyUpdate
  <2>2. u.first = t /\ u.pass = u.expire
    BY <2>1 DEF NewGreyEntry
  <2>. QED  BY <2>2 DEF TupleEarned
<1>2. CASE e # None
  <2>1. e \in Entry
    BY <1>2 DEF MaybeEntry
  <2>2. /\ u.first = e.first /\ u.expire = e.expire
        /\ u.pass = IF e.first + PassTime < t THEN t ELSE e.pass
    BY <1>2, <2>1 DEF GreyUpdate, SeenGreyEntry, Entry
  <2>3. PICK a \in Known(i, r)' : a <= e.first
    BY <1>2, KnownGrows DEF TupleEarned
  <2>4. a \in Nat /\ e.first \in Nat
    BY <2>1, <2>3, KnownTypeNext DEF Entry
  <2>5. ASSUME u.pass # u.expire
        PROVE  TwoTries(i, r)'
    <3>1. CASE e.first + PassTime < t
      <4>1. a < b /\ a + PassTime < b + MaxDelay
        BY <1>t, <2>3, <2>4, <3>1
      <4>. QED  BY <2>3, <4>1 DEF TwoTries
    <3>2. CASE ~(e.first + PassTime < t)
      <4>1. TwoTries(i, r)
        BY <1>2, <2>2, <2>5, <3>2 DEF TupleEarned
      <4>. QED  BY <4>1, TwoTriesStay
    <3>. QED  BY <3>1, <3>2
  <2>. QED  BY <2>2, <2>3, <2>5 DEF TupleEarned
<1>. QED  BY <1>1, <1>2

\* What grows in every step.
HistoryGrows ==
    /\ \A k \in Tuples : attempts[k] \subseteq attempts'[k]
    /\ vouched \subseteq vouched'

LEMMA TupleStays ==
    ASSUME TypeOK, HistoryGrows, TuplesEarned,
           NEW h \in Hosts, NEW i \in Ips, NEW r \in Rcpts,
           grey'[h][<<i, r>>] \in {grey[h][<<i, r>>], None}
    PROVE  TupleEarned(i, r, grey[h][<<i, r>>])'
<1>1. PICK e : e = grey'[h][<<i, r>>]
  OBVIOUS
<1>2. TupleEarned(i, r, e)
  BY <1>1 DEF TuplesEarned, TupleEarned
<1>3. TupleEarned(i, r, e)'
  BY <1>2, TupleEarnedStays DEF HistoryGrows
<1>. QED  BY <1>1, <1>3 DEF TupleEarned

LEMMA AddrStays ==
    ASSUME TypeOK, HistoryGrows, AddrsEarned, NEW h \in Hosts, NEW i \in Ips,
           \/ addr'[h][i] = addr[h][i]
           \/ ~IsPassing(addr'[h][i])
           \/ i \in vouched'
    PROVE  (IsPassing(addr[h][i]) => i \in vouched \/ \E r \in Rcpts : TwoTries(i, r))'
<1>. SUFFICES ASSUME IsPassing(addr'[h][i]), i \notin vouched'
              PROVE  \E r \in Rcpts : TwoTries(i, r)'
  BY DEF IsPassing
<1>1. PICK r \in Rcpts : TwoTries(i, r)
  BY DEF HistoryGrows, AddrsEarned
<1>. QED  BY <1>1, TwoTriesStay DEF HistoryGrows

LEMMA TuplesStay ==
    ASSUME TypeOK, HistoryGrows, TuplesEarned, UNCHANGED grey
    PROVE  TuplesEarned'
BY TupleStays DEF TuplesEarned

LEMMA OneAddr ==
    ASSUME TypeOK, NEW h \in Hosts, NEW i \in Ips, NEW e,
           addr' = addr \/ addr' = [addr EXCEPT ![h][i] = e],
           NEW g \in Hosts, NEW j \in Ips
    PROVE  addr'[g][j] = addr[g][j] \/ (j = i /\ addr'[g][j] = e)
BY DEF TypeOK

LEMMA AddrsStay ==
    ASSUME TypeOK, HistoryGrows, AddrsEarned, NEW h \in Hosts, NEW i \in Ips, NEW e,
           addr' = addr \/ addr' = [addr EXCEPT ![h][i] = e],
           ~IsPassing(e) \/ i \in vouched'
    PROVE  AddrsEarned'
<1>. SUFFICES ASSUME NEW g \in Hosts, NEW j \in Ips
              PROVE  (IsPassing(addr[g][j])
                        => j \in vouched \/ \E s \in Rcpts : TwoTries(j, s))'
  BY DEF AddrsEarned
<1>1. addr'[g][j] = addr[g][j] \/ (j = i /\ addr'[g][j] = e)
  BY OneAddr
<1>. QED  BY <1>1, AddrStays

LEMMA RecordStays ==
    ASSUME TypeOK, HistoryGrows, NEW rec \in Record, NEW born, RecordBacked(rec, born)
    PROVE  RecordBacked(rec, born)'
<1>1. rec.type = "grey" => rec.ip \in Ips /\ rec.to \in Rcpts
  BY DEF Record
<1>. QED  BY <1>1, KnownGrows DEF RecordBacked, HistoryGrows

LEMMA NetStays ==
    ASSUME TypeOK, HistoryGrows, NetBacked, net' \subseteq net
    PROVE  NetBacked'
<1>. SUFFICES ASSUME NEW d \in net', d.signed
              PROVE  RecordBacked(d.rec, d.born)'
  BY DEF NetBacked
<1>1. d.rec \in Record /\ RecordBacked(d.rec, d.born)
  BY DEF NetBacked, TypeOK
<1>. QED  BY <1>1, RecordStays

LEMMA SentIsBacked ==
    ASSUME TypeOK, HistoryGrows, NetBacked, NEW h \in Hosts, NEW rec \in Record,
           NEW t, t = now, RecordBacked(rec, t)', net' = net \cup Sent(h, rec)
    PROVE  NetBacked'
<1>. SUFFICES ASSUME NEW d \in net', d.signed
              PROVE  RecordBacked(d.rec, d.born)'
  BY DEF NetBacked
<1>1. CASE d \in net
  <2>1. d.rec \in Record /\ RecordBacked(d.rec, d.born)
    BY <1>1 DEF NetBacked, TypeOK
  <2>. QED  BY <2>1, RecordStays
<1>2. CASE d \in Sent(h, rec)
  <2>1. d.rec = rec /\ d.born = t
    BY <1>2 DEF Sent
  <2>. QED  BY <2>1
<1>. QED  BY <1>1, <1>2

\* A client's own attempt is one that a machine knows of under its address.
LEMMA OwnIsKnown ==
    ASSUME NEW i \in Ips, NEW r \in Rcpts, NEW t, t \in attempts'[<<i, r>>]
    PROVE  t \in Known(i, r)' /\ t \in Known(InetAddr(i), r)'
BY DEF Known

LEMMA AttemptIsEarned ==
    ASSUME TypeOK, TypeOK', EarnedInv, NEW h \in Hosts, NEW i \in Clients,
           NEW r \in Rcpts, NEW ok \in BOOLEAN, Attempt(h, i, r, ok)
    PROVE  EarnedInv'
<1>. DEFINE k == <<i, r>>
            trap == r \in SpamTraps[h]
<1>i. i \in Ips /\ k \in Tuples
  BY DEF Clients, Tuples
<1>t. PICK t \in Nat : t = now /\ t <= t /\ t <= t + MaxDelay
  BY TimeType
<1>g. HistoryGrows
  BY <1>i DEF HistoryGrows, Attempt, TypeOK
<1>a. t \in attempts'[k]
  BY <1>i, <1>t DEF Attempt, TypeOK
<1>b. t \in Known(i, r)' /\ t \in Known(InetAddr(i), r)'
  BY <1>i, <1>a, OwnIsKnown
<1>1. TuplesEarned'
  <2>. SUFFICES ASSUME NEW g \in Hosts, NEW j \in Ips, NEW s \in Rcpts
                PROVE  TupleEarned(j, s, grey[g][<<j, s>>])'
    BY DEF TuplesEarned
  <2>1. CASE grey'[g][<<j, s>>] = grey[g][<<j, s>>]
    BY <1>g, <2>1, TupleStays DEF EarnedInv
  <2>2. CASE grey'[g][<<j, s>>] # grey[g][<<j, s>>]
    <3>1. /\ g = h /\ <<j, s>> = k
          /\ grey' = [grey EXCEPT ![h][k] = GreyUpdate(@, now, GreyExp, Passing)]
      <4>1. <<j, s>> \in Tuples
        BY DEF Tuples
      <4>. HIDE DEF k
      <4>2. \/ grey' = grey
            \/ grey' = [grey EXCEPT ![h][k] = GreyUpdate(@, now, GreyExp, Passing)]
        BY DEF Attempt, k
      <4>. QED  BY <1>i, <2>2, <4>1, <4>2 DEF TypeOK
    <3>2. j = i /\ s = r
      BY <3>1
    <3>3. PICK e \in MaybeEntry : e = grey[h][k]
      BY <1>i DEF TypeOK
    <3>4. TupleEarned(i, r, e)
      BY <1>i, <3>3 DEF EarnedInv, TuplesEarned
    <3>5. PICK u \in Entry : u = GreyUpdate(e, t, GreyExp, Passing)
      BY TimesAreNaturals, GreyUpdateType
    <3>6. TupleEarned(i, r, u)'
      BY <1>i, <1>t, <1>g, <1>b, <3>4, <3>5, UpdateIsEarned DEF HistoryGrows
    <3>7. grey'[h][k] = u
      <4>. HIDE DEF k
      <4>. QED  BY <1>i, <1>t, <3>1, <3>3, <3>5 DEF TypeOK
    <3>. QED  BY <3>1, <3>2, <3>6, <3>7 DEF TupleEarned
  <2>. QED  BY <2>1, <2>2
<1>2. AddrsEarned'
  <2>1. PICK e \in MaybeEntry : e = addr[h][i]
    BY <1>i DEF TypeOK
  <2>2. PICK u : u = GreyUpdate(e, t, TrapExp, Trapped)
    OBVIOUS
  <2>3. ~IsPassing(u)
    BY <2>2, GreyTrapIsNotPassing, TimesAreNaturals
  <2>4. addr' = addr \/ addr' = [addr EXCEPT ![h][i] = u]
    BY <1>t, <2>1, <2>2 DEF Attempt
  <2>. QED  BY <1>i, <1>g, <2>3, <2>4, AddrsStay DEF EarnedInv
<1>3. NetBacked'
  <2>1. PICK rec \in Record : /\ rec = IF trap THEN Address("trap", i, t + TrapExp, FALSE)
                                        ELSE Grey(i, r)
    <3>1. t + TrapExp \in Nat
      BY TimesAreNaturals
    <3>. QED  BY <1>i, <3>1, GreyType, AddressType
  <2>2. RecordBacked(rec, t)'
    BY <1>b, <2>1 DEF RecordBacked, Address, Grey
  <2>3. net' = net \cup Sent(h, rec)
    BY <1>t, <2>1 DEF Attempt
  <2>. QED  BY <1>t, <1>g, <2>2, <2>3, SentIsBacked DEF EarnedInv
<1>. QED  BY <1>1, <1>2, <1>3 DEF EarnedInv

LEMMA LogIsEarned ==
    ASSUME TypeOK, EarnedInv, NEW h \in Hosts, NEW i \in Clients, NEW ok \in BOOLEAN,
           Log(h, i, ok)
    PROVE  EarnedInv'
<1>i. i \in Ips
  BY DEF Clients
<1>t. PICK t \in Nat : t = now
  BY TimeType
<1>g. HistoryGrows
  BY DEF HistoryGrows, Log
<1>1. TuplesEarned'
  BY <1>g, TuplesStay DEF EarnedInv, Log
<1>2. AddrsEarned'
  <2>1. PICK e : e = GreylogdUpdate(addr[h][i], now)
    OBVIOUS
  <2>2. addr' = addr \/ addr' = [addr EXCEPT ![h][i] = e]
    BY <2>1 DEF Log
  <2>3. i \in vouched'
    BY DEF Log
  <2>. QED  BY <1>i, <1>g, <2>2, <2>3, AddrsStay DEF EarnedInv
<1>3. NetBacked'
  <2>1. PICK rec \in Record : rec = Address("white", i, t + WhiteExp, FALSE)
    <3>1. t + WhiteExp \in Nat
      BY TimesAreNaturals
    <3>. QED  BY <1>i, <3>1, AddressType
  <2>2. RecordBacked(rec, t)'
    BY <2>1 DEF RecordBacked, Address, Log
  <2>3. net' = net \cup Sent(h, rec)
    BY <1>t, <2>1 DEF Log
  <2>. QED  BY <1>t, <1>g, <2>2, <2>3, SentIsBacked DEF EarnedInv
<1>. QED  BY <1>1, <1>2, <1>3 DEF EarnedInv

LEMMA AddIsEarned ==
    ASSUME TypeOK, EarnedInv, NEW h \in Hosts, NEW i \in Clients, NEW trap \in BOOLEAN,
           Add(h, i, trap)
    PROVE  EarnedInv'
<1>i. i \in Ips
  BY DEF Clients
<1>t. PICK t \in Nat : t = now
  BY TimeType
<1>g. HistoryGrows
  BY DEF HistoryGrows, Add
<1>e. PICK e \in Entry : e = GreydbUpdate(addr[h][i], now, trap)
  BY <1>i, TimeType, GreydbUpdateType DEF TypeOK
<1>a. addr' = [addr EXCEPT ![h][i] = e]
  BY <1>e DEF Add
<1>1. TuplesEarned'
  BY <1>g, TuplesStay DEF EarnedInv, Add
<1>2. AddrsEarned'
  <2>1. CASE trap
    <3>1. e.pcount = Trapped
      BY <1>e, <1>i, <2>1 DEF GreydbUpdate, TypeOK, MaybeEntry, Entry
    <3>2. ~IsPassing(e)
      BY <3>1 DEF IsPassing, Trapped, Passing
    <3>. QED  BY <1>i, <1>g, <1>a, <3>2, AddrsStay DEF EarnedInv
  <2>2. CASE ~trap
    <3>1. i \in vouched'
      BY <2>2 DEF Add
    <3>. QED  BY <1>i, <1>g, <1>a, <3>1, AddrsStay DEF EarnedInv
  <2>. QED  BY <2>1, <2>2
<1>3. NetBacked'
  <2>1. PICK rec \in Record : rec = Address(IF trap THEN "trap" ELSE "white", i,
                                            e.expire, FALSE)
    <3>1. e.expire \in Nat
      BY DEF Entry
    <3>. QED  BY <1>i, <3>1, AddressType
  <2>2. RecordBacked(rec, t)'
    BY <2>1 DEF RecordBacked, Address, Add
  <2>3. net' = net \cup Sent(h, rec)
    <3>1. addr'[h][i] = e
      BY <1>i, <1>a DEF TypeOK
    <3>. QED  BY <2>1, <3>1 DEF Add
  <2>. QED  BY <1>t, <1>g, <2>2, <2>3, SentIsBacked DEF EarnedInv
<1>. QED  BY <1>1, <1>2, <1>3 DEF EarnedInv

LEMMA DeleteIsEarned ==
    ASSUME TypeOK, EarnedInv, NEW h \in Hosts, NEW i \in Clients, NEW trap \in BOOLEAN,
           Delete(h, i, trap)
    PROVE  EarnedInv'
<1>i. i \in Ips
  BY DEF Clients
<1>t. PICK t \in Nat : t = now
  BY TimeType
<1>g. HistoryGrows
  BY DEF HistoryGrows, Delete
<1>1. TuplesEarned'
  BY <1>g, TuplesStay DEF EarnedInv, Delete
<1>2. AddrsEarned'
  <2>1. ~IsPassing(None) /\ addr' = [addr EXCEPT ![h][i] = None]
    BY DEF IsPassing, Delete
  <2>. QED  BY <1>i, <1>g, <2>1, AddrsStay DEF EarnedInv
<1>3. NetBacked'
  <2>1. PICK rec \in Record : rec = Address(IF trap THEN "trap" ELSE "white", i, 0, TRUE)
    BY <1>i, AddressType
  <2>2. RecordBacked(rec, t)'
    BY <2>1 DEF RecordBacked, Address
  <2>3. net' = net \cup Sent(h, rec)
    BY <2>1 DEF Delete
  <2>. QED  BY <1>t, <1>g, <2>2, <2>3, SentIsBacked DEF EarnedInv
<1>. QED  BY <1>1, <1>2, <1>3 DEF EarnedInv

\* A tuple that is due and has not expired has a pass time of its own.
LEMMA ScanIsEarned ==
    ASSUME TypeOK, EarnedInv, NEW h \in Hosts, Scan(h)
    PROVE  EarnedInv'
<1>g. HistoryGrows
  BY DEF HistoryGrows, Scan
<1>1. TuplesEarned'
  <2>. SUFFICES ASSUME NEW g \in Hosts, NEW j \in Ips, NEW s \in Rcpts
                PROVE  TupleEarned(j, s, grey[g][<<j, s>>])'
    BY DEF TuplesEarned
  <2>1. <<j, s>> \in Tuples
    BY DEF Tuples
  <2>2. grey'[g][<<j, s>>] \in {grey[g][<<j, s>>], None}
    BY <2>1 DEF Scan, TypeOK
  <2>. QED  BY <1>g, <2>2, TupleStays DEF EarnedInv
<1>2. AddrsEarned'
  <2>. SUFFICES ASSUME NEW g \in Hosts, NEW j \in Ips
                PROVE  (IsPassing(addr[g][j])
                          => j \in vouched \/ \E s \in Rcpts : TwoTries(j, s))'
    BY DEF AddrsEarned
  <2>. DEFINE Due(i) == {k \in Tuples : /\ k[1] = i
                                        /\ IsDue(grey[h][k], now)
                                        /\ ~Expired(grey[h][k], now)
                                        /\ ~IsTrapped(addr[h][i])}
              F(w) == [i \in Ips |->
                  IF w[i] # None THEN [grey[h][w[i]] EXCEPT !.expire = now + WhiteExp]
                  ELSE IF Expired(addr[h][i], now) THEN None ELSE addr[h][i]]
  <2>1. PICK w \in [Ips -> Tuples \cup {None}] :
           /\ \A i \in Ips : IF Due(i) = {} THEN w[i] = None ELSE w[i] \in Due(i)
           /\ addr' = [addr EXCEPT ![h] = F(w)]
    BY Zenon DEF Scan
  <2>2. CASE g # h \/ w[j] = None
    <3>1. addr'[g][j] = addr[g][j] \/ addr'[g][j] = None
      BY <2>1, <2>2 DEF TypeOK
    <3>2. ~IsPassing(None)
      BY DEF IsPassing
    <3>. QED  BY <1>g, <3>1, <3>2, AddrStays DEF EarnedInv
  <2>3. CASE w[j] # None
    <3>1. w[j] \in Due(j)
      BY <2>1, <2>3
    <3>2. PICK s \in Rcpts : w[j] = <<j, s>>
      BY <3>1 DEF Tuples
    <3>3. PICK e \in Entry : e = grey[h][<<j, s>>]
      BY <3>1, <3>2 DEF TypeOK, MaybeEntry, IsDue, IsPassing
    <3>4. e # None /\ e.pass <= now /\ ~(e.expire <= now)
      BY <3>1, <3>2, <3>3 DEF IsDue, IsPassing, Expired
    <3>5. e.pass # e.expire
      BY <3>4
    <3>6. TwoTries(j, s)
      BY <3>3, <3>4, <3>5 DEF EarnedInv, TuplesEarned, TupleEarned
    <3>7. TwoTries(j, s)'
      BY <1>g, <3>6, TwoTriesStay DEF HistoryGrows
    <3>. QED  BY <3>7
  <2>. QED  BY <2>2, <2>3
<1>3. NetBacked'
  BY <1>g, NetStays DEF Scan, EarnedInv
<1>. QED  BY <1>1, <1>2, <1>3 DEF EarnedInv

LEMMA AppliedIsEarned ==
    ASSUME TypeOK, TypeOK', HistoryGrows, TuplesEarned, AddrsEarned,
           NEW h \in Hosts, NEW rec \in Record, NEW born \in now - MaxDelay .. now,
           RecordBacked(rec, born), Applied(h, rec)
    PROVE  TuplesEarned' /\ AddrsEarned'
<1>. DEFINE i == rec.ip
            r == rec.to
            k == <<i, r>>
<1>i. i \in Ips
  BY DEF Record
<1>t. PICK t \in Nat : t = now /\ born <= t /\ t <= born + MaxDelay
  BY TimeType
<1>1. CASE /\ rec.type = "grey" /\ r \in Rcpts /\ k \in Tuples
           /\ \E e \in Entry : /\ e = GreyUpdate(grey[h][k], now, GreyExp, Passing)
                                /\ grey' = [grey EXCEPT ![h][k] = e]
           /\ UNCHANGED addr
  <2>1. PICK u \in Entry : /\ u = GreyUpdate(grey[h][k], now, GreyExp, Passing)
                           /\ grey' = [grey EXCEPT ![h][k] = u]
    BY <1>1
  <2>2. AddrsEarned'
    BY <1>1, AddrStays DEF AddrsEarned
  <2>3. TuplesEarned'
    <3>. SUFFICES ASSUME NEW g \in Hosts, NEW j \in Ips, NEW s \in Rcpts
                  PROVE  TupleEarned(j, s, grey[g][<<j, s>>])'
      BY DEF TuplesEarned
    <3>1. <<j, s>> \in Tuples
      BY DEF Tuples
    <3>2. CASE grey'[g][<<j, s>>] = grey[g][<<j, s>>]
      BY <3>2, TupleStays
    <3>3. CASE grey'[g][<<j, s>>] # grey[g][<<j, s>>]
      <4>1. g = h /\ <<j, s>> = k
        <5>. HIDE DEF k
        <5>. QED  BY <1>1, <2>1, <3>1, <3>3 DEF TypeOK
      <4>2. j = i /\ s = r
        BY <4>1
      <4>3. PICK e \in MaybeEntry : e = grey[h][k]
        BY <1>1 DEF TypeOK
      <4>4. TupleEarned(j, s, e)
        BY <4>1, <4>3 DEF TuplesEarned
      <4>5. u = GreyUpdate(e, t, GreyExp, Passing)
        BY <1>t, <2>1, <4>3
      <4>6. born \in Known(j, s)'
        BY <1>1, <4>2, KnownGrows DEF RecordBacked, HistoryGrows
      <4>7. TupleEarned(j, s, u)'
        BY <1>t, <4>4, <4>5, <4>6, UpdateIsEarned DEF HistoryGrows
      <4>8. grey'[g][<<j, s>>] = u
        <5>. HIDE DEF k
        <5>. QED  BY <1>1, <2>1, <4>1 DEF TypeOK
      <4>. QED  BY <4>7, <4>8 DEF TupleEarned
    <3>. QED  BY <3>2, <3>3
  <2>. QED  BY <2>2, <2>3
<1>2. CASE /\ \E e \in Entry : /\ e = GreyUpdate(addr[h][i], now, TrapExp, Trapped)
                                /\ addr' = [addr EXCEPT ![h][i] = e]
           /\ UNCHANGED grey
  <2>1. PICK e \in Entry : /\ e = GreyUpdate(addr[h][i], now, TrapExp, Trapped)
                           /\ addr' = [addr EXCEPT ![h][i] = e]
    BY <1>2
  <2>2. ~IsPassing(e)
    BY <1>i, <2>1, TimeType, TimesAreNaturals, GreyTrapIsNotPassing DEF TypeOK
  <2>. HIDE DEF i
  <2>. QED  BY <1>i, <1>2, <2>1, <2>2, AddrsStay, TuplesStay
<1>3. CASE /\ rec.type \in {"white", "trap"}
           /\ \E e \in MaybeEntry : /\ e = NonGreyUpdate(addr[h][i], now, rec.type = "trap",
                                                         rec.expires, rec.delete)
                                     /\ addr' = [addr EXCEPT ![h][i] = e]
           /\ UNCHANGED grey
  <2>1. PICK e \in MaybeEntry : /\ e = NonGreyUpdate(addr[h][i], now, rec.type = "trap",
                                                     rec.expires, rec.delete)
                                /\ addr' = [addr EXCEPT ![h][i] = e]
    BY <1>3
  <2>2. ~IsPassing(e) \/ i \in vouched'
    <3>1. CASE rec.type = "trap" \/ rec.delete
      <4>1. PICK f \in MaybeEntry : f = addr[h][i]
        BY <1>i DEF TypeOK
      <4>2. e = NonGreyUpdate(f, now, rec.type = "trap", rec.expires, rec.delete)
        BY <2>1, <4>1
      <4>3. e = None \/ e.pcount = Trapped
        BY <3>1, <4>2 DEF NonGreyUpdate, MaybeEntry, Entry
      <4>. QED  BY <4>3 DEF IsPassing, Trapped, Passing
    <3>2. CASE rec.type = "white" /\ ~rec.delete
      BY <3>2 DEF RecordBacked, HistoryGrows
    <3>. QED  BY <1>3, <3>1, <3>2
  <2>. HIDE DEF i
  <2>. QED  BY <1>i, <1>3, <2>1, <2>2, AddrsStay, TuplesStay
<1>. QED  BY <1>1, <1>2, <1>3, AppliedCases

LEMMA ReceiveIsEarned ==
    ASSUME TypeOK, TypeOK', EarnedInv, NEW d, NEW again \in BOOLEAN, Receive(d, again)
    PROVE  EarnedInv'
<1>1. /\ d \in net /\ net' \subseteq net /\ d.to \in Hosts /\ d.rec \in Record
      /\ UNCHANGED <<attempts, vouched>>
  BY ReceiveCases
<1>g. HistoryGrows
  BY <1>1 DEF HistoryGrows
<1>2. TuplesEarned' /\ AddrsEarned'
  <2>1. CASE UNCHANGED <<addr, grey>>
    BY <1>g, <2>1, TuplesStay, AddrStays DEF EarnedInv, AddrsEarned
  <2>2. CASE d.signed /\ Applied(d.to, d.rec)
    <3>1. d.born \in now - MaxDelay .. now /\ RecordBacked(d.rec, d.born)
      BY <1>1, <2>2 DEF TypeOK, EarnedInv, NetBacked
    <3>. QED  BY <1>1, <1>g, <2>2, <3>1, AppliedIsEarned DEF EarnedInv
  <2>. QED  BY <2>1, <2>2, ReceiveCases
<1>3. NetBacked'
  BY <1>1, <1>g, NetStays DEF EarnedInv
<1>. QED  BY <1>2, <1>3 DEF EarnedInv

\* Steps that leave the databases alone.
LEMMA OtherIsEarned ==
    ASSUME TypeOK, EarnedInv, UNCHANGED <<addr, grey, attempts, vouched>>,
           \A d \in net' : d \in net \/ ~d.signed
    PROVE  EarnedInv'
<1>g. HistoryGrows
  BY DEF HistoryGrows
<1>1. TuplesEarned' /\ AddrsEarned'
  BY <1>g, TuplesStay, AddrStays DEF EarnedInv, AddrsEarned
<1>2. NetBacked'
  <2>. SUFFICES ASSUME NEW d \in net', d.signed
                PROVE  RecordBacked(d.rec, d.born)'
    BY DEF NetBacked
  <2>1. d.rec \in Record /\ RecordBacked(d.rec, d.born)
    BY DEF EarnedInv, NetBacked, TypeOK
  <2>. QED  BY <1>g, <2>1, RecordStays
<1>. QED  BY <1>1, <1>2 DEF EarnedInv

LEMMA EarnedInvariance == Spec => []EarnedInv
<1>1. Init => EarnedInv
  <2>. SUFFICES ASSUME Init PROVE EarnedInv
    OBVIOUS
  <2>1. TuplesEarned
    BY DEF Init, TuplesEarned, TupleEarned, Tuples
  <2>2. AddrsEarned /\ NetBacked
    BY DEF Init, AddrsEarned, NetBacked, IsPassing
  <2>. QED  BY <2>1, <2>2 DEF EarnedInv
<1>2. TypeOK /\ TypeOK' /\ EarnedInv /\ [Next]_vars => EarnedInv'
  <2>. SUFFICES ASSUME TypeOK, TypeOK', EarnedInv, [Next]_vars PROVE EarnedInv'
    OBVIOUS
  <2>1. CASE Tick
    BY <2>1, OtherIsEarned DEF Tick
  <2>2. ASSUME NEW h \in Hosts, NEW i \in Clients, NEW r \in Rcpts, Noise(h, i, r)
        PROVE  EarnedInv'
    BY <2>2, OtherIsEarned DEF Noise
  <2>3. ASSUME NEW d \in net, Lose(d)
        PROVE  EarnedInv'
    BY <2>3, OtherIsEarned DEF Lose
  <2>4. CASE UNCHANGED vars
    BY <2>4, OtherIsEarned DEF vars
  <2>. QED
    BY <2>1, <2>2, <2>3, <2>4, AttemptIsEarned, LogIsEarned, AddIsEarned,
       DeleteIsEarned, ScanIsEarned, ReceiveIsEarned
       DEF Next
<1>. QED  BY <1>1, <1>2, SyncTypeInvariance, PTL DEF Spec

\* Any number of machines that exchange their updates (sync.c) together still
\* demand two attempts of a client: no copies, delays (up to the pass time),
\* losses or foreign datagrams whitelist an address or make its tuple pass.
THEOREM ClusterIsEarned == Spec => []ClusterEarned
<1>1. EarnedInv => ClusterEarned
  BY DEF EarnedInv, TuplesEarned, TupleEarned, AddrsEarned, ClusterEarned
<1>. QED  BY <1>1, EarnedInvariance, PTL
=============================================================================
