---------------------------- MODULE ListsProofs ----------------------------
(***************************************************************************)
(* The lists of greyd-setup and of the daemon, for every configuration,    *)
(* all feeds and every width of an address: what is sent is what the feeds *)
(* say, the table of the daemon is a map, and a client is found on lists   *)
(* that name it only.                                                      *)
(***************************************************************************)
EXTENDS Lists, IpListsProofs

----------------------------------------------------------------------------
(* Feeds. *)

\* No network is larger than the address space.
LEMMA SizeBound == \A b \in 0 .. W : Size(b) <= Pow2[W]
<1>1. ASSUME NEW b \in 0 .. W PROVE Size(b) <= Pow2[W]
  <2>1. PICK k \in Nat \ {0} : Size(0) = k * Size(b)
    <3>1. 0 \in 0 .. b
      BY WType
    <3>. QED BY <3>1, SizeDivides
  <2>2. Size(b) \in Nat \ {0} /\ Size(0) = Pow2[W]
    BY SizeType
  <2>3. k * Size(b) = (k - 1) * Size(b) + Size(b) /\ (k - 1) * Size(b) \in Nat
    <3>1. k - 1 \in Nat
      OBVIOUS
    <3>. QED BY <2>2, <3>1
  <2>. QED BY <2>1, <2>2, <2>3
<1>. QED BY <1>1

\* The range that is added for an entry has only addresses of the entry, and
\* all of them unless it reaches the last address.
LEMMA EntryMeans ==
    ASSUME NEW e \in Entry, NEW ub \in 0 .. 1
    PROVE  /\ e.first \in Addrs /\ EntryEnd(e, ub) \in Addrs /\ EntryAddrs(e) \in SUBSET Addrs
           /\ \A a \in Addrs : e.first <= a /\ a < EntryEnd(e, ub) => a \in EntryAddrs(e)
           /\ Plain(e) => \A a \in EntryAddrs(e) : e.first <= a /\ a < EntryEnd(e, ub)
<1>. DEFINE P == Pow2[W]
           End == EntryEnd(e, ub)
<1>0. P \in Nat \ {0} /\ Addrs = 0 .. P - 1 /\ Addrs \subseteq Nat /\ W \in Nat \ {0}
  BY AddrsNat, WType DEF Addrs
<1>1. \A x \in Nat : /\ Wrap(x) \in Addrs /\ (x < P => Wrap(x) = x)
                     /\ \A y \in Addrs : x = P + y => Wrap(x) = y
  <2>1. \A x \in Nat : Wrap(x) \in Addrs /\ (x < P => Wrap(x) = x)
    BY <1>0, WrapType
  <2>2. ASSUME NEW y \in Addrs PROVE Wrap(P + y) = y
    <3>. DEFINE one == 1
    <3>1. one \in Nat /\ y \in 0 .. P - 1 /\ P * one + y = P + y
      BY <1>0
    <3>. HIDE DEF one, P
    <3>2. (P * one + y) % P = y
      BY <1>0, <3>1, DivModUnique
    <3>. QED BY <3>1, <3>2 DEF Wrap, P
  <2>. QED BY <2>1, <2>2
<1>2. CASE e \in [first : Addrs, bits : 0 .. W]
  <2>1. "bits" \in DOMAIN e /\ e.first \in Addrs /\ e.bits \in 0 .. W /\ e.first \in Nat
    BY <1>0, <1>2
  <2>2. Size(e.bits) \in Nat \ {0}
    BY <2>1, SizeType
  <2>3. EntryAddrs(e) = {a \in Addrs : e.first <= a /\ a < e.first + Size(e.bits)}
    BY <1>0, <2>1, <2>2 DEF EntryAddrs
  <2>4. End = Wrap(e.first + Shl(W - e.bits, ub))
    BY <2>1 DEF EntryEnd
  <2>. HIDE DEF End, P
  <2>5. P <= e.first + Size(e.bits) => ~Plain(e)
    <3>1. P <= e.first + Size(e.bits) => P - 1 \in EntryAddrs(e)
      BY <1>0, <2>1, <2>2, <2>3
    <3>. QED BY <3>1 DEF Plain, P
  <2>6. CASE e.bits = 0
    <3>1. Size(e.bits) = P
      BY <2>6, SizeType DEF P
    <3>2. ~Plain(e)
      BY <1>0, <2>1, <2>5, <3>1
    <3>3. Shl(W - e.bits, ub) = ub
      BY <1>0, <2>6 DEF Shl
    <3>4. e.first + ub \in Nat /\ e.first + ub <= P /\ End = Wrap(e.first + ub)
      BY <1>0, <2>1, <2>4, <3>3
    <3>5. End \in Addrs
      BY <1>1, <3>4
    <3>6. \A a \in Addrs : e.first <= a /\ a < End => a \in EntryAddrs(e)
      BY <1>0, <2>1, <2>3, <3>1
    <3>. QED BY <2>1, <2>3, <3>2, <3>5, <3>6 DEF End
  <2>7. CASE e.bits # 0
    <3>1. Shl(W - e.bits, ub) = Size(e.bits)
      BY <1>0, <2>1, <2>7 DEF Shl, Size
    <3>2. e.first + Size(e.bits) \in Nat
      BY <2>1, <2>2
    <3>3. End \in Addrs
      BY <1>1, <2>4, <3>1, <3>2
    <3>4. CASE e.first + Size(e.bits) < P
      <4>1. End = e.first + Size(e.bits)
        BY <1>1, <2>4, <3>1, <3>2, <3>4
      <4>. QED BY <2>1, <2>3, <3>3, <4>1 DEF End
    <3>5. CASE P <= e.first + Size(e.bits)
      <4>1. End <= e.first
        <5>1. e.first + Size(e.bits) - P \in Nat /\ e.first + Size(e.bits) - P <= e.first
          BY <1>0, <2>1, <2>2, <3>2, <3>5, SizeBound DEF P
        <5>2. Wrap(e.first + Size(e.bits)) = e.first + Size(e.bits) - P
          <6>. DEFINE y == e.first + Size(e.bits) - P
          <6>1. y \in Addrs /\ e.first + Size(e.bits) = P + y
            BY <1>0, <2>1, <2>2, <5>1
          <6>. HIDE DEF y
          <6>2. Wrap(e.first + Size(e.bits)) = y
            BY <1>1, <3>2, <6>1
          <6>. QED BY <6>2 DEF y
        <5>. QED BY <2>4, <3>1, <5>1, <5>2
      <4>2. \A a \in Addrs : ~(e.first <= a /\ a < End)
        BY <1>0, <2>1, <3>3, <4>1
      <4>. QED BY <2>1, <2>3, <2>5, <3>3, <3>5, <4>2 DEF End
    <3>. QED BY <1>0, <3>2, <3>4, <3>5
  <2>. QED BY <2>6, <2>7
<1>3. CASE e \in [first : Addrs, last : Addrs]
  <2>1. "bits" \notin DOMAIN e /\ e.first \in Nat /\ e.last \in Nat /\ e.first \in Addrs /\ e.last \in Addrs
    BY <1>0, <1>3
  <2>2. EntryAddrs(e) = {a \in Addrs : e.first <= a /\ a <= e.last} /\ End = Wrap(e.last + 1)
    BY <2>1 DEF EntryAddrs, EntryEnd
  <2>3. EntryAddrs(e) \in SUBSET Addrs
    BY <1>0, <2>1, <2>2
  <2>. HIDE DEF End, P
  <2>4. CASE e.last + 1 < P
    <3>1. End = e.last + 1
      BY <1>1, <2>1, <2>2, <2>4
    <3>2. End \in Addrs
      BY <1>1, <2>1, <2>2
    <3>3. \A a \in Addrs : e.first <= a /\ a < End => a \in EntryAddrs(e)
      BY <1>0, <2>1, <2>2, <3>1
    <3>4. \A a \in EntryAddrs(e) : e.first <= a /\ a < End
      BY <1>0, <2>1, <2>2, <3>1
    <3>. QED BY <2>1, <2>3, <3>2, <3>3, <3>4 DEF End
  <2>5. CASE e.last + 1 = P
    <3>1. End = 0
      BY <1>1, <2>1, <2>2, <2>5
    <3>2. P - 1 \in EntryAddrs(e)
      BY <1>0, <2>1, <2>2, <2>5
    <3>3. ~Plain(e)
      BY <3>2 DEF Plain, P
    <3>4. End \in Addrs /\ \A a \in Addrs : ~(a < End)
      BY <1>0, <3>1
    <3>. QED BY <2>1, <2>3, <3>3, <3>4 DEF End
  <2>6. e.last < P
    BY <1>0, <2>1
  <2>. QED BY <1>0, <2>1, <2>4, <2>5, <2>6
<1>. QED BY <1>2, <1>3 DEF Entry

\* The open ranges of a list, at each address, are those of the feeds; none is
\* open at the last address.
Counted(l) ==
    /\ \A a \in Addrs :
          /\ Sums(l.marks, a).bs \in Nat /\ Sums(l.marks, a).ws \in Nat
          /\ Sums(l.marks, a).bs > 0 => a \in l.black
          /\ Sums(l.marks, a).ws > 0 => a \in l.white
          /\ l.plain /\ a \in l.black => Sums(l.marks, a).bs > 0
          /\ l.plain /\ a \in l.white => Sums(l.marks, a).ws > 0
    /\ Sums(l.marks, Pow2[W] - 1).bs = 0

ParseStep(l, e, black, ub) ==
    [name |-> l.name,
     marks |-> Blacklist_add_range(l.marks, e.first, EntryEnd(e, ub), black),
     black |-> IF black THEN l.black \cup EntryAddrs(e) ELSE l.black,
     white |-> IF black THEN l.white ELSE l.white \cup EntryAddrs(e),
     plain |-> l.plain /\ Plain(e)]

ParseLoop(at, list, feed, black, ub) ==
    at = [n \in 0 .. Len(feed) |-> IF n = 0 THEN list
                                   ELSE ParseStep(at[n - 1], feed[n], black, ub)]

LEMMA ParseStepType ==
    ASSUME NEW l \in List, NEW e \in Entry, NEW black \in BOOLEAN, NEW ub \in 0 .. 1
    PROVE  ParseStep(l, e, black, ub) \in List
<1>1. e.first \in Addrs /\ EntryEnd(e, ub) \in Addrs /\ EntryAddrs(e) \in SUBSET Addrs
  BY EntryMeans
<1>2. l.marks \in Seq(Mark) /\ l.name \in Names /\ l.black \subseteq Addrs /\ l.white \subseteq Addrs
  BY DEF List
<1>3. Blacklist_add_range(l.marks, e.first, EntryEnd(e, ub), black) \in Seq(Mark)
  BY <1>1, <1>2, AddRange
<1>4. (l.plain /\ Plain(e)) \in BOOLEAN
  OBVIOUS
<1>5. /\ (IF black THEN l.black \cup EntryAddrs(e) ELSE l.black) \in SUBSET Addrs
      /\ (IF black THEN l.white ELSE l.white \cup EntryAddrs(e)) \in SUBSET Addrs
  BY <1>1, <1>2
<1>. QED BY <1>2, <1>3, <1>4, <1>5, Zenon DEF ParseStep, List

\* An entry is counted where it is.
LEMMA ParseStepCounted ==
    ASSUME NEW l \in List, Counted(l), NEW e \in Entry, NEW black \in BOOLEAN, NEW ub \in 0 .. 1
    PROVE  Counted(ParseStep(l, e, black, ub))
<1>. DEFINE r == ParseStep(l, e, black, ub)
           End == EntryEnd(e, ub)
           In(a) == e.first <= a /\ a < End
<1>1. /\ e.first \in Addrs /\ End \in Addrs /\ EntryAddrs(e) \in SUBSET Addrs
      /\ \A a \in Addrs : In(a) => a \in EntryAddrs(e)
      /\ Plain(e) => \A a \in EntryAddrs(e) : In(a)
  BY EntryMeans
<1>2. l.marks \in Seq(Mark)
  BY DEF List
<1>3. /\ r.black = IF black THEN l.black \cup EntryAddrs(e) ELSE l.black
      /\ r.white = IF black THEN l.white ELSE l.white \cup EntryAddrs(e)
      /\ r.plain <=> l.plain /\ Plain(e)
      /\ r.marks = Blacklist_add_range(l.marks, e.first, End, black)
  BY DEF ParseStep
<1>. HIDE DEF r, End
<1>4. \A a \in Addrs : Counts(Sums(l.marks, a), Sums(r.marks, a), In(a), black)
  <2>. DEFINE m == Blacklist_add_range(l.marks, e.first, End, black)
  <2>1. \A a \in Addrs : Counts(Sums(l.marks, a), Sums(m, a), e.first <= a /\ a < End, black)
    BY <1>1, <1>2, AddRange, Zenon
  <2>2. r.marks = m
    BY <1>3
  <2>. HIDE DEF m
  <2>. QED BY <2>1, <2>2, Zenon
<1>5. \A a \in Addrs : Sums(l.marks, a).bs \in Nat /\ Sums(l.marks, a).ws \in Nat
  BY DEF Counted
<1>. HIDE DEF In
<1>6. ASSUME NEW a \in Addrs
      PROVE  Sums(r.marks, a).bs \in Nat /\ Sums(r.marks, a).ws \in Nat
  BY <1>4, <1>5 DEF Counts
<1>7. ASSUME NEW a \in Addrs
      PROVE  /\ (Sums(r.marks, a).bs > 0) <=> (Sums(l.marks, a).bs > 0 \/ (black /\ In(a)))
             /\ (Sums(r.marks, a).ws > 0) <=> (Sums(l.marks, a).ws > 0 \/ (~black /\ In(a)))
  <2>1. CASE ~In(a)
    BY <1>4, <1>5, <2>1 DEF Counts
  <2>2. CASE In(a) /\ black
    BY <1>4, <1>5, <2>2 DEF Counts
  <2>3. CASE In(a) /\ ~black
    BY <1>4, <1>5, <2>3 DEF Counts
  <2>. QED BY <2>1, <2>2, <2>3
<1>8. ASSUME NEW a \in Addrs
      PROVE  /\ Sums(r.marks, a).bs > 0 => a \in r.black
             /\ Sums(r.marks, a).ws > 0 => a \in r.white
             /\ r.plain /\ a \in r.black => Sums(r.marks, a).bs > 0
             /\ r.plain /\ a \in r.white => Sums(r.marks, a).ws > 0
  <2>1. /\ Sums(l.marks, a).bs > 0 => a \in l.black
        /\ Sums(l.marks, a).ws > 0 => a \in l.white
        /\ l.plain /\ a \in l.black => Sums(l.marks, a).bs > 0
        /\ l.plain /\ a \in l.white => Sums(l.marks, a).ws > 0
    BY DEF Counted
  <2>2. In(a) => a \in EntryAddrs(e)
    BY <1>1
  <2>3. Plain(e) /\ a \in EntryAddrs(e) => In(a)
    BY <1>1
  <2>4. r.plain => l.plain /\ Plain(e)
    BY <1>3
  <2>5. CASE black
    <3>1. r.black = l.black \cup EntryAddrs(e) /\ r.white = l.white
      BY <1>3, <2>5
    <3>. QED BY <1>7, <2>1, <2>2, <2>3, <2>4, <2>5, <3>1
  <2>6. CASE ~black
    <3>1. r.white = l.white \cup EntryAddrs(e) /\ r.black = l.black
      BY <1>3, <2>6
    <3>. QED BY <1>7, <2>1, <2>2, <2>3, <2>4, <2>6, <3>1
  <2>. QED BY <2>5, <2>6
<1>9. Sums(r.marks, Pow2[W] - 1).bs = 0
  <2>1. Pow2[W] - 1 \in Addrs /\ End <= Pow2[W] - 1
    BY <1>1, AddrsNat DEF Addrs
  <2>2. ~In(Pow2[W] - 1)
    BY <1>1, <2>1, AddrsNat DEF In
  <2>3. Sums(l.marks, Pow2[W] - 1).bs = 0
    BY DEF Counted
  <2>. QED BY <1>4, <2>1, <2>2, <2>3 DEF Counts
<1>10. Counted(r)
  BY <1>6, <1>8, <1>9, Zenon DEF Counted
<1>. QED BY <1>10 DEF r

\* Spamd_parser_start
LEMMA ParsedOK ==
    ASSUME NEW list \in List, Counted(list), NEW feed \in Seq(Entry), NEW black \in BOOLEAN,
           NEW ub \in 0 .. 1
    PROVE  LET p == Parsed(list, feed, black, ub)
           IN  p \in List /\ Counted(p) /\ p.name = list.name
<1>. DEFINE N == Len(feed)
           X == List
           F == [n \in Nat |-> [l \in X |-> IF n \in 1 .. N THEN ParseStep(l, feed[n], black, ub) ELSE l]]
<1>0. N \in Nat /\ \A n \in 1 .. N : feed[n] \in Entry
  OBVIOUS
<1>. HIDE DEF N
<1>1. ASSUME NEW l \in X, NEW n \in 1 .. N PROVE ParseStep(l, feed[n], black, ub) \in X
  BY <1>0, ParseStepType
<1>2. F \in [Nat -> [X -> X]]
  <2>1. ASSUME NEW n \in Nat
        PROVE  [l \in X |-> IF n \in 1 .. N THEN ParseStep(l, feed[n], black, ub) ELSE l] \in [X -> X]
    <3>. HIDE DEF X
    <3>. QED BY <1>1
  <2>. HIDE DEF X
  <2>. QED BY <2>1
<1>3. list \in X
  OBVIOUS
<1>. HIDE DEF F, X
<1>4. PICK g \in [0 .. N -> X] : Recursive(g, N, list, F)
  BY <1>0, <1>2, <1>3, Iteration
<1>5. ASSUME NEW n \in 0 .. N, n # 0 PROVE F[n][g[n - 1]] = ParseStep(g[n - 1], feed[n], black, ub)
  <2>1. n - 1 \in 0 .. N /\ n \in Nat /\ n \in 1 .. N
    BY <1>0, <1>5
  <2>2. g[n - 1] \in X
    BY <2>1
  <2>. QED BY <2>1, <2>2 DEF F
<1>6. ParseLoop(g, list, feed, black, ub)
  BY <1>4, <1>5 DEF Recursive, ParseLoop, N
<1>. DEFINE at == CHOOSE at : ParseLoop(at, list, feed, black, ub)
<1>7. ParseLoop(at, list, feed, black, ub)
  BY <1>6
<1>8. Parsed(list, feed, black, ub) = at[N]
  BY DEF Parsed, ParseLoop, ParseStep, N
<1>. HIDE DEF at
<1>. DEFINE T == {n \in 0 .. N : at[n] \in List /\ Counted(at[n]) /\ at[n].name = list.name}
<1>9. 0 \in T
  <2>1. at[0] = list /\ 0 \in 0 .. N
    BY <1>0, <1>7 DEF ParseLoop, N
  <2>. QED BY <2>1
<1>10. ASSUME NEW n \in 1 .. N, n - 1 \in T PROVE n \in T
  <2>. DEFINE l == at[n - 1]
              e == feed[n]
  <2>1. n \in 0 .. N /\ n # 0
    BY <1>0
  <2>2. at[n] = ParseStep(l, e, black, ub)
    BY <1>7, <2>1 DEF ParseLoop, N
  <2>3. l \in List /\ Counted(l) /\ l.name = list.name /\ e \in Entry
    BY <1>0, <1>10
  <2>. HIDE DEF l, e
  <2>4. ParseStep(l, e, black, ub) \in List /\ Counted(ParseStep(l, e, black, ub))
    BY <2>3, ParseStepType, ParseStepCounted
  <2>5. ParseStep(l, e, black, ub).name = l.name
    BY DEF ParseStep
  <2>. QED BY <2>1, <2>2, <2>3, <2>4, <2>5
<1>. HIDE DEF T
<1>11. 0 .. N \subseteq T
  BY <1>0, <1>9, <1>10, UpTo
<1>12. N \in T
  BY <1>0, <1>11
<1>. QED BY <1>8, <1>12 DEF T
----------------------------------------------------------------------------
(* Lists of networks. *)

\* The networks have black addresses only, and where no entry reached the last
\* address they are all that is black and not white.
Means(l, cidrs) ==
    /\ cidrs \in Seq(Cidr)
    /\ \A c \in ToSet(cidrs) : Aligned(c)
    /\ Covered(ToSet(cidrs)) \subseteq l.black
    /\ l.plain => Covered(ToSet(cidrs)) = l.black \ l.white

Apart(cidrs) ==
    \A j, k \in DOMAIN cidrs : j # k => Covered({cidrs[j]}) \cap Covered({cidrs[k]}) = {}

\* Blacklist_collapse of what Spamd_parser_start has made of the feeds.
LEMMA CollapseMeans ==
    ASSUME NEW l \in List, Counted(l), l.marks # <<>>
    PROVE  Means(l, Blacklist_collapse(l.marks)) /\ Apart(Blacklist_collapse(l.marks))
<1>. DEFINE cidrs == Blacklist_collapse(l.marks)
           L == Listed(l.marks)
<1>1. l.marks \in Seq(Mark)
  BY DEF List
<1>2. \A a \in Addrs : Sums(l.marks, a).bs \in Nat /\ Sums(l.marks, a).ws \in Nat
  BY DEF Counted
<1>3. Pow2[W] - 1 \notin L
  BY DEF Counted, Listed
<1>4. Tiles(cidrs, L, Pow2[W])
  BY <1>1, <1>2, <1>3, CollapseTiles
<1>. HIDE DEF cidrs
<1>5. cidrs \in Seq(Cidr) /\ \A i \in DOMAIN cidrs : cidrs[i] \in Cidr /\ Aligned(cidrs[i])
  BY <1>4 DEF Tiles
<1>6. \A i \in DOMAIN cidrs : \A a \in Addrs :
         Matches(cidrs[i], a) <=> cidrs[i].addr <= a /\ a < Past(cidrs[i])
  BY <1>5, AddrsNat, MatchesBlock
<1>7. \A c \in ToSet(cidrs) : Aligned(c)
  BY <1>5 DEF ToSet
<1>8. Covered(ToSet(cidrs)) = L
  <2>1. L \subseteq Addrs
    BY DEF Listed
  <2>2. ASSUME NEW a \in Addrs PROVE a \in L <=> \E c \in ToSet(cidrs) : Matches(c, a)
    <3>1. a \in L <=> \E i \in DOMAIN cidrs : cidrs[i].addr <= a /\ a < Past(cidrs[i])
      BY <1>4, AddrsNat DEF Tiles
    <3>2. a \in L <=> \E i \in DOMAIN cidrs : Matches(cidrs[i], a)
      BY <1>6, <3>1
    <3>. QED BY <3>2 DEF ToSet
  <2>. QED BY <2>1, <2>2 DEF Covered
<1>9. L \subseteq l.black
  BY DEF Counted, Listed
<1>10. ASSUME l.plain PROVE L = l.black \ l.white
  <2>1. l.black \subseteq Addrs
    BY DEF List
  <2>2. ASSUME NEW a \in Addrs PROVE a \in L <=> a \in l.black /\ a \notin l.white
    <3>1. /\ Sums(l.marks, a).bs > 0 <=> a \in l.black
          /\ Sums(l.marks, a).ws > 0 <=> a \in l.white
          /\ Sums(l.marks, a).ws \in Nat
      BY <1>10 DEF Counted
    <3>2. Sums(l.marks, a).ws = 0 <=> ~(Sums(l.marks, a).ws > 0)
      BY <3>1
    <3>. QED BY <3>1, <3>2 DEF Listed
  <2>3. L \subseteq Addrs
    BY DEF Listed
  <2>. QED BY <2>1, <2>2, <2>3
<1>11. Means(l, cidrs)
  BY <1>5, <1>7, <1>8, <1>9, <1>10 DEF Means
<1>12. ASSUME NEW j \in DOMAIN cidrs, NEW k \in DOMAIN cidrs, j < k
       PROVE  Covered({cidrs[j]}) \cap Covered({cidrs[k]}) = {}
  <2>1. SUFFICES ASSUME NEW a \in Addrs, Matches(cidrs[j], a), Matches(cidrs[k], a)
                 PROVE  FALSE
    BY DEF Covered
  <2>2. a < Past(cidrs[j]) /\ cidrs[k].addr <= a
    BY <1>6, <2>1
  <2>3. Past(cidrs[j]) <= cidrs[k].addr
    BY <1>4, <1>12 DEF Tiles
  <2>4. a \in Nat /\ Past(cidrs[j]) \in Nat /\ cidrs[k].addr \in Nat
    BY <1>5, AddrsNat, PastType
  <2>. QED BY <2>2, <2>3, <2>4
<1>13. DOMAIN cidrs \subseteq Nat
  BY <1>5
<1>14. Apart(cidrs)
  <2>1. ASSUME NEW j \in DOMAIN cidrs, NEW k \in DOMAIN cidrs, j # k
        PROVE  Covered({cidrs[j]}) \cap Covered({cidrs[k]}) = {}
    <3>1. j < k \/ k < j
      BY <1>13, <2>1
    <3>. QED BY <1>12, <3>1
  <2>. QED BY <2>1 DEF Apart
<1>. QED BY <1>11, <1>14 DEF cidrs

\* Greyd_send_config: the networks of single addresses.
LEMMA TrapsMean ==
    ASSUME NEW addrs \in Seq(Addrs), NEW l, l.black = ToSet(addrs), l.white = {}
    PROVE  Means(l, [i \in DOMAIN addrs |-> [addr |-> addrs[i], bits |-> W]])
<1>. DEFINE cidrs == [i \in DOMAIN addrs |-> [addr |-> addrs[i], bits |-> W]]
<1>1. /\ DOMAIN cidrs = DOMAIN addrs /\ DOMAIN addrs = 1 .. Len(addrs) /\ Len(addrs) \in Nat
      /\ \A i \in DOMAIN addrs : /\ cidrs[i].addr = addrs[i] /\ cidrs[i].bits = W
                                 /\ cidrs[i] \in Cidr /\ addrs[i] \in Addrs
  BY WType DEF Cidr
<1>2. cidrs \in Seq(Cidr)
  BY <1>1
<1>. HIDE DEF cidrs
<1>3. ASSUME NEW a \in Addrs PROVE Masked(a, W) = a
  <2>1. a \in Nat /\ W \in 0 .. W /\ Size(W) = 1
    BY AddrsNat, SizeType, WType
  <2>2. /\ Masked(a, W) \in Nat /\ Masked(a, W) <= a /\ a < Masked(a, W) + Size(W)
    BY <2>1, MaskedBounds
  <2>. QED BY <2>1, <2>2
<1>4. \A c \in ToSet(cidrs) : Aligned(c)
  BY <1>1, <1>3 DEF Aligned, ToSet
<1>5. Covered(ToSet(cidrs)) = ToSet(addrs)
  <2>1. \A a \in Addrs : \A i \in DOMAIN addrs : Matches(cidrs[i], a) <=> addrs[i] = a
    BY <1>1, <1>3 DEF Matches
  <2>. QED BY <1>1, <2>1 DEF Covered, ToSet
<1>. QED BY <1>2, <1>4, <1>5 DEF Means, cidrs
----------------------------------------------------------------------------
(* The inductive invariant. *)

Conn == [name : Black, cidrs : Seq(Cidr), black : SUBSET Addrs, white : SUBSET Addrs,
         plain : BOOLEAN]

Collapsed == [name : Names, marks : Seq(Cidr), black : SUBSET Addrs, white : SUBSET Addrs,
              plain : BOOLEAN]

CurOK == cur \in List /\ cur.name \in Black /\ Counted(cur)

AllOK(lists) == lists \in Seq(Collapsed) /\ \A i \in DOMAIN lists : Means(lists[i], lists[i].marks)

\* greyd-setup: the ranges of the current list are those of its feeds, and the
\* networks of the lists before it are theirs.
SetupInv ==
    /\ pc \in {"idle", "list", "fetch"}
    /\ next \in 1 .. Len(Setup) + 1
    /\ greyonly \in BOOLEAN
    /\ cur # Nil => CurOK
    /\ pc = "fetch" => next <= Len(Setup) /\ Setup[next] \in Black \cup White /\ CurOK
    /\ AllOK(all)

ConnsInv ==
    /\ conns \in Seq(Conn)
    /\ \A i \in DOMAIN conns : Means(conns[i], conns[i].cidrs) /\ Apart(conns[i].cidrs)

FwInv == fw \subseteq Cidr /\ fwMeant.addrs \subseteq Addrs /\ FwExact

\* The daemon: probing finds each name, and a trie is that of the networks of
\* its list.
TableInv ==
    /\ HashOK(blacklists)
    /\ TableIsMap
    /\ DOMAIN latest \subseteq Names
    /\ \A n \in DOMAIN latest :
          latest[n].trie = TrieOf(latest[n].cidrs) /\ Means(latest[n], latest[n].cidrs)

IInv == SetupInv /\ ConnsInv /\ FwInv /\ TableInv

LEMMA SetupType == Len(Setup) \in Nat /\ DOMAIN Setup = 1 .. Len(Setup)
BY ListsAssumption

\* send_blacklist: what is sent to the daemon.
LEMMA SendConns ==
    ASSUME NEW final \in BOOLEAN, ConnsInv, CurOK, SendBlacklist(final)
    PROVE  ConnsInv'
<1>. DEFINE cidrs == Blacklist_collapse(cur.marks)
           c == [name |-> cur.name, cidrs |-> cidrs, black |-> cur.black, white |-> cur.white,
                 plain |-> cur.plain]
<1>1. conns' = IF cidrs \in {Nil, <<>>} THEN conns ELSE Append(conns, c)
  BY DEF SendBlacklist
<1>2. CASE cidrs \in {Nil, <<>>}
  BY <1>1, <1>2 DEF ConnsInv
<1>3. CASE cidrs \notin {Nil, <<>>}
  <2>1. cur.marks # <<>>
    BY <1>3 DEF Blacklist_collapse
  <2>2. Means(cur, cidrs) /\ Apart(cidrs)
    BY <2>1, CollapseMeans DEF CurOK
  <2>. HIDE DEF cidrs
  <2>3. c \in Conn
    BY <2>2 DEF CurOK, List, Means, Conn
  <2>4. Means(c, c.cidrs) /\ Apart(c.cidrs)
    BY <2>2 DEF Means
  <2>. HIDE DEF c
  <2>5. conns' = Append(conns, c)
    BY <1>1, <1>3
  <2>. DEFINE n == Len(conns)
  <2>6. /\ conns \in Seq(Conn) /\ DOMAIN conns = 1 .. n /\ n \in Nat
        /\ conns' \in Seq(Conn) /\ DOMAIN conns' = 1 .. n + 1
        /\ conns'[n + 1] = c /\ \A i \in 1 .. n : conns'[i] = conns[i]
    BY <2>3, <2>5 DEF ConnsInv
  <2>. HIDE DEF n
  <2>7. ASSUME NEW i \in 1 .. n + 1 PROVE Means(conns'[i], conns'[i].cidrs) /\ Apart(conns'[i].cidrs)
    <3>1. CASE i = n + 1
      BY <2>4, <2>6, <3>1
    <3>2. CASE i \in 1 .. n
      BY <2>6, <3>2 DEF ConnsInv
    <3>. QED BY <2>6, <3>1, <3>2
  <2>8. (ConnsInv)' <=> /\ conns' \in Seq(Conn)
                        /\ \A i \in DOMAIN conns' : Means(conns'[i], conns'[i].cidrs) /\ Apart(conns'[i].cidrs)
    BY DEF ConnsInv, Means, Apart, Conn, Aligned, Covered, Matches, Masked
  <2>. QED BY <2>6, <2>7, <2>8
<1>. QED BY <1>2, <1>3

\* all_cidrs, with the current list.
LEMMA AllCidrsOK ==
    ASSUME AllOK(all), CurOK, greyonly \in BOOLEAN, greyonly \/ cur.marks # <<>>
    PROVE  AllOK(AllCidrs)
<1>1. CASE greyonly
  <2>1. AllCidrs = <<>>
    BY <1>1 DEF AllCidrs
  <2>. QED BY <2>1 DEF AllOK
<1>2. CASE ~greyonly
  <2>. DEFINE cidrs == Blacklist_collapse(cur.marks)
              c == [cur EXCEPT !.marks = cidrs]
              n == Len(all)
  <2>1. AllCidrs = all \o <<c>>
    BY <1>2 DEF AllCidrs
  <2>2. Means(cur, cidrs)
    BY <1>2, CollapseMeans DEF CurOK
  <2>. HIDE DEF cidrs
  <2>3. c \in Collapsed /\ c.black = cur.black /\ c.white = cur.white /\ c.plain = cur.plain
        /\ c.marks = cidrs
    BY <2>2 DEF CurOK, List, Means, Collapsed
  <2>. HIDE DEF c
  <2>4. Means(c, c.marks)
    BY <2>2, <2>3 DEF Means
  <2>5. /\ all \in Seq(Collapsed) /\ DOMAIN all = 1 .. n /\ n \in Nat
        /\ AllCidrs \in Seq(Collapsed) /\ DOMAIN AllCidrs = 1 .. n + 1
        /\ AllCidrs[n + 1] = c /\ \A i \in 1 .. n : AllCidrs[i] = all[i]
    BY <2>1, <2>3 DEF AllOK
  <2>. HIDE DEF n
  <2>6. ASSUME NEW i \in 1 .. n + 1 PROVE Means(AllCidrs[i], AllCidrs[i].marks)
    <3>1. CASE i = n + 1
      BY <2>4, <2>5, <3>1
    <3>2. CASE i \in 1 .. n
      BY <2>5, <3>2 DEF AllOK
    <3>. QED BY <2>5, <3>1, <3>2
  <2>. QED BY <2>5, <2>6 DEF AllOK
<1>. QED BY <1>1, <1>2

\* Mod_fw_replace: the networks of all lists.
LEMMA FwGiven ==
    ASSUME NEW lists, AllOK(lists), FwInv, fw' = FwReplaced(lists), fwMeant' = Meant(lists)
    PROVE  FwInv'
<1>. DEFINE cidrs == UNION {ToSet(lists[i].marks) : i \in DOMAIN lists}
<1>1. \A i \in DOMAIN lists : /\ lists[i].black \subseteq Addrs
                              /\ lists[i].marks \in Seq(Cidr)
                              /\ Means(lists[i], lists[i].marks)
  <2>1. ASSUME NEW i \in DOMAIN lists PROVE lists[i] \in Collapsed
    BY DEF AllOK
  <2>. QED BY <2>1 DEF AllOK, Collapsed
<1>2. cidrs \subseteq Cidr
  BY <1>1 DEF ToSet
<1>3. fw' = IF cidrs = {} /\ FwDriver # "netfilter" THEN fw ELSE cidrs
  BY DEF FwReplaced
<1>4. /\ fwMeant'.addrs = UNION {lists[i].black \ lists[i].white : i \in DOMAIN lists}
      /\ fwMeant'.plain <=> \A i \in DOMAIN lists : lists[i].plain
  BY DEF Meant
<1>5. fw' \subseteq Cidr /\ fwMeant'.addrs \subseteq Addrs
  BY <1>1, <1>2, <1>3, <1>4 DEF FwInv
<1>6. ASSUME FwDriver = "netfilter", fwMeant'.plain PROVE Covered(fw') = fwMeant'.addrs
  <2>1. fw' = cidrs
    BY <1>3, <1>6
  <2>2. \A i \in DOMAIN lists : Covered(ToSet(lists[i].marks)) = lists[i].black \ lists[i].white
    BY <1>1, <1>4, <1>6 DEF Means
  <2>3. Covered(cidrs) = UNION {Covered(ToSet(lists[i].marks)) : i \in DOMAIN lists}
    BY DEF Covered
  <2>. HIDE DEF cidrs
  <2>. QED BY <1>4, <2>1, <2>2, <2>3
<1>7. FwExact' <=> (FwDriver = "netfilter" /\ fwMeant'.plain => Covered(fw') = fwMeant'.addrs)
  BY DEF FwExact, Covered, Matches, Masked
<1>. QED BY <1>5, <1>6, <1>7 DEF FwInv

\* Greyd_process_config
LEMMA InsertStep ==
    ASSUME TableInv, NEW l, l.name \in Names, Means(l, l.cidrs), Insert(l)
    PROVE  TableInv'
<1>. DEFINE v == [trie |-> TrieOf(l.cidrs), cidrs |-> l.cidrs, black |-> l.black,
                  white |-> l.white, plain |-> l.plain]
<1>1. blacklists' = Hash_insert(blacklists, l.name, v) /\ latest' = Set(latest, l.name, v)
  BY DEF Insert
<1>2. v.trie = TrieOf(v.cidrs) /\ Means(v, v.cidrs)
  BY DEF Means
<1>3. l.name \in DOMAIN HashOf
  BY ListsAssumption
<1>. HIDE DEF v
<1>4. /\ HashOK(blacklists')
      /\ Hash_keys(blacklists') = Hash_keys(blacklists) \cup {l.name}
      /\ Hash_get(blacklists', l.name) = v
      /\ \A n \in Hash_keys(blacklists) : n # l.name => Hash_get(blacklists', n) = Hash_get(blacklists, n)
  BY <1>1, <1>3, InsertOK DEF TableInv
<1>5. /\ DOMAIN latest' = DOMAIN latest \cup {l.name}
      /\ latest'[l.name] = v
      /\ \A n \in DOMAIN latest : n # l.name => latest'[n] = latest[n]
  BY <1>1 DEF Set
<1>6. /\ Hash_keys(blacklists) = DOMAIN latest
      /\ \A n \in DOMAIN latest : Hash_get(blacklists, n) = latest[n]
  BY DEF TableInv, TableIsMap
<1>7. /\ Hash_keys(blacklists') = DOMAIN latest'
      /\ \A n \in DOMAIN latest' : Hash_get(blacklists', n) = latest'[n]
  BY <1>4, <1>5, <1>6
<1>8. \A n \in DOMAIN latest' :
         latest'[n].trie = TrieOf(latest'[n].cidrs) /\ Means(latest'[n], latest'[n].cidrs)
  BY <1>2, <1>5 DEF TableInv
<1>9. DOMAIN latest' \subseteq Names
  BY <1>5 DEF TableInv
<1>10. TableIsMap' <=> /\ Hash_keys(blacklists') = DOMAIN latest'
                       /\ \A n \in DOMAIN latest' : Hash_get(blacklists', n) = latest'[n]
  BY DEF TableIsMap
<1>. QED BY <1>4, <1>7, <1>8, <1>9, <1>10 DEF TableInv

LEMMA IInvInit ==
    ASSUME Init
    PROVE  IInv
<1>1. SetupInv
  <2>1. all = <<>> /\ pc = "idle" /\ next = 1 /\ greyonly = TRUE /\ cur = Nil
    BY DEF Init
  <2>2. AllOK(all)
    BY <2>1 DEF AllOK
  <2>3. next \in 1 .. Len(Setup) + 1
    BY <2>1, SetupType
  <2>. QED BY <2>1, <2>2, <2>3 DEF SetupInv
<1>2. ConnsInv
  <2>1. conns = <<>>
    BY DEF Init
  <2>. QED BY <2>1 DEF ConnsInv
<1>3. FwInv
  <2>1. fw = {} /\ fwMeant.addrs = {}
    BY DEF Init
  <2>. QED BY <2>1 DEF FwInv, FwExact, Covered
<1>4. TableInv
  <2>1. blacklists = Hash_create(TableSize) /\ DOMAIN latest = {}
    BY DEF Init
  <2>2. HashOK(blacklists) /\ Hash_keys(blacklists) = {}
    BY <2>1, CreateOK, ListsAssumption
  <2>. QED BY <2>1, <2>2 DEF TableInv, TableIsMap
<1>. QED BY <1>1, <1>2, <1>3, <1>4 DEF IInv

LEMMA SetupSame ==
    ASSUME SetupInv, UNCHANGED setupVars
    PROVE  SetupInv'
<1>1. pc' = pc /\ next' = next /\ greyonly' = greyonly /\ cur' = cur /\ all' = all
  BY DEF setupVars
<1>2. CurOK' <=> CurOK
  BY <1>1 DEF CurOK
<1>. QED BY <1>1, <1>2 DEF SetupInv

LEMMA ConnsSame == ConnsInv /\ UNCHANGED conns => ConnsInv'
BY DEF ConnsInv

LEMMA FwSame == FwInv /\ UNCHANGED <<fw, fwMeant>> => FwInv'
BY DEF FwInv, FwExact

LEMMA TableSame == TableInv /\ UNCHANGED <<blacklists, latest>> => TableInv'
BY DEF TableInv, TableIsMap

LEMMA SetupIdle ==
    ASSUME Idle
    PROVE  SetupInv'
<1>1. pc' = "idle" /\ next' = 1 /\ greyonly' = TRUE /\ cur' = Nil /\ all' = <<>>
  BY DEF Idle
<1>2. AllOK(all')
  BY <1>1 DEF AllOK
<1>3. next' \in 1 .. Len(Setup) + 1
  BY <1>1, SetupType
<1>. QED BY <1>1, <1>2, <1>3 DEF SetupInv

LEMMA NewListOK ==
    ASSUME NEW n \in Black
    PROVE  NewList(n) \in List /\ NewList(n).name = n /\ Counted(NewList(n))
<1>. DEFINE l == NewList(n)
<1>1. l.name = n /\ l.marks = <<>> /\ l.black = {} /\ l.white = {} /\ l.plain = TRUE
  BY DEF NewList
<1>2. l \in List
  BY DEF NewList, List, Names
<1>. HIDE DEF l
<1>3. \A a \in Addrs : Sums(l.marks, a).bs = 0 /\ Sums(l.marks, a).ws = 0
  BY <1>1, SumsEmpty, AddrsNat
<1>4. Pow2[W] - 1 \in Addrs
  BY AddrsNat DEF Addrs
<1>5. Counted(l)
  BY <1>1, <1>3, <1>4 DEF Counted
<1>. QED BY <1>1, <1>2, <1>5 DEF l

LEMMA NextListStep ==
    ASSUME IInv, NextList
    PROVE  IInv'
<1>. DEFINE n == Setup[next]
<1>1. SetupInv /\ ConnsInv /\ FwInv /\ TableInv
  BY DEF IInv
<1>2. UNCHANGED <<blacklists, latest>> /\ pc = "list" /\ next <= Len(Setup)
  BY DEF NextList
<1>3. TableInv'
  BY <1>1, <1>2, TableSame
<1>4. next \in 1 .. Len(Setup) /\ next + 1 \in 1 .. Len(Setup) + 1
  BY <1>1, <1>2, SetupType DEF SetupInv
<1>5. ASSUME n \in Black, cur' = NewList(n), pc' = "fetch", next' = next, greyonly' = greyonly,
             AllOK(all')
      PROVE  SetupInv'
  <2>1. cur' \in List /\ cur'.name \in Black /\ Counted(cur')
    BY <1>5, NewListOK
  <2>2. CurOK'
    BY <2>1 DEF CurOK
  <2>3. next' \in 1 .. Len(Setup) + 1 /\ next' <= Len(Setup) /\ Setup[next'] \in Black \cup White
    BY <1>4, <1>5, SetupType
  <2>. QED BY <1>1, <1>5, <2>2, <2>3 DEF SetupInv
<1>6. CASE /\ n \in Black /\ cur = Nil
           /\ cur' = NewList(n) /\ pc' = "fetch"
           /\ UNCHANGED <<next, greyonly, all, conns, fw, fwMeant>>
  <2>1. AllOK(all')
    BY <1>1, <1>6 DEF SetupInv
  <2>2. SetupInv'
    BY <1>5, <1>6, <2>1
  <2>. QED BY <1>1, <1>3, <1>6, <2>2, ConnsSame, FwSame DEF IInv
<1>7. CASE /\ n \in Black /\ cur # Nil
           /\ SendBlacklist(FALSE)
           /\ all' = AllCidrs
           /\ cur' = NewList(n) /\ pc' = "fetch"
           /\ UNCHANGED <<next, greyonly>>
  <2>1. CurOK /\ AllOK(all) /\ greyonly \in BOOLEAN
    BY <1>1, <1>7 DEF SetupInv
  <2>2. greyonly \/ cur.marks # <<>>
    BY <1>7 DEF SendBlacklist
  <2>3. AllOK(AllCidrs)
    BY <2>1, <2>2, AllCidrsOK
  <2>4. SetupInv'
    BY <1>5, <1>7, <2>3
  <2>5. ConnsInv'
    BY <1>1, <1>7, <2>1, SendConns
  <2>6. UNCHANGED <<fw, fwMeant>>
    BY <1>7 DEF SendBlacklist
  <2>. QED BY <1>1, <1>3, <2>4, <2>5, <2>6, FwSame DEF IInv
<1>8. CASE n \in Black /\ cur # Nil /\ SendFails(FALSE) /\ Idle
  <2>1. UNCHANGED <<fw, fwMeant>> /\ UNCHANGED conns
    BY <1>8 DEF SendFails
  <2>. QED BY <1>1, <1>3, <1>8, <2>1, SetupIdle, ConnsSame, FwSame DEF IInv
<1>9. CASE /\ n \in White /\ cur # Nil
           /\ pc' = "fetch"
           /\ UNCHANGED <<next, greyonly, cur, all, conns, fw, fwMeant>>
  <2>1. CurOK'
    BY <1>1, <1>9 DEF SetupInv, CurOK
  <2>2. next' \in 1 .. Len(Setup) + 1 /\ next' <= Len(Setup) /\ Setup[next'] \in Black \cup White
    BY <1>4, <1>9, SetupType
  <2>3. SetupInv'
    BY <1>1, <1>9, <2>1, <2>2 DEF SetupInv
  <2>. QED BY <1>1, <1>3, <1>9, <2>3, ConnsSame, FwSame DEF IInv
<1>10. CASE /\ n \notin Black /\ (n \in White => cur = Nil)
            /\ next' = next + 1
            /\ UNCHANGED <<pc, greyonly, cur, all, conns, fw, fwMeant>>
  <2>1. CurOK' <=> CurOK
    BY <1>10 DEF CurOK
  <2>2. pc' # "fetch"
    BY <1>2, <1>10
  <2>3. SetupInv'
    BY <1>1, <1>4, <1>10, <2>1, <2>2 DEF SetupInv
  <2>. QED BY <1>1, <1>3, <1>10, <2>3, ConnsSame, FwSame DEF IInv
<1>. QED BY <1>6, <1>7, <1>8, <1>9, <1>10 DEF NextList

LEMMA FetchStep ==
    ASSUME IInv, pc = "fetch",
           NEW feed \in UNION {Prefixes(f) : f \in Feeds[Setup[next]] \cup {<<>>}},
           NEW ub \in 0 .. 1, Fetch(feed, ub)
    PROVE  IInv'
<1>. DEFINE black == Setup[next] \in Black
<1>1. SetupInv /\ ConnsInv /\ FwInv /\ TableInv
  BY DEF IInv
<1>2. next <= Len(Setup) /\ Setup[next] \in Black \cup White /\ CurOK /\ next \in 1 .. Len(Setup) + 1
  BY <1>1 DEF SetupInv
<1>3. feed \in Seq(Entry)
  <2>1. PICK f \in Feeds[Setup[next]] \cup {<<>>} : feed \in Prefixes(f)
    OBVIOUS
  <2>2. f \in Seq(Entry)
    <3>1. Feeds[Setup[next]] \subseteq Seq(Entry)
      BY <1>2, ListsAssumption
    <3>2. <<>> \in Seq(Entry)
      OBVIOUS
    <3>. QED BY <3>1, <3>2
  <2>3. PICK m \in 0 .. Len(f) : feed = SubSeq(f, 1, m)
    BY <2>1 DEF Prefixes
  <2>. QED BY <2>2, <2>3
<1>4. /\ cur' = Parsed(cur, feed, black, ub)
      /\ next' = next + 1 /\ pc' = "list"
      /\ UNCHANGED <<greyonly, all, conns, blacklists, fw, latest, fwMeant>>
  BY DEF Fetch
<1>5. black \in BOOLEAN
  OBVIOUS
<1>. HIDE DEF black
<1>6. cur' \in List /\ Counted(cur') /\ cur'.name \in Black
  BY <1>2, <1>3, <1>4, <1>5, ParsedOK DEF CurOK
<1>7. CurOK'
  BY <1>6 DEF CurOK
<1>8. next' \in 1 .. Len(Setup) + 1
  BY <1>2, <1>4, SetupType
<1>9. SetupInv'
  BY <1>1, <1>4, <1>7, <1>8 DEF SetupInv
<1>. QED BY <1>1, <1>4, <1>9, ConnsSame, FwSame, TableSame DEF IInv

LEMMA FinishStep ==
    ASSUME IInv, Finish
    PROVE  IInv'
<1>1. SetupInv /\ ConnsInv /\ FwInv /\ TableInv
  BY DEF IInv
<1>2. Idle /\ UNCHANGED <<blacklists, latest>>
  BY DEF Finish
<1>3. SetupInv' /\ TableInv'
  BY <1>1, <1>2, SetupIdle, TableSame
<1>4. AllOK(all) /\ greyonly \in BOOLEAN
  BY <1>1 DEF SetupInv
<1>5. CASE cur = Nil /\ UNCHANGED <<conns, fw, fwMeant>>
  BY <1>1, <1>3, <1>5, ConnsSame, FwSame DEF IInv
<1>6. CASE cur # Nil /\ SendBlacklist(TRUE)
  <2>1. CurOK
    BY <1>1, <1>6 DEF SetupInv
  <2>2. greyonly \/ cur.marks # <<>>
    BY <1>6 DEF SendBlacklist
  <2>3. AllOK(AllCidrs)
    BY <1>4, <2>1, <2>2, AllCidrsOK
  <2>4. ConnsInv'
    BY <1>1, <1>6, <2>1, SendConns
  <2>5. FwInv'
    <3>1. CASE ~greyonly
      <4>1. fw' = FwReplaced(AllCidrs) /\ fwMeant' = Meant(AllCidrs)
        BY <1>6, <3>1 DEF SendBlacklist
      <4>. QED BY <1>1, <2>3, <4>1, FwGiven
    <3>2. CASE greyonly
      <4>1. UNCHANGED <<fw, fwMeant>>
        BY <1>6, <3>2 DEF SendBlacklist
      <4>. QED BY <1>1, <4>1, FwSame
    <3>. QED BY <3>1, <3>2
  <2>. QED BY <1>3, <2>4, <2>5 DEF IInv
<1>7. CASE cur # Nil /\ SendFails(TRUE)
  <2>1. CurOK
    BY <1>1, <1>7 DEF SetupInv
  <2>2. ConnsInv'
    BY <1>1, <1>7, ConnsSame DEF SendFails
  <2>3. FwInv'
    <3>1. CASE UNCHANGED <<fw, fwMeant>>
      BY <1>1, <3>1, FwSame
    <3>2. CASE ~greyonly /\ cur.marks # <<>> /\ fw' = FwReplaced(AllCidrs) /\ fwMeant' = Meant(AllCidrs)
      <4>1. AllOK(AllCidrs)
        BY <1>4, <2>1, <3>2, AllCidrsOK
      <4>. QED BY <1>1, <3>2, <4>1, FwGiven
    <3>. QED BY <1>7, <3>1, <3>2 DEF SendFails
  <2>. QED BY <1>3, <2>2, <2>3 DEF IInv
<1>. QED BY <1>5, <1>6, <1>7 DEF Finish

LEMMA ConfigReadStep ==
    ASSUME IInv, ConfigRead
    PROVE  IInv'
<1>1. SetupInv /\ ConnsInv /\ FwInv /\ TableInv
  BY DEF IInv
<1>2. conns # <<>> /\ conns' = Tail(conns) /\ UNCHANGED <<setupVars, fw, fwMeant>>
  BY DEF ConfigRead
<1>3. SetupInv' /\ FwInv'
  BY <1>1, <1>2, SetupSame, FwSame
<1>4. conns \in Seq(Conn) /\ Len(conns) \in Nat \ {0} /\ DOMAIN conns = 1 .. Len(conns)
  BY <1>1, <1>2 DEF ConnsInv
<1>5. /\ conns' \in Seq(Conn) /\ DOMAIN conns' = 1 .. Len(conns) - 1
      /\ \A i \in DOMAIN conns' : conns'[i] = conns[i + 1] /\ i + 1 \in DOMAIN conns
  BY <1>2, <1>4
<1>6. ConnsInv'
  BY <1>1, <1>5 DEF ConnsInv
<1>7. TableInv'
  <2>1. CASE UNCHANGED <<blacklists, latest>>
    BY <1>1, <2>1, TableSame
  <2>2. CASE Insert(Head(conns))
    <3>. DEFINE l == Head(conns)
    <3>1. l = conns[1] /\ 1 \in DOMAIN conns
      BY <1>4
    <3>2. l \in Conn /\ Means(l, l.cidrs)
      BY <1>1, <1>4, <3>1 DEF ConnsInv
    <3>3. l.name \in Names
      BY <3>2 DEF Conn, Names
    <3>. HIDE DEF l
    <3>4. Insert(l)
      BY <2>2 DEF l
    <3>. QED BY <1>1, <3>2, <3>3, <3>4, InsertStep
  <2>. QED BY <2>1, <2>2 DEF ConfigRead
<1>. QED BY <1>3, <1>6, <1>7 DEF IInv

LEMMA TrapReadStep ==
    ASSUME IInv, NEW addrs \in TrapLists, TrapRead(addrs)
    PROVE  IInv'
<1>. DEFINE l == [name |-> Traps, black |-> ToSet(addrs), white |-> {}, plain |-> TRUE,
                  cidrs |-> [i \in DOMAIN addrs |-> [addr |-> addrs[i], bits |-> W]]]
<1>1. SetupInv /\ ConnsInv /\ FwInv /\ TableInv
  BY DEF IInv
<1>2. Insert(l) /\ UNCHANGED <<setupVars, conns, fw, fwMeant>>
  BY DEF TrapRead
<1>3. addrs \in Seq(Addrs)
  BY ListsAssumption
<1>4. /\ l.name \in Names /\ l.black = ToSet(addrs) /\ l.white = {}
      /\ l.cidrs = [i \in DOMAIN addrs |-> [addr |-> addrs[i], bits |-> W]]
  BY DEF Names
<1>. HIDE DEF l
<1>5. Means(l, l.cidrs)
  BY <1>3, <1>4, TrapsMean
<1>6. TableInv'
  BY <1>1, <1>2, <1>4, <1>5, InsertStep
<1>. QED BY <1>1, <1>2, <1>6, SetupSame, ConnsSame, FwSame DEF IInv

LEMMA RestartStep ==
    ASSUME IInv, Restart
    PROVE  IInv'
<1>1. SetupInv /\ ConnsInv /\ FwInv /\ TableInv
  BY DEF IInv
<1>2. /\ blacklists' = Hash_create(TableSize) /\ DOMAIN latest' = {} /\ conns' = <<>>
      /\ UNCHANGED <<setupVars, fw, fwMeant>>
  BY DEF Restart
<1>3. ConnsInv'
  BY <1>2 DEF ConnsInv
<1>4. HashOK(blacklists') /\ Hash_keys(blacklists') = {}
  BY <1>2, CreateOK, ListsAssumption
<1>5. TableInv'
  BY <1>2, <1>4 DEF TableInv, TableIsMap
<1>. QED BY <1>1, <1>2, <1>3, <1>5, SetupSame, FwSame DEF IInv

LEMMA SetupStartStep ==
    ASSUME IInv, NEW b \in BOOLEAN, SetupStart(b)
    PROVE  IInv'
<1>1. SetupInv /\ ConnsInv /\ FwInv /\ TableInv
  BY DEF IInv
<1>2. /\ pc' = "list" /\ greyonly' = ~b
      /\ UNCHANGED <<next, cur, all, conns, blacklists, fw, latest, fwMeant>>
  BY DEF SetupStart
<1>3. CurOK' <=> CurOK
  BY <1>2 DEF CurOK
<1>4. greyonly' \in BOOLEAN
  BY <1>2
<1>5. SetupInv'
  BY <1>1, <1>2, <1>3, <1>4 DEF SetupInv
<1>. QED BY <1>1, <1>2, <1>5, ConnsSame, FwSame, TableSame DEF IInv

LEMMA IInvNext ==
    ASSUME IInv, [Next]_vars
    PROVE  IInv'
<1>1. CASE \E b \in BOOLEAN : SetupStart(b)
  BY <1>1, SetupStartStep
<1>2. CASE NextList
  BY <1>2, NextListStep
<1>3. CASE /\ pc = "fetch"
           /\ \E feed \in UNION {Prefixes(f) : f \in Feeds[Setup[next]] \cup {<<>>}} :
                 \E ub \in 0 .. 1 : Fetch(feed, ub)
  BY <1>3, FetchStep
<1>4. CASE Finish
  BY <1>4, FinishStep
<1>5. CASE ConfigRead
  BY <1>5, ConfigReadStep
<1>6. CASE \E addrs \in TrapLists : TrapRead(addrs)
  BY <1>6, TrapReadStep
<1>7. CASE Restart
  BY <1>7, RestartStep
<1>8. CASE UNCHANGED vars
  <2>1. UNCHANGED setupVars /\ UNCHANGED conns /\ UNCHANGED <<fw, fwMeant>>
        /\ UNCHANGED <<blacklists, latest>>
    BY <1>8 DEF vars
  <2>. QED BY <2>1, SetupSame, ConnsSame, FwSame, TableSame DEF IInv
<1>. QED BY <1>1, <1>2, <1>3, <1>4, <1>5, <1>6, <1>7, <1>8 DEF Next

LEMMA IInvAlways == Spec => []IInv
<1>1. Init => IInv
  BY IInvInit
<1>2. IInv /\ [Next]_vars => IInv'
  BY IInvNext
<1>. QED BY <1>1, <1>2, PTL DEF Spec

----------------------------------------------------------------------------
(* Theorems. *)

\* greyd-setup and the daemon keep to their types, and Hash_insert counts the
\* entries of the table and never lets it be over-full, for every table size.
THEOREM ListsTypes == Spec => []TypeOK
<1>1. IInv => TypeOK
  <2>. SUFFICES ASSUME IInv PROVE TypeOK
    OBVIOUS
  <2>1. SetupInv /\ ConnsInv /\ FwInv /\ TableInv
    BY DEF IInv
  <2>2. cur \in List \cup {Nil}
    BY <2>1 DEF SetupInv, CurOK
  <2>3. \A i \in DOMAIN all : all[i].marks \in Seq(Cidr)
    <3>1. ASSUME NEW i \in DOMAIN all PROVE all[i] \in Collapsed
      BY <2>1 DEF SetupInv, AllOK
    <3>. QED BY <3>1 DEF Collapsed
  <2>4. \A i \in DOMAIN conns : conns[i].name \in Black /\ conns[i].cidrs \in Seq(Cidr)
    <3>1. ASSUME NEW i \in DOMAIN conns PROVE conns[i] \in Conn
      BY <2>1 DEF ConnsInv
    <3>. QED BY <3>1 DEF Conn
  <2>5. blacklists.num = Cardinality(Hash_keys(blacklists)) /\ blacklists.num <= blacklists.size
    BY <2>1, NumBounded DEF TableInv, HashOK
  <2>. QED BY <2>1, <2>2, <2>3, <2>4, <2>5 DEF SetupInv, FwInv, TypeOK
<1>. QED BY <1>1, IInvAlways, PTL

\* Blacklist_collapse and IP_range_to_cidr_list: what greyd-setup sends does
\* not overlap and is what the feeds say, however many ranges they have.
THEOREM SentIsExact == Spec => []CollapseExact
<1>1. IInv => CollapseExact
  <2>. SUFFICES ASSUME IInv PROVE CollapseExact
    OBVIOUS
  <2>1. \A i \in DOMAIN conns : Means(conns[i], conns[i].cidrs) /\ Apart(conns[i].cidrs)
    BY DEF IInv, ConnsInv
  <2>. QED BY <2>1 DEF CollapseExact, Means, Apart
<1>. QED BY <1>1, IInvAlways, PTL

\* Mod_fw_replace: with netfilter the firewall has all lists of one run.
THEOREM FirewallIsExact == Spec => []FwExact
<1>1. IInv => FwExact
  BY DEF IInv, FwInv
<1>. QED BY <1>1, IInvAlways, PTL

\* hash.c: for every hash function and every table size, each name has the
\* list that was read last.
THEOREM TableMaps == Spec => []TableIsMap
<1>1. IInv => TableIsMap
  BY DEF IInv, TableInv
<1>. QED BY <1>1, IInvAlways, PTL

\* trie.c: a client is on a list only if the list names it.
THEOREM ListedOnly == Spec => []OnlyListed
<1>1. IInv => OnlyListed
  <2>. SUFFICES ASSUME IInv, NEW a \in Addrs, NEW n \in ListsOf(a)
                PROVE  a \in latest[n].black /\ (latest[n].plain => a \notin latest[n].white)
    BY DEF OnlyListed
  <2>. DEFINE l == latest[n]
  <2>1. TableInv
    BY DEF IInv
  <2>2. n \in DOMAIN latest /\ Hash_get(blacklists, n) = l
    BY <2>1 DEF ListsOf, TableInv, TableIsMap
  <2>3. l.trie = TrieOf(l.cidrs) /\ Means(l, l.cidrs)
    BY <2>1, <2>2 DEF TableInv
  <2>4. Trie_contains(l.trie, a)
    BY <2>2 DEF ListsOf, Blacklist_match
  <2>. HIDE DEF l
  <2>5. l.cidrs \in Seq(Cidr) /\ Keys(ToSet(l.cidrs), W)
    <3>1. ToSet(l.cidrs) \subseteq Cidr
      BY <2>3 DEF Means, ToSet
    <3>. QED BY <2>3, <3>1, WType DEF Means, Keys, Cidr
  <2>6. \E k \in ToSet(l.cidrs) : Matches(k, a)
    BY <2>3, <2>4, <2>5, TrieOfOK, WType
  <2>7. a \in Covered(ToSet(l.cidrs))
    BY <2>6 DEF Covered
  <2>. QED BY <2>3, <2>7 DEF Means, l
<1>. QED BY <1>1, IInvAlways, PTL

\* trie.c: a list of networks of one length names each of its addresses.
THEOREM SameLengthIsFound == Spec => []SameLengthFound
<1>1. IInv => SameLengthFound
  <2>. SUFFICES ASSUME IInv, NEW n \in Hash_keys(blacklists), latest[n].plain,
                       Cardinality({latest[n].cidrs[i].bits : i \in DOMAIN latest[n].cidrs}) = 1,
                       NEW a \in latest[n].black \ latest[n].white
                PROVE  n \in ListsOf(a)
    BY DEF SameLengthFound
  <2>. DEFINE l == latest[n]
              S == {l.cidrs[i].bits : i \in DOMAIN l.cidrs}
  <2>1. TableInv
    BY DEF IInv
  <2>2. n \in DOMAIN latest /\ Hash_get(blacklists, n) = l
    BY <2>1 DEF TableInv, TableIsMap
  <2>3. l.trie = TrieOf(l.cidrs) /\ Means(l, l.cidrs)
    BY <2>1, <2>2 DEF TableInv
  <2>4. n \in ListsOf(a) <=> Trie_contains(l.trie, a)
    BY <2>2 DEF ListsOf, Blacklist_match
  <2>5. l.plain /\ a \in l.black \ l.white /\ Cardinality(S) = 1
    OBVIOUS
  <2>. HIDE DEF l
  <2>6. l.cidrs \in Seq(Cidr) /\ ToSet(l.cidrs) \subseteq Cidr /\ S = {k.bits : k \in ToSet(l.cidrs)}
    BY <2>3 DEF Means, ToSet
  <2>7. IsFiniteSet(S)
    <3>1. S \in SUBSET (0 .. W)
      BY <2>6 DEF Cidr
    <3>2. IsFiniteSet(0 .. W)
      BY WType, FS_Interval
    <3>. HIDE DEF S
    <3>. QED BY <3>1, <3>2, FS_Subset
  <2>8. PICK B : S = {B}
    <3>. HIDE DEF S
    <3>. QED BY <2>5, <2>7, FS_Singleton
  <2>9. B \in 0 .. W /\ \A k \in ToSet(l.cidrs) : k.bits = B
    <3>1. S \subseteq 0 .. W
      BY <2>6 DEF Cidr
    <3>2. B \in S /\ \A k \in ToSet(l.cidrs) : k.bits \in S
      BY <2>6, <2>8
    <3>. HIDE DEF S
    <3>. QED BY <2>8, <3>1, <3>2
  <2>10. Keys(ToSet(l.cidrs), B)
    BY <2>3, <2>6, <2>9, WType DEF Means, Keys
  <2>11. a \in Covered(ToSet(l.cidrs))
    BY <2>3, <2>5 DEF Means
  <2>12. a \in Addrs /\ \E k \in ToSet(l.cidrs) : Matches(k, a)
    BY <2>11 DEF Covered
  <2>13. Trie_contains(TrieOf(l.cidrs), a)
    BY <2>6, <2>9, <2>10, <2>12, TrieOfOK
  <2>. QED BY <2>3, <2>4, <2>13
<1>. QED BY <1>1, IInvAlways, PTL
============================================================================
