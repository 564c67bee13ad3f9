------------------------------ MODULE IpLists ------------------------------
(***************************************************************************)
(* The algorithms on lists of addresses: ranges that are cut into networks *)
(* (ip.c), the merging of black and white ranges (blacklist.c), the trie   *)
(* that the networks are looked up in (trie.c) and the hash table that the *)
(* lists are kept in (hash.c).                                             *)
(*                                                                         *)
(* An address has W bits (32 in the code), and arithmetic on addresses     *)
(* wraps around.  Lists are of IPv4 addresses only.                        *)
(***************************************************************************)
EXTENDS Integers, Sequences, FiniteSets, SequencesExt, FiniteSetsExt

CONSTANTS
    W,         \* bits of an address
    HashOf,    \* HashOf[name]: Hash_lookup
    Nil        \* NULL

\* 1 << n.  (Loops are recursive functions here, which can be reasoned about.)
Pow2[n \in 0 .. W] == IF n = 0 THEN 1 ELSE 2 * Pow2[n - 1]

Addrs == 0 .. Pow2[W] - 1

Wrap(x) == x % Pow2[W]

\* The number of addresses of a network.
Size(bits) == Pow2[W - bits]

\* addr & imask(bits)
Masked(a, bits) == (a \div Size(bits)) * Size(bits)

Cidr == [addr : Addrs, bits : 0 .. W]

ASSUME IpListsAssumption ==
    /\ W \in Nat \ {0}
    /\ Nil \notin Cidr
    /\ \A n \in DOMAIN HashOf : HashOf[n] \in Nat

\* IP_match_addr
Matches(c, a) == c.addr = Masked(a, c.bits)

----------------------------------------------------------------------------
(* ip.c *)

max_diff(a, b) ==
    LET differ == {n \in 0 .. W - 1 : Masked(a, n) # Masked(Wrap(b + 1), n)}
    IN  IF differ = {} THEN W ELSE Min(differ)

max_block(a) == Min({n \in 0 .. W : Masked(a, n) = a})

\* Mutant: the alignment of the start is not looked at.
BlockBitsUnaligned(start, end) == max_diff(start, end)

\* The prefix length of the largest network that starts at `start' and is
\* inside of the range.
BlockBits(start, end) == Max({max_block(start), max_diff(start, end)})

\* The networks of a range are added to a list, the largest that begins at
\* `start' first: at most one for each address.
IP_range_to_cidr_list(cidrs, start, end) ==
    LET at[n \in 0 .. Pow2[W]] ==
            IF n = 0 THEN [start |-> start, cidrs |-> cidrs]
            ELSE LET c == at[n - 1]
                     bits == BlockBits(c.start, end)
                 IN  IF end < c.start THEN c
                     ELSE [start |-> Wrap(c.start + Size(bits)),
                           cidrs |-> Append(c.cidrs, [addr |-> c.start, bits |-> bits])]
    IN  at[Pow2[W]].cidrs

----------------------------------------------------------------------------
(* blacklist.c: a range is two marks, its start and the address after its  *)
(* end.                                                                    *)

Mark == [addr : Addrs, black : {-1, 0, 1}, white : {-1, 0, 1}]

Blacklist_add_range(marks, start, end, black) ==
    IF start > end THEN marks
    ELSE LET b == IF black THEN 1 ELSE 0
         IN  marks \o <<[addr |-> start, black |-> b, white |-> 1 - b],
                        [addr |-> end, black |-> 0 - b, white |-> b - 1]>>

\* Mutant: a white region that begins inside of a black one is not seen.
CollapseStateDeaf(state, bs, ws) ==
    IF state /\ bs = 0 THEN FALSE ELSE IF ~state /\ bs > 0 THEN ws = 0 ELSE state

\* In a black region, with bs black and ws white ranges open?
CollapseState(state, bs, ws) ==
    IF ws > 0 THEN FALSE
    ELSE IF state /\ bs = 0 THEN FALSE ELSE IF ~state /\ bs > 0 THEN TRUE ELSE state

\* bs and ws once the entries up to an address are counted, in the order that
\* qsort puts them in.
Sums(marks, a) ==
    LET sum[n \in 0 .. Len(marks)] ==
            IF n = 0 THEN [bs |-> 0, ws |-> 0]
            ELSE LET s == sum[n - 1]
                 IN  IF marks[n].addr > a THEN s
                     ELSE [bs |-> s.bs + marks[n].black, ws |-> s.ws + marks[n].white]
    IN  sum[Len(marks)]

\* NULL for a list without marks.  An address that has none changes nothing.
\* (The loop over equal addresses reads the entry after the last one too.  The
\* array was cleared, so that it adds nothing; only when all marks are at 0 does
\* the loop leave the array.)
Blacklist_collapse(marks) ==
    LET at[n \in 0 .. Pow2[W]] ==
            IF n = 0 THEN [state |-> FALSE, bstart |-> 0, cidrs |-> <<>>]
            ELSE LET c == at[n - 1]
                     a == n - 1
                     sums == Sums(marks, a)
                     state == CollapseState(c.state, sums.bs, sums.ws)
                 IN  [state |-> state,
                      bstart |-> IF ~c.state /\ state THEN a ELSE c.bstart,
                      cidrs |-> IF c.state /\ ~state
                                THEN IP_range_to_cidr_list(c.cidrs, c.bstart, Wrap(a - 1))
                                ELSE c.cidrs]
    IN  IF marks = <<>> THEN Nil ELSE at[Pow2[W]].cidrs

----------------------------------------------------------------------------
(* trie.c, with the keys and the comparison of blacklist.c.  A key is the  *)
(* family (one bit that is the same for all), the address and the mask.    *)
(* The nodes are kept in the order they are allocated in, and `kids' are   *)
(* pointers to them: 0 is NULL, 1 the root.                                *)

Bit(key, n) ==
    IF n = 0 THEN 0
    ELSE IF n <= W THEN (key.addr \div Size(n)) % 2
    ELSE IF n - W <= key.bits THEN 1 ELSE 0

Leaf(key) == [branch |-> 0, kids |-> [v \in 0 .. 1 |-> 0], key |-> key]

\* The root branches on the first bit, and has no key.
Trie_create == <<Leaf(Nil)>>

\* The node that the loop of Trie_insert and Trie_contains ends at: it has no
\* kid on the side of the key.
Descend(trie, key) ==
    LET from[i \in DOMAIN trie] ==
            LET kid == trie[i].kids[Bit(key, trie[i].branch)]
            IN  IF kid = 0 THEN i ELSE from[kid]
    IN  from[1]

\* Mutant: the keys are put on the wrong sides.
SplitSwapped(trie, t, key) ==
    LET bit == Min({n \in 0 .. 2 * W : Bit(trie[t].key, n) # Bit(key, n)})
        sides == [v \in 0 .. 1 |-> Len(trie) + (IF v = Bit(key, bit) THEN 2 ELSE 1)]
    IN  [trie EXCEPT ![t] = [branch |-> bit, kids |-> sides, key |-> Nil]]
        \o <<Leaf(key), Leaf(trie[t].key)>>

\* A leaf gets two kids, by the first bit that its key and the new one differ in.
Split(trie, t, key) ==
    LET bit == Min({n \in 0 .. 2 * W : Bit(trie[t].key, n) # Bit(key, n)})
        sides == [v \in 0 .. 1 |-> Len(trie) + (IF v = Bit(key, bit) THEN 1 ELSE 2)]
    IN  [trie EXCEPT ![t] = [branch |-> bit, kids |-> sides, key |-> Nil]]
        \o <<Leaf(key), Leaf(trie[t].key)>>

Trie_insert(trie, key) ==
    LET t == Descend(trie, key)
    IN  IF trie[t].key = Nil
        THEN Append([trie EXCEPT ![t].kids[Bit(key, trie[t].branch)] = Len(trie) + 1],
                    Leaf(key))
        ELSE IF Matches(trie[t].key, key.addr) THEN trie ELSE Split(trie, t, key)

\* Mutant: a leaf that is reached is taken for a match.
LeafMatchesAny(key, a) == TRUE

LeafMatches(key, a) == Matches(key, a)

Trie_contains(trie, a) ==
    LET key == trie[Descend(trie, [addr |-> a, bits |-> 0])].key
    IN  key # Nil /\ LeafMatches(key, a)

\* Blacklist_add, for each network of a list
TrieOf(cidrs) ==
    LET trie[n \in 0 .. Len(cidrs)] ==
            IF n = 0 THEN Trie_create ELSE Trie_insert(trie[n - 1], cidrs[n])
    IN  trie[Len(cidrs)]

Blacklist_match(list, a) == Trie_contains(list.trie, a)

----------------------------------------------------------------------------
(* hash.c: open addressing with linear probing; a table that is full is    *)
(* doubled before the next insertion, even one that overwrites.            *)

\* `entries' is defined where an entry has a value.
Hash_create(size) == [size |-> size, num |-> 0, entries |-> [i \in {} |-> Nil]]

Hash_find_entry(h, k) ==
    LET probe(n) == (HashOf[k] + n) % h.size
        stops == {n \in 0 .. h.size - 1 :
                     probe(n) \in DOMAIN h.entries => h.entries[probe(n)].k = k}
    IN  probe(IF stops = {} THEN h.size - 1 ELSE Min(stops))

Set(entries, i, e) == [j \in DOMAIN entries \cup {i} |-> IF j = i THEN e ELSE entries[j]]

\* Mutant: an entry that is overwritten is counted again.
PutCounted(h, e) ==
    [h EXCEPT !.entries = Set(@, Hash_find_entry(h, e.k), e), !.num = @ + 1]

Put(h, e) ==
    LET i == Hash_find_entry(h, e.k)
    IN  [size |-> h.size, num |-> IF i \in DOMAIN h.entries THEN h.num ELSE h.num + 1,
         entries |-> Set(h.entries, i, e)]

\* Mutant: the old entries are copied to where they were.
HashResizeCopy(h) == [h EXCEPT !.size = 2 * @]

Hash_resize(h) ==
    LET moved[n \in 0 .. h.size] ==
            IF n = 0 THEN Hash_create(2 * h.size)
            ELSE LET m == moved[n - 1]
                 IN  IF n - 1 \in DOMAIN h.entries THEN Put(m, h.entries[n - 1]) ELSE m
    IN  moved[h.size]

Hash_insert(h, k, v) ==
    Put(IF h.num >= h.size THEN Hash_resize(h) ELSE h, [k |-> k, v |-> v])

Hash_get(h, k) ==
    LET i == Hash_find_entry(h, k)
    IN  IF i \in DOMAIN h.entries THEN h.entries[i].v ELSE Nil

Hash_keys(h) == {h.entries[i].k : i \in DOMAIN h.entries}
============================================================================
