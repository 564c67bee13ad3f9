--------------------------- MODULE IpListsProofs ---------------------------
(***************************************************************************)
(* What the algorithms on lists of addresses compute, for every width of   *)
(* an address and all inputs: the networks of a range (ip.c), the merging  *)
(* of black and white ranges (blacklist.c), the trie (trie.c) and the hash *)
(* table (hash.c).                                                         *)
(***************************************************************************)
EXTENDS IpLists, FiniteSetTheorems, WellFoundedInduction, TLAPS

----------------------------------------------------------------------------
(* Induction and recursion.  The induction theorems of the library have a  *)
(* predicate as a parameter; these have sets and functions only.           *)

\* A set of numbers that has 0 and the successors of its elements is Nat.
LEMMA SetInduction ==
    ASSUME NEW T \in SUBSET Nat, 0 \in T, \A n \in T : n + 1 \in T
    PROVE  T = Nat
<1>. DEFINE R == OpToRel(<, Nat)
<1>1. SUFFICES ASSUME Nat \ T # {} PROVE FALSE
  OBVIOUS
<1>2. IsWellFoundedOn(R, Nat)
  BY NatLessThanWellFounded
<1>3. PICK x \in Nat \ T : \A y \in Nat \ T : ~(<<y, x>> \in R)
  <2>1. Nat \ T \subseteq Nat
    OBVIOUS
  <2>. QED BY <1>1, <1>2, <2>1, WFMin
<1>4. \A y \in Nat \ T : ~(y < x)
  BY <1>3 DEF OpToRel
<1>5. x # 0 /\ x - 1 \in Nat
  OBVIOUS
<1>6. x - 1 \in T
  BY <1>4, <1>5
<1>. QED BY <1>5, <1>6

\* The same up to a bound.
LEMMA UpTo ==
    ASSUME NEW N \in Nat, NEW T, 0 \in T, \A n \in 1 .. N : n - 1 \in T => n \in T
    PROVE  0 .. N \subseteq T
<1>. DEFINE S == {n \in Nat : n <= N => n \in T}
<1>1. 0 \in S
  OBVIOUS
<1>2. ASSUME NEW n \in S PROVE n + 1 \in S
  <2>1. CASE n + 1 <= N
    <3>1. n \in T /\ n + 1 \in 1 .. N /\ (n + 1) - 1 = n
      BY <2>1
    <3>. QED BY <3>1
  <2>. QED BY <2>1
<1>3. S \in SUBSET Nat
  OBVIOUS
<1>. HIDE DEF S
<1>4. S = Nat
  BY <1>1, <1>2, <1>3, SetInduction
<1>. QED BY <1>4 DEF S

\* The same from a bound down.
LEMMA DownFrom ==
    ASSUME NEW N \in Nat, NEW T,
           \A i \in 1 .. N : (\A j \in i + 1 .. N : j \in T) => i \in T
    PROVE  1 .. N \subseteq T
<1>. DEFINE S == {n \in 0 .. N : \A j \in N - n + 1 .. N : j \in T}
<1>1. 0 \in S
  OBVIOUS
<1>2. ASSUME NEW n \in 1 .. N, n - 1 \in S PROVE n \in S
  <2>1. \A j \in N - n + 2 .. N : j \in T
    BY <1>2
  <2>2. N - n + 1 \in 1 .. N /\ (N - n + 1) + 1 = N - n + 2
    OBVIOUS
  <2>3. N - n + 1 \in T
    BY <2>1, <2>2
  <2>4. ASSUME NEW j \in N - n + 1 .. N PROVE j \in T
    BY <2>1, <2>3
  <2>. QED BY <2>4
<1>. HIDE DEF S
<1>3. 0 .. N \subseteq S
  BY <1>1, <1>2, UpTo
<1>4. N \in S
  BY <1>3
<1>. QED BY <1>4 DEF S

Recursive(g, N, x0, F) == g = [n \in 0 .. N |-> IF n = 0 THEN x0 ELSE F[n][g[n - 1]]]

\* A function that is defined by recursion up to a bound exists.
LEMMA Iteration ==
    ASSUME NEW N \in Nat, NEW X, NEW x0 \in X, NEW F \in [Nat -> [X -> X]]
    PROVE  \E g \in [0 .. N -> X] : Recursive(g, N, x0, F)
<1>. DEFINE Def(g, m) == \A n \in 0 .. m : g[n] = IF n = 0 THEN x0 ELSE F[n][g[n - 1]]
<1>. DEFINE T == {m \in 0 .. N : \E g \in [0 .. m -> X] : Def(g, m)}
<1>1. 0 \in T
  <2>. DEFINE g == [n \in 0 .. 0 |-> x0]
  <2>1. g \in [0 .. 0 -> X] /\ Def(g, 0)
    OBVIOUS
  <2>. HIDE DEF g
  <2>. QED BY <2>1
<1>2. ASSUME NEW m \in 1 .. N, m - 1 \in T PROVE m \in T
  <2>1. PICK g \in [0 .. m - 1 -> X] : Def(g, m - 1)
    BY <1>2
  <2>. DEFINE h == [n \in 0 .. m |-> IF n = m THEN F[m][g[m - 1]] ELSE g[n]]
  <2>2. F[m][g[m - 1]] \in X
    <3>1. m \in Nat /\ m - 1 \in 0 .. m - 1
      OBVIOUS
    <3>2. g[m - 1] \in X /\ F[m] \in [X -> X]
      BY <3>1
    <3>. QED BY <3>2
  <2>3. h \in [0 .. m -> X]
    BY <2>2
  <2>4. ASSUME NEW n \in 0 .. m
        PROVE  h[n] = IF n = 0 THEN x0 ELSE F[n][h[n - 1]]
    <3>1. CASE n = m
      BY <3>1
    <3>2. CASE n \in 0 .. m - 1
      <4>1. g[n] = IF n = 0 THEN x0 ELSE F[n][g[n - 1]]
        BY <2>1, <3>2
      <4>2. h[n] = g[n] /\ (n # 0 => h[n - 1] = g[n - 1])
        BY <3>2
      <4>. QED BY <4>1, <4>2
    <3>. QED BY <3>1, <3>2
  <2>. HIDE DEF h
  <2>5. Def(h, m)
    BY <2>4
  <2>. HIDE DEF Def
  <2>6. \E k \in [0 .. m -> X] : Def(k, m)
    BY <2>3, <2>5
  <2>. QED BY <2>6
<1>. HIDE DEF T
<1>3. 0 .. N \subseteq T
  BY <1>1, <1>2, UpTo
<1>4. N \in T
  BY <1>3
<1>5. PICK g \in [0 .. N -> X] : Def(g, N)
  BY <1>4 DEF T
<1>6. g = [n \in 0 .. N |-> g[n]]
  OBVIOUS
<1>7. Recursive(g, N, x0, F)
  BY <1>5, <1>6 DEF Recursive
<1>. QED BY <1>7

----------------------------------------------------------------------------
(* Powers of two. *)

LEMMA WType == W \in Nat \ {0}
BY IpListsAssumption

LEMMA Pow2Def == Pow2 = [n \in 0 .. W |-> IF n = 0 THEN 1 ELSE 2 * Pow2[n - 1]]
<1>. DEFINE F == [n \in Nat |-> [x \in Nat |-> 2 * x]]
<1>1. F \in [Nat -> [Nat -> Nat]]
  OBVIOUS
<1>. HIDE DEF F
<1>2. PICK g \in [0 .. W -> Nat] : Recursive(g, W, 1, F)
  BY <1>1, WType, Iteration
<1>3. ASSUME NEW n \in 0 .. W, n # 0 PROVE F[n][g[n - 1]] = 2 * g[n - 1]
  <2>1. n - 1 \in 0 .. W /\ g[n - 1] \in Nat /\ n \in Nat
    BY <1>3, WType
  <2>. QED BY <2>1 DEF F
<1>4. g = [n \in 0 .. W |-> IF n = 0 THEN 1 ELSE 2 * g[n - 1]]
  BY <1>2, <1>3 DEF Recursive
<1>. QED BY <1>4 DEF Pow2

LEMMA Pow2Type == \A n \in 0 .. W : Pow2[n] \in Nat \ {0}
<1>. DEFINE T == {n \in 0 .. W : Pow2[n] \in Nat \ {0}}
<1>1. 0 \in T
  BY Pow2Def, WType
<1>2. ASSUME NEW n \in 1 .. W, n - 1 \in T PROVE n \in T
  <2>1. Pow2[n] = 2 * Pow2[n - 1]
    BY Pow2Def, WType
  <2>. QED BY <1>2, <2>1
<1>. HIDE DEF T
<1>3. 0 .. W \subseteq T
  BY <1>1, <1>2, WType, UpTo
<1>. QED BY <1>3 DEF T

LEMMA Pow2Step == Pow2[0] = 1 /\ \A n \in 1 .. W : Pow2[n] = 2 * Pow2[n - 1]
BY Pow2Def, WType

----------------------------------------------------------------------------
(* Division. *)

LEMMA DivMod ==
    ASSUME NEW a \in Nat, NEW m \in Nat \ {0}
    PROVE  /\ a \div m \in Nat /\ a % m \in 0 .. m - 1
           /\ a = m * (a \div m) + (a % m)
<1>1. a \div m \in Nat
  OBVIOUS
<1>2. a % m \in 0 .. m - 1
  OBVIOUS
<1>3. (a \div m) * m + (a % m) = a
  OBVIOUS
<1>. QED BY <1>1, <1>2, <1>3

LEMMA DivModUnique ==
    ASSUME NEW m \in Nat \ {0}, NEW q \in Nat, NEW r \in 0 .. m - 1
    PROVE  (m * q + r) % m = r /\ (m * q + r) \div m = q
OBVIOUS

\* A nonempty set of numbers has a least element.
LEMMA MinNat ==
    ASSUME NEW S \in SUBSET Nat, S # {}
    PROVE  Min(S) \in S /\ \A y \in S : Min(S) <= y
<1>. DEFINE R == OpToRel(<, Nat)
<1>1. IsWellFoundedOn(R, Nat)
  BY NatLessThanWellFounded
<1>2. PICK x \in S : \A y \in S : ~(<<y, x>> \in R)
  BY <1>1, WFMin
<1>3. \A y \in S : ~(y < x)
  BY <1>2 DEF OpToRel
<1>4. \A y \in S : x =< y
  BY <1>3
<1>. QED BY <1>4 DEF Min

LEMMA MaxOfTwo ==
    ASSUME NEW x \in Nat, NEW y \in Nat
    PROVE  Max({x, y}) \in {x, y} /\ Max({x, y}) >= x /\ Max({x, y}) >= y
<1>1. \E z \in {x, y} : \A w \in {x, y} : z >= w
  OBVIOUS
<1>2. Max({x, y}) \in {x, y} /\ \A w \in {x, y} : Max({x, y}) >= w
  BY <1>1 DEF Max
<1>. QED BY <1>2

----------------------------------------------------------------------------
(* Networks. *)

LEMMA SizeType ==
    /\ \A b \in 0 .. W : Size(b) \in Nat \ {0}
    /\ Size(W) = 1 /\ Size(0) = Pow2[W]
    /\ \A b \in 0 .. W - 1 : Size(b) = 2 * Size(b + 1)
<1>1. ASSUME NEW b \in 0 .. W PROVE Size(b) \in Nat \ {0}
  <2>1. W - b \in 0 .. W
    BY WType
  <2>. QED BY <2>1, Pow2Type DEF Size
<1>2. Size(W) = 1 /\ Size(0) = Pow2[W]
  BY WType, Pow2Step DEF Size
<1>3. ASSUME NEW b \in 0 .. W - 1 PROVE Size(b) = 2 * Size(b + 1)
  <2>1. W - b \in 1 .. W /\ (W - b) - 1 = W - (b + 1)
    BY WType
  <2>. QED BY <2>1, Pow2Step DEF Size
<1>. QED BY <1>1, <1>2, <1>3

\* The size of a network is a multiple of that of a smaller one.
LEMMA SizeDivides ==
    ASSUME NEW b \in 0 .. W, NEW d \in 0 .. b
    PROVE  \E k \in Nat \ {0} : Size(d) = k * Size(b)
<1>. DEFINE T == {n \in 0 .. b : \E k \in Nat \ {0} : Size(b - n) = k * Size(b)}
<1>0. b \in Nat /\ Size(b) \in Nat
  BY WType, SizeType
<1>1. 0 \in T
  <2>1. Size(b - 0) = 1 * Size(b)
    BY <1>0
  <2>. QED BY <2>1
<1>2. ASSUME NEW n \in 1 .. b, n - 1 \in T PROVE n \in T
  <2>1. PICK k \in Nat \ {0} : Size(b - (n - 1)) = k * Size(b)
    BY <1>2
  <2>2. b - n \in 0 .. W - 1 /\ (b - n) + 1 = b - (n - 1)
    BY WType
  <2>3. Size(b - n) = 2 * (k * Size(b))
    BY <2>1, <2>2, SizeType
  <2>4. Size(b - n) = (2 * k) * Size(b)
    BY <2>3, <1>0
  <2>5. 2 * k \in Nat \ {0}
    OBVIOUS
  <2>. QED BY <2>4, <2>5
<1>. HIDE DEF T
<1>3. 0 .. b \subseteq T
  BY <1>0, <1>1, <1>2, UpTo
<1>4. b - d \in T /\ b - (b - d) = d
  BY <1>0, <1>3
<1>. QED BY <1>4 DEF T

LEMMA MaskedBounds ==
    ASSUME NEW a \in Nat, NEW b \in 0 .. W
    PROVE  /\ a \div Size(b) \in Nat
           /\ Masked(a, b) = Size(b) * (a \div Size(b))
           /\ Masked(a, b) \in Nat /\ Masked(a, b) <= a /\ a < Masked(a, b) + Size(b)
<1>1. Size(b) \in Nat \ {0}
  BY SizeType
<1>2. /\ a \div Size(b) \in Nat /\ a % Size(b) \in 0 .. Size(b) - 1
      /\ a = Size(b) * (a \div Size(b)) + (a % Size(b))
  BY <1>1, DivMod
<1>3. Masked(a, b) = Size(b) * (a \div Size(b))
  BY <1>1, <1>2 DEF Masked
<1>. DEFINE p == Size(b) * (a \div Size(b))
           r == a % Size(b)
<1>4. p \in Nat
  BY <1>1, <1>2
<1>5. r \in 0 .. Size(b) - 1 /\ a = p + r
  BY <1>2
<1>. HIDE DEF p, r
<1>6. p <= a /\ a < p + Size(b)
  BY <1>1, <1>4, <1>5
<1>. QED BY <1>2, <1>3, <1>4, <1>6 DEF p

LEMMA MaskedExact ==
    ASSUME NEW a \in Nat, NEW b \in 0 .. W, NEW q \in Nat,
           Size(b) * q <= a, a < Size(b) * q + Size(b)
    PROVE  Masked(a, b) = Size(b) * q /\ a \div Size(b) = q
<1>1. Size(b) \in Nat \ {0}
  BY SizeType
<1>. DEFINE s == Size(b)
           r == a - s * q
<1>2. r \in 0 .. s - 1 /\ a = s * q + r
  BY <1>1
<1>. HIDE DEF s, r
<1>3. a \div s = q
  BY <1>1, <1>2, DivModUnique DEF s
<1>. QED BY <1>1, <1>3 DEF Masked, s

\* Addresses of one network are in one network of every smaller length.
LEMMA MaskedCoarser ==
    ASSUME NEW x \in Nat, NEW y \in Nat, NEW b \in 0 .. W, NEW d \in 0 .. b,
           Masked(x, b) = Masked(y, b)
    PROVE  Masked(x, d) = Masked(y, d)
<1>1. PICK k \in Nat \ {0} : Size(d) = k * Size(b)
  BY SizeDivides
<1>. DEFINE s == Size(b)
           q == x \div s
           p == q \div k
           r == q % k
<1>2. s \in Nat \ {0} /\ d \in 0 .. W
  BY SizeType, WType
<1>3. /\ q \in Nat /\ Masked(x, b) = s * q
      /\ s * q <= x /\ x < s * q + s /\ s * q <= y /\ y < s * q + s
  BY MaskedBounds
<1>. HIDE DEF s, q
<1>4. p \in Nat /\ r \in 0 .. k - 1 /\ q = k * p + r
  BY <1>3, DivMod
<1>. HIDE DEF p, r
<1>5. s * q = (k * s) * p + s * r
  <2>1. s * (k * p + r) = s * (k * p) + s * r
    BY <1>2, <1>4
  <2>2. s * (k * p) = (k * s) * p
    BY <1>2, <1>4
  <2>. QED BY <1>4, <2>1, <2>2
<1>6. s * r + s <= k * s /\ s * r >= 0
  <2>1. s * (r + 1) <= s * k
    BY <1>2, <1>4
  <2>2. s * (r + 1) = s * r + s /\ s * k = k * s
    BY <1>2, <1>4
  <2>3. s * r \in Nat
    BY <1>2, <1>4
  <2>. QED BY <2>1, <2>2, <2>3
<1>7. k * s = Size(d) /\ (k * s) * p \in Nat /\ s * r \in Nat /\ k * s \in Nat
  BY <1>1, <1>2, <1>4 DEF s
<1>8. /\ Size(d) * p <= x /\ x < Size(d) * p + Size(d)
      /\ Size(d) * p <= y /\ y < Size(d) * p + Size(d)
  BY <1>2, <1>3, <1>5, <1>6, <1>7
<1>. QED BY <1>2, <1>4, <1>8, MaskedExact

\* What begins a network begins every smaller one too.
LEMMA AlignedFiner ==
    ASSUME NEW x \in Nat, NEW b \in 0 .. W, NEW d \in 0 .. b, Masked(x, d) = x
    PROVE  Masked(x, b) = x
<1>1. PICK k \in Nat \ {0} : Size(d) = k * Size(b)
  BY SizeDivides
<1>2. d \in 0 .. W /\ Size(b) \in Nat \ {0}
  BY SizeType, WType
<1>. DEFINE q == x \div Size(d)
<1>3. q \in Nat /\ x = Size(d) * q
  BY <1>2, MaskedBounds
<1>. HIDE DEF q
<1>4. (k * Size(b)) * q = Size(b) * (k * q)
  BY <1>2, <1>3
<1>5. k * q \in Nat /\ x = Size(b) * (k * q)
  BY <1>1, <1>3, <1>4
<1>. DEFINE p == k * q
<1>. HIDE DEF p
<1>6. p \in Nat /\ x = Size(b) * p
  BY <1>5 DEF p
<1>7. Size(b) * p <= x /\ x < Size(b) * p + Size(b)
  BY <1>2, <1>6
<1>8. Masked(x, b) = Size(b) * p
  BY <1>6, <1>7, MaskedExact
<1>. QED BY <1>6, <1>8

Aligned(c) == Masked(c.addr, c.bits) = c.addr

Past(c) == c.addr + Size(c.bits)

\* IP_match_addr: a network has the addresses from its first one on.
LEMMA MatchesBlock ==
    ASSUME NEW c \in Cidr, Aligned(c), NEW a \in Nat
    PROVE  Matches(c, a) <=> c.addr <= a /\ a < Past(c)
<1>1. c.addr \in Nat /\ c.bits \in 0 .. W
  BY Pow2Type, WType DEF Cidr, Addrs
<1>2. Matches(c, a) => c.addr <= a /\ a < Past(c)
  BY <1>1, MaskedBounds DEF Matches, Past
<1>3. ASSUME c.addr <= a, a < Past(c) PROVE Matches(c, a)
  <2>. DEFINE q == c.addr \div Size(c.bits)
  <2>1. q \in Nat /\ c.addr = Size(c.bits) * q
    BY <1>1, MaskedBounds DEF Aligned
  <2>. HIDE DEF q
  <2>. QED BY <1>1, <1>3, <2>1, MaskedExact DEF Matches, Past
<1>. QED BY <1>2, <1>3

LEMMA AddrsNat == Addrs \subseteq Nat /\ Pow2[W] \in Nat \ {0} /\ 0 \in Addrs
BY Pow2Type, WType DEF Addrs

LEMMA WrapType ==
    /\ \A x \in Nat : Wrap(x) \in Addrs
    /\ \A x \in Addrs : Wrap(x) = x
<1>1. ASSUME NEW x \in Nat PROVE Wrap(x) \in Addrs
  BY AddrsNat, DivMod DEF Wrap, Addrs
<1>2. ASSUME NEW x \in Addrs PROVE Wrap(x) = x
  <2>1. (Pow2[W] * 0 + x) % Pow2[W] = x
    BY AddrsNat, DivModUnique DEF Addrs
  <2>2. Pow2[W] * 0 + x = x
    BY AddrsNat
  <2>. QED BY <2>1, <2>2 DEF Wrap
<1>. QED BY <1>1, <1>2

----------------------------------------------------------------------------
(* IP_range_to_cidr_list. *)

LEMMA BlockBitsType ==
    ASSUME NEW a \in Addrs, NEW b \in Addrs
    PROVE  /\ max_block(a) \in 0 .. W /\ max_diff(a, b) \in 0 .. W
           /\ BlockBits(a, b) \in 0 .. W
           /\ BlockBits(a, b) \in {max_block(a), max_diff(a, b)}
           /\ BlockBits(a, b) >= max_block(a) /\ BlockBits(a, b) >= max_diff(a, b)
           /\ Masked(a, max_block(a)) = a
           /\ max_diff(a, b) # W =>
                 Masked(a, max_diff(a, b)) # Masked(Wrap(b + 1), max_diff(a, b))
<1>. DEFINE blocks == {n \in 0 .. W : Masked(a, n) = a}
           differ == {n \in 0 .. W - 1 : Masked(a, n) # Masked(Wrap(b + 1), n)}
<1>1. W \in blocks
  <2>1. W \in 0 .. W /\ a \in Nat
    BY WType, AddrsNat
  <2>2. Masked(a, W) = Size(W) * (a \div Size(W)) /\ Masked(a, W) <= a /\ a < Masked(a, W) + 1
        /\ Masked(a, W) \in Nat
    BY <2>1, MaskedBounds, SizeType
  <2>. QED BY <2>1, <2>2
<1>2. blocks \in SUBSET Nat /\ differ \in SUBSET Nat
  BY WType
<1>3. Min(blocks) \in blocks
  BY <1>1, <1>2, MinNat
<1>4. max_block(a) \in 0 .. W /\ Masked(a, max_block(a)) = a
  BY <1>3 DEF max_block
<1>5. differ # {} => Min(differ) \in differ
  BY <1>2, MinNat
<1>6. max_diff(a, b) = IF differ = {} THEN W ELSE Min(differ)
  BY DEF max_diff
<1>7. /\ max_diff(a, b) \in 0 .. W
      /\ max_diff(a, b) # W =>
            Masked(a, max_diff(a, b)) # Masked(Wrap(b + 1), max_diff(a, b))
  BY <1>5, <1>6, WType
<1>8. max_block(a) \in Nat /\ max_diff(a, b) \in Nat
  BY <1>4, <1>7, WType
<1>9. /\ BlockBits(a, b) \in {max_block(a), max_diff(a, b)}
      /\ BlockBits(a, b) >= max_block(a) /\ BlockBits(a, b) >= max_diff(a, b)
  BY <1>8, MaxOfTwo DEF BlockBits
<1>. QED BY <1>4, <1>7, <1>9

\* The network that is taken from a range begins with it and does not leave it.
LEMMA BlockFits ==
    ASSUME NEW start \in Addrs, NEW end \in Nat, start <= end, end + 1 \in Addrs
    PROVE  LET b == BlockBits(start, end)
           IN  b \in 0 .. W /\ Masked(start, b) = start /\ start + Size(b) <= end + 1
<1>. DEFINE b == BlockBits(start, end)
           d == max_diff(start, end)
<1>1. start \in Nat /\ end \in Addrs /\ Wrap(end + 1) = end + 1
  BY AddrsNat, WrapType DEF Addrs
<1>2. /\ b \in 0 .. W /\ d \in 0 .. W /\ max_block(start) \in 0 .. W
      /\ b >= max_block(start) /\ b >= d
      /\ Masked(start, max_block(start)) = start
      /\ d # W => Masked(start, d) # Masked(end + 1, d)
  BY <1>1, BlockBitsType
<1>. HIDE DEF b, d
<1>3. Masked(start, b) = start
  <2>1. max_block(start) \in 0 .. b
    BY <1>2, WType
  <2>. QED BY <1>1, <1>2, <2>1, AlignedFiner
<1>4. start + Size(b) <= end + 1
  <2>1. CASE b = W
    BY <1>1, <2>1, SizeType
  <2>2. CASE b # W
    <3>1. d # W /\ d \in 0 .. b
      BY <1>2, <2>2, WType
    <3>2. Masked(start, b) # Masked(end + 1, b)
      <4>1. SUFFICES ASSUME Masked(start, b) = Masked(end + 1, b) PROVE FALSE
        OBVIOUS
      <4>2. end + 1 \in Nat
        OBVIOUS
      <4>3. Masked(start, d) = Masked(end + 1, d)
        BY <1>1, <1>2, <3>1, <4>1, <4>2, MaskedCoarser
      <4>. QED BY <1>2, <3>1, <4>3
    <3>3. SUFFICES ASSUME ~(start + Size(b) <= end + 1) PROVE FALSE
      OBVIOUS
    <3>4. Size(b) \in Nat \ {0}
      BY <1>2, SizeType
    <3>5. start <= end + 1 /\ end + 1 < start + Size(b) /\ end + 1 \in Nat
      BY <1>1, <3>3, <3>4
    <3>. DEFINE q == start \div Size(b)
    <3>6. q \in Nat /\ start = Size(b) * q
      BY <1>1, <1>2, <1>3, MaskedBounds
    <3>. HIDE DEF q
    <3>7. Masked(end + 1, b) = Size(b) * q
      BY <1>2, <3>5, <3>6, MaskedExact
    <3>. QED BY <1>3, <3>2, <3>6, <3>7
  <2>. QED BY <2>1, <2>2
<1>. QED BY <1>2, <1>3, <1>4 DEF b

\* The networks of a list, in order and apart from each other, are those of a
\* set of addresses below a bound.
Tiles(cidrs, S, hi) ==
    /\ cidrs \in Seq(Cidr)
    /\ \A i \in DOMAIN cidrs : Aligned(cidrs[i]) /\ Past(cidrs[i]) <= hi
    /\ \A i, j \in DOMAIN cidrs : i < j => Past(cidrs[i]) <= cidrs[j].addr
    /\ \A a \in Nat : a \in S <=> \E i \in DOMAIN cidrs : cidrs[i].addr <= a /\ a < Past(cidrs[i])

LEMMA PastType ==
    ASSUME NEW c \in Cidr
    PROVE  c.addr \in Nat /\ c.bits \in 0 .. W /\ Past(c) \in Nat /\ c.addr < Past(c)
<1>1. c.addr \in Nat /\ c.bits \in 0 .. W
  BY AddrsNat DEF Cidr
<1>2. Size(c.bits) \in Nat \ {0}
  BY <1>1, SizeType
<1>. QED BY <1>1, <1>2 DEF Past

LEMMA TilesAppend ==
    ASSUME NEW cidrs, NEW S, NEW hi \in Nat, Tiles(cidrs, S, hi),
           NEW c \in Cidr, Aligned(c), hi <= c.addr
    PROVE  Tiles(Append(cidrs, c), S \cup c.addr .. Past(c) - 1, Past(c))
<1>. DEFINE l == Append(cidrs, c)
           n == Len(cidrs)
<1>1. /\ cidrs \in Seq(Cidr) /\ n \in Nat /\ DOMAIN cidrs = 1 .. n
      /\ l \in Seq(Cidr) /\ DOMAIN l = 1 .. n + 1
      /\ l[n + 1] = c /\ \A i \in 1 .. n : l[i] = cidrs[i]
  BY DEF Tiles
<1>2. c.addr \in Nat /\ Past(c) \in Nat /\ c.addr < Past(c)
  BY PastType
<1>3. \A i \in 1 .. n : /\ cidrs[i] \in Cidr /\ Past(cidrs[i]) \in Nat
                        /\ cidrs[i].addr \in Nat
  BY <1>1, PastType
<1>. HIDE DEF l, n
<1>4. \A i \in DOMAIN l : Aligned(l[i]) /\ Past(l[i]) <= Past(c)
  <2>1. ASSUME NEW i \in 1 .. n PROVE Aligned(l[i]) /\ Past(l[i]) <= Past(c)
    <3>1. Aligned(cidrs[i]) /\ Past(cidrs[i]) <= hi
      BY <1>1 DEF Tiles
    <3>. QED BY <1>1, <1>2, <1>3, <3>1
  <2>2. Aligned(l[n + 1]) /\ Past(l[n + 1]) <= Past(c)
    BY <1>1, <1>2
  <2>. QED BY <1>1, <2>1, <2>2
<1>5. ASSUME NEW i \in DOMAIN l, NEW j \in DOMAIN l, i < j
      PROVE  Past(l[i]) <= l[j].addr
  <2>1. i \in 1 .. n
    BY <1>1, <1>5
  <2>2. CASE j = n + 1
    <3>1. Past(cidrs[i]) <= hi
      BY <1>1, <2>1 DEF Tiles
    <3>. QED BY <1>1, <1>2, <1>3, <2>1, <2>2, <3>1
  <2>3. CASE j \in 1 .. n
    BY <1>1, <1>5, <2>1, <2>3 DEF Tiles
  <2>. QED BY <1>1, <2>2, <2>3
<1>6. ASSUME NEW a \in Nat
      PROVE  a \in S \cup c.addr .. Past(c) - 1
                <=> \E i \in DOMAIN l : l[i].addr <= a /\ a < Past(l[i])
  <2>1. a \in S <=> \E i \in 1 .. n : cidrs[i].addr <= a /\ a < Past(cidrs[i])
    BY <1>1 DEF Tiles
  <2>2. a \in c.addr .. Past(c) - 1 <=> c.addr <= a /\ a < Past(c)
    BY <1>2
  <2>3. DOMAIN l = 1 .. n \cup {n + 1}
    BY <1>1
  <2>. QED BY <1>1, <2>1, <2>2, <2>3
<1>. QED BY <1>1, <1>4, <1>5, <1>6 DEF Tiles, l

\* A step of the loop of IP_range_to_cidr_list.
RangeStep(c, end) ==
    LET bits == BlockBits(c.start, end)
    IN  IF end < c.start THEN c
        ELSE [start |-> Wrap(c.start + Size(bits)),
              cidrs |-> Append(c.cidrs, [addr |-> c.start, bits |-> bits])]

RangeLoop(at, cidrs, start, end) ==
    at = [n \in 0 .. Pow2[W] |-> IF n = 0 THEN [start |-> start, cidrs |-> cidrs]
                                 ELSE RangeStep(at[n - 1], end)]

LEMMA RangeLoopExists ==
    ASSUME NEW cidrs \in Seq(Cidr), NEW start \in Addrs, NEW end \in Addrs
    PROVE  \E at : /\ RangeLoop(at, cidrs, start, end)
                   /\ IP_range_to_cidr_list(cidrs, start, end) = at[Pow2[W]].cidrs
<1>. DEFINE X == [start : Addrs, cidrs : Seq(Cidr)]
           F == [n \in Nat |-> [x \in X |-> RangeStep(x, end)]]
           x0 == [start |-> start, cidrs |-> cidrs]
<1>1. ASSUME NEW x \in X PROVE RangeStep(x, end) \in X
  <2>. DEFINE bits == BlockBits(x.start, end)
  <2>1. x.start \in Addrs /\ x.cidrs \in Seq(Cidr)
    OBVIOUS
  <2>2. bits \in 0 .. W
    BY <2>1, BlockBitsType
  <2>. HIDE DEF bits
  <2>3. x.start + Size(bits) \in Nat
    <3>1. x.start \in Nat /\ Size(bits) \in Nat
      BY <2>1, <2>2, AddrsNat, SizeType
    <3>. QED BY <3>1
  <2>4. Wrap(x.start + Size(bits)) \in Addrs
    BY <2>3, WrapType
  <2>5. [addr |-> x.start, bits |-> bits] \in Cidr
    BY <2>1, <2>2 DEF Cidr
  <2>6. Append(x.cidrs, [addr |-> x.start, bits |-> bits]) \in Seq(Cidr)
    BY <2>1, <2>5
  <2>. QED BY <2>1, <2>4, <2>6 DEF RangeStep, bits
<1>2. F \in [Nat -> [X -> X]]
  BY <1>1
<1>3. x0 \in X /\ Pow2[W] \in Nat
  BY AddrsNat
<1>. HIDE DEF F, X, x0
<1>4. PICK g \in [0 .. Pow2[W] -> X] : Recursive(g, Pow2[W], x0, F)
  BY <1>2, <1>3, Iteration
<1>5. ASSUME NEW n \in 0 .. Pow2[W], n # 0 PROVE F[n][g[n - 1]] = RangeStep(g[n - 1], end)
  <2>1. n - 1 \in 0 .. Pow2[W] /\ n \in Nat
    BY <1>3, <1>5
  <2>2. g[n - 1] \in X
    BY <2>1
  <2>. QED BY <2>1, <2>2 DEF F
<1>6. RangeLoop(g, cidrs, start, end)
  BY <1>4, <1>5 DEF Recursive, RangeLoop, x0
<1>. DEFINE at == CHOOSE at : RangeLoop(at, cidrs, start, end)
<1>7. RangeLoop(at, cidrs, start, end)
  BY <1>6
<1>8. IP_range_to_cidr_list(cidrs, start, end) = at[Pow2[W]].cidrs
  BY DEF IP_range_to_cidr_list, RangeLoop, RangeStep
<1>. HIDE DEF at
<1>. QED BY <1>7, <1>8

\* The networks of a range are added to a list, and nothing else.
LEMMA RangeExact ==
    ASSUME NEW cidrs, NEW S, NEW start \in Addrs, Tiles(cidrs, S, start),
           NEW end \in Nat, start <= end, end + 1 \in Addrs
    PROVE  Tiles(IP_range_to_cidr_list(cidrs, start, end), S \cup start .. end, end + 1)
<1>1. cidrs \in Seq(Cidr) /\ end \in Addrs /\ start \in Nat
  BY AddrsNat DEF Tiles, Addrs
<1>2. PICK at : /\ RangeLoop(at, cidrs, start, end)
                /\ IP_range_to_cidr_list(cidrs, start, end) = at[Pow2[W]].cidrs
  BY <1>1, RangeLoopExists
<1>. DEFINE Done(c, n) == /\ c.start \in start .. end + 1
                          /\ Tiles(c.cidrs, S \cup start .. c.start - 1, c.start)
                          /\ end < c.start \/ start + n <= c.start
           T == {n \in 0 .. Pow2[W] : Done(at[n], n)}
<1>3. 0 \in T
  <2>1. at[0] = [start |-> start, cidrs |-> cidrs]
    BY <1>2, AddrsNat DEF RangeLoop
  <2>2. S \cup start .. start - 1 = S
    BY <1>1
  <2>3. at[0].start = start /\ at[0].cidrs = cidrs
    BY <2>1
  <2>4. start \in start .. end + 1 /\ start + 0 <= start
    BY <1>1
  <2>5. Done(at[0], 0)
    BY <2>2, <2>3, <2>4
  <2>. QED BY <2>5, AddrsNat
<1>4. ASSUME NEW n \in 1 .. Pow2[W], n - 1 \in T PROVE n \in T
  <2>. DEFINE c == at[n - 1]
              bits == BlockBits(c.start, end)
              net == [addr |-> c.start, bits |-> bits]
  <2>1. Done(c, n - 1)
    BY <1>4
  <2>2. at[n] = RangeStep(c, end)
    BY <1>2, AddrsNat DEF RangeLoop
  <2>. HIDE DEF c
  <2>3. c.start \in Addrs /\ c.start \in Nat
    BY <1>1, <2>1, AddrsNat DEF Addrs
  <2>4. CASE end < c.start
    <3>1. at[n] = c
      BY <2>2, <2>4 DEF RangeStep
    <3>2. Done(at[n], n)
      BY <2>1, <2>4, <3>1
    <3>. QED BY <3>2, AddrsNat
  <2>5. CASE ~(end < c.start)
    <3>1. c.start <= end
      BY <2>3, <2>5
    <3>2. bits \in 0 .. W /\ Masked(c.start, bits) = c.start /\ c.start + Size(bits) <= end + 1
      BY <2>3, <3>1, BlockFits
    <3>. HIDE DEF bits
    <3>3. Size(bits) \in Nat \ {0}
      BY <3>2, SizeType
    <3>4. c.start + Size(bits) \in Addrs
      BY <2>3, <3>2, <3>3, AddrsNat DEF Addrs
    <3>5. at[n] = [start |-> c.start + Size(bits), cidrs |-> Append(c.cidrs, net)]
      BY <2>2, <2>5, <3>4, WrapType DEF RangeStep, bits
    <3>6. net \in Cidr /\ Aligned(net) /\ Past(net) = c.start + Size(bits) /\ net.addr = c.start
      BY <2>3, <3>2 DEF Cidr, Aligned, Past
    <3>. HIDE DEF net
    <3>7. Tiles(Append(c.cidrs, net), (S \cup start .. c.start - 1) \cup c.start .. Past(net) - 1,
                Past(net))
      BY <2>1, <2>3, <3>6, TilesAppend
    <3>8. (S \cup start .. c.start - 1) \cup c.start .. Past(net) - 1
             = S \cup start .. Past(net) - 1
      BY <1>1, <2>1, <2>3, <3>3, <3>6
    <3>9. at[n].start = Past(net) /\ at[n].cidrs = Append(c.cidrs, net)
      BY <3>5, <3>6
    <3>10. Past(net) \in start .. end + 1 /\ (end < Past(net) \/ start + n <= Past(net))
      BY <1>1, <2>1, <2>3, <2>5, <3>2, <3>3, <3>6
    <3>11. Done(at[n], n)
      BY <3>7, <3>8, <3>9, <3>10
    <3>. QED BY <3>11
  <2>. QED BY <2>4, <2>5
<1>. HIDE DEF T
<1>5. 0 .. Pow2[W] \subseteq T
  BY <1>3, <1>4, AddrsNat, UpTo
<1>6. Done(at[Pow2[W]], Pow2[W])
  <2>1. Pow2[W] \in T
    BY <1>5, AddrsNat
  <2>. HIDE DEF Done
  <2>. QED BY <2>1 DEF T
<1>7. at[Pow2[W]].start = end + 1
  BY <1>1, <1>6, AddrsNat DEF Addrs
<1>8. S \cup start .. (end + 1) - 1 = S \cup start .. end
  OBVIOUS
<1>. QED BY <1>2, <1>6, <1>7, <1>8

\* Whatever the range, what is added are networks.
LEMMA RangeType ==
    ASSUME NEW cidrs \in Seq(Cidr), NEW start \in Addrs, NEW end \in Addrs
    PROVE  IP_range_to_cidr_list(cidrs, start, end) \in Seq(Cidr)
<1>1. PICK at : /\ RangeLoop(at, cidrs, start, end)
                /\ IP_range_to_cidr_list(cidrs, start, end) = at[Pow2[W]].cidrs
  BY RangeLoopExists
<1>. DEFINE T == {n \in 0 .. Pow2[W] : at[n] \in [start : Addrs, cidrs : Seq(Cidr)]}
<1>2. 0 \in T
  BY <1>1, AddrsNat DEF RangeLoop
<1>3. ASSUME NEW n \in 1 .. Pow2[W], n - 1 \in T PROVE n \in T
  <2>. DEFINE c == at[n - 1]
              bits == BlockBits(c.start, end)
  <2>1. c.start \in Addrs /\ c.cidrs \in Seq(Cidr) /\ c \in [start : Addrs, cidrs : Seq(Cidr)]
    BY <1>3
  <2>2. at[n] = RangeStep(c, end)
    BY <1>1, AddrsNat DEF RangeLoop
  <2>. HIDE DEF c
  <2>3. bits \in 0 .. W
    BY <2>1, BlockBitsType
  <2>. HIDE DEF bits
  <2>4. c.start \in Nat /\ Size(bits) \in Nat
    BY <2>1, <2>3, AddrsNat, SizeType
  <2>5. Wrap(c.start + Size(bits)) \in Addrs
    BY <2>4, WrapType
  <2>6. Append(c.cidrs, [addr |-> c.start, bits |-> bits]) \in Seq(Cidr)
    BY <2>1, <2>3 DEF Cidr
  <2>7. RangeStep(c, end) \in [start : Addrs, cidrs : Seq(Cidr)]
    BY <2>1, <2>5, <2>6 DEF RangeStep, bits
  <2>. QED BY <2>2, <2>7, AddrsNat
<1>. HIDE DEF T
<1>4. 0 .. Pow2[W] \subseteq T
  BY <1>2, <1>3, AddrsNat, UpTo
<1>5. Pow2[W] \in T
  BY <1>4, AddrsNat
<1>. QED BY <1>1, <1>5 DEF T

----------------------------------------------------------------------------
(* Blacklist_add_range and Blacklist_collapse. *)

SumStep(s, m, a) ==
    IF m.addr > a THEN s ELSE [bs |-> s.bs + m.black, ws |-> s.ws + m.white]

SumLoop(sum, marks, a) ==
    sum = [n \in 0 .. Len(marks) |-> IF n = 0 THEN [bs |-> 0, ws |-> 0]
                                     ELSE SumStep(sum[n - 1], marks[n], a)]

LEMMA SumLoopExists ==
    ASSUME NEW marks \in Seq(Mark), NEW a \in Int
    PROVE  \E sum \in [0 .. Len(marks) -> [bs : Int, ws : Int]] :
              SumLoop(sum, marks, a) /\ Sums(marks, a) = sum[Len(marks)]
<1>. DEFINE X == [bs : Int, ws : Int]
           F == [n \in Nat |-> [s \in X |-> IF n \in 1 .. Len(marks)
                                            THEN SumStep(s, marks[n], a) ELSE s]]
           x0 == [bs |-> 0, ws |-> 0]
<1>1. ASSUME NEW s \in X, NEW n \in 1 .. Len(marks) PROVE SumStep(s, marks[n], a) \in X
  <2>1. marks[n] \in Mark
    OBVIOUS
  <2>. QED BY <2>1 DEF Mark, SumStep
<1>2. F \in [Nat -> [X -> X]]
  BY <1>1
<1>3. x0 \in X /\ Len(marks) \in Nat
  OBVIOUS
<1>. HIDE DEF F, X, x0
<1>4. PICK g \in [0 .. Len(marks) -> X] : Recursive(g, Len(marks), x0, F)
  BY <1>2, <1>3, Iteration
<1>5. ASSUME NEW n \in 0 .. Len(marks), n # 0
      PROVE  F[n][g[n - 1]] = SumStep(g[n - 1], marks[n], a)
  <2>1. n - 1 \in 0 .. Len(marks) /\ n \in Nat /\ n \in 1 .. Len(marks)
    BY <1>3, <1>5
  <2>2. g[n - 1] \in X
    BY <2>1
  <2>. QED BY <2>1, <2>2 DEF F
<1>6. SumLoop(g, marks, a)
  BY <1>4, <1>5 DEF Recursive, SumLoop, x0
<1>. DEFINE sum == CHOOSE sum : SumLoop(sum, marks, a)
<1>7. SumLoop(sum, marks, a)
  BY <1>6
<1>8. Sums(marks, a) = sum[Len(marks)]
  BY DEF Sums, SumLoop, SumStep
<1>. HIDE DEF sum
<1>. DEFINE T == {n \in 0 .. Len(marks) : sum[n] \in X}
<1>9. 0 \in T
  BY <1>3, <1>7 DEF SumLoop, x0
<1>10. ASSUME NEW n \in 1 .. Len(marks), n - 1 \in T PROVE n \in T
  <2>1. sum[n] = SumStep(sum[n - 1], marks[n], a)
    BY <1>3, <1>7 DEF SumLoop
  <2>. QED BY <1>1, <1>10, <2>1
<1>. HIDE DEF T
<1>11. 0 .. Len(marks) \subseteq T
  BY <1>3, <1>9, <1>10, UpTo
<1>12. \A n \in 0 .. Len(marks) : sum[n] \in X
  BY <1>11 DEF T
<1>13. sum \in [0 .. Len(marks) -> X]
  BY <1>7, <1>12 DEF SumLoop
<1>. QED BY <1>7, <1>8, <1>13 DEF X

LEMMA SumsType ==
    ASSUME NEW marks \in Seq(Mark), NEW a \in Int
    PROVE  Sums(marks, a) \in [bs : Int, ws : Int]
<1>1. PICK sum \in [0 .. Len(marks) -> [bs : Int, ws : Int]] : Sums(marks, a) = sum[Len(marks)]
  BY SumLoopExists
<1>2. Len(marks) \in 0 .. Len(marks)
  OBVIOUS
<1>. QED BY <1>1, <1>2

LEMMA SumsEmpty == \A a \in Int : Sums(<<>>, a) = [bs |-> 0, ws |-> 0]
<1>. TAKE a \in Int
<1>. DEFINE none == <<>>
<1>1. none \in Seq(Mark) /\ Len(none) = 0
  OBVIOUS
<1>. HIDE DEF none
<1>2. PICK sum : SumLoop(sum, none, a) /\ Sums(none, a) = sum[0]
  BY <1>1, SumLoopExists
<1>3. sum[0] = [bs |-> 0, ws |-> 0]
  BY <1>1, <1>2 DEF SumLoop
<1>. QED BY <1>2, <1>3 DEF none

\* A mark counts from its address on.
LEMMA SumsAppend ==
    ASSUME NEW marks \in Seq(Mark), NEW m \in Mark, NEW a \in Int
    PROVE  Sums(Append(marks, m), a) = SumStep(Sums(marks, a), m, a)
<1>. DEFINE l == Append(marks, m)
           N == Len(marks)
<1>1. l \in Seq(Mark) /\ N \in Nat /\ Len(l) = N + 1 /\ l[N + 1] = m /\ \A i \in 1 .. N : l[i] = marks[i]
  OBVIOUS
<1>. HIDE DEF l
<1>2. PICK f : SumLoop(f, marks, a) /\ Sums(marks, a) = f[N]
  BY SumLoopExists
<1>3. PICK g : SumLoop(g, l, a) /\ Sums(l, a) = g[N + 1]
  BY <1>1, SumLoopExists
<1>. HIDE DEF N
<1>. DEFINE T == {n \in 0 .. N : f[n] = g[n]}
<1>4. 0 \in T
  BY <1>1, <1>2, <1>3 DEF SumLoop, N
<1>5. ASSUME NEW n \in 1 .. N, n - 1 \in T PROVE n \in T
  <2>1. f[n] = SumStep(f[n - 1], marks[n], a)
    <3>1. n \in 0 .. Len(marks) /\ n # 0
      BY <1>1 DEF N
    <3>. QED BY <1>2, <3>1 DEF SumLoop
  <2>2. g[n] = SumStep(g[n - 1], l[n], a)
    BY <1>1, <1>3 DEF SumLoop
  <2>. QED BY <1>1, <1>5, <2>1, <2>2
<1>. HIDE DEF T
<1>6. 0 .. N \subseteq T
  BY <1>1, <1>4, <1>5, UpTo
<1>7. f[N] = g[N]
  BY <1>1, <1>6 DEF T
<1>8. g[N + 1] = SumStep(g[N], l[N + 1], a)
  BY <1>1, <1>3 DEF SumLoop
<1>. QED BY <1>1, <1>2, <1>3, <1>7, <1>8 DEF l

\* Where a range counts, one of the sums is increased.
Counts(s, t, in, black) ==
    /\ in /\ black => t.bs = s.bs + 1 /\ t.ws = s.ws
    /\ in /\ ~black => t.bs = s.bs /\ t.ws = s.ws + 1
    /\ ~in => t.bs = s.bs /\ t.ws = s.ws

\* A range counts for its addresses.
LEMMA AddRange ==
    ASSUME NEW marks \in Seq(Mark), NEW start \in Addrs, NEW end \in Addrs,
           NEW black \in BOOLEAN
    PROVE  LET l == Blacklist_add_range(marks, start, end, black)
           IN  /\ l \in Seq(Mark)
               /\ \A a \in Addrs : Counts(Sums(marks, a), Sums(l, a), start <= a /\ a < end, black)
<1>. DEFINE l == Blacklist_add_range(marks, start, end, black)
           b == IF black THEN 1 ELSE 0
           m1 == [addr |-> start, black |-> b, white |-> 1 - b]
           m2 == [addr |-> end, black |-> 0 - b, white |-> b - 1]
<1>0. start \in Int /\ end \in Int /\ Addrs \subseteq Int
  BY AddrsNat
<1>1. CASE start > end
  <2>1. l = marks
    BY <1>1 DEF Blacklist_add_range
  <2>2. ASSUME NEW a \in Addrs PROVE ~(start <= a /\ a < end)
    BY <1>0, <1>1
  <2>. HIDE DEF l
  <2>3. \A a \in Addrs : Counts(Sums(marks, a), Sums(l, a), start <= a /\ a < end, black)
    BY <2>1, <2>2 DEF Counts
  <2>. QED BY <2>1, <2>3 DEF l
<1>2. CASE ~(start > end)
  <2>1. m1 \in Mark /\ m2 \in Mark
    <3>1. b = 0 \/ b = 1
      OBVIOUS
    <3>. HIDE DEF b
    <3>2. b = 0 => 1 - b = 1 /\ 0 - b = 0 /\ b - 1 = -1
      OBVIOUS
    <3>3. b = 1 => 1 - b = 0 /\ 0 - b = -1 /\ b - 1 = 0
      OBVIOUS
    <3>. QED BY <3>1, <3>2, <3>3 DEF Mark
  <2>2. l = Append(Append(marks, m1), m2)
    <3>1. l = marks \o <<m1, m2>>
      BY <1>2 DEF Blacklist_add_range
    <3>. HIDE DEF m1, m2
    <3>. QED BY <2>1, <3>1
  <2>3. Append(marks, m1) \in Seq(Mark)
    BY <2>1
  <2>4. l \in Seq(Mark)
    <3>. HIDE DEF m1, m2, l
    <3>. QED BY <2>1, <2>2, <2>3
  <2>5. ASSUME NEW a \in Addrs
        PROVE  Counts(Sums(marks, a), Sums(l, a), start <= a /\ a < end, black)
    <3>1. a \in Int
      BY <1>0
    <3>2. Sums(l, a) = SumStep(SumStep(Sums(marks, a), m1, a), m2, a)
      <4>. HIDE DEF m1, m2, l
      <4>. QED BY <2>1, <2>2, <2>3, <3>1, SumsAppend
    <3>. DEFINE s == Sums(marks, a)
                t == Sums(l, a)
    <3>3. s \in [bs : Int, ws : Int]
      BY <3>1, SumsType
    <3>. HIDE DEF l, s
    <3>4. t = SumStep(SumStep(s, m1, a), m2, a)
      BY <3>2 DEF s
    <3>. HIDE DEF t
    <3>5. CASE black
      <4>1. b = 1
        BY <3>5
      <4>. HIDE DEF b
      <4>. QED BY <1>0, <1>2, <3>1, <3>3, <3>4, <3>5, <4>1 DEF SumStep, Counts, s, t
    <3>6. CASE ~black
      <4>1. b = 0
        BY <3>6
      <4>. HIDE DEF b
      <4>. QED BY <1>0, <1>2, <3>1, <3>3, <3>4, <3>6, <4>1 DEF SumStep, Counts, s, t
    <3>. QED BY <3>5, <3>6
  <2>. HIDE DEF l
  <2>. QED BY <2>4, <2>5 DEF l
<1>. QED BY <1>0, <1>1, <1>2

CollapseStep(c, a, marks) ==
    LET sums == Sums(marks, a)
        state == CollapseState(c.state, sums.bs, sums.ws)
    IN  [state |-> state,
         bstart |-> IF ~c.state /\ state THEN a ELSE c.bstart,
         cidrs |-> IF c.state /\ ~state
                   THEN IP_range_to_cidr_list(c.cidrs, c.bstart, Wrap(a - 1))
                   ELSE c.cidrs]

CollapseLoop(at, marks) ==
    at = [n \in 0 .. Pow2[W] |->
             IF n = 0 THEN [state |-> FALSE, bstart |-> 0, cidrs |-> <<>>]
             ELSE CollapseStep(at[n - 1], n - 1, marks)]

LEMMA CollapseLoopExists ==
    ASSUME NEW marks \in Seq(Mark)
    PROVE  \E at : /\ CollapseLoop(at, marks)
                   /\ marks # <<>> => Blacklist_collapse(marks) = at[Pow2[W]].cidrs
<1>. DEFINE X == [state : BOOLEAN, bstart : Addrs, cidrs : Seq(Cidr)]
           N == Pow2[W]
           F == [n \in Nat |-> [x \in X |-> IF n \in 1 .. N
                                            THEN CollapseStep(x, n - 1, marks) ELSE x]]
           x0 == [state |-> FALSE, bstart |-> 0, cidrs |-> <<>>]
<1>0. N \in Nat
  BY AddrsNat
<1>1. ASSUME NEW x \in X, NEW n \in 1 .. N PROVE CollapseStep(x, n - 1, marks) \in X
  <2>1. n - 1 \in Addrs /\ (n - 1) - 1 \in Int /\ n - 1 \in Int
    BY AddrsNat DEF Addrs
  <2>2. Sums(marks, n - 1) \in [bs : Int, ws : Int]
    BY <2>1, SumsType
  <2>. DEFINE state == CollapseState(x.state, Sums(marks, n - 1).bs, Sums(marks, n - 1).ws)
  <2>3. state \in BOOLEAN /\ x.state \in BOOLEAN
    BY <2>2 DEF CollapseState
  <2>4. Wrap((n - 1) - 1) \in Addrs
    BY <2>1, AddrsNat DEF Wrap, Addrs
  <2>5. x.cidrs \in Seq(Cidr) /\ x.bstart \in Addrs
    OBVIOUS
  <2>6. IP_range_to_cidr_list(x.cidrs, x.bstart, Wrap((n - 1) - 1)) \in Seq(Cidr)
    BY <2>4, <2>5, RangeType
  <2>. HIDE DEF state
  <2>7. CollapseStep(x, n - 1, marks)
          = [state |-> state,
             bstart |-> IF ~x.state /\ state THEN n - 1 ELSE x.bstart,
             cidrs |-> IF x.state /\ ~state
                       THEN IP_range_to_cidr_list(x.cidrs, x.bstart, Wrap((n - 1) - 1))
                       ELSE x.cidrs]
    BY DEF CollapseStep, state
  <2>. QED BY <2>1, <2>3, <2>5, <2>6, <2>7
<1>2. F \in [Nat -> [X -> X]]
  BY <1>1
<1>3. x0 \in X
  BY AddrsNat
<1>. HIDE DEF F, X, x0
<1>4. PICK g \in [0 .. N -> X] : Recursive(g, N, x0, F)
  BY <1>0, <1>2, <1>3, Iteration
<1>5. ASSUME NEW n \in 0 .. N, n # 0
      PROVE  F[n][g[n - 1]] = CollapseStep(g[n - 1], n - 1, marks)
  <2>1. n - 1 \in 0 .. N /\ n \in Nat /\ n \in 1 .. N
    BY <1>0, <1>5
  <2>2. g[n - 1] \in X
    BY <2>1
  <2>. QED BY <2>1, <2>2 DEF F
<1>6. CollapseLoop(g, marks)
  BY <1>4, <1>5 DEF Recursive, CollapseLoop, x0
<1>. DEFINE at == CHOOSE at : CollapseLoop(at, marks)
<1>7. CollapseLoop(at, marks)
  BY <1>6
<1>8. marks # <<>> => Blacklist_collapse(marks) = at[Pow2[W]].cidrs
  BY DEF Blacklist_collapse, CollapseLoop, CollapseStep
<1>. HIDE DEF at
<1>. QED BY <1>7, <1>8

LEMMA TilesHigher ==
    ASSUME NEW cidrs, NEW S, NEW hi \in Nat, NEW top \in Nat, hi <= top, Tiles(cidrs, S, hi)
    PROVE  Tiles(cidrs, S, top)
<1>1. \A i \in DOMAIN cidrs : Past(cidrs[i]) \in Nat
  <2>1. ASSUME NEW i \in DOMAIN cidrs PROVE Past(cidrs[i]) \in Nat
    <3>1. cidrs[i] \in Cidr
      BY DEF Tiles
    <3>. QED BY <3>1, PastType
  <2>. QED BY <2>1
<1>. QED BY <1>1 DEF Tiles

\* The addresses that are in a black range and in no white one.
Listed(marks) == {a \in Addrs : Sums(marks, a).bs > 0 /\ Sums(marks, a).ws = 0}

LEMMA CollapseStateIs ==
    ASSUME NEW s \in BOOLEAN, NEW bs \in Nat, NEW ws \in Nat
    PROVE  /\ CollapseState(s, bs, ws) \in BOOLEAN
           /\ CollapseState(s, bs, ws) <=> bs > 0 /\ ws = 0
<1>1. CASE ws > 0
  <2>1. CollapseState(s, bs, ws) = FALSE
    BY <1>1 DEF CollapseState
  <2>2. ws # 0
    BY <1>1
  <2>. QED BY <2>1, <2>2
<1>2. CASE ~(ws > 0) /\ ~(bs > 0)
  <2>1. bs = 0
    BY <1>2
  <2>2. CollapseState(s, bs, ws) = FALSE
    BY <1>2, <2>1 DEF CollapseState
  <2>. QED BY <1>2, <2>2
<1>3. CASE ~(ws > 0) /\ bs > 0
  <2>1. bs # 0 /\ ws = 0
    BY <1>3
  <2>2. CollapseState(s, bs, ws) = TRUE
    BY <1>3, <2>1 DEF CollapseState
  <2>. QED BY <1>3, <2>1, <2>2
<1>. QED BY <1>1, <1>2, <1>3

\* Blacklist_collapse: whatever the ranges, in whatever order, the networks are
\* those of the addresses that are in a black range and in no white one.
LEMMA CollapseTiles ==
    ASSUME NEW marks \in Seq(Mark), marks # <<>>,
           \A a \in Addrs : Sums(marks, a).bs \in Nat /\ Sums(marks, a).ws \in Nat,
           Pow2[W] - 1 \notin Listed(marks)
    PROVE  Tiles(Blacklist_collapse(marks), Listed(marks), Pow2[W])
<1>. DEFINE N == Pow2[W]
           On == Listed(marks)
           Below(n) == {a \in On : a < n}
<1>1. N \in Nat \ {0} /\ On \subseteq 0 .. N - 1 /\ Addrs = 0 .. N - 1
  BY AddrsNat DEF Listed, Addrs
<1>2. PICK at : CollapseLoop(at, marks) /\ Blacklist_collapse(marks) = at[N].cidrs
  BY CollapseLoopExists
<1>3. \A a \in Addrs : \A s \in BOOLEAN :
         LET t == CollapseState(s, Sums(marks, a).bs, Sums(marks, a).ws)
         IN  t \in BOOLEAN /\ (t <=> a \in On)
  <2>1. ASSUME NEW a \in Addrs, NEW s \in BOOLEAN
        PROVE  LET t == CollapseState(s, Sums(marks, a).bs, Sums(marks, a).ws)
               IN  t \in BOOLEAN /\ (t <=> a \in On)
    <3>1. Sums(marks, a).bs \in Nat /\ Sums(marks, a).ws \in Nat
      OBVIOUS
    <3>2. a \in On <=> Sums(marks, a).bs > 0 /\ Sums(marks, a).ws = 0
      BY DEF Listed
    <3>. HIDE DEF On
    <3>. QED BY <3>1, <3>2, CollapseStateIs
  <2>. QED BY <2>1
<1>. HIDE DEF On
<1>10. \A x \in On : x \in Nat /\ x < N
  BY <1>1
<1>. DEFINE Done(c, n) ==
              /\ c.state \in BOOLEAN /\ (c.state <=> n - 1 \in On)
              /\ IF c.state THEN /\ c.bstart \in 0 .. n - 1
                                 /\ \A a \in c.bstart .. n - 1 : a \in On
                                 /\ Tiles(c.cidrs, Below(c.bstart), c.bstart)
                 ELSE Tiles(c.cidrs, Below(n), n)
           T == {n \in 0 .. N : Done(at[n], n)}
<1>4. 0 \in T
  <2>1. at[0].state = FALSE /\ at[0].cidrs = <<>>
    BY <1>1, <1>2 DEF CollapseLoop
  <2>2. Below(0) = {}
    BY <1>10
  <2>3. Tiles(<<>>, {}, 0)
    BY DEF Tiles
  <2>4. 0 - 1 \notin On
    BY <1>1
  <2>5. Done(at[0], 0)
    <3>. HIDE DEF Below
    <3>. QED BY <2>1, <2>2, <2>3, <2>4
  <2>. QED BY <1>1, <2>5
<1>5. ASSUME NEW n \in 1 .. N, n - 1 \in T PROVE n \in T
  <2>. DEFINE c == at[n - 1]
              d == at[n]
              a == n - 1
  <2>1. Done(c, a)
    BY <1>5
  <2>2. d = CollapseStep(c, a, marks)
    <3>1. n \in 0 .. N /\ n # 0
      BY <1>1
    <3>. QED BY <1>2, <3>1 DEF CollapseLoop
  <2>3. a \in Addrs /\ a \in Nat /\ n \in Nat /\ a < n
    BY <1>1
  <2>4. c.state \in BOOLEAN
    BY <2>1
  <2>. HIDE DEF c, d
  <2>. DEFINE t == CollapseState(c.state, Sums(marks, a).bs, Sums(marks, a).ws)
  <2>5. t \in BOOLEAN /\ (t <=> a \in On)
    BY <1>3, <2>3, <2>4
  <2>6. /\ d.state = t
        /\ d.bstart = IF ~c.state /\ a \in On THEN a ELSE c.bstart
        /\ d.cidrs = IF c.state /\ a \notin On
                     THEN IP_range_to_cidr_list(c.cidrs, c.bstart, Wrap(a - 1))
                     ELSE c.cidrs
    <3>1. d = [state |-> t,
               bstart |-> IF ~c.state /\ t THEN a ELSE c.bstart,
               cidrs |-> IF c.state /\ ~t
                         THEN IP_range_to_cidr_list(c.cidrs, c.bstart, Wrap(a - 1))
                         ELSE c.cidrs]
      BY <2>2 DEF CollapseStep
    <3>. HIDE DEF t
    <3>. QED BY <2>5, <3>1
  <2>. HIDE DEF t
  <2>7. CASE c.state /\ a \notin On
    <3>1. /\ c.bstart \in 0 .. a - 1
          /\ \A x \in c.bstart .. a - 1 : x \in On
          /\ Tiles(c.cidrs, Below(c.bstart), c.bstart)
      BY <2>1, <2>7
    <3>2. a - 1 \in Nat /\ c.bstart \in Addrs /\ a - 1 \in Addrs /\ (a - 1) + 1 = a /\ c.bstart \in Nat
      BY <1>1, <2>3, <3>1
    <3>3. Wrap(a - 1) = a - 1
      BY <3>2, WrapType
    <3>. DEFINE e == a - 1
    <3>4. e \in Nat /\ e + 1 \in Addrs /\ c.bstart <= e
      BY <2>3, <3>1, <3>2
    <3>. HIDE DEF e
    <3>5. Tiles(IP_range_to_cidr_list(c.cidrs, c.bstart, e), Below(c.bstart) \cup c.bstart .. e, e + 1)
      BY <3>1, <3>2, <3>4, RangeExact
    <3>6. Below(c.bstart) \cup c.bstart .. e = Below(n)
      <4>1. ASSUME NEW x \in Below(c.bstart) \cup c.bstart .. e PROVE x \in Below(n)
        BY <1>1, <2>3, <3>1, <3>2 DEF e
      <4>2. ASSUME NEW x \in Below(n) PROVE x \in Below(c.bstart) \cup c.bstart .. e
        <5>1. x \in Nat /\ x # a /\ x < n
          BY <1>1, <2>7
        <5>2. x < c.bstart \/ x \in c.bstart .. e
          BY <2>3, <3>2, <5>1 DEF e
        <5>. QED BY <5>2
      <4>. QED BY <4>1, <4>2
    <3>7. Tiles(d.cidrs, Below(n), a)
      BY <2>6, <2>7, <3>2, <3>3, <3>5, <3>6 DEF e
    <3>8. Tiles(d.cidrs, Below(n), n)
      BY <2>3, <3>7, TilesHigher
    <3>9. Done(d, n)
      BY <2>5, <2>6, <2>7, <3>8
    <3>. QED BY <1>1, <3>9 DEF d
  <2>8. CASE c.state /\ a \in On
    <3>1. /\ c.bstart \in 0 .. a - 1
          /\ \A x \in c.bstart .. a - 1 : x \in On
          /\ Tiles(c.cidrs, Below(c.bstart), c.bstart)
      BY <2>1, <2>8
    <3>2. c.bstart \in 0 .. n - 1 /\ \A x \in c.bstart .. n - 1 : x \in On
      BY <2>3, <2>8, <3>1
    <3>3. Done(d, n)
      BY <2>5, <2>6, <2>8, <3>1, <3>2
    <3>. QED BY <1>1, <3>3 DEF d
  <2>9. CASE ~c.state /\ a \in On
    <3>1. Tiles(c.cidrs, Below(a), a)
      BY <2>1, <2>9
    <3>2. a \in 0 .. n - 1 /\ \A x \in a .. n - 1 : x \in On
      BY <2>3, <2>9
    <3>3. Done(d, n)
      BY <2>5, <2>6, <2>9, <3>1, <3>2
    <3>. QED BY <1>1, <3>3 DEF d
  <2>10. CASE ~c.state /\ a \notin On
    <3>1. Tiles(c.cidrs, Below(a), a)
      BY <2>1, <2>10
    <3>2. Below(a) = Below(n)
      <4>1. \A x \in On : x < n <=> x < a
        BY <1>10, <2>3, <2>10
      <4>. QED BY <4>1
    <3>3. Tiles(c.cidrs, Below(n), n)
      <4>1. Tiles(c.cidrs, Below(n), a)
        BY <3>1, <3>2
      <4>. QED BY <2>3, <4>1, TilesHigher
    <3>4. Done(d, n)
      BY <2>5, <2>6, <2>10, <3>3
    <3>. QED BY <1>1, <3>4 DEF d
  <2>. QED BY <2>4, <2>7, <2>8, <2>9, <2>10
<1>. HIDE DEF T
<1>6. 0 .. N \subseteq T
  BY <1>1, <1>4, <1>5, UpTo
<1>7. Done(at[N], N)
  <2>1. N \in T
    BY <1>1, <1>6
  <2>. HIDE DEF Done
  <2>. QED BY <2>1 DEF T
<1>8. N - 1 \notin On
  BY DEF On
<1>9. Below(N) = On
  BY <1>10
<1>. QED BY <1>2, <1>7, <1>8, <1>9 DEF On
----------------------------------------------------------------------------
(* The hash table. *)

Probe(size, k, n) == (HashOf[k] + n) % size

LEMMA ProbeType ==
    ASSUME NEW size \in Nat \ {0}, NEW k \in DOMAIN HashOf, NEW n \in Nat
    PROVE  Probe(size, k, n) \in 0 .. size - 1
<1>1. HashOf[k] + n \in Nat
  BY IpListsAssumption
<1>. QED BY <1>1, DivMod DEF Probe

\* Linear probing comes to every place.
LEMMA ProbeReaches ==
    ASSUME NEW size \in Nat \ {0}, NEW k \in DOMAIN HashOf, NEW i \in 0 .. size - 1
    PROVE  \E n \in 0 .. size - 1 : Probe(size, k, n) = i
<1>. DEFINE q == HashOf[k] \div size
           r == HashOf[k] % size
<1>1. HashOf[k] \in Nat
  BY IpListsAssumption
<1>2. q \in Nat /\ r \in 0 .. size - 1 /\ HashOf[k] = size * q + r
  BY <1>1, DivMod
<1>. HIDE DEF q, r
<1>3. CASE r <= i
  <2>1. i - r \in 0 .. size - 1 /\ HashOf[k] + (i - r) = size * q + i
    BY <1>2, <1>3
  <2>2. (size * q + i) % size = i
    BY <1>2, DivModUnique
  <2>. QED BY <2>1, <2>2 DEF Probe
<1>4. CASE ~(r <= i)
  <2>1. (i - r) + size \in 0 .. size - 1
    BY <1>2, <1>4
  <2>2. size * (q + 1) = size * q + size
    BY <1>2
  <2>3. HashOf[k] + ((i - r) + size) = size * (q + 1) + i
    BY <1>2, <2>2
  <2>4. (size * (q + 1) + i) % size = i
    <3>1. q + 1 \in Nat
      BY <1>2
    <3>. QED BY <3>1, DivModUnique
  <2>. QED BY <2>1, <2>3, <2>4 DEF Probe
<1>. QED BY <1>3, <1>4

Stops(h, k) ==
    {n \in 0 .. h.size - 1 : Probe(h.size, k, n) \in DOMAIN h.entries
                                => h.entries[Probe(h.size, k, n)].k = k}

LEMMA FindIs ==
    ASSUME NEW h, NEW k
    PROVE  Hash_find_entry(h, k)
             = Probe(h.size, k, IF Stops(h, k) = {} THEN h.size - 1 ELSE Min(Stops(h, k)))
BY DEF Hash_find_entry, Probe, Stops

LEMMA FindType ==
    ASSUME NEW h, NEW k \in DOMAIN HashOf, h.size \in Nat \ {0}
    PROVE  Hash_find_entry(h, k) \in 0 .. h.size - 1
<1>1. Stops(h, k) \in SUBSET Nat
  BY DEF Stops
<1>2. Stops(h, k) # {} => Min(Stops(h, k)) \in Nat
  BY <1>1, MinNat
<1>3. (IF Stops(h, k) = {} THEN h.size - 1 ELSE Min(Stops(h, k))) \in Nat
  BY <1>2
<1>. QED BY <1>3, FindIs, ProbeType

\* No key is twice in the table, and probing for a key that is there passes
\* over other entries only.
HashOK(h) ==
    /\ h.size \in Nat \ {0} /\ h.num \in Nat
    /\ h.entries = [i \in DOMAIN h.entries |-> h.entries[i]]
    /\ DOMAIN h.entries \subseteq 0 .. h.size - 1
    /\ \A i \in DOMAIN h.entries : h.entries[i].k \in DOMAIN HashOf
    /\ \A i, j \in DOMAIN h.entries : h.entries[i].k = h.entries[j].k => i = j
    /\ \A i \in DOMAIN h.entries :
          \E n \in 0 .. h.size - 1 :
             /\ Probe(h.size, h.entries[i].k, n) = i
             /\ \A m \in 0 .. n - 1 : Probe(h.size, h.entries[i].k, m) \in DOMAIN h.entries \ {i}
    /\ h.num = Cardinality(DOMAIN h.entries)
    /\ h.num = Cardinality(Hash_keys(h))
    /\ IsFiniteSet(Hash_keys(h))

LEMMA MinIs ==
    ASSUME NEW S \in SUBSET Nat, NEW n \in S, \A m \in 0 .. n - 1 : m \notin S
    PROVE  Min(S) = n
<1>1. Min(S) \in S /\ Min(S) <= n
  BY MinNat
<1>2. Min(S) \in Nat /\ n \in Nat
  BY <1>1
<1>3. ~(Min(S) \in 0 .. n - 1)
  BY <1>1
<1>. QED BY <1>1, <1>2, <1>3

\* A key that is there is found.
LEMMA FindsKey ==
    ASSUME NEW h, HashOK(h), NEW i \in DOMAIN h.entries
    PROVE  /\ Hash_find_entry(h, h.entries[i].k) = i
           /\ Hash_get(h, h.entries[i].k) = h.entries[i].v
<1>. DEFINE k == h.entries[i].k
<1>1. PICK n \in 0 .. h.size - 1 :
         /\ Probe(h.size, k, n) = i
         /\ \A m \in 0 .. n - 1 : Probe(h.size, k, m) \in DOMAIN h.entries \ {i}
  BY DEF HashOK
<1>2. Stops(h, k) \in SUBSET Nat /\ h.size \in Nat
  BY DEF HashOK, Stops
<1>3. n \in Stops(h, k)
  BY <1>1 DEF Stops
<1>4. ASSUME NEW m \in 0 .. n - 1 PROVE m \notin Stops(h, k)
  <2>1. Probe(h.size, k, m) \in DOMAIN h.entries \ {i}
    BY <1>1
  <2>2. h.entries[Probe(h.size, k, m)].k # k
    BY <2>1 DEF HashOK
  <2>. QED BY <2>1, <2>2 DEF Stops
<1>. HIDE DEF k
<1>5. Min(Stops(h, k)) = n
  BY <1>2, <1>3, <1>4, MinIs
<1>6. Hash_find_entry(h, k) = i
  BY <1>1, <1>3, <1>5, FindIs
<1>. QED BY <1>6 DEF Hash_get, k

\* For another key a free place is found, if there is one.
LEMMA FindsFree ==
    ASSUME NEW h, HashOK(h), NEW k \in DOMAIN HashOf, k \notin Hash_keys(h), h.num < h.size
    PROVE  \E n \in 0 .. h.size - 1 :
              /\ Hash_find_entry(h, k) = Probe(h.size, k, n)
              /\ Hash_find_entry(h, k) \notin DOMAIN h.entries
              /\ \A m \in 0 .. n - 1 : Probe(h.size, k, m) \in DOMAIN h.entries
<1>1. h.size \in Nat \ {0} /\ DOMAIN h.entries \subseteq 0 .. h.size - 1
  BY DEF HashOK
<1>2. Cardinality(0 .. h.size - 1) = h.size
  <2>1. 0 \in Int /\ h.size - 1 \in Int
    BY <1>1
  <2>2. Cardinality(0 .. h.size - 1) = IF 0 > h.size - 1 THEN 0 ELSE (h.size - 1) - 0 + 1
    BY <2>1, FS_Interval
  <2>. QED BY <1>1, <2>2
<1>3. PICK i \in 0 .. h.size - 1 : i \notin DOMAIN h.entries
  <2>1. SUFFICES ASSUME DOMAIN h.entries = 0 .. h.size - 1 PROVE FALSE
    BY <1>1
  <2>2. h.num = h.size
    BY <1>2, <2>1 DEF HashOK
  <2>. QED BY <1>1, <2>2
<1>4. PICK p \in 0 .. h.size - 1 : Probe(h.size, k, p) = i
  BY <1>1, ProbeReaches
<1>5. p \in Stops(h, k) /\ Stops(h, k) \in SUBSET Nat
  BY <1>1, <1>3, <1>4 DEF Stops
<1>. DEFINE n == Min(Stops(h, k))
<1>6. n \in Stops(h, k) /\ \A m \in Stops(h, k) : n <= m
  BY <1>5, MinNat
<1>7. Hash_find_entry(h, k) = Probe(h.size, k, n)
  BY <1>5, FindIs
<1>. HIDE DEF n
<1>8. \A j \in DOMAIN h.entries : h.entries[j].k # k
  BY DEF Hash_keys
<1>9. n \in 0 .. h.size - 1 /\ Probe(h.size, k, n) \notin DOMAIN h.entries
  BY <1>6, <1>8 DEF Stops
<1>10. ASSUME NEW m \in 0 .. n - 1 PROVE Probe(h.size, k, m) \in DOMAIN h.entries
  <2>1. m \in 0 .. h.size - 1 /\ ~(n <= m)
    BY <1>1, <1>9
  <2>2. m \notin Stops(h, k)
    BY <1>6, <2>1
  <2>. QED BY <2>1, <2>2 DEF Stops
<1>. QED BY <1>7, <1>9, <1>10

\* Hash_insert, once the table is large enough.
LEMMA PutOK ==
    ASSUME NEW h, HashOK(h), NEW e, e.k \in DOMAIN HashOf,
           e.k \in Hash_keys(h) \/ h.num < h.size
    PROVE  /\ HashOK(Put(h, e))
           /\ Put(h, e).size = h.size
           /\ Put(h, e).num = IF e.k \in Hash_keys(h) THEN h.num ELSE h.num + 1
           /\ Hash_keys(Put(h, e)) = Hash_keys(h) \cup {e.k}
           /\ Hash_get(Put(h, e), e.k) = e.v
           /\ \A k \in Hash_keys(h) : k # e.k => Hash_get(Put(h, e), k) = Hash_get(h, k)
<1>. DEFINE i == Hash_find_entry(h, e.k)
           D == DOMAIN h.entries
           p == Put(h, e)
<1>1. /\ p.size = h.size /\ p.num = IF i \in D THEN h.num ELSE h.num + 1
      /\ p.entries = [j \in D \cup {i} |-> IF j = i THEN e ELSE h.entries[j]]
  BY DEF Put, Set
<1>2. i \in 0 .. h.size - 1
  BY FindType DEF HashOK
<1>3. /\ i \in D <=> e.k \in Hash_keys(h)
      /\ i \in D => h.entries[i].k = e.k
      /\ \E n \in 0 .. h.size - 1 :
            /\ i = Probe(h.size, e.k, n)
            /\ \A m \in 0 .. n - 1 : Probe(h.size, e.k, m) \in D \ {i}
  <2>1. CASE e.k \in Hash_keys(h)
    <3>1. PICK j \in D : h.entries[j].k = e.k
      BY <2>1 DEF Hash_keys
    <3>2. i = j
      BY <3>1, FindsKey
    <3>. HIDE DEF i
    <3>3. \E n \in 0 .. h.size - 1 :
             /\ Probe(h.size, h.entries[j].k, n) = j
             /\ \A m \in 0 .. n - 1 : Probe(h.size, h.entries[j].k, m) \in D \ {j}
      BY DEF HashOK
    <3>. QED BY <2>1, <3>1, <3>2, <3>3
  <2>2. CASE e.k \notin Hash_keys(h)
    <3>1. PICK n \in 0 .. h.size - 1 :
             /\ i = Probe(h.size, e.k, n) /\ i \notin D
             /\ \A m \in 0 .. n - 1 : Probe(h.size, e.k, m) \in D
      BY <2>2, FindsFree
    <3>. HIDE DEF i
    <3>2. \A m \in 0 .. n - 1 : Probe(h.size, e.k, m) \in D \ {i}
      BY <3>1
    <3>. QED BY <2>2, <3>1, <3>2
  <2>. QED BY <2>1, <2>2
<1>. HIDE DEF i, p
<1>4. /\ DOMAIN p.entries = D \cup {i} /\ p.entries[i] = e
      /\ \A j \in D \ {i} : p.entries[j] = h.entries[j]
  BY <1>1
<1>5. Hash_keys(p) = Hash_keys(h) \cup {e.k}
  <2>1. Hash_keys(p) = {p.entries[j].k : j \in D \cup {i}}
    BY <1>4 DEF Hash_keys
  <2>2. Hash_keys(h) = {h.entries[j].k : j \in D}
    BY DEF Hash_keys
  <2>3. ASSUME NEW x \in Hash_keys(p) PROVE x \in Hash_keys(h) \cup {e.k}
    BY <1>4, <2>1, <2>2
  <2>4. ASSUME NEW x \in Hash_keys(h) \cup {e.k} PROVE x \in Hash_keys(p)
    <3>1. CASE x = e.k
      BY <1>4, <2>1, <3>1
    <3>2. CASE x # e.k
      <4>1. PICK j \in D : x = h.entries[j].k
        BY <2>2, <3>2
      <4>2. j # i
        BY <1>3, <3>2, <4>1
      <4>. QED BY <1>4, <2>1, <4>1, <4>2
    <3>. QED BY <3>1, <3>2
  <2>. QED BY <2>3, <2>4
<1>6. \A j \in D : h.entries[j].k = e.k => j = i
  <2>1. ASSUME NEW j \in D, h.entries[j].k = e.k PROVE j = i
    <3>1. i \in D
      BY <1>3, <2>1 DEF Hash_keys
    <3>2. h.entries[i].k = h.entries[j].k
      BY <1>3, <2>1, <3>1
    <3>. QED BY <3>1, <3>2 DEF HashOK
  <2>. QED BY <2>1
<1>7. \A j, l \in DOMAIN p.entries : p.entries[j].k = p.entries[l].k => j = l
  <2>1. ASSUME NEW j \in D \cup {i}, NEW l \in D \cup {i}, p.entries[j].k = p.entries[l].k
        PROVE  j = l
    <3>1. CASE j \in D \ {i} /\ l \in D \ {i}
      BY <1>4, <2>1, <3>1 DEF HashOK
    <3>2. CASE j = i /\ l \in D \ {i}
      BY <1>4, <1>6, <2>1, <3>2
    <3>3. CASE l = i /\ j \in D \ {i}
      BY <1>4, <1>6, <2>1, <3>3
    <3>. QED BY <3>1, <3>2, <3>3
  <2>. QED BY <1>4, <2>1
<1>8. ASSUME NEW j \in D \cup {i}
      PROVE  \E n \in 0 .. h.size - 1 :
                /\ Probe(h.size, p.entries[j].k, n) = j
                /\ \A m \in 0 .. n - 1 : Probe(h.size, p.entries[j].k, m) \in (D \cup {i}) \ {j}
  <2>1. CASE j = i
    BY <1>3, <1>4, <2>1
  <2>2. CASE j \in D \ {i}
    <3>1. \E n \in 0 .. h.size - 1 :
             /\ Probe(h.size, h.entries[j].k, n) = j
             /\ \A m \in 0 .. n - 1 : Probe(h.size, h.entries[j].k, m) \in D \ {j}
      BY <2>2 DEF HashOK
    <3>. QED BY <1>4, <2>2, <3>1
  <2>. QED BY <2>1, <2>2
<1>9. IsFiniteSet(D) /\ IsFiniteSet(Hash_keys(h))
  <2>1. h.size \in Nat /\ D \subseteq 0 .. h.size - 1
    BY DEF HashOK
  <2>2. IsFiniteSet(0 .. h.size - 1)
    <3>1. 0 \in Int /\ h.size - 1 \in Int
      BY <2>1
    <3>. QED BY <3>1, FS_Interval
  <2>3. IsFiniteSet(D)
    BY <2>1, <2>2, FS_Subset
  <2>. QED BY <2>3 DEF HashOK
<1>10. /\ p.num = Cardinality(D \cup {i}) /\ p.num = Cardinality(Hash_keys(p))
       /\ IsFiniteSet(Hash_keys(p)) /\ p.num \in Nat
  <2>1. h.num = Cardinality(D) /\ h.num = Cardinality(Hash_keys(h)) /\ h.num \in Nat
    BY DEF HashOK
  <2>2. CASE i \in D
    <3>1. D \cup {i} = D /\ Hash_keys(p) = Hash_keys(h) /\ p.num = h.num
      BY <1>1, <1>3, <1>5, <2>2
    <3>. QED BY <1>9, <2>1, <3>1
  <2>3. CASE i \notin D
    <3>1. Cardinality(D \cup {i}) = Cardinality(D) + 1
      BY <1>9, <2>3, FS_AddElement
    <3>2. e.k \notin Hash_keys(h)
      BY <1>3, <2>3
    <3>3. /\ Cardinality(Hash_keys(h) \cup {e.k}) = Cardinality(Hash_keys(h)) + 1
          /\ IsFiniteSet(Hash_keys(h) \cup {e.k})
      BY <1>9, <3>2, FS_AddElement
    <3>. QED BY <1>1, <1>5, <2>1, <2>3, <3>1, <3>3
  <2>. QED BY <2>2, <2>3
<1>11. HashOK(p)
  <2>1. h.size \in Nat \ {0} /\ D \subseteq 0 .. h.size - 1
    BY DEF HashOK
  <2>2. D \cup {i} \subseteq 0 .. h.size - 1
    BY <1>2, <2>1
  <2>3. p.entries = [j \in DOMAIN p.entries |-> p.entries[j]]
    BY <1>1
  <2>4. \A j \in D \cup {i} : p.entries[j].k \in DOMAIN HashOf
    BY <1>4 DEF HashOK
  <2>5. p.size \in Nat \ {0} /\ p.num \in Nat /\ DOMAIN p.entries \subseteq 0 .. p.size - 1
    BY <1>1, <1>4, <1>10, <2>1, <2>2
  <2>6. \A j \in DOMAIN p.entries : p.entries[j].k \in DOMAIN HashOf
    BY <1>4, <2>4
  <2>7. \A j \in DOMAIN p.entries :
           \E n \in 0 .. p.size - 1 :
              /\ Probe(p.size, p.entries[j].k, n) = j
              /\ \A m \in 0 .. n - 1 :
                    Probe(p.size, p.entries[j].k, m) \in DOMAIN p.entries \ {j}
    BY <1>1, <1>4, <1>8
  <2>8. /\ p.num = Cardinality(DOMAIN p.entries)
        /\ p.num = Cardinality(Hash_keys(p)) /\ IsFiniteSet(Hash_keys(p))
    BY <1>4, <1>10
  <2>. QED BY <1>7, <2>3, <2>5, <2>6, <2>7, <2>8, Zenon DEF HashOK
<1>12. Hash_get(p, e.k) = e.v
  BY <1>4, <1>11, FindsKey
<1>13. ASSUME NEW k \in Hash_keys(h), k # e.k PROVE Hash_get(p, k) = Hash_get(h, k)
  <2>1. PICK j \in D : h.entries[j].k = k
    BY DEF Hash_keys
  <2>2. j # i
    BY <1>3, <1>13, <2>1
  <2>3. p.entries[j] = h.entries[j] /\ j \in DOMAIN p.entries
    BY <1>4, <2>1, <2>2
  <2>4. Hash_get(h, k) = h.entries[j].v
    BY <2>1, FindsKey
  <2>5. Hash_get(p, k) = p.entries[j].v
    BY <1>11, <2>1, <2>3, FindsKey
  <2>. QED BY <2>3, <2>4, <2>5
<1>. QED BY <1>1, <1>3, <1>5, <1>11, <1>12, <1>13 DEF p

LEMMA CreateOK ==
    ASSUME NEW size \in Nat \ {0}
    PROVE  /\ HashOK(Hash_create(size)) /\ Hash_keys(Hash_create(size)) = {}
           /\ Hash_create(size).size = size /\ Hash_create(size).num = 0
<1>. DEFINE h == Hash_create(size)
<1>1. /\ h.size = size /\ h.num = 0 /\ DOMAIN h.entries = {}
      /\ h.entries = [i \in DOMAIN h.entries |-> h.entries[i]]
  BY DEF Hash_create
<1>. HIDE DEF h
<1>2. Hash_keys(h) = {}
  BY <1>1 DEF Hash_keys
<1>3. IsFiniteSet({}) /\ Cardinality({}) = 0
  BY FS_EmptySet
<1>4. HashOK(h)
  BY <1>1, <1>2, <1>3 DEF HashOK
<1>. QED BY <1>1, <1>2, <1>4 DEF h
MoveStep(m, i, h) == IF i \in DOMAIN h.entries THEN Put(m, h.entries[i]) ELSE m

MoveLoop(moved, h) ==
    moved = [n \in 0 .. h.size |-> IF n = 0 THEN Hash_create(2 * h.size)
                                   ELSE MoveStep(moved[n - 1], n - 1, h)]

LEMMA MoveLoopExists ==
    ASSUME NEW h, HashOK(h)
    PROVE  \E moved : MoveLoop(moved, h) /\ Hash_resize(h) = moved[h.size]
<1>. DEFINE E == {h.entries[i] : i \in DOMAIN h.entries}
           P == UNION {[S -> E] : S \in SUBSET (0 .. 2 * h.size - 1)}
           X == [size : {2 * h.size}, num : Nat, entries : P]
           F == [n \in Nat |-> [m \in X |-> MoveStep(m, n - 1, h)]]
           x0 == Hash_create(2 * h.size)
<1>1. /\ h.size \in Nat /\ 2 * h.size \in Nat \ {0}
      /\ \A i \in DOMAIN h.entries : h.entries[i].k \in DOMAIN HashOf
  BY DEF HashOK
<1>2. ASSUME NEW m \in X, NEW n \in Nat PROVE MoveStep(m, n - 1, h) \in X
  <2>1. CASE n - 1 \in DOMAIN h.entries
    <3>. DEFINE e == h.entries[n - 1]
                i == Hash_find_entry(m, e.k)
    <3>1. e \in E /\ e.k \in DOMAIN HashOf
      BY <1>1, <2>1
    <3>2. m.size = 2 * h.size /\ m.num \in Nat /\ m.entries \in P
      OBVIOUS
    <3>3. i \in 0 .. 2 * h.size - 1
      <4>1. m.size \in Nat \ {0}
        BY <1>1, <3>2
      <4>. QED BY <3>1, <3>2, <4>1, FindType
    <3>. HIDE DEF e, i, E
    <3>4. PICK S \in SUBSET (0 .. 2 * h.size - 1) : m.entries \in [S -> E]
      BY <3>2
    <3>5. Set(m.entries, i, e) \in [S \cup {i} -> E]
      BY <3>1, <3>4 DEF Set
    <3>6. S \cup {i} \in SUBSET (0 .. 2 * h.size - 1)
      BY <3>3, <3>4
    <3>7. Set(m.entries, i, e) \in P
      BY <3>5, <3>6
    <3>. HIDE DEF P
    <3>8. Put(m, e) \in X
      BY <3>2, <3>7 DEF Put, i
    <3>. QED BY <2>1, <3>8 DEF MoveStep, e
  <2>2. CASE n - 1 \notin DOMAIN h.entries
    BY <2>2 DEF MoveStep
  <2>. QED BY <2>1, <2>2
<1>3. F \in [Nat -> [X -> X]]
  <2>. HIDE DEF X
  <2>. QED BY <1>2
<1>4. x0 \in X
  <2>1. [i \in {} |-> Nil] \in [{} -> E]
    OBVIOUS
  <2>2. [i \in {} |-> Nil] \in P
    BY <2>1
  <2>. HIDE DEF P
  <2>. QED BY <2>2 DEF Hash_create
<1>. HIDE DEF F, X, x0
<1>5. PICK g \in [0 .. h.size -> X] : Recursive(g, h.size, x0, F)
  BY <1>1, <1>3, <1>4, Iteration
<1>6. ASSUME NEW n \in 0 .. h.size, n # 0 PROVE F[n][g[n - 1]] = MoveStep(g[n - 1], n - 1, h)
  <2>1. n - 1 \in 0 .. h.size /\ n \in Nat
    BY <1>1, <1>6
  <2>2. g[n - 1] \in X
    BY <2>1
  <2>. QED BY <2>1, <2>2 DEF F
<1>7. MoveLoop(g, h)
  BY <1>5, <1>6 DEF Recursive, MoveLoop, x0
<1>. DEFINE moved == CHOOSE moved : MoveLoop(moved, h)
<1>8. MoveLoop(moved, h)
  BY <1>7
<1>9. Hash_resize(h) = moved[h.size]
  BY DEF Hash_resize, MoveLoop, MoveStep
<1>. HIDE DEF moved
<1>. QED BY <1>8, <1>9

\* A table that is doubled keeps its entries.
LEMMA ResizeOK ==
    ASSUME NEW h, HashOK(h)
    PROVE  LET r == Hash_resize(h)
           IN  /\ HashOK(r) /\ r.num < r.size /\ Hash_keys(r) = Hash_keys(h)
               /\ \A k \in Hash_keys(h) : Hash_get(r, k) = Hash_get(h, k)
<1>1. PICK moved : MoveLoop(moved, h) /\ Hash_resize(h) = moved[h.size]
  BY MoveLoopExists
<1>. DEFINE D == DOMAIN h.entries
           Keys(n) == {h.entries[i].k : i \in {j \in D : j < n}}
           Done(m, n) == /\ HashOK(m) /\ m.size = 2 * h.size /\ m.num <= n
                         /\ Hash_keys(m) = Keys(n)
                         /\ \A i \in D : i < n => Hash_get(m, h.entries[i].k) = h.entries[i].v
           T == {n \in 0 .. h.size : Done(moved[n], n)}
<1>2. /\ h.size \in Nat \ {0} /\ D \subseteq 0 .. h.size - 1
      /\ \A i \in D : h.entries[i].k \in DOMAIN HashOf
      /\ \A i, j \in D : h.entries[i].k = h.entries[j].k => i = j
  BY DEF HashOK
<1>3. 0 \in T
  <2>1. moved[0] = Hash_create(2 * h.size)
    BY <1>1, <1>2 DEF MoveLoop
  <2>2. 2 * h.size \in Nat \ {0}
    BY <1>2
  <2>3. \A i \in D : ~(i < 0)
    BY <1>2
  <2>4. Keys(0) = {}
    BY <2>3
  <2>5. Done(Hash_create(2 * h.size), 0)
    BY <2>2, <2>3, <2>4, CreateOK
  <2>. HIDE DEF Done
  <2>. QED BY <1>2, <2>1, <2>5
<1>4. ASSUME NEW n \in 1 .. h.size, n - 1 \in T PROVE n \in T
  <2>. DEFINE m == moved[n - 1]
              a == n - 1
              e == h.entries[a]
  <2>1. Done(m, a)
    BY <1>4
  <2>2. moved[n] = MoveStep(m, a, h)
    <3>1. n \in 0 .. h.size /\ n # 0
      BY <1>2
    <3>. QED BY <1>1, <3>1 DEF MoveLoop
  <2>3. a \in Nat /\ a < n /\ n \in Nat /\ n <= h.size /\ \A i \in D : i < n <=> i < a \/ i = a
    BY <1>2
  <2>. HIDE DEF m, a
  <2>4. CASE a \in D
    <3>1. moved[n] = Put(m, e)
      BY <2>2, <2>4 DEF MoveStep
    <3>2. e.k \in DOMAIN HashOf
      BY <1>2, <2>4
    <3>3. e.k \notin Hash_keys(m)
      <4>1. \A i \in D : i < a => h.entries[i].k # e.k
        BY <1>2, <2>3, <2>4
      <4>. QED BY <2>1, <4>1
    <3>4. m.num < m.size /\ m.num \in Nat
      BY <1>2, <2>1, <2>3 DEF HashOK
    <3>. DEFINE p == Put(m, e)
    <3>5. /\ HashOK(p) /\ p.size = m.size /\ p.num = m.num + 1
          /\ Hash_keys(p) = Hash_keys(m) \cup {e.k} /\ Hash_get(p, e.k) = e.v
          /\ \A k \in Hash_keys(m) : k # e.k => Hash_get(p, k) = Hash_get(m, k)
      BY <2>1, <3>2, <3>3, <3>4, PutOK
    <3>. HIDE DEF p
    <3>6. Keys(n) = Keys(a) \cup {e.k}
      BY <2>3, <2>4
    <3>7. ASSUME NEW i \in D, i < n PROVE Hash_get(p, h.entries[i].k) = h.entries[i].v
      <4>1. CASE i = a
        BY <3>5, <4>1
      <4>2. CASE i < a
        <5>1. h.entries[i].k \in Keys(a)
          BY <4>2
        <5>2. h.entries[i].k \in Hash_keys(m) /\ Hash_get(m, h.entries[i].k) = h.entries[i].v
          BY <2>1, <4>2, <5>1
        <5>3. h.entries[i].k # e.k
          BY <3>3, <5>2
        <5>. QED BY <3>5, <5>2, <5>3
      <4>. QED BY <2>3, <3>7, <4>1, <4>2
    <3>8. p.num <= n /\ p.size = 2 * h.size
      BY <2>1, <2>3, <3>4, <3>5 DEF a
    <3>9. Hash_keys(p) = Keys(n)
      BY <2>1, <3>5, <3>6
    <3>10. Done(p, n)
      BY <3>5, <3>7, <3>8, <3>9
    <3>. HIDE DEF Done
    <3>. QED BY <1>2, <3>1, <3>10 DEF p
  <2>5. CASE a \notin D
    <3>1. moved[n] = m
      BY <2>2, <2>5 DEF MoveStep
    <3>2. \A i \in D : i < n <=> i < a
      BY <2>3, <2>5
    <3>3. Keys(n) = Keys(a)
      BY <3>2
    <3>4. m.num <= n
      BY <2>1, <2>3 DEF HashOK
    <3>5. Done(m, n)
      BY <2>1, <3>2, <3>3, <3>4
    <3>. HIDE DEF Done
    <3>. QED BY <1>2, <3>1, <3>5
  <2>. QED BY <2>4, <2>5
<1>. HIDE DEF T
<1>5. 0 .. h.size \subseteq T
  BY <1>2, <1>3, <1>4, UpTo
<1>. DEFINE r == Hash_resize(h)
<1>6. Done(r, h.size)
  <2>1. h.size \in T
    BY <1>2, <1>5
  <2>. HIDE DEF Done
  <2>. QED BY <1>1, <2>1 DEF T
<1>. HIDE DEF r
<1>7. \A i \in D : i < h.size
  BY <1>2
<1>8. Hash_keys(r) = Hash_keys(h)
  <2>1. Keys(h.size) = {h.entries[i].k : i \in D}
    BY <1>7
  <2>. QED BY <1>6, <2>1 DEF Hash_keys
<1>9. ASSUME NEW k \in Hash_keys(h) PROVE Hash_get(r, k) = Hash_get(h, k)
  <2>1. PICK i \in D : h.entries[i].k = k
    BY DEF Hash_keys
  <2>2. Hash_get(h, k) = h.entries[i].v
    BY <2>1, FindsKey
  <2>. QED BY <1>6, <1>7, <2>1, <2>2
<1>10. r.num < r.size
  BY <1>2, <1>6 DEF HashOK
<1>. QED BY <1>6, <1>8, <1>9, <1>10 DEF r

\* hash.c: a key has the value that it was given last, and the others keep
\* theirs, whatever collides and however the table grows.
LEMMA InsertOK ==
    ASSUME NEW h, HashOK(h), NEW k \in DOMAIN HashOf, NEW v
    PROVE  LET i == Hash_insert(h, k, v)
           IN  /\ HashOK(i)
               /\ Hash_keys(i) = Hash_keys(h) \cup {k}
               /\ Hash_get(i, k) = v
               /\ \A n \in Hash_keys(h) : n # k => Hash_get(i, n) = Hash_get(h, n)
<1>. DEFINE e == [k |-> k, v |-> v]
           m == IF h.num >= h.size THEN Hash_resize(h) ELSE h
<1>1. e.k = k /\ e.v = v
  OBVIOUS
<1>2. /\ HashOK(m) /\ m.num < m.size /\ Hash_keys(m) = Hash_keys(h)
      /\ \A n \in Hash_keys(h) : Hash_get(m, n) = Hash_get(h, n)
  <2>1. CASE h.num >= h.size
    BY <2>1, ResizeOK
  <2>2. CASE ~(h.num >= h.size)
    BY <2>2 DEF HashOK
  <2>. QED BY <2>1, <2>2
<1>3. Hash_insert(h, k, v) = Put(m, e)
  BY DEF Hash_insert
<1>. HIDE DEF e, m
<1>4. /\ HashOK(Put(m, e)) /\ Hash_keys(Put(m, e)) = Hash_keys(m) \cup {k}
      /\ Hash_get(Put(m, e), k) = v
      /\ \A n \in Hash_keys(m) : n # k => Hash_get(Put(m, e), n) = Hash_get(m, n)
  BY <1>1, <1>2, PutOK
<1>. QED BY <1>2, <1>3, <1>4

LEMMA NumBounded ==
    ASSUME NEW h, HashOK(h)
    PROVE  h.num <= h.size
<1>1. h.size \in Nat /\ DOMAIN h.entries \subseteq 0 .. h.size - 1
  BY DEF HashOK
<1>2. /\ IsFiniteSet(0 .. h.size - 1)
      /\ Cardinality(0 .. h.size - 1) = IF 0 > h.size - 1 THEN 0 ELSE (h.size - 1) - 0 + 1
  <2>1. 0 \in Int /\ h.size - 1 \in Int
    BY <1>1
  <2>. QED BY <2>1, FS_Interval
<1>3. Cardinality(DOMAIN h.entries) <= Cardinality(0 .. h.size - 1)
  BY <1>1, <1>2, FS_Subset
<1>4. h.num = Cardinality(DOMAIN h.entries) /\ h.num \in Nat
  BY DEF HashOK
<1>. QED BY <1>1, <1>2, <1>3, <1>4
----------------------------------------------------------------------------
(* Bits of addresses. *)

LEMMA DivHalf ==
    ASSUME NEW a \in Nat, NEW s \in Nat \ {0}
    PROVE  a \div s = 2 * (a \div (2 * s)) + ((a \div s) % 2)
<1>. DEFINE q == a \div s
           r == a % s
           p == q \div 2
           u == q % 2
<1>1. q \in Nat /\ r \in 0 .. s - 1 /\ a = s * q + r
  BY DivMod
<1>. HIDE DEF q, r
<1>2. p \in Nat /\ u \in 0 .. 1 /\ q = 2 * p + u
  BY <1>1, DivMod
<1>. HIDE DEF p, u
<1>3. s * q = (2 * s) * p + s * u
  <2>1. s * (2 * p + u) = s * (2 * p) + s * u
    BY <1>2
  <2>2. s * (2 * p) = (2 * s) * p
    BY <1>2
  <2>. QED BY <1>2, <2>1, <2>2
<1>4. s * u + r \in 0 .. 2 * s - 1
  <2>1. u = 0 \/ u = 1
    BY <1>2
  <2>2. s * 0 = 0 /\ s * 1 = s
    OBVIOUS
  <2>. QED BY <1>1, <2>1, <2>2
<1>. DEFINE w == s * u + r
           m == 2 * s
<1>5. a = m * p + w
  BY <1>1, <1>2, <1>3, <1>4
<1>6. m \in Nat \ {0} /\ w \in 0 .. m - 1
  BY <1>4
<1>. HIDE DEF w, m
<1>7. a \div m = p
  BY <1>2, <1>5, <1>6, DivModUnique
<1>. QED BY <1>2, <1>7 DEF m, q, u

\* An address is told by its bits.
LEMMA SameBits ==
    ASSUME NEW a \in Addrs, NEW b \in Addrs, NEW B \in 0 .. W,
           \A n \in 1 .. B : (a \div Size(n)) % 2 = (b \div Size(n)) % 2
    PROVE  a \div Size(B) = b \div Size(B)
<1>. DEFINE T == {n \in 0 .. B : a \div Size(n) = b \div Size(n)}
<1>1. a \in Nat /\ b \in Nat /\ B \in Nat
  BY AddrsNat, WType
<1>2. 0 \in T
  <2>1. Size(0) = Pow2[W] /\ Pow2[W] \in Nat \ {0} /\ 0 \in 0 .. W
    BY SizeType, AddrsNat, WType
  <2>2. \A x \in Addrs : x \div Size(0) = 0
    <3>1. ASSUME NEW x \in Addrs PROVE x \div Pow2[W] = 0
      <4>1. (Pow2[W] * 0 + x) \div Pow2[W] = 0
        BY <2>1, DivModUnique DEF Addrs
      <4>2. Pow2[W] * 0 + x = x
        BY <2>1, AddrsNat
      <4>. QED BY <4>1, <4>2
    <3>. QED BY <2>1, <3>1
  <2>. QED BY <1>1, <2>2
<1>3. ASSUME NEW n \in 1 .. B, n - 1 \in T PROVE n \in T
  <2>1. n - 1 \in 0 .. W - 1 /\ (n - 1) + 1 = n /\ n \in 0 .. W
    BY WType
  <2>2. Size(n - 1) = 2 * Size(n) /\ Size(n) \in Nat \ {0}
    BY <2>1, SizeType
  <2>3. a \div (2 * Size(n)) = b \div (2 * Size(n))
    BY <1>3, <2>2
  <2>4. a \div Size(n) = 2 * (a \div (2 * Size(n))) + ((a \div Size(n)) % 2)
    BY <1>1, <2>2, DivHalf
  <2>5. b \div Size(n) = 2 * (b \div (2 * Size(n))) + ((b \div Size(n)) % 2)
    BY <1>1, <2>2, DivHalf
  <2>6. (a \div Size(n)) % 2 = (b \div Size(n)) % 2
    OBVIOUS
  <2>7. a \div Size(n) = b \div Size(n)
    BY <2>3, <2>4, <2>5, <2>6
  <2>. QED BY <1>1, <2>7
<1>. HIDE DEF T
<1>4. 0 .. B \subseteq T
  BY <1>1, <1>2, <1>3, UpTo
<1>5. B \in T
  BY <1>1, <1>4
<1>. QED BY <1>5 DEF T

LEMMA BitType ==
    ASSUME NEW k \in Cidr, NEW n \in 0 .. W
    PROVE  /\ Bit(k, n) \in 0 .. 1
           /\ n # 0 => Bit(k, n) = (k.addr \div Size(n)) % 2
<1>1. k.addr \in Nat /\ Size(n) \in Nat \ {0}
  BY AddrsNat, SizeType DEF Cidr
<1>2. k.addr \div Size(n) \in Nat
  BY <1>1, DivMod
<1>3. (k.addr \div Size(n)) % 2 \in 0 .. 1
  BY <1>2, DivMod
<1>. QED BY <1>3, WType DEF Bit

\* An address of a network has the bits of the network.
LEMMA MatchBits ==
    ASSUME NEW k \in Cidr, NEW x \in Cidr, Matches(k, x.addr), NEW n \in 0 .. k.bits
    PROVE  Bit(k, n) = Bit(x, n)
<1>. DEFINE a == x.addr
           B == k.bits
<1>0. a \in Nat /\ k.addr \in Nat /\ B \in 0 .. W
  BY AddrsNat DEF Cidr
<1>1. a \in Nat /\ k.addr \in Nat /\ B \in 0 .. W /\ n \in 0 .. W
  BY <1>0, WType
<1>2. k.addr = Masked(a, B)
  BY DEF Matches
<1>. HIDE DEF a, B
<1>3. Masked(k.addr, B) = Masked(a, B)
  <2>. DEFINE q == a \div Size(B)
  <2>1. q \in Nat /\ Masked(a, B) = Size(B) * q /\ Size(B) \in Nat \ {0}
    BY <1>1, MaskedBounds, SizeType
  <2>. HIDE DEF q
  <2>2. Size(B) * q <= k.addr /\ k.addr < Size(B) * q + Size(B)
    BY <1>1, <1>2, <2>1
  <2>. QED BY <1>1, <2>1, <2>2, MaskedExact
<1>4. Masked(k.addr, n) = Masked(a, n)
  BY <1>1, <1>3, MaskedCoarser DEF B
<1>5. k.addr \div Size(n) = a \div Size(n)
  <2>. DEFINE q == a \div Size(n)
  <2>1. q \in Nat /\ Masked(a, n) = Size(n) * q
    BY <1>1, MaskedBounds
  <2>. HIDE DEF q
  <2>2. Size(n) * q <= k.addr /\ k.addr < Size(n) * q + Size(n)
    BY <1>1, <1>4, <2>1, MaskedBounds
  <2>3. k.addr \div Size(n) = q
    BY <1>1, <2>1, <2>2, MaskedExact
  <2>. QED BY <2>3 DEF q
<1>6. CASE n = 0
  BY <1>6 DEF Bit
<1>7. CASE n # 0
  BY <1>1, <1>5, <1>7, BitType DEF a
<1>. QED BY <1>6, <1>7

\* An address that is not of a network differs from it in a bit of its prefix.
LEMMA DifferingBit ==
    ASSUME NEW k \in Cidr, Aligned(k), NEW x \in Cidr, ~Matches(k, x.addr)
    PROVE  \E n \in 1 .. k.bits : Bit(k, n) # Bit(x, n)
<1>1. SUFFICES ASSUME \A n \in 1 .. k.bits : Bit(k, n) = Bit(x, n) PROVE FALSE
  OBVIOUS
<1>2. k.addr \in Addrs /\ x.addr \in Addrs /\ k.bits \in 0 .. W
  BY DEF Cidr
<1>3. \A n \in 1 .. k.bits : (k.addr \div Size(n)) % 2 = (x.addr \div Size(n)) % 2
  <2>1. ASSUME NEW n \in 1 .. k.bits
        PROVE  (k.addr \div Size(n)) % 2 = (x.addr \div Size(n)) % 2
    <3>1. n \in 0 .. W /\ n # 0
      BY <1>2, WType
    <3>. QED BY <1>1, <3>1, BitType
  <2>. QED BY <2>1
<1>4. k.addr \div Size(k.bits) = x.addr \div Size(k.bits)
  BY <1>2, <1>3, SameBits
<1>5. Masked(k.addr, k.bits) = Masked(x.addr, k.bits)
  BY <1>4 DEF Masked
<1>. QED BY <1>5 DEF Aligned, Matches
----------------------------------------------------------------------------
(* The trie. *)

Node == [branch : 0 .. W, kids : [0 .. 1 -> Nat], key : Cidr \cup {Nil}]

Kid(t, i, x) == t[i].kids[Bit(x, t[i].branch)]

\* Kids are allocated after their parents, a node branches on one of the first B
\* bits, and a node with a key has no kids.
TrieOK(t, K, B) ==
    /\ t \in Seq(Node) /\ t # <<>>
    /\ \A i \in DOMAIN t :
          /\ t[i].branch <= B
          /\ \A v \in 0 .. 1 : t[i].kids[v] = 0 \/ t[i].kids[v] \in i + 1 .. Len(t)
          /\ t[i].key # Nil => t[i].key \in K /\ \A v \in 0 .. 1 : t[i].kids[v] = 0

DescLoop(from, t, x) ==
    from = [i \in DOMAIN t |-> IF Kid(t, i, x) = 0 THEN i ELSE from[Kid(t, i, x)]]

LEMMA TrieType ==
    ASSUME NEW t, NEW K, NEW B \in 0 .. W, TrieOK(t, K, B)
    PROVE  /\ Len(t) \in Nat \ {0} /\ DOMAIN t = 1 .. Len(t) /\ 1 \in DOMAIN t
           /\ \A i \in DOMAIN t : t[i] \in Node /\ t[i].branch \in 0 .. B
           /\ \A x \in Cidr : \A i \in DOMAIN t :
                 Kid(t, i, x) = 0 \/ Kid(t, i, x) \in i + 1 .. Len(t)
<1>1. Len(t) \in Nat \ {0} /\ DOMAIN t = 1 .. Len(t) /\ 1 \in DOMAIN t
  BY DEF TrieOK
<1>2. ASSUME NEW i \in DOMAIN t PROVE t[i] \in Node /\ t[i].branch \in 0 .. B
  <2>1. t[i] \in Node
    BY DEF TrieOK
  <2>2. t[i].branch \in 0 .. W /\ t[i].branch <= B
    BY <2>1 DEF TrieOK, Node
  <2>. QED BY <2>1, <2>2, WType
<1>3. ASSUME NEW x \in Cidr, NEW i \in DOMAIN t
      PROVE  Kid(t, i, x) = 0 \/ Kid(t, i, x) \in i + 1 .. Len(t)
  <2>1. t[i].branch \in 0 .. W
    BY <1>2 DEF Node
  <2>2. Bit(x, t[i].branch) \in 0 .. 1
    BY <2>1, BitType
  <2>. QED BY <2>2 DEF TrieOK, Kid
<1>. QED BY <1>1, <1>2, <1>3

LEMMA DescLoopExists ==
    ASSUME NEW t, NEW K, NEW B \in 0 .. W, TrieOK(t, K, B), NEW x \in Cidr
    PROVE  \E from : DescLoop(from, t, x) /\ Descend(t, x) = from[1]
<1>. DEFINE N == Len(t)
           Def(f, i) == \A j \in i .. N : f[j] = IF Kid(t, j, x) = 0 THEN j ELSE f[Kid(t, j, x)]
           T == {i \in 1 .. N : \E f : DOMAIN f = i .. N /\ f = [j \in i .. N |-> f[j]] /\ Def(f, i)}
<1>1. /\ N \in Nat \ {0} /\ DOMAIN t = 1 .. N
      /\ \A i \in 1 .. N : Kid(t, i, x) = 0 \/ Kid(t, i, x) \in i + 1 .. N
  BY TrieType
<1>. HIDE DEF N
<1>2. ASSUME NEW i \in 1 .. N, \A j \in i + 1 .. N : j \in T PROVE i \in T
  <2>1. \E f : Def(f, i + 1)
    <3>1. CASE i + 1 \in 1 .. N
      <4>1. i + 1 \in T
        BY <1>1, <1>2, <3>1
      <4>. QED BY <4>1
    <3>2. CASE i + 1 \notin 1 .. N
      <4>1. i + 1 .. N = {}
        BY <1>1, <3>2
      <4>. QED BY <4>1
    <3>. QED BY <3>1, <3>2
  <2>2. PICK f : Def(f, i + 1)
    BY <2>1
  <2>. DEFINE g == [j \in i .. N |-> IF j # i THEN f[j]
                                     ELSE IF Kid(t, i, x) = 0 THEN i ELSE f[Kid(t, i, x)]]
  <2>3. ASSUME NEW j \in i .. N
        PROVE  g[j] = IF Kid(t, j, x) = 0 THEN j ELSE g[Kid(t, j, x)]
    <3>1. Kid(t, j, x) = 0 \/ Kid(t, j, x) \in j + 1 .. N
      BY <1>1
    <3>2. Kid(t, j, x) # 0 => Kid(t, j, x) \in i .. N /\ Kid(t, j, x) # i
      BY <1>1, <3>1
    <3>3. CASE j = i
      BY <3>2, <3>3
    <3>4. CASE j # i
      <4>1. j \in i + 1 .. N
        BY <1>1, <3>4
      <4>2. f[j] = IF Kid(t, j, x) = 0 THEN j ELSE f[Kid(t, j, x)]
        BY <2>2, <4>1
      <4>. QED BY <3>2, <3>4, <4>2
    <3>. QED BY <3>3, <3>4
  <2>4. DOMAIN g = i .. N /\ g = [j \in i .. N |-> g[j]]
    OBVIOUS
  <2>. HIDE DEF g
  <2>5. Def(g, i)
    BY <2>3
  <2>. HIDE DEF Def
  <2>. QED BY <2>4, <2>5
<1>. HIDE DEF T
<1>3. 1 .. N \subseteq T
  BY <1>1, <1>2, DownFrom
<1>4. 1 \in T
  BY <1>1, <1>3
<1>5. PICK f : f = [j \in 1 .. N |-> f[j]] /\ Def(f, 1)
  BY <1>4 DEF T
<1>6. DescLoop(f, t, x)
  BY <1>1, <1>5 DEF DescLoop
<1>. DEFINE from == CHOOSE from : DescLoop(from, t, x)
<1>7. DescLoop(from, t, x)
  BY <1>6
<1>8. Descend(t, x) = from[1]
  BY DEF Descend, DescLoop, Kid
<1>. HIDE DEF from
<1>. QED BY <1>7, <1>8

LEMMA DescType ==
    ASSUME NEW t, NEW K, NEW B \in 0 .. W, TrieOK(t, K, B), NEW x \in Cidr,
           NEW from, DescLoop(from, t, x)
    PROVE  \A i \in DOMAIN t : from[i] \in DOMAIN t /\ Kid(t, from[i], x) = 0
<1>. DEFINE N == Len(t)
           T == {i \in 1 .. N : from[i] \in 1 .. N /\ Kid(t, from[i], x) = 0}
<1>1. /\ N \in Nat \ {0} /\ DOMAIN t = 1 .. N
      /\ \A i \in 1 .. N : Kid(t, i, x) = 0 \/ Kid(t, i, x) \in i + 1 .. N
  BY TrieType
<1>. HIDE DEF N
<1>2. ASSUME NEW i \in 1 .. N, \A j \in i + 1 .. N : j \in T PROVE i \in T
  <2>1. from[i] = IF Kid(t, i, x) = 0 THEN i ELSE from[Kid(t, i, x)]
    BY <1>1 DEF DescLoop
  <2>2. CASE Kid(t, i, x) = 0
    BY <2>1, <2>2
  <2>3. CASE Kid(t, i, x) # 0
    <3>1. Kid(t, i, x) \in T
      BY <1>1, <1>2, <2>3
    <3>. QED BY <2>1, <2>3, <3>1
  <2>. QED BY <2>2, <2>3
<1>. HIDE DEF T
<1>3. 1 .. N \subseteq T
  BY <1>1, <1>2, DownFrom
<1>. QED BY <1>1, <1>3 DEF T

LEMMA DescendType ==
    ASSUME NEW t, NEW K, NEW B \in 0 .. W, TrieOK(t, K, B), NEW x \in Cidr
    PROVE  Descend(t, x) \in DOMAIN t /\ Kid(t, Descend(t, x), x) = 0
<1>1. PICK from : DescLoop(from, t, x) /\ Descend(t, x) = from[1]
  BY DescLoopExists
<1>2. 1 \in DOMAIN t
  BY TrieType
<1>. QED BY <1>1, <1>2, DescType

\* Keys with the same first bits end at the same node.
LEMMA DescendSame ==
    ASSUME NEW t, NEW K, NEW B \in 0 .. W, TrieOK(t, K, B), NEW x \in Cidr, NEW y \in Cidr,
           \A n \in 0 .. B : Bit(x, n) = Bit(y, n)
    PROVE  Descend(t, x) = Descend(t, y)
<1>1. PICK f : DescLoop(f, t, x) /\ Descend(t, x) = f[1]
  BY DescLoopExists
<1>2. PICK g : DescLoop(g, t, y) /\ Descend(t, y) = g[1]
  BY DescLoopExists
<1>. DEFINE N == Len(t)
           T == {i \in 1 .. N : f[i] = g[i]}
<1>3. /\ N \in Nat \ {0} /\ DOMAIN t = 1 .. N
      /\ \A i \in 1 .. N : Kid(t, i, x) = 0 \/ Kid(t, i, x) \in i + 1 .. N
  BY TrieType
<1>4. \A i \in 1 .. N : Kid(t, i, x) = Kid(t, i, y)
  BY <1>3, TrieType DEF Kid
<1>. HIDE DEF N
<1>5. ASSUME NEW i \in 1 .. N, \A j \in i + 1 .. N : j \in T PROVE i \in T
  <2>1. f[i] = IF Kid(t, i, x) = 0 THEN i ELSE f[Kid(t, i, x)]
    BY <1>1, <1>3 DEF DescLoop
  <2>2. g[i] = IF Kid(t, i, y) = 0 THEN i ELSE g[Kid(t, i, y)]
    BY <1>2, <1>3 DEF DescLoop
  <2>. QED BY <1>3, <1>4, <1>5, <2>1, <2>2
<1>. HIDE DEF T
<1>6. 1 .. N \subseteq T
  BY <1>3, <1>5, DownFrom
<1>7. 1 \in T
  BY <1>3, <1>6
<1>. QED BY <1>1, <1>2, <1>7 DEF T

\* Only what ended at node s may go on, to a new leaf.
LEMMA DescendChanged ==
    ASSUME NEW t, NEW K, NEW u, NEW L, NEW B \in 0 .. W, TrieOK(t, K, B), TrieOK(u, L, B),
           NEW s \in DOMAIN t, DOMAIN t \subseteq DOMAIN u,
           \A i \in DOMAIN t : i # s => u[i] = t[i],
           NEW x \in Cidr,
           Kid(t, s, x) # 0 => Kid(u, s, x) = Kid(t, s, x),
           Kid(t, s, x) = 0 /\ Kid(u, s, x) # 0 =>
              Kid(u, s, x) \in DOMAIN u \ DOMAIN t /\ Kid(u, Kid(u, s, x), x) = 0
    PROVE  Descend(u, x) = IF Descend(t, x) = s /\ Kid(u, s, x) # 0 THEN Kid(u, s, x)
                           ELSE Descend(t, x)
<1>1. PICK f : DescLoop(f, t, x) /\ Descend(t, x) = f[1]
  BY DescLoopExists
<1>2. PICK g : DescLoop(g, u, x) /\ Descend(u, x) = g[1]
  BY DescLoopExists
<1>. DEFINE N == Len(t)
           To(n) == IF n = s /\ Kid(u, s, x) # 0 THEN Kid(u, s, x) ELSE n
           T == {i \in 1 .. N : g[i] = To(f[i])}
<1>3. /\ N \in Nat \ {0} /\ DOMAIN t = 1 .. N
      /\ \A i \in 1 .. N : Kid(t, i, x) = 0 \/ Kid(t, i, x) \in i + 1 .. N
  BY TrieType
<1>. HIDE DEF N
<1>4. \A i \in DOMAIN u : g[i] = IF Kid(u, i, x) = 0 THEN i ELSE g[Kid(u, i, x)]
  BY <1>2 DEF DescLoop
<1>5. \A i \in DOMAIN t : f[i] = IF Kid(t, i, x) = 0 THEN i ELSE f[Kid(t, i, x)]
  BY <1>1 DEF DescLoop
<1>6. ASSUME NEW i \in 1 .. N, \A j \in i + 1 .. N : j \in T PROVE i \in T
  <2>1. i \in DOMAIN t /\ i \in DOMAIN u
    BY <1>3
  <2>2. CASE Kid(t, i, x) # 0
    <3>1. Kid(u, i, x) = Kid(t, i, x)
      BY <2>1, <2>2 DEF Kid
    <3>2. Kid(t, i, x) \in T
      BY <1>3, <1>6, <2>2
    <3>3. f[i] = f[Kid(t, i, x)] /\ g[i] = g[Kid(t, i, x)]
      BY <1>4, <1>5, <2>1, <2>2, <3>1
    <3>. QED BY <3>2, <3>3
  <2>3. CASE Kid(t, i, x) = 0 /\ i # s
    <3>1. Kid(u, i, x) = 0
      BY <2>1, <2>3 DEF Kid
    <3>. QED BY <1>4, <1>5, <2>1, <2>3, <3>1
  <2>4. CASE Kid(t, i, x) = 0 /\ i = s
    <3>1. f[i] = s
      BY <1>5, <2>1, <2>4
    <3>2. g[i] = To(s)
      <4>1. CASE Kid(u, s, x) = 0
        BY <1>4, <2>1, <2>4, <4>1
      <4>2. CASE Kid(u, s, x) # 0
        <5>1. Kid(u, s, x) \in DOMAIN u /\ Kid(u, Kid(u, s, x), x) = 0
          BY <2>4, <4>2
        <5>2. g[Kid(u, s, x)] = Kid(u, s, x)
          BY <1>4, <5>1
        <5>3. g[i] = g[Kid(u, s, x)]
          BY <1>4, <2>1, <2>4, <4>2
        <5>. QED BY <4>2, <5>2, <5>3
      <4>. QED BY <4>1, <4>2
    <3>. QED BY <3>1, <3>2
  <2>. QED BY <2>2, <2>3, <2>4
<1>. HIDE DEF T
<1>7. 1 .. N \subseteq T
  BY <1>3, <1>6, DownFrom
<1>8. 1 \in T
  BY <1>3, <1>7
<1>. QED BY <1>1, <1>2, <1>8 DEF T

LEMMA NilKey == \A k \in Cidr : k # Nil
BY IpListsAssumption

LEMMA LeafType ==
    ASSUME NEW k \in Cidr \cup {Nil}
    PROVE  /\ Leaf(k) \in Node /\ Leaf(k).branch = 0 /\ Leaf(k).key = k
           /\ \A v \in 0 .. 1 : Leaf(k).kids[v] = 0
BY WType DEF Leaf, Node

\* A set of keys, networks of at most B bits.
Keys(K, B) == K \subseteq Cidr /\ \A k \in K : Aligned(k) /\ k.bits <= B

\* What Trie_insert does to the trie: nothing, a new leaf below node s, or
\* two new leaves below node s, for the key and the one that was there.
Inserted(t, u, s, k) ==
    \/ u = t /\ t[s].key # Nil /\ Matches(t[s].key, k.addr)
    \/ /\ t[s].key = Nil
       /\ u[s].branch = t[s].branch
       /\ \A v \in 0 .. 1 : u[s].kids[v] = IF v = Bit(k, t[s].branch) THEN Len(t) + 1 ELSE t[s].kids[v]
       /\ DOMAIN u = 1 .. Len(t) + 1
    \/ /\ t[s].key # Nil /\ ~Matches(t[s].key, k.addr)
       /\ u[s].branch \in 0 .. t[s].key.bits
       /\ Bit(t[s].key, u[s].branch) # Bit(k, u[s].branch)
       /\ \A v \in 0 .. 1 : u[s].kids[v] = IF v = Bit(k, u[s].branch) THEN Len(t) + 1 ELSE Len(t) + 2
       /\ DOMAIN u = 1 .. Len(t) + 2 /\ u[Len(t) + 2] = Leaf(t[s].key)

LEMMA TrieInsertOK ==
    ASSUME NEW t, NEW K, NEW B \in 0 .. W, TrieOK(t, K, B), NEW k \in Cidr, Keys(K \cup {k}, B)
    PROVE  LET u == Trie_insert(t, k)
               s == Descend(t, k)
           IN  /\ TrieOK(u, K \cup {k}, B)
               /\ \A i \in DOMAIN t : i # s => u[i] = t[i]
               /\ u # t => Len(t) + 1 \in DOMAIN u /\ u[Len(t) + 1] = Leaf(k)
               /\ Inserted(t, u, s, k)
<1>. DEFINE u == Trie_insert(t, k)
           s == Descend(t, k)
           N == Len(t)
<1>1. s \in DOMAIN t /\ Kid(t, s, k) = 0
  BY DescendType
<1>2. /\ N \in Nat \ {0} /\ DOMAIN t = 1 .. N
      /\ \A i \in 1 .. N : t[i] \in Node /\ t[i].branch \in 0 .. B
      /\ t \in Seq(Node)
  BY TrieType DEF TrieOK
<1>3. Leaf(k) \in Node /\ Leaf(k).branch = 0 /\ Leaf(k).key = k
      /\ \A v \in 0 .. 1 : Leaf(k).kids[v] = 0
  BY LeafType
<1>4. CASE t[s].key = Nil
  <2>. DEFINE b == Bit(k, t[s].branch)
              w == [t EXCEPT ![s].kids[b] = N + 1]
  <2>1. u = Append(w, Leaf(k))
    BY <1>4 DEF Trie_insert
  <2>2. t[s] \in Node /\ t[s].branch \in 0 .. W
    BY <1>1, <1>2 DEF Node
  <2>3. b \in 0 .. 1
    BY <2>2, BitType
  <2>. HIDE DEF b
  <2>. DEFINE node == [t[s] EXCEPT !.kids = [@ EXCEPT ![b] = N + 1]]
  <2>4. w = [t EXCEPT ![s] = node]
    OBVIOUS
  <2>5. /\ node \in Node /\ node.branch = t[s].branch /\ node.key = Nil
        /\ \A v \in 0 .. 1 : node.kids[v] = IF v = b THEN N + 1 ELSE t[s].kids[v]
    <3>. DEFINE kids == [t[s].kids EXCEPT ![b] = N + 1]
    <3>1. t[s].kids \in [0 .. 1 -> Nat] /\ t[s].branch \in 0 .. W /\ N + 1 \in Nat
      BY <1>2, <2>2 DEF Node
    <3>2. /\ kids \in [0 .. 1 -> Nat]
          /\ \A v \in 0 .. 1 : kids[v] = IF v = b THEN N + 1 ELSE t[s].kids[v]
      BY <2>3, <3>1
    <3>3. node = [t[s] EXCEPT !.kids = kids]
      OBVIOUS
    <3>. HIDE DEF kids, node
    <3>4. node \in Node /\ node.branch = t[s].branch /\ node.key = t[s].key /\ node.kids = kids
      BY <2>2, <3>2, <3>3 DEF Node
    <3>. QED BY <1>4, <3>2, <3>4
  <2>. HIDE DEF w, node
  <2>6. w \in Seq(Node) /\ Len(w) = N /\ w[s] = node /\ \A i \in 1 .. N : i # s => w[i] = t[i]
    BY <1>1, <1>2, <2>4, <2>5
  <2>. HIDE DEF u, N
  <2>7. /\ u \in Seq(Node) /\ Len(u) = N + 1 /\ DOMAIN u = 1 .. N + 1 /\ u[N + 1] = Leaf(k)
        /\ \A i \in 1 .. N : u[i] = w[i]
    BY <1>2, <1>3, <2>1, <2>6
  <2>8. ASSUME NEW i \in 1 .. N + 1
        PROVE  /\ u[i].branch <= B
               /\ \A v \in 0 .. 1 : u[i].kids[v] = 0 \/ u[i].kids[v] \in i + 1 .. N + 1
               /\ u[i].key # Nil => u[i].key \in K \cup {k} /\ \A v \in 0 .. 1 : u[i].kids[v] = 0
    <3>1. CASE i = N + 1
      BY <1>3, <2>7, <3>1, WType
    <3>2. CASE i \in 1 .. N
      <4>1. /\ t[i].branch <= B
            /\ \A v \in 0 .. 1 : t[i].kids[v] = 0 \/ t[i].kids[v] \in i + 1 .. N
            /\ t[i].key # Nil => t[i].key \in K /\ \A v \in 0 .. 1 : t[i].kids[v] = 0
        BY <1>2, <3>2 DEF TrieOK, N
      <4>2. CASE i # s
        BY <1>2, <2>6, <2>7, <3>2, <4>1, <4>2
      <4>3. CASE i = s
        BY <1>2, <2>5, <2>6, <2>7, <3>2, <4>1, <4>3
      <4>. QED BY <4>2, <4>3
    <3>. QED BY <1>2, <3>1, <3>2
  <2>9. u # <<>>
    BY <1>2, <2>7
  <2>10. TrieOK(u, K \cup {k}, B)
    BY <2>7, <2>8, <2>9 DEF TrieOK
  <2>11. \A i \in DOMAIN t : i # s => u[i] = t[i]
    BY <1>2, <2>6, <2>7
  <2>12. N + 1 \in DOMAIN u /\ u[N + 1] = Leaf(k)
    BY <1>2, <2>7
  <2>13. u[s] = node
    BY <1>1, <1>2, <2>6, <2>7
  <2>14. Inserted(t, u, s, k)
    BY <1>4, <2>5, <2>7, <2>13 DEF Inserted, b, N
  <2>. QED BY <2>10, <2>11, <2>12, <2>14 DEF u, s, N
<1>5. CASE t[s].key # Nil /\ Matches(t[s].key, k.addr)
  <2>1. u = t
    BY <1>5 DEF Trie_insert
  <2>2. TrieOK(t, K \cup {k}, B)
    BY DEF TrieOK
  <2>. HIDE DEF u, s
  <2>. QED BY <1>5, <2>1, <2>2 DEF Inserted, u, s
<1>6. CASE t[s].key # Nil /\ ~Matches(t[s].key, k.addr)
  <2>. DEFINE o == t[s].key
              D == {n \in 0 .. 2 * W : Bit(o, n) # Bit(k, n)}
              bit == Min(D)
              sides == [v \in 0 .. 1 |-> N + (IF v = Bit(k, bit) THEN 1 ELSE 2)]
              node == [branch |-> bit, kids |-> sides, key |-> Nil]
              w == [t EXCEPT ![s] = node]
  <2>1. u = w \o <<Leaf(k), Leaf(o)>>
    BY <1>6 DEF Trie_insert, Split
  <2>2. o \in K /\ o \in Cidr /\ Aligned(o) /\ o.bits <= B /\ o.bits \in 0 .. W
    <3>1. o \in K
      BY <1>1, <1>6 DEF TrieOK
    <3>. QED BY <3>1 DEF Keys, Cidr
  <2>. HIDE DEF s, o
  <2>3. bit \in 0 .. o.bits /\ Bit(o, bit) # Bit(k, bit) /\ bit \in 0 .. W
    <3>1. PICK n \in 1 .. o.bits : Bit(o, n) # Bit(k, n)
      BY <1>6, <2>2, DifferingBit DEF o
    <3>2. n \in D /\ D \in SUBSET Nat
      BY <2>2, <3>1, WType
    <3>3. bit \in D /\ bit <= n
      BY <3>2, MinNat
    <3>. HIDE DEF bit
    <3>4. bit \in Nat /\ bit <= o.bits
      BY <2>2, <3>1, <3>3
    <3>. QED BY <2>2, <3>3, <3>4, WType
  <2>4. bit <= B
    BY <2>2, <2>3, WType
  <2>. HIDE DEF bit
  <2>5. /\ node \in Node /\ node.branch = bit /\ node.key = Nil
        /\ \A v \in 0 .. 1 : node.kids[v] = IF v = Bit(k, bit) THEN N + 1 ELSE N + 2
    BY <1>2, <2>3 DEF Node
  <2>6. /\ Leaf(o) \in Node /\ Leaf(o).branch = 0 /\ Leaf(o).key = o
        /\ \A v \in 0 .. 1 : Leaf(o).kids[v] = 0
    BY <2>2, LeafType
  <2>. HIDE DEF node
  <2>7. w \in Seq(Node) /\ Len(w) = N /\ w[s] = node /\ \A i \in 1 .. N : i # s => w[i] = t[i]
    BY <1>1, <1>2, <2>5
  <2>. HIDE DEF w, u, N
  <2>8. /\ u \in Seq(Node) /\ Len(u) = N + 2 /\ DOMAIN u = 1 .. N + 2
        /\ u[N + 1] = Leaf(k) /\ u[N + 2] = Leaf(o)
        /\ \A i \in 1 .. N : u[i] = w[i]
    BY <1>2, <1>3, <2>1, <2>6, <2>7
  <2>9. ASSUME NEW i \in 1 .. N + 2
        PROVE  /\ u[i].branch <= B
               /\ \A v \in 0 .. 1 : u[i].kids[v] = 0 \/ u[i].kids[v] \in i + 1 .. N + 2
               /\ u[i].key # Nil => u[i].key \in K \cup {k} /\ \A v \in 0 .. 1 : u[i].kids[v] = 0
    <3>1. CASE i = N + 1
      BY <1>3, <2>8, <3>1, WType
    <3>2. CASE i = N + 2
      BY <2>2, <2>6, <2>8, <3>2, WType
    <3>3. CASE i \in 1 .. N
      <4>1. /\ t[i].branch <= B
            /\ \A v \in 0 .. 1 : t[i].kids[v] = 0 \/ t[i].kids[v] \in i + 1 .. N
            /\ t[i].key # Nil => t[i].key \in K /\ \A v \in 0 .. 1 : t[i].kids[v] = 0
        BY <1>2, <3>3 DEF TrieOK, N
      <4>2. CASE i # s
        BY <1>2, <2>7, <2>8, <3>3, <4>1, <4>2
      <4>3. CASE i = s
        BY <1>2, <2>4, <2>5, <2>7, <2>8, <3>3, <4>3
      <4>. QED BY <4>2, <4>3
    <3>. QED BY <1>2, <3>1, <3>2, <3>3
  <2>10. u # <<>>
    BY <1>2, <2>8
  <2>11. TrieOK(u, K \cup {k}, B)
    BY <2>8, <2>9, <2>10 DEF TrieOK
  <2>12. \A i \in DOMAIN t : i # s => u[i] = t[i]
    BY <1>2, <2>7, <2>8
  <2>13. N + 1 \in DOMAIN u /\ u[N + 1] = Leaf(k)
    BY <1>2, <2>8
  <2>14. u[s] = node
    BY <1>1, <1>2, <2>7, <2>8
  <2>15. Inserted(t, u, s, k)
    BY <1>6, <2>3, <2>5, <2>8, <2>14 DEF Inserted, o, N
  <2>. QED BY <2>11, <2>12, <2>13, <2>15 DEF u, s, N
<1>. QED BY <1>4, <1>5, <1>6

\* An address of a network ends at the leaf of the network.
Complete(t, K) ==
    \A j \in K : \A x \in Cidr : Matches(j, x.addr) => t[Descend(t, x)].key = j

\* Where all networks are of one length, Trie_insert keeps what is found, and
\* the new one is found as well.
LEMMA InsertComplete ==
    ASSUME NEW t, NEW K, NEW B \in 0 .. W, TrieOK(t, K, B), Complete(t, K),
           NEW k \in Cidr, Keys(K \cup {k}, B), \A j \in K \cup {k} : j.bits = B
    PROVE  Complete(Trie_insert(t, k), K \cup {k})
<1>. DEFINE u == Trie_insert(t, k)
           s == Descend(t, k)
           N == Len(t)
<1>1. /\ TrieOK(u, K \cup {k}, B)
      /\ \A i \in DOMAIN t : i # s => u[i] = t[i]
      /\ u # t => N + 1 \in DOMAIN u /\ u[N + 1] = Leaf(k)
      /\ Inserted(t, u, s, k)
  BY TrieInsertOK
<1>2. s \in DOMAIN t /\ Kid(t, s, k) = 0
  BY DescendType
<1>3. N \in Nat \ {0} /\ DOMAIN t = 1 .. N /\ t[s].branch \in 0 .. B /\ t[s].branch \in 0 .. W
  BY <1>2, TrieType, WType
<1>4. K \cup {k} \subseteq Cidr /\ \A j \in K \cup {k} : Aligned(j) /\ j # Nil
  BY NilKey DEF Keys
<1>5. \A v \in 0 .. 1 : Leaf(k).kids[v] = 0
  BY LeafType
<1>6. Leaf(k).key = k /\ Leaf(k).branch = 0
  BY LeafType
<1>. HIDE DEF u, s, N
<1>7. ASSUME NEW j \in K \cup {k}, NEW x \in Cidr, Matches(j, x.addr)
      PROVE  \A n \in 0 .. B : Bit(j, n) = Bit(x, n)
  BY <1>4, <1>7, MatchBits
<1>8. ASSUME NEW x \in Cidr, Matches(k, x.addr) PROVE Descend(t, x) = s
  <2>1. \A n \in 0 .. B : Bit(k, n) = Bit(x, n)
    BY <1>7, <1>8
  <2>. QED BY <2>1, DescendSame DEF s
<1>9. CASE u = t /\ t[s].key # Nil /\ Matches(t[s].key, k.addr)
  <2>. DEFINE o == t[s].key
  <2>1. o \in K
    BY <1>2, <1>9 DEF TrieOK
  <2>2. o.bits = B /\ k.bits = B /\ o.addr = Masked(k.addr, o.bits) /\ k.addr = Masked(k.addr, k.bits)
    BY <1>4, <1>9, <2>1 DEF Matches, Aligned
  <2>3. o \in Cidr /\ o.bits = k.bits /\ o.addr = k.addr
    BY <1>4, <2>1, <2>2
  <2>. HIDE DEF o
  <2>4. o = k
    BY <2>3 DEF Cidr
  <2>5. K \cup {k} = K
    BY <2>1, <2>4
  <2>. QED BY <1>9, <2>5 DEF u
<1>10. CASE /\ t[s].key = Nil
            /\ u[s].branch = t[s].branch
            /\ \A v \in 0 .. 1 : u[s].kids[v] = IF v = Bit(k, t[s].branch) THEN N + 1 ELSE t[s].kids[v]
            /\ DOMAIN u = 1 .. N + 1
  <2>0. u # t /\ DOMAIN t \subseteq DOMAIN u
    BY <1>3, <1>10
  <2>1. N + 1 \in DOMAIN u /\ u[N + 1] = Leaf(k) /\ N + 1 \notin DOMAIN t /\ N + 1 # 0
    BY <1>1, <1>3, <2>0
  <2>2. ASSUME NEW x \in Cidr
        PROVE  /\ Kid(u, s, x) = IF Bit(x, t[s].branch) = Bit(k, t[s].branch) THEN N + 1 ELSE Kid(t, s, x)
               /\ Kid(u, N + 1, x) = 0
               /\ Bit(x, t[s].branch) = Bit(k, t[s].branch) => Kid(t, s, x) = 0
    <3>1. Bit(x, t[s].branch) \in 0 .. 1 /\ Bit(x, 0) \in 0 .. 1
      BY <1>3, BitType, WType
    <3>. QED BY <1>2, <1>5, <1>6, <1>10, <2>1, <3>1 DEF Kid
  <2>3. ASSUME NEW x \in Cidr
        PROVE  Descend(u, x) = IF Descend(t, x) = s /\ Kid(u, s, x) # 0 THEN Kid(u, s, x)
                               ELSE Descend(t, x)
    <3>1. Kid(t, s, x) # 0 => Kid(u, s, x) = Kid(t, s, x)
      BY <2>2
    <3>2. Kid(t, s, x) = 0 /\ Kid(u, s, x) # 0 =>
              Kid(u, s, x) \in DOMAIN u \ DOMAIN t /\ Kid(u, Kid(u, s, x), x) = 0
      BY <2>1, <2>2
    <3>. QED BY <1>1, <1>2, <2>0, <3>1, <3>2, DescendChanged
  <2>4. ASSUME NEW j \in K \cup {k}, NEW x \in Cidr, Matches(j, x.addr)
        PROVE  u[Descend(u, x)].key = j
    <3>1. CASE j = k
      <4>1. Descend(t, x) = s
        BY <1>8, <2>4, <3>1
      <4>2. Bit(x, t[s].branch) = Bit(k, t[s].branch)
        BY <1>3, <1>7, <2>4, <3>1
      <4>3. Descend(u, x) = N + 1
        BY <2>1, <2>2, <2>3, <4>1, <4>2
      <4>. QED BY <1>6, <2>1, <3>1, <4>3
    <3>2. CASE j \in K
      <4>1. t[Descend(t, x)].key = j
        BY <2>4, <3>2 DEF Complete
      <4>2. Descend(t, x) # s
        BY <1>4, <1>10, <4>1
      <4>3. Descend(u, x) = Descend(t, x) /\ Descend(t, x) \in DOMAIN t
        BY <2>3, <4>2, DescendType
      <4>. QED BY <1>1, <4>1, <4>2, <4>3
    <3>. QED BY <3>1, <3>2
  <2>. QED BY <2>4 DEF Complete, u
<1>11. CASE /\ t[s].key # Nil /\ ~Matches(t[s].key, k.addr)
            /\ u[s].branch \in 0 .. t[s].key.bits
            /\ Bit(t[s].key, u[s].branch) # Bit(k, u[s].branch)
            /\ \A v \in 0 .. 1 : u[s].kids[v] = IF v = Bit(k, u[s].branch) THEN N + 1 ELSE N + 2
            /\ DOMAIN u = 1 .. N + 2 /\ u[N + 2] = Leaf(t[s].key)
  <2>. DEFINE o == t[s].key
              b == u[s].branch
  <2>0. u # t /\ DOMAIN t \subseteq DOMAIN u
    BY <1>3, <1>11
  <2>1. /\ N + 1 \in DOMAIN u \ DOMAIN t /\ u[N + 1] = Leaf(k) /\ N + 1 # 0
        /\ N + 2 \in DOMAIN u \ DOMAIN t /\ u[N + 2] = Leaf(o) /\ N + 2 # 0
    BY <1>1, <1>3, <1>11, <2>0
  <2>2. o \in K /\ \A v \in 0 .. 1 : t[s].kids[v] = 0
    BY <1>2, <1>11 DEF TrieOK
  <2>3. o \in Cidr /\ o.bits = B /\ b \in 0 .. B /\ b \in 0 .. W
    BY <1>4, <1>11, <2>2, WType
  <2>4. Leaf(o).key = o /\ Leaf(o).branch = 0 /\ \A v \in 0 .. 1 : Leaf(o).kids[v] = 0
    BY <2>3, LeafType
  <2>5. ASSUME NEW x \in Cidr
        PROVE  /\ Kid(u, s, x) = IF Bit(x, b) = Bit(k, b) THEN N + 1 ELSE N + 2
               /\ Kid(u, N + 1, x) = 0 /\ Kid(u, N + 2, x) = 0
               /\ Kid(t, s, x) = 0
    <3>1. Bit(x, t[s].branch) \in 0 .. 1 /\ Bit(x, 0) \in 0 .. 1 /\ Bit(x, b) \in 0 .. 1
      BY <1>3, <2>3, BitType, WType
    <3>. QED BY <1>5, <1>6, <1>11, <2>1, <2>2, <2>4, <3>1 DEF Kid
  <2>6. ASSUME NEW x \in Cidr
        PROVE  Descend(u, x) = IF Descend(t, x) = s THEN Kid(u, s, x) ELSE Descend(t, x)
    <3>1. Kid(t, s, x) = 0 /\ Kid(u, s, x) # 0
      BY <2>1, <2>5
    <3>2. Kid(u, s, x) \in DOMAIN u \ DOMAIN t /\ Kid(u, Kid(u, s, x), x) = 0
      BY <2>1, <2>5
    <3>. QED BY <1>1, <1>2, <2>0, <3>1, <3>2, DescendChanged
  <2>7. ASSUME NEW j \in K \cup {k}, NEW x \in Cidr, Matches(j, x.addr)
        PROVE  u[Descend(u, x)].key = j
    <3>0. Bit(j, b) = Bit(x, b)
      BY <1>7, <2>3, <2>7
    <3>1. CASE j = k
      <4>1. Descend(t, x) = s
        BY <1>8, <2>7, <3>1
      <4>2. Descend(u, x) = N + 1
        BY <2>5, <2>6, <3>0, <3>1, <4>1
      <4>. QED BY <1>6, <2>1, <3>1, <4>2
    <3>2. CASE j \in K
      <4>1. t[Descend(t, x)].key = j
        BY <2>7, <3>2 DEF Complete
      <4>2. CASE Descend(t, x) = s
        <5>1. j = o
          BY <4>1, <4>2
        <5>2. Descend(u, x) = N + 2
          BY <1>11, <2>5, <2>6, <3>0, <4>2, <5>1
        <5>. QED BY <2>1, <2>4, <5>1, <5>2
      <4>3. CASE Descend(t, x) # s
        <5>1. Descend(u, x) = Descend(t, x) /\ Descend(t, x) \in DOMAIN t
          BY <2>6, <4>3, DescendType
        <5>. QED BY <1>1, <4>1, <4>3, <5>1
      <4>. QED BY <4>2, <4>3
    <3>. QED BY <3>1, <3>2
  <2>. QED BY <2>7 DEF Complete, u
<1>. QED BY <1>1, <1>9, <1>10, <1>11 DEF Inserted, N

TrieLoop(trie, cidrs) ==
    trie = [n \in 0 .. Len(cidrs) |->
               IF n = 0 THEN Trie_create ELSE Trie_insert(trie[n - 1], cidrs[n])]

LEMMA CreateTrieOK ==
    ASSUME NEW K, NEW B \in 0 .. W
    PROVE  TrieOK(Trie_create, K, B) /\ Complete(Trie_create, {})
<1>1. /\ Leaf(Nil) \in Node /\ Leaf(Nil).branch = 0 /\ Leaf(Nil).key = Nil
      /\ \A v \in 0 .. 1 : Leaf(Nil).kids[v] = 0
  BY LeafType
<1>. DEFINE t == <<Leaf(Nil)>>
<1>2. t \in Seq(Node) /\ t # <<>> /\ DOMAIN t = 1 .. 1 /\ t[1] = Leaf(Nil)
  BY <1>1
<1>. HIDE DEF t
<1>3. TrieOK(t, K, B)
  BY <1>1, <1>2, WType DEF TrieOK
<1>. QED BY <1>3 DEF Trie_create, Complete, t

LEMMA TrieLoopExists ==
    ASSUME NEW B \in 0 .. W, NEW cidrs \in Seq(Cidr), Keys(ToSet(cidrs), B)
    PROVE  \E trie : TrieLoop(trie, cidrs) /\ TrieOf(cidrs) = trie[Len(cidrs)]
<1>. DEFINE N == Len(cidrs)
           K == ToSet(cidrs)
           X == {t \in Seq(Node) : TrieOK(t, K, B)}
           F == [n \in Nat |-> [t \in X |-> IF n \in 1 .. N THEN Trie_insert(t, cidrs[n]) ELSE t]]
<1>0. N \in Nat /\ \A n \in 1 .. N : cidrs[n] \in K /\ cidrs[n] \in Cidr
  BY DEF ToSet
<1>. HIDE DEF K, N
<1>1. ASSUME NEW t \in X, NEW n \in 1 .. N PROVE Trie_insert(t, cidrs[n]) \in X
  <2>1. K \cup {cidrs[n]} = K
    BY <1>0
  <2>2. TrieOK(Trie_insert(t, cidrs[n]), K, B)
    BY <1>0, <2>1, TrieInsertOK DEF K
  <2>. QED BY <2>2 DEF TrieOK
<1>2. F \in [Nat -> [X -> X]]
  <2>1. ASSUME NEW n \in Nat
        PROVE  [t \in X |-> IF n \in 1 .. N THEN Trie_insert(t, cidrs[n]) ELSE t] \in [X -> X]
    <3>. HIDE DEF X
    <3>. QED BY <1>1
  <2>. HIDE DEF X
  <2>. QED BY <2>1
<1>3. Trie_create \in X
  BY CreateTrieOK DEF TrieOK
<1>. HIDE DEF F, X
<1>4. PICK g \in [0 .. N -> X] : Recursive(g, N, Trie_create, F)
  BY <1>0, <1>2, <1>3, Iteration
<1>5. ASSUME NEW n \in 0 .. N, n # 0 PROVE F[n][g[n - 1]] = Trie_insert(g[n - 1], cidrs[n])
  <2>1. n - 1 \in 0 .. N /\ n \in Nat /\ n \in 1 .. N
    BY <1>0, <1>5
  <2>2. g[n - 1] \in X
    BY <2>1
  <2>. QED BY <2>1, <2>2 DEF F
<1>6. TrieLoop(g, cidrs)
  BY <1>4, <1>5 DEF Recursive, TrieLoop, N
<1>. DEFINE trie == CHOOSE trie : TrieLoop(trie, cidrs)
<1>7. TrieLoop(trie, cidrs)
  BY <1>6
<1>8. TrieOf(cidrs) = trie[Len(cidrs)]
  BY DEF TrieOf, TrieLoop
<1>. HIDE DEF trie
<1>. QED BY <1>7, <1>8

\* Blacklist_match: an address that is found is one of a network of the list,
\* and where all networks are of one length every address of them is found.
LEMMA TrieOfOK ==
    ASSUME NEW B \in 0 .. W, NEW cidrs \in Seq(Cidr), Keys(ToSet(cidrs), B)
    PROVE  /\ \A a \in Addrs : Trie_contains(TrieOf(cidrs), a) => \E k \in ToSet(cidrs) : Matches(k, a)
           /\ (\A k \in ToSet(cidrs) : k.bits = B) =>
                 \A a \in Addrs : \A k \in ToSet(cidrs) :
                    Matches(k, a) => Trie_contains(TrieOf(cidrs), a)
<1>. DEFINE N == Len(cidrs)
           K(n) == {cidrs[i] : i \in 1 .. n}
           Same == \A k \in ToSet(cidrs) : k.bits = B
<1>1. PICK trie : TrieLoop(trie, cidrs) /\ TrieOf(cidrs) = trie[N]
  BY TrieLoopExists
<1>2. N \in Nat /\ ToSet(cidrs) = K(N) /\ \A n \in 1 .. N : cidrs[n] \in Cidr
  BY DEF ToSet
<1>3. ASSUME NEW n \in 1 .. N PROVE K(n) = K(n - 1) \cup {cidrs[n]} /\ K(n) \subseteq ToSet(cidrs)
  <2>1. 1 .. n = 1 .. n - 1 \cup {n}
    BY <1>2
  <2>2. 1 .. n \subseteq 1 .. N
    BY <1>2
  <2>. QED BY <1>2, <2>1, <2>2
<1>. DEFINE T == {n \in 0 .. N : TrieOK(trie[n], K(n), B) /\ (Same => Complete(trie[n], K(n)))}
<1>. HIDE DEF N
<1>4. 0 \in T
  <2>1. K(0) = {} /\ 0 \in 0 .. N
    BY <1>2
  <2>2. trie[0] = Trie_create
    BY <1>1, <2>1 DEF TrieLoop, N
  <2>. HIDE DEF K, Same
  <2>. QED BY <2>1, <2>2, CreateTrieOK
<1>5. ASSUME NEW n \in 1 .. N, n - 1 \in T PROVE n \in T
  <2>. DEFINE t == trie[n - 1]
              k == cidrs[n]
              L == K(n - 1)
  <2>1. trie[n] = Trie_insert(t, k) /\ n \in 0 .. N
    <3>1. n \in 0 .. N /\ n # 0
      BY <1>2
    <3>. QED BY <1>1, <3>1 DEF TrieLoop, N
  <2>2. k \in Cidr /\ K(n) = L \cup {k} /\ L \cup {k} \subseteq ToSet(cidrs)
    BY <1>2, <1>3
  <2>3. TrieOK(t, L, B) /\ (Same => Complete(t, L))
    BY <1>5
  <2>4. Keys(L \cup {k}, B) /\ (Same => \A j \in L \cup {k} : j.bits = B)
    BY <2>2 DEF Keys
  <2>. HIDE DEF t, k, L, K, Same
  <2>5. TrieOK(Trie_insert(t, k), L \cup {k}, B)
    BY <2>2, <2>3, <2>4, TrieInsertOK
  <2>6. Same => Complete(Trie_insert(t, k), L \cup {k})
    BY <2>2, <2>3, <2>4, InsertComplete
  <2>. QED BY <2>1, <2>2, <2>5, <2>6
<1>. HIDE DEF T
<1>6. 0 .. N \subseteq T
  BY <1>2, <1>4, <1>5, UpTo
<1>. DEFINE t == TrieOf(cidrs)
<1>7. TrieOK(t, ToSet(cidrs), B) /\ (Same => Complete(t, ToSet(cidrs)))
  <2>1. N \in T
    BY <1>2, <1>6
  <2>. QED BY <1>1, <1>2, <2>1 DEF T
<1>. HIDE DEF t
<1>8. ASSUME NEW a \in Addrs
      PROVE  LET x == [addr |-> a, bits |-> 0]
             IN  x \in Cidr /\ x.addr = a /\ Descend(t, x) \in DOMAIN t
  <2>. DEFINE x == [addr |-> a, bits |-> 0]
  <2>1. x \in Cidr /\ x.addr = a
    BY WType DEF Cidr
  <2>. HIDE DEF x
  <2>2. Descend(t, x) \in DOMAIN t
    BY <1>7, <2>1, DescendType
  <2>. QED BY <2>1, <2>2 DEF x
<1>9. ASSUME NEW a \in Addrs, Trie_contains(t, a) PROVE \E k \in ToSet(cidrs) : Matches(k, a)
  <2>. DEFINE s == Descend(t, [addr |-> a, bits |-> 0])
  <2>1. t[s].key # Nil /\ Matches(t[s].key, a)
    BY <1>9 DEF Trie_contains, LeafMatches
  <2>2. s \in DOMAIN t
    BY <1>8
  <2>3. t[s].key \in ToSet(cidrs)
    BY <1>7, <2>1, <2>2 DEF TrieOK
  <2>. QED BY <2>1, <2>3
<1>10. ASSUME Same, NEW a \in Addrs, NEW k \in ToSet(cidrs), Matches(k, a)
       PROVE  Trie_contains(t, a)
  <2>. DEFINE x == [addr |-> a, bits |-> 0]
  <2>1. x \in Cidr /\ x.addr = a
    BY <1>8
  <2>2. k # Nil
    BY NilKey DEF Keys
  <2>3. Trie_contains(t, a) <=> t[Descend(t, x)].key # Nil /\ Matches(t[Descend(t, x)].key, a)
    BY DEF Trie_contains, LeafMatches
  <2>. HIDE DEF x
  <2>4. t[Descend(t, x)].key = k
    BY <1>7, <1>10, <2>1 DEF Complete
  <2>. QED BY <1>10, <2>2, <2>3, <2>4
<1>. QED BY <1>9, <1>10 DEF t
============================================================================
