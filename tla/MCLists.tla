------------------------------ MODULE MCLists ------------------------------
EXTENDS Lists

CONSTANTS spam, pests, friends, nosuch, greytrap

MCSetup == <<spam, friends, nosuch, pests>>

\* Names that collide in small tables.
MCHashOf == [n \in {spam, pests, greytrap} |-> IF n = pests THEN 1 ELSE 3]

Net(a, n)   == [first |-> a, bits |-> n]
Span(a, b)  == [first |-> a, last |-> b]

\* Pairs of ranges, the first near the begin of the addresses, ranges to take
\* out of them, and networks.
Spans == {Span(a, b) : a, b \in Addrs} \cap [first : Addrs, last : Addrs]
Ranges == {s \in Spans : s.first <= s.last}
Pairs  == {<<s, t>> : s, t \in Ranges}

MCFeeds ==
    [n \in {spam, friends, pests} |->
        CASE n = spam    -> {p \in Pairs : p[1].first <= 1 /\ p[2].first \in 1 .. 4}
          [] n = friends -> {<<s>> : s \in {r \in Ranges : r.first = 2 /\ r.last \in {3, 7}}}
          [] n = pests   -> {<<Net(0, 0)>>, <<Net(2, W), Net(5, W - 1)>>}]

MCTrapLists == {<<0, 5, 2>>, <<7>>}

\* Addresses, and a network that is larger than what lies between them.
MCShortFeeds ==
    [n \in {spam, friends, pests} |->
        CASE n = spam    -> {<<Net(0, W), Net(2, W), Net(4, W - 2)>>}
          [] n = friends -> {<<Net(5, W)>>}
          [] n = pests   -> {<<Net(1, W)>>}]
============================================================================
