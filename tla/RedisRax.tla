------------------------------- MODULE RedisRax -------------------------------
(***************************************************************************)
(* The radix tree (rax.c) and its use: the index from hash slots to keys    *)
(* that a cluster node keeps (db.c).                                        *)
(*                                                                          *)
(* A node is [key, compr, cs, kids]: whether the path to it is a key, and   *)
(* its children.  A normal node has a child per character of cs, in order;  *)
(* a compressed one stands for a chain of nodes and has one child, reached  *)
(* by all the characters of cs.                                             *)
(***************************************************************************)
EXTENDS Integers, SequencesExt, FiniteSetsExt

raxNewNode == [key |-> FALSE, compr |-> FALSE, cs |-> <<>>, kids |-> <<>>]
Rest(s, n) == SubSeq(s, n + 1, Len(s))
OneChild(h) == h.compr \/ Len(h.cs) = 1
ChildOf(h, c) == SelectInSeq(h.cs, LAMBDA x : x = c)
Matching(cs, s) == CHOOSE n \in 0..Len(cs) :
                     /\ n <= Len(s) /\ \A i \in 1..n : cs[i] = s[i]
                     /\ n = Len(cs) \/ n = Len(s) \/ cs[n + 1] # s[n + 1]

\* The walk along s: the children taken, how much of s they cover, and the
\* position in the compressed node where it stopped.
RECURSIVE Walk(_, _, _, _)
Stopped(pos, i, split) == [pos |-> pos, i |-> i + split, split |-> split]
WalkChild(h, s, pos, i, c) == IF c = 0 THEN Stopped(pos, i, 0) ELSE Walk(h.kids[c], s, Append(pos, c), i + 1)
WalkCompressed(h, s, pos, i, j) == IF j < Len(h.cs) THEN Stopped(pos, i, j) ELSE Walk(h.kids[1], s, Append(pos, 1), i + j)
Walk(h, s, pos, i) ==
    IF h.cs = <<>> \/ i >= Len(s) THEN Stopped(pos, i, 0)
    ELSE IF h.compr THEN WalkCompressed(h, s, pos, i, Matching(h.cs, Rest(s, i)))
    ELSE WalkChild(h, s, pos, i, ChildOf(h, s[i + 1]))
raxLowWalk(h, s) == Walk(h, s, <<>>, 0)

RECURSIVE NodeAt(_, _)
NodeAt(h, pos) == IF pos = <<>> THEN h ELSE NodeAt(h.kids[Head(pos)], Tail(pos))

Found(h, s, w) == w.i = Len(s) /\ w.split = 0 /\ NodeAt(h, w.pos).key
raxFind(h, s) == Found(h, s, raxLowWalk(h, s))

raxAddChild(h, c, child) ==
    LET at == Cardinality({i \in DOMAIN h.cs : h.cs[i] < c}) + 1
    IN [h EXCEPT !.cs = InsertAt(@, at, c), !.kids = InsertAt(@, at, child)]

Part(cs, key, kid) == [key |-> key, compr |-> Len(cs) > 1, cs |-> cs, kids |-> <<kid>>]

\* The key ends in a compressed node, after j characters (ALGORITHM 2).
SplitAtEnd(h, j) == Part(SubSeq(h.cs, 1, j), h.key, Part(Rest(h.cs, j), TRUE, h.kids[1]))

\* The key leaves a compressed node after j characters: the node that gets
\* the other child, with what followed in the old one (ALGORITHM 1).
SplitNode(h, j) == LET tail == Rest(h.cs, j + 1) IN
                   Part(<<h.cs[j + 1]>>, j = 0 /\ h.key,
                        IF tail = <<>> THEN h.kids[1] ELSE Part(tail, FALSE, h.kids[1]))

\* What is left of the key, below a node without children: one compressed node.
InsertRest(h, s) == Part(s, h.key, [raxNewNode EXCEPT !.key = TRUE])

RECURSIVE raxInsert(_, _)
InsertChild(h, s, c) ==
    IF c # 0 THEN [h EXCEPT !.kids[c] = raxInsert(@, Tail(s))]
    ELSE raxAddChild(h, Head(s), raxInsert(raxNewNode, Tail(s)))
InsertCompressed(h, s, j) ==
    IF j = Len(h.cs) THEN [h EXCEPT !.kids[1] = raxInsert(@, Rest(s, j))]
    ELSE IF j = Len(s) THEN SplitAtEnd(h, j)
    ELSE IF j = 0 THEN raxInsert(SplitNode(h, 0), s)
    ELSE Part(SubSeq(h.cs, 1, j), h.key, raxInsert(SplitNode(h, j), Rest(s, j)))
raxInsert(h, s) ==
    IF s = <<>> THEN [h EXCEPT !.key = TRUE]
    ELSE IF h.cs = <<>> THEN InsertRest(h, s)
    ELSE IF h.compr THEN InsertCompressed(h, s, Matching(h.cs, s))
    ELSE InsertChild(h, s, ChildOf(h, Head(s)))

raxRemoveChild(h, c) == IF h.compr THEN [raxNewNode EXCEPT !.key = h.key]
                        ELSE [h EXCEPT !.cs = RemoveAt(@, c), !.kids = RemoveAt(@, c)]

\* Take the node at a position out, with the nodes above it that were only
\* there for it: the tree and the position where that stopped.
RECURSIVE Prune(_, _)
RECURSIVE SetNode(_, _, _)
SetNode(n, p, new) == IF p = <<>> THEN new ELSE [n EXCEPT !.kids[Head(p)] = SetNode(@, Tail(p), new)]
PruneAt(head, up, h, c) ==
    IF up = <<>> \/ h.key \/ ~OneChild(h) THEN [head |-> SetNode(head, up, raxRemoveChild(h, c)), pos |-> up]
    ELSE Prune(head, up)
PruneFrom(head, up, c) == PruneAt(head, up, NodeAt(head, up), c)
Prune(head, pos) == IF pos = <<>> THEN [head |-> head, pos |-> pos] ELSE PruneFrom(head, Front(pos), Last(pos))

\* Make one node of a chain of nodes that are not keys and have one child.
RECURSIVE Chain(_)
Longer(h, more) == [more EXCEPT !.cs = h.cs \o @, !.nodes = @ + 1]
Chain(h) == IF h.cs = <<>> \/ Last(h.kids).key \/ ~OneChild(Last(h.kids))
            THEN [cs |-> h.cs, end |-> IF h.cs = <<>> THEN h ELSE Last(h.kids), nodes |-> 1]
            ELSE Longer(h, Chain(Last(h.kids)))
OneNode(h, c) == IF c.nodes = 1 THEN h ELSE [key |-> FALSE, compr |-> TRUE, cs |-> c.cs, kids |-> <<c.end>>]
Compressed(h) == OneNode(h, Chain(h))

\* The chain through the node at pos, from its first node on.
RECURSIVE Recompress(_, _)
Recompress(h, pos) ==
    IF pos = <<>> \/ \A k \in 0..(Len(pos) - 1) :
                        LET n == NodeAt(h, SubSeq(pos, 1, k)) IN ~n.key /\ OneChild(n)
    THEN Compressed(h)
    ELSE [h EXCEPT !.kids[Head(pos)] = Recompress(@, Tail(pos))]

RECURSIVE SetKey(_, _, _)
SetKey(h, pos, b) == IF pos = <<>> THEN [h EXCEPT !.key = b]
                     ELSE [h EXCEPT !.kids[Head(pos)] = SetKey(@, Tail(pos), b)]
RecompressIf(head, pos, at) == IF Len(at.cs) = 1 /\ ~at.key THEN Recompress(head, pos) ELSE head
TryRecompress(p) == RecompressIf(p.head, p.pos, NodeAt(p.head, p.pos))
RemoveKey(head, pos, leaf) == TryRecompress(IF leaf THEN Prune(head, pos) ELSE [head |-> head, pos |-> pos])
RemoveFound(head, s, w) ==
    IF Found(head, s, w) THEN RemoveKey(SetKey(head, w.pos, FALSE), w.pos, NodeAt(head, w.pos).cs = <<>>) ELSE head
raxRemove(head, s) == RemoveFound(head, s, raxLowWalk(head, s))

\* The iterator: the position of a node and the key so far; "up" tells whether
\* a step begins with the parent (it does not after a seek that left a node).
At(pos, key) == [eof |-> FALSE, pos |-> pos, key |-> key]
Eof == [eof |-> TRUE, pos |-> <<>>, key |-> <<>>]
Label(h, c) == IF h.compr THEN h.cs ELSE <<h.cs[c]>>
Cut(key, h) == SubSeq(key, 1, Len(key) - (IF h.compr THEN Len(h.cs) ELSE 1))

RECURSIVE raxIteratorNextStep(_, _, _, _)
RECURSIVE NextUp(_, _, _, _)
NextInto(head, p, n, k, c) ==
    IF n.kids[c].key THEN At(Append(p, c), k \o Label(n, c))
    ELSE raxIteratorNextStep(head, Append(p, c), k \o Label(n, c), FALSE)
NextFrom(head, q, n, k, stay) ==
    LET greater == {i \in DOMAIN n.cs : n.cs[i] > Last(k)} IN
    IF ~n.compr /\ Len(n.cs) > (IF stay THEN 0 ELSE 1) /\ greater # {}
    THEN NextInto(head, q, n, Cut(k, n), Min(greater))
    ELSE NextUp(head, q, Cut(k, n), FALSE)
NextAt(head, q, k, stay) == NextFrom(head, q, NodeAt(head, q), k, stay)
NextUp(head, p, k, stay) ==
    IF stay THEN NextAt(head, p, k, stay) ELSE IF p = <<>> THEN Eof ELSE NextAt(head, Front(p), k, stay)
NextStep(head, pos, h, key, noup) ==
    IF ~noup /\ h.kids # <<>> THEN NextInto(head, pos, h, key, 1) ELSE NextUp(head, pos, key, noup)
raxIteratorNextStep(head, pos, key, noup) == NextStep(head, pos, NodeAt(head, pos), key, noup)

RECURSIVE raxSeekGreatest(_, _, _)
GreatestBelow(head, pos, h, key) ==
    IF h.kids = <<>> THEN At(pos, key)
    ELSE raxSeekGreatest(head, Append(pos, Len(h.kids)), key \o Label(h, Len(h.kids)))
raxSeekGreatest(head, pos, key) == GreatestBelow(head, pos, NodeAt(head, pos), key)

RECURSIVE raxIteratorPrevStep(_, _, _, _)
PrevOrOn(head, to) == IF NodeAt(head, to.pos).key THEN to ELSE raxIteratorPrevStep(head, to.pos, to.key, FALSE)
PrevBelow(head, p, h, cut, less, noup) ==
    IF ~h.compr /\ Len(h.cs) > (IF noup THEN 0 ELSE 1) /\ less # {}
    THEN raxSeekGreatest(head, Append(p, Max(less)), Append(cut, h.cs[Max(less)])) ELSE At(p, cut)
PrevAt(head, p, h, key, noup) == PrevBelow(head, p, h, Cut(key, h), {i \in DOMAIN h.cs : h.cs[i] < Last(key)}, noup)
PrevFrom(head, p, key, noup) == PrevOrOn(head, PrevAt(head, p, NodeAt(head, p), key, noup))
raxIteratorPrevStep(head, pos, key, noup) ==
    IF ~noup /\ pos = <<>> THEN Eof ELSE PrevFrom(head, IF noup THEN pos ELSE Front(pos), key, noup)

raxNext(head, it) == IF it.eof THEN it ELSE raxIteratorNextStep(head, it.pos, it.key, FALSE)
raxPrev(head, it) == IF it.eof THEN it ELSE raxIteratorPrevStep(head, it.pos, it.key, FALSE)

RECURSIVE KeyAt(_, _)
KeyAt(h, pos) == IF pos = <<>> THEN <<>> ELSE Label(h, Head(pos)) \o KeyAt(h.kids[Head(pos)], Tail(pos))

\* op is one of ">=", ">", "<=", "<", "=" and "$" (the last key).
SeekStep(head, pos, key, gt, noup) ==
    IF gt THEN raxIteratorNextStep(head, pos, key, noup) ELSE raxIteratorPrevStep(head, pos, key, noup)
\* The walk stopped in a compressed node, before the character "keychar".
InCompressed(nodechar, keychar, gt) ==
    IF gt /\ nodechar > keychar THEN "below" ELSE IF ~gt /\ nodechar < keychar THEN "greatest" ELSE "above"
SeekFrom(head, pos, key, h, gt, where) ==
    IF where = "greatest" THEN raxSeekGreatest(head, pos, key)
    ELSE SeekStep(head, pos, IF where = "above" THEN key \o h ELSE key, gt, where = "above")
SeekAt(head, s, w, h, gt) ==
    SeekFrom(head, w.pos, KeyAt(head, w.pos), IF h.compr THEN h.cs ELSE SubSeq(s, w.i + 1, w.i + 1), gt,
             IF w.i = Len(s) THEN "below" ELSE IF ~h.compr THEN "above" ELSE InCompressed(h.cs[w.split + 1], s[w.i + 1], gt))
SeekBy(head, op, s, w) ==
    IF op \in {">=", "<=", "="} /\ Found(head, s, w) THEN At(w.pos, s)
    ELSE IF op = "=" THEN Eof
    ELSE SeekAt(head, s, w, NodeAt(head, w.pos), op \in {">", ">="})
raxSeek(head, op, s) ==
    IF head = raxNewNode THEN Eof
    ELSE IF op = "$" THEN raxSeekGreatest(head, <<>>, <<>>)
    ELSE SeekBy(head, op, s, raxLowWalk(head, s))

RECURSIVE KeysFrom(_, _)
KeysFrom(head, it) == IF it.eof THEN <<>> ELSE <<it.key>> \o KeysFrom(head, raxNext(head, it))
RECURSIVE KeysBack(_, _)
KeysBack(head, it) == IF it.eof THEN <<>> ELSE <<it.key>> \o KeysBack(head, raxPrev(head, it))

\* The slot index: [rax, count]; a key begins with its slot.
slotToKeyUpdateKey(m, s, add) ==
    [rax |-> IF add THEN raxInsert(m.rax, s) ELSE raxRemove(m.rax, s),
     count |-> [m.count EXCEPT ![Head(s)] = @ + (IF add THEN 1 ELSE -1)]]
FirstInSlot(found, slot, n) ==
    LET other == SelectInSeq(found, LAMBDA k : Head(k) # slot)
    IN SubSeq(found, 1, Min({n, IF other = 0 THEN Len(found) ELSE other - 1}))
getKeysInSlot(m, slot, n) == FirstInSlot(KeysFrom(m.rax, raxSeek(m.rax, ">=", <<slot>>)), slot, n)
RECURSIVE delKeysInSlot(_, _)
delKeysInSlot(m, slot) ==
    IF m.count[slot] = 0 THEN m
    ELSE delKeysInSlot(slotToKeyUpdateKey(m, raxSeek(m.rax, ">=", <<slot>>).key, FALSE), slot)

RECURSIVE KeySet(_)
KeySet(h) == (IF h.key THEN {<<>>} ELSE {}) \cup
             UNION {{Label(h, c) \o k : k \in KeySet(h.kids[c])} : c \in DOMAIN h.kids}

\* The children are in order, a compressed node stands for two or more, no
\* leaf is without a key.
RECURSIVE RaxOK(_)
RaxOK(h) == /\ IF h.compr THEN Len(h.cs) > 1 /\ Len(h.kids) = 1
               ELSE Len(h.kids) = Len(h.cs) /\ \A i, j \in DOMAIN h.cs : i < j => h.cs[i] < h.cs[j]
            /\ \A i \in DOMAIN h.kids : RaxOK(h.kids[i]) /\ (h.kids[i].kids = <<>> => h.kids[i].key)
=============================================================================
