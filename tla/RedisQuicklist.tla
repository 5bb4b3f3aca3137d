---------------------------- MODULE RedisQuicklist ----------------------------
(***************************************************************************)
(* The quicklist (quicklist.c), which every list is: a linked list of       *)
(* ziplists.  The nodes away from the ends may be compressed; one that is   *)
(* used is uncompressed and marked to be compressed again.                  *)
(*                                                                          *)
(* A quicklist is [nodes, count]; a node is [zl, lzf, re]: its entries,     *)
(* whether they are compressed, and the mark "recompress".                  *)
(***************************************************************************)
EXTENDS Integers, SequencesExt

CONSTANTS
    Fill,       \* list-max-ziplist-size, as a number of entries per node
    Depth,      \* list-compress-depth
    MinCompress \* entries of the smallest node that is worth compressing

\* A function on 1..n as TLC lays out a sequence.
Laid(f) == f \o <<>>

quicklistCreate == [nodes |-> <<>>, count |-> 0]
NewNode(vals) == [zl |-> vals, lzf |-> FALSE, re |-> FALSE]

CompressNode(n) == IF n.lzf \/ Len(n.zl) < MinCompress THEN n
                   ELSE [n EXCEPT !.lzf = TRUE, !.re = FALSE]
DecompressNode(n) == [n EXCEPT !.lzf = FALSE]
DecompressNodeForUse(n) == IF n.lzf THEN [n EXCEPT !.lzf = FALSE, !.re = TRUE] ELSE n

\* Uncompress the nodes near the ends and compress node j (0: none), unless it
\* is one of them, and the first nodes beyond.  "len" is the number of nodes
\* that the header gives.
NearEnds(nodes) == {i \in DOMAIN nodes : i <= Depth \/ i > Len(nodes) - Depth}
\* The first nodes beyond those near the ends.
Beyond(nodes) == IF Depth >= 2 THEN {Depth + 1, Len(nodes) - Depth} ELSE {}
OpenAndCompress(nodes, ends, compress) ==
    Laid([i \in DOMAIN nodes |->
        IF i \in compress THEN CompressNode(IF i \in ends THEN DecompressNode(nodes[i]) ELSE nodes[i])
        ELSE IF i \in ends THEN DecompressNode(nodes[i]) ELSE nodes[i]])
__quicklistCompress(nodes, len, j) ==
    IF Depth = 0 \/ len < 2 * Depth THEN nodes
    ELSE OpenAndCompress(nodes, NearEnds(nodes),
                         IF Len(nodes) < 2 * Depth THEN {} ELSE Beyond(nodes) \cup ({j} \ NearEnds(nodes)))
quicklistRecompressOnly(nodes, j) ==
    IF nodes[j].re THEN [nodes EXCEPT ![j] = CompressNode(@)] ELSE nodes
quicklistCompress(nodes, len, j) ==
    IF nodes[j].re THEN quicklistRecompressOnly(nodes, j) ELSE __quicklistCompress(nodes, len, j)

\* A new node at position j; the node "old" it is put next to moves to "to".
\* The header counts the node only afterwards.
__quicklistInsertNode(nodes, j, node, to) ==
    IF nodes = <<>> THEN <<node>> ELSE quicklistCompress(InsertAt(nodes, j, node), Len(nodes), to)

__quicklistDelNode(nodes, j) == __quicklistCompress(RemoveAt(nodes, j), Len(nodes), 0)

AllowInsert(nodes, j) == j \in DOMAIN nodes /\ Len(nodes[j].zl) < Fill
AllowMerge(nodes, a, b) == /\ a \in DOMAIN nodes /\ b \in DOMAIN nodes
                           /\ Len(nodes[a].zl) + Len(nodes[b].zl) <= Fill

Counted(ql, nodes, n) == [nodes |-> nodes, count |-> ql.count + n]

quicklistPushHead(ql, v) ==
    Counted(ql, IF AllowInsert(ql.nodes, 1) THEN [ql.nodes EXCEPT ![1].zl = <<v>> \o @]
                ELSE __quicklistInsertNode(ql.nodes, 1, NewNode(<<v>>), 2), 1)
quicklistPushTail(ql, v) ==
    LET n == Len(ql.nodes) IN
    Counted(ql, IF AllowInsert(ql.nodes, n) THEN [ql.nodes EXCEPT ![n].zl = Append(@, v)]
                ELSE __quicklistInsertNode(ql.nodes, n + 1, NewNode(<<v>>), n), 1)

\* Delete entry k of node j.
DelIfEmpty(nodes, j) == IF nodes[j].zl = <<>> THEN __quicklistDelNode(nodes, j) ELSE nodes
quicklistDelIndex(ql, j, k) == Counted(ql, DelIfEmpty([ql.nodes EXCEPT ![j].zl = RemoveAt(@, k)], j), -1)

\* The node and the entry of an index counted from the head; the node is
\* uncompressed for its user.
EntriesBefore(nodes, j) == FoldLeft(LAMBDA n, node : n + Len(node.zl), 0, SubSeq(nodes, 1, j - 1))
UsedAt(ql, j, entry) == [ql |-> [ql EXCEPT !.nodes[j] = DecompressNodeForUse(@)], node |-> j, entry |-> entry]
EntryIn(ql, j, index) == UsedAt(ql, j, index - EntriesBefore(ql.nodes, j) + 1)
quicklistIndex(ql, index) ==
    EntryIn(ql, CHOOSE j \in DOMAIN ql.nodes :
                  index - EntriesBefore(ql.nodes, j) \in 0..(Len(ql.nodes[j].zl) - 1), index)
HasIndex(ql, index) == index \in 0..(ql.count - 1)

ReplaceEntry(ql, e, v) ==
    [ql EXCEPT !.nodes = quicklistCompress([e.ql.nodes EXCEPT ![e.node].zl[e.entry] = v], Len(@), e.node)]
quicklistReplaceAtIndex(ql, index, v) ==
    IF HasIndex(ql, index) THEN ReplaceEntry(ql, quicklistIndex(ql, index), v) ELSE ql

\* Node b is emptied into its left neighbour a, or a into b, which is longer.
CompressAll(nodes, j) == quicklistCompress(nodes, Len(nodes), j)
_quicklistZiplistMerge(nodes, a, b) ==
    CompressAll(__quicklistDelNode(
        [nodes EXCEPT ![a] = [DecompressNode(IF Len(@.zl) >= Len(nodes[b].zl) THEN @ ELSE nodes[b])
                                EXCEPT !.zl = nodes[a].zl \o nodes[b].zl]], b), a)
MergeIf(nodes, a, b) == IF AllowMerge(nodes, a, b) THEN _quicklistZiplistMerge(nodes, a, b) ELSE nodes

\* Merge the nodes around node j where two of them fit in one.
\* Merging to the left of node j moves it one down.
MergeRight(nodes, j) == MergeIf(nodes, j, j + 1)
MergeCentre(nodes, j) == MergeRight(MergeIf(nodes, j - 1, j), IF AllowMerge(nodes, j - 1, j) THEN j - 1 ELSE j)
MergeSecond(nodes, j) == MergeCentre(MergeIf(nodes, j + 1, j + 2), j)
_quicklistMergeNodes(nodes, j) ==
    MergeSecond(MergeIf(nodes, j - 2, j - 1), IF AllowMerge(nodes, j - 2, j - 1) THEN j - 1 ELSE j)

\* Insert v before or after an entry.  An entry is never taken to be at the
\* tail of its node (its offset is compared with the number of entries), so
\* that a full node is split there too.
Split(nodes, j, front, back, v, after) ==
    IF after THEN __quicklistInsertNode([nodes EXCEPT ![j].zl = front], j + 1, NewNode(<<v>> \o back), j)
    ELSE __quicklistInsertNode([nodes EXCEPT ![j].zl = back], j, NewNode(Append(front, v)), j + 1)
\* k is the number of entries of node j that stay before the new one.
InsertIn(nodes, j, k, v, after) ==
    IF AllowInsert(nodes, j) THEN quicklistRecompressOnly([nodes EXCEPT ![j].zl = InsertAt(@, k + 1, v)], j)
    ELSE IF after \/ k > 0 \/ j = 1
    THEN _quicklistMergeNodes(Split(nodes, j, SubSeq(nodes[j].zl, 1, k), SubSeq(nodes[j].zl, k + 1, Len(nodes[j].zl)), v, after),
                              IF after THEN j ELSE j + 1)
    ELSE IF AllowInsert(nodes, j - 1)
    THEN quicklistRecompressOnly([nodes EXCEPT ![j - 1] = [DecompressNodeForUse(@) EXCEPT !.zl = Append(@, v)]], j - 1)
    ELSE __quicklistInsertNode(nodes, j, NewNode(<<v>>), j + 1)
InsertBy(e, v, after) == InsertIn(e.ql.nodes, e.node, IF after THEN e.entry ELSE e.entry - 1, v, after)
_quicklistInsert(ql, index, v, after) == Counted(ql, InsertBy(quicklistIndex(ql, index), v, after), 1)

\* Delete "extent" entries from entry k of node j on: whole nodes at once.
RECURSIVE DelFrom(_, _, _, _)
DelOn(ql, j, k, del, extent, cut) ==
    IF cut[j].zl = <<>> THEN DelFrom(Counted(ql, __quicklistDelNode(cut, j), -del), j, 1, extent - del)
    ELSE DelFrom(Counted(ql, quicklistRecompressOnly(cut, j), -del), j + 1, 1, extent - del)
DelIn(ql, j, k, del, extent) ==
    DelOn(ql, j, k, del, extent,
          [ql.nodes EXCEPT ![j] = [DecompressNodeForUse(@) EXCEPT !.zl = SubSeq(@, 1, k - 1) \o SubSeq(@, k + del, Len(@))]])
DelFrom(ql, j, k, extent) ==
    IF extent = 0 THEN ql
    ELSE IF k = 1 /\ extent >= Len(ql.nodes[j].zl)
    THEN DelFrom(Counted(ql, __quicklistDelNode(ql.nodes, j), -Len(ql.nodes[j].zl)), j, 1, extent - Len(ql.nodes[j].zl))
    ELSE DelIn(ql, j, k, IF extent >= Len(ql.nodes[j].zl) THEN Len(ql.nodes[j].zl) - (k - 1) ELSE extent, extent)

DelRange(e, extent) == DelFrom(e.ql, e.node, e.entry, extent)
DelAt(ql, from, count) ==
    IF count <= 0 \/ ~HasIndex(ql, from) THEN ql
    ELSE DelRange(quicklistIndex(ql, from), IF count > ql.count - from THEN ql.count - from ELSE count)
quicklistDelRange(ql, start, count) == DelAt(ql, IF start < 0 THEN ql.count + start ELSE start, count)

\* Move the last entry to the head.
DelLast(ql) == quicklistDelIndex(ql, Len(ql.nodes), Len(Last(ql.nodes).zl))
quicklistRotate(ql) == IF ql.count <= 1 THEN ql ELSE DelLast(quicklistPushHead(ql, Last(Last(ql.nodes).zl)))

quicklistPop(ql, where) ==
    IF ql.count = 0 THEN ql
    ELSE IF where = "head" THEN quicklistDelIndex(ql, 1, 1) ELSE DelLast(ql)

\* quicklistNext from the head, deleting every entry equal to v on the way.
RECURSIVE DelEntries(_, _, _, _)
DelOrPass(ql, j, k, v, gone) ==
    IF ql.nodes[j].zl[k] = v THEN DelEntries(quicklistDelIndex(ql, j, k), j, IF gone THEN 1 ELSE k, v)
    ELSE DelEntries(ql, j, k + 1, v)
DelEntries(ql, j, k, v) ==
    IF j > Len(ql.nodes) THEN ql
    ELSE IF k > Len(ql.nodes[j].zl)
    THEN DelEntries([ql EXCEPT !.nodes = CompressAll(@, j)], j + 1, 1, v)
    ELSE DelOrPass([ql EXCEPT !.nodes[j] = DecompressNodeForUse(@)], j, k, v, Len(ql.nodes[j].zl) = 1)

Entries(ql) == FlattenSeq([i \in DOMAIN ql.nodes |-> ql.nodes[i].zl])

\* No node is empty or too full, and the count is that of the entries.
QuicklistOK(ql) ==
    /\ \A i \in DOMAIN ql.nodes : Len(ql.nodes[i].zl) \in 1..Fill
    /\ ql.count = Len(Entries(ql))

\* The ends whose node is compressed: a node that an index was looked up in keeps
\* its mark, and is compressed again even where it has become the head or the tail.
Shut(ql) == IF ql.nodes = <<>> THEN {}
            ELSE (IF Head(ql.nodes).lzf THEN {"head"} ELSE {}) \cup (IF Last(ql.nodes).lzf THEN {"tail"} ELSE {})

\* Pushes and pops take the entries of an end node to be uncompressed; when they
\* are not, the bytes are read or written over as they are, and the list is lost.
Spoiled == [nodes |-> <<>>, count |-> -1]
PushSpoils(ql, where) == where \in Shut(ql) /\ AllowInsert(ql.nodes, IF where = "head" THEN 1 ELSE Len(ql.nodes))
PopSpoils(ql, where) == where \in Shut(ql)
RotateSpoils(ql) == ql.count > 1 /\ ("tail" \in Shut(ql) \/ PushSpoils(ql, "head"))
=============================================================================
