-------------------------- MODULE RedisHyperLogLog --------------------------
(***************************************************************************)
(* The HyperLogLog (hyperloglog.c): an array of registers, of which only    *)
(* the largest value set is kept.  While most registers are zero the array  *)
(* is a string of opcodes: a run of zeroes (ZERO, or XZERO for a long run)  *)
(* or a run of registers with one value (VAL); later it is stored as it is. *)
(*                                                                          *)
(* A HyperLogLog is [enc, ops, regs, card]: the opcodes [t, len, v], or the *)
(* registers when dense, and the cached cardinality: the registers it was   *)
(* computed from, <<>> when it is marked invalid.                           *)
(* The bounds stand for 16384 registers, runs of 64 zeroes and 4 values,    *)
(* values up to 32 and hll-sparse-max-bytes.                                *)
(***************************************************************************)
EXTENDS Integers, SequencesExt, FiniteSetsExt

Registers == 7
ZeroMaxLen == 3
ValMaxLen == 2
ValMaxValue == 2
MaxBytes == 5

ZeroRun(len) == [t |-> IF len > ZeroMaxLen THEN "xzero" ELSE "zero", len |-> len, v |-> 0]
ValRun(v, len) == [t |-> "val", len |-> len, v |-> v]
OpLen(op) == IF op.t = "xzero" THEN 2 ELSE 1
Bytes(ops) == FoldLeft(LAMBDA n, op : n + OpLen(op), 0, ops)

createHLLObject == [enc |-> "sparse", ops |-> <<[t |-> "xzero", len |-> Registers, v |-> 0]>>,
                    regs |-> <<>>, card |-> [i \in 1..Registers |-> 0]]

SparseRegisters(ops) == FlattenSeq([i \in DOMAIN ops |-> [j \in 1..ops[i].len |-> ops[i].v]])
RegistersOf(h) == IF h.enc = "dense" THEN h.regs ELSE SparseRegisters(h.ops)
hllSparseToDense(h) == [h EXCEPT !.enc = "dense", !.ops = <<>>, !.regs = SparseRegisters(h.ops)]
hllDenseSet(h, index, count) == IF h.regs[index] >= count THEN h ELSE [h EXCEPT !.regs[index] = count]

\* Merge neighbours with one value, looking at "scan" opcodes from p on.
RECURSIVE MergeVals(_, _, _)
MergeVals(ops, p, scan) ==
    LET a == ops[p]
        b == ops[p + 1]
    IN IF p > Len(ops) \/ scan = 0 THEN ops
       ELSE IF a.t = "val" /\ p < Len(ops) /\ b.t = "val" /\ a.v = b.v /\ a.len + b.len <= ValMaxLen
            THEN MergeVals(ReplaceAt(RemoveAt(ops, p), p, ValRun(a.v, a.len + b.len)), p, scan - 1)
       ELSE MergeVals(ops, p + 1, scan - 1)

\* The opcode that covers a register, and the registers on its two sides.
CoveredBefore(ops, p) == FoldLeft(LAMBDA n, op : n + op.len, 0, SubSeq(ops, 1, p - 1))
CoveredBy(ops, p, op, left) == [p |-> p, op |-> op, left |-> left, right |-> op.len - left - 1]
Covering(ops, index) ==
    LET at == CHOOSE p \in DOMAIN ops : index - CoveredBefore(ops, p) \in 1..ops[p].len
    IN CoveredBy(ops, at, ops[at], index - CoveredBefore(ops, at) - 1)

\* The up to three opcodes that replace it.
Replacement(c, count) ==
    LET Run(len) == IF len = 0 THEN <<>>
                    ELSE IF c.op.t = "val" THEN <<ValRun(c.op.v, len)>> ELSE <<ZeroRun(len)>>
    IN Run(c.left) \o <<ValRun(count, 1)>> \o Run(c.right)

Spliced(h, c, seq) ==
    [h EXCEPT !.ops = MergeVals(SubSeq(@, 1, c.p - 1) \o seq \o SubSeq(@, c.p + 1, Len(@)), Max({c.p - 1, 1}), 5), !.card = <<>>]
Promoted(h, index, count) == hllDenseSet(hllSparseToDense(h), index, count)
\* An opcode of one register is changed in place; others grow by "delta".
SplitOrPromote(h, index, count, c, seq, delta) ==
    IF (c.op.len # 1 \/ c.op.t = "xzero") /\ delta > 0 /\ Bytes(h.ops) + delta > MaxBytes
    THEN Promoted(h, index, count) ELSE Spliced(h, c, seq)
SplitWith(h, index, count, c, seq) == SplitOrPromote(h, index, count, c, seq, Bytes(seq) - OpLen(c.op))
SetCovered(h, index, count, c) ==
    IF c.op.t = "val" /\ c.op.v >= count THEN h ELSE SplitWith(h, index, count, c, Replacement(c, count))
hllSparseSet(h, index, count) ==
    IF count > ValMaxValue THEN Promoted(h, index, count)
    ELSE SetCovered(h, index, count, Covering(h.ops, index))

hllAdd(h, index, count) == IF h.enc = "dense" THEN hllDenseSet(h, index, count)
                           ELSE hllSparseSet(h, index, count)
\* PFADD: the cache is dropped when a register changed.
DropCache(new, old) == IF RegistersOf(new) # RegistersOf(old) THEN [new EXCEPT !.card = <<>>] ELSE new
pfaddCommand(h, index, count) == DropCache(hllAdd(h, index, count), h)
\* PFCOUNT: the cached cardinality if it is valid.
pfcountCommand(h) == IF h.card # <<>> THEN h ELSE [h EXCEPT !.card = RegistersOf(h)]
\* PFMERGE of another set of registers: set every register that is not zero.
\* The result is dense if one of the two is; the other is if it has to be.
SetAll(h, max) ==
    [FoldLeftDomain(LAMBDA x, i : IF max[i] = 0 THEN x ELSE hllAdd(x, i, max[i]), h, max) EXCEPT !.card = <<>>]
Larger(a, b) == [i \in 1..Registers |-> Max({a[i], b[i]})]
pfmergeCommand(h, other) ==
    SetAll(IF h.enc = "sparse" /\ \E i \in DOMAIN other : other[i] > ValMaxValue THEN hllSparseToDense(h) ELSE h,
           Larger(RegistersOf(h), other))

\* The opcodes cover the registers, each within what it can encode.
HllOK(h) ==
    /\ Len(RegistersOf(h)) = Registers
    /\ h.enc = "sparse" => /\ Bytes(h.ops) <= MaxBytes
                           /\ \A i \in DOMAIN h.ops :
                                LET op == h.ops[i] IN
                                op.len >= 1 /\ (op.t = "zero" => op.len <= ZeroMaxLen)
                                /\ (op.t = "val" => op.len <= ValMaxLen /\ op.v \in 1..ValMaxValue)
=============================================================================
