---------------------------- MODULE HyperLogLog -----------------------------
(***************************************************************************)
(* HyperLogLog (hyperloglog.c): an array of registers, each the longest    *)
(* pattern seen among the elements that hash to it.  The sparse encoding   *)
(* is a sequence of opcodes, ZERO and XZERO for runs of empty registers and *)
(* VAL for a short run of a small value; it is edited in place and given   *)
(* up for the dense one, an array, when a value or the string is too       *)
(* large.  The header caches the last count.  An element stands for what   *)
(* its hash says of it: a register and a pattern length.                   *)
(***************************************************************************)
EXTENDS StringType

CONSTANTS HLL_REGISTERS, HLL_REGISTER_MAX, HLL_HDR_SIZE,
          HLL_SPARSE_ZERO_MAX_LEN, HLL_SPARSE_XZERO_MAX_LEN,
          HLL_SPARSE_VAL_MAX_LEN, HLL_SPARSE_VAL_MAX_VALUE,
          hll_sparse_max_bytes

Registers == 0..(HLL_REGISTERS - 1)

Zero(n) == IF n > HLL_SPARSE_ZERO_MAX_LEN THEN [op |-> "XZERO", len |-> n, val |-> 0]
           ELSE [op |-> "ZERO", len |-> n, val |-> 0]

Val(v, n) == [op |-> "VAL", len |-> n, val |-> v]

oplen(x) == IF x.op = "XZERO" THEN 2 ELSE 1

Total(s, F(_)) == FoldLeft(LAMBDA n, x : n + F(x), 0, s)

\* Registers covered by some opcodes, and bytes of them.
Runs(ops) == Total(ops, LAMBDA x : x.len)

Bytes(ops) == Total(ops, oplen)

-----------------------------------------------------------------------------
\* An object: its encoding, opcodes or registers, and the cached count.  A new
\* one has a count of 0, which is right.

CONSTANT Invalid     \* no cached count

\* SUM(2^-reg) in units of 2^-HLL_REGISTER_MAX: the estimate is a function of it.
PE(reg) == 2^(HLL_REGISTER_MAX - reg)

RawSum(regs) == FoldLeft(LAMBDA n, i : n + PE(regs[i - 1]), 0, [i \in 1..HLL_REGISTERS |-> i])

NoElements == [i \in Registers |-> 0]

createHLLObject ==
    LET n == (HLL_REGISTERS + HLL_SPARSE_XZERO_MAX_LEN - 1) \div HLL_SPARSE_XZERO_MAX_LEN
        Run(j) == IF j < n THEN HLL_SPARSE_XZERO_MAX_LEN ELSE HLL_REGISTERS - (n - 1) * HLL_SPARSE_XZERO_MAX_LEN
    IN  [type |-> "hll", enc |-> "sparse",
         p |-> [j \in 1..n |-> [op |-> "XZERO", len |-> Run(j), val |-> 0]],
         card |-> RawSum(NoElements)]

\* The registers the opcodes spell.
Spelled(ops) ==
    LET regs == FoldLeft(LAMBDA s, x : s \o [j \in 1..x.len |-> x.val], <<>>, ops)
    IN  [i \in Registers |-> IF i < Len(regs) THEN regs[i + 1] ELSE 0]

hllSparseToDense(o) ==
    IF o.enc = "dense" THEN o ELSE [o EXCEPT !.enc = "dense", !.p = Spelled(o.p)]

hllDenseAdd(o, ele) ==
    IF ele.count > o.p[ele.index] THEN Out([o EXCEPT !.p[ele.index] = ele.count], 1) ELSE Out(o, 0)

\* A conversion to dense happens because a register has to change.
Promote(o, ele) == hllDenseAdd(hllSparseToDense(o), ele)

\* The opcode that covers a register, and the first register it covers.
First(ops, j) == Runs(SubSeq(ops, 1, j - 1))

Covers(ops, index) ==
    CHOOSE j \in 1..Len(ops) : First(ops, j) <= index /\ index < First(ops, j + 1)

\* One of up to five steps that merge equal values, from the opcode before.
MergeStep(s, n) ==
    LET x == s.ops[s.p]
        y == s.ops[s.p + 1]
    IN  IF s.p > Len(s.ops) THEN s
        ELSE IF /\ x.op = "VAL" /\ s.p < Len(s.ops) /\ y.op = "VAL" /\ x.val = y.val
                /\ x.len + y.len <= HLL_SPARSE_VAL_MAX_LEN
        THEN [s EXCEPT !.ops = SubSeq(@, 1, s.p - 1) \o <<Val(x.val, x.len + y.len)>>
                               \o SubSeq(@, s.p + 2, Len(@))]
        ELSE [s EXCEPT !.p = @ + 1]

Merged(ops, p) == FoldLeft(MergeStep, [ops |-> ops, p |-> p], <<1, 2, 3, 4, 5>>).ops

\* The opcodes that take the place of x, whose first register is first.
Split(x, first, ele) ==
    LET Part(n) == IF n = 0 THEN <<>> ELSE IF x.op = "VAL" THEN <<Val(x.val, n)>> ELSE <<Zero(n)>>
    IN  Part(ele.index - first) \o <<Val(ele.count, 1)>> \o Part(first + x.len - 1 - ele.index)

hllSparseAdd(o, ele) ==
    LET j == Covers(o.p, ele.index)
        x == o.p[j]
        seq == IF x.len = 1 /\ x.op # "XZERO" THEN <<Val(ele.count, 1)>> ELSE Split(x, First(o.p, j), ele)
        deltalen == Bytes(seq) - oplen(x)
        ops == SubSeq(o.p, 1, j - 1) \o seq \o SubSeq(o.p, j + 1, Len(o.p))
    IN  IF ele.count > HLL_SPARSE_VAL_MAX_VALUE THEN Promote(o, ele)
        ELSE IF x.op = "VAL" /\ x.val >= ele.count THEN Out(o, 0)
        ELSE IF deltalen > 0 /\ HLL_HDR_SIZE + Bytes(o.p) + deltalen > hll_sparse_max_bytes
        THEN Promote(o, ele)
        ELSE Out([o EXCEPT !.p = Merged(ops, IF j > 1 THEN j - 1 ELSE 1), !.card = Invalid], 1)

hllAdd(o, ele) == IF o.enc = "dense" THEN hllDenseAdd(o, ele) ELSE hllSparseAdd(o, ele)

hllSparseSum(ops) == Total(ops, LAMBDA x : IF x.op = "VAL" THEN PE(x.val) * x.len ELSE PE(0) * x.len)

hllCount(o) == IF o.enc = "dense" THEN RawSum(o.p) ELSE hllSparseSum(o.p)

\* The greater of two in every register.
hllMerge(max, o) ==
    IF o = NoKey THEN max
    ELSE LET regs == IF o.enc = "dense" THEN o.p ELSE Spelled(o.p)
         IN  [i \in Registers |-> IF regs[i] > max[i] THEN regs[i] ELSE max[i]]

-----------------------------------------------------------------------------
\* A sparse string whose runs do not add up to the registers is corrupted.
Corrupted(o) == o # NoKey /\ o.enc = "sparse" /\ Runs(o.p) # HLL_REGISTERS

pfaddCommand(o, eles) ==
    LET new == IF o = NoKey THEN createHLLObject ELSE o
        Add(out, ele) == LET a == hllAdd(out.o, ele) IN Out(a.o, out.r + a.r)
        out == FoldLeft(Add, Out(new, IF o = NoKey THEN 1 ELSE 0), eles)
    IN  IF out.r > 0 THEN Out([out.o EXCEPT !.card = Invalid], 1) ELSE out

pfcountCommand(o) ==
    IF o = NoKey THEN Out(o, RawSum(NoElements))
    ELSE IF o.card # Invalid THEN Out(o, o.card)
    ELSE IF Corrupted(o) THEN Out(o, "invalidobj")
    ELSE Out([o EXCEPT !.card = hllCount(o)], hllCount(o))

MaxOver(db, ks) == FoldLeft(LAMBDA max, k : hllMerge(max, db[k]), NoElements, ks)

pfcountUnion(db, ks) ==
    IF \E k \in ToSet(ks) : Corrupted(db[k]) THEN "invalidobj" ELSE RawSum(MaxOver(db, ks))

pfmergeCommand(db, k, ks) ==
    LET all == <<k>> \o ks
        o == IF db[k] = NoKey THEN createHLLObject ELSE db[k]
    IN  IF \E q \in ToSet(all) : Corrupted(db[q]) THEN [db |-> db, r |-> "invalidobj"]
        ELSE [db |-> [db EXCEPT ![k] = [hllSparseToDense(o) EXCEPT !.p = MaxOver(db, all), !.card = Invalid]],
              r |-> "ok"]

\* The runs of a sparse string cover the registers, and every opcode can be
\* written: no run is empty or longer than its bits can say.
HllOK(o) ==
    o.enc = "sparse" =>
        /\ Runs(o.p) = HLL_REGISTERS
        /\ HLL_HDR_SIZE + Bytes(o.p) <= hll_sparse_max_bytes
        /\ \A j \in 1..Len(o.p) :
              LET x == o.p[j]
              IN  CASE x.op = "ZERO" -> x.len \in 1..HLL_SPARSE_ZERO_MAX_LEN
                    [] x.op = "XZERO" -> x.len \in 1..HLL_SPARSE_XZERO_MAX_LEN
                    [] x.op = "VAL" -> x.len \in 1..HLL_SPARSE_VAL_MAX_LEN
                                       /\ x.val \in 1..HLL_SPARSE_VAL_MAX_VALUE
=============================================================================
