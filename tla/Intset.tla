------------------------------- MODULE Intset -------------------------------
(***************************************************************************)
(* The sorted array of integers behind small sets (intset.c).  An intset   *)
(* is a record: enc, the encoding every element is stored with, and c, the *)
(* elements.  An element stored with an encoding that is too narrow keeps  *)
(* its low bits only, as the assignment to int16_t or int32_t does.        *)
(***************************************************************************)
EXTENDS Integers, Sequences, SequencesExt

CONSTANT IntBits    \* the widths of the encodings (16, 32 and 64 in the code)

ASSUME IntBitsAssumption ==
    \A e \in DOMAIN IntBits : IntBits[e] \in Nat \ {0} /\ (e > 1 => IntBits[e - 1] < IntBits[e])

\* The smallest encoding whose range holds the value.
_intsetValueEncoding(v) ==
    CHOOSE e \in DOMAIN IntBits :
        /\ v \in -(2^(IntBits[e] - 1)) .. (2^(IntBits[e] - 1) - 1)
        /\ \A d \in 1..(e - 1) : v \notin -(2^(IntBits[d] - 1)) .. (2^(IntBits[d] - 1) - 1)

\* What an element of this encoding reads as after v was assigned to it.
_intsetSet(enc, v) ==
    LET m == 2^IntBits[enc]
        r == v % m
    IN  IF r < m \div 2 THEN r ELSE r - m

intsetNew == [enc |-> 1, c |-> <<>>]

intsetLen(is) == Len(is.c)

\* Binary search.  pos is the 0-based index of the value, or where it belongs.
intsetSearch(is, value) ==
    LET n == Len(is.c)
        Loop[min \in 0..n, max \in -1..n] ==
            IF max < min THEN [found |-> FALSE, pos |-> min]
            ELSE LET mid == (min + max) \div 2
                     cur == is.c[mid + 1]
                 IN  IF value > cur THEN Loop[mid + 1, max]
                     ELSE IF value < cur THEN Loop[min, mid - 1]
                     ELSE [found |-> TRUE, pos |-> mid]
    IN  IF n = 0 THEN [found |-> FALSE, pos |-> 0]
        ELSE IF value > is.c[n] THEN [found |-> FALSE, pos |-> n]
        ELSE IF value < is.c[1] THEN [found |-> FALSE, pos |-> 0]
        ELSE Loop[0, n - 1]

\* A value that needs a wider encoding lies outside the range of all the
\* others, so it goes to one of the ends.
intsetUpgradeAndAdd(is, value) ==
    LET enc == _intsetValueEncoding(value)
        old == [j \in 1..Len(is.c) |-> _intsetSet(enc, is.c[j])]
        new == _intsetSet(enc, value)
    IN  [enc |-> enc, c |-> IF value < 0 THEN <<new>> \o old ELSE old \o <<new>>]

intsetAdd(is, value) ==
    LET at == intsetSearch(is, value)
    IN  IF _intsetValueEncoding(value) > is.enc
        THEN [is |-> intsetUpgradeAndAdd(is, value), success |-> TRUE]
        ELSE IF at.found THEN [is |-> is, success |-> FALSE]
        ELSE [is |-> [is EXCEPT !.c = InsertAt(@, at.pos + 1, _intsetSet(is.enc, value))],
              success |-> TRUE]

intsetRemove(is, value) ==
    LET at == intsetSearch(is, value)
    IN  IF _intsetValueEncoding(value) <= is.enc /\ at.found
        THEN [is |-> [is EXCEPT !.c = RemoveAt(@, at.pos + 1)], success |-> TRUE]
        ELSE [is |-> is, success |-> FALSE]

intsetFind(is, value) ==
    _intsetValueEncoding(value) <= is.enc /\ intsetSearch(is, value).found

\* Sorted, without duplicates, every element within the encoding.
IntsetOK(is) ==
    /\ \A j \in 1..(Len(is.c) - 1) : is.c[j] < is.c[j + 1]
    /\ \A j \in 1..Len(is.c) : _intsetValueEncoding(is.c[j]) <= is.enc
=============================================================================
