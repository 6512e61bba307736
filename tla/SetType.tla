------------------------------- MODULE SetType ------------------------------
(***************************************************************************)
(* The set commands of t_set.c.  A set object is an intset while all its   *)
(* elements are integers and there are not too many of them, then a table  *)
(* for good (a set here).  Elements are integers; those in NotIntegers     *)
(* stand for strings that no long long represents.                         *)
(***************************************************************************)
EXTENDS Intset, FiniteSets

CONSTANTS NotIntegers, set_max_intset_entries

IsIntset(s) == s.enc = "intset"

EmptyIntset == [type |-> "set", enc |-> "intset", p |-> intsetNew]

setTypeCreate(x) == IF x \in NotIntegers THEN [type |-> "set", enc |-> "ht", p |-> {}] ELSE EmptyIntset

\* The elements the iterator returns, in some order for a table.
setTypeNext(s) == IF IsIntset(s) THEN s.p.c ELSE SetToSeq(s.p)

setTypeConvert(s) == [s EXCEPT !.enc = "ht", !.p = ToSet(s.p.c)]

setTypeSize(s) == IF IsIntset(s) THEN intsetLen(s.p) ELSE Cardinality(s.p)

setTypeIsMember(s, x) ==
    IF IsIntset(s) THEN x \notin NotIntegers /\ intsetFind(s.p, x) ELSE x \in s.p

\* The set with the element, and whether it was added.
setTypeAdd(s, x) ==
    LET add == intsetAdd(s.p, x)
        a == [s EXCEPT !.p = add.is]
        h == setTypeConvert(s)
    IN  IF ~IsIntset(s) THEN [s |-> [s EXCEPT !.p = @ \cup {x}], added |-> x \notin s.p]
        ELSE IF x \in NotIntegers THEN [s |-> [h EXCEPT !.p = @ \cup {x}], added |-> TRUE]
        ELSE IF add.success /\ intsetLen(add.is) > set_max_intset_entries
        THEN [s |-> setTypeConvert(a), added |-> TRUE]
        ELSE [s |-> a, added |-> add.success]

setTypeRemove(s, x) ==
    IF ~IsIntset(s) THEN [s EXCEPT !.p = @ \ {x}]
    ELSE IF x \in NotIntegers THEN s
    ELSE [s EXCEPT !.p = intsetRemove(@, x).is]

\* The elements a random choice can return.
setTypeRandomElement(s) == IF IsIntset(s) THEN ToSet(s.p.c) ELSE s.p

-----------------------------------------------------------------------------
\* The commands, on the objects of all keys.  NoSet is a missing key.

NoSet == [type |-> "none"]

\* What SPOP replies on a missing key: a number that is no element.
NoElement == -99

\* A set that has become empty is removed with its key.
Store(db, k, s) == [db EXCEPT ![k] = IF setTypeSize(s) = 0 THEN NoSet ELSE s]

SizeOf(db, k) == IF db[k] = NoSet THEN 0 ELSE setTypeSize(db[k])

saddCommand(db, k, x) ==
    LET r == setTypeAdd(IF db[k] = NoSet THEN setTypeCreate(x) ELSE db[k], x)
    IN  [db |-> [db EXCEPT ![k] = r.s], r |-> IF r.added THEN 1 ELSE 0]

sremCommand(db, k, x) ==
    IF db[k] = NoSet \/ ~setTypeIsMember(db[k], x) THEN [db |-> db, r |-> 0]
    ELSE [db |-> Store(db, k, setTypeRemove(db[k], x)), r |-> 1]

\* With one key for both nothing is looked at.
smoveCommand(db, k, d, x) ==
    LET src == db[k]
        db1 == Store(db, k, setTypeRemove(src, x))
        dst == IF db[d] = NoSet THEN setTypeCreate(x) ELSE db[d]
    IN  IF src = NoSet THEN [db |-> db, r |-> 0]
        ELSE IF k = d THEN [db |-> db, r |-> 1]
        ELSE IF ~setTypeIsMember(src, x) THEN [db |-> db, r |-> 0]
        ELSE [db |-> [db1 EXCEPT ![d] = setTypeAdd(dst, x).s], r |-> 1]

spopCommand(db, k) ==
    IF db[k] = NoSet THEN {[db |-> db, r |-> NoElement]}
    ELSE {[db |-> Store(db, k, setTypeRemove(db[k], x)), r |-> x] : x \in setTypeRandomElement(db[k])}

\* What SRANDMEMBER with a count of 0 or more may reply: the elements left when
\* the others were drawn and removed, or drawn until there are enough.
srandmemberWithCountCommand(db, k, count) ==
    IF db[k] = NoSet \/ count = 0 THEN {{}}
    ELSE IF count >= setTypeSize(db[k]) THEN {ToSet(setTypeNext(db[k]))}
    ELSE {d \in SUBSET setTypeRandomElement(db[k]) : Cardinality(d) = count}

AddAll(s, xs) == FoldLeft(LAMBDA acc, x : setTypeAdd(acc, x).s, s, xs)

RemoveAll(s, xs) == FoldLeft(LAMBDA acc, x : setTypeRemove(acc, x), s, xs)

\* An operation's result under its key; the old value of the key goes.
StoreResult(db, dst, s) == [db |-> Store(db, dst, s), r |-> setTypeSize(s)]

\* The elements of the smallest set that all the others have.
InterOf(sets) ==
    LET J == DOMAIN sets
        small == CHOOSE j \in J : \A i \in J : setTypeSize(sets[j]) <= setTypeSize(sets[i])
    IN  AddAll(EmptyIntset,
               SelectSeq(setTypeNext(sets[small]), LAMBDA x : \A i \in J : setTypeIsMember(sets[i], x)))

\* Without one of the sets there is no result, and the old one is deleted.
sinterGenericCommand(db, ks, dst) ==
    LET sets == [j \in 1..Len(ks) |-> db[ks[j]]]
    IN  IF \E j \in DOMAIN sets : sets[j] = NoSet THEN [db |-> [db EXCEPT ![dst] = NoSet], r |-> 0]
        ELSE StoreResult(db, dst, InterOf(sets))

Elements(db, k) == IF db[k] = NoSet THEN <<>> ELSE setTypeNext(db[k])

UnionOf(db, ks) == FoldLeft(LAMBDA s, k : AddAll(s, Elements(db, k)), EmptyIntset, ks)

\* The first set's elements that are in none of the others: sets that are the
\* same object need no lookup.
DiffByLookup(db, ks) ==
    AddAll(EmptyIntset,
           SelectSeq(Elements(db, ks[1]),
                     LAMBDA x : \A j \in 2..Len(ks) :
                                    db[ks[j]] = NoSet \/ (ks[j] # ks[1] /\ ~setTypeIsMember(db[ks[j]], x))))

\* A copy of the first set, from which the elements of the others are removed.
DiffByRemoval(db, ks) ==
    FoldLeft(LAMBDA s, k : RemoveAll(s, Elements(db, k)),
             AddAll(EmptyIntset, Elements(db, ks[1])), Tail(ks))

\* Whichever is less work; the lookups are taken to cost half.
DiffOf(db, ks) ==
    LET found == SelectSeq(ks, LAMBDA k : db[k] # NoSet)
        one == (SizeOf(db, ks[1]) * Len(found)) \div 2
        two == FoldLeft(LAMBDA n, k : n + SizeOf(db, k), 0, ks)
    IN  IF db[ks[1]] = NoSet THEN EmptyIntset
        ELSE IF one <= two THEN DiffByLookup(db, ks) ELSE DiffByRemoval(db, ks)

sunionDiffGenericCommand(db, op, ks, dst) ==
    StoreResult(db, dst, IF op = "union" THEN UnionOf(db, ks) ELSE DiffOf(db, ks))
=============================================================================
