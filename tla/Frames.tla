------------------------------- MODULE Frames -------------------------------
(***************************************************************************)
(* Data frames and what every part of the system computes of them: the     *)
(* profile (ingestion/profiling.py), the duplicate groups of a key, the    *)
(* deduplicate operation and the joined row pairs (registry/operations/),  *)
(* the standalone checks (validation/checks/).                             *)
(*                                                                         *)
(* A frame is [dtype, rows]: dtype maps its columns to a type, rows is the *)
(* sequence of its rows, each a function from columns to values.  Rates    *)
(* are fractions <<num, den>>; <<1, 0>> is infinity.                       *)
(***************************************************************************)
EXTENDS Naturals, Sequences, FiniteSets, Functions, FiniteSetsExt

CONSTANTS
    Null,     \* the missing value, of every type
    Fold(_)   \* a text stripped and lowercased

Columns(f) == DOMAIN f.dtype

Height(f) == Len(f.rows)

Rows(f) == Range(f.rows)

IsFrame(f) == /\ f = [dtype |-> f.dtype, rows |-> f.rows]
              /\ IsFiniteSet(Columns(f))
              /\ f.rows \in Seq(Rows(f))
              /\ \A r \in Rows(f) : r = [c \in Columns(f) |-> r[c]]

Value(f, i, c) == f.rows[i][c]

Values(f, c) == {r[c] : r \in Rows(f)}

(* The key of row i: a tuple of values.                                    *)
Key(f, i, keys) == [n \in DOMAIN keys |-> Value(f, i, keys[n])]

KeysOf(f, keys) == {Key(f, i, keys) : i \in DOMAIN f.rows}

WithKey(f, keys, k) == {i \in DOMAIN f.rows : Key(f, i, keys) = k}

(* group_by(keys).len() > 1.  A null is a value like any other here.       *)
DuplicateGroups(f, keys) ==
    {k \in KeysOf(f, keys) : Cardinality(WithKey(f, keys, k)) > 1}

Folded(v) == IF v = Null THEN Null ELSE Fold(v)

AtMost(p, q) == p[1] * q[2] <= q[1] * p[2]

SameRate(p, q) == p[1] * q[2] = q[1] * p[2] /\ (p[2] = 0) = (q[2] = 0)
-----------------------------------------------------------------------------
(* profile_dataset().                                                      *)
NullCount(f, c) == Cardinality({i \in DOMAIN f.rows : Value(f, i, c) = Null})

(* Mutant: a column with nulls may be a candidate key.                     *)
CandidateKeyWithNulls(f, c) ==
    Height(f) > 0 /\ Cardinality(Values(f, c) \ {Null}) + NullCount(f, c) = Height(f)

CandidateKey(f, c) ==
    /\ Height(f) > 0
    /\ NullCount(f, c) = 0
    /\ Cardinality(Values(f, c)) = Height(f)

(* trimmed_lowercase_distinct_count: only of a text column with a value in *)
(* it; its nulls count as one category.                                    *)
FoldedDistinct(f, c) ==
    IF f.dtype[c] = "text" /\ NullCount(f, c) < Height(f)
    THEN Cardinality({Folded(v) : v \in Values(f, c)})
    ELSE Null

ColumnProfile(f, c) ==
    [dtype |-> f.dtype[c], nulls |-> NullCount(f, c),
     distinct |-> Cardinality(Values(f, c)),
     candidate |-> CandidateKey(f, c), folded |-> FoldedDistinct(f, c)]

ProfileDataset(f) ==
    [rows |-> Height(f), columns |-> [c \in Columns(f) |-> ColumnProfile(f, c)],
     duplicates |-> Height(f) - Cardinality(Rows(f))]
-----------------------------------------------------------------------------
(* DeduplicateOperation: keys, keep ("first" or "last"), orderBy (a column *)
(* or Null).                                                               *)
DeduplicateAccepts(f, p) ==
    /\ p.keys # <<>>
    /\ Range(p.keys) \subseteq Columns(f)
    /\ p.orderBy = Null \/ p.orderBy \in Columns(f)

(* Rows i and j in the order unique() sees them.  sort() puts nulls first  *)
(* and is not stable: rows with equal values may change places.            *)
MayPrecede(f, orderBy, i, j) ==
    IF orderBy = Null THEN i <= j
    ELSE \/ Value(f, i, orderBy) = Null
         \/ /\ {Null} \cap {Value(f, i, orderBy), Value(f, j, orderBy)} = {}
            /\ Value(f, i, orderBy) <= Value(f, j, orderBy)

(* Mutant: keep is ignored, the first row stays.                           *)
MayBeKeptFirst(f, p, i) ==
    \A j \in WithKey(f, p.keys, Key(f, i, p.keys)) :
        MayPrecede(f, p.orderBy, i, j)

(* The row of its group that may be the one kept.                          *)
MayBeKept(f, p, i) ==
    \A j \in WithKey(f, p.keys, Key(f, i, p.keys)) :
        IF p.keep = "first" THEN MayPrecede(f, p.orderBy, i, j)
                            ELSE MayPrecede(f, p.orderBy, j, i)

(* The rows at the given positions, in their order.                        *)
RowsAt(f, positions) ==
    LET Nth(n) == CHOOSE i \in positions :
                      Cardinality({j \in positions : j <= i}) = n
    IN [f EXCEPT !.rows = [n \in 1 .. Cardinality(positions) |-> f.rows[Nth(n)]]]

(* The results deduplicate may have: one row of each group, all of them in *)
(* their original order.                                                   *)
Deduplicated(f, p) ==
    {RowsAt(f, kept) : kept \in
        {S \in SUBSET {i \in DOMAIN f.rows : MayBeKept(f, p, i)} :
            \A k \in KeysOf(f, p.keys) :
                Cardinality(S \cap WithKey(f, p.keys, k)) = 1}}
-----------------------------------------------------------------------------
(* The pairs of rows a join matches.  A null key matches nothing.          *)
Matched(left, right, leftKeys, rightKeys) ==
    {p \in (DOMAIN left.rows) \X (DOMAIN right.rows) :
        /\ Key(left, p[1], leftKeys) = Key(right, p[2], rightKeys)
        /\ Null \notin Range(Key(left, p[1], leftKeys))}

(* join(how="anti").                                                       *)
UnmatchedLeft(left, right, leftKeys, rightKeys) ==
    {i \in DOMAIN left.rows :
        ~\E p \in Matched(left, right, leftKeys, rightKeys) : p[1] = i}

UnmatchedRight(left, right, leftKeys, rightKeys) ==
    {j \in DOMAIN right.rows :
        ~\E p \in Matched(left, right, leftKeys, rightKeys) : p[2] = j}

(* Mutant: the unmatched rows of the right end up on the left.             *)
JoinedOnLeft(left, right, leftKeys, rightKeys, how) ==
    Matched(left, right, leftKeys, rightKeys)
      \cup (UnmatchedRight(left, right, leftKeys, rightKeys) \X {0})

(* The rows of the joined frame, as pairs of positions; 0 is the null row. *)
Joined(left, right, leftKeys, rightKeys, how) ==
    Matched(left, right, leftKeys, rightKeys)
      \cup (IF how \in {"left", "outer"}
            THEN UnmatchedLeft(left, right, leftKeys, rightKeys) \X {0} ELSE {})
      \cup (IF how \in {"right", "outer"}
            THEN {0} \X UnmatchedRight(left, right, leftKeys, rightKeys) ELSE {})
-----------------------------------------------------------------------------
Number(v) == IF v = Null THEN 0 ELSE v

(* The sum of a column; nulls are skipped, an empty column adds up to 0.   *)
Total(f, c) == MapThenSumSet(LAMBDA i : Number(Value(f, i, c)), DOMAIN f.rows)
=============================================================================
