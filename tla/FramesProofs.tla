---------------------------- MODULE FramesProofs ----------------------------
(***************************************************************************)
(* Facts about frames and their operations, for frames of every size, and  *)
(* about finite sets and lists, on which those of the models that read     *)
(* frames rest.                                                            *)
(***************************************************************************)
EXTENDS Frames, FiniteSetTheorems, SequenceTheorems, WellFoundedInduction, TLAPS

(* Finite sets of one element.                                             *)
LEMMA OneElement ==
    ASSUME NEW S, IsFiniteSet(S), Cardinality(S) = 1
    PROVE  S = {CHOOSE x \in S : TRUE}
<1>1. PICK x : S = {x}
  BY FS_Singleton
<1>2. QED
  BY <1>1

LEMMA AtMostOneElement ==
    ASSUME NEW S, IsFiniteSet(S), S # {}, ~(Cardinality(S) > 1)
    PROVE  S = {CHOOSE x \in S : TRUE} /\ Cardinality(S) = 1
<1>1. Cardinality(S) \in Nat /\ Cardinality(S) # 0
  BY FS_CardinalityType, FS_EmptySet
<1>2. QED
  BY <1>1, OneElement

LEMMA FiniteImage ==
    ASSUME NEW S, IsFiniteSet(S), NEW f, f = [x \in S |-> f[x]]
    PROVE  /\ IsFiniteSet({f[x] : x \in S})
           /\ Cardinality({f[x] : x \in S}) <= Cardinality(S)
           /\ (\A x, y \in S : f[x] = f[y] => x = y)
                <=> Cardinality({f[x] : x \in S}) = Cardinality(S)
<1> DEFINE T == {f[x] : x \in S}
<1>1. f \in Surjection(S, T)
  BY DEF Surjection
<1>2. f \in Injection(S, T) <=> \A x, y \in S : f[x] = f[y] => x = y
  BY <1>1 DEF Injection, IsInjective, Surjection
<1> HIDE DEF T
<1>3. IsFiniteSet(T) /\ Cardinality(T) <= Cardinality(S)
      /\ (Cardinality(T) = Cardinality(S) <=> f \in Injection(S, T))
  BY <1>1, FS_Surjection
<1>4. QED
  BY <1>2, <1>3 DEF T

-----------------------------------------------------------------------------
(* Induction on the positions of a list, by a least counterexample.        *)
Below == {p \in Nat \X Nat : p[1] < p[2]}

LEMMA Stepwise ==
    ASSUME NEW n \in Nat, NEW S, 0 \in S, \A i \in 0 .. (n - 1) : i \in S => i + 1 \in S
    PROVE  \A i \in 0 .. n : i \in S
<1> DEFINE T == (0 .. n) \ S
<1> SUFFICES ASSUME T # {} PROVE FALSE
  OBVIOUS
<1>1. IsWellFoundedOn(Below, Nat)
  BY NatLessThanWellFounded DEF Below, OpToRel
<1>2. T \subseteq Nat
  OBVIOUS
<1>3. PICK x \in T : \A y \in T : ~(<<y, x>> \in Below)
  BY <1>1, <1>2, WFMin
<1>4. \A y \in T : ~(y < x)
  BY <1>2, <1>3 DEF Below
<1>5. x # 0 /\ x - 1 \in 0 .. (n - 1) /\ x - 1 \notin T
  BY <1>4
<1>6. QED
  BY <1>5

LEMMA HasMax ==
    ASSUME NEW n \in Nat, NEW T, T \subseteq 1 .. n, T # {}
    PROVE  Max(T) \in T /\ \A y \in T : Max(T) >= y
<1> DEFINE S == {k \in Nat : \A U \in SUBSET (1 .. k) :
                    U # {} => \E x \in U : \A y \in U : x >= y}
<1>1. 0 \in S
  <2>1. SUBSET (1 .. 0) = {{}}
    OBVIOUS
  <2>2. QED
    BY <2>1
<1>2. ASSUME NEW k \in 0 .. (n - 1), k \in S PROVE k + 1 \in S
  <2>1. ASSUME NEW U \in SUBSET (1 .. (k + 1)), U # {}
        PROVE  \E x \in U : \A y \in U : x >= y
    <3>1. CASE k + 1 \in U
      BY <3>1
    <3>2. CASE k + 1 \notin U
      <4>1. U \in SUBSET (1 .. k)
        BY <3>2
      <4>2. QED
        BY <1>2, <2>1, <4>1
    <3>3. QED
      BY <3>1, <3>2
  <2>2. QED
    BY <2>1
<1>3. n \in S
  <2> HIDE DEF S
  <2>1. QED
    BY <1>1, <1>2, Stepwise
<1>4. QED
  BY <1>3 DEF Max

LEMMA IntervalSplit ==
    ASSUME NEW i \in Nat \ {0}
    PROVE  /\ 1 .. i # {} /\ i \in 1 .. i
           /\ (1 .. i) \ {i} = 1 .. (i - 1)
           /\ 1 .. i = (1 .. (i - 1)) \cup {i}
<1>1. i \in 1 .. i
  OBVIOUS
<1>2. ASSUME NEW y PROVE y \in (1 .. i) \ {i} <=> y \in 1 .. (i - 1)
  OBVIOUS
<1>3. ASSUME NEW y PROVE y \in 1 .. i <=> y \in (1 .. (i - 1)) \cup {i}
  OBVIOUS
<1>4. QED
  BY <1>1, <1>2, <1>3, Zenon

LEMMA MaxOfInterval == ASSUME NEW i \in Nat \ {0} PROVE Max(1 .. i) = i
<1>1. i \in Nat /\ i \in 1 .. i /\ 1 .. i # {}
  OBVIOUS
<1>2. Max(1 .. i) \in 1 .. i /\ \A y \in 1 .. i : Max(1 .. i) >= y
  BY <1>1, HasMax
<1>3. QED
  BY <1>1, <1>2

(* A set of positions without its last one.                                *)
LEMMA WithoutMax ==
    ASSUME NEW k \in Nat, NEW s \in SUBSET (1 .. (k + 1)), s # {}
    PROVE  s \ {Max(s)} \in SUBSET (1 .. k)
<1>1. k + 1 \in Nat
  OBVIOUS
<1>2. Max(s) \in s /\ \A y \in s : Max(s) >= y
  BY <1>1, HasMax
<1>3. ASSUME NEW y \in s \ {Max(s)} PROVE y \in 1 .. k
  <2>1. y \in 1 .. (k + 1) /\ Max(s) \in 1 .. (k + 1) /\ y # Max(s) /\ Max(s) >= y
    BY <1>2
  <2>2. QED
    BY <2>1
<1>4. QED
  BY <1>3
-----------------------------------------------------------------------------
(* A frame, row by row.                                                    *)
LEMMA FrameFacts ==
    ASSUME NEW f, IsFrame(f)
    PROVE  /\ Height(f) \in Nat /\ DOMAIN f.rows = 1 .. Height(f)
           /\ f.rows = [i \in 1 .. Height(f) |-> f.rows[i]]
           /\ Rows(f) = {f.rows[i] : i \in 1 .. Height(f)}
           /\ \A i \in 1 .. Height(f) :
                f.rows[i] \in Rows(f) /\ f.rows[i] = [c \in Columns(f) |-> f.rows[i][c]]
           /\ f = [dtype |-> f.dtype, rows |-> f.rows]
           /\ IsFiniteSet(1 .. Height(f)) /\ IsFiniteSet(Rows(f)) /\ IsFiniteSet(Columns(f))
<1>1. f.rows \in Seq(Rows(f))
  BY DEF IsFrame
<1>2. Height(f) \in Nat /\ DOMAIN f.rows = 1 .. Height(f)
  BY <1>1 DEF Height
<1>3. f.rows = [i \in 1 .. Height(f) |-> f.rows[i]]
  BY <1>1 DEF Height
<1>4. Rows(f) = {f.rows[i] : i \in 1 .. Height(f)}
  BY <1>2 DEF Rows, Range
<1>5. \A i \in 1 .. Height(f) : f.rows[i] \in Rows(f)
  BY <1>4
<1>6. \A i \in 1 .. Height(f) : f.rows[i] = [c \in Columns(f) |-> f.rows[i][c]]
  BY <1>5 DEF IsFrame
<1>7. IsFiniteSet(1 .. Height(f))
  BY <1>2, FS_Interval
<1>8. IsFiniteSet(Rows(f))
  <2> DEFINE row == [i \in 1 .. Height(f) |-> f.rows[i]]
  <2>1. row \in Surjection(1 .. Height(f), Rows(f))
    BY <1>4 DEF Surjection
  <2>2. QED
    BY <1>7, <2>1, FS_Surjection
<1>9. QED
  BY <1>2, <1>3, <1>4, <1>5, <1>6, <1>7, <1>8 DEF IsFrame

LEMMA IsFrameOf ==
    ASSUME NEW f, NEW n \in Nat, f = [dtype |-> f.dtype, rows |-> f.rows],
           f.rows = [i \in 1 .. n |-> f.rows[i]], IsFiniteSet(Columns(f)),
           \A i \in 1 .. n : f.rows[i] = [c \in Columns(f) |-> f.rows[i][c]]
    PROVE  IsFrame(f) /\ Height(f) = n /\ Rows(f) = {f.rows[i] : i \in 1 .. n}
<1>1. DOMAIN f.rows = 1 .. n
  OBVIOUS
<1>2. Rows(f) = {f.rows[i] : i \in 1 .. n}
  BY <1>1 DEF Rows, Range
<1>3. f.rows \in [1 .. n -> Rows(f)]
  BY <1>2
<1>4. f.rows \in Seq(Rows(f)) /\ Len(f.rows) = n
  BY <1>3
<1>5. QED
  BY <1>2, <1>4 DEF IsFrame, Height
-----------------------------------------------------------------------------
(* The positions kept, counted from the front.                             *)
UpToPosition(P, i) == {j \in P : j <= i}

LEMMA NthExists ==
    ASSUME NEW h \in Nat, NEW P \in SUBSET (1 .. h)
    PROVE  \A n \in 1 .. Cardinality(P) : \E i \in P : Cardinality(UpToPosition(P, i)) = n
<1> DEFINE Found(k) == \A n \in 1 .. Cardinality(UpToPosition(P, k)) :
                          \E i \in P : Cardinality(UpToPosition(P, i)) = n
           S == {k \in Nat : Found(k)}
<1>01. \A j \in P : j \in Nat /\ 1 <= j /\ j <= h
  OBVIOUS
<1>0. \A k : IsFiniteSet(UpToPosition(P, k)) /\ Cardinality(UpToPosition(P, k)) \in Nat
  <2>1. IsFiniteSet(1 .. h)
    BY FS_Interval
  <2>2. \A k : UpToPosition(P, k) \in SUBSET (1 .. h)
    BY DEF UpToPosition
  <2>3. QED
    BY <2>1, <2>2, FS_Subset, FS_CardinalityType
<1>1. 0 \in S
  <2>1. UpToPosition(P, 0) = {}
    <3>1. \A j \in P : ~(j <= 0)
      BY <1>01
    <3>2. QED
      BY <3>1 DEF UpToPosition
  <2>2. QED
    BY <2>1, FS_EmptySet
<1>2. ASSUME NEW k \in 0 .. (h - 1), k \in S PROVE k + 1 \in S
  <2>1. CASE k + 1 \in P
    <3>1. UpToPosition(P, k + 1) = UpToPosition(P, k) \cup {k + 1}
      <4>1. \A j \in P : j <= k + 1 <=> j <= k \/ j = k + 1
        BY <1>01
      <4>2. QED
        BY <2>1, <4>1 DEF UpToPosition
    <3>2. k + 1 \notin UpToPosition(P, k)
      BY DEF UpToPosition
    <3>3. Cardinality(UpToPosition(P, k + 1)) = Cardinality(UpToPosition(P, k)) + 1
      BY <1>0, <3>1, <3>2, FS_AddElement
    <3>4. QED
      BY <1>0, <1>2, <2>1, <3>3
  <2>2. CASE k + 1 \notin P
    <3>1. UpToPosition(P, k + 1) = UpToPosition(P, k)
      <4>1. \A j \in P : j <= k + 1 <=> j <= k
        BY <1>01, <2>2
      <4>2. QED
        BY <4>1 DEF UpToPosition
    <3>2. QED
      BY <1>2, <3>1
  <2>3. QED
    BY <2>1, <2>2
<1>3. h \in S
  <2> HIDE DEF S
  <2>1. \A i \in 0 .. h : i \in S
    BY <1>1, <1>2, Stepwise
  <2>2. QED
    BY <2>1
<1>4. UpToPosition(P, h) = P
  BY <1>01 DEF UpToPosition
<1>5. QED
  BY <1>3, <1>4

LEMMA NthUnique ==
    ASSUME NEW h \in Nat, NEW P \in SUBSET (1 .. h), NEW i \in P
    PROVE  /\ Cardinality(UpToPosition(P, i)) \in 1 .. Cardinality(P)
           /\ \A k \in P : Cardinality(UpToPosition(P, k))
                             = Cardinality(UpToPosition(P, i)) => k = i
<1>1. IsFiniteSet(P) /\ \A k : IsFiniteSet(UpToPosition(P, k))
  <2>1. IsFiniteSet(1 .. h)
    BY FS_Interval
  <2>2. \A k : UpToPosition(P, k) \in SUBSET (1 .. h)
    BY DEF UpToPosition
  <2>3. QED
    BY <2>1, <2>2, FS_Subset
<1>2. \A k : Cardinality(UpToPosition(P, k)) \in Nat /\ Cardinality(P) \in Nat
  BY <1>1, FS_CardinalityType
<1>3. Cardinality(UpToPosition(P, i)) \in 1 .. Cardinality(P)
  <2>1. i \in UpToPosition(P, i) /\ UpToPosition(P, i) \in SUBSET P
    BY DEF UpToPosition
  <2>2. Cardinality(UpToPosition(P, i)) # 0 /\ Cardinality(UpToPosition(P, i)) <= Cardinality(P)
    BY <1>1, <2>1, FS_EmptySet, FS_Subset
  <2>3. QED
    BY <1>2, <2>2
<1>4. ASSUME NEW a \in P, NEW b \in P, a < b
      PROVE  Cardinality(UpToPosition(P, a)) # Cardinality(UpToPosition(P, b))
  <2>1. /\ UpToPosition(P, a) \in SUBSET UpToPosition(P, b)
        /\ b \in UpToPosition(P, b) /\ b \notin UpToPosition(P, a)
    <3>1. b <= b /\ ~(b <= a) /\ \A j \in P : j <= a => j <= b
      BY <1>4
    <3>2. QED
      BY <3>1 DEF UpToPosition
  <2>2. QED
    BY <1>1, <2>1, FS_Subset
<1>5. ASSUME NEW k \in P, k # i
      PROVE  Cardinality(UpToPosition(P, k)) # Cardinality(UpToPosition(P, i))
  <2>1. k < i \/ i < k
    BY <1>5
  <2>2. QED
    BY <1>4, <2>1
<1>6. QED
  BY <1>3, <1>5

LEMMA RowsAtFacts ==
    ASSUME NEW f, IsFrame(f), NEW P \in SUBSET (DOMAIN f.rows)
    PROVE  /\ IsFrame(RowsAt(f, P)) /\ RowsAt(f, P).dtype = f.dtype
           /\ Height(RowsAt(f, P)) = Cardinality(P)
           /\ Rows(RowsAt(f, P)) = {f.rows[i] : i \in P}
           /\ \E at \in [1 .. Cardinality(P) -> P] :
                \A n \in 1 .. Cardinality(P) :
                   /\ RowsAt(f, P).rows[n] = f.rows[at[n]]
                   /\ \A i \in 1 .. Cardinality(P) : at[i] = at[n] => i = n
<1> DEFINE h == Height(f)
           m == Cardinality(P)
           Nth(n) == CHOOSE i \in P : Cardinality(UpToPosition(P, i)) = n
           row == [n \in 1 .. m |-> f.rows[Nth(n)]]
<1>1. h \in Nat /\ P \in SUBSET (1 .. h)
  BY FrameFacts
<1> HIDE DEF h
<1>2. m \in Nat
  <2>1. IsFiniteSet(P)
    BY <1>1, FS_Interval, FS_Subset
  <2>2. QED
    BY <2>1, FS_CardinalityType
<1>3. \A n \in 1 .. m : Nth(n) \in P /\ Cardinality(UpToPosition(P, Nth(n))) = n
  BY <1>1, NthExists
<1>4. \A i \in P : Cardinality(UpToPosition(P, i)) \in 1 .. m
                   /\ Nth(Cardinality(UpToPosition(P, i))) = i
  <2>1. ASSUME NEW i \in P
        PROVE  Cardinality(UpToPosition(P, i)) \in 1 .. m
               /\ Nth(Cardinality(UpToPosition(P, i))) = i
    <3>1. Cardinality(UpToPosition(P, i)) \in 1 .. m
      BY <1>1, NthUnique
    <3>2. Nth(Cardinality(UpToPosition(P, i))) \in P
          /\ Cardinality(UpToPosition(P, Nth(Cardinality(UpToPosition(P, i)))))
               = Cardinality(UpToPosition(P, i))
      BY <1>3, <3>1
    <3>3. QED
      BY <1>1, <3>1, <3>2, NthUnique
  <2>2. QED
    BY <2>1
<1>5. RowsAt(f, P) = [dtype |-> f.dtype, rows |-> row]
  <2>1. RowsAt(f, P) = [f EXCEPT !.rows = row]
    BY DEF RowsAt, UpToPosition
  <2>2. f = [dtype |-> f.dtype, rows |-> f.rows]
    BY DEF IsFrame
  <2> HIDE DEF row
  <2>3. [f EXCEPT !.rows = row] = [dtype |-> f.dtype, rows |-> row]
    BY <2>2
  <2>4. QED
    BY <2>1, <2>3
<1> HIDE DEF m, Nth
<1>6. \A n \in 1 .. m : row[n] = f.rows[Nth(n)]
  OBVIOUS
<1>7. \A n \in 1 .. m : row[n] = [c \in DOMAIN f.dtype |-> row[n][c]]
  <2>1. \A i \in P : f.rows[i] = [c \in Columns(f) |-> f.rows[i][c]]
    <3>1. ASSUME NEW i \in 1 .. Height(f)
          PROVE  f.rows[i] = [c \in Columns(f) |-> f.rows[i][c]]
      BY FrameFacts
    <3>2. QED
      BY <1>1, <3>1 DEF h
  <2>2. QED
    BY <1>3, <1>6, <2>1 DEF Columns
<1>8. row = [n \in 1 .. m |-> row[n]] /\ IsFiniteSet(DOMAIN f.dtype)
  BY FrameFacts DEF Columns
<1> HIDE DEF row
<1>9. /\ IsFrame(RowsAt(f, P)) /\ Height(RowsAt(f, P)) = m
      /\ Rows(RowsAt(f, P)) = {row[n] : n \in 1 .. m}
  <2> DEFINE g == RowsAt(f, P)
  <2>1. g.dtype = f.dtype /\ g.rows = row /\ g = [dtype |-> g.dtype, rows |-> g.rows]
    BY <1>5
  <2>2. Columns(g) = DOMAIN f.dtype
    BY <2>1 DEF Columns
  <2> HIDE DEF g
  <2>3. IsFrame(g) /\ Height(g) = m /\ Rows(g) = {g.rows[n] : n \in 1 .. m}
    BY <1>2, <1>7, <1>8, <2>1, <2>2, IsFrameOf
  <2>4. QED
    BY <2>1, <2>3 DEF g
<1>10. {row[n] : n \in 1 .. m} = {f.rows[i] : i \in P}
  <2>1. ASSUME NEW i \in P PROVE \E n \in 1 .. m : row[n] = f.rows[i]
    BY <1>4, <1>6
  <2>2. ASSUME NEW n \in 1 .. m PROVE \E i \in P : row[n] = f.rows[i]
    BY <1>3, <1>6
  <2>3. QED
    BY <2>1, <2>2
<1>11. \E at \in [1 .. m -> P] :
          \A n \in 1 .. m : /\ RowsAt(f, P).rows[n] = f.rows[at[n]]
                           /\ \A i \in 1 .. m : at[i] = at[n] => i = n
  <2> DEFINE at == [n \in 1 .. m |-> Nth(n)]
  <2>1. at \in [1 .. m -> P]
    BY <1>3
  <2>2. ASSUME NEW n \in 1 .. m, NEW i \in 1 .. m, Nth(i) = Nth(n) PROVE i = n
    BY <1>3, <2>2
  <2>3. \A n \in 1 .. m : /\ RowsAt(f, P).rows[n] = f.rows[at[n]]
                         /\ \A i \in 1 .. m : at[i] = at[n] => i = n
    BY <1>5, <1>6, <2>2
  <2>4. QED
    BY <2>1, <2>3
<1>12. RowsAt(f, P).dtype = f.dtype
  BY <1>5
<1>13. QED
  BY <1>9, <1>10, <1>11, <1>12, Zenon DEF m
-----------------------------------------------------------------------------
(* Deduplication keeps one row of every key.                               *)
LEMMA DeduplicatedFacts ==
    ASSUME NEW f, IsFrame(f), NEW p, NEW out \in Deduplicated(f, p)
    PROVE  \E P \in SUBSET (DOMAIN f.rows) :
              /\ out = RowsAt(f, P)
              /\ \A i \in P : MayBeKept(f, p, i)
              /\ \A i \in DOMAIN f.rows : \E j \in P : Key(f, j, p.keys) = Key(f, i, p.keys)
              /\ \A i, j \in P : Key(f, i, p.keys) = Key(f, j, p.keys) => i = j
<1> DEFINE Group(P, k) == P \cap WithKey(f, p.keys, k)
<1>1. PICK P \in SUBSET {i \in DOMAIN f.rows : MayBeKept(f, p, i)} :
          /\ out = RowsAt(f, P)
          /\ \A k \in KeysOf(f, p.keys) : Cardinality(Group(P, k)) = 1
  BY DEF Deduplicated
<1>2. ASSUME NEW i \in DOMAIN f.rows, NEW k, k = Key(f, i, p.keys)
      PROVE  \E x : Group(P, k) = {x}
  <2>1. Cardinality(Group(P, k)) = 1
    BY <1>1, <1>2 DEF KeysOf
  <2>2. IsFiniteSet(DOMAIN f.rows)
    BY FrameFacts
  <2>3. IsFiniteSet(Group(P, k))
    BY <2>2, FS_Subset DEF WithKey
  <2>4. QED
    BY <2>1, <2>3, OneElement
<1>3. QED
  BY <1>1, <1>2 DEF WithKey

FirstOfEach(f, keys) ==
    {i \in DOMAIN f.rows : \A j \in WithKey(f, keys, Key(f, i, keys)) : i <= j}

LEMMA LeastOf ==
    ASSUME NEW T \in SUBSET Nat, T # {}
    PROVE  \E i \in T : \A j \in T : i <= j
<1>1. IsWellFoundedOn(Below, Nat)
  BY NatLessThanWellFounded DEF Below, OpToRel
<1>2. PICK i \in T : \A j \in T : ~(<<j, i>> \in Below)
  BY <1>1, WFMin
<1>3. \A j \in T : ~(j < i)
  BY <1>2 DEF Below
<1>4. QED
  BY <1>3

(* Without an order and with keep = "first" it has one result.             *)
LEMMA FirstRowsStay ==
    ASSUME NEW f, IsFrame(f), NEW p, p.keep = "first", p.orderBy = Null
    PROVE  /\ Deduplicated(f, p) = {RowsAt(f, FirstOfEach(f, p.keys))}
           /\ \A i \in DOMAIN f.rows : \E j \in FirstOfEach(f, p.keys) :
                 Key(f, j, p.keys) = Key(f, i, p.keys)
           /\ \A i, j \in FirstOfEach(f, p.keys) :
                 Key(f, i, p.keys) = Key(f, j, p.keys) => i = j
<1> DEFINE first == FirstOfEach(f, p.keys)
<1>1. DOMAIN f.rows \in SUBSET Nat
  <2>1. DOMAIN f.rows = 1 .. Height(f) /\ Height(f) \in Nat
    BY FrameFacts
  <2>2. QED
    BY <2>1
<1>2. first = {i \in DOMAIN f.rows : MayBeKept(f, p, i)}
  BY DEF FirstOfEach, MayBeKept, MayPrecede
<1>3. ASSUME NEW i \in DOMAIN f.rows
      PROVE  \E j \in first : Key(f, j, p.keys) = Key(f, i, p.keys)
  <2> DEFINE T == WithKey(f, p.keys, Key(f, i, p.keys))
  <2>1. T \in SUBSET Nat /\ i \in T
    BY <1>1 DEF WithKey
  <2>2. PICK j \in T : \A x \in T : j <= x
    BY <2>1, LeastOf
  <2>3. j \in DOMAIN f.rows /\ Key(f, j, p.keys) = Key(f, i, p.keys)
    BY DEF WithKey
  <2>4. QED
    BY <2>2, <2>3 DEF FirstOfEach
<1>4. ASSUME NEW i \in first, NEW j \in first, Key(f, i, p.keys) = Key(f, j, p.keys)
      PROVE  i = j
  <2>1. i \in Nat /\ j \in Nat
    BY <1>1 DEF FirstOfEach
  <2>2. i <= j /\ j <= i
    BY <1>4 DEF FirstOfEach, WithKey
  <2>3. QED
    BY <2>1, <2>2
<1>5. first \in SUBSET {i \in DOMAIN f.rows : MayBeKept(f, p, i)}
  BY <1>2
<1>6. \A k \in KeysOf(f, p.keys) : Cardinality(first \cap WithKey(f, p.keys, k)) = 1
  <2>1. ASSUME NEW k \in KeysOf(f, p.keys)
        PROVE  \E j : first \cap WithKey(f, p.keys, k) = {j}
    <3>1. PICK i \in DOMAIN f.rows : k = Key(f, i, p.keys)
      BY DEF KeysOf
    <3>2. PICK j \in first : Key(f, j, p.keys) = k
      BY <1>3, <3>1
    <3>3. first \cap WithKey(f, p.keys, k) = {j}
      BY <1>4, <3>2 DEF WithKey, FirstOfEach
    <3>4. QED
      BY <3>3
  <2>2. QED
    BY <2>1, FS_Singleton
<1>7. ASSUME NEW out \in Deduplicated(f, p) PROVE out = RowsAt(f, first)
  <2>1. PICK P \in SUBSET (DOMAIN f.rows) :
          /\ out = RowsAt(f, P)
          /\ \A i \in P : MayBeKept(f, p, i)
          /\ \A i \in DOMAIN f.rows : \E j \in P : Key(f, j, p.keys) = Key(f, i, p.keys)
    BY DeduplicatedFacts
  <2>2. P \subseteq first
    BY <1>2, <2>1
  <2>3. \A i \in first : i \in P
    BY <1>2, <1>4, <2>1, <2>2
  <2>4. QED
    BY <2>1, <2>2, <2>3
<1>8. RowsAt(f, first) \in Deduplicated(f, p)
  BY <1>5, <1>6 DEF Deduplicated
<1>9. QED
  BY <1>3, <1>4, <1>7, <1>8
-----------------------------------------------------------------------------
(* Induction on the subsets of a finite set.                               *)
LEMMA Subsetwise ==
    ASSUME NEW S, IsFiniteSet(S), NEW T, {} \in T,
           \A s \in SUBSET S : \A x \in S \ s : s \in T => s \cup {x} \in T
    PROVE  \A s \in SUBSET S : s \in T
<1> DEFINE U == {k \in Nat : \A s \in SUBSET S : Cardinality(s) = k => s \in T}
<1>1. \A s \in SUBSET S : IsFiniteSet(s) /\ Cardinality(s) \in Nat
                          /\ Cardinality(s) <= Cardinality(S)
  BY FS_Subset, FS_CardinalityType
<1>2. Cardinality(S) \in Nat
  BY FS_CardinalityType
<1>3. 0 \in U
  BY <1>1, FS_EmptySet
<1>4. ASSUME NEW k \in 0 .. (Cardinality(S) - 1), k \in U PROVE k + 1 \in U
  <2>1. ASSUME NEW s \in SUBSET S, Cardinality(s) = k + 1 PROVE s \in T
    <3>1. s # {} /\ k \in Nat
      <4>1. k \in Nat /\ k + 1 # 0
        OBVIOUS
      <4>2. QED
        BY <2>1, <4>1, FS_EmptySet
    <3>2. PICK x \in s : TRUE
      BY <3>1
    <3>3. Cardinality(s \ {x}) = k
      <4>1. Cardinality(s \ {x}) = Cardinality(s) - 1
        BY <1>1, FS_RemoveElement
      <4>2. QED
        BY <2>1, <3>1, <4>1
    <3>4. s \ {x} \in T /\ s \ {x} \in SUBSET S
      BY <1>4, <3>3
    <3>5. (s \ {x}) \cup {x} = s
      OBVIOUS
    <3>6. QED
      BY <3>2, <3>4, <3>5
  <2>2. QED
    BY <2>1
<1> HIDE DEF U
<1>5. \A k \in 0 .. Cardinality(S) : k \in U
  BY <1>2, <1>3, <1>4, Stepwise
<1>6. QED
  BY <1>1, <1>2, <1>5 DEF U
-----------------------------------------------------------------------------
(* Sums of a function over subsets of its domain, in any order.            *)
SumOn(g, f, s) ==
    IF s = {} THEN 0
    ELSE f[CHOOSE x \in s : TRUE] + g[s \ {CHOOSE x \in s : TRUE}]

IsSum(g, f, S) == g = [s \in SUBSET S |-> SumOn(g, f, s)]

Sums(f) == CHOOSE g : IsSum(g, f, DOMAIN f)

LEMMA SumExists ==
    ASSUME NEW S, IsFiniteSet(S), NEW f
    PROVE  \E g : IsSum(g, f, S)
<1> DEFINE Small(k) == {s \in SUBSET S : Cardinality(s) <= k}
           U == {k \in Nat : \E g : g = [s \in Small(k) |-> SumOn(g, f, s)]}
<1>1. \A s \in SUBSET S : IsFiniteSet(s) /\ Cardinality(s) \in Nat
                          /\ Cardinality(s) <= Cardinality(S)
  BY FS_Subset, FS_CardinalityType
<1>2. Cardinality(S) \in Nat
  BY FS_CardinalityType
<1>3. 0 \in U
  <2> DEFINE g == [s \in Small(0) |-> 0]
  <2>1. ASSUME NEW s \in Small(0) PROVE s = {}
    BY <1>1, FS_EmptySet
  <2>2. g = [s \in Small(0) |-> SumOn(g, f, s)]
    BY <2>1 DEF SumOn
  <2>3. QED
    BY <2>2
<1>4. ASSUME NEW k \in 0 .. (Cardinality(S) - 1), k \in U PROVE k + 1 \in U
  <2>1. PICK g : g = [s \in Small(k) |-> SumOn(g, f, s)]
    BY <1>4
  <2> DEFINE h == [s \in Small(k + 1) |-> SumOn(g, f, s)]
  <2>2. ASSUME NEW s \in Small(k) PROVE h[s] = g[s]
    <3>1. s \in Small(k + 1)
      BY <1>1
    <3>2. g[s] = SumOn(g, f, s)
      BY <2>1
    <3>3. QED
      BY <3>1, <3>2
  <2>3. ASSUME NEW s \in Small(k + 1), s # {}
        PROVE  s \ {CHOOSE x \in s : TRUE} \in Small(k)
    <3> DEFINE x == CHOOSE y \in s : TRUE
    <3>1. x \in s
      BY <2>3
    <3> HIDE DEF x
    <3>2. Cardinality(s \ {x}) = Cardinality(s) - 1
      BY <1>1, <3>1, FS_RemoveElement
    <3>3. s \ {x} \in Small(k)
      BY <1>1, <3>2
    <3>4. QED
      BY <3>3 DEF x
  <2>4. h = [s \in Small(k + 1) |-> h[s]] /\ \A s \in Small(k + 1) : h[s] = SumOn(g, f, s)
    OBVIOUS
  <2> HIDE DEF h
  <2>5. \A s \in Small(k + 1) : h[s] = SumOn(h, f, s)
    BY <2>2, <2>3, <2>4 DEF SumOn
  <2>6. h = [s \in Small(k + 1) |-> SumOn(h, f, s)]
    BY <2>4, <2>5
  <2>7. k + 1 \in Nat
    OBVIOUS
  <2>8. QED
    BY <2>6, <2>7
<1> HIDE DEF U
<1>5. Cardinality(S) \in U
  BY <1>2, <1>3, <1>4, Stepwise
<1>6. Small(Cardinality(S)) = SUBSET S
  BY <1>1
<1>7. QED
  BY <1>5, <1>6 DEF U, IsSum

LEMMA SumStep ==
    ASSUME NEW S, IsFiniteSet(S), NEW f, f \in [S -> Int], NEW g, IsSum(g, f, S)
    PROVE  /\ g[{}] = 0
           /\ \A s \in SUBSET S : g[s] \in Int /\ \A x \in s : g[s] = f[x] + g[s \ {x}]
<1> DEFINE P(s) == g[s] \in Int /\ \A x \in s : g[s] = f[x] + g[s \ {x}]
           U == {k \in Nat : \A s \in SUBSET S : Cardinality(s) <= k => P(s)}
<1>1. \A s \in SUBSET S : IsFiniteSet(s) /\ Cardinality(s) \in Nat
                          /\ Cardinality(s) <= Cardinality(S)
  BY FS_Subset, FS_CardinalityType
<1>2. Cardinality(S) \in Nat
  BY FS_CardinalityType
<1>3. \A s \in SUBSET S : g[s] = SumOn(g, f, s)
  BY DEF IsSum
<1>4. g[{}] = 0
  BY <1>3 DEF SumOn
<1>5. 0 \in U
  <2>1. ASSUME NEW s \in SUBSET S, Cardinality(s) <= 0 PROVE s = {}
    BY <1>1, <2>1, FS_EmptySet
  <2>2. P({})
    BY <1>4
  <2>3. QED
    BY <2>1, <2>2
<1>6. ASSUME NEW k \in 0 .. (Cardinality(S) - 1), k \in U PROVE k + 1 \in U
  <2>1. ASSUME NEW s \in SUBSET S, Cardinality(s) <= k + 1, s # {} PROVE P(s)
    <3> DEFINE y == CHOOSE z \in s : TRUE
    <3>1. y \in s /\ g[s] = f[y] + g[s \ {y}]
      BY <1>3, <2>1 DEF SumOn
    <3> HIDE DEF y
    <3>2. ASSUME NEW x \in s PROVE P(s \ {x})
      <4>1. Cardinality(s \ {x}) = Cardinality(s) - 1
        BY <1>1, FS_RemoveElement
      <4>2. Cardinality(s \ {x}) <= k /\ s \ {x} \in SUBSET S
        BY <1>1, <2>1, <4>1
      <4>3. QED
        BY <1>6, <4>2
    <3> HIDE DEF U
    <3>3. g[s] \in Int
      <4>1. f[y] \in Int
        BY <3>1
      <4>2. g[s \ {y}] \in Int
        BY <3>1, <3>2
      <4>3. QED
        BY <3>1, <4>1, <4>2
    <3>4. ASSUME NEW x \in s, x # y PROVE g[s] = f[x] + g[s \ {x}]
      <4> DEFINE rest == g[(s \ {x}) \ {y}]
      <4>1. g[s \ {y}] = f[x] + rest
        <5>1. g[s \ {y}] = f[x] + g[(s \ {y}) \ {x}]
          BY <3>1, <3>2, <3>4
        <5>2. (s \ {y}) \ {x} = (s \ {x}) \ {y}
          OBVIOUS
        <5>3. QED
          BY <5>1, <5>2
      <4>2. g[s \ {x}] = f[y] + rest
        BY <3>1, <3>2, <3>4
      <4>3. f[x] \in Int /\ f[y] \in Int
        BY <3>1
      <4>4. rest \in Int
        <5>1. Cardinality((s \ {x}) \ {y}) \in Nat /\ s \ {x} \in SUBSET S
              /\ (s \ {x}) \ {y} \in SUBSET S
          BY <1>1
        <5>2. Cardinality(s \ {x}) = Cardinality(s) - 1
          BY <1>1, FS_RemoveElement
        <5>3. Cardinality((s \ {x}) \ {y}) <= Cardinality(s \ {x})
          BY <1>1, <5>1, FS_Subset
        <5>4. Cardinality((s \ {x}) \ {y}) <= k
          BY <1>1, <2>1, <5>1, <5>2, <5>3
        <5>5. QED
          BY <1>6, <5>1, <5>4 DEF U
      <4> HIDE DEF rest
      <4>5. QED
        BY <3>1, <4>1, <4>2, <4>3, <4>4
    <3>5. QED
      BY <3>1, <3>3, <3>4
  <2>2. \A s \in SUBSET S : Cardinality(s) <= k + 1 => P(s)
    <3>1. P({})
      BY <1>4
    <3>2. QED
      BY <2>1, <3>1
  <2>3. k + 1 \in Nat
    OBVIOUS
  <2>4. QED
    BY <2>2, <2>3
<1> HIDE DEF U
<1>7. Cardinality(S) \in U
  BY <1>2, <1>5, <1>6, Stepwise
<1>8. QED
  BY <1>1, <1>4, <1>7 DEF U

(* The sum is the only function that adds up one element at a time.        *)
AddsUp(h, f, S) ==
    /\ h[{}] = 0
    /\ \A s \in SUBSET S : \A x \in S \ s : h[s \cup {x}] = f[x] + h[s]

LEMMA SumsFacts ==
    ASSUME NEW S, IsFiniteSet(S), NEW f, f \in [S -> Int]
    PROVE  AddsUp(Sums(f), f, S) /\ \A s \in SUBSET S : Sums(f)[s] \in Int
<1>1. IsSum(Sums(f), f, S)
  <2>1. DOMAIN f = S
    OBVIOUS
  <2>2. \E g : IsSum(g, f, S)
    BY SumExists
  <2>3. QED
    BY <2>1, <2>2 DEF Sums
<1>2. ASSUME NEW t \in SUBSET S, NEW y \in t
      PROVE  Sums(f)[t] = f[y] + Sums(f)[t \ {y}]
  BY <1>1, SumStep
<1>3. ASSUME NEW s \in SUBSET S, NEW x \in S \ s
      PROVE  Sums(f)[s \cup {x}] = f[x] + Sums(f)[s]
  <2>1. (s \cup {x}) \ {x} = s /\ s \cup {x} \in SUBSET S /\ x \in s \cup {x}
    OBVIOUS
  <2>2. QED
    BY <1>2, <2>1
<1>4. AddsUp(Sums(f), f, S)
  BY <1>1, <1>3, SumStep DEF AddsUp
<1>5. QED
  BY <1>1, <1>4, SumStep

LEMMA SumsUnique ==
    ASSUME NEW S, IsFiniteSet(S), NEW f, f \in [S -> Int], NEW h, AddsUp(h, f, S)
    PROVE  \A s \in SUBSET S : h[s] = Sums(f)[s]
<1> DEFINE T == {s \in SUBSET S : h[s] = Sums(f)[s]}
<1>0. AddsUp(Sums(f), f, S)
  BY SumsFacts
<1>1. {} \in T
  BY <1>0 DEF AddsUp
<1>2. ASSUME NEW s \in SUBSET S, NEW x \in S \ s, s \in T PROVE s \cup {x} \in T
  BY <1>0, <1>2 DEF AddsUp
<1> HIDE DEF T
<1>3. \A s \in SUBSET S : s \in T
  BY <1>1, <1>2, Subsetwise
<1>4. QED
  BY <1>3 DEF T

LEMMA SumsAre ==
    ASSUME NEW S, IsFiniteSet(S), NEW f, f \in [S -> Int], NEW g, IsSum(g, f, S)
    PROVE  g[S] = Sums(f)[S]
<1>1. ASSUME NEW t \in SUBSET S, NEW y \in t PROVE g[t] = f[y] + g[t \ {y}]
  BY SumStep
<1>2. AddsUp(g, f, S)
  <2>1. ASSUME NEW s \in SUBSET S, NEW x \in S \ s PROVE g[s \cup {x}] = f[x] + g[s]
    <3>1. (s \cup {x}) \ {x} = s /\ s \cup {x} \in SUBSET S /\ x \in s \cup {x}
      OBVIOUS
    <3>2. QED
      BY <1>1, <3>1
  <2>2. QED
    BY <2>1, SumStep DEF AddsUp
<1>3. \A s \in SUBSET S : g[s] = Sums(f)[s]
  BY <1>2, SumsUnique
<1>4. QED
  BY <1>3

(* The same sum over a part of the domain, over two parts, and of the same *)
(* numbers under other names.                                              *)
LEMMA SumsWithin ==
    ASSUME NEW S, IsFiniteSet(S), NEW f, f \in [S -> Int], NEW A \in SUBSET S,
           NEW e, e = [x \in A |-> f[x]]
    PROVE  Sums(e)[A] = Sums(f)[A]
<1>1. IsFiniteSet(A) /\ e \in [A -> Int]
  BY FS_Subset
<1>2. AddsUp(Sums(f), f, S)
  BY SumsFacts
<1>3. AddsUp(Sums(f), e, A)
  <2>1. ASSUME NEW s \in SUBSET A, NEW x \in A \ s
        PROVE  Sums(f)[s \cup {x}] = e[x] + Sums(f)[s]
    <3>1. s \in SUBSET S /\ x \in S \ s /\ e[x] = f[x]
      OBVIOUS
    <3>2. QED
      BY <1>2, <3>1 DEF AddsUp
  <2>2. QED
    BY <1>2, <2>1 DEF AddsUp
<1>4. \A s \in SUBSET A : Sums(f)[s] = Sums(e)[s]
  BY <1>1, <1>3, SumsUnique
<1>5. QED
  BY <1>4

LEMMA SumsDisjoint ==
    ASSUME NEW S, IsFiniteSet(S), NEW f, f \in [S -> Int], NEW B \in SUBSET S
    PROVE  \A A \in SUBSET S : A \cap B = {} =>
              Sums(f)[A \cup B] = Sums(f)[A] + Sums(f)[B]
<1> DEFINE T == {A \in SUBSET S : A \cap B = {} =>
                    Sums(f)[A \cup B] = Sums(f)[A] + Sums(f)[B]}
<1>1. AddsUp(Sums(f), f, S) /\ \A s \in SUBSET S : Sums(f)[s] \in Int
  BY SumsFacts
<1>2. {} \in T
  <2>1. Sums(f)[{}] = 0 /\ Sums(f)[B] \in Int
    BY <1>1 DEF AddsUp
  <2>2. {} \cup B = B
    OBVIOUS
  <2>3. QED
    BY <2>1, <2>2
<1>3. ASSUME NEW s \in SUBSET S, NEW x \in S \ s, s \in T PROVE s \cup {x} \in T
  <2> SUFFICES ASSUME (s \cup {x}) \cap B = {}
               PROVE  Sums(f)[(s \cup {x}) \cup B] = Sums(f)[s \cup {x}] + Sums(f)[B]
    OBVIOUS
  <2>1. s \cap B = {} /\ x \notin s \cup B
    OBVIOUS
  <2>2. Sums(f)[s \cup B] = Sums(f)[s] + Sums(f)[B]
    BY <1>3, <2>1
  <2>3. s \cup B \in SUBSET S /\ x \in S \ (s \cup B) /\ f[x] \in Int
    BY <2>1
  <2>4. Sums(f)[(s \cup B) \cup {x}] = f[x] + Sums(f)[s \cup B]
    BY <1>1, <2>3 DEF AddsUp
  <2>5. Sums(f)[s \cup {x}] = f[x] + Sums(f)[s]
    BY <1>1 DEF AddsUp
  <2>6. (s \cup {x}) \cup B = (s \cup B) \cup {x}
    OBVIOUS
  <2>7. Sums(f)[s] \in Int /\ Sums(f)[B] \in Int
    BY <1>1
  <2> DEFINE all == Sums(f)[(s \cup B) \cup {x}]
             a   == Sums(f)[s]
             b   == Sums(f)[B]
  <2>8. all = f[x] + (a + b) /\ Sums(f)[s \cup {x}] = f[x] + a
    BY <2>2, <2>4, <2>5
  <2> HIDE DEF all, a, b
  <2>9. all = (f[x] + a) + b
    BY <2>3, <2>7, <2>8 DEF a, b
  <2>10. QED
    BY <2>6, <2>8, <2>9 DEF all, b
<1> HIDE DEF T
<1>4. \A A \in SUBSET S : A \in T
  BY <1>2, <1>3, Subsetwise
<1>5. QED
  BY <1>4 DEF T

LEMMA SumsRenamed ==
    ASSUME NEW S, IsFiniteSet(S), NEW D, IsFiniteSet(D), NEW b \in [S -> D],
           \A x, y \in S : b[x] = b[y] => x = y, \A d \in D : \E x \in S : b[x] = d,
           NEW e, e \in [D -> Int], NEW f, f = [x \in S |-> e[b[x]]]
    PROVE  Sums(f)[S] = Sums(e)[D]
<1> DEFINE image(s) == {b[x] : x \in s}
           h == [s \in SUBSET S |-> Sums(e)[image(s)]]
<1>1. AddsUp(Sums(e), e, D)
  BY SumsFacts
<1>2. f \in [S -> Int]
  OBVIOUS
<1>3. \A s \in SUBSET S : h[s] = Sums(e)[image(s)]
  OBVIOUS
<1> HIDE DEF h
<1>4. AddsUp(h, f, S)
  <2>1. h[{}] = 0
    <3>1. image({}) = {} /\ {} \in SUBSET S
      OBVIOUS
    <3>2. QED
      BY <1>1, <1>3, <3>1 DEF AddsUp
  <2>2. ASSUME NEW s \in SUBSET S, NEW x \in S \ s PROVE h[s \cup {x}] = f[x] + h[s]
    <3>1. /\ s \cup {x} \in SUBSET S /\ image(s) \in SUBSET D /\ b[x] \in D
          /\ image(s \cup {x}) = image(s) \cup {b[x]} /\ b[x] \notin image(s)
          /\ f[x] = e[b[x]]
      OBVIOUS
    <3>2. Sums(e)[image(s) \cup {b[x]}] = e[b[x]] + Sums(e)[image(s)]
      <4> HIDE DEF image
      <4>1. QED
        BY <1>1, <3>1 DEF AddsUp
    <3>3. QED
      BY <1>3, <3>1, <3>2
  <2>3. QED
    BY <2>1, <2>2 DEF AddsUp
<1>5. \A s \in SUBSET S : h[s] = Sums(f)[s]
  BY <1>2, <1>4, SumsUnique
<1>6. image(S) = D
  OBVIOUS
<1>7. QED
  BY <1>3, <1>5, <1>6

(* k holds, for every value y of p, the sum of f over the group of y.      *)
AreGroups(k, f, p, K, S) == \A y \in K : k[y] = Sums(f)[{x \in S : p[x] = y}]

(* The sums of groups add up to the sum of all.                            *)
LEMMA SumsRegrouped ==
    ASSUME NEW S, IsFiniteSet(S), NEW f, f \in [S -> Int], NEW p, NEW K,
           K = {p[x] : x \in S},
           NEW k, k \in [K -> Int], AreGroups(k, f, p, K, S)
    PROVE  Sums(k)[K] = Sums(f)[S]
<1> DEFINE within(Y) == {x \in S : p[x] \in Y}
           h == [Y \in SUBSET K |-> Sums(f)[within(Y)]]
           q == [x \in S |-> p[x]]
<1>1. AddsUp(Sums(f), f, S) /\ \A s \in SUBSET S : Sums(f)[s] \in Int
  BY SumsFacts
<1>3. IsFiniteSet(K)
  <2>1. q = [x \in S |-> q[x]] /\ K = {q[x] : x \in S}
    OBVIOUS
  <2> HIDE DEF q
  <2>2. IsFiniteSet({q[x] : x \in S})
    BY <2>1, FiniteImage
  <2>3. QED
    BY <2>1, <2>2
<1>4. \A Y \in SUBSET K : h[Y] = Sums(f)[within(Y)]
  OBVIOUS
<1> HIDE DEF h
<1>5. AddsUp(h, k, K)
  <2>1. h[{}] = 0
    <3>1. within({}) = {} /\ {} \in SUBSET K
      OBVIOUS
    <3>2. QED
      BY <1>1, <1>4, <3>1 DEF AddsUp
  <2>2. ASSUME NEW Y \in SUBSET K, NEW y \in K \ Y PROVE h[Y \cup {y}] = k[y] + h[Y]
    <3> DEFINE A == {x \in S : p[x] = y}
               B == within(Y)
    <3>1. /\ A \in SUBSET S /\ B \in SUBSET S /\ A \cap B = {}
          /\ within(Y \cup {y}) = A \cup B /\ Y \cup {y} \in SUBSET K
      OBVIOUS
    <3>2. k[y] = Sums(f)[A] /\ h[Y] = Sums(f)[B] /\ h[Y \cup {y}] = Sums(f)[A \cup B]
      BY <1>4, <3>1 DEF AreGroups
    <3> HIDE DEF A, B
    <3>3. Sums(f)[A \cup B] = Sums(f)[A] + Sums(f)[B]
      BY <3>1, SumsDisjoint
    <3>4. QED
      BY <3>2, <3>3
  <2>3. QED
    BY <2>1, <2>2 DEF AddsUp
<1>6. \A Y \in SUBSET K : h[Y] = Sums(k)[Y]
  BY <1>3, <1>5, SumsUnique
<1>7. within(K) = S
  OBVIOUS
<1>8. Sums(k)[K] = h[K] /\ h[K] = Sums(f)[within(K)]
  <2>1. K \in SUBSET K
    OBVIOUS
  <2>2. QED
    BY <1>4, <1>6, <2>1
<1>9. QED
  BY <1>7, <1>8

(* Total() is such a sum.                                                  *)
LEMMA TotalIs ==
    ASSUME NEW f, IsFrame(f), NEW c, NEW amount,
           amount = [i \in DOMAIN f.rows |-> Number(Value(f, i, c))],
           amount \in [DOMAIN f.rows -> Int]
    PROVE  Total(f, c) = Sums(amount)[DOMAIN f.rows]
<1> DEFINE D == DOMAIN f.rows
           Body(g, s) == IF s = {} THEN 0
                         ELSE Number(Value(f, CHOOSE x \in s : TRUE, c))
                                + g[s \ {CHOOSE x \in s : TRUE}]
           chosen == CHOOSE g : g = [s \in SUBSET D |-> Body(g, s)]
<1>1. Total(f, c) = chosen[D]
  BY DEF Total, MapThenSumSet, MapThenFoldSet
<1>2. ASSUME NEW g, NEW s \in SUBSET D PROVE Body(g, s) = SumOn(g, amount, s)
  <2>1. CASE s = {}
    BY <2>1 DEF SumOn
  <2>2. CASE s # {}
    <3> DEFINE x == CHOOSE y \in s : TRUE
    <3>1. x \in s
      BY <2>2
    <3>2. Body(g, s) = Number(Value(f, x, c)) + g[s \ {x}]
          /\ SumOn(g, amount, s) = amount[x] + g[s \ {x}]
      BY <2>2 DEF SumOn
    <3> HIDE DEF x
    <3>3. amount[x] = Number(Value(f, x, c))
      BY <3>1
    <3> HIDE DEF Body
    <3>4. QED
      BY <3>2, <3>3
  <2>3. QED
    BY <2>1, <2>2
<1> HIDE DEF Body, D
<1>3. IsFiniteSet(D)
  BY FrameFacts DEF D
<1>4. PICK g : g = [s \in SUBSET D |-> Body(g, s)]
  <2>1. PICK g : g = [s \in SUBSET D |-> SumOn(g, amount, s)]
    <3>1. \E g : IsSum(g, amount, D)
      BY <1>3, SumExists
    <3>2. QED
      BY <3>1 DEF IsSum
  <2>2. [s \in SUBSET D |-> SumOn(g, amount, s)] = [s \in SUBSET D |-> Body(g, s)]
    BY <1>2
  <2>3. QED
    BY <2>1, <2>2
<1>5. chosen = [s \in SUBSET D |-> Body(chosen, s)]
  BY <1>4
<1> HIDE DEF chosen
<1>6. IsSum(chosen, amount, D)
  BY <1>2, <1>5 DEF IsSum
<1>7. chosen[D] = Sums(amount)[D]
  BY <1>3, <1>6, SumsAre DEF D
<1>8. QED
  BY <1>1, <1>7 DEF D
=============================================================================
