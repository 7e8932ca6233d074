--------------------------- MODULE EnvBlockProofs ---------------------------
(***************************************************************************)
(* The environment block implements a map from names to values, for a page   *)
(* of any size, any names and values, and any bytes in the page behind it,   *)
(* as long as every string that SET or PATH appends leaves a byte to spare.  *)
(* (A string that does not fit leaves the block without its double null; one *)
(* that fits to the last byte lets envDelete into the next page: run         *)
(* env_brim.)                                                                *)
(***************************************************************************)
EXTENDS EnvBlock, Induction, SequenceTheorems, FiniteSetTheorems

Byte   == Text \cup {NUL, EQ}
Memory == [Cell -> Byte]

LastCell == Size + Len(Neighbour) - 1

LEMMA Sizes ==
    /\ Size \in Nat /\ Size > 1 /\ LastCell \in Nat /\ LastCell > Size
    /\ Cell = 0 .. LastCell /\ Cell \subseteq Nat
    /\ NUL # EQ /\ NUL \notin Text
    /\ Vars \subseteq Seq(Text) /\ Vals \subseteq Seq(Text) /\ <<>> \notin Vals
<1>1. Len(Neighbour) \in Nat /\ Len(Neighbour) > 1
    BY EnvAssumption
<1>2. Size \in Nat /\ Size > 1
    BY EnvAssumption
<1>3. NUL # EQ /\ NUL \notin Text
    BY EnvAssumption DEF NUL, EQ
<1>. QED
    BY <1>1, <1>2, <1>3, EnvAssumption DEF LastCell, Cell

-----------------------------------------------------------------------------
(* The scans for nulls *)

\* The least of a set of cells.
LEMMA LeastCell ==
    ASSUME NEW T \in SUBSET Cell, T # {}
    PROVE  Min(T) \in T /\ \A t \in T : Min(T) <= t
<1>1. T \in SUBSET Nat
    BY Sizes
<1>2. PICK i \in T : \A j \in T : i <= j
    BY <1>1, LeastNumber
<1>. QED
    BY <1>2 DEF Min

\* An element that no other is less than.
LEMMA Least ==
    ASSUME NEW T \in SUBSET Cell, NEW k \in T, \A t \in T : k <= t
    PROVE  Min(T) = k
<1>1. Min(T) \in T /\ \A t \in T : Min(T) <= t
    BY LeastCell
<1>2. Min(T) \in Nat /\ k \in Nat
    BY <1>1, Sizes
<1>. QED
    BY <1>1, <1>2

\* The last two cells are null: every scan ends.
Tailed(m) == m[LastCell] = NUL /\ m[LastCell - 1] = NUL

IsNull(m, i, k)       == k \in Cell /\ i <= k /\ m[k] = NUL
IsDoubleNull(m, i, k) == IsNull(m, i, k) /\ k + 1 \in Cell /\ m[k + 1] = NUL

LEMMA FirstNull ==
    ASSUME NEW m, NEW i \in Cell, NEW k, IsNull(m, i, k),
           \A j \in i .. k - 1 : m[j] # NUL
    PROVE  NullFrom(m, i) = k
<1>. DEFINE T == {j \in Cell : j >= i /\ m[j] = NUL}
<1>1. k \in T
    BY Sizes DEF IsNull
<1>2. ASSUME NEW j \in T PROVE k <= j
    <2>1. i \in Nat /\ j \in Nat /\ k \in Nat
        BY <1>1, Sizes
    <2>. QED
        BY <1>2, <2>1
<1>3. Min(T) = k
    BY <1>1, <1>2, Least
<1>. QED
    BY <1>3 DEF NullFrom

LEMMA FirstDoubleNull ==
    ASSUME NEW m, NEW i \in Cell, NEW k, IsDoubleNull(m, i, k),
           \A j \in i .. k - 1 : ~(m[j] = NUL /\ m[j + 1] = NUL)
    PROVE  DoubleNullFrom(m, i) = k
<1>. DEFINE T == {j \in Cell : j >= i /\ j + 1 \in Cell /\ m[j] = NUL /\ m[j + 1] = NUL}
<1>1. k \in T
    BY Sizes DEF IsDoubleNull, IsNull
<1>2. ASSUME NEW j \in T PROVE k <= j
    <2>1. i \in Nat /\ j \in Nat /\ k \in Nat
        BY <1>1, Sizes
    <2>. QED
        BY <1>2, <2>1
<1>3. Min(T) = k
    BY <1>1, <1>2, Least
<1>. QED
    BY <1>3 DEF DoubleNullFrom

LEMMA SomeNull ==
    ASSUME NEW m, Tailed(m), NEW i \in Cell, i < LastCell
    PROVE  /\ IsNull(m, i, NullFrom(m, i)) /\ NullFrom(m, i) < LastCell
           /\ \A j \in i .. NullFrom(m, i) - 1 : m[j] # NUL
<1>. DEFINE T == {j \in Cell : j >= i /\ m[j] = NUL}
            n == NullFrom(m, i)
<1>0. i \in Nat /\ i <= LastCell - 1 /\ LastCell \in Nat /\ LastCell - 1 \in Cell
    BY Sizes
<1>1. LastCell - 1 \in T
    BY <1>0 DEF Tailed
<1>2. n \in T /\ \A t \in T : n <= t
    BY <1>1, LeastCell DEF NullFrom
<1>. HIDE DEF n
<1>3. n \in Nat /\ n <= LastCell - 1 /\ n <= LastCell
    BY <1>0, <1>1, <1>2, Sizes
<1>4. ASSUME NEW j \in i .. n - 1 PROVE m[j] # NUL
    <2>1. j \in Cell /\ j >= i /\ ~(n <= j)
        BY <1>0, <1>3, Sizes
    <2>. QED
        BY <1>2, <2>1
<1>5. IsNull(m, i, n) /\ n < LastCell
    BY <1>0, <1>2, <1>3 DEF IsNull
<1>. QED
    BY <1>4, <1>5 DEF n

LEMMA SomeDoubleNull ==
    ASSUME NEW m, Tailed(m), NEW i \in Cell, i < LastCell
    PROVE  /\ IsDoubleNull(m, i, DoubleNullFrom(m, i))
           /\ \A j \in i .. DoubleNullFrom(m, i) - 1 : ~(m[j] = NUL /\ m[j + 1] = NUL)
<1>. DEFINE T == {j \in Cell : j >= i /\ j + 1 \in Cell /\ m[j] = NUL /\ m[j + 1] = NUL}
            n == DoubleNullFrom(m, i)
<1>0. /\ i \in Nat /\ i <= LastCell - 1 /\ LastCell \in Nat /\ LastCell - 1 \in Cell
      /\ (LastCell - 1) + 1 = LastCell /\ LastCell \in Cell
    BY Sizes
<1>1. LastCell - 1 \in T
    BY <1>0 DEF Tailed
<1>2. n \in T /\ \A t \in T : n <= t
    BY <1>1, LeastCell DEF DoubleNullFrom
<1>. HIDE DEF n
<1>3. n \in Nat /\ n <= LastCell - 1
    BY <1>1, <1>2, Sizes
<1>4. ASSUME NEW j \in i .. n - 1 PROVE ~(m[j] = NUL /\ m[j + 1] = NUL)
    <2>1. j \in Cell /\ j + 1 \in Cell /\ j >= i /\ ~(n <= j)
        BY <1>0, <1>3, Sizes
    <2>. QED
        BY <1>2, <2>1
<1>5. IsDoubleNull(m, i, n)
    BY <1>2 DEF IsDoubleNull, IsNull
<1>. QED
    BY <1>4, <1>5 DEF n

-----------------------------------------------------------------------------
(* envSearch *)

\* Where the scan stops that starts at i, the strings it looks at on the way
\* and the first of them that is v's.
Stop(m, i)     == IF m[i] = NUL THEN i ELSE DoubleNullFrom(m, i) + 1
From(m, v, i)  == {k \in Cell : /\ i <= k /\ k < Stop(m, i)
                                /\ k = i \/ m[k - 1] = NUL
                                /\ Matches(m, k, v)}
Found(m, v, i) == IF From(m, v, i) = {} THEN NotFound ELSE Min(From(m, v, i))

LEMMA SearchStep ==
    ASSUME NEW m, Tailed(m), NEW v, NEW i \in Cell
    PROVE  LET n == NullFrom(m, i) + 1
           IN  /\ m[i] = NUL => Found(m, v, i) = NotFound
               /\ m[i] # NUL => /\ n \in Cell /\ i < n
                                /\ Found(m, v, i) = IF Matches(m, i, v) THEN i
                                                    ELSE Found(m, v, n)
<1>. DEFINE z == NullFrom(m, i)
            n == z + 1
<1>0. i \in Nat /\ LastCell \in Nat /\ Cell = 0 .. LastCell
    BY Sizes
<1>1. ASSUME m[i] = NUL PROVE Found(m, v, i) = NotFound
    <2>1. Stop(m, i) = i
        BY <1>1 DEF Stop
    <2>2. \A k \in Cell : ~(i <= k /\ k < i)
        BY <1>0
    <2>3. From(m, v, i) = {}
        BY <2>1, <2>2 DEF From
    <2>. QED
        BY <2>3 DEF Found
<1>2. ASSUME m[i] # NUL
      PROVE  n \in Cell /\ i < n
             /\ Found(m, v, i) = IF Matches(m, i, v) THEN i ELSE Found(m, v, n)
    <2>1. i < LastCell
        BY <1>0, <1>2 DEF Tailed
    <2>2. IsNull(m, i, z) /\ z < LastCell /\ \A j \in i .. z - 1 : m[j] # NUL
        BY <2>1, SomeNull
    <2>. HIDE DEF z
    <2>3. z \in Nat /\ i < z /\ m[z] = NUL /\ n \in Cell /\ i < n
        BY <1>0, <1>2, <2>2 DEF IsNull
    <2>. DEFINE d == DoubleNullFrom(m, i)
    <2>4. IsDoubleNull(m, i, d) /\ \A j \in i .. d - 1 : ~(m[j] = NUL /\ m[j + 1] = NUL)
        BY <2>1, SomeDoubleNull
    <2>. HIDE DEF d
    <2>5. d \in Nat /\ z <= d /\ m[d] = NUL /\ d + 1 \in Cell
        BY <1>0, <2>2, <2>4 DEF IsDoubleNull, IsNull
    <2>6. Stop(m, i) = d + 1
        BY <1>2 DEF Stop, d
    <2>7. Stop(m, n) = d + 1
        <3>1. CASE m[n] = NUL
            <4>1. ~(z \in i .. d - 1)
                BY <2>4, <2>3, <3>1
            <4>2. d = z
                BY <1>0, <2>3, <2>5, <4>1
            <4>. QED
                BY <3>1, <4>2 DEF Stop
        <3>2. CASE m[n] # NUL
            <4>1. d # z
                BY <2>4, <3>2 DEF IsDoubleNull
            <4>2. IsDoubleNull(m, n, d)
                BY <2>3, <2>4, <2>5, <4>1 DEF IsDoubleNull, IsNull
            <4>3. \A j \in n .. d - 1 : j \in i .. d - 1
                BY <1>0, <2>3, <2>5
            <4>4. DoubleNullFrom(m, n) = d
                BY <2>3, <2>4, <4>2, <4>3, FirstDoubleNull
            <4>. QED
                BY <3>2, <4>4 DEF Stop
        <3>. QED
            BY <3>1, <3>2
    <2>8. CASE Matches(m, i, v)
        <3>1. i \in From(m, v, i)
            BY <1>0, <2>3, <2>5, <2>6, <2>8 DEF From
        <3>2. \A k \in From(m, v, i) : i <= k
            BY DEF From
        <3>3. From(m, v, i) \in SUBSET Cell
            BY DEF From
        <3>4. Min(From(m, v, i)) = i
            BY <3>1, <3>2, <3>3, Least
        <3>. QED
            BY <2>3, <2>8, <3>1, <3>4 DEF Found
    <2>9. CASE ~Matches(m, i, v)
        <3>1. ASSUME NEW k \in Cell, i <= k, k # i, m[k - 1] = NUL PROVE n <= k
            <4>1. k - 1 \in Nat /\ i <= k - 1
                BY <1>0, <3>1
            <4>2. ~(k - 1 \in i .. z - 1)
                BY <2>2, <3>1
            <4>. QED
                BY <1>0, <2>3, <4>1, <4>2
        <3>2. \A k \in Cell : n <= k => i <= k /\ k # i
            BY <1>0, <2>3
        <3>3. m[n - 1] = NUL
            BY <2>3
        <3>4. From(m, v, i) = From(m, v, n)
            BY <2>6, <2>7, <2>9, <3>1, <3>2, <3>3 DEF From
        <3>. QED
            BY <2>3, <2>9, <3>4 DEF Found
    <2>. QED
        BY <2>3, <2>8, <2>9
<1>. QED
    BY <1>1, <1>2

\* One turn of the loop, from a string that starts at i.
esStep(m, v, esNext, i) ==
    IF m[i] = NUL THEN NotFound
    ELSE IF Matches(m, i, v) THEN i
    ELSE esNext[NullFrom(m, i) + 1]

\* Any function the turns of the loop define finds the first match.
LEMMA TurnsFind ==
    ASSUME NEW m, Tailed(m), NEW v,
           NEW esNext, esNext = [i \in Cell |-> esStep(m, v, esNext, i)],
           NEW i \in Cell
    PROVE  esNext[i] = Found(m, v, i)
<1>. DEFINE Right(b) == esNext[b] = Found(m, v, b)
            S == {k \in Nat : \A b \in Cell : LastCell - b <= k => Right(b)}
<1>1. LastCell \in Nat /\ \A b \in Cell : b \in Nat /\ b <= LastCell
    BY Sizes
<1>2. ASSUME NEW b \in Cell, \A c \in Cell : b < c => Right(c)
      PROVE  Right(b)
    <2>. DEFINE n == NullFrom(m, b) + 1
    <2>1. /\ m[b] = NUL => Found(m, v, b) = NotFound
          /\ m[b] # NUL => /\ n \in Cell /\ b < n
                           /\ Found(m, v, b) = IF Matches(m, b, v) THEN b ELSE Found(m, v, n)
        BY SearchStep
    <2>2. esNext[b] = IF m[b] = NUL THEN NotFound
                      ELSE IF Matches(m, b, v) THEN b ELSE esNext[n]
        BY DEF esStep
    <2>. HIDE DEF n
    <2>. QED
        BY <1>2, <2>1, <2>2
<1>3. 0 \in S
    <2>. SUFFICES ASSUME NEW b \in Cell, LastCell - b <= 0 PROVE Right(b)
        OBVIOUS
    <2>1. \A c \in Cell : ~(b < c)
        BY <1>1
    <2>. QED
        BY <1>2, <2>1
<1>4. ASSUME NEW k \in S PROVE k + 1 \in S
    <2>. SUFFICES ASSUME NEW b \in Cell, LastCell - b <= k + 1 PROVE Right(b)
        OBVIOUS
    <2>1. \A c \in Cell : b < c => LastCell - c <= k
        BY <1>1
    <2>2. \A c \in Cell : b < c => Right(c)
        BY <2>1
    <2>. QED
        BY <1>2, <2>2
<1>5. S = Nat
    <2>. HIDE DEF S
    <2>1. S \in SUBSET Nat
        BY DEF S
    <2>. QED
        BY <1>3, <1>4, <2>1, NumbersByInduction
<1>6. LastCell - i \in Nat /\ LastCell - i <= LastCell - i
    BY <1>1
<1>. QED
    BY <1>5, <1>6

\* envSearch returns the first string of v in front of the double null.
LEMMA SearchFinds ==
    ASSUME NEW m, Tailed(m), NEW v
    PROVE  envSearch(m, v) = Found(m, v, 0)
<1>. DEFINE Solves(f) == f = [i \in Cell |-> esStep(m, v, f, i)]
            next(i) == NullFrom(m, i) + 1
            known == [i \in Cell |-> Found(m, v, i)]
<1>1. envSearch(m, v) = (CHOOSE f : Solves(f))[0]
    BY DEF envSearch, esStep
<1>2. ASSUME NEW i \in Cell PROVE known[i] = esStep(m, v, known, i)
    <2>. HIDE DEF next
    <2>1. /\ m[i] = NUL => Found(m, v, i) = NotFound
          /\ m[i] # NUL => /\ next(i) \in Cell
                           /\ Found(m, v, i) = IF Matches(m, i, v) THEN i
                                               ELSE Found(m, v, next(i))
        BY SearchStep DEF next
    <2>2. known[i] = Found(m, v, i) /\ (next(i) \in Cell => known[next(i)] = Found(m, v, next(i)))
        OBVIOUS
    <2>3. esStep(m, v, known, i) = IF m[i] = NUL THEN NotFound
                                   ELSE IF Matches(m, i, v) THEN i ELSE known[next(i)]
        BY DEF esStep, next
    <2>. HIDE DEF known
    <2>. QED
        BY <2>1, <2>2, <2>3
<1>3. Solves(known)
    <2>1. known = [i \in Cell |-> known[i]]
        OBVIOUS
    <2>. HIDE DEF known
    <2>. QED
        BY <1>2, <2>1, Zenon
<1>. HIDE DEF known
<1>4. PICK f : Solves(f) /\ f = CHOOSE g : Solves(g)
    BY <1>3
<1>5. 0 \in Cell
    BY Sizes
<1>6. f[0] = Found(m, v, 0)
    BY <1>4, <1>5, TurnsFind
<1>. QED
    BY <1>1, <1>4, <1>6

-----------------------------------------------------------------------------
(* What a block holds *)

\* The strings of a block that ends at cell e start at its first cell and
\* behind each null.
Starts(m, e) == {i \in 0 .. e - 1 : i = 0 \/ m[i - 1] = NUL}

\* The string at i is v=x.
Holds(m, i, v, x) ==
    /\ \A j \in 1 .. Len(v) : m[i + j - 1] = v[j]
    /\ m[i + Len(v)] = EQ
    /\ \A j \in 1 .. Len(x) : m[i + Len(v) + j] = x[j]
    /\ m[i + Len(v) + Len(x) + 1] = NUL

\* The cells of v=x, its null included.
Long(v, x) == Len(v) + Len(x) + 2

\* The second null is at e, within the page and with a cell to spare: the
\* last two cells of the page have never been anything but null.
Ends(m, e) ==
    /\ e \in 0 .. Size - 2 /\ m[e] = NUL /\ (e > 0 => m[e - 1] = NUL)
    /\ m[Size - 2] = NUL /\ m[Size - 1] = NUL

\* The page behind is what it was.
Kept(m) == \A k \in Cell : k >= Size => m[k] = Neighbour[k - Size + 1]

Strings(m, e) ==
    \A i \in Starts(m, e) : \E v \in Vars, x \in Vals :
        Holds(m, i, v, x) /\ i + Long(v, x) <= e

\* No name twice.
Distinct(m, e) ==
    \A i, j \in Starts(m, e) : \A v \in Vars : Matches(m, i, v) /\ Matches(m, j, v) => i = j

Block(m, e) ==
    m \in Memory /\ Ends(m, e) /\ Kept(m) /\ Strings(m, e) /\ Distinct(m, e)

LEMMA Lengths ==
    ASSUME NEW v \in Vars, NEW x \in Vals
    PROVE  /\ Len(v) \in Nat /\ Len(x) \in Nat /\ Len(x) > 0
           /\ Long(v, x) \in Nat /\ Long(v, x) > 2
           /\ v \in Seq(Text) /\ x \in Seq(Text)
           /\ \A j \in 1 .. Len(v) : v[j] \in Text /\ v[j] # EQ /\ v[j] # NUL
           /\ \A j \in 1 .. Len(x) : x[j] \in Text /\ x[j] # NUL
<1>1. v \in Seq(Text) /\ x \in Seq(Text) /\ x # <<>>
    BY Sizes
<1>2. Len(v) \in Nat /\ Len(x) \in Nat /\ Len(x) > 0
    BY <1>1
<1>3. \A j \in 1 .. Len(v) : v[j] \in Text /\ j \in DOMAIN v
    BY <1>1
<1>4. \A j \in 1 .. Len(x) : x[j] \in Text
    BY <1>1
<1>5. \A j \in 1 .. Len(v) : v[j] # EQ
    BY <1>3, EnvAssumption
<1>. QED
    BY <1>1, <1>2, <1>3, <1>4, <1>5, Sizes DEF Long

\* The bytes of a string before its null are no nulls.
LEMMA NoNullInside ==
    ASSUME NEW m, NEW i \in Nat, NEW v \in Vars, NEW x \in Vals, Holds(m, i, v, x),
           NEW k \in Nat, i <= k, k < i + Long(v, x) - 1
    PROVE  m[k] # NUL
<1>1. /\ Len(v) \in Nat /\ Len(x) \in Nat /\ Long(v, x) = Len(v) + Len(x) + 2
      /\ \A j \in 1 .. Len(v) : v[j] # NUL
      /\ \A j \in 1 .. Len(x) : x[j] # NUL
    BY Lengths DEF Long
<1>2. CASE k < i + Len(v)
    <2>. DEFINE j == k - i + 1
    <2>1. j \in 1 .. Len(v) /\ i + j - 1 = k
        BY <1>1, <1>2
    <2>. HIDE DEF j
    <2>2. m[i + j - 1] = v[j]
        BY <2>1 DEF Holds
    <2>. QED
        BY <1>1, <2>1, <2>2
<1>3. CASE k = i + Len(v)
    <2>1. m[k] = EQ
        BY <1>3, Zenon DEF Holds
    <2>. QED
        BY <2>1, Sizes
<1>4. CASE k > i + Len(v)
    <2>. DEFINE j == k - i - Len(v)
    <2>1. j \in 1 .. Len(x) /\ i + Len(v) + j = k
        BY <1>1, <1>4
    <2>. HIDE DEF j
    <2>2. m[i + Len(v) + j] = x[j]
        BY <2>1 DEF Holds
    <2>. QED
        BY <1>1, <2>1, <2>2
<1>5. k < i + Len(v) \/ k = i + Len(v) \/ k > i + Len(v)
    <2>1. \A a \in Nat : k < a \/ k = a \/ k > a
        OBVIOUS
    <2>2. i + Len(v) \in Nat
        BY <1>1
    <2>. QED
        BY <2>1, <2>2
<1>. QED
    BY <1>2, <1>3, <1>4, <1>5

\* A string has one name, and its null ends it.
LEMMA OneName ==
    ASSUME NEW m, NEW i \in Nat, NEW v \in Vars, NEW x \in Vals, Holds(m, i, v, x),
           NEW w \in Vars
    PROVE  Matches(m, i, w) <=> w = v
<1>1. /\ Len(v) \in Nat /\ Len(w) \in Nat /\ v \in Seq(Text) /\ w \in Seq(Text)
      /\ \A j \in 1 .. Len(v) : v[j] # EQ
      /\ \A j \in 1 .. Len(w) : w[j] # EQ
    BY Lengths
<1>2. DOMAIN w = 1 .. Len(w) /\ DOMAIN v = 1 .. Len(v)
    BY <1>1
<1>3. \A j \in 1 .. Len(v) : m[i + j - 1] = v[j]
    BY DEF Holds
<1>4. m[i + Len(v)] = EQ
    BY DEF Holds
<1>5. ASSUME Matches(m, i, w) PROVE w = v
    <2>1. (\A j \in 1 .. Len(w) : m[i + j - 1] = w[j]) /\ m[i + Len(w)] = EQ
        BY <1>2, <1>5 DEF Matches
    <2>2. ~(Len(w) < Len(v))
        <3>. SUFFICES ASSUME Len(w) < Len(v) PROVE FALSE
            OBVIOUS
        <3>1. Len(w) + 1 \in 1 .. Len(v) /\ i + (Len(w) + 1) - 1 = i + Len(w)
            BY <1>1
        <3>. QED
            BY <1>1, <1>3, <2>1, <3>1
    <2>3. ~(Len(v) < Len(w))
        <3>. SUFFICES ASSUME Len(v) < Len(w) PROVE FALSE
            OBVIOUS
        <3>1. Len(v) + 1 \in 1 .. Len(w) /\ i + (Len(v) + 1) - 1 = i + Len(v)
            BY <1>1
        <3>. QED
            BY <1>1, <1>4, <2>1, <3>1
    <2>4. Len(v) = Len(w)
        BY <1>1, <2>2, <2>3
    <2>5. \A j \in 1 .. Len(v) : v[j] = w[j]
        BY <1>3, <2>1, <2>4
    <2>. QED
        BY <1>1, <2>4, <2>5, SeqEqual
<1>6. ASSUME w = v PROVE Matches(m, i, w)
    BY <1>2, <1>3, <1>4, <1>6 DEF Matches
<1>. QED
    BY <1>5, <1>6

LEMMA StringEnds ==
    ASSUME NEW m, NEW i \in Cell, NEW v \in Vars, NEW x \in Vals, Holds(m, i, v, x),
           i + Long(v, x) <= LastCell
    PROVE  NullFrom(m, i) = i + Long(v, x) - 1
<1>. DEFINE k == i + Long(v, x) - 1
<1>1. /\ i \in Nat /\ Long(v, x) \in Nat /\ Long(v, x) > 2
      /\ Len(v) \in Nat /\ Len(x) \in Nat /\ Long(v, x) = Len(v) + Len(x) + 2
      /\ LastCell \in Nat /\ Cell = 0 .. LastCell
    BY Sizes, Lengths DEF Long
<1>2. k = i + Len(v) + Len(x) + 1 /\ k \in Cell /\ i <= k
    BY <1>1
<1>3. IsNull(m, i, k)
    BY <1>2 DEF IsNull, Holds
<1>4. ASSUME NEW j \in i .. k - 1 PROVE m[j] # NUL
    <2>1. j \in Nat /\ i <= j /\ j < i + Long(v, x) - 1
        BY <1>1, <1>2
    <2>. QED
        BY <1>1, <2>1, NoNullInside
<1>. HIDE DEF k
<1>5. NullFrom(m, i) = k
    BY <1>3, <1>4, FirstNull
<1>. QED
    BY <1>5 DEF k

-----------------------------------------------------------------------------
(* Reading a block *)

LEMMA BlockFacts ==
    ASSUME NEW m, NEW e, Block(m, e)
    PROVE  /\ e \in Nat /\ e <= Size - 2 /\ e < LastCell /\ e \in Cell /\ Tailed(m)
           /\ Starts(m, e) \subseteq Nat
           /\ \A i \in Starts(m, e) : i \in Cell /\ i < e /\ m[i] # NUL
           /\ 0 < e => 0 \in Starts(m, e)
           /\ \A k \in 0 .. e - 1 : k + 1 < e /\ m[k] = NUL => m[k + 1] # NUL
<1>1. e \in Nat /\ e <= Size - 2 /\ e < LastCell /\ e \in Cell
    BY Sizes DEF Block, Ends
<1>2. Tailed(m)
    <2>1. LastCell \in Cell /\ LastCell - 1 \in Cell /\ LastCell >= Size /\ LastCell - 1 >= Size
          /\ LastCell - Size + 1 = Len(Neighbour) /\ (LastCell - 1) - Size + 1 = Len(Neighbour) - 1
        BY Sizes, EnvAssumption DEF LastCell
    <2>. QED
        BY <2>1, EnvAssumption DEF Block, Kept, Tailed
<1>3. Starts(m, e) \subseteq Nat /\ \A i \in Starts(m, e) : i \in Cell /\ i < e
    BY <1>1, Sizes DEF Starts
<1>4. ASSUME NEW i \in Starts(m, e) PROVE m[i] # NUL
    <2>1. PICK v \in Vars, x \in Vals : Holds(m, i, v, x)
        BY DEF Block, Strings
    <2>2. i \in Nat /\ i <= i /\ i < i + Long(v, x) - 1
        BY <1>3, Lengths
    <2>. QED
        BY <2>1, <2>2, NoNullInside
<1>5. 0 < e => 0 \in Starts(m, e)
    BY <1>1 DEF Starts
<1>6. ASSUME NEW k \in 0 .. e - 1, k + 1 < e, m[k] = NUL PROVE m[k + 1] # NUL
    <2>1. k + 1 \in 0 .. e - 1 /\ (k + 1) - 1 = k
        BY <1>1, <1>6
    <2>2. k + 1 \in Starts(m, e)
        BY <1>6, <2>1 DEF Starts
    <2>. QED
        BY <1>4, <2>2
<1>. QED
    BY <1>1, <1>2, <1>3, <1>4, <1>5, <1>6

\* envFindEnd finds the end.
LEMMA EndFound ==
    ASSUME NEW m, NEW e, Block(m, e)
    PROVE  envFindEnd(m) = e /\ Stop(m, 0) = e
<1>1. e \in Nat /\ 0 \in Cell
    BY BlockFacts, Sizes
<1>2. CASE e = 0
    BY <1>2 DEF Block, Ends, envFindEnd, Stop
<1>3. CASE e > 0
    <2>1. m[0] # NUL
        BY <1>1, <1>3, BlockFacts
    <2>2. IsDoubleNull(m, 0, e - 1)
        <3>1. e - 1 \in Cell /\ e \in Cell /\ (e - 1) + 1 = e /\ 0 <= e - 1
            BY <1>1, <1>3, BlockFacts, Sizes
        <3>. QED
            BY <1>3, <3>1 DEF IsDoubleNull, IsNull, Block, Ends
    <2>3. ASSUME NEW j \in 0 .. (e - 1) - 1 PROVE ~(m[j] = NUL /\ m[j + 1] = NUL)
        <3>1. j \in 0 .. e - 1 /\ j + 1 < e
            BY <1>1
        <3>. QED
            BY <3>1, BlockFacts
    <2>4. DoubleNullFrom(m, 0) = e - 1
        BY <1>1, <2>2, <2>3, FirstDoubleNull
    <2>. QED
        BY <1>1, <2>1, <2>4 DEF envFindEnd, Stop
<1>. QED
    BY <1>1, <1>2, <1>3

\* envSearch finds the string of a name, if there is one.
LEMMA SearchInBlock ==
    ASSUME NEW m, NEW e, Block(m, e), NEW v \in Vars
    PROVE  /\ \A i \in Starts(m, e) : Matches(m, i, v) => envSearch(m, v) = i
           /\ (\A i \in Starts(m, e) : ~Matches(m, i, v)) => envSearch(m, v) = NotFound
<1>. DEFINE T == From(m, v, 0)
<1>1. Tailed(m) /\ e \in Nat
    BY BlockFacts
<1>2. envSearch(m, v) = IF T = {} THEN NotFound ELSE Min(T)
    BY <1>1, SearchFinds DEF Found
<1>3. T = {k \in Starts(m, e) : Matches(m, k, v)}
    <2>1. T = {k \in Cell : 0 <= k /\ k < e /\ (k = 0 \/ m[k - 1] = NUL) /\ Matches(m, k, v)}
        BY EndFound DEF From
    <2>2. \A k : k \in Starts(m, e) <=> k \in Cell /\ 0 <= k /\ k < e /\ (k = 0 \/ m[k - 1] = NUL)
        BY <1>1, BlockFacts, Sizes DEF Starts
    <2>. HIDE DEF T
    <2>. QED
        BY <2>1, <2>2
<1>. HIDE DEF T
<1>4. ASSUME NEW i \in Starts(m, e), Matches(m, i, v) PROVE envSearch(m, v) = i
    <2>1. T = {i}
        BY <1>3, <1>4 DEF Block, Distinct
    <2>2. i \in Nat
        BY BlockFacts
    <2>3. Min(T) = i
        BY <2>1, <2>2 DEF Min
    <2>. QED
        BY <1>2, <2>1, <2>3
<1>. QED
    BY <1>2, <1>3, <1>4

-----------------------------------------------------------------------------
(* Strings *)

\* A string has one name and one value.
LEMMA OneString ==
    ASSUME NEW m, NEW i \in Nat,
           NEW v \in Vars, NEW x \in Vals, Holds(m, i, v, x),
           NEW w \in Vars, NEW y \in Vals, Holds(m, i, w, y)
    PROVE  v = w /\ x = y
<1>1. v = w
    <2>1. Matches(m, i, v)
        BY OneName
    <2>. QED
        BY <2>1, OneName
<1>2. /\ Len(v) \in Nat /\ Len(x) \in Nat /\ Len(y) \in Nat
      /\ x \in Seq(Text) /\ y \in Seq(Text)
      /\ \A j \in 1 .. Len(x) : x[j] # NUL
      /\ \A j \in 1 .. Len(y) : y[j] # NUL
    BY Lengths
<1>3. /\ \A j \in 1 .. Len(x) : m[i + Len(v) + j] = x[j]
      /\ m[i + Len(v) + Len(x) + 1] = NUL
      /\ \A j \in 1 .. Len(y) : m[i + Len(v) + j] = y[j]
      /\ m[i + Len(v) + Len(y) + 1] = NUL
    BY <1>1 DEF Holds
<1>4. ~(Len(x) < Len(y))
    <2>. SUFFICES ASSUME Len(x) < Len(y) PROVE FALSE
        OBVIOUS
    <2>1. Len(x) + 1 \in 1 .. Len(y) /\ i + Len(v) + (Len(x) + 1) = i + Len(v) + Len(x) + 1
        BY <1>2
    <2>. QED
        BY <1>2, <1>3, <2>1
<1>5. ~(Len(y) < Len(x))
    <2>. SUFFICES ASSUME Len(y) < Len(x) PROVE FALSE
        OBVIOUS
    <2>1. Len(y) + 1 \in 1 .. Len(x) /\ i + Len(v) + (Len(y) + 1) = i + Len(v) + Len(y) + 1
        BY <1>2
    <2>. QED
        BY <1>2, <1>3, <2>1
<1>6. Len(x) = Len(y)
    BY <1>2, <1>4, <1>5
<1>7. \A j \in 1 .. Len(x) : x[j] = y[j]
    BY <1>3, <1>6
<1>8. x = y
    BY <1>2, <1>6, <1>7, SeqEqual
<1>. QED
    BY <1>1, <1>8

\* A string moved as a whole is the same string.
LEMMA Moved ==
    ASSUME NEW m, NEW u, NEW i \in Nat, NEW k \in Nat,
           NEW v \in Vars, NEW x \in Vals, Holds(m, i, v, x),
           \A j \in 0 .. Long(v, x) - 1 : u[k + j] = m[i + j]
    PROVE  Holds(u, k, v, x)
<1>1. Len(v) \in Nat /\ Len(x) \in Nat /\ Long(v, x) = Len(v) + Len(x) + 2
    BY Lengths DEF Long
<1>2. ASSUME NEW j \in 1 .. Len(v) PROVE u[k + j - 1] = v[j]
    <2>1. j - 1 \in 0 .. Long(v, x) - 1 /\ k + j - 1 = k + (j - 1) /\ i + j - 1 = i + (j - 1)
        BY <1>1
    <2>2. m[i + j - 1] = v[j]
        BY DEF Holds
    <2>. QED
        BY <2>1, <2>2
<1>3. u[k + Len(v)] = EQ
    <2>1. Len(v) \in 0 .. Long(v, x) - 1
        BY <1>1
    <2>. QED
        BY <2>1 DEF Holds
<1>4. ASSUME NEW j \in 1 .. Len(x) PROVE u[k + Len(v) + j] = x[j]
    <2>1. /\ Len(v) + j \in 0 .. Long(v, x) - 1
          /\ k + Len(v) + j = k + (Len(v) + j) /\ i + Len(v) + j = i + (Len(v) + j)
        BY <1>1
    <2>2. m[i + Len(v) + j] = x[j]
        BY DEF Holds
    <2>. QED
        BY <2>1, <2>2
<1>5. u[k + Len(v) + Len(x) + 1] = NUL
    <2>1. /\ Len(v) + Len(x) + 1 \in 0 .. Long(v, x) - 1
          /\ k + Len(v) + Len(x) + 1 = k + (Len(v) + Len(x) + 1)
          /\ i + Len(v) + Len(x) + 1 = i + (Len(v) + Len(x) + 1)
        BY <1>1
    <2>2. m[i + Len(v) + Len(x) + 1] = NUL
        BY DEF Holds
    <2>. QED
        BY <2>1, <2>2
<1>. QED
    BY <1>2, <1>3, <1>4, <1>5 DEF Holds

\* A string ends in front of the next null.
LEMMA EndsBefore ==
    ASSUME NEW m, NEW i \in Nat, NEW v \in Vars, NEW x \in Vals, Holds(m, i, v, x),
           NEW j \in Nat, i < j, m[j - 1] = NUL
    PROVE  i + Long(v, x) <= j
<1>1. Long(v, x) \in Nat
    BY Lengths
<1>2. j - 1 \in Nat /\ i <= j - 1
    OBVIOUS
<1>3. ~(j - 1 < i + Long(v, x) - 1)
    BY <1>2, NoNullInside
<1>. QED
    BY <1>1, <1>3

\* The strings of a block lie apart, all in front of its end.
LEMMA StringsApart ==
    ASSUME NEW m, NEW e, Block(m, e), NEW i \in Starts(m, e),
           NEW v \in Vars, NEW x \in Vals, Holds(m, i, v, x)
    PROVE  /\ i + Long(v, x) <= e
           /\ \A j \in Starts(m, e) : i < j => i + Long(v, x) <= j
<1>1. i \in Nat /\ i < e /\ e \in Nat
    BY BlockFacts
<1>2. m[e - 1] = NUL
    BY <1>1 DEF Block, Ends
<1>3. ASSUME NEW j \in Starts(m, e), i < j PROVE i + Long(v, x) <= j
    <2>1. j \in Nat /\ j # 0
        BY <1>1, <1>3, BlockFacts
    <2>2. m[j - 1] = NUL
        BY <2>1 DEF Starts
    <2>. QED
        BY <1>1, <1>3, <2>1, <2>2, EndsBefore
<1>. QED
    BY <1>1, <1>2, <1>3, EndsBefore

-----------------------------------------------------------------------------
(* Printing a block *)

\* The value of a variable, as the strings have it.
Assigned(m, e, v, x) == \E i \in Starts(m, e) : Holds(m, i, v, x)

\* envPrintVal prints it.
LEMMA PrintsValue ==
    ASSUME NEW m, NEW e, Block(m, e), NEW v \in Vars
    PROVE  /\ \A x \in Vals : Assigned(m, e, v, x) => envPrintVal(m, v) = x
           /\ (\A x \in Vals : ~Assigned(m, e, v, x)) => envPrintVal(m, v) = <<>>
<1>0. \A i \in Starts(m, e) : i \in Nat /\ i \in Cell /\ i < e
    BY BlockFacts, Sizes
<1>1. ASSUME NEW x \in Vals, NEW i \in Starts(m, e), Holds(m, i, v, x)
      PROVE  envPrintVal(m, v) = x
    <2>. DEFINE start == i + Len(v) + 1
    <2>1. Matches(m, i, v)
        BY <1>0, <1>1, OneName
    <2>2. envSearch(m, v) = i
        BY <2>1, SearchInBlock
    <2>4. /\ Len(v) \in Nat /\ Len(x) \in Nat /\ Long(v, x) = Len(v) + Len(x) + 2
          /\ x \in Seq(Text) /\ e \in Nat /\ e < LastCell /\ LastCell \in Nat
        BY Lengths, BlockFacts, Sizes DEF Long
    <2>5. i + Long(v, x) <= e
        BY <1>1, StringsApart
    <2>6. NullFrom(m, i) = i + Long(v, x) - 1
        <3>1. i \in Nat /\ Long(v, x) \in Nat
            BY <1>0, Lengths
        <3>2. i + Long(v, x) <= LastCell
            BY <2>4, <2>5, <3>1
        <3>3. i \in Cell
            BY <1>0
        <3>. QED
            BY <1>1, <3>2, <3>3, StringEnds
    <2>7. NullFrom(m, i) - start = Len(x) /\ NotFound # i
        BY <1>0, <2>4, <2>6 DEF NotFound
    <2>8. envPrintVal(m, v) = [j \in 1 .. Len(x) |-> m[start + j - 1]]
        BY <2>2, <2>7 DEF envPrintVal
    <2>9. ASSUME NEW j \in 1 .. Len(x) PROVE m[start + j - 1] = x[j]
        <3>1. start + j - 1 = i + Len(v) + j
            BY <1>0, <2>4
        <3>. QED
            BY <1>1, <3>1 DEF Holds
    <2>10. x = [j \in 1 .. Len(x) |-> x[j]]
        BY <2>4
    <2>. HIDE DEF start
    <2>. QED
        BY <2>8, <2>9, <2>10
<1>2. ASSUME \A x \in Vals : ~Assigned(m, e, v, x) PROVE envPrintVal(m, v) = <<>>
    <2>1. ASSUME NEW i \in Starts(m, e) PROVE ~Matches(m, i, v)
        <3>1. PICK w \in Vars, y \in Vals : Holds(m, i, w, y)
            BY DEF Block, Strings
        <3>2. w # v
            BY <1>2, <3>1 DEF Assigned
        <3>. QED
            BY <1>0, <3>1, <3>2, OneName
    <2>2. envSearch(m, v) = NotFound
        BY <2>1, SearchInBlock
    <2>. QED
        BY <2>2 DEF envPrintVal
<1>. QED
    BY <1>1, <1>2 DEF Assigned

\* Two blocks that assign the same values but for one variable: what they
\* print as maps.
LEMMA Printed ==
    ASSUME NEW m, NEW e, Block(m, e), NEW u, NEW d, Block(u, d), NEW v \in Vars,
           NEW y, y \in Vals \/ y = <<>>,
           \A w \in Vars \ {v}, x \in Vals : Assigned(u, d, w, x) <=> Assigned(m, e, w, x),
           \A x \in Vals : Assigned(u, d, v, x) <=> x = y
    PROVE  [w \in Vars |-> envPrintVal(u, w)]
               = [[w \in Vars |-> envPrintVal(m, w)] EXCEPT ![v] = y]
<1>1. envPrintVal(u, v) = y
    <2>1. CASE y \in Vals
        BY <2>1, PrintsValue
    <2>2. CASE y = <<>>
        <3>1. y \notin Vals
            BY <2>2, Sizes
        <3>. QED
            BY <2>2, <3>1, PrintsValue
    <2>. QED
        BY <2>1, <2>2
<1>2. ASSUME NEW w \in Vars \ {v} PROVE envPrintVal(u, w) = envPrintVal(m, w)
    <2>1. CASE \E x \in Vals : Assigned(m, e, w, x)
        <3>1. PICK x \in Vals : Assigned(m, e, w, x)
            BY <2>1
        <3>2. Assigned(u, d, w, x)
            BY <3>1
        <3>. QED
            BY <3>1, <3>2, PrintsValue
    <2>2. CASE \A x \in Vals : ~Assigned(m, e, w, x)
        <3>1. \A x \in Vals : ~Assigned(u, d, w, x)
            BY <2>2
        <3>. QED
            BY <2>2, <3>1, PrintsValue
    <2>. QED
        BY <2>1, <2>2
<1>. QED
    BY <1>1, <1>2

-----------------------------------------------------------------------------
(* envDelete *)

\* u is m with the L cells at o removed, up to the second null at e.
Shifted(u, m, o, L, e) ==
    /\ u \in Memory
    /\ \A k \in Cell : k < o => u[k] = m[k]
    /\ \A k \in Cell : o <= k /\ k < e - L => u[k] = m[k + L]
    /\ u[e - L] = NUL
    /\ \A k \in Cell : k >= Size - 2 => u[k] = m[k]

\* The string at o is v=x.
HoldsIn(m, e, o, v, x) ==
    /\ o \in Starts(m, e) /\ v \in Vars /\ x \in Vals
    /\ Holds(m, o, v, x)

LEMMA DeleteShifts ==
    ASSUME NEW m, NEW e, Block(m, e), NEW o, NEW v, NEW x, HoldsIn(m, e, o, v, x)
    PROVE  Shifted(envDelete(m, o), m, o, Long(v, x), e)
<1>. DEFINE L    == Long(v, x)
            from == NullFrom(m, o) + 1
            D    == DoubleNullFrom(m, from)
            last == o + D - from
            u    == envDelete(m, o)
<1>1. /\ L \in Nat /\ L > 2 /\ o \in Nat /\ o < e /\ o \in Cell /\ o + L <= e
      /\ e \in Nat /\ e <= Size - 2 /\ e < LastCell /\ Size \in Nat
      /\ LastCell \in Nat /\ LastCell > Size /\ Cell = 0 .. LastCell
      /\ Tailed(m) /\ m \in Memory
    <2>1. o + L <= e
        BY StringsApart DEF HoldsIn
    <2>. QED
        BY <2>1, Lengths, BlockFacts, Sizes DEF HoldsIn, Block
<1>2. from = o + L
    <2>1. o + L <= LastCell
        BY <1>1
    <2>2. NullFrom(m, o) = o + L - 1
        BY <1>1, <2>1, StringEnds DEF HoldsIn
    <2>. HIDE DEF L
    <2>. QED
        BY <1>1, <2>2
<1>. HIDE DEF L
<1>3. from \in Cell /\ from < LastCell
    BY <1>1, <1>2
<1>4. IsDoubleNull(m, from, D) /\ \A j \in from .. D - 1 : ~(m[j] = NUL /\ m[j + 1] = NUL)
    BY <1>1, <1>3, SomeDoubleNull
<1>5. /\ D \in Nat /\ from <= D /\ D <= LastCell
      /\ from = e => D <= Size - 2
      /\ from # e => D = e - 1
    <2>. HIDE DEF D
    <2>1. D \in Nat /\ from <= D /\ D + 1 \in Cell /\ D <= LastCell /\ m[D] = NUL /\ m[D + 1] = NUL
        BY <1>1, <1>4 DEF IsDoubleNull, IsNull
    <2>. HIDE DEF from
    <2>2. ASSUME from = e PROVE D <= Size - 2
        <3>1. m[Size - 2] = NUL /\ m[(Size - 2) + 1] = NUL
            BY <1>1 DEF Block, Ends
        <3>2. ~(Size - 2 \in from .. D - 1)
            BY <1>4, <3>1
        <3>. QED
            BY <1>1, <2>1, <2>2, <3>2
    <2>3. ASSUME from # e PROVE D = e - 1
        <3>1. from \in Nat /\ from < e
            BY <1>1, <1>2, <2>3
        <3>2. m[e - 1] = NUL /\ m[(e - 1) + 1] = NUL
            BY <1>1 DEF Block, Ends
        <3>3. ~(e - 1 \in from .. D - 1)
            BY <1>4, <3>2
        <3>4. D <= e - 1
            BY <1>1, <2>1, <3>1, <3>3
        <3>5. ~(D \in 0 .. e - 1 /\ D + 1 < e)
            BY <2>1, BlockFacts
        <3>. QED
            BY <1>1, <2>1, <3>4, <3>5
    <2>. QED
        BY <2>1, <2>2, <2>3
<1>. HIDE DEF D
<1>6. last = D - L /\ last \in Nat /\ o <= last
    BY <1>1, <1>2, <1>5
<1>7. u = [k \in Cell |-> IF k \in o .. last THEN m[k - o + from]
                          ELSE IF k = last + 1 THEN NUL ELSE m[k]]
    BY DEF envDelete, D
<1>8. \A k \in o .. last : k - o + from = k + L /\ k + L \in Cell
    BY <1>1, <1>2, <1>5, <1>6
<1>. HIDE DEF u, last, from
<1>9. \A k \in Cell : u[k] = IF k \in o .. last THEN m[k + L]
                             ELSE IF k = last + 1 THEN NUL ELSE m[k]
    BY <1>7, <1>8
<1>10. u \in Memory
    <2>1. \A k \in Cell : m[k] \in Byte
        BY <1>1 DEF Memory
    <2>2. NUL \in Byte
        BY DEF Byte
    <2>3. \A k \in Cell : u[k] \in Byte
        BY <1>8, <1>9, <2>1, <2>2
    <2>4. u = [k \in Cell |-> u[k]]
        BY <1>7
    <2>. QED
        BY <2>3, <2>4, Zenon DEF Memory
<1>11. ASSUME NEW k \in Cell, k < o PROVE u[k] = m[k]
    <2>1. k \notin o .. last /\ k # last + 1
        BY <1>1, <1>6, <1>11
    <2>. QED
        BY <1>9, <2>1
<1>12. ASSUME NEW k \in Cell, o <= k, k < e - L PROVE u[k] = m[k + L]
    <2>1. from # e
        BY <1>1, <1>2, <1>12
    <2>2. k \in o .. last
        BY <1>1, <1>5, <1>6, <1>12, <2>1
    <2>. QED
        BY <1>9, <2>2
<1>13. u[e - L] = NUL
    <2>1. e - L \in Cell
        BY <1>1
    <2>2. CASE from = e
        <3>1. e - L \in o .. last /\ (e - L) + L = e
            BY <1>1, <1>2, <1>6, <2>2
        <3>2. m[e] = NUL
            BY DEF Block, Ends
        <3>. QED
            BY <1>9, <2>1, <3>1, <3>2
    <2>3. CASE from # e
        <3>1. e - L = last + 1 /\ e - L \notin o .. last
            BY <1>1, <1>5, <1>6, <2>3
        <3>. QED
            BY <1>9, <2>1, <3>1
    <2>. QED
        BY <2>2, <2>3
<1>14. ASSUME NEW k \in Cell, k >= Size - 2 PROVE u[k] = m[k]
    <2>1. D <= Size - 2
        BY <1>1, <1>5
    <2>2. k \notin o .. last /\ k # last + 1
        BY <1>1, <1>5, <1>6, <1>14, <2>1
    <2>. QED
        BY <1>9, <2>2
<1>. QED
    BY <1>10, <1>11, <1>12, <1>13, <1>14 DEF Shifted, u, L

\* Where the string comes from that a removal at o leaves at k.
Origin(o, L, k) == IF k < o THEN k ELSE k + L

\* The strings that are left: those of m but the one at o.
LEMMA ShiftedStarts ==
    ASSUME NEW m, NEW e, Block(m, e), NEW o, NEW v, NEW x, HoldsIn(m, e, o, v, x),
           NEW u, Shifted(u, m, o, Long(v, x), e)
    PROVE  /\ \A k \in Starts(u, e - Long(v, x)) :
                  Origin(o, Long(v, x), k) \in Starts(m, e) \ {o}
           /\ \A i \in Starts(m, e) \ {o} : \E k \in Starts(u, e - Long(v, x)) :
                  i = Origin(o, Long(v, x), k)
<1>. DEFINE L == Long(v, x)
<1>1. /\ L \in Nat /\ L > 2 /\ o \in Nat /\ o \in Starts(m, e) /\ o < e /\ o + L <= e
      /\ e \in Nat /\ e <= LastCell /\ LastCell \in Nat /\ Cell = 0 .. LastCell
      /\ v \in Vars /\ x \in Vals /\ Holds(m, o, v, x)
    <2>1. o + L <= e
        BY StringsApart DEF HoldsIn
    <2>. QED
        BY <2>1, Lengths, BlockFacts, Sizes DEF HoldsIn
<1>2. m[o + L - 1] = NUL
    <2>1. o + L - 1 = o + Len(v) + Len(x) + 1
        BY <1>1, Lengths DEF Long
    <2>. QED
        BY <1>1, <2>1 DEF Holds
<1>. HIDE DEF L
<1>3. /\ \A k \in Cell : k < o => u[k] = m[k]
      /\ \A k \in Cell : o <= k /\ k < e - L => u[k] = m[k + L]
    BY DEF Shifted, L
<1>4. ASSUME NEW k \in Starts(u, e - L) PROVE Origin(o, L, k) \in Starts(m, e) \ {o}
    <2>1. k \in Nat /\ k < e - L /\ (k = 0 \/ u[k - 1] = NUL)
        BY <1>1, <1>4 DEF Starts
    <2>2. CASE k < o
        <3>1. k # 0 => u[k - 1] = m[k - 1]
            BY <1>1, <1>3, <2>1, <2>2
        <3>2. k \in 0 .. e - 1
            BY <1>1, <2>1
        <3>3. k \in Starts(m, e)
            BY <2>1, <3>1, <3>2 DEF Starts
        <3>. QED
            BY <1>1, <2>1, <2>2, <3>3 DEF Origin
    <2>3. CASE k >= o
        <3>1. k + L \in 0 .. e - 1 /\ k + L # o
            BY <1>1, <2>1, <2>3
        <3>2. m[(k + L) - 1] = NUL
            <4>1. CASE k = o
                <5>1. (k + L) - 1 = o + L - 1
                    BY <1>1, <4>1
                <5>. QED
                    BY <1>2, <5>1
            <4>2. CASE k # o
                <5>1. k - 1 \in Cell /\ o <= k - 1 /\ k - 1 < e - L /\ (k - 1) + L = (k + L) - 1
                    BY <1>1, <2>1, <2>3, <4>2
                <5>2. k # 0
                    BY <1>1, <2>3, <4>2
                <5>. QED
                    BY <1>3, <2>1, <5>1, <5>2
            <4>. QED
                BY <4>1, <4>2
        <3>3. k + L \in Starts(m, e)
            BY <3>1, <3>2 DEF Starts
        <3>4. ~(k < o)
            BY <1>1, <2>1, <2>3
        <3>. QED
            BY <3>1, <3>3, <3>4 DEF Origin
    <2>. QED
        BY <1>1, <2>1, <2>2, <2>3
<1>5. ASSUME NEW i \in Starts(m, e) \ {o}
      PROVE  \E k \in Starts(u, e - L) : i = Origin(o, L, k)
    <2>1. i \in Nat /\ i <= e - 1 /\ (i = 0 \/ m[i - 1] = NUL)
        BY <1>1 DEF Starts
    <2>2. CASE i < o
        <3>1. i # 0 => u[i - 1] = m[i - 1]
            BY <1>1, <1>3, <2>1, <2>2
        <3>2. i \in 0 .. (e - L) - 1
            BY <1>1, <2>1, <2>2
        <3>3. i \in Starts(u, e - L)
            BY <2>1, <3>1, <3>2 DEF Starts
        <3>. QED
            BY <2>2, <3>3 DEF Origin
    <2>3. CASE i > o
        <3>1. o + L <= i
            BY <1>1, <2>3, StringsApart DEF L
        <3>. DEFINE k == i - L
        <3>2. k \in 0 .. (e - L) - 1 /\ k >= o /\ ~(k < o) /\ k + L = i
            BY <1>1, <2>1, <3>1
        <3>3. k = 0 \/ u[k - 1] = NUL
            <4>1. CASE k = o
                <5>1. o = 0 \/ m[o - 1] = NUL
                    BY <1>1 DEF Starts
                <5>2. o # 0 => u[o - 1] = m[o - 1]
                    BY <1>1, <1>3
                <5>. QED
                    BY <4>1, <5>1, <5>2
            <4>2. CASE k # o
                <5>1. k - 1 \in Cell /\ o <= k - 1 /\ k - 1 < e - L /\ (k - 1) + L = i - 1
                    BY <1>1, <2>1, <3>2, <4>2
                <5>2. i # 0
                    BY <1>1, <2>1, <2>3
                <5>. QED
                    BY <1>3, <2>1, <5>1, <5>2
            <4>. QED
                BY <4>1, <4>2
        <3>. HIDE DEF k
        <3>4. k \in Starts(u, e - L)
            BY <3>2, <3>3 DEF Starts
        <3>. QED
            BY <3>2, <3>4 DEF Origin
    <2>. QED
        BY <1>1, <2>1, <2>2, <2>3
<1>. QED
    BY <1>4, <1>5 DEF L

LEMMA ShiftedHolds ==
    ASSUME NEW m, NEW e, Block(m, e), NEW o, NEW v, NEW x, HoldsIn(m, e, o, v, x),
           NEW u, Shifted(u, m, o, Long(v, x), e),
           NEW k \in Starts(u, e - Long(v, x)), NEW w \in Vars, NEW y \in Vals
    PROVE  /\ Holds(u, k, w, y) <=> Holds(m, Origin(o, Long(v, x), k), w, y)
           /\ Holds(u, k, w, y) => k + Long(w, y) <= e - Long(v, x)
<1>. DEFINE L == Long(v, x)
            i == Origin(o, L, k)
<1>1. /\ L \in Nat /\ L > 2 /\ o \in Nat /\ o \in Starts(m, e) /\ o < e /\ o + L <= e
      /\ e \in Nat /\ e <= LastCell /\ LastCell \in Nat /\ Cell = 0 .. LastCell
    <2>1. o + L <= e
        BY StringsApart DEF HoldsIn
    <2>. QED
        BY <2>1, Lengths, BlockFacts, Sizes DEF HoldsIn
<1>2. i \in Starts(m, e) \ {o} /\ i \in Nat
    BY ShiftedStarts, BlockFacts
<1>. HIDE DEF L
<1>3. /\ \A j \in Cell : j < o => u[j] = m[j]
      /\ \A j \in Cell : o <= j /\ j < e - L => u[j] = m[j + L]
    BY DEF Shifted, L
<1>4. k \in Nat /\ k < e - L /\ i = IF k < o THEN k ELSE k + L
    BY <1>1 DEF Starts, Origin, L
<1>. HIDE DEF i
<1>5. ASSUME NEW a \in Vars, NEW b \in Vals, Holds(m, i, a, b)
      PROVE  Holds(u, k, a, b) /\ k + Long(a, b) <= e - L
    <2>1. /\ i + Long(a, b) <= e
          /\ i < o => i + Long(a, b) <= o
          /\ Long(a, b) \in Nat
        BY <1>1, <1>2, <1>5, StringsApart, Lengths
    <2>. DEFINE S == Long(a, b)
    <2>. HIDE DEF S
    <2>2. i + S <= e /\ S \in Nat /\ (i < o => i + S <= o)
        BY <2>1 DEF S
    <2>3. k + S <= e - L
        BY <1>1, <1>4, <2>2
    <2>4. ASSUME NEW j \in 0 .. S - 1 PROVE u[k + j] = m[i + j]
        <3>1. CASE k < o
            <4>1. k + j \in Cell /\ k + j < o /\ i + j = k + j
                BY <1>1, <1>4, <2>2, <3>1
            <4>. QED
                BY <1>3, <4>1
        <3>2. CASE ~(k < o)
            <4>1. k + j \in Cell /\ o <= k + j /\ k + j < e - L /\ i + j = (k + j) + L
                BY <1>1, <1>4, <2>2, <2>3, <3>2
            <4>. QED
                BY <1>3, <4>1
        <3>. QED
            BY <3>1, <3>2
    <2>5. Holds(u, k, a, b)
        BY <1>2, <1>4, <1>5, <2>4, Moved DEF S
    <2>. QED
        BY <2>3, <2>5 DEF S
<1>6. PICK a \in Vars, b \in Vals : Holds(m, i, a, b)
    BY <1>2 DEF Block, Strings
<1>7. ASSUME Holds(u, k, w, y) PROVE Holds(m, i, w, y)
    <2>1. Holds(u, k, a, b)
        BY <1>5, <1>6
    <2>2. a = w /\ b = y
        BY <1>4, <1>7, <2>1, OneString
    <2>. QED
        BY <1>6, <2>2
<1>. QED
    BY <1>5, <1>7 DEF i, L

\* What is left is a block, and only v has lost its value.
LEMMA ShiftedBlock ==
    ASSUME NEW m, NEW e, Block(m, e), NEW o, NEW v, NEW x, HoldsIn(m, e, o, v, x),
           NEW u, Shifted(u, m, o, Long(v, x), e)
    PROVE  /\ Block(u, e - Long(v, x))
           /\ \A w \in Vars \ {v}, y \in Vals :
                  Assigned(u, e - Long(v, x), w, y) <=> Assigned(m, e, w, y)
           /\ \A y \in Vals : ~Assigned(u, e - Long(v, x), v, y)
<1>. DEFINE L == Long(v, x)
            d == e - L
            At(k) == Origin(o, L, k)
<1>1. /\ L \in Nat /\ L > 2 /\ o \in Nat /\ o \in Starts(m, e) /\ o < e /\ o + L <= e
      /\ e \in Nat /\ e <= LastCell /\ LastCell \in Nat /\ Cell = 0 .. LastCell
      /\ e <= Size - 2 /\ Size \in Nat /\ Size > 1 /\ LastCell > Size
      /\ v \in Vars /\ x \in Vals /\ Holds(m, o, v, x)
    <2>1. o + L <= e
        BY StringsApart DEF HoldsIn
    <2>. QED
        BY <2>1, Lengths, BlockFacts, Sizes DEF HoldsIn
<1>2. /\ \A k \in Starts(u, d) : At(k) \in Starts(m, e) \ {o}
      /\ \A i \in Starts(m, e) \ {o} : \E k \in Starts(u, d) : i = At(k)
    BY ShiftedStarts
<1>3. \A k \in Starts(u, d), w \in Vars, y \in Vals :
          /\ Holds(u, k, w, y) <=> Holds(m, At(k), w, y)
          /\ Holds(u, k, w, y) => k + Long(w, y) <= d
    BY ShiftedHolds
<1>. HIDE DEF L
<1>4. /\ u \in Memory
      /\ \A k \in Cell : k < o => u[k] = m[k]
      /\ \A k \in Cell : o <= k /\ k < d => u[k] = m[k + L]
      /\ u[d] = NUL
      /\ \A k \in Cell : k >= Size - 2 => u[k] = m[k]
    BY DEF Shifted, L
<1>5. \A k \in Starts(u, d) : k \in Nat
    BY <1>1 DEF Starts
<1>6. Ends(u, d)
    <2>1. d \in 0 .. Size - 2
        BY <1>1
    <2>2. ASSUME d > 0 PROVE u[d - 1] = NUL
        <3>1. CASE d = o
            <4>1. m[o - 1] = NUL
                BY <1>1, <2>2, <3>1 DEF Starts
            <4>2. o - 1 \in Cell /\ o - 1 < o
                BY <1>1, <2>2, <3>1
            <4>. QED
                BY <1>4, <3>1, <4>1, <4>2
        <3>2. CASE d # o
            <4>1. d - 1 \in Cell /\ o <= d - 1 /\ d - 1 < d /\ (d - 1) + L = e - 1
                BY <1>1, <2>2, <3>2
            <4>2. m[e - 1] = NUL
                BY <1>1 DEF Block, Ends
            <4>. QED
                BY <1>4, <4>1, <4>2
        <3>. QED
            BY <3>1, <3>2
    <2>3. Size - 2 \in Cell /\ Size - 1 \in Cell /\ Size - 1 >= Size - 2
        BY <1>1
    <2>4. m[Size - 2] = NUL /\ m[Size - 1] = NUL
        BY DEF Block, Ends
    <2>5. u[Size - 2] = NUL /\ u[Size - 1] = NUL
        BY <1>1, <1>4, <2>3, <2>4
    <2>. QED
        BY <1>4, <2>1, <2>2, <2>5 DEF Ends
<1>7. Kept(u)
    <2>1. \A k \in Cell : k >= Size => k >= Size - 2
        BY <1>1
    <2>. QED
        BY <1>4, <2>1 DEF Block, Kept
<1>. HIDE DEF d, At
<1>8. Strings(u, d)
    <2>. SUFFICES ASSUME NEW k \in Starts(u, d)
                  PROVE  \E w \in Vars, y \in Vals : Holds(u, k, w, y) /\ k + Long(w, y) <= d
        BY DEF Strings
    <2>1. PICK w \in Vars, y \in Vals : Holds(m, At(k), w, y)
        BY <1>2 DEF Block, Strings
    <2>. QED
        BY <1>3, <2>1
<1>9. \A k \in Starts(u, d), w \in Vars : Matches(u, k, w) => Matches(m, At(k), w)
    <2>. SUFFICES ASSUME NEW k \in Starts(u, d), NEW w \in Vars, Matches(u, k, w)
                  PROVE  Matches(m, At(k), w)
        OBVIOUS
    <2>1. PICK a \in Vars, b \in Vals : Holds(u, k, a, b)
        BY <1>8 DEF Strings
    <2>2. w = a
        BY <1>5, <2>1, OneName
    <2>3. Holds(m, At(k), a, b) /\ At(k) \in Nat
        BY <1>2, <1>3, <2>1, BlockFacts
    <2>. QED
        BY <2>2, <2>3, OneName
<1>10. \A k, l \in Starts(u, d) : At(k) = At(l) => k = l
    <2>. SUFFICES ASSUME NEW k \in Starts(u, d), NEW l \in Starts(u, d), At(k) = At(l)
                  PROVE  k = l
        OBVIOUS
    <2>. QED
        BY <1>1, <1>5 DEF At, Origin
<1>11. Distinct(u, d)
    <2>. SUFFICES ASSUME NEW k \in Starts(u, d), NEW l \in Starts(u, d), NEW w \in Vars,
                         Matches(u, k, w), Matches(u, l, w)
                  PROVE  k = l
        BY DEF Distinct
    <2>1. Matches(m, At(k), w) /\ Matches(m, At(l), w)
        BY <1>9
    <2>2. At(k) = At(l)
        BY <1>2, <2>1 DEF Block, Distinct
    <2>. QED
        BY <1>10, <2>2
<1>12. ASSUME NEW y \in Vals PROVE ~Assigned(u, d, v, y)
    <2>. SUFFICES ASSUME NEW k \in Starts(u, d), Holds(u, k, v, y) PROVE FALSE
        BY DEF Assigned
    <2>1. Holds(m, At(k), v, y) /\ At(k) \in Starts(m, e) /\ At(k) # o /\ At(k) \in Nat
        BY <1>1, <1>2, <1>3, BlockFacts
    <2>2. Matches(m, At(k), v) /\ Matches(m, o, v)
        BY <1>1, <2>1, OneName
    <2>. QED
        BY <1>1, <2>1, <2>2 DEF Block, Distinct
<1>13. ASSUME NEW w \in Vars \ {v}, NEW y \in Vals
       PROVE  Assigned(u, d, w, y) <=> Assigned(m, e, w, y)
    <2>1. ASSUME NEW k \in Starts(u, d), Holds(u, k, w, y) PROVE Assigned(m, e, w, y)
        BY <1>2, <1>3, <2>1 DEF Assigned
    <2>2. ASSUME NEW i \in Starts(m, e), Holds(m, i, w, y) PROVE Assigned(u, d, w, y)
        <3>1. i # o
            BY <1>1, <2>2, OneString
        <3>2. PICK k \in Starts(u, d) : i = At(k)
            BY <1>2, <3>1
        <3>. QED
            BY <1>3, <2>2, <3>2 DEF Assigned
    <2>. QED
        BY <2>1, <2>2 DEF Assigned
<1>. QED
    BY <1>4, <1>6, <1>7, <1>8, <1>11, <1>12, <1>13 DEF Block, d, L

-----------------------------------------------------------------------------
(* envAppend *)

\* The bytes that envAppend writes.
String(v, x) == v \o <<EQ>> \o x \o <<NUL, NUL>>

LEMMA StringBytes ==
    ASSUME NEW v \in Vars, NEW x \in Vals
    PROVE  /\ String(v, x) \in Seq(Byte) /\ Len(String(v, x)) = Long(v, x) + 1
           /\ \A j \in 1 .. Len(v) : String(v, x)[j] = v[j]
           /\ String(v, x)[Len(v) + 1] = EQ
           /\ \A j \in 1 .. Len(x) : String(v, x)[Len(v) + 1 + j] = x[j]
           /\ String(v, x)[Len(v) + Len(x) + 2] = NUL
           /\ String(v, x)[Len(v) + Len(x) + 3] = NUL
<1>. DEFINE one  == <<EQ>>
            two  == <<NUL, NUL>>
            name == v \o one
            both == name \o x
            all  == both \o two
<1>1. /\ one \in Seq(Byte) /\ Len(one) = 1 /\ one[1] = EQ
      /\ two \in Seq(Byte) /\ Len(two) = 2 /\ two[1] = NUL /\ two[2] = NUL
    <2>1. EQ \in Byte /\ NUL \in Byte
        BY DEF Byte
    <2>. QED
        BY <2>1
<1>2. /\ v \in Seq(Byte) /\ x \in Seq(Byte) /\ Len(v) \in Nat /\ Len(x) \in Nat
      /\ Long(v, x) = Len(v) + Len(x) + 2
    <2>1. v \in Seq(Text) /\ x \in Seq(Text) /\ Text \subseteq Byte
        BY Lengths DEF Byte
    <2>. QED
        BY <2>1, Lengths DEF Long
<1>. HIDE DEF one, two
<1>3. /\ name \in Seq(Byte) /\ Len(name) = Len(v) + 1
      /\ \A k \in 1 .. Len(v) + 1 : name[k] = IF k <= Len(v) THEN v[k] ELSE one[k - Len(v)]
    <2>1. /\ name \in Seq(Byte) /\ Len(name) = Len(v) + Len(one)
          /\ \A k \in 1 .. Len(v) + Len(one) :
                name[k] = IF k <= Len(v) THEN v[k] ELSE one[k - Len(v)]
        BY <1>1, <1>2, ConcatProperties, Zenon
    <2>. HIDE DEF name
    <2>. QED
        BY <1>1, <2>1
<1>. HIDE DEF name
<1>4. /\ both \in Seq(Byte) /\ Len(both) = Len(v) + 1 + Len(x)
      /\ \A k \in 1 .. Len(v) + 1 + Len(x) :
            both[k] = IF k <= Len(v) + 1 THEN name[k] ELSE x[k - (Len(v) + 1)]
    <2>1. /\ both \in Seq(Byte) /\ Len(both) = Len(name) + Len(x)
          /\ \A k \in 1 .. Len(name) + Len(x) :
                both[k] = IF k <= Len(name) THEN name[k] ELSE x[k - Len(name)]
        BY <1>2, <1>3, ConcatProperties, Zenon
    <2>. HIDE DEF both
    <2>. QED
        BY <1>3, <2>1
<1>. HIDE DEF both
<1>5. /\ all \in Seq(Byte) /\ Len(all) = Len(both) + 2
      /\ \A k \in 1 .. Len(both) + 2 :
            all[k] = IF k <= Len(both) THEN both[k] ELSE two[k - Len(both)]
    <2>0. both \in Seq(Byte) /\ two \in Seq(Byte)
        BY <1>1, <1>4
    <2>1. /\ all \in Seq(Byte) /\ Len(all) = Len(both) + Len(two)
          /\ \A k \in 1 .. Len(both) + Len(two) :
                all[k] = IF k <= Len(both) THEN both[k] ELSE two[k - Len(both)]
        BY <2>0, ConcatProperties, Zenon
    <2>. HIDE DEF all
    <2>. QED
        BY <1>1, <2>1
<1>6. String(v, x) = all
    BY DEF String, all, both, name, one, two
<1>. HIDE DEF all
<1>7. Len(both) \in Nat /\ Len(both) = Len(v) + Len(x) + 1
    BY <1>2, <1>4
<1>8. Len(all) = Long(v, x) + 1
    BY <1>2, <1>5, <1>7
<1>9. ASSUME NEW j \in 1 .. Len(v) PROVE all[j] = v[j]
    <2>1. /\ j \in 1 .. Len(both) + 2 /\ j <= Len(both)
          /\ j \in 1 .. Len(v) + 1 + Len(x) /\ j <= Len(v) + 1
          /\ j \in 1 .. Len(v) + 1 /\ j <= Len(v)
        BY <1>2, <1>7
    <2>. QED
        BY <1>3, <1>4, <1>5, <2>1
<1>10. all[Len(v) + 1] = EQ
    <2>. DEFINE j == Len(v) + 1
    <2>1. /\ j \in 1 .. Len(both) + 2 /\ j <= Len(both)
          /\ j \in 1 .. Len(v) + 1 + Len(x) /\ j <= Len(v) + 1
          /\ j \in 1 .. Len(v) + 1 /\ ~(j <= Len(v)) /\ j - Len(v) = 1
        BY <1>2, <1>7
    <2>. HIDE DEF j
    <2>2. all[j] = EQ
        BY <1>1, <1>3, <1>4, <1>5, <2>1
    <2>. QED
        BY <2>2 DEF j
<1>11. ASSUME NEW j \in 1 .. Len(x) PROVE all[Len(v) + 1 + j] = x[j]
    <2>. DEFINE k == Len(v) + 1 + j
    <2>1. /\ k \in 1 .. Len(both) + 2 /\ k <= Len(both)
          /\ k \in 1 .. Len(v) + 1 + Len(x) /\ ~(k <= Len(v) + 1) /\ k - (Len(v) + 1) = j
        BY <1>2, <1>7
    <2>. HIDE DEF k
    <2>2. all[k] = x[j]
        BY <1>4, <1>5, <2>1
    <2>. QED
        BY <2>2 DEF k
<1>12. all[Len(v) + Len(x) + 2] = NUL /\ all[Len(v) + Len(x) + 3] = NUL
    <2>1. /\ Len(both) + 1 = Len(v) + Len(x) + 2 /\ Len(both) + 2 = Len(v) + Len(x) + 3
          /\ Len(both) + 1 \in 1 .. Len(both) + 2 /\ Len(both) + 2 \in 1 .. Len(both) + 2
          /\ ~(Len(both) + 1 <= Len(both)) /\ ~(Len(both) + 2 <= Len(both))
          /\ (Len(both) + 1) - Len(both) = 1 /\ (Len(both) + 2) - Len(both) = 2
        BY <1>2, <1>7
    <2>2. all[Len(both) + 1] = NUL /\ all[Len(both) + 2] = NUL
        BY <1>1, <1>5, <2>1
    <2>. QED
        BY <2>1, <2>2
<1>. QED
    BY <1>5, <1>6, <1>8, <1>9, <1>10, <1>11, <1>12

\* u is m with v=x written at e, and a second null.
Written(u, m, e, v, x) ==
    /\ u \in Memory
    /\ Holds(u, e, v, x) /\ u[e + Long(v, x)] = NUL
    /\ \A k \in Cell : k < e \/ k > e + Long(v, x) => u[k] = m[k]

LEMMA AppendWrites ==
    ASSUME NEW m \in Memory, NEW e \in Nat, NEW v \in Vars, NEW x \in Vals,
           e + Long(v, x) + 1 < Size
    PROVE  Written(envAppend(m, e, v, x), m, e, v, x)
<1>. DEFINE L    == Long(v, x)
            text == String(v, x)
            u    == envAppend(m, e, v, x)
<1>1. /\ Size \in Nat /\ LastCell \in Nat /\ LastCell > Size /\ Cell = 0 .. LastCell
      /\ Len(v) \in Nat /\ Len(x) \in Nat /\ L = Len(v) + Len(x) + 2
    BY Sizes, Lengths DEF Long
<1>2. text \in Seq(Byte) /\ Len(text) = L + 1
    BY StringBytes
<1>3. u = [k \in Cell |-> IF k \in e .. e + Len(text) - 1 /\ k < Size
                          THEN text[k - e + 1] ELSE m[k]]
    BY DEF envAppend, String
<1>4. /\ \A j \in 1 .. Len(v) : text[j] = v[j]
      /\ text[Len(v) + 1] = EQ
      /\ \A j \in 1 .. Len(x) : text[Len(v) + 1 + j] = x[j]
      /\ text[Len(v) + Len(x) + 2] = NUL
      /\ text[Len(v) + Len(x) + 3] = NUL
    BY StringBytes
<1>. HIDE DEF L, text, u
<1>5. \A k \in Cell : (k \in e .. e + Len(text) - 1 /\ k < Size) <=> (e <= k /\ k <= e + L)
    BY <1>1, <1>2 DEF L
<1>6. \A k \in Cell : u[k] = IF e <= k /\ k <= e + L THEN text[k - e + 1] ELSE m[k]
    BY <1>3, <1>5
<1>7. \A j \in 1 .. L + 1 : u[e + j - 1] = text[j]
    <2>. SUFFICES ASSUME NEW j \in 1 .. L + 1 PROVE u[e + j - 1] = text[j]
        OBVIOUS
    <2>. DEFINE k == e + j - 1
    <2>1. k \in Cell /\ e <= k /\ k <= e + L /\ k - e + 1 = j
        BY <1>1 DEF L
    <2>. HIDE DEF k
    <2>2. u[k] = text[j]
        BY <1>6, <2>1
    <2>. QED
        BY <2>2 DEF k
<1>8. u \in Memory
    <2>1. \A k \in Cell : m[k] \in Byte
        BY DEF Memory
    <2>2. \A k \in Cell : e <= k /\ k <= e + L => text[k - e + 1] \in Byte
        <3>1. \A k \in Cell : e <= k /\ k <= e + L => k - e + 1 \in 1 .. Len(text)
            BY <1>1, <1>2
        <3>2. \A j \in 1 .. Len(text) : text[j] \in Byte
            BY <1>2
        <3>. QED
            BY <3>1, <3>2
    <2>3. \A k \in Cell : u[k] \in Byte
        BY <1>6, <2>1, <2>2
    <2>4. u = [k \in Cell |-> u[k]]
        BY <1>3
    <2>. QED
        BY <2>3, <2>4, Zenon DEF Memory
<1>9. Holds(u, e, v, x)
    <2>1. ASSUME NEW j \in 1 .. Len(v) PROVE u[e + j - 1] = v[j]
        <3>1. j \in 1 .. L + 1
            BY <1>1
        <3>. QED
            BY <1>4, <1>7, <3>1
    <2>2. u[e + Len(v)] = EQ
        <3>1. Len(v) + 1 \in 1 .. L + 1 /\ e + (Len(v) + 1) - 1 = e + Len(v)
            BY <1>1
        <3>. QED
            BY <1>4, <1>7, <3>1
    <2>3. ASSUME NEW j \in 1 .. Len(x) PROVE u[e + Len(v) + j] = x[j]
        <3>1. Len(v) + 1 + j \in 1 .. L + 1 /\ e + (Len(v) + 1 + j) - 1 = e + Len(v) + j
            BY <1>1
        <3>. QED
            BY <1>4, <1>7, <3>1
    <2>4. u[e + Len(v) + Len(x) + 1] = NUL
        <3>1. /\ Len(v) + Len(x) + 2 \in 1 .. L + 1
              /\ e + (Len(v) + Len(x) + 2) - 1 = e + Len(v) + Len(x) + 1
            BY <1>1
        <3>. QED
            BY <1>4, <1>7, <3>1
    <2>. QED
        BY <2>1, <2>2, <2>3, <2>4 DEF Holds
<1>10. u[e + L] = NUL
    <2>1. Len(v) + Len(x) + 3 \in 1 .. L + 1 /\ e + (Len(v) + Len(x) + 3) - 1 = e + L
        BY <1>1
    <2>. QED
        BY <1>4, <1>7, <2>1
<1>11. ASSUME NEW k \in Cell, k < e \/ k > e + L PROVE u[k] = m[k]
    <2>1. ~(e <= k /\ k <= e + L)
        BY <1>1, <1>11
    <2>. QED
        BY <1>6, <2>1
<1>. QED
    BY <1>8, <1>9, <1>10, <1>11 DEF Written, L, u

\* The strings of m, and the new one at its end.
LEMMA WrittenStarts ==
    ASSUME NEW m, NEW e, Block(m, e), NEW v \in Vars, NEW x \in Vals,
           e + Long(v, x) + 1 < Size, NEW u, Written(u, m, e, v, x)
    PROVE  Starts(u, e + Long(v, x)) = Starts(m, e) \cup {e}
<1>. DEFINE L == Long(v, x)
<1>1. /\ L \in Nat /\ L > 2 /\ e \in Nat /\ Size \in Nat
      /\ LastCell \in Nat /\ LastCell > Size /\ Cell = 0 .. LastCell
    BY Lengths, BlockFacts, Sizes
<1>2. /\ \A k \in Cell : k < e => u[k] = m[k]
      /\ Holds(u, e, v, x)
    BY DEF Written
<1>3. \A k \in Nat : e <= k /\ k < e + L - 1 => u[k] # NUL
    BY <1>1, <1>2, NoNullInside
<1>4. e + L < Size
    BY <1>1
<1>. HIDE DEF L
<1>5. ASSUME NEW k \in Starts(u, e + L) PROVE k \in Starts(m, e) \cup {e}
    <2>1. k \in Nat /\ k < e + L /\ (k = 0 \/ u[k - 1] = NUL)
        BY <1>1, <1>5 DEF Starts
    <2>2. CASE k < e
        <3>1. k # 0 => u[k - 1] = m[k - 1]
            BY <1>1, <1>2, <1>4, <2>1, <2>2
        <3>2. k \in 0 .. e - 1
            BY <1>1, <2>1, <2>2
        <3>. QED
            BY <2>1, <3>1, <3>2 DEF Starts
    <2>3. CASE k > e
        <3>1. k - 1 \in Nat /\ e <= k - 1 /\ k - 1 < e + L - 1
            BY <1>1, <2>1, <2>3
        <3>2. k # 0
            BY <1>1, <2>3
        <3>. QED
            BY <1>3, <2>1, <3>1, <3>2
    <2>. QED
        BY <1>1, <2>1, <2>2, <2>3
<1>6. ASSUME NEW k \in Starts(m, e) PROVE k \in Starts(u, e + L)
    <2>1. k \in Nat /\ k < e /\ (k = 0 \/ m[k - 1] = NUL)
        BY <1>1, <1>6 DEF Starts
    <2>2. k # 0 => u[k - 1] = m[k - 1]
        BY <1>1, <1>2, <1>4, <2>1
    <2>3. k \in 0 .. (e + L) - 1
        BY <1>1, <2>1
    <2>. QED
        BY <2>1, <2>2, <2>3 DEF Starts
<1>7. e \in Starts(u, e + L)
    <2>1. e # 0 => m[e - 1] = NUL
        BY <1>1 DEF Block, Ends
    <2>2. e # 0 => u[e - 1] = m[e - 1]
        BY <1>1, <1>2, <1>4
    <2>3. e \in 0 .. (e + L) - 1
        BY <1>1 DEF L
    <2>. QED
        BY <2>1, <2>2, <2>3 DEF Starts
<1>. QED
    BY <1>5, <1>6, <1>7 DEF L

LEMMA WrittenBlock ==
    ASSUME NEW m, NEW e, Block(m, e), NEW v \in Vars, NEW x \in Vals,
           e + Long(v, x) + 1 < Size, NEW u, Written(u, m, e, v, x),
           \A y \in Vals : ~Assigned(m, e, v, y)
    PROVE  /\ Block(u, e + Long(v, x))
           /\ \A w \in Vars \ {v}, y \in Vals :
                  Assigned(u, e + Long(v, x), w, y) <=> Assigned(m, e, w, y)
           /\ \A y \in Vals : Assigned(u, e + Long(v, x), v, y) <=> y = x
<1>. DEFINE L == Long(v, x)
            d == e + L
<1>1. /\ L \in Nat /\ L > 2 /\ e \in Nat /\ e <= Size - 2 /\ Size \in Nat /\ Size > 1
      /\ LastCell \in Nat /\ LastCell > Size /\ Cell = 0 .. LastCell
      /\ e + L + 1 < Size
    BY Lengths, BlockFacts, Sizes
<1>2. /\ u \in Memory /\ Holds(u, e, v, x) /\ u[d] = NUL
      /\ \A k \in Cell : k < e \/ k > d => u[k] = m[k]
    BY DEF Written
<1>3. Starts(u, d) = Starts(m, e) \cup {e}
    BY WrittenStarts
<1>4. L = Len(v) + Len(x) + 2 /\ Len(v) \in Nat /\ Len(x) \in Nat
    BY Lengths DEF Long
<1>. HIDE DEF L
<1>5. \A i \in Starts(m, e) : i \in Nat /\ i < e
    BY BlockFacts
<1>6. Ends(u, d)
    <2>1. d \in 0 .. Size - 2 /\ d \in Nat
        BY <1>1
    <2>2. u[d - 1] = NUL
        <3>1. d - 1 = e + Len(v) + Len(x) + 1
            BY <1>1, <1>4
        <3>. QED
            BY <1>2, <3>1 DEF Holds
    <2>3. m[Size - 2] = NUL /\ m[Size - 1] = NUL
        BY DEF Block, Ends
    <2>4. Size - 1 \in Cell /\ Size - 2 \in Cell /\ Size - 1 > d
        BY <1>1
    <2>5. u[Size - 2] = NUL
        <3>1. Size - 2 = d \/ Size - 2 > d
            BY <1>1
        <3>. QED
            BY <1>2, <2>3, <2>4, <3>1
    <2>6. u[Size - 1] = NUL
        BY <1>2, <2>3, <2>4
    <2>. QED
        BY <1>2, <2>1, <2>2, <2>5, <2>6 DEF Ends
<1>7. Kept(u)
    <2>1. \A k \in Cell : k >= Size => k > d
        BY <1>1
    <2>. QED
        BY <1>2, <2>1 DEF Block, Kept
<1>8. ASSUME NEW i \in Starts(m, e), NEW a \in Vars, NEW b \in Vals, Holds(m, i, a, b)
      PROVE  Holds(u, i, a, b) /\ i + Long(a, b) <= d
    <2>. DEFINE S == Long(a, b)
    <2>1. i + S <= e /\ S \in Nat /\ i \in Nat
        BY <1>5, <1>8, StringsApart, Lengths
    <2>. HIDE DEF S
    <2>2. ASSUME NEW j \in 0 .. S - 1 PROVE u[i + j] = m[i + j]
        <3>1. i + j \in Cell /\ i + j < e
            BY <1>1, <2>1
        <3>. QED
            BY <1>2, <3>1
    <2>3. Holds(u, i, a, b)
        BY <1>8, <2>1, <2>2, Moved DEF S
    <2>. QED
        BY <1>1, <2>1, <2>3 DEF S
<1>9. Strings(u, d)
    <2>. SUFFICES ASSUME NEW i \in Starts(u, d)
                  PROVE  \E w \in Vars, y \in Vals : Holds(u, i, w, y) /\ i + Long(w, y) <= d
        BY DEF Strings
    <2>1. CASE i \in Starts(m, e)
        <3>1. PICK w \in Vars, y \in Vals : Holds(m, i, w, y)
            BY <2>1 DEF Block, Strings
        <3>. QED
            BY <1>8, <2>1, <3>1
    <2>2. CASE i = e
        <3>1. e + Long(v, x) <= d
            BY <1>1 DEF L
        <3>. QED
            BY <1>2, <2>2, <3>1
    <2>. QED
        BY <1>3, <2>1, <2>2
<1>. HIDE DEF d
<1>10. ASSUME NEW i \in Starts(m, e), NEW w \in Vars, NEW y \in Vals, Holds(u, i, w, y)
       PROVE  Holds(m, i, w, y) /\ w # v
    <2>1. PICK a \in Vars, b \in Vals : Holds(m, i, a, b)
        BY DEF Block, Strings
    <2>2. Holds(u, i, a, b)
        BY <1>8, <2>1
    <2>3. a = w /\ b = y
        BY <1>5, <1>10, <2>2, OneString
    <2>. QED
        BY <2>1, <2>3 DEF Assigned
<1>11. ASSUME NEW i \in Starts(u, d), NEW w \in Vars
       PROVE  Matches(u, i, w) <=> IF i = e THEN w = v ELSE i \in Starts(m, e) /\ w # v /\ Matches(m, i, w)
    <2>1. CASE i = e
        BY <1>1, <1>2, <2>1, OneName
    <2>2. CASE i # e
        <3>1. i \in Starts(m, e) /\ i \in Nat
            BY <1>3, <1>5, <2>2
        <3>2. PICK a \in Vars, b \in Vals : Holds(m, i, a, b)
            BY <3>1 DEF Block, Strings
        <3>3. Holds(u, i, a, b)
            BY <1>8, <3>1, <3>2
        <3>4. a # v
            BY <1>10, <3>1, <3>3
        <3>5. (Matches(m, i, w) <=> w = a) /\ (Matches(u, i, w) <=> w = a)
            BY <3>1, <3>2, <3>3, OneName
        <3>. QED
            BY <2>2, <3>1, <3>4, <3>5
    <2>. QED
        BY <2>1, <2>2
<1>12. Distinct(u, d)
    <2>. SUFFICES ASSUME NEW i \in Starts(u, d), NEW j \in Starts(u, d), NEW w \in Vars,
                         Matches(u, i, w), Matches(u, j, w)
                  PROVE  i = j
        BY DEF Distinct
    <2>1. i = e <=> j = e
        BY <1>11
    <2>2. ASSUME i # e PROVE i = j
        BY <1>11, <2>1, <2>2 DEF Block, Distinct
    <2>. QED
        BY <2>1, <2>2
<1>13. ASSUME NEW y \in Vals PROVE Assigned(u, d, v, y) <=> y = x
    <2>1. ASSUME NEW i \in Starts(u, d), Holds(u, i, v, y) PROVE y = x
        <3>1. i = e
            BY <1>3, <1>10, <2>1
        <3>. QED
            BY <1>1, <1>2, <2>1, <3>1, OneString
    <2>2. ASSUME y = x PROVE Assigned(u, d, v, y)
        BY <1>2, <1>3, <2>2 DEF Assigned
    <2>. QED
        BY <2>1, <2>2 DEF Assigned
<1>14. ASSUME NEW w \in Vars \ {v}, NEW y \in Vals
       PROVE  Assigned(u, d, w, y) <=> Assigned(m, e, w, y)
    <2>1. ASSUME NEW i \in Starts(u, d), Holds(u, i, w, y) PROVE Assigned(m, e, w, y)
        <3>1. i # e
            BY <1>1, <1>2, <2>1, OneString
        <3>2. i \in Starts(m, e)
            BY <1>3, <3>1
        <3>. QED
            BY <1>10, <2>1, <3>2 DEF Assigned
    <2>2. ASSUME NEW i \in Starts(m, e), Holds(m, i, w, y) PROVE Assigned(u, d, w, y)
        BY <1>3, <1>8, <2>2 DEF Assigned
    <2>. QED
        BY <2>1, <2>2 DEF Assigned
<1>. QED
    BY <1>2, <1>6, <1>7, <1>9, <1>12, <1>13, <1>14 DEF Block, d, L

-----------------------------------------------------------------------------
(* The commands *)

\* The old string removed: a block in which v alone has lost its value.
LEMMA WithoutBlock ==
    ASSUME NEW m, NEW e, Block(m, e), NEW v \in Vars
    PROVE  \E d \in Nat :
              /\ Block(Without(m, v), d)
              /\ \A w \in Vars \ {v}, y \in Vals :
                     Assigned(Without(m, v), d, w, y) <=> Assigned(m, e, w, y)
              /\ \A y \in Vals : ~Assigned(Without(m, v), d, v, y)
<1>1. e \in Nat /\ \A i \in Starts(m, e) : i \in Nat
    BY BlockFacts
<1>2. CASE \E i \in Starts(m, e) : Matches(m, i, v)
    <2>1. PICK o \in Starts(m, e) : Matches(m, o, v)
        BY <1>2
    <2>2. PICK w \in Vars, x \in Vals : Holds(m, o, w, x)
        BY DEF Block, Strings
    <2>3. HoldsIn(m, e, o, v, x)
        BY <1>1, <2>1, <2>2, OneName DEF HoldsIn
    <2>4. envSearch(m, v) = o /\ o # NotFound
        BY <1>1, <2>1, SearchInBlock DEF NotFound
    <2>5. Without(m, v) = envDelete(m, o)
        BY <2>4 DEF Without
    <2>. DEFINE u == envDelete(m, o)
    <2>6. Shifted(u, m, o, Long(v, x), e)
        BY <2>3, DeleteShifts
    <2>. HIDE DEF u
    <2>7. /\ Block(u, e - Long(v, x))
          /\ \A a \in Vars \ {v}, y \in Vals :
                 Assigned(u, e - Long(v, x), a, y) <=> Assigned(m, e, a, y)
          /\ \A y \in Vals : ~Assigned(u, e - Long(v, x), v, y)
        BY <2>3, <2>6, ShiftedBlock
    <2>8. e - Long(v, x) \in Nat
        BY <2>7, BlockFacts
    <2>. QED
        BY <2>5, <2>7, <2>8 DEF u
<1>3. CASE \A i \in Starts(m, e) : ~Matches(m, i, v)
    <2>1. Without(m, v) = m
        BY <1>3, SearchInBlock DEF Without
    <2>2. ASSUME NEW y \in Vals PROVE ~Assigned(m, e, v, y)
        BY <1>1, <1>3, OneName DEF Assigned
    <2>. QED
        BY <1>1, <2>1, <2>2
<1>. QED
    BY <1>2, <1>3

\* The new string appended, where it fits.
LEMMA AppendedBlock ==
    ASSUME NEW m, NEW e, Block(m, e), NEW v \in Vars, NEW x \in Vals,
           envFindEnd(Without(m, v)) + Len(v) + Len(x) + 3 < Size
    PROVE  LET u == envAppend(Without(m, v), envFindEnd(Without(m, v)), v, x)
           IN  \E d \in Nat :
                  /\ Block(u, d)
                  /\ \A w \in Vars \ {v}, y \in Vals :
                         Assigned(u, d, w, y) <=> Assigned(m, e, w, y)
                  /\ \A y \in Vals : Assigned(u, d, v, y) <=> y = x
<1>. DEFINE n == Without(m, v)
            u == envAppend(n, envFindEnd(n), v, x)
<1>1. PICK a \in Nat :
          /\ Block(n, a)
          /\ \A w \in Vars \ {v}, y \in Vals : Assigned(n, a, w, y) <=> Assigned(m, e, w, y)
          /\ \A y \in Vals : ~Assigned(n, a, v, y)
    BY WithoutBlock
<1>. HIDE DEF n
<1>2. envFindEnd(n) = a
    BY <1>1, EndFound
<1>3. a + Long(v, x) + 1 < Size
    <2>1. a + Len(v) + Len(x) + 3 < Size
        BY <1>2 DEF n
    <2>. QED
        BY <2>1, Lengths, Sizes DEF Long
<1>4. n \in Memory
    BY <1>1 DEF Block
<1>5. Written(u, n, a, v, x)
    BY <1>2, <1>3, <1>4, AppendWrites
<1>. HIDE DEF u
<1>6. /\ Block(u, a + Long(v, x))
      /\ \A w \in Vars \ {v}, y \in Vals :
             Assigned(u, a + Long(v, x), w, y) <=> Assigned(n, a, w, y)
      /\ \A y \in Vals : Assigned(u, a + Long(v, x), v, y) <=> y = x
    BY <1>1, <1>3, <1>5, WrittenBlock
<1>7. a + Long(v, x) \in Nat
    BY Lengths
<1>. QED
    BY <1>1, <1>6, <1>7 DEF u, n

\* The invariant: the cells are a block of strings, one for each variable
\* that is set, and the page behind is untouched.
IInv == \E e \in Nat : Block(cells, e)

\* The variables as the shell prints them.
Values == [v \in Vars |-> envPrintVal(cells, v)]

LEMMA Starts0 == Init => IInv /\ Values = [v \in Vars |-> <<>>]
<1>. SUFFICES ASSUME Init PROVE IInv /\ Values = [v \in Vars |-> <<>>]
    OBVIOUS
<1>1. \A k \in Cell : cells[k] = IF k < Size THEN NUL ELSE Neighbour[k - Size + 1]
    BY DEF Init
<1>2. /\ Size \in Nat /\ Size > 1 /\ LastCell \in Nat /\ LastCell > Size
      /\ Cell = 0 .. LastCell /\ LastCell = Size + Len(Neighbour) - 1
      /\ Neighbour \in Seq(Byte) /\ Len(Neighbour) \in Nat
    BY Sizes, EnvAssumption DEF LastCell, Byte
<1>3. cells \in Memory
    <2>1. ASSUME NEW k \in Cell, k >= Size PROVE Neighbour[k - Size + 1] \in Byte
        <3>1. k - Size + 1 \in 1 .. Len(Neighbour)
            BY <1>2, <2>1
        <3>. QED
            BY <1>2, <3>1
    <2>2. NUL \in Byte
        BY DEF Byte
    <2>3. \A k \in Cell : ~(k < Size) => k >= Size
        BY <1>2
    <2>4. \A k \in Cell : cells[k] \in Byte
        BY <1>1, <2>1, <2>2, <2>3
    <2>5. cells = [k \in Cell |-> cells[k]]
        BY DEF Init
    <2>. QED
        BY <2>4, <2>5, Zenon DEF Memory
<1>4. Ends(cells, 0)
    <2>1. /\ 0 \in Cell /\ Size - 2 \in Cell /\ Size - 1 \in Cell /\ 0 < Size
          /\ Size - 2 < Size /\ Size - 1 < Size /\ 0 \in 0 .. Size - 2 /\ ~(0 > 0)
        BY <1>2
    <2>. QED
        BY <1>1, <2>1 DEF Ends
<1>5. Kept(cells)
    <2>1. \A k \in Cell : k >= Size => ~(k < Size)
        BY <1>2
    <2>. QED
        BY <1>1, <2>1 DEF Kept
<1>6. Starts(cells, 0) = {}
    BY DEF Starts
<1>7. Block(cells, 0)
    BY <1>3, <1>4, <1>5, <1>6 DEF Block, Strings, Distinct
<1>8. ASSUME NEW v \in Vars PROVE envPrintVal(cells, v) = <<>>
    <2>1. \A x \in Vals : ~Assigned(cells, 0, v, x)
        BY <1>6 DEF Assigned
    <2>. QED
        BY <1>7, <2>1, PrintsValue
<1>. QED
    BY <1>7, <1>8 DEF IInv, Values

\* A step that leaves a byte to spare.
Roomy ==
    \/ \E v \in Vars, x \in Vals : Fits(v, x) /\ cmdSet(v, x)
    \/ \E v \in Vars : cmdSetEmpty(v)

LEMMA Steps ==
    IInv /\ [Roomy]_cells => IInv' /\ [Env!Next]_Values
<1>. SUFFICES ASSUME IInv, [Roomy]_cells PROVE IInv' /\ [Env!Next]_Values
    OBVIOUS
<1>1. PICK e \in Nat : Block(cells, e)
    BY DEF IInv
<1>2. ASSUME NEW v \in Vars, NEW x \in Vals, Fits(v, x), cmdSet(v, x)
      PROVE  IInv' /\ Env!Next
    <2>1. cells' = envAppend(Without(cells, v), envFindEnd(Without(cells, v)), v, x)
        BY <1>2 DEF cmdSet
    <2>2. PICK d \in Nat :
              /\ Block(cells', d)
              /\ \A w \in Vars \ {v}, y \in Vals :
                     Assigned(cells', d, w, y) <=> Assigned(cells, e, w, y)
              /\ \A y \in Vals : Assigned(cells', d, v, y) <=> y = x
        BY <1>1, <1>2, <2>1, AppendedBlock DEF Fits
    <2>3. Values' = [Values EXCEPT ![v] = x]
        BY <1>1, <2>2, Printed DEF Values
    <2>. QED
        BY <2>2, <2>3 DEF IInv, Env!Next, Env!Set, Values
<1>3. ASSUME NEW v \in Vars, cmdSetEmpty(v)
      PROVE  IInv' /\ Env!Next
    <2>1. cells' = Without(cells, v)
        BY <1>3 DEF cmdSetEmpty
    <2>2. PICK d \in Nat :
              /\ Block(cells', d)
              /\ \A w \in Vars \ {v}, y \in Vals :
                     Assigned(cells', d, w, y) <=> Assigned(cells, e, w, y)
              /\ \A y \in Vals : ~Assigned(cells', d, v, y)
        BY <1>1, <2>1, WithoutBlock
    <2>3. \A y \in Vals : Assigned(cells', d, v, y) <=> y = <<>>
        BY <2>2, Sizes
    <2>4. Values' = [Values EXCEPT ![v] = <<>>]
        BY <1>1, <2>2, <2>3, Printed DEF Values
    <2>. QED
        BY <2>2, <2>4 DEF IInv, Env!Next, Env!Set, Values
<1>4. CASE UNCHANGED cells
    BY <1>4 DEF IInv, Values, Block, Ends, Kept, Strings, Starts, Distinct
<1>. QED
    BY <1>2, <1>3, <1>4 DEF Roomy

-----------------------------------------------------------------------------
(* The theorems *)

\* The cells are a block in every state, as long as no string is tight
\* (cmdSet, cmdSetEmpty, cmdPath).
THEOREM Invariance == Spec /\ NoneTight => []IInv
<1>1. Init => IInv
    BY Starts0
<1>2. IInv /\ [Roomy]_cells => IInv'
    BY Steps
<1>. QED
    BY <1>1, <1>2, PTL DEF Spec, NoneTight, Roomy

\* The cells only ever hold characters, equals signs and nulls (envAppend,
\* envDelete).
THEOREM TypeCorrect == Spec /\ NoneTight => []TypeOK
<1>1. IInv => TypeOK
    BY DEF IInv, Block, Memory, Byte, TypeOK
<1>. QED
    BY <1>1, Invariance, PTL

\* A scan that starts in the block or at its end ends within the page.
LEMMA ScanInside ==
    ASSUME NEW m, NEW e, Block(m, e), NEW i \in 0 .. e
    PROVE  DoubleNullFrom(m, i) + 1 < Size
<1>. DEFINE n == DoubleNullFrom(m, i)
<1>1. Tailed(m) /\ e \in Nat /\ e <= Size - 2 /\ e < LastCell
    BY BlockFacts
<1>2. i \in Cell /\ i \in Nat /\ i <= Size - 2 /\ i < LastCell
    BY <1>1, Sizes
<1>3. /\ n \in Cell
      /\ \A j \in i .. n - 1 : ~(m[j] = NUL /\ m[j + 1] = NUL)
    BY <1>1, <1>2, SomeDoubleNull DEF IsDoubleNull, IsNull
<1>4. m[Size - 2] = NUL /\ m[(Size - 2) + 1] = NUL
    <2>1. (Size - 2) + 1 = Size - 1
        BY Sizes
    <2>. QED
        BY <2>1 DEF Block, Ends
<1>. HIDE DEF n
<1>5. n \in Nat /\ Size \in Nat
    BY <1>3, Sizes
<1>6. ~(Size - 2 < n)
    <2>. SUFFICES ASSUME Size - 2 < n PROVE FALSE
        OBVIOUS
    <2>1. Size - 2 \in i .. n - 1
        BY <1>2, <1>5
    <2>. QED
        BY <1>3, <1>4, <2>1
<1>7. n + 1 < Size
    BY <1>5, <1>6
<1>. QED
    BY <1>7 DEF n

\* envFindEnd's scan and the one of envDelete, for whatever string SET or
\* PATH removes, stay inside the page.
THEOREM ScansAlwaysInside == Spec /\ NoneTight => []ScansStayInside
<1>1. IInv => ScansStayInside
    <2>. SUFFICES ASSUME NEW e \in Nat, Block(cells, e) PROVE ScansStayInside
        BY DEF IInv
    <2>1. DoubleNullFrom(cells, 0) + 1 < Size
        BY ScanInside
    <2>2. ASSUME NEW v \in Vars, envSearch(cells, v) # NotFound
          PROVE  DoubleNullFrom(cells, NullFrom(cells, envSearch(cells, v)) + 1) + 1 < Size
        <3>1. PICK i \in Starts(cells, e) : envSearch(cells, v) = i
            BY <2>2, SearchInBlock
        <3>2. PICK w \in Vars, x \in Vals : Holds(cells, i, w, x) /\ i + Long(w, x) <= e
            BY DEF Block, Strings
        <3>3. i \in Cell /\ i \in Nat /\ e \in Nat /\ e < LastCell
            BY BlockFacts
        <3>4. Long(w, x) \in Nat /\ Long(w, x) > 2
            BY Lengths
        <3>5. i + Long(w, x) <= LastCell
            BY <3>2, <3>3, <3>4, Sizes
        <3>6. NullFrom(cells, i) = i + Long(w, x) - 1
            BY <3>2, <3>3, <3>5, StringEnds
        <3>7. NullFrom(cells, i) + 1 \in 0 .. e
            BY <3>2, <3>3, <3>4, <3>6
        <3>. QED
            BY <3>1, <3>7, ScanInside
    <2>. QED
        BY <2>1, <2>2 DEF ScansStayInside
<1>. QED
    BY <1>1, Invariance, PTL

\* No SET and no PATH changes a byte of the page behind the block, the
\* deletion of the last string included (envDelete).
THEOREM NeighbourAlwaysSpared == Spec /\ NoneTight => []NeighbourSpared
<1>1. IInv => NeighbourSpared
    BY DEF IInv, Block, Kept, NeighbourSpared
<1>. QED
    BY <1>1, Invariance, PTL

\* The bytes implement the map: every SET and PATH changes the value that is
\* printed for its own variable and no other, whatever stale bytes earlier
\* deletions left behind.
THEOREM BlockRefines == Spec /\ NoneTight => EnvironmentSpec
<1>1. Init => IInv /\ Env!Init
    BY Starts0 DEF Env!Init, Values
<1>2. IInv /\ [Roomy]_cells => IInv' /\ [Env!Next]_Values
    BY Steps
<1>. QED
    BY <1>1, <1>2, PTL DEF Spec, NoneTight, Roomy, EnvironmentSpec, Env!Spec, Values

-----------------------------------------------------------------------------
(* A page that is large enough *)

\* Every cell in front of the end belongs to one of the strings.
LEMMA Owner ==
    ASSUME NEW m, NEW e, Block(m, e), NEW c \in 0 .. e - 1
    PROVE  \E i \in Starts(m, e), v \in Vars, x \in Vals :
               Holds(m, i, v, x) /\ i <= c /\ c < i + Long(v, x)
<1>. DEFINE T == {n \in 0 .. c : c - n \in Starts(m, e)}
<1>1. e \in Nat /\ c \in Nat /\ c < e /\ 0 \in Starts(m, e)
    BY BlockFacts
<1>2. T \in SUBSET Nat /\ c \in T
    BY <1>1
<1>3. PICK n \in T : \A k \in T : n <= k
    BY <1>2, LeastNumber
<1>. DEFINE i == c - n
<1>4. i \in Starts(m, e) /\ i \in Nat /\ i <= c /\ n \in Nat /\ c = i + n
    BY <1>1, <1>3
<1>. HIDE DEF i
<1>5. PICK v \in Vars, x \in Vals : Holds(m, i, v, x)
    BY <1>4 DEF Block, Strings
<1>. DEFINE L == Long(v, x)
<1>6. L \in Nat /\ L > 0 /\ i + L <= e
    BY <1>4, <1>5, StringsApart, Lengths
<1>7. m[i + L - 1] = NUL
    <2>1. i + L - 1 = i + Len(v) + Len(x) + 1
        BY <1>4, Lengths DEF Long
    <2>. QED
        BY <1>5, <2>1 DEF Holds
<1>. HIDE DEF L
<1>8. c < i + L
    <2>. SUFFICES ASSUME i + L <= c PROVE FALSE
        BY <1>1, <1>4, <1>6
    <2>1. i + L \in 0 .. e - 1 /\ (i + L) - 1 = i + L - 1
        BY <1>1, <1>4, <1>6
    <2>2. i + L \in Starts(m, e)
        BY <1>7, <2>1 DEF Starts
    <2>3. n - L \in 0 .. c /\ c - (n - L) = i + L /\ ~(n <= n - L)
        BY <1>1, <1>4, <1>6
    <2>4. n - L \in T
        BY <2>2, <2>3
    <2>. QED
        BY <1>3, <2>3, <2>4
<1>. QED
    BY <1>4, <1>5, <1>8 DEF L

\* M bounds the cells of any string.
Longest(M) == M \in Nat /\ \A v \in Vars, x \in Vals : Long(v, x) <= M

\* A block without a string of v is no longer than the other variables at
\* their longest: two cells at the same place of the same variable's string
\* would be the same cell.
LEMMA BlockIsShort ==
    ASSUME NEW m, NEW e, Block(m, e), NEW v \in Vars,
           \A y \in Vals : ~Assigned(m, e, v, y),
           IsFiniteSet(Vars), NEW M, Longest(M)
    PROVE  e <= (Cardinality(Vars) - 1) * M
<1>. DEFINE Others == Vars \ {v}
            Slots  == Others \X (0 .. M - 1)
            Cells  == 0 .. e - 1
            Owns(c, s) == \E i \in Starts(m, e), x \in Vals :
                              /\ Holds(m, i, s[1], x)
                              /\ i <= c /\ c = i + s[2]
            owner == [c \in Cells |-> CHOOSE s \in Slots : Owns(c, s)]
<1>1. e \in Nat /\ M \in Nat
    BY BlockFacts DEF Longest
<1>2. IsFiniteSet(Others) /\ Cardinality(Others) = Cardinality(Vars) - 1
    BY FS_RemoveElement
<1>3. IsFiniteSet(0 .. M - 1) /\ Cardinality(0 .. M - 1) = M
    <2>1. 0 \in Int /\ M - 1 \in Int
        BY <1>1
    <2>2. /\ IsFiniteSet(0 .. M - 1)
          /\ Cardinality(0 .. M - 1) = IF 0 > M - 1 THEN 0 ELSE (M - 1) - 0 + 1
        BY <2>1, FS_Interval
    <2>. QED
        BY <1>1, <2>2
<1>4. IsFiniteSet(Cells) /\ Cardinality(Cells) = e
    <2>1. 0 \in Int /\ e - 1 \in Int
        BY <1>1
    <2>2. /\ IsFiniteSet(Cells)
          /\ Cardinality(Cells) = IF 0 > e - 1 THEN 0 ELSE (e - 1) - 0 + 1
        BY <2>1, FS_Interval
    <2>. QED
        BY <1>1, <2>2
<1>5. IsFiniteSet(Slots) /\ Cardinality(Slots) = Cardinality(Others) * Cardinality(0 .. M - 1)
    BY <1>2, <1>3, FS_Product
<1>6. ASSUME NEW c \in Cells PROVE \E s \in Slots : Owns(c, s)
    <2>1. PICK i \in Starts(m, e), w \in Vars, x \in Vals :
              Holds(m, i, w, x) /\ i <= c /\ c < i + Long(w, x)
        BY Owner
    <2>2. w # v
        BY <2>1 DEF Assigned
    <2>3. Long(w, x) <= M /\ Long(w, x) \in Nat /\ i \in Nat
        BY Lengths, BlockFacts DEF Longest
    <2>4. c - i \in 0 .. M - 1 /\ c = i + (c - i)
        BY <1>1, <2>1, <2>3
    <2>. DEFINE s == <<w, c - i>>
    <2>5. s \in Slots /\ s[1] = w /\ s[2] = c - i
        BY <2>2, <2>4
    <2>. HIDE DEF s
    <2>6. Owns(c, s)
        BY <2>1, <2>4, <2>5
    <2>. QED
        BY <2>5, <2>6
<1>. HIDE DEF Owns
<1>7. \A c \in Cells : owner[c] \in Slots /\ Owns(c, owner[c])
    BY <1>6
<1>8. owner \in [Cells -> Slots]
    BY <1>7
<1>9. ASSUME NEW c \in Cells, NEW d \in Cells, owner[c] = owner[d] PROVE c = d
    <2>. DEFINE s == owner[c]
    <2>1. s \in Slots /\ Owns(c, s) /\ Owns(d, s)
        BY <1>7, <1>9
    <2>. HIDE DEF s, owner
    <2>2. s[1] \in Vars
        BY <2>1
    <2>3. PICK i \in Starts(m, e), x \in Vals : Holds(m, i, s[1], x) /\ c = i + s[2]
        BY <2>1 DEF Owns
    <2>4. PICK j \in Starts(m, e), y \in Vals : Holds(m, j, s[1], y) /\ d = j + s[2]
        BY <2>1 DEF Owns
    <2>5. Matches(m, i, s[1]) /\ Matches(m, j, s[1])
        <3>1. i \in Nat /\ j \in Nat
            BY BlockFacts
        <3>. QED
            BY <2>2, <2>3, <2>4, <3>1, OneName
    <2>6. i = j
        BY <2>2, <2>5 DEF Block, Distinct
    <2>. QED
        BY <2>3, <2>4, <2>6
<1>. HIDE DEF Cells, Slots, owner
<1>10. ~(Cardinality(Slots) < Cardinality(Cells))
    BY <1>4, <1>5, <1>8, <1>9, FS_PigeonHole
<1>11. Cardinality(Slots) = (Cardinality(Vars) - 1) * M
    BY <1>2, <1>3, <1>5
<1>12. Cardinality(Slots) \in Nat
    BY <1>5, FS_CardinalityType
<1>. QED
    BY <1>1, <1>4, <1>10, <1>11, <1>12

\* The page has room for every variable at its longest, and a byte to spare.
Room ==
    /\ IsFiniteSet(Vars)
    /\ \E M : Longest(M) /\ Cardinality(Vars) * M + 1 < Size

LEMMA RoomFits ==
    ASSUME IInv, Room, NEW v \in Vars, NEW x \in Vals
    PROVE  Fits(v, x)
<1>1. PICK e \in Nat : Block(cells, e)
    BY DEF IInv
<1>. DEFINE n == Without(cells, v)
<1>2. PICK d \in Nat : Block(n, d) /\ \A y \in Vals : ~Assigned(n, d, v, y)
    BY <1>1, WithoutBlock
<1>. HIDE DEF n
<1>3. PICK M : Longest(M) /\ Cardinality(Vars) * M + 1 < Size
    BY DEF Room
<1>. DEFINE p == Cardinality(Vars)
<1>4. d <= (p - 1) * M
    BY <1>2, <1>3, BlockIsShort DEF Room
<1>5. p \in Nat /\ M \in Nat /\ Size \in Nat /\ p * M + 1 < Size
    BY <1>3, FS_CardinalityType, Sizes DEF Room, Longest
<1>. HIDE DEF p
<1>6. (p - 1) * M = p * M - M
    BY <1>5
<1>7. Long(v, x) <= M /\ Long(v, x) = Len(v) + Len(x) + 2 /\ Len(v) \in Nat /\ Len(x) \in Nat
    BY <1>3, Lengths DEF Longest, Long
<1>. DEFINE all == p * M
<1>8. all \in Nat /\ d <= all - M /\ all + 1 < Size
    BY <1>4, <1>5, <1>6
<1>. HIDE DEF all
<1>9. d + Len(v) + Len(x) + 3 < Size
    BY <1>5, <1>7, <1>8
<1>10. envFindEnd(n) = d
    BY <1>2, EndFound
<1>. QED
    BY <1>9, <1>10 DEF Fits, n

\* In a page with room for all variables no SET ever fills the page to its
\* last byte, however many there are: a SET removes the old string first, and
\* what it leaves behind the end does not count (cmdSet, envDelete).
THEOREM NeverTight == Room => (Spec => NoneTight)
<1>. SUFFICES ASSUME Room PROVE Spec => NoneTight
    OBVIOUS
<1>1. Init => IInv
    BY Starts0
<1>2. IInv /\ [Next]_cells => [Roomy]_cells
    BY RoomFits, EnvAssumption DEF Next, Roomy, cmdPath
<1>3. IInv /\ [Roomy]_cells => IInv'
    BY Steps
<1>. QED
    BY <1>1, <1>2, <1>3, PTL DEF Spec, NoneTight, Roomy

\* The page with room keeps every promise, whatever SET and PATH do: it
\* implements the environment and leaves the next page alone.
THEOREM RoomyPageIsCorrect ==
    Room => (Spec => EnvironmentSpec /\ [](TypeOK /\ ScansStayInside /\ NeighbourSpared))
<1>. SUFFICES ASSUME Room
              PROVE  Spec => EnvironmentSpec /\ [](TypeOK /\ ScansStayInside /\ NeighbourSpared)
    OBVIOUS
<1>1. Spec => NoneTight
    BY NeverTight
<1>. QED
    BY <1>1, TypeCorrect, ScansAlwaysInside, NeighbourAlwaysSpared, BlockRefines, PTL
=============================================================================
