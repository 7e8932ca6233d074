--------------------------- MODULE AppTableProofs ---------------------------
(***************************************************************************)
(* The properties of AppTable, for any size of the table and of memory and   *)
(* any programs.  They need the entries in use not to cross the window that  *)
(* `inc VmmOffLo` wraps in: of the code's sixteen slots, the first six.      *)
(***************************************************************************)
EXTENDS AppTable, Induction, FiniteSetTheorems, SequenceTheorems

-----------------------------------------------------------------------------
(* Arithmetic *)

LEMMA Divided ==
    ASSUME NEW a \in Nat, NEW n \in Nat \ {0}
    PROVE  /\ (a % n) + n * (a \div n) = a
           /\ a \div n \in Nat /\ a % n \in 0 .. n - 1
    OBVIOUS

\* The remainder is the one that leaves a multiple.
LEMMA Remainder ==
    ASSUME NEW w \in Nat \ {0}, NEW x \in 0 .. w - 1, NEW q \in Nat
    PROVE  (x + w * q) % w = x
<1>. DEFINE y == x + w * q
            z == y % w
            p == y \div w
<1>1. y \in Nat /\ x \in Nat /\ w * q \in Nat
    OBVIOUS
<1>. HIDE DEF y
<1>2. z + w * p = y /\ p \in Nat /\ z \in 0 .. w - 1
    BY <1>1, Divided
<1>. HIDE DEF z, p
<1>3. p = q
    <2>1. CASE p + 1 <= q
        <3>1. w * (p + 1) <= w * q /\ w * (p + 1) = w * p + w
            BY <1>2, <2>1
        <3>. QED
            BY <1>1, <1>2, <3>1 DEF y
    <2>2. CASE q + 1 <= p
        <3>1. w * (q + 1) <= w * p /\ w * (q + 1) = w * q + w
            BY <1>2, <2>2
        <3>. QED
            BY <1>1, <1>2, <3>1 DEF y
    <2>. QED
        BY <1>2, <2>1, <2>2
<1>4. z = x
    BY <1>1, <1>2, <1>3 DEF y
<1>. QED
    BY <1>4 DEF z, y

LEMMA Spaced ==
    ASSUME NEW i \in Nat, NEW j \in Nat, NEW e \in Nat, i < j
    PROVE  i * e + e <= j * e
<1>1. PICK d \in Nat : j = i + 1 + d
    OBVIOUS
<1>2. j * e = i * e + e + d * e
    BY <1>1
<1>3. d * e \in Nat
    OBVIOUS
<1>. QED
    BY <1>2, <1>3

\* RoundUp goes to the first page boundary that is not below.
LEMMA Rounded ==
    ASSUME NEW a \in Nat
    PROVE  /\ RoundUp(a) \in Nat /\ RoundUp(a) >= a
           /\ RoundUp(a) % PageUnits = 0
           /\ \A b \in Nat : b % PageUnits = 0 /\ a <= b => RoundUp(a) <= b
<1>. DEFINE n == PageUnits
            q == (a + n - 1) \div n
<1>0. n \in Nat \ {0}
    BY AppTableAssumption
<1>. HIDE DEF n
<1>1. q \in Nat /\ n * q <= a + n - 1 /\ a + n - 1 < n * q + n
    BY <1>0
<1>2. (n * q) % n = 0 /\ n * q \in Nat
    BY <1>0, <1>1
<1>3. RoundUp(a) = n * q
    BY <1>0, <1>1 DEF RoundUp, n
<1>4. ASSUME NEW b \in Nat, b % n = 0, a <= b
      PROVE  n * q <= b
    <2>. DEFINE r == b \div n
    <2>1. b = n * r /\ r \in Nat
        BY <1>0, <1>4
    <2>. HIDE DEF q, r
    <2>2. q <= r
        <3>. SUFFICES ASSUME r + 1 <= q PROVE FALSE
            BY <1>1, <2>1
        <3>1. n * (r + 1) <= n * q /\ n * (r + 1) = n * r + n
            BY <1>0, <1>1, <2>1
        <3>. QED
            BY <1>0, <1>1, <1>4, <2>1, <3>1
    <2>. QED
        BY <1>0, <1>1, <2>1, <2>2
<1>. HIDE DEF q
<1>. QED
    BY <1>0, <1>1, <1>2, <1>3, <1>4 DEF n

-----------------------------------------------------------------------------
(* Where the entries lie *)

Entry == 0 .. NameLen + 4     \* the cells of an entry in use, from its first

LEMMA Sizes ==
    /\ MaxSlots \in Nat /\ NameLen \in Nat /\ Window \in Nat \ {0} /\ PageUnits \in Nat \ {0}
    /\ NameLen >= 1 /\ MaxSlots < 256 /\ Window >= NameLen + 5
    /\ HeaderSize \in Nat /\ HeaderSize >= 2
    /\ EntrySize \in Nat /\ EntrySize >= NameLen + 5
    /\ UserProgStart \in Nat /\ Top \in Nat /\ MemoryEnd \in Nat
    /\ Top < MemoryEnd /\ UserMemory \subseteq Memory
    /\ Slot \subseteq Nat /\ IsFiniteSet(Slot)
<1>0. MaxSlots \in Nat
    BY AppTableAssumption
<1>1. IsFiniteSet(0 .. MaxSlots - 1)
    BY <1>0, FS_Interval
<1>2. UserMemory \subseteq Memory
    BY AppTableAssumption DEF UserMemory, Memory
<1>. QED
    BY <1>1, <1>2, AppTableAssumption DEF Slot

\* An address or a size of user memory is two bytes.
LEMMA TwoBytes ==
    ASSUME NEW x \in 0 .. Top
    PROVE  x % PageUnits \in Byte /\ x \div PageUnits \in Byte
<1>. DEFINE n == PageUnits
            q == x \div n
            l == x % n
<1>1. n \in Nat \ {0} /\ n <= 256 /\ x \in Nat /\ x < 256 * n
    BY AppTableAssumption
<1>. HIDE DEF n
<1>2. l + n * q = x /\ q \in Nat /\ l \in 0 .. n - 1
    BY <1>1, Divided
<1>. HIDE DEF q, l
<1>3. q < 256
    <2>. SUFFICES ASSUME 255 < q PROVE FALSE
        BY <1>2
    <2>1. 255 * n + n <= q * n
        BY <1>1, <1>2, Spaced
    <2>2. q * n = n * q
        BY <1>1, <1>2
    <2>. QED
        BY <1>1, <1>2, <2>1, <2>2
<1>4. l \in Byte /\ q \in Byte
    BY <1>1, <1>2, <1>3 DEF Byte
<1>. QED
    BY <1>4 DEF l, q, n

\* An entry's cells are cells of the table, behind the header, and meet no
\* other entry's.
LEMMA EntryPlaces ==
    ASSUME NEW i \in Slot
    PROVE  /\ aptSlotBase(i) \in Nat /\ aptSlotBase(i) > USEDSLOTS
           /\ \A k \in Entry : aptSlotBase(i) + k \in Cells
           /\ \A j \in Slot \ {i} : \A k, l \in Entry :
                 aptSlotBase(i) + k # aptSlotBase(j) + l
<1>1. i \in Nat /\ i * EntrySize \in Nat /\ i < MaxSlots
    BY Sizes DEF Slot
<1>2. i * EntrySize + EntrySize <= MaxSlots * EntrySize
    BY <1>1, Sizes, Spaced
<1>3. ASSUME NEW j \in Slot \ {i}, NEW k \in Entry, NEW l \in Entry
      PROVE  aptSlotBase(i) + k # aptSlotBase(j) + l
    <2>1. j \in Nat /\ j * EntrySize \in Nat
        BY Sizes DEF Slot
    <2>2. k \in Nat /\ l \in Nat /\ k < EntrySize /\ l < EntrySize
        BY Sizes DEF Entry
    <2>3. CASE i < j
        <3>1. i * EntrySize + EntrySize <= j * EntrySize
            BY <1>1, <2>1, <2>3, Sizes, Spaced
        <3>. QED
            BY <1>1, <2>1, <2>2, <3>1, Sizes DEF aptSlotBase
    <2>4. CASE j < i
        <3>1. j * EntrySize + EntrySize <= i * EntrySize
            BY <1>1, <2>1, <2>4, Sizes, Spaced
        <3>. QED
            BY <1>1, <2>1, <2>2, <3>1, Sizes DEF aptSlotBase
    <2>. QED
        BY <1>1, <2>1, <2>3, <2>4
<1>4. ASSUME NEW k \in Entry PROVE aptSlotBase(i) + k \in Cells
    <2>1. k \in Nat /\ k < EntrySize
        BY Sizes DEF Entry
    <2>. QED
        BY <1>1, <1>2, <2>1, Sizes DEF aptSlotBase, Cells
<1>5. aptSlotBase(i) \in Nat /\ aptSlotBase(i) > USEDSLOTS
    BY <1>1, Sizes DEF aptSlotBase, USEDSLOTS
<1>. QED
    BY <1>3, <1>4, <1>5

LEMMA CountCell ==
    ASSUME NEW b \in Cells, b > USEDSLOTS
    PROVE  USEDSLOTS \in Cells
<1>. DEFINE n == HeaderSize + MaxSlots * EntrySize
<1>1. Cells = 0 .. n - 1 /\ n \in Nat
    BY Sizes DEF Cells
<1>. HIDE DEF n
<1>. QED
    BY <1>1 DEF USEDSLOTS

\* A step that stays in the window goes where it should.
LEMMA InWindow ==
    ASSUME NEW c \in Nat, NEW k \in Nat, (c % Window) + k < Window
    PROVE  Step(c, k) = c + k /\ (c + k) % Window = (c % Window) + k
<1>. DEFINE w == Window
            r == c % w
            q == c \div w
<1>1. w \in Nat \ {0}
    BY Sizes
<1>. HIDE DEF w
<1>2. r + w * q = c /\ q \in Nat /\ r \in Nat /\ r + k < w
    BY <1>1, Divided DEF w
<1>. HIDE DEF r, q
<1>3. (r + k) % w = r + k
    BY <1>1, <1>2
<1>4. q * w = w * q
    BY <1>1, <1>2
<1>5. ((r + k) + w * q) % w = r + k
    <2>. DEFINE x == r + k
    <2>1. x \in 0 .. w - 1
        BY <1>1, <1>2
    <2>. HIDE DEF x
    <2>2. (x + w * q) % w = x
        BY <1>1, <1>2, <2>1, Remainder
    <2>. QED
        BY <2>2 DEF x
<1>6. (r + k) + w * q = c + k
    BY <1>1, <1>2
<1>. QED
    BY <1>1, <1>2, <1>3, <1>4, <1>5, <1>6 DEF Step, w, r, q

\* In a straight entry every step does.
LEMMA StraightStep ==
    ASSUME NEW i \in Slot, Straight(i)
    PROVE  /\ \A k \in Entry : Step(aptSlotBase(i), k) = aptSlotBase(i) + k
           /\ \A k \in 0 .. 3 : Step(aptSlotBase(i) + OFFADDR, k) = aptSlotBase(i) + OFFADDR + k
<1>. DEFINE c == aptSlotBase(i)
            r == c % Window
<1>1. c \in Nat /\ NameLen \in Nat /\ Window \in Nat \ {0}
    BY EntryPlaces, Sizes
<1>2. r + NameLen + 4 < Window
    BY DEF Straight
<1>. HIDE DEF c
<1>3. r \in Nat
    BY <1>1, Divided
<1>4. ASSUME NEW k \in Nat, k <= NameLen + 4
      PROVE  Step(c, k) = c + k /\ (c + k) % Window = r + k
    <2>1. (c % Window) + k < Window
        BY <1>1, <1>2, <1>3, <1>4
    <2>. QED
        BY <1>1, <1>4, <2>1, InWindow
<1>5. \A k \in Entry : Step(c, k) = c + k
    BY <1>1, <1>4 DEF Entry
<1>6. OFFADDR \in Nat /\ OFFADDR = NameLen + 1
    BY <1>1 DEF OFFADDR
<1>7. (c + OFFADDR) % Window = r + OFFADDR /\ c + OFFADDR \in Nat
    BY <1>1, <1>4, <1>6
<1>. DEFINE a == c + OFFADDR
<1>8. ASSUME NEW k \in 0 .. 3 PROVE Step(a, k) = a + k
    <2>. HIDE DEF r
    <2>1. (a % Window) + k < Window
        BY <1>1, <1>2, <1>3, <1>6, <1>7
    <2>. HIDE DEF a
    <2>2. a \in Nat /\ k \in Nat
        BY <1>7 DEF a
    <2>. QED
        BY <2>1, <2>2, InWindow
<1>. QED
    BY <1>5, <1>8 DEF c

\* In any entry the steps behind the first leave its flags cell alone.
LEMMA StepMoves ==
    ASSUME NEW i \in Slot
    PROVE  /\ Step(aptSlotBase(i), 0) = aptSlotBase(i)
           /\ \A k \in Entry \ {0} : Step(aptSlotBase(i), k) # aptSlotBase(i)
<1>. DEFINE c == aptSlotBase(i)
            w == Window
            r == c % w
            p == (c \div w) * w
<1>1. c \in Nat /\ w \in Nat \ {0}
    BY EntryPlaces, Sizes
<1>. HIDE DEF c, w
<1>2. r \in 0 .. w - 1 /\ p + r = c /\ p \in Nat
    <2>1. (c % w) + w * (c \div w) = c /\ c \div w \in Nat /\ c % w \in 0 .. w - 1
        BY <1>1, Divided
    <2>2. (c \div w) * w = w * (c \div w) /\ (c \div w) * w \in Nat
        BY <1>1, <2>1
    <2>. QED
        BY <1>1, <2>1, <2>2
<1>. HIDE DEF r, p
<1>3. \A k \in Nat : Step(c, k) = p + ((r + k) % w)
    BY DEF Step, r, p, w
<1>4. (r + 0) % w = r
    BY <1>1, <1>2
<1>5. ASSUME NEW k \in Entry \ {0} PROVE (r + k) % w # r
    <2>1. k \in Nat /\ 0 < k /\ k < w
        BY Sizes DEF Entry, w
    <2>2. CASE r + k < w
        BY <1>1, <1>2, <2>1, <2>2
    <2>3. CASE r + k >= w
        <3>1. (r + k) % w = r + k - w
            BY <1>1, <1>2, <2>1, <2>3
        <3>. QED
            BY <1>1, <1>2, <2>1, <3>1
    <2>. QED
        BY <1>1, <1>2, <2>1, <2>2, <2>3
<1>6. Entry \subseteq Nat
    BY Sizes DEF Entry
<1>7. \A k \in Nat : (r + k) % w \in Nat
    BY <1>1, <1>2
<1>8. Step(c, 0) = c
    BY <1>2, <1>3, <1>4, <1>7
<1>9. ASSUME NEW k \in Entry \ {0} PROVE Step(c, k) # c
    BY <1>1, <1>2, <1>3, <1>5, <1>6, <1>7, <1>9
<1>. QED
    BY <1>8, <1>9 DEF c

-----------------------------------------------------------------------------
(* What aptRegister writes *)

Padded(name) == [k \in 1 .. NameLen |-> IF k <= Len(name) THEN name[k] ELSE 0]

\* The name of a file, or of anything that is stored in the table.
Name == {n \in Seq(1 .. 255) : Len(n) \in 1 .. NameLen}

LEMMA CellsOfEntry ==
    ASSUME NEW name \in Name, NEW addr \in 0 .. Top, NEW size \in 0 .. Top
    PROVE  LET cells == EntryCells(name, addr, size)
           IN  /\ cells \in Seq(Byte) /\ Len(cells) = NameLen + 5 /\ cells[1] = 1
               /\ \A k \in 1 .. NameLen :
                     cells[k + 1] = IF k <= Len(name) THEN name[k] ELSE 0
               /\ cells[NameLen + 2] = addr % PageUnits
               /\ cells[NameLen + 3] = addr \div PageUnits
               /\ cells[NameLen + 4] = size % PageUnits
               /\ cells[NameLen + 5] = size \div PageUnits
<1>. DEFINE one == <<1>>
            pad == Padded(name)
            al  == addr % PageUnits
            ah  == addr \div PageUnits
            sl  == size % PageUnits
            sh  == size \div PageUnits
            place == <<al, ah, sl, sh>>
            head == one \o pad
            cells == head \o place
<1>0. NameLen \in Nat
    BY Sizes
<1>1. EntryCells(name, addr, size) = cells
    BY DEF EntryCells, Padded
<1>2. one \in Seq(Byte) /\ Len(one) = 1 /\ one[1] = 1
    <2>1. 1 \in Byte
        BY DEF Byte
    <2>. QED
        BY <2>1
<1>3. /\ pad \in Seq(Byte) /\ Len(pad) = NameLen
      /\ \A k \in 1 .. NameLen : pad[k] = IF k <= Len(name) THEN name[k] ELSE 0
    <2>1. \A k \in 1 .. NameLen : (IF k <= Len(name) THEN name[k] ELSE 0) \in Byte
        <3>1. name \in Seq(1 .. 255) /\ Len(name) \in Nat
            BY DEF Name
        <3>2. \A k \in 1 .. NameLen : k <= Len(name) => name[k] \in 1 .. 255
            <4>. SUFFICES ASSUME NEW k \in 1 .. NameLen, k <= Len(name)
                          PROVE  name[k] \in 1 .. 255
                OBVIOUS
            <4>1. k \in 1 .. Len(name)
                BY <1>0, <3>1
            <4>. QED
                BY <3>1, <4>1, ElementOfSeq
        <3>3. 1 .. 255 \subseteq Byte /\ 0 \in Byte
            BY DEF Byte
        <3>. QED
            BY <3>2, <3>3
    <2>. QED
        BY <1>0, <2>1 DEF Padded
<1>4. al \in Byte /\ ah \in Byte /\ sl \in Byte /\ sh \in Byte
    BY TwoBytes
<1>. HIDE DEF one, pad, al, ah, sl, sh
<1>5. place \in Seq(Byte) /\ Len(place) = 4
    BY <1>4
<1>6. place[1] = al /\ place[2] = ah /\ place[3] = sl /\ place[4] = sh
    BY <1>4
<1>. HIDE DEF place
<1>7. /\ head \in Seq(Byte) /\ Len(head) = NameLen + 1
      /\ \A k \in 1 .. NameLen + 1 : head[k] = IF k <= 1 THEN one[k] ELSE pad[k - 1]
    <2>1. /\ head \in Seq(Byte) /\ Len(head) = Len(one) + Len(pad)
          /\ \A k \in 1 .. Len(one) + Len(pad) :
                head[k] = IF k <= Len(one) THEN one[k] ELSE pad[k - Len(one)]
        BY <1>2, <1>3, ConcatProperties, Zenon
    <2>2. Len(one) + Len(pad) = NameLen + 1
        BY <1>0, <1>2, <1>3
    <2>. HIDE DEF head
    <2>. QED
        BY <1>0, <1>2, <2>1, <2>2
<1>. HIDE DEF head
<1>8. /\ cells \in Seq(Byte) /\ Len(cells) = NameLen + 5
      /\ \A k \in 1 .. NameLen + 5 :
            cells[k] = IF k <= NameLen + 1 THEN head[k] ELSE place[k - (NameLen + 1)]
    <2>1. /\ cells \in Seq(Byte) /\ Len(cells) = Len(head) + Len(place)
          /\ \A k \in 1 .. Len(head) + Len(place) :
                cells[k] = IF k <= Len(head) THEN head[k] ELSE place[k - Len(head)]
        BY <1>5, <1>7, ConcatProperties, Zenon
    <2>2. Len(head) + Len(place) = NameLen + 5
        BY <1>0, <1>5, <1>7
    <2>. HIDE DEF cells
    <2>. QED
        BY <1>0, <1>7, <2>1, <2>2
<1>. HIDE DEF cells
<1>9. cells[1] = 1
    BY <1>0, <1>2, <1>7, <1>8
<1>10. \A k \in 1 .. NameLen : cells[k + 1] = IF k <= Len(name) THEN name[k] ELSE 0
    <2>. SUFFICES ASSUME NEW k \in 1 .. NameLen PROVE cells[k + 1] = pad[k]
        BY <1>3
    <2>1. /\ k + 1 \in 1 .. NameLen + 5 /\ k + 1 <= NameLen + 1 /\ k + 1 \in 1 .. NameLen + 1
          /\ ~(k + 1 <= 1) /\ (k + 1) - 1 = k
        BY <1>0
    <2>2. cells[k + 1] = head[k + 1]
        BY <1>8, <2>1
    <2>. QED
        BY <1>7, <2>1, <2>2
<1>11. /\ cells[NameLen + 2] = al /\ cells[NameLen + 3] = ah
       /\ cells[NameLen + 4] = sl /\ cells[NameLen + 5] = sh
    BY <1>0, <1>6, <1>8
<1>. QED
    BY <1>1, <1>8, <1>9, <1>10, <1>11 DEF al, ah, sl, sh

Page == [Cells -> Byte]

\* What writing the cells of an entry to slot i makes of the page.
Written(pg, u, i, cells) ==
    /\ u \in Page
    /\ u[aptSlotBase(i)] = cells[1]
    /\ Straight(i) =>
          /\ \A k \in Entry : u[aptSlotBase(i) + k] = cells[k + 1]
          /\ \A c \in Cells : (\A k \in Entry : c # aptSlotBase(i) + k) => u[c] = pg[c]

LEMMA WritesEntry ==
    ASSUME NEW pg \in Page, NEW i \in Slot, NEW cells \in Seq(Byte), Len(cells) = NameLen + 5
    PROVE  Written(pg, WriteEntry(pg, i, cells), i, cells)
<1>. DEFINE b == aptSlotBase(i)
            at(c) == {k \in 1 .. Len(cells) : Step(b, k - 1) = c}
            u == [c \in Cells |-> IF at(c) = {} THEN pg[c] ELSE cells[Max(at(c))]]
<1>1. WriteEntry(pg, i, cells) = u
    BY DEF WriteEntry
<1>2. NameLen \in Nat /\ b \in Nat
    BY Sizes, EntryPlaces
<1>3. \A k \in 1 .. Len(cells) : k - 1 \in Entry /\ cells[k] \in Byte
    BY <1>2 DEF Entry
<1>4. \A k \in Entry : k + 1 \in 1 .. Len(cells)
    BY <1>2 DEF Entry
<1>5. \A k \in Int : Max({k}) = k
    BY DEF Max
<1>6. \A c \in Cells : at(c) # {} => Max(at(c)) \in at(c)
    <2>. SUFFICES ASSUME NEW c \in Cells, at(c) # {} PROVE Max(at(c)) \in at(c)
        OBVIOUS
    <2>. DEFINE T == {NameLen + 5 - k : k \in at(c)}
    <2>1. T \in SUBSET Nat /\ T # {}
        BY <1>2
    <2>2. PICK n \in T : \A m \in T : n <= m
        BY <2>1, LeastNumber
    <2>3. PICK k \in at(c) : n = NameLen + 5 - k
        BY <2>2
    <2>4. ASSUME NEW l \in at(c) PROVE k >= l
        <3>0. l \in Nat /\ k \in Nat
            BY <1>2
        <3>1. NameLen + 5 - l \in T
            OBVIOUS
        <3>2. n <= NameLen + 5 - l
            BY <2>2, <3>1
        <3>. QED
            BY <1>2, <2>3, <3>0, <3>2
    <2>. QED
        BY <2>4 DEF Max
<1>7. u \in Page
    BY <1>3, <1>6 DEF Page
<1>8. b \in Cells
    <2>1. 0 \in Entry /\ b + 0 = b
        BY <1>2 DEF Entry
    <2>. QED
        BY <2>1, EntryPlaces
<1>9. u[b] = cells[1]
    <2>1. at(b) = {1}
        <3>1. 1 \in 1 .. Len(cells) /\ 1 - 1 = 0
            BY <1>2
        <3>2. \A k \in 1 .. Len(cells) : k # 1 => k - 1 \in Entry \ {0}
            BY <1>3
        <3>. QED
            BY <3>1, <3>2, StepMoves
    <2>. QED
        BY <1>5, <1>8, <2>1
<1>10. ASSUME Straight(i)
       PROVE  /\ \A k \in Entry : u[b + k] = cells[k + 1]
              /\ \A c \in Cells : (\A k \in Entry : c # b + k) => u[c] = pg[c]
    <2>1. \A k \in 1 .. Len(cells) : Step(b, k - 1) = b + (k - 1)
        BY <1>3, <1>10, StraightStep
    <2>2. ASSUME NEW k \in Entry PROVE u[b + k] = cells[k + 1]
        <3>1. b + k \in Cells
            BY EntryPlaces
        <3>2. k \in Nat
            BY <1>2 DEF Entry
        <3>3. at(b + k) = {k + 1}
            <4>0. (k + 1) - 1 = k
                BY <3>2
            <4>1. k + 1 \in 1 .. Len(cells) /\ Step(b, (k + 1) - 1) = b + k
                BY <1>4, <2>1, <4>0
            <4>2. ASSUME NEW l \in 1 .. Len(cells), Step(b, l - 1) = b + k PROVE l = k + 1
                BY <1>2, <2>1, <3>2, <4>2
            <4>. QED
                BY <4>1, <4>2
        <3>. QED
            BY <1>5, <3>1, <3>2, <3>3
    <2>3. ASSUME NEW c \in Cells, \A k \in Entry : c # b + k PROVE u[c] = pg[c]
        <3>1. at(c) = {}
            BY <1>3, <2>1, <2>3
        <3>. QED
            BY <3>1
    <2>. QED
        BY <2>2, <2>3
<1>. HIDE DEF u
<1>. QED
    BY <1>1, <1>7, <1>9, <1>10 DEF Written

-----------------------------------------------------------------------------
(* What the table says *)

\* The address and the size of a straight entry, read from its cells.
LEMMA ReadsEntry ==
    ASSUME NEW pg, NEW i \in Slot, Straight(i)
    PROVE  LET a == aptSlotBase(i) + NameLen
           IN  /\ Start(pg, i) = pg[a + 1] + PageUnits * pg[a + 2]
               /\ Size(pg, i) = pg[a + 3] + PageUnits * pg[a + 4]
<1>. DEFINE b == aptSlotBase(i)
            a == b + OFFADDR
<1>1. b \in Nat /\ NameLen \in Nat
    BY EntryPlaces, Sizes
<1>2. Step(a, 1) = a + 1 /\ Step(a, 2) = a + 2 /\ Step(a, 3) = a + 3
    BY StraightStep
<1>. HIDE DEF b
<1>3. a = b + NameLen + 1 /\ a + 1 = b + NameLen + 2 /\ a + 2 = b + NameLen + 3
      /\ a + 3 = b + NameLen + 4
    BY <1>1 DEF OFFADDR
<1>4. /\ Start(pg, i) = pg[a] + PageUnits * pg[Step(a, 1)]
      /\ Size(pg, i) = pg[Step(a, 2)] + PageUnits * pg[Step(a, 3)]
    BY DEF Start, Size, b
<1>. HIDE DEF a
<1>. QED
    BY <1>2, <1>3, <1>4 DEF b

\* Two pages that agree on the flags, and on an entry.
SameFlag(pg, u, i) == u[aptSlotBase(i)] = pg[aptSlotBase(i)]
SameEntry(pg, u, i) == Start(u, i) = Start(pg, i) /\ Size(u, i) = Size(pg, i)

LEMMA SameCells ==
    ASSUME NEW pg, NEW u, NEW i \in Slot, Straight(i),
           \A k \in Entry : u[aptSlotBase(i) + k] = pg[aptSlotBase(i) + k]
    PROVE  SameEntry(pg, u, i)
<1>1. NameLen + 1 \in Entry /\ NameLen + 2 \in Entry /\ NameLen + 3 \in Entry
      /\ NameLen + 4 \in Entry /\ NameLen \in Nat /\ aptSlotBase(i) \in Nat
    BY Sizes, EntryPlaces DEF Entry
<1>. DEFINE b == aptSlotBase(i)
<1>. HIDE DEF b
<1>2. /\ b + (NameLen + 1) = (b + NameLen) + 1 /\ b + (NameLen + 2) = (b + NameLen) + 2
      /\ b + (NameLen + 3) = (b + NameLen) + 3 /\ b + (NameLen + 4) = (b + NameLen) + 4
    BY <1>1 DEF b
<1>3. \A k \in Entry : u[b + k] = pg[b + k]
    BY DEF b
<1>4. /\ u[(b + NameLen) + 1] = pg[(b + NameLen) + 1] /\ u[(b + NameLen) + 2] = pg[(b + NameLen) + 2]
      /\ u[(b + NameLen) + 3] = pg[(b + NameLen) + 3] /\ u[(b + NameLen) + 4] = pg[(b + NameLen) + 4]
    BY <1>1, <1>2, <1>3
<1>. QED
    BY <1>4, ReadsEntry DEF SameEntry, b

\* Flags are 0 or 1: nothing sets the running flag.
Flagged(pg) == pg \in Page /\ \A i \in Slot : pg[aptSlotBase(i)] \in {0, 1}

LEMMA UsedByFlag ==
    ASSUME NEW pg, Flagged(pg)
    PROVE  /\ Used(pg) = {i \in Slot : pg[aptSlotBase(i)] = 1}
           /\ \A i \in Slot : ~IsRunning(pg, i)
<1>1. 0 % 2 = 0 /\ 1 % 2 = 1 /\ (0 \div 2) % 2 = 0 /\ (1 \div 2) % 2 = 0
    OBVIOUS
<1>2. \A i \in Slot : (pg[aptSlotBase(i)] % 2 = 1) <=> pg[aptSlotBase(i)] = 1
    BY <1>1 DEF Flagged
<1>3. \A i \in Slot : (pg[aptSlotBase(i)] \div 2) % 2 # 1
    BY <1>1 DEF Flagged
<1>. QED
    BY <1>2, <1>3 DEF Used, IsUsed, IsRunning

\* The region of a slot in use is in user memory, and meets no other slot's.
InMemory(pg, i) ==
    /\ Start(pg, i) \in Nat /\ Size(pg, i) \in Nat \ {0}
    /\ UserProgStart <= Start(pg, i) /\ End(pg, i) <= Top
Apart(pg, i, addr, size) == End(pg, i) <= addr \/ addr + size <= Start(pg, i)

Sane(pg) ==
    /\ Flagged(pg)
    /\ \A i \in Used(pg) : InMemory(pg, i)
    /\ \A i, j \in Used(pg) : i # j => Apart(pg, i, Start(pg, j), Size(pg, j))

Counted(pg) == pg[USEDSLOTS] = Cardinality(Used(pg))
AllStraight(pg) == \A i \in Used(pg) : Straight(i)

\* Written entries read as they were written, and the others stay.
LEMMA WrittenEntry ==
    ASSUME NEW pg \in Page, NEW i \in Slot, NEW name \in Name, NEW addr \in 0 .. Top,
           NEW size \in 0 .. Top, NEW u, Written(pg, u, i, EntryCells(name, addr, size)),
           Straight(i)
    PROVE  /\ u \in Page /\ u[aptSlotBase(i)] = 1 /\ u[USEDSLOTS] = pg[USEDSLOTS]
           /\ Start(u, i) = addr /\ Size(u, i) = size
           /\ \A j \in Slot \ {i} : SameFlag(pg, u, j) /\ (Straight(j) => SameEntry(pg, u, j))
           /\ Len(name) < NameLen \/ addr % PageUnits = 0 => aptNameMatch(u, i, name)
<1>. DEFINE cells == EntryCells(name, addr, size)
            b == aptSlotBase(i)
<1>1. /\ Len(cells) = NameLen + 5 /\ cells[1] = 1
      /\ \A k \in 1 .. NameLen :
            cells[k + 1] = IF k <= Len(name) THEN name[k] ELSE 0
      /\ cells[NameLen + 2] = addr % PageUnits
      /\ cells[NameLen + 3] = addr \div PageUnits
      /\ cells[NameLen + 4] = size % PageUnits
      /\ cells[NameLen + 5] = size \div PageUnits
    BY CellsOfEntry
<1>. HIDE DEF cells
<1>2. /\ NameLen \in Nat /\ b \in Nat /\ b > USEDSLOTS /\ PageUnits \in Nat \ {0}
      /\ addr \in Nat /\ size \in Nat
    BY Sizes, EntryPlaces
<1>3. /\ u \in Page /\ u[b] = cells[1]
      /\ \A k \in Entry : u[b + k] = cells[k + 1]
      /\ \A c \in Cells : (\A k \in Entry : c # b + k) => u[c] = pg[c]
    BY DEF Written, cells
<1>4. u[USEDSLOTS] = pg[USEDSLOTS]
    <2>1. USEDSLOTS \in Cells /\ \A k \in Entry : USEDSLOTS # b + k
        <3>1. 0 \in Entry /\ b + 0 = b
            BY <1>2 DEF Entry
        <3>2. b \in Cells
            BY <3>1, EntryPlaces
        <3>3. \A k \in Entry : USEDSLOTS # b + k
            BY <1>2 DEF Entry, USEDSLOTS
        <3>. QED
            BY <1>2, <3>2, <3>3, CountCell
    <2>. QED
        BY <1>3, <2>1
<1>5. ASSUME NEW j \in Slot \ {i}
      PROVE  SameFlag(pg, u, j) /\ (Straight(j) => SameEntry(pg, u, j))
    <2>1. \A k \in Entry : u[aptSlotBase(j) + k] = pg[aptSlotBase(j) + k]
        <3>. SUFFICES ASSUME NEW k \in Entry
                      PROVE  u[aptSlotBase(j) + k] = pg[aptSlotBase(j) + k]
            OBVIOUS
        <3>1. aptSlotBase(j) + k \in Cells
            BY EntryPlaces
        <3>2. \A l \in Entry : aptSlotBase(j) + k # b + l
            BY EntryPlaces
        <3>. QED
            BY <1>3, <3>1, <3>2
    <2>2. SameFlag(pg, u, j)
        <3>1. 0 \in Entry /\ aptSlotBase(j) + 0 = aptSlotBase(j)
            BY <1>2, EntryPlaces DEF Entry
        <3>2. u[aptSlotBase(j) + 0] = pg[aptSlotBase(j) + 0]
            BY <2>1, <3>1
        <3>. QED
            BY <3>1, <3>2 DEF SameFlag
    <2>3. Straight(j) => SameEntry(pg, u, j)
        BY <2>1, SameCells
    <2>. QED
        BY <2>2, <2>3
<1>6. Start(u, i) = addr /\ Size(u, i) = size
    <2>1. /\ b + (NameLen + 1) = (b + NameLen) + 1 /\ b + (NameLen + 2) = (b + NameLen) + 2
          /\ b + (NameLen + 3) = (b + NameLen) + 3 /\ b + (NameLen + 4) = (b + NameLen) + 4
          /\ (NameLen + 1) + 1 = NameLen + 2 /\ (NameLen + 2) + 1 = NameLen + 3
          /\ (NameLen + 3) + 1 = NameLen + 4 /\ (NameLen + 4) + 1 = NameLen + 5
        BY <1>2
    <2>2. /\ NameLen + 1 \in Entry /\ NameLen + 2 \in Entry
          /\ NameLen + 3 \in Entry /\ NameLen + 4 \in Entry
        BY <1>2 DEF Entry
    <2>3. /\ u[(b + NameLen) + 1] = addr % PageUnits
          /\ u[(b + NameLen) + 2] = addr \div PageUnits
          /\ u[(b + NameLen) + 3] = size % PageUnits
          /\ u[(b + NameLen) + 4] = size \div PageUnits
        BY <1>1, <1>3, <2>1, <2>2
    <2>4. /\ (addr % PageUnits) + PageUnits * (addr \div PageUnits) = addr
          /\ (size % PageUnits) + PageUnits * (size \div PageUnits) = size
        BY <1>2, Divided
    <2>. QED
        BY <2>3, <2>4, ReadsEntry
<1>7. ASSUME Len(name) < NameLen \/ addr % PageUnits = 0 PROVE aptNameMatch(u, i, name)
    <2>1. Len(name) \in 1 .. NameLen
        BY DEF Name
    <2>2. \A k \in 1 .. Len(name) : k \in Entry /\ k \in 1 .. NameLen /\ k <= Len(name)
        BY <1>2, <2>1 DEF Entry
    <2>3. \A k \in 1 .. Len(name) : u[Step(b, k)] = name[k]
        BY <1>1, <1>3, <2>2, StraightStep
    <2>4. Len(name) + 1 \in Entry
        BY <1>2, <2>1 DEF Entry
    <2>5. cells[(Len(name) + 1) + 1] = 0
        <3>1. CASE Len(name) < NameLen
            <4>1. Len(name) + 1 \in 1 .. NameLen /\ ~(Len(name) + 1 <= Len(name))
                BY <1>2, <2>1, <3>1
            <4>. QED
                BY <1>1, <4>1
        <3>2. CASE ~(Len(name) < NameLen)
            <4>1. (Len(name) + 1) + 1 = NameLen + 2
                BY <1>2, <2>1, <3>2
            <4>. QED
                BY <1>1, <1>7, <3>2, <4>1
        <3>. QED
            BY <3>1, <3>2
    <2>6. u[Step(b, Len(name) + 1)] = 0
        BY <1>3, <2>4, <2>5, StraightStep
    <2>. QED
        BY <2>3, <2>6 DEF aptNameMatch
<1>. QED
    BY <1>1, <1>3, <1>4, <1>5, <1>6, <1>7

-----------------------------------------------------------------------------
(* aptRegister *)

LEMMA UsedFinite ==
    ASSUME NEW pg
    PROVE  Used(pg) \subseteq Slot /\ IsFiniteSet(Used(pg))
<1>1. Used(pg) \subseteq Slot
    BY DEF Used
<1>. QED
    BY <1>1, Sizes, FS_Subset

\* Slots are counted in a byte.
LEMMA FewSlots ==
    ASSUME NEW T \in SUBSET Slot
    PROVE  Cardinality(T) \in Nat /\ Cardinality(T) < 256
<1>1. Cardinality(0 .. MaxSlots - 1) = IF 0 > MaxSlots - 1 THEN 0
                                       ELSE (MaxSlots - 1) - 0 + 1
    BY Sizes, FS_Interval
<1>2. Cardinality(T) <= Cardinality(Slot) /\ Cardinality(T) \in Nat
    BY Sizes, FS_Subset, FS_CardinalityType
<1>. QED
    BY <1>1, <1>2, Sizes DEF Slot

\* The least of a set of slots is one of them.
LEMMA LeastSlot ==
    ASSUME NEW T \in SUBSET Slot, T # {}
    PROVE  Min(T) \in T
<1>1. T \in SUBSET Nat
    BY Sizes
<1>2. PICK i \in T : \A j \in T : i <= j
    BY <1>1, LeastNumber
<1>. QED
    BY <1>2 DEF Min

\* A page with fewer entries in use, the same as they were, is as good.
LEMMA Fewer ==
    ASSUME NEW pg, Sane(pg), NEW u, Flagged(u), Used(u) \subseteq Used(pg),
           \A i \in Used(u) : SameEntry(pg, u, i)
    PROVE  Sane(u)
<1>1. \A i \in Used(u) : InMemory(u, i)
    BY DEF Sane, SameEntry, InMemory, End
<1>2. \A i, j \in Used(u) : i # j => Apart(u, i, Start(u, j), Size(u, j))
    BY DEF Sane, SameEntry, Apart, End
<1>. QED
    BY <1>1, <1>2 DEF Sane

LEMMA SlotWritten ==
    ASSUME NEW pg, Sane(pg), AllStraight(pg), NEW i \in Slot, Straight(i),
           NEW name \in Name, NEW addr \in Nat, NEW size \in Nat \ {0},
           UserProgStart <= addr, addr + size <= Top,
           \A j \in Used(pg) : Apart(pg, j, addr, size),
           NEW u, Written(pg, u, i, EntryCells(name, addr, size))
    PROVE  /\ Sane(u) /\ Used(u) = Used(pg) \cup {i}
           /\ u[USEDSLOTS] = pg[USEDSLOTS]
           /\ \A j \in Used(u) \ {i} : SameEntry(pg, u, j)
           /\ Start(u, i) = addr /\ Size(u, i) = size
           /\ Len(name) < NameLen \/ addr % PageUnits = 0 => aptNameMatch(u, i, name)
<1>0. addr \in 0 .. Top /\ size \in 0 .. Top
    BY Sizes
<1>1. pg \in Page /\ Flagged(pg)
    BY DEF Sane, Flagged
<1>2. /\ u \in Page /\ u[aptSlotBase(i)] = 1 /\ u[USEDSLOTS] = pg[USEDSLOTS]
      /\ Start(u, i) = addr /\ Size(u, i) = size
      /\ \A j \in Slot \ {i} : SameFlag(pg, u, j) /\ (Straight(j) => SameEntry(pg, u, j))
      /\ Len(name) < NameLen \/ addr % PageUnits = 0 => aptNameMatch(u, i, name)
    BY <1>0, <1>1, WrittenEntry
<1>3. Flagged(u)
    BY <1>1, <1>2 DEF Flagged, SameFlag
<1>4. Used(u) = Used(pg) \cup {i}
    <2>1. Used(u) = {j \in Slot : u[aptSlotBase(j)] = 1}
        BY <1>3, UsedByFlag
    <2>2. Used(pg) = {j \in Slot : pg[aptSlotBase(j)] = 1}
        BY <1>1, UsedByFlag
    <2>. QED
        BY <1>2, <2>1, <2>2 DEF SameFlag
<1>5. \A j \in Used(u) \ {i} : j \in Used(pg) /\ SameEntry(pg, u, j)
    BY <1>2, <1>4, UsedFinite DEF AllStraight
<1>6. \A j \in Used(u) : InMemory(u, j)
    <2>. SUFFICES ASSUME NEW j \in Used(u) PROVE InMemory(u, j)
        OBVIOUS
    <2>1. CASE j = i
        BY <1>2, <2>1 DEF InMemory, End
    <2>2. CASE j # i
        BY <1>5, <2>2 DEF InMemory, End, SameEntry, Sane
    <2>. QED
        BY <2>1, <2>2
<1>7. \A j, k \in Used(u) : j # k => Apart(u, j, Start(u, k), Size(u, k))
    <2>. SUFFICES ASSUME NEW j \in Used(u), NEW k \in Used(u), j # k
                  PROVE  Apart(u, j, Start(u, k), Size(u, k))
        OBVIOUS
    <2>1. CASE j = i
        <3>1. k \in Used(pg) /\ Apart(pg, k, addr, size) /\ SameEntry(pg, u, k)
            BY <1>5, <2>1
        <3>. QED
            BY <1>2, <2>1, <3>1 DEF Apart, End, SameEntry
    <2>2. CASE k = i
        <3>1. j \in Used(pg) /\ Apart(pg, j, addr, size) /\ SameEntry(pg, u, j)
            BY <1>5, <2>2
        <3>. QED
            BY <1>2, <2>2, <3>1 DEF Apart, End, SameEntry
    <2>3. CASE j # i /\ k # i
        BY <1>5, <2>3 DEF Sane, SameEntry, Apart, End
    <2>. QED
        BY <2>1, <2>2, <2>3
<1>. QED
    BY <1>2, <1>3, <1>4, <1>5, <1>6, <1>7 DEF Sane

\* What registering an app in a place that is free makes of the page.
Registered(pg, u, name, addr) ==
    /\ Sane(u) /\ Counted(u) /\ AllStraight(u)
    /\ \A i \in Used(u) :
          \/ Len(name) < NameLen \/ addr % PageUnits = 0 => aptNameMatch(u, i, name)
          \/ i \in Used(pg) /\ SameEntry(pg, u, i)

\* A name that is new gets a slot in front of the window's end.
NextStraight(pg, name) ==
    aptFind(pg, name) = -1 /\ Slot \ Used(pg) # {} => Straight(Min(Slot \ Used(pg)))

\* Raising the count changes no entry.
Raised(pg) == [pg EXCEPT ![USEDSLOTS] = (@ + 1) % 256]

LEMMA CountRaised ==
    ASSUME NEW pg \in Page
    PROVE  /\ Raised(pg) \in Page /\ Raised(pg)[USEDSLOTS] = (pg[USEDSLOTS] + 1) % 256
           /\ \A j \in Slot : \A k \in Entry :
                 Raised(pg)[aptSlotBase(j) + k] = pg[aptSlotBase(j) + k]
<1>1. \A j \in Slot : \A k \in Entry :
          aptSlotBase(j) + k # USEDSLOTS /\ aptSlotBase(j) + k \in Cells
    BY EntryPlaces, Sizes DEF Entry, USEDSLOTS
<1>2. USEDSLOTS \in Cells
    <2>1. 0 \in Slot
        BY AppTableAssumption DEF Slot
    <2>2. 0 \in Entry /\ aptSlotBase(0) \in Nat /\ aptSlotBase(0) + 0 = aptSlotBase(0)
        BY <2>1, EntryPlaces, Sizes DEF Entry
    <2>3. aptSlotBase(0) \in Cells
        BY <1>1, <2>1, <2>2
    <2>. QED
        BY <2>1, <2>3, CountCell, EntryPlaces
<1>3. (pg[USEDSLOTS] + 1) % 256 \in Byte
    BY <1>2 DEF Page, Byte
<1>. QED
    BY <1>1, <1>2, <1>3 DEF Raised, Page

\* The slot that was taken is in use, so it is straight if all of those are.
LEMMA TakenSlot ==
    ASSUME NEW pg \in Page, NEW name \in Name, NEW addr \in 0 .. Top, NEW size \in 0 .. Top,
           AllStraight(aptRegister(pg, name, addr, size))
    PROVE  NextStraight(pg, name)
<1>. DEFINE u == aptRegister(pg, name, addr, size)
            i == Min(Slot \ Used(pg))
            cells == EntryCells(name, addr, size)
<1>. SUFFICES ASSUME aptFind(pg, name) = -1, Slot \ Used(pg) # {} PROVE Straight(i)
    BY DEF NextStraight
<1>1. i \in Slot
    <2>1. Slot \ Used(pg) \in SUBSET Slot
        OBVIOUS
    <2>. QED
        BY <2>1, LeastSlot
<1>2. u = WriteEntry(Raised(pg), i, cells)
    BY DEF aptRegister, Raised
<1>3. cells \in Seq(Byte) /\ Len(cells) = NameLen + 5 /\ cells[1] = 1
    BY CellsOfEntry
<1>. HIDE DEF u, i, cells
<1>4. Written(Raised(pg), u, i, cells)
    BY <1>1, <1>2, <1>3, CountRaised, WritesEntry
<1>5. i \in Used(u)
    <2>1. 1 % 2 = 1
        OBVIOUS
    <2>2. u[aptSlotBase(i)] = 1
        BY <1>3, <1>4 DEF Written
    <2>. QED
        BY <1>1, <2>1, <2>2 DEF Used, IsUsed
<1>. QED
    BY <1>5 DEF AllStraight, u

LEMMA Registers ==
    ASSUME NEW pg, Sane(pg), Counted(pg), AllStraight(pg),
           NEW name \in Name, NEW addr \in Nat, NEW size \in Nat \ {0},
           UserProgStart <= addr, addr + size <= Top,
           \A j \in Used(pg) : Apart(pg, j, addr, size),
           NextStraight(pg, name)
    PROVE  Registered(pg, aptRegister(pg, name, addr, size), name, addr)
<1>. DEFINE u == aptRegister(pg, name, addr, size)
            same == aptFind(pg, name)
            free == Slot \ Used(pg)
            more == Raised(pg)
            cells == EntryCells(name, addr, size)
<1>1. pg \in Page /\ Flagged(pg)
    BY DEF Sane, Flagged
<1>2. cells \in Seq(Byte) /\ Len(cells) = NameLen + 5 /\ cells[1] = 1
    <2>1. addr \in 0 .. Top /\ size \in 0 .. Top
        BY Sizes
    <2>. QED
        BY <2>1, CellsOfEntry
<1>. HIDE DEF cells
<1>3. CASE same # -1
    <2>1. same \in Used(pg)
        <3>1. Matching(pg, name) # {} /\ same = Min(Matching(pg, name))
            BY <1>3 DEF aptFind
        <3>2. Matching(pg, name) \in SUBSET Slot /\ Matching(pg, name) \subseteq Used(pg)
            BY UsedFinite DEF Matching
        <3>. QED
            BY <3>1, <3>2, LeastSlot
    <2>2. same \in Slot /\ Straight(same)
        BY <2>1, UsedFinite DEF AllStraight
    <2>3. u = WriteEntry(pg, same, cells)
        BY <1>3 DEF aptRegister, cells
    <2>. HIDE DEF same, u
    <2>4. Written(pg, u, same, cells)
        BY <1>1, <1>2, <2>2, <2>3, WritesEntry
    <2>5. /\ Sane(u) /\ Used(u) = Used(pg) \cup {same} /\ u[USEDSLOTS] = pg[USEDSLOTS]
          /\ \A j \in Used(u) \ {same} : SameEntry(pg, u, j)
          /\ Len(name) < NameLen \/ addr % PageUnits = 0 => aptNameMatch(u, same, name)
        BY <2>2, <2>4, SlotWritten DEF cells
    <2>6. Used(u) = Used(pg) /\ Counted(u) /\ AllStraight(u)
        BY <2>1, <2>5 DEF Counted, AllStraight
    <2>7. Registered(pg, u, name, addr)
        BY <2>5, <2>6 DEF Registered
    <2>. QED
        BY <2>7 DEF u
<1>4. CASE same = -1 /\ free = {}
    <2>1. u = pg
        BY <1>4 DEF aptRegister
    <2>. HIDE DEF u
    <2>2. Registered(pg, u, name, addr)
        BY <2>1 DEF Registered, SameEntry
    <2>. QED
        BY <2>2 DEF u
<1>5. CASE same = -1 /\ free # {}
    <2>. DEFINE i == Min(free)
    <2>1. i \in Slot /\ i \notin Used(pg)
        <3>1. free \in SUBSET Slot
            OBVIOUS
        <3>. QED
            BY <1>5, <3>1, LeastSlot
    <2>2. u = WriteEntry(more, i, cells)
        BY <1>5 DEF aptRegister, cells, Raised
    <2>3. Straight(i)
        BY <1>5 DEF NextStraight
    <2>. HIDE DEF u, i, same, free
    <2>4. /\ more \in Page /\ more[USEDSLOTS] = (pg[USEDSLOTS] + 1) % 256
          /\ \A j \in Slot : \A k \in Entry : more[aptSlotBase(j) + k] = pg[aptSlotBase(j) + k]
        BY <1>1, CountRaised
    <2>. HIDE DEF more
    <2>5. ASSUME NEW j \in Slot PROVE SameFlag(pg, more, j)
        <3>1. 0 \in Entry /\ aptSlotBase(j) + 0 = aptSlotBase(j)
            BY EntryPlaces, Sizes DEF Entry
        <3>2. more[aptSlotBase(j) + 0] = pg[aptSlotBase(j) + 0]
            BY <2>4, <3>1
        <3>. QED
            BY <3>1, <3>2 DEF SameFlag
    <2>6. Flagged(more) /\ Used(more) = Used(pg)
        <3>1. Flagged(more)
            BY <1>1, <2>4, <2>5 DEF Flagged, SameFlag
        <3>. QED
            BY <1>1, <2>5, <3>1, UsedByFlag DEF SameFlag
    <2>7. ASSUME NEW j \in Used(pg) PROVE SameEntry(pg, more, j)
        <3>1. j \in Slot /\ Straight(j)
            BY UsedFinite DEF AllStraight
        <3>. QED
            BY <2>4, <3>1, SameCells
    <2>8. Sane(more) /\ AllStraight(more)
        BY <2>6, <2>7, Fewer DEF AllStraight
    <2>9. Written(more, u, i, cells)
        BY <1>2, <2>1, <2>2, <2>4, WritesEntry
    <2>10. \A j \in Used(more) : Apart(more, j, addr, size)
        BY <2>6, <2>7 DEF Apart, End, SameEntry
    <2>11. /\ Sane(u) /\ Used(u) = Used(more) \cup {i} /\ u[USEDSLOTS] = more[USEDSLOTS]
           /\ \A j \in Used(u) \ {i} : SameEntry(more, u, j)
           /\ Len(name) < NameLen \/ addr % PageUnits = 0 => aptNameMatch(u, i, name)
        BY <2>1, <2>8, <2>9, <2>3, <2>10, SlotWritten DEF cells
    <2>12. Counted(u)
        <3>1. Cardinality(Used(pg) \cup {i}) = Cardinality(Used(pg)) + 1
            BY <2>1, UsedFinite, FS_AddElement
        <3>2. Used(pg) \cup {i} \subseteq Slot
            BY <2>1, UsedFinite
        <3>3. Cardinality(Used(pg)) \in Nat /\ Cardinality(Used(pg) \cup {i}) < 256
            BY <3>2, FewSlots, UsedFinite, FS_CardinalityType
        <3>4. (Cardinality(Used(pg)) + 1) % 256 = Cardinality(Used(pg)) + 1
            BY <3>1, <3>3
        <3>. QED
            BY <2>4, <2>6, <2>11, <3>1, <3>4 DEF Counted
    <2>13. \A j \in Used(u) \ {i} : j \in Used(pg) /\ SameEntry(pg, u, j)
        BY <2>6, <2>7, <2>11 DEF SameEntry
    <2>14. AllStraight(u)
        BY <2>3, <2>13 DEF AllStraight
    <2>15. Registered(pg, u, name, addr)
        BY <2>11, <2>12, <2>13, <2>14 DEF Registered
    <2>. QED
        BY <2>15 DEF u
<1>. QED
    BY <1>3, <1>4, <1>5

-----------------------------------------------------------------------------
(* aptRemove *)

\* What removing slots makes of the page.
Removed(pg, u, slots) ==
    /\ Sane(u) /\ Counted(u) /\ AllStraight(u)
    /\ Used(u) = Used(pg) \ slots
    /\ \A i \in Used(u) : SameEntry(pg, u, i)

LEMMA Removes ==
    ASSUME NEW pg, Sane(pg), Counted(pg), AllStraight(pg), NEW slots \in SUBSET Used(pg)
    PROVE  Removed(pg, aptRemoveSlots(pg, slots), slots)
<1>. DEFINE u == aptRemoveSlots(pg, slots)
            n == (pg[USEDSLOTS] - Cardinality(slots)) % 256
<1>1. pg \in Page /\ Flagged(pg) /\ Used(pg) = {j \in Slot : pg[aptSlotBase(j)] = 1}
    BY UsedByFlag DEF Sane, Flagged
<1>2. /\ \A j \in Slot : /\ aptSlotBase(j) \in Cells /\ aptSlotBase(j) # USEDSLOTS
                         /\ \A i \in Slot \ {j} : aptSlotBase(i) # aptSlotBase(j)
    <2>. SUFFICES ASSUME NEW j \in Slot
                  PROVE  /\ aptSlotBase(j) \in Cells /\ aptSlotBase(j) # USEDSLOTS
                         /\ \A i \in Slot \ {j} : aptSlotBase(i) # aptSlotBase(j)
        OBVIOUS
    <2>1. 0 \in Entry /\ \A i \in Slot : aptSlotBase(i) + 0 = aptSlotBase(i)
        BY EntryPlaces, Sizes DEF Entry
    <2>2. aptSlotBase(j) + 0 \in Cells
        BY <2>1, EntryPlaces
    <2>3. \A i \in Slot \ {j} : aptSlotBase(j) + 0 # aptSlotBase(i) + 0
        BY <2>1, EntryPlaces
    <2>4. aptSlotBase(j) # USEDSLOTS
        BY EntryPlaces DEF USEDSLOTS
    <2>. QED
        BY <2>1, <2>2, <2>3, <2>4
<1>3. slots \subseteq Slot /\ IsFiniteSet(slots) /\ IsFiniteSet(Used(pg))
    BY UsedFinite, FS_Subset
<1>4. n = Cardinality(Used(pg) \ slots) /\ n \in Byte
    <2>1. /\ Cardinality(Used(pg)) \in Nat /\ Cardinality(slots) \in Nat
          /\ Cardinality(slots) <= Cardinality(Used(pg))
        BY <1>3, FS_CardinalityType, FS_Subset
    <2>2. Cardinality(Used(pg)) < 256
        BY UsedFinite, FewSlots
    <2>3. Used(pg) \cap slots = slots
        OBVIOUS
    <2>4. Cardinality(Used(pg) \ slots) = Cardinality(Used(pg)) - Cardinality(slots)
        BY <1>3, <2>3, FS_Difference
    <2>. QED
        BY <2>1, <2>2, <2>4 DEF Counted, Byte
<1>5. u = [c \in Cells |-> IF \E i \in slots : c = aptSlotBase(i) THEN 0
                          ELSE IF c = USEDSLOTS THEN n ELSE pg[c]]
    BY DEF aptRemoveSlots
<1>. HIDE DEF u, n
<1>6. u \in Page
    <2>1. 0 \in Byte
        BY DEF Byte
    <2>. QED
        BY <1>1, <1>4, <1>5, <2>1 DEF Page
<1>7. \A i \in Slot : u[aptSlotBase(i)] = IF i \in slots THEN 0 ELSE pg[aptSlotBase(i)]
    BY <1>2, <1>3, <1>5
<1>8. Flagged(u)
    BY <1>1, <1>6, <1>7 DEF Flagged
<1>9. Used(u) = Used(pg) \ slots
    BY <1>1, <1>7, <1>8, UsedByFlag
<1>10. ASSUME NEW i \in Used(u) PROVE SameEntry(pg, u, i)
    <2>1. i \in Slot /\ Straight(i) /\ i \notin slots
        BY <1>9, UsedFinite DEF AllStraight
    <2>2. ASSUME NEW k \in Entry PROVE u[aptSlotBase(i) + k] = pg[aptSlotBase(i) + k]
        <3>1. aptSlotBase(i) + k \in Cells /\ aptSlotBase(i) + k # USEDSLOTS
            BY <2>1, EntryPlaces, Sizes DEF Entry, USEDSLOTS
        <3>2. 0 \in Entry
            BY Sizes DEF Entry
        <3>3. ASSUME NEW j \in slots PROVE aptSlotBase(i) + k # aptSlotBase(j)
            <4>1. j \in Slot \ {i}
                BY <1>3, <2>1
            <4>2. aptSlotBase(i) + k # aptSlotBase(j) + 0
                BY <2>1, <3>2, <4>1, EntryPlaces
            <4>. QED
                BY <4>1, <4>2, EntryPlaces
        <3>. QED
            BY <1>5, <3>1, <3>3
    <2>. QED
        BY <2>1, <2>2, SameCells
<1>11. Sane(u)
    BY <1>8, <1>9, <1>10, Fewer
<1>12. USEDSLOTS \in Cells
    <2>1. 0 \in Slot
        BY AppTableAssumption DEF Slot
    <2>2. aptSlotBase(0) \in Cells
        BY <1>2, <2>1
    <2>3. aptSlotBase(0) \in Nat /\ aptSlotBase(0) > USEDSLOTS
        BY <2>1, EntryPlaces DEF USEDSLOTS
    <2>. QED
        BY <2>2, <2>3, Sizes DEF Cells, USEDSLOTS
<1>13. u[USEDSLOTS] = n
    BY <1>2, <1>3, <1>5, <1>12
<1>14. Removed(pg, u, slots)
    BY <1>4, <1>9, <1>10, <1>11, <1>13 DEF Removed, Counted, AllStraight
<1>. QED
    BY <1>14 DEF u

-----------------------------------------------------------------------------
(* aptFindFreeRegion *)

LEMMA InRange ==
    ASSUME NEW pg, Sane(pg), NEW addr \in Nat, NEW size \in Nat
    PROVE  /\ aptCheckRange(pg, addr, size) = SAFE =>
                 /\ UserProgStart <= addr /\ addr + size <= Top
                 /\ \A i \in Used(pg) : Apart(pg, i, addr, size)
           /\ aptCheckRange(pg, addr, size) = PROTECTED =>
                 addr < UserProgStart \/ Top < addr + size
           /\ aptCheckRange(pg, addr, size) \notin {SAFE, PROTECTED} =>
                 LET i == aptCheckRange(pg, addr, size)
                 IN  i \in Used(pg) /\ Start(pg, i) < addr + size /\ addr < End(pg, i)
<1>. DEFINE hit == {i \in Used(pg) : Start(pg, i) < addr + size /\ addr < End(pg, i)}
            r == aptCheckRange(pg, addr, size)
<1>1. r = IF addr < UserProgStart \/ addr + size > Top THEN PROTECTED
          ELSE IF hit = {} THEN SAFE ELSE Min(hit)
    BY DEF aptCheckRange
<1>2. hit # {} => Min(hit) \in hit /\ Min(hit) \in Nat
    <2>1. hit \in SUBSET Slot
        BY UsedFinite
    <2>. HIDE DEF hit
    <2>. QED
        BY <2>1, LeastSlot, Sizes
<1>3. \A i \in Used(pg) : Start(pg, i) \in Int /\ End(pg, i) \in Int
    BY DEF Sane, InMemory, End
<1>4. hit = {} => \A i \in Used(pg) : Apart(pg, i, addr, size)
    BY <1>3 DEF Apart
<1>. HIDE DEF r
<1>5. CASE r = SAFE
    <2>1. ~(addr < UserProgStart) /\ ~(addr + size > Top) /\ hit = {}
        BY <1>1, <1>2, <1>5 DEF SAFE, PROTECTED
    <2>. QED
        BY <1>4, <1>5, <2>1, Sizes DEF r, SAFE, PROTECTED
<1>6. CASE r = PROTECTED
    <2>1. addr < UserProgStart \/ addr + size > Top
        BY <1>1, <1>2, <1>6 DEF SAFE, PROTECTED
    <2>. QED
        BY <1>6, <2>1, Sizes DEF r, SAFE, PROTECTED
<1>7. CASE r \notin {SAFE, PROTECTED}
    <2>1. r \in hit
        BY <1>1, <1>2, <1>7
    <2>. QED
        BY <1>7, <2>1 DEF r
<1>. QED
    BY <1>5, <1>6, <1>7

\* The pages where n units fit, and those of them that are not below a.
Fits(pg, n) ==
    {a \in UserMemory : /\ a % PageUnits = 0 /\ a + n <= Top
                        /\ \A i \in Used(pg) : Apart(pg, i, a, n)}
From(pg, n, a)  == {b \in Fits(pg, n) : a <= b}
First(pg, n, a) == IF From(pg, n, a) = {} THEN -1 ELSE Min(From(pg, n, a))

Scanned == UserProgStart .. Top + PageUnits

\* One step of the scan, from address a.
ScanStep(pg, n, scan, a) ==
    LET r == aptCheckRange(pg, a, n)
    IN  IF r = SAFE THEN a
        ELSE IF r = PROTECTED THEN -1
        ELSE scan[RoundUp(End(pg, r))]

\* From a page boundary on, the first fit is found here, or nowhere, or
\* behind the app in the way, which is further on.
LEMMA FirstStep ==
    ASSUME NEW pg, Sane(pg), NEW n \in Nat \ {0},
           NEW a \in Scanned, a % PageUnits = 0
    PROVE  LET r == aptCheckRange(pg, a, n)
               b == RoundUp(End(pg, r))
           IN  /\ r = SAFE => First(pg, n, a) = a
               /\ r = PROTECTED => First(pg, n, a) = -1
               /\ r \notin {SAFE, PROTECTED} =>
                     /\ b \in Scanned /\ b % PageUnits = 0 /\ a < b
                     /\ First(pg, n, a) = First(pg, n, b)
<1>. DEFINE r == aptCheckRange(pg, a, n)
            b == RoundUp(End(pg, r))
<1>1. a \in Nat /\ UserProgStart <= a /\ a <= Top + PageUnits
    BY Sizes DEF Scanned
<1>2. \A c \in UserMemory : c \in Nat
    BY Sizes DEF UserMemory
<1>3. /\ r = SAFE => /\ UserProgStart <= a /\ a + n <= Top
                     /\ \A i \in Used(pg) : Apart(pg, i, a, n)
      /\ r = PROTECTED => a < UserProgStart \/ Top < a + n
      /\ r \notin {SAFE, PROTECTED} =>
            r \in Used(pg) /\ Start(pg, r) < a + n /\ a < End(pg, r)
    BY <1>1, InRange
<1>. HIDE DEF r
<1>4. ASSUME r = SAFE PROVE First(pg, n, a) = a
    <2>1. a \in From(pg, n, a)
        BY <1>1, <1>3, <1>4, Sizes DEF From, Fits, UserMemory
    <2>2. \A c \in From(pg, n, a) : a <= c /\ c \in Nat
        BY <1>2 DEF From, Fits
    <2>3. Min(From(pg, n, a)) = a
        BY <1>1, <2>1, <2>2 DEF Min
    <2>. QED
        BY <2>1, <2>3 DEF First
<1>5. ASSUME r = PROTECTED PROVE First(pg, n, a) = -1
    <2>1. Top < a + n
        BY <1>1, <1>3, <1>5, Sizes
    <2>2. From(pg, n, a) = {}
        BY <1>1, <1>2, <2>1, Sizes DEF From, Fits
    <2>. QED
        BY <2>2 DEF First
<1>6. ASSUME r \notin {SAFE, PROTECTED}
      PROVE  b \in Scanned /\ b % PageUnits = 0 /\ a < b /\ First(pg, n, a) = First(pg, n, b)
    <2>1. r \in Used(pg) /\ Start(pg, r) < a + n /\ a < End(pg, r)
        BY <1>3, <1>6
    <2>2. Start(pg, r) \in Nat /\ End(pg, r) \in Nat /\ End(pg, r) <= Top
        BY <2>1 DEF Sane, InMemory, End
    <2>3. /\ b \in Nat /\ b >= End(pg, r) /\ b % PageUnits = 0
          /\ \A c \in Nat : c % PageUnits = 0 /\ End(pg, r) <= c => b <= c
        BY <2>2, Rounded
    <2>4. b <= Top
        BY <2>2, <2>3, AppTableAssumption
    <2>. HIDE DEF b
    <2>5. b \in Scanned /\ a < b
        BY <1>1, <2>1, <2>2, <2>3, <2>4, Sizes DEF Scanned
    <2>6. ASSUME NEW c \in Fits(pg, n), a <= c PROVE b <= c
        <3>1. c \in Nat /\ c % PageUnits = 0 /\ Apart(pg, r, c, n)
            BY <1>2, <2>1 DEF Fits
        <3>2. End(pg, r) <= c
            BY <1>1, <2>1, <2>2, <2>6, <3>1 DEF Apart
        <3>. QED
            BY <2>3, <3>1, <3>2
    <2>7. \A c \in Fits(pg, n) : b <= c => a <= c
        BY <1>1, <1>2, <2>3, <2>5 DEF Fits
    <2>8. From(pg, n, a) = From(pg, n, b)
        BY <2>6, <2>7 DEF From
    <2>. QED
        BY <2>3, <2>5, <2>8 DEF First
<1>. QED
    BY <1>4, <1>5, <1>6 DEF r

\* Any function the steps of the scan define returns first fits.
LEMMA ScanFinds ==
    ASSUME NEW pg, Sane(pg), NEW n \in Nat \ {0},
           NEW scan, scan = [a \in Scanned |-> ScanStep(pg, n, scan, a)],
           NEW a \in Scanned, a % PageUnits = 0
    PROVE  scan[a] = First(pg, n, a)
<1>. DEFINE limit == Top + PageUnits
            Right(b) == b % PageUnits = 0 => scan[b] = First(pg, n, b)
            S == {k \in Nat : \A b \in Scanned : limit - b <= k => Right(b)}
<1>1. limit \in Nat /\ \A b \in Scanned : b \in Nat /\ b <= limit
    BY Sizes DEF Scanned
<1>2. ASSUME NEW b \in Scanned, b % PageUnits = 0,
             \A c \in Scanned : b < c => Right(c)
      PROVE  scan[b] = First(pg, n, b)
    <2>. DEFINE r == aptCheckRange(pg, b, n)
                c == RoundUp(End(pg, r))
    <2>1. /\ r = SAFE => First(pg, n, b) = b
          /\ r = PROTECTED => First(pg, n, b) = -1
          /\ r \notin {SAFE, PROTECTED} =>
                /\ c \in Scanned /\ c % PageUnits = 0 /\ b < c
                /\ First(pg, n, b) = First(pg, n, c)
        BY <1>2, FirstStep
    <2>2. scan[b] = IF r = SAFE THEN b ELSE IF r = PROTECTED THEN -1 ELSE scan[c]
        BY <1>2 DEF ScanStep
    <2>. HIDE DEF r, c
    <2>3. r \notin {SAFE, PROTECTED} => scan[c] = First(pg, n, c)
        BY <1>2, <2>1
    <2>. QED
        BY <2>1, <2>2, <2>3
<1>. HIDE DEF limit
<1>3. 0 \in S
    <2>. SUFFICES ASSUME NEW b \in Scanned, limit - b <= 0 PROVE Right(b)
        OBVIOUS
    <2>1. \A c \in Scanned : ~(b < c)
        BY <1>1
    <2>. QED
        BY <1>2, <2>1
<1>4. ASSUME NEW k \in S PROVE k + 1 \in S
    <2>. SUFFICES ASSUME NEW b \in Scanned, limit - b <= k + 1 PROVE Right(b)
        OBVIOUS
    <2>1. \A c \in Scanned : b < c => limit - c <= k
        BY <1>1
    <2>2. \A c \in Scanned : b < c => Right(c)
        BY <2>1
    <2>. QED
        BY <1>2, <2>2
<1>5. S = Nat
    <2>. HIDE DEF S
    <2>1. S \in SUBSET Nat
        BY DEF S
    <2>. QED
        BY <1>3, <1>4, <2>1, NumbersByInduction
<1>6. limit - a \in Nat /\ limit - a <= limit - a
    BY <1>1
<1>7. Right(a)
    BY <1>5, <1>6
<1>. QED
    BY <1>7

\* aptFindFreeRegion returns the first page where the size fits.
LEMMA Finds ==
    ASSUME NEW pg, Sane(pg), NEW n \in Nat \ {0}, UserProgStart <= Top
    PROVE  aptFindFreeRegion(pg, n) = First(pg, n, UserProgStart)
<1>. DEFINE Solves(scan) == scan = [a \in Scanned |-> ScanStep(pg, n, scan, a)]
            next(a) == RoundUp(End(pg, aptCheckRange(pg, a, n)))
            known == [a \in Scanned |->
                        LET r == aptCheckRange(pg, a, n)
                        IN  IF r = SAFE THEN a
                            ELSE IF r = PROTECTED THEN -1
                            ELSE First(pg, n, next(a))]
<1>1. aptFindFreeRegion(pg, n) = (CHOOSE scan : Solves(scan))[UserProgStart]
    BY DEF aptFindFreeRegion, ScanStep, Scanned
<1>2. ASSUME NEW a \in Scanned, aptCheckRange(pg, a, n) \notin {SAFE, PROTECTED}
      PROVE  next(a) \in Scanned /\ next(a) % PageUnits = 0
    <2>. DEFINE r == aptCheckRange(pg, a, n)
    <2>1. a \in Nat
        BY Sizes DEF Scanned
    <2>2. r \in Used(pg) /\ Start(pg, r) < a + n /\ a < End(pg, r)
        BY <1>2, <2>1, InRange
    <2>. HIDE DEF r
    <2>3. End(pg, r) \in Nat /\ UserProgStart <= End(pg, r) /\ End(pg, r) <= Top
        BY <2>2, Sizes DEF Sane, InMemory, End
    <2>. DEFINE b == RoundUp(End(pg, r))
    <2>4. b \in Nat /\ b >= End(pg, r) /\ b % PageUnits = 0 /\ b <= Top
        BY <2>3, Rounded, AppTableAssumption
    <2>. HIDE DEF b
    <2>5. b \in Scanned
        BY <2>3, <2>4, Sizes DEF Scanned
    <2>. QED
        BY <2>4, <2>5 DEF b, r
<1>. HIDE DEF next
<1>3. ASSUME NEW a \in Scanned, a % PageUnits = 0
      PROVE  known[a] = First(pg, n, a)
    <2>. DEFINE r == aptCheckRange(pg, a, n)
    <2>1. /\ r = SAFE => First(pg, n, a) = a
          /\ r = PROTECTED => First(pg, n, a) = -1
          /\ r \notin {SAFE, PROTECTED} => First(pg, n, a) = First(pg, n, next(a))
        BY <1>3, FirstStep DEF next
    <2>. QED
        BY <2>1
<1>4. ASSUME NEW a \in Scanned PROVE known[a] = ScanStep(pg, n, known, a)
    <2>. DEFINE r == aptCheckRange(pg, a, n)
    <2>1. known[a] = IF r = SAFE THEN a ELSE IF r = PROTECTED THEN -1
                     ELSE First(pg, n, next(a))
        OBVIOUS
    <2>2. ScanStep(pg, n, known, a) =
             IF r = SAFE THEN a ELSE IF r = PROTECTED THEN -1 ELSE known[next(a)]
        BY DEF ScanStep, next
    <2>. HIDE DEF known, r
    <2>3. r \notin {SAFE, PROTECTED} => known[next(a)] = First(pg, n, next(a))
        BY <1>2, <1>3 DEF r
    <2>. QED
        BY <2>1, <2>2, <2>3
<1>5. Solves(known)
    <2>1. known = [a \in Scanned |-> known[a]]
        OBVIOUS
    <2>. HIDE DEF known
    <2>. QED
        BY <1>4, <2>1, Zenon
<1>. HIDE DEF known
<1>6. PICK scan : Solves(scan) /\ scan = CHOOSE s : Solves(s)
    BY <1>5
<1>7. UserProgStart \in Scanned /\ UserProgStart % PageUnits = 0
    BY AppTableAssumption, Sizes DEF Scanned
<1>8. scan[UserProgStart] = First(pg, n, UserProgStart)
    BY <1>6, <1>7, ScanFinds
<1>. QED
    BY <1>1, <1>6, <1>8

\* The region of n units at a is in user memory and meets no registered app.
Spare(pg, n, a) ==
    /\ UserProgStart <= a /\ a + n <= Top
    /\ \A i \in Used(pg) : Apart(pg, i, a, n)

\* Where the region is found there is room.
LEMMA FindsRoom ==
    ASSUME NEW pg, Sane(pg), NEW n \in Nat \ {0}, UserProgStart <= Top,
           aptFindFreeRegion(pg, n) # -1
    PROVE  LET a == aptFindFreeRegion(pg, n)
           IN  a \in Nat /\ a % PageUnits = 0 /\ Spare(pg, n, a)
<1>. DEFINE a == aptFindFreeRegion(pg, n)
            fits == From(pg, n, UserProgStart)
<1>1. a = First(pg, n, UserProgStart)
    BY Finds
<1>. HIDE DEF a
<1>2. fits # {} /\ a = Min(fits)
    BY <1>1 DEF First, a
<1>3. \A b \in fits : /\ b \in Nat /\ b % PageUnits = 0 /\ UserProgStart <= b /\ b + n <= Top
                      /\ \A i \in Used(pg) : Apart(pg, i, b, n)
    BY Sizes DEF From, Fits, UserMemory
<1>. HIDE DEF fits
<1>4. PICK b \in fits : \A c \in fits : b <= c
    <2>1. fits \in SUBSET Nat
        BY <1>3
    <2>. QED
        BY <1>2, <2>1, LeastNumber
<1>5. a \in fits
    BY <1>2, <1>4 DEF Min
<1>6. a \in Nat /\ a % PageUnits = 0 /\ Spare(pg, n, a)
    BY <1>3, <1>5 DEF Spare
<1>. QED
    BY <1>6 DEF a

-----------------------------------------------------------------------------
(* The programs and where LOAD puts them *)

LEMMA Files ==
    ASSUME NEW p \in Programs
    PROVE  /\ p.name \in Name /\ p.image \in Nat \ {0} /\ p.code \in Nat \ {0}
           /\ p.code <= p.image /\ (p.base = -1 => p.code = p.image)
           /\ UserProgStart + p.image <= Top /\ UserProgStart <= Top
<1>1. /\ p.name \in Seq(1 .. 255) /\ Len(p.name) \in 1 .. NameLen
      /\ p.image \in Nat /\ p.code \in 1 .. p.image
      /\ (p.base = -1 => p.code = p.image)
      /\ UserProgStart + p.image <= Top
    BY AppTableAssumption
<1>. QED
    BY <1>1, Sizes DEF Name

LEMMA Targets ==
    ASSUME NEW p \in Programs, Sane(page), NEW a \in LoadTargets(p)
    PROVE  /\ a \in Nat /\ Spare(page, p.image, a) /\ Spare(page, p.code, a)
           /\ a \in LoadAddrs \/ a % PageUnits = 0
<1>1. /\ p.image \in Nat \ {0} /\ p.code \in Nat \ {0} /\ p.code <= p.image
      /\ UserProgStart <= Top
    BY Files
<1>2. /\ a \in Nat /\ Spare(page, p.image, a)
      /\ a \in LoadAddrs \/ a % PageUnits = 0
    <2>1. CASE a \in LoadAddrs /\ aptCheckRange(page, a, p.image) = SAFE
        <3>1. a \in Nat
            BY <2>1, AppTableAssumption
        <3>2. /\ UserProgStart <= a /\ a + p.image <= Top
              /\ \A i \in Used(page) : Apart(page, i, a, p.image)
            BY <1>1, <2>1, <3>1, InRange
        <3>. QED
            BY <2>1, <3>1, <3>2 DEF Spare
    <2>2. CASE a = aptFindFreeRegion(page, p.image) /\ a # -1
        BY <1>1, <2>2, FindsRoom
    <2>. QED
        BY <2>1, <2>2 DEF LoadTargets
<1>3. Spare(page, p.code, a)
    <2>1. \A i \in Used(page) : Start(page, i) \in Int /\ End(page, i) \in Int
        BY DEF Sane, InMemory, End
    <2>. QED
        BY <1>1, <1>2, <2>1, Sizes DEF Spare, Apart
<1>. QED
    BY <1>2, <1>3

-----------------------------------------------------------------------------
(* The invariant *)

Contents == {p.name : p \in Programs} \cup {Nothing, System}

\* Memory as loading leaves it: outside of user memory, the system.
Kept(m) ==
    /\ m \in [Memory -> Contents]
    /\ \A u \in Memory \ UserMemory : m[u] = System

IInv ==
    /\ Sane(page)
    /\ Counted(page)
    /\ Kept(mem)

LEMMA Starts ==
    Init => IInv /\ TableStraight
<1>. SUFFICES ASSUME Init PROVE IInv /\ TableStraight
    OBVIOUS
<1>1. page = [c \in Cells |-> IF c = 0 THEN MaxSlots ELSE 0]
    BY DEF Init
<1>2. page \in Page
    BY <1>1, Sizes DEF Page, Byte
<1>3. ASSUME NEW i \in Slot PROVE page[aptSlotBase(i)] = 0
    <2>1. aptSlotBase(i) \in Nat /\ aptSlotBase(i) > 0
        BY EntryPlaces DEF USEDSLOTS
    <2>2. 0 \in Entry /\ aptSlotBase(i) + 0 = aptSlotBase(i)
        BY <2>1, Sizes DEF Entry
    <2>3. aptSlotBase(i) \in Cells
        BY <2>2, EntryPlaces
    <2>. QED
        BY <1>1, <2>1, <2>3
<1>4. Flagged(page) /\ Used(page) = {}
    <2>1. Flagged(page)
        BY <1>2, <1>3 DEF Flagged
    <2>. QED
        BY <1>3, <2>1, UsedByFlag
<1>5. Sane(page)
    BY <1>4 DEF Sane
<1>6. Counted(page)
    <2>1. USEDSLOTS \in Cells
        <3>1. 0 \in Slot
            BY AppTableAssumption DEF Slot
        <3>2. aptSlotBase(0) \in Nat /\ aptSlotBase(0) > USEDSLOTS
            BY <3>1, EntryPlaces DEF USEDSLOTS
        <3>3. 0 \in Entry /\ aptSlotBase(0) + 0 = aptSlotBase(0)
            BY <3>2, Sizes DEF Entry
        <3>4. aptSlotBase(0) \in Cells
            BY <3>1, <3>3, EntryPlaces
        <3>. QED
            BY <3>2, <3>4, CountCell
    <2>2. page[USEDSLOTS] = 0
        BY <1>1, <2>1 DEF USEDSLOTS
    <2>. QED
        BY <1>4, <2>2, FS_EmptySet DEF Counted
<1>7. Kept(mem)
    BY DEF Init, Contents, Kept
<1>8. AllStraight(page)
    BY <1>4 DEF AllStraight
<1>. QED
    BY <1>5, <1>6, <1>7, <1>8 DEF IInv, TableStraight, AllStraight

\* A page of user memory, and what it starts with.
LEMMA PageBelow ==
    ASSUME NEW addr \in Nat, UserProgStart <= addr
    PROVE  LET first == (addr \div PageUnits) * PageUnits
           IN  first \in Nat /\ UserProgStart <= first /\ first <= addr
<1>. DEFINE n == PageUnits
            q == addr \div n
            k == UserProgStart \div n
<1>1. n \in Nat \ {0} /\ UserProgStart \in Nat /\ UserProgStart % n = 0
    BY AppTableAssumption
<1>. HIDE DEF n
<1>2. (addr % n) + n * q = addr /\ q \in Nat /\ addr % n \in 0 .. n - 1
    BY <1>1, Divided
<1>3. 0 + n * k = UserProgStart /\ k \in Nat
    BY <1>1, Divided
<1>. HIDE DEF q, k
<1>4. n * q = q * n /\ n * k = k * n /\ q * n \in Nat
    BY <1>1, <1>2, <1>3
<1>5. ~(q < k)
    <2>. SUFFICES ASSUME q < k PROVE FALSE
        OBVIOUS
    <2>1. q * n + n <= k * n
        BY <1>1, <1>2, <1>3, Spaced
    <2>. QED
        BY <1>1, <1>2, <1>3, <1>4, <2>1
<1>6. k * n <= q * n
    <2>1. CASE k = q
        BY <1>4, <2>1
    <2>2. CASE k < q
        <3>1. k * n + n <= q * n
            BY <1>1, <1>2, <1>3, <2>2, Spaced
        <3>. QED
            BY <1>1, <1>3, <1>4, <3>1
    <2>. QED
        BY <1>2, <1>3, <1>5, <2>1, <2>2
<1>7. q * n \in Nat /\ UserProgStart <= q * n /\ q * n <= addr
    BY <1>1, <1>2, <1>3, <1>4, <1>6
<1>. QED
    BY <1>7 DEF q, n

\* Loading and patching within user memory leave the rest what it is.
LEMMA Loads ==
    ASSUME Kept(mem), NEW p \in Programs, NEW addr \in Nat, NEW len \in Nat,
           UserProgStart <= addr, addr + len <= Top
    PROVE  /\ Kept(Loaded(p.name, addr, len))
           /\ Kept(Loaded(Nothing, addr, len))
           /\ p.code <= len => Kept(Relocated(Loaded(p.name, addr, len), p, addr))
<1>1. p.name \in Contents /\ Nothing \in Contents
    BY DEF Contents
<1>2. mem \in [Memory -> Contents] /\ \A u \in Memory \ UserMemory : mem[u] = System
    BY DEF Kept
<1>3. UserProgStart \in Nat /\ Top \in Nat /\ p.code \in Nat
    BY Sizes, Files
<1>4. ASSUME NEW u \in Memory \ UserMemory, NEW b \in Nat, NEW n \in Nat,
             UserProgStart <= b, b + n <= Top
      PROVE  u \notin b .. b + n - 1
    BY <1>3, <1>4, Sizes DEF Memory, UserMemory
<1>5. Kept(Loaded(p.name, addr, len))
    BY <1>1, <1>2, <1>4 DEF Loaded, Kept
<1>6. Kept(Loaded(Nothing, addr, len))
    BY <1>1, <1>2, <1>4 DEF Loaded, Kept
<1>. DEFINE m == Loaded(p.name, addr, len)
            first == (addr \div PageUnits) * PageUnits
<1>7. first \in Nat /\ UserProgStart <= first /\ first <= addr
    BY PageBelow
<1>8. m \in [Memory -> Contents] /\ \A u \in Memory \ UserMemory : m[u] = System
    BY <1>5 DEF Kept
<1>. HIDE DEF m
<1>9. ASSUME p.code <= len PROVE Kept(Relocated(m, p, addr))
    <2>. DEFINE patched == [u \in Memory |-> IF u \in first .. first + p.code - 1
                                             THEN Nothing ELSE m[u]]
    <2>1. Relocated(m, p, addr) = m \/ Relocated(m, p, addr) = patched
        BY DEF Relocated
    <2>. HIDE DEF first
    <2>2. first + p.code <= Top
        BY <1>3, <1>7, <1>9
    <2>3. \A u \in Memory \ UserMemory : u \notin first .. first + p.code - 1
        BY <1>3, <1>4, <1>7, <2>2
    <2>4. Kept(patched)
        BY <1>1, <1>8, <2>3 DEF Kept
    <2>5. Kept(m)
        BY <1>8 DEF Kept
    <2>. QED
        BY <2>1, <2>4, <2>5
<1>. QED
    BY <1>5, <1>6, <1>9 DEF m

\* LOAD registers what it loaded, and where.
LEMMA LoadRegisters ==
    ASSUME IInv, TableStraight, NEW p \in Programs, NextStraight(page, p.name),
           NEW a \in LoadTargets(p),
           page' = aptRegister(page, p.name, a, p.code)
    PROVE  Registered(page, page', p.name, a)
<1>1. Sane(page) /\ Counted(page) /\ AllStraight(page)
    BY DEF IInv, TableStraight, AllStraight
<1>2. a \in Nat /\ Spare(page, p.code, a)
    BY <1>1, Targets
<1>3. p.name \in Name /\ p.code \in Nat \ {0}
    BY Files
<1>4. Registered(page, aptRegister(page, p.name, a, p.code), p.name, a)
    BY <1>1, <1>2, <1>3, Registers DEF Spare
<1>. QED
    BY <1>4

\* The slots an external command covers.
Covered(p) == {i \in Used(page) : Start(page, i) < UserProgStart + p.code
                                  /\ UserProgStart < End(page, i)}

\* What is left of the table when they are removed has room for it.
LEMMA ExternalRegisters ==
    ASSUME IInv, TableStraight, NEW p \in Programs, External(p),
           NextStraight(aptRemoveSlots(page, Covered(p)), p.name)
    PROVE  LET u == aptRemoveSlots(page, Covered(p))
           IN  /\ Removed(page, u, Covered(p))
               /\ Registered(u, page', p.name, UserProgStart)
<1>. DEFINE u == aptRemoveSlots(page, Covered(p))
<1>1. Sane(page) /\ Counted(page) /\ AllStraight(page)
    BY DEF IInv, TableStraight, AllStraight
<1>2. Covered(p) \in SUBSET Used(page)
    BY DEF Covered
<1>3. Removed(page, u, Covered(p))
    BY <1>1, <1>2, Removes
<1>4. page' = aptRegister(u, p.name, UserProgStart, p.code)
    BY DEF External, Covered
<1>. HIDE DEF u
<1>5. Sane(u) /\ Counted(u) /\ AllStraight(u) /\ Used(u) = Used(page) \ Covered(p)
      /\ \A i \in Used(u) : SameEntry(page, u, i)
    BY <1>3 DEF Removed
<1>6. p.name \in Name /\ p.code \in Nat \ {0} /\ UserProgStart + p.code <= Top
      /\ UserProgStart \in Nat /\ UserProgStart <= UserProgStart
    BY Files, Sizes
<1>7. ASSUME NEW i \in Used(u) PROVE Apart(u, i, UserProgStart, p.code)
    <2>1. i \in Used(page) /\ i \notin Covered(p) /\ SameEntry(page, u, i)
        BY <1>5
    <2>2. Start(page, i) \in Int /\ End(page, i) \in Int
        BY <1>1, <2>1 DEF Sane, InMemory, End
    <2>3. ~(Start(page, i) < UserProgStart + p.code /\ UserProgStart < End(page, i))
        BY <2>1 DEF Covered
    <2>4. Apart(page, i, UserProgStart, p.code)
        BY <1>6, <2>2, <2>3 DEF Apart
    <2>. QED
        BY <2>1, <2>4 DEF Apart, End, SameEntry
<1>8. NextStraight(u, p.name)
    BY DEF u
<1>9. Registered(u, aptRegister(u, p.name, UserProgStart, p.code), p.name, UserProgStart)
    BY <1>5, <1>6, <1>7, <1>8, Registers
<1>. QED
    BY <1>3, <1>4, <1>9 DEF u

\* The next name to be registered gets a straight slot.
Room ==
    \A p \in Programs :
       /\ cmdLoad(p) => NextStraight(page, p.name)
       /\ External(p) => NextStraight(aptRemoveSlots(page, Covered(p)), p.name)

LEMMA Steps ==
    IInv /\ TableStraight /\ Room /\ [Next]_vars => IInv' /\ TableStraight'
<1>. DEFINE Goal == IInv' /\ TableStraight'
<1>. SUFFICES ASSUME IInv, TableStraight, Room, [Next]_vars PROVE Goal
    OBVIOUS
<1>1. /\ Sane(page) /\ Counted(page) /\ AllStraight(page)
      /\ Kept(mem)
    BY DEF IInv, TableStraight, AllStraight
<1>2. ASSUME NEW p \in Programs, cmdLoad(p) PROVE Goal
    <2>1. PICK a \in LoadTargets(p) :
             /\ mem' = Relocated(Loaded(p.name, a, p.image), p, a)
             /\ page' = aptRegister(page, p.name, a, p.code)
        BY <1>2 DEF cmdLoad
    <2>2. Registered(page, page', p.name, a)
        BY <1>2, <2>1, LoadRegisters DEF Room
    <2>3. Kept(mem')
        <3>1. /\ a \in Nat /\ UserProgStart <= a /\ a + p.image <= Top
              /\ p.image \in Nat /\ p.code <= p.image
            BY <1>1, Targets, Files DEF Spare
        <3>. QED
            BY <1>1, <2>1, <3>1, Loads
    <2>. QED
        BY <2>2, <2>3 DEF IInv, Registered, TableStraight, AllStraight, Kept
<1>3. ASSUME NEW p \in Programs, cmdLoadError(p) PROVE Goal
    <2>1. PICK a \in LoadTargets(p), len \in 0 .. p.image - 1 : mem' = Loaded(Nothing, a, len)
        BY <1>3 DEF cmdLoadError
    <2>2. Kept(mem')
        <3>1. a \in Nat /\ UserProgStart <= a /\ a + p.image <= Top /\ p.image \in Nat
            BY <1>1, Targets, Files DEF Spare
        <3>2. len \in Nat /\ a + len <= Top
            BY <3>1, Sizes
        <3>. QED
            BY <1>1, <2>1, <3>1, <3>2, Loads
    <2>3. page' = page
        BY <1>3 DEF cmdLoadError
    <2>. QED
        BY <1>1, <2>2, <2>3 DEF IInv, TableStraight, AllStraight, Kept
<1>4. ASSUME NEW p \in Programs, External(p) PROVE Goal
    <2>1. Registered(aptRemoveSlots(page, Covered(p)), page', p.name, UserProgStart)
        BY <1>4, ExternalRegisters DEF Room
    <2>2. mem' = Loaded(p.name, UserProgStart, p.image)
        BY <1>4 DEF External
    <2>3. Kept(mem')
        <3>1. UserProgStart \in Nat /\ UserProgStart + p.image <= Top /\ p.image \in Nat
            BY Sizes, Files
        <3>. QED
            BY <1>1, <2>2, <3>1, Loads
    <2>. QED
        BY <2>1, <2>3 DEF IInv, Registered, TableStraight, AllStraight, Kept
<1>5. ASSUME NEW p \in Programs, ExternalError(p) PROVE Goal
    <2>1. PICK len \in 0 .. p.image - 1 : mem' = Loaded(Nothing, UserProgStart, len)
        BY <1>5 DEF ExternalError
    <2>2. Kept(mem')
        <3>1. /\ UserProgStart \in Nat /\ len \in Nat
              /\ UserProgStart <= UserProgStart /\ UserProgStart + len <= Top
            BY Sizes, Files
        <3>. QED
            BY <1>1, <2>1, <3>1, Loads
    <2>3. page' = page
        BY <1>5 DEF ExternalError
    <2>. QED
        BY <1>1, <2>2, <2>3 DEF IInv, TableStraight, AllStraight, Kept
<1>6. ASSUME NEW slots \in SUBSET Used(page), page' = aptRemoveSlots(page, slots), mem' = mem
      PROVE  Goal
    <2>1. Removed(page, page', slots)
        BY <1>1, <1>6, Removes
    <2>. QED
        BY <1>1, <1>6, <2>1 DEF IInv, Removed, TableStraight, AllStraight, Kept
<1>7. ASSUME NEW p \in Programs, cmdFree(p) PROVE Goal
    <2>. DEFINE i == aptFind(page, p.name)
    <2>1. i # -1 /\ page' = aptRemoveSlots(page, {i}) /\ mem' = mem
        BY <1>7 DEF cmdFree
    <2>2. i \in Used(page)
        <3>1. Matching(page, p.name) # {} /\ i = Min(Matching(page, p.name))
            BY <2>1 DEF aptFind
        <3>2. Matching(page, p.name) \in SUBSET Slot /\ Matching(page, p.name) \subseteq Used(page)
            BY UsedFinite DEF Matching
        <3>. QED
            BY <3>1, <3>2, LeastSlot
    <2>. QED
        BY <1>6, <2>1, <2>2
<1>8. CASE cmdFreeAll
    <2>1. {i \in Used(page) : ~IsRunning(page, i)} \in SUBSET Used(page)
        OBVIOUS
    <2>. QED
        BY <1>6, <1>8, <2>1 DEF cmdFreeAll
<1>9. CASE UNCHANGED vars
    BY <1>1, <1>9 DEF vars, IInv, TableStraight, AllStraight, Kept
<1>. QED
    BY <1>2, <1>3, <1>4, <1>5, <1>7, <1>8, <1>9 DEF Next

\* The slot of a table that stays straight was straight.
LEMMA StayedStraight ==
    ASSUME IInv, TableStraight, TableStraight', [Next]_vars
    PROVE  Room
<1>1. Sane(page) /\ Counted(page) /\ AllStraight(page) /\ page \in Page
    BY DEF IInv, TableStraight, AllStraight, Sane, Flagged
<1>2. ASSUME NEW p \in Programs, cmdLoad(p) PROVE NextStraight(page, p.name)
    <2>1. PICK a \in LoadTargets(p) : page' = aptRegister(page, p.name, a, p.code)
        BY <1>2 DEF cmdLoad
    <2>2. a \in 0 .. Top /\ p.name \in Name /\ p.code \in 0 .. Top
        <3>1. a \in Nat /\ a + p.code <= Top /\ p.code \in Nat /\ p.name \in Name
            BY <1>1, Targets, Files DEF Spare
        <3>. QED
            BY <3>1, Sizes
    <2>3. AllStraight(aptRegister(page, p.name, a, p.code))
        BY <2>1 DEF TableStraight, AllStraight
    <2>. QED
        BY <1>1, <2>2, <2>3, TakenSlot
<1>3. ASSUME NEW p \in Programs, External(p)
      PROVE  NextStraight(aptRemoveSlots(page, Covered(p)), p.name)
    <2>. DEFINE u == aptRemoveSlots(page, Covered(p))
    <2>1. Covered(p) \in SUBSET Used(page)
        BY DEF Covered
    <2>2. u \in Page
        BY <1>1, <2>1, Removes DEF Removed, Sane, Flagged
    <2>3. page' = aptRegister(u, p.name, UserProgStart, p.code)
        BY <1>3 DEF External, Covered
    <2>. HIDE DEF u
    <2>4. UserProgStart \in 0 .. Top /\ p.name \in Name /\ p.code \in 0 .. Top
        BY Files, Sizes
    <2>5. AllStraight(aptRegister(u, p.name, UserProgStart, p.code))
        BY <2>3 DEF TableStraight, AllStraight
    <2>6. NextStraight(u, p.name)
        BY <2>2, <2>4, <2>5, TakenSlot
    <2>. QED
        BY <2>6 DEF u
<1>. QED
    BY <1>2, <1>3 DEF Room

\* A table with fewer apps than it has straight slots has a straight one left.
LEMMA FewAreStraight ==
    ASSUME NEW k \in Nat, \A i \in Slot : i < k => Straight(i),
           NEW pg, Cardinality(Used(pg)) < k, NEW name
    PROVE  NextStraight(pg, name)
<1>. DEFINE free == Slot \ Used(pg)
            i == Min(free)
<1>. SUFFICES ASSUME free # {} PROVE Straight(i)
    BY DEF NextStraight
<1>1. free \in SUBSET Nat /\ Slot = 0 .. MaxSlots - 1 /\ MaxSlots \in Nat
    BY Sizes, AppTableAssumption DEF Slot
<1>2. PICK m \in free : \A j \in free : m <= j
    BY <1>1, LeastNumber
<1>3. i \in free /\ \A j \in free : i <= j
    BY <1>2 DEF Min
<1>4. CASE i < k
    BY <1>3, <1>4
<1>5. CASE ~(i < k)
    <2>1. ASSUME NEW j \in 0 .. k - 1 PROVE j \in Used(pg)
        <3>1. i \in Nat /\ i <= MaxSlots - 1
            BY <1>1, <1>3
        <3>2. ~(i <= j) /\ j \in Slot
            BY <1>1, <1>5, <3>1
        <3>. QED
            BY <1>3, <3>2
    <2>2. Cardinality(0 .. k - 1) = k
        BY FS_Interval
    <2>3. Cardinality(0 .. k - 1) <= Cardinality(Used(pg)) /\ Cardinality(Used(pg)) \in Nat
        BY <2>1, UsedFinite, FS_Subset, FS_CardinalityType
    <2>. QED
        BY <2>2, <2>3
<1>. QED
    BY <1>4, <1>5

LEMMA FewHaveRoom ==
    ASSUME NEW k \in Nat, \A i \in Slot : i < k => Straight(i),
           IInv, TableStraight, Cardinality(Used(page)) < k
    PROVE  Room
<1>1. Sane(page) /\ Counted(page) /\ AllStraight(page)
    BY DEF IInv, TableStraight, AllStraight
<1>2. ASSUME NEW p \in Programs PROVE NextStraight(page, p.name)
    BY FewAreStraight
<1>3. ASSUME NEW p \in Programs PROVE NextStraight(aptRemoveSlots(page, Covered(p)), p.name)
    <2>. DEFINE u == aptRemoveSlots(page, Covered(p))
    <2>1. Covered(p) \in SUBSET Used(page)
        BY DEF Covered
    <2>2. Used(u) \subseteq Used(page)
        BY <1>1, <2>1, Removes DEF Removed
    <2>. HIDE DEF u
    <2>3. Cardinality(Used(u)) <= Cardinality(Used(page))
        BY <2>2, UsedFinite, FS_Subset
    <2>4. Cardinality(Used(u)) \in Nat /\ Cardinality(Used(page)) \in Nat
        BY UsedFinite, FS_CardinalityType
    <2>5. Cardinality(Used(u)) < k
        BY <2>3, <2>4
    <2>6. NextStraight(u, p.name)
        BY <2>5, FewAreStraight
    <2>. QED
        BY <2>6 DEF u
<1>. QED
    BY <1>2, <1>3 DEF Room

\* While no entry in use crosses the window, the table stays what the
\* invariant says.
THEOREM Invariance == Spec /\ []TableStraight => []IInv
<1>1. IInv /\ TableStraight /\ TableStraight' /\ [Next]_vars => IInv'
    BY Steps, StayedStraight
<1>. QED
    BY <1>1, Starts, PTL DEF Spec

\* As long as fewer apps are registered than the window holds entries (in the
\* code, fewer than six), none is ever written across its end: aptRegister
\* takes the first free slot, a name that is there takes none.
THEOREM FewAppsStayStraight ==
    ASSUME NEW k \in Nat, \A i \in Slot : i < k => Straight(i)
    PROVE  Spec /\ [](Cardinality(Used(page)) < k) => []TableStraight
<1>. DEFINE Few == Cardinality(Used(page)) < k
<1>1. Init => IInv /\ TableStraight
    BY Starts
<1>2. IInv /\ TableStraight /\ Few /\ [Next]_vars => IInv' /\ TableStraight'
    BY Steps, FewHaveRoom
<1>. HIDE DEF Few
<1>3. Spec /\ []Few => []TableStraight
    BY <1>1, <1>2, PTL DEF Spec
<1>. QED
    BY <1>3 DEF Few

-----------------------------------------------------------------------------
(* The properties *)

\* Every cell of the table is a byte: the addresses, sizes and names that are
\* registered fit in their cells and the counter in its own.  Every unit of
\* memory holds part of a file, nothing or the system (aptRegister, aptRemove).
THEOREM TypeCorrect == Spec /\ []TableStraight => []TypeOK
<1>1. IInv => TypeOK
    BY DEF IInv, Kept, Sane, Flagged, Page, Contents, TypeOK
<1>. QED
    BY <1>1, Invariance, PTL

\* No LOAD and no external command writes a unit outside of user memory, not
\* even while it relocates what it loaded: as far as the files that run by
\* their names fit, the system is left alone (aptCheckRange, aptRelocate).
THEOREM SystemAlwaysSpared == Spec /\ []TableStraight => []SystemSpared
<1>1. IInv => SystemSpared
    BY DEF IInv, Kept, SystemSpared
<1>. QED
    BY <1>1, Invariance, PTL

\* The header counts the used slots through every registration, eviction and
\* FREE (aptRegister, aptRemove).
THEOREM CountAlwaysMatches == Spec /\ []TableStraight => []CountMatches
<1>1. IInv => CountMatches
    BY DEF IInv, Counted, CountMatches
<1>. QED
    BY <1>1, Invariance, PTL

\* The cells of a registered app.
LEMMA Extents ==
    ASSUME NEW pg, Sane(pg), NEW i \in Used(pg)
    PROVE  /\ Start(pg, i) \in Nat /\ End(pg, i) \in Nat /\ Start(pg, i) < End(pg, i)
           /\ Extent(pg, i) \subseteq UserMemory
           /\ \A u \in Extent(pg, i) : u \in Nat /\ Start(pg, i) <= u /\ u < End(pg, i)
           /\ Start(pg, i) \in Extent(pg, i)
<1>1. /\ Start(pg, i) \in Nat /\ Size(pg, i) \in Nat \ {0}
      /\ UserProgStart <= Start(pg, i) /\ End(pg, i) <= Top
    BY DEF Sane, InMemory
<1>2. End(pg, i) \in Nat /\ Start(pg, i) < End(pg, i)
    BY <1>1 DEF End
<1>. QED
    BY <1>1, <1>2, Sizes DEF Extent, UserMemory

\* What is apart shares no cell, and the other way round.
LEMMA ApartCells ==
    ASSUME NEW pg, Sane(pg), NEW i \in Used(pg), NEW addr \in Nat, NEW n \in Nat \ {0}
    PROVE  Apart(pg, i, addr, n) <=> Extent(pg, i) \cap (addr .. addr + n - 1) = {}
<1>. DEFINE st == Start(pg, i)
            en == End(pg, i)
<1>1. st \in Nat /\ en \in Nat /\ st < en
    BY Extents
<1>2. Extent(pg, i) = st .. en - 1
    BY DEF Extent
<1>3. Apart(pg, i, addr, n) <=> en <= addr \/ addr + n <= st
    BY DEF Apart
<1>. HIDE DEF st, en
<1>4. ASSUME en <= addr \/ addr + n <= st PROVE (st .. en - 1) \cap (addr .. addr + n - 1) = {}
    BY <1>1, <1>4
<1>5. ASSUME addr < en, st < addr + n PROVE (st .. en - 1) \cap (addr .. addr + n - 1) # {}
    <2>1. CASE st <= addr
        <3>1. addr \in st .. en - 1 /\ addr \in addr .. addr + n - 1
            BY <1>1, <1>5, <2>1
        <3>. QED
            BY <3>1
    <2>2. CASE addr < st
        <3>1. st \in st .. en - 1 /\ st \in addr .. addr + n - 1
            BY <1>1, <1>5, <2>2
        <3>. QED
            BY <3>1
    <2>. QED
        BY <1>1, <2>1, <2>2
<1>6. (en <= addr \/ addr + n <= st) \/ (addr < en /\ st < addr + n)
    BY <1>1
<1>. QED
    BY <1>2, <1>3, <1>4, <1>5, <1>6

\* No two registered apps overlap and all lie in user memory, whatever LOAD,
\* external commands and FREE came before.
THEOREM AppsAlwaysDisjoint == Spec /\ []TableStraight => []AppsDisjoint
<1>1. IInv => AppsDisjoint
    <2>. SUFFICES ASSUME IInv PROVE AppsDisjoint
        OBVIOUS
    <2>1. Sane(page)
        BY DEF IInv
    <2>2. \A i \in Used(page) : Extent(page, i) \subseteq UserMemory
        BY <2>1, Extents
    <2>3. ASSUME NEW i \in Used(page), NEW j \in Used(page), i # j
          PROVE  Extent(page, i) \cap Extent(page, j) = {}
        <3>1. Apart(page, i, Start(page, j), Size(page, j))
            BY <2>1, <2>3 DEF Sane
        <3>2. Start(page, j) \in Nat /\ Size(page, j) \in Nat \ {0}
            BY <2>1 DEF Sane, InMemory
        <3>3. Extent(page, i) \cap (Start(page, j) .. Start(page, j) + Size(page, j) - 1) = {}
            BY <2>1, <3>1, <3>2, ApartCells
        <3>4. End(page, j) - 1 = Start(page, j) + Size(page, j) - 1
            BY <3>2 DEF End
        <3>. QED
            BY <3>3, <3>4 DEF Extent
    <2>. QED
        BY <2>2, <2>3 DEF AppsDisjoint
<1>. QED
    BY <1>1, Invariance, PTL

\* aptFindFreeRegion returns the lowest page where a file fits, and reports
\* no room only when there is none, though it visits the apps in slot order.
THEOREM AlwaysFirstFit == Spec /\ []TableStraight => []FirstFit
<1>1. IInv => FirstFit
    <2>. SUFFICES ASSUME IInv, NEW p \in Programs
                  PROVE  LET n == p.image
                             fits == {a \in UserMemory :
                                        /\ a % PageUnits = 0 /\ a + n <= Top
                                        /\ \A i \in Used(page) :
                                             Extent(page, i) \cap (a .. a + n - 1) = {}}
                         IN  aptFindFreeRegion(page, n) =
                                 IF fits = {} THEN -1 ELSE Min(fits)
        BY DEF FirstFit
    <2>. DEFINE n == p.image
                fits == {a \in UserMemory :
                           /\ a % PageUnits = 0 /\ a + n <= Top
                           /\ \A i \in Used(page) :
                                Extent(page, i) \cap (a .. a + n - 1) = {}}
    <2>1. Sane(page) /\ n \in Nat \ {0} /\ UserProgStart <= Top
        BY Files DEF IInv
    <2>. HIDE DEF n
    <2>2. \A a \in UserMemory : a \in Nat /\ UserProgStart <= a
        BY Sizes DEF UserMemory
    <2>3. \A a \in UserMemory : \A i \in Used(page) :
             Apart(page, i, a, n) <=> Extent(page, i) \cap (a .. a + n - 1) = {}
        BY <2>1, <2>2, ApartCells
    <2>4. fits = From(page, n, UserProgStart)
        BY <2>2, <2>3 DEF From, Fits
    <2>. HIDE DEF fits
    <2>5. aptFindFreeRegion(page, n) = First(page, n, UserProgStart)
        BY <2>1, Finds
    <2>6. aptFindFreeRegion(page, n) = IF fits = {} THEN -1 ELSE Min(fits)
        BY <2>4, <2>5 DEF First
    <2>. QED
        BY <2>6 DEF fits, n
<1>. QED
    BY <1>1, Invariance, PTL

\* No relocation patches memory outside what was loaded: there are no R6
\* binaries, or users give page addresses only.
PatchesStay == \A p \in Programs : p.base = -1 \/ \A a \in LoadAddrs : a % PageUnits = 0

\* LOAD, even one that fails half way, never writes over a registered app.
\* aptRelocate patches from the start of the page on, so an R6 binary at an
\* address inside a page is left out.
THEOREM LoadAlwaysSpares ==
    PatchesStay => (Spec /\ []TableStraight => LoadSparesApps)
<1>. SUFFICES ASSUME PatchesStay PROVE Spec /\ []TableStraight => LoadSparesApps
    OBVIOUS
<1>1. ASSUME IInv, NEW p \in Programs, cmdLoad(p) \/ cmdLoadError(p),
             NEW i \in Used(page), NEW u \in Extent(page, i)
      PROVE  mem'[u] = mem[u]
    <2>1. Sane(page)
        BY <1>1 DEF IInv
    <2>2. /\ u \in Memory /\ u \in Nat
          /\ Start(page, i) <= u /\ u < End(page, i)
          /\ Start(page, i) \in Nat /\ End(page, i) \in Nat
        BY <2>1, Extents, Sizes
    <2>3. p.image \in Nat
        BY Files
    <2>4. ASSUME NEW a \in LoadTargets(p)
          PROVE  a \in Nat /\ ~(a <= u /\ u < a + p.image)
        <3>1. a \in Nat /\ Spare(page, p.image, a)
            BY <2>1, Targets
        <3>2. Apart(page, i, a, p.image)
            BY <3>1 DEF Spare
        <3>. QED
            BY <2>2, <2>3, <3>1, <3>2 DEF Apart
    <2>5. CASE cmdLoad(p)
        <3>1. PICK a \in LoadTargets(p) : mem' = Relocated(Loaded(p.name, a, p.image), p, a)
            BY <2>5 DEF cmdLoad
        <3>2. p.base = -1 \/ a % PageUnits = 0
            BY <2>1, Targets DEF PatchesStay
        <3>3. p.base = -1 \/ (a \div PageUnits) * PageUnits = a
            <4>1. a \in Nat
                BY <2>4
            <4>2. (a % PageUnits) + PageUnits * (a \div PageUnits) = a /\ a \div PageUnits \in Nat
                BY <4>1, Divided, Sizes
            <4>3. PageUnits * (a \div PageUnits) = (a \div PageUnits) * PageUnits
                BY <4>2, Sizes
            <4>. HIDE DEF Spare
            <4>. QED
                BY <3>2, <4>1, <4>2, <4>3, Sizes
        <3>4. mem' = Loaded(p.name, a, p.image)
            BY <3>1, <3>3 DEF Relocated
        <3>. QED
            BY <2>2, <2>3, <2>4, <3>4 DEF Loaded
    <2>6. CASE cmdLoadError(p)
        <3>1. PICK a \in LoadTargets(p), len \in 0 .. p.image - 1 : mem' = Loaded(Nothing, a, len)
            BY <2>6 DEF cmdLoadError
        <3>. QED
            BY <2>2, <2>3, <2>4, <3>1 DEF Loaded
    <2>. QED
        BY <1>1, <2>5, <2>6
<1>2. IInv => [(\E p \in Programs : cmdLoad(p) \/ cmdLoadError(p)) =>
                  \A i \in Used(page) : \A u \in Extent(page, i) : mem'[u] = mem[u]]_vars
    BY <1>1
<1>. QED
    BY <1>2, Invariance, PTL DEF LoadSparesApps

\* After an external command every app still registered is the command
\* itself or one whose memory the load did not touch.  The eviction goes by
\* the size that remains after relocation, so this holds where that is the
\* size of the file.
THEOREM ExternalAlwaysEvicts ==
    (\A p \in Programs : p.code = p.image) => (Spec /\ []TableStraight => ExternalEvicts)
<1>. SUFFICES ASSUME \A p \in Programs : p.code = p.image
              PROVE  Spec /\ []TableStraight => ExternalEvicts
    OBVIOUS
<1>1. ASSUME IInv, TableStraight, TableStraight', NEW p \in Programs, External(p),
             NEW i \in Used(page'), ~aptNameMatch(page', i, p.name),
             NEW c \in Extent(page', i)
      PROVE  mem'[c] = mem[c]
    <2>. DEFINE u == aptRemoveSlots(page, Covered(p))
    <2>1. Removed(page, u, Covered(p)) /\ Registered(u, page', p.name, UserProgStart)
        BY <1>1, StayedStraight, ExternalRegisters DEF Room, Next
    <2>. HIDE DEF u
    <2>2. i \in Used(u) /\ SameEntry(u, page', i)
        <3>1. UserProgStart % PageUnits = 0
            BY AppTableAssumption
        <3>. QED
            BY <1>1, <2>1, <3>1 DEF Registered
    <2>3. i \in Used(page) /\ i \notin Covered(p) /\ SameEntry(page, u, i)
        BY <2>1, <2>2 DEF Removed
    <2>4. Sane(page)
        BY <1>1 DEF IInv
    <2>5. Extent(page', i) = Extent(page, i)
        BY <2>2, <2>3 DEF SameEntry, Extent, End
    <2>6. /\ c \in Memory /\ c \in Nat
          /\ Start(page, i) <= c /\ c < End(page, i)
          /\ Start(page, i) \in Nat /\ End(page, i) \in Nat
        BY <1>1, <2>3, <2>4, <2>5, Extents, Sizes
    <2>7. p.code = p.image /\ p.image \in Nat /\ UserProgStart \in Nat
        BY Files, Sizes
    <2>8. ~(Start(page, i) < UserProgStart + p.image /\ UserProgStart < End(page, i))
        BY <2>3, <2>7 DEF Covered
    <2>9. c \notin UserProgStart .. UserProgStart + p.image - 1
        BY <2>6, <2>7, <2>8
    <2>10. mem' = Loaded(p.name, UserProgStart, p.image)
        BY <1>1 DEF External
    <2>. QED
        BY <2>6, <2>9, <2>10 DEF Loaded
<1>2. IInv /\ TableStraight /\ TableStraight' =>
          [\A p \in Programs : External(p) =>
              \A i \in Used(page') :
                 \/ aptNameMatch(page', i, p.name)
                 \/ \A u \in Extent(page', i) : mem'[u] = mem[u]]_vars
    BY <1>1
<1>. QED
    BY <1>2, Invariance, PTL DEF ExternalEvicts
=============================================================================
