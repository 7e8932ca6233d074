----------------------------- MODULE BuildProofs -----------------------------
(***************************************************************************)
(* The tools of the build that check what the machine will run, and the      *)
(* host side as a whole.                                                     *)
(*                                                                         *)
(* A program that reloc.py accepted is relocated to what the linker would    *)
(* have made for its page, and a file casm_r6_verify.py passed is relocated  *)
(* without touching anything but its code: for every byte width, program,    *)
(* file, link base and page.  The invariant has four parts: the types; the   *)
(* image after some entries of the table; the table after some bytes of the  *)
(* diff; and the verdict, which stays true of a file that no longer changes. *)
(*                                                                         *)
(* The verdict of pacman_maze_reachability.py is sound for every maze of     *)
(* every size: what the search has seen is closed under moves when its queue *)
(* is empty, so a Pac-Man who starts where the search starts and moves by    *)
(* canMovePac never leaves it, and each dot resetItems places is in it.      *)
(* The search keeps its frontier on the queue: the invariant says that the   *)
(* neighbours of every cell seen and no longer queued have been seen.        *)
(* A symmetric topology is drawn symmetrically, by tables that are: every    *)
(* tile is decided by walls around its cell, and so are the mirrored ones.   *)
(*                                                                         *)
(* The composition MCBuild implements each of its components, and so has     *)
(* the properties proved of them.                                            *)
(***************************************************************************)
EXTENDS MCBuild, ManifestProofs, TextProofs

-----------------------------------------------------------------------------
(* Relocation *)

\* One file, of the length it states.
FileOf(n) == [magic : BOOLEAN, header : Byte, base : Byte, size : {n},
              code : [0 .. n - 1 -> Byte]]

TypesInv ==
    /\ phase \in {"diff", "file", "loading", "loaded", "refused"}
    /\ file.size \in Nat \ {0} /\ file \in FileOf(file.size)
    /\ offs \in Seq(Nat) /\ next \in Nat /\ page \in Byte
    /\ phase = "loading" => next >= 1

Ascending == \A i, j \in 1 .. Len(offs) : i < j => offs[i] < offs[j]

\* The image when the entries before n have been applied.
Applied(n) ==
    image = [o \in 0 .. file.size - 1 |->
                IF \E i \in 1 .. Len(offs) : i < n /\ offs[i] = o
                THEN Add(file.code[o], PageOffset(page)) ELSE file.code[o]]

PatchInv ==
    file.magic /\ Ascending =>
        /\ phase = "loading" => Applied(next)
        /\ phase = "loaded" => Applied(Len(offs) + 1)

\* The table when n bytes have been compared: the offsets that grew.
TableUpTo(n) ==
    /\ \A i \in 1 .. Len(offs) : offs[i] < n
    /\ Ascending
    /\ \A o \in 0 .. n - 1 :
          IF \E i \in 1 .. Len(offs) : offs[i] = o
          THEN NextLink[o] = file.code[o] + 1
          ELSE NextLink[o] = file.code[o]

TableInv ==
    prog # <<>> =>
        /\ prog \in [0 .. file.size - 1 -> [kind : Kinds, value : Byte]]
        /\ file.magic /\ file.base \in LinkBases
        /\ file.code = LinkFor(prog, file.base)
        /\ phase = "diff" => next <= file.size /\ TableUpTo(next)
        /\ phase \in {"file", "loading", "loaded"} => TableUpTo(file.size)

VerdictInv ==
    verdict = "pass" => phase \in {"file", "loading", "loaded"} /\ verify

RelocInv == TypesInv /\ PatchInv /\ TableInv /\ VerdictInv

-----------------------------------------------------------------------------
(* Bytes *)

\* A sum of bytes is a byte.
LEMMA AddByte ==
    ASSUME NEW a \in Byte, NEW b \in Byte
    PROVE  Add(a, b) \in Byte
    BY RelocationAssumption DEF Add, Byte

\* The bytes of every kind of item, linked for any page, are bytes.
LEMMA LinkedType ==
    ASSUME NEW item \in [kind : Kinds, value : Byte], NEW p \in Byte
    PROVE  Linked(item, p) \in Byte
<1>1. item.kind \in Kinds /\ item.value \in Byte
    OBVIOUS
<1>2. \A a \in Byte : Add(a, p) \in Byte
    BY AddByte
<1>. QED
    BY <1>1, <1>2 DEF Linked, Kinds

\* The byte after c.
After(c) == IF c = W - 1 THEN 0 ELSE c + 1

\* A page more is a byte more, in either operand of an addition.
LEMMA AddAfter ==
    ASSUME NEW v \in Byte, NEW p \in 0 .. W - 2
    PROVE  /\ Add(v, p) \in Byte
           /\ Add(v, p + 1) = After(Add(v, p))
           /\ Add(After(v), p) = After(Add(v, p))
<1>1. W \in Nat /\ W > 2 /\ v \in 0 .. W - 1
    BY RelocationAssumption DEF Byte
<1>2. CASE v + p < W - 1
    BY <1>1, <1>2 DEF Byte, Add, After
<1>3. CASE v + p = W - 1
    BY <1>1, <1>3 DEF Byte, Add, After
<1>4. CASE v + p > W - 1
    BY <1>1, <1>4 DEF Byte, Add, After
<1>. QED
    BY <1>1, <1>2, <1>3, <1>4

\* What follows the page twice moves by two, which is neither none nor one.
LEMMA TwiceMovesTwo ==
    ASSUME NEW v \in Byte, NEW p \in 0 .. W - 2
    PROVE  /\ Add(Add(v, p + 1), p + 1) # Add(Add(v, p), p)
           /\ Add(Add(v, p + 1), p + 1) # Add(Add(v, p), p) + 1
<1>. DEFINE a == Add(v, p)
            c == Add(a, p)
<1>1. a \in Byte /\ Add(v, p + 1) = After(a)
    BY AddAfter
<1>2. c \in Byte /\ Add(After(a), p) = After(c)
    BY <1>1, AddAfter
<1>3. After(a) \in Byte
    BY <1>1, RelocationAssumption DEF After, Byte
<1>4. Add(After(a), p + 1) = After(After(c))
    BY <1>2, <1>3, AddAfter
<1>. HIDE DEF a, c
<1>5. After(After(c)) # c /\ After(After(c)) # c + 1
    BY <1>2, RelocationAssumption DEF After, Byte
<1>. QED
    BY <1>1, <1>4, <1>5 DEF a, c

\* A byte that two links a page apart leave alone is the same for every page.
LEMMA EqualMeansConstant ==
    ASSUME NEW item \in [kind : Kinds, value : Byte], NEW p \in LinkBases,
           NEW q \in Byte, Linked(item, p + 1) = Linked(item, p)
    PROVE  Linked(item, q) = Linked(item, p)
<1>1. item.kind \in Kinds /\ item.value \in Byte
    OBVIOUS
<1>2. p \in 0 .. W - 2
    BY RelocationAssumption
<1>3. item.kind # "high"
    <2>. SUFFICES ASSUME item.kind = "high" PROVE FALSE
        OBVIOUS
    <2>1. Add(item.value, p + 1) = Add(item.value, p)
        BY DEF Linked
    <2>. QED
        BY <2>1, <1>1, <1>2, RelocationAssumption DEF Byte, Add
<1>4. item.kind # "twice"
    <2>. SUFFICES ASSUME item.kind = "twice" PROVE FALSE
        OBVIOUS
    <2>1. Add(Add(item.value, p + 1), p + 1) = Add(Add(item.value, p), p)
        BY DEF Linked
    <2>. QED
        BY <2>1, <1>1, <1>2, TwiceMovesTwo
<1>. QED
    BY <1>1, <1>3, <1>4 DEF Linked, Kinds

\* Eight-bit arithmetic: a distance added to a page is the other page.
LEMMA DistanceAdds ==
    ASSUME NEW v \in Byte, NEW p \in Byte, NEW q \in Byte
    PROVE  Add(Add(v, p), Sub(q, p)) = Add(v, q)
<1>1. /\ W \in Nat /\ W > 2
      /\ v \in 0 .. W - 1 /\ p \in 0 .. W - 1 /\ q \in 0 .. W - 1
    BY RelocationAssumption DEF Byte
<1>2. CASE q < p
    <2>1. Sub(q, p) = q - p + W
        BY <1>2 DEF Sub
    <2>2. CASE v + p < W
        BY <1>1, <1>2, <2>1, <2>2 DEF Add
    <2>3. CASE v + p >= W
        BY <1>1, <1>2, <2>1, <2>3 DEF Add
    <2>. QED
        BY <1>1, <2>2, <2>3
<1>3. CASE q >= p
    <2>1. Sub(q, p) = q - p
        BY <1>1, <1>3 DEF Sub
    <2>2. CASE v + p < W
        BY <1>1, <1>3, <2>1, <2>2 DEF Add
    <2>3. CASE v + p >= W
        BY <1>1, <1>3, <2>1, <2>3 DEF Add
    <2>. QED
        BY <1>1, <2>2, <2>3
<1>. QED
    BY <1>1, <1>2, <1>3

\* A byte that grows by one is a page of an address, and the page distance
\* takes it to any other page.
LEMMA GrownMeansHigh ==
    ASSUME NEW item \in [kind : Kinds, value : Byte], NEW p \in LinkBases,
           NEW q \in Byte, Linked(item, p + 1) = Linked(item, p) + 1
    PROVE  Add(Linked(item, p), Sub(q, p)) = Linked(item, q)
<1>1. item.kind \in Kinds /\ item.value \in Byte
    OBVIOUS
<1>2. p \in 0 .. W - 2
    BY RelocationAssumption
<1>3. item.kind # "constant"
    <2>. SUFFICES ASSUME item.kind = "constant" PROVE FALSE
        OBVIOUS
    <2>. QED
        BY <1>1, RelocationAssumption DEF Linked, Byte
<1>4. item.kind # "twice"
    <2>. SUFFICES ASSUME item.kind = "twice" PROVE FALSE
        OBVIOUS
    <2>1. Add(Add(item.value, p + 1), p + 1) = Add(Add(item.value, p), p) + 1
        BY DEF Linked
    <2>. QED
        BY <2>1, <1>1, <1>2, TwiceMovesTwo
<1>5. item.kind = "high"
    BY <1>1, <1>3, <1>4 DEF Kinds
<1>6. Add(Add(item.value, p), Sub(q, p)) = Add(item.value, q)
    <2>1. p \in Byte
        BY <1>2, RelocationAssumption DEF Byte
    <2>. QED
        BY <2>1, <1>1, DistanceAdds
<1>. QED
    BY <1>5, <1>6 DEF Linked

-----------------------------------------------------------------------------
(* Initial states *)

LEMMA FileTyped ==
    ASSUME NEW n, NEW f \in R6Files({n})
    PROVE  f \in FileOf(n)
BY DEF R6Files, FileOf

LEMMA InitInv == RelocInit => RelocInv
<1>. SUFFICES ASSUME RelocInit PROVE RelocInv
    OBVIOUS
<1>0. 0 \in Byte
    BY RelocationAssumption DEF Byte
<1>1. CASE phase = "file"
    <2>1. prog = <<>> /\ next = 1 /\ page = 0 /\ verdict = "none"
        BY <1>1 DEF RelocInit
    <2>2. PICK b \in Bodies : file = b.file /\ offs = b.offs
        BY <1>1 DEF RelocInit
    <2>3. /\ offs \in Seq(Nat) /\ file.size \in Nat \ {0}
          /\ file \in R6Files({file.size})
        BY <2>2, RelocationAssumption
    <2>4. file \in FileOf(file.size)
        BY <2>3, FileTyped
    <2>. QED
        BY <1>0, <1>1, <2>1, <2>3, <2>4
        DEF RelocInv, TypesInv, PatchInv, TableInv, VerdictInv
<1>2. CASE phase = "diff"
    <2>1. /\ next = 0 /\ offs = <<>> /\ page = 0 /\ verdict = "none"
          /\ prog \in Programs
        BY <1>2 DEF RelocInit
    <2>2. PICK p \in LinkBases :
             file = [magic |-> TRUE, header |-> p, base |-> p,
                     size |-> Cardinality(DOMAIN prog), code |-> LinkFor(prog, p)]
        BY <1>2 DEF RelocInit
    <2>3. PICK n \in Lengths : prog \in [0 .. n - 1 -> [kind : Kinds, value : Byte]]
        BY <2>1 DEF Programs
    <2>4. n \in Nat \ {0}
        BY RelocationAssumption
    <2>5. Cardinality(DOMAIN prog) = n
        BY <2>3, <2>4, FS_Interval
    <2>6. p \in Byte
        BY RelocationAssumption DEF Byte
    <2>7. LinkFor(prog, p) \in [0 .. n - 1 -> Byte]
        <3>1. \A i \in 0 .. n - 1 : Linked(prog[i], p) \in Byte
            BY <2>3, <2>6, LinkedType
        <3>. QED
            BY <2>3, <3>1 DEF LinkFor
    <2>8. file.size = n /\ file \in FileOf(n) /\ file.base = p /\ file.magic
          /\ file.code = LinkFor(prog, p)
        BY <2>2, <2>5, <2>6, <2>7 DEF FileOf
    <2>9. offs \in Seq(Nat) /\ Len(offs) = 0
        BY <2>1
    <2>10. TypesInv
        BY <1>0, <1>2, <2>1, <2>4, <2>8, <2>9 DEF TypesInv
    <2>11. TableUpTo(0)
        BY <2>9 DEF TableUpTo, Ascending
    <2>12. TableInv
        BY <1>2, <2>1, <2>3, <2>4, <2>8, <2>11 DEF TableInv
    <2>. QED
        BY <1>2, <2>1, <2>10, <2>12 DEF RelocInv, PatchInv, VerdictInv
<1>. QED
    BY <1>1, <1>2 DEF RelocInit

-----------------------------------------------------------------------------
(* Steps *)

\* The diff: the entry appended, if any, is the offset just compared.
LEMMA DiffStep ==
    ASSUME RelocInv, build_relocation_table
    PROVE  RelocInv'
<1>. USE DEF RelocInv
<1>1. phase = "diff" /\ next < file.size /\ next' = next + 1
      /\ UNCHANGED <<prog, file, image, page, verdict>>
    BY DEF build_relocation_table
<1>2. next \in Nat /\ offs \in Seq(Nat) /\ file.size \in Nat
    BY DEF TypesInv
<1>3. verdict # "pass"
    BY <1>1 DEF VerdictInv
<1>4. CASE /\ NextLink[next] = file.code[next] /\ UNCHANGED <<phase, offs>>
    <2>1. TypesInv'
        BY <1>1, <1>2, <1>4 DEF TypesInv
    <2>2. ASSUME prog # <<>> PROVE TableUpTo(next)'
        <3>1. TableUpTo(next)
            BY <1>1, <2>2 DEF TableInv
        <3>2. \A i \in 1 .. Len(offs) : offs[i] < next /\ offs[i] \in Nat
            BY <3>1, <1>2 DEF TableUpTo
        <3>3. ASSUME NEW o \in 0 .. next
              PROVE  IF \E i \in 1 .. Len(offs) : offs[i] = o
                     THEN NextLink[o] = file.code[o] + 1
                     ELSE NextLink[o] = file.code[o]
            <4>1. CASE o = next
                BY <3>2, <4>1, <1>4, <1>2
            <4>2. CASE o # next
                <5>1. o \in 0 .. next - 1
                    BY <4>2, <1>2
                <5>. QED
                    BY <5>1, <3>1 DEF TableUpTo
            <4>. QED
                BY <4>1, <4>2
        <3>4. NextLink' = NextLink
            BY <1>1 DEF NextLink
        <3>. QED
            BY <3>1, <3>2, <3>3, <3>4, <1>1, <1>2, <1>4 DEF TableUpTo, Ascending
    <2>3. TableInv'
        BY <2>2, <1>1, <1>2, <1>4 DEF TableInv
    <2>. QED
        BY <2>1, <2>3, <1>1, <1>3, <1>4 DEF PatchInv, VerdictInv
<1>5. CASE Grown(file.code[next], NextLink[next])
           /\ offs' = Append(offs, next) /\ UNCHANGED phase
    <2>1. /\ offs' \in Seq(Nat) /\ Len(offs') = Len(offs) + 1
          /\ \A i \in 1 .. Len(offs) : offs'[i] = offs[i]
          /\ offs'[Len(offs) + 1] = next /\ Len(offs) \in Nat
        BY <1>2, <1>5
    <2>2. TypesInv'
        BY <2>1, <1>1, <1>2, <1>5 DEF TypesInv
    <2>3. ASSUME prog # <<>> PROVE TableUpTo(next)'
        <3>1. TableUpTo(next)
            BY <1>1, <2>3 DEF TableInv
        <3>2. \A i \in 1 .. Len(offs) : offs[i] < next /\ offs[i] \in Nat
            BY <3>1, <1>2 DEF TableUpTo
        <3>3. ASSUME NEW i \in 1 .. Len(offs') PROVE offs'[i] < next + 1
            <4>1. CASE i = Len(offs) + 1
                BY <4>1, <2>1, <1>2
            <4>2. CASE i # Len(offs) + 1
                <5>1. i \in 1 .. Len(offs) /\ offs'[i] = offs[i]
                    BY <4>2, <2>1
                <5>2. offs[i] < next /\ offs[i] \in Nat
                    BY <5>1, <3>2
                <5>. QED
                    BY <5>1, <5>2, <1>2
            <4>. QED
                BY <4>1, <4>2
        <3>4. \A i, j \in 1 .. Len(offs') : i < j => offs'[i] < offs'[j]
            <4>. SUFFICES ASSUME NEW i \in 1 .. Len(offs'), NEW j \in 1 .. Len(offs'),
                                 i < j
                          PROVE  offs'[i] < offs'[j]
                OBVIOUS
            <4>1. i \in 1 .. Len(offs) /\ offs'[i] = offs[i]
                BY <2>1
            <4>2. CASE j = Len(offs) + 1
                BY <4>1, <4>2, <2>1, <3>2
            <4>3. CASE j # Len(offs) + 1
                <5>0. j \in 1 .. Len(offs)
                    <6>1. Len(offs) \in Nat /\ j \in 1 .. Len(offs) + 1
                        BY <2>1
                    <6>. QED
                        BY ONLY <6>1, <4>3
                <5>1. j \in 1 .. Len(offs) /\ offs'[j] = offs[j]
                    BY <5>0, <2>1
                <5>2. Ascending
                    BY <3>1 DEF TableUpTo
                <5>3. offs[i] < offs[j]
                    BY <5>1, <5>2, <4>1 DEF Ascending
                <5>. QED
                    BY <5>1, <5>3, <4>1
            <4>. QED
                BY <4>2, <4>3
        <3>5. ASSUME NEW o \in 0 .. next
              PROVE  IF \E i \in 1 .. Len(offs') : offs'[i] = o
                     THEN NextLink[o] = file.code[o] + 1
                     ELSE NextLink[o] = file.code[o]
            <4>1. CASE o = next
                <5>1. \E i \in 1 .. Len(offs') : offs'[i] = o
                    BY <4>1, <2>1
                <5>. QED
                    BY <5>1, <4>1, <1>5 DEF Grown
            <4>2. CASE o # next
                <5>1. o \in 0 .. next - 1
                    BY <4>2, <1>2
                <5>2. (\E i \in 1 .. Len(offs') : offs'[i] = o)
                      <=> (\E i \in 1 .. Len(offs) : offs[i] = o)
                    BY <4>2, <2>1
                <5>. QED
                    BY <5>1, <5>2, <3>1 DEF TableUpTo
            <4>. QED
                BY <4>1, <4>2
        <3>6. NextLink' = NextLink
            BY <1>1 DEF NextLink
        <3>. QED
            BY <3>3, <3>4, <3>5, <3>6, <1>1, <1>2 DEF TableUpTo, Ascending
    <2>4. TableInv'
        BY <2>3, <1>1, <1>2, <1>5 DEF TableInv
    <2>. QED
        BY <2>2, <2>4, <1>1, <1>3, <1>5 DEF PatchInv, VerdictInv
<1>6. CASE phase' = "refused" /\ UNCHANGED offs
    <2>1. TypesInv'
        BY <1>1, <1>2, <1>6 DEF TypesInv
    <2>2. TableInv'
        BY <1>1, <1>6 DEF TableInv
    <2>. QED
        BY <2>1, <2>2, <1>1, <1>3, <1>6 DEF PatchInv, VerdictInv
<1>. QED
    BY <1>4, <1>5, <1>6 DEF build_relocation_table

LEMMA WriteStep ==
    ASSUME RelocInv, WriteR6
    PROVE  RelocInv'
<1>1. /\ phase = "diff" /\ next = file.size /\ phase' = "file" /\ next' = 1
      /\ UNCHANGED <<prog, file, offs, image, page, verdict>>
    BY DEF WriteR6
<1>2. TypesInv'
    BY <1>1 DEF RelocInv, TypesInv
<1>3. NextLink' = NextLink
    BY <1>1 DEF NextLink
<1>4. TableInv'
    BY <1>1, <1>3 DEF RelocInv, TableInv, TableUpTo, Ascending
<1>5. VerdictInv'
    BY <1>1 DEF RelocInv, VerdictInv
<1>. QED
    BY <1>1, <1>2, <1>4, <1>5 DEF RelocInv, PatchInv

\* What the other steps leave alone: the file, its table and its verdict.
LEMMA TableKept ==
    ASSUME TableInv, UNCHANGED <<prog, file, offs>>,
           phase \in {"file", "loading", "loaded"},
           phase' \in {"file", "loading", "loaded"}
    PROVE  TableInv'
<1>1. NextLink' = NextLink
    BY DEF NextLink
<1>. QED
    BY <1>1 DEF TableInv, TableUpTo, Ascending

LEMMA VerifyStep ==
    ASSUME RelocInv, Verify
    PROVE  RelocInv'
<1>1. /\ phase = "file" /\ verdict' = (IF verify THEN "pass" ELSE "fail")
      /\ UNCHANGED <<phase, prog, file, offs, next, image, page>>
    BY DEF Verify
<1>2. TypesInv'
    BY <1>1 DEF RelocInv, TypesInv
<1>3. TableInv'
    BY <1>1, TableKept DEF RelocInv
<1>4. VerdictInv'
    <2>1. verify' = verify
        BY <1>1 DEF verify, Span
    <2>. QED
        BY <1>1, <2>1 DEF VerdictInv
<1>. QED
    BY <1>1, <1>2, <1>3, <1>4 DEF RelocInv, PatchInv

LEMMA VerdictKept ==
    ASSUME VerdictInv, UNCHANGED <<file, offs, verdict>>,
           phase' \in {"file", "loading", "loaded"}
    PROVE  VerdictInv'
<1>1. verify' = verify
    BY DEF verify, Span
<1>. QED
    BY <1>1 DEF VerdictInv

\* Adding no pages changes no byte.
LEMMA AddZero ==
    ASSUME NEW b \in Byte
    PROVE  Add(b, 0) = b
BY RelocationAssumption DEF Byte, Add

LEMMA LoadStep ==
    ASSUME RelocInv, NEW p \in Pages, Load(p)
    PROVE  RelocInv'
<1>1. /\ phase = "file" /\ page' = p /\ image' = file.code /\ next' = 1
      /\ phase' = (IF file.magic /\ PageOffset(p) # 0 THEN "loading" ELSE "loaded")
      /\ UNCHANGED <<prog, file, offs, verdict>>
    BY DEF Load
<1>2. p \in Byte
    BY RelocationAssumption
<1>3. TypesInv'
    BY <1>1, <1>2 DEF RelocInv, TypesInv
<1>4. TableInv'
    BY <1>1, TableKept DEF RelocInv
<1>5. VerdictInv'
    BY <1>1, VerdictKept DEF RelocInv
<1>6. file.code \in [0 .. file.size - 1 -> Byte] /\ offs \in Seq(Nat)
    BY DEF RelocInv, TypesInv, FileOf
<1>7. file.code = [o \in 0 .. file.size - 1 |-> file.code[o]]
    BY <1>6
<1>8. phase' = "loading" => Applied(next)'
    BY <1>1, <1>6, <1>7 DEF Applied
<1>9. file.magic /\ phase' = "loaded" => Applied(Len(offs) + 1)'
    <2>. SUFFICES ASSUME file.magic, phase' = "loaded"
                  PROVE  Applied(Len(offs) + 1)'
        OBVIOUS
    <2>1. PageOffset(page)' = 0
        BY <1>1 DEF PageOffset
    <2>2. \A o \in 0 .. file.size - 1 : Add(file.code[o], 0) = file.code[o]
        BY <1>6, AddZero
    <2>3. \A o \in 0 .. file.size - 1 : Add(file.code[o], PageOffset(page)') = file.code[o]
        BY <2>1, <2>2
    <2>. QED
        BY <1>1, <1>7, <2>3 DEF Applied
<1>10. PatchInv'
    BY <1>1, <1>8, <1>9 DEF PatchInv
<1>. QED
    BY <1>3, <1>4, <1>5, <1>10 DEF RelocInv

\* In an ascending table the entry applied next was not applied before.
LEMMA ApplyStep ==
    ASSUME RelocInv, aptRelocateLoop
    PROVE  RelocInv'
<1>1. /\ phase = "loading" /\ next <= Len(offs) /\ next' = next + 1
      /\ image' = [image EXCEPT ![offs[next]] = Add(@, PageOffset(page))]
      /\ UNCHANGED <<phase, prog, file, offs, page, verdict>>
    BY DEF aptRelocateLoop
<1>2. /\ offs \in Seq(Nat) /\ next \in Nat /\ next >= 1
      /\ file.size \in Nat \ {0}
    BY <1>1 DEF RelocInv, TypesInv
<1>3. TypesInv'
    BY <1>1, <1>2 DEF RelocInv, TypesInv
<1>4. TableInv'
    BY <1>1, TableKept DEF RelocInv
<1>5. VerdictInv'
    BY <1>1, VerdictKept DEF RelocInv
<1>6. ASSUME file.magic, Ascending PROVE Applied(next)'
    <2>1. Applied(next)
        BY <1>1, <1>6 DEF RelocInv, PatchInv
    <2>2. DEFINE Below(n, o) == \E i \in 1 .. Len(offs) : i < n /\ offs[i] = o
    <2>3. image = [o \in 0 .. file.size - 1 |->
                      IF Below(next, o) THEN Add(file.code[o], PageOffset(page))
                      ELSE file.code[o]]
        BY <2>1 DEF Applied
    <2>4. ~Below(next, offs[next])
        BY <1>1, <1>2, <1>6 DEF Ascending
    <2>5. \A o : Below(next + 1, o) <=> Below(next, o) \/ o = offs[next]
        BY <1>1, <1>2
    <2>6. image' = [o \in 0 .. file.size - 1 |->
                       IF Below(next + 1, o) THEN Add(file.code[o], PageOffset(page))
                       ELSE file.code[o]]
        <3>. HIDE DEF Below
        <3>. QED
            BY <1>1, <2>3, <2>4, <2>5
    <2>. QED
        BY <2>6, <1>1 DEF Applied, PageOffset
<1>7. Ascending' <=> Ascending
    BY <1>1 DEF Ascending
<1>8. PatchInv'
    BY <1>1, <1>6, <1>7 DEF PatchInv
<1>. QED
    BY <1>3, <1>4, <1>5, <1>8 DEF RelocInv

LEMMA DoneStep ==
    ASSUME RelocInv, aptRelocateLoopDone
    PROVE  RelocInv'
<1>1. /\ phase = "loading" /\ next > Len(offs) /\ phase' = "loaded"
      /\ UNCHANGED <<prog, file, offs, next, image, page, verdict>>
    BY DEF aptRelocateLoopDone
<1>2. offs \in Seq(Nat) /\ next \in Nat /\ Len(offs) \in Nat
    BY DEF RelocInv, TypesInv
<1>3. TypesInv'
    BY <1>1 DEF RelocInv, TypesInv
<1>4. TableInv'
    BY <1>1, TableKept DEF RelocInv
<1>5. VerdictInv'
    BY <1>1, VerdictKept DEF RelocInv
<1>6. ASSUME file.magic, Ascending PROVE Applied(Len(offs) + 1)'
    <2>1. Applied(next)
        BY <1>1, <1>6 DEF RelocInv, PatchInv
    <2>2. \A i \in 1 .. Len(offs) : i < next /\ i < Len(offs) + 1
        BY <1>1, <1>2
    <2>3. Applied(Len(offs) + 1)
        BY <2>1, <2>2 DEF Applied
    <2>. QED
        BY <2>3, <1>1 DEF Applied, PageOffset
<1>7. PatchInv'
    BY <1>1, <1>6 DEF PatchInv, Ascending
<1>. QED
    BY <1>3, <1>4, <1>5, <1>7 DEF RelocInv

LEMMA NextInv == RelocInv /\ [RelocNext]_relocVars => RelocInv'
<1>. SUFFICES ASSUME RelocInv, [RelocNext]_relocVars PROVE RelocInv'
    OBVIOUS
<1>1. CASE build_relocation_table
    BY <1>1, DiffStep
<1>2. CASE WriteR6
    BY <1>2, WriteStep
<1>3. CASE Verify
    BY <1>3, VerifyStep
<1>4. CASE \E p \in Pages : Load(p)
    BY <1>4, LoadStep
<1>5. CASE aptRelocateLoop
    BY <1>5, ApplyStep
<1>6. CASE aptRelocateLoopDone
    BY <1>6, DoneStep
<1>7. CASE UNCHANGED relocVars
    BY <1>7 DEF relocVars, RelocInv, TypesInv, PatchInv, TableInv, VerdictInv,
                verify, Span, TableUpTo, Ascending, Applied, PageOffset, NextLink
<1>. QED
    BY <1>1, <1>2, <1>3, <1>4, <1>5, <1>6, <1>7 DEF RelocNext

-----------------------------------------------------------------------------
(* What follows from the invariant *)

LEMMA InvRelocatedAsBuilt == RelocInv => RelocatedAsBuilt
<1>. SUFFICES ASSUME RelocInv, phase = "loaded", prog # <<>>
              PROVE  image = LinkFor(prog, page)
    BY DEF RelocatedAsBuilt
<1>1. /\ prog \in [0 .. file.size - 1 -> [kind : Kinds, value : Byte]]
      /\ file.magic /\ file.base \in LinkBases
      /\ file.code = LinkFor(prog, file.base) /\ TableUpTo(file.size)
    BY DEF RelocInv, TableInv
<1>2. Applied(Len(offs) + 1) /\ page \in Byte /\ Len(offs) \in Nat
    BY <1>1 DEF RelocInv, PatchInv, TableUpTo, TypesInv
<1>3. ASSUME NEW o \in 0 .. file.size - 1
      PROVE  image[o] = Linked(prog[o], page)
    <2>1. /\ file.code[o] = Linked(prog[o], file.base)
          /\ NextLink[o] = Linked(prog[o], file.base + 1)
          /\ prog[o] \in [kind : Kinds, value : Byte]
        BY <1>1 DEF LinkFor, NextLink
    <2>2. CASE \E i \in 1 .. Len(offs) : offs[i] = o
        <3>1. NextLink[o] = file.code[o] + 1
            BY <1>1, <2>2 DEF TableUpTo
        <3>2. Add(file.code[o], PageOffset(page)) = Linked(prog[o], page)
            BY <1>1, <1>2, <2>1, <3>1, GrownMeansHigh DEF PageOffset
        <3>3. image[o] = Add(file.code[o], PageOffset(page))
            BY <1>2, <2>2 DEF Applied
        <3>. QED
            BY <3>2, <3>3
    <2>3. CASE ~\E i \in 1 .. Len(offs) : offs[i] = o
        <3>1. NextLink[o] = file.code[o]
            BY <1>1, <2>3 DEF TableUpTo
        <3>2. file.code[o] = Linked(prog[o], page)
            BY <1>1, <1>2, <2>1, <3>1, EqualMeansConstant
        <3>3. image[o] = file.code[o]
            BY <1>2, <2>3 DEF Applied
        <3>. QED
            BY <3>2, <3>3
    <2>. QED
        BY <2>2, <2>3
<1>4. image = [o \in 0 .. file.size - 1 |-> image[o]]
    BY <1>2 DEF Applied
<1>. QED
    BY <1>1, <1>3, <1>4 DEF LinkFor

\* A page of the image moves by the page distance without a carry.
LEMMA PageMoves ==
    ASSUME NEW c \in Byte, NEW b \in Byte, NEW p \in Byte, NEW s \in Nat,
           c - b \in 0 .. s, p + s < W
    PROVE  Add(c, Sub(p, b)) - p = c - b
BY RelocationAssumption DEF Byte, Add, Sub

\* A whole number of pages is a number.
LEMMA PagesNat ==
    ASSUME NEW n \in Nat, NEW w \in Nat, w > 0
    PROVE  n \div w \in Nat
OBVIOUS

\* The invariant gives the safety of a verified file on every page it fits.
LEMMA InvVerifiedLoadsSafely == RelocInv => VerifiedLoadsSafely
<1>. SUFFICES ASSUME RelocInv, verdict = "pass", phase \in {"loading", "loaded"},
                     page + Span < W
              PROVE  /\ \A i \in 1 .. Len(offs) : offs[i] \in DOMAIN image
                     /\ phase = "loaded" => \A o \in DOMAIN image :
                          IF \E i \in 1 .. Len(offs) : offs[i] = o
                          THEN image[o] - page = file.code[o] - file.base
                               /\ image[o] - page \in 0 .. Span
                          ELSE image[o] = file.code[o]
    BY DEF VerifiedLoadsSafely
<1>1. verify /\ file.magic /\ Ascending
    BY DEF RelocInv, VerdictInv, verify, Ascending
<1>2. /\ file.size \in Nat \ {0} /\ file.code \in [0 .. file.size - 1 -> Byte]
      /\ file.base \in Byte /\ page \in Byte /\ offs \in Seq(Nat)
      /\ Len(offs) \in Nat
    BY DEF RelocInv, TypesInv, FileOf
<1>3. DOMAIN image = 0 .. file.size - 1
    BY <1>1 DEF RelocInv, PatchInv, Applied
<1>4. \A i \in 1 .. Len(offs) : offs[i] \in 0 .. file.size - 1
    BY <1>1, <1>2 DEF verify
<1>5. Span \in Nat
    <2>1. file.size - 1 \in Nat /\ W \in Nat /\ W > 0
        BY <1>2, RelocationAssumption
    <2>. QED
        BY <2>1, PagesNat DEF Span
<1>6. ASSUME phase = "loaded", NEW o \in DOMAIN image
      PROVE  IF \E i \in 1 .. Len(offs) : offs[i] = o
             THEN image[o] - page = file.code[o] - file.base
                  /\ image[o] - page \in 0 .. Span
             ELSE image[o] = file.code[o]
    <2>1. Applied(Len(offs) + 1)
        BY <1>1, <1>6 DEF RelocInv, PatchInv
    <2>2. CASE ~\E i \in 1 .. Len(offs) : offs[i] = o
        BY <1>3, <1>6, <2>1, <2>2 DEF Applied
    <2>3. CASE \E i \in 1 .. Len(offs) : offs[i] = o
        <3>1. image[o] = Add(file.code[o], PageOffset(page))
            <4>1. \E i \in 1 .. Len(offs) : i < Len(offs) + 1 /\ offs[i] = o
                BY <1>2, <2>3
            <4>. QED
                BY <1>3, <1>6, <2>1, <4>1 DEF Applied
        <3>2. file.code[o] - file.base \in 0 .. Span /\ file.code[o] \in Byte
            BY <1>1, <1>2, <1>3, <1>6, <2>3 DEF verify
        <3>3. image[o] - page = file.code[o] - file.base
            BY <1>2, <1>5, <3>1, <3>2, PageMoves DEF PageOffset
        <3>. QED
            BY <2>3, <3>2, <3>3
    <2>. QED
        BY <2>2, <2>3
<1>. QED
    BY <1>3, <1>4, <1>6

-----------------------------------------------------------------------------

\* A program reloc.py accepted, relocated by the loader, is the program linked
\* for the page it was loaded on.
THEOREM RelocatedAsBuiltTheorem == RelocSpec => []RelocatedAsBuilt
<1>1. RelocSpec => []RelocInv
    BY InitInv, NextInv, PTL DEF RelocSpec
<1>. QED
    BY <1>1, InvRelocatedAsBuilt, PTL

\* A file casm_r6_verify.py passed is relocated inside its own code, each
\* entry to a page of the image, wherever it fits.
THEOREM VerifiedLoadsSafelyTheorem == RelocSpec => []VerifiedLoadsSafely
<1>1. RelocSpec => []RelocInv
    BY InitInv, NextInv, PTL DEF RelocSpec
<1>. QED
    BY <1>1, InvVerifiedLoadsSafely, PTL

-----------------------------------------------------------------------------
(* The maze *)

Directions == 1 .. 4

Elements(s) == {s[i] : i \in 1 .. Len(s)}

\* Cells but the first were put there because they are walkable.
SeenOpen == \A c \in seen : c = Spawn \/ Open(mazeWalls, c)

\* The search started at the spawn tile.
Started == mode = "search" \/ result = "ok" => Spawn \in seen

\* A verdict is about an empty queue.
Judged == mode # "edit" /\ result = "ok" =>
              queue = <<>> /\ Placed(mazeWalls) \subseteq seen

NoVerdictYet == mode \in {"edit", "search"} => result = "none"

AtSpawn == mode # "play" => pac = Spawn

PacInside == mode = "play" /\ result = "ok" /\ BorderClosed => pac \in seen

\* Nothing is searched before the topology is built.
Idle == mode = "edit" => queue = <<>> /\ seen = {}

MazeInv == /\ queue \in Seq(Grid) /\ seen \subseteq Grid
           /\ mode \in {"edit", "search", "verdict", "play"}
           /\ SearchClosed /\ SeenOpen /\ Started /\ Judged /\ NoVerdictYet
           /\ Idle /\ AtSpawn /\ PacInside

-----------------------------------------------------------------------------
(* The grid *)

\* The spawn tile is inside, and a cell of the grid is a pair of numbers.
LEMMA GridFacts ==
    /\ Spawn \in Grid /\ ~IsEdge(Spawn[1], Spawn[2])
    /\ \A c \in Grid : c[1] \in 0 .. ROWS - 1 /\ c[2] \in 0 .. COLS - 1
    /\ \A r \in 0 .. ROWS - 1, k \in 0 .. COLS - 1 : <<r, k>> \in Grid
<1>1. \A c \in Grid : c[1] \in 0 .. ROWS - 1 /\ c[2] \in 0 .. COLS - 1
    BY DEF Grid
<1>2. \A r \in 0 .. ROWS - 1, k \in 0 .. COLS - 1 : <<r, k>> \in Grid
    BY DEF Grid
<1>3. Spawn = <<Spawn[1], Spawn[2]>> /\ Spawn[1] \in 1 .. ROWS - 2
      /\ Spawn[2] \in 1 .. COLS - 2
    BY MazeAssumption
<1>4. Spawn \in Grid
    BY <1>2, <1>3, MazeAssumption
<1>5. ~IsEdge(Spawn[1], Spawn[2])
    BY <1>3, MazeAssumption DEF IsEdge
<1>. QED
    BY <1>1, <1>2, <1>4, <1>5

\* From a cell inside, or from one of the tunnel row, every step stays on the
\* grid: the columns behind its ends are its ends.
LEMMA StepsStayOnGrid ==
    ASSUME NEW c \in Grid, ~IsEdge(c[1], c[2]) \/ c[1] = TunnelRow,
           NEW d \in Directions
    PROVE  Adjacent(c)[d] \in Grid
<1>. DEFINE row == c[1]
            col == c[2]
<1>1. row \in 1 .. ROWS - 2 /\ col \in 0 .. COLS - 1
    BY GridFacts, MazeAssumption DEF IsEdge
<1>2. row = TunnelRow \/ col \in 1 .. COLS - 2
    BY <1>1, MazeAssumption DEF IsEdge
<1>. HIDE DEF row, col
<1>3. <<row - 1, col>> \in Grid /\ <<row + 1, col>> \in Grid
    BY <1>1, GridFacts, MazeAssumption
<1>4. Wrap(row, col - 1) \in Grid
    <2>1. CASE col = 0
        BY <1>1, <1>2, <2>1, GridFacts, MazeAssumption DEF Wrap
    <2>2. CASE col # 0
        BY <1>1, <2>2, GridFacts, MazeAssumption DEF Wrap
    <2>. QED
        BY <2>1, <2>2
<1>5. Wrap(row, col + 1) \in Grid
    <2>1. CASE col = COLS - 1
        BY <1>1, <1>2, <2>1, GridFacts, MazeAssumption DEF Wrap
    <2>2. CASE col # COLS - 1
        BY <1>1, <2>2, GridFacts, MazeAssumption DEF Wrap
    <2>. QED
        BY <2>1, <2>2
<1>6. Adjacent(c) = << <<row - 1, col>>, <<row + 1, col>>,
                       Wrap(row, col - 1), Wrap(row, col + 1) >>
    BY DEF Adjacent, row, col
<1>. QED
    BY <1>3, <1>4, <1>5, <1>6 DEF Directions

-----------------------------------------------------------------------------
(* The queue *)

\* Elements of a sequence and of its concatenation with another.
LEMMA ConcatElements ==
    ASSUME NEW S, NEW s \in Seq(S), NEW t \in Seq(S)
    PROVE  /\ s \o t \in Seq(S)
           /\ Elements(s \o t) = Elements(s) \cup Elements(t)
<1>. DEFINE u == s \o t
<1>1. /\ u \in Seq(S) /\ Len(u) = Len(s) + Len(t)
      /\ Len(s) \in Nat /\ Len(t) \in Nat
      /\ \A i \in 1 .. Len(u) :
            u[i] = IF i <= Len(s) THEN s[i] ELSE t[i - Len(s)]
    OBVIOUS
<1>. HIDE DEF u
<1>2. ASSUME NEW i \in 1 .. Len(s) PROVE i \in 1 .. Len(u) /\ u[i] = s[i]
    BY <1>1
<1>3. ASSUME NEW i \in 1 .. Len(t)
      PROVE  i + Len(s) \in 1 .. Len(u) /\ u[i + Len(s)] = t[i]
    <2>1. i + Len(s) \in 1 .. Len(u) /\ ~(i + Len(s) <= Len(s))
          /\ (i + Len(s)) - Len(s) = i
        BY <1>1
    <2>. QED
        BY <2>1, <1>1
<1>4. ASSUME NEW i \in 1 .. Len(u)
      PROVE  \/ i \in 1 .. Len(s) /\ u[i] = s[i]
             \/ i - Len(s) \in 1 .. Len(t) /\ u[i] = t[i - Len(s)]
    BY <1>1
<1>5. ASSUME NEW x \in Elements(u) PROVE x \in Elements(s) \cup Elements(t)
    <2>1. PICK i \in 1 .. Len(u) : x = u[i]
        BY DEF Elements
    <2>2. \/ i \in 1 .. Len(s) /\ u[i] = s[i]
          \/ i - Len(s) \in 1 .. Len(t) /\ u[i] = t[i - Len(s)]
        BY <1>4
    <2>. QED
        BY <2>1, <2>2 DEF Elements
<1>6. ASSUME NEW x \in Elements(s) PROVE x \in Elements(u)
    BY <1>2 DEF Elements
<1>7. ASSUME NEW x \in Elements(t) PROVE x \in Elements(u)
    BY <1>3 DEF Elements
<1>. QED
    BY <1>1, <1>5, <1>6, <1>7 DEF u

\* Taking the head off a sequence takes at most that element.
LEMMA TailElements ==
    ASSUME NEW S, NEW s \in Seq(S), s # <<>>
    PROVE  /\ Tail(s) \in Seq(S)
           /\ Elements(s) \subseteq {Head(s)} \cup Elements(Tail(s))
           /\ Elements(Tail(s)) \subseteq Elements(s)
<1>. DEFINE t == Tail(s)
<1>1. /\ t \in Seq(S) /\ Len(s) \in Nat /\ Len(s) >= 1 /\ Len(t) = Len(s) - 1
      /\ \A i \in 1 .. Len(t) : t[i] = s[i + 1]
      /\ Head(s) = s[1]
    OBVIOUS
<1>. HIDE DEF t
<1>2. ASSUME NEW x \in Elements(s) PROVE x \in {Head(s)} \cup Elements(t)
    <2>1. PICK i \in 1 .. Len(s) : x = s[i]
        BY DEF Elements
    <2>2. CASE i = 1
        BY <2>1, <2>2, <1>1
    <2>3. CASE i # 1
        <3>1. i - 1 \in 1 .. Len(t) /\ (i - 1) + 1 = i
            BY <2>1, <2>3, <1>1
        <3>2. t[i - 1] = s[i]
            BY <3>1, <1>1
        <3>. QED
            BY <3>1, <3>2, <2>1 DEF Elements
    <2>. QED
        BY <2>2, <2>3
<1>3. ASSUME NEW x \in Elements(t) PROVE x \in Elements(s)
    <2>1. PICK i \in 1 .. Len(t) : x = t[i]
        BY DEF Elements
    <2>2. i + 1 \in 1 .. Len(s) /\ x = s[i + 1]
        BY <2>1, <1>1
    <2>. QED
        BY <2>2 DEF Elements
<1>. QED
    BY <1>1, <1>2, <1>3 DEF t

\* What Fresh finds: the walkable neighbours that are not known.
LEMMA FreshElements ==
    ASSUME NEW c, NEW tiles, NEW known
    PROVE  /\ Fresh(tiles, c, known) \in Seq(Grid)
           /\ \A n \in Elements(Fresh(tiles, c, known)) : Open(tiles, n)
           /\ \A d \in Directions :
                 Open(tiles, Adjacent(c)[d]) =>
                    Adjacent(c)[d] \in known \cup Elements(Fresh(tiles, c, known))
<1>. DEFINE A(d) == IfFresh(tiles, Adjacent(c)[d], known)
<1>1. ASSUME NEW d \in Directions
      PROVE  /\ A(d) \in Seq(Grid)
             /\ \A n \in Elements(A(d)) : Open(tiles, n)
             /\ Open(tiles, Adjacent(c)[d]) =>
                   Adjacent(c)[d] \in known \cup Elements(A(d))
    <2>. DEFINE a == Adjacent(c)[d]
    <2>. HIDE DEF a
    <2>1. CASE Open(tiles, a) /\ a \notin known
        <3>1. IfFresh(tiles, a, known) = <<a>> /\ a \in Grid
            BY <2>1 DEF IfFresh, Open
        <3>2. <<a>> \in Seq(Grid) /\ Elements(<<a>>) = {a}
            BY <3>1 DEF Elements
        <3>. QED
            BY <2>1, <3>1, <3>2 DEF a
    <2>2. CASE ~(Open(tiles, a) /\ a \notin known)
        <3>1. IfFresh(tiles, a, known) = <<>>
            BY <2>2 DEF IfFresh
        <3>2. <<>> \in Seq(Grid) /\ Elements(<<>>) = {}
            BY DEF Elements
        <3>. QED
            BY <2>2, <3>1, <3>2 DEF a
    <2>. QED
        BY <2>1, <2>2
<1>2. 1 \in Directions /\ 2 \in Directions /\ 3 \in Directions /\ 4 \in Directions
      /\ \A d \in Directions : d \in {1, 2, 3, 4}
    BY DEF Directions
<1>. HIDE DEF A
<1>. DEFINE two   == A(1) \o A(2)
            three == two \o A(3)
            four  == three \o A(4)
<1>3. two \in Seq(Grid) /\ Elements(two) = Elements(A(1)) \cup Elements(A(2))
    BY <1>1, <1>2, ConcatElements
<1>. HIDE DEF two
<1>4. three \in Seq(Grid) /\ Elements(three) = Elements(two) \cup Elements(A(3))
    BY <1>1, <1>2, <1>3, ConcatElements
<1>. HIDE DEF three
<1>5. four \in Seq(Grid) /\ Elements(four) = Elements(three) \cup Elements(A(4))
    BY <1>1, <1>2, <1>4, ConcatElements
<1>6. Fresh(tiles, c, known) = four
    BY DEF Fresh, A, two, three
<1>. HIDE DEF four
<1>7. Elements(Fresh(tiles, c, known)) =
         Elements(A(1)) \cup Elements(A(2)) \cup Elements(A(3)) \cup Elements(A(4))
    BY <1>3, <1>4, <1>5, <1>6
<1>. QED
    BY <1>1, <1>2, <1>5, <1>6, <1>7

\* One step of the search keeps what has been seen and is not queued closed.
LEMMA SearchStep ==
    ASSUME MazeInv, bfs_reachable
    PROVE  MazeInv'
<1>. DEFINE found == Fresh(mazeWalls, Head(queue), seen)
<1>1. /\ mode = "search" /\ queue # <<>>
      /\ queue' = Tail(queue) \o found
      /\ seen' = seen \cup Elements(found)
      /\ UNCHANGED <<topology, mazeWalls, mode, result, pac, mazeEdits>>
    BY DEF bfs_reachable, Elements
<1>2. /\ found \in Seq(Grid) /\ Elements(found) \subseteq Grid
      /\ \A n \in Elements(found) : Open(mazeWalls, n)
      /\ \A d \in Directions :
            Open(mazeWalls, Adjacent(Head(queue))[d]) =>
                Adjacent(Head(queue))[d] \in seen \cup Elements(found)
    BY FreshElements DEF Open
<1>. HIDE DEF found
<1>3. queue \in Seq(Grid) /\ seen \subseteq Grid
    BY DEF MazeInv
<1>4. /\ Tail(queue) \in Seq(Grid)
      /\ Elements(queue) \subseteq {Head(queue)} \cup Elements(Tail(queue))
      /\ Elements(Tail(queue)) \subseteq Elements(queue)
    BY <1>1, <1>3, TailElements
<1>5. /\ queue' \in Seq(Grid)
      /\ Elements(queue') = Elements(Tail(queue)) \cup Elements(found)
    <2>. DEFINE tail == Tail(queue)
    <2>1. tail \in Seq(Grid) /\ found \in Seq(Grid)
        BY <1>2, <1>4
    <2>2. queue' = tail \o found
        BY <1>1
    <2>. HIDE DEF tail
    <2>3. tail \o found \in Seq(Grid)
          /\ Elements(tail \o found) = Elements(tail) \cup Elements(found)
        BY ONLY <2>1, ConcatElements
    <2>. QED
        BY <2>2, <2>3 DEF tail
<1>6. seen' \subseteq Grid
    BY <1>1, <1>2, <1>3
<1>7. SearchClosed'
    <2>1. /\ Elements(queue) \subseteq seen
          /\ \A c \in seen \ Elements(queue), d \in Directions :
                Open(mazeWalls, Adjacent(c)[d]) => Adjacent(c)[d] \in seen
        BY <1>1 DEF MazeInv, SearchClosed, Queued, Elements, Directions
    <2>2. Elements(queue') \subseteq seen'
        BY <1>1, <1>4, <1>5, <2>1
    <2>3. ASSUME NEW c \in seen' \ Elements(queue'), NEW d \in Directions,
                 Open(mazeWalls, Adjacent(c)[d])
          PROVE  Adjacent(c)[d] \in seen'
        <3>1. c \in seen /\ c \notin Elements(Tail(queue))
            BY <1>1, <1>5, <2>3
        <3>2. CASE c = Head(queue)
            BY <1>1, <1>2, <2>3, <3>2
        <3>3. CASE c # Head(queue)
            BY <1>1, <1>4, <2>1, <2>3, <3>1, <3>3
        <3>. QED
            BY <3>2, <3>3
    <2>. QED
        BY <1>1, <2>2, <2>3 DEF SearchClosed, Queued, Elements, Directions
<1>8. SeenOpen'
    BY <1>1, <1>2 DEF MazeInv, SeenOpen
<1>9. Started'
    BY <1>1 DEF MazeInv, Started
<1>10. result = "none"
    BY <1>1 DEF MazeInv, NoVerdictYet
<1>. QED
    BY <1>1, <1>5, <1>6, <1>7, <1>8, <1>9, <1>10
       DEF MazeInv, Judged, NoVerdictYet, Idle, AtSpawn, PacInside

-----------------------------------------------------------------------------
(* Steps *)

\* Nothing is queued or seen in an initial state.
LEMMA InitMazeInv == MazeInit => MazeInv
BY GridFacts DEF MazeInit, MazeInv, SearchClosed, SeenOpen, Started, Judged,
                 NoVerdictYet, Idle, AtSpawn, PacInside

\* An edit touches the topology only.
LEMMA EditStep ==
    ASSUME MazeInv, NEW cells, NEW symbol, EditTopology(cells, symbol)
    PROVE  MazeInv'
<1>1. mode = "edit"
      /\ UNCHANGED <<mazeWalls, mode, queue, seen, result, pac>>
    BY DEF EditTopology
<1>. QED
    BY <1>1 DEF MazeInv, SearchClosed, Queued, Open, SeenOpen, Started, Judged,
                NoVerdictYet, Idle, AtSpawn, PacInside

\* A search starts with its first cell queued, on a table just written.
LEMMA AutotileStep ==
    ASSUME MazeInv, Autotile
    PROVE  MazeInv'
<1>1. mode = "edit" /\ UNCHANGED pac /\ result = "none"
      /\ queue = <<>> /\ seen = {}
    BY DEF Autotile, MazeInv, NoVerdictYet, Idle
<1>2. CASE validate_topology(topology)
    <2>1. /\ mode' = "search" /\ queue' = <<Spawn>> /\ seen' = {Spawn}
          /\ result' = "none"
        BY <1>1, <1>2 DEF Autotile
    <2>2. queue' \in Seq(Grid) /\ Elements(queue') = {Spawn} /\ Spawn \in Grid
        BY <2>1, GridFacts DEF Elements
    <2>3. SearchClosed'
        BY <2>1, <2>2 DEF SearchClosed, Queued, Elements
    <2>. QED
        BY <1>1, <2>1, <2>2, <2>3
           DEF MazeInv, SeenOpen, Started, Judged, NoVerdictYet, Idle, AtSpawn,
               PacInside
<1>3. CASE ~validate_topology(topology)
    <2>1. /\ mode' = "verdict" /\ result' = "invalid"
          /\ UNCHANGED <<mazeWalls, queue, seen>>
        BY <1>3 DEF Autotile
    <2>2. SearchClosed'
        <3>1. Queued' = {}
            BY <1>1, <2>1 DEF Queued
        <3>. QED
            BY <1>1, <2>1, <3>1 DEF SearchClosed
    <2>. QED
        BY <1>1, <2>1, <2>2
           DEF MazeInv, SeenOpen, Started, Judged, NoVerdictYet, Idle, AtSpawn,
               PacInside
<1>. QED
    BY <1>2, <1>3

\* A verdict is read off an empty queue.
LEMMA ReportStep ==
    ASSUME MazeInv, ReportReach
    PROVE  MazeInv'
<1>1. /\ mode = "search" /\ queue = <<>> /\ mode' = "verdict"
      /\ result' \in {"ok", "unreachable"}
      /\ result' = "ok" => Placed(mazeWalls) \subseteq seen
      /\ UNCHANGED <<topology, mazeWalls, queue, seen, pac, mazeEdits>>
    BY DEF ReportReach
<1>2. SearchClosed'
    BY <1>1 DEF MazeInv, SearchClosed, Queued, Open
<1>3. SeenOpen' /\ Started'
    BY <1>1 DEF MazeInv, SeenOpen, Started, Open
<1>4. Judged'
    BY <1>1 DEF Judged, Placed
<1>. QED
    BY <1>1, <1>2, <1>3, <1>4 DEF MazeInv, NoVerdictYet, Idle, AtSpawn, PacInside

\* Pac-Man starts where the search started.
LEMMA PlayStep ==
    ASSUME MazeInv, Play
    PROVE  MazeInv'
<1>1. /\ mode = "verdict" /\ mode' = "play"
      /\ UNCHANGED <<topology, mazeWalls, queue, seen, result, pac, mazeEdits>>
    BY DEF Play
<1>2. SearchClosed'
    BY <1>1 DEF MazeInv, SearchClosed, Queued, Open
<1>3. SeenOpen' /\ Started' /\ Judged'
    BY <1>1 DEF MazeInv, SeenOpen, Started, Judged, Placed, Open
<1>4. PacInside'
    BY <1>1 DEF MazeInv, Started, AtSpawn, PacInside
<1>. QED
    BY <1>1, <1>2, <1>3, <1>4 DEF MazeInv, NoVerdictYet, Idle, AtSpawn

\* Pac-Man's step leads to a walkable neighbour, which has been seen.
LEMMA MoveStep ==
    ASSUME MazeInv, MovePac
    PROVE  MazeInv'
<1>1. /\ mode = "play" /\ pac \in Grid /\ pac' \in canMovePac(mazeWalls, pac)
      /\ UNCHANGED <<topology, mazeWalls, mode, queue, seen, result, mazeEdits>>
    BY DEF MovePac
<1>2. SearchClosed'
    BY <1>1 DEF MazeInv, SearchClosed, Queued, Open
<1>3. SeenOpen' /\ Started' /\ Judged'
    BY <1>1 DEF MazeInv, SeenOpen, Started, Judged, Placed, Open
<1>4. ASSUME result = "ok", BorderClosed PROVE pac' \in seen
    <2>1. pac \in seen /\ queue = <<>>
        BY <1>1, <1>4 DEF MazeInv, PacInside, Judged
    <2>2. PICK d \in Directions : /\ pac' = Adjacent(pac)[d]
                                  /\ getWallCell(mazeWalls, pac') \in {0, 11}
        BY <1>1 DEF canMovePac, Directions
    <2>3. ~IsEdge(pac[1], pac[2]) \/ pac[1] = TunnelRow
        BY <1>1, <1>4, <2>1, GridFacts DEF MazeInv, SeenOpen, BorderClosed
    <2>4. pac' \in Grid
        BY <1>1, <2>2, <2>3, StepsStayOnGrid
    <2>5. Open(mazeWalls, pac')
        BY <2>2, <2>4 DEF getWallCell, Open
    <2>6. pac \in seen \ Queued
        BY <2>1 DEF Queued
    <2>. QED
        BY <1>1, <2>2, <2>5, <2>6 DEF MazeInv, SearchClosed, Directions
<1>5. PacInside'
    BY <1>1, <1>4 DEF PacInside, BorderClosed, Open
<1>. QED
    BY <1>1, <1>2, <1>3, <1>5 DEF MazeInv, NoVerdictYet, Idle, AtSpawn

\* Every step, and a stutter, keeps the invariant.
LEMMA NextMazeInv == MazeInv /\ [MazeNext]_mazeVars => MazeInv'
<1>. SUFFICES ASSUME MazeInv, [MazeNext]_mazeVars PROVE MazeInv'
    OBVIOUS
<1>1. ASSUME NEW c \in EditCells, NEW symbol \in Symbols,
             EditTopology({c}, symbol) \/ EditTopology({c, Mirror(c)}, symbol)
      PROVE  MazeInv'
    BY <1>1, EditStep
<1>2. CASE Autotile
    BY <1>2, AutotileStep
<1>3. CASE bfs_reachable
    BY <1>3, SearchStep
<1>4. CASE ReportReach
    BY <1>4, ReportStep
<1>5. CASE Play
    BY <1>5, PlayStep
<1>6. CASE MovePac
    BY <1>6, MoveStep
<1>7. CASE UNCHANGED mazeVars
    BY <1>7 DEF mazeVars, MazeInv, SearchClosed, Queued, Open, SeenOpen, Started,
                Judged, Placed, NoVerdictYet, Idle, AtSpawn, PacInside, BorderClosed
<1>. QED
    BY <1>1, <1>2, <1>3, <1>4, <1>5, <1>6, <1>7 DEF MazeNext

-----------------------------------------------------------------------------

\* The breadth-first search of pacman_maze_reachability.py misses nothing: each
\* walkable neighbour of a cell it is done with has been seen.
THEOREM SearchClosedTheorem == MazeSpec => []SearchClosed
<1>1. MazeSpec => []MazeInv
    BY InitMazeInv, NextMazeInv, PTL DEF MazeSpec
<1>2. MazeInv => SearchClosed
    BY DEF MazeInv
<1>. QED
    BY <1>1, <1>2, PTL

\* In a maze the script passed, every dot resetItems places is on a cell that
\* was reached, and Pac-Man never leaves these cells.
THEOREM VerdictHoldsTheorem == MazeSpec => []VerdictHolds
<1>1. MazeSpec => []MazeInv
    BY InitMazeInv, NextMazeInv, PTL DEF MazeSpec
<1>2. MazeInv => VerdictHolds
    <2>. SUFFICES ASSUME MazeInv, mode = "play", result = "ok", BorderClosed,
                         NEW c \in Grid, resetItems(mazeWalls)[c] = ITEM_DOT
                  PROVE  c \in seen
        BY DEF MazeInv, PacInside, VerdictHolds
    <2>1. c \in Placed(mazeWalls)
        BY DEF resetItems, ITEM_DOT, ITEM_NONE, ITEM_PELLET, Placed
    <2>. QED
        BY <2>1 DEF MazeInv, Judged
<1>. QED
    BY <1>1, <1>2, PTL

-----------------------------------------------------------------------------
(* What the generator draws *)

\* A topology that is its own mirror image.
Symmetric(t) == t \in [Grid -> Symbols] /\ \A c \in Grid : t[c] = t[Mirror(c)]

LEMMA Mirrored ==
    ASSUME NEW c \in Grid
    PROVE  /\ Mirror(c) \in Grid /\ Mirror(Mirror(c)) = c
           /\ Mirror(c)[1] = c[1] /\ Mirror(c)[2] = COLS - 1 - c[2]
<1>1. COLS \in Nat /\ c[1] \in 0 .. ROWS - 1 /\ c[2] \in 0 .. COLS - 1
      /\ c = <<c[1], c[2]>>
    BY GridFacts, MazeAssumption DEF Grid
<1>2. COLS - 1 - c[2] \in 0 .. COLS - 1 /\ COLS - 1 - (COLS - 1 - c[2]) = c[2]
    BY <1>1
<1>3. Mirror(c)[1] = c[1] /\ Mirror(c)[2] = COLS - 1 - c[2]
    BY DEF Mirror
<1>4. Mirror(c) \in Grid
    BY <1>1, <1>2 DEF Grid, Mirror
<1>. QED
    BY <1>1, <1>2, <1>3, <1>4 DEF Mirror

\* The walls beside the mirror image of a cell.
LEMMA WallsMirrored ==
    ASSUME NEW t, Symmetric(t), NEW row \in Int, NEW col \in Int
    PROVE  is_wall(t, row, COLS - 1 - col) <=> is_wall(t, row, col)
<1>. DEFINE k == COLS - 1 - col
<1>1. ROWS \in Nat /\ COLS \in Nat
    BY MazeAssumption
<1>2. k \in Int /\ (k \in 0 .. COLS - 1 <=> col \in 0 .. COLS - 1)
    BY <1>1
<1>3. <<row, k>> \in Grid <=> <<row, col>> \in Grid
    BY <1>2 DEF Grid
<1>4. Mirror(<<row, col>>) = <<row, k>>
    BY DEF Mirror
<1>. HIDE DEF k
<1>5. <<row, col>> \in Grid => t[<<row, col>>] = t[<<row, k>>]
    BY <1>4 DEF Symmetric
<1>6. is_wall(t, row, k) <=> is_wall(t, row, col)
    BY <1>3, <1>5 DEF is_wall
<1>. QED
    BY <1>6 DEF k

\* Left and right exchanged: no rule favours a side but the one for a wall
\* that is open on both.
LEMMA InnerMirrored ==
    ASSUME NEW up \in BOOLEAN, NEW down \in BOOLEAN,
           NEW left \in BOOLEAN, NEW right \in BOOLEAN, left \/ right
    PROVE  InnerTile(up, down, right, left) = MirrorTile(InnerTile(up, down, left, right))
<1>1. CASE left /\ right
    BY <1>1 DEF InnerTile, MirrorTile
<1>2. CASE left /\ ~right
    <2>1. InnerTile(up, down, left, right) = IF up THEN IF down THEN 4 ELSE 8
                                             ELSE IF down THEN 6 ELSE 1
        BY <1>2 DEF InnerTile
    <2>2. InnerTile(up, down, right, left) = IF up THEN IF down THEN 3 ELSE 7
                                             ELSE IF down THEN 5 ELSE 1
        BY <1>2 DEF InnerTile
    <2>. QED
        BY <2>1, <2>2 DEF MirrorTile
<1>3. CASE ~left /\ right
    <2>1. InnerTile(up, down, left, right) = IF up THEN IF down THEN 3 ELSE 7
                                             ELSE IF down THEN 5 ELSE 1
        BY <1>3 DEF InnerTile
    <2>2. InnerTile(up, down, right, left) = IF up THEN IF down THEN 4 ELSE 8
                                             ELSE IF down THEN 6 ELSE 1
        BY <1>3 DEF InnerTile
    <2>. QED
        BY <2>1, <2>2 DEF MirrorTile
<1>. QED
    BY <1>1, <1>2, <1>3

LEMMA MirrorTwice == \A n \in 1 .. 9 : MirrorTile(MirrorTile(n)) = n
BY DEF MirrorTile

LEMMA MirrorTiles ==
    /\ MirrorTile(0) = 0 /\ MirrorTile(1) = 1 /\ MirrorTile(2) = 2
    /\ MirrorTile(5) = 6 /\ MirrorTile(6) = 5 /\ MirrorTile(7) = 8 /\ MirrorTile(8) = 7
    /\ MirrorTile(10) = 10 /\ MirrorTile(11) = 11
BY DEF MirrorTile

LEMMA EdgeMirrored ==
    ASSUME SymmetricTables, NEW row \in 0 .. ROWS - 1, NEW col \in 0 .. COLS - 1,
           IsEdge(row, col)
    PROVE  EdgeTile(row, COLS - 1 - col) = MirrorTile(EdgeTile(row, col))
<1>1. ROWS \in Nat /\ COLS \in Nat /\ ROWS > 2 /\ COLS > 2
    BY MazeAssumption
<1>. DEFINE k == COLS - 1 - col
<1>2. (col = 0 <=> k = COLS - 1) /\ (col = COLS - 1 <=> k = 0) /\ COLS - 1 # 0
    BY <1>1
<1>3. \A r \in DOMAIN LEFT_EDGE :
          /\ r \in DOMAIN RIGHT_EDGE
          /\ RIGHT_EDGE[r] = MirrorTile(LEFT_EDGE[r])
          /\ LEFT_EDGE[r] = MirrorTile(RIGHT_EDGE[r])
    <2>1. \A r \in DOMAIN LEFT_EDGE : LEFT_EDGE[r] \in 1 .. 9
        BY MazeAssumption
    <2>. QED
        BY <2>1, MirrorTwice, MazeAssumption DEF SymmetricTables
<1>4. DOMAIN RIGHT_EDGE = DOMAIN LEFT_EDGE
    BY MazeAssumption
<1>. HIDE DEF k
<1>5. CASE row = 0
    <2>1. EdgeTile(row, col) = IF col = 0 THEN 5 ELSE IF col = COLS - 1 THEN 6 ELSE 1
        BY <1>1, <1>5 DEF EdgeTile
    <2>2. EdgeTile(row, k) = IF k = 0 THEN 5 ELSE IF k = COLS - 1 THEN 6 ELSE 1
        BY <1>1, <1>5 DEF EdgeTile
    <2>3. EdgeTile(row, k) = MirrorTile(EdgeTile(row, col))
        BY <1>1, <1>2, <2>1, <2>2, MirrorTiles
    <2>. QED
        BY <2>3 DEF k
<1>6. CASE row # 0 /\ row = ROWS - 1
    <2>1. EdgeTile(row, col) = IF col = 0 THEN 7 ELSE IF col = COLS - 1 THEN 8 ELSE 2
        BY <1>1, <1>6 DEF EdgeTile
    <2>2. EdgeTile(row, k) = IF k = 0 THEN 7 ELSE IF k = COLS - 1 THEN 8 ELSE 2
        BY <1>1, <1>6 DEF EdgeTile
    <2>3. EdgeTile(row, k) = MirrorTile(EdgeTile(row, col))
        BY <1>1, <1>2, <2>1, <2>2, MirrorTiles
    <2>. QED
        BY <2>3 DEF k
<1>7. CASE row # 0 /\ row # ROWS - 1 /\ col = 0
    <2>1. EdgeTile(row, col) = IF row \in DOMAIN LEFT_EDGE THEN LEFT_EDGE[row] ELSE 3
        BY <1>7 DEF EdgeTile
    <2>2. EdgeTile(row, k) = IF row \in DOMAIN RIGHT_EDGE THEN RIGHT_EDGE[row] ELSE 4
        BY <1>2, <1>7 DEF EdgeTile
    <2>3. MirrorTile(3) = 4
        BY DEF MirrorTile
    <2>. HIDE DEF EdgeTile
    <2>. QED
        BY <1>3, <1>4, <2>1, <2>2, <2>3 DEF k
<1>8. CASE row # 0 /\ row # ROWS - 1 /\ col # 0
    <2>1. EdgeTile(row, col) = IF row \in DOMAIN RIGHT_EDGE THEN RIGHT_EDGE[row] ELSE 4
        BY <1>8 DEF EdgeTile
    <2>2. k = 0
        BY <1>2, <1>8 DEF IsEdge
    <2>3. EdgeTile(row, k) = IF row \in DOMAIN LEFT_EDGE THEN LEFT_EDGE[row] ELSE 3
        BY <1>8, <2>2 DEF EdgeTile
    <2>4. MirrorTile(4) = 3
        BY DEF MirrorTile
    <2>. QED
        BY <1>3, <1>4, <2>1, <2>3, <2>4 DEF k
<1>. QED
    BY <1>5, <1>6, <1>7, <1>8 DEF k

\* A wall with a wall to its left or to its right is drawn at its mirror image
\* as its mirror image.
LEMMA WallMirrored ==
    ASSUME SymmetricTables, NEW t, Symmetric(t), NEW c \in Grid,
           is_wall(t, c[1], c[2] - 1) \/ is_wall(t, c[1], c[2] + 1)
    PROVE  render_wall(t, Mirror(c)[1], Mirror(c)[2]) = MirrorTile(render_wall(t, c[1], c[2]))
<1>. DEFINE row == c[1]
            col == c[2]
            k   == COLS - 1 - c[2]
<1>1. /\ ROWS \in Nat /\ COLS \in Nat /\ ROWS > 2 /\ COLS > 2
      /\ row \in 0 .. ROWS - 1 /\ col \in 0 .. COLS - 1
      /\ Mirror(c) \in Grid /\ Mirror(Mirror(c)) = c
      /\ Mirror(c)[1] = row /\ Mirror(c)[2] = k
    BY MazeAssumption, GridFacts, Mirrored
<1>2. c = <<row, col>> /\ Mirror(c) = <<row, k>>
    BY DEF Grid, Mirror
<1>3. CASE c \in DOMAIN TILE_OVERRIDES
    BY <1>1, <1>2, <1>3 DEF SymmetricTables, render_wall
<1>4. CASE c \notin DOMAIN TILE_OVERRIDES
    <2>1. Mirror(c) \notin DOMAIN TILE_OVERRIDES
        BY <1>1, <1>4 DEF SymmetricTables
    <2>2. IsEdge(row, k) <=> IsEdge(row, col)
        BY <1>1 DEF IsEdge
    <2>3. CASE IsEdge(row, col)
        <3>1. EdgeTile(row, k) = MirrorTile(EdgeTile(row, col))
            BY <1>1, <2>3, EdgeMirrored
        <3>2. render_wall(t, row, col) = EdgeTile(row, col)
            BY <1>2, <1>4, <2>3 DEF render_wall
        <3>3. render_wall(t, row, k) = EdgeTile(row, k)
            BY <1>2, <2>1, <2>2, <2>3 DEF render_wall
        <3>. QED
            BY <1>1, <3>1, <3>2, <3>3
    <2>4. CASE ~IsEdge(row, col)
        <3>. DEFINE up    == is_wall(t, row - 1, col)
                    down  == is_wall(t, row + 1, col)
                    left  == is_wall(t, row, col - 1)
                    right == is_wall(t, row, col + 1)
        <3>1. /\ is_wall(t, row - 1, k) <=> up
              /\ is_wall(t, row + 1, k) <=> down
            <4>1. row - 1 \in Int /\ row + 1 \in Int /\ col \in Int
                BY <1>1
            <4>. QED
                BY <4>1, WallsMirrored
        <3>2. /\ is_wall(t, row, k - 1) <=> right
              /\ is_wall(t, row, k + 1) <=> left
            <4>1. row \in Int /\ col + 1 \in Int /\ col - 1 \in Int
                  /\ k - 1 = COLS - 1 - (col + 1) /\ k + 1 = COLS - 1 - (col - 1)
                BY <1>1
            <4>2. is_wall(t, row, COLS - 1 - (col + 1)) <=> right
                BY <4>1, WallsMirrored
            <4>3. is_wall(t, row, COLS - 1 - (col - 1)) <=> left
                BY <4>1, WallsMirrored
            <4>. QED
                BY <4>1, <4>2, <4>3
        <3>3. /\ is_wall(t, row - 1, k) \in BOOLEAN /\ is_wall(t, row + 1, k) \in BOOLEAN
              /\ is_wall(t, row, k - 1) \in BOOLEAN /\ is_wall(t, row, k + 1) \in BOOLEAN
              /\ up \in BOOLEAN /\ down \in BOOLEAN /\ left \in BOOLEAN /\ right \in BOOLEAN
            BY DEF is_wall
        <3>4. /\ is_wall(t, row - 1, k) = up /\ is_wall(t, row + 1, k) = down
              /\ is_wall(t, row, k - 1) = right /\ is_wall(t, row, k + 1) = left
            BY <3>1, <3>2, <3>3
        <3>5. render_wall(t, row, col) = InnerTile(up, down, left, right)
            BY <1>2, <1>4, <2>4 DEF render_wall
        <3>6. render_wall(t, row, k) = InnerTile(up, down, right, left)
            BY <1>2, <2>1, <2>2, <2>4, <3>4 DEF render_wall
        <3>7. InnerTile(up, down, right, left) = MirrorTile(InnerTile(up, down, left, right))
            BY <3>3, InnerMirrored
        <3>. QED
            BY <1>1, <3>5, <3>6, <3>7
    <2>. QED
        BY <2>3, <2>4
<1>. QED
    BY <1>3, <1>4

\* A symmetric topology is drawn symmetrically, but for thin walls.
LEMMA TilesMirrored ==
    ASSUME SymmetricTables, NEW t, Symmetric(t), NEW c \in Grid,
           is_wall(t, c[1], c[2] - 1) \/ is_wall(t, c[1], c[2] + 1)
    PROVE  generate_tiles(t)[Mirror(c)] = MirrorTile(generate_tiles(t)[c])
<1>1. Mirror(c) \in Grid /\ t[Mirror(c)] = t[c] /\ t[c] \in Symbols
    BY Mirrored DEF Symmetric
<1>2. CASE t[c] = WALL
    <2>1. /\ generate_tiles(t)[c] = render_wall(t, c[1], c[2])
          /\ generate_tiles(t)[Mirror(c)] = render_wall(t, Mirror(c)[1], Mirror(c)[2])
        BY <1>1, <1>2 DEF generate_tiles, WALL, PATH, GATE, PELLET
    <2>. QED
        BY <2>1, WallMirrored
<1>3. CASE t[c] # WALL
    <2>1. /\ generate_tiles(t)[c] = IF t[c] = PATH THEN 0 ELSE IF t[c] = GATE THEN 10 ELSE 11
          /\ generate_tiles(t)[Mirror(c)] = IF t[c] = PATH THEN 0 ELSE IF t[c] = GATE THEN 10 ELSE 11
        BY <1>1, <1>3 DEF generate_tiles, Symbols, WALL, PATH, GATE, PELLET
    <2>. QED
        BY <2>1, MirrorTiles
<1>. QED
    BY <1>2, <1>3

\* Every cell is drawn with one of the twelve tiles.
LEMMA TilesAreTiles ==
    ASSUME NEW t \in [Grid -> Symbols]
    PROVE  generate_tiles(t) \in [Grid -> Tile]
<1>1. ASSUME NEW row \in 0 .. ROWS - 1, NEW col \in 0 .. COLS - 1
      PROVE  render_wall(t, row, col) \in Tile
    <2>1. EdgeTile(row, col) \in Tile
        <3>1. \A r \in DOMAIN LEFT_EDGE : LEFT_EDGE[r] \in 1 .. 9 /\ RIGHT_EDGE[r] \in 1 .. 9
            BY MazeAssumption
        <3>2. DOMAIN RIGHT_EDGE = DOMAIN LEFT_EDGE /\ ROWS > 2 /\ ROWS \in Nat
            BY MazeAssumption
        <3>3. CASE row = 0
            BY <3>2, <3>3 DEF EdgeTile, Tile
        <3>4. CASE row = ROWS - 1
            BY <3>2, <3>4 DEF EdgeTile, Tile
        <3>5. CASE row \notin {0, ROWS - 1} /\ col = 0
            BY <3>1, <3>5 DEF EdgeTile, Tile
        <3>6. CASE row \notin {0, ROWS - 1} /\ col # 0
            BY <3>1, <3>2, <3>6 DEF EdgeTile, Tile
        <3>. QED
            BY <3>3, <3>4, <3>5, <3>6
    <2>2. \A up, down, left, right \in BOOLEAN : InnerTile(up, down, left, right) \in Tile
        <3>. SUFFICES ASSUME NEW up \in BOOLEAN, NEW down \in BOOLEAN,
                             NEW left \in BOOLEAN, NEW right \in BOOLEAN
                      PROVE  InnerTile(up, down, left, right) \in Tile
            OBVIOUS
        <3>1. CASE left /\ right
            BY <3>1 DEF InnerTile, Tile
        <3>2. CASE left /\ ~right
            BY <3>2 DEF InnerTile, Tile
        <3>3. CASE ~left /\ right
            BY <3>3 DEF InnerTile, Tile
        <3>4. CASE ~left /\ ~right
            BY <3>4 DEF InnerTile, Tile
        <3>. QED
            BY <3>1, <3>2, <3>3, <3>4
    <2>3. \A r, k : is_wall(t, r, k) \in BOOLEAN
        BY DEF is_wall
    <2>4. <<row, col>> \in DOMAIN TILE_OVERRIDES => TILE_OVERRIDES[<<row, col>>] \in Tile
        BY MazeAssumption
    <2>. QED
        BY <2>1, <2>2, <2>3, <2>4 DEF render_wall
<1>2. ASSUME NEW c \in Grid PROVE generate_tiles(t)[c] \in Tile
    <2>1. t[c] \in Symbols /\ c[1] \in 0 .. ROWS - 1 /\ c[2] \in 0 .. COLS - 1
        BY GridFacts
    <2>2. CASE t[c] = WALL
        BY <1>1, <2>1, <2>2 DEF generate_tiles, WALL, PATH, GATE, PELLET
    <2>3. CASE t[c] # WALL
        <3>1. generate_tiles(t)[c] = IF t[c] = PATH THEN 0 ELSE IF t[c] = GATE THEN 10 ELSE 11
            BY <2>1, <2>3 DEF generate_tiles, Symbols, WALL, PATH, GATE, PELLET
        <3>. QED
            BY <3>1 DEF Tile
    <2>. QED
        BY <2>2, <2>3
<1>. DEFINE tile(c) == CASE t[c] = PATH   -> 0
                         [] t[c] = GATE   -> 10
                         [] t[c] = PELLET -> 11
                         [] t[c] = WALL   -> render_wall(t, c[1], c[2])
<1>3. generate_tiles(t) = [c \in Grid |-> tile(c)]
    BY DEF generate_tiles
<1>. HIDE DEF tile
<1>. QED
    BY <1>2, <1>3

\* From the build to the verdict the table is what the topology makes.
Tiled ==
    mode = "search" \/ (mode = "verdict" /\ result # "invalid") =>
        mazeWalls = generate_tiles(topology)

DrawnInv == /\ topology \in [Grid -> Symbols] /\ mazeWalls \in [Grid -> Tile]
            /\ mode \in {"edit", "search", "verdict", "play"}
            /\ result \in {"none", "ok", "unreachable", "invalid"}
            /\ Tiled

LEMMA InitDrawnInv == MazeInit => DrawnInv
<1>1. MazeInit => mazeWalls \in [Grid -> Tile]
    BY TilesAreTiles, MazeAssumption DEF MazeInit
<1>. QED
    BY <1>1, MazeAssumption DEF MazeInit, DrawnInv, Tiled

LEMMA NextDrawnInv == DrawnInv /\ [MazeNext]_mazeVars => DrawnInv'
<1>. SUFFICES ASSUME DrawnInv, [MazeNext]_mazeVars PROVE DrawnInv'
    OBVIOUS
<1>1. ASSUME NEW cells, NEW symbol \in Symbols, EditTopology(cells, symbol)
      PROVE  DrawnInv'
    <2>1. topology' \in [Grid -> Symbols]
        BY <1>1 DEF EditTopology, DrawnInv
    <2>. QED
        BY <1>1, <2>1 DEF EditTopology, DrawnInv, Tiled
<1>2. CASE Autotile
    <2>1. generate_tiles(topology) \in [Grid -> Tile]
        BY TilesAreTiles DEF DrawnInv
    <2>2. CASE validate_topology(topology)
        BY <1>2, <2>1, <2>2 DEF Autotile, DrawnInv, Tiled
    <2>3. CASE ~validate_topology(topology)
        BY <1>2, <2>3 DEF Autotile, DrawnInv, Tiled
    <2>. QED
        BY <2>2, <2>3
<1>3. CASE bfs_reachable
    BY <1>3 DEF bfs_reachable, DrawnInv, Tiled
<1>4. CASE ReportReach
    <2>1. /\ mode = "search" /\ mode' = "verdict" /\ result' \in {"ok", "unreachable"}
          /\ topology' = topology /\ mazeWalls' = mazeWalls
        BY <1>4 DEF ReportReach
    <2>2. mazeWalls' = generate_tiles(topology')
        BY <2>1 DEF DrawnInv, Tiled
    <2>. QED
        BY <2>1, <2>2 DEF DrawnInv, Tiled
<1>5. CASE Play
    BY <1>5 DEF Play, DrawnInv, Tiled
<1>6. CASE MovePac
    BY <1>6 DEF MovePac, DrawnInv, Tiled
<1>7. CASE UNCHANGED mazeVars
    BY <1>7 DEF mazeVars, DrawnInv, Tiled
<1>. QED
    BY <1>1, <1>2, <1>3, <1>4, <1>5, <1>6, <1>7 DEF MazeNext

\* Behind a closed border Pac-Man is on the grid, where he started or where he
\* could walk.
PacInv ==
    /\ AtSpawn
    /\ BorderClosed => pac \in Grid /\ (pac = Spawn \/ Open(mazeWalls, pac))

LEMMA InitPacInv == MazeInit => PacInv
BY GridFacts DEF MazeInit, PacInv, AtSpawn

LEMMA NextPacInv == PacInv /\ [MazeNext]_mazeVars => PacInv'
<1>. SUFFICES ASSUME PacInv, [MazeNext]_mazeVars PROVE PacInv'
    OBVIOUS
<1>1. ASSUME mode # "play", pac' = pac PROVE PacInv'
    <2>1. pac' = Spawn
        BY <1>1 DEF PacInv, AtSpawn
    <2>. QED
        BY <2>1, GridFacts DEF PacInv, AtSpawn
<1>2. ASSUME MovePac PROVE PacInv'
    <2>1. /\ mode' = "play" /\ pac \in Grid /\ mazeWalls' = mazeWalls
          /\ pac' \in canMovePac(mazeWalls, pac)
        BY <1>2 DEF MovePac
    <2>2. PICK d \in Directions : /\ pac' = Adjacent(pac)[d]
                                  /\ getWallCell(mazeWalls, pac') \in {0, 11}
        BY <2>1 DEF canMovePac, Directions
    <2>3. ASSUME BorderClosed PROVE pac' \in Grid /\ Open(mazeWalls, pac')
        <3>1. pac = Spawn \/ Open(mazeWalls, pac)
            BY <2>3 DEF PacInv
        <3>2. ~IsEdge(pac[1], pac[2]) \/ pac[1] = TunnelRow
            BY <2>1, <2>3, <3>1, GridFacts DEF BorderClosed
        <3>3. pac' \in Grid
            BY <2>1, <2>2, <3>2, StepsStayOnGrid
        <3>. QED
            BY <2>2, <3>3 DEF getWallCell, Open
    <2>4. BorderClosed' <=> BorderClosed
        BY <2>1 DEF BorderClosed, Open
    <2>5. Open(mazeWalls', pac') <=> Open(mazeWalls, pac')
        BY <2>1 DEF Open
    <2>. QED
        BY <2>1, <2>3, <2>4, <2>5 DEF PacInv, AtSpawn
<1>3. CASE MazeNext /\ ~MovePac
    <2>1. mode # "play" /\ pac' = pac
        BY <1>3 DEF MazeNext, EditTopology, Autotile, bfs_reachable, ReportReach, Play
    <2>. QED
        BY <1>1, <2>1
<1>4. CASE UNCHANGED mazeVars
    BY <1>4 DEF mazeVars, PacInv, AtSpawn, BorderClosed, Open
<1>. QED
    BY <1>2, <1>3, <1>4

\* The table only ever holds the game's tiles, the search only cells, and where
\* the border is closed Pac-Man, however he moves, is on the grid (canMovePac,
\* the tunnel's two ends).
THEOREM MazeTypeCorrect == MazeSpec => []MazeTypeOK
<1>1. MazeSpec => []MazeInv
    BY InitMazeInv, NextMazeInv, PTL DEF MazeSpec
<1>2. MazeSpec => []DrawnInv
    BY InitDrawnInv, NextDrawnInv, PTL DEF MazeSpec
<1>3. MazeSpec => []PacInv
    BY InitPacInv, NextPacInv, PTL DEF MazeSpec
<1>4. MazeInv /\ DrawnInv /\ PacInv => MazeTypeOK
    BY DEF MazeInv, DrawnInv, PacInv, MazeTypeOK
<1>. QED
    BY <1>1, <1>2, <1>3, <1>4, PTL

\* The rules of autotile.py favour neither side: where the tables drawn by
\* hand do not either, a symmetric topology of any even width makes a
\* symmetric maze (render_wall, generate_tiles).
THEOREM DrawnSymmetricTheorem == SymmetricTables => (MazeSpec => []DrawnSymmetric)
<1>. SUFFICES ASSUME SymmetricTables PROVE MazeSpec => []DrawnSymmetric
    OBVIOUS
<1>1. MazeSpec => []DrawnInv
    BY InitDrawnInv, NextDrawnInv, PTL DEF MazeSpec
<1>2. DrawnInv => DrawnSymmetric
    <2>. SUFFICES ASSUME DrawnInv, mode = "verdict", result # "invalid",
                         \A c \in Grid : topology[c] = topology[Mirror(c)],
                         NEW c \in Grid, ~Thin(c)
                  PROVE  mazeWalls[Mirror(c)] = MirrorTile(mazeWalls[c])
        BY DEF DrawnSymmetric
    <2>1. Symmetric(topology) /\ mazeWalls = generate_tiles(topology)
        BY DEF Symmetric, DrawnInv, Tiled
    <2>2. Mirror(c) # c
        <3>1. c[2] \in 0 .. COLS - 1 /\ COLS \in Nat /\ COLS % 2 = 0
            BY GridFacts, MazeAssumption DEF SymmetricTables
        <3>2. COLS - 1 - c[2] # c[2]
            BY <3>1
        <3>. QED
            BY <3>2, Mirrored
    <2>3. is_wall(topology, c[1], c[2] - 1) \/ is_wall(topology, c[1], c[2] + 1)
        BY <2>2 DEF Thin
    <2>. QED
        BY <2>1, <2>3, TilesMirrored
<1>. QED
    BY <1>1, <1>2, PTL

-----------------------------------------------------------------------------
(* The host side of the build *)

\* A step of the composition is a step of one component, and the others stay.
LEMMA PartSteps ==
    ASSUME [Next]_buildVars
    PROVE  /\ target' = target
           /\ [ManifestNext]_manifestVars /\ [RelocNext]_relocVars
           /\ [MazeNext]_mazeVars /\ [ScreenNext]_screenVars /\ [DiagNext]_diagVars
           /\ target # "maze" => UNCHANGED mazeVars
           /\ target # "screen" => UNCHANGED screenVars
<1>1. CASE InManifest /\ ManifestNext
    BY <1>1 DEF InManifest, Alone
<1>2. CASE InReloc /\ RelocNext
    BY <1>2 DEF InReloc, Alone
<1>3. CASE InMaze /\ MazeNext
    BY <1>3 DEF InMaze, Alone
<1>4. CASE InScreen /\ ScreenNext
    BY <1>4 DEF InScreen, Alone
<1>5. CASE InDiag /\ DiagNext
    BY <1>5 DEF InDiag, Alone
<1>6. CASE UNCHANGED buildVars
    BY <1>6 DEF buildVars
<1>. QED
    BY <1>1, <1>2, <1>3, <1>4, <1>5, <1>6 DEF Next

\* What a run that is about another component keeps of these two.
MazeAside   == target # "maze" => mode = "edit"
ScreenAside == target # "screen" => shown = "edit"

LEMMA AsideStarts == Init => MazeAside /\ ScreenAside
    BY DEF Init, MazeIdle, ScreenIdle, MazeAside, ScreenAside

LEMMA AsideStays ==
    MazeAside /\ ScreenAside /\ [Next]_buildVars => (MazeAside /\ ScreenAside)'
<1>. SUFFICES ASSUME MazeAside, ScreenAside, [Next]_buildVars
              PROVE  (MazeAside /\ ScreenAside)'
    OBVIOUS
<1>1. /\ target' = target
      /\ target # "maze" => UNCHANGED mazeVars
      /\ target # "screen" => UNCHANGED screenVars
    BY PartSteps
<1>. QED
    BY <1>1 DEF MazeAside, ScreenAside, mazeVars, screenVars

\* The composition implements its components: whatever one of them does, the
\* build as a whole only does what that component's specification allows.  The
\* maze and the screen are idle in a run that is about another component.
THEOREM PartsImplemented ==
    Spec => /\ ManifestSpec /\ RelocSpec /\ DiagSpec
            /\ target = "maze" => MazeSpec
            /\ target = "screen" => ScreenSpec
<1>1. Init => /\ ManifestInit /\ RelocInit /\ DiagInit
              /\ target = "maze" => MazeInit
              /\ target = "screen" => ScreenInit
    BY DEF Init
<1>2. [Next]_buildVars => /\ [ManifestNext]_manifestVars /\ [RelocNext]_relocVars
                          /\ [MazeNext]_mazeVars /\ [ScreenNext]_screenVars
                          /\ [DiagNext]_diagVars
    BY PartSteps
<1>. QED
    BY <1>1, <1>2, PTL DEF Spec, ManifestSpec, RelocSpec, DiagSpec, MazeSpec, ScreenSpec

\* The state that the release and the maze keep has its types.
THEOREM BuildTypeCorrect ==
    ASSUME OneAccident
    PROVE  Spec => []TypeOK
<1>1. ManifestSpec => []ManifestTypeOK
    BY OneAccident, ManifestTypeCorrect
<1>2. [Next]_buildVars => target' = target
    BY PartSteps
<1>3. (target = "maze") /\ target' = target => (target = "maze")'
    OBVIOUS
<1>4. ~(target = "maze") /\ target' = target => (~(target = "maze"))'
    OBVIOUS
<1>5. ManifestTypeOK /\ (target = "maze" => MazeTypeOK) => TypeOK
    BY DEF TypeOK
<1>. QED
    BY <1>1, <1>2, <1>3, <1>4, <1>5, PartsImplemented, MazeTypeCorrect, PTL DEF Spec

\* Every safety property of the host side holds of the composition: what was
\* proved of a component alone holds while all are there, and a component that
\* is idle violates none of its own.
THEOREM HostBuildCorrect ==
    ASSUME OneAccident
    PROVE  Spec => /\ ShipsReviewed /\ FrozenTextPrinted
                   /\ [](/\ ParsersAgree /\ RelocatedAsBuilt /\ VerifiedLoadsSafely
                         /\ SearchClosed /\ VerdictHolds /\ DrawnSymmetric
                         /\ MenuShown /\ StatusShown)
<1>1. ManifestSpec => ShipsReviewed
    BY OneAccident, ShipsWhatWasReviewed
<1>2. MazeSpec => []DrawnSymmetric
    BY MazeTables, DrawnSymmetricTheorem
<1>3. Init => MazeAside /\ ScreenAside
    BY AsideStarts
<1>4. MazeAside /\ ScreenAside /\ [Next]_buildVars => (MazeAside /\ ScreenAside)'
    BY AsideStays
<1>5. [Next]_buildVars => target' = target
    BY PartSteps
<1>6. /\ (target = "maze") /\ target' = target => (target = "maze")'
      /\ ~(target = "maze") /\ target' = target => (~(target = "maze"))'
      /\ (target = "screen") /\ target' = target => (target = "screen")'
      /\ ~(target = "screen") /\ target' = target => (~(target = "screen"))'
    OBVIOUS
<1>7. MazeAside /\ ~(target = "maze") => SearchClosed /\ VerdictHolds /\ DrawnSymmetric
    BY DEF MazeAside, SearchClosed, VerdictHolds, DrawnSymmetric
<1>8. ScreenAside /\ ~(target = "screen") => MenuShown /\ StatusShown
    BY DEF ScreenAside, MenuShown, StatusShown
<1>. QED
    BY <1>1, <1>2, <1>3, <1>4, <1>5, <1>6, <1>7, <1>8, PartsImplemented,
       ParsersAgreeAlways, RelocatedAsBuiltTheorem, VerifiedLoadsSafelyTheorem,
       SearchClosedTheorem, VerdictHoldsTheorem, MenuAlwaysShown, StatusAlwaysShown,
       DiagnosticsFrozen, PTL DEF Spec
=============================================================================
