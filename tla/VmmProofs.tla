----------------------------- MODULE VmmProofs -----------------------------
(***************************************************************************)
(* What holds of vmmAlloc and vmmFree for every table size and every set of *)
(* requests: type correctness, that an allocation whose two block counters  *)
(* agree marks only free pages, and that no TAIL mark is ever orphaned.     *)
(* For requests of at most one page the counters never part, so that the    *)
(* allocator is safe without condition.                                     *)
(***************************************************************************)
EXTENDS Vmm, TLAPS

-----------------------------------------------------------------------------
(* Arithmetic of the table and of the 8-bit registers *)

LEMMA CountStep ==
    ASSUME NEW c \in 0 .. BlockSize - 1
    PROVE  /\ (c + 1) % BlockSize \in 0 .. BlockSize - 1
           /\ c + 1 < BlockSize => (c + 1) % BlockSize = c + 1
           /\ c + 1 = BlockSize => (c + 1) % BlockSize = 0
  BY VmmAssumption, SMT

LEMMA PageCountRange ==
    ASSUME NEW r \in Requests
    PROVE  PageCount(r) \in 0 .. BlockSize - 1
  BY VmmAssumption, SMT DEF PageCount

LEMMA NextIndex ==
    ASSUME NEW b \in Nat, NEW i \in Nat
    PROVE  At(b, i + 1) = At(b, i) + 1
  BY VmmAssumption, SMT DEF At

LEMMA NextBlock ==
    ASSUME NEW b \in Nat
    PROVE  At(b + 1, 0) = At(b, BlockSize - 1) + 1
  BY VmmAssumption, SMT DEF At

LEMMA PageFacts ==
    /\ NumPages \in Nat
    /\ \A b \in Nat, i \in 0 .. BlockSize - 1 : At(b, i) \in Nat
    /\ \A n \in 0 .. BlockSize - 1 : PagesFor(n) \in 1 .. BlockSize
  BY VmmAssumption, SMT DEF NumPages, At, PagesFor

LEMMA PositionsNat == TypeOK => Start \in Nat /\ Cur \in Nat /\ x \in Nat
  BY PageFacts, SMTT(30) DEF TypeOK, Start, Cur

-----------------------------------------------------------------------------
(* Type correctness *)

\* A step of the scan keeps the registers in their ranges.
LEMMA AdvanceTypeOK ==
    ASSUME TypeOK, NEW count \in 0 .. BlockSize - 1, Advance(count),
           UNCHANGED table
    PROVE  TypeOK'
  BY VmmAssumption DEF TypeOK, Advance, ScanDone, table

LEMMA TypeOKStep == TypeOK /\ [Next]_vars => TypeOK'
<1> SUFFICES ASSUME TypeOK, [Next]_vars PROVE TypeOK'
  OBVIOUS
<1>1. CASE vmmInit
  BY <1>1 DEF TypeOK, vmmInit, scan, PageState
<1>2. ASSUME NEW r \in Requests, AllocRefused(r) PROVE TypeOK'
  BY <1>2 DEF TypeOK, AllocRefused, scan, table
<1>3. ASSUME NEW r \in Requests, AllocCall(r) PROVE TypeOK'
  BY <1>3, PageCountRange, VmmAssumption DEF TypeOK, AllocCall, table
<1>4. CASE SearchTaken
  BY <1>4, AdvanceTypeOK DEF TypeOK, SearchTaken
<1>5. CASE FoundPotential
  BY <1>5, VmmAssumption DEF TypeOK, FoundPotential, table
<1>6. CASE ContigFree
  <2>1. (x + 1) % BlockSize \in 0 .. BlockSize - 1
    BY CountStep DEF TypeOK
  <2>2. CASE Advance((x + 1) % BlockSize)
    BY <1>6, <2>1, <2>2, AdvanceTypeOK DEF ContigFree
  <2>3. CASE pc' = "commit" /\ x' = (x + 1) % BlockSize
             /\ UNCHANGED <<ptrHi, tempLo, y, tempHi, offLo, offHi, ret, table>>
    BY <2>1, <2>3 DEF TypeOK, table
  <2> QED
    BY <1>6, <2>2, <2>3 DEF ContigFree
<1>7. CASE SearchReset
  BY <1>7, VmmAssumption DEF TypeOK, SearchReset, table
<1>8. CASE Commit
  <2>1. Start \in Nat /\ PagesFor(tempHi) \in 1 .. BlockSize
    BY PageFacts DEF TypeOK, Start
  <2>2. owned' \subseteq [first : Nat, size : 1 .. BlockSize]
    BY <1>8, <2>1 DEF TypeOK, Commit
  <2>3. mct' \in [Page -> PageState]
    BY <1>8 DEF TypeOK, Commit, PageState
  <2> QED
    BY <1>8, <2>2, <2>3, VmmAssumption DEF TypeOK, Commit, ScanDone
<1>9. ASSUME NEW p \in Page, vmmFree(p) PROVE TypeOK'
  <2>1. CASE vmmInitialized /\ mct[p] = "HEAD"
    BY <1>9, <2>1 DEF TypeOK, vmmFree, scan, PageState
  <2>2. CASE ~(vmmInitialized /\ mct[p] = "HEAD")
    BY <1>9, <2>2 DEF TypeOK, vmmFree, scan
  <2> QED
    BY <2>1, <2>2
<1>10. CASE UNCHANGED vars
  BY <1>10 DEF TypeOK, vars
<1> QED
  BY <1>1, <1>2, <1>3, <1>4, <1>5, <1>6, <1>7, <1>8, <1>9, <1>10
     DEF Next, vmmAllocStep

\* The registers and the table hold what an 8-bit processor can hold in
\* them, whatever programs ask for (vmmInit, vmmAlloc, vmmFree).
THEOREM TypeCorrect == Spec => []TypeOK
<1>1. Init => TypeOK
  <2>1. {} \subseteq [first : Nat, size : 1 .. BlockSize]
    OBVIOUS
  <2>2. 0 \in Nat /\ 0 \in 0 .. BlockSize - 1
    BY VmmAssumption
  <2> QED
    BY <2>1, <2>2, Zenon DEF Init, TypeOK
<1> QED
  BY <1>1, TypeOKStep, PTL DEF Spec

-----------------------------------------------------------------------------
(* Allocations of any size *)

\* What the counting loop of vmmAlloc has established while it counts: X has
\* not passed the pages required, and if the two block counters agree, the
\* X pages from the start of the run are free pages of the table.
RunCounted ==
    /\ pc = "contig" =>
          /\ x < PagesFor(tempHi)
          /\ ptrHi < Blocks /\ Cur = Start + x =>
                \A p \in Run(Start, x) : p \in Page /\ mct[p] = "FREE"
    /\ AlignedCommitFresh

\* Below the last block the pointer addresses the table itself.
LEMMA CurInTable ==
    ASSUME TypeOK, ptrHi < Blocks
    PROVE  Cur \in Page
  BY VmmAssumption, SMT DEF TypeOK, Cur, At, Page, NumPages

\* The pointer moves by one page when the scan advances within a request.
LEMMA AdvanceCur ==
    ASSUME TypeOK, NEW count, Advance(count), pc' = pc, pc # "idle"
    PROVE  /\ Cur' = Cur + 1 /\ Start' = Start
           /\ ptrHi' < Blocks => ptrHi < Blocks
           /\ x' = count /\ tempHi' = tempHi
<1>1. CASE y + 1 < BlockSize
  <2>1. At(ptrHi, y + 1) = At(ptrHi, y) + 1
    BY NextIndex, VmmAssumption DEF TypeOK
  <2>2. /\ y' = y + 1 /\ x' = count
        /\ UNCHANGED <<ptrHi, tempHi, offLo, offHi>>
    BY <1>1, VmmAssumption DEF TypeOK, Advance, ScanDone
  <2> QED
    BY <2>1, <2>2 DEF Cur, Start
<1>2. CASE y + 1 = BlockSize
  <2>1. At(ptrHi + 1, 0) = At(ptrHi, BlockSize - 1) + 1
    BY NextBlock DEF TypeOK
  <2>2. y' = 0 /\ ptrHi' = ptrHi + 1 /\ y = BlockSize - 1
    BY <1>2, VmmAssumption DEF TypeOK, Advance, ScanDone
  <2>3. Cur' = Cur + 1
    BY <2>1, <2>2 DEF Cur, At
  <2> QED
    BY <1>2, <2>2, <2>3, VmmAssumption
       DEF TypeOK, Advance, ScanDone, Start, At
<1> QED
  BY <1>1, <1>2, VmmAssumption DEF TypeOK

LEMMA RunCountedStep ==
    TypeOK /\ TypeOK' /\ RunCounted /\ [Next]_vars => RunCounted'
<1> SUFFICES ASSUME TypeOK, TypeOK', RunCounted, [Next]_vars
             PROVE  RunCounted'
  OBVIOUS
<1> USE DEF RunCounted, AlignedCommitFresh, CommitFresh
<1>1. CASE pc' \in {"idle", "search"}
  BY <1>1
<1>2. CASE FoundPotential
  <2>1. x' = 0 /\ pc' = "contig" /\ tempHi' = tempHi
    BY <1>2 DEF FoundPotential
  <2>2. Start' \in Nat
    <3>1. offHi' = tempLo /\ offLo' = y
      BY <1>2 DEF FoundPotential
    <3> QED
      BY <3>1, PageFacts DEF TypeOK, Start
  <2>3. \A n \in Nat : \A p : p \notin Run(n, 0)
    BY SMT DEF Run
  <2>4. PagesFor(tempHi)' = PagesFor(tempHi) /\ 0 < PagesFor(tempHi)
    BY <2>1, PageFacts, VmmAssumption DEF PagesFor, TypeOK
  <2>5. \A p : p \notin Run(Start, x)'
    BY <2>1, <2>2, <2>3 DEF Run
  <2> QED
    BY <2>1, <2>4, <2>5
<1>3. CASE ContigFree
  <2> DEFINE count == (x + 1) % BlockSize
  <2>1. pc = "contig" /\ "FREE" \in MctByte /\ mct' = mct
    BY <1>3 DEF ContigFree, table
  <2>2. ASSUME ptrHi < Blocks, Cur = Start + x
        PROVE  \A p \in Run(Start, x + 1) : p \in Page /\ mct[p] = "FREE"
    <3>1. Cur \in Page /\ mct[Cur] = "FREE"
      BY <2>1, <2>2, CurInTable DEF MctByte
    <3>2. \A p \in Run(Start, x) : p \in Page /\ mct[p] = "FREE"
      BY <2>1, <2>2
    <3>3. Start \in Nat /\ x \in Nat
      BY PositionsNat
    <3>4. \A p \in Run(Start, x + 1) : p \in Run(Start, x) \/ p = Cur
      BY <2>2, <3>3, SMT DEF Run
    <3> QED
      BY <3>1, <3>2, <3>4
  <2>3. CASE count = tempHi
    <3>1. /\ pc' = "commit" /\ PagesFor(tempHi) = x + 1
          /\ Cur' = Cur /\ Start' = Start /\ tempHi' = tempHi
          /\ ptrHi' = ptrHi
      <4>1. PagesFor(tempHi) = x + 1
        BY <2>1, <2>3, CountStep, VmmAssumption, SMT DEF TypeOK, PagesFor
      <4>2. /\ pc' = "commit"
            /\ UNCHANGED <<ptrHi, tempLo, y, tempHi, offLo, offHi>>
        BY <1>3, <2>3 DEF ContigFree
      <4> QED
        BY <4>1, <4>2 DEF Cur, Start, At
    <3>2. Aligned' => ptrHi < Blocks /\ Cur = Start + x
      <4>1. Aligned' => ptrHi' < Blocks /\ Cur' = Start' + PagesFor(tempHi') - 1
        BY DEF Aligned
      <4>2. Cur \in Nat /\ Start \in Nat /\ x \in Nat
        BY PositionsNat
      <4> QED
        BY <3>1, <4>1, <4>2
    <3>3. PagesFor(tempHi)' = x + 1
      BY <3>1 DEF PagesFor
    <3> QED
      BY <2>1, <2>2, <3>1, <3>2, <3>3 DEF Run
  <2>4. CASE count # tempHi /\ pc' = "contig"
    <3>1. Advance(count)
      BY <1>3, <2>4 DEF ContigFree
    <3>2. /\ Cur' = Cur + 1 /\ Start' = Start
          /\ ptrHi' < Blocks => ptrHi < Blocks
          /\ x' = count /\ tempHi' = tempHi
      BY <2>1, <2>4, <3>1, AdvanceCur
    <3>3. x + 1 < PagesFor(tempHi) /\ count = x + 1
      BY <2>1, <2>4, CountStep, VmmAssumption, SMT DEF TypeOK, PagesFor
    <3>4. Cur' = Start' + x' => Cur = Start + x
      <4>1. Cur \in Nat /\ Start \in Nat /\ x \in Nat
        BY PositionsNat
      <4> QED
        BY <3>2, <3>3, <4>1
    <3>5. PagesFor(tempHi)' = PagesFor(tempHi)
      BY <3>2 DEF PagesFor
    <3> QED
      BY <2>1, <2>2, <2>4, <3>2, <3>3, <3>4, <3>5 DEF Run
  <2> QED
    BY <1>1, <1>3, <2>3, <2>4 DEF ContigFree, Advance, ScanDone
<1>4. CASE UNCHANGED vars
  BY <1>4 DEF vars, Aligned, Cur, Start, At, Run, PagesFor
<1>5. CASE \/ \E r \in Requests : AllocRefused(r)
           \/ \E p \in Page : vmmFree(p)
           \/ vmmInit
  BY <1>1, <1>5 DEF AllocRefused, vmmFree, vmmInit
<1>6. CASE \/ \E r \in Requests : AllocCall(r)
           \/ SearchTaken \/ SearchReset \/ Commit
  BY <1>1, <1>6 DEF AllocCall, SearchTaken, SearchReset, Commit, Advance,
                    ScanDone
<1> QED
  BY <1>2, <1>3, <1>4, <1>5, <1>6 DEF Next, vmmAllocStep

\* Whatever sizes programs ask for, vmmAlloc marks only free pages of the
\* table as long as its two block counters agree (vaContigLoop to
\* vaCommitAlloc).
THEOREM AlignedAllocIsFresh == Spec => []AlignedCommitFresh
<1>1. Init => RunCounted
  BY DEF Init, RunCounted, AlignedCommitFresh, CommitFresh
<1>2. RunCounted => AlignedCommitFresh
  BY DEF RunCounted
<1> QED
  BY <1>1, <1>2, RunCountedStep, TypeCorrect, PTL DEF Spec

-----------------------------------------------------------------------------
(* No orphaned TAIL *)

LEMMA CommitKeepsTails ==
    ASSUME TypeOK, NoOrphanTail, Commit
    PROVE  NoOrphanTail'
<1> SUFFICES ASSUME vmmInitialized', NEW p \in Page, mct'[p] = "TAIL"
             PROVE  p > 0 /\ mct'[p - 1] # "FREE"
  BY DEF NoOrphanTail
<1> DEFINE run == Run(Start, PagesFor(tempHi))
<1>1. Start \in Nat /\ PagesFor(tempHi) \in Nat
  BY PositionsNat, PageFacts, VmmAssumption DEF TypeOK
<1>2. mct' = [q \in Page |-> IF q = Start THEN "HEAD"
                             ELSE IF q \in run THEN "TAIL" ELSE mct[q]]
  BY DEF Commit
<1>3. p \in Nat /\ (p > 0 => p - 1 \in Page)
  BY PageFacts, SMT DEF Page
<1>4. CASE p \in run
  <2>1. p # Start
    BY <1>2
  <2>2. p - 1 \in run /\ p > 0
    BY <1>1, <1>3, <1>4, <2>1, SMT DEF Run
  <2> QED
    BY <1>2, <1>3, <2>2
<1>5. CASE p \notin run
  <2>1. p # Start
    BY <1>2
  <2>2. vmmInitialized /\ mct[p] = "TAIL"
    BY <1>2, <1>5, <2>1 DEF Commit
  <2>3. p > 0 /\ mct[p - 1] # "FREE"
    BY <2>2 DEF NoOrphanTail
  <2> QED
    BY <1>2, <1>3, <2>3
<1> QED
  BY <1>4, <1>5

LEMMA FreeKeepsTails ==
    ASSUME TypeOK, NoOrphanTail, NEW p \in Page, vmmFree(p)
    PROVE  NoOrphanTail'
<1>1. CASE ~(vmmInitialized /\ mct[p] = "HEAD")
  BY <1>1 DEF NoOrphanTail, vmmFree
<1>2. CASE vmmInitialized /\ mct[p] = "HEAD"
  <2> SUFFICES ASSUME NEW q \in Page, mct'[q] = "TAIL"
               PROVE  q > 0 /\ mct'[q - 1] # "FREE"
    BY DEF NoOrphanTail
  <2>1. mct' = [r \in Page |-> IF r \in FreedBy(p) THEN "FREE" ELSE mct[r]]
    BY <1>2 DEF vmmFree
  <2>2. q \notin FreedBy(p) /\ mct[q] = "TAIL"
    BY <2>1
  <2>3. q > 0 /\ mct[q - 1] # "FREE"
    BY <1>2, <2>2 DEF NoOrphanTail
  <2>4. q - 1 \in Page /\ q \in Nat /\ p \in Nat
    BY <2>3, PageFacts, SMT DEF Page
  <2>5. q - 1 \notin FreedBy(p)
    <3> SUFFICES ASSUME q - 1 \in FreedBy(p) PROVE FALSE
      OBVIOUS
    <3>1. q - 1 >= p /\ \A r \in p + 1 .. q - 1 : mct[r] = "TAIL"
      BY DEF FreedBy
    <3>2. q >= p /\ \A r \in p + 1 .. q : r \in p + 1 .. q - 1 \/ r = q
      BY <2>4, <3>1, SMT
    <3>3. q \in FreedBy(p)
      BY <2>2, <3>1, <3>2 DEF FreedBy
    <3> QED
      BY <2>2, <3>3
  <2> QED
    BY <2>1, <2>3, <2>4, <2>5
<1> QED
  BY <1>1, <1>2

LEMMA NoOrphanTailStep ==
    TypeOK /\ NoOrphanTail /\ [Next]_vars => NoOrphanTail'
<1> SUFFICES ASSUME TypeOK, NoOrphanTail, [Next]_vars PROVE NoOrphanTail'
  OBVIOUS
<1>1. CASE vmmInit
  BY <1>1 DEF vmmInit, NoOrphanTail
<1>2. CASE \/ \E r \in Requests : AllocRefused(r) \/ AllocCall(r)
           \/ SearchTaken \/ FoundPotential \/ ContigFree \/ SearchReset
           \/ UNCHANGED vars
  <2>1. UNCHANGED <<vmmInitialized, mct>>
    BY <1>2 DEF AllocRefused, AllocCall, SearchTaken, FoundPotential,
                ContigFree, SearchReset, table, vars
  <2> QED
    BY <2>1 DEF NoOrphanTail
<1>3. CASE Commit
  BY <1>3, CommitKeepsTails
<1>4. ASSUME NEW p \in Page, vmmFree(p) PROVE NoOrphanTail'
  BY <1>4, FreeKeepsTails
<1> QED
  BY <1>1, <1>2, <1>3, <1>4 DEF Next, vmmAllocStep

\* However programs allocate and free, even when vmmAlloc hands out a page
\* twice, vmmFree never strands a TAIL it could not reach again.
THEOREM TailsReachable == Spec => []NoOrphanTail
<1>1. Init => NoOrphanTail
  BY DEF Init, NoOrphanTail
<1> QED
  BY <1>1, NoOrphanTailStep, TypeCorrect, PTL DEF Spec

-----------------------------------------------------------------------------
(* Requests of at most one page: what the shell and the applications that  *)
(* ask for 256 paragraphs or fewer do.                                     *)

OnePage == Requests \subseteq {<<0, 0>>, <<0, 1>>, <<1, 0>>}

OneBlock(p) == [first |-> p, size |-> 1]

\* The search stands at the page both counters name and has passed only
\* pages that are taken; a run never grows past its first page, so no run
\* fails and the counters never part.
ScanOnePage ==
    pc # "idle" =>
        /\ vmmInitialized
        /\ 1 \in {PagesAsked(r) : r \in Requests}
        /\ tempHi = 1 /\ tempLo = ptrHi /\ ptrHi < Blocks
        /\ \A p \in 0 .. Cur - 1 : p \in Page => mct[p] # "FREE"
        /\ pc # "search" => /\ Start = Cur /\ mct[Cur] = "FREE"
                           /\ offLo = y /\ offHi = ptrHi
        /\ pc = "contig" => x = 0

\* Each HEAD is a block somebody holds, and there are no TAILs.
TableOnePage ==
    /\ owned \subseteq {OneBlock(p) : p \in Page}
    /\ ~vmmInitialized => owned = {}
    /\ vmmInitialized =>
          \A p \in Page :
             /\ mct[p] # "TAIL"
             /\ mct[p] = "HEAD" <=> OneBlock(p) \in owned

OnePageInv == TypeOK /\ ScanOnePage /\ TableOnePage

LEMMA OnePageRequest ==
    ASSUME OnePage, NEW r \in Requests, r # <<0, 0>>
    PROVE  PageCount(r) = 1 /\ PagesAsked(r) = 1
<1>1. r = <<0, 1>> \/ r = <<1, 0>>
  BY DEF OnePage
<1>2. 1 % BlockSize = 1
  BY CountStep, VmmAssumption, SMT
<1> QED
  BY <1>1, <1>2 DEF PageCount, PagesAsked

\* While the search moves on, it stays on the page its counters name.
LEMMA AdvanceOnePage ==
    ASSUME OnePageInv, pc = "search", mct[Cur] # "FREE", Advance(x),
           UNCHANGED table
    PROVE  ScanOnePage'
<1>1. CASE pc' = "idle"
  BY <1>1 DEF ScanOnePage
<1>2. CASE pc' = pc
  <2>1. Cur' = Cur + 1 /\ tempHi' = tempHi
    BY <1>2, AdvanceCur DEF OnePageInv
  <2>2. tempLo' = ptrHi' /\ ptrHi' < Blocks
    BY <1>2, VmmAssumption
       DEF OnePageInv, ScanOnePage, TypeOK, Advance, ScanDone
  <2>3. \A p \in 0 .. Cur : p \in 0 .. Cur - 1 \/ p = Cur
    BY PositionsNat DEF OnePageInv
  <2>4. \A p \in 0 .. Cur : p \in Page => mct[p] # "FREE"
    BY <2>3 DEF OnePageInv, ScanOnePage
  <2>5. 0 .. Cur' - 1 = 0 .. Cur
    BY <2>1, PositionsNat DEF OnePageInv
  <2>6. \A p \in 0 .. Cur' - 1 : p \in Page => mct'[p] # "FREE"
    BY <2>4, <2>5 DEF table
  <2> QED
    BY <1>2, <2>1, <2>2, <2>6 DEF OnePageInv, ScanOnePage, table
<1> QED
  BY <1>1, <1>2 DEF Advance, ScanDone

LEMMA ScanOnePageStep ==
    ASSUME OnePage, OnePageInv, [Next]_vars
    PROVE  ScanOnePage'
<1>1. CASE pc' = "idle"
  BY <1>1 DEF ScanOnePage
<1>2. ASSUME NEW r \in Requests, AllocCall(r) PROVE ScanOnePage'
  <2>1. PageCount(r) = 1 /\ PagesAsked(r) = 1
    BY <1>2, OnePageRequest DEF AllocCall
  <2>2. /\ vmmInitialized' /\ pc' = "search" /\ tempHi' = 1
        /\ tempLo' = 0 /\ ptrHi' = 0 /\ y' = 0 /\ 0 < Blocks
    BY <1>2, <2>1, VmmAssumption DEF AllocCall, table
  <2>3. Cur' = 0
    BY <2>2, VmmAssumption DEF Cur, At
  <2>4. \A p \in 0 .. Cur' - 1 : FALSE
    BY <2>3
  <2> QED
    BY <2>1, <2>2, <2>4 DEF ScanOnePage
<1>3. CASE SearchTaken
  <2>1. pc = "search" /\ mct[Cur] # "FREE"
    BY <1>3, CurInTable DEF SearchTaken, MctByte, OnePageInv, ScanOnePage
  <2> QED
    BY <1>3, <2>1, AdvanceOnePage DEF SearchTaken
<1>4. CASE FoundPotential
  <2>1. pc = "search" /\ mct[Cur] = "FREE"
    BY <1>4, CurInTable DEF FoundPotential, MctByte, OnePageInv, ScanOnePage
  <2>2. /\ Cur' = Cur /\ offLo' = y' /\ offHi' = ptrHi'
        /\ UNCHANGED <<ptrHi, tempLo, tempHi, mct, vmmInitialized>>
        /\ pc' = "contig" /\ x' = 0
    BY <1>4 DEF FoundPotential, OnePageInv, ScanOnePage, Cur, table
  <2>3. Start' = Cur'
    BY <2>2 DEF Start, Cur
  <2> QED
    BY <2>1, <2>2, <2>3 DEF OnePageInv, ScanOnePage
<1>5. CASE ContigFree
  <2>1. (x + 1) % BlockSize = 1 /\ tempHi = 1
    BY <1>5, CountStep, VmmAssumption, SMT
       DEF OnePageInv, ScanOnePage, ContigFree, TypeOK
  <2>2. /\ pc = "contig" /\ pc' = "commit"
        /\ UNCHANGED <<ptrHi, tempLo, y, tempHi, offLo, offHi, mct,
                       vmmInitialized>>
    BY <1>5, <2>1 DEF ContigFree, table
  <2>3. Cur' = Cur /\ Start' = Start
    BY <2>2 DEF Cur, Start
  <2> QED
    BY <2>2, <2>3 DEF OnePageInv, ScanOnePage
<1>6. CASE SearchReset
  BY <1>6, CurInTable DEF SearchReset, MctByte, OnePageInv, ScanOnePage
<1>7. CASE UNCHANGED vars
  BY <1>7 DEF vars, OnePageInv, ScanOnePage, Cur, Start, At
<1>8. CASE \/ Commit \/ vmmInit
           \/ \E r \in Requests : AllocRefused(r)
           \/ \E p \in Page : vmmFree(p)
  BY <1>1, <1>8 DEF Commit, ScanDone, vmmInit, AllocRefused, vmmFree
<1> QED
  BY <1>2, <1>3, <1>4, <1>5, <1>6, <1>7, <1>8 DEF Next, vmmAllocStep

LEMMA TableOnePageStep ==
    ASSUME OnePage, OnePageInv, [Next]_vars
    PROVE  TableOnePage'
<1> USE DEF OnePageInv, TableOnePage
<1>1. CASE vmmInit
  BY <1>1 DEF vmmInit
<1>2. CASE \/ \E r \in Requests : AllocRefused(r) \/ AllocCall(r)
           \/ SearchTaken \/ FoundPotential \/ ContigFree \/ SearchReset
           \/ UNCHANGED vars
  <2>1. UNCHANGED table
    BY <1>2 DEF AllocRefused, AllocCall, SearchTaken, FoundPotential,
                ContigFree, SearchReset, table, vars
  <2> QED
    BY <2>1 DEF table
<1>3. CASE Commit
  <2>1. /\ PagesFor(tempHi) = 1 /\ Start = Cur /\ mct[Cur] = "FREE"
        /\ Cur \in Page /\ vmmInitialized
    BY <1>3, CurInTable DEF Commit, ScanOnePage, PagesFor
  <2>2. Run(Start, 1) = {Cur}
    BY <2>1, PositionsNat, SMT DEF Run
  <2>3. /\ mct' = [p \in Page |-> IF p = Cur THEN "HEAD" ELSE mct[p]]
        /\ owned' = owned \cup {OneBlock(Cur)} /\ vmmInitialized'
    BY <1>3, <2>1, <2>2 DEF Commit, OneBlock
  <2>4. \A p, q : OneBlock(p) = OneBlock(q) => p = q
    BY DEF OneBlock
  <2> QED
    BY <2>1, <2>3, <2>4
<1>4. ASSUME NEW p \in Page, vmmFree(p) PROVE TableOnePage'
  <2>1. CASE ~(vmmInitialized /\ mct[p] = "HEAD")
    BY <1>4, <2>1 DEF vmmFree
  <2>2. CASE vmmInitialized /\ mct[p] = "HEAD"
    <3>1. FreedBy(p) = {p}
      <4>1. \A q \in Page : q > p => p + 1 \in p + 1 .. q
        BY PageFacts, SMT DEF Page
      <4>2. \A q \in Page : q > p => p + 1 \in Page
        BY PageFacts, SMT DEF Page
      <4>3. p \in FreedBy(p)
        BY PageFacts, SMT DEF FreedBy, Page
      <4>4. \A q \in FreedBy(p) : ~(q > p)
        BY <2>2, <4>1, <4>2 DEF FreedBy
      <4>5. \A q \in FreedBy(p) : q >= p /\ q \in Int /\ p \in Int
        BY PageFacts, SMT DEF FreedBy, Page
      <4>6. \A q \in FreedBy(p) : q = p
        BY <4>4, <4>5, SMT
      <4> QED
        BY <4>3, <4>6
    <3>2. mct' = [q \in Page |-> IF q = p THEN "FREE" ELSE mct[q]]
      BY <1>4, <2>2, <3>1 DEF vmmFree
    <3>3. \A b \in owned : b.first = p <=> b = OneBlock(p)
      BY DEF OneBlock
    <3>4. owned' = owned \ {OneBlock(p)} /\ vmmInitialized'
      BY <1>4, <2>2, <3>3 DEF vmmFree
    <3>5. \A r, q : OneBlock(r) = OneBlock(q) => r = q
      BY DEF OneBlock
    <3> QED
      BY <3>2, <3>4, <3>5, <2>2
  <2> QED
    BY <2>1, <2>2
<1> QED
  BY <1>1, <1>2, <1>3, <1>4 DEF Next, vmmAllocStep

LEMMA OnePageInvariant ==
    ASSUME OnePage
    PROVE  Spec => []OnePageInv
<1>1. Init => ScanOnePage /\ TableOnePage
  BY DEF Init, ScanOnePage, TableOnePage
<1>2. OnePageInv /\ [Next]_vars => OnePageInv'
  BY TypeOKStep, ScanOnePageStep, TableOnePageStep DEF OnePageInv
<1> QED
  BY <1>1, <1>2, TypeCorrect, PTL DEF Spec, OnePageInv

\* Requests of one page are served only from free pages of the table: no
\* page is ever held twice.
THEOREM OnePageFresh ==
    ASSUME OnePage
    PROVE  Spec => []CommitFresh
<1>1. OnePageInv => CommitFresh
  <2> SUFFICES ASSUME OnePageInv, pc = "commit",
                      NEW p \in Run(Start, PagesFor(tempHi))
               PROVE  p \in Page /\ mct[p] = "FREE"
    BY DEF CommitFresh
  <2>1. PagesFor(tempHi) = 1 /\ Start = Cur /\ mct[Cur] = "FREE" /\ Cur \in Page
    BY CurInTable DEF OnePageInv, ScanOnePage, PagesFor
  <2>2. p = Cur
    BY <2>1, PositionsNat, SMT DEF Run, OnePageInv
  <2> QED
    BY <2>1, <2>2
<1> QED
  BY <1>1, OnePageInvariant, PTL

\* With requests of one page the table is exactly the record of the blocks
\* programs hold: vmmAlloc and vmmFree leak nothing and share nothing.
THEOREM OnePageTable ==
    ASSUME OnePage
    PROVE  Spec => []TableMatchesOwners
<1>1. OnePageInv => TableMatchesOwners
  <2> SUFFICES ASSUME OnePageInv, vmmInitialized
               PROVE  /\ \A p \in Page :
                            mct[p] = "HEAD" <=> \E b \in owned : b.first = p
                      /\ \A p \in Page :
                            mct[p] = "FREE"
                               <=> \A b \in owned : p \notin Run(b.first, b.size)
                      /\ \A b \in owned : Run(b.first, b.size) \subseteq Page
    BY DEF TableMatchesOwners
  <2>1. \A b \in owned : \E p \in Page :
           b = OneBlock(p) /\ b.first = p /\ Run(b.first, b.size) = {p}
    <3> SUFFICES ASSUME NEW p \in Page PROVE Run(p, 1) = {p}
      BY DEF OnePageInv, TableOnePage, OneBlock
    <3> QED
      BY PageFacts, SMT DEF Page, Run
  <2>2. \A p \in Page : mct[p] = "HEAD" <=> \E b \in owned : b.first = p
    BY <2>1 DEF OnePageInv, TableOnePage, OneBlock
  <2>3. \A p \in Page : mct[p] \in {"FREE", "HEAD"}
    BY DEF OnePageInv, TableOnePage, TypeOK, PageState
  <2> QED
    BY <2>1, <2>2, <2>3, SMTT(30)
<1> QED
  BY <1>1, OnePageInvariant, PTL

\* With requests of one page vmmAlloc answers VMM_ERR_NOMEM only when the
\* whole table is taken.
THEOREM OnePageNoMem ==
    ASSUME OnePage
    PROVE  Spec => NoMemMeansFull
<1> DEFINE full == ret' = "NOMEM" /\ pc # "idle" /\ pc' = "idle" =>
          \A f \in Page :
             LET run == Run(f, PagesFor(tempHi))
             IN  run \subseteq Page => \E p \in run : mct[p] # "FREE"
<1>1. OnePageInv /\ [Next]_vars => full
  <2> SUFFICES ASSUME OnePageInv, [Next]_vars, ret' = "NOMEM", pc # "idle",
                      pc' = "idle", NEW f \in Page
               PROVE  f \in Run(f, PagesFor(tempHi)) /\ mct[f] # "FREE"
    BY Zenon
  <2>1. SearchTaken \/ ContigFree
    BY DEF Next, vmmAllocStep, vmmInit, AllocRefused, AllocCall, vmmFree,
           FoundPotential, SearchReset, Commit, ScanDone, vars
  <2>2. ~ContigFree
    <3>1. ContigFree => (x + 1) % BlockSize = tempHi
      BY CountStep, VmmAssumption, SMT
         DEF OnePageInv, ScanOnePage, ContigFree, TypeOK
    <3> QED
      BY <3>1 DEF ContigFree
  <2>3. mct[Cur] # "FREE" /\ Cur \in Page
    BY <2>1, <2>2, CurInTable DEF SearchTaken, MctByte, OnePageInv, ScanOnePage
  <2>4. y + 1 = BlockSize /\ tempLo + 1 >= Blocks /\ tempLo = ptrHi
    BY <2>1, <2>2 DEF SearchTaken, Advance, ScanDone, OnePageInv, ScanOnePage
  <2>5. Cur + 1 >= NumPages
    <3>1. ptrHi + 1 = Blocks /\ y = BlockSize - 1
      BY <2>1, <2>2, <2>4, VmmAssumption
         DEF SearchTaken, OnePageInv, ScanOnePage, TypeOK
    <3>2. At(ptrHi + 1, 0) = At(ptrHi, BlockSize - 1) + 1
      BY NextBlock DEF OnePageInv, TypeOK
    <3>3. At(Blocks, 0) = NumPages
      BY VmmAssumption, SMT DEF At, NumPages
    <3> QED
      BY <3>1, <3>2, <3>3, PositionsNat, PageFacts DEF Cur, OnePageInv
  <2>6. f \in 0 .. Cur - 1 \/ f = Cur
    BY <2>5, PositionsNat, PageFacts, SMT DEF Page, OnePageInv
  <2>7. mct[f] # "FREE"
    BY <2>1, <2>3, <2>6 DEF OnePageInv, ScanOnePage, SearchTaken
  <2>8. f \in Run(f, PagesFor(tempHi))
    <3>1. PagesFor(tempHi) = 1
      BY DEF OnePageInv, ScanOnePage, PagesFor
    <3> QED
      BY <3>1, PageFacts, SMT DEF Page, Run
  <2> QED
    BY <2>7, <2>8
<1> QED
  BY <1>1, OnePageInvariant, PTL DEF Spec, NoMemMeansFull

\* The allocator of vmm.asm implements the one its documentation describes
\* for requests of one page: vmmInit is Reset, the marking of a block is
\* Allocate, vmmFree of a HEAD is Release, and all else is a stutter.
THEOREM OnePageRefines ==
    ASSUME OnePage
    PROVE  Spec => AllocatorSpec
<1>1. Init => Allocator!Init
  BY Zenon DEF Init, Allocator!Init
<1>2. OnePageInv /\ [Next]_vars => [Allocator!Next]_<<vmmInitialized, owned>>
  <2> SUFFICES ASSUME OnePageInv, [Next]_vars
               PROVE  Allocator!Next \/ UNCHANGED <<vmmInitialized, owned>>
    OBVIOUS
  <2>1. CASE vmmInit
    <3>1. vmmInitialized' \in BOOLEAN /\ owned' = {}
      BY <2>1 DEF vmmInit
    <3> QED
      BY <3>1, Zenon DEF Allocator!Next, Allocator!Reset
  <2>2. CASE \/ \E r \in Requests : AllocRefused(r) \/ AllocCall(r)
             \/ SearchTaken \/ FoundPotential \/ ContigFree \/ SearchReset
             \/ UNCHANGED vars
    BY <2>2 DEF AllocRefused, AllocCall, SearchTaken, FoundPotential,
                ContigFree, SearchReset, table, vars
  <2>3. CASE Commit
    <3>1. /\ PagesFor(tempHi) = 1 /\ Start = Cur /\ mct[Cur] = "FREE"
          /\ Cur \in Page /\ vmmInitialized
          /\ 1 \in {PagesAsked(r) : r \in Requests} \ {0}
      BY <2>3, CurInTable DEF Commit, OnePageInv, ScanOnePage, PagesFor
    <3>2. OneBlock(Cur) \notin owned
      BY <3>1 DEF OnePageInv, TableOnePage
    <3>3. \A p \in Page : Allocator!PagesOf(OneBlock(p)) = {p}
      BY PageFacts, SMT DEF Page, OneBlock, Allocator!PagesOf
    <3>4. \A b \in owned : \E p \in Page : b = OneBlock(p) /\ p # Cur
      BY <3>2 DEF OnePageInv, TableOnePage
    <3>5. Allocator!Fits(OneBlock(Cur))
      BY <3>1, <3>3, <3>4 DEF Allocator!Fits, Page
    <3>6. owned' = owned \cup {OneBlock(Cur)} /\ vmmInitialized' = vmmInitialized
      BY <2>3, <3>1 DEF Commit, OneBlock
    <3>7. Allocator!Allocate
      BY <3>1, <3>5, <3>6 DEF Allocator!Allocate, OneBlock, Page
    <3> QED
      BY <3>7 DEF Allocator!Next
  <2>4. ASSUME NEW p \in Page, vmmFree(p)
        PROVE  Allocator!Next \/ UNCHANGED <<vmmInitialized, owned>>
    <3>1. CASE ~(vmmInitialized /\ mct[p] = "HEAD")
      BY <2>4, <3>1 DEF vmmFree
    <3>2. CASE vmmInitialized /\ mct[p] = "HEAD"
      <4>1. OneBlock(p) \in owned
        BY <3>2 DEF OnePageInv, TableOnePage
      <4>2. \A b \in owned : b.first = p <=> b = OneBlock(p)
        BY DEF OnePageInv, TableOnePage, OneBlock
      <4>3. owned' = owned \ {OneBlock(p)} /\ vmmInitialized' = vmmInitialized
        BY <2>4, <3>2, <4>2 DEF vmmFree
      <4> QED
        BY <3>2, <4>1, <4>3 DEF Allocator!Next, Allocator!Release
    <3> QED
      BY <3>1, <3>2
  <2> QED
    BY <2>1, <2>2, <2>3, <2>4 DEF Next, vmmAllocStep
<1> QED
  BY <1>1, <1>2, OnePageInvariant, PTL
     DEF Spec, AllocatorSpec, Allocator!Spec

=============================================================================
