-------------------------------- MODULE Vmm --------------------------------
(***************************************************************************)
(* The page allocator of the virtual memory manager (command64/vmm.asm).    *)
(* The Memory Control Table has one byte per 4 KB page of the REU, laid out *)
(* as Blocks blocks of BlockSize bytes (16 of 256 in the code).  The scan   *)
(* of vmmAlloc addresses the table through two block counters that the code *)
(* advances side by side, the pointer's high byte PrintPtrHi (here ptrHi,   *)
(* relative to VmmMctBase) and TempLo; vaSearchReset restores only the      *)
(* first.  The scan is modelled one table byte per step, marking a block    *)
(* and releasing it are one step each: nothing interrupts them.             *)
(***************************************************************************)
EXTENDS Integers, FiniteSets

CONSTANTS BlockSize,   \* bytes an 8-bit index reaches: 256 in the code
          Blocks,      \* blocks of the MCT: 16 in the code
          Requests,    \* paragraph counts programs ask for, as <<hi, lo>>,
                       \* lo = 0 or 1 for VmmSegLo zero or not
          MaxOwned     \* bound: blocks programs hold before they ask for more

ASSUME VmmAssumption ==
    /\ BlockSize \in Nat \ {0, 1}
    /\ Blocks \in Nat \ {0}
    /\ MaxOwned \in Nat
    /\ Requests \subseteq (0 .. BlockSize - 1) \X {0, 1}

VARIABLES pc,              \* where the processor is in vmmAlloc
          vmmInitialized,  \* the flag vmmInit sets
          mct,             \* the Memory Control Table
          ptrHi, tempLo,   \* the two block counters of the scan
          y, x,            \* index registers: byte in block, pages counted
          tempHi,          \* TempHi: pages required, modulo 256
          offLo, offHi,    \* VmmOffLo/Hi: where the candidate run starts
          ret,             \* A on return
          owned            \* blocks programs were given and hold

table == <<vmmInitialized, mct, owned>>
scan  == <<ptrHi, tempLo, y, x, tempHi, offLo, offHi>>
vars  == <<pc, vmmInitialized, mct, ptrHi, tempLo, y, x, tempHi, offLo,
           offHi, ret, owned>>

PageState == {"FREE", "HEAD", "TAIL"}
NumPages  == Blocks * BlockSize
Page      == 0 .. NumPages - 1

At(block, index) == block * BlockSize + index

\* The values the byte (PrintPtrLo),y addresses may have.  Past the table
\* lies the I/O area, whose registers read as anything; the run's first byte,
\* just found free, is taken to read the same again.
Cur     == At(ptrHi, y)
MctByte == IF Cur \in Page THEN {mct[Cur]}
           ELSE IF pc = "contig" /\ x = 0 THEN {"FREE"} ELSE PageState

\* The paragraphs not rounded up.
MutantNoRounding(r) == r[1] % BlockSize

\* PageCount = (Paragraphs + 255) >> 8, kept in eight bits.
PageCount(r) == (r[1] + r[2]) % BlockSize
\* The pages the loops of vmmAlloc count before X, an 8-bit register,
\* equals TempHi: zero stands for 256.
PagesFor(count) == IF count = 0 THEN BlockSize ELSE count
\* What the caller needs.
PagesAsked(r)   == r[1] + r[2]

Start        == At(offHi, offLo)
Run(first, n) == first .. first + n - 1

\* vmmFree stopping at the head; and freeing one page too many.
MutantHeadOnly(p) == {p}
MutantOneMore(p)  == {q \in Page : q >= p /\ \A r \in p + 1 .. q - 1 : mct[r] = "TAIL"}

\* The pages vmmFree visits from the head p: p and the TAILs behind it, up
\* to the end of the table.
FreedBy(p) == {q \in Page : q >= p /\ \A r \in p + 1 .. q : mct[r] = "TAIL"}

Init ==
    /\ pc = "idle" /\ vmmInitialized = FALSE
    /\ mct \in [Page -> PageState]
    /\ ptrHi = 0 /\ tempLo = 0 /\ y = 0 /\ x = 0
    /\ tempHi = 0 /\ offLo = 0 /\ offHi = 0
    /\ ret = "SUCCESS" /\ owned = {}

-----------------------------------------------------------------------------
\* vmmInit runs when the shell starts, and again when BASIC runs it again
\* after EXIT: programs of the earlier session are gone.  It finds an REU
\* or not.
vmmInit ==
    /\ pc = "idle"
    /\ \/ /\ mct' = [p \in Page |-> "FREE"]
          /\ vmmInitialized' = TRUE
          /\ ret' = "SUCCESS"
       \/ /\ vmmInitialized' = FALSE
          /\ ret' = "INVALID"
          /\ UNCHANGED mct
    /\ owned' = {}
    /\ UNCHANGED <<pc, scan>>

\* The early returns: no REU, or a request of zero paragraphs.
AllocRefused(r) ==
    /\ pc = "idle"
    /\ ~vmmInitialized \/ r = <<0, 0>>
    /\ ret' = "INVALID"
    /\ UNCHANGED <<pc, table, scan>>

AllocCall(r) ==
    /\ pc = "idle"
    /\ vmmInitialized /\ r # <<0, 0>>
    /\ Cardinality(owned) < MaxOwned
    /\ pc' = "search"
    /\ tempHi' = PageCount(r)
    /\ ptrHi' = 0 /\ tempLo' = 0 /\ y' = 0
    /\ UNCHANGED <<x, offLo, offHi, ret, table>>

\* Between calls the registers of the scan mean nothing: each call writes
\* them before it reads them, so the model forgets them on return.
ScanDone ==
    /\ pc' = "idle"
    /\ ptrHi' = 0 /\ tempLo' = 0 /\ y' = 0 /\ x' = 0
    /\ tempHi' = 0 /\ offLo' = 0 /\ offHi' = 0

\* The index not wrapped at the end of a block; the last block not scanned.
MutantNoWrap(count) ==
    /\ y' = y + 1 /\ x' = count
    /\ UNCHANGED <<pc, ptrHi, tempLo, tempHi, offLo, offHi, ret>>
MutantMissesBlock(count) ==
    \/ /\ y + 1 < BlockSize
       /\ y' = y + 1 /\ x' = count
       /\ UNCHANGED <<pc, ptrHi, tempLo, tempHi, offLo, offHi, ret>>
    \/ /\ y + 1 = BlockSize /\ tempLo + 2 < Blocks
       /\ y' = 0 /\ ptrHi' = ptrHi + 1 /\ tempLo' = tempLo + 1 /\ x' = count
       /\ UNCHANGED <<pc, tempHi, offLo, offHi, ret>>
    \/ /\ y + 1 = BlockSize /\ tempLo + 2 >= Blocks
       /\ ScanDone /\ ret' = "NOMEM"

\* The scan steps to the next byte of the table, into the next block when
\* the index wraps; past the last block vmmAlloc gives up.  X is count.
Advance(count) ==
    \/ /\ y + 1 < BlockSize
       /\ y' = y + 1 /\ x' = count
       /\ UNCHANGED <<pc, ptrHi, tempLo, tempHi, offLo, offHi, ret>>
    \/ /\ y + 1 = BlockSize /\ tempLo + 1 < Blocks
       /\ y' = 0 /\ ptrHi' = ptrHi + 1 /\ tempLo' = tempLo + 1 /\ x' = count
       /\ UNCHANGED <<pc, tempHi, offLo, offHi, ret>>
    \/ /\ y + 1 = BlockSize /\ tempLo + 1 >= Blocks
       /\ ScanDone /\ ret' = "NOMEM"

\* vaSearchLoop, vaResetSearch: the page is taken, look at the next one.
SearchTaken ==
    /\ pc = "search"
    /\ \E b \in MctByte : b # "FREE"
    /\ Advance(x)
    /\ UNCHANGED table

\* The block of the first page not recorded.
MutantForgetsBlock ==
    /\ pc = "search"
    /\ "FREE" \in MctByte
    /\ offLo' = y /\ offHi' = 0 /\ x' = 0
    /\ pc' = "contig"
    /\ UNCHANGED <<ptrHi, tempLo, y, tempHi, ret, table>>

\* vaFoundPotential: the page is free, remember it and count from it.
FoundPotential ==
    /\ pc = "search"
    /\ "FREE" \in MctByte
    /\ offLo' = y /\ offHi' = tempLo /\ x' = 0
    /\ pc' = "contig"
    /\ UNCHANGED <<ptrHi, tempLo, y, tempHi, ret, table>>

\* The page not looked at.
MutantCountsTaken ==
    /\ pc = "contig"
    /\ LET count == (x + 1) % BlockSize
       IN  \/ /\ count = tempHi
              /\ pc' = "commit" /\ x' = count
              /\ UNCHANGED <<ptrHi, tempLo, y, tempHi, offLo, offHi, ret>>
           \/ count # tempHi /\ Advance(count)
    /\ UNCHANGED table

\* vaContigLoop: one more free page, and the run is long enough or goes on.
ContigFree ==
    /\ pc = "contig"
    /\ "FREE" \in MctByte
    /\ LET count == (x + 1) % BlockSize
       IN  \/ /\ count = tempHi
              /\ pc' = "commit" /\ x' = count
              /\ UNCHANGED <<ptrHi, tempLo, y, tempHi, offLo, offHi, ret>>
           \/ count # tempHi /\ Advance(count)
    /\ UNCHANGED table

\* The search taken up again at the run's first page.
MutantResetsToStart ==
    /\ pc = "contig"
    /\ \E b \in MctByte : b # "FREE"
    /\ pc' = "search"
    /\ y' = offLo /\ ptrHi' = offHi
    /\ UNCHANGED <<tempLo, x, tempHi, offLo, offHi, ret, table>>

\* vaSearchReset: the run is too short.  The pointer goes back to the page
\* after its start; TempLo keeps the blocks the run crossed.
SearchReset ==
    /\ pc = "contig"
    /\ \E b \in MctByte : b # "FREE"
    /\ pc' = "search"
    /\ IF offLo + 1 < BlockSize
       THEN y' = offLo + 1 /\ ptrHi' = offHi /\ UNCHANGED tempLo
       ELSE y' = 0 /\ ptrHi' = offHi + 1 /\ tempLo' = tempLo + 1
    /\ UNCHANGED <<x, tempHi, offLo, offHi, ret, table>>

\* vaCommitAlloc, vaMarkTail, vaDoneCommit and the return to the program
\* (ahAllocMem): it now holds the block <<VmmBank, VmmSegHi>> names.  Marks
\* past the table land in the I/O area.
Commit ==
    /\ pc = "commit"
    /\ LET run == Run(Start, PagesFor(tempHi))
       IN  /\ mct' = [p \in Page |-> IF p = Start THEN "HEAD"
                                     ELSE IF p \in run THEN "TAIL"
                                     ELSE mct[p]]
           /\ owned' = owned \cup {[first |-> Start,
                                    size |-> PagesFor(tempHi)]}
    /\ ScanDone /\ ret' = "SUCCESS"
    /\ UNCHANGED vmmInitialized

\* vmmFree, for any page a program may name (ahFreeMem).
vmmFree(p) ==
    /\ pc = "idle"
    /\ IF vmmInitialized /\ mct[p] = "HEAD"
       THEN /\ mct' = [q \in Page |-> IF q \in FreedBy(p) THEN "FREE"
                                      ELSE mct[q]]
            /\ owned' = {b \in owned : b.first # p}
            /\ ret' = "SUCCESS"
       ELSE ret' = "INVALID" /\ UNCHANGED <<mct, owned>>
    /\ UNCHANGED <<pc, vmmInitialized, scan>>

vmmAllocStep ==
    \/ SearchTaken
    \/ FoundPotential
    \/ ContigFree
    \/ SearchReset
    \/ Commit

Next ==
    \/ vmmInit
    \/ \E r \in Requests : AllocRefused(r)
    \/ \E r \in Requests : AllocCall(r)
    \/ vmmAllocStep
    \/ \E p \in Page : vmmFree(p)

Spec == Init /\ [][Next]_vars

\* The processor keeps executing a vmmAlloc it has entered.
FairSpec == Spec /\ WF_vars(vmmAllocStep)

-----------------------------------------------------------------------------
(* Properties *)

\* The scan's eight-bit registers, the MCT's marks and the status returned
\* keep their ranges (vmmAlloc).
TypeOK ==
    /\ pc \in {"idle", "search", "contig", "commit"}
    /\ vmmInitialized \in BOOLEAN
    /\ mct \in [Page -> PageState]
    /\ ptrHi \in Nat /\ tempLo \in Nat /\ offHi \in Nat
    /\ y \in 0 .. BlockSize - 1
    /\ x \in 0 .. BlockSize - 1
    /\ tempHi \in 0 .. BlockSize - 1
    /\ offLo \in 0 .. BlockSize - 1
    /\ ret \in {"SUCCESS", "NOMEM", "INVALID"}
    /\ owned \subseteq [first : Nat, size : 1 .. BlockSize]

\* vmmAlloc (vaCommitAlloc) marks only pages of the table that are free:
\* no program is ever given a page another one holds.
CommitFresh ==
    pc = "commit" =>
        \A p \in Run(Start, PagesFor(tempHi)) : p \in Page /\ mct[p] = "FREE"

\* Of CommitFresh, what a program notices: vmmAlloc marks no page of the
\* table that lies in a block another program holds (vaCommitAlloc).
PagesExclusive ==
    pc = "commit" =>
        \A b \in owned :
            Page \cap Run(Start, PagesFor(tempHi)) \cap Run(b.first, b.size) = {}

\* The two block counters agree on the page under the pointer: no run that
\* crossed a block boundary failed earlier in this scan.
Aligned ==
    /\ ptrHi < Blocks
    /\ Cur = Start + PagesFor(tempHi) - 1

\* Weaker than CommitFresh, for requests of any size: whenever the position
\* reached in the table is the end of the recorded run, vmmAlloc marks only
\* free pages.
AlignedCommitFresh == Aligned => CommitFresh

\* vmmFree walks TAIL marks from a HEAD, so a TAIL behind a free page could
\* never be released: no sequence of calls leaves one.
NoOrphanTail ==
    vmmInitialized =>
        \A p \in Page : mct[p] = "TAIL" => p > 0 /\ mct[p - 1] # "FREE"

\* The table records exactly the blocks programs hold: one HEAD and its
\* TAILs for each, and every other page is free.  Nothing leaks and nothing
\* is shared.
TableMatchesOwners ==
    vmmInitialized =>
        /\ \A p \in Page : mct[p] = "HEAD" <=> \E b \in owned : b.first = p
        /\ \A p \in Page :
              mct[p] = "FREE"
                  <=> \A b \in owned : p \notin Run(b.first, b.size)
        /\ \A b \in owned : Run(b.first, b.size) \subseteq Page

\* vmmAlloc reports VMM_ERR_NOMEM only when no run of the size asked for is
\* free anywhere in the table.
NoMemMeansFull ==
    [][ret' = "NOMEM" /\ pc # "idle" /\ pc' = "idle" =>
          \A f \in Page :
             LET run == Run(f, PagesFor(tempHi))
             IN  run \subseteq Page => \E p \in run : mct[p] # "FREE"]_vars

\* Every vmmAlloc returns, whatever the table holds: the resets of the scan
\* cannot make it go round for ever.
ScanTerminates == pc # "idle" ~> pc = "idle"

\* The allocator the documentation describes.
Allocator == INSTANCE PageAllocator
    WITH Sizes  <- {PagesAsked(r) : r \in Requests} \ {0},
         ready  <- vmmInitialized,
         blocks <- owned

\* Seen through owned, vmmInit, vmmAlloc and vmmFree behave as that allocator.
AllocatorSpec == Allocator!Spec
=============================================================================
