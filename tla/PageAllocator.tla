--------------------------- MODULE PageAllocator ---------------------------
(***************************************************************************)
(* What vmmAlloc and vmmFree promise their callers (docs/vmm-api.md,        *)
(* "Allocates contiguous 4KB pages in the REU"): memory is a row of pages,  *)
(* an allocation takes a run of pages nobody holds, and a release gives     *)
(* back one whole block.  A refused allocation changes nothing.             *)
(***************************************************************************)
EXTENDS Integers

CONSTANTS NumPages,  \* pages the allocator manages
          Sizes      \* block sizes a program may ask for, in pages

VARIABLES ready,     \* TRUE once memory was found and cleared
          blocks     \* blocks handed out and not yet released

PagesOf(b) == b.first .. b.first + b.size - 1

Fits(b) ==
    /\ PagesOf(b) \subseteq 0 .. NumPages - 1
    /\ \A c \in blocks : PagesOf(b) \cap PagesOf(c) = {}

Init == ready \in BOOLEAN /\ blocks = {}

Reset == ready' \in BOOLEAN /\ blocks' = {}

Allocate ==
    /\ ready
    /\ \E f \in 0 .. NumPages - 1, n \in Sizes :
          LET b == [first |-> f, size |-> n]
          IN  Fits(b) /\ blocks' = blocks \cup {b}
    /\ UNCHANGED ready

Release ==
    /\ ready
    /\ \E b \in blocks : blocks' = blocks \ {b}
    /\ UNCHANGED ready

Next == Reset \/ Allocate \/ Release

Spec == Init /\ [][Next]_<<ready, blocks>>
=============================================================================
