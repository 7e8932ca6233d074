------------------------------ MODULE AppTable ------------------------------
(***************************************************************************)
(* The registry of resident applications (command64/apptable.asm) and the   *)
(* shell commands that use it: LOAD, FREE and external commands (shell.asm).*)
(* The registry is one page of VMM memory: a header, then MaxSlots entries. *)
(* aptSlotBase computes an entry's offset in sixteen bits; aptRegister and  *)
(* aptNameMatch then step through it with `inc VmmOffLo`, which wraps inside *)
(* a window of Window cells (256 bytes in the code).  The page is modelled  *)
(* cell by cell so that a write that wraps lands where it does in the code. *)
(* Memory is counted in units, PageUnits of them to a 256-byte page.        *)
(***************************************************************************)
EXTENDS Integers, Sequences, FiniteSets, FiniteSetsExt

CONSTANTS MaxSlots,     \* entries of the table: 16
          NameLen,      \* cells of a name field: 16 bytes
          HeaderSize,   \* cells of the header: 4 bytes
          EntrySize,    \* cells from entry to entry: 40 bytes, 21 of them used
          Window,       \* cells VmmOffLo reaches before it wraps: 256
          PageUnits,    \* units in a memory page
          UserProgStart, Top,  \* bounds of user memory; Top is $C000
          MemoryEnd,    \* end of all memory: $10000
          Programs,     \* files: records [name, code, image, base]
          LoadAddrs     \* addresses users give to LOAD

\* A name is a sequence of character codes; code is the part of a file
\* aptRelocate keeps, image all of it; base is the page an R6 binary was
\* compiled for, or -1 for a plain PRG.
ASSUME AppTableAssumption ==
    /\ {MaxSlots, NameLen, Window, PageUnits} \subseteq Nat \ {0}
    /\ MaxSlots < 256            \* the header counts in one byte
    /\ PageUnits <= 256          \* an address is two bytes
    /\ HeaderSize \in Nat \ {0, 1}
    /\ EntrySize \in Nat
    /\ EntrySize >= NameLen + 5   \* flags, name, address lo/hi, size lo/hi
    /\ Window >= NameLen + 5      \* an entry that wraps does not meet itself
    /\ UserProgStart \in Nat /\ UserProgStart % PageUnits = 0
    /\ Top \in Nat /\ Top % PageUnits = 0
    /\ MemoryEnd \in Nat /\ Top < MemoryEnd /\ MemoryEnd <= 256 * PageUnits
    /\ LoadAddrs \subseteq 0 .. MemoryEnd - 1
    /\ \A p \in Programs :
          /\ p.name \in Seq(1 .. 255) /\ Len(p.name) \in 1 .. NameLen
          /\ p.image \in Nat /\ p.code \in 1 .. p.image
          /\ p.base \in Nat \cup {-1}
          /\ p.base = -1 => p.code = p.image
          /\ UserProgStart + p.image <= Top   \* bound: files fit in memory

VARIABLES page,  \* the cells of the table's VMM page
          mem    \* for each unit of memory, the file it was loaded from

vars == <<page, mem>>

Slot       == 0 .. MaxSlots - 1
Cells      == 0 .. HeaderSize + MaxSlots * EntrySize - 1
USEDSLOTS  == 1                  \* header cell: number of used slots
OFFNAME    == 1
OFFADDR    == NameLen + 1
Byte       == 0 .. 255
Memory     == 0 .. MemoryEnd - 1
UserMemory == UserProgStart .. Top - 1
Nothing    == <<>>
System     == <<0>>   \* the kernel, its tables, the I/O area: no file's name

-----------------------------------------------------------------------------
(* Reading the table *)

aptSlotBase(i) == HeaderSize + i * EntrySize

\* The cell k steps of `inc VmmOffLo` away from cell c.
Step(c, k) == (c \div Window) * Window + (((c % Window) + k) % Window)

IsUsed(pg, i)    == pg[aptSlotBase(i)] % 2 = 1
IsRunning(pg, i) == (pg[aptSlotBase(i)] \div 2) % 2 = 1
Used(pg)         == {i \in Slot : IsUsed(pg, i)}

\* Reads of the address and size carry into the high byte first.
Start(pg, i) == LET a == aptSlotBase(i) + OFFADDR
                IN  pg[a] + PageUnits * pg[Step(a, 1)]
Size(pg, i)  == LET a == aptSlotBase(i) + OFFADDR
                IN  pg[Step(a, 2)] + PageUnits * pg[Step(a, 3)]
End(pg, i)   == Start(pg, i) + Size(pg, i)
Extent(pg, i) == Start(pg, i) .. End(pg, i) - 1

\* Every character agrees and the field ends there, or the cell behind a
\* full-length name, the low byte of the address, is zero.
aptNameMatch(pg, i, name) ==
    /\ \A k \in 1 .. Len(name) : pg[Step(aptSlotBase(i), k)] = name[k]
    /\ pg[Step(aptSlotBase(i), Len(name) + 1)] = 0

Matching(pg, name) == {i \in Used(pg) : aptNameMatch(pg, i, name)}

\* Name mode: the first used slot that matches, or -1.
aptFind(pg, name) ==
    IF Matching(pg, name) = {} THEN -1 ELSE Min(Matching(pg, name))

SAFE      == -1
PROTECTED == -2

\* The end of the range not compared.
MutantStartOnly(pg, addr, size) ==
    LET hit == {i \in Used(pg) : Start(pg, i) <= addr /\ addr < End(pg, i)}
    IN  IF addr < UserProgStart \/ addr + size > Top THEN PROTECTED
        ELSE IF hit = {} THEN SAFE ELSE Min(hit)

\* The end not compared with $C000.
MutantNoTop(pg, addr, size) ==
    LET hit == {i \in Used(pg) : /\ Start(pg, i) < addr + size
                                 /\ addr < End(pg, i)}
    IN  IF addr < UserProgStart THEN PROTECTED
        ELSE IF hit = {} THEN SAFE ELSE Min(hit)

\* [addr, addr + size) against the protected regions and every used slot.
aptCheckRange(pg, addr, size) ==
    LET hit == {i \in Used(pg) : /\ Start(pg, i) < addr + size
                                 /\ addr < End(pg, i)}
    IN  IF addr < UserProgStart \/ addr + size > Top THEN PROTECTED
        ELSE IF hit = {} THEN SAFE ELSE Min(hit)

\* An address on a page boundary taken to the next page.
MutantRoundsPast(a) == ((a + PageUnits) \div PageUnits) * PageUnits

RoundUp(a) == ((a + PageUnits - 1) \div PageUnits) * PageUnits

\* From UserProgStart on, jump behind each app in the way; -1: no room.
aptFindFreeRegion(pg, size) ==
    LET scan[a \in UserProgStart .. Top + PageUnits] ==
            LET r == aptCheckRange(pg, a, size)
            IN  IF r = SAFE THEN a
                ELSE IF r = PROTECTED THEN -1
                ELSE scan[RoundUp(End(pg, r))]
    IN  scan[UserProgStart]

-----------------------------------------------------------------------------
(* Writing the table *)

\* The size subtracted the wrong way round.
MutantNegativeSize(name, addr, size) ==
    <<1>> \o [k \in 1 .. NameLen |-> IF k <= Len(name) THEN name[k] ELSE 0]
          \o <<addr % PageUnits, addr \div PageUnits,
               (0 - size) % PageUnits, (0 - size) \div PageUnits>>

\* What aptRegister writes from the flags cell on, one cell per step.
EntryCells(name, addr, size) ==
    <<1>> \o [k \in 1 .. NameLen |-> IF k <= Len(name) THEN name[k] ELSE 0]
          \o <<addr % PageUnits, addr \div PageUnits,
               size % PageUnits, size \div PageUnits>>

\* Writes happen in order: a later one to the same cell wins.
WriteEntry(pg, i, cells) ==
    LET at(c) == {k \in 1 .. Len(cells) : Step(aptSlotBase(i), k - 1) = c}
    IN  [c \in Cells |-> IF at(c) = {} THEN pg[c] ELSE cells[Max(at(c))]]

\* The count raised for an overwritten slot too.
MutantCountsTwice(pg, name, addr, size) ==
    LET same == aptFind(pg, name)
        free == Slot \ Used(pg)
        more == [pg EXCEPT ![USEDSLOTS] = (@ + 1) % 256]
        cells == EntryCells(name, addr, size)
    IN  IF same # -1 THEN WriteEntry(more, same, cells)
        ELSE IF free = {} THEN pg
        ELSE WriteEntry(more, Min(free), cells)

\* The slot of the same name, or else the first free one, counted in a byte of
\* the header; a full table is left alone.
aptRegister(pg, name, addr, size) ==
    LET same == aptFind(pg, name)
        free == Slot \ Used(pg)
        cells == EntryCells(name, addr, size)
    IN  IF same # -1 THEN WriteEntry(pg, same, cells)
        ELSE IF free = {} THEN pg
        ELSE WriteEntry([pg EXCEPT ![USEDSLOTS] = (@ + 1) % 256], Min(free), cells)

\* aptRemove on each slot of a set, in slot order; the counter is one byte.
aptRemoveSlots(pg, slots) ==
    [c \in Cells |->
        IF \E i \in slots : c = aptSlotBase(i) THEN 0
        ELSE IF c = USEDSLOTS THEN (pg[c] - Cardinality(slots)) % 256
        ELSE pg[c]]

\* shellLoadPrg puts a file, or the first part of it, at addr; the rest of
\* memory stays.
Loaded(name, addr, len) ==
    [u \in Memory |-> IF u \in addr .. addr + len - 1 THEN name ELSE mem[u]]

\* aptRelocate adds the distance of the pages to the high bytes of an R6
\* binary, taking its address to be page aligned: otherwise the patches go
\* to what lies from the start of the page on, and that is no longer what
\* was loaded there.
Relocated(m, p, addr) ==
    LET first == (addr \div PageUnits) * PageUnits
    IN  IF p.base \in {-1, addr \div PageUnits} \/ first = addr THEN m
        ELSE [u \in Memory |-> IF u \in first .. first + p.code - 1
                               THEN Nothing ELSE m[u]]

Init ==
    /\ page = [c \in Cells |-> IF c = 0 THEN MaxSlots ELSE 0]
    /\ mem = [u \in Memory |-> IF u \in UserMemory THEN Nothing ELSE System]

-----------------------------------------------------------------------------
(* Commands *)

\* Only the protected regions checked at the address the user gives.
MutantUnchecked(p) ==
    {a \in LoadAddrs : aptCheckRange(page, a, p.image) # PROTECTED} \cup ({aptFindFreeRegion(page, p.image)} \ {-1})

\* Where LOAD may put p: where the user says if nothing is there, or where
\* the allocator finds room.  Sizes come from the directory, which counts
\* the whole file.
LoadTargets(p) ==
    {a \in LoadAddrs : aptCheckRange(page, a, p.image) = SAFE}
        \cup ({aptFindFreeRegion(page, p.image)} \ {-1})

\* LOAD file [addr] (cmdLoad).
cmdLoad(p) ==
    /\ page[USEDSLOTS] < MaxSlots
    /\ \E a \in LoadTargets(p) :
          /\ mem' = Relocated(Loaded(p.name, a, p.image), p, a)
          /\ page' = aptRegister(page, p.name, a, p.code)

\* The drive fails in the middle of the transfer (clLoadErr).
cmdLoadError(p) ==
    /\ page[USEDSLOTS] < MaxSlots
    /\ \E a \in LoadTargets(p), len \in 0 .. p.image - 1 :
          mem' = Loaded(Nothing, a, len)
    /\ UNCHANGED page

\* The slots that are overwritten not evicted.
MutantNoEviction(p) ==
    /\ mem' = Loaded(p.name, UserProgStart, p.image)
    /\ page' = aptRegister(page, p.name, UserProgStart, p.code)

\* A file run by its name (sdBadCmd, sdExtAptBookkeep): loaded at
\* UserProgStart over whatever is there, the slots it overlaps evicted by
\* the size that remains after relocation, then registered.
External(p) ==
    LET hit  == {i \in Used(page) : /\ Start(page, i) < UserProgStart + p.code
                                    /\ UserProgStart < End(page, i)}
    IN  /\ mem' = Loaded(p.name, UserProgStart, p.image)
        /\ page' = aptRegister(aptRemoveSlots(page, hit),
                               p.name, UserProgStart, p.code)

\* The drive fails in the middle of such a load (sdExtError): the table is
\* not looked at, the slots over the damaged memory stay registered.
ExternalError(p) ==
    /\ \E len \in 0 .. p.image - 1 : mem' = Loaded(Nothing, UserProgStart, len)
    /\ UNCHANGED page

\* FREE name (cmdFree): refused for a running app, a flag nothing sets.
cmdFree(p) ==
    LET i == aptFind(page, p.name)
    IN  /\ i # -1
        /\ ~IsRunning(page, i)
        /\ page' = aptRemoveSlots(page, {i})
        /\ UNCHANGED mem

\* FREE (aptRemoveAll).
cmdFreeAll ==
    /\ page' = aptRemoveSlots(page,
                              {i \in Used(page) : ~IsRunning(page, i)})
    /\ UNCHANGED mem

Next ==
    \/ \E p \in Programs : cmdLoad(p)
    \/ \E p \in Programs : cmdLoadError(p)
    \/ \E p \in Programs : External(p)
    \/ \E p \in Programs : ExternalError(p)
    \/ \E p \in Programs : cmdFree(p)
    \/ cmdFreeAll

Spec == Init /\ [][Next]_vars

-----------------------------------------------------------------------------
(* Properties *)

\* The cells of the table are bytes, and every unit of memory holds part of a
\* file, nothing or the system (aptRegister, shellLoadPrg).
TypeOK ==
    /\ page \in [Cells -> Byte]
    /\ mem \in [Memory -> {p.name : p \in Programs} \cup {Nothing, System}]

\* Nothing is loaded or relocated outside of user memory: an address, given by
\* the user or found by the allocator, is held against both of its ends with
\* the size of the whole file, and relocation patches from the start of a page
\* on (aptCheckRange, aptRelocate).  A file that runs by its name is not held
\* against Top at all, and is taken to fit.
SystemSpared == \A u \in Memory \ UserMemory : mem[u] = System

\* The last cell of entry i lies in the window of its first.
Straight(i) == (aptSlotBase(i) % Window) + NameLen + 4 < Window

\* No entry in use crosses the window VmmOffLo wraps in: aptRegister takes
\* the first free slot and re-registering takes none, so as long as few apps
\* fit in memory they stay in the slots in front of the crossing one.
TableStraight == \A i \in Used(page) : Straight(i)

\* The header counts the used slots (docs/api-reference.md, AppUsedSlots):
\* aptRegister and aptRemove keep the count with the flags, and LOAD trusts
\* it to tell a full table.
CountMatches == page[USEDSLOTS] = Cardinality(Used(page))

\* No two registered apps overlap and all lie in user memory, however LOAD,
\* external commands and FREE are interleaved: re-registering a name moves
\* it, an external command evicts what it covers.
AppsDisjoint ==
    /\ \A i \in Used(page) : Extent(page, i) \subseteq UserMemory
    /\ \A i, j \in Used(page) :
          i # j => Extent(page, i) \cap Extent(page, j) = {}

\* aptFindFreeRegion, which jumps from one collision to the next in slot
\* order, returns the lowest page where the file fits, and reports no room
\* only when there is none.
FirstFit ==
    \A n \in {p.image : p \in Programs} :
        LET fits == {a \in UserMemory :
                       /\ a % PageUnits = 0 /\ a + n <= Top
                       /\ \A i \in Used(page) :
                            Extent(page, i) \cap (a .. a + n - 1) = {}}
        IN  aptFindFreeRegion(page, n) =
                IF fits = {} THEN -1 ELSE Min(fits)

\* LOAD, even one that fails half way, never writes over a registered app
\* (docs/codebase-reference.md, cmdLoad: "memory is never partially
\* transferred" on a collision).
LoadSparesApps ==
    [][(\E p \in Programs : cmdLoad(p) \/ cmdLoadError(p)) =>
          \A i \in Used(page) : \A u \in Extent(page, i) : mem'[u] = mem[u]]_vars

\* After an external command every slot left in the table is either the
\* command itself or an app whose memory it did not touch.
ExternalEvicts ==
    [][\A p \in Programs : External(p) =>
          \A i \in Used(page') :
             \/ aptNameMatch(page', i, p.name)
             \/ \A u \in Extent(page', i) : mem'[u] = mem[u]]_vars
=============================================================================
