# Command64 OS: a TLA+ model of the kernel and its build

Command64 is a disk operating system with an MS-DOS style shell for the
Commodore 64 with a RAM expansion unit (REU).  The kernel is about 8,300 lines
of 6502 assembly in `src/src/command64/`; applications (an assembler, an
editor, a monitor, utilities, games) call it through `JSR $1000`.  About 3,000
lines of Python on the host (`scripts/`, `tools/reloc.py`, `autotile.py` of
PACMAN) generate tables for these programs, check them, and decide what ships.
This directory holds TLA+ modules of the kernel's stateful parts and of the host
tools with the 6502 code they vouch for, the TLC configurations that check them
on small instances, and machine-checked proofs about each of these parts: the page
allocator, the app table, the file handles and COPY, the environment block, the native
releases, the relocation tool chain, the maze tools, CONWAY's menu and status row, CASM's
diagnostics, and the host side as a whole.

Paths below are relative to the repository (`src/`), line numbers to its files.

## 1. Inventory

### Parts, their state and operations

| part | code | state | operations |
|---|---|---|---|
| VMM page allocator | `src/command64/vmm.asm` | the MCT (one byte per 4 KB page, at $C000), `vmmInitialized`, scan registers `PrintPtrHi`, `TempLo`, `TempHi`, X, Y, `VmmOffLo/Hi` | `vmmInit`, `vmmAlloc`, `vmmFree`; byte and block transfers |
| App table | `src/command64/apptable.asm`, `loader.asm` | one VMM page: header (`MaxSlots`, `UsedSlots`), 16 slots of 40 bytes; `AptSegLo/Hi` at $03F2 | `aptInit`, `aptFind`, `aptCheckRange`, `aptFindFreeRegion`, `aptRegister`, `aptRemove`, `aptRemoveAll`, `aptRelocate` |
| LOAD, FREE, commands by name | `src/command64/shell.asm` | user memory $3400-$BFFF | `cmdLoad`, `cmdFree`, `sdBadCmd`, `sdExtAptBookkeep` |
| File handles | `src/command64/file.asm`, `api.asm` | `HandleTable` (8 entries), the KERNAL's file table | `fileInit`, `fileOpen`, `fileClose`, `fileRead`, `fileWrite`, `fileDelete`, `fileRename` |
| Command channel | `file.asm`, `path.asm` | `L15Device`: the device LFN 15 is open on | `ensureL15Open`, `checkDeviceReady`, `readErrorChannel`, `ahReleaseL15`, `dosSendCommand` |
| COPY | `shell.asm` | two handles, names, devices | `cmdCopy` and its error exits |
| Environment | `shell.asm` | one VMM page of `VAR=VAL` strings | SET, PATH: `envSearch`, `envDelete`, `envFindEnd`, `envAppend` |
| Boot, EXIT, restart | `shell.asm` `start`, `cmdExit` | all of the above, initialised in order | `start`, `cmdExit`, `ahExit` |
| API dispatcher | `api.asm` | none | `apiHandler`, system and app information |
| Shell parser, other commands | `shell.asm`, `utils.asm`, `petsci.asm` | `CommandBuffer`; date and time | line editor, dispatch, DIR, VOL, TYPE, MORE, DATE, TIME, ... |
| CASM | `src/external/casm` | source stack, symbol tables in VMM, files and VMM blocks in a registry | two-pass assembly; cleanup of every resource |
| EDLIN | `src/external/edlin` | a line buffer | insert, delete, list, read, write |
| native release manifests | `scripts/build_*_manifest.py`, `hex_manifest_to_bin.py`, `casm_oracle_inventory.py`, `check_casm_source_bytes.py`, `gen_*_version.py`, `CMakeLists.txt` | source tree, test disk, the PRG of a native run, `<app>.ref.hex`, the shipped PRG | edit, package, assemble on the C64, transcribe, convert |
| relocation tool chain | `tools/reloc.py`, `scripts/casm_r6_verify.py`, `loader.asm` | an R6 file and its table; the image in memory | diff of two links, verify, `aptRelocate` |
| PACMAN's maze tools | `src/external/pacman/autotile.py`, `scripts/pacman_maze_reachability.py`, `pacman_game.s`, `pacman_main.s` | topology, wall tiles, the search's queue | autotile, search, `resetItems`, `canMovePac` |
| CONWAY's menu texts | `gen_conway_menu.py`, `gen_conway_version.py`, `check_conway_layout.py`, `conway.s` | texts, version, lengths in `conway.s`; the screen | generate, gate, draw the menu, edit a rule, status row |
| CASM's diagnostic table | `verify_casm_diag_table.py`, `diagnostics.s`, `common.inc` | constants, two half tables, the frozen list | edit, build, verify, `diagPrintFatal` |
| other applications | `src/external/*` | none that outlives them | one straight line of API calls, or graphics |

### How they interact

* Everything runs on one processor without preemption (the interrupt is the
  KERNAL's own), so a handler runs to its end.  What interleaves is *calls*:
  any application may call the API in any order, and the shell's own commands
  come in between.  What is concurrent is the outside: a drive that is
  switched off, has no disk or fails in the middle of a COPY.
* The shell allocates one VMM page for the environment and one for the app
  table; applications allocate theirs from the same MCT.
* LOAD asks the app table for room, the command channel whether the drive is
  ready, the KERNAL to load, the relocator to patch, and the table to register.
* Data channels and the command channel of one drive are linked *in the
  drive*: closing LFN 15 closes every data channel.  The kernel has one LFN 15
  for all drives and caches its device in `L15Device`.
* The host tools never run together with the C64: they hand over files.  What one
  tool promises, another tool or 6502 code relies on without a check of its own:
  the loader patches where `reloc.py` says, a game draws as many bytes as an equate
  states, CMake ships what a manifest's text says.  Two parsers read the same
  manifest, and two read the same `common.inc`.
* The build goes in a circle through a person: sources are packaged on a disk, CASM
  assembles them on a C64, a script transcribes the PRG with the sources' hashes, and
  the shipping target refuses the manifest when a source has changed.
* Zero-page and cassette-buffer cells are shared between parts; what a routine
  clobbers is part of its contract (`TempLo` in `vmmAlloc` is the best example).

### What is hard

Counters in eight bits (page count, block index, offsets within the table);
registers restored on one path and not on another; tables edited in place; error
exits after each of several steps; a drive's error that stays latched until
somebody reads it; a cached device number; and state that survives a restart.  On the host: sources, disk, PRG and manifest of
different moments; a half-written disk image; a manifest edited by hand; lengths
stated twice; a checker that knows less than the code it checks.
`PROJECT.json` lists each hazard at its line.

### What correctness means

* **Allocator**: no page has two owners; the MCT records exactly what was handed
  out; `NOMEM` means there is no room; a free gives back the whole block; a scan
  ends.
* **App table**: registered apps are disjoint and in user memory; the count in
  the header is the number of used slots; LOAD writes over no registered app; an
  external command evicts what it overwrites; placement is first fit.
* **Files**: handle table, KERNAL table and command-channel cache agree after
  every exit; an error does not leak into an unrelated call; COPY keeps its
  streams alive, leaks no handle and touches nothing but its destination.
* **Environment**: the block behaves as a map from names to values, no scan
  of it leaves the page, and nothing outside it is written.

* **Releases**: what ships is what a person transcribed from a native run, and the
  sources its manifest vouches for have not changed since; edited sources can be
  released again.
* **Relocation**: a program is in memory what the linker would have made for that page.
* **Maze**: every dot of a maze that passed can be reached, by the game's own rules.
* **Menu**: the screen shows the texts whole, and nothing behind it is written.
* **Diagnostics**: a verified assembler prints the frozen text for each identifier (an
  assertion's own message aside).

## 2. Modules

### `Vmm` (with `PageAllocator`, `VmmProofs`)

`PageAllocator` is what `docs/vmm-api.md` promises: a set of disjoint blocks that
grows by free pages and shrinks by whole blocks.  `Vmm` is the code, down to the
two counters the scan keeps.  One action per stretch of code between labels:
`AllocCall`/`AllocRefused` (vmm.asm 50-81), `SearchTaken` (82-97),
`FoundPotential` (99-105), `ContigFree` (106-122), `SearchReset` (124-136),
`Commit` (145-206), `vmmInit`, `vmmFree`.  `ptrHi` (the pointer's high byte) and
`tempLo` (the block counter) are separate variables because the code updates them
separately.  A read behind the MCT (`MctByte`) may return anything.  `BlockSize` is
256 in the code and `Blocks` 16; registers wrap at `BlockSize`, so the small
instance wraps where the machine does.  `owned` is a history variable: the blocks
callers hold.  `vmmFree` takes any page number, as `DOS_FREE_MEM` does, and acts on
those marked as a HEAD.  `CommitFresh` says that a commit takes free pages only;
`PagesExclusive` is the part of it that a program notices: none of them is in a block that
another program holds.

### `AppTable` (with `AppTableProofs`)

The table is a function from cells to bytes, written as `aptRegister` writes it:
one cell per `inc VmmOffLo`, which wraps inside `Window` cells (256).  `mem` records
for each unit of user memory the file it was loaded from, so that properties can
relate the table to memory; memory outside of user memory is the system's from the start,
and stays so (`SystemSpared`).  Addresses count in units, `PageUnits` of them to a
256-byte page.  `cmdLoad`, `cmdLoadError`, `External`, `ExternalError`, `cmdFree`,
`cmdFreeAll` are the shell's commands, each with the whole effect of its handler.
`aptRegister`'s comment (apptable.asm:513) says it evicts overlapping slots; the
code leaves that to its callers, and so does the model.  `TableStraight` says that no
entry in use crosses the window: with the code's numbers (4 + 40 * i, 21 bytes, 256) that
is so for slots 0 to 5, and slot 6 is the first that wraps.

### `FileSystem` (with `FileSystemProofs`)

`s` is one record with the handle table, the cache `L15Device`, the KERNAL's file
table and the drives' side (live channels, the latched result, the files).
`KernalCLOSE`, `DriveOPEN`, `SwitchOff`, `SwitchOn` are external: they say what
`file.asm` and `cmdCopy` rely on and state in their comments.  The kernel's routines
are functions from state to state, composed as the code calls them; API calls are
single steps, while COPY is five (`CopyStart`, `CopyValidate`, `CopyOpenDest`,
`CopyOpenSource`, then `CopyTransferError` or `CopyDone`) with drives going away
between them.  COPY is modal: no other call runs meanwhile.  Chunks are not counted:
a transfer succeeds as a whole, or fails after the destination was created.

### `EnvBlock` (with `Environment`, `EnvBlockProofs`)

`Environment` is a map from names to values.  `EnvBlock` is the page, cell by cell,
followed by the cells of the next page up to a double null (`Neighbour`), because nothing
in the scan stops at the end.  `envDelete` copies only what the loop copies, so the
bytes it leaves behind the double null stay in the model.  The refinement mapping reads
the map back with `envPrintVal`, the routine SET and PATH print with.  `Fits` is the
condition for an append that leaves a byte to spare, one byte stricter than the bounds
check of `envAppend`.

### `Manifest` (with `ManifestProofs`)

Six applications, with the files each script hashes (`recorded`), the files that decide
the bytes (`inputs`) and whether the disk with the sources depends on the shipping
target (`diskNeedsApp`).  A file's contents are a number, a PRG is a load address and a
byte for each input, and SHA-256 is the identity.  A manifest is a sequence of line
records, so that a line can be lost, doubled or spoiled (`Accident`).  `Body` reads the
rows one behind the other, as a recursive function.  `Accepts` is the converter,
`Problem` the inventory's parser on the same lines.  Actions: `Edit`,
`BuildTarget`, `DiskBuilt` and `DiskFull` (a `cc1541` call that fails part way),
`NativeRun`, `BuildRef` (the ca65 build of DASH), `BuildManifest` (six scripts,
`build_dash_manifest` with its cross-check).  `gen_conway_menu.py` is packaged into
CONWAY but not hashed in its manifest, which the constants show.

### `Relocation` (with `BuildProofs`)

`build_relocation_table` compares two links one byte at a time, `verify` is the list of
notes of `casm_r6_verify.py`, and `aptRelocateLoop` patches one entry at a time with the
processor's eight-bit addition.  A program is what each byte does when its link page
moves: nothing, follow (the high byte of an address), or move twice as fast.  CASM's
files come as a file and any table, good or bad.  Left out are `reloc.py`'s checks that
the two links have one length and lie a page apart, which is how the linker made them, and
the verifier's of a base inside a page and of a count the file has no room for.  `W` is 256 in the code.

### `Maze` (with `BuildProofs`)

The grid is the repository's, 24 by 28.  `Autotile` validates and tiles, `bfs_reachable`
takes one cell from the queue, `Play` and `MovePac` are the game's own `resetItems` and
`canMovePac`, which know the maze only by its tiles.

### `ConwayScreen` (with `TextProofs`)

The texts, the generated bytes one behind the other, and 1024 cells of which 1000 are the
screen.  `Package` is generators, gate and the first menu; each key's handler writes
the cells it writes in `conway.s`, with loops that end at a zero byte or after an equate's
count, where 0 means 256.  The assumptions on the constants are what `conway.s` and the
scripts' own lists say: the labels the code names exist, a row above the prompt holds
at most one text, and what the maintainer types are characters, numbers and known names.

### `DiagTable` (with `TextProofs`)

`const_values` is the script's reading of `common.inc` (one pass, forward references
dropped), `Assembled` the assembler's, which sees a constant wherever it stands: both
are `Known`, for one reading of the file and for as many as it has lines.  An address is two halves from two tables, and a
pair of different halves points at garbage.  `EditDiagnostics` adds a diagnostic by any
part of the places it touches.  The verifier relinks the sources of the moment, so
`verified` remembers what it read.

### `MCBuild` (with `BuildProofs`)

These five share no state.  `MCBuild` puts them in one specification with a variable
`target` that says whose turn the behaviour is; the others keep one initial state.

## 3. Runs

| run | shows | bounds |
|---|---|---|
| `vmm_single` | one-page requests: fresh pages only, table = owners, `NOMEM` only when full, implements `PageAllocator` | 3 blocks of 3 pages, all 9 may be owned when one more is asked for |
| `vmm_multi` | multi-page requests: commits are fresh while the counters agree, no orphan TAIL, every scan ends | 3 blocks of 3; 1, 2 and 3 pages, the last wrapping to 0 as 256 does; 5 blocks held |
| `vmm_overlap` | **violation** of `PagesExclusive` for the same requests: two programs are given the same pages | as above |
| `app_table` | system memory spared, count, disjointness, first fit, LOAD spares apps, external evicts | 3 slots, 3 pages of 2 units with one page of the system before and one behind, two plain programs, four addresses of which two are protected and one unaligned |
| `app_wrap` | **violation** of `CountMatches` when a slot crosses the window | a third program takes the third slot, which stands for slot 6 |
| `app_r6` | **violation** of `ExternalEvicts` for an image longer than its code | two R6 and plain programs |
| `files` | the tables, the cache, COPY's streams, handles and files, drained errors, spared streams | 3 handles, 2 drives, 2 files, media errors |
| `copy_existing` | **violation** of `CopyScratchesPartialOnly` | 2 handles, no media error |
| `env` | scans stay inside the page, neighbour spared, never full to the last byte, refines `Environment` | 15 cells; names `a`, `ab`; three values, one with an `=`; a neighbour that starts with text |
| `env_brim` | **violation** of `NeighbourSpared`: removing the last string of a block that is full to its last byte | 14 cells: just enough |
| `host_build` | the promises of the five families of host tools (12 properties, below) | one edit per application (COMP two), one accident to manifests with one, two and three sources; bytes of four values, programs of one and two bytes; the real maze with one edit at three cells; one edit of texts, version or lengths; a generation counter of three values; three diagnostics, two edits |
| `dash_cycle` | **violation** of `EditsShip`: DASH's edited sources can never be packaged | DASH, one edit, no accident |

Why the bounds suffice.  The allocator's scan depends on a block boundary in front
of, inside and behind a run, and on the end of the table: three blocks of three
pages give all of them.  In the app table, each pair of apps can collide at either
end, and a third page leaves a hole between two.  COPY holds two handles, so three
leave one for a bystander, and with two bystanders COPY's second open finds the table
full.  In the
environment the longest contents of both variables fill 14 cells to the last, 15 leave the
byte to spare that the theorems ask for, and one name is the other's prefix.  Symmetry (`MCFileSystem`) permutes files only among
themselves and drives among themselves, which nothing distinguishes; that run has no
liveness property.

In `host_build` (53,370 distinct states): an accident hits every line of a manifest in
every way `Slips` and `Accident` know, and manifests differ in shape only by their number
of sources; COMP's second edit falls between packaging and transcription.  A byte of a
program is related to its own offset only, so two bytes tell a missed patch from a double
one; with four byte values an addition wraps; CASM's files have offsets at zero,
inside, at the last byte, behind the code, doubled and descending.  The maze's edits, each
with its mirror image, put every symbol on a wall, into a tunnel and on a corridor,
so that mazes become invalid, unreachable or fine.  Texts are edited to just fit and to just not
fit.  Three identifiers are enough to exchange two entries and add one.

Deadlock is checked in every run but `host_build` and `dash_cycle`, whose pipelines stop
when their edits are used up and their one product is made.

What `host_build` checks:

* `ShipsReviewed`, `ParsersAgree`: a new shipped PRG is the one transcribed, with the
  vouched-for sources unchanged since; what the converter takes, the inventory finds
  nothing to report about.
* `EditsShipFromOwnDisk`: COMP, whose disk does not depend on its target, ends with the
  current sources shipped.
* `RelocatedAsBuilt`, `VerifiedLoadsSafely`: the loader against `reloc.py`'s table, and
  against a table that `casm_r6_verify.py` passed.
* `VerdictHolds`, `SearchEnds`, `DrawnSymmetric`: the search ends; dots and Pac-Man stay
  where it went; a symmetric topology is drawn symmetrically but for walls one cell thick.
  That the search misses nothing (`SearchClosed`) is a theorem and no property of the run.
* `MenuShown`, `StatusShown`: the screen cell by cell, after any sequence of keys, the
  simulation's that reset the generation included, and with a counter that wraps.
* `FrozenTextPrinted`: an assembler built from what was verified prints the frozen texts;
  about the text only, and not about an assertion that brings its own message.

**Fairness.** `ScanTerminates` assumes `WF_vars(vmmAllocStep)`: the processor goes on
executing the scan.  Nothing else runs during a call (interrupts return), so it is what
the machine does.  In `MCBuild`, `SearchEnds` assumes that the script's loop goes on, and
`EditsShipFromOwnDisk` that a maintainer keeps building, packaging, running CASM and
transcribing what it made of the current sources (`WF` of `BuildTarget`, `DiskBuilt`,
`NativeRun`, `Reviewed`); `EditsShip` is violated under the same assumption, so it is not
for want of trying.  Edits, accidents, full disks and careless transcriptions are never
forced, and never excluded.  The other runs need no fairness.

### What the violations say

1. `vmm_overlap`: `vaSearchReset` (vmm.asm:124-136) restores the pointer and not
   the block counter after a candidate run that crossed a 256-page boundary failed; the
   counter is then a block ahead of the pointer, and a later commit marks and returns
   pages a block behind the run that was counted.  In the trace a two-page request finds
   one free page in front of the boundary, counts two free ones behind the next taken page, and is
   given a pair of pages further on; the next request does the same and is given that pair
   again, although the first program still holds it.  Where the counter is ahead in
   the last block, the pages marked lie behind the MCT.  It needs more than 256
   pages (1 MB) in use, and a request of several pages.
2. `app_wrap`: the entry of slot 6 starts at offset 244 and its fields wrap to the
   header of the table.
3. `app_r6`: eviction by the truncated size leaves an overwritten app registered.
4. `copy_existing`: COPY onto an existing file fails at the first write and then
   scratches the file that was there.
5. `env_brim`: `envAppend` lets strings fill the page to its last byte.  When the last of
   them is removed, `envDelete` looks for the double null behind the page and moves bytes
   of the next page.  Found while looking for the invariant of `EnvBlockProofs`: the proof
   that a deletion stays inside needs two nulls behind the last string's own.  With a cell
   less an append is cut off and the block has no terminator at all (`eaAbort`,
   shell.asm:2544, when the old value is gone already).
6. `dash_cycle`: `CMakeLists.txt:2297` makes the disk image with DASH's sources depend on
   the `dash` target.  After an edit the manifest's hashes refuse `dash`, so that the image
   that the native run needs (`CMakeLists.txt:1645-1647`, `1660-1662`) is not built.

Findings in `PROJECT.json` quote the sentence of the repository each contradicts.

What modelling showed beside the runs:

* SET alone (`cmdSetPrint`, shell.asm:2304) looks for two nulls and takes no null at offset
  0 for an empty block: after the last variable was removed it prints the stale bytes
  behind the first null.
* `check_conway_layout.py` holds the version against the survival prompt only; a longer
  prompt of another state would be cut, although `conway.s:554-555` says a blank
  separates the version from the longest one.  `MenuShown` says which case it leaves out.
* The text for an empty rule may leave its field (see `TextProofs`): the gate holds
  `menuNoneText` against `MENU_NONE_LEN` and no text against the fields.
* `conway.s:45` says the offsets are verified too; the gate has its own copies of them and
  never reads those of `conway.s`.
* `verify_casm_diag_table.py` relinks the sources; it never opens the `casm.prg` that ships,
  and does not compare the prefix of assertions with a message.
* `pacman_maze_reachability.py` is not part of the build, and `canMovePac` trusts the
  border: `VerdictHolds` needs it closed but for the tunnel (`BorderClosed`).

### Mutants

Each property of a passing run has a mutated definition (`Mutant...` in the same
module): a plausible slip in that routine, for which TLC finds the property violated
under the run's own configuration.

## 4. Proofs

### `VmmProofs`

Assumptions: `VmmAssumption` only (positive `Blocks` and `BlockSize`, requests that fit
the registers); the theorems on single pages also assume `OnePage`, that requests are
of at most 256 paragraphs, which is what the shell's own two allocations are.

* `TypeCorrect`: registers and MCT keep their ranges.  Inductive by itself.
* `AlignedAllocIsFresh`, for all requests: a commit whose counters agree takes only free
  pages.  `CommitFresh` and its part `PagesExclusive` are false for them (run
  `vmm_overlap`), and this theorem says that the disagreement is the only way to break
  them.  Its invariant `RunCounted`
  states that while a run is counted from the page recorded in `VmmOffLo/Hi`, the pages
  counted so far are free, if the counters still agree.
* `TailsReachable`, for all requests: no TAIL behind a free page, even after
  overlapping commits, so `vmmFree` never strands a page.  Two lemmas carry it:
  `CommitKeepsTails` and `FreeKeepsTails`.
* `OnePageFresh`, `OnePageTable`, `OnePageNoMem`, `OnePageRefines`: for one-page requests
  the invariant is `OnePageInv == TypeOK /\ ScanOnePage /\ TableOnePage`.  `ScanOnePage`
  is needed because `CommitFresh` speaks of the commit only: it says that the counters
  agree from the first step of the scan on (a run of one page cannot fail) and that every
  page passed is taken, which gives `NOMEM` its meaning.  `TableOnePage` says that each
  HEAD is an owned block and that there are no TAILs.  `OnePageRefines` shows that each
  step is a step of `PageAllocator` or a stutter.

### `BuildProofs`

**Relocation.** Assumption: `RelocationAssumption` (a byte has more than two values, link
pages have a next page, files have the length they state). Both theorems hold for every
width, program, file, table and page, `RelocatedAsBuiltTheorem` and
`VerifiedLoadsSafelyTheorem`. The invariant `RelocInv` is needed because both properties
speak of the end only. `TypesInv` gives types; `PatchInv` says which bytes have been patched
after some entries, which needs a strictly ascending table (no byte twice); `TableInv` says
that after some bytes the table names exactly those that grew by one, hence, as two links
differ by one page, those that follow the page; `VerdictInv` keeps the verdict true of a
file that no longer changes. `EqualMeansConstant` and `GrownMeansHigh` are the arithmetic: a
byte that stayed is a constant, one that grew by one a high byte.

**The maze.** Assumption: `MazeAssumption` (at least three rows and columns, the tunnel and
spawn tile inside). `SearchClosedTheorem` and `VerdictHoldsTheorem` hold for every maze and
every edit of it. The invariant `MazeInv` is the frontier argument: the open neighbours of a
cell seen and no longer queued have been seen; a verdict is about an empty queue, so what
was seen is closed; Pac-Man starts in it and moves to open neighbours only.
`StepsStayOnGrid` is where the tunnel matters, `SearchStep` where the queue and the set grow
together. `MazeTypeCorrect` adds that the table only holds the game's tiles,
and that Pac-Man stays on the grid while the border is closed but for the tunnel (he looks
for a wall and never for the edge).
`DrawnSymmetricTheorem` says that the generator favours neither side, for mazes of any even
width: under `SymmetricTables`, that the tables drawn by hand (`TILE_OVERRIDES` and the
corners of the side walls) are symmetric, which TLC evaluates for the repository's
(`MazeTables` in `MCBuild`). Its invariant `DrawnInv` is that the tiles are those of the
topology that was last tiled.

**The host side as a whole.**  `PartsImplemented`: the composition implements the
specification of each component.  It rests on `PartSteps`: a step of `MCBuild` is a step
of one component and leaves the variables of the others as they are.  The maze and the
screen only start from their own initial states in the behaviours about them (`MCBuild`
keeps one small idle state for the others), and `AsideStays` says that they stay idle there.
So every invariant proved of a component alone holds of the composition: `BuildTypeCorrect`
proves `TypeOK` and `HostBuildCorrect` all the safety properties of run `host_build` and `SearchClosed`, for
every value of the constants under `OneAccident` (see `ManifestProofs`) and `MazeTables`
(for `DrawnSymmetric`).

### `AppTableProofs`

The invariant `IInv` is `Sane` (flags are flags, registered entries lie in user memory
and pairwise apart), `Counted`, that every cell is a byte, and the types of `mem`, the system's
units untouched.  Every property of `app_table`
is proved for any number of slots, pages and programs: `TypeCorrect`, `SystemAlwaysSpared`,
`CountAlwaysMatches`, `AppsAlwaysDisjoint`, `AlwaysFirstFit`, `LoadAlwaysSpares`,
`ExternalAlwaysEvicts`.  The premises are about behaviours and are the ones the code needs:

* `[]TableStraight`: no entry in use crosses the window in which `inc VmmOffLo` wraps.
  Run `app_wrap` shows the table breaking without it.  `FewAppsStayStraight` discharges it
  from the number of apps alone: while fewer are registered than there are leading slots
  inside the window (six in the code), `aptRegister` takes one of those.
* `PatchesStay` for `LoadAlwaysSpares`: there are no R6 binaries, or they are loaded at page
  starts; `aptRelocate` patches from the start of the page on.
* Code as long as the image, for `ExternalAlwaysEvicts`; run `app_r6` shows why.

Two lemmas read and write an entry cell by cell (`WritesEntry`, `ReadsEntry`); `Registers`
and `Removes` say what the two routines do to the set of entries; `InRange` and `ScanFinds`
say what `aptCheckRange` and the scan of `aptFindFreeRegion` return, the latter by induction
over the pages.

### `FileSystemProofs`

No premises beyond `FileSystemAssumption`: `TypeCorrect`, `TablesAlwaysAgree`,
`CacheAlwaysCoherent`, `CopyStreamsStayLive`, `CopyNeverLeaks`, `CopySparesTheRest`,
`CallsAlwaysDrain` and `SameDriveAlwaysSpares` hold for any number of handles, drives and
files.  `Sound` says that the handle table and the KERNAL's agree and that `L15Device` is
the device LFN 15 is open on; each routine of `file.asm` gets a lemma that it takes sound
states to sound states and which channels it leaves alone.  `Sound` is not enough for COPY:
`Progress` says, for each of its five steps, which handles it holds, which channels must be
live and what of the disk may differ from the start of the command (`BeforeDest`,
`SourceFound`, `DestOpen`, `BothOpen`), with drives going away between any two.  The three
properties of COPY follow from what the last step finds.

### `EnvBlockProofs`

The invariant is that the page is a `Block`: it ends with a double null, the next page is as
it was, every string is a variable's name, `=` and a value, and no name occurs twice.
`ScansAlwaysInside`, `NeighbourAlwaysSpared`, `TypeCorrect` and the refinement
`BlockRefines` hold for any names, values and page size under `NoneTight`, that every
append leaves a byte to spare; run `env_brim` shows a block that was filled to the last
byte.  `NeverTight` discharges the premise for all pages with `Room`: if all variables at
their longest fit with a byte to spare, then no SET, however many came before, is tight.
It counts strings (distinct names, none longer than the longest), which is where it matters
that a deletion loses no byte.  `RoomyPageIsCorrect` is the two together.  `SearchFinds`
is the search of `envSearch`, turn by turn; `ShiftedBlock` the copy loop of `envDelete`,
`WrittenBlock` that of `envAppend`.

### `ManifestProofs`

`ParsersAgreeAlways` holds however many lines are spoiled: what the converter accepts, the
inventory has nothing to report about, unless a comment stands behind a row of bytes.
`ShipsWhatWasReviewed` and `ManifestTypeCorrect` assume `OneAccident`: at most one line of
the checked-in manifest is lost, doubled or spoiled in a behaviour.  With two, a row and
the `sha256` line could go together, and no check is left that the bytes are those reviewed.
The invariant is `Typed` and `Traced`: the manifest is what was written at the last
transcription, or one accident away from it.  `TranscriptHolds` says that a transcript's rows
hold the data they were made of, by naming the bytes read up to each line and showing that
this is the only function `Body` can be; `PayloadOrHash` that one accident leaves the
payload or the line with its hash; `ReleasedAsTranscribed` joins them with the checks the
converter makes.
`TypeOK` of `MCBuild` joins `ManifestTypeOK` and `MazeTypeOK`: `BuildTypeCorrect` of
`BuildProofs` follows from `ManifestTypeCorrect` and `MazeTypeCorrect`.

### `TextProofs`

**CONWAY.**  Assumptions: `ScreenAssumption` (texts are printable characters, the labels the
code names are among them, rules are sets of counts) and `DescriptorAssumption` (the table
of `conway.s` puts at most one text in a row above the prompt, and the presets' texts to the
right of their arrow).  `MenuAlwaysShown` and `StatusAlwaysShown` then hold for every text,
version, equate and edit of them, every table of descriptors, every set of presets and
any range of the generation counter.  The invariant `ScreenInv` says of the sources that they are
texts; while the game runs, that they passed (`Passed`: `check_conway_layout`) and that each
lies where the code reads it (`Laid`); in the menu, that the cells above the prompt and the
prompt's own row show what they should (`BodyDrawn`, `PromptShown`); in the simulation the
same of the last row (`StatusDrawn`); always, that the 24 cells behind the screen were never
written (`Behind`).  The two halves of the menu are apart because a key redraws one of them:
`BodyDrawn` is about the rules and the preset, `PromptShown` about the menu's state, and
each routine's lemma (`SummaryDrawn`, `ArrowDrawn`, `PromptDrawn`, `CounterDrawn`) says what
it makes of its own cells and that it leaves all others.  `EmitLays` is where the gate's
equates matter: it finds each text in the generated bytes, with its terminator or its
counted length, from `Grows`, that bytes once emitted stay.  `LinesGrow` is the loop over the
descriptors, `Copies` that `COPYMENUSTRING` stops at the text's own end.

`MenuAlwaysShown` needed a case that no run had shown.  `check_conway_layout.py` compares the
equate `MENU_NONE_LEN` with the text for an empty rule, and never the text with the field
of nine cells it is drawn in: one of twelve characters passes and runs out of the field,
and the loop of an empty one draws 256 cells.  `MenuShown` says that it leaves this case out,
like the label and the prompt that it left out before.

**CASM's diagnostics.**  Assumptions: `DiagAssumption` and `ConstantsAssumption`; the latter
says that no name is defined twice, which ca65 refuses.  `DiagnosticsFrozen` holds for every
table, text, list of constants and edit.  `verified` remembers the sources the script read,
so what is to prove is that the decoder of the script and `diagPrintFatal` agree on the same
sources, although the script reads the constants in one pass and the assembler does not.
`ParsersRead` says so: whatever the script knows of a name solves the name's definition
(`Solves`, `FirstReading`), and a reading that comes later finds the same numbers
(`Agrees`, `LaterReadings`), as names are distinct; the assembler may know more, but
not other numbers.  `DiagInv` keeps the names distinct through `AddDiagnostic` (`Insertion`)
and the verified list that of the verified sources (`PassedList`).

### `Induction`

Induction and the least-number principle for sets of numbers instead of predicates. The
library's theorems take an operator, which the installed provers cannot instantiate; a set
they can. The loops of `envSearch` and `aptFindFreeRegion` and the recursion of `Body`, of
CONWAY's `emit` and `DRAWMENU` and of the constants' `Known` are reasoned about with it: the
closed form is stated, and the set of numbers for which it holds shown to be all of them.

### Only model-checked

* `ScanTerminates`, `SearchEnds`, `EditsShipFromOwnDisk`: liveness is out of the
  prover's reach.
* `CommitFresh`, `TableMatchesOwners`, `NoMemMeansFull` and the refinement of
  `PageAllocator` for requests of several pages: `CommitFresh` is false for them, what is
  left of it is `AlignedAllocIsFresh`.

## 5. Not modelled

* Payload transfers of the VMM (`vmmReadByte`, `vmmReadBlock`, ...) and the bank
  register: they change no allocator state.
* DIR, VOL, TYPE, MORE and the rest of the screen output.
* The byte loops of `fileRead` and `fileWrite`, the no-disk and power-on statuses
  (73, 74), and `DOS_SEND_CMD`.
* Names longer than 16 characters, and the machine without REU, where the app table and
  the environment do not exist.
* Games and straight-line utilities.  Of CONWAY the grid's evolution, colours and pause.
* Of the host tools: the inventory's reconciliation of fixture names with CMake and git and
  its printing; the rewriting of the maze's assembler file around its table; the source
  context and traceback behind a diagnostic.  Scripts without state of their own
  (`build_event_wrapper.py`, `gen_comp_func_fixtures.py`, the clients of the VICE
  emulator) are straight-line I/O.

## 6. Plan

Order: what other parts rest on first.  Done: `Vmm`, `AppTable`, `FileSystem`, `EnvBlock`;
`Manifest`, `Relocation`, `Maze`, `ConwayScreen` and `DiagTable` in `MCBuild`;
proofs of all of these and of their composition.

1. `Kernel`, which composes boot, EXIT, restart, the two kernel pages and programs'
   allocations: `vmmInit` clears the MCT while `AptSegLo/Hi` survive, `aptSlotBase`
   keeps a stale bank, `DOS_EXIT` leaks handles.  Property: a page the kernel uses is never free in the MCT.  Bounds: four pages, one program, two starts.
2. `DOS_SEND_CMD`, the no-disk statuses and the drive's commit at close in `FileSystem`.
3. `CasmResources`: the registry of open files and VMM blocks of CASM
   (`resources.s`, `vmm_store.s`, `fileio.s`), with an abstract "everything acquired is
   released on every exit".
4. `EdlinBuffer`: insertion and deletion in `buffer.s` against sequences.
5. `Utils`: `parseHex`, BCD, date rollover and the 12/24 hour conversion of `utils.asm`
   against reference definitions.
