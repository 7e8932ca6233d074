----------------------------- MODULE Relocation -----------------------------
(***************************************************************************)
(* R6 binaries from the linker to memory.  The build links a program twice,  *)
(* a page apart; tools/reloc.py takes the bytes that grew by one for high    *)
(* bytes of addresses and appends a table of their offsets.  CASM writes the *)
(* same format on the C64, and scripts/casm_r6_verify.py checks it on the    *)
(* host.  aptRelocate (command64/loader.asm) adds the page distance to every *)
(* byte the table names.  Both loops are modelled one element per step.      *)
(*                                                                         *)
(* A word of the file, little-endian on disk, is a number here; the footer's *)
(* base is a page, its low byte being zero.                                  *)
(***************************************************************************)
EXTENDS Integers, Sequences, FiniteSets

CONSTANTS W,         \* values of a byte: 256
          LinkBases, \* pages programs are linked for
          Pages,     \* pages LOAD puts programs on
          Lengths,   \* bound: lengths of programs
          Bodies,    \* R6 files written by CASM: [file |-> ..., offs |-> ...]
          CheckBases \* pages casm_r6_verify.py tries: $38, $50 and $90

Byte == 0 .. W - 1

\* A file: the magic is there, the page of its load address, the footer's
\* page, the length of the code, and the code.
R6Files(sizes) == UNION {[magic : BOOLEAN, header : Byte, base : Byte,
                        size : {n}, code : [0 .. n - 1 -> Byte]] : n \in sizes}

ASSUME RelocationAssumption ==
    /\ W \in Nat /\ W > 2
    /\ LinkBases \subseteq 0 .. W - 2
    /\ Pages \subseteq Byte /\ CheckBases \subseteq Byte
    /\ Lengths \subseteq Nat \ {0}
    /\ \A b \in Bodies : /\ b.offs \in Seq(Nat)
                        /\ b.file.size \in Nat \ {0}
                        /\ b.file \in R6Files({b.file.size})

\* Eight-bit addition and subtraction.
Add(a, b) == IF a + b >= W THEN a + b - W ELSE a + b
Sub(a, b) == IF a < b THEN a - b + W ELSE a - b

\* What a byte of a program is: the same wherever it is linked, the high byte
\* of an address in the program, or some other function of the address.
Kinds    == {"constant", "high", "twice"}
Programs == UNION {[0 .. n - 1 -> [kind : Kinds, value : Byte]] : n \in Lengths}

\* A byte of the program linked for page p.
Linked(item, p) ==
    CASE item.kind = "constant" -> item.value
      [] item.kind = "high"     -> Add(item.value, p)
      [] item.kind = "twice"    -> Add(Add(item.value, p), p)

LinkFor(program, p) == [i \in DOMAIN program |-> Linked(program[i], p)]

VARIABLES phase,   \* "diff", "file", "loading", "loaded" or "refused"
          prog,    \* the program linked, or <<>> for a file of CASM's
          file,    \* the R6 file but for its table
          offs,    \* the relocation table
          next,    \* next byte of reloc.py's loop, next entry of the loader's
          image,   \* the code in memory, once loaded
          page,    \* where it was loaded
          verdict  \* of casm_r6_verify.py: "none", "pass" or "fail"

relocVars == <<phase, prog, file, offs, next, image, page, verdict>>

-----------------------------------------------------------------------------
(* tools/reloc.py *)

\* Two links a page apart are handed to reloc.py, or CASM wrote a file.
RelocInit ==
    /\ \/ /\ phase = "diff" /\ next = 0 /\ offs = <<>>
          /\ prog \in Programs
          /\ \E p \in LinkBases :
                file = [magic |-> TRUE, header |-> p, base |-> p,
                        size |-> Cardinality(DOMAIN prog),
                        code |-> LinkFor(prog, p)]
       \/ /\ phase = "file" /\ next = 1 /\ prog = <<>>
          /\ \E b \in Bodies : file = b.file /\ offs = b.offs
    /\ image = <<>> /\ page = 0 /\ verdict = "none"

NextLink == LinkFor(prog, file.base + 1)

\* Any growth taken for a relocation point.
MutantAnyGrowth(b, n) == n > b

\* Plain integers: $FF next to $00 is no relocation point.
Grown(b, n) == n = b + 1

\* One byte of the loop: equal, grown by one, or the end of the build.  The
\* links have one length and lie a page apart, as the linker was told, so the
\* script's two checks of that have nothing to refuse.
build_relocation_table ==
    /\ phase = "diff" /\ next < file.size
    /\ LET b == file.code[next]
           n == NextLink[next]
       IN  \/ n = b /\ UNCHANGED <<phase, offs>>
           \/ Grown(b, n) /\ offs' = Append(offs, next) /\ UNCHANGED phase
           \/ n # b /\ ~Grown(b, n) /\ phase' = "refused" /\ UNCHANGED offs
    /\ next' = next + 1
    /\ UNCHANGED <<prog, file, image, page, verdict>>

WriteR6 ==
    /\ phase = "diff" /\ next = file.size
    /\ phase' = "file" /\ next' = 1
    /\ UNCHANGED <<prog, file, offs, image, page, verdict>>

-----------------------------------------------------------------------------
(* scripts/casm_r6_verify.py *)

\* Pages from the first to the last byte of the code, W bytes to a page.
Span == (file.size - 1) \div W

\* The order of the offsets not looked at.
MutantAnyOrder ==
    /\ file.magic /\ file.header = file.base /\ offs # <<>>
    /\ \A i \in 1 .. Len(offs) : offs[i] < file.size
    /\ \A i \in 1 .. Len(offs) : file.code[offs[i]] - file.base \in 0 .. Span

\* Every note is good.  An empty table ends in an exception, min of nothing,
\* and so does an offset behind the code: both exits are non-zero.  Left out:
\* a base inside a page, and a count the file has no room for (a file of ours
\* is its code and its table).
verify ==
    /\ file.magic /\ file.header = file.base /\ offs # <<>>
    /\ \A i, j \in 1 .. Len(offs) : i < j => offs[i] < offs[j]
    /\ \A i \in 1 .. Len(offs) : offs[i] < file.size
    /\ \A i \in 1 .. Len(offs) : file.code[offs[i]] - file.base \in 0 .. Span
    /\ \A p \in CheckBases, i \in 1 .. Len(offs) :
          Add(file.code[offs[i]], Sub(p, file.base)) - p \in 0 .. Span

Verify ==
    /\ phase = "file" /\ verdict = "none"
    /\ verdict' = IF verify THEN "pass" ELSE "fail"
    /\ UNCHANGED <<phase, prog, file, offs, next, image, page>>

-----------------------------------------------------------------------------
(* aptRelocate *)

\* The pages between where the code is and where it was linked for.
PageOffset(p) == Sub(p, file.base)

\* Loaded at p: no magic, or no distance, and nothing is patched.
Load(p) ==
    /\ phase = "file"
    /\ page' = p /\ image' = file.code /\ next' = 1
    /\ phase' = IF file.magic /\ PageOffset(p) # 0 THEN "loading" ELSE "loaded"
    /\ UNCHANGED <<prog, file, offs, verdict>>

\* One entry; an offset behind the code would patch other memory.
aptRelocateLoop ==
    /\ phase = "loading" /\ next <= Len(offs)
    /\ image' = [image EXCEPT ![offs[next]] = Add(@, PageOffset(page))]
    /\ next' = next + 1
    /\ UNCHANGED <<phase, prog, file, offs, page, verdict>>

aptRelocateLoopDone ==
    /\ phase = "loading" /\ next > Len(offs)
    /\ phase' = "loaded"
    /\ UNCHANGED <<prog, file, offs, next, image, page, verdict>>

RelocNext ==
    \/ build_relocation_table
    \/ WriteR6
    \/ Verify
    \/ \E p \in Pages : Load(p)
    \/ aptRelocateLoop
    \/ aptRelocateLoopDone

RelocSpec == RelocInit /\ [][RelocNext]_relocVars

-----------------------------------------------------------------------------
(* Properties *)

\* A program reloc.py accepted is in memory, once relocated, byte for byte what
\* the linker would have made for that page: no byte is patched that should
\* not be, none is missed, and none twice (reloc.py against loader.asm).
RelocatedAsBuilt ==
    phase = "loaded" /\ prog # <<>> => image = LinkFor(prog, page)

\* What casm_r6_verify.py passes, the loader relocates safely on every page
\* where the image fits: it patches bytes of the code only, each once, and
\* what it leaves there are pages of the image.
VerifiedLoadsSafely ==
    verdict = "pass" /\ phase \in {"loading", "loaded"} /\ page + Span < W =>
        /\ \A i \in 1 .. Len(offs) : offs[i] \in DOMAIN image
        /\ phase = "loaded" => \A o \in DOMAIN image :
              IF \E i \in 1 .. Len(offs) : offs[i] = o
              THEN image[o] - page = file.code[o] - file.base
                   /\ image[o] - page \in 0 .. Span
              ELSE image[o] = file.code[o]
=============================================================================
