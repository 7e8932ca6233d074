------------------------------ MODULE EnvBlock ------------------------------
(***************************************************************************)
(* The master environment block (command64/shell.asm, cmdSet to cmdPath):   *)
(* VAR=VAL strings, each ended by a null, in one page of expanded memory,   *)
(* with a second null after the last.  The shell searches, shifts and       *)
(* appends in place, byte by byte, and nothing clears what a shift leaves   *)
(* behind.  cells also holds the first bytes of the page that follows.      *)
(***************************************************************************)
EXTENDS Integers, Sequences, FiniteSets, FiniteSetsExt

CONSTANTS Size,      \* bytes in the page: 4096
          Neighbour, \* the bytes that follow it, up to a double null
          Vars,      \* names: sequences of characters
          Vals,      \* values: sequences of characters, not empty
          PathVar    \* the name PATH uses

NUL == "nul"
EQ  == "="

Cell == 0 .. Size + Len(Neighbour) - 1
Text == UNION {{w[i] : i \in DOMAIN w} : w \in Vars \cup Vals}

ASSUME EnvAssumption ==
    /\ Size \in Nat /\ Size > 1
    /\ Neighbour \in Seq(Text \cup {NUL, EQ}) /\ Len(Neighbour) > 1
    /\ Neighbour[Len(Neighbour)] = NUL /\ Neighbour[Len(Neighbour) - 1] = NUL
    /\ Vars \cup Vals \subseteq Seq(Text) /\ <<>> \notin Vals
    /\ PathVar \in Vars
    /\ NUL \notin Text
    /\ \A v \in Vars : \A i \in DOMAIN v : v[i] # EQ

VARIABLE cells

-----------------------------------------------------------------------------
(* The subroutines, as functions of the bytes m *)

\* The first null at i or after it.
NullFrom(m, i) == Min({k \in Cell : k >= i /\ m[k] = NUL})

\* The first of two nulls, at i or after it.
DoubleNullFrom(m, i) ==
    Min({k \in Cell : k >= i /\ k + 1 \in Cell /\ m[k] = NUL /\ m[k + 1] = NUL})

\* The string at i starts with v and an equals sign.
Matches(m, i, v) ==
    /\ \A j \in DOMAIN v : m[i + j - 1] = v[j]
    /\ m[i + Len(v)] = EQ

NotFound == -1

\* envSearch without the comparison of the equals sign (esFoundMatch).
MutantSearchesPrefix(m, v) ==
    LET esNext[i \in Cell] ==
            IF m[i] = NUL THEN NotFound
            ELSE IF \A j \in DOMAIN v : m[i + j - 1] = v[j] THEN i
            ELSE esNext[NullFrom(m, i) + 1]
    IN  esNext[0]

\* Where the string of v starts.
envSearch(m, v) ==
    LET esNext[i \in Cell] ==
            IF m[i] = NUL THEN NotFound
            ELSE IF Matches(m, i, v) THEN i
            ELSE esNext[NullFrom(m, i) + 1]
    IN  esNext[0]

\* Everything after the string at o is moved down over it, up to the double
\* null.  When the string is the last, the first byte moved is the block's
\* second null, and what follows is whatever was left there.
envDelete(m, o) ==
    LET from == NullFrom(m, o) + 1
        last == o + DoubleNullFrom(m, from) - from
    IN  [k \in Cell |-> IF k \in o .. last THEN m[k - o + from]
                        ELSE IF k = last + 1 THEN NUL ELSE m[k]]

\* Where to append: the second null, or the start of an empty block.
envFindEnd(m) == IF m[0] = NUL THEN 0 ELSE DoubleNullFrom(m, 0) + 1

\* envAppend ending with one null.
MutantOneNull(m, p, v, x) ==
    LET text == v \o <<EQ>> \o x \o <<NUL>>
    IN  [k \in Cell |-> IF k \in p .. p + Len(text) - 1 /\ k < Size
                        THEN text[k - p + 1] ELSE m[k]]

\* The bytes are written until the end of the page is reached
\* (eaCheckBounds, eaAbort).
envAppend(m, p, v, x) ==
    LET text == v \o <<EQ>> \o x \o <<NUL, NUL>>
    IN  [k \in Cell |-> IF k \in p .. p + Len(text) - 1 /\ k < Size
                        THEN text[k - p + 1] ELSE m[k]]

\* What SET v prints: the bytes between the equals sign and the null.
envPrintVal(m, v) ==
    LET o == envSearch(m, v)
        start == o + Len(v) + 1
    IN  IF o = NotFound THEN <<>>
        ELSE [j \in 1 .. NullFrom(m, o) - start |-> m[start + j - 1]]

-----------------------------------------------------------------------------
\* The page as vmmAlloc returns it, not cleared.
MutantNotCleared ==
    cells = [k \in Cell |-> IF k < Size THEN "junk" ELSE Neighbour[k - Size + 1]]

\* The page is cleared when it is allocated (siEnvOk); another page follows.
Init == cells = [k \in Cell |-> IF k < Size THEN NUL ELSE Neighbour[k - Size + 1]]

\* The old string of v removed.
Without(m, v) ==
    IF envSearch(m, v) = NotFound THEN m ELSE envDelete(m, envSearch(m, v))

\* SET appending without removing the old string.
MutantKeepsOld(v, x) == cells' = envAppend(cells, envFindEnd(cells), v, x)

\* SET v=x.
cmdSet(v, x) ==
    cells' = LET m == Without(cells, v) IN envAppend(m, envFindEnd(m), v, x)

\* SET v=, with nothing after the equals sign.
cmdSetEmpty(v) == cells' = Without(cells, v)

\* PATH x.
cmdPath(x) == cmdSet(PathVar, x)

Next ==
    \/ \E v \in Vars, x \in Vals : cmdSet(v, x)
    \/ \E v \in Vars : cmdSetEmpty(v)
    \/ \E x \in Vals : cmdPath(x)

Spec == Init /\ [][Next]_cells

-----------------------------------------------------------------------------
(* Properties *)

\* The cells hold characters, equals signs and nulls only, from the first
\* clearing of the page on (siEnvOk, envAppend, envDelete).
TypeOK == cells \in [Cell -> Text \cup {NUL, EQ}]

\* No scan of the shell for the end of the block reads behind the page: not
\* envFindEnd's from the first byte, and not the one by which envDelete removes
\* a string, which starts behind it, at the block's own second null when the
\* string is the last.
ScansStayInside ==
    /\ cells[0] # NUL => DoubleNullFrom(cells, 0) + 1 < Size
    /\ \A v \in Vars :
          LET o == envSearch(cells, v)
          IN  o # NotFound => DoubleNullFrom(cells, NullFrom(cells, o) + 1) + 1 < Size

\* SET and PATH leave the bytes of the next page as they are, even when the
\* strings fill the page to its last byte (eaCheckBounds, envDelete).
NeighbourSpared == \A k \in Cell : k >= Size => cells[k] = Neighbour[k - Size + 1]

\* v=x and its nulls end in front of the last byte of the page.
Fits(v, x) == envFindEnd(Without(cells, v)) + Len(v) + Len(x) + 3 < Size

\* SET and PATH remove the old string before they append the new one, so a
\* page with room for every variable at its longest is never filled to its
\* last byte, however long SET goes on (cmdSet, envDelete).  The bounds check
\* of envAppend is not enough: it lets a string break the end of the block.
NoneTight ==
    [][\/ \E v \in Vars, x \in Vals : Fits(v, x) /\ cmdSet(v, x)
       \/ \E v \in Vars : cmdSetEmpty(v)]_cells

\* The block implements the environment: as SET and PATH print it, each SET
\* changes the value of its variable and of no other, whatever stale bytes
\* earlier deletions left after the end (cmdSet, cmdPath).
Env == INSTANCE Environment WITH env <- [v \in Vars |-> envPrintVal(cells, v)]
EnvironmentSpec == Env!Spec
=============================================================================
