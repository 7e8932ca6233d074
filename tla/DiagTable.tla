------------------------------ MODULE DiagTable ------------------------------
(***************************************************************************)
(* CASM's fatal diagnostics.  diagPrintFatal finds the message of an         *)
(* identifier in two parallel tables of address bytes, bounded by constants  *)
(* of common.inc; verify_casm_diag_table.py relinks the module, reads the    *)
(* constants with a parser of its own, decodes the tables and compares every *)
(* text with a frozen list.  A message is a name, its text a value; an       *)
(* address is the name of the message there, one half from each table.       *)
(***************************************************************************)
EXTENDS Integers, Sequences, FiniteSets, SequencesExt

CONSTANTS ConstantsIn,  \* common.inc: <<name, constant referred to or Literal, number>>
          TableIn,      \* the messages, in the order of both tables
          TextsIn,      \* message -> text
          EXPECTED,     \* identifier -> text: the frozen list
          AfterNew,     \* bound: identifier -> text the list gains
          NewMessage,   \* bound: the message that is added
          DiagEditBound \* bound: edits of the sources

ASSUME DiagAssumption ==
    /\ DiagEditBound \in Nat
    /\ TableIn \in Seq(DOMAIN TextsIn) /\ NewMessage \in DOMAIN TextsIn

\* ca65 refuses a second definition of a name.
ASSUME ConstantsAssumption ==
    /\ ConstantsIn \in Seq(ToSet(ConstantsIn))
    /\ \A i \in DOMAIN ConstantsIn : /\ DOMAIN ConstantsIn[i] = 1 .. 3
                                     /\ ConstantsIn[i][3] \in Int
    /\ \A i, j \in DOMAIN ConstantsIn : ConstantsIn[i][1] = ConstantsIn[j][1] => i = j

VARIABLES common,  \* the constants, in the order of the file
          tables,  \* [lo, hi]: sequences of messages
          messages, \* message -> text
          frozen,  \* the script's list
          casm,    \* the assembler as last built
          verified, \* what the script last passed
          printed, \* [id, user, text, located] of the last diagnostic
          diagEdits

diagSources == <<common, tables, messages>>
diagVars    == <<common, tables, messages, frozen, casm, verified, printed,
                 diagEdits>>

Nothing == <<>>
Literal == ""
Unknown == "INTERNAL ERROR"
Garbage == "garbage"  \* what lies where two halves of addresses point
Brought == "assertion and message"

-----------------------------------------------------------------------------
(* Constants, as the script and as the assembler read them *)

Bind(vals, name, value) ==
    [n \in DOMAIN vals \cup {name} |-> IF n = name THEN value ELSE vals[n]]

\* One definition, if what it refers to is known.
Define(vals, def) ==
    IF def[2] = Literal THEN Bind(vals, def[1], def[3])
    ELSE IF def[2] \in DOMAIN vals THEN Bind(vals, def[1], vals[def[2]] + def[3])
    ELSE vals

\* What n definitions make known, the file read again from its end on.
Known(defs, n) ==
    LET known[k \in 0 .. n] ==
            IF k = 0 THEN <<>>
            ELSE Define(known[k - 1], defs[((k - 1) % Len(defs)) + 1])
    IN  known[n]

\* The script reads the file once: a reference to a later line is dropped.
const_values(defs) == Known(defs, Len(defs))

\* ca65 resolves every reference, forward ones too.
Assembled(defs) == Known(defs, Len(defs) * Len(defs))

-----------------------------------------------------------------------------
(* diagnostics.s *)

\* The build breaks unless both tables are as long as the last identifier.
LengthsPinned(defs, t) ==
    Len(t.lo) = Assembled(defs)["LAST"] /\ Len(t.hi) = Assembled(defs)["LAST"]

\* The text at the address whose halves are entry i of the tables.
read_cstr(t, m, i) == IF t.lo[i] = t.hi[i] THEN m[t.lo[i]] ELSE Garbage

\* The text between "CASM: " and the carriage return.  user: the assertion
\* came with a message of its own, which is put behind another prefix.
diagPrintFatal(program, id, user) ==
    LET c == Assembled(program.common)
    IN  IF id < c["INIT_FAILED"] \/ id >= c["LAST"] + 1 THEN Unknown
        ELSE IF id = c["ASSERTION_FAILED"] /\ user THEN Brought
        ELSE read_cstr(program.tables, program.messages, id - c["INIT_FAILED"] + 1)

\* Source context follows, but for unknown and locationless identifiers.
Located(program, id, user) ==
    LET c == Assembled(program.common)
    IN  /\ id >= c["INIT_FAILED"] /\ id < c["LAST"] + 1
        /\ \/ id = c["ASSERTION_FAILED"] /\ user
           \/ id < c["LOCLESS_FIRST"] \/ id >= c["LOCLESS_LAST"] + 1

-----------------------------------------------------------------------------
(* verify_casm_diag_table.py *)

\* Identifier -> text; without its two bounds the script ends in an exception.
decode_id_to_body(vals, t, m) ==
    LET first == vals["INIT_FAILED"]
    IN  [id \in first .. vals["LAST"] |-> read_cstr(t, m, id - first + 1)]

\* The identifiers not compared, only their texts.
MutantAnyCoverage ==
    LET vals == const_values(common)
    IN  /\ {"INIT_FAILED", "LAST"} \subseteq DOMAIN vals
        /\ LET bodies == decode_id_to_body(vals, tables, messages)
           IN  \A id \in DOMAIN frozen \cap DOMAIN bodies : bodies[id] = frozen[id]

\* The two messages outside the table are compared too, and never change here.
verify_main ==
    LET vals == const_values(common)
    IN  /\ {"INIT_FAILED", "LAST"} \subseteq DOMAIN vals
        /\ decode_id_to_body(vals, tables, messages) = frozen

-----------------------------------------------------------------------------
(* Actions *)

DiagInit ==
    /\ common = ConstantsIn /\ tables = [lo |-> TableIn, hi |-> TableIn]
    /\ messages = TextsIn /\ frozen = EXPECTED
    /\ casm = Nothing /\ verified = Nothing /\ printed = Nothing
    /\ diagEdits = 0

Swap(s) == [s EXCEPT ![1] = s[2], ![2] = s[1]]

\* A diagnostic is added, or some of what that takes: the constant, in front
\* or at the end, the last identifier, either table's entry, the frozen list.
AddDiagnostic(parts) ==
    /\ \A i \in DOMAIN common : common[i][1] # "NEW"
    /\ \E at \in {1, Len(common) + 1} :
          LET moved == [i \in DOMAIN common |->
                           IF common[i][1] = "LAST" /\ "last" \in parts
                           THEN [common[i] EXCEPT ![2] = "NEW"] ELSE common[i]]
          IN  common' = InsertAt(moved, at, <<"NEW", Literal, Len(TableIn) + 1>>)
    /\ tables' = [half \in {"lo", "hi"} |->
                     IF half \in parts THEN Append(tables[half], NewMessage)
                     ELSE tables[half]]
    /\ frozen' = IF "list" \in parts THEN AfterNew ELSE frozen
    /\ UNCHANGED messages

\* Entries exchanged in one table or both, or a text changed.
EditTable ==
    \/ /\ \E halves \in (SUBSET {"lo", "hi"}) \ {{}} :
             tables' = [h \in {"lo", "hi"} |->
                          IF h \in halves THEN Swap(tables[h]) ELSE tables[h]]
       /\ UNCHANGED <<common, messages, frozen>>
    \/ /\ messages' = [messages EXCEPT ![TableIn[1]] = "changed"]
       /\ UNCHANGED <<common, tables, frozen>>

EditDiagnostics ==
    /\ diagEdits < DiagEditBound /\ diagEdits' = diagEdits + 1
    /\ \/ \E parts \in SUBSET {"last", "lo", "hi", "list"} : AddDiagnostic(parts)
       \/ EditTable
    /\ printed' = Nothing
    /\ UNCHANGED <<casm, verified>>

Program == [common |-> common, tables |-> tables, messages |-> messages]

BuildCasm ==
    /\ LengthsPinned(common, tables)
    /\ casm' = Program /\ printed' = Nothing
    /\ UNCHANGED <<common, tables, messages, frozen, verified, diagEdits>>

\* The script assembles the module itself, so what it reads is the source of
\* the moment, not the assembler that was built; it needs objects to link.
RunVerifier ==
    /\ casm # Nothing
    /\ verified' = IF LengthsPinned(common, tables) /\ verify_main
                   THEN [program |-> Program, list |-> frozen] ELSE Nothing
    /\ printed' = Nothing
    /\ UNCHANGED <<common, tables, messages, frozen, casm, diagEdits>>

\* A run of the assembler ends with it.
RaiseFatal(id, user) ==
    /\ casm # Nothing /\ printed = Nothing
    /\ printed' = [id |-> id, user |-> user,
                   text |-> diagPrintFatal(casm, id, user),
                   located |-> Located(casm, id, user)]
    /\ UNCHANGED <<common, tables, messages, frozen, casm, verified, diagEdits>>

DiagNext ==
    \/ EditDiagnostics
    \/ BuildCasm
    \/ RunVerifier
    \/ \E id \in 0 .. Len(TableIn) + 2, user \in BOOLEAN : RaiseFatal(id, user)

-----------------------------------------------------------------------------
(* Properties *)

DiagSpec == DiagInit /\ [][DiagNext]_diagVars

\* An assembler that was built from the sources the script last passed prints,
\* for every identifier, the frozen text, and the fallback for every other
\* number, but where an assertion brings a message of its own, whose prefix
\* the script does not compare (diagPrintFatal against main).
FrozenTextPrinted ==
    [][ /\ printed' # printed /\ printed' # Nothing
        /\ verified # Nothing /\ verified.program = casm
        /\ ~(printed'.user /\ printed'.id = Assembled(casm.common)["ASSERTION_FAILED"])
        => printed'.text = IF printed'.id \in DOMAIN verified.list
                           THEN verified.list[printed'.id] ELSE Unknown]_diagVars
=============================================================================
