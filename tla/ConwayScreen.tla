---------------------------- MODULE ConwayScreen ----------------------------
(***************************************************************************)
(* CONWAY's menu, from its texts to the screen.  gen_conway_menu.py turns    *)
(* the texts into screen codes, gen_conway_version.py adds the version, and  *)
(* check_conway_layout.py refuses texts the layout has no room for; the game *)
(* copies the codes into screen RAM with loops that end at a zero, or after  *)
(* a number of bytes that conway.s states on its own.                        *)
(*                                                                         *)
(* A text is a sequence of ASCII codes, the screen a function from cells;    *)
(* the cells from 1000 on are memory behind the screen.  The grid, colours   *)
(* and timing of the simulation are left out.                                *)
(***************************************************************************)
EXTENDS Integers, Sequences, FiniteSets, SequencesExt

CONSTANTS STRINGS,     \* label -> text, as checked in
          Order,       \* the labels in the order they are emitted
          MENUDESCRIPTORS, \* <<label, row, column>>, in drawing order
          Version, Build,  \* CONWAY_VERSION and BUILD_CONWAY
          Equates,     \* the lengths conway.s states
          TextEdits,   \* bound: <<label, text>> a maintainer may write
          VersionEdits, \* bound: <<version, build>>
          EquateEdits, \* bound: <<equate, value>>
          ScreenEditBound, \* bound: edits
          RuleKeys,    \* bound: neighbour counts toggled, of 0 .. 8
          Presets,     \* bound: preset -> [birth, surv]
          Generations  \* values of the 16-bit counter: 65536

GRID_W                  == 40
STATUS_ROW_OFFSET       == 960
MENU_PROMPT_OFFSET      == 920
MENU_BIRTH_FIELD_OFFSET == 612
MENU_SURV_FIELD_OFFSET  == 652
GEN_DIGITS_OFFSET       == 995
RULE_COUNT              == 9
CHAR_DEAD  == 32
CHAR_LIVE  == 160
CUSTOM     == 255
DOT        == 46
Memory     == 0 .. 1023

Counted == {"menuNoneText", "statusText"}
EquateNames == {"MENU_NONE_LEN", "STATUS_TEXT_LEN", "MENU_VERSION_LEN"}
Prompts == {"menuPromptNormal", "menuPromptBirth", "menuPromptSurvival"}
Text    == Seq(0 .. 127)

\* Rules are sets of neighbour counts, edits are edits of what is there.
ASSUME ScreenAssumption ==
    /\ \A label \in DOMAIN STRINGS : STRINGS[label] \in Text
    /\ Order \in Seq(DOMAIN STRINGS) /\ ToSet(Order) = DOMAIN STRINGS
    /\ Counted \cup Prompts \subseteq DOMAIN STRINGS
    /\ Version \in Text /\ Build \in Text
    /\ Equates \in [EquateNames -> 0 .. 255]
    /\ TextEdits \subseteq (DOMAIN STRINGS) \X Text
    /\ VersionEdits \subseteq Text \X Text
    /\ EquateEdits \subseteq EquateNames \X (0 .. 255)
    /\ RuleKeys \subseteq 0 .. RULE_COUNT - 1
    /\ 0 \in DOMAIN Presets /\ DOMAIN Presets \subseteq 0 .. 8
    /\ \A p \in DOMAIN Presets : /\ Presets[p].birth \subseteq 0 .. RULE_COUNT - 1
                                /\ Presets[p].surv \subseteq 0 .. RULE_COUNT - 1
    /\ ScreenEditBound \in Nat /\ Generations \in Nat \ {0}

\* The table in conway.s: one terminated text at most in a row above the
\* prompt, the presets' to the right of the arrow.
ASSUME DescriptorAssumption ==
    /\ MENUDESCRIPTORS \in Seq(((DOMAIN STRINGS) \ Counted) \X (0 .. 22) \X (0 .. 39))
    /\ \A i, j \in DOMAIN MENUDESCRIPTORS :
          MENUDESCRIPTORS[i][2] = MENUDESCRIPTORS[j][2] => i = j
    /\ \A i \in DOMAIN MENUDESCRIPTORS :
          MENUDESCRIPTORS[i][2] \in 4 .. 12 => MENUDESCRIPTORS[i][3] > 2

VARIABLES texts, version, build, equates,  \* the sources
          shown,   \* "edit", "refused", "menu" or "sim"
          binary,  \* the bytes of the texts in the game, and where each starts
          screen,
          menuState, \* "normal", "birth" or "survival"
          birth, surv, preset,  \* the active rule
          generation, screenEdits

sources    == <<texts, version, build, equates>>
screenVars == <<sources, shown, binary, screen, menuState, birth, surv,
                preset, generation, screenEdits>>

-----------------------------------------------------------------------------
(* gen_conway_menu.py and gen_conway_version.py *)

Digits       == 48 .. 57
Convertible  == (32 .. 63) \cup (97 .. 122)

to_screencode(text) ==
    [ok    |-> ToSet(text) \subseteq Convertible,
     codes |-> [i \in DOMAIN text |-> IF text[i] > 63 THEN text[i] - 96 ELSE text[i]]]

\* MAJOR.MINOR.STAGE, and a build of digits.
VersionAccepted(v, b) ==
    LET dots == {i \in DOMAIN v : v[i] = DOT}
    IN  /\ Cardinality(dots) = 2
        /\ \A i \in DOMAIN v \ dots : v[i] \in Digits
        /\ \A i \in dots : i - 1 \in DOMAIN v \ dots /\ i + 1 \in DOMAIN v \ dots
        /\ b # <<>> /\ ToSet(b) \subseteq Digits

FullVersion(v, b) == v \o <<DOT>> \o b

Bytes(label, t) ==
    to_screencode(t[label]).codes \o (IF label \in Counted THEN <<>> ELSE <<0>>)

\* The version, then the texts, one behind the other.
emit(t, v, b) ==
    LET after[n \in 0 .. Len(Order)] ==
            IF n = 0 THEN FullVersion(v, b) ELSE after[n - 1] \o Bytes(Order[n], t)
    IN  [bytes |-> after[Len(Order)],
         at    |-> [label \in DOMAIN t |->
                      Len(after[(CHOOSE k \in DOMAIN Order : Order[k] = label) - 1])]]

-----------------------------------------------------------------------------
(* check_conway_layout.py *)

menu_version_len(v, b) == Len(FullVersion(v, b))

EquatesMatch(t, v, b, e) ==
    /\ e["MENU_NONE_LEN"] = Len(t["menuNoneText"])
    /\ e["STATUS_TEXT_LEN"] = Len(t["statusText"])
    /\ e["MENU_VERSION_LEN"] = menu_version_len(v, b)

\* The columns, the prompts, the version (held against the survival prompt
\* only), the status row and the rule fields.
TextsFit(t, v, b) ==
    LET mvl == menu_version_len(v, b)
    IN  /\ \A i \in DOMAIN MENUDESCRIPTORS :
              MENUDESCRIPTORS[i][3] + Len(t[MENUDESCRIPTORS[i][1]]) <= GRID_W
        /\ \A label \in Prompts : Len(t[label]) <= GRID_W
        /\ mvl <= GRID_W
        /\ Len(t["menuPromptSurvival"]) + 1 <= GRID_W - mvl
        /\ Len(t["statusText"]) = GRID_W
        /\ GEN_DIGITS_OFFSET + 5 = 1000
        /\ MENU_BIRTH_FIELD_OFFSET + RULE_COUNT <= 16 * GRID_W
        /\ MENU_SURV_FIELD_OFFSET + RULE_COUNT <= 17 * GRID_W

\* The lengths in conway.s not compared with the texts.
MutantTrustsEquates(t, v, b, e) == TextsFit(t, v, b)

check_conway_layout(t, v, b, e) ==
    EquatesMatch(t, v, b, e) /\ TextsFit(t, v, b)

-----------------------------------------------------------------------------
(* conway.s *)

\* Codes stored from cell dst on.
Store(scr, dst, codes) ==
    [c \in Memory |-> IF c - dst + 1 \in DOMAIN codes THEN codes[c - dst + 1]
                      ELSE scr[c]]

\* Byte i of the texts, then whatever the assembler put behind them.
ByteAt(b, i) == IF i < Len(b.bytes) THEN b.bytes[i + 1] ELSE 254

\* n bytes from an address; the 8-bit index takes 0 for 256.
Read(b, from, n) == [i \in 1 .. (IF n = 0 THEN 256 ELSE n) |-> ByteAt(b, from + i - 1)]

\* A page at most, up to the zero.
COPYMENUSTRING(b, scr, label, dst) ==
    LET from == b.at[label]
        n    == CHOOSE k \in 0 .. 256 :
                   /\ k = 256 \/ ByteAt(b, from + k) = 0
                   /\ \A j \in 0 .. k - 1 : ByteAt(b, from + j) # 0
    IN  Store(scr, dst, [i \in 1 .. n |-> ByteAt(b, from + i - 1)])

Clear(scr, cells) == [c \in Memory |-> IF c \in cells THEN CHAR_DEAD ELSE scr[c]]

ArrowCell(p) == (4 + p) * GRID_W + 2

DRAWPRESETARROW(scr, p) ==
    LET cleared == Clear(scr, {ArrowCell(q) : q \in 0 .. 8})
    IN  IF p = CUSTOM THEN cleared ELSE Store(cleared, ArrowCell(p), <<62>>)

\* The digits of a rule, ascending.
RuleDigits(rule) ==
    [i \in 1 .. Cardinality(rule) |->
        48 + CHOOSE k \in rule : Cardinality({j \in rule : j < k}) = i - 1]

DrawSummary(b, scr, offset, rule) ==
    LET cleared == Clear(scr, offset .. offset + RULE_COUNT - 1)
    IN  Store(cleared, offset,
              IF rule # {} THEN RuleDigits(rule)
              ELSE Read(b, b.at["menuNoneText"], equates["MENU_NONE_LEN"]))

DRAWMENUDYNAMICS(b, scr, bs, ss, p) ==
    DrawSummary(b, DrawSummary(b, DRAWPRESETARROW(scr, p),
                               MENU_BIRTH_FIELD_OFFSET, bs),
                MENU_SURV_FIELD_OFFSET, ss)

PromptOf(state) == CASE state = "birth"    -> "menuPromptBirth"
                     [] state = "survival" -> "menuPromptSurvival"
                     [] OTHER              -> "menuPromptNormal"

\* The row not cleared before the prompt is drawn.
MutantPromptOver(b, scr, state) ==
    LET prompt  == COPYMENUSTRING(b, scr, PromptOf(state), MENU_PROMPT_OFFSET)
        n       == equates["MENU_VERSION_LEN"]
    IN  Store(prompt, MENU_PROMPT_OFFSET + GRID_W - n, Read(b, 0, n))

DRAWMENUPROMPT(b, scr, state) ==
    LET cleared == Clear(scr, MENU_PROMPT_OFFSET .. MENU_PROMPT_OFFSET + GRID_W - 1)
        prompt  == COPYMENUSTRING(b, cleared, PromptOf(state), MENU_PROMPT_OFFSET)
        n       == equates["MENU_VERSION_LEN"]
    IN  Store(prompt, MENU_PROMPT_OFFSET + GRID_W - n, Read(b, 0, n))

DRAWMENU(b, scr, bs, ss, p) ==
    LET lines[n \in 0 .. Len(MENUDESCRIPTORS)] ==
            IF n = 0 THEN Clear(scr, 0 .. 999)
            ELSE COPYMENUSTRING(b, lines[n - 1], MENUDESCRIPTORS[n][1],
                    MENUDESCRIPTORS[n][2] * GRID_W + MENUDESCRIPTORS[n][3])
    IN  DRAWMENUPROMPT(b, DRAWMENUDYNAMICS(b, lines[Len(MENUDESCRIPTORS)], bs, ss, p),
                       "normal")

Decimal(n) == [i \in 1 .. 5 |-> 48 + ((n \div 10 ^ (5 - i)) % 10)]

DRAWGENERATIONCOUNTER(scr, n) == Store(scr, GEN_DIGITS_OFFSET, Decimal(n))

DRAWGRID(scr) == [c \in Memory |-> IF c < STATUS_ROW_OFFSET THEN CHAR_LIVE ELSE scr[c]]

\* 256 bytes at most, the last ones behind the screen.
DRAWSIMULATIONSTATUS(b, scr, n) ==
    DRAWGENERATIONCOUNTER(Store(scr, STATUS_ROW_OFFSET,
        Read(b, b.at["statusText"], equates["STATUS_TEXT_LEN"])), n)

-----------------------------------------------------------------------------
(* Actions *)

ScreenInit ==
    /\ texts = STRINGS /\ version = Version /\ build = Build /\ equates = Equates
    /\ shown = "edit" /\ binary = [bytes |-> <<>>, at |-> <<>>]
    /\ screen = [c \in Memory |-> 255]
    /\ menuState = "normal" /\ birth = {} /\ surv = {} /\ preset = CUSTOM
    /\ generation = 0 /\ screenEdits = 0

EditSources ==
    /\ shown = "edit" /\ screenEdits < ScreenEditBound
    /\ screenEdits' = screenEdits + 1
    /\ \/ \E e \in TextEdits : /\ texts' = [texts EXCEPT ![e[1]] = e[2]]
                               /\ UNCHANGED <<version, build, equates>>
       \/ \E e \in VersionEdits : /\ version' = e[1] /\ build' = e[2]
                                  /\ UNCHANGED <<texts, equates>>
       \/ \E e \in EquateEdits : /\ equates' = [equates EXCEPT ![e[1]] = e[2]]
                                 /\ UNCHANGED <<texts, version, build>>
    /\ UNCHANGED <<shown, binary, screen, menuState, birth, surv, preset,
                   generation>>

\* The generators, the gate, then the game: START loads preset 0 and enters
\* the menu.
Package ==
    /\ shown = "edit"
    /\ IF /\ VersionAccepted(version, build)
          /\ \A label \in DOMAIN texts : to_screencode(texts[label]).ok
          /\ check_conway_layout(texts, version, build, equates)
       THEN /\ shown' = "menu"
            /\ binary' = emit(texts, version, build)
            /\ preset' = 0 /\ birth' = Presets[0].birth /\ surv' = Presets[0].surv
            /\ screen' = DRAWMENU(binary', screen, birth', surv', 0)
       ELSE shown' = "refused" /\ UNCHANGED <<binary, screen, birth, surv, preset>>
    /\ UNCHANGED <<sources, menuState, generation, screenEdits>>

\* B or S; any key then ends the edit.
EditRule(state) ==
    /\ shown = "menu" /\ menuState = "normal"
    /\ menuState' = state
    /\ screen' = DRAWMENUPROMPT(binary, screen, state)
    /\ UNCHANGED <<sources, shown, binary, birth, surv, preset, generation,
                   screenEdits>>

Toggled(rule, k) == IF k \in rule THEN rule \ {k} ELSE rule \cup {k}

\* 0 to 8 toggles, another key cancels (keys is a count, or none).
HANDLEMENUEDITKEY(keys) ==
    /\ shown = "menu" /\ menuState # "normal" /\ menuState' = "normal"
    /\ IF keys = {} THEN UNCHANGED <<birth, surv, preset>>
       ELSE \E k \in keys :
               /\ birth' = IF menuState = "birth" THEN Toggled(birth, k) ELSE birth
               /\ surv' = IF menuState = "survival" THEN Toggled(surv, k) ELSE surv
               /\ preset' = CUSTOM
    /\ screen' = DRAWMENUPROMPT(binary,
                    DRAWMENUDYNAMICS(binary, screen, birth', surv', preset'), "normal")
    /\ UNCHANGED <<sources, shown, binary, generation, screenEdits>>

LOADPRESET(p) ==
    /\ shown = "menu" /\ menuState = "normal"
    /\ preset' = p /\ birth' = Presets[p].birth /\ surv' = Presets[p].surv
    /\ screen' = DRAWMENUDYNAMICS(binary, screen, birth', surv', p)
    /\ UNCHANGED <<sources, shown, binary, menuState, generation, screenEdits>>

STARTSIMULATION ==
    /\ shown = "menu" /\ menuState = "normal"
    /\ shown' = "sim" /\ generation' = 0
    /\ screen' = DRAWSIMULATIONSTATUS(binary, DRAWGRID(screen), 0)
    /\ UNCHANGED <<sources, binary, menuState, birth, surv, preset, screenEdits>>

\* The counter set and drawn under a new grid.
ShowGeneration(n) ==
    /\ shown = "sim" /\ generation' = n
    /\ screen' = DRAWGENERATIONCOUNTER(DRAWGRID(screen), n)
    /\ UNCHANGED <<sources, shown, binary, menuState, birth, surv, preset,
                   screenEdits>>

\* A turn of MAINLOOP while the simulation runs: INCREMENTGENERATION wraps.
NextGeneration == ShowGeneration((generation + 1) % Generations)

\* R and C: a new grid, counted from zero.  (The pause that C begins only
\* keeps MAINLOOP from taking its turn.)
HANDLESIMULATIONKEY == ShowGeneration(0)

ENTERMENU ==
    /\ shown = "sim" /\ shown' = "menu" /\ menuState' = "normal"
    /\ screen' = DRAWMENU(binary, screen, birth, surv, preset)
    /\ UNCHANGED <<sources, binary, birth, surv, preset, generation, screenEdits>>

ScreenNext ==
    \/ EditSources
    \/ Package
    \/ \E state \in {"birth", "survival"} : EditRule(state)
    \/ \E keys \in {{}} \cup {{k} : k \in RuleKeys} : HANDLEMENUEDITKEY(keys)
    \/ \E p \in DOMAIN Presets : LOADPRESET(p)
    \/ STARTSIMULATION
    \/ NextGeneration
    \/ HANDLESIMULATIONKEY
    \/ ENTERMENU

-----------------------------------------------------------------------------
(* Properties *)

ScreenSpec == ScreenInit /\ [][ScreenNext]_screenVars

Code(text, i) == to_screencode(text).codes[i]

\* Cells <<row, column>> of a text that the row has room for.
Row(c)    == c \div GRID_W
Column(c) == c % GRID_W

Fields == (MENU_BIRTH_FIELD_OFFSET .. MENU_BIRTH_FIELD_OFFSET + RULE_COUNT - 1)
     \cup (MENU_SURV_FIELD_OFFSET .. MENU_SURV_FIELD_OFFSET + RULE_COUNT - 1)

\* What a field's cell shows: the rule's digits, or "none", then blanks.
FieldCell(rule, i) ==
    LET field == IF rule = {} THEN to_screencode(texts["menuNoneText"]).codes
                 ELSE RuleDigits(rule)
    IN  IF i <= Len(field) THEN field[i] ELSE CHAR_DEAD

\* What cell c of a static line shows; blank where no line is.
LineCell(c) ==
    LET here == {i \in DOMAIN MENUDESCRIPTORS :
                    /\ MENUDESCRIPTORS[i][2] = Row(c)
                    /\ Column(c) - MENUDESCRIPTORS[i][3] + 1
                          \in DOMAIN texts[MENUDESCRIPTORS[i][1]]}
    IN  IF here = {} THEN CHAR_DEAD
        ELSE LET d == MENUDESCRIPTORS[CHOOSE i \in here : TRUE]
             IN  Code(texts[d[1]], Column(c) - d[3] + 1)

\* The last row but one: the prompt, a blank at least, the version.
PromptCell(state, column) ==
    LET prompt == texts[PromptOf(state)]
        full   == FullVersion(version, build)
        v      == column - (GRID_W - Len(full)) + 1
    IN  IF v \in DOMAIN full THEN full[v]
        ELSE IF v # 0 /\ column + 1 \in DOMAIN prompt THEN Code(prompt, column + 1)
        ELSE CHAR_DEAD

\* The menu a maintainer's texts describe.
Picture(c) ==
    IF c \in Fields
    THEN IF c < MENU_SURV_FIELD_OFFSET
         THEN FieldCell(birth, c - MENU_BIRTH_FIELD_OFFSET + 1)
         ELSE FieldCell(surv, c - MENU_SURV_FIELD_OFFSET + 1)
    ELSE IF preset # CUSTOM /\ c = ArrowCell(preset) THEN 62
    ELSE IF Row(c) = 23 THEN PromptCell(menuState, Column(c))
    ELSE LineCell(c)

\* A menu the gate let through is shown as its texts say, whatever keys led
\* there and whatever the simulation had drawn: no text is cut or runs into
\* another row, no earlier prompt shows through, the version stands apart
\* (check_conway_layout.py and gen_conway_menu.py against conway.s).  The gate
\* allows three things the property leaves out: a label that reaches into the
\* field behind it is cut, and so is a prompt longer than the survival prompt,
\* the only one it holds against the version; and the text for an empty rule
\* may be longer than the field it is drawn in, or empty, which draws 256 cells.
MenuShown ==
    /\ shown = "menu"
    /\ Len(texts[PromptOf(menuState)]) <= Len(texts["menuPromptSurvival"])
    /\ Len(texts["menuNoneText"]) \in 1 .. RULE_COUNT
    => \A c \in 0 .. 999 : screen[c] = Picture(c)

\* The simulation's last row is the status text with the generation in its
\* last five cells, and nothing behind the screen is ever written.
StatusShown ==
    /\ shown = "sim" => \A i \in 1 .. GRID_W :
          screen[STATUS_ROW_OFFSET + i - 1] =
             IF i <= GRID_W - 5 THEN Code(texts["statusText"], i)
             ELSE Decimal(generation)[i - (GRID_W - 5)]
    /\ shown \in {"menu", "sim"} => \A c \in 1000 .. 1023 : screen[c] = 255
=============================================================================
