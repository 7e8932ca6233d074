------------------------------ MODULE MCBuild ------------------------------
(***************************************************************************)
(* The host side of the build: five components that share no state.  A       *)
(* behaviour is about one of them, target; the others stay in one initial    *)
(* state.  Values are the repository's where a table is small enough.        *)
(***************************************************************************)
EXTENDS Manifest, Relocation, Maze, ConwayScreen, DiagTable

VARIABLE target

AllTargets == {"manifest", "reloc", "maze", "screen", "diag"}

CONSTANT Targets

ASSUME BuildAssumption == Targets \subseteq AllTargets

\* The repository's tables of the maze favour neither side.
ASSUME MazeTables == SymmetricTables

buildVars == <<target, manifestVars, relocVars, mazeVars, screenVars, diagVars>>

-----------------------------------------------------------------------------
(* Manifest: one edit of each app's sources, two of COMP's *)

AllApps   == {Dash, Banner, Label, Format, Conway, Comp}
OnlyDash  == {Dash}
SomeFiles == {"dmain.s", "banner.s", "LABEL_VERSION", "BUILD_FORMAT",
              "conwaygrid.s", "gen_conway_menu.py", "comp.s", "BUILD_COMP"}
FewEdits  == [a \in Apps |-> IF a = Comp THEN 2 ELSE 1]
\* One accident to the manifests with one, two and three sources.
FewAccidents == [a \in Apps |-> IF a \in {Banner, Comp, Label} THEN 1 ELSE 0]
NoAccidents  == [a \in Apps |-> 0]

-----------------------------------------------------------------------------
(* Relocation: good and bad files of CASM's, pages of four bytes *)

SmallBodies ==
    [offs : {<<>>, <<0>>, <<4>>, <<5>>, <<0, 4>>, <<4, 0>>, <<0, 0>>, <<1, 4>>},
     file : {[magic |-> m, header |-> 1, base |-> b, size |-> 5,
              code |-> [i \in 0 .. 4 |-> IF i = 0 THEN x ELSE IF i = 4 THEN y ELSE 1]] :
             m \in BOOLEAN, b \in 0 .. 2, x \in 0 .. 3, y \in 0 .. 3}]

-----------------------------------------------------------------------------
(* Maze: the repository's *)

Drawing == <<
    "############################",
    "#............##............#",
    "#.####.#####.##.#####.####.#",
    "#P####.#####.##.#####.####P#",
    "#..........................#",
    "#.####.##.########.##.####.#",
    "#.####.##.########.##.####.#",
    "#......##....##....##......#",
    "######.#####.##.#####.######",
    "######.#####.##.#####.######",
    "............................",
    "######.##.###GG###.##.######",
    "######.##.#......#.##.######",
    "######.##.########.##.######",
    "######.##..........##.######",
    "######.##.########.##.######",
    "#..........................#",
    "#.####.#####.##.#####.####.#",
    "#P..##.......##.......##..P#",
    "###.##.##.########.##.##.###",
    "#......##....##....##......#",
    "#.##########.##.##########.#",
    "#..........................#",
    "############################">>

Drawn == [c \in (0 .. 23) \X (0 .. 27) |->
             SubSeq(Drawing[c[1] + 1], c[2] + 1, c[2] + 1)]
Overrides == (<<6, 13>> :> 6) @@ (<<6, 14>> :> 5) @@ (<<8, 8>> :> 7)
          @@ (<<8, 19>> :> 8) @@ (<<11, 5>> :> 8) @@ (<<11, 22>> :> 7)
          @@ (<<13, 5>> :> 6) @@ (<<13, 22>> :> 5)
LeftEdge  == (8 :> 5) @@ (11 :> 7) @@ (13 :> 5) @@ (15 :> 7)
RightEdge == (8 :> 6) @@ (11 :> 8) @@ (13 :> 6) @@ (15 :> 8)
SpawnCell == <<16, 13>>
GhostHouse == ({12} \X (11 .. 16)) \cup {<<16, 13>>, <<16, 14>>, <<14, 13>>}
\* A wall of the ghost house's row, a tunnel cell, a corridor's only way in.
SomeCells == {<<12, 2>>, <<10, 4>>, <<14, 9>>}

-----------------------------------------------------------------------------
(* Conway's menu: texts of the repository's lengths, and edits of them *)

Word(n) == [i \in 1 .. n |-> 97 + (i % 26)]
Widths  == ("menuTitle" :> 17) @@ ("menuRule" :> 17) @@ ("menuSelect" :> 14)
   @@ ("menuPreset1" :> 26) @@ ("menuPreset2" :> 27) @@ ("menuPreset3" :> 27)
   @@ ("menuPreset4" :> 27) @@ ("menuPreset5" :> 28) @@ ("menuPreset6" :> 29)
   @@ ("menuPreset7" :> 27) @@ ("menuPreset8" :> 29) @@ ("menuPreset9" :> 28)
   @@ ("menuCurrent" :> 13) @@ ("menuBirthLabel" :> 6) @@ ("menuSurvLabel" :> 9)
   @@ ("menuControls1" :> 20) @@ ("menuControls2" :> 25)
   @@ ("menuControls3" :> 18) @@ ("menuPromptNormal" :> 15)
   @@ ("menuPromptBirth" :> 26) @@ ("menuPromptSurvival" :> 29)
   @@ ("menuNoneText" :> 4) @@ ("statusText" :> 40)
Strings == [label \in DOMAIN Widths |-> Word(Widths[label])]
Labels  == <<"menuTitle", "menuRule", "menuSelect", "menuPreset1",
             "menuPreset2", "menuPreset3", "menuPreset4", "menuPreset5",
             "menuPreset6", "menuPreset7", "menuPreset8", "menuPreset9",
             "menuCurrent", "menuBirthLabel", "menuSurvLabel",
             "menuControls1", "menuControls2", "menuControls3",
             "menuPromptNormal", "menuPromptBirth", "menuPromptSurvival",
             "menuNoneText", "statusText">>
Rows    == <<0, 1, 3, 4, 5, 6, 7, 8, 9, 10, 11, 12, 14, 15, 16, 18, 19, 20>>
Columns == <<10, 10, 2, 4, 4, 4, 4, 4, 4, 4, 4, 4, 2, 2, 2, 2, 2, 2>>
Places  == [i \in 1 .. 18 |-> <<Labels[i], Rows[i], Columns[i]>>]
V041    == <<48, 46, 52, 46, 49>>   \* "0.4.1"
B1063   == <<49, 48, 54, 51>>
Lengths3 == ("MENU_NONE_LEN" :> 4) @@ ("STATUS_TEXT_LEN" :> 40)
         @@ ("MENU_VERSION_LEN" :> 10)
\* Just fits, just does not, empty, an '@', another prompt the longest, ...
SomeTexts ==
    {<<"menuTitle", Word(30)>>, <<"menuTitle", Word(31)>>, <<"menuTitle", <<>> >>,
     <<"menuRule", Word(5) \o <<64>> \o Word(5)>>, <<"menuPreset9", Word(37)>>,
     <<"menuPromptBirth", Word(30)>>, <<"menuPromptSurvival", Word(30)>>,
     <<"menuPromptNormal", Word(40)>>, <<"menuNoneText", Word(5)>>,
     <<"statusText", Word(41)>>, <<"menuSurvLabel", Word(12)>>}
SomeVersions == {<<V041, <<49, 48, 48, 48, 48>> >>, << <<48, 46, 52>>, B1063>>,
                 <<V041, <<>> >>}
SomeEquates  == {<<"MENU_NONE_LEN", 5>>, <<"STATUS_TEXT_LEN", 41>>,
                 <<"STATUS_TEXT_LEN", 0>>, <<"MENU_VERSION_LEN", 11>>}
TwoPresets   == (0 :> [birth |-> {3}, surv |-> {2, 3}])
             @@ (6 :> [birth |-> {3}, surv |-> 0 .. 8])

-----------------------------------------------------------------------------
(* Diagnostics: three identifiers *)

ThreeConstants ==
    << <<"INIT_FAILED", "", 1>>, <<"ASSERTION_FAILED", "", 2>>,
       <<"LISTING", "ASSERTION_FAILED", 1>>, <<"LAST", "LISTING", 0>>,
       <<"LOCLESS_FIRST", "LISTING", 0>>, <<"LOCLESS_LAST", "LISTING", 0>> >>
ThreeMessages == <<"m1", "m2", "m3">>
FourTexts     == ("m1" :> "t1") @@ ("m2" :> "t2") @@ ("m3" :> "t3") @@ ("m4" :> "t4")
ThreeFrozen   == <<"t1", "t2", "t3">>
FourFrozen    == <<"t1", "t2", "t3", "t4">>

-----------------------------------------------------------------------------

\* What a component that is not the target starts with, and stays in: one of
\* its initial states, or no value worth storing.
ManifestIdle == app = CHOOSE a \in Apps : TRUE
RelocIdle    == prog = <<>> /\ [offs |-> offs, file |-> file] = CHOOSE b \in Bodies : TRUE
MazeIdle ==
    /\ topology = <<>> /\ mazeWalls = <<>> /\ mode = "edit" /\ queue = <<>>
    /\ seen = {} /\ result = "none" /\ pac = Spawn /\ mazeEdits = 0
ScreenIdle ==
    /\ texts = <<>> /\ version = <<>> /\ build = <<>> /\ equates = <<>>
    /\ shown = "edit" /\ binary = <<>> /\ screen = <<>>
    /\ menuState = "normal" /\ birth = {} /\ surv = {} /\ preset = CUSTOM
    /\ generation = 0 /\ screenEdits = 0

Init ==
    /\ target \in Targets
    /\ ManifestInit /\ (target # "manifest" => ManifestIdle)
    /\ RelocInit /\ (target # "reloc" => RelocIdle)
    /\ IF target = "maze" THEN MazeInit ELSE MazeIdle
    /\ IF target = "screen" THEN ScreenInit ELSE ScreenIdle
    /\ DiagInit

Alone(name, vars) == target = name /\ UNCHANGED <<target, vars>>

InManifest == Alone("manifest", <<relocVars, mazeVars, screenVars, diagVars>>)
InReloc    == Alone("reloc", <<manifestVars, mazeVars, screenVars, diagVars>>)
InMaze     == Alone("maze", <<manifestVars, relocVars, screenVars, diagVars>>)
InScreen   == Alone("screen", <<manifestVars, relocVars, mazeVars, diagVars>>)
InDiag     == Alone("diag", <<manifestVars, relocVars, mazeVars, screenVars>>)

Next ==
    \/ InManifest /\ ManifestNext
    \/ InReloc /\ RelocNext
    \/ InMaze /\ MazeNext
    \/ InScreen /\ ScreenNext
    \/ InDiag /\ DiagNext

\* A person who maintains an application keeps building, packaging, running
\* CASM and transcribing what it made of the current sources; the search is
\* one loop of one process.
Fairness ==
    /\ WF_buildVars(InManifest /\ BuildTarget)
    /\ WF_buildVars(InManifest /\ DiskBuilt)
    /\ WF_buildVars(InManifest /\ NativeRun)
    /\ WF_buildVars(InManifest /\ Reviewed)
    /\ WF_buildVars(InMaze /\ (bfs_reachable \/ ReportReach))

Spec == Init /\ [][Next]_buildVars /\ Fairness

\* The types of the state of the components that have one.
TypeOK ==
    /\ target = "manifest" => ManifestTypeOK
    /\ target = "maze" => MazeTypeOK
=============================================================================
