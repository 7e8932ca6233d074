------------------------------ MODULE Manifest ------------------------------
(***************************************************************************)
(* How a native application is released.  DASH, BANNER, LABEL, FORMAT,       *)
(* CONWAY and COMP are assembled by CASM on the C64, which no host tool can  *)
(* repeat: CMake packages the sources on a disk image, a person runs CASM    *)
(* and transcribes the PRG with build_<app>_manifest.py into a hex manifest, *)
(* and hex_manifest_to_bin.py turns the manifest into the PRG that ships, if *)
(* its declared length and hashes hold.  casm_oracle_inventory.py reads the  *)
(* same manifests with a parser of its own.                                  *)
(*                                                                         *)
(* A file's contents are a number, 0 when there is no such file; a PRG is a  *)
(* load address and one byte for each source it was assembled from; SHA-256  *)
(* is the identity, as no two contents share a digest.                       *)
(***************************************************************************)
EXTENDS Integers, Sequences, FiniteSets, SequencesExt

CONSTANTS Apps,          \* the applications released, of those below
          Contents,      \* contents a source may be given
          Unlexable,     \* those a generator or the source gate refuses
          RowLength,     \* bytes on a line of a manifest: 16
          Editable,      \* bound: the files edits touch
          EditBound,     \* bound: edits of sources, for each app
          AccidentBound  \* bound: accidents to manifests, for each app

\* recorded: the names the script hashes into the manifest; inputs: what is
\* packaged for CASM and so decides the bytes; diskNeedsApp: the disk image
\* depends on the app's own shipping target.
Release(name, recorded, inputs, diskNeedsApp) ==
    [name |-> name, recorded |-> recorded, inputs |-> inputs,
     diskNeedsApp |-> diskNeedsApp]

DashSources   == <<"dmain.s", "dscr.s", "dfmt.s", "dsys.s", "dapp.s",
                   "dvmm.s", "ddata.s">>
LabelSources  == <<"label.s", "LABEL_VERSION", "BUILD_LABEL">>
FormatSources == <<"format.s", "FORMAT_VERSION", "BUILD_FORMAT">>
ConwaySources == <<"conway.s", "conwaygrid.s", "CONWAY_VERSION", "BUILD_CONWAY">>

Dash   == Release("dash", DashSources, DashSources, TRUE)
Banner == Release("banner", <<"banner.s">>, <<"banner.s">>, TRUE)
Label  == Release("label", LabelSources, LabelSources, TRUE)
Format == Release("format", FormatSources, FormatSources, TRUE)
Conway == Release("conway", ConwaySources,
                  ConwaySources \o <<"gen_conway_menu.py">>, TRUE)
Comp   == Release("comp", <<"comp.s", "BUILD_COMP">>, <<"comp.s">>, FALSE)

ASSUME ManifestAssumption ==
    /\ Apps \subseteq {Dash, Banner, Label, Format, Conway, Comp}
    /\ Contents \subseteq Nat \ {0} /\ Unlexable \subseteq Contents
    /\ 1 \in Contents \ Unlexable
    /\ RowLength \in Nat \ {0}
    /\ {EditBound, AccidentBound} \subseteq [Apps -> Nat]

VARIABLES app,       \* the application being released
          src,       \* the source tree
          disk,      \* the sources on the disk image
          native,    \* the PRG of the last native run
          ref,       \* build/dash_ref.prg, the ca65 build of DASH
          manifest,  \* the lines of <app>.ref.hex
          shipped,   \* <app>.prg in the build tree
          review,    \* what the last transcription saw: PRG and sources
          edits, accidents

manifestVars == <<app, src, disk, native, ref, manifest, shipped, review,
                  edits, accidents>>

\* What is packaged as a generated source, not as it is.
Generated == {"LABEL_VERSION", "BUILD_LABEL", "FORMAT_VERSION", "BUILD_FORMAT",
              "CONWAY_VERSION", "BUILD_CONWAY", "gen_conway_menu.py"}

NoPrg      == <<>>
Recorded   == ToSet(app.recorded)
Inputs     == ToSet(app.inputs)
Files      == Recorded \cup Inputs
LoadAddress       == <<0, 52>>             \* every app is assembled for $3400

\* CASM is deterministic: the PRG is its load address and its inputs.
Assemble(files) ==
    LoadAddress \o [i \in DOMAIN app.inputs |-> files[app.inputs[i]]]

-----------------------------------------------------------------------------
(* Manifest lines *)

Line(key, name, value) == [key |-> key, name |-> name, value |-> value]

Junk      == <<-1>>   \* a hash of nothing the tree ever holds
Malformed == <<-2>>   \* not a number, not 64 digits, no name=hash
NotHex    == -3       \* a token that is not two hex digits

Declarations == {"bytes", "sha256", "source_sha256"}

Keyed(lines, key) == {i \in DOMAIN lines : lines[i].key = key}
Values(lines, key) == {lines[i].value : i \in Keyed(lines, key)}

\* The bytes of the lines that are not comments, in order.
Body(lines) ==
    LET payload[n \in 0 .. Len(lines)] ==
            IF n = 0 THEN <<>>
            ELSE IF lines[n].key = "hex" THEN payload[n - 1] \o lines[n].value
            ELSE payload[n - 1]
    IN  payload[Len(lines)]

HexRows(data) ==
    [r \in 1 .. (Len(data) + RowLength - 1) \div RowLength |->
        Line("hex", "none", SubSeq(data, (r - 1) * RowLength + 1,
                               IF r * RowLength < Len(data)
                               THEN r * RowLength ELSE Len(data)))]

\* What every build_<app>_manifest.py writes.
Transcript(data, names, files) ==
    <<Line("info", "provenance", <<>>), Line("bytes", "none", <<Len(data)>>),
      Line("sha256", "none", data)>>
    \o [i \in DOMAIN names |->
           Line("source_sha256", names[i], <<files[names[i]]>>)]
    \o HexRows(data)

-----------------------------------------------------------------------------
(* hex_manifest_to_bin.py *)

\* No line the parser refuses: an unknown directive, a second length or hash,
\* a malformed value, a second entry for a source, a token that is no byte.
parse_manifest(lines) ==
    /\ Values(lines, "unknown") = {}
    /\ \A key \in {"bytes", "sha256"} : \A i, j \in Keyed(lines, key) : i = j
    /\ \A key \in Declarations : Malformed \notin Values(lines, key)
    /\ \A i, j \in Keyed(lines, "source_sha256") :
          lines[i].name = lines[j].name => i = j
    /\ \A i \in DOMAIN Body(lines) : Body(lines)[i] # NotHex

\* The hashes compared only where the file has not vanished.
MutantSkipsChanged(lines, files) ==
    \A i \in Keyed(lines, "source_sha256") :
       lines[i].name \in DOMAIN files /\ files[lines[i].name] # 0

\* At least one entry, and every entry names a file that has its hash.
check_source_freshness(lines, files) ==
    /\ Keyed(lines, "source_sha256") # {}
    /\ \A i \in Keyed(lines, "source_sha256") :
          /\ lines[i].name \in DOMAIN files /\ files[lines[i].name] # 0
          /\ <<files[lines[i].name]>> = lines[i].value

\* The hash of the output not compared with the one declared.
MutantIgnoresHash(lines, files) ==
    /\ parse_manifest(lines)
    /\ Body(lines) # <<>>
    /\ Values(lines, "bytes") \subseteq {<<Len(Body(lines))>>}
    /\ check_source_freshness(lines, files)

\* The converter exits 0 and writes Body(lines).
Accepts(lines, files) ==
    /\ parse_manifest(lines)
    /\ Body(lines) # <<>>
    /\ Values(lines, "bytes") \subseteq {<<Len(Body(lines))>>}
    /\ Values(lines, "sha256") \subseteq {Body(lines)}
    /\ check_source_freshness(lines, files)

-----------------------------------------------------------------------------
(* casm_oracle_inventory.py on the same manifest *)

\* A '#' behind a row is a token to it, a second declaration replaces the
\* first, and a line that is not one of the three declarations is skipped.
parse_ref_hex(lines) ==
    LET read(key)   == {i \in Keyed(lines, key) : lines[i].value # Malformed}
        last(key)   == IF read(key) = {} THEN <<>> ELSE lines[Max(read(key))].value
        sources     == read("source_sha256")
        replaced(i) == \E j \in sources : j > i /\ lines[j].name = lines[i].name
    IN  [body_parsed |-> /\ \A i \in DOMAIN Body(lines) : Body(lines)[i] # NotHex
                         /\ \A i \in DOMAIN lines : lines[i].name # "inline_comment",
         declared_bytes  |-> last("bytes"),
         declared_sha256 |-> last("sha256"),
         source_sha256   |-> {lines[i] : i \in {k \in sources : ~replaced(k)}}]

\* The reconciliation reports something about this manifest.
Problem(lines, files) ==
    LET e == parse_ref_hex(lines)
    IN  \/ ~e.body_parsed
        \/ e.declared_bytes \notin {<<>>, <<Len(Body(lines))>>}
        \/ e.declared_sha256 \notin {<<>>, Body(lines)}
        \/ \E l \in e.source_sha256 :
              \/ l.name \notin DOMAIN files \/ files[l.name] = 0
              \/ l.value # <<files[l.name]>>

-----------------------------------------------------------------------------
(* Actions *)

ManifestInit ==
    /\ app \in Apps
    /\ src = [f \in Files |-> 1]
    /\ disk = [f \in Inputs |-> 0]
    /\ native = NoPrg /\ ref = NoPrg /\ shipped = NoPrg
    /\ review = [prg |-> Assemble(src), src |-> src]
    /\ manifest = Transcript(review.prg, app.recorded, src)
    /\ edits = 0 /\ accidents = 0

\* A source is edited, or removed (0).
Edit(f, c) ==
    /\ edits < EditBound[app] /\ f \in Editable /\ c # src[f]
    /\ src' = [src EXCEPT ![f] = c] /\ edits' = edits + 1
    /\ UNCHANGED <<app, disk, native, ref, manifest, shipped, review, accidents>>

\* The shipping target: CMake's DEPENDS want the recorded files to exist.
MakeApp ==
    /\ \A f \in Recorded : src[f] # 0
    /\ Accepts(manifest, src)
    /\ shipped' = Body(manifest)

BuildTarget ==
    /\ MakeApp
    /\ UNCHANGED <<app, src, disk, native, ref, manifest, review, edits,
                   accidents>>

\* What a generator or the gate makes of the files it reads.
Sound(files) == \A f \in files \cap Inputs : src[f] \notin Unlexable \cup {0}

\* The version as a CASM source: dotted digits, and digits for the build.
gen_label_version  == Sound({"LABEL_VERSION", "BUILD_LABEL"})
gen_format_version == Sound({"FORMAT_VERSION", "BUILD_FORMAT"})
gen_conway_version == Sound({"CONWAY_VERSION", "BUILD_CONWAY"})

\* Only bytes CASM reads, and no two names that differ by case alone.
check_casm_source_bytes == Sound({f \in Inputs : f \notin Generated})

\* Nothing checked before packaging.
MutantNoGate == \A f \in Inputs : src[f] # 0

\* The generators and check_casm_source_bytes.py, before anything is packaged.
SourceGate ==
    /\ gen_label_version /\ gen_format_version /\ gen_conway_version
    /\ Sound({"gen_conway_menu.py"})
    /\ check_casm_source_bytes

\* A file that is on the image already left as it is.
MutantKeepsOldFile(written) ==
    /\ IF app.diskNeedsApp THEN MakeApp ELSE UNCHANGED shipped
    /\ SourceGate
    /\ disk' = [f \in Inputs |->
                  IF disk[f] = 0 /\ \E i \in 1 .. written : app.inputs[i] = f
                  THEN src[f] ELSE disk[f]]
    /\ UNCHANGED <<app, src, native, ref, manifest, review, edits, accidents>>

\* The image target: the app first where the image depends on it, then the
\* gate, then one cc1541 call for each source; a failing one ends the target.
TestDisk(written) ==
    /\ IF app.diskNeedsApp THEN MakeApp ELSE UNCHANGED shipped
    /\ SourceGate
    /\ disk' = [f \in Inputs |->
                  IF \E i \in 1 .. written : app.inputs[i] = f
                  THEN src[f] ELSE disk[f]]
    /\ UNCHANGED <<app, src, native, ref, manifest, review, edits, accidents>>

DiskBuilt == TestDisk(Len(app.inputs))
DiskFull  == \E k \in 0 .. Len(app.inputs) - 1 : TestDisk(k)

\* CASM assembles what is on the disk.
NativeRun ==
    /\ \A f \in Inputs : disk[f] # 0
    /\ native' = Assemble(disk)
    /\ UNCHANGED <<app, src, disk, ref, manifest, shipped, review, edits,
                   accidents>>

\* What the scripts share: refuse without the PRG or a source, else write.
WriteManifest ==
    /\ native # NoPrg
    /\ \A f \in Recorded : src[f] # 0
    /\ manifest' = Transcript(native, app.recorded, src)
    /\ review' = [prg |-> native, src |-> src]
    /\ UNCHANGED <<app, src, disk, native, ref, shipped, edits, accidents>>

build_banner_manifest == app = Banner /\ WriteManifest
build_label_manifest  == app = Label /\ WriteManifest
build_format_manifest == app = Format /\ WriteManifest
build_conway_manifest == app = Conway /\ WriteManifest
build_comp_manifest   == app = Comp /\ WriteManifest

\* The ca65 build itself is refused as the PRG; a cross-check against it that
\* fails writes nothing.
build_dash_manifest(cross_check) ==
    /\ app = Dash
    /\ cross_check => ref # NoPrg /\ ref = native
    /\ WriteManifest

BuildManifest ==
    \/ build_banner_manifest
    \/ build_label_manifest
    \/ build_format_manifest
    \/ build_conway_manifest
    \/ build_comp_manifest
    \/ \E cross_check \in BOOLEAN : build_dash_manifest(cross_check)

\* A person transcribes what a native run made of the current sources.
Reviewed == native = Assemble(src) /\ BuildManifest

\* The differential build of DASH; ca65 and CASM agree on its sources.
BuildRef ==
    /\ app = Dash /\ \A f \in Recorded : src[f] # 0
    /\ ref' = Assemble(src)
    /\ UNCHANGED <<app, src, disk, native, manifest, shipped, review, edits,
                   accidents>>

\* What a slip in an editor makes of line l: a key mistyped into something
\* directive-like or into an ordinary comment, a value that is wrong or not
\* well formed, a token changed or spoiled, a comment behind a row.
Slips(l) ==
    {Line("comment", "none", <<>>), Line("unknown", "none", <<>>)}
    \cup (IF l.key = "hex"
          THEN {[l EXCEPT !.value[i] = @ + 1] : i \in DOMAIN l.value}
               \cup {[l EXCEPT !.value[i] = NotHex] : i \in DOMAIN l.value}
               \cup {[l EXCEPT !.name = "inline_comment"],
                     [l EXCEPT !.value = SubSeq(@, 2, Len(@))]}
          ELSE {[l EXCEPT !.value = v] : v \in {Junk, Malformed}}
               \cup {[l EXCEPT !.name = "no_such_file"]})

Accident(i) ==
    /\ accidents < AccidentBound[app] /\ accidents' = accidents + 1
    /\ \/ manifest' = RemoveAt(manifest, i)
       \/ manifest' = InsertAt(manifest, i, manifest[i])
       \/ \E l \in Slips(manifest[i]) : manifest' = [manifest EXCEPT ![i] = l]
    /\ UNCHANGED <<app, src, disk, native, ref, shipped, review, edits>>

ManifestNext ==
    \/ \E f \in Files, c \in Contents \cup {0} : Edit(f, c)
    \/ BuildTarget
    \/ DiskBuilt
    \/ DiskFull
    \/ NativeRun
    \/ BuildRef
    \/ BuildManifest
    \/ \E i \in DOMAIN manifest : Accident(i)

ManifestSpec == ManifestInit /\ [][ManifestNext]_manifestVars

-----------------------------------------------------------------------------
(* Properties *)

\* The types of the state; Malformed and Junk are values of lines only.
ManifestTypeOK ==
    /\ app \in Apps
    /\ src \in [Files -> Contents \cup {0}]
    /\ disk \in [Inputs -> (Contents \ Unlexable) \cup {0}]
    /\ \A prg \in {native, ref, shipped} \ {NoPrg} :
          Len(prg) = Len(app.inputs) + 2
    /\ review.src \in [Files -> Contents \cup {0}]

\* The files whose hash the manifest still holds.
Checked(lines) == {lines[i].name : i \in Keyed(lines, "source_sha256")}

\* A build that puts a new PRG in place ships, byte for byte, what a person
\* transcribed, and every file the manifest still vouches for is as it was at
\* that moment: whatever was edited since, and whatever single line of the
\* manifest was spoiled (hex_manifest_to_bin.py).
ShipsReviewed ==
    [][shipped' # shipped =>
          /\ shipped' = review.prg
          /\ \A f \in Checked(manifest) : src[f] = review.src[f]]_manifestVars

\* The two parsers agree: what the build accepts gives the inventory nothing
\* to report, unless a comment stands behind a row of bytes, which only the
\* converter understands (casm_oracle_inventory.py, parse_ref_hex).
ParsersAgree ==
    /\ Accepts(manifest, src)
    /\ \A i \in DOMAIN manifest : manifest[i].name # "inline_comment"
    => ~Problem(manifest, src)

\* The sources as they are can be released, and are what the build tree ships.
UpToDate ==
    (SourceGate /\ \A f \in Recorded : src[f] # 0) => shipped = Assemble(src)

\* Editing, packaging, assembling, transcribing and building, over and over,
\* end with the current sources shipped (the cycle CMakeLists.txt describes).
EditsShip == <>[]UpToDate

\* They do for an application whose disk image can be built without it.
EditsShipFromOwnDisk == ~app.diskNeedsApp => <>[]UpToDate

=============================================================================
