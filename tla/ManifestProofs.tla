--------------------------- MODULE ManifestProofs ---------------------------
(***************************************************************************)
(* What ships is what was reviewed, whichever single line of a manifest was  *)
(* lost, doubled or spoiled; and the two parsers of a manifest agree on any  *)
(* lines the build accepts.                                                  *)
(***************************************************************************)
EXTENDS Manifest, Induction, SequenceTheorems

\* The files the scripts list.
Name == {"dmain.s", "dscr.s", "dfmt.s", "dsys.s", "dapp.s", "dvmm.s", "ddata.s",
         "label.s", "LABEL_VERSION", "BUILD_LABEL",
         "format.s", "FORMAT_VERSION", "BUILD_FORMAT",
         "conway.s", "conwaygrid.s", "CONWAY_VERSION", "BUILD_CONWAY",
         "gen_conway_menu.py", "banner.s", "comp.s", "BUILD_COMP"}

Key   == {"info", "bytes", "sha256", "source_sha256", "hex", "comment", "unknown"}
Token  == Name \cup {"none", "provenance", "no_such_file", "inline_comment"}
Entry == [key : Key, name : Token, value : Seq(Int)]

\* Every app names at least one file, and only files of the tree.
LEMMA Releases ==
    ASSUME NEW a \in {Dash, Banner, Label, Format, Conway, Comp}
    PROVE  /\ a.recorded \in Seq(Name) /\ a.inputs \in Seq(Name)
           /\ a.recorded # <<>>
<1>1. /\ DashSources \in Seq(Name) /\ DashSources # <<>>
      /\ LabelSources \in Seq(Name) /\ LabelSources # <<>>
      /\ FormatSources \in Seq(Name) /\ FormatSources # <<>>
      /\ ConwaySources \in Seq(Name) /\ ConwaySources # <<>>
    BY DEF DashSources, LabelSources, FormatSources, ConwaySources, Name
<1>2. /\ <<"banner.s">> \in Seq(Name) /\ <<"comp.s", "BUILD_COMP">> \in Seq(Name)
      /\ <<"comp.s">> \in Seq(Name) /\ <<"gen_conway_menu.py">> \in Seq(Name)
      /\ <<"banner.s">> # <<>> /\ <<"comp.s", "BUILD_COMP">> # <<>>
    BY DEF Name
<1>3. ConwaySources \o <<"gen_conway_menu.py">> \in Seq(Name)
    BY <1>1, <1>2, ConcatProperties
<1>4. CASE a = Dash
    BY <1>1, <1>4 DEF Dash, Release
<1>5. CASE a = Banner
    BY <1>2, <1>5 DEF Banner, Release
<1>6. CASE a = Label
    BY <1>1, <1>6 DEF Label, Release
<1>7. CASE a = Format
    BY <1>1, <1>7 DEF Format, Release
<1>8. CASE a = Conway
    BY <1>1, <1>3, <1>8 DEF Conway, Release
<1>9. CASE a = Comp
    BY <1>2, <1>9 DEF Comp, Release
<1>. QED
    BY <1>4, <1>5, <1>6, <1>7, <1>8, <1>9, Zenon

LEMMA AppFacts ==
    ASSUME app \in Apps
    PROVE  /\ app.recorded \in Seq(Name) /\ app.inputs \in Seq(Name)
           /\ app.recorded # <<>>
           /\ Files \subseteq Name /\ Recorded \subseteq Files /\ Inputs \subseteq Files
           /\ Recorded = {app.recorded[i] : i \in 1 .. Len(app.recorded)}
           /\ Inputs = {app.inputs[i] : i \in 1 .. Len(app.inputs)}
<1>1. app.recorded \in Seq(Name) /\ app.inputs \in Seq(Name) /\ app.recorded # <<>>
    BY ManifestAssumption, Releases
<1>2. /\ Recorded = {app.recorded[i] : i \in 1 .. Len(app.recorded)}
      /\ Inputs = {app.inputs[i] : i \in 1 .. Len(app.inputs)}
    BY <1>1, LenProperties DEF Recorded, Inputs, ToSet
<1>3. Recorded \subseteq Name /\ Inputs \subseteq Name
    BY <1>1, <1>2, ElementOfSeq
<1>. QED
    BY <1>1, <1>2, <1>3 DEF Files

-----------------------------------------------------------------------------
(* The payload of a manifest *)

\* What the lines before and up to n hold, given what those before n do.
BodyStep(lines, f, n) ==
    IF n = 0 THEN <<>>
    ELSE IF lines[n].key = "hex" THEN f[n - 1] \o lines[n].value
    ELSE f[n - 1]

\* f holds the payload of every prefix of the lines.
Unrolls(f, lines) == f = [n \in 0 .. Len(lines) |-> BodyStep(lines, f, n)]

\* Two functions that do agree line by line.
LEMMA PrefixesAgree ==
    ASSUME NEW lines, Len(lines) \in Nat,
           NEW f, Unrolls(f, lines), NEW g, Unrolls(g, lines)
    PROVE  f[Len(lines)] = g[Len(lines)]
<1>. DEFINE S == {n \in Nat : n <= Len(lines) => f[n] = g[n]}
<1>1. \A n \in 0 .. Len(lines) : /\ f[n] = BodyStep(lines, f, n)
                                 /\ g[n] = BodyStep(lines, g, n)
    BY DEF Unrolls
<1>2. 0 \in S
    BY <1>1 DEF BodyStep
<1>3. ASSUME NEW n \in S PROVE n + 1 \in S
    <2>. SUFFICES ASSUME n + 1 <= Len(lines) PROVE f[n + 1] = g[n + 1]
        BY DEF S
    <2>1. n + 1 \in 0 .. Len(lines) /\ n + 1 # 0 /\ (n + 1) - 1 = n /\ f[n] = g[n]
        BY DEF S
    <2>. QED
        BY <1>1, <2>1 DEF BodyStep
<1>4. S = Nat
    <2>1. S \in SUBSET Nat
        BY DEF S
    <2>. HIDE DEF S
    <2>. QED
        BY <1>2, <1>3, <2>1, NumbersByInduction
<1>. QED
    BY <1>4

\* So the payload is what any of them says.
LEMMA BodyIs ==
    ASSUME NEW lines, Len(lines) \in Nat, NEW f, Unrolls(f, lines)
    PROVE  Body(lines) = f[Len(lines)]
<1>. DEFINE Solves(g) == g = [n \in 0 .. Len(lines) |-> BodyStep(lines, g, n)]
<1>1. Body(lines) = (CHOOSE g : Solves(g))[Len(lines)]
    BY DEF Body, BodyStep
<1>2. Solves(f)
    BY DEF Unrolls
<1>3. PICK g : Solves(g) /\ g = CHOOSE h : Solves(h)
    BY <1>2
<1>4. g[Len(lines)] = f[Len(lines)]
    BY <1>3, PrefixesAgree DEF Unrolls
<1>. QED
    BY <1>1, <1>3, <1>4

-----------------------------------------------------------------------------
(* Transcripts *)

RowsOf(data)  == (Len(data) + RowLength - 1) \div RowLength
Upto(data, r) == IF r * RowLength < Len(data) THEN r * RowLength ELSE Len(data)

\* The rows cover the data, each but the last in full.
LEMMA RowsCover ==
    ASSUME NEW data \in Seq(Int)
    PROVE  /\ RowsOf(data) \in Nat
           /\ \A r \in 0 .. RowsOf(data) : Upto(data, r) \in 0 .. Len(data)
           /\ \A r \in 1 .. RowsOf(data) : /\ Upto(data, r - 1) = (r - 1) * RowLength
                                           /\ Upto(data, r - 1) < Upto(data, r)
           /\ Upto(data, 0) = 0 /\ Upto(data, RowsOf(data)) = Len(data)
<1>. DEFINE n == Len(data)
            w == RowLength
            q == (n + w - 1) \div w
<1>1. n \in Nat /\ w \in Nat /\ w >= 1
    BY ManifestAssumption
<1>. HIDE DEF n, w
<1>2. n + w - 1 \in Nat /\ q \in Int /\ q * w <= n + w - 1 /\ n + w - 1 < q * w + w
    <2>1. \A x \in Nat : /\ x \div w \in Int
                         /\ x = w * (x \div w) + (x % w) /\ 0 <= x % w /\ x % w < w
        BY <1>1
    <2>. QED
        BY <1>1, <2>1
<1>3. q * w \in Int /\ n <= q * w
    BY <1>1, <1>2
<1>4. q \in Nat
    <2>1. \A x \in Int : x < 0 => x * w < 0
        BY <1>1
    <2>. QED
        BY <1>1, <1>2, <1>3, <2>1
<1>5. ASSUME NEW r \in 0 .. q PROVE r * w \in Nat
    BY <1>1, <1>4
<1>6. ASSUME NEW r \in 1 .. q PROVE (r - 1) * w < n /\ (r - 1) * w < r * w
    <2>1. r \in Int /\ r <= q /\ r * w <= q * w
        BY <1>1, <1>4
    <2>2. (r - 1) * w = r * w - w /\ r * w \in Int
        BY <1>1, <2>1
    <2>. QED
        BY <1>1, <1>2, <1>3, <2>1, <2>2
<1>. QED
    BY <1>1, <1>3, <1>4, <1>5, <1>6 DEF RowsOf, Upto, n, w

LEMMA HexRowsAre ==
    ASSUME NEW data \in Seq(Int)
    PROVE  /\ HexRows(data) \in Seq(Entry) /\ Len(HexRows(data)) = RowsOf(data)
           /\ \A r \in 1 .. RowsOf(data) :
                 HexRows(data)[r] = Line("hex", "none", SubSeq(data, Upto(data, r - 1) + 1,
                                                           Upto(data, r)))
<1>. DEFINE row(r) == Line("hex", "none", SubSeq(data, Upto(data, r - 1) + 1, Upto(data, r)))
<1>1. HexRows(data) = [r \in 1 .. RowsOf(data) |-> row(r)]
    BY RowsCover DEF HexRows, RowsOf, Upto
<1>2. ASSUME NEW r \in 1 .. RowsOf(data) PROVE row(r) \in Entry
    <2>. DEFINE i == Upto(data, r - 1) + 1
                j == Upto(data, r)
    <2>1. i \in Int /\ j \in Int /\ i .. j \subseteq 1 .. Len(data)
        BY RowsCover
    <2>. HIDE DEF i, j
    <2>2. SubSeq(data, i, j) \in Seq(Int)
        BY <2>1, SubSeqProperties, ElementOfSeq
    <2>. QED
        BY <2>2 DEF Line, Entry, Key, Token, i, j
<1>. HIDE DEF row
<1>3. HexRows(data) \in Seq(Entry) /\ Len(HexRows(data)) = RowsOf(data)
    <2>. DEFINE n == RowsOf(data)
    <2>1. n \in Nat
        BY RowsCover
    <2>2. \A r \in 1 .. n : row(r) \in Entry
        BY <1>2
    <2>3. HexRows(data) = [r \in 1 .. n |-> row(r)]
        BY <1>1
    <2>. HIDE DEF n
    <2>4. HexRows(data) \in [1 .. n -> Entry]
        BY <2>2, <2>3
    <2>5. HexRows(data) \in Seq(Entry)
        BY <2>1, <2>4
    <2>6. Len(HexRows(data)) = n
        BY <2>1, <2>3, <2>5
    <2>. QED
        BY <2>5, <2>6 DEF n
<1>. QED
    BY <1>1, <1>3, RowsCover DEF row

\* What stands where in a transcript t: the payload from line h + 1 on.
LaidOut(t, data, names, files, h) ==
    /\ t \in Seq(Entry) /\ Len(t) = h + RowsOf(data)
    /\ t[1].key = "info"
    /\ t[2] = Line("bytes", "none", <<Len(data)>>)
    /\ t[3] = Line("sha256", "none", data)
    /\ \A i \in 1 .. Len(names) :
          t[3 + i] = Line("source_sha256", names[i], <<files[names[i]]>>)
    /\ \A r \in 1 .. RowsOf(data) : t[h + r] = HexRows(data)[r]

LEMMA TranscriptIs ==
    ASSUME NEW data \in Seq(Int), NEW names \in Seq(Name), NEW files,
           \A i \in 1 .. Len(names) : files[names[i]] \in Nat,
           NEW t, t = Transcript(data, names, files),
           NEW h, h = 3 + Len(names)
    PROVE  LaidOut(t, data, names, files, h)
<1>. DEFINE u == <<Line("info", "provenance", <<>>), Line("bytes", "none", <<Len(data)>>),
                   Line("sha256", "none", data)>>
            source(i) == Line("source_sha256", names[i], <<files[names[i]]>>)
            v == [i \in DOMAIN names |-> source(i)]
            w == HexRows(data)
<1>1. Len(data) \in Nat /\ Len(names) \in Nat /\ DOMAIN names = 1 .. Len(names)
    OBVIOUS
<1>2. /\ u \in Seq(Entry) /\ Len(u) = 3
      /\ u[1].key = "info" /\ u[2] = Line("bytes", "none", <<Len(data)>>)
      /\ u[3] = Line("sha256", "none", data)
    <2>1. /\ Line("info", "provenance", <<>>) \in Entry
          /\ Line("bytes", "none", <<Len(data)>>) \in Entry
          /\ Line("sha256", "none", data) \in Entry
        BY <1>1 DEF Line, Entry, Key, Token
    <2>2. Line("info", "provenance", <<>>).key = "info"
        BY DEF Line
    <2>3. \A S : \A a, b, c \in S : /\ <<a, b, c>> \in Seq(S) /\ Len(<<a, b, c>>) = 3
                                    /\ <<a, b, c>>[1] = a /\ <<a, b, c>>[2] = b
                                    /\ <<a, b, c>>[3] = c
        OBVIOUS
    <2>4. \A a, b, c \in Entry : /\ <<a, b, c>> \in Seq(Entry) /\ Len(<<a, b, c>>) = 3
                                /\ <<a, b, c>>[1] = a /\ <<a, b, c>>[2] = b
                                /\ <<a, b, c>>[3] = c
        BY <2>3, Zenon
    <2>. QED
        BY <2>1, <2>2, <2>4, Zenon
<1>3. ASSUME NEW i \in 1 .. Len(names) PROVE source(i) \in Entry
    <2>1. names[i] \in Token /\ files[names[i]] \in Nat
        BY ElementOfSeq DEF Token
    <2>2. <<files[names[i]]>> \in Seq(Int)
        BY <2>1
    <2>. QED
        BY <2>1, <2>2 DEF Line, Entry, Key
<1>. HIDE DEF u, source
<1>4. v \in Seq(Entry) /\ Len(v) = Len(names) /\ \A i \in 1 .. Len(names) : v[i] = source(i)
    BY <1>1, <1>3
<1>5. w \in Seq(Entry) /\ Len(w) = RowsOf(data) /\ RowsOf(data) \in Nat
    BY HexRowsAre, RowsCover
<1>6. t = u \o v \o w
    BY DEF Transcript, u, source
<1>. HIDE DEF v, w
<1>7. /\ u \o v \in Seq(Entry) /\ Len(u \o v) = h
      /\ \A i \in 1 .. h : (u \o v)[i] = IF i <= 3 THEN u[i] ELSE v[i - 3]
    <2>0. u \in Seq(Entry) /\ v \in Seq(Entry)
        BY <1>2, <1>4
    <2>1. /\ u \o v \in Seq(Entry) /\ Len(u \o v) = Len(u) + Len(v)
          /\ \A i \in 1 .. Len(u) + Len(v) : (u \o v)[i] = IF i <= Len(u) THEN u[i]
                                                         ELSE v[i - Len(u)]
        BY ONLY <2>0, ConcatProperties
    <2>. QED
        BY <1>2, <1>4, <2>1, Zenon
<1>8. /\ t \in Seq(Entry) /\ Len(t) = h + RowsOf(data)
      /\ \A i \in 1 .. h + RowsOf(data) : t[i] = IF i <= h THEN (u \o v)[i] ELSE w[i - h]
    <2>. DEFINE uv == u \o v
    <2>0. w \in Seq(Entry)
        BY <1>5
    <2>1. uv \in Seq(Entry) /\ Len(uv) = h
        BY <1>7
    <2>. HIDE DEF uv
    <2>2. /\ uv \o w \in Seq(Entry) /\ Len(uv \o w) = Len(uv) + Len(w)
          /\ \A i \in 1 .. Len(uv) + Len(w) : (uv \o w)[i] = IF i <= Len(uv) THEN uv[i]
                                                           ELSE w[i - Len(uv)]
        BY ONLY <2>1, <2>0, ConcatProperties
    <2>3. t = uv \o w
        BY <1>6 DEF uv
    <2>4. /\ t \in Seq(Entry) /\ Len(t) = h + RowsOf(data)
          /\ \A i \in 1 .. h + RowsOf(data) : t[i] = IF i <= h THEN uv[i] ELSE w[i - h]
        BY <1>5, <2>1, <2>2, <2>3, Zenon
    <2>. QED
        BY <2>4 DEF uv
<1>9. h \in Nat /\ h >= 3 /\ t[1] = u[1] /\ t[2] = u[2] /\ t[3] = u[3]
    <2>1. h \in Nat /\ h >= 3
        BY <1>1
    <2>2. ASSUME NEW i \in 1 .. 3 PROVE t[i] = u[i]
        <3>1. i \in 1 .. h /\ i \in 1 .. h + RowsOf(data) /\ i <= h /\ i <= 3
            BY <1>5, <2>1
        <3>2. t[i] = (u \o v)[i]
            BY <1>8, <3>1, Zenon
        <3>3. (u \o v)[i] = u[i]
            BY <1>7, <3>1, Zenon
        <3>. QED
            BY <3>2, <3>3
    <2>. QED
        BY <2>1, <2>2
<1>10. ASSUME NEW i \in 1 .. Len(names) PROVE t[3 + i] = source(i)
    <2>. DEFINE k == 3 + i
    <2>1. k \in 1 .. h /\ k \in 1 .. h + RowsOf(data) /\ k - 3 = i /\ ~(k <= 3) /\ k <= h
        BY <1>1, <1>5
    <2>. HIDE DEF k
    <2>2. t[k] = v[k - 3]
        BY <1>7, <1>8, <2>1
    <2>. QED
        BY <1>4, <2>1, <2>2 DEF k
<1>11. ASSUME NEW r \in 1 .. RowsOf(data) PROVE t[h + r] = w[r]
    <2>1. h + r \in 1 .. h + RowsOf(data) /\ h + r - h = r /\ ~(h + r <= h)
        BY <1>5, <1>9
    <2>. QED
        BY <1>8, <2>1
<1>. QED
    BY <1>2, <1>8, <1>9, <1>10, <1>11 DEF source, w, LaidOut

\* The payload of a transcript, line by line.
Unrolled(data, h) == [n \in 0 .. h + RowsOf(data) |->
                        SubSeq(data, 1, IF n <= h THEN 0 ELSE Upto(data, n - h))]

\* A transcript holds the data it was made of.
LEMMA TranscriptHolds ==
    ASSUME NEW data \in Seq(Int), NEW names \in Seq(Name), NEW files,
           \A i \in 1 .. Len(names) : files[names[i]] \in Nat,
           NEW t, t = Transcript(data, names, files),
           NEW f, f = Unrolled(data, 3 + Len(names))
    PROVE  Unrolls(f, t) /\ f[Len(t)] = data
<1>. DEFINE h == 3 + Len(names)
            cut(n) == IF n <= h THEN 0 ELSE Upto(data, n - h)
<1>1. /\ t \in Seq(Entry) /\ Len(t) = h + RowsOf(data)
      /\ t[1].key = "info" /\ t[2].key = "bytes" /\ t[3].key = "sha256"
      /\ \A i \in 1 .. Len(names) : t[3 + i].key = "source_sha256"
      /\ \A r \in 1 .. RowsOf(data) : 
            /\ t[h + r].key = "hex"
            /\ t[h + r].value = SubSeq(data, Upto(data, r - 1) + 1, Upto(data, r))
    <2>1. LaidOut(t, data, names, files, h)
        BY TranscriptIs
    <2>. HIDE DEF h
    <2>2. \A r \in 1 .. RowsOf(data) :
             HexRows(data)[r] = Line("hex", "none", SubSeq(data, Upto(data, r - 1) + 1,
                                                       Upto(data, r)))
        BY HexRowsAre
    <2>4. t[1].key = "info" /\ t[2].key = "bytes" /\ t[3].key = "sha256"
        BY <2>1 DEF LaidOut, Line
    <2>5. ASSUME NEW i \in 1 .. Len(names) PROVE t[3 + i].key = "source_sha256"
        <3>1. t[3 + i] = Line("source_sha256", names[i], <<files[names[i]]>>)
            BY <2>1 DEF LaidOut
        <3>. QED
            BY <3>1 DEF Line
    <2>6. ASSUME NEW r \in 1 .. RowsOf(data)
          PROVE  /\ t[h + r].key = "hex"
                 /\ t[h + r].value = SubSeq(data, Upto(data, r - 1) + 1, Upto(data, r))
        <3>. DEFINE v == SubSeq(data, Upto(data, r - 1) + 1, Upto(data, r))
                    l == t[h + r]
        <3>1. l = Line("hex", "none", v)
            BY <2>1, <2>2, Zenon DEF LaidOut
        <3>. HIDE DEF v, l
        <3>2. l.key = "hex" /\ l.value = v
            BY <3>1 DEF Line
        <3>. QED
            BY <3>2 DEF v, l
    <2>. QED
        BY <2>1, <2>4, <2>5, <2>6, Zenon DEF LaidOut
<1>2. h \in Nat /\ h >= 3 /\ RowsOf(data) \in Nat /\ Len(names) \in Nat
    BY RowsCover
<1>3. f = [n \in 0 .. Len(t) |-> SubSeq(data, 1, cut(n))]
    BY <1>1 DEF Unrolled
<1>4. ASSUME NEW n \in 1 .. h PROVE t[n].key # "hex"
    <2>1. n \in {1, 2, 3} \/ n - 3 \in 1 .. Len(names)
        BY <1>2
    <2>2. 3 + (n - 3) = n
        OBVIOUS
    <2>. QED
        BY <1>1, <2>1, <2>2
<1>. HIDE DEF h
<1>5. SubSeq(data, 1, 0) = <<>>
    BY SubSeqEmpty
<1>6. ASSUME NEW n \in 0 .. Len(t) PROVE SubSeq(data, 1, cut(n)) = BodyStep(t, f, n)
    <2>1. CASE n = 0
        BY <1>2, <1>5, <2>1 DEF BodyStep
    <2>2. CASE n \in 1 .. h
        <3>1. n - 1 \in 0 .. Len(t) /\ cut(n) = 0 /\ cut(n - 1) = 0 /\ n # 0
            BY <1>1, <1>2, <2>2
        <3>. QED
            BY <1>3, <1>4, <2>2, <3>1 DEF BodyStep
    <2>3. CASE n \in h + 1 .. Len(t)
        <3>. DEFINE r == n - h
        <3>1. r \in 1 .. RowsOf(data) /\ h + r = n /\ n # 0 /\ n - 1 \in 0 .. Len(t)
            BY <1>1, <1>2, <2>3
        <3>2. cut(n) = Upto(data, r)
            BY <1>2, <2>3
        <3>3. cut(n - 1) = Upto(data, r - 1)
            <4>1. CASE n = h + 1
                BY <1>2, <4>1, RowsCover
            <4>2. CASE n # h + 1
                BY <1>1, <1>2, <2>3, <4>2
            <4>. QED
                BY <4>1, <4>2
        <3>4. /\ Upto(data, r - 1) \in 0 .. Len(data) /\ Upto(data, r) \in 0 .. Len(data)
              /\ Upto(data, r - 1) < Upto(data, r)
            BY <1>2, <3>1, RowsCover
        <3>5. SubSeq(data, 1, Upto(data, r - 1))
                 \o SubSeq(data, Upto(data, r - 1) + 1, Upto(data, r))
              = SubSeq(data, 1, Upto(data, r))
            <4>. DEFINE k == Upto(data, r - 1)
                        m == Upto(data, r)
            <4>1. 1 \in 1 .. Len(data) + 1 /\ k \in 1 - 1 .. Len(data) /\ m \in k .. Len(data)
                BY <3>4
            <4>. HIDE DEF k, m
            <4>2. SubSeq(data, 1, k) \o SubSeq(data, k + 1, m) = SubSeq(data, 1, m)
                BY <4>1, ConcatAdjacentSubSeq
            <4>. QED
                BY <4>2 DEF k, m
        <3>6. f[n - 1] = SubSeq(data, 1, Upto(data, r - 1))
            BY <1>3, <3>1, <3>3
        <3>7. /\ t[n].key = "hex"
              /\ t[n].value = SubSeq(data, Upto(data, r - 1) + 1, Upto(data, r))
            BY <1>1, <3>1
        <3>. QED
            BY <3>1, <3>2, <3>5, <3>6, <3>7 DEF BodyStep
    <2>. QED
        BY <1>2, <2>1, <2>2, <2>3
<1>. HIDE DEF cut
<1>7. Unrolls(f, t)
    BY <1>3, <1>6 DEF Unrolls
<1>8. f[Len(t)] = data
    <2>1. Len(t) \in 0 .. Len(t)
        BY <1>1, <1>2
    <2>2. cut(Len(t)) = Len(data)
        <3>1. CASE RowsOf(data) = 0
            BY <1>1, <1>2, <3>1, RowsCover DEF cut
        <3>2. CASE RowsOf(data) # 0
            BY <1>1, <1>2, <3>2, RowsCover DEF cut
        <3>. QED
            BY <3>1, <3>2
    <2>. QED
        BY <1>3, <2>1, <2>2, SubSeqFull
<1>. QED
    BY <1>7, <1>8

-----------------------------------------------------------------------------
(* Accidents *)

\* A piece of a sequence of lines.
LEMMA Piece ==
    ASSUME NEW s \in Seq(Entry), NEW i \in Nat \ {0}, NEW j \in Nat,
           i <= j + 1, j <= Len(s)
    PROVE  /\ SubSeq(s, i, j) \in Seq(Entry) /\ Len(SubSeq(s, i, j)) = j + 1 - i
           /\ \A k \in 1 .. j + 1 - i : SubSeq(s, i, j)[k] = s[i + k - 1]
<1>. DEFINE a == SubSeq(s, i, j)
<1>1. i \in Int /\ j \in Int /\ \A k \in i .. j : s[k] \in Entry
    BY ElementOfSeq
<1>2. /\ a \in Seq(Entry) /\ Len(a) = (IF i <= j THEN j - i + 1 ELSE 0)
      /\ \A k \in 1 .. j - i + 1 : a[k] = s[i + k - 1]
    BY ONLY <1>1, SubSeqProperties
<1>. HIDE DEF a
<1>3. a \in Seq(Entry) /\ Len(a) = j + 1 - i
    BY <1>2
<1>4. \A k \in 1 .. j + 1 - i : k \in 1 .. j - i + 1
    OBVIOUS
<1>5. \A k \in 1 .. j + 1 - i : a[k] = s[i + k - 1]
    BY <1>2, <1>4
<1>. QED
    BY <1>3, <1>5 DEF a

LEMMA Removed ==
    ASSUME NEW s \in Seq(Entry), NEW i \in 1 .. Len(s), NEW m, m = RemoveAt(s, i)
    PROVE  /\ m \in Seq(Entry) /\ Len(m) = Len(s) - 1
           /\ \A j \in 1 .. Len(m) : m[j] = IF j < i THEN s[j] ELSE s[j + 1]
<1>. DEFINE a == SubSeq(s, 1, i - 1)
            b == SubSeq(s, i + 1, Len(s))
<1>1. Len(s) \in Nat /\ i \in Nat /\ \A j \in 1 .. Len(s) : s[j] \in Entry
    BY ElementOfSeq
<1>2. /\ a \in Seq(Entry) /\ Len(a) = i - 1
      /\ \A j \in 1 .. i - 1 : a[j] = s[j]
    <2>1. 1 \in Nat \ {0} /\ i - 1 \in Nat /\ 1 <= (i - 1) + 1 /\ i - 1 <= Len(s)
        BY <1>1
    <2>2. /\ a \in Seq(Entry) /\ Len(a) = (i - 1) + 1 - 1
          /\ \A j \in 1 .. (i - 1) + 1 - 1 : a[j] = s[1 + j - 1]
        BY ONLY s \in Seq(Entry), <2>1, Piece
    <2>3. (i - 1) + 1 - 1 = i - 1 /\ \A j \in 1 .. i - 1 : 1 + j - 1 = j
        BY <1>1
    <2>. HIDE DEF a
    <2>. QED
        BY <2>2, <2>3
<1>3. /\ b \in Seq(Entry) /\ Len(b) = Len(s) - i
      /\ \A j \in 1 .. Len(s) - i : b[j] = s[i + j]
    <2>1. i + 1 \in Nat \ {0} /\ Len(s) \in Nat /\ i + 1 <= Len(s) + 1 /\ Len(s) <= Len(s)
        BY <1>1
    <2>2. /\ b \in Seq(Entry) /\ Len(b) = Len(s) + 1 - (i + 1)
          /\ \A j \in 1 .. Len(s) + 1 - (i + 1) : b[j] = s[(i + 1) + j - 1]
        BY ONLY s \in Seq(Entry), <2>1, Piece
    <2>3. /\ Len(s) + 1 - (i + 1) = Len(s) - i
          /\ \A j \in 1 .. Len(s) - i : (i + 1) + j - 1 = i + j
        BY <1>1
    <2>. HIDE DEF b
    <2>. QED
        BY <2>2, <2>3
<1>4. m = a \o b
    BY DEF RemoveAt
<1>. HIDE DEF a, b
<1>5. /\ a \o b \in Seq(Entry) /\ Len(a \o b) = Len(a) + Len(b)
      /\ \A j \in 1 .. Len(a) + Len(b) : (a \o b)[j] = IF j <= Len(a) THEN a[j]
                                                       ELSE b[j - Len(a)]
    <2>1. a \in Seq(Entry) /\ b \in Seq(Entry)
        BY <1>2, <1>3
    <2>. QED
        BY ONLY <2>1, ConcatProperties
<1>6. m \in Seq(Entry) /\ Len(m) = Len(s) - 1
    BY <1>1, <1>2, <1>3, <1>4, <1>5
<1>7. ASSUME NEW j \in 1 .. Len(s) - 1 PROVE m[j] = IF j < i THEN s[j] ELSE s[j + 1]
    <2>1. j \in 1 .. Len(a) + Len(b)
        BY <1>1, <1>2, <1>3
    <2>2. m[j] = IF j <= Len(a) THEN a[j] ELSE b[j - Len(a)]
        BY <1>4, <1>5, <2>1, Zenon
    <2>3. CASE j < i
        <3>1. j <= Len(a) /\ j \in 1 .. i - 1
            BY <1>1, <1>2, <2>3
        <3>. QED
            BY <1>2, <2>2, <2>3, <3>1
    <2>4. CASE ~(j < i)
        <3>1. ~(j <= Len(a)) /\ j - Len(a) \in 1 .. Len(s) - i /\ i + (j - Len(a)) = j + 1
            BY <1>1, <1>2, <2>4
        <3>. QED
            BY <1>3, <2>2, <2>4, <3>1
    <2>. QED
        BY <2>3, <2>4
<1>. QED
    BY <1>6, <1>7

LEMMA Doubled ==
    ASSUME NEW s \in Seq(Entry), NEW i \in 1 .. Len(s), NEW m, m = InsertAt(s, i, s[i])
    PROVE  /\ m \in Seq(Entry) /\ Len(m) = Len(s) + 1
           /\ \A j \in 1 .. Len(m) : m[j] = IF j <= i THEN s[j] ELSE s[j - 1]
<1>. DEFINE a == SubSeq(s, 1, i - 1)
            e == <<s[i]>>
            b == SubSeq(s, i, Len(s))
<1>1. Len(s) \in Nat /\ i \in Nat /\ \A j \in 1 .. Len(s) : s[j] \in Entry
    BY ElementOfSeq
<1>2. /\ a \in Seq(Entry) /\ Len(a) = i - 1
      /\ \A j \in 1 .. i - 1 : a[j] = s[j]
    <2>1. 1 \in Nat \ {0} /\ i - 1 \in Nat /\ 1 <= (i - 1) + 1 /\ i - 1 <= Len(s)
        BY <1>1
    <2>2. /\ a \in Seq(Entry) /\ Len(a) = (i - 1) + 1 - 1
          /\ \A j \in 1 .. (i - 1) + 1 - 1 : a[j] = s[1 + j - 1]
        BY ONLY s \in Seq(Entry), <2>1, Piece
    <2>3. (i - 1) + 1 - 1 = i - 1 /\ \A j \in 1 .. i - 1 : 1 + j - 1 = j
        BY <1>1
    <2>. HIDE DEF a
    <2>. QED
        BY <2>2, <2>3
<1>3. /\ b \in Seq(Entry) /\ Len(b) = Len(s) - i + 1
      /\ \A j \in 1 .. Len(s) - i + 1 : b[j] = s[i + j - 1]
    <2>1. i \in Nat \ {0} /\ Len(s) \in Nat /\ i <= Len(s) + 1 /\ Len(s) <= Len(s)
        BY <1>1
    <2>2. /\ b \in Seq(Entry) /\ Len(b) = Len(s) + 1 - i
          /\ \A j \in 1 .. Len(s) + 1 - i : b[j] = s[i + j - 1]
        BY ONLY s \in Seq(Entry), <2>1, Piece
    <2>3. Len(s) + 1 - i = Len(s) - i + 1
        BY <1>1
    <2>. HIDE DEF b
    <2>. QED
        BY <2>2, <2>3
<1>4. e \in Seq(Entry) /\ Len(e) = 1 /\ e[1] = s[i]
    <2>1. s[i] \in Entry
        BY <1>1
    <2>. QED
        BY <2>1
<1>5. m = (a \o e) \o b
    BY DEF InsertAt
<1>. HIDE DEF a, b, e
<1>. DEFINE c == a \o e
<1>6. /\ c \in Seq(Entry) /\ Len(c) = Len(a) + Len(e)
      /\ \A j \in 1 .. Len(a) + Len(e) : c[j] = IF j <= Len(a) THEN a[j]
                                                ELSE e[j - Len(a)]
    <2>1. a \in Seq(Entry) /\ e \in Seq(Entry)
        BY <1>2, <1>4
    <2>. QED
        BY ONLY <2>1, ConcatProperties
<1>7. Len(c) = i /\ \A j \in 1 .. i : c[j] = s[j]
    <2>1. Len(c) = i
        BY <1>1, <1>2, <1>4, <1>6
    <2>2. ASSUME NEW j \in 1 .. i PROVE c[j] = s[j]
        <3>1. j \in 1 .. Len(a) + Len(e)
            BY <1>1, <1>2, <1>4
        <3>2. c[j] = IF j <= Len(a) THEN a[j] ELSE e[j - Len(a)]
            BY <1>6, <3>1, Zenon
        <3>3. j \in 1 .. i - 1 \/ (j = i /\ ~(i <= Len(a)) /\ i - Len(a) = 1)
            BY <1>1, <1>2
        <3>. QED
            BY <1>2, <1>4, <3>2, <3>3
    <2>. QED
        BY <2>1, <2>2
<1>. HIDE DEF c
<1>8. /\ c \o b \in Seq(Entry) /\ Len(c \o b) = Len(c) + Len(b)
      /\ \A j \in 1 .. Len(c) + Len(b) : (c \o b)[j] = IF j <= Len(c) THEN c[j]
                                                       ELSE b[j - Len(c)]
    <2>1. c \in Seq(Entry) /\ b \in Seq(Entry)
        BY <1>3, <1>6
    <2>. QED
        BY ONLY <2>1, ConcatProperties
<1>9. m = c \o b
    BY <1>5 DEF c
<1>10. m \in Seq(Entry) /\ Len(m) = Len(s) + 1
    BY <1>1, <1>3, <1>7, <1>8, <1>9
<1>11. ASSUME NEW j \in 1 .. Len(s) + 1 PROVE m[j] = IF j <= i THEN s[j] ELSE s[j - 1]
    <2>1. j \in 1 .. Len(c) + Len(b)
        BY <1>1, <1>3, <1>7
    <2>2. m[j] = IF j <= Len(c) THEN c[j] ELSE b[j - Len(c)]
        BY <1>8, <1>9, <2>1, Zenon
    <2>3. CASE j <= i
        <3>1. j \in 1 .. i
            BY <1>1, <2>3
        <3>. QED
            BY <1>7, <2>2, <2>3, <3>1
    <2>4. CASE ~(j <= i)
        <3>1. /\ j - i \in 1 .. Len(s) - i + 1 /\ i + (j - i) - 1 = j - 1
            BY <1>1, <2>4
        <3>2. b[j - i] = s[j - 1]
            BY <1>3, <3>1
        <3>. QED
            BY <1>7, <2>2, <2>4, <3>2
    <2>. QED
        BY <2>3, <2>4
<1>. QED
    BY <1>10, <1>11

LEMMA LineIs ==
    ASSUME NEW k \in Key, NEW w \in Token, NEW v \in Seq(Int)
    PROVE  /\ Line(k, w, v) \in Entry
           /\ Line(k, w, v).key = k /\ Line(k, w, v).name = w /\ Line(k, w, v).value = v
BY DEF Line, Entry

\* A line after a slip is a line still, and only a mistyped one is a hash of
\* something else or names something else.
LEMMA Slipped ==
    ASSUME NEW l \in Entry, NEW n \in Slips(l)
    PROVE  /\ n \in Entry
           /\ n.key = "source_sha256" => \/ n.name = "no_such_file"
                                         \/ n.value \in {Junk, Malformed}
           /\ l.key # "hex" => n.key # "hex"
<1>1. l.key \in Key /\ l.name \in Token /\ l.value \in Seq(Int) /\ DOMAIN l.value = 1 .. Len(l.value)
    BY DEF Entry
<1>2. l = [key |-> l.key, name |-> l.name, value |-> l.value]
    BY DEF Entry
<1>3. CASE n \in {Line("comment", "none", <<>>), Line("unknown", "none", <<>>)}
    <2>1. \A k \in {"comment", "unknown"} : /\ Line(k, "none", <<>>) \in Entry
                                            /\ Line(k, "none", <<>>).key = k
        BY DEF Line, Entry, Key, Token
    <2>2. PICK k \in {"comment", "unknown"} : n = Line(k, "none", <<>>)
        BY <1>3
    <2>3. n \in Entry /\ n.key = k
        BY <2>1, <2>2, Zenon
    <2>. QED
        BY <2>3
<1>4. CASE l.key = "hex" /\ \E i \in DOMAIN l.value : n = [l EXCEPT !.value[i] = @ + 1]
    <2>1. PICK i \in DOMAIN l.value : n = [l EXCEPT !.value[i] = @ + 1]
        BY <1>4
    <2>. DEFINE v == [l.value EXCEPT ![i] = @ + 1]
    <2>2. v \in Seq(Int)
        BY <1>1, ExceptSeq
    <2>3. n = Line(l.key, l.name, v)
        BY <1>2, <2>1 DEF Line
    <2>. HIDE DEF v
    <2>4. n \in Entry /\ n.key = l.key
        BY <1>1, LineIs, <2>2, <2>3, Zenon
    <2>. QED
        BY <1>4, <2>4
<1>5. CASE l.key = "hex" /\ \E i \in DOMAIN l.value : n = [l EXCEPT !.value[i] = NotHex]
    <2>1. PICK i \in DOMAIN l.value : n = [l EXCEPT !.value[i] = NotHex]
        BY <1>5
    <2>. DEFINE v == [l.value EXCEPT ![i] = NotHex]
    <2>2. v \in Seq(Int)
        BY <1>1, ExceptSeq DEF NotHex
    <2>3. n = Line(l.key, l.name, v)
        BY <1>2, <2>1 DEF Line
    <2>. HIDE DEF v
    <2>4. n \in Entry /\ n.key = l.key
        BY <1>1, LineIs, <2>2, <2>3, Zenon
    <2>. QED
        BY <1>5, <2>4
<1>6. CASE l.key = "hex" /\ n = [l EXCEPT !.name = "inline_comment"]
    <2>1. n = Line(l.key, "inline_comment", l.value)
        BY <1>2, <1>6 DEF Line
    <2>2. "inline_comment" \in Token
        BY DEF Token
    <2>. QED
        BY <1>1, LineIs, <1>6, <2>1, <2>2
<1>7. CASE l.key = "hex" /\ n = [l EXCEPT !.value = SubSeq(@, 2, Len(@))]
    <2>. DEFINE v == SubSeq(l.value, 2, Len(l.value))
    <2>1. v \in Seq(Int)
        <3>1. 2 \in Int /\ Len(l.value) \in Int /\ \A i \in 2 .. Len(l.value) : l.value[i] \in Int
            BY <1>1, ElementOfSeq
        <3>. QED
            BY ONLY <3>1, SubSeqProperties
    <2>2. n = Line(l.key, l.name, v)
        BY <1>2, <1>7 DEF Line
    <2>. HIDE DEF v
    <2>4. n \in Entry /\ n.key = l.key
        BY <1>1, LineIs, <2>1, <2>2, Zenon
    <2>. QED
        BY <1>7, <2>4
<1>8. CASE l.key # "hex" /\ \E v \in {Junk, Malformed} : n = [l EXCEPT !.value = v]
    <2>1. PICK v \in {Junk, Malformed} : n = [l EXCEPT !.value = v]
        BY <1>8
    <2>2. v \in Seq(Int)
        <3>1. \A x \in Int : <<x>> \in Seq(Int)
            OBVIOUS
        <3>2. -1 \in Int /\ -2 \in Int
            OBVIOUS
        <3>. QED
            BY <3>1, <3>2 DEF Junk, Malformed
    <2>3. n = Line(l.key, l.name, v)
        BY <1>2, <2>1 DEF Line
    <2>. QED
        BY <1>1, LineIs, <1>8, <2>1, <2>2, <2>3
<1>9. CASE l.key # "hex" /\ n = [l EXCEPT !.name = "no_such_file"]
    <2>1. n = Line(l.key, "no_such_file", l.value)
        BY <1>2, <1>9 DEF Line
    <2>2. "no_such_file" \in Token
        BY DEF Token
    <2>. QED
        BY <1>1, LineIs, <1>9, <2>1, <2>2
<1>. QED
    BY <1>3, <1>4, <1>5, <1>6, <1>7, <1>8, <1>9 DEF Slips

\* m is what a single accident makes of t.
Spoiled(m, t) == \E i \in DOMAIN t :
    \/ m = RemoveAt(t, i)
    \/ m = InsertAt(t, i, t[i])
    \/ \E l \in Slips(t[i]) : m = [t EXCEPT ![i] = l]

LEMMA SpoiledLines ==
    ASSUME NEW t \in Seq(Entry), NEW m, Spoiled(m, t)
    PROVE  /\ m \in Seq(Entry)
           /\ \A k \in 1 .. Len(m) :
                 \/ \E j \in 1 .. Len(t) : m[k] = t[j]
                 \/ m[k].key = "source_sha256" => \/ m[k].name = "no_such_file"
                                                  \/ m[k].value \in {Junk, Malformed}
<1>1. Len(t) \in Nat /\ DOMAIN t = 1 .. Len(t)
    OBVIOUS
<1>2. PICK i \in 1 .. Len(t) : \/ m = RemoveAt(t, i)
                               \/ m = InsertAt(t, i, t[i])
                               \/ \E l \in Slips(t[i]) : m = [t EXCEPT ![i] = l]
    BY <1>1 DEF Spoiled
<1>3. CASE m = RemoveAt(t, i)
    <2>1. /\ m \in Seq(Entry) /\ Len(m) = Len(t) - 1
          /\ \A j \in 1 .. Len(m) : m[j] = IF j < i THEN t[j] ELSE t[j + 1]
        BY <1>3, Removed
    <2>2. \A k \in 1 .. Len(m) : k \in 1 .. Len(t) /\ k + 1 \in 1 .. Len(t)
        BY <1>1, <2>1
    <2>. QED
        BY <2>1, <2>2
<1>4. CASE m = InsertAt(t, i, t[i])
    <2>1. /\ m \in Seq(Entry) /\ Len(m) = Len(t) + 1
          /\ \A j \in 1 .. Len(m) : m[j] = IF j <= i THEN t[j] ELSE t[j - 1]
        BY <1>4, Doubled
    <2>2. \A k \in 1 .. Len(m) : IF k <= i THEN k \in 1 .. Len(t) ELSE k - 1 \in 1 .. Len(t)
        BY <1>1, <2>1
    <2>. QED
        BY <2>1, <2>2
<1>5. CASE \E l \in Slips(t[i]) : m = [t EXCEPT ![i] = l]
    <2>1. PICK l \in Slips(t[i]) : m = [t EXCEPT ![i] = l]
        BY <1>5
    <2>2. t[i] \in Entry
        BY ElementOfSeq
    <2>3. /\ l \in Entry
          /\ l.key = "source_sha256" => \/ l.name = "no_such_file"
                                        \/ l.value \in {Junk, Malformed}
        BY <2>2, Slipped
    <2>4. /\ m \in Seq(Entry) /\ Len(m) = Len(t)
          /\ \A k \in 1 .. Len(m) : m[k] = IF k = i THEN l ELSE t[k]
        BY <2>1, <2>3, ExceptSeq
    <2>. QED
        BY <2>3, <2>4
<1>. QED
    BY <1>2, <1>3, <1>4, <1>5

\* A line that holds no bytes may be lost, or become another such line: the
\* payload stays.
LEMMA PayloadStays ==
    ASSUME NEW t \in Seq(Entry), NEW i \in 1 .. Len(t), t[i].key # "hex",
           NEW f, Unrolls(f, t), NEW m,
           \/ m = RemoveAt(t, i)
           \/ \E l \in Entry : l.key # "hex" /\ m = [t EXCEPT ![i] = l]
    PROVE  Body(m) = f[Len(t)]
<1>1. Len(t) \in Nat /\ i \in Nat /\ i >= 1 /\ i <= Len(t)
    OBVIOUS
<1>2. \A n \in 0 .. Len(t) : f[n] = BodyStep(t, f, n)
    BY DEF Unrolls
<1>3. CASE \E l \in Entry : l.key # "hex" /\ m = [t EXCEPT ![i] = l]
    <2>1. PICK l \in Entry : l.key # "hex" /\ m = [t EXCEPT ![i] = l]
        BY <1>3
    <2>2. /\ Len(m) = Len(t)
          /\ \A k \in 1 .. Len(t) : m[k] = IF k = i THEN l ELSE t[k]
        BY <2>1, ExceptSeq
    <2>3. ASSUME NEW n \in 0 .. Len(t) PROVE BodyStep(m, f, n) = BodyStep(t, f, n)
        BY <1>1, <2>1, <2>2 DEF BodyStep
    <2>4. Unrolls(f, m)
        BY <2>2, <2>3 DEF Unrolls
    <2>. QED
        BY <1>1, <2>2, <2>4, BodyIs
<1>4. CASE m = RemoveAt(t, i)
    <2>. DEFINE g == [n \in 0 .. Len(t) - 1 |-> IF n < i THEN f[n] ELSE f[n + 1]]
    <2>1. /\ m \in Seq(Entry) /\ Len(m) = Len(t) - 1
          /\ \A j \in 1 .. Len(m) : m[j] = IF j < i THEN t[j] ELSE t[j + 1]
        BY <1>4, Removed
    <2>2. f[i] = f[i - 1]
        BY <1>1, <1>2 DEF BodyStep
    <2>3. ASSUME NEW n \in 0 .. Len(t) - 1
          PROVE  (IF n < i THEN f[n] ELSE f[n + 1]) = BodyStep(m, g, n)
        <3>1. CASE n = 0
            <4>1. 0 < i /\ 0 \in 0 .. Len(t)
                BY <1>1
            <4>. QED
                BY <1>2, <3>1, <4>1 DEF BodyStep
        <3>2. CASE n # 0 /\ n < i
            <4>1. /\ n \in 0 .. Len(t) /\ n - 1 \in 0 .. Len(t) - 1 /\ n - 1 < i
                  /\ n \in 1 .. Len(m)
                BY <1>1, <2>1, <3>2
            <4>2. m[n] = t[n] /\ g[n - 1] = f[n - 1] /\ f[n] = BodyStep(t, f, n)
                BY <1>2, <2>1, <3>2, <4>1
            <4>. HIDE DEF g
            <4>. QED
                BY <3>2, <4>2 DEF BodyStep
        <3>3. CASE n # 0 /\ ~(n < i)
            <4>1. /\ n + 1 \in 0 .. Len(t) /\ n - 1 \in 0 .. Len(t) - 1 /\ n \in 1 .. Len(m)
                  /\ n + 1 # 0 /\ (n + 1) - 1 = n /\ (n - 1) + 1 = n
                BY <1>1, <2>1, <3>3
            <4>2. m[n] = t[n + 1] /\ f[n + 1] = BodyStep(t, f, n + 1)
                BY <1>2, <2>1, <3>3, <4>1
            <4>3. g[n - 1] = f[n]
                <5>1. CASE n = i
                    <6>1. n - 1 < i
                        BY <5>1
                    <6>. QED
                        BY <2>2, <4>1, <5>1, <6>1
                <5>2. CASE n # i
                    <6>1. ~(n - 1 < i)
                        BY <1>1, <3>3, <5>2
                    <6>. QED
                        BY <4>1, <6>1
                <5>. QED
                    BY <5>1, <5>2
            <4>. HIDE DEF g
            <4>. QED
                BY <3>3, <4>1, <4>2, <4>3 DEF BodyStep
        <3>. QED
            BY <3>1, <3>2, <3>3
    <2>4. g[Len(t) - 1] = f[Len(t)]
        <3>1. /\ Len(t) - 1 \in 0 .. Len(t) - 1 /\ (Len(t) - 1) + 1 = Len(t)
              /\ Len(t) - 1 < i => i = Len(t)
            BY <1>1
        <3>. QED
            BY <2>2, <3>1
    <2>5. g = [n \in 0 .. Len(m) |-> IF n < i THEN f[n] ELSE f[n + 1]]
        BY <2>1
    <2>. HIDE DEF g
    <2>6. Unrolls(g, m)
        BY <2>1, <2>3, <2>5 DEF Unrolls
    <2>. QED
        BY <1>1, <2>1, <2>4, <2>6, BodyIs
<1>. QED
    BY <1>3, <1>4

-----------------------------------------------------------------------------
(* What the converter lets through *)

\* After one accident the payload is the data still, or the data's hash is
\* still declared.
LEMMA PayloadOrHash ==
    ASSUME NEW data \in Seq(Int), NEW names \in Seq(Name), NEW files,
           \A i \in 1 .. Len(names) : files[names[i]] \in Nat,
           NEW t, t = Transcript(data, names, files),
           NEW m, m = t \/ Spoiled(m, t)
    PROVE  Body(m) = data \/ \E k \in 1 .. Len(m) : m[k] = t[3]
<1>. DEFINE f == Unrolled(data, 3 + Len(names))
<1>1. Unrolls(f, t) /\ f[Len(t)] = data
    BY TranscriptHolds
<1>. HIDE DEF f
<1>2. /\ t \in Seq(Entry) /\ Len(t) = 3 + Len(names) + RowsOf(data)
      /\ t[3] = Line("sha256", "none", data)
    <2>1. LaidOut(t, data, names, files, 3 + Len(names))
        BY TranscriptIs
    <2>. QED
        BY <2>1 DEF LaidOut
<1>3. Len(t) \in Nat /\ Len(t) >= 3 /\ DOMAIN t = 1 .. Len(t)
    BY <1>2, RowsCover
<1>4. t[3].key # "hex"
    BY <1>2 DEF Line
<1>5. CASE m = t
    BY <1>3, <1>5
<1>6. ASSUME Spoiled(m, t) PROVE Body(m) = data \/ \E k \in 1 .. Len(m) : m[k] = t[3]
    <2>1. PICK i \in 1 .. Len(t) : \/ m = RemoveAt(t, i)
                                   \/ m = InsertAt(t, i, t[i])
                                   \/ \E l \in Slips(t[i]) : m = [t EXCEPT ![i] = l]
        BY <1>3, <1>6 DEF Spoiled
    <2>2. CASE m = RemoveAt(t, i)
        <3>1. /\ Len(m) = Len(t) - 1
              /\ \A j \in 1 .. Len(m) : m[j] = IF j < i THEN t[j] ELSE t[j + 1]
            BY <1>2, <2>2, Removed
        <3>2. CASE i = 3
            BY <1>1, <1>2, <1>4, <2>2, <3>2, PayloadStays
        <3>3. CASE i < 3
            <4>1. 2 \in 1 .. Len(m) /\ ~(2 < i) /\ 2 + 1 = 3
                BY <1>3, <3>1, <3>3
            <4>. QED
                BY <3>1, <4>1
        <3>4. CASE i > 3
            <4>1. 3 \in 1 .. Len(m) /\ 3 < i
                BY <1>3, <3>1, <3>4
            <4>. QED
                BY <3>1, <4>1
        <3>. QED
            BY <1>3, <3>2, <3>3, <3>4
    <2>3. CASE m = InsertAt(t, i, t[i])
        <3>1. /\ m \in Seq(Entry) /\ Len(m) = Len(t) + 1
              /\ \A j \in 1 .. Len(m) : m[j] = IF j <= i THEN t[j] ELSE t[j - 1]
            <4>1. t \in Seq(Entry) /\ i \in 1 .. Len(t)
                BY <1>2
            <4>. QED
                BY ONLY <4>1, <2>3, Doubled
        <3>2. CASE i < 3
            <4>1. 4 \in 1 .. Len(m) /\ ~(4 <= i) /\ 4 - 1 = 3
                BY <1>3, <3>1, <3>2
            <4>. QED
                BY <3>1, <4>1
        <3>3. CASE i >= 3
            <4>1. 3 \in 1 .. Len(m) /\ 3 <= i
                BY <1>3, <3>1, <3>3
            <4>. QED
                BY <3>1, <4>1
        <3>. QED
            BY <1>3, <3>2, <3>3
    <2>4. CASE \E l \in Slips(t[i]) : m = [t EXCEPT ![i] = l]
        <3>1. PICK l \in Slips(t[i]) : m = [t EXCEPT ![i] = l]
            BY <2>4
        <3>2. l \in Entry /\ (t[i].key # "hex" => l.key # "hex")
            BY <1>2, Slipped, ElementOfSeq
        <3>3. /\ Len(m) = Len(t)
              /\ \A k \in 1 .. Len(t) : m[k] = IF k = i THEN l ELSE t[k]
            BY <1>2, <3>1, <3>2, ExceptSeq
        <3>4. CASE i = 3
            <4>1. l.key # "hex"
                BY <1>4, <3>2, <3>4
            <4>2. \E n \in Entry : n.key # "hex" /\ m = [t EXCEPT ![i] = n]
                BY <3>1, <3>2, <4>1, Zenon
            <4>3. t \in Seq(Entry) /\ Unrolls(f, t) /\ t[i].key # "hex"
                BY <1>1, <1>2, <1>4, <3>4
            <4>4. Body(m) = f[Len(t)]
                BY ONLY i \in 1 .. Len(t), <4>2, <4>3, PayloadStays
            <4>. QED
                BY <1>1, <4>4
        <3>5. CASE i # 3
            BY <1>3, <3>3, <3>5
        <3>. QED
            BY <3>4, <3>5
    <2>. QED
        BY <2>1, <2>2, <2>3, <2>4
<1>. QED
    BY <1>5, <1>6

\* The payload of m is data, and every file m lists is now as it was.
Faithful(m, now, data, files) ==
    Body(m) = data /\ \A n \in Checked(m) : now[n] = files[n]

\* What the converter makes of a transcript after one accident is the data
\* transcribed, and a file still listed is as it was.
LEMMA ReleasedAsTranscribed ==
    ASSUME NEW data \in Seq(Int), NEW names \in Seq(Name), NEW files,
           \A i \in 1 .. Len(names) : files[names[i]] \in Nat,
           NEW t, t = Transcript(data, names, files),
           NEW m, m = t \/ Spoiled(m, t),
           NEW tree \in SUBSET Name, NEW now \in [tree -> Nat],
           Accepts(m, now)
    PROVE  Faithful(m, now, data, files)
<1>1. /\ t \in Seq(Entry) /\ Len(t) = 3 + Len(names) + RowsOf(data)
      /\ t[1].key = "info" /\ t[2].key = "bytes"
      /\ t[3] = Line("sha256", "none", data)
      /\ \A i \in 1 .. Len(names) :
            t[3 + i] = Line("source_sha256", names[i], <<files[names[i]]>>)
      /\ \A r \in 1 .. RowsOf(data) : t[3 + Len(names) + r].key = "hex"
    <2>1. LaidOut(t, data, names, files, 3 + Len(names))
        BY TranscriptIs
    <2>2. ASSUME NEW r \in 1 .. RowsOf(data) PROVE HexRows(data)[r].key = "hex"
        <3>1. PICK v : HexRows(data)[r] = Line("hex", "none", v)
            BY HexRowsAre
        <3>. QED
            BY <3>1 DEF Line
    <2>3. t[2].key = "bytes"
        BY <2>1 DEF LaidOut, Line
    <2>. QED
        BY <2>1, <2>2, <2>3 DEF LaidOut
<1>2. m \in Seq(Entry) /\ DOMAIN m = 1 .. Len(m)
    BY <1>1, SpoiledLines
<1>3. Body(m) = data
    <2>1. Body(m) = data \/ \E k \in 1 .. Len(m) : m[k] = t[3]
        BY PayloadOrHash
    <2>. SUFFICES ASSUME NEW k \in 1 .. Len(m), m[k] = t[3] PROVE Body(m) = data
        BY <2>1
    <2>2. m[k].key = "sha256" /\ m[k].value = data
        BY <1>1 DEF Line
    <2>3. data \in Values(m, "sha256")
        BY <1>2, <2>2 DEF Values, Keyed
    <2>4. Values(m, "sha256") \subseteq {Body(m)}
        BY Zenon DEF Accepts
    <2>. QED
        BY ONLY <2>3, <2>4
<1>4. ASSUME NEW k \in Keyed(m, "source_sha256") PROVE now[m[k].name] = files[m[k].name]
    <2>. DEFINE l == m[k]
    <2>1. k \in 1 .. Len(m) /\ l.key = "source_sha256"
        BY <1>2 DEF Keyed
    <2>2. l.name \in tree /\ <<now[l.name]>> = l.value /\ now[l.name] \in Nat
        BY DEF Accepts, check_source_freshness
    <2>3. l.name # "no_such_file"
        BY <2>2 DEF Name
    <2>4. l.value \notin {Junk, Malformed}
        BY <2>2 DEF Junk, Malformed
    <2>5. PICK j \in 1 .. Len(t) : l = t[j]
        BY <1>1, <2>1, <2>3, <2>4, SpoiledLines
    <2>6. j - 3 \in 1 .. Len(names)
        <3>1. Len(names) \in Nat /\ RowsOf(data) \in Nat
            BY RowsCover
        <3>2. \/ j = 1 \/ j = 2 \/ j = 3 \/ j - 3 \in 1 .. Len(names)
              \/ j - (3 + Len(names)) \in 1 .. RowsOf(data)
            BY <1>1, <3>1
        <3>3. j # 1 /\ j # 2 /\ j # 3
            BY <1>1, <2>1, <2>5 DEF Line
        <3>4. j - (3 + Len(names)) \notin 1 .. RowsOf(data)
            <4>1. 3 + Len(names) + (j - (3 + Len(names))) = j
                BY <3>1
            <4>. QED
                BY <1>1, <2>1, <2>5, <4>1
        <3>. QED
            BY <3>2, <3>3, <3>4
    <2>7. t[j] = Line("source_sha256", names[j - 3], <<files[names[j - 3]]>>)
        <3>1. 3 + (j - 3) = j
            OBVIOUS
        <3>. QED
            BY <1>1, <2>6, <3>1
    <2>8. l.name = names[j - 3] /\ l.value = <<files[names[j - 3]]>>
        BY <2>5, <2>7 DEF Line
    <2>. QED
        BY <2>2, <2>8
<1>. QED
    BY <1>3, <1>4 DEF Checked, Faithful

\* Both parsers accept what the converter accepts, but for a comment behind
\* a row.
LEMMA ConverterAndInventory ==
    ASSUME NEW m \in Seq(Entry), NEW files, Accepts(m, files),
           \A i \in DOMAIN m : m[i].name # "inline_comment"
    PROVE  ~Problem(m, files)
<1>. DEFINE read(key) == {i \in Keyed(m, key) : m[i].value # Malformed}
            last(key) == IF read(key) = {} THEN <<>> ELSE m[Max(read(key))].value
<1>1. \A key : Keyed(m, key) \subseteq Nat
    BY DEF Keyed
<1>2. ASSUME NEW key \in {"bytes", "sha256"} PROVE last(key) \in {<<>>} \cup Values(m, key)
    <2>1. SUFFICES ASSUME read(key) # {} PROVE Max(read(key)) \in Keyed(m, key)
        BY DEF Values
    <2>2. PICK x \in read(key) : TRUE
        BY <2>1
    <2>3. \A i, j \in Keyed(m, key) : i = j
        BY DEF Accepts, parse_manifest
    <2>4. read(key) = {x} /\ x \in Nat /\ x \in Keyed(m, key)
        BY <1>1, <2>2, <2>3
    <2>5. Max({x}) = x
        BY <2>4 DEF Max
    <2>. QED
        BY <2>4, <2>5
<1>3. parse_ref_hex(m).body_parsed
    BY DEF parse_ref_hex, Accepts, parse_manifest
<1>4. last("bytes") \in {<<>>, <<Len(Body(m))>>} /\ last("sha256") \in {<<>>, Body(m)}
    BY <1>2 DEF Accepts
<1>5. /\ parse_ref_hex(m).declared_bytes = last("bytes")
      /\ parse_ref_hex(m).declared_sha256 = last("sha256")
    BY DEF parse_ref_hex
<1>6. ASSUME NEW l \in parse_ref_hex(m).source_sha256
      PROVE  ~(\/ l.name \notin DOMAIN files \/ files[l.name] = 0
               \/ l.value # <<files[l.name]>>)
    <2>1. PICK i \in Keyed(m, "source_sha256") : l = m[i]
        BY DEF parse_ref_hex
    <2>. QED
        BY <2>1 DEF Accepts, check_source_freshness
<1>. HIDE DEF last
<1>. QED
    BY <1>3, <1>4, <1>5, <1>6 DEF Problem

-----------------------------------------------------------------------------
(* The release of an application *)

\* The PRGs CASM makes of an app: a load address and a byte for each input.
Prgs == {prg \in Seq(Int) : Len(prg) = Len(app.inputs) + 2}

\* The types of the state, what ships aside.
Typed ==
    /\ app \in Apps
    /\ src \in [Files -> Contents \cup {0}]
    /\ disk \in [Inputs -> (Contents \ Unlexable) \cup {0}]
    /\ native \in Prgs \cup {NoPrg} /\ ref \in Prgs \cup {NoPrg}
    /\ review \in [prg : Prgs, src : [Files -> Contents \cup {0}]]
    /\ manifest \in Seq(Entry)
    /\ accidents \in Nat

\* What a person wrote when the manifest was last transcribed.
Written == Transcript(review.prg, app.recorded, review.src)

\* The manifest is what was written, but for the accident there was; what
\* ships is a PRG.
Traced ==
    /\ accidents = 0 => manifest = Written
    /\ manifest = Written \/ Spoiled(manifest, Written)
    /\ shipped \in Prgs \cup {NoPrg}

\* One line at most is lost, doubled or spoiled between two transcriptions.
OneAccident == \A a \in Apps : AccidentBound[a] <= 1

LEMMA Assembles ==
    ASSUME app \in Apps, NEW files, \A f \in Inputs : files[f] \in Nat
    PROVE  Assemble(files) \in Prgs /\ Assemble(files) # NoPrg
<1>. DEFINE bytes == [i \in DOMAIN app.inputs |-> files[app.inputs[i]]]
            n     == Len(app.inputs)
<1>1. n \in Nat /\ DOMAIN app.inputs = 1 .. n /\ \A i \in 1 .. n : app.inputs[i] \in Inputs
    BY AppFacts
<1>. HIDE DEF n
<1>2. bytes \in Seq(Int) /\ Len(bytes) = n
    <2>1. \A i \in 1 .. n : files[app.inputs[i]] \in Int
        BY <1>1
    <2>. QED
        BY <1>1, <2>1
<1>3. LoadAddress \in Seq(Int) /\ Len(LoadAddress) = 2
    BY DEF LoadAddress
<1>4. Assemble(files) = LoadAddress \o bytes
    BY DEF Assemble
<1>. HIDE DEF bytes
<1>5. /\ LoadAddress \o bytes \in Seq(Int)
      /\ Len(LoadAddress \o bytes) = Len(LoadAddress) + Len(bytes)
    <2>1. LoadAddress \in Seq(Int) /\ bytes \in Seq(Int)
        BY <1>2, <1>3
    <2>. QED
        BY ONLY <2>1, ConcatProperties
<1>6. Assemble(files) \in Seq(Int) /\ Len(Assemble(files)) = n + 2
    BY <1>1, <1>2, <1>3, <1>4, <1>5
<1>7. Assemble(files) # <<>>
    BY <1>1, <1>6
<1>. QED
    BY <1>6, <1>7 DEF Prgs, n, NoPrg

\* A transcription is made of lines.
LEMMA TranscriptTyped ==
    ASSUME app \in Apps, NEW prg \in Seq(Int), NEW files,
           \A f \in Files : files[f] \in Nat
    PROVE  Transcript(prg, app.recorded, files) \in Seq(Entry)
<1>1. /\ app.recorded \in Seq(Name)
      /\ \A i \in 1 .. Len(app.recorded) : files[app.recorded[i]] \in Nat
    BY AppFacts
<1>2. LaidOut(Transcript(prg, app.recorded, files), prg, app.recorded, files,
              3 + Len(app.recorded))
    BY <1>1, TranscriptIs
<1>. QED
    BY <1>2 DEF LaidOut

\* Contents are numbers.
LEMMA Numbers ==
    ASSUME NEW S, NEW f \in [S -> Contents \cup {0}]
    PROVE  f \in [S -> Nat] /\ \A x \in S : f[x] \in Nat
<1>1. Contents \subseteq Nat
    BY ManifestAssumption
<1>2. ASSUME NEW x \in S PROVE f[x] \in Nat
    <2>1. f[x] \in Contents \cup {0}
        OBVIOUS
    <2>2. 0 \in Nat
        OBVIOUS
    <2>. QED
        BY <1>1, <2>1, <2>2, Zenon
<1>3. f = [x \in S |-> f[x]]
    OBVIOUS
<1>. QED
    BY <1>2, <1>3, Zenon

LEMMA InitTyped ==
    ASSUME ManifestInit
    PROVE  Typed /\ Traced
<1>1. app \in Apps /\ src = [f \in Files |-> 1] /\ 1 \in Contents \ Unlexable
    BY ManifestAssumption DEF ManifestInit
<1>2. src \in [Files -> Contents \cup {0}] /\ \A f \in Files : src[f] \in Nat
    BY <1>1
<1>3. Inputs \subseteq Files
    BY <1>1, AppFacts
<1>4. Assemble(src) \in Prgs
    BY <1>1, <1>2, <1>3, Assembles
<1>5. review = [prg |-> Assemble(src), src |-> src] /\ manifest = Written
    BY DEF ManifestInit, Written
<1>6. manifest \in Seq(Entry)
    <2>1. Assemble(src) \in Seq(Int)
        BY <1>4 DEF Prgs
    <2>2. manifest = Transcript(Assemble(src), app.recorded, src)
        BY <1>5 DEF Written
    <2>. QED
        BY <1>1, <1>2, <2>1, <2>2, TranscriptTyped
<1>7. disk \in [Inputs -> (Contents \ Unlexable) \cup {0}]
    BY DEF ManifestInit
<1>8. Typed
    BY <1>1, <1>2, <1>4, <1>5, <1>6, <1>7 DEF Typed, ManifestInit
<1>9. Traced
    BY <1>5 DEF Traced, ManifestInit
<1>. QED
    BY <1>8, <1>9

LEMMA SameApp ==
    ASSUME [ManifestNext]_manifestVars
    PROVE  /\ app' = app /\ Files' = Files /\ Inputs' = Inputs /\ Recorded' = Recorded
           /\ Prgs' = Prgs
<1>1. app' = app
    BY DEF ManifestNext, manifestVars, Edit, BuildTarget, DiskBuilt, DiskFull, TestDisk,
           NativeRun, BuildRef, BuildManifest, build_banner_manifest, build_label_manifest,
           build_format_manifest, build_conway_manifest, build_comp_manifest,
           build_dash_manifest, WriteManifest, Accident
<1>. QED
    BY <1>1 DEF Files, Inputs, Recorded, Prgs

LEMMA AnyTranscription ==
    ASSUME BuildManifest
    PROVE  WriteManifest
BY DEF BuildManifest, build_banner_manifest, build_label_manifest,
       build_format_manifest, build_conway_manifest, build_comp_manifest,
       build_dash_manifest

\* Only what the generators and the gate accept goes on the disk.
LEMMA GatedSources ==
    ASSUME Typed, SourceGate
    PROVE  \A f \in Inputs : src[f] \in Contents \ Unlexable
<1>1. Inputs \subseteq Files
    BY AppFacts DEF Typed
<1>2. ASSUME NEW f \in Inputs PROVE src[f] \notin Unlexable \cup {0}
    <2>1. CASE f \in Generated
        BY <2>1 DEF Generated, SourceGate, gen_label_version, gen_format_version,
                    gen_conway_version, Sound
    <2>2. CASE f \notin Generated
        BY <2>2 DEF SourceGate, check_casm_source_bytes, Sound
    <2>. QED
        BY <2>1, <2>2
<1>. QED
    BY <1>1, <1>2 DEF Typed

\* An accident leaves lines.
LEMMA AccidentTyped ==
    ASSUME manifest \in Seq(Entry), NEW i \in DOMAIN manifest, Accident(i)
    PROVE  manifest' \in Seq(Entry) /\ Spoiled(manifest', manifest)
<1>1. Spoiled(manifest', manifest)
    BY DEF Accident, Spoiled
<1>. QED
    BY <1>1, SpoiledLines

LEMMA NextTyped ==
    ASSUME Typed, [ManifestNext]_manifestVars
    PROVE  Typed'
<1>. USE SameApp
<1>1. /\ app \in Apps /\ Inputs \subseteq Files
      /\ \A f \in Files : src[f] \in Nat
    <2>1. app \in Apps /\ src \in [Files -> Contents \cup {0}]
        BY DEF Typed
    <2>. QED
        BY <2>1, AppFacts, Numbers
<1>2. ASSUME NEW f \in Files, NEW c \in Contents \cup {0}, Edit(f, c)
      PROVE  Typed'
    BY <1>2 DEF Edit, Typed
<1>3. CASE BuildTarget
    BY <1>3 DEF BuildTarget, Typed
<1>4. ASSUME NEW k, TestDisk(k) PROVE Typed'
    <2>1. \A f \in Inputs : src[f] \in Contents \ Unlexable
        BY <1>4, GatedSources DEF TestDisk
    <2>2. disk' \in [Inputs -> (Contents \ Unlexable) \cup {0}]
        BY <1>4, <2>1 DEF TestDisk, Typed
    <2>. QED
        BY <1>4, <2>2 DEF TestDisk, Typed
<1>5. CASE NativeRun
    <2>1. \A f \in Inputs : disk[f] \in Nat
        <3>1. disk \in [Inputs -> Contents \cup {0}]
            BY DEF Typed
        <3>. QED
            BY <3>1, Numbers
    <2>2. native' \in Prgs
        BY <1>1, <1>5, <2>1, Assembles DEF NativeRun
    <2>. QED
        BY <1>5, <2>2 DEF NativeRun, Typed
<1>6. CASE BuildRef
    <2>1. ref' \in Prgs
        BY <1>1, <1>6, Assembles DEF BuildRef
    <2>. QED
        BY <1>6, <2>1 DEF BuildRef, Typed
<1>7. CASE BuildManifest
    <2>1. WriteManifest
        BY <1>7, AnyTranscription
    <2>2. native \in Prgs /\ native \in Seq(Int)
        BY <2>1 DEF WriteManifest, Typed, Prgs
    <2>3. manifest' \in Seq(Entry)
        BY <1>1, <2>1, <2>2, TranscriptTyped DEF WriteManifest
    <2>4. review' \in [prg : Prgs, src : [Files -> Contents \cup {0}]]
        BY <2>1, <2>2 DEF WriteManifest, Typed
    <2>. QED
        BY <2>1, <2>3, <2>4 DEF WriteManifest, Typed
<1>8. ASSUME NEW i \in DOMAIN manifest, Accident(i) PROVE Typed'
    <2>1. manifest' \in Seq(Entry)
        BY <1>8, AccidentTyped DEF Typed
    <2>. QED
        BY <1>8, <2>1 DEF Accident, Typed
<1>9. CASE UNCHANGED manifestVars
    BY <1>9 DEF manifestVars, Typed
<1>. QED
    BY <1>2, <1>3, <1>4, <1>5, <1>6, <1>7, <1>8, <1>9
       DEF ManifestNext, DiskBuilt, DiskFull

\* A build that passes ships what was transcribed.
LEMMA BuildsFaithfully ==
    ASSUME Typed, Traced, MakeApp
    PROVE  shipped' = review.prg /\ \A f \in Checked(manifest) : src[f] = review.src[f]
<1>1. /\ Files \in SUBSET Name /\ src \in [Files -> Nat]
      /\ app.recorded \in Seq(Name) /\ review.prg \in Seq(Int)
      /\ \A i \in 1 .. Len(app.recorded) : review.src[app.recorded[i]] \in Nat
    <2>1. app \in Apps /\ src \in [Files -> Contents \cup {0}]
        BY DEF Typed
    <2>2. review.src \in [Files -> Contents \cup {0}] /\ review.prg \in Seq(Int)
        BY DEF Typed, Prgs
    <2>3. src \in [Files -> Nat] /\ \A f \in Files : review.src[f] \in Nat
        BY <2>1, <2>2, Numbers
    <2>4. \A i \in 1 .. Len(app.recorded) : app.recorded[i] \in Files
        BY <2>1, AppFacts
    <2>. QED
        BY <2>1, <2>2, <2>3, <2>4, AppFacts
<1>2. manifest = Written \/ Spoiled(manifest, Written)
    BY DEF Traced
<1>3. Accepts(manifest, src) /\ shipped' = Body(manifest)
    BY DEF MakeApp
<1>. DEFINE data  == review.prg
            names == app.recorded
            files == review.src
<1>4. /\ Files \in SUBSET Name /\ src \in [Files -> Nat]
      /\ names \in Seq(Name) /\ data \in Seq(Int)
      /\ \A i \in 1 .. Len(names) : files[names[i]] \in Nat
      /\ Written = Transcript(data, names, files)
    BY <1>1 DEF Written
<1>. HIDE DEF data, names, files
<1>5. Faithful(manifest, src, data, files)
    BY ONLY <1>2, <1>3, <1>4, ReleasedAsTranscribed
<1>. QED
    BY <1>3, <1>5 DEF data, files, Faithful

LEMMA NextTraced ==
    ASSUME OneAccident, Typed, Traced, [ManifestNext]_manifestVars
    PROVE  Traced'
<1>. USE SameApp
<1>1. review.prg \in Prgs
    BY DEF Typed
<1>2. UNCHANGED review => Written' = Written
    BY DEF Written
<1>3. ASSUME MakeApp, UNCHANGED <<review, manifest, accidents>> PROVE Traced'
    BY <1>1, <1>2, <1>3, BuildsFaithfully DEF Traced
<1>4. ASSUME UNCHANGED <<review, manifest, accidents, shipped>> PROVE Traced'
    BY <1>2, <1>4 DEF Traced
<1>5. CASE BuildTarget
    BY <1>3, <1>5 DEF BuildTarget
<1>6. ASSUME NEW k, TestDisk(k) PROVE Traced'
    BY <1>3, <1>4, <1>6 DEF TestDisk
<1>7. CASE BuildManifest
    <2>1. WriteManifest
        BY <1>7, AnyTranscription
    <2>2. manifest' = Written' /\ shipped' = shipped
        BY <2>1 DEF WriteManifest, Written
    <2>. QED
        BY <2>2 DEF Traced
<1>8. ASSUME NEW i \in DOMAIN manifest, Accident(i) PROVE Traced'
    <2>1. AccidentBound[app] <= 1 /\ AccidentBound[app] \in Nat /\ accidents \in Nat
        BY ManifestAssumption DEF OneAccident, Typed
    <2>2. accidents = 0 /\ accidents' = 1
        BY <1>8, <2>1 DEF Accident
    <2>3. manifest = Written /\ Spoiled(manifest', manifest)
        BY <1>8, <2>2, AccidentTyped DEF Traced, Typed
    <2>4. UNCHANGED <<review, shipped>>
        BY <1>8 DEF Accident
    <2>. QED
        BY <1>2, <2>2, <2>3, <2>4 DEF Traced
<1>9. ASSUME NEW f, NEW c, Edit(f, c) PROVE Traced'
    BY <1>4, <1>9 DEF Edit
<1>10. CASE NativeRun \/ BuildRef \/ UNCHANGED manifestVars
    BY <1>4, <1>10 DEF NativeRun, BuildRef, manifestVars
<1>. QED
    BY <1>5, <1>6, <1>7, <1>8, <1>9, <1>10 DEF ManifestNext, DiskBuilt, DiskFull

-----------------------------------------------------------------------------
(* Theorems *)

\* However many lines of a manifest are spoiled, what hex_manifest_to_bin.py
\* accepts gives casm_oracle_inventory.py nothing to report, unless a comment
\* stands behind a row of bytes.
THEOREM ParsersAgreeAlways == ManifestSpec => []ParsersAgree
<1>1. ManifestInit => Typed
    BY InitTyped
<1>2. Typed /\ [ManifestNext]_manifestVars => Typed'
    BY NextTyped
<1>3. Typed => ParsersAgree
    BY ConverterAndInventory DEF Typed, ParsersAgree
<1>. QED
    BY <1>1, <1>2, <1>3, PTL DEF ManifestSpec

\* The state keeps its types, what ships included, as long as at most one line
\* of a manifest is spoiled.
THEOREM ManifestTypeCorrect ==
    ASSUME OneAccident
    PROVE  ManifestSpec => []ManifestTypeOK
<1>1. ManifestInit => Typed /\ Traced
    BY InitTyped
<1>2. Typed /\ Traced /\ [ManifestNext]_manifestVars => (Typed /\ Traced)'
    BY OneAccident, NextTyped, NextTraced
<1>3. Typed /\ Traced => ManifestTypeOK
    BY DEF Typed, Traced, Prgs, ManifestTypeOK
<1>. QED
    BY <1>1, <1>2, <1>3, PTL DEF ManifestSpec

\* A build ships, byte for byte, what a person transcribed, and every file the
\* manifest still vouches for is as it was then: whatever was edited since, and
\* whichever single line of the manifest was lost, doubled or spoiled.
THEOREM ShipsWhatWasReviewed ==
    ASSUME OneAccident
    PROVE  ManifestSpec => ShipsReviewed
<1>. DEFINE Step == shipped' # shipped =>
                       /\ shipped' = review.prg
                       /\ \A f \in Checked(manifest) : src[f] = review.src[f]
<1>1. ManifestInit => Typed /\ Traced
    BY InitTyped
<1>2. Typed /\ Traced /\ [ManifestNext]_manifestVars => (Typed /\ Traced)'
    BY OneAccident, NextTyped, NextTraced
<1>3. Typed /\ Traced /\ [ManifestNext]_manifestVars => [Step]_manifestVars
    <2>. SUFFICES ASSUME Typed, Traced, ManifestNext, shipped' # shipped
                  PROVE  MakeApp
        BY BuildsFaithfully
    <2>1. WriteManifest => shipped' = shipped
        BY DEF WriteManifest
    <2>. QED
        BY <2>1, AnyTranscription
           DEF ManifestNext, Edit, BuildTarget, DiskBuilt, DiskFull, TestDisk, NativeRun,
               BuildRef, Accident
<1>. QED
    BY <1>1, <1>2, <1>3, PTL DEF ManifestSpec, ShipsReviewed
=============================================================================
