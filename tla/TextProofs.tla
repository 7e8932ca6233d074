----------------------------- MODULE TextProofs -----------------------------
(***************************************************************************)
(* Texts that one tool prepares and 6502 code shows: CONWAY's menu and       *)
(* status row, and CASM's diagnostics.                                       *)
(***************************************************************************)
EXTENDS ConwayScreen, DiagTable, Induction, FiniteSetTheorems, SequenceTheorems

-----------------------------------------------------------------------------
(* Numbers *)

LEMMA Between == \A x \in Nat, l, h \in Int : l <= x /\ x <= h => x \in l .. h
    OBVIOUS

LEMMA Bounds == \A l, h \in Int : \A x \in l .. h : x \in Int /\ l <= x /\ x <= h
    OBVIOUS

LEMMA CodeRanges ==
    \A x \in Int : x \in 32 .. 63 \/ x \in 97 .. 122 => x # 0 /\ (x > 63 => x - 96 # 0)
    OBVIOUS

LEMMA OneRow ==
    \A x, r, q, k, col, len \in Int :
        /\ x = 40 * r + k /\ k \in 0 .. 39 /\ col >= 0 /\ col + len <= 40
        /\ x - (q * 40 + col) + 1 \in 1 .. len
        => q = r
    OBVIOUS

LEMMA InRow ==
    \A x, r, k, col \in Int : x = 40 * r + k => x - (r * 40 + col) + 1 = k - col + 1
    OBVIOUS

-----------------------------------------------------------------------------
(* CONWAY: where the texts lie *)

\* One text behind the other, as the generators write them.
EmitStep(t, v, b, f, n) ==
    IF n = 0 THEN FullVersion(v, b) ELSE f[n - 1] \o Bytes(Order[n], t)
Emits(f, t, v, b) == f = [n \in 0 .. Len(Order) |-> EmitStep(t, v, b, f, n)]

IsTexts(t) == DOMAIN t = DOMAIN STRINGS /\ \A label \in DOMAIN STRINGS : t[label] \in Text

LEMMA OrderFacts ==
    /\ Len(Order) \in Nat /\ DOMAIN Order = 1 .. Len(Order)
    /\ \A n \in 1 .. Len(Order) : Order[n] \in DOMAIN STRINGS
    /\ \A label \in DOMAIN STRINGS : \E n \in 1 .. Len(Order) : Order[n] = label
<1>1. Order \in Seq(DOMAIN STRINGS) /\ ToSet(Order) = DOMAIN STRINGS
    BY ScreenAssumption
<1>2. Len(Order) \in Nat /\ DOMAIN Order = 1 .. Len(Order)
    BY <1>1
<1>3. \A n \in 1 .. Len(Order) : Order[n] \in DOMAIN STRINGS
    BY <1>1, <1>2
<1>4. ASSUME NEW label \in DOMAIN STRINGS PROVE \E n \in 1 .. Len(Order) : Order[n] = label
    <2>1. label \in {Order[i] : i \in DOMAIN Order}
        BY ONLY <1>1, label \in DOMAIN STRINGS DEF ToSet
    <2>. QED
        BY <1>2, <2>1
<1>. QED
    BY <1>2, <1>3, <1>4

\* A sequence of texts laid out one by one exists.
LEMMA SomeEmission ==
    ASSUME NEW t, NEW v, NEW b
    PROVE  \E f : Emits(f, t, v, b)
<1>. DEFINE Upto(f, n) == f = [m \in 0 .. n |-> EmitStep(t, v, b, f, m)]
            S == {n \in Nat : \E f : Upto(f, n)}
<1>1. 0 \in S
    <2>. DEFINE f == [m \in 0 .. 0 |-> FullVersion(v, b)]
    <2>1. Upto(f, 0)
        BY DEF EmitStep
    <2>. QED
        BY <2>1
<1>2. ASSUME NEW n \in S PROVE n + 1 \in S
    <2>1. n \in Nat
        OBVIOUS
    <2>2. PICK f : Upto(f, n)
        OBVIOUS
    <2>. DEFINE g == [m \in 0 .. n + 1 |-> IF m <= n THEN f[m]
                                           ELSE f[n] \o Bytes(Order[n + 1], t)]
    <2>3. \A m \in 0 .. n + 1 : g[m] = EmitStep(t, v, b, g, m)
        <3>1. \A m \in 0 .. n : f[m] = EmitStep(t, v, b, f, m)
            BY <2>2
        <3>2. \A m \in 0 .. n : g[m] = f[m]
            BY <2>1
        <3>3. ASSUME NEW m \in 0 .. n PROVE g[m] = EmitStep(t, v, b, g, m)
            <4>1. CASE m = 0
                BY <3>1, <3>2, <4>1 DEF EmitStep
            <4>2. CASE m # 0
                <5>1. m - 1 \in 0 .. n
                    BY <2>1, <4>2
                <5>. QED
                    BY <3>1, <3>2, <4>2, <5>1 DEF EmitStep
            <4>. QED
                BY <4>1, <4>2
        <3>4. g[n + 1] = EmitStep(t, v, b, g, n + 1)
            <4>1. /\ n + 1 # 0 /\ (n + 1) - 1 = n /\ ~(n + 1 <= n) /\ n + 1 \in 0 .. n + 1
                  /\ n \in 0 .. n
                BY <2>1
            <4>2. g[n + 1] = f[n] \o Bytes(Order[n + 1], t) /\ g[n] = f[n]
                BY <3>2, <4>1
            <4>. HIDE DEF g
            <4>. QED
                BY <4>1, <4>2 DEF EmitStep
        <3>5. \A m \in 0 .. n + 1 : m \in 0 .. n \/ m = n + 1
            BY <2>1
        <3>. HIDE DEF g
        <3>. QED
            BY <3>3, <3>4, <3>5
    <2>4. Upto(g, n + 1)
        <3>1. g = [m \in 0 .. n + 1 |-> g[m]]
            OBVIOUS
        <3>. HIDE DEF g
        <3>2. [m \in 0 .. n + 1 |-> g[m]] = [m \in 0 .. n + 1 |-> EmitStep(t, v, b, g, m)]
            BY <2>3
        <3>. QED
            BY <3>1, <3>2
    <2>. QED
        BY <2>1, <2>4
<1>3. S = Nat
    <2>1. S \in SUBSET Nat
        OBVIOUS
    <2>. HIDE DEF S
    <2>. QED
        BY <1>1, <1>2, <2>1, NumbersByInduction
<1>4. \E f : Upto(f, Len(Order))
    BY <1>3, OrderFacts
<1>. QED
    BY <1>4 DEF Emits

LEMMA TextFacts ==
    ASSUME NEW x \in Text
    PROVE  /\ x \in Seq(Int) /\ Len(x) \in Nat /\ DOMAIN x = 1 .. Len(x)
           /\ \A i \in 1 .. Len(x) : x[i] \in Int
<1>. DEFINE B == 0 .. 127
<1>1. x \in Seq(B) /\ B \subseteq Int
    BY DEF Text
<1>. HIDE DEF B
<1>2. Len(x) \in Nat /\ DOMAIN x = 1 .. Len(x) /\ \A i \in 1 .. Len(x) : x[i] \in B
    BY ONLY <1>1
<1>3. x \in Seq(Int)
    <2>1. x = [i \in 1 .. Len(x) |-> x[i]]
        BY ONLY <1>1, SeqDef
    <2>2. \A i \in 1 .. Len(x) : x[i] \in Int
        BY <1>1, <1>2
    <2>3. x \in [1 .. Len(x) -> Int]
        BY ONLY <2>1, <2>2, Zenon
    <2>. QED
        BY ONLY <1>2, <2>3, SeqDef
<1>. QED
    BY <1>1, <1>2, <1>3

\* What one text and its terminator take.
LEMMA TextBytes ==
    ASSUME NEW t, IsTexts(t), NEW label \in DOMAIN STRINGS
    PROVE  /\ Bytes(label, t) \in Seq(Int)
           /\ Len(t[label]) \in Nat /\ DOMAIN t[label] = 1 .. Len(t[label])
           /\ Len(Bytes(label, t)) = IF label \in Counted THEN Len(t[label])
                                     ELSE Len(t[label]) + 1
           /\ \A i \in 1 .. Len(t[label]) : Bytes(label, t)[i] = Code(t[label], i)
           /\ label \notin Counted => Bytes(label, t)[Len(t[label]) + 1] = 0
<1>. DEFINE text  == t[label]
            codes == to_screencode(text).codes
<1>1. text \in Text
    BY DEF IsTexts
<1>0. text = t[label]
    OBVIOUS
<1>. HIDE DEF text
<1>2. /\ Len(text) \in Nat /\ DOMAIN text = 1 .. Len(text)
      /\ \A i \in 1 .. Len(text) : text[i] \in Int
    BY ONLY <1>1, TextFacts
<1>3. codes = [i \in DOMAIN text |-> IF text[i] > 63 THEN text[i] - 96 ELSE text[i]]
    BY <1>0 DEF to_screencode
<1>4. codes \in Seq(Int) /\ Len(codes) = Len(text)
    <2>. DEFINE num(i) == IF text[i] > 63 THEN text[i] - 96 ELSE text[i]
    <2>1. \A i \in 1 .. Len(text) : num(i) \in Int
        BY <1>2
    <2>2. codes = [i \in 1 .. Len(text) |-> num(i)]
        BY <1>2, <1>3
    <2>. HIDE DEF num, codes, text
    <2>. QED
        BY <1>2, <2>1, <2>2
<1>5. \A i \in 1 .. Len(text) : codes[i] = Code(text, i)
    BY DEF Code
<1>8. Bytes(label, t) = codes \o (IF label \in Counted THEN <<>> ELSE <<0>>)
    BY <1>0 DEF Bytes
<1>. HIDE DEF codes
<1>6. CASE label \in Counted
    <2>1. Bytes(label, t) = codes \o <<>>
        BY <1>6, <1>8
    <2>2. Bytes(label, t) = codes
        BY <1>4, <2>1
    <2>. QED
        BY <1>0, <1>2, <1>4, <1>5, <1>6, <2>2
<1>7. CASE label \notin Counted
    <2>1. Bytes(label, t) = codes \o <<0>>
        BY <1>7, <1>8
    <2>2. <<0>> \in Seq(Int) /\ Len(<<0>>) = 1 /\ <<0>>[1] = 0
        OBVIOUS
    <2>3. /\ Bytes(label, t) \in Seq(Int) /\ Len(Bytes(label, t)) = Len(codes) + 1
          /\ \A i \in 1 .. Len(codes) : Bytes(label, t)[i] = codes[i]
          /\ Bytes(label, t)[Len(codes) + 1] = 0
        BY <1>4, <2>1, <2>2
    <2>. QED
        BY <1>0, <1>2, <1>4, <1>5, <1>7, <2>3
<1>. QED
    BY <1>6, <1>7

\* A text laid out stays where it is, whatever comes behind it.
LEMMA Grows ==
    ASSUME NEW t, IsTexts(t), NEW v \in Text, NEW b \in Text, NEW f, Emits(f, t, v, b)
    PROVE  \A n \in 0 .. Len(Order) :
              /\ f[n] \in Seq(Int)
              /\ \A m \in 0 .. n : /\ Len(f[m]) <= Len(f[n])
                                   /\ \A i \in 1 .. Len(f[m]) : f[n][i] = f[m][i]
<1>. DEFINE N == Len(Order)
            Good(n) == /\ f[n] \in Seq(Int)
                       /\ \A m \in 0 .. n : /\ Len(f[m]) <= Len(f[n])
                                            /\ \A i \in 1 .. Len(f[m]) : f[n][i] = f[m][i]
            S == {n \in Nat : n <= N => Good(n)}
<1>1. N \in Nat /\ \A n \in 0 .. N : f[n] = EmitStep(t, v, b, f, n)
    BY OrderFacts DEF Emits
<1>. HIDE DEF N
<1>2. 0 \in S
    <2>1. f[0] = FullVersion(v, b)
        BY <1>1 DEF EmitStep
    <2>2. FullVersion(v, b) \in Seq(Int)
        <3>1. v \in Seq(Int) /\ b \in Seq(Int)
            BY TextFacts
        <3>2. <<DOT>> \in Seq(Int)
            BY DEF DOT
        <3>3. v \o <<DOT>> \in Seq(Int)
            BY ONLY <3>1, <3>2
        <3>. QED
            BY ONLY <3>1, <3>3 DEF FullVersion
    <2>3. Good(0)
        BY <2>1, <2>2
    <2>. QED
        BY <2>3
<1>3. ASSUME NEW n \in S PROVE n + 1 \in S
    <2>. SUFFICES ASSUME n + 1 <= N PROVE Good(n + 1)
        OBVIOUS
    <2>0. n \in Nat /\ (n <= N => Good(n))
        OBVIOUS
    <2>1. n \in Nat /\ n + 1 \in 1 .. N /\ Good(n)
        <3>. HIDE DEF Good
        <3>. QED
            BY <1>1, <2>0
    <2>. DEFINE piece == Bytes(Order[n + 1], t)
    <2>2. f[n + 1] = f[n] \o piece
        <3>1. n + 1 \in 0 .. N /\ n + 1 # 0 /\ (n + 1) - 1 = n
            BY <2>1
        <3>. QED
            BY <1>1, <3>1 DEF EmitStep
    <2>3. piece \in Seq(Int)
        <3>1. Order[n + 1] \in DOMAIN STRINGS
            BY <2>1, OrderFacts DEF N
        <3>. QED
            BY <3>1, TextBytes
    <2>4. f[n] \in Seq(Int)
        BY <2>1
    <2>. HIDE DEF piece
    <2>5. /\ f[n + 1] \in Seq(Int) /\ Len(f[n]) <= Len(f[n + 1])
          /\ \A i \in 1 .. Len(f[n]) : f[n + 1][i] = f[n][i]
        BY ONLY <2>2, <2>3, <2>4
    <2>6. ASSUME NEW m \in 0 .. n + 1
          PROVE  /\ Len(f[m]) <= Len(f[n + 1])
                 /\ \A i \in 1 .. Len(f[m]) : f[n + 1][i] = f[m][i]
        <3>1. CASE m = n + 1
            BY <2>5, <3>1
        <3>2. CASE m # n + 1
            <4>1. m \in 0 .. n
                BY <2>1, <3>2
            <4>2. /\ Len(f[m]) <= Len(f[n])
                  /\ \A i \in 1 .. Len(f[m]) : f[n][i] = f[m][i]
                BY <2>1, <4>1
            <4>3. f[m] \in Seq(Int) \/ Len(f[m]) \in Int \/ ~(Len(f[m]) \in Int)
                OBVIOUS
            <4>4. Len(f[n]) \in Nat /\ Len(f[n + 1]) \in Nat
                BY <2>4, <2>5
            <4>. QED
                BY <2>5, <4>2, <4>4
        <3>. QED
            BY <3>1, <3>2
    <2>. QED
        BY <2>5, <2>6
<1>4. S = Nat
    <2>1. S \in SUBSET Nat
        OBVIOUS
    <2>. HIDE DEF S
    <2>. QED
        BY <1>2, <1>3, <2>1, NumbersByInduction
<1>5. \A n \in 0 .. N : Good(n)
    BY <1>1, <1>4
<1>. QED
    BY <1>5 DEF N

\* What the game finds in memory: the version, and from each label on the
\* codes of its text, with a zero behind them where there is one.
Laid(e, t, v, b) ==
    /\ \A i \in 1 .. Len(FullVersion(v, b)) : ByteAt(e, i - 1) = FullVersion(v, b)[i]
    /\ \A label \in DOMAIN STRINGS :
          /\ e.at[label] \in Nat
          /\ \A i \in 1 .. Len(t[label]) :
                ByteAt(e, e.at[label] + (i - 1)) = Code(t[label], i)
          /\ label \notin Counted => ByteAt(e, e.at[label] + Len(t[label])) = 0

LEMMA EmitLays ==
    ASSUME NEW t, IsTexts(t), NEW v \in Text, NEW b \in Text
    PROVE  Laid(emit(t, v, b), t, v, b)
<1>. DEFINE N == Len(Order)
            e == emit(t, v, b)
            nth(label) == CHOOSE k \in DOMAIN Order : Order[k] = label
<1>1. PICK f : /\ Emits(f, t, v, b)
               /\ e = [bytes |-> f[N],
                       at    |-> [label \in DOMAIN t |-> Len(f[nth(label) - 1])]]
    <2>. DEFINE F == CHOOSE g : Emits(g, t, v, b)
    <2>1. Emits(F, t, v, b)
        BY SomeEmission
    <2>2. e = [bytes |-> F[N],
               at    |-> [label \in DOMAIN t |-> Len(F[nth(label) - 1])]]
        BY DEF emit, Emits, EmitStep
    <2>. HIDE DEF F, nth, e
    <2>. QED
        BY <2>1, <2>2
<1>2. \A label \in DOMAIN STRINGS : nth(label) \in 1 .. N /\ Order[nth(label)] = label
    BY OrderFacts
<1>3. /\ e.bytes = f[N]
      /\ \A label \in DOMAIN STRINGS : e.at[label] = Len(f[nth(label) - 1])
    <2>. HIDE DEF e, nth
    <2>. QED
        BY <1>1 DEF IsTexts
<1>. HIDE DEF e, nth
<1>4. N \in Nat /\ \A n \in 0 .. N : f[n] = EmitStep(t, v, b, f, n)
    BY <1>1, OrderFacts DEF Emits
<1>5. \A n \in 0 .. N :
         /\ f[n] \in Seq(Int)
         /\ \A m \in 0 .. n : /\ Len(f[m]) <= Len(f[n])
                              /\ \A i \in 1 .. Len(f[m]) : f[n][i] = f[m][i]
    BY <1>1, Grows
<1>. HIDE DEF N
<1>6. ASSUME NEW n \in 0 .. N, NEW i \in 1 .. Len(f[n])
      PROVE  ByteAt(e, i - 1) = f[n][i]
    <2>1. /\ f[N] \in Seq(Int) /\ f[n] \in Seq(Int)
          /\ Len(f[n]) <= Len(f[N]) /\ f[N][i] = f[n][i]
        BY <1>4, <1>5
    <2>2. i - 1 < Len(f[N]) /\ (i - 1) + 1 = i
        BY <2>1
    <2>. QED
        BY <1>3, <2>1, <2>2 DEF ByteAt
<1>7. ASSUME NEW i \in 1 .. Len(FullVersion(v, b))
      PROVE  ByteAt(e, i - 1) = FullVersion(v, b)[i]
    <2>1. 0 \in 0 .. N /\ f[0] = FullVersion(v, b)
        BY <1>4 DEF EmitStep
    <2>. QED
        BY <1>6, <2>1
<1>8. ASSUME NEW label \in DOMAIN STRINGS
      PROVE  /\ e.at[label] \in Nat
             /\ \A i \in 1 .. Len(t[label]) :
                   ByteAt(e, e.at[label] + (i - 1)) = Code(t[label], i)
             /\ label \notin Counted => ByteAt(e, e.at[label] + Len(t[label])) = 0
    <2>. DEFINE n     == nth(label)
                piece == Bytes(label, t)
                o     == e.at[label]
    <2>1. n \in 1 .. N /\ Order[n] = label /\ o = Len(f[n - 1])
        BY <1>2, <1>3
    <2>2. n \in 0 .. N /\ n # 0 /\ n - 1 \in 0 .. N
        BY <1>4, <2>1
    <2>3. f[n] = f[n - 1] \o piece
        BY <1>4, <2>1, <2>2 DEF EmitStep
    <2>4. /\ piece \in Seq(Int) /\ Len(t[label]) \in Nat
          /\ Len(piece) = IF label \in Counted THEN Len(t[label]) ELSE Len(t[label]) + 1
          /\ \A i \in 1 .. Len(t[label]) : piece[i] = Code(t[label], i)
          /\ label \notin Counted => piece[Len(t[label]) + 1] = 0
        BY TextBytes
    <2>5. f[n - 1] \in Seq(Int)
        BY <1>5, <2>2
    <2>. HIDE DEF n, piece, o
    <2>6. /\ o \in Nat /\ Len(f[n]) = o + Len(piece)
          /\ \A i \in 1 .. Len(piece) : f[n][o + i] = piece[i]
        <3>1. piece \in Seq(Int)
            BY <2>4
        <3>2. /\ Len(f[n - 1] \o piece) = Len(f[n - 1]) + Len(piece)
              /\ \A i \in 1 .. Len(f[n - 1]) + Len(piece) :
                    (f[n - 1] \o piece)[i] = IF i <= Len(f[n - 1]) THEN f[n - 1][i]
                                            ELSE piece[i - Len(f[n - 1])]
            BY ONLY <2>5, <3>1, ConcatProperties
        <3>3. o \in Nat /\ Len(piece) \in Nat
            BY ONLY <2>1, <2>5, <3>1
        <3>4. \A i \in 1 .. Len(piece) : /\ o + i \in 1 .. o + Len(piece)
                                         /\ ~(o + i <= o) /\ (o + i) - o = i
            BY ONLY <3>3
        <3>. QED
            BY <2>1, <2>3, <3>2, <3>3, <3>4
    <2>7. ASSUME NEW i \in 1 .. Len(piece) PROVE ByteAt(e, o + (i - 1)) = piece[i]
        <3>1. o + i \in 1 .. Len(f[n]) /\ o + (i - 1) = (o + i) - 1
            BY <2>4, <2>6
        <3>. QED
            BY <1>6, <2>2, <2>6, <3>1
    <2>8. \A i \in 1 .. Len(t[label]) : i \in 1 .. Len(piece)
        BY <2>4
    <2>9. ASSUME label \notin Counted
          PROVE  /\ Len(t[label]) + 1 \in 1 .. Len(piece)
                 /\ Len(t[label]) = (Len(t[label]) + 1) - 1
        BY <2>4, <2>9
    <2>. QED
        BY <2>4, <2>6, <2>7, <2>8, <2>9 DEF o
<1>. QED
    BY <1>7, <1>8 DEF Laid, e

-----------------------------------------------------------------------------
(* CONWAY: what each routine draws *)

\* Sources that the generators and the gate let through.
Passed(t, v, b, e) ==
    /\ IsTexts(t) /\ v \in Text /\ b \in Text /\ e \in [EquateNames -> 0 .. 255]
    /\ \A label \in DOMAIN STRINGS : to_screencode(t[label]).ok
    /\ EquatesMatch(t, v, b, e) /\ TextsFit(t, v, b)

LEMMA PromptNames ==
    /\ "menuNoneText" \in DOMAIN STRINGS /\ "statusText" \in DOMAIN STRINGS
    /\ \A state : PromptOf(state) \in DOMAIN STRINGS \ Counted /\ PromptOf(state) \in Prompts
    BY ScreenAssumption DEF PromptOf, Counted, Prompts

LEMMA TextLengths ==
    ASSUME NEW t, NEW v, NEW b, NEW e, Passed(t, v, b, e)
    PROVE  /\ \A label \in DOMAIN STRINGS : Len(t[label]) \in Nat
           /\ \A label \in Prompts : Len(t[label]) <= 40
           /\ Len(t["statusText"]) = 40 /\ e["STATUS_TEXT_LEN"] = 40
           /\ e["MENU_NONE_LEN"] = Len(t["menuNoneText"])
           /\ Len(t["menuNoneText"]) \in 0 .. 255
           /\ e["MENU_VERSION_LEN"] = Len(FullVersion(v, b))
           /\ Len(FullVersion(v, b)) \in 1 .. 40
           /\ DOMAIN FullVersion(v, b) = 1 .. Len(FullVersion(v, b))
           /\ Len(t["menuPromptSurvival"]) + 1 <= 40 - Len(FullVersion(v, b))
<1>. DEFINE full == FullVersion(v, b)
<1>1. IsTexts(t) /\ v \in Text /\ b \in Text /\ e \in [EquateNames -> 0 .. 255]
    BY DEF Passed
<1>2. \A label \in DOMAIN STRINGS : Len(t[label]) \in Nat
    BY <1>1, TextFacts DEF IsTexts
<1>3. /\ \A label \in Prompts : Len(t[label]) <= 40
      /\ Len(t["statusText"]) = 40 /\ e["STATUS_TEXT_LEN"] = 40
      /\ e["MENU_NONE_LEN"] = Len(t["menuNoneText"])
      /\ e["MENU_VERSION_LEN"] = Len(full) /\ Len(full) <= 40
      /\ Len(t["menuPromptSurvival"]) + 1 <= 40 - Len(full)
    BY DEF Passed, EquatesMatch, TextsFit, menu_version_len, GRID_W
<1>4. Len(t["menuNoneText"]) \in 0 .. 255
    BY <1>1, <1>3 DEF EquateNames
<1>5. v \in Seq(Int) /\ b \in Seq(Int) /\ <<DOT>> \in Seq(Int) /\ Len(<<DOT>>) = 1
    BY <1>1, TextFacts DEF DOT
<1>6. full = v \o <<DOT>> \o b
    BY DEF FullVersion
<1>. HIDE DEF full
<1>7. /\ v \o <<DOT>> \in Seq(Int) /\ Len(v \o <<DOT>>) = Len(v) + Len(<<DOT>>)
    BY ONLY <1>5, ConcatProperties
<1>8. full \in Seq(Int) /\ Len(full) = Len(v \o <<DOT>>) + Len(b)
    BY ONLY <1>5, <1>6, <1>7, ConcatProperties
<1>9. Len(full) \in Nat /\ Len(full) >= 1 /\ DOMAIN full = 1 .. Len(full)
    BY <1>5, <1>7, <1>8
<1>10. Len(full) \in 1 .. 40
    <2>1. 1 \in Int /\ 40 \in Int /\ \A x \in Nat : x >= 1 => 1 <= x
        OBVIOUS
    <2>. QED
        BY ONLY <1>3, <1>9, <2>1, Between, Zenon
<1>. QED
    BY ONLY <1>2, <1>3, <1>4, <1>9, <1>10, Zenon DEF full

\* No code is the zero that ends a text.
LEMMA CodesNotZero ==
    ASSUME NEW t, NEW v, NEW b, NEW e, Passed(t, v, b, e),
           NEW label \in DOMAIN STRINGS, NEW i \in 1 .. Len(t[label])
    PROVE  Code(t[label], i) # 0
<1>. DEFINE text == t[label]
<1>1. text \in Text /\ to_screencode(text).ok
    BY DEF Passed, IsTexts
<1>2. i \in 1 .. Len(text)
    OBVIOUS
<1>. HIDE DEF text
<1>3. DOMAIN text = 1 .. Len(text) /\ text[i] \in Int
    BY <1>1, <1>2, TextFacts
<1>4. text[i] \in Convertible
    <2>1. ToSet(text) \subseteq Convertible
        BY <1>1 DEF to_screencode
    <2>2. text[i] \in ToSet(text)
        BY <1>2, <1>3 DEF ToSet
    <2>. QED
        BY <2>1, <2>2
<1>5. Code(text, i) = IF text[i] > 63 THEN text[i] - 96 ELSE text[i]
    BY <1>2, <1>3 DEF Code, to_screencode
<1>6. Code(text, i) # 0
    <2>1. text[i] \in 32 .. 63 \/ text[i] \in 97 .. 122
        BY <1>4 DEF Convertible
    <2>2. text[i] # 0 /\ (text[i] > 63 => text[i] - 96 # 0)
        BY ONLY <1>3, <2>1, CodeRanges, Zenon
    <2>. QED
        BY ONLY <1>5, <2>2, Zenon
<1>. QED
    BY <1>6 DEF text

\* COPYMENUSTRING stops at its text's end.
LEMMA Copies ==
    ASSUME NEW t, NEW v, NEW b, NEW e, Passed(t, v, b, e), NEW m, Laid(m, t, v, b),
           NEW label \in DOMAIN STRINGS \ Counted, Len(t[label]) <= 40,
           NEW scr, NEW dst \in Nat, NEW c \in Memory
    PROVE  COPYMENUSTRING(m, scr, label, dst)[c] =
              IF c - dst + 1 \in 1 .. Len(t[label]) THEN Code(t[label], c - dst + 1)
              ELSE scr[c]
<1>. DEFINE from == m.at[label]
            L == Len(t[label])
            Ends(k) == /\ k = 256 \/ ByteAt(m, from + k) = 0
                       /\ \A j \in 0 .. k - 1 : ByteAt(m, from + j) # 0
            n == CHOOSE k \in 0 .. 256 : Ends(k)
<1>1. /\ L \in 0 .. 40 /\ from \in Nat
      /\ \A i \in 1 .. L : ByteAt(m, from + (i - 1)) = Code(t[label], i)
      /\ ByteAt(m, from + L) = 0
    <2>1. label \in DOMAIN STRINGS /\ label \notin Counted
        OBVIOUS
    <2>2. L \in Nat
        BY <2>1, TextLengths
    <2>3. /\ from \in Nat /\ ByteAt(m, from + L) = 0
          /\ \A i \in 1 .. L : ByteAt(m, from + (i - 1)) = Code(t[label], i)
        BY <2>1 DEF Laid
    <2>4. Len(t[label]) <= 40 /\ 0 \in Int /\ 40 \in Int /\ \A x \in Nat : 0 <= x
        OBVIOUS
    <2>5. L \in 0 .. 40
        BY ONLY <2>2, <2>4, Between, Zenon DEF L
    <2>. QED
        BY ONLY <2>3, <2>5, Zenon
<1>2. \A i \in 1 .. L : Code(t[label], i) # 0
    BY CodesNotZero
<1>3. \A j \in 0 .. L - 1 : ByteAt(m, from + j) # 0
    <2>. SUFFICES ASSUME NEW j \in 0 .. L - 1 PROVE ByteAt(m, from + j) # 0
        OBVIOUS
    <2>1. j + 1 \in 1 .. L /\ (j + 1) - 1 = j
        BY <1>1
    <2>. QED
        BY <1>1, <1>2, <2>1
<1>4. COPYMENUSTRING(m, scr, label, dst)
         = Store(scr, dst, [i \in 1 .. n |-> ByteAt(m, from + i - 1)])
    BY DEF COPYMENUSTRING
<1>. HIDE DEF from, L
<1>5. n = L
    <2>1. Ends(L) /\ L \in 0 .. 256
        BY <1>1, <1>3
    <2>2. \A k \in 0 .. 256 : Ends(k) => k = L
        <3>. SUFFICES ASSUME NEW k \in 0 .. 256, Ends(k) PROVE k = L
            OBVIOUS
        <3>1. CASE k < L
            <4>1. k \in 0 .. L - 1 /\ k # 256
                BY <1>1, <3>1
            <4>. QED
                BY <1>3, <4>1
        <3>2. CASE k > L
            <4>1. L \in 0 .. k - 1
                BY <1>1, <3>2
            <4>. QED
                BY <1>1, <4>1
        <3>. QED
            BY <1>1, <3>1, <3>2
    <2>. HIDE DEF Ends
    <2>. QED
        BY <2>1, <2>2
<1>. HIDE DEF n
<1>6. DOMAIN [i \in 1 .. n |-> ByteAt(m, from + i - 1)] = 1 .. L
    BY <1>5
<1>7. COPYMENUSTRING(m, scr, label, dst)[c]
         = IF c - dst + 1 \in 1 .. L THEN ByteAt(m, from + ((c - dst + 1) - 1)) ELSE scr[c]
    BY <1>4, <1>5, <1>6 DEF Store
<1>. QED
    BY <1>1, <1>7 DEF L

LEMMA Layout ==
    /\ GRID_W = 40 /\ STATUS_ROW_OFFSET = 960 /\ MENU_PROMPT_OFFSET = 920
    /\ MENU_BIRTH_FIELD_OFFSET = 612 /\ MENU_SURV_FIELD_OFFSET = 652
    /\ GEN_DIGITS_OFFSET = 995 /\ RULE_COUNT = 9 /\ CHAR_DEAD = 32 /\ CUSTOM = 255
    /\ Memory = 0 .. 1023
    BY DEF GRID_W, STATUS_ROW_OFFSET, MENU_PROMPT_OFFSET, MENU_BIRTH_FIELD_OFFSET,
           MENU_SURV_FIELD_OFFSET, GEN_DIGITS_OFFSET, RULE_COUNT, CHAR_DEAD, CUSTOM, Memory

LEMMA Stored ==
    ASSUME NEW scr, NEW dst, NEW codes, NEW c \in Memory
    PROVE  Store(scr, dst, codes)[c] = IF c - dst + 1 \in DOMAIN codes
                                       THEN codes[c - dst + 1] ELSE scr[c]
    BY DEF Store

LEMMA Cleared ==
    ASSUME NEW scr, NEW cells, NEW c \in Memory
    PROVE  Clear(scr, cells)[c] = IF c \in cells THEN 32 ELSE scr[c]
    BY DEF Clear, CHAR_DEAD

LEMMA ReadAt ==
    \A m, from, n :
        /\ n = 0 => DOMAIN Read(m, from, n) = 1 .. 256
        /\ n # 0 => /\ DOMAIN Read(m, from, n) = 1 .. n
                    /\ \A i \in 1 .. n : Read(m, from, n)[i] = ByteAt(m, from + (i - 1))
<1>. SUFFICES ASSUME NEW m, NEW from, NEW n
              PROVE  /\ n = 0 => DOMAIN Read(m, from, n) = 1 .. 256
                     /\ n # 0 => /\ DOMAIN Read(m, from, n) = 1 .. n
                                 /\ \A i \in 1 .. n :
                                       Read(m, from, n)[i] = ByteAt(m, from + (i - 1))
    OBVIOUS
<1>1. CASE n = 0
    BY <1>1 DEF Read
<1>2. CASE n # 0
    BY <1>2, Zenon DEF Read
<1>. QED
    BY <1>1, <1>2

\* Kinds of cells.  The prompt's row is one of them: the other rows of the
\* menu, and the bytes behind the screen, are those that its routine leaves.
Visible     == 0 .. 999
PromptRow   == 920 .. 959
Hidden      == 1000 .. 1023
BirthCells  == 612 .. 620
SurvCells   == 652 .. 660
IsArrow(c)  == \E q \in 0 .. 8 : c = ArrowCell(q)
InFields(c) == c \in BirthCells \/ c \in SurvCells

\* What the cells of the fields and of the prompt's row show.
BirthAt(bs, c)     == FieldCell(bs, c - 612 + 1)
SurvAt(ss, c)      == FieldCell(ss, c - 652 + 1)
PromptAt(state, c) == PromptCell(state, c - 920)

LEMMA Cells ==
    /\ Visible \subseteq Memory /\ Hidden \subseteq Memory /\ PromptRow \subseteq Visible
    /\ \A c \in Hidden : c \notin Visible /\ c > 919
    /\ \A c \in PromptRow : c > 919 /\ ~InFields(c) /\ ~IsArrow(c)
    /\ \A c \in SurvCells : c \notin BirthCells
    /\ \A c \in Memory : c > 919 => ~IsArrow(c)
<1>1. \A q \in 0 .. 8 : ArrowCell(q) < 483 /\ ArrowCell(q) \in Int
    BY Layout DEF ArrowCell
<1>2. \A c \in 0 .. 1023 : c > 919 => ~IsArrow(c)
    BY <1>1 DEF IsArrow
<1>3. \A c \in PromptRow : c > 919 /\ ~InFields(c) /\ ~IsArrow(c)
    BY <1>1 DEF PromptRow, InFields, BirthCells, SurvCells, IsArrow
<1>. QED
    BY <1>2, <1>3, Layout DEF Visible, Hidden, PromptRow, BirthCells, SurvCells

\* The prompt's row holds nothing but the prompt and the version; the prompt
\* does not reach the version when it is no longer than the one the gate held
\* against it.
PromptFits(state) == Len(texts[PromptOf(state)]) <= Len(texts["menuPromptSurvival"])
NoneFits == Len(texts["menuNoneText"]) \in 1 .. 9

RowDrawn(new, old, state, c) ==
    /\ c \notin PromptRow => new[c] = old[c]
    /\ c \in PromptRow /\ PromptFits(state) => new[c] = PromptAt(state, c)

LEMMA PromptDrawn ==
    ASSUME Passed(texts, version, build, equates), NEW m, Laid(m, texts, version, build),
           NEW scr, NEW state, NEW c \in Memory
    PROVE  RowDrawn(DRAWMENUPROMPT(m, scr, state), scr, state, c)
<1>. DEFINE p       == PromptOf(state)
            P       == Len(texts[p])
            full    == FullVersion(version, build)
            n       == Len(full)
            S       == Len(texts["menuPromptSurvival"])
            cleared == Clear(scr, 920 .. 959)
            prompt  == COPYMENUSTRING(m, cleared, p, 920)
            drawn   == DRAWMENUPROMPT(m, scr, state)
<1>1. p \in DOMAIN STRINGS \ Counted /\ p \in Prompts /\ p \in DOMAIN STRINGS
    BY PromptNames
<1>2. /\ P \in Nat /\ P <= 40 /\ n \in 1 .. 40 /\ S + 1 <= 40 - n
      /\ equates["MENU_VERSION_LEN"] = n /\ DOMAIN full = 1 .. n
    <2>1. /\ \A label \in DOMAIN STRINGS : Len(texts[label]) \in Nat
          /\ \A label \in Prompts : Len(texts[label]) <= 40
          /\ equates["MENU_VERSION_LEN"] = n /\ n \in 1 .. 40
          /\ DOMAIN full = 1 .. n /\ S + 1 <= 40 - n
        BY TextLengths
    <2>. QED
        BY ONLY <1>1, <2>1, Zenon
<1>3. S \in Nat
    <2>1. "menuPromptSurvival" \in DOMAIN STRINGS
        BY ScreenAssumption DEF Prompts
    <2>. QED
        BY <2>1, TextLengths, Zenon
<1>4. cleared[c] = IF c \in 920 .. 959 THEN 32 ELSE scr[c]
    BY Cleared
<1>5. prompt[c] = IF c - 920 + 1 \in 1 .. P THEN Code(texts[p], c - 920 + 1) ELSE cleared[c]
    <2>1. 920 \in Nat /\ Len(texts[p]) <= 40
        BY <1>2
    <2>2. Passed(texts, version, build, equates) /\ Laid(m, texts, version, build)
        OBVIOUS
    <2>. HIDE DEF cleared, p
    <2>. QED
        BY <1>1, <2>1, <2>2, Copies DEF p
<1>6. drawn = Store(prompt, 960 - n, Read(m, 0, n))
    <2>1. 920 + 40 - 1 = 959 /\ 920 + 40 - n = 960 - n
        BY <1>2
    <2>2. drawn = Store(prompt, 920 + 40 - n, Read(m, 0, n))
        <3>1. Clear(scr, 920 .. 920 + 40 - 1) = cleared
            BY <2>1
        <3>. HIDE DEF cleared
        <3>. QED
            BY <1>2, <3>1, Layout DEF DRAWMENUPROMPT
    <2>. HIDE DEF drawn, prompt, n
    <2>. QED
        BY <2>1, <2>2
<1>7. DOMAIN Read(m, 0, n) = 1 .. n /\ \A i \in 1 .. n : Read(m, 0, n)[i] = full[i]
    <2>3. \A i \in 1 .. n : ByteAt(m, i - 1) = full[i]
        BY DEF Laid
    <2>. HIDE DEF n, full
    <2>1. n \in 0 .. 255 /\ n # 0 /\ 0 \in Nat
        BY <1>2
    <2>2. /\ DOMAIN Read(m, 0, n) = 1 .. n
          /\ \A i \in 1 .. n : Read(m, 0, n)[i] = ByteAt(m, 0 + (i - 1))
        BY <2>1, ReadAt
    <2>4. \A i \in 1 .. n : 0 + (i - 1) = i - 1
        BY <2>1
    <2>. QED
        BY <2>2, <2>3, <2>4
<1>8. drawn[c] = IF c - (960 - n) + 1 \in 1 .. n THEN full[c - (960 - n) + 1] ELSE prompt[c]
    <2>. HIDE DEF prompt, n, full, drawn
    <2>1. drawn[c] = IF c - (960 - n) + 1 \in DOMAIN Read(m, 0, n)
                     THEN Read(m, 0, n)[c - (960 - n) + 1] ELSE prompt[c]
        BY <1>6, Stored
    <2>. DEFINE i == c - (960 - n) + 1
    <2>2. \A j : j \in DOMAIN Read(m, 0, n) <=> j \in 1 .. n
        BY ONLY <1>7
    <2>3. \A j \in 1 .. n : Read(m, 0, n)[j] = full[j]
        BY ONLY <1>7
    <2>4. drawn[c] = IF i \in DOMAIN Read(m, 0, n) THEN Read(m, 0, n)[i] ELSE prompt[c]
        BY <2>1
    <2>5. drawn[c] = IF i \in 1 .. n THEN full[i] ELSE prompt[c]
        <3>. HIDE DEF i
        <3>. QED
            BY <2>2, <2>3, <2>4, Zenon
    <2>. QED
        BY <2>5
<1>9. c \in 0 .. 1023
    BY Layout
<1>10. ASSUME c \notin 920 .. 959 PROVE drawn[c] = scr[c]
    <2>. HIDE DEF prompt, cleared, n, full, drawn, P, p
    <2>1. c - (960 - n) + 1 \notin 1 .. n /\ c - 920 + 1 \notin 1 .. P
        BY <1>2, <1>9, <1>10
    <2>. QED
        BY <1>4, <1>5, <1>8, <1>10, <2>1
<1>11. ASSUME c \in 920 .. 959, P <= S PROVE drawn[c] = PromptCell(state, c - 920)
    <2>. DEFINE v == c - (960 - n) + 1
    <2>1. PromptCell(state, c - 920)
             = IF v \in 1 .. n THEN full[v]
               ELSE IF v # 0 /\ c - 920 + 1 \in 1 .. P THEN Code(texts[p], c - 920 + 1)
               ELSE 32
        <3>1. c - 920 - (40 - n) + 1 = v
            BY <1>2, <1>9
        <3>2. DOMAIN texts[p] = 1 .. P
            BY <1>1, TextFacts DEF Passed, IsTexts
        <3>3. PromptCell(state, c - 920)
                 = IF c - 920 - (40 - n) + 1 \in DOMAIN full THEN full[c - 920 - (40 - n) + 1]
                   ELSE IF c - 920 - (40 - n) + 1 # 0 /\ c - 920 + 1 \in DOMAIN texts[p]
                        THEN Code(texts[p], c - 920 + 1)
                   ELSE 32
            BY Layout DEF PromptCell
        <3>. HIDE DEF n, full, p, P, v
        <3>. QED
            BY <1>2, <3>1, <3>2, <3>3
    <2>2. v = 0 => c - 920 + 1 \notin 1 .. P
        <3>1. P + 1 <= 40 - n
            <4>. HIDE DEF n, P, S
            <4>. QED
                BY <1>2, <1>3, <1>11
        <3>. HIDE DEF n, P, S
        <3>. QED
            BY <1>2, <1>9, <3>1
    <2>. HIDE DEF prompt, cleared, n, full, drawn, P, p
    <2>. QED
        BY <1>4, <1>5, <1>8, <1>11, <2>1, <2>2
<1>. QED
    BY <1>10, <1>11 DEF RowDrawn, PromptFits, PromptRow, PromptAt

\* A rule has at most nine digits.
LEMMA DigitsFit ==
    ASSUME NEW rule \in SUBSET (0 .. 8)
    PROVE  /\ Cardinality(rule) \in 0 .. 9
           /\ DOMAIN RuleDigits(rule) = 1 .. Cardinality(rule)
           /\ rule # {} => Cardinality(rule) # 0
<1>. DEFINE all == 0 .. 8
            k == Cardinality(rule)
<1>1. IsFiniteSet(all) /\ Cardinality(all) = 9
    <2>1. 0 \in Int /\ 8 \in Int /\ (IF 0 > 8 THEN 0 ELSE 8 - 0 + 1) = 9
        OBVIOUS
    <2>. QED
        BY <2>1, FS_Interval
<1>2. rule \subseteq all
    OBVIOUS
<1>. HIDE DEF all
<1>3. IsFiniteSet(rule) /\ Cardinality(rule) <= 9
    BY <1>1, <1>2, FS_Subset
<1>4. Cardinality(rule) \in Nat /\ (rule # {} => Cardinality(rule) # 0)
    BY <1>3, FS_CardinalityType, FS_EmptySet
<1>5. DOMAIN RuleDigits(rule) = 1 .. Cardinality(rule)
    BY DEF RuleDigits
<1>6. k \in Nat /\ k <= 9
    BY <1>3, <1>4
<1>. HIDE DEF k
<1>7. k \in 0 .. 9
    BY ONLY <1>6
<1>. QED
    BY <1>4, <1>5, <1>7 DEF k

\* A field shows its rule, or the text for an empty one; a text that does not
\* fit runs on, but never reaches the prompt.
FieldDrawn(new, old, offset, rule, c) ==
    /\ c \notin offset .. offset + 255 => new[c] = old[c]
    /\ NoneFits
       => new[c] = IF c \in offset .. offset + 8 THEN FieldCell(rule, c - offset + 1)
                   ELSE old[c]

LEMMA SummaryDrawn ==
    ASSUME Passed(texts, version, build, equates), NEW m, Laid(m, texts, version, build),
           NEW scr, NEW offset \in {612, 652}, NEW rule \in SUBSET (0 .. 8),
           NEW c \in Memory
    PROVE  FieldDrawn(DrawSummary(m, scr, offset, rule), scr, offset, rule, c)
<1>. DEFINE none    == texts["menuNoneText"]
            n       == Len(none)
            from    == m.at["menuNoneText"]
            codes   == IF rule # {} THEN RuleDigits(rule) ELSE Read(m, from, n)
            N       == IF rule # {} THEN Cardinality(rule) ELSE IF n = 0 THEN 256 ELSE n
            cleared == Clear(scr, offset .. offset + 8)
            drawn   == DrawSummary(m, scr, offset, rule)
<1>1. "menuNoneText" \in DOMAIN STRINGS
    BY PromptNames
<1>2. n \in 0 .. 255 /\ equates["MENU_NONE_LEN"] = n
    BY TextLengths
<1>3. drawn = Store(cleared, offset, codes)
    <2>1. offset + 9 - 1 = offset + 8
        OBVIOUS
    <2>2. drawn = Store(Clear(scr, offset .. offset + 9 - 1), offset, codes)
        BY <1>2, Layout DEF DrawSummary
    <2>. HIDE DEF drawn, codes
    <2>. QED
        BY <2>1, <2>2
<1>4. cleared[c] = IF c \in offset .. offset + 8 THEN 32 ELSE scr[c]
    BY Cleared
<1>5. from \in Nat /\ \A i \in 1 .. n : ByteAt(m, from + (i - 1)) = Code(none, i)
    BY <1>1 DEF Laid
<1>6. DOMAIN none = 1 .. n
    BY <1>1, TextFacts DEF Passed, IsTexts
<1>7. /\ Cardinality(rule) \in 0 .. 9 /\ DOMAIN RuleDigits(rule) = 1 .. Cardinality(rule)
    BY DigitsFit
<1>. HIDE DEF n, none, from
<1>8. /\ n = 0 => DOMAIN Read(m, from, n) = 1 .. 256
      /\ n # 0 => /\ DOMAIN Read(m, from, n) = 1 .. n
                  /\ \A i \in 1 .. n : Read(m, from, n)[i] = ByteAt(m, from + (i - 1))
    BY ONLY ReadAt
<1>9. DOMAIN codes = 1 .. N /\ N \in 0 .. 256 /\ (n \in 1 .. 9 => N \in 0 .. 9)
    <2>1. CASE rule # {}
        <3>1. codes = RuleDigits(rule) /\ N = Cardinality(rule)
            BY <2>1
        <3>. HIDE DEF codes, N
        <3>. QED
            BY <1>7, <3>1
    <2>2. CASE rule = {}
        <3>1. codes = Read(m, from, n) /\ N = IF n = 0 THEN 256 ELSE n
            BY <2>2
        <3>. HIDE DEF codes, N
        <3>2. DOMAIN codes = 1 .. N
            BY ONLY <1>8, <3>1, Zenon
        <3>3. N \in 0 .. 256 /\ (n \in 1 .. 9 => N \in 0 .. 9)
            BY <1>2, <3>1
        <3>. QED
            BY <3>2, <3>3
    <2>. QED
        BY ONLY <2>1, <2>2, Zenon
<1>10. ASSUME n \in 1 .. 9, NEW i \in 1 .. 9
       PROVE  FieldCell(rule, i) = IF i \in 1 .. N THEN codes[i] ELSE 32
    <2>1. CASE rule # {}
        <3>1. codes = RuleDigits(rule) /\ N = Cardinality(rule)
            BY <2>1
        <3>2. FieldCell(rule, i) = IF i <= Len(codes) THEN codes[i] ELSE 32
            BY <2>1, <3>1, Zenon DEF FieldCell, CHAR_DEAD
        <3>3. Len(codes) = N
            BY <1>7, <1>9, <3>1
        <3>. HIDE DEF codes, N
        <3>. QED
            BY <1>9, <3>2, <3>3
    <2>2. CASE rule = {}
        <3>. DEFINE conv == to_screencode(none).codes
        <3>1. codes = Read(m, from, n) /\ N = n
            BY <1>10, <2>2
        <3>2. FieldCell(rule, i) = IF i <= Len(conv) THEN conv[i] ELSE 32
            BY <2>2, Layout DEF FieldCell, none
        <3>3. Len(conv) = n
            BY <1>2, <1>6 DEF to_screencode
        <3>4. \A j \in 1 .. n : codes[j] = conv[j]
            <4>1. \A j \in 1 .. n : Code(none, j) = conv[j]
                BY DEF Code
            <4>. HIDE DEF codes, conv
            <4>. QED
                BY <1>5, <1>8, <1>10, <3>1, <4>1
        <3>. HIDE DEF codes, N, conv
        <3>. QED
            BY <1>10, <3>1, <3>2, <3>3, <3>4
    <2>. QED
        BY <2>1, <2>2
<1>11. drawn[c] = IF c - offset + 1 \in 1 .. N THEN codes[c - offset + 1] ELSE cleared[c]
    <2>. HIDE DEF drawn, codes, cleared, N
    <2>1. \A j : j \in DOMAIN codes <=> j \in 1 .. N
        BY ONLY <1>9
    <2>2. drawn[c] = IF c - offset + 1 \in DOMAIN codes THEN codes[c - offset + 1]
                     ELSE cleared[c]
        BY <1>3, Stored
    <2>. QED
        BY <2>1, <2>2
<1>12. c \in 0 .. 1023
    BY Layout
<1>. HIDE DEF drawn, codes, cleared, N
<1>13. ASSUME c \notin offset .. offset + 255 PROVE drawn[c] = scr[c]
    <2>1. c - offset + 1 \notin 1 .. N /\ c \notin offset .. offset + 8
        BY <1>9, <1>12, <1>13
    <2>. QED
        BY <1>4, <1>11, <2>1
<1>14. ASSUME n \in 1 .. 9
       PROVE  drawn[c] = IF c \in offset .. offset + 8 THEN FieldCell(rule, c - offset + 1)
                         ELSE scr[c]
    <2>1. CASE c \in offset .. offset + 8
        <3>1. c - offset + 1 \in 1 .. 9
            BY <2>1
        <3>. QED
            BY <1>4, <1>10, <1>11, <1>14, <2>1, <3>1
    <2>2. CASE c \notin offset .. offset + 8
        <3>1. c - offset + 1 \notin 1 .. N
            BY <1>9, <1>12, <1>14, <2>2
        <3>. QED
            BY <1>4, <1>11, <2>2, <3>1
    <2>. QED
        BY <2>1, <2>2
<1>. QED
    BY <1>13, <1>14 DEF drawn, n, none, FieldDrawn, NoneFits

\* The arrow stands in front of the preset, and nowhere else.
LEMMA ArrowDrawn ==
    ASSUME NEW scr, NEW p \in (0 .. 8) \cup {CUSTOM}, NEW c \in Memory
    PROVE  DRAWPRESETARROW(scr, p)[c]
              = IF p # CUSTOM /\ c = ArrowCell(p) THEN 62
                ELSE IF \E q \in 0 .. 8 : c = ArrowCell(q) THEN 32
                ELSE scr[c]
<1>. DEFINE cells   == {ArrowCell(q) : q \in 0 .. 8}
            cleared == Clear(scr, cells)
<1>1. cleared[c] = IF \E q \in 0 .. 8 : c = ArrowCell(q) THEN 32 ELSE scr[c]
    <2>1. c \in cells <=> \E q \in 0 .. 8 : c = ArrowCell(q)
        OBVIOUS
    <2>. HIDE DEF cells
    <2>2. cleared[c] = IF c \in cells THEN 32 ELSE scr[c]
        BY Cleared
    <2>. QED
        BY <2>1, <2>2
<1>2. DRAWPRESETARROW(scr, p) = IF p = CUSTOM THEN cleared
                                ELSE Store(cleared, ArrowCell(p), <<62>>)
    BY DEF DRAWPRESETARROW
<1>. HIDE DEF cleared
<1>3. CASE p = CUSTOM
    BY <1>1, <1>2, <1>3
<1>4. CASE p # CUSTOM
    <2>1. p \in 0 .. 8 /\ c \in 0 .. 1023
        BY <1>4, Layout
    <2>2. ArrowCell(p) \in Int
        BY <2>1, Layout DEF ArrowCell
    <2>3. Store(cleared, ArrowCell(p), <<62>>)[c]
             = IF c - ArrowCell(p) + 1 \in DOMAIN <<62>> THEN <<62>>[c - ArrowCell(p) + 1]
               ELSE cleared[c]
        BY Stored
    <2>4. DOMAIN <<62>> = {1} /\ <<62>>[1] = 62
        OBVIOUS
    <2>5. c - ArrowCell(p) + 1 = 1 <=> c = ArrowCell(p)
        BY <2>1, <2>2
    <2>. QED
        BY <1>1, <1>2, <1>4, <2>3, <2>4, <2>5
<1>. QED
    BY <1>3, <1>4

-----------------------------------------------------------------------------
(* CONWAY: the lines of the menu *)

\* One line drawn after the other.
LineStep(m, scr, f, n) ==
    IF n = 0 THEN Clear(scr, 0 .. 999)
    ELSE COPYMENUSTRING(m, f[n - 1], MENUDESCRIPTORS[n][1],
            MENUDESCRIPTORS[n][2] * GRID_W + MENUDESCRIPTORS[n][3])
Draws(f, m, scr) == f = [n \in 0 .. Len(MENUDESCRIPTORS) |-> LineStep(m, scr, f, n)]

\* The lines that have a character in cell c.
Here(c) == {i \in DOMAIN MENUDESCRIPTORS :
               /\ MENUDESCRIPTORS[i][2] = Row(c)
               /\ Column(c) - MENUDESCRIPTORS[i][3] + 1
                     \in DOMAIN texts[MENUDESCRIPTORS[i][1]]}

LEMMA Descriptors ==
    /\ Len(MENUDESCRIPTORS) \in Nat
    /\ DOMAIN MENUDESCRIPTORS = 1 .. Len(MENUDESCRIPTORS)
    /\ \A i \in DOMAIN MENUDESCRIPTORS :
          /\ MENUDESCRIPTORS[i][1] \in DOMAIN STRINGS \ Counted
          /\ MENUDESCRIPTORS[i][2] \in 0 .. 22 /\ MENUDESCRIPTORS[i][3] \in 0 .. 39
<1>. DEFINE A == (DOMAIN STRINGS) \ Counted
<1>1. MENUDESCRIPTORS \in Seq(A \X (0 .. 22) \X (0 .. 39))
    BY DescriptorAssumption
<1>. HIDE DEF A
<1>2. /\ Len(MENUDESCRIPTORS) \in Nat
      /\ DOMAIN MENUDESCRIPTORS = 1 .. Len(MENUDESCRIPTORS)
      /\ \A i \in DOMAIN MENUDESCRIPTORS :
            MENUDESCRIPTORS[i] \in A \X (0 .. 22) \X (0 .. 39)
    BY <1>1
<1>3. \A i \in DOMAIN MENUDESCRIPTORS :
         /\ MENUDESCRIPTORS[i][1] \in A
         /\ MENUDESCRIPTORS[i][2] \in 0 .. 22 /\ MENUDESCRIPTORS[i][3] \in 0 .. 39
    BY <1>2
<1>. QED
    BY <1>2, <1>3 DEF A

OnGrid(c) == /\ Row(c) \in 0 .. 24 /\ Column(c) \in 0 .. 39
             /\ c = 40 * Row(c) + Column(c)

LEMMA CellGrid == \A c \in Visible : OnGrid(c)
    BY Layout DEF Row, Column, OnGrid, Visible

\* Where a line lies in screen RAM is where it lies in its row.
LEMMA Covered ==
    ASSUME Passed(texts, version, build, equates), NEW i \in DOMAIN MENUDESCRIPTORS,
           NEW c \in Memory
    PROVE  LET d   == MENUDESCRIPTORS[i]
               dst == d[2] * GRID_W + d[3]
           IN  /\ Len(texts[d[1]]) <= 40 /\ dst \in Nat
               /\ c \in 1000 .. 1023 => c - dst + 1 \notin 1 .. Len(texts[d[1]])
               /\ c \in 0 .. 999 =>
                     /\ c - dst + 1 \in 1 .. Len(texts[d[1]]) <=> i \in Here(c)
                     /\ i \in Here(c) => c - dst + 1 = Column(c) - d[3] + 1
<1>. DEFINE d   == MENUDESCRIPTORS[i]
            L   == Len(texts[d[1]])
            row == d[2]
            col == d[3]
<1>1. d[1] \in DOMAIN STRINGS /\ row \in 0 .. 22 /\ col \in 0 .. 39
    BY Descriptors
<1>2. L \in Nat /\ DOMAIN texts[d[1]] = 1 .. L
    <2>1. texts[d[1]] \in Text
        BY <1>1 DEF Passed, IsTexts
    <2>. QED
        BY <2>1, TextFacts
<1>3. col + L <= 40
    BY Layout DEF Passed, TextsFit
<1>4. i \in Here(c) <=> row = Row(c) /\ Column(c) - col + 1 \in 1 .. L
    BY <1>2 DEF Here
<1>5. c \in 0 .. 1023
    BY Layout
<1>. HIDE DEF L, row, col
<1>6. row * 40 + col \in Nat /\ L <= 40
    BY <1>1, <1>2, <1>3
<1>7. c \in 1000 .. 1023 => c - (row * 40 + col) + 1 \notin 1 .. L
    BY <1>1, <1>2, <1>3
<1>10. c \in Int /\ row \in Int /\ col \in Int /\ L \in Int
    <2>1. c \in Int
        BY <1>5
    <2>2. row \in Int
        BY <1>1
    <2>3. col \in Int
        BY <1>1
    <2>4. L \in Int
        BY <1>2
    <2>. QED
        BY ONLY <2>1, <2>2, <2>3, <2>4, Zenon
<1>8. ASSUME c \in 0 .. 999
      PROVE  /\ c - (row * 40 + col) + 1 \in 1 .. L <=> i \in Here(c)
             /\ i \in Here(c) => c - (row * 40 + col) + 1 = Column(c) - col + 1
    <2>0. c \in Visible
        BY <1>8 DEF Visible
    <2>1. Row(c) \in 0 .. 24 /\ Column(c) \in 0 .. 39 /\ c = 40 * Row(c) + Column(c)
        BY <2>0, CellGrid, Zenon DEF OnGrid
    <2>4. Row(c) \in Int
        BY <2>1
    <2>5. Column(c) \in Int
        BY <2>1
    <2>2. ASSUME c - (row * 40 + col) + 1 \in 1 .. L PROVE row = Row(c)
        <3>1. col >= 0
            BY <1>1
        <3>. QED
            BY ONLY <1>3, <1>10, <2>1, <2>2, <2>4, <2>5, <3>1, OneRow, Zenon
    <2>3. row = Row(c) => c - (row * 40 + col) + 1 = Column(c) - col + 1
        <3>2. c - (Row(c) * 40 + col) + 1 = Column(c) - col + 1
            BY ONLY <1>10, <2>1, <2>4, <2>5
        <3>. QED
            BY ONLY <3>2, Zenon
    <2>. QED
        BY <1>4, <2>2, <2>3
<1>9. row * GRID_W + col = row * 40 + col
    BY Layout
<1>. QED
    BY <1>6, <1>7, <1>8, <1>9 DEF L, row, col

\* No two lines share a row.
LEMMA LineAt ==
    ASSUME NEW c
    PROVE  /\ Here(c) = {} => LineCell(c) = 32
           /\ \A i \in Here(c) :
                 /\ Here(c) = {i}
                 /\ LineCell(c) = Code(texts[MENUDESCRIPTORS[i][1]],
                                       Column(c) - MENUDESCRIPTORS[i][3] + 1)
<1>1. Here(c) = {} => LineCell(c) = 32
    BY Layout DEF LineCell, Here
<1>2. ASSUME NEW i \in Here(c)
      PROVE  /\ Here(c) = {i}
             /\ LineCell(c) = Code(texts[MENUDESCRIPTORS[i][1]],
                                   Column(c) - MENUDESCRIPTORS[i][3] + 1)
    <2>1. \A j \in Here(c) : j = i
        BY DescriptorAssumption DEF Here
    <2>2. Here(c) = {i} /\ (CHOOSE j \in Here(c) : TRUE) = i
        BY <2>1
    <2>3. Here(c) # {} => LineCell(c)
             = Code(texts[MENUDESCRIPTORS[CHOOSE j \in Here(c) : TRUE][1]],
                    Column(c) - MENUDESCRIPTORS[CHOOSE j \in Here(c) : TRUE][3] + 1)
        BY DEF LineCell, Here
    <2>. QED
        BY <2>2, <2>3
<1>. QED
    BY <1>1, <1>2

\* The lines drawn so far: blank where there is none yet.
LinesSoFar(f, scr, n) ==
    \A c \in Memory :
       f[n][c] = IF c > 999 THEN scr[c]
                 ELSE IF \A i \in Here(c) : i > n THEN 32
                 ELSE LineCell(c)

LEMMA LinesGrow ==
    ASSUME Passed(texts, version, build, equates), NEW m, Laid(m, texts, version, build),
           NEW scr, NEW f, Draws(f, m, scr)
    PROVE  \A n \in 0 .. Len(MENUDESCRIPTORS) : LinesSoFar(f, scr, n)
<1>. DEFINE D == Len(MENUDESCRIPTORS)
            S == {n \in Nat : n <= D => LinesSoFar(f, scr, n)}
<1>1. D \in Nat /\ DOMAIN MENUDESCRIPTORS = 1 .. D
    BY Descriptors
<1>2. \A n \in 0 .. D : f[n] = LineStep(m, scr, f, n)
    BY <1>1 DEF Draws
<1>. HIDE DEF D
<1>3. 0 \in S
    <2>1. f[0] = Clear(scr, 0 .. 999)
        BY <1>1, <1>2 DEF LineStep
    <2>2. ASSUME NEW c \in Memory
          PROVE  f[0][c] = IF c > 999 THEN scr[c]
                           ELSE IF \A i \in Here(c) : i > 0 THEN 32
                           ELSE LineCell(c)
        <3>1. \A i \in Here(c) : i > 0
            BY <1>1 DEF Here
        <3>2. f[0][c] = IF c \in 0 .. 999 THEN 32 ELSE scr[c]
            BY <2>1, Cleared
        <3>3. c \in 0 .. 1023
            BY Layout
        <3>4. c \in 0 .. 999 <=> ~(c > 999)
            BY <3>3
        <3>. QED
            BY <3>1, <3>2, <3>4
    <2>. QED
        BY <2>2 DEF LinesSoFar
<1>4. ASSUME NEW n \in S PROVE n + 1 \in S
    <2>. SUFFICES ASSUME n + 1 <= D PROVE LinesSoFar(f, scr, n + 1)
        OBVIOUS
    <2>1. n \in Nat /\ n + 1 \in 1 .. D /\ LinesSoFar(f, scr, n)
        BY <1>1
    <2>. DEFINE k   == n + 1
                d   == MENUDESCRIPTORS[k]
                dst == d[2] * GRID_W + d[3]
    <2>2. f[k] = COPYMENUSTRING(m, f[n], d[1], dst)
        <3>1. k \in 0 .. D /\ k # 0 /\ k - 1 = n
            BY <2>1
        <3>2. LineStep(m, scr, f, k) = COPYMENUSTRING(m, f[k - 1], d[1], dst)
            BY <3>1 DEF LineStep
        <3>. QED
            BY <1>2, <3>1, <3>2
    <2>3. k \in DOMAIN MENUDESCRIPTORS /\ d[1] \in DOMAIN STRINGS \ Counted
        BY <1>1, <2>1, Descriptors
    <2>4. k \in Nat /\ k = n + 1
        BY <2>1
    <2>. HIDE DEF k
    <2>5. ASSUME NEW c \in Memory
          PROVE  f[k][c] = IF c > 999 THEN scr[c]
                           ELSE IF \A i \in Here(c) : i > k THEN 32
                           ELSE LineCell(c)
        <3>1. /\ Len(texts[d[1]]) <= 40 /\ dst \in Nat
              /\ c \in 1000 .. 1023 => c - dst + 1 \notin 1 .. Len(texts[d[1]])
              /\ c \in 0 .. 999 =>
                    /\ c - dst + 1 \in 1 .. Len(texts[d[1]]) <=> k \in Here(c)
                    /\ k \in Here(c) => c - dst + 1 = Column(c) - d[3] + 1
            BY <2>3, Covered
        <3>2. c \in 1000 .. 1023 <=> c > 999
            BY Layout
        <3>3. c \in 0 .. 999 <=> ~(c > 999)
            BY Layout
        <3>4. f[n][c] = IF c > 999 THEN scr[c]
                        ELSE IF \A i \in Here(c) : i > n THEN 32
                        ELSE LineCell(c)
            BY <2>1 DEF LinesSoFar
        <3>. HIDE DEF dst, d
        <3>5. f[k][c] = IF c - dst + 1 \in 1 .. Len(texts[d[1]])
                        THEN Code(texts[d[1]], c - dst + 1) ELSE f[n][c]
            <4>1. Passed(texts, version, build, equates) /\ Laid(m, texts, version, build)
                OBVIOUS
            <4>2. \A s : COPYMENUSTRING(m, s, d[1], dst)[c]
                          = IF c - dst + 1 \in 1 .. Len(texts[d[1]])
                            THEN Code(texts[d[1]], c - dst + 1) ELSE s[c]
                <5>1. Len(texts[d[1]]) <= 40 /\ dst \in Nat /\ c \in Memory
                    BY <3>1
                <5>. QED
                    BY ONLY <2>3, <4>1, <5>1, Copies
            <4>. QED
                BY <2>2, <4>2
        <3>6. CASE c > 999
            BY <3>1, <3>2, <3>4, <3>5, <3>6
        <3>7. CASE ~(c > 999) /\ k \in Here(c)
            <4>1. /\ Here(c) = {k}
                  /\ LineCell(c) = Code(texts[d[1]], Column(c) - d[3] + 1)
                BY <3>7, LineAt DEF d
            <4>2. ~(\A i \in Here(c) : i > k)
                BY <2>4, <4>1
            <4>. QED
                BY <3>1, <3>3, <3>5, <3>7, <4>1, <4>2
        <3>8. CASE ~(c > 999) /\ k \notin Here(c)
            <4>1. (\A i \in Here(c) : i > k) <=> (\A i \in Here(c) : i > n)
                <5>1. \A i \in Here(c) : i \in Nat /\ i # k
                    BY <1>1, <3>8 DEF Here
                <5>2. \A i \in Nat : i # k => (i > k <=> i > n)
                    BY <2>1, <2>4
                <5>. QED
                    BY <5>1, <5>2
            <4>2. f[k][c] = f[n][c]
                BY <3>1, <3>3, <3>5, <3>8
            <4>. QED
                BY <3>4, <3>8, <4>1, <4>2
        <3>. QED
            BY <3>6, <3>7, <3>8
    <2>. QED
        BY <2>5 DEF LinesSoFar, k
<1>5. S = Nat
    <2>1. S \in SUBSET Nat
        OBVIOUS
    <2>. HIDE DEF S
    <2>. QED
        BY <1>3, <1>4, <2>1, NumbersByInduction
<1>. QED
    BY <1>1, <1>5 DEF D

\* The lines drawn one by one exist.
LEMMA SomeDrawing ==
    ASSUME NEW m, NEW scr
    PROVE  \E f : Draws(f, m, scr)
<1>. DEFINE NextLine(s, n) ==
                COPYMENUSTRING(m, s, MENUDESCRIPTORS[n][1],
                    MENUDESCRIPTORS[n][2] * GRID_W + MENUDESCRIPTORS[n][3])
            Upto(f, n) == f = [k \in 0 .. n |-> LineStep(m, scr, f, k)]
            S == {n \in Nat : \E f : Upto(f, n)}
<1>1. 0 \in S
    <2>. DEFINE f == [k \in 0 .. 0 |-> Clear(scr, 0 .. 999)]
    <2>1. Upto(f, 0)
        BY DEF LineStep
    <2>. QED
        BY <2>1
<1>2. ASSUME NEW n \in S PROVE n + 1 \in S
    <2>1. n \in Nat
        OBVIOUS
    <2>2. PICK f : Upto(f, n)
        OBVIOUS
    <2>. DEFINE g == [k \in 0 .. n + 1 |-> IF k <= n THEN f[k]
                                           ELSE NextLine(f[n], n + 1)]
    <2>3. \A k \in 0 .. n + 1 : g[k] = LineStep(m, scr, g, k)
        <3>1. \A k \in 0 .. n : f[k] = LineStep(m, scr, f, k)
            BY <2>2
        <3>2. \A k \in 0 .. n : g[k] = f[k]
            BY <2>1
        <3>3. ASSUME NEW k \in 0 .. n PROVE g[k] = LineStep(m, scr, g, k)
            <4>1. CASE k = 0
                BY <3>1, <3>2, <4>1 DEF LineStep
            <4>2. CASE k # 0
                <5>1. k - 1 \in 0 .. n
                    BY <2>1, <4>2
                <5>. QED
                    BY <3>1, <3>2, <4>2, <5>1 DEF LineStep
            <4>. QED
                BY <4>1, <4>2
        <3>4. g[n + 1] = LineStep(m, scr, g, n + 1)
            <4>1. /\ n + 1 # 0 /\ (n + 1) - 1 = n /\ ~(n + 1 <= n) /\ n + 1 \in 0 .. n + 1
                  /\ n \in 0 .. n
                BY <2>1
            <4>2. g[n + 1] = NextLine(f[n], n + 1) /\ g[n] = f[n]
                BY <3>2, <4>1
            <4>. HIDE DEF g
            <4>. QED
                BY <4>1, <4>2 DEF LineStep
        <3>5. \A k \in 0 .. n + 1 : k \in 0 .. n \/ k = n + 1
            BY <2>1
        <3>. HIDE DEF g
        <3>. QED
            BY <3>3, <3>4, <3>5
    <2>4. Upto(g, n + 1)
        <3>1. g = [k \in 0 .. n + 1 |-> g[k]]
            OBVIOUS
        <3>. HIDE DEF g
        <3>2. [k \in 0 .. n + 1 |-> g[k]] = [k \in 0 .. n + 1 |-> LineStep(m, scr, g, k)]
            BY <2>3
        <3>. QED
            BY <3>1, <3>2
    <2>. HIDE DEF g
    <2>5. \E h : Upto(h, n + 1)
        BY <2>4
    <2>. HIDE DEF Upto
    <2>. QED
        BY <2>1, <2>5
<1>3. S = Nat
    <2>1. S \in SUBSET Nat
        OBVIOUS
    <2>. HIDE DEF S
    <2>. QED
        BY <1>1, <1>2, <2>1, NumbersByInduction
<1>4. \E f : Upto(f, Len(MENUDESCRIPTORS))
    BY <1>3, Descriptors
<1>. QED
    BY <1>4 DEF Draws

-----------------------------------------------------------------------------
(* CONWAY: the whole menu *)

\* What a cell outside the prompt's row shows for a rule and a preset.
BodyCell(c, bs, ss, p) ==
    IF c \in BirthCells THEN BirthAt(bs, c)
    ELSE IF c \in SurvCells THEN SurvAt(ss, c)
    ELSE IF p # CUSTOM /\ c = ArrowCell(p) THEN 62
    ELSE LineCell(c)

BodyDrawn(scr, bs, ss, p) ==
    NoneFits =>
       \A c \in Visible : c \notin PromptRow => scr[c] = BodyCell(c, bs, ss, p)

PromptShown(scr, state) ==
    PromptFits(state) =>
       \A c \in PromptRow : scr[c] = PromptAt(state, c)

Behind(scr) == \A c \in Hidden : scr[c] = 255

LinesUnder(scr) ==
    NoneFits =>
       \A c \in Visible :
          c \notin PromptRow /\ ~InFields(c) /\ ~IsArrow(c) => scr[c] = LineCell(c)

RuleDrawn(new, old, bs, ss, p, c) ==
    /\ c > 919 => new[c] = old[c]
    /\ NoneFits =>
          /\ c \in BirthCells => new[c] = BirthAt(bs, c)
          /\ c \in SurvCells => new[c] = SurvAt(ss, c)
          /\ ~InFields(c) /\ p # CUSTOM /\ c = ArrowCell(p) => new[c] = 62
          /\ ~InFields(c) /\ IsArrow(c) /\ ~(p # CUSTOM /\ c = ArrowCell(p)) => new[c] = 32
          /\ ~InFields(c) /\ ~IsArrow(c) => new[c] = old[c]

LEMMA DynamicsDrawn ==
    ASSUME Passed(texts, version, build, equates), NEW m, Laid(m, texts, version, build),
           NEW scr, NEW bs \in SUBSET (0 .. 8), NEW ss \in SUBSET (0 .. 8),
           NEW p \in (0 .. 8) \cup {CUSTOM}, NEW c \in Memory
    PROVE  RuleDrawn(DRAWMENUDYNAMICS(m, scr, bs, ss, p), scr, bs, ss, p, c)
<1>. DEFINE arrow == DRAWPRESETARROW(scr, p)
            first == DrawSummary(m, arrow, 612, bs)
            drawn == DrawSummary(m, first, 652, ss)
            atP   == p # CUSTOM /\ c = ArrowCell(p)
<1>1. DRAWMENUDYNAMICS(m, scr, bs, ss, p) = drawn
    BY Layout DEF DRAWMENUDYNAMICS
<1>2. 612 \in {612, 652} /\ 652 \in {612, 652}
    OBVIOUS
<1>0. c \in 0 .. 1023
    BY Layout
<1>3. FieldDrawn(drawn, first, 652, ss, c)
    <2>. HIDE DEF first
    <2>. QED
        BY <1>2, SummaryDrawn
<1>4. FieldDrawn(first, arrow, 612, bs, c)
    <2>. HIDE DEF arrow
    <2>. QED
        BY <1>2, SummaryDrawn
<1>5. /\ atP => arrow[c] = 62
      /\ ~atP /\ IsArrow(c) => arrow[c] = 32
      /\ ~atP /\ ~IsArrow(c) => arrow[c] = scr[c]
    BY ArrowDrawn DEF IsArrow
<1>6. atP => IsArrow(c)
    BY DEF IsArrow
<1>7. c > 919 => ~IsArrow(c)
    BY Cells
<1>. HIDE DEF drawn, first, arrow, atP
<1>8. ASSUME c > 919 PROVE drawn[c] = scr[c]
    <2>1. c \notin 652 .. 652 + 255 /\ c \notin 612 .. 612 + 255
        BY <1>0, <1>8
    <2>2. drawn[c] = first[c]
        BY <1>3, <2>1 DEF FieldDrawn
    <2>3. first[c] = arrow[c]
        BY <1>4, <2>1 DEF FieldDrawn
    <2>4. ~IsArrow(c)
        BY <1>7, <1>8
    <2>5. arrow[c] = scr[c]
        BY ONLY <1>5, <1>6, <2>4
    <2>. QED
        BY ONLY <2>2, <2>3, <2>5
<1>9. NoneFits =>
         /\ c \in BirthCells => drawn[c] = BirthAt(bs, c)
         /\ c \in SurvCells => drawn[c] = SurvAt(ss, c)
         /\ ~InFields(c) => drawn[c] = arrow[c]
    <2>1. 652 .. 652 + 8 = SurvCells /\ 612 .. 612 + 8 = BirthCells
        BY DEF SurvCells, BirthCells
    <2>2. NoneFits => /\ c \in SurvCells => drawn[c] = SurvAt(ss, c)
                      /\ c \notin SurvCells => drawn[c] = first[c]
        BY <1>3, <2>1 DEF FieldDrawn, SurvAt
    <2>3. NoneFits => /\ c \in BirthCells => first[c] = BirthAt(bs, c)
                      /\ c \notin BirthCells => first[c] = arrow[c]
        BY <1>4, <2>1 DEF FieldDrawn, BirthAt
    <2>4. c \in SurvCells => c \notin BirthCells
        BY Cells
    <2>. QED
        BY ONLY <2>2, <2>3, <2>4 DEF InFields
<1>10. RuleDrawn(drawn, scr, bs, ss, p, c)
    BY ONLY <1>5, <1>6, <1>8, <1>9 DEF RuleDrawn, atP
<1>. QED
    BY <1>1, <1>10

\* In the rows of the presets no line reaches the arrow.
LEMMA ArrowLine ==
    ASSUME Passed(texts, version, build, equates), NEW q \in 0 .. 8
    PROVE  /\ ArrowCell(q) \in 0 .. 482 /\ LineCell(ArrowCell(q)) = 32
<1>. DEFINE a == ArrowCell(q)
<1>1. a = 40 * (4 + q) + 2
    BY Layout DEF ArrowCell
<1>. HIDE DEF a
<1>2. a \in 0 .. 482 /\ a \in 0 .. 999 /\ a \in Visible
    BY <1>1 DEF Visible
<1>3. Row(a) = 4 + q /\ Column(a) = 2
    <2>1. Row(a) \in 0 .. 24 /\ Column(a) \in 0 .. 39 /\ a = 40 * Row(a) + Column(a)
        BY <1>2, CellGrid, Zenon DEF OnGrid
    <2>. DEFINE r == Row(a)
                k == Column(a)
    <2>2. r \in 0 .. 24 /\ k \in 0 .. 39 /\ 40 * (4 + q) + 2 = 40 * r + k
        BY <1>1, <2>1
    <2>. HIDE DEF r, k
    <2>3. r \in Int
        BY <2>2
    <2>4. k \in Int /\ k \in 0 .. 39
        BY <2>2
    <2>5. r = 4 + q
        BY <2>2, <2>3, <2>4
    <2>6. k = 2
        BY <2>2, <2>3, <2>4, <2>5
    <2>. QED
        BY <2>5, <2>6 DEF r, k
<1>4. Here(a) = {}
    <2>. SUFFICES ASSUME NEW i \in Here(a) PROVE FALSE
        OBVIOUS
    <2>. DEFINE d == MENUDESCRIPTORS[i]
    <2>1. /\ i \in DOMAIN MENUDESCRIPTORS /\ d[2] = 4 + q
          /\ 2 - d[3] + 1 \in DOMAIN texts[d[1]]
        BY <1>3 DEF Here
    <2>2. d[3] > 2
        <3>1. 4 + q \in 4 .. 12
            OBVIOUS
        <3>. QED
            BY <2>1, <3>1, DescriptorAssumption
    <2>3. d[1] \in DOMAIN STRINGS /\ d[3] \in 0 .. 39
        BY <2>1, Descriptors
    <2>4. DOMAIN texts[d[1]] = 1 .. Len(texts[d[1]])
        BY <2>3, TextFacts DEF Passed, IsTexts
    <2>5. 2 - d[3] + 1 < 1
        BY <2>2, <2>3
    <2>6. 2 - d[3] + 1 \in 1 .. Len(texts[d[1]])
        BY <2>1, <2>4
    <2>. QED
        BY <2>3, <2>5, <2>6
<1>. QED
    BY <1>2, <1>4, LineAt DEF a

\* The rule and the arrow redrawn over a drawn menu.
LEMMA DynamicsKeep ==
    ASSUME Passed(texts, version, build, equates), NEW m, Laid(m, texts, version, build),
           NEW scr, NEW bs \in SUBSET (0 .. 8), NEW ss \in SUBSET (0 .. 8),
           NEW p \in (0 .. 8) \cup {CUSTOM}, NEW state,
           LinesUnder(scr)
    PROVE  LET drawn == DRAWMENUDYNAMICS(m, scr, bs, ss, p)
           IN  /\ BodyDrawn(drawn, bs, ss, p)
               /\ PromptShown(scr, state) => PromptShown(drawn, state)
               /\ Behind(scr) => Behind(drawn)
<1>. DEFINE drawn == DRAWMENUDYNAMICS(m, scr, bs, ss, p)
<1>0. \A c \in Memory : RuleDrawn(drawn, scr, bs, ss, p, c)
    BY DynamicsDrawn
<1>. HIDE DEF drawn
<1>1. \A c \in Memory : c > 919 => drawn[c] = scr[c]
    BY <1>0, Zenon DEF RuleDrawn
<1>2. NoneFits =>
         \A c \in Visible : c \notin PromptRow => drawn[c] = BodyCell(c, bs, ss, p)
    <2>. SUFFICES ASSUME NoneFits, NEW c \in Visible, c \notin PromptRow
                  PROVE  drawn[c] = BodyCell(c, bs, ss, p)
        OBVIOUS
    <2>1. c \in Memory /\ (c \in SurvCells => c \notin BirthCells)
        BY Cells
    <2>2. RuleDrawn(drawn, scr, bs, ss, p, c)
        BY <1>0, <2>1
    <2>3. IsArrow(c) => LineCell(c) = 32
        BY ArrowLine DEF IsArrow
    <2>4. ~InFields(c) /\ ~IsArrow(c) => scr[c] = LineCell(c)
        BY DEF LinesUnder
    <2>5. p # CUSTOM /\ c = ArrowCell(p) => IsArrow(c)
        BY DEF IsArrow
    <2>. QED
        BY <2>1, <2>2, <2>3, <2>4, <2>5 DEF BodyCell, RuleDrawn, InFields
<1>3. BodyDrawn(drawn, bs, ss, p)
    BY <1>2 DEF BodyDrawn
<1>4. PromptShown(scr, state) => PromptShown(drawn, state)
    <2>1. \A c \in PromptRow : c \in Memory /\ c > 919
        BY Cells
    <2>2. \A c \in PromptRow : drawn[c] = scr[c]
        BY ONLY <1>1, <2>1
    <2>. QED
        BY ONLY <2>2 DEF PromptShown
<1>5. Behind(scr) => Behind(drawn)
    <2>1. \A c \in Hidden : c \in Memory /\ c > 919
        BY Cells
    <2>. QED
        BY ONLY <1>1, <2>1 DEF Behind
<1>. QED
    BY <1>3, <1>4, <1>5 DEF drawn

\* The prompt redrawn over a drawn menu.
LEMMA PromptKeeps ==
    ASSUME Passed(texts, version, build, equates), NEW m, Laid(m, texts, version, build),
           NEW scr, NEW bs, NEW ss, NEW p, NEW state
    PROVE  LET drawn == DRAWMENUPROMPT(m, scr, state)
           IN  /\ BodyDrawn(scr, bs, ss, p) => BodyDrawn(drawn, bs, ss, p)
               /\ PromptShown(drawn, state)
               /\ Behind(scr) => Behind(drawn)
<1>. DEFINE drawn == DRAWMENUPROMPT(m, scr, state)
<1>1. \A c \in Memory : RowDrawn(drawn, scr, state, c)
    BY PromptDrawn
<1>. HIDE DEF drawn
<1>2. BodyDrawn(scr, bs, ss, p) => BodyDrawn(drawn, bs, ss, p)
    <2>1. \A c \in Visible : c \in Memory
        BY Cells
    <2>2. \A c \in Visible : c \notin PromptRow => drawn[c] = scr[c]
        BY ONLY <1>1, <2>1 DEF RowDrawn
    <2>. SUFFICES ASSUME BodyDrawn(scr, bs, ss, p) PROVE BodyDrawn(drawn, bs, ss, p)
        OBVIOUS
    <2>3. NoneFits => \A c \in Visible : c \notin PromptRow => scr[c] = BodyCell(c, bs, ss, p)
        BY Zenon DEF BodyDrawn
    <2>4. NoneFits => \A c \in Visible : c \notin PromptRow => drawn[c] = BodyCell(c, bs, ss, p)
        BY ONLY <2>2, <2>3
    <2>. QED
        BY ONLY <2>4, Zenon DEF BodyDrawn
<1>3. PromptShown(drawn, state)
    <2>1. \A c \in PromptRow : c \in Memory
        BY Cells
    <2>. QED
        BY ONLY <1>1, <2>1 DEF PromptShown, RowDrawn
<1>4. Behind(scr) => Behind(drawn)
    <2>1. \A c \in Hidden : c \in Memory /\ c \notin PromptRow
        BY Cells
    <2>2. \A c \in Hidden : drawn[c] = scr[c]
        BY ONLY <1>1, <2>1 DEF RowDrawn
    <2>. QED
        BY ONLY <2>2 DEF Behind
<1>. QED
    BY <1>2, <1>3, <1>4 DEF drawn

\* The menu drawn from nothing.
LEMMA MenuFresh ==
    ASSUME Passed(texts, version, build, equates), NEW m, Laid(m, texts, version, build),
           NEW scr, NEW bs \in SUBSET (0 .. 8), NEW ss \in SUBSET (0 .. 8),
           NEW p \in (0 .. 8) \cup {CUSTOM}
    PROVE  LET drawn == DRAWMENU(m, scr, bs, ss, p)
           IN  /\ BodyDrawn(drawn, bs, ss, p) /\ PromptShown(drawn, "normal")
               /\ Behind(scr) => Behind(drawn)
<1>. DEFINE D == Len(MENUDESCRIPTORS)
<1>1. PICK f : /\ Draws(f, m, scr)
               /\ DRAWMENU(m, scr, bs, ss, p)
                     = DRAWMENUPROMPT(m, DRAWMENUDYNAMICS(m, f[D], bs, ss, p), "normal")
    <2>. DEFINE F == CHOOSE g : Draws(g, m, scr)
    <2>1. Draws(F, m, scr)
        BY SomeDrawing
    <2>2. DRAWMENU(m, scr, bs, ss, p)
             = DRAWMENUPROMPT(m, DRAWMENUDYNAMICS(m, F[D], bs, ss, p), "normal")
        BY DEF DRAWMENU, Draws, LineStep
    <2>. HIDE DEF F
    <2>. QED
        BY <2>1, <2>2
<1>. DEFINE lines    == f[D]
            dynamics == DRAWMENUDYNAMICS(m, lines, bs, ss, p)
<1>2. D \in Nat /\ DOMAIN MENUDESCRIPTORS = 1 .. D
    BY Descriptors
<1>3. LinesSoFar(f, scr, D)
    BY <1>1, <1>2, LinesGrow
<1>4. ASSUME NEW c \in 0 .. 999 PROVE lines[c] = LineCell(c)
    <2>1. c \in Memory /\ ~(c > 999)
        BY Layout
    <2>2. lines[c] = IF \A i \in Here(c) : i > D THEN 32 ELSE LineCell(c)
        BY <1>3, <2>1, Zenon DEF LinesSoFar
    <2>3. (\A i \in Here(c) : i > D) => Here(c) = {}
        BY <1>2 DEF Here
    <2>. QED
        BY <2>2, <2>3, LineAt
<1>5. Behind(scr) => Behind(lines)
    <2>. SUFFICES ASSUME Behind(scr), NEW c \in Hidden PROVE lines[c] = 255
        BY DEF Behind
    <2>1. c \in Memory /\ c > 999 /\ scr[c] = 255
        BY Cells DEF Behind, Hidden
    <2>2. lines[c] = IF c > 999 THEN scr[c]
                     ELSE IF \A i \in Here(c) : i > D THEN 32
                     ELSE LineCell(c)
        BY <1>3, <2>1 DEF LinesSoFar
    <2>. HIDE DEF lines
    <2>. QED
        BY <2>1, <2>2
<1>. HIDE DEF lines, D
<1>6. /\ BodyDrawn(dynamics, bs, ss, p)
      /\ Behind(lines) => Behind(dynamics)
    <2>1. \A c \in Visible : lines[c] = LineCell(c)
        BY <1>4, Zenon DEF Visible
    <2>2. LinesUnder(lines)
        BY ONLY <2>1 DEF LinesUnder
    <2>. QED
        BY <2>2, DynamicsKeep
<1>. HIDE DEF dynamics
<1>7. LET drawn == DRAWMENUPROMPT(m, dynamics, "normal")
      IN  /\ BodyDrawn(dynamics, bs, ss, p) => BodyDrawn(drawn, bs, ss, p)
          /\ PromptShown(drawn, "normal")
          /\ Behind(dynamics) => Behind(drawn)
    BY PromptKeeps
<1>. QED
    BY <1>1, <1>5, <1>6, <1>7 DEF dynamics, lines

-----------------------------------------------------------------------------
(* CONWAY: the simulation's last row *)

StatusCells    == 960 .. 999
StatusAt(c, n) == IF c < 995 THEN Code(texts["statusText"], c - 960 + 1)
                  ELSE Decimal(n)[c - 995 + 1]

StatusDrawn(scr, n) == \A c \in StatusCells : scr[c] = StatusAt(c, n)

\* The counter overwrites its five cells of the row and nothing else.
LEMMA CounterDrawn ==
    ASSUME NEW scr, NEW n, NEW c \in Memory
    PROVE  /\ c \in 995 .. 999 => DRAWGENERATIONCOUNTER(scr, n)[c] = Decimal(n)[c - 995 + 1]
           /\ c \notin 995 .. 999 => DRAWGENERATIONCOUNTER(scr, n)[c] = scr[c]
<1>. DEFINE digits == Decimal(n)
<1>1. DOMAIN digits = 1 .. 5
    BY DEF Decimal
<1>2. DRAWGENERATIONCOUNTER(scr, n) = Store(scr, 995, digits)
    BY Layout DEF DRAWGENERATIONCOUNTER
<1>. HIDE DEF digits
<1>3. DRAWGENERATIONCOUNTER(scr, n)[c]
         = IF c - 995 + 1 \in DOMAIN digits THEN digits[c - 995 + 1] ELSE scr[c]
    BY <1>2, Stored
<1>4. c \in 0 .. 1023
    BY Layout
<1>5. c - 995 + 1 \in 1 .. 5 <=> c \in 995 .. 999
    BY <1>4
<1>. QED
    BY <1>1, <1>3, <1>5 DEF digits

\* A generation later the row is what it was, but for the counter.
LEMMA NextStatus ==
    ASSUME NEW scr, NEW k, NEW n
    PROVE  LET drawn == DRAWGENERATIONCOUNTER(DRAWGRID(scr), n)
           IN  /\ StatusDrawn(scr, k) => StatusDrawn(drawn, n)
               /\ Behind(scr) => Behind(drawn)
<1>. DEFINE grid  == DRAWGRID(scr)
            drawn == DRAWGENERATIONCOUNTER(grid, n)
<1>1. \A c \in Memory : c >= 960 => grid[c] = scr[c]
    BY Layout DEF DRAWGRID, CHAR_LIVE
<1>. HIDE DEF grid
<1>2. \A c \in Memory : /\ c \in 995 .. 999 => drawn[c] = Decimal(n)[c - 995 + 1]
                        /\ c \notin 995 .. 999 => drawn[c] = grid[c]
    BY CounterDrawn
<1>. HIDE DEF drawn
<1>3. ASSUME StatusDrawn(scr, k) PROVE StatusDrawn(drawn, n)
    <2>. SUFFICES ASSUME NEW c \in StatusCells PROVE drawn[c] = StatusAt(c, n)
        BY DEF StatusDrawn
    <2>1. c \in 960 .. 999 /\ c \in Memory
        BY Layout DEF StatusCells
    <2>2. CASE c \in 995 .. 999
        <3>1. ~(c < 995)
            BY <2>2
        <3>2. drawn[c] = Decimal(n)[c - 995 + 1]
            BY ONLY <1>2, <2>1, <2>2
        <3>. QED
            BY ONLY <3>1, <3>2 DEF StatusAt
    <2>3. CASE c \notin 995 .. 999
        <3>1. c < 995 /\ c >= 960
            BY <2>1, <2>3
        <3>2. drawn[c] = scr[c]
            BY ONLY <1>1, <1>2, <2>1, <2>3, <3>1
        <3>3. scr[c] = StatusAt(c, k)
            BY <1>3 DEF StatusDrawn
        <3>. QED
            BY ONLY <3>1, <3>2, <3>3 DEF StatusAt
    <2>. QED
        BY <2>2, <2>3
<1>4. ASSUME Behind(scr) PROVE Behind(drawn)
    <2>1. \A c \in Hidden : c \in Memory /\ c >= 960 /\ c \notin 995 .. 999
        BY Layout DEF Hidden
    <2>2. \A c \in Hidden : drawn[c] = scr[c]
        BY ONLY <1>1, <1>2, <2>1
    <2>3. \A c \in Hidden : scr[c] = 255
        BY <1>4 DEF Behind
    <2>4. \A c \in Hidden : drawn[c] = 255
        BY ONLY <2>2, <2>3
    <2>. QED
        BY ONLY <2>4 DEF Behind
<1>. QED
    BY <1>3, <1>4 DEF drawn, grid

\* The row drawn from nothing.
LEMMA StatusFresh ==
    ASSUME Passed(texts, version, build, equates), NEW m, Laid(m, texts, version, build),
           NEW scr, NEW n
    PROVE  LET drawn == DRAWSIMULATIONSTATUS(m, DRAWGRID(scr), n)
           IN  /\ StatusDrawn(drawn, n)
               /\ Behind(scr) => Behind(drawn)
<1>. DEFINE grid  == DRAWGRID(scr)
            from  == m.at["statusText"]
            row   == Store(grid, 960, Read(m, from, 40))
            drawn == DRAWGENERATIONCOUNTER(row, n)
            text  == texts["statusText"]
<1>1. \A c \in Memory : c >= 960 => grid[c] = scr[c]
    BY Layout DEF DRAWGRID, CHAR_LIVE
<1>2. DRAWSIMULATIONSTATUS(m, grid, n) = drawn
    <2>1. equates["STATUS_TEXT_LEN"] = 40
        BY TextLengths
    <2>. HIDE DEF grid
    <2>. QED
        BY <2>1, Layout DEF DRAWSIMULATIONSTATUS
<1>3. \A i \in 1 .. 40 : ByteAt(m, from + (i - 1)) = Code(text, i)
    <2>1. "statusText" \in DOMAIN STRINGS /\ Len(text) = 40
        BY PromptNames, TextLengths
    <2>2. \A i \in 1 .. Len(text) : ByteAt(m, from + (i - 1)) = Code(text, i)
        BY <2>1 DEF Laid
    <2>. QED
        BY <2>1, <2>2
<1>. HIDE DEF grid, from, text
<1>4. /\ DOMAIN Read(m, from, 40) = 1 .. 40
      /\ \A i \in 1 .. 40 : Read(m, from, 40)[i] = ByteAt(m, from + (i - 1))
    <2>1. 40 # 0
        OBVIOUS
    <2>. QED
        BY ONLY <2>1, ReadAt
<1>5. \A c \in Memory : /\ c - 960 + 1 \in 1 .. 40 => row[c] = Code(text, c - 960 + 1)
                        /\ c - 960 + 1 \notin 1 .. 40 => row[c] = grid[c]
    <2>. SUFFICES ASSUME NEW c \in Memory
                  PROVE  /\ c - 960 + 1 \in 1 .. 40 => row[c] = Code(text, c - 960 + 1)
                         /\ c - 960 + 1 \notin 1 .. 40 => row[c] = grid[c]
        OBVIOUS
    <2>1. row[c] = IF c - 960 + 1 \in DOMAIN Read(m, from, 40)
                   THEN Read(m, from, 40)[c - 960 + 1] ELSE grid[c]
        BY Stored
    <2>2. \A i \in 1 .. 40 : Read(m, from, 40)[i] = Code(text, i)
        BY ONLY <1>3, <1>4
    <2>. HIDE DEF row
    <2>. QED
        BY <1>4, <2>1, <2>2
<1>. HIDE DEF row
<1>6. \A c \in Memory : /\ c \in 995 .. 999 => drawn[c] = Decimal(n)[c - 995 + 1]
                        /\ c \notin 995 .. 999 => drawn[c] = row[c]
    BY CounterDrawn
<1>. HIDE DEF drawn
<1>7. StatusDrawn(drawn, n)
    <2>. SUFFICES ASSUME NEW c \in StatusCells PROVE drawn[c] = StatusAt(c, n)
        BY DEF StatusDrawn
    <2>1. c \in 960 .. 999 /\ c \in Memory
        BY Layout DEF StatusCells
    <2>2. CASE c \in 995 .. 999
        <3>1. ~(c < 995)
            BY <2>2
        <3>2. drawn[c] = Decimal(n)[c - 995 + 1]
            BY ONLY <1>6, <2>1, <2>2
        <3>. QED
            BY ONLY <3>1, <3>2 DEF StatusAt
    <2>3. CASE c \notin 995 .. 999
        <3>1. c < 995 /\ c - 960 + 1 \in 1 .. 40
            BY <2>1, <2>3
        <3>2. drawn[c] = row[c] /\ row[c] = Code(text, c - 960 + 1)
            BY ONLY <1>5, <1>6, <2>1, <2>3, <3>1
        <3>. QED
            BY ONLY <3>1, <3>2 DEF StatusAt, text
    <2>. QED
        BY <2>2, <2>3
<1>8. ASSUME Behind(scr) PROVE Behind(drawn)
    <2>1. \A c \in Hidden : /\ c \in Memory /\ c >= 960 /\ c \notin 995 .. 999
                            /\ c - 960 + 1 \notin 1 .. 40
        BY Layout DEF Hidden
    <2>2. \A c \in Hidden : drawn[c] = scr[c]
        BY ONLY <1>1, <1>5, <1>6, <2>1
    <2>3. \A c \in Hidden : scr[c] = 255
        BY <1>8 DEF Behind
    <2>4. \A c \in Hidden : drawn[c] = 255
        BY ONLY <2>2, <2>3
    <2>. QED
        BY ONLY <2>4 DEF Behind
<1>. QED
    BY <1>2, <1>7, <1>8 DEF grid

-----------------------------------------------------------------------------
(* CONWAY: the theorems *)

SourcesOK == /\ IsTexts(texts) /\ version \in Text /\ build \in Text
             /\ equates \in [EquateNames -> 0 .. 255]
RuleOK    == /\ birth \in SUBSET (0 .. 8) /\ surv \in SUBSET (0 .. 8)
             /\ preset \in (0 .. 8) \cup {CUSTOM}

\* While the game runs, its texts are the ones that passed, they lie where the
\* code looks for them, and what is on the screen is what they say.
ScreenInv ==
    /\ SourcesOK /\ RuleOK /\ Behind(screen)
    /\ shown = "edit" => menuState = "normal"
    /\ shown \in {"menu", "sim"} => /\ Passed(texts, version, build, equates)
                                   /\ Laid(binary, texts, version, build)
    /\ shown = "menu" => /\ BodyDrawn(screen, birth, surv, preset)
                         /\ PromptShown(screen, menuState)
    /\ shown = "sim" => StatusDrawn(screen, generation)

\* The pictures depend on the sources only.
LEMMA SameSources ==
    ASSUME UNCHANGED sources
    PROVE  /\ BodyDrawn(screen, birth, surv, preset)'
                 <=> BodyDrawn(screen', birth', surv', preset')
           /\ PromptShown(screen, menuState)' <=> PromptShown(screen', menuState')
           /\ StatusDrawn(screen, generation)' <=> StatusDrawn(screen', generation')
           /\ SourcesOK' <=> SourcesOK
           /\ Passed(texts, version, build, equates)'
                 <=> Passed(texts, version, build, equates)
           /\ Laid(binary, texts, version, build)' <=> Laid(binary', texts, version, build)
<1>1. texts' = texts /\ version' = version /\ build' = build /\ equates' = equates
    BY DEF sources
<1>2. BodyDrawn(screen, birth, surv, preset)'
         <=> BodyDrawn(screen', birth', surv', preset')
    BY <1>1 DEF BodyDrawn, NoneFits, BodyCell, BirthAt, SurvAt, FieldCell, LineCell
<1>3. PromptShown(screen, menuState)' <=> PromptShown(screen', menuState')
    BY <1>1 DEF PromptShown, PromptFits, PromptAt, PromptCell
<1>4. StatusDrawn(screen, generation)' <=> StatusDrawn(screen', generation')
    BY <1>1 DEF StatusDrawn, StatusAt
<1>5. SourcesOK' <=> SourcesOK
    BY <1>1 DEF SourcesOK
<1>6. Passed(texts, version, build, equates)' <=> Passed(texts, version, build, equates)
    BY <1>1
<1>7. Laid(binary, texts, version, build)' <=> Laid(binary', texts, version, build)
    BY <1>1
<1>. QED
    BY <1>2, <1>3, <1>4, <1>5, <1>6, <1>7

LEMMA PresetRules ==
    \A p \in DOMAIN Presets : /\ p \in (0 .. 8) \cup {CUSTOM}
                              /\ Presets[p].birth \in SUBSET (0 .. 8)
                              /\ Presets[p].surv \in SUBSET (0 .. 8)
<1>1. 0 .. RULE_COUNT - 1 = 0 .. 8
    BY Layout
<1>. QED
    BY <1>1, ScreenAssumption

LEMMA ScreenStarts ==
    ScreenInit => ScreenInv
<1>. SUFFICES ASSUME ScreenInit PROVE ScreenInv
    OBVIOUS
<1>1. SourcesOK
    BY ScreenAssumption DEF ScreenInit, SourcesOK, IsTexts
<1>2. RuleOK
    BY DEF ScreenInit, RuleOK
<1>3. Behind(screen)
    BY Cells DEF ScreenInit, Behind
<1>. QED
    BY <1>1, <1>2, <1>3 DEF ScreenInit, ScreenInv

\* An edit of the sources is an edit of what is there.
LEMMA EditsKeep ==
    ASSUME ScreenInv, EditSources
    PROVE  ScreenInv'
<1>1. /\ shown = "edit" /\ SourcesOK /\ RuleOK /\ Behind(screen) /\ menuState = "normal"
      /\ shown' = shown /\ screen' = screen /\ menuState' = menuState
      /\ birth' = birth /\ surv' = surv /\ preset' = preset
    BY DEF ScreenInv, EditSources
<1>2. SourcesOK'
    <2>1. CASE /\ \E e \in TextEdits : texts' = [texts EXCEPT ![e[1]] = e[2]]
               /\ UNCHANGED <<version, build, equates>>
        <3>1. PICK e \in TextEdits : texts' = [texts EXCEPT ![e[1]] = e[2]]
            BY <2>1
        <3>2. e[1] \in DOMAIN STRINGS /\ e[2] \in Text
            BY ScreenAssumption
        <3>3. IsTexts(texts')
            BY <1>1, <3>1, <3>2 DEF SourcesOK, IsTexts
        <3>. QED
            BY <1>1, <2>1, <3>3 DEF SourcesOK
    <2>2. CASE /\ \E e \in VersionEdits : version' = e[1] /\ build' = e[2]
               /\ UNCHANGED <<texts, equates>>
        <3>1. version' \in Text /\ build' \in Text
            BY <2>2, ScreenAssumption
        <3>. QED
            BY <1>1, <2>2, <3>1 DEF SourcesOK
    <2>3. CASE /\ \E e \in EquateEdits : equates' = [equates EXCEPT ![e[1]] = e[2]]
               /\ UNCHANGED <<texts, version, build>>
        <3>1. PICK e \in EquateEdits : equates' = [equates EXCEPT ![e[1]] = e[2]]
            BY <2>3
        <3>2. e[1] \in EquateNames /\ e[2] \in 0 .. 255
            BY ScreenAssumption
        <3>3. equates' \in [EquateNames -> 0 .. 255]
            BY <1>1, <3>1, <3>2 DEF SourcesOK
        <3>. QED
            BY <1>1, <2>3, <3>3 DEF SourcesOK
    <2>. QED
        BY <2>1, <2>2, <2>3 DEF EditSources
<1>3. RuleOK' /\ Behind(screen)'
    BY <1>1 DEF RuleOK, Behind
<1>. QED
    BY <1>1, <1>2, <1>3 DEF ScreenInv

\* What a step leaves to show when the sources stay.
LEMMA StepKeeps ==
    ASSUME UNCHANGED sources, SourcesOK, RuleOK', Behind(screen'),
           shown' = "edit" => menuState' = "normal",
           shown' \in {"menu", "sim"} => /\ Passed(texts, version, build, equates)
                                        /\ Laid(binary', texts, version, build),
           shown' = "menu" => /\ BodyDrawn(screen', birth', surv', preset')
                              /\ PromptShown(screen', menuState'),
           shown' = "sim" => StatusDrawn(screen', generation')
    PROVE  ScreenInv'
<1>1. Behind(screen)' <=> Behind(screen')
    BY DEF Behind
<1>. QED
    BY <1>1, SameSources DEF ScreenInv

LEMMA PackageKeeps ==
    ASSUME ScreenInv, Package
    PROVE  ScreenInv'
<1>1. /\ shown = "edit" /\ SourcesOK /\ RuleOK /\ Behind(screen) /\ menuState = "normal"
      /\ UNCHANGED sources /\ menuState' = "normal"
    BY DEF ScreenInv, Package
<1>2. CASE /\ \A label \in DOMAIN texts : to_screencode(texts[label]).ok
           /\ check_conway_layout(texts, version, build, equates)
           /\ shown' = "menu" /\ binary' = emit(texts, version, build)
           /\ preset' = 0 /\ birth' = Presets[0].birth /\ surv' = Presets[0].surv
           /\ screen' = DRAWMENU(binary', screen, birth', surv', 0)
    <2>1. Passed(texts, version, build, equates)
        BY <1>1, <1>2 DEF SourcesOK, Passed, IsTexts, check_conway_layout
    <2>2. Laid(binary', texts, version, build)
        BY <1>1, <1>2, EmitLays DEF SourcesOK
    <2>3. /\ birth' \in SUBSET (0 .. 8) /\ surv' \in SUBSET (0 .. 8)
          /\ preset' \in (0 .. 8) \cup {CUSTOM}
        <3>1. 0 \in DOMAIN Presets
            BY ScreenAssumption
        <3>. QED
            BY <1>2, <3>1, PresetRules
    <2>4. RuleOK'
        BY <2>3 DEF RuleOK
    <2>5. /\ BodyDrawn(screen', birth', surv', preset') /\ PromptShown(screen', "normal")
          /\ Behind(screen) => Behind(screen')
        <3>1. screen' = DRAWMENU(binary', screen, birth', surv', preset')
            BY <1>2
        <3>. QED
            BY ONLY <2>1, <2>2, <2>3, <3>1, MenuFresh
    <2>. QED
        BY <1>1, <1>2, <2>1, <2>2, <2>4, <2>5, StepKeeps
<1>3. CASE shown' = "refused" /\ UNCHANGED <<binary, screen, birth, surv, preset>>
    <2>1. RuleOK' /\ Behind(screen')
        BY <1>1, <1>3 DEF RuleOK
    <2>. QED
        BY <1>1, <1>3, <2>1, StepKeeps
<1>. QED
    BY <1>2, <1>3 DEF Package

\* A step that redraws the menu it shows.
LEMMA MenuStep ==
    ASSUME ScreenInv, shown = "menu", shown' = "menu", UNCHANGED <<sources, binary>>,
           RuleOK', BodyDrawn(screen', birth', surv', preset'),
           PromptShown(screen', menuState'), Behind(screen')
    PROVE  ScreenInv'
<1>1. /\ SourcesOK /\ Passed(texts, version, build, equates)
      /\ Laid(binary', texts, version, build) /\ UNCHANGED sources
    BY DEF ScreenInv
<1>. QED
    BY <1>1, StepKeeps

LEMMA MenuActionsKeep ==
    ASSUME ScreenInv
    PROVE  /\ \A state : EditRule(state) => ScreenInv'
           /\ \A keys \in {{}} \cup {{k} : k \in RuleKeys} :
                 HANDLEMENUEDITKEY(keys) => ScreenInv'
           /\ \A p \in DOMAIN Presets : LOADPRESET(p) => ScreenInv'
<1>1. shown = "menu" =>
         /\ Passed(texts, version, build, equates) /\ Laid(binary, texts, version, build)
         /\ BodyDrawn(screen, birth, surv, preset) /\ PromptShown(screen, menuState)
         /\ RuleOK /\ Behind(screen)
    BY DEF ScreenInv
<1>2. ASSUME NEW state, EditRule(state) PROVE ScreenInv'
    <2>1. /\ shown = "menu" /\ shown' = "menu" /\ UNCHANGED <<sources, binary>>
          /\ menuState' = state /\ screen' = DRAWMENUPROMPT(binary, screen, state)
          /\ birth' = birth /\ surv' = surv /\ preset' = preset
        BY <1>2 DEF EditRule
    <2>2. /\ BodyDrawn(screen', birth, surv, preset) /\ PromptShown(screen', state)
          /\ Behind(screen')
        BY <1>1, <2>1, PromptKeeps
    <2>3. RuleOK'
        BY <1>1, <2>1 DEF RuleOK
    <2>. QED
        BY <2>1, <2>2, <2>3, MenuStep
<1>3. ASSUME BodyDrawn(screen, birth, surv, preset) PROVE LinesUnder(screen)
    <2>1. \A c : InFields(c) <=> c \in BirthCells \/ c \in SurvCells
        BY DEF InFields
    <2>2. preset # CUSTOM => preset \in 0 .. 8
        BY DEF ScreenInv, RuleOK
    <2>3. \A c : preset # CUSTOM /\ c = ArrowCell(preset) => IsArrow(c)
        BY <2>2 DEF IsArrow
    <2>4. \A c : ~InFields(c) /\ ~IsArrow(c) => BodyCell(c, birth, surv, preset) = LineCell(c)
        BY ONLY <2>1, <2>3 DEF BodyCell
    <2>. QED
        BY <1>3, <2>4 DEF BodyDrawn, LinesUnder
<1>4. ASSUME NEW keys \in {{}} \cup {{k} : k \in RuleKeys}, HANDLEMENUEDITKEY(keys)
      PROVE  ScreenInv'
    <2>. DEFINE dynamics == DRAWMENUDYNAMICS(binary, screen, birth', surv', preset')
    <2>1. /\ shown = "menu" /\ shown' = "menu" /\ UNCHANGED <<sources, binary>>
          /\ menuState' = "normal" /\ screen' = DRAWMENUPROMPT(binary, dynamics, "normal")
        BY <1>4 DEF HANDLEMENUEDITKEY
    <2>2. /\ birth' \in SUBSET (0 .. 8) /\ surv' \in SUBSET (0 .. 8)
          /\ preset' \in (0 .. 8) \cup {CUSTOM}
        <3>1. RuleKeys \subseteq 0 .. 8
            BY ScreenAssumption, Layout
        <3>2. CASE keys = {}
            BY <1>1, <1>4, <2>1, <3>2 DEF HANDLEMENUEDITKEY, RuleOK
        <3>3. CASE keys # {}
            <4>1. PICK k \in keys :
                     /\ birth' = IF menuState = "birth" THEN Toggled(birth, k) ELSE birth
                     /\ surv' = IF menuState = "survival" THEN Toggled(surv, k) ELSE surv
                     /\ preset' = CUSTOM
                BY <1>4, <3>3 DEF HANDLEMENUEDITKEY
            <4>2. k \in 0 .. 8
                BY <3>1, <3>3
            <4>3. \A rule \in SUBSET (0 .. 8) : Toggled(rule, k) \in SUBSET (0 .. 8)
                BY <4>2 DEF Toggled
            <4>. QED
                BY <1>1, <2>1, <4>1, <4>3 DEF RuleOK
        <3>. QED
            BY <3>2, <3>3
    <2>3. RuleOK'
        BY <2>2 DEF RuleOK
    <2>4. BodyDrawn(dynamics, birth', surv', preset') /\ Behind(dynamics)
        <3>1. /\ Passed(texts, version, build, equates) /\ Laid(binary, texts, version, build)
              /\ LinesUnder(screen) /\ Behind(screen)
            BY <1>1, <1>3, <2>1
        <3>. QED
            BY ONLY <2>2, <3>1, DynamicsKeep
    <2>. HIDE DEF dynamics
    <2>5. /\ BodyDrawn(screen', birth', surv', preset') /\ PromptShown(screen', "normal")
          /\ Behind(screen')
        <3>1. Passed(texts, version, build, equates) /\ Laid(binary, texts, version, build)
            BY <1>1, <2>1
        <3>2. screen' = DRAWMENUPROMPT(binary, dynamics, "normal")
            BY <2>1
        <3>. QED
            BY ONLY <2>4, <3>1, <3>2, PromptKeeps
    <2>. QED
        BY <2>1, <2>3, <2>5, MenuStep
<1>5. ASSUME NEW p \in DOMAIN Presets, LOADPRESET(p) PROVE ScreenInv'
    <2>1. /\ shown = "menu" /\ shown' = "menu" /\ UNCHANGED <<sources, binary>>
          /\ menuState' = menuState /\ menuState = "normal"
          /\ preset' = p /\ birth' = Presets[p].birth /\ surv' = Presets[p].surv
          /\ screen' = DRAWMENUDYNAMICS(binary, screen, birth', surv', preset')
        BY <1>5 DEF LOADPRESET
    <2>2. /\ birth' \in SUBSET (0 .. 8) /\ surv' \in SUBSET (0 .. 8)
          /\ preset' \in (0 .. 8) \cup {CUSTOM}
        BY <2>1, PresetRules
    <2>3. RuleOK'
        BY <2>2 DEF RuleOK
    <2>4. /\ Passed(texts, version, build, equates) /\ Laid(binary, texts, version, build)
          /\ LinesUnder(screen) /\ Behind(screen) /\ PromptShown(screen, menuState)
        BY <1>1, <1>3, <2>1
    <2>5. screen' = DRAWMENUDYNAMICS(binary, screen, birth', surv', preset')
        BY <2>1
    <2>6. /\ BodyDrawn(screen', birth', surv', preset') /\ PromptShown(screen', menuState)
          /\ Behind(screen')
        BY ONLY <2>2, <2>4, <2>5, DynamicsKeep
    <2>. QED
        BY <2>1, <2>3, <2>6, MenuStep
<1>. QED
    BY <1>2, <1>4, <1>5

LEMMA SimulationKeeps ==
    ASSUME ScreenInv,
           STARTSIMULATION \/ NextGeneration \/ HANDLESIMULATIONKEY \/ ENTERMENU
    PROVE  ScreenInv'
<1>1. /\ shown \in {"menu", "sim"} /\ shown' \in {"menu", "sim"}
      /\ UNCHANGED <<sources, binary, birth, surv, preset>>
    BY DEF STARTSIMULATION, NextGeneration, HANDLESIMULATIONKEY, ShowGeneration,
           ENTERMENU
<1>2. /\ SourcesOK /\ RuleOK /\ Behind(screen)
      /\ Passed(texts, version, build, equates) /\ Laid(binary, texts, version, build)
    BY <1>1 DEF ScreenInv
<1>3. RuleOK' /\ UNCHANGED sources /\ Laid(binary', texts, version, build)
    BY <1>1, <1>2 DEF RuleOK
<1>4. CASE STARTSIMULATION
    <2>1. /\ shown' = "sim" /\ generation' = 0
          /\ screen' = DRAWSIMULATIONSTATUS(binary, DRAWGRID(screen), 0)
        BY <1>4 DEF STARTSIMULATION
    <2>2. StatusDrawn(screen', 0) /\ Behind(screen')
        BY ONLY <1>2, <2>1, StatusFresh
    <2>. QED
        BY <1>2, <1>3, <2>1, <2>2, StepKeeps
<1>5. CASE NextGeneration \/ HANDLESIMULATIONKEY
    <2>1. /\ shown = "sim" /\ shown' = "sim"
          /\ screen' = DRAWGENERATIONCOUNTER(DRAWGRID(screen), generation')
        BY <1>5 DEF NextGeneration, HANDLESIMULATIONKEY, ShowGeneration
    <2>2. StatusDrawn(screen, generation)
        BY <2>1 DEF ScreenInv
    <2>3. StatusDrawn(screen', generation') /\ Behind(screen')
        BY ONLY <1>2, <2>1, <2>2, NextStatus
    <2>. QED
        BY <1>2, <1>3, <2>1, <2>3, StepKeeps
<1>6. CASE ENTERMENU
    <2>1. /\ shown' = "menu" /\ menuState' = "normal"
          /\ screen' = DRAWMENU(binary, screen, birth, surv, preset)
        BY <1>6 DEF ENTERMENU
    <2>2. /\ birth \in SUBSET (0 .. 8) /\ surv \in SUBSET (0 .. 8)
          /\ preset \in (0 .. 8) \cup {CUSTOM}
        BY <1>2 DEF RuleOK
    <2>3. /\ BodyDrawn(screen', birth, surv, preset) /\ PromptShown(screen', "normal")
          /\ Behind(screen')
        BY ONLY <1>2, <2>1, <2>2, MenuFresh
    <2>. QED
        BY <1>1, <1>2, <1>3, <2>1, <2>3, StepKeeps
<1>. QED
    BY <1>4, <1>5, <1>6

LEMMA ScreenStays ==
    ScreenInv /\ [ScreenNext]_screenVars => ScreenInv'
<1>. SUFFICES ASSUME ScreenInv, [ScreenNext]_screenVars PROVE ScreenInv'
    OBVIOUS
<1>1. CASE EditSources
    BY <1>1, EditsKeep
<1>2. CASE Package
    BY <1>2, PackageKeeps
<1>3. CASE \E state \in {"birth", "survival"} : EditRule(state)
    BY <1>3, MenuActionsKeep
<1>4. CASE \E keys \in {{}} \cup {{k} : k \in RuleKeys} : HANDLEMENUEDITKEY(keys)
    BY <1>4, MenuActionsKeep, Zenon
<1>5. CASE \E p \in DOMAIN Presets : LOADPRESET(p)
    BY <1>5, MenuActionsKeep
<1>6. CASE STARTSIMULATION
    BY <1>6, SimulationKeeps
<1>7. CASE NextGeneration
    BY <1>7, SimulationKeeps
<1>8. CASE HANDLESIMULATIONKEY
    BY <1>8, SimulationKeeps
<1>9. CASE ENTERMENU
    BY <1>9, SimulationKeeps
<1>10. CASE UNCHANGED screenVars
    <2>1. /\ UNCHANGED sources /\ shown' = shown /\ binary' = binary /\ screen' = screen
          /\ menuState' = menuState /\ birth' = birth /\ surv' = surv
          /\ preset' = preset /\ generation' = generation
        BY <1>10 DEF screenVars
    <2>2. RuleOK'
        BY <2>1 DEF ScreenInv, RuleOK
    <2>. QED
        BY <2>1, <2>2, StepKeeps DEF ScreenInv
<1>. QED
    BY <1>1, <1>2, <1>3, <1>4, <1>5, <1>6, <1>7, <1>8, <1>9, <1>10 DEF ScreenNext

LEMMA ScreenShows ==
    ScreenInv => MenuShown /\ StatusShown
<1>. SUFFICES ASSUME ScreenInv PROVE MenuShown /\ StatusShown
    OBVIOUS
<1>1. ASSUME shown = "menu", PromptFits(menuState), NoneFits,
             NEW c \in Visible
      PROVE  screen[c] = Picture(c)
    <2>1. /\ \A x \in Visible : x \notin PromptRow => screen[x] = BodyCell(x, birth, surv, preset)
          /\ \A x \in PromptRow : screen[x] = PromptAt(menuState, x)
        BY <1>1 DEF ScreenInv, BodyDrawn, PromptShown
    <2>2. c \in 0 .. 999 /\ c \in Int /\ Row(c) \in Int /\ Column(c) \in 0 .. 39
          /\ c = 40 * Row(c) + Column(c)
        <3>1. c \in 0 .. 999
            BY DEF Visible
        <3>2. Row(c) \in 0 .. 24 /\ Column(c) \in 0 .. 39 /\ c = 40 * Row(c) + Column(c)
            BY CellGrid, Zenon DEF OnGrid
        <3>3. Row(c) \in Int
            BY <3>2
        <3>4. c \in Int
            BY <3>1
        <3>. QED
            BY <3>1, <3>2, <3>3, <3>4
    <2>3. Row(c) = 23 <=> c \in PromptRow
        BY <2>2 DEF PromptRow
    <2>4. Row(c) = 23 => Column(c) = c - 920
        BY <2>2
    <2>5. c \in Fields <=> c \in BirthCells \/ c \in SurvCells
        <3>1. 612 + 9 - 1 = 620 /\ 652 + 9 - 1 = 660
            OBVIOUS
        <3>. QED
            BY <3>1, Layout DEF Fields, BirthCells, SurvCells
    <2>6. c \in Fields => (c < MENU_SURV_FIELD_OFFSET <=> c \in BirthCells)
        BY <2>2, <2>5, Layout DEF BirthCells, SurvCells
    <2>7. c \in PromptRow => c \notin Fields /\ ~IsArrow(c)
        BY <2>5, Cells DEF InFields
    <2>8. preset # CUSTOM /\ c = ArrowCell(preset) => IsArrow(c)
        BY DEF ScreenInv, RuleOK, IsArrow
    <2>9. Picture(c) = IF c \in Fields
                       THEN IF c \in BirthCells THEN BirthAt(birth, c) ELSE SurvAt(surv, c)
                       ELSE IF preset # CUSTOM /\ c = ArrowCell(preset) THEN 62
                       ELSE IF c \in PromptRow THEN PromptAt(menuState, c)
                       ELSE LineCell(c)
        BY <2>3, <2>4, <2>6, Layout DEF Picture, BirthAt, SurvAt, PromptAt
    <2>10. CASE c \in PromptRow
        BY <2>1, <2>7, <2>8, <2>9, <2>10
    <2>11. CASE c \notin PromptRow
        <3>1. screen[c] = BodyCell(c, birth, surv, preset)
            BY <2>1, <2>11
        <3>. QED
            BY <2>5, <2>9, <2>11, <3>1 DEF BodyCell
    <2>. QED
        BY <2>10, <2>11
<1>2. MenuShown
    <2>1. RULE_COUNT = 9
        BY Layout
    <2>2. shown = "menu" /\ PromptFits(menuState) /\ NoneFits
          => \A c \in 0 .. 999 : screen[c] = Picture(c)
        BY <1>1, Zenon DEF Visible
    <2>. QED
        BY <2>1, <2>2, Zenon DEF MenuShown, PromptFits, NoneFits
<1>3. ASSUME shown = "sim", NEW i \in 1 .. 40
      PROVE  screen[960 + i - 1] = IF i <= 35 THEN Code(texts["statusText"], i)
                                   ELSE Decimal(generation)[i - 35]
    <2>. DEFINE c == 960 + i - 1
    <2>1. c \in StatusCells /\ c - 960 + 1 = i /\ c - 995 + 1 = i - 35
          /\ (c < 995 <=> i <= 35)
        BY DEF StatusCells
    <2>2. \A x \in StatusCells : screen[x] = StatusAt(x, generation)
        BY <1>3 DEF ScreenInv, StatusDrawn
    <2>. HIDE DEF c
    <2>3. screen[c] = IF c < 995 THEN Code(texts["statusText"], c - 960 + 1)
                      ELSE Decimal(generation)[c - 995 + 1]
        BY <2>1, <2>2 DEF StatusAt
    <2>4. screen[c] = IF i <= 35 THEN Code(texts["statusText"], i)
                      ELSE Decimal(generation)[i - 35]
        BY <2>1, <2>3
    <2>. QED
        BY <2>4 DEF c
<1>4. \A c \in Hidden : screen[c] = 255
    BY DEF ScreenInv, Behind
<1>5. StatusShown
    <2>1. 40 - 5 = 35
        OBVIOUS
    <2>. QED
        BY <1>3, <1>4, <2>1, Layout DEF StatusShown, Hidden
<1>. QED
    BY <1>2, <1>5

THEOREM ScreenHolds == ScreenSpec => []ScreenInv
<1>1. ScreenInit => ScreenInv
    BY ScreenStarts
<1>2. ScreenInv /\ [ScreenNext]_screenVars => ScreenInv'
    BY ScreenStays
<1>. QED
    BY <1>1, <1>2, PTL DEF ScreenSpec

\* A menu the gate let through is shown as its texts say, whichever keys led
\* there and whatever the simulation had drawn (check_conway_layout.py and
\* gen_conway_menu.py against conway.s), for every set of texts and every rule.
THEOREM MenuAlwaysShown == ScreenSpec => []MenuShown
<1>1. ScreenInv => MenuShown
    BY ScreenShows
<1>. QED
    BY <1>1, ScreenHolds, PTL

\* The simulation's last row is the status text and the generation, and no
\* copy loop of the game writes behind the screen (conway.s).
THEOREM StatusAlwaysShown == ScreenSpec => []StatusShown
<1>1. ScreenInv => StatusShown
    BY ScreenShows
<1>. QED
    BY <1>1, ScreenHolds, PTL

-----------------------------------------------------------------------------
(* CASM: what the script reads, ca65 reads too *)

KnownStep(defs, f, k) ==
    IF k = 0 THEN <<>> ELSE Define(f[k - 1], defs[((k - 1) % Len(defs)) + 1])
Reads(f, defs, n) == f = [k \in 0 .. n |-> KnownStep(defs, f, k)]

\* Any number of definitions can be read.
LEMMA SomeReading ==
    ASSUME NEW defs
    PROVE  \A n \in Nat : \E f : Reads(f, defs, n)
<1>. DEFINE S == {n \in Nat : \E f : Reads(f, defs, n)}
<1>1. 0 \in S
    <2>. DEFINE f == [k \in 0 .. 0 |-> <<>>]
    <2>1. Reads(f, defs, 0)
        BY DEF Reads, KnownStep
    <2>. QED
        BY <2>1
<1>2. ASSUME NEW n \in S PROVE n + 1 \in S
    <2>1. n \in Nat
        OBVIOUS
    <2>2. PICK f : Reads(f, defs, n)
        OBVIOUS
    <2>. DEFINE g == [k \in 0 .. n + 1 |->
                         IF k <= n THEN f[k]
                         ELSE Define(f[n], defs[(n % Len(defs)) + 1])]
    <2>3. \A k \in 0 .. n + 1 : g[k] = KnownStep(defs, g, k)
        <3>1. \A k \in 0 .. n : f[k] = KnownStep(defs, f, k)
            BY <2>2 DEF Reads
        <3>2. \A k \in 0 .. n : g[k] = f[k]
            BY <2>1
        <3>3. ASSUME NEW k \in 0 .. n PROVE g[k] = KnownStep(defs, g, k)
            <4>1. CASE k = 0
                BY <3>1, <3>2, <4>1 DEF KnownStep
            <4>2. CASE k # 0
                <5>1. k - 1 \in 0 .. n
                    BY <2>1, <4>2
                <5>. QED
                    BY <3>1, <3>2, <4>2, <5>1 DEF KnownStep
            <4>. QED
                BY <4>1, <4>2
        <3>4. g[n + 1] = KnownStep(defs, g, n + 1)
            <4>1. /\ n + 1 # 0 /\ (n + 1) - 1 = n /\ ~(n + 1 <= n) /\ n + 1 \in 0 .. n + 1
                  /\ n \in 0 .. n
                BY <2>1
            <4>2. g[n + 1] = Define(f[n], defs[(n % Len(defs)) + 1]) /\ g[n] = f[n]
                BY <3>2, <4>1
            <4>. HIDE DEF g
            <4>. QED
                BY <4>1, <4>2 DEF KnownStep
        <3>5. \A k \in 0 .. n + 1 : k \in 0 .. n \/ k = n + 1
            BY <2>1
        <3>. HIDE DEF g
        <3>. QED
            BY <3>3, <3>4, <3>5
    <2>4. Reads(g, defs, n + 1)
        <3>1. g = [k \in 0 .. n + 1 |-> g[k]]
            OBVIOUS
        <3>. HIDE DEF g
        <3>2. [k \in 0 .. n + 1 |-> g[k]] = [k \in 0 .. n + 1 |-> KnownStep(defs, g, k)]
            BY <2>3
        <3>. QED
            BY <3>1, <3>2 DEF Reads
    <2>. QED
        BY <2>1, <2>4
<1>3. S = Nat
    <2>1. S \in SUBSET Nat
        OBVIOUS
    <2>. HIDE DEF S
    <2>. QED
        BY <1>1, <1>2, <2>1, NumbersByInduction
<1>. QED
    BY <1>3

LEMMA KnownReads ==
    ASSUME NEW defs, NEW n \in Nat
    PROVE  \E f : Reads(f, defs, n) /\ Known(defs, n) = f[n]
<1>. DEFINE F == CHOOSE g : Reads(g, defs, n)
<1>1. Reads(F, defs, n)
    BY SomeReading
<1>2. Known(defs, n) = F[n]
    BY DEF Known, Reads, KnownStep
<1>. QED
    BY <1>1, <1>2

\* Definitions of distinct names by numbers.
WellDefined(defs) ==
    /\ Len(defs) \in Nat
    /\ \A i \in 1 .. Len(defs) : defs[i][3] \in Int
    /\ \A i, j \in 1 .. Len(defs) : defs[i][1] = defs[j][1] => i = j

\* What is known follows from the definitions.
Follows(vals, name, def) ==
    /\ def[1] = name
    /\ def[2] = Literal => vals[name] = def[3]
    /\ def[2] # Literal => /\ def[2] \in DOMAIN vals
                           /\ vals[name] = vals[def[2]] + def[3]
Solves(vals, defs, n) ==
    \A name \in DOMAIN vals : /\ vals[name] \in Int
                              /\ \E i \in 1 .. n : Follows(vals, name, defs[i])

LEMMA DefineSolves ==
    ASSUME NEW defs, WellDefined(defs), NEW n \in Nat, n + 1 <= Len(defs),
           NEW vals, Solves(vals, defs, n)
    PROVE  Solves(Define(vals, defs[n + 1]), defs, n + 1)
<1>. DEFINE def == defs[n + 1]
            new == Define(vals, def)
<1>1. n + 1 \in 1 .. Len(defs) /\ def[3] \in Int
    BY DEF WellDefined
<1>2. def[1] \notin DOMAIN vals
    <2>1. \A i \in 1 .. n : defs[i][1] # def[1]
        BY <1>1 DEF WellDefined
    <2>. QED
        BY <2>1 DEF Solves, Follows
<1>3. \A i \in 1 .. n : i \in 1 .. n + 1
    OBVIOUS
<1>4. n + 1 \in 1 .. n + 1
    OBVIOUS
<1>5. CASE new = vals
    BY <1>3, <1>5 DEF Solves
<1>6. CASE new # vals
    <2>1. PICK value : /\ new = Bind(vals, def[1], value)
                       /\ def[2] = Literal => value = def[3]
                       /\ def[2] # Literal => /\ def[2] \in DOMAIN vals
                                              /\ value = vals[def[2]] + def[3]
        BY <1>6 DEF Define
    <2>2. value \in Int
        BY <1>1, <2>1 DEF Solves
    <2>. HIDE DEF new
    <2>3. /\ DOMAIN new = DOMAIN vals \cup {def[1]} /\ new[def[1]] = value
          /\ \A name \in DOMAIN vals : new[name] = vals[name]
        BY <1>2, <2>1 DEF Bind
    <2>. HIDE DEF def
    <2>4. Follows(new, def[1], def)
        BY <1>2, <2>1, <2>3 DEF Follows
    <2>5. ASSUME NEW name \in DOMAIN vals, NEW d, Follows(vals, name, d)
          PROVE  Follows(new, name, d)
        BY <2>3, <2>5 DEF Follows
    <2>6. ASSUME NEW name \in DOMAIN new
          PROVE  new[name] \in Int /\ \E i \in 1 .. n + 1 : Follows(new, name, defs[i])
        <3>1. CASE name = def[1]
            BY <1>4, <2>2, <2>3, <2>4, <3>1 DEF def
        <3>2. CASE name # def[1]
            <4>1. name \in DOMAIN vals /\ new[name] = vals[name]
                BY <2>3, <3>2
            <4>2. vals[name] \in Int /\ \E i \in 1 .. n : Follows(vals, name, defs[i])
                BY <4>1 DEF Solves
            <4>. QED
                BY <1>3, <2>5, <4>1, <4>2
        <3>. QED
            BY <3>1, <3>2
    <2>. QED
        BY <2>6 DEF Solves, new, def
<1>. QED
    BY <1>5, <1>6

LEMMA FirstReading ==
    ASSUME NEW defs, WellDefined(defs), NEW N \in Nat, NEW f, Reads(f, defs, N)
    PROVE  \A n \in Nat : n <= N /\ n <= Len(defs) => Solves(f[n], defs, n)
<1>. DEFINE S == {n \in Nat : n <= N /\ n <= Len(defs) => Solves(f[n], defs, n)}
<1>1. \A k \in 0 .. N : f[k] = KnownStep(defs, f, k)
    BY DEF Reads
<1>2. 0 \in S
    <2>1. f[0] = <<>>
        BY <1>1 DEF KnownStep
    <2>. QED
        BY <2>1 DEF Solves
<1>3. ASSUME NEW n \in S PROVE n + 1 \in S
    <2>. SUFFICES ASSUME n + 1 <= N, n + 1 <= Len(defs)
                  PROVE  Solves(f[n + 1], defs, n + 1)
        OBVIOUS
    <2>1. n \in Nat /\ Len(defs) \in Nat
        BY DEF WellDefined
    <2>2. n <= N /\ n <= Len(defs)
        BY <2>1
    <2>3. Solves(f[n], defs, n)
        BY <2>2
    <2>4. /\ n + 1 \in 0 .. N /\ n + 1 # 0 /\ (n + 1) - 1 = n
          /\ (n % Len(defs)) + 1 = n + 1
        BY <2>1
    <2>5. f[n + 1] = Define(f[n], defs[n + 1])
        BY <1>1, <2>4 DEF KnownStep
    <2>. QED
        BY <2>1, <2>3, <2>5, DefineSolves
<1>4. S = Nat
    <2>1. S \in SUBSET Nat
        OBVIOUS
    <2>. HIDE DEF S
    <2>. QED
        BY <1>2, <1>3, <2>1, NumbersByInduction
<1>. QED
    BY <1>4

\* Reading on changes nothing that is known from a whole reading.
Agrees(more, vals) ==
    \A name \in DOMAIN vals : name \in DOMAIN more /\ more[name] = vals[name]

LEMMA DefineAgrees ==
    ASSUME NEW defs, WellDefined(defs), NEW vals, Solves(vals, defs, Len(defs)),
           NEW more, Agrees(more, vals), NEW i \in 1 .. Len(defs)
    PROVE  Agrees(Define(more, defs[i]), vals)
<1>. DEFINE def == defs[i]
            new == Define(more, def)
<1>1. CASE new = more
    BY <1>1
<1>2. CASE new # more
    <2>1. PICK value : /\ new = Bind(more, def[1], value)
                       /\ def[2] = Literal => value = def[3]
                       /\ def[2] # Literal => /\ def[2] \in DOMAIN more
                                              /\ value = more[def[2]] + def[3]
        BY <1>2 DEF Define
    <2>. HIDE DEF new
    <2>2. \A name \in DOMAIN more : name # def[1] => new[name] = more[name]
        BY <2>1 DEF Bind
    <2>3. DOMAIN new = DOMAIN more \cup {def[1]} /\ new[def[1]] = value
        BY <2>1 DEF Bind
    <2>4. ASSUME def[1] \in DOMAIN vals PROVE value = vals[def[1]]
        <3>1. PICK j \in 1 .. Len(defs) : Follows(vals, def[1], defs[j])
            BY <2>4 DEF Solves
        <3>2. j = i
            BY <3>1 DEF WellDefined, Follows
        <3>3. Follows(vals, def[1], def)
            BY <3>1, <3>2
        <3>. HIDE DEF def
        <3>. QED
            BY <2>1, <3>3 DEF Follows, Agrees
    <2>. HIDE DEF def
    <2>5. ASSUME NEW name \in DOMAIN vals PROVE name \in DOMAIN new /\ new[name] = vals[name]
        <3>1. name \in DOMAIN more /\ more[name] = vals[name]
            BY DEF Agrees
        <3>. QED
            BY <2>2, <2>3, <2>4, <3>1
    <2>. QED
        BY <2>5 DEF Agrees, new, def
<1>. QED
    BY <1>1, <1>2

LEMMA LaterReadings ==
    ASSUME NEW defs, WellDefined(defs), Len(defs) # 0, NEW N \in Nat, Len(defs) <= N,
           NEW f, Reads(f, defs, N)
    PROVE  Agrees(f[N], f[Len(defs)])
<1>. DEFINE L == Len(defs)
            vals == f[L]
            S == {n \in Nat : L + n <= N => Agrees(f[L + n], vals)}
<1>1. L \in Nat
    BY DEF WellDefined
<1>2. Solves(vals, defs, L)
    <2>1. L <= N /\ L <= Len(defs)
        BY <1>1
    <2>. QED
        BY <1>1, <2>1, FirstReading
<1>3. \A k \in 0 .. N : f[k] = KnownStep(defs, f, k)
    BY DEF Reads
<1>. HIDE DEF vals
<1>4. 0 \in S
    <2>1. L + 0 = L /\ f[L] = vals
        BY <1>1 DEF vals
    <2>. HIDE DEF L
    <2>2. Agrees(f[L + 0], vals)
        BY <2>1 DEF Agrees
    <2>. QED
        BY <2>2
<1>5. ASSUME NEW n \in S PROVE n + 1 \in S
    <2>. SUFFICES ASSUME L + (n + 1) <= N PROVE Agrees(f[L + (n + 1)], vals)
        OBVIOUS
    <2>1. n \in Nat
        OBVIOUS
    <2>2. L + n <= N
        BY <1>1, <2>1
    <2>3. Agrees(f[L + n], vals)
        BY <2>2
    <2>. DEFINE i == ((L + n) % L) + 1
    <2>4. i \in 1 .. L
        <3>1. (L + n) \in Nat /\ L \in Nat \ {0}
            BY <1>1, <2>1
        <3>. HIDE DEF L
        <3>2. (L + n) % L \in 0 .. L - 1
            BY <3>1
        <3>. QED
            BY <3>1, <3>2
    <2>5. /\ L + (n + 1) \in 0 .. N /\ L + (n + 1) # 0 /\ (L + (n + 1)) - 1 = L + n
        BY <1>1, <2>1
    <2>6. f[L + (n + 1)] = Define(f[L + n], defs[i])
        BY <1>3, <2>5 DEF KnownStep
    <2>. HIDE DEF i
    <2>. QED
        BY <1>2, <2>3, <2>4, <2>6, DefineAgrees
<1>6. S = Nat
    <2>1. S \in SUBSET Nat
        OBVIOUS
    <2>. HIDE DEF S
    <2>. QED
        BY <1>4, <1>5, <2>1, NumbersByInduction
<1>7. N - L \in Nat /\ L + (N - L) = N
    BY <1>1
<1>8. N - L \in S
    BY <1>6, <1>7
<1>9. Agrees(f[N], vals)
    <2>. HIDE DEF L
    <2>. QED
        BY <1>1, <1>7, <1>8
<1>. QED
    BY <1>9 DEF vals

LEMMA SameReading ==
    ASSUME NEW defs, NEW N \in Nat, NEW M \in Nat, NEW f, Reads(f, defs, N),
           NEW g, Reads(g, defs, M)
    PROVE  \A n \in Nat : n <= N /\ n <= M => f[n] = g[n]
<1>. DEFINE S == {n \in Nat : n <= N /\ n <= M => f[n] = g[n]}
<1>1. /\ \A k \in 0 .. N : f[k] = KnownStep(defs, f, k)
      /\ \A k \in 0 .. M : g[k] = KnownStep(defs, g, k)
    BY DEF Reads
<1>2. 0 \in S
    <2>1. 0 \in 0 .. N /\ 0 \in 0 .. M
        OBVIOUS
    <2>2. f[0] = KnownStep(defs, f, 0) /\ g[0] = KnownStep(defs, g, 0)
        BY <1>1, <2>1
    <2>3. f[0] = g[0]
        BY <2>2 DEF KnownStep
    <2>. QED
        BY <2>3
<1>3. ASSUME NEW n \in S PROVE n + 1 \in S
    <2>. SUFFICES ASSUME n + 1 <= N, n + 1 <= M PROVE f[n + 1] = g[n + 1]
        OBVIOUS
    <2>1. f[n] = g[n]
        OBVIOUS
    <2>2. /\ n + 1 \in 0 .. N /\ n + 1 \in 0 .. M /\ n + 1 # 0 /\ (n + 1) - 1 = n
        OBVIOUS
    <2>. QED
        BY <1>1, <2>1, <2>2 DEF KnownStep
<1>4. S = Nat
    <2>1. S \in SUBSET Nat
        OBVIOUS
    <2>. HIDE DEF S
    <2>. QED
        BY <1>2, <1>3, <2>1, NumbersByInduction
<1>. QED
    BY <1>4

\* What the script's parser reads is what the assembler uses, in whatever
\* order the constants stand.
ReadsAlike(defs) ==
    \A name \in DOMAIN const_values(defs) :
       /\ const_values(defs)[name] \in Int
       /\ Assembled(defs)[name] = const_values(defs)[name]

LEMMA ParsersRead ==
    ASSUME NEW defs, WellDefined(defs)
    PROVE  ReadsAlike(defs)
<1>. DEFINE L == Len(defs)
<1>1. L \in Nat
    BY DEF WellDefined
<1>. HIDE DEF L
<1>2. L * L \in Nat /\ L <= L * L
    <2>1. CASE L = 0
        BY <2>1
    <2>2. CASE L # 0
        <3>1. L >= 1 /\ L * L >= L * 1
            BY <1>1, <2>2
        <3>. QED
            BY <1>1, <3>1
    <2>. QED
        BY <2>1, <2>2
<1>3. PICK f : Reads(f, defs, L) /\ const_values(defs) = f[L]
    BY <1>1, KnownReads DEF const_values, L
<1>4. PICK g : Reads(g, defs, L * L) /\ Assembled(defs) = g[L * L]
    BY <1>2, KnownReads DEF Assembled, L
<1>5. f[L] = g[L]
    BY <1>1, <1>2, <1>3, <1>4, SameReading
<1>6. Solves(f[L], defs, L)
    <2>1. L <= L
        BY <1>1
    <2>. QED
        BY <1>1, <1>3, <2>1, FirstReading DEF L
<1>7. Agrees(g[L * L], g[L])
    <2>1. CASE L = 0
        <3>1. L * L = L
            BY <2>1
        <3>. QED
            BY <3>1 DEF Agrees
    <2>2. CASE L # 0
        BY <1>2, <1>4, <2>2, LaterReadings DEF L
    <2>. QED
        BY <2>1, <2>2
<1>. QED
    BY <1>3, <1>4, <1>5, <1>6, <1>7 DEF ReadsAlike, Solves, Agrees

-----------------------------------------------------------------------------
(* CASM: the theorem *)

\* The constants stay definitions of distinct names.
DefinitionsOK(defs) ==
    /\ \E X : defs \in Seq(X)
    /\ \A i \in 1 .. Len(defs) : DOMAIN defs[i] = 1 .. 3 /\ defs[i][3] \in Int
    /\ \A i, j \in 1 .. Len(defs) : defs[i][1] = defs[j][1] => i = j

\* One element more, in front or at the end.
Inserted(r, s, at, e) ==
    /\ Len(r) = Len(s) + 1
    /\ \A i \in 1 .. Len(s) + 1 :
          r[i] = IF i = at THEN e ELSE IF at = 1 THEN s[i - 1] ELSE s[i]

LEMMA Insertion ==
    ASSUME NEW X, NEW s \in Seq(X), NEW e \in X, NEW at \in {1, Len(s) + 1}
    PROVE  InsertAt(s, at, e) \in Seq(X) /\ Inserted(InsertAt(s, at, e), s, at, e)
<1>1. Len(s) \in Nat
    OBVIOUS
<1>2. <<e>> \in Seq(X) /\ Len(<<e>>) = 1
    OBVIOUS
<1>3. CASE at = 1
    <2>1. InsertAt(s, at, e) = SubSeq(s, 1, 0) \o <<e>> \o SubSeq(s, 1, Len(s))
        BY <1>3 DEF InsertAt
    <2>2. SubSeq(s, 1, 0) = <<>> /\ SubSeq(s, 1, Len(s)) = s
        BY <1>1
    <2>3. InsertAt(s, at, e) = <<e>> \o s
        BY <2>1, <2>2
    <2>4. /\ <<e>> \o s \in Seq(X) /\ Len(<<e>> \o s) = 1 + Len(s)
          /\ \A i \in 1 .. 1 + Len(s) :
                (<<e>> \o s)[i] = IF i <= 1 THEN <<e>>[i] ELSE s[i - 1]
        BY <1>2, ConcatProperties
    <2>5. \A i \in 1 .. Len(s) + 1 :
             i \in 1 .. 1 + Len(s) /\ (i <= 1 <=> i = 1)
        BY <1>1
    <2>6. <<e>>[1] = e /\ 1 + Len(s) = Len(s) + 1
        BY <1>1
    <2>. QED
        BY <1>3, <2>3, <2>4, <2>5, <2>6 DEF Inserted
<1>4. CASE at = Len(s) + 1
    <2>1. InsertAt(s, at, e) = SubSeq(s, 1, at - 1) \o <<e>> \o SubSeq(s, at, Len(s))
        BY DEF InsertAt
    <2>2. at - 1 = Len(s)
        BY <1>1, <1>4
    <2>3. SubSeq(s, 1, at - 1) = s /\ SubSeq(s, at, Len(s)) = <<>>
        BY <1>1, <1>4, <2>2
    <2>4. InsertAt(s, at, e) = s \o <<e>>
        BY <2>1, <2>3
    <2>5. /\ s \o <<e>> \in Seq(X) /\ Len(s \o <<e>>) = Len(s) + 1
          /\ \A i \in 1 .. Len(s) + 1 :
                (s \o <<e>>)[i] = IF i <= Len(s) THEN s[i] ELSE <<e>>[i - Len(s)]
        BY <1>2, ConcatProperties
    <2>6. \A i \in 1 .. Len(s) + 1 :
             /\ i <= Len(s) <=> i # Len(s) + 1
             /\ i = Len(s) + 1 => i - Len(s) = 1
        BY <1>1
    <2>7. <<e>>[1] = e
        OBVIOUS
    <2>8. Len(s) + 1 = 1 => \A i \in 1 .. Len(s) + 1 : i = at
        BY <1>1, <1>4
    <2>. QED
        BY <1>4, <2>4, <2>5, <2>6, <2>7, <2>8 DEF Inserted
<1>. QED
    BY <1>3, <1>4

LEMMA AddKeeps ==
    ASSUME DefinitionsOK(common), NEW parts, AddDiagnostic(parts)
    PROVE  DefinitionsOK(common')
<1>. DEFINE new   == <<"NEW", Literal, Len(TableIn) + 1>>
            L     == Len(common)
            moved == [i \in DOMAIN common |->
                         IF common[i][1] = "LAST" /\ "last" \in parts
                         THEN [common[i] EXCEPT ![2] = "NEW"] ELSE common[i]]
            X     == {moved[i] : i \in 1 .. L} \cup {new}
<1>1. PICK Y : common \in Seq(Y)
    BY DEF DefinitionsOK
<1>2. L \in Nat /\ DOMAIN common = 1 .. L
    BY <1>1
<1>3. /\ \A i \in 1 .. L : DOMAIN common[i] = 1 .. 3 /\ common[i][3] \in Int
      /\ \A i, j \in 1 .. L : common[i][1] = common[j][1] => i = j
    BY DEF DefinitionsOK
<1>4. \A i \in 1 .. L : common[i][1] # "NEW"
    BY <1>2 DEF AddDiagnostic
<1>5. \E at \in {1, L + 1} : common' = InsertAt(moved, at, new)
    BY DEF AddDiagnostic
<1>6. new[1] = "NEW" /\ new[3] \in Int /\ DOMAIN new = 1 .. 3
    <2>1. Len(TableIn) \in Nat
        BY DiagAssumption
    <2>. QED
        BY <2>1
<1>7. ASSUME NEW i \in 1 .. L
      PROVE  /\ DOMAIN moved[i] = 1 .. 3 /\ moved[i][3] \in Int
             /\ moved[i][1] = common[i][1]
    <2>1. moved[i] = [common[i] EXCEPT ![2] = "NEW"] \/ moved[i] = common[i]
        BY <1>2
    <2>2. 1 \in 1 .. 3 /\ 3 \in 1 .. 3 /\ 1 # 2 /\ 3 # 2
        OBVIOUS
    <2>. HIDE DEF moved
    <2>. QED
        BY <1>3, <2>1, <2>2
<1>8. moved \in Seq(X) /\ Len(moved) = L /\ new \in X
    <2>1. DOMAIN moved = 1 .. L /\ moved = [i \in 1 .. L |-> moved[i]]
        BY <1>2
    <2>2. \A i \in 1 .. L : moved[i] \in X
        OBVIOUS
    <2>3. new \in X
        OBVIOUS
    <2>. HIDE DEF moved, X, new, L
    <2>4. moved \in [1 .. L -> X]
        BY <2>1, <2>2
    <2>5. moved \in Seq(X)
        BY <1>2, <2>4, SeqDef
    <2>6. Len(moved) = L
        BY <1>2, <2>1, <2>5
    <2>. QED
        BY <2>3, <2>5, <2>6
<1>. HIDE DEF moved, X, new, L
<1>9. PICK at \in {1, L + 1} : common' = InsertAt(moved, at, new)
    BY <1>5
<1>10. /\ common' \in Seq(X) /\ Len(common') = L + 1
       /\ \A i \in 1 .. L + 1 : common'[i] = IF i = at THEN new
                                             ELSE IF at = 1 THEN moved[i - 1] ELSE moved[i]
    <2>1. at \in {1, Len(moved) + 1} /\ moved \in Seq(X) /\ new \in X
        BY <1>8
    <2>2. /\ InsertAt(moved, at, new) \in Seq(X)
          /\ Inserted(InsertAt(moved, at, new), moved, at, new)
        BY ONLY <2>1, Insertion
    <2>3. common' \in Seq(X) /\ Inserted(common', moved, at, new)
        BY ONLY <1>9, <2>2
    <2>. QED
        BY ONLY <1>8, <2>3 DEF Inserted
\* The place that a definition had before.
<1>. DEFINE was(i) == IF at = 1 THEN i - 1 ELSE i
<1>11. \A i \in 1 .. L + 1 : i # at => was(i) \in 1 .. L /\ common'[i] = moved[was(i)]
    BY <1>2, <1>9, <1>10
<1>12. \A i, j \in 1 .. L + 1 : was(i) = was(j) => i = j
    BY <1>2
<1>13. common'[at] = new
    BY <1>2, <1>9, <1>10
<1>. HIDE DEF was
<1>14. ASSUME NEW i \in 1 .. L + 1
       PROVE  DOMAIN common'[i] = 1 .. 3 /\ common'[i][3] \in Int
    BY <1>6, <1>7, <1>11, <1>13
<1>15. ASSUME NEW i \in 1 .. L + 1, NEW j \in 1 .. L + 1, common'[i][1] = common'[j][1]
       PROVE  i = j
    <2>1. \A k \in 1 .. L + 1 : k # at => common'[k][1] = common[was(k)][1]
        BY <1>7, <1>11
    <2>2. \A k \in 1 .. L + 1 : k # at => common'[k][1] # "NEW"
        BY <1>4, <1>11, <2>1
    <2>3. common'[at][1] = "NEW"
        BY <1>6, <1>13
    <2>4. CASE i = at \/ j = at
        BY <1>15, <2>2, <2>3, <2>4
    <2>5. CASE i # at /\ j # at
        <3>1. common[was(i)][1] = common[was(j)][1]
            BY <1>15, <2>1, <2>5
        <3>2. was(i) \in 1 .. L /\ was(j) \in 1 .. L
            BY <1>11, <2>5
        <3>. QED
            BY <1>3, <1>12, <3>1, <3>2
    <2>. QED
        BY <2>4, <2>5
<1>. QED
    BY <1>10, <1>14, <1>15 DEF DefinitionsOK

\* What the script passed is still the list its decoder makes of the sources
\* it read then.
PassedList(v) ==
    LET vals == const_values(v.program.common)
    IN  /\ WellDefined(v.program.common)
        /\ "INIT_FAILED" \in DOMAIN vals /\ "LAST" \in DOMAIN vals
        /\ v.list = decode_id_to_body(vals, v.program.tables, v.program.messages)

DiagInv ==
    /\ DefinitionsOK(common)
    /\ verified # Nothing => PassedList(verified)

LEMMA DiagStarts == DiagInit => DiagInv
<1>. SUFFICES ASSUME DiagInit PROVE DiagInv
    OBVIOUS
<1>1. /\ ConstantsIn \in Seq(ToSet(ConstantsIn))
      /\ \A i \in DOMAIN ConstantsIn : /\ DOMAIN ConstantsIn[i] = 1 .. 3
                                       /\ ConstantsIn[i][3] \in Int
      /\ \A i, j \in DOMAIN ConstantsIn : ConstantsIn[i][1] = ConstantsIn[j][1] => i = j
    BY ConstantsAssumption
<1>2. DOMAIN ConstantsIn = 1 .. Len(ConstantsIn)
    BY <1>1
<1>3. DefinitionsOK(ConstantsIn)
    BY <1>1, <1>2 DEF DefinitionsOK
<1>. QED
    BY <1>3 DEF DiagInit, DiagInv

LEMMA DiagStays ==
    DiagInv /\ [DiagNext]_diagVars => DiagInv'
<1>. SUFFICES ASSUME DiagInv, [DiagNext]_diagVars PROVE DiagInv'
    OBVIOUS
<1>1. ASSUME UNCHANGED verified PROVE (verified # Nothing => PassedList(verified))'
    BY <1>1 DEF DiagInv, PassedList, Nothing
<1>2. ASSUME UNCHANGED common PROVE DefinitionsOK(common)'
    BY <1>2 DEF DiagInv, DefinitionsOK
<1>3. CASE EditDiagnostics
    <2>1. UNCHANGED verified
        BY <1>3 DEF EditDiagnostics
    <2>2. CASE \E parts \in SUBSET {"last", "lo", "hi", "list"} : AddDiagnostic(parts)
        <3>1. DefinitionsOK(common')
            BY <2>2, AddKeeps DEF DiagInv
        <3>. QED
            BY <1>1, <2>1, <3>1 DEF DiagInv, DefinitionsOK
    <2>3. CASE EditTable
        <3>1. UNCHANGED common
            BY <2>3 DEF EditTable
        <3>. QED
            BY <1>1, <1>2, <2>1, <3>1 DEF DiagInv
    <2>. QED
        BY <1>3, <2>2, <2>3 DEF EditDiagnostics
<1>4. CASE RunVerifier
    <2>1. UNCHANGED common
        BY <1>4 DEF RunVerifier
    <2>2. ASSUME verified' # Nothing PROVE PassedList(verified')
        <3>1. verify_main /\ verified' = [program |-> Program, list |-> frozen]
            BY <1>4, <2>2 DEF RunVerifier
        <3>2. /\ verified'.program.common = common /\ verified'.program.tables = tables
              /\ verified'.program.messages = messages /\ verified'.list = frozen
            BY <3>1 DEF Program
        <3>3. WellDefined(common)
            BY DEF DiagInv, DefinitionsOK, WellDefined
        <3>. QED
            BY <3>1, <3>2, <3>3 DEF PassedList, verify_main
    <2>. QED
        BY <1>2, <2>1, <2>2 DEF DiagInv, PassedList, Nothing
<1>5. CASE BuildCasm \/ (\E id \in 0 .. Len(TableIn) + 2, user \in BOOLEAN : RaiseFatal(id, user))
           \/ UNCHANGED diagVars
    <2>1. UNCHANGED <<common, verified>>
        BY <1>5 DEF BuildCasm, RaiseFatal, diagVars
    <2>. QED
        BY <1>1, <1>2, <2>1 DEF DiagInv
<1>. QED
    BY <1>3, <1>4, <1>5 DEF DiagNext

THEOREM DiagHolds == DiagSpec => []DiagInv
<1>1. DiagInit => DiagInv
    BY DiagStarts
<1>2. DiagInv /\ [DiagNext]_diagVars => DiagInv'
    BY DiagStays
<1>. QED
    BY <1>1, <1>2, PTL DEF DiagSpec

\* An assembler that was built from the sources the script last passed.
FrozenPrint ==
    /\ printed' # printed /\ printed' # Nothing
    /\ verified # Nothing /\ verified.program = casm
    /\ ~(printed'.user /\ printed'.id = Assembled(casm.common)["ASSERTION_FAILED"])
    => printed'.text = IF printed'.id \in DOMAIN verified.list
                       THEN verified.list[printed'.id] ELSE Unknown

LEMMA FrozenSteps ==
    DiagInv /\ [DiagNext]_diagVars => [FrozenPrint]_diagVars
<1>. SUFFICES ASSUME DiagInv, [DiagNext]_diagVars,
                     printed' # printed, printed' # Nothing,
                     verified # Nothing, verified.program = casm,
                     ~(printed'.user
                          /\ printed'.id = Assembled(casm.common)["ASSERTION_FAILED"])
              PROVE  printed'.text = IF printed'.id \in DOMAIN verified.list
                                     THEN verified.list[printed'.id] ELSE Unknown
    BY DEF FrozenPrint
<1>1. PICK id \in 0 .. Len(TableIn) + 2, user \in BOOLEAN : RaiseFatal(id, user)
    BY DEF DiagNext, EditDiagnostics, BuildCasm, RunVerifier, diagVars
<1>. DEFINE c     == Assembled(casm.common)
            vals  == const_values(casm.common)
            first == vals["INIT_FAILED"]
            last  == vals["LAST"]
            text  == read_cstr(casm.tables, casm.messages, id - first + 1)
<1>2. /\ printed'.id = id /\ printed'.user = user
      /\ printed'.text = diagPrintFatal(casm, id, user)
    BY <1>1 DEF RaiseFatal
<1>3. /\ WellDefined(casm.common)
      /\ "INIT_FAILED" \in DOMAIN vals /\ "LAST" \in DOMAIN vals
      /\ verified.list = decode_id_to_body(vals, casm.tables, casm.messages)
    BY DEF DiagInv, PassedList
<1>4. /\ first \in Int /\ last \in Int
      /\ c["INIT_FAILED"] = first /\ c["LAST"] = last
    BY <1>3, ParsersRead DEF ReadsAlike
<1>5. id \in Int
    <2>1. Len(TableIn) \in Nat
        BY DiagAssumption
    <2>. QED
        BY <2>1
<1>6. ~(id = c["ASSERTION_FAILED"] /\ user)
    BY <1>2
<1>7. printed'.text = IF id < c["INIT_FAILED"] \/ id >= c["LAST"] + 1 THEN Unknown
                      ELSE read_cstr(casm.tables, casm.messages, id - c["INIT_FAILED"] + 1)
    <2>1. diagPrintFatal(casm, id, user)
             = IF id < c["INIT_FAILED"] \/ id >= c["LAST"] + 1 THEN Unknown
               ELSE IF id = c["ASSERTION_FAILED"] /\ user THEN Brought
               ELSE read_cstr(casm.tables, casm.messages, id - c["INIT_FAILED"] + 1)
        BY DEF diagPrintFatal
    <2>. HIDE DEF c
    <2>. QED
        BY <1>2, <1>6, <2>1
<1>8. /\ DOMAIN verified.list = first .. last
      /\ id \in first .. last => verified.list[id] = text
    BY <1>3 DEF decode_id_to_body
<1>. HIDE DEF c, first, last, vals
<1>9. id < first \/ id >= last + 1 <=> id \notin first .. last
    BY <1>4, <1>5
<1>10. printed'.text = IF id \in first .. last THEN text ELSE Unknown
    BY <1>4, <1>7, <1>9
<1>. QED
    BY <1>2, <1>8, <1>10

\* An assembler built from the sources the script last passed prints the frozen
\* text of every identifier, and the fallback for every other number, but where
\* an assertion brings a message of its own (diagPrintFatal against main): the
\* script reads the constants once and ca65 forwards too, but every number the
\* script needs is one both read alike.
THEOREM DiagnosticsFrozen == DiagSpec => FrozenTextPrinted
<1>1. DiagInv /\ [DiagNext]_diagVars => [FrozenPrint]_diagVars
    BY FrozenSteps
<1>. QED
    BY <1>1, DiagHolds, PTL DEF DiagSpec, FrozenTextPrinted, FrozenPrint
=============================================================================
