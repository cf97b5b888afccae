----------------------------- MODULE LookupSafety -----------------------------
(***************************************************************************)
(* Proofs about Lookup: what is written is read back the same, and what a    *)
(* conversion offers is what the dictionaries have for the reading.          *)
(***************************************************************************)
EXTENDS LookupProperties, ListLemmas

(* ---- reading texts glyph by glyph ---- *)

(* A sequence and one member more.                                          *)
LEMMA Appended ==
    ASSUME NEW T, NEW s \in Seq(T), NEW x \in T
    PROVE  /\ Append(s, x) \in Seq(T) /\ Len(s) \in Nat /\ Len(Append(s, x)) = Len(s) + 1
           /\ Append(s, x)[Len(s) + 1] = x
           /\ \A i \in 1 .. Len(s) : Append(s, x)[i] = s[i]
  OBVIOUS

(* A sequence that is not empty has a first and a last member.               *)
LEMMA NotEmpty ==
    ASSUME NEW T, NEW s \in Seq(T), s # <<>>
    PROVE  Len(s) \in Nat /\ Len(s) >= 1 /\ 1 \in 1 .. Len(s) /\ Len(s) \in 1 .. Len(s)
  OBVIOUS

(* A function applied to each member, and to one member more.               *)
Each(F, s) == [i \in DOMAIN s |-> F[s[i]]]

(* Append, left as it is by the provers.                                     *)
Added(s, x) == Append(s, x)

(* It gives a sequence again.                                               *)
LEMMA EachTyped ==
    ASSUME NEW T, NEW U, NEW F \in [T -> U], NEW s \in Seq(T)
    PROVE  /\ Each(F, <<>>) = <<>>
           /\ Each(F, s) \in Seq(U) /\ Len(Each(F, s)) = Len(s)
<1>1. PICK N : N = Len(s)
  OBVIOUS
<1>2. N \in Nat /\ DOMAIN s = 1 .. N /\ \A i \in 1 .. N : s[i] \in T
  BY <1>1
<1>3. PICK f : f = Each(F, s)
  OBVIOUS
<1>4. f = [i \in 1 .. N |-> F[s[i]]]
  BY <1>2, <1>3 DEF Each
<1>5. \A i \in 1 .. N : f[i] \in U
  BY <1>2, <1>4
<1>6. f = [i \in 1 .. N |-> f[i]]
  BY <1>4
<1>7. f \in Seq(U)
  BY <1>2, <1>5, <1>6, IsSeq
<1>8. Each(F, <<>>) = <<>>
  BY DEF Each
<1> QED
  BY <1>1, <1>2, <1>3, <1>4, <1>7, <1>8

(* It grows with the sequence.                                              *)
LEMMA EachAdded ==
    ASSUME NEW T, NEW U, NEW F \in [T -> U], NEW s \in Seq(T), NEW x \in T
    PROVE  Each(F, Added(s, x)) = Added(Each(F, s), F[x])
<1>1. PICK t : t = Append(s, x)
  OBVIOUS
<1>2. PICK N : N = Len(s)
  OBVIOUS
<1>3. /\ N \in Nat /\ DOMAIN s = 1 .. N /\ \A i \in 1 .. N : s[i] \in T
      /\ t \in Seq(T) /\ Len(t) = N + 1 /\ t[N + 1] = x /\ \A i \in 1 .. N : t[i] = s[i]
  BY <1>1, <1>2, Appended
<1>4. PICK f : f = Each(F, s)
  OBVIOUS
<1>5. f = [i \in 1 .. N |-> F[s[i]]]
  BY <1>3, <1>4 DEF Each
<1>6. f \in Seq(U) /\ Len(f) = N
  <2>1. Each(F, s) \in Seq(U) /\ Len(Each(F, s)) = Len(s)
    BY EachTyped
  <2> QED
    BY <1>2, <1>4, <2>1
<1>7. DOMAIN t = 1 .. N + 1
  BY <1>3
<1>8. \A i \in 1 .. N + 1 : F[t[i]] = IF i = N + 1 THEN F[x] ELSE f[i]
  <2> SUFFICES ASSUME NEW i \in 1 .. N + 1 PROVE F[t[i]] = IF i = N + 1 THEN F[x] ELSE f[i]
    OBVIOUS
  <2>1. CASE i = N + 1
    BY <1>3, <2>1
  <2>2. CASE i # N + 1
    <3>1. i \in 1 .. N
      BY <1>3, <2>2
    <3> QED
      BY <1>3, <1>5, <2>2, <3>1
  <2> QED
    BY <2>1, <2>2
<1>9. F[x] \in U
  OBVIOUS
<1>10. Append(f, F[x]) = [i \in 1 .. N + 1 |-> IF i = N + 1 THEN F[x] ELSE f[i]]
  <2>1. PICK y : y = F[x]
    OBVIOUS
  <2>2. y \in U
    BY <1>9, <2>1
  <2>3. Append(f, y) = [i \in 1 .. Len(f) + 1 |-> IF i = Len(f) + 1 THEN y ELSE f[i]]
    BY <1>6, <2>2, AppendIs
  <2> QED
    BY <1>6, <2>1, <2>3
<1>11. Each(F, t) = Append(f, F[x])
  <2>1. Each(F, t) = [i \in 1 .. N + 1 |-> F[t[i]]]
    BY <1>7 DEF Each
  <2> QED
    BY <1>8, <1>10, <2>1
<1> QED
  BY <1>1, <1>4, <1>11 DEF Added

(* What the reader of literals is in after each glyph: the recursion of      *)
(* StringList.                                                             *)
Scanned(f, s, N) == f = [i \in 0 .. N |-> IF i = 0 THEN Outside ELSE Read(f[i - 1], s[i])]

(* It exists, whatever the text.                                            *)
LEMMA ScannedExists == ASSUME NEW s, NEW N \in Nat PROVE \E f : Scanned(f, s, N)
<1> DEFINE S == {n \in 0 .. N : \E f : Scanned(f, s, n)}
<1>1. 0 \in S
  <2> DEFINE f == [i \in 0 .. 0 |-> Outside]
  <2>1. Scanned(f, s, 0)
    BY DEF Scanned
  <2> QED
    BY <2>1
<1>2. ASSUME NEW n \in 0 .. N - 1, n \in S PROVE n + 1 \in S
  <2>1. PICK f : Scanned(f, s, n)
    BY <1>2
  <2> DEFINE g == [i \in 0 .. n + 1 |-> IF i = 0 THEN Outside ELSE Read(f[i - 1], s[i])]
  <2>2. \A i \in 0 .. n : g[i] = f[i]
    BY <2>1 DEF Scanned
  <2>3. \A i \in 0 .. n + 1 : i # 0 => g[i - 1] = f[i - 1]
    <3> HIDE DEF g
    <3>1. \A i \in 0 .. n + 1 : i # 0 => i - 1 \in 0 .. n
      OBVIOUS
    <3> QED
      BY <2>2, <3>1
  <2>4. Scanned(g, s, n + 1)
    BY <2>3 DEF Scanned
  <2> QED
    BY <2>4
<1>3. \A n \in 0 .. N : n \in S
  <2> HIDE DEF S
  <2> QED
    BY <1>1, <1>2, UpTo
<1> QED
  BY <1>3

Scan(s) == (CHOOSE f : Scanned(f, s, Len(s)))[Len(s)]

(* The reader goes on where it was.                                         *)
LEMMA ScanStep ==
    /\ Scan(<<>>) = Outside
    /\ \A T : \A s \in Seq(T) : \A x \in T : Scan(Append(s, x)) = Read(Scan(s), x)
<1>1. Scan(<<>>) = Outside
  <2> DEFINE f == CHOOSE h : Scanned(h, <<>>, 0)
  <2>1. Scanned(f, <<>>, 0)
    BY ScannedExists
  <2>2. Len(<<>>) = 0 /\ Scan(<<>>) = f[0]
    BY DEF Scan
  <2> HIDE DEF f
  <2> QED
    BY <2>1, <2>2 DEF Scanned
<1>2. ASSUME NEW T, NEW s \in Seq(T), NEW x \in T PROVE Scan(Append(s, x)) = Read(Scan(s), x)
  <2>1. PICK N : N = Len(s)
    OBVIOUS
  <2>2. PICK t : t = Append(s, x)
    OBVIOUS
  <2>3. N \in Nat /\ Len(t) = N + 1 /\ t[N + 1] = x /\ \A i \in 1 .. N : t[i] = s[i]
    BY <2>1, <2>2
  <2>4. PICK f : f = CHOOSE h : Scanned(h, s, N)
    OBVIOUS
  <2>5. PICK g : g = CHOOSE h : Scanned(h, t, N + 1)
    OBVIOUS
  <2>6. Scanned(f, s, N)
    BY <2>3, <2>4, ScannedExists
  <2>7. Scanned(g, t, N + 1)
    <3>1. N + 1 \in Nat
      BY <2>3
    <3>2. \E h : Scanned(h, t, N + 1)
      BY <3>1, ScannedExists
    <3> QED
      BY <2>5, <3>2
  <2>8. Scan(s) = f[N] /\ Scan(t) = g[N + 1]
    BY <2>1, <2>3, <2>4, <2>5 DEF Scan
  <2>9. /\ \A i \in 0 .. N : f[i] = IF i = 0 THEN Outside ELSE Read(f[i - 1], s[i])
        /\ \A i \in 0 .. N + 1 : g[i] = IF i = 0 THEN Outside ELSE Read(g[i - 1], t[i])
    BY <2>6, <2>7 DEF Scanned
  <2> DEFINE S == {n \in 0 .. N : f[n] = g[n]}
  <2>10. 0 \in S
    BY <2>3, <2>9
  <2>11. ASSUME NEW n \in 0 .. N - 1, n \in S PROVE n + 1 \in S
    <3>1. /\ n + 1 \in 0 .. N /\ n + 1 \in 1 .. N /\ n + 1 \in 0 .. N + 1 /\ n + 1 # 0
          /\ (n + 1) - 1 = n /\ f[n] = g[n]
      BY <2>3, <2>11
    <3>2. f[n + 1] = Read(f[n], s[n + 1]) /\ g[n + 1] = Read(g[n], t[n + 1])
      BY <2>9, <3>1
    <3>3. t[n + 1] = s[n + 1]
      BY <2>3, <3>1
    <3> QED
      BY <3>1, <3>2, <3>3
  <2>12. f[N] = g[N]
    <3> HIDE DEF S
    <3>1. \A n \in 0 .. N : n \in S
      BY <2>3, <2>10, <2>11, UpTo
    <3> QED
      BY <2>3, <3>1 DEF S
  <2>13. g[N + 1] = Read(g[N], t[N + 1])
    BY <2>3, <2>9
  <2> QED
    BY <2>2, <2>3, <2>8, <2>12, <2>13
<1> QED
  BY <1>1, <1>2

(* StringList is what the reader ends with.                                 *)
LEMMA StringListIs == \A s : StringList(s) = Closed(Scan(s))
  BY DEF StringList, Scan, Scanned

(* ---- literals ---- *)

(* How the glyphs of a text are written in a literal.                       *)
Escaped == [c \in Glyph |-> Written(c)]
Body(s) == FlattenSeq(Each(Escaped, s))

(* Glyph by glyph.                                                         *)
LEMMA EscIs ==
    ASSUME NEW c
    PROVE  /\ c = "/"  => Written(c) = <<"\\", "0", "5", "7">>
           /\ c = ";"  => Written(c) = <<"\\", "0", "7", "3">>
           /\ c = "\"" => Written(c) = <<"\\", "\"">>
           /\ c = "\\" => Written(c) = <<"\\", "\\">>
           /\ c = "LF" => Written(c) = <<"\\", "n">>
           /\ c = "CR" => Written(c) = <<"\\", "r">>
           /\ c \notin {"/", ";", "\"", "\\", "LF", "CR"} => Written(c) = <<c>>
<1>1. Written(c) = IF c = "/" THEN <<"\\", "0", "5", "7">>
               ELSE IF c = ";" THEN <<"\\", "0", "7", "3">>
               ELSE IF c = "\"" THEN <<"\\", "\"">>
               ELSE IF c = "\\" THEN <<"\\", "\\">>
               ELSE IF c = "LF" THEN <<"\\", "n">>
               ELSE IF c = "CR" THEN <<"\\", "r">> ELSE <<c>>
  BY Zenon DEF Written
<1> QED
  BY <1>1

(* A literal is its glyphs between quotes.                                  *)
LEMMA LiteralIs == \A s \in Text : WriteStringLiteral(s) = <<"\"">> \o Body(s) \o <<"\"">>
<1> SUFFICES ASSUME NEW s \in Text
             PROVE  WriteStringLiteral(s) = <<"\"">> \o Body(s) \o <<"\"">>
  OBVIOUS
<1>1. \A i \in DOMAIN s : s[i] \in Glyph
  BY DEF Text
<1>2. \A i \in DOMAIN s : Escaped[s[i]] = Written(s[i])
  BY <1>1 DEF Escaped
<1>3. [i \in DOMAIN s |-> Escaped[s[i]]] = [i \in DOMAIN s |-> Written(s[i])]
  BY <1>2
<1> QED
  BY <1>3 DEF Body, Each, WriteStringLiteral

(* The glyphs of the syntax are glyphs.                                     *)
LEMMA SyntaxGlyphs ==
    /\ "0" \in Glyph /\ "1" \in Glyph /\ "2" \in Glyph /\ "3" \in Glyph
    /\ "4" \in Glyph /\ "5" \in Glyph /\ "6" \in Glyph /\ "7" \in Glyph
    /\ "#" \in Glyph /\ "/" \in Glyph /\ ";" \in Glyph /\ "\"" \in Glyph /\ "\\" \in Glyph
    /\ "(" \in Glyph /\ ")" \in Glyph /\ Blank \in Glyph /\ Concat \in Glyph /\ Ignore \in Glyph
    /\ "LF" \in Glyph /\ "CR" \in Glyph /\ "TAB" \in Glyph
    /\ "n" \in Glyph /\ "r" \in Glyph /\ "char" \in Glyph
<1>1. \A c \in Syntax : c \in Glyph
  BY LookupAssumption DEF LookupAssumption
<1>2. Octal \subseteq Syntax
  BY DEF Syntax
<1> QED
  BY <1>1, <1>2 DEF Syntax, Octal, Blank, Concat, Ignore

(* Short texts.                                                            *)
LEMMA ShortText ==
    /\ <<>> \in Text
    /\ \A a \in Glyph : <<a>> \in Text
    /\ \A a, b \in Glyph : <<a, b>> \in Text
    /\ \A a, b, c \in Glyph : <<a, b, c>> \in Text
    /\ \A a, b, c, d \in Glyph : <<a, b, c, d>> \in Text
  BY DEF Text

(* What is written for a glyph is text.                                     *)
LEMMA EscTyped == \A c \in Glyph : Escaped[c] = Written(c) /\ Written(c) \in Text
<1> SUFFICES ASSUME NEW c \in Glyph PROVE Escaped[c] = Written(c) /\ Written(c) \in Text
  OBVIOUS
<1>1. Escaped[c] = Written(c)
  BY DEF Escaped
<1>2. Written(c) \in Text
  <2>1. /\ <<"\\", "0", "5", "7">> \in Text /\ <<"\\", "0", "7", "3">> \in Text
        /\ <<"\\", "\"">> \in Text /\ <<"\\", "\\">> \in Text /\ <<"\\", "n">> \in Text
        /\ <<"\\", "r">> \in Text /\ <<c>> \in Text
    BY ShortText, SyntaxGlyphs
  <2> QED
    BY <2>1, EscIs
<1> QED
  BY <1>1, <1>2

(* A glyph more is written after the others.                                *)
LEMMA BodyStep ==
    /\ Body(<<>>) = <<>>
    /\ \A s \in Text : Body(s) \in Text
    /\ \A s \in Text : \A c \in Glyph : Body(Append(s, c)) = Body(s) \o Written(c)
<1>1. ASSUME NEW s \in Text, NEW c \in Glyph
      PROVE  /\ Each(Escaped, <<>>) = <<>>
             /\ Each(Escaped, s) \in Seq(Text)
             /\ Each(Escaped, Append(s, c)) = Append(Each(Escaped, s), Escaped[c])
  <2>1. Escaped \in [Glyph -> Text]
    BY EscTyped DEF Escaped
  <2>2. s \in Seq(Glyph)
    BY DEF Text
  <2>3. PICK F, G, U : F = Escaped /\ G = Glyph /\ U = Text
    OBVIOUS
  <2>4. F \in [G -> U] /\ s \in Seq(G) /\ c \in G
    BY <2>1, <2>2, <2>3
  <2>5. Each(F, <<>>) = <<>> /\ Each(F, s) \in Seq(U)
    BY <2>4, EachTyped
  <2>6. Each(F, Append(s, c)) = Append(Each(F, s), F[c])
    <3>1. Each(F, Added(s, c)) = Added(Each(F, s), F[c])
      BY <2>4, EachAdded
    <3> QED
      BY <3>1 DEF Added
  <2> QED
    BY <2>3, <2>5, <2>6
<1>2. "n" \in Glyph /\ <<>> \in Text
  BY SyntaxGlyphs, ShortText
<1>3. Body(<<>>) = <<>>
  BY <1>1, <1>2, FlattenStep DEF Body
<1>4. ASSUME NEW s \in Text PROVE Body(s) \in Text
  <2>1. Each(Escaped, s) \in Seq(Text)
    BY <1>1, <1>2
  <2> QED
    BY <2>1, FlattenTyped DEF Body, Text
<1>5. ASSUME NEW s \in Text, NEW c \in Glyph PROVE Body(Append(s, c)) = Body(s) \o Written(c)
  <2>1. PICK x : x = Written(c)
    OBVIOUS
  <2>2. PICK f : f = Each(Escaped, s)
    OBVIOUS
  <2>3. x \in Text /\ f \in Seq(Text) /\ Each(Escaped, Append(s, c)) = Append(f, x)
    BY <1>1, <2>1, <2>2, EscTyped
  <2>4. FlattenSeq(Append(f, x)) = FlattenSeq(f) \o x
    BY <2>3, FlattenStep DEF Text
  <2> QED
    BY <2>1, <2>2, <2>3, <2>4 DEF Body
<1> QED
  BY <1>3, <1>4, <1>5

(* ---- reading a literal ---- *)

ScanState ==
    [in : {"list", "text", "escape", "code", "bad"}, words : Seq(Text), text : Text, code : Text]

State(in, words, text, code) == [in |-> in, words |-> words, text |-> text, code |-> code]

(* A state put together from its parts.                                     *)
LEMMA StateIs ==
    ASSUME NEW in \in {"list", "text", "escape", "code", "bad"},
           NEW words \in Seq(Text), NEW text \in Text, NEW code \in Text,
           NEW st, st = State(in, words, text, code)
    PROVE  /\ st \in ScanState
           /\ st.in = in /\ st.words = words /\ st.text = text /\ st.code = code
  BY DEF State, ScanState

(* The changes of a state the reader makes.                                 *)
WithIn(st, in)               == [st EXCEPT !.in = in]
WithWords(st, words)         == [st EXCEPT !.words = words]
WithText(st, text)           == [st EXCEPT !.text = text]
WithCode(st, code)           == [st EXCEPT !.code = code]
WithInCode(st, in, code)     == [st EXCEPT !.in = in, !.code = code]
WithInText(st, in, text)     == [st EXCEPT !.in = in, !.text = text]
WithAll(st, in, text, code)  == [st EXCEPT !.in = in, !.text = text, !.code = code]

(* They are what they say.                                                  *)
LEMMA Changed ==
    ASSUME NEW st \in ScanState, NEW a, NEW b, NEW c
    PROVE  /\ WithIn(st, a) = State(a, st.words, st.text, st.code)
           /\ WithWords(st, a) = State(st.in, a, st.text, st.code)
           /\ WithText(st, a) = State(st.in, st.words, a, st.code)
           /\ WithCode(st, a) = State(st.in, st.words, st.text, a)
           /\ WithInCode(st, a, b) = State(a, st.words, st.text, b)
           /\ WithInText(st, a, b) = State(a, st.words, b, st.code)
           /\ WithAll(st, a, b, c) = State(a, st.words, b, c)
<1>1. /\ [st EXCEPT !.in = a] = State(a, st.words, st.text, st.code)
      /\ [st EXCEPT !.words = a] = State(st.in, a, st.text, st.code)
      /\ [st EXCEPT !.text = a] = State(st.in, st.words, a, st.code)
      /\ [st EXCEPT !.code = a] = State(st.in, st.words, st.text, a)
  BY DEF ScanState, State
<1>2. PICK u : u = [st EXCEPT !.in = a]
  OBVIOUS
<1>3. PICK v : v = [u EXCEPT !.text = b]
  OBVIOUS
<1>4. [st EXCEPT !.in = a, !.code = b] = [u EXCEPT !.code = b]
  BY <1>2
<1>5. [st EXCEPT !.in = a, !.text = b] = v
  BY <1>2, <1>3
<1>6. [st EXCEPT !.in = a, !.text = b, !.code = c] = [v EXCEPT !.code = c]
  BY <1>2, <1>3
<1>7. u = State(a, st.words, st.text, st.code)
  BY <1>1, <1>2
<1>8. [u EXCEPT !.code = b] = State(a, st.words, st.text, b)
  BY <1>7 DEF State
<1>9. v = State(a, st.words, b, st.code)
  BY <1>3, <1>7 DEF State
<1>10. [v EXCEPT !.code = c] = State(a, st.words, b, c)
  BY <1>9 DEF State
<1>11. /\ WithIn(st, a) = State(a, st.words, st.text, st.code)
       /\ WithWords(st, a) = State(st.in, a, st.text, st.code)
       /\ WithText(st, a) = State(st.in, st.words, a, st.code)
       /\ WithCode(st, a) = State(st.in, st.words, st.text, a)
  BY <1>1 DEF WithIn, WithWords, WithText, WithCode
<1>12. WithInCode(st, a, b) = State(a, st.words, st.text, b)
  BY <1>4, <1>8 DEF WithInCode
<1>13. WithInText(st, a, b) = State(a, st.words, b, st.code)
  BY <1>5, <1>9 DEF WithInText
<1>14. WithAll(st, a, b, c) = State(a, st.words, b, c)
  BY <1>6, <1>10 DEF WithAll
<1> QED
  BY <1>11, <1>12, <1>13, <1>14

(* One change at a time.                                                    *)
LEMMA ChangedIn ==
    ASSUME NEW st \in ScanState, NEW a
    PROVE  WithIn(st, a) = State(a, st.words, st.text, st.code)
  BY Changed

(* The same of the words.                                                   *)
LEMMA ChangedWords ==
    ASSUME NEW st \in ScanState, NEW a
    PROVE  WithWords(st, a) = State(st.in, a, st.text, st.code)
  BY Changed

(* The same of the text.                                                    *)
LEMMA ChangedText ==
    ASSUME NEW st \in ScanState, NEW a
    PROVE  WithText(st, a) = State(st.in, st.words, a, st.code)
  BY Changed

(* The same of the code.                                                    *)
LEMMA ChangedCode ==
    ASSUME NEW st \in ScanState, NEW a
    PROVE  WithCode(st, a) = State(st.in, st.words, st.text, a)
  BY Changed

(* What begins a code.                                                      *)
LEMMA ChangedInCode ==
    ASSUME NEW st \in ScanState, NEW a, NEW b
    PROVE  WithInCode(st, a, b) = State(a, st.words, st.text, b)
  BY Changed

(* What ends an escape.                                                     *)
LEMMA ChangedInText ==
    ASSUME NEW st \in ScanState, NEW a, NEW b
    PROVE  WithInText(st, a, b) = State(a, st.words, b, st.code)
  BY Changed

(* The cases of Read.                                                       *)
LEMMA ReadCases ==
    ASSUME NEW st, NEW c
    PROVE  /\ st.in = "list" =>
                Read(st, c) = IF c = Blank THEN st
                              ELSE IF c = "\"" THEN WithIn(st, "text") ELSE Bad
           /\ st.in = "text" => Read(st, c) = InText(st, c)
           /\ st.in = "escape" =>
                Read(st, c) = IF c \in Octal THEN WithInCode(st, "code", <<c>>)
                              ELSE IF c \in DOMAIN Escape
                                THEN WithInText(st, "text", Append(st.text, Escape[c]))
                              ELSE Bad
           /\ st.in = "code" =>
                Read(st, c) = IF c \in Octal /\ TakesMore(st.code)
                              THEN WithCode(st, Append(st.code, c))
                              ELSE InText(CodeRead(st), c)
           /\ st.in = "bad" => Read(st, c) = st
<1>1. st.in = "list" => Read(st, c) = IF c = Blank THEN st
                                      ELSE IF c = "\"" THEN WithIn(st, "text") ELSE Bad
  BY Zenon DEF Read, WithIn
<1>2. st.in = "text" => Read(st, c) = InText(st, c)
  BY Zenon DEF Read
<1>3. st.in = "escape" =>
        Read(st, c) = IF c \in Octal THEN WithInCode(st, "code", <<c>>)
                      ELSE IF c \in DOMAIN Escape
                        THEN WithInText(st, "text", Append(st.text, Escape[c]))
                      ELSE Bad
  BY Zenon DEF Read, WithInCode, WithInText
<1>4. st.in = "code" =>
        Read(st, c) = IF c \in Octal /\ TakesMore(st.code) THEN WithCode(st, Append(st.code, c))
                      ELSE InText(CodeRead(st), c)
  BY Zenon DEF Read, WithCode
<1>5. st.in = "bad" => Read(st, c) = st
  BY Zenon DEF Read
<1> QED
  BY <1>1, <1>2, <1>3, <1>4, <1>5, Zenon

(* What a glyph does in each state.                                         *)
LEMMA ReadIs ==
    ASSUME NEW st \in ScanState, NEW c
    PROVE  /\ st.in = "list" =>
                Read(st, c) = IF c = Blank THEN st
                              ELSE IF c = "\"" THEN State("text", st.words, st.text, st.code)
                              ELSE Bad
           /\ st.in = "text" => Read(st, c) = InText(st, c)
           /\ st.in = "escape" =>
                Read(st, c) = IF c \in Octal THEN State("code", st.words, st.text, <<c>>)
                              ELSE IF c \in DOMAIN Escape
                                THEN State("text", st.words, Append(st.text, Escape[c]), st.code)
                              ELSE Bad
           /\ st.in = "code" =>
                Read(st, c) = IF c \in Octal /\ TakesMore(st.code)
                              THEN State(st.in, st.words, st.text, Append(st.code, c))
                              ELSE InText(CodeRead(st), c)
<1>1. PICK one, t, u : one = <<c>> /\ t = Append(st.text, Escape[c]) /\ u = Append(st.code, c)
  OBVIOUS
<1>2. WithIn(st, "text") = State("text", st.words, st.text, st.code)
  BY ChangedIn
<1>3. WithInCode(st, "code", one) = State("code", st.words, st.text, one)
  BY ChangedInCode
<1>4. WithInText(st, "text", t) = State("text", st.words, t, st.code)
  BY ChangedInText
<1>5. WithCode(st, u) = State(st.in, st.words, st.text, u)
  BY ChangedCode
<1> QED
  BY <1>1, <1>2, <1>3, <1>4, <1>5, ReadCases

(* Between literals.                                                        *)
LEMMA ReadList ==
    ASSUME NEW words \in Seq(Text), NEW text \in Text, NEW code \in Text, NEW c
    PROVE  Read(State("list", words, text, code), c) =
             IF c = Blank THEN State("list", words, text, code)
             ELSE IF c = "\"" THEN State("text", words, text, code) ELSE Bad
<1> DEFINE st == State("list", words, text, code)
<1>1. /\ st \in ScanState
      /\ st.in = "list" /\ st.words = words /\ st.text = text /\ st.code = code
  BY StateIs
<1> HIDE DEF st
<1> QED
  BY <1>1, ReadIs DEF st

(* Inside one.                                                              *)
LEMMA ReadText ==
    ASSUME NEW words \in Seq(Text), NEW text \in Text, NEW code \in Text, NEW c
    PROVE  Read(State("text", words, text, code), c) = InText(State("text", words, text, code), c)
<1> DEFINE st == State("text", words, text, code)
<1>1. /\ st \in ScanState
      /\ st.in = "text" /\ st.words = words /\ st.text = text /\ st.code = code
  BY StateIs
<1> HIDE DEF st
<1> QED
  BY <1>1, ReadIs DEF st

(* After a backslash.                                                       *)
LEMMA ReadEscape ==
    ASSUME NEW words \in Seq(Text), NEW text \in Text, NEW code \in Text, NEW c
    PROVE  Read(State("escape", words, text, code), c) =
             IF c \in Octal THEN State("code", words, text, <<c>>)
             ELSE IF c \in DOMAIN Escape
               THEN State("text", words, Append(text, Escape[c]), code)
             ELSE Bad
<1> DEFINE st == State("escape", words, text, code)
<1>1. /\ st \in ScanState
      /\ st.in = "escape" /\ st.words = words /\ st.text = text /\ st.code = code
  BY StateIs
<1> HIDE DEF st
<1> QED
  BY <1>1, ReadIs DEF st

(* Inside a code.                                                           *)
LEMMA ReadCode ==
    ASSUME NEW words \in Seq(Text), NEW text \in Text, NEW code \in Text, NEW c
    PROVE  Read(State("code", words, text, code), c) =
             IF c \in Octal /\ TakesMore(code)
             THEN State("code", words, text, Append(code, c))
             ELSE InText(CodeRead(State("code", words, text, code)), c)
<1> DEFINE st == State("code", words, text, code)
<1>1. /\ st \in ScanState
      /\ st.in = "code" /\ st.words = words /\ st.text = text /\ st.code = code
  BY StateIs
<1> HIDE DEF st
<1> QED
  BY <1>1, ReadIs DEF st

(* What a glyph does to the text of a literal.                               *)
LEMMA InTextIs ==
    ASSUME NEW words \in Seq(Text), NEW text \in Text, NEW code \in Text, NEW c
    PROVE  InText(State("text", words, text, code), c) =
             IF c = "\"" THEN State("list", Append(words, text), <<>>, <<>>)
             ELSE IF c = "\\" THEN State("escape", words, text, code)
             ELSE State("text", words, Append(text, c), code)
<1> DEFINE st == State("text", words, text, code)
<1>1. /\ st \in ScanState
      /\ st.in = "text" /\ st.words = words /\ st.text = text /\ st.code = code
  BY StateIs
<1> HIDE DEF st
<1>2. PICK t, w : t = Append(text, c) /\ w = Append(words, text)
  OBVIOUS
<1>3. InText(st, c) =
        IF c = "\"" THEN WithWords(Outside, w)
        ELSE IF c = "\\" THEN WithIn(st, "escape") ELSE WithText(st, t)
  BY <1>1, <1>2, Zenon DEF InText, WithWords, WithIn, WithText
<1>4. WithIn(st, "escape") = State("escape", st.words, st.text, st.code)
  BY <1>1, ChangedIn
<1>5. WithText(st, t) = State(st.in, st.words, t, st.code)
  BY <1>1, ChangedText
<1>6. WithWords(Outside, w) = State("list", w, <<>>, <<>>)
  <2>1. Outside = State("list", <<>>, <<>>, <<>>) /\ <<>> \in Text /\ <<>> \in Seq(Text)
    BY ShortText DEF Outside, State
  <2>2. Outside \in ScanState /\ Outside.in = "list" /\ Outside.text = <<>> /\ Outside.code = <<>>
    BY <2>1 DEF State, ScanState
  <2>3. WithWords(Outside, w) = State(Outside.in, w, Outside.text, Outside.code)
    BY <2>2, ChangedWords
  <2> QED
    BY <2>2, <2>3
<1> QED
  BY <1>1, <1>2, <1>3, <1>4, <1>5, <1>6 DEF st

(* A code that is complete is read as its glyph.                             *)
LEMMA CodeReadIs ==
    ASSUME NEW words \in Seq(Text), NEW text \in Text, NEW code \in Text
    PROVE  CodeRead(State("code", words, text, code))
             = State("text", words, Append(text, CharOf(code)), <<>>)
<1> DEFINE st == State("code", words, text, code)
<1>1. /\ st \in ScanState
      /\ st.in = "code" /\ st.words = words /\ st.text = text /\ st.code = code
  BY StateIs
<1> HIDE DEF st
<1>2. PICK t : t = Append(text, CharOf(code))
  OBVIOUS
<1>3. WithAll(st, "text", t, <<>>) = State("text", st.words, t, <<>>)
  BY <1>1, Changed
<1>4. CodeRead(st) = WithAll(st, "text", t, <<>>)
  BY <1>1, <1>2, Zenon DEF CodeRead, WithAll
<1> QED
  BY <1>1, <1>2, <1>3, <1>4 DEF st

(* Inside a literal with this much of its text read, the last glyph of it     *)
(* possibly still a code of three digits.                                   *)
Reading(st, words, text) ==
    \/ st = State("text", words, text, <<>>)
    \/ \E t \in Text, code \in Text :
          /\ Len(code) = 3 /\ text = Append(t, CharOf(code))
          /\ st = State("code", words, t, code)

(* The glyphs that need no escape are read as they are.                      *)
LEMMA ReadingOn ==
    ASSUME NEW st, NEW words \in Seq(Text), NEW text \in Text, Reading(st, words, text), NEW c
    PROVE  /\ c = "\"" => Read(st, c) = State("list", Append(words, text), <<>>, <<>>)
           /\ c = "\\" => Read(st, c) = State("escape", words, text, <<>>)
           /\ c # "\"" /\ c # "\\" => Read(st, c) = State("text", words, Append(text, c), <<>>)
<1>1. <<>> \in Text
  BY ShortText
<1>2. Read(st, c) = InText(State("text", words, text, <<>>), c)
  <2>1. CASE st = State("text", words, text, <<>>)
    BY <1>1, <2>1, ReadText
  <2>2. CASE \E t \in Text, code \in Text :
                /\ Len(code) = 3 /\ text = Append(t, CharOf(code))
                /\ st = State("code", words, t, code)
    <3>1. PICK t \in Text, code \in Text :
                /\ Len(code) = 3 /\ text = Append(t, CharOf(code))
                /\ st = State("code", words, t, code)
      BY <2>2
    <3>2. ~TakesMore(code)
      BY <3>1 DEF TakesMore
    <3>3. Read(st, c) = InText(CodeRead(st), c)
      BY <3>1, <3>2, ReadCode
    <3>4. CodeRead(st) = State("text", words, text, <<>>)
      BY <3>1, CodeReadIs
    <3> QED
      BY <3>3, <3>4
  <2> QED
    BY <2>1, <2>2 DEF Reading
<1>3. InText(State("text", words, text, <<>>), c) =
        IF c = "\"" THEN State("list", Append(words, text), <<>>, <<>>)
        ELSE IF c = "\\" THEN State("escape", words, text, <<>>)
        ELSE State("text", words, Append(text, c), <<>>)
  BY <1>1, InTextIs
<1> QED
  BY <1>2, <1>3

(* What escapes and codes stand for.                                        *)
LEMMA EscapeIs ==
    /\ "\"" \in DOMAIN Escape /\ Escape["\""] = "\""
    /\ "\\" \in DOMAIN Escape /\ Escape["\\"] = "\\"
    /\ "n" \in DOMAIN Escape /\ Escape["n"] = "LF"
    /\ "r" \in DOMAIN Escape /\ Escape["r"] = "CR"
    /\ "\"" \notin Octal /\ "\\" \notin Octal /\ "n" \notin Octal /\ "r" \notin Octal
    /\ CharOf(<<"0", "5", "7">>) = "/" /\ CharOf(<<"0", "7", "3">>) = ";"
<1> DEFINE F(c) == CASE c = "n" -> "LF" [] c = "t" -> "TAB" [] c = "r" -> "CR" [] OTHER -> c
<1>1. /\ DOMAIN Escape = {"\"", "\\", "n", "t", "r"}
      /\ \A c \in {"\"", "\\", "n", "t", "r"} : Escape[c] = F(c)
  BY DEF Escape
<1>2. \A c : F(c) = IF c = "n" THEN "LF" ELSE IF c = "t" THEN "TAB" ELSE IF c = "r" THEN "CR" ELSE c
  BY Zenon
<1> HIDE DEF F
<1>3. CharOf(<<"0", "5", "7">>) = "/"
  BY Zenon DEF CharOf
<1>4. CharOf(<<"0", "7", "3">>) =
        IF <<"0", "7", "3">> \in {<<"0", "5", "7">>, <<"5", "7">>} THEN "/"
        ELSE IF <<"0", "7", "3">> \in {<<"0", "7", "3">>, <<"7", "3">>} THEN ";" ELSE "char"
  BY Zenon DEF CharOf
<1>5. <<"0", "7", "3">> # <<"0", "5", "7">> /\ <<"0", "7", "3">> # <<"5", "7">>
  OBVIOUS
<1>6. CharOf(<<"0", "7", "3">>) = ";"
  BY <1>4, <1>5
<1>7. "\"" \notin Octal /\ "\\" \notin Octal /\ "n" \notin Octal /\ "r" \notin Octal
  BY DEF Octal
<1> QED
  BY <1>1, <1>2, <1>3, <1>6, <1>7

(* Two members make a pair.                                                 *)
LEMMA PairIs ==
    ASSUME NEW T, NEW u \in Seq(T), Len(u) = 2 PROVE u = <<u[1], u[2]>>
  OBVIOUS

(* A member and one more.                                                   *)
LEMMA AppendOne == ASSUME NEW T, NEW a \in T, NEW b \in T PROVE Append(<<a>>, b) = <<a, b>>
<1>1. PICK t : t = <<a>>
  OBVIOUS
<1>2. t \in Seq(T) /\ Len(t) = 1 /\ t[1] = a
  BY <1>1
<1>3. PICK u : u = Append(t, b)
  OBVIOUS
<1>4. /\ u \in Seq(T) /\ Len(u) = Len(t) + 1 /\ u[Len(t) + 1] = b
      /\ \A i \in 1 .. Len(t) : u[i] = t[i]
  BY <1>2, <1>3, Appended
<1>5. Len(u) = 2 /\ u[1] = a /\ u[2] = b
  BY <1>2, <1>4
<1>6. u = <<u[1], u[2]>>
  BY <1>4, <1>5, PairIs
<1> QED
  BY <1>1, <1>3, <1>5, <1>6

(* Three members make a triple.                                             *)
LEMMA TripleIs ==
    ASSUME NEW T, NEW u \in Seq(T), Len(u) = 3 PROVE u = <<u[1], u[2], u[3]>>
  OBVIOUS

(* Two members and one more.                                                *)
LEMMA AppendTwo ==
    ASSUME NEW T, NEW a \in T, NEW b \in T, NEW c \in T PROVE Append(<<a, b>>, c) = <<a, b, c>>
<1>1. PICK t : t = <<a, b>>
  OBVIOUS
<1>2. t \in Seq(T) /\ Len(t) = 2 /\ t[1] = a /\ t[2] = b
  BY <1>1
<1>7. t \in Seq(T)
  BY <1>2
<1>3. PICK u : u = Append(t, c)
  OBVIOUS
<1>4. /\ u \in Seq(T) /\ Len(u) = Len(t) + 1 /\ u[Len(t) + 1] = c
      /\ \A i \in 1 .. Len(t) : u[i] = t[i]
  BY <1>3, <1>7, Appended
<1>5. Len(u) = 3 /\ u[1] = a /\ u[2] = b /\ u[3] = c
  BY <1>2, <1>4
<1>6. u = <<u[1], u[2], u[3]>>
  BY <1>4, <1>5, TripleIs
<1> QED
  BY <1>1, <1>3, <1>5, <1>6

(* Texts one after the other.                                               *)
LEMMA JoinTyped == ASSUME NEW a \in Text, NEW b \in Text PROVE a \o b \in Text
  BY DEF Text

(* It does not matter which are joined first.                                *)
LEMMA JoinAssoc ==
    ASSUME NEW a \in Text, NEW b \in Text, NEW c \in Text
    PROVE  a \o (b \o c) = (a \o b) \o c
  BY DEF Text

(* A text with a few glyphs after it.                                       *)
LEMMA JoinOne ==
    ASSUME NEW u \in Text, NEW a \in Glyph PROVE u \o <<a>> = Append(u, a)
  BY DEF Text

(* The same with two.                                                       *)
LEMMA JoinTwo ==
    ASSUME NEW u \in Text, NEW a \in Glyph, NEW b \in Glyph
    PROVE  u \o <<a, b>> = Append(Append(u, a), b)
  BY DEF Text

(* The same with four.                                                      *)
LEMMA JoinFour ==
    ASSUME NEW u \in Text, NEW a \in Glyph, NEW b \in Glyph, NEW c \in Glyph, NEW d \in Glyph
    PROVE  u \o <<a, b, c, d>> = Append(Append(Append(Append(u, a), b), c), d)
  BY DEF Text

(* The reader after one glyph more.                                         *)
LEMMA ScanOn ==
    ASSUME NEW u \in Text, NEW c \in Glyph
    PROVE  Append(u, c) \in Text /\ Scan(Append(u, c)) = Read(Scan(u), c)
  BY ScanStep DEF Text

(* What is written for a glyph is read as that glyph.                        *)
LEMMA WrittenRead ==
    ASSUME NEW u \in Text, NEW words \in Seq(Text), NEW text \in Text, NEW c \in Glyph,
           Reading(Scan(u), words, text)
    PROVE  Reading(Scan(u \o Written(c)), words, Append(text, c))
<1>10. <<>> \in Text /\ Append(text, c) \in Text
  BY ShortText DEF Text
<1>1. /\ <<>> \in Text /\ Append(text, c) \in Text
      /\ "\\" \in Glyph /\ "0" \in Glyph /\ "5" \in Glyph /\ "7" \in Glyph /\ "3" \in Glyph
      /\ "n" \in Glyph /\ "r" \in Glyph /\ "\"" \in Glyph
  BY <1>10, SyntaxGlyphs
<1>2. PICK v : v = Append(u, "\\")
  OBVIOUS
<1>3. v \in Text /\ Scan(v) = State("escape", words, text, <<>>)
  <2>1. v \in Text /\ Scan(v) = Read(Scan(u), "\\")
    BY <1>1, <1>2, ScanOn
  <2>2. Read(Scan(u), "\\") = State("escape", words, text, <<>>)
    BY ReadingOn
  <2> QED
    BY <2>1, <2>2
<1>4. ASSUME NEW e \in Glyph, e \in DOMAIN Escape, e \notin Octal, Escape[e] = c
      PROVE  Reading(Scan(u \o <<"\\", e>>), words, Append(text, c))
  <2>1. u \o <<"\\", e>> = Append(v, e)
    BY <1>1, <1>2, <1>4, JoinTwo
  <2>2. Scan(Append(v, e)) = Read(State("escape", words, text, <<>>), e)
    BY <1>3, ScanOn
  <2>3. Read(State("escape", words, text, <<>>), e) = State("text", words, Append(text, c), <<>>)
    BY <1>1, <1>4, ReadEscape
  <2> QED
    BY <2>1, <2>2, <2>3 DEF Reading
<1>5. ASSUME NEW d \in Octal, NEW e \in Octal, d \in Glyph, e \in Glyph,
             CharOf(<<"0", d, e>>) = c
      PROVE  Reading(Scan(u \o <<"\\", "0", d, e>>), words, Append(text, c))
  <2>1. PICK x, y, z : x = Append(v, "0") /\ y = Append(x, d) /\ z = Append(y, e)
    OBVIOUS
  <2>2. u \o <<"\\", "0", d, e>> = z
    <3>1. PICK bs, zero : bs = "\\" /\ zero = "0"
      OBVIOUS
    <3>2. bs \in Glyph /\ zero \in Glyph /\ d \in Glyph /\ e \in Glyph
      BY <1>1, <1>5, <3>1
    <3>3. u \o <<bs, zero, d, e>> = Append(Append(Append(Append(u, bs), zero), d), e)
      BY ONLY <3>2, u \in Text, JoinFour
    <3> QED
      BY <1>2, <2>1, <3>1, <3>3
  <2>3. "0" \in Octal
    BY DEF Octal
  <2>4. <<"0">> \in Text /\ <<"0", d>> \in Text /\ <<"0", d, e>> \in Text
    BY <1>1, <1>5, ShortText
  <2>5. x \in Text /\ Scan(x) = State("code", words, text, <<"0">>)
    <3>1. x \in Text /\ Scan(x) = Read(State("escape", words, text, <<>>), "0")
      BY <1>1, <1>3, <2>1, ScanOn
    <3> QED
      BY <1>1, <2>3, <3>1, ReadEscape
  <2>6. TakesMore(<<"0">>) /\ TakesMore(<<"0", d>>)
    BY DEF TakesMore
  <2>7. Append(<<"0">>, d) = <<"0", d>> /\ Append(<<"0", d>>, e) = <<"0", d, e>>
    <3>1. PICK zero : zero = "0"
      OBVIOUS
    <3>2. zero \in Glyph
      BY <1>1, <3>1
    <3>3. Append(<<zero>>, d) = <<zero, d>>
      BY <1>5, <3>2, AppendOne
    <3>4. Append(<<zero, d>>, e) = <<zero, d, e>>
      BY <1>5, <3>2, AppendTwo
    <3> QED
      BY <3>1, <3>3, <3>4
  <2>8. y \in Text /\ Scan(y) = State("code", words, text, <<"0", d>>)
    <3>1. y \in Text /\ Scan(y) = Read(State("code", words, text, <<"0">>), d)
      BY <1>5, <2>1, <2>5, ScanOn
    <3>2. Read(State("code", words, text, <<"0">>), d)
            = State("code", words, text, Append(<<"0">>, d))
      BY <2>4, <2>6, ReadCode
    <3> QED
      BY <2>7, <3>1, <3>2
  <2>9. Scan(z) = State("code", words, text, <<"0", d, e>>)
    <3>1. Scan(z) = Read(State("code", words, text, <<"0", d>>), e)
      BY <1>5, <2>1, <2>8, ScanOn
    <3>2. Read(State("code", words, text, <<"0", d>>), e)
            = State("code", words, text, Append(<<"0", d>>, e))
      BY <2>4, <2>6, ReadCode
    <3> QED
      BY <2>7, <3>1, <3>2
  <2>10. Len(<<"0", d, e>>) = 3
    OBVIOUS
  <2> QED
    BY <1>5, <2>2, <2>4, <2>9, <2>10 DEF Reading
<1>6. CASE c = "/"
  <2>1. Written(c) = <<"\\", "0", "5", "7">> /\ "5" \in Octal /\ "7" \in Octal
    BY <1>6, EscIs DEF Octal
  <2>2. CharOf(<<"0", "5", "7">>) = c
    BY <1>6, EscapeIs
  <2> QED
    BY <1>1, <1>5, <2>1, <2>2
<1>7. CASE c = ";"
  <2>1. Written(c) = <<"\\", "0", "7", "3">> /\ "3" \in Octal /\ "7" \in Octal
    BY <1>7, EscIs DEF Octal
  <2>2. CharOf(<<"0", "7", "3">>) = c
    BY <1>7, EscapeIs
  <2> QED
    BY <1>1, <1>5, <2>1, <2>2
<1>8. CASE c \in {"\"", "\\", "LF", "CR"}
  <2>1. PICK e \in {"\"", "\\", "n", "r"} : Written(c) = <<"\\", e>> /\ Escape[e] = c
    BY <1>8, EscIs, EscapeIs
  <2>2. e \in Glyph /\ e \in DOMAIN Escape /\ e \notin Octal
    BY <1>1, EscapeIs
  <2> QED
    BY <1>4, <2>1, <2>2
<1>9. CASE c \notin {"/", ";", "\"", "\\", "LF", "CR"}
  <2>1. Written(c) = <<c>>
    BY <1>9, EscIs
  <2>2. u \o <<c>> = Append(u, c)
    BY JoinOne
  <2>3. Scan(Append(u, c)) = State("text", words, Append(text, c), <<>>)
    <3>1. Scan(Append(u, c)) = Read(Scan(u), c)
      BY ScanOn
    <3>2. Read(Scan(u), c) = State("text", words, Append(text, c), <<>>)
      BY <1>9, ReadingOn
    <3> QED
      BY <3>1, <3>2
  <2> QED
    BY <2>1, <2>2, <2>3 DEF Reading
<1> QED
  BY <1>6, <1>7, <1>8, <1>9

(* A text written in a literal is read back.                                 *)
LEMMA BodyRead ==
    ASSUME NEW u \in Text, NEW words \in Seq(Text), Reading(Scan(u), words, <<>>)
    PROVE  \A s \in Text : Reading(Scan(u \o Body(s)), words, s)
<1> DEFINE S == {s \in Text : Reading(Scan(u \o Body(s)), words, s)}
<1>1. <<>> \in S
  <2>1. u \o <<>> = u /\ Body(<<>>) = <<>> /\ <<>> \in Text
    BY BodyStep, ShortText DEF Text
  <2> QED
    BY <2>1
<1>2. ASSUME NEW s \in Text, NEW c \in Glyph, s \in S PROVE Append(s, c) \in S
  <2>1. PICK b, w : b = Body(s) /\ w = Written(c)
    OBVIOUS
  <2>2. b \in Text /\ w \in Text /\ Body(Append(s, c)) = b \o w /\ Append(s, c) \in Text
    <3>1. b \in Text /\ Body(Append(s, c)) = b \o w
      BY <2>1, BodyStep
    <3>2. w \in Text
      BY <2>1, EscTyped
    <3> QED
      BY <3>1, <3>2 DEF Text
  <2>3. PICK v : v = u \o b
    OBVIOUS
  <2>4. v \in Text /\ u \o (b \o w) = v \o w
    BY <2>2, <2>3 DEF Text
  <2>5. Reading(Scan(v), words, s)
    BY <1>2, <2>1, <2>3
  <2>6. Reading(Scan(v \o w), words, Append(s, c))
    BY <2>1, <2>4, <2>5, WrittenRead
  <2> QED
    BY <2>2, <2>4, <2>6
<1>3. \A s \in Text : s \in S
  <2> HIDE DEF S
  <2> QED
    BY <1>1, <1>2, Longer DEF Text
<1> QED
  BY <1>3

(* A literal adds its text to the words read.                                *)
LEMMA LiteralRead ==
    ASSUME NEW u \in Text, NEW words \in Seq(Text), Scan(u) = State("list", words, <<>>, <<>>),
           NEW s \in Text
    PROVE  /\ WriteStringLiteral(s) \in Text
           /\ Scan(u \o WriteStringLiteral(s)) = State("list", Append(words, s), <<>>, <<>>)
<1>1. PICK b : b = Body(s)
  OBVIOUS
<1>2. b \in Text /\ "\"" \in Glyph /\ <<>> \in Text /\ <<"\"">> \in Text
  BY <1>1, BodyStep, ShortText, SyntaxGlyphs
<1>3. WriteStringLiteral(s) = <<"\"">> \o b \o <<"\"">>
  BY <1>1, LiteralIs
<1>4. PICK v : v = Append(u, "\"")
  OBVIOUS
<1>5. PICK w : w = v \o b
  OBVIOUS
<1>6. v \in Text /\ w \in Text /\ u \o (<<"\"">> \o b \o <<"\"">>) = Append(w, "\"")
  <2>1. PICK q : q = "\""
    OBVIOUS
  <2>2. q \in Glyph /\ v = Append(u, q)
    BY <1>2, <1>4, <2>1
  <2>3. v \in Text /\ w \in Text
    <3>1. v \in Text
      BY <2>2, ScanOn
    <3> QED
      BY <1>2, <1>5, <3>1, JoinTyped
  <2>4. v = u \o <<q>> /\ Append(w, q) = w \o <<q>>
    BY <2>2, <2>3, JoinOne
  <2>5. <<q>> \in Text
    BY <2>2, ShortText
  <2>6. u \o (<<q>> \o b \o <<q>>) = (u \o <<q>>) \o b \o <<q>>
    <3>1. <<q>> \o b \in Text /\ u \o <<q>> \in Text
      BY <1>2, <2>5, JoinTyped
    <3>2. u \o ((<<q>> \o b) \o <<q>>) = (u \o (<<q>> \o b)) \o <<q>>
      BY <2>5, <3>1, JoinAssoc
    <3>3. u \o (<<q>> \o b) = (u \o <<q>>) \o b
      BY <1>2, <2>5, JoinAssoc
    <3> QED
      BY <3>2, <3>3
  <2> QED
    BY <1>5, <2>1, <2>3, <2>4, <2>6
<1>7. Reading(Scan(v), words, <<>>)
  <2>1. Scan(v) = Read(State("list", words, <<>>, <<>>), "\"")
    BY <1>2, <1>4, ScanOn
  <2>2. Read(State("list", words, <<>>, <<>>), "\"") = State("text", words, <<>>, <<>>)
    BY <1>2, ReadList DEF Blank
  <2> QED
    BY <2>1, <2>2 DEF Reading
<1>8. Reading(Scan(w), words, s)
  BY <1>1, <1>5, <1>6, <1>7, BodyRead
<1>9. Scan(Append(w, "\"")) = State("list", Append(words, s), <<>>, <<>>)
  <2>1. Scan(Append(w, "\"")) = Read(Scan(w), "\"")
    BY <1>2, <1>6, ScanOn
  <2>2. Read(Scan(w), "\"") = State("list", Append(words, s), <<>>, <<>>)
    BY <1>8, ReadingOn
  <2> QED
    BY <2>1, <2>2
<1>10. <<"\"">> \o b \o <<"\"">> \in Text
  <2>1. PICK q : q = <<"\"">>
    OBVIOUS
  <2>2. q \in Text /\ q \o b \in Text
    BY <1>2, <2>1, JoinTyped
  <2>3. (q \o b) \o q \in Text
    BY <2>2, JoinTyped
  <2> QED
    BY <2>1, <2>3
<1> QED
  BY <1>3, <1>6, <1>9, <1>10

(* ---- blanks ---- *)

(* The first place of a kind.                                               *)
LEMMA FirstPlace ==
    ASSUME NEW S, NEW N \in Nat, S \subseteq 1 .. N, NEW k \in S, \A j \in S : k <= j
    PROVE  Min(S) = k
<1>1. k \in Nat
  OBVIOUS
<1>2. \A x \in S : x \in Nat
  OBVIOUS
<1>3. Min(S) \in S
  BY <1>2, MinIsMember
<1>4. Min(S) <= k
  <2>1. Min(S) = CHOOSE x \in S : \A y \in S : x <= y
    BY DEF Min
  <2>2. \A y \in S : Min(S) <= y
    BY <2>1
  <2> QED
    BY <2>2
<1>5. Min(S) \in Nat /\ k <= Min(S)
  BY <1>2, <1>3
<1> QED
  BY <1>1, <1>4, <1>5

(* The last place of a kind.                                                *)
LEMMA LastPlace ==
    ASSUME NEW S, NEW N \in Nat, S \subseteq 1 .. N, NEW k \in S, \A j \in S : k >= j
    PROVE  Max(S) = k
<1>1. Max(S) = CHOOSE x \in S : \A y \in S : x >= y
  BY DEF Max
<1>2. Max(S) \in S /\ \A y \in S : Max(S) >= y
  BY <1>1
<1>3. PICK m : m = Max(S)
  OBVIOUS
<1>4. m \in 1 .. N /\ k \in 1 .. N /\ m >= k /\ k >= m
  BY <1>2, <1>3
<1>5. m = k
  BY <1>4
<1> QED
  BY <1>3, <1>5

(* A glyph that is no blank is where a text begins.                          *)
LEMMA TrimStartAt ==
    ASSUME NEW T, NEW s \in Seq(T), NEW k \in 1 .. Len(s), s[k] # Blank,
           \A j \in 1 .. k - 1 : s[j] = Blank
    PROVE  TrimStart(s) = SubSeq(s, k, Len(s))
<1> DEFINE I == {i \in 1 .. Len(s) : s[i] # Blank}
<1>1. SelectInSeq(s, LAMBDA c : c # Blank) = IF I # {} THEN Min(I) ELSE 0
  BY DEF SelectInSeq
<1>2. k \in I /\ I \subseteq 1 .. Len(s) /\ \A j \in I : k <= j
  OBVIOUS
<1>3. Len(s) \in Nat
  OBVIOUS
<1>4. Min(I) = k
  <2> HIDE DEF I
  <2> QED
    BY <1>2, <1>3, FirstPlace
<1>5. SelectInSeq(s, LAMBDA c : c # Blank) = k
  BY <1>1, <1>2, <1>4
<1>6. TrimStart(s) = After(s, k - 1)
  BY <1>5 DEF TrimStart
<1>7. (k - 1) + 1 = k
  OBVIOUS
<1> QED
  BY <1>6, <1>7 DEF After

(* A text that neither begins nor ends with a blank is left as it is.        *)
LEMMA TrimNothing ==
    ASSUME NEW T, NEW s \in Seq(T), s # <<>>, s[1] # Blank, s[Len(s)] # Blank
    PROVE  TrimStart(s) = s /\ Trim(s) = s
<1>1. Len(s) \in Nat /\ Len(s) > 0 /\ 1 \in 1 .. Len(s) /\ Len(s) \in 1 .. Len(s)
  OBVIOUS
<1>2. SubSeq(s, 1, Len(s)) = s
  OBVIOUS
<1>3. TrimStart(s) = s
  <2>1. \A j \in 1 .. 1 - 1 : s[j] = Blank
    OBVIOUS
  <2> QED
    BY <1>1, <1>2, <2>1, TrimStartAt
<1> DEFINE I == {i \in 1 .. Len(s) : s[i] # Blank}
<1>4. SelectLastInSeq(s, LAMBDA c : c # Blank) = IF I # {} THEN Max(I) ELSE 0
  BY DEF SelectLastInSeq
<1>5. Len(s) \in I /\ I \subseteq 1 .. Len(s) /\ \A j \in I : Len(s) >= j
  BY <1>1
<1>6. Max(I) = Len(s)
  <2> HIDE DEF I
  <2> QED
    BY <1>1, <1>5, LastPlace
<1>7. SelectLastInSeq(s, LAMBDA c : c # Blank) = Len(s)
  BY <1>4, <1>5, <1>6
<1>8. Trim(s) = TrimStart(SubSeq(s, 1, Len(s)))
  BY <1>7 DEF Trim
<1> QED
  BY <1>2, <1>3, <1>8

(* ---- forms ---- *)

(* A text of one glyph and what follows.                                    *)
LEMMA HeadTail ==
    ASSUME NEW T, NEW a \in T, NEW s \in Seq(T), NEW t, t = <<a>> \o s
    PROVE  /\ t \in Seq(T) /\ Len(t) = Len(s) + 1 /\ t # <<>> /\ t[1] = a
           /\ \A i \in 1 .. Len(s) : t[i + 1] = s[i]
           /\ SubSeq(t, 2, Len(t)) = s
<1>1. t \in Seq(T) /\ Len(t) = Len(s) + 1 /\ t # <<>> /\ t[1] = a
  OBVIOUS
<1>2. \A i \in 1 .. Len(s) : t[i + 1] = s[i]
  OBVIOUS
<1>3. SubSeq(t, 2, Len(t)) = s
  <2>1. PICK N : N = Len(s)
    OBVIOUS
  <2>2. N \in Nat /\ Len(t) = N + 1
    BY <1>1, <2>1
  <2>3. SubSeq(t, 2, Len(t)) = [i \in 1 .. N |-> t[i + 1]]
    BY <1>1, <2>2
  <2>4. s = [i \in 1 .. N |-> s[i]]
    BY <2>1
  <2> QED
    BY <1>2, <2>1, <2>3, <2>4
<1> QED
  BY <1>1, <1>2, <1>3

(* A text of what precedes and one glyph.                                   *)
LEMMA FrontEnd ==
    ASSUME NEW T, NEW s \in Seq(T), NEW b \in T, NEW t, t = s \o <<b>>
    PROVE  /\ t \in Seq(T) /\ Len(t) = Len(s) + 1 /\ t # <<>> /\ t[Len(t)] = b
           /\ \A i \in 1 .. Len(s) : t[i] = s[i]
           /\ SubSeq(t, 1, Len(s)) = s
<1>1. t \in Seq(T) /\ Len(t) = Len(s) + 1 /\ t # <<>> /\ t[Len(t)] = b
  OBVIOUS
<1>2. \A i \in 1 .. Len(s) : t[i] = s[i]
  OBVIOUS
<1>3. SubSeq(t, 1, Len(s)) = s
  <2>1. PICK N : N = Len(s)
    OBVIOUS
  <2>2. N \in Nat /\ Len(t) = N + 1
    BY <1>1, <2>1
  <2>3. SubSeq(t, 1, N) = [i \in 1 .. N |-> t[i]]
    BY <1>1, <2>2
  <2>4. s = [i \in 1 .. N |-> s[i]]
    BY <2>1
  <2> QED
    BY <1>2, <2>1, <2>3, <2>4
<1> QED
  BY <1>1, <1>2, <1>3

(* What stands between parentheses.                                         *)
LEMMA Bracketed ==
    ASSUME NEW mid \in Text, NEW t, t = <<"(">> \o mid \o <<")">>
    PROVE  t \in Text /\ Len(t) = Len(mid) + 2 /\ t[1] = "(" /\ t[Len(t)] = ")"
           /\ Trim(t) = t /\ Inside(t) = Trim(mid)
<1>1. PICK p, q : p = "(" /\ q = ")"
  OBVIOUS
<1>2. p \in Glyph /\ q \in Glyph /\ p # Blank /\ q # Blank
  BY <1>1, SyntaxGlyphs DEF Blank
<1>3. PICK u : u = <<p>> \o mid
  OBVIOUS
<1>4. mid \in Seq(Glyph)
  BY DEF Text
<1>5. /\ u \in Seq(Glyph) /\ Len(u) = Len(mid) + 1 /\ u[1] = p
      /\ SubSeq(u, 2, Len(u)) = mid
  BY <1>2, <1>3, <1>4, HeadTail
<1>6. /\ t \in Seq(Glyph) /\ Len(t) = Len(u) + 1 /\ t[Len(t)] = q /\ t # <<>>
      /\ \A i \in 1 .. Len(u) : t[i] = u[i]
  <2>1. t = u \o <<q>>
    BY <1>1, <1>3
  <2>2. u \in Seq(Glyph) /\ q \in Glyph
    BY <1>2, <1>5
  <2> QED
    BY ONLY <2>1, <2>2, FrontEnd
<1>7. Len(mid) \in Nat /\ t[1] = p
  BY <1>4, <1>5, <1>6
<1>8. Trim(t) = t
  BY <1>2, <1>6, <1>7, TrimNothing
<1>9. SubSeq(t, 2, Len(t) - 1) = mid
  <2>1. PICK N : N = Len(u)
    OBVIOUS
  <2>2. N \in Nat /\ N >= 1 /\ Len(t) = N + 1
    BY <1>5, <1>6, <1>7, <2>1
  <2>3. SubSeq(t, 2, N) = [i \in 1 .. N - 1 |-> t[i + 1]]
    BY <1>6, <2>2
  <2>4. SubSeq(u, 2, N) = [i \in 1 .. N - 1 |-> u[i + 1]]
    BY <1>5, <2>1, <2>2
  <2>5. \A i \in 1 .. N - 1 : t[i + 1] = u[i + 1]
    BY <1>6, <2>1, <2>2
  <2> QED
    BY <1>5, <2>1, <2>2, <2>3, <2>4, <2>5
<1>10. Inside(t) = Trim(mid)
  <2>1. Len(t) >= 2 /\ t[1] = "(" /\ t[Len(t)] = ")"
    BY <1>1, <1>5, <1>6, <1>7
  <2> QED
    BY <1>9, <2>1 DEF Inside
<1> QED
  BY <1>1, <1>5, <1>6, <1>7, <1>8, <1>10 DEF Text

(* A form is split at its head; another head is not found.                   *)
LEMMA HeadSplit ==
    ASSUME NEW h \in Glyph, h # Blank, NEW rest \in Text,
           rest # <<>> => rest[1] = Blank /\ rest[Len(rest)] # Blank,
           NEW t, t = <<"(">> \o (<<h>> \o rest) \o <<")">>
    PROVE  /\ t \in Text /\ t[1] = "(" /\ Len(t) = Len(rest) + 3
           /\ SplitHead(t, h) = TrimStart(rest) /\ Inside(Trim(t)) = <<h>> \o rest
<1>1. PICK mid : mid = <<h>> \o rest
  OBVIOUS
<1>2. rest \in Seq(Glyph)
  BY DEF Text
<1>3. /\ mid \in Seq(Glyph) /\ Len(mid) = Len(rest) + 1 /\ mid # <<>> /\ mid[1] = h
      /\ \A i \in 1 .. Len(rest) : mid[i + 1] = rest[i]
      /\ SubSeq(mid, 2, Len(mid)) = rest
  BY <1>1, <1>2, HeadTail
<1>4. Trim(mid) = mid
  <2>1. mid[Len(mid)] # Blank
    <3>1. CASE rest = <<>>
      BY <1>3, <3>1
    <3>2. CASE rest # <<>>
      <4>1. Len(rest) \in 1 .. Len(rest)
        BY <1>2, <3>2
      <4> QED
        BY <1>3, <3>2, <4>1
    <3> QED
      BY <3>1, <3>2
  <2> QED
    BY <1>3, <2>1, TrimNothing
<1>5. t = <<"(">> \o mid \o <<")">> /\ mid \in Text
  BY <1>1, <1>3 DEF Text
<1>6. t \in Text /\ Len(t) = Len(mid) + 2 /\ t[1] = "(" /\ Trim(t) = t /\ Inside(t) = mid
  BY <1>4, <1>5, Bracketed
<1>7. \A g : SplitHead(t, g) = AfterHead(mid, g)
  BY <1>6 DEF SplitHead
<1>8. Len(mid) > 1 => mid[2] = Blank
  <2> SUFFICES ASSUME Len(mid) > 1 PROVE mid[2] = Blank
    OBVIOUS
  <2>1. rest # <<>> /\ 1 \in 1 .. Len(rest)
    BY <1>2, <1>3
  <2> QED
    BY <1>3, <2>1
<1>9. After(mid, 1) = rest
  BY <1>3 DEF After
<1>10. AfterHead(mid, h) = TrimStart(rest)
  BY <1>3, <1>8, <1>9 DEF AfterHead
<1>11. Len(rest) \in Nat
  BY <1>2
<1>12. Len(t) = Len(rest) + 3
  BY <1>3, <1>6, <1>11
<1>13. SplitHead(t, h) = TrimStart(rest)
  BY <1>7, <1>10
<1>14. Inside(Trim(t)) = <<h>> \o rest
  BY <1>1, <1>6
<1> QED
  BY <1>6, <1>12, <1>13, <1>14

(* Another head is not found.                                               *)
LEMMA HeadOther ==
    ASSUME NEW h \in Glyph, h # Blank, NEW rest \in Text,
           rest # <<>> => rest[1] = Blank /\ rest[Len(rest)] # Blank,
           NEW t, t = <<"(">> \o (<<h>> \o rest) \o <<")">>, NEW g, g # h
    PROVE  SplitHead(t, g) = None
<1>1. Inside(Trim(t)) = <<h>> \o rest
  BY HeadSplit
<1>2. PICK mid : mid = <<h>> \o rest
  OBVIOUS
<1>3. mid[1] = h
  BY <1>2, HeadTail DEF Text
<1> QED
  BY <1>1, <1>2, <1>3 DEF SplitHead, AfterHead

(* A literal is a text between quotes.                                       *)
LEMMA LiteralEnds ==
    ASSUME NEW s \in Text, NEW t, t = WriteStringLiteral(s)
    PROVE  t \in Text /\ t # <<>> /\ t[1] = "\"" /\ t[Len(t)] = "\""
<1>1. PICK q, b : q = "\"" /\ b = Body(s)
  OBVIOUS
<1>2. t = <<q>> \o b \o <<q>> /\ b \in Seq(Glyph) /\ q \in Glyph
  BY <1>1, LiteralIs, BodyStep, SyntaxGlyphs DEF Text
<1>3. PICK u : u = <<q>> \o b
  OBVIOUS
<1>4. u \in Seq(Glyph) /\ u[1] = q /\ Len(u) = Len(b) + 1
  BY <1>2, <1>3, HeadTail
<1>5. t \in Seq(Glyph) /\ t # <<>> /\ t[Len(t)] = q /\ \A i \in 1 .. Len(u) : t[i] = u[i]
  BY <1>2, <1>3, <1>4, FrontEnd
<1>6. Len(b) \in Nat
  BY <1>2
<1>7. t[1] = q
  BY <1>4, <1>5, <1>6
<1> QED
  BY <1>1, <1>5, <1>7 DEF Text

(* The reader at the start.                                                  *)
LEMMA ScanNothing == Scan(<<>>) = State("list", <<>>, <<>>, <<>>)
  BY ScanStep DEF Outside, State

(* The literals of a text that is one are its words.                         *)
LEMMA ListRead ==
    ASSUME NEW s, NEW words \in Seq(Text), Scan(s) = State("list", words, <<>>, <<>>)
    PROVE  StringList(s) = words
  BY StringListIs DEF Closed, State

(* Three glyphs before a text.                                              *)
LEMMA JoinThree ==
    ASSUME NEW a \in Glyph, NEW b \in Glyph, NEW c \in Glyph, NEW s \in Text
    PROVE  /\ <<a, b>> \o s = <<a>> \o (<<b>> \o s)
           /\ <<a, b, c>> \o s = <<a>> \o (<<b>> \o (<<c>> \o s))
<1>1. <<a>> \in Text /\ <<b>> \in Text /\ <<c>> \in Text /\ <<a, b>> \in Text
  BY ShortText
<1>2. <<a, b>> = <<a>> \o <<b>>
  BY <1>1, JoinOne, AppendOne
<1>3. <<a, b, c>> = <<a, b>> \o <<c>>
  BY <1>1, JoinOne, AppendTwo
<1>4. <<a>> \o (<<b>> \o s) = (<<a>> \o <<b>>) \o s
  BY <1>1, JoinAssoc
<1>5. PICK u : u = <<c>> \o s
  OBVIOUS
<1>6. u \in Text
  BY <1>1, <1>5, JoinTyped
<1>7. <<a, b>> \o u = (<<a, b>> \o <<c>>) \o s
  BY <1>1, <1>5, JoinAssoc
<1>8. <<a>> \o (<<b>> \o u) = (<<a>> \o <<b>>) \o u
  BY <1>1, <1>6, JoinAssoc
<1> QED
  BY <1>2, <1>3, <1>4, <1>5, <1>7, <1>8

(* One blank before a text that begins with none.                            *)
LEMMA BlankBefore ==
    ASSUME NEW s \in Text, s # <<>>, s[1] # Blank, NEW t, t = <<Blank>> \o s
    PROVE  t \in Text /\ t # <<>> /\ t[1] = Blank /\ t[Len(t)] = s[Len(s)] /\ TrimStart(t) = s
<1>1. PICK b : b = Blank
  OBVIOUS
<1>2. b \in Glyph /\ s \in Seq(Glyph)
  BY <1>1, SyntaxGlyphs DEF Text
<1>3. /\ t \in Seq(Glyph) /\ Len(t) = Len(s) + 1 /\ t # <<>> /\ t[1] = b
      /\ \A i \in 1 .. Len(s) : t[i + 1] = s[i]
      /\ SubSeq(t, 2, Len(t)) = s
  BY <1>1, <1>2, HeadTail
<1>4. Len(s) \in Nat /\ Len(s) >= 1
  BY <1>2
<1>5. 2 \in 1 .. Len(t) /\ t[2] # Blank /\ \A j \in 1 .. 2 - 1 : t[j] = Blank
  BY <1>1, <1>3, <1>4
<1>6. TrimStart(t) = SubSeq(t, 2, Len(t))
  BY <1>3, <1>5, TrimStartAt
<1>7. t[Len(t)] = s[Len(s)]
  BY <1>3, <1>4
<1> QED
  BY <1>1, <1>3, <1>6, <1>7 DEF Text

(* How a text is quoted.                                                    *)
Quoted(w) == <<"(", Concat, Blank>> \o WriteStringLiteral(w) \o <<")">>

(* What is quoted is read back.                                             *)
LEMMA QuotedRead ==
    ASSUME NEW w \in Text
    PROVE  Quoted(w) \in Text /\ Quoted(w)[1] = "(" /\ ParseConcat(Quoted(w)) = w
<1>1. PICK t, lit, rest : t = Quoted(w) /\ lit = WriteStringLiteral(w) /\ rest = <<Blank>> \o lit
  OBVIOUS
<1>2. lit \in Text /\ lit # <<>> /\ lit[1] = "\"" /\ lit[Len(lit)] = "\""
  BY <1>1, LiteralEnds
<1>3. "\"" # Blank /\ Concat # Blank /\ Concat \in Glyph /\ Blank \in Glyph /\ "(" \in Glyph
  BY SyntaxGlyphs DEF Blank, Concat
<1>4. /\ rest \in Text /\ rest # <<>> /\ rest[1] = Blank /\ rest[Len(rest)] # Blank
      /\ TrimStart(rest) = lit
  BY <1>1, <1>2, <1>3, BlankBefore
<1>5. t = <<"(">> \o (<<Concat>> \o rest) \o <<")">>
  <2>1. PICK a, b, c : a = "(" /\ b = Concat /\ c = Blank
    OBVIOUS
  <2>2. a \in Glyph /\ b \in Glyph /\ c \in Glyph
    BY <1>3, <2>1
  <2>3. <<a, b, c>> \o lit = <<a>> \o (<<b>> \o (<<c>> \o lit))
    BY <1>2, <2>2, JoinThree
  <2> QED
    BY <1>1, <2>1, <2>3 DEF Quoted
<1>6. t \in Text /\ t[1] = "(" /\ SplitHead(t, Concat) = lit
  BY <1>3, <1>4, <1>5, HeadSplit
<1>7. StringList(lit) = <<w>>
  <2>1. <<>> \in Text /\ <<>> \in Seq(Text) /\ <<w>> \in Seq(Text)
    BY ShortText
  <2>2. <<>> \o lit = lit /\ Append(<<>>, w) = <<w>>
    <3>1. lit \in Seq(Glyph)
      BY <1>2 DEF Text
    <3>2. <<>> \o lit = lit
      BY <3>1
    <3> QED
      BY <3>2
  <2>3. Scan(<<>> \o lit) = State("list", Append(<<>>, w), <<>>, <<>>)
    BY <1>1, <2>1, ScanNothing, LiteralRead
  <2> QED
    BY <2>1, <2>2, <2>3, ListRead
<1>8. None # lit /\ None # <<w>>
  <2>1. <<w>> \in Seq(Text)
    OBVIOUS
  <2> QED
    BY <1>2, <2>1, LookupAssumption DEF LookupAssumption
<1>9. FlattenSeq(<<w>>) = w
  <2>1. w \in Seq(Glyph) /\ <<>> \in Seq(Seq(Glyph))
    BY DEF Text
  <2>2. FlattenSeq(Append(<<>>, w)) = FlattenSeq(<<>>) \o w
    BY <2>1, FlattenStep
  <2>3. Append(<<>>, w) = <<w>> /\ FlattenSeq(<<>>) = <<>> /\ <<>> \o w = w
    BY <2>1, FlattenStep
  <2> QED
    BY <2>2, <2>3
<1> QED
  BY <1>1, <1>6, <1>7, <1>8, <1>9 DEF ParseConcat, WordsOf, WordsIn, Joined

(* A literal after a blank.                                                 *)
Spaced == [s \in Text |-> <<Blank>> \o WriteStringLiteral(s)]

(* It is text.                                                             *)
LEMMA SpacedTyped ==
    /\ Spaced \in [Text -> Text]
    /\ \A s \in Text : Spaced[s] = <<Blank>> \o WriteStringLiteral(s)
<1>1. ASSUME NEW s \in Text PROVE <<Blank>> \o WriteStringLiteral(s) \in Text
  <2>1. WriteStringLiteral(s) \in Text
    BY LiteralEnds
  <2>2. <<Blank>> \in Text
    BY SyntaxGlyphs, ShortText
  <2> QED
    BY <2>1, <2>2, JoinTyped
<1> QED
  BY <1>1 DEF Spaced

(* A blank before literals changes nothing.                                  *)
LEMMA ScanBlank == \A s \in Text : Scan(<<Blank>> \o s) = Scan(s)
<1> DEFINE S == {s \in Text : Scan(<<Blank>> \o s) = Scan(s)}
<1>1. <<>> \in Text /\ <<Blank>> \in Text /\ Blank \in Glyph
  BY SyntaxGlyphs, ShortText
<1>2. <<>> \in S
  <2>1. <<Blank>> \o <<>> = Append(<<>>, Blank)
    BY <1>1 DEF Text
  <2>2. Scan(Append(<<>>, Blank)) = Read(State("list", <<>>, <<>>, <<>>), Blank)
    BY <1>1, ScanOn, ScanNothing
  <2>3. <<>> \in Seq(Text)
    OBVIOUS
  <2>4. Read(State("list", <<>>, <<>>, <<>>), Blank) = State("list", <<>>, <<>>, <<>>)
    BY <1>1, <2>3, ReadList
  <2> QED
    BY <1>1, <2>1, <2>2, <2>4, ScanNothing
<1>3. ASSUME NEW s \in Text, NEW c \in Glyph, s \in S PROVE Append(s, c) \in S
  <2>1. PICK u : u = <<Blank>> \o s
    OBVIOUS
  <2>2. u \in Text
    BY <1>1, <2>1, JoinTyped
  <2>3. <<Blank>> \o Append(s, c) = Append(u, c)
    BY <1>1, <2>1, AppendJoin DEF Text
  <2>4. Scan(Append(u, c)) = Read(Scan(u), c) /\ Scan(Append(s, c)) = Read(Scan(s), c)
    BY <2>2, ScanOn
  <2>5. Append(s, c) \in Text
    BY ScanOn
  <2> QED
    BY <1>3, <2>1, <2>3, <2>4, <2>5
<1> HIDE DEF S
<1>4. \A s \in Text : s \in S
  BY <1>2, <1>3, Longer DEF Text
<1> QED
  BY <1>4 DEF S

(* The words of a directive as they are written.                             *)
List(words) == FlattenSeq(Each(Spaced, words))

(* Word by word.                                                            *)
LEMMA ListStep ==
    /\ List(<<>>) = <<>>
    /\ \A words \in Seq(Text) : List(words) \in Text
    /\ \A words \in Seq(Text) : \A s \in Text :
          List(Append(words, s)) = List(words) \o (<<Blank>> \o WriteStringLiteral(s))
<1>1. <<>> \in Text
  BY ShortText
<1>2. List(<<>>) = <<>>
  <2>1. <<>> \in Seq(Text)
    OBVIOUS
  <2>2. Each(Spaced, <<>>) = <<>>
    BY <2>1, SpacedTyped, EachTyped
  <2> QED
    BY <2>2, FlattenStep DEF List
<1>3. ASSUME NEW words \in Seq(Text) PROVE Each(Spaced, words) \in Seq(Text)
  BY SpacedTyped, EachTyped
<1>4. ASSUME NEW words \in Seq(Text) PROVE List(words) \in Text
  BY <1>3, FlattenTyped DEF List, Text
<1>5. ASSUME NEW words \in Seq(Text), NEW s \in Text
      PROVE  List(Append(words, s)) = List(words) \o (<<Blank>> \o WriteStringLiteral(s))
  <2>1. PICK f, x : f = Each(Spaced, words) /\ x = Spaced[s]
    OBVIOUS
  <2>2. f \in Seq(Text) /\ x \in Text
    BY <1>3, <2>1, SpacedTyped
  <2>3. Each(Spaced, Added(words, s)) = Added(Each(Spaced, words), Spaced[s])
    BY SpacedTyped, EachAdded
  <2>4. Each(Spaced, Append(words, s)) = Append(f, x)
    BY <2>1, <2>3 DEF Added
  <2>5. FlattenSeq(Append(f, x)) = FlattenSeq(f) \o x
    BY <2>2, FlattenStep DEF Text
  <2> QED
    BY <2>1, <2>4, <2>5, SpacedTyped DEF List
<1> QED
  BY <1>2, <1>4, <1>5

(* They are read back.                                                      *)
LEMMA ListScanned ==
    \A words \in Seq(Text) : Scan(List(words)) = State("list", words, <<>>, <<>>)
<1> DEFINE S == {words \in Seq(Text) : Scan(List(words)) = State("list", words, <<>>, <<>>)}
<1>1. <<>> \in S
  <2>1. <<>> \in Seq(Text)
    OBVIOUS
  <2> QED
    BY <2>1, ListStep, ScanNothing
<1>2. ASSUME NEW words \in Seq(Text), NEW s \in Text, words \in S PROVE Append(words, s) \in S
  <2>1. PICK u, lit, b : u = List(words) /\ lit = WriteStringLiteral(s) /\ b = <<Blank>>
    OBVIOUS
  <2>2. u \in Text /\ b \in Text /\ Blank \in Glyph /\ <<>> \in Text
    BY <2>1, ListStep, SyntaxGlyphs, ShortText
  <2>3. lit \in Text
    BY <2>1, LiteralEnds
  <2>4. PICK v : v = u \o b
    OBVIOUS
  <2>5. List(Append(words, s)) = v \o lit
    <3>1. List(Append(words, s)) = u \o (b \o lit)
      BY <2>1, ListStep
    <3> QED
      BY <2>2, <2>3, <2>4, <3>1, JoinAssoc
  <2>6. v \in Text /\ Scan(v) = State("list", words, <<>>, <<>>)
    <3>1. v = Append(u, Blank)
      BY <2>1, <2>2, <2>4, JoinOne
    <3>2. v \in Text /\ Scan(v) = Read(Scan(u), Blank)
      BY <2>2, <3>1, ScanOn
    <3>3. Scan(u) = State("list", words, <<>>, <<>>)
      BY <1>2, <2>1
    <3>4. Read(State("list", words, <<>>, <<>>), Blank) = State("list", words, <<>>, <<>>)
      BY <2>2, ReadList
    <3> QED
      BY <3>2, <3>3, <3>4
  <2>7. Scan(v \o lit) = State("list", Append(words, s), <<>>, <<>>)
    BY <2>1, <2>6, LiteralRead
  <2>8. Append(words, s) \in Seq(Text)
    OBVIOUS
  <2> QED
    BY <2>5, <2>7, <2>8
<1> HIDE DEF S
<1>3. \A words \in Seq(Text) : words \in S
  BY <1>1, <1>2, Longer
<1> QED
  BY <1>3 DEF S

(* They begin with a blank and end with a quote.                             *)
LEMMA ListEnds ==
    \A words \in Seq(Text) :
        words # <<>> => \E r \in Text : /\ r # <<>> /\ r[1] = "\"" /\ r[Len(r)] = "\""
                                       /\ List(words) = <<Blank>> \o r
<1> DEFINE S == {words \in Seq(Text) :
                    words # <<>> => \E r \in Text :
                        /\ r # <<>> /\ r[1] = "\"" /\ r[Len(r)] = "\""
                        /\ List(words) = <<Blank>> \o r}
<1>1. <<>> \in S
  OBVIOUS
<1>2. ASSUME NEW words \in Seq(Text), NEW s \in Text, words \in S PROVE Append(words, s) \in S
  <2>1. PICK lit, b : lit = WriteStringLiteral(s) /\ b = <<Blank>>
    OBVIOUS
  <2>2. /\ lit \in Text /\ lit # <<>> /\ lit[1] = "\"" /\ lit[Len(lit)] = "\""
        /\ b \in Text
    BY <2>1, LiteralEnds, SyntaxGlyphs, ShortText
  <2>3. List(Append(words, s)) = List(words) \o (b \o lit)
    BY <2>1, ListStep
  <2>4. Append(words, s) \in Seq(Text)
    OBVIOUS
  <2>5. CASE words = <<>>
    <3>1. PICK t : t = b \o lit
      OBVIOUS
    <3>2. t \in Text /\ List(words) = <<>>
      BY <2>2, <2>5, <3>1, JoinTyped, ListStep
    <3>3. <<>> \o t = t
      BY <3>2 DEF Text
    <3> QED
      BY <2>1, <2>2, <2>3, <2>4, <3>1, <3>2, <3>3
  <2>6. CASE words # <<>>
    <3>1. PICK r \in Text : r # <<>> /\ r[1] = "\"" /\ List(words) = b \o r
      BY <1>2, <2>1, <2>6
    <3>2. PICK t, w : t = b \o lit /\ w = r \o t
      OBVIOUS
    <3>3. t \in Text /\ w \in Text
      BY <2>2, <3>2, JoinTyped
    <3>4. List(Append(words, s)) = b \o w
      <4>1. (b \o r) \o t = b \o (r \o t)
        BY <2>2, <3>1, <3>3, JoinAssoc
      <4> QED
        BY <2>3, <3>1, <3>2, <4>1
    <3>5. /\ r \in Seq(Glyph) /\ t \in Seq(Glyph) /\ lit \in Seq(Glyph)
      BY <2>2, <3>1, <3>3 DEF Text
    <3>6. Blank \in Glyph
      BY SyntaxGlyphs
    <3>7. t # <<>> /\ Len(t) \in Nat /\ Len(t) > 0 /\ t[Len(t)] = lit[Len(lit)]
      <4>1. Len(lit) \in Nat /\ Len(lit) \in 1 .. Len(lit)
        BY <2>2, <3>5, NotEmpty
      <4>2. Len(t) = Len(lit) + 1 /\ t # <<>> /\ \A i \in 1 .. Len(lit) : t[i + 1] = lit[i]
        BY <2>1, <3>2, <3>5, <3>6, HeadTail
      <4> QED
        BY <4>1, <4>2
    <3>8. Len(r) \in Nat /\ Len(r) > 0
      <4>1. r \in Seq(Glyph) /\ r # <<>>
        BY <3>1, <3>5
      <4> QED
        BY ONLY <4>1, NotEmpty
    <3>9. w # <<>> /\ w[1] = r[1] /\ w[Len(w)] = t[Len(t)]
      BY <3>2, <3>5, <3>7, <3>8
    <3> QED
      BY <2>1, <2>2, <2>4, <3>1, <3>3, <3>4, <3>7, <3>9
  <2> QED
    BY <2>5, <2>6
<1> HIDE DEF S
<1>3. \A words \in Seq(Text) : words \in S
  BY <1>1, <1>2, Longer
<1> QED
  BY <1>3 DEF S

(* A directive is rendered as its head and its words.                        *)
LEMMA RenderedIs ==
    ASSUME NEW words \in Seq(Text)
    PROVE  RenderIgnoreDicWord(words) = <<"(", Ignore>> \o List(words) \o <<")">>
<1>1. \A i \in DOMAIN words : Spaced[words[i]] = <<Blank>> \o WriteStringLiteral(words[i])
  BY SpacedTyped
<1>2. [i \in DOMAIN words |-> <<Blank>> \o WriteStringLiteral(words[i])]
        = [i \in DOMAIN words |-> Spaced[words[i]]]
  BY <1>1
<1> QED
  BY <1>2 DEF RenderIgnoreDicWord, List, Each

(* A directive is read back.                                                 *)
LEMMA RenderedRead ==
    ASSUME NEW words \in Seq(Text), NEW t, t = RenderIgnoreDicWord(words)
    PROVE  /\ t \in Text /\ t[1] = "(" /\ WordsOf(t, Ignore) = words /\ ParseConcat(t) = None
<1>1. PICK rest : rest = List(words)
  OBVIOUS
<1>2. rest \in Text /\ Ignore \in Glyph /\ "(" \in Glyph /\ Ignore # Blank /\ Concat # Ignore
  BY <1>1, ListStep, SyntaxGlyphs DEF Ignore, Blank, Concat
<1>3. t = <<"(">> \o (<<Ignore>> \o rest) \o <<")">>
  <2>1. PICK a, b : a = "(" /\ b = Ignore
    OBVIOUS
  <2>2. a \in Glyph /\ b \in Glyph
    BY <1>2, <2>1
  <2>3. <<a, b>> \o rest = <<a>> \o (<<b>> \o rest)
    BY <1>2, <2>2, JoinThree
  <2> QED
    BY <1>1, <2>1, <2>3, RenderedIs
<1>4. CASE words = <<>>
  <2>1. rest = <<>>
    BY <1>1, <1>4, ListStep
  <2>2. t \in Text /\ t[1] = "(" /\ SplitHead(t, Ignore) = TrimStart(rest)
        /\ SplitHead(t, Concat) = None
    <3>1. rest # <<>> => rest[1] = Blank /\ rest[Len(rest)] # Blank
      BY <2>1
    <3>2. PICK h, g : h = Ignore /\ g = Concat
      OBVIOUS
    <3>3. h \in Glyph /\ h # Blank /\ g # h
      BY <1>2, <3>2
    <3>4. t = <<"(">> \o (<<h>> \o rest) \o <<")">>
      BY <1>3, <3>2
    <3>7. rest \in Text
      BY <1>2
    <3>5. t \in Text /\ t[1] = "(" /\ SplitHead(t, h) = TrimStart(rest)
      BY ONLY <3>1, <3>3, <3>4, <3>7, HeadSplit, ZenonT(60)
    <3>6. SplitHead(t, g) = None
      BY <1>2, <3>1, <3>3, <3>4, HeadOther
    <3> QED
      BY <3>2, <3>5, <3>6
  <2>3. TrimStart(rest) = <<>>
    BY <2>1 DEF TrimStart, SelectInSeq
  <2>4. StringList(<<>>) = words
    BY <1>1, <2>1, ListScanned, ListRead
  <2>5. None # <<>>
    BY ShortText, LookupAssumption DEF LookupAssumption
  <2> QED
    BY <2>2, <2>3, <2>4, <2>5 DEF WordsOf, WordsIn, ParseConcat, Joined
<1>5. CASE words # <<>>
  <2>1. PICK r \in Text : r # <<>> /\ r[1] = "\"" /\ r[Len(r)] = "\"" /\ rest = <<Blank>> \o r
    BY <1>1, <1>5, ListEnds
  <2>2. "\"" # Blank
    BY DEF Blank
  <2>3. rest # <<>> /\ rest[1] = Blank /\ rest[Len(rest)] # Blank /\ TrimStart(rest) = r
    BY <2>1, <2>2, BlankBefore
  <2>4. t \in Text /\ t[1] = "(" /\ SplitHead(t, Ignore) = r /\ SplitHead(t, Concat) = None
    <3>1. rest # <<>> => rest[1] = Blank /\ rest[Len(rest)] # Blank
      BY <2>3
    <3>2. PICK h, g : h = Ignore /\ g = Concat
      OBVIOUS
    <3>3. h \in Glyph /\ h # Blank /\ g # h
      BY <1>2, <3>2
    <3>4. t = <<"(">> \o (<<h>> \o rest) \o <<")">>
      BY <1>3, <3>2
    <3>7. rest \in Text
      BY <1>2
    <3>5. t \in Text /\ t[1] = "(" /\ SplitHead(t, h) = TrimStart(rest)
      BY ONLY <3>1, <3>3, <3>4, <3>7, HeadSplit, ZenonT(60)
    <3>6. SplitHead(t, g) = None
      BY <1>2, <3>1, <3>3, <3>4, HeadOther
    <3> QED
      BY <2>3, <3>2, <3>5, <3>6
  <2>5. StringList(r) = words
    <3>1. Scan(r) = Scan(rest)
      BY <2>1, ScanBlank
    <3> QED
      BY <1>1, <3>1, ListScanned, ListRead
  <2>6. None # r
    BY LookupAssumption DEF LookupAssumption
  <2> QED
    BY <2>4, <2>5, <2>6 DEF WordsOf, WordsIn, ParseConcat, Joined
<1> QED
  BY <1>4, <1>5

(* ---- where a form ends ---- *)

Parens == [at : Nat, depth : Int, quoted : BOOLEAN, escaped : BOOLEAN]

(* States with the same parts are the same.                                  *)
LEMMA SameParens ==
    ASSUME NEW a \in Parens, NEW b \in Parens, a.at = b.at, a.depth = b.depth,
           a.quoted = b.quoted, a.escaped = b.escaped
    PROVE  a = b
  BY DEF Parens

(* The changes of a state.                                                  *)
QuoteOpened(st)     == [st EXCEPT !.quoted = TRUE]
Deeper(st)          == [st EXCEPT !.depth = @ + 1]
ClosedAt(st, i)     == [st EXCEPT !.depth = @ - 1, !.at = IF st.depth = 1 THEN i ELSE 0]
Unescaped(st)       == [st EXCEPT !.escaped = FALSE]
InLiteral(st, c)    == [st EXCEPT !.escaped = c = "\\", !.quoted = c # "\""]

(* They are what they say.                                                  *)
LEMMA ParensChanged ==
    ASSUME NEW st \in Parens
    PROVE  /\ QuoteOpened(st) \in Parens /\ QuoteOpened(st).at = st.at
           /\ QuoteOpened(st).depth = st.depth /\ QuoteOpened(st).quoted = TRUE
           /\ QuoteOpened(st).escaped = st.escaped
           /\ Deeper(st) \in Parens /\ Deeper(st).at = st.at /\ Deeper(st).depth = st.depth + 1
           /\ Deeper(st).quoted = st.quoted /\ Deeper(st).escaped = st.escaped
           /\ Unescaped(st) \in Parens /\ Unescaped(st).at = st.at
           /\ Unescaped(st).depth = st.depth /\ Unescaped(st).quoted = st.quoted
           /\ Unescaped(st).escaped = FALSE
<1>1. /\ QuoteOpened(st) \in Parens /\ QuoteOpened(st).at = st.at
      /\ QuoteOpened(st).depth = st.depth /\ QuoteOpened(st).quoted = TRUE
      /\ QuoteOpened(st).escaped = st.escaped
  BY DEF QuoteOpened, Parens
<1>2. /\ Deeper(st) \in Parens /\ Deeper(st).at = st.at /\ Deeper(st).depth = st.depth + 1
      /\ Deeper(st).quoted = st.quoted /\ Deeper(st).escaped = st.escaped
  BY DEF Deeper, Parens
<1>3. /\ Unescaped(st) \in Parens /\ Unescaped(st).at = st.at
      /\ Unescaped(st).depth = st.depth /\ Unescaped(st).quoted = st.quoted
      /\ Unescaped(st).escaped = FALSE
  BY DEF Unescaped, Parens
<1> QED
  BY <1>1, <1>2, <1>3

(* The same of a parenthesis that closes.                                    *)
LEMMA ClosedChanged ==
    ASSUME NEW st \in Parens, NEW i \in Nat
    PROVE  /\ ClosedAt(st, i) \in Parens /\ ClosedAt(st, i).at = IF st.depth = 1 THEN i ELSE 0
<1>1. PICK x : x = IF st.depth = 1 THEN i ELSE 0
  OBVIOUS
<1>2. PICK d : d = st.depth - 1
  OBVIOUS
<1>3. x \in Nat /\ d \in Int
  BY <1>1, <1>2 DEF Parens
<1>4. PICK u : u = [st EXCEPT !.depth = d]
  OBVIOUS
<1>5. u \in Parens
  BY <1>3, <1>4 DEF Parens
<1>6. [u EXCEPT !.at = x] \in Parens /\ [u EXCEPT !.at = x].at = x
  BY <1>3, <1>5 DEF Parens
<1>7. [st EXCEPT !.depth = d, !.at = x] = [u EXCEPT !.at = x]
  BY <1>4
<1>8. ClosedAt(st, i) = [st EXCEPT !.depth = d, !.at = x]
  BY <1>1, <1>2, Zenon DEF ClosedAt
<1> QED
  BY <1>1, <1>6, <1>7, <1>8

(* The same of a glyph in a literal.                                         *)
LEMMA LiteralChanged ==
    ASSUME NEW st \in Parens, NEW c
    PROVE  /\ InLiteral(st, c) \in Parens /\ InLiteral(st, c).at = st.at
           /\ InLiteral(st, c).depth = st.depth /\ InLiteral(st, c).escaped = (c = "\\")
           /\ InLiteral(st, c).quoted = (c # "\"")
<1>1. PICK e \in BOOLEAN, q \in BOOLEAN : e = (c = "\\") /\ q = (c # "\"")
  OBVIOUS
<1>2. PICK u : u = [st EXCEPT !.escaped = e]
  OBVIOUS
<1>3. u \in Parens /\ u.at = st.at /\ u.depth = st.depth /\ u.quoted = st.quoted /\ u.escaped = e
  BY <1>2 DEF Parens
<1>4. PICK v : v = [u EXCEPT !.quoted = q]
  OBVIOUS
<1>5. v \in Parens /\ v.at = u.at /\ v.depth = u.depth /\ v.quoted = q /\ v.escaped = u.escaped
  BY <1>3, <1>4 DEF Parens
<1>6. InLiteral(st, c) = v
  <2>1. InLiteral(st, c) = [st EXCEPT !.escaped = e, !.quoted = q]
    BY <1>1, Zenon DEF InLiteral
  <2>2. [st EXCEPT !.escaped = e, !.quoted = q] = v
    BY <1>2, <1>4
  <2> QED
    BY <2>1, <2>2
<1> QED
  BY <1>1, <1>3, <1>5, <1>6

(* What a glyph does once the form is closed.                                *)
LEMMA NestedClosed ==
    ASSUME NEW st, NEW c, NEW i, st.at # 0
    PROVE  Nested(st, c, i) = st
  BY Zenon DEF Nested

(* What it does after a backslash.                                          *)
LEMMA NestedEscaped ==
    ASSUME NEW st, NEW c, NEW i, st.at = 0, st.quoted, st.escaped
    PROVE  Nested(st, c, i) = Unescaped(st)
  BY Zenon DEF Nested, Unescaped

(* What it does in a literal.                                               *)
LEMMA NestedLiteral ==
    ASSUME NEW st, NEW c, NEW i, st.at = 0, st.quoted, ~st.escaped
    PROVE  Nested(st, c, i) = InLiteral(st, c)
  BY Zenon DEF Nested, InLiteral

(* What it does outside of literals.                                        *)
LEMMA NestedOutside ==
    ASSUME NEW st, NEW c, NEW i, st.at = 0, ~st.quoted
    PROVE  Nested(st, c, i) = IF c = "\"" THEN QuoteOpened(st)
                              ELSE IF c = "(" THEN Deeper(st)
                              ELSE IF c = ")" THEN ClosedAt(st, i) ELSE st
  BY Zenon DEF Nested, QuoteOpened, Deeper, ClosedAt

(* The state stays one, and a form is closed at the glyph that is read.       *)
LEMMA NestedTyped ==
    ASSUME NEW st \in Parens, NEW c, NEW i \in Nat
    PROVE  Nested(st, c, i) \in Parens /\ (st.at = 0 => Nested(st, c, i).at \in {0, i})
<1>1. CASE st.at # 0
  <2>1. Nested(st, c, i) = st
    BY <1>1, NestedClosed
  <2> QED
    BY <1>1, <2>1
<1>2. CASE st.at = 0 /\ st.quoted /\ st.escaped
  <2>1. Nested(st, c, i) = Unescaped(st)
    BY <1>2, NestedEscaped
  <2> QED
    BY <1>2, <2>1, ParensChanged
<1>3. CASE st.at = 0 /\ st.quoted /\ ~st.escaped
  <2>1. Nested(st, c, i) = InLiteral(st, c)
    BY <1>3, NestedLiteral
  <2> QED
    <3>1. InLiteral(st, c) \in Parens /\ InLiteral(st, c).at = st.at
      BY LiteralChanged, Zenon
    <3> QED
      BY <1>3, <2>1, <3>1
<1>4. CASE st.at = 0 /\ ~st.quoted
  <2>1. ClosedAt(st, i) \in Parens /\ ClosedAt(st, i).at \in {0, i}
    BY ClosedChanged
  <2>2. /\ QuoteOpened(st) \in Parens /\ QuoteOpened(st).at = 0
        /\ Deeper(st) \in Parens /\ Deeper(st).at = 0
    BY <1>4, ParensChanged
  <2>3. Nested(st, c, i) = IF c = "\"" THEN QuoteOpened(st)
                           ELSE IF c = "(" THEN Deeper(st)
                           ELSE IF c = ")" THEN ClosedAt(st, i) ELSE st
    BY <1>4, NestedOutside
  <2> QED
    BY <1>4, <2>1, <2>2, <2>3
<1> QED
  BY <1>1, <1>2, <1>3, <1>4

(* A form that is still open.                                               *)
Open(depth, quoted, escaped) ==
    [at |-> 0, depth |-> depth, quoted |-> quoted, escaped |-> escaped]

(* Its parts.                                                               *)
LEMMA OpenIs ==
    ASSUME NEW d \in Int, NEW q \in BOOLEAN, NEW e \in BOOLEAN
    PROVE  /\ Open(d, q, e) \in Parens /\ Open(d, q, e).at = 0 /\ Open(d, q, e).depth = d
           /\ Open(d, q, e).quoted = q /\ Open(d, q, e).escaped = e
  BY DEF Open, Parens

(* A glyph outside of literals.                                             *)
LEMMA OpenOutside ==
    ASSUME NEW d \in Int, NEW c, NEW i \in Nat
    PROVE  /\ c \notin {"\"", "(", ")"} =>
                Nested(Open(d, FALSE, FALSE), c, i) = Open(d, FALSE, FALSE)
           /\ c = "\"" => Nested(Open(d, FALSE, FALSE), c, i) = Open(d, TRUE, FALSE)
           /\ c = "(" => Nested(Open(d, FALSE, FALSE), c, i) = Open(d + 1, FALSE, FALSE)
           /\ c = ")" /\ d = 1 => Nested(Open(d, FALSE, FALSE), c, i).at = i
<1> DEFINE st == Open(d, FALSE, FALSE)
<1>1. st \in Parens /\ st.at = 0 /\ st.depth = d /\ st.quoted = FALSE /\ st.escaped = FALSE
  BY OpenIs
<1> HIDE DEF st
<1>2. Nested(st, c, i) = IF c = "\"" THEN QuoteOpened(st)
                         ELSE IF c = "(" THEN Deeper(st)
                         ELSE IF c = ")" THEN ClosedAt(st, i) ELSE st
  BY <1>1, NestedOutside
<1>3. QuoteOpened(st) = Open(d, TRUE, FALSE)
  <2>1. PICK a, b : a = QuoteOpened(st) /\ b = Open(d, TRUE, FALSE)
    OBVIOUS
  <2>2. /\ a \in Parens /\ a.at = 0 /\ a.depth = d /\ a.quoted = TRUE /\ a.escaped = FALSE
    BY <1>1, <2>1, ParensChanged
  <2>3. b \in Parens /\ b.at = 0 /\ b.depth = d /\ b.quoted = TRUE /\ b.escaped = FALSE
    BY <2>1, OpenIs
  <2>4. a = b
    BY <2>2, <2>3, SameParens
  <2> QED
    BY <2>1, <2>4
<1>4. Deeper(st) = Open(d + 1, FALSE, FALSE)
  <2>1. PICK a, b : a = Deeper(st) /\ b = Open(d + 1, FALSE, FALSE)
    OBVIOUS
  <2>2. /\ a \in Parens /\ a.at = 0 /\ a.depth = d + 1 /\ a.quoted = FALSE /\ a.escaped = FALSE
    <3>1. /\ Deeper(st) \in Parens /\ Deeper(st).at = st.at /\ Deeper(st).depth = st.depth + 1
          /\ Deeper(st).quoted = st.quoted /\ Deeper(st).escaped = st.escaped
      BY <1>1, ParensChanged
    <3> QED
      BY <1>1, <2>1, <3>1
  <2>3. b \in Parens /\ b.at = 0 /\ b.depth = d + 1 /\ b.quoted = FALSE /\ b.escaped = FALSE
    BY <2>1 DEF Open, Parens
  <2>4. a = b
    BY <2>2, <2>3, SameParens
  <2> QED
    BY <2>1, <2>4
<1>5. ClosedAt(st, i).at = IF d = 1 THEN i ELSE 0
  BY <1>1, ClosedChanged
<1> QED
  BY <1>2, <1>3, <1>4, <1>5 DEF st

(* A glyph in a literal.                                                    *)
LEMMA OpenInside ==
    ASSUME NEW d \in Int, NEW c, NEW i \in Nat
    PROVE  /\ Nested(Open(d, TRUE, FALSE), c, i) = Open(d, c # "\"", c = "\\")
           /\ Nested(Open(d, TRUE, TRUE), c, i) = Open(d, TRUE, FALSE)
<1>1. Nested(Open(d, TRUE, FALSE), c, i) = Open(d, c # "\"", c = "\\")
  <2> DEFINE st == Open(d, TRUE, FALSE)
  <2>1. st \in Parens /\ st.at = 0 /\ st.depth = d /\ st.quoted = TRUE /\ st.escaped = FALSE
    BY OpenIs
  <2> HIDE DEF st
  <2>2. Nested(st, c, i) = InLiteral(st, c)
    BY <2>1, NestedLiteral
  <2>3. PICK e \in BOOLEAN, q \in BOOLEAN : e = (c = "\\") /\ q = (c # "\"")
    OBVIOUS
  <2>4. PICK a, b : a = InLiteral(st, c) /\ b = Open(d, q, e)
    OBVIOUS
  <2>5. a \in Parens /\ a.at = 0 /\ a.depth = d /\ a.quoted = q /\ a.escaped = e
    BY <2>1, <2>3, <2>4, LiteralChanged
  <2>6. b \in Parens /\ b.at = 0 /\ b.depth = d /\ b.quoted = q /\ b.escaped = e
    BY <2>4, OpenIs
  <2>7. a = b
    BY <2>5, <2>6, SameParens
  <2> QED
    BY <2>2, <2>3, <2>4, <2>7 DEF st
<1>2. Nested(Open(d, TRUE, TRUE), c, i) = Open(d, TRUE, FALSE)
  <2> DEFINE st == Open(d, TRUE, TRUE)
  <2>1. st \in Parens /\ st.at = 0 /\ st.depth = d /\ st.quoted = TRUE /\ st.escaped = TRUE
    BY OpenIs
  <2> HIDE DEF st
  <2>2. Nested(st, c, i) = Unescaped(st)
    BY <2>1, NestedEscaped
  <2>3. PICK a, b : a = Unescaped(st) /\ b = Open(d, TRUE, FALSE)
    OBVIOUS
  <2>4. a \in Parens /\ a.at = 0 /\ a.depth = d /\ a.quoted = TRUE /\ a.escaped = FALSE
    BY <2>1, <2>3, ParensChanged
  <2>5. b \in Parens /\ b.at = 0 /\ b.depth = d /\ b.quoted = TRUE /\ b.escaped = FALSE
    BY <2>3, OpenIs
  <2>6. a = b
    BY <2>4, <2>5, SameParens
  <2> QED
    BY <2>2, <2>3, <2>6 DEF st
<1> QED
  BY <1>1, <1>2

(* The parentheses after each glyph: the recursion of SexpEnd.               *)
Counted(f, s, N) ==
    f = [i \in 0 .. N |-> IF i = 0 THEN Unopened ELSE Nested(f[i - 1], s[i], i)]

(* It exists, whatever the text.                                            *)
LEMMA CountedExists == ASSUME NEW s, NEW N \in Nat PROVE \E f : Counted(f, s, N)
<1> DEFINE S == {n \in 0 .. N : \E f : Counted(f, s, n)}
<1>1. 0 \in S
  <2> DEFINE f == [i \in 0 .. 0 |-> Unopened]
  <2>1. Counted(f, s, 0)
    BY DEF Counted
  <2> QED
    BY <2>1
<1>2. ASSUME NEW n \in 0 .. N - 1, n \in S PROVE n + 1 \in S
  <2>1. PICK f : Counted(f, s, n)
    BY <1>2
  <2> DEFINE g == [i \in 0 .. n + 1 |-> IF i = 0 THEN Unopened ELSE Nested(f[i - 1], s[i], i)]
  <2>2. \A i \in 0 .. n : g[i] = f[i]
    BY <2>1 DEF Counted
  <2>3. \A i \in 0 .. n + 1 : i # 0 => g[i - 1] = f[i - 1]
    <3> HIDE DEF g
    <3>1. \A i \in 0 .. n + 1 : i # 0 => i - 1 \in 0 .. n
      OBVIOUS
    <3> QED
      BY <2>2, <3>1
  <2>4. Counted(g, s, n + 1)
    BY <2>3 DEF Counted
  <2> QED
    BY <2>4
<1>3. \A n \in 0 .. N : n \in S
  <2> HIDE DEF S
  <2> QED
    BY <1>1, <1>2, UpTo
<1> QED
  BY <1>3

Count(s) == (CHOOSE f : Counted(f, s, Len(s)))[Len(s)]

(* The count goes on where it was.                                          *)
LEMMA CountStep ==
    /\ Count(<<>>) = Unopened
    /\ \A s \in Text : \A x \in Glyph : Count(Append(s, x)) = Nested(Count(s), x, Len(s) + 1)
<1>1. Count(<<>>) = Unopened
  <2> DEFINE f == CHOOSE h : Counted(h, <<>>, 0)
  <2>1. Counted(f, <<>>, 0)
    BY CountedExists
  <2>2. Len(<<>>) = 0 /\ Count(<<>>) = f[0]
    BY DEF Count
  <2> HIDE DEF f
  <2> QED
    BY <2>1, <2>2 DEF Counted
<1>2. ASSUME NEW s \in Text, NEW x \in Glyph
      PROVE  Count(Append(s, x)) = Nested(Count(s), x, Len(s) + 1)
  <2>1. PICK N : N = Len(s)
    OBVIOUS
  <2>2. PICK t : t = Append(s, x)
    OBVIOUS
  <2>3. N \in Nat /\ Len(t) = N + 1 /\ t[N + 1] = x /\ \A i \in 1 .. N : t[i] = s[i]
    BY <2>1, <2>2 DEF Text
  <2>4. PICK f : f = CHOOSE h : Counted(h, s, N)
    OBVIOUS
  <2>5. PICK g : g = CHOOSE h : Counted(h, t, N + 1)
    OBVIOUS
  <2>6. Counted(f, s, N)
    BY <2>3, <2>4, CountedExists
  <2>7. Counted(g, t, N + 1)
    <3>1. N + 1 \in Nat
      BY <2>3
    <3>2. \E h : Counted(h, t, N + 1)
      BY <3>1, CountedExists
    <3> QED
      BY <2>5, <3>2
  <2>8. Count(s) = f[N] /\ Count(t) = g[N + 1]
    BY <2>1, <2>3, <2>4, <2>5 DEF Count
  <2>9. /\ \A i \in 0 .. N : f[i] = IF i = 0 THEN Unopened ELSE Nested(f[i - 1], s[i], i)
        /\ \A i \in 0 .. N + 1 : g[i] = IF i = 0 THEN Unopened ELSE Nested(g[i - 1], t[i], i)
    BY <2>6, <2>7 DEF Counted
  <2> DEFINE S == {n \in 0 .. N : f[n] = g[n]}
  <2>10. 0 \in S
    BY <2>3, <2>9
  <2>11. ASSUME NEW n \in 0 .. N - 1, n \in S PROVE n + 1 \in S
    <3>1. /\ n + 1 \in 0 .. N /\ n + 1 \in 1 .. N /\ n + 1 \in 0 .. N + 1 /\ n + 1 # 0
          /\ (n + 1) - 1 = n /\ f[n] = g[n]
      BY <2>3, <2>11
    <3>2. /\ f[n + 1] = Nested(f[n], s[n + 1], n + 1)
          /\ g[n + 1] = Nested(g[n], t[n + 1], n + 1)
      BY <2>9, <3>1
    <3>3. t[n + 1] = s[n + 1]
      BY <2>3, <3>1
    <3> QED
      BY <3>1, <3>2, <3>3
  <2>12. f[N] = g[N]
    <3> HIDE DEF S
    <3>1. \A n \in 0 .. N : n \in S
      BY <2>3, <2>10, <2>11, UpTo
    <3> QED
      BY <2>3, <3>1 DEF S
  <2>13. g[N + 1] = Nested(g[N], t[N + 1], N + 1)
    BY <2>3, <2>9
  <2> QED
    BY <2>1, <2>2, <2>3, <2>8, <2>12, <2>13
<1> QED
  BY <1>1, <1>2

(* SexpEnd is where the count was closed.                                    *)
LEMMA SexpEndIs ==
    \A s : SexpEnd(s) = IF s = <<>> \/ s[1] # "(" THEN 0 ELSE Count(s).at
  BY DEF SexpEnd, Count, Counted

(* A form is closed at a glyph of the text, and what follows does not matter. *)
LEMMA CountTyped ==
    \A s \in Text : /\ Count(s) \in Parens
                    /\ Count(s).at # 0 => /\ Count(s).at \in 1 .. Len(s)
                                          /\ Count(SubSeq(s, 1, Count(s).at)).at = Count(s).at
<1> DEFINE S == {s \in Text : /\ Count(s) \in Parens
                              /\ Count(s).at # 0 =>
                                    /\ Count(s).at \in 1 .. Len(s)
                                    /\ Count(SubSeq(s, 1, Count(s).at)).at = Count(s).at}
<1>1. <<>> \in S
  <2>1. <<>> \in Text
    BY ShortText
  <2>2. Unopened \in Parens /\ Unopened.at = 0
    BY DEF Unopened, Parens
  <2>3. Count(<<>>) = Unopened
    BY CountStep
  <2>4. Count(<<>>) \in Parens /\ Count(<<>>).at = 0
    BY <2>2, <2>3
  <2> QED
    BY <2>1, <2>4
<1>2. ASSUME NEW s \in Text, NEW c \in Glyph, s \in S PROVE Append(s, c) \in S
  <2>1. PICK t, st, N : t = Append(s, c) /\ st = Count(s) /\ N = Len(s)
    OBVIOUS
  <2>2. st \in Parens /\ (st.at # 0 => st.at \in 1 .. N /\ Count(SubSeq(s, 1, st.at)).at = st.at)
    BY <1>2, <2>1
  <2>3. /\ s \in Seq(Glyph) /\ t \in Seq(Glyph) /\ N \in Nat /\ Len(t) = N + 1
        /\ \A i \in 1 .. N : t[i] = s[i]
    BY <2>1, Appended DEF Text
  <2>4. Count(t) = Nested(st, c, N + 1) /\ N + 1 \in Nat
    BY <2>1, <2>3, CountStep
  <2>5. CASE st.at # 0
    <3>1. Count(t) = st
      BY <2>4, <2>5, NestedClosed
    <3>2. PICK e : e = st.at
      OBVIOUS
    <3>3. e \in 1 .. N
      BY <2>2, <2>5, <3>2
    <3>4. SubSeq(t, 1, e) = [i \in 1 .. e |-> t[i]] /\ SubSeq(s, 1, e) = [i \in 1 .. e |-> s[i]]
      BY <2>1, <2>3, <3>3
    <3>7. \A i \in 1 .. e : t[i] = s[i]
      BY <2>3, <3>3
    <3>5. SubSeq(t, 1, e) = SubSeq(s, 1, e)
      BY ONLY <3>4, <3>7
    <3>6. e \in 1 .. N + 1
      BY <2>3, <3>3
    <3> QED
      BY <2>1, <2>2, <2>3, <2>5, <3>1, <3>2, <3>5, <3>6 DEF Text
  <2>6. CASE st.at = 0
    <3>1. Count(t) \in Parens /\ Count(t).at \in {0, N + 1}
      BY <2>2, <2>4, <2>6, NestedTyped
    <3>2. SubSeq(t, 1, N + 1) = t /\ N + 1 \in 1 .. Len(t)
      BY <2>3
    <3> QED
      BY <2>1, <2>3, <3>1, <3>2 DEF Text
  <2> QED
    BY <2>5, <2>6
<1> HIDE DEF S
<1>3. \A s \in Text : s \in S
  BY <1>1, <1>2, Longer DEF Text
<1> QED
  BY <1>3 DEF S

(* Once closed, a form stays closed where it is.                             *)
LEMMA CountStays ==
    ASSUME NEW u \in Text, Count(u).at # 0
    PROVE  \A v \in Text : Count(u \o v) = Count(u)
<1> DEFINE S == {v \in Text : Count(u \o v) = Count(u)}
<1>1. <<>> \in S
  <2>1. u \o <<>> = u /\ <<>> \in Text
    BY ShortText DEF Text
  <2> QED
    BY <2>1
<1>2. ASSUME NEW v \in Text, NEW c \in Glyph, v \in S PROVE Append(v, c) \in S
  <2>1. PICK w : w = u \o v
    OBVIOUS
  <2>2. w \in Text /\ Count(w) = Count(u)
    BY <1>2, <2>1, JoinTyped
  <2>3. u \o Append(v, c) = Append(w, c)
    BY <2>1, AppendJoin DEF Text
  <2>4. Count(Append(w, c)) = Nested(Count(w), c, Len(w) + 1)
    BY <2>2, CountStep
  <2>5. Nested(Count(w), c, Len(w) + 1) = Count(w)
    BY <2>2, NestedClosed
  <2>6. Append(v, c) \in Text
    BY ScanOn
  <2> QED
    BY <2>2, <2>3, <2>4, <2>5, <2>6
<1> HIDE DEF S
<1>3. \A v \in Text : v \in S
  BY <1>1, <1>2, Longer DEF Text
<1> QED
  BY <1>3 DEF S

(* In a form, and in one of its literals.                                    *)
Between   == Open(1, FALSE, FALSE)
InWord    == Open(1, TRUE, FALSE)

(* The next glyph is counted.                                               *)
LEMMA CountOn ==
    ASSUME NEW u \in Text, NEW c \in Glyph
    PROVE  /\ Append(u, c) \in Text /\ Len(u) + 1 \in Nat
           /\ Len(Append(u, c)) = Len(u) + 1
           /\ Count(Append(u, c)) = Nested(Count(u), c, Len(u) + 1)
<1>1. Append(u, c) \in Text /\ Len(u) + 1 \in Nat /\ Len(Append(u, c)) = Len(u) + 1
  BY DEF Text
<1> QED
  BY <1>1, CountStep

(* What a glyph does in a literal.                                           *)
LEMMA CountInWord ==
    ASSUME NEW u \in Text, Count(u) = InWord, NEW c \in Glyph
    PROVE  Count(Append(u, c)) = Open(1, c # "\"", c = "\\")
<1>1. PICK i : i = Len(u) + 1
  OBVIOUS
<1>2. i \in Nat /\ Count(Append(u, c)) = Nested(Count(u), c, i)
  BY <1>1, CountOn
<1>3. \A d \in Int : Nested(Open(d, TRUE, FALSE), c, i) = Open(d, c # "\"", c = "\\")
  BY <1>2, OpenInside
<1>4. Nested(Open(1, TRUE, FALSE), c, i) = Open(1, c # "\"", c = "\\")
  <2>1. PICK d : d = 1
    OBVIOUS
  <2>2. d \in Int
    BY <2>1
  <2> QED
    BY <1>3, <2>1, <2>2
<1> QED
  BY <1>2, <1>4 DEF InWord

(* An ordinary glyph changes nothing.                                        *)
LEMMA OrdinaryInWord ==
    ASSUME NEW u \in Text, Count(u) = InWord, NEW c \in Glyph, c # "\"", c # "\\"
    PROVE  Count(Append(u, c)) = InWord
<1>1. PICK q \in BOOLEAN, e \in BOOLEAN : q = (c # "\"") /\ e = (c = "\\")
  OBVIOUS
<1>2. Count(Append(u, c)) = Open(1, q, e)
  BY <1>1, CountInWord
<1>3. q = TRUE /\ e = FALSE
  BY <1>1
<1> QED
  BY <1>2, <1>3 DEF InWord

(* An escaped one neither.                                                  *)
LEMMA EscapedInWord ==
    ASSUME NEW u \in Text, Count(u) = InWord, NEW c \in Glyph
    PROVE  Count(Append(Append(u, "\\"), c)) = InWord
<1>1. PICK b : b = "\\"
  OBVIOUS
<1>2. b \in Glyph /\ b # "\""
  BY <1>1, SyntaxGlyphs
<1>3. PICK v : v = Append(u, b)
  OBVIOUS
<1>4. v \in Text /\ Count(v) = Open(1, b # "\"", b = "\\")
  BY <1>2, <1>3, CountInWord, CountOn
<1>5. PICK q \in BOOLEAN, e \in BOOLEAN : q = (b # "\"") /\ e = (b = "\\")
  OBVIOUS
<1>6. q = TRUE /\ e = TRUE
  BY <1>1, <1>2, <1>5
<1>7. Count(v) = Open(1, TRUE, TRUE)
  BY <1>4, <1>5, <1>6
<1>8. PICK i : i = Len(v) + 1
  OBVIOUS
<1>9. i \in Nat /\ Count(Append(v, c)) = Nested(Count(v), c, i)
  BY <1>4, <1>8, CountOn
<1>10. \A d \in Int : Nested(Open(d, TRUE, TRUE), c, i) = Open(d, TRUE, FALSE)
  BY <1>9, OpenInside
<1>11. Nested(Open(1, TRUE, TRUE), c, i) = Open(1, TRUE, FALSE)
  <2>1. PICK d : d = 1
    OBVIOUS
  <2>2. d \in Int
    BY <2>1
  <2> QED
    BY <1>10, <2>1, <2>2
<1> QED
  BY <1>1, <1>3, <1>7, <1>9, <1>11 DEF InWord

(* What is written for a glyph does not end the literal.                     *)
LEMMA WrittenCounted ==
    ASSUME NEW u \in Text, Count(u) = InWord, NEW c \in Glyph
    PROVE  Count(u \o Written(c)) = InWord
<1>1. PICK bs, zero : bs = "\\" /\ zero = "0"
  OBVIOUS
<1>2. bs \in Glyph /\ zero \in Glyph /\ zero # "\"" /\ zero # "\\"
  BY <1>1, SyntaxGlyphs
<1>3. ASSUME NEW e \in Glyph
      PROVE  /\ u \o <<bs, e>> \in Text /\ Count(u \o <<bs, e>>) = InWord
             /\ u \o <<bs, e>> = Append(Append(u, bs), e)
  <2>1. u \o <<bs, e>> = Append(Append(u, bs), e)
    BY <1>2, JoinTwo
  <2>2. Append(u, bs) \in Text
    BY <1>2, ScanOn
  <2>3. Append(Append(u, bs), e) \in Text
    BY <2>2, ScanOn
  <2>4. Count(Append(Append(u, bs), e)) = InWord
    BY <1>1, EscapedInWord
  <2> QED
    BY <2>1, <2>3, <2>4
<1>4. ASSUME NEW d \in Glyph, NEW e \in Glyph, d \notin {"\"", "\\"}, e \notin {"\"", "\\"}
      PROVE  Count(u \o <<bs, zero, d, e>>) = InWord
  <2>1. PICK v, w : v = Append(Append(u, bs), zero) /\ w = Append(v, d)
    OBVIOUS
  <2>2. v \in Text /\ Count(v) = InWord
    BY <1>2, <1>3, <2>1
  <2>3. w \in Text /\ Count(w) = InWord
    BY <1>4, <2>1, <2>2, ScanOn, OrdinaryInWord
  <2>4. Count(Append(w, e)) = InWord
    BY <1>4, <2>3, OrdinaryInWord
  <2>5. u \o <<bs, zero, d, e>> = Append(Append(Append(Append(u, bs), zero), d), e)
    <3>1. bs \in Glyph /\ zero \in Glyph /\ d \in Glyph /\ e \in Glyph
      BY <1>2, <1>4
    <3> QED
      BY ONLY u \in Text, <3>1, JoinFour
  <2> QED
    BY <2>1, <2>4, <2>5
<1>5. CASE c \in {"/", ";"}
  <2>1. PICK d \in {"5", "7"}, e \in {"7", "3"} : Written(c) = <<bs, zero, d, e>>
    <3>1. c = "/" => Written(c) = <<"\\", "0", "5", "7">>
      BY EscIs
    <3>2. c = ";" => Written(c) = <<"\\", "0", "7", "3">>
      BY EscIs
    <3> QED
      BY <1>1, <1>5, <3>1, <3>2
  <2>2. d \in Glyph /\ e \in Glyph /\ d \notin {"\"", "\\"} /\ e \notin {"\"", "\\"}
    BY SyntaxGlyphs
  <2>3. Count(u \o <<bs, zero, d, e>>) = InWord
    BY <1>4, <2>2
  <2> QED
    BY <2>1, <2>3
<1>6. CASE c \in {"\"", "\\", "LF", "CR"}
  <2>1. PICK e \in {"\"", "\\", "n", "r"} : Written(c) = <<bs, e>>
    BY <1>1, <1>6, EscIs
  <2>2. e \in Glyph
    BY SyntaxGlyphs
  <2>3. Count(u \o <<bs, e>>) = InWord
    BY <1>3, <2>2
  <2> QED
    BY <2>1, <2>3
<1>7. CASE c \notin {"/", ";", "\"", "\\", "LF", "CR"}
  <2>1. Written(c) = <<c>> /\ u \o <<c>> = Append(u, c)
    BY <1>7, EscIs, JoinOne
  <2>2. Count(Append(u, c)) = InWord
    BY <1>7, OrdinaryInWord
  <2> QED
    BY <2>1, <2>2
<1> QED
  BY <1>5, <1>6, <1>7

(* Nor does the text of a literal.                                           *)
LEMMA BodyCounted ==
    ASSUME NEW u \in Text, Count(u) = InWord
    PROVE  \A s \in Text : Count(u \o Body(s)) = InWord
<1> DEFINE S == {s \in Text : Count(u \o Body(s)) = InWord}
<1>1. <<>> \in S
  <2>1. u \o <<>> = u /\ Body(<<>>) = <<>> /\ <<>> \in Text
    BY BodyStep, ShortText DEF Text
  <2> QED
    BY <2>1
<1>2. ASSUME NEW s \in Text, NEW c \in Glyph, s \in S PROVE Append(s, c) \in S
  <2>1. PICK b, w : b = Body(s) /\ w = Written(c)
    OBVIOUS
  <2>2. b \in Text /\ Body(Append(s, c)) = b \o w
    BY <2>1, BodyStep
  <2>3. w \in Text /\ Append(s, c) \in Text
    BY <2>1, EscTyped, ScanOn
  <2>4. PICK v : v = u \o b
    OBVIOUS
  <2>5. v \in Text /\ u \o (b \o w) = v \o w
    BY <2>2, <2>3, <2>4, JoinTyped, JoinAssoc
  <2>6. Count(v) = InWord
    BY <1>2, <2>1, <2>4
  <2>7. Count(v \o w) = InWord
    BY <2>1, <2>5, <2>6, WrittenCounted
  <2> QED
    BY <2>2, <2>3, <2>5, <2>7
<1> HIDE DEF S
<1>3. \A s \in Text : s \in S
  BY <1>1, <1>2, Longer DEF Text
<1> QED
  BY <1>3 DEF S

(* What a glyph does between the literals of a form.                         *)
LEMMA CountBetween ==
    ASSUME NEW u \in Text, Count(u) = Between, NEW c \in Glyph
    PROVE  /\ c \notin {"\"", "(", ")"} => Count(Append(u, c)) = Between
           /\ c = "\"" => Count(Append(u, c)) = InWord
           /\ c = ")" => Count(Append(u, c)).at = Len(u) + 1
<1>1. PICK i : i = Len(u) + 1
  OBVIOUS
<1>2. i \in Nat /\ Count(Append(u, c)) = Nested(Between, c, i)
  BY <1>1, CountOn
<1>3. /\ c \notin {"\"", "(", ")"} =>
           Nested(Open(1, FALSE, FALSE), c, i) = Open(1, FALSE, FALSE)
      /\ c = "\"" => Nested(Open(1, FALSE, FALSE), c, i) = Open(1, TRUE, FALSE)
      /\ c = ")" => Nested(Open(1, FALSE, FALSE), c, i).at = i
  <2>1. PICK d \in Int : d = 1
    OBVIOUS
  <2>2. /\ c \notin {"\"", "(", ")"} =>
             Nested(Open(d, FALSE, FALSE), c, i) = Open(d, FALSE, FALSE)
        /\ c = "\"" => Nested(Open(d, FALSE, FALSE), c, i) = Open(d, TRUE, FALSE)
        /\ c = ")" => Nested(Open(d, FALSE, FALSE), c, i).at = i
    BY <1>2, <2>1, OpenOutside
  <2> QED
    BY <2>1, <2>2
<1> QED
  BY <1>1, <1>2, <1>3 DEF Between, InWord

(* A literal opens and closes.                                               *)
LEMMA LiteralCounted ==
    ASSUME NEW u \in Text, Count(u) = Between, NEW s \in Text
    PROVE  Count(u \o WriteStringLiteral(s)) = Between
<1>1. PICK b, q : b = Body(s) /\ q = "\""
  OBVIOUS
<1>2. b \in Text /\ q \in Glyph
  BY <1>1, BodyStep, SyntaxGlyphs
<1>3. WriteStringLiteral(s) = <<q>> \o b \o <<q>>
  BY <1>1, LiteralIs
<1>4. PICK v, w : v = u \o <<q>> /\ w = v \o b
  OBVIOUS
<1>5. v = Append(u, q) /\ v \in Text
  BY <1>2, <1>4, JoinOne, ScanOn
<1>6. w \in Text /\ w \o <<q>> = Append(w, q)
  BY <1>2, <1>4, <1>5, JoinTyped, JoinOne
<1>7. u \o (<<q>> \o b \o <<q>>) = w \o <<q>>
  <2>1. <<q>> \in Text
    BY <1>2, ShortText
  <2>2. <<q>> \o b \in Text /\ u \o <<q>> \in Text
    BY <1>2, <2>1, JoinTyped
  <2>3. u \o ((<<q>> \o b) \o <<q>>) = (u \o (<<q>> \o b)) \o <<q>>
    BY <2>1, <2>2, JoinAssoc
  <2>4. u \o (<<q>> \o b) = (u \o <<q>>) \o b
    BY <1>2, <2>1, JoinAssoc
  <2> QED
    BY <1>4, <2>3, <2>4
<1>8. Count(v) = InWord
  BY <1>1, <1>2, <1>5, CountBetween
<1>9. Count(w) = InWord
  BY <1>1, <1>4, <1>5, <1>8, BodyCounted
<1>10. Count(Append(w, q)) = Between
  <2>1. Count(Append(w, q)) = Open(1, q # "\"", q = "\\")
    BY <1>2, <1>6, <1>9, CountInWord
  <2>2. PICK x \in BOOLEAN, y \in BOOLEAN : x = (q # "\"") /\ y = (q = "\\")
    OBVIOUS
  <2>3. x = FALSE /\ y = FALSE
    BY <1>1, <2>2
  <2> QED
    BY <2>1, <2>2, <2>3 DEF Between
<1> QED
  BY <1>3, <1>6, <1>7, <1>10

(* And so do the literals of a list.                                        *)
LEMMA ListCounted ==
    ASSUME NEW u \in Text, Count(u) = Between
    PROVE  \A words \in Seq(Text) : Count(u \o List(words)) = Between
<1> DEFINE S == {words \in Seq(Text) : Count(u \o List(words)) = Between}
<1>1. <<>> \in S
  <2>1. u \o <<>> = u /\ List(<<>>) = <<>> /\ <<>> \in Seq(Text)
    BY ListStep DEF Text
  <2> QED
    BY <2>1
<1>2. ASSUME NEW words \in Seq(Text), NEW s \in Text, words \in S PROVE Append(words, s) \in S
  <2>1. PICK a, lit, b : a = List(words) /\ lit = WriteStringLiteral(s) /\ b = <<Blank>>
    OBVIOUS
  <2>2. a \in Text /\ b \in Text /\ Blank \in Glyph
    BY <2>1, ListStep, SyntaxGlyphs, ShortText
  <2>3. lit \in Text
    BY <2>1, LiteralEnds
  <2>4. PICK v, w : v = u \o a /\ w = v \o b
    OBVIOUS
  <2>5. v \in Text /\ w \in Text /\ w = Append(v, Blank)
    BY <2>1, <2>2, <2>4, JoinTyped, JoinOne
  <2>6. List(Append(words, s)) = a \o (b \o lit)
    BY <2>1, ListStep
  <2>7. u \o (a \o (b \o lit)) = w \o lit
    <3>1. b \o lit \in Text
      BY <2>2, <2>3, JoinTyped
    <3>2. u \o (a \o (b \o lit)) = v \o (b \o lit)
      BY <2>2, <2>4, <3>1, JoinAssoc
    <3>3. v \o (b \o lit) = w \o lit
      <4>1. v \in Text
        BY <2>5
      <4>2. v \o (b \o lit) = (v \o b) \o lit
        BY <4>1, <2>2, <2>3, JoinAssoc
      <4> QED
        BY <2>4, <4>2
    <3> QED
      BY <3>2, <3>3
  <2>8. Count(v) = Between
    BY <1>2, <2>1, <2>4
  <2>9. Count(w) = Between
    <3>1. PICK g : g = Blank
      OBVIOUS
    <3>2. g \in Glyph /\ g \notin {"\"", "(", ")"}
      BY <2>2, <3>1 DEF Blank
    <3>3. Count(Append(v, g)) = Between
      BY <2>5, <2>8, <3>2, CountBetween
    <3> QED
      BY <2>5, <3>1, <3>3
  <2>10. Count(w \o lit) = Between
    BY <2>1, <2>5, <2>9, LiteralCounted
  <2>11. Append(words, s) \in Seq(Text)
    OBVIOUS
  <2> QED
    BY <2>6, <2>7, <2>10, <2>11
<1> HIDE DEF S
<1>3. \A words \in Seq(Text) : words \in S
  BY <1>1, <1>2, Longer
<1> QED
  BY <1>3 DEF S

(* A parenthesis opens a form.                                               *)
LEMMA FormBegins ==
    ASSUME NEW p, p = "("
    PROVE  p \in Glyph /\ <<p>> \in Text /\ Count(<<p>>) = Between
<1>1. p \in Glyph /\ <<>> \in Text
  BY SyntaxGlyphs, ShortText
<1>2. <<p>> \in Text
  BY <1>1, ShortText
<1>3. Append(<<>>, p) = <<p>>
  BY ONLY <1>1
<1>4. Len(<<>>) + 1 = 1
  BY ONLY TRUE
<1>5. Count(<<p>>) = Nested(Unopened, p, 1)
  BY <1>1, <1>3, <1>4, CountOn, CountStep
<1>6. Unopened = Open(0, FALSE, FALSE)
  BY DEF Unopened, Open
<1>7. Nested(Open(0, FALSE, FALSE), p, 1) = Open(1, FALSE, FALSE)
  <2>1. \A d \in Int, i \in Nat : Nested(Open(d, FALSE, FALSE), p, i) = Open(d + 1, FALSE, FALSE)
    BY OpenOutside
  <2>2. 0 \in Int /\ 1 \in Nat /\ 0 + 1 = 1
    BY ONLY TRUE
  <2> QED
    BY ONLY <2>1, <2>2, Zenon
<1> QED
  BY <1>1, <1>2, <1>5, <1>6, <1>7 DEF Between

(* A form is open after its head.                                           *)
LEMMA FormOpens ==
    ASSUME NEW h \in Glyph, h \notin {"\"", "(", ")"}
    PROVE  <<"(", h>> \in Text /\ Count(<<"(", h>>) = Between
<1>1. PICK p : p = "("
  OBVIOUS
<1>2. p \in Glyph /\ <<p>> \in Text /\ Count(<<p>>) = Between
  BY <1>1, FormBegins
<1>3. Append(<<p>>, h) = <<p, h>>
  BY <1>2, AppendOne
<1>4. Count(Append(<<p>>, h)) = Between
  BY <1>2, CountBetween
<1>5. <<p, h>> \in Text
  BY <1>2, ShortText
<1> QED
  BY <1>1, <1>3, <1>4, <1>5

(* And is closed by a parenthesis.                                           *)
LEMMA FormCloses ==
    ASSUME NEW u \in Text, Count(u) = Between, NEW t, t = u \o <<")">>
    PROVE  t \in Text /\ Count(t).at = Len(t) /\ Len(t) # 0
<1>1. PICK p : p = ")"
  OBVIOUS
<1>2. p \in Glyph
  BY <1>1, SyntaxGlyphs
<1>3. t = Append(u, p)
  BY <1>1, <1>2, JoinOne
<1>4. t \in Text /\ Len(u) + 1 \in Nat /\ Len(t) = Len(u) + 1
  BY <1>2, <1>3, CountOn
<1>5. Count(t).at = Len(u) + 1
  BY <1>1, <1>2, <1>3, CountBetween
<1> QED
  BY <1>4, <1>5 DEF Text

(* The form a text that needs it is quoted in ends at its last glyph.        *)
LEMMA QuotedCounted ==
    ASSUME NEW w \in Text, NEW t, t = Quoted(w)
    PROVE  t \in Text /\ Count(t).at = Len(t) /\ Len(t) # 0
<1>1. PICK lit, h, b : lit = WriteStringLiteral(w) /\ h = Concat /\ b = Blank
  OBVIOUS
<1>2. lit \in Text
  BY <1>1, LiteralEnds
<1>3. h \in Glyph /\ b \in Glyph /\ h \notin {"\"", "(", ")"} /\ b \notin {"\"", "(", ")"}
  BY <1>1, SyntaxGlyphs DEF Concat, Blank
<1>4. PICK p : p = "("
  OBVIOUS
<1>5. p \in Glyph
  BY <1>4, SyntaxGlyphs
<1>6. <<p, h>> \in Text /\ Count(<<p, h>>) = Between
  BY <1>3, <1>4, FormOpens
<1>7. Append(<<p, h>>, b) = <<p, h, b>> /\ <<p, h, b>> \in Text
  <2>1. Append(<<p, h>>, b) = <<p, h, b>>
    BY <1>3, <1>5, AppendTwo
  <2>2. <<p, h, b>> \in Text
    BY <1>3, <1>5, ShortText
  <2> QED
    BY <2>1, <2>2
<1>8. Count(<<p, h, b>>) = Between
  <2>1. PICK v : v = <<p, h>>
    OBVIOUS
  <2>2. v \in Text /\ Count(v) = Between
    BY <1>6, <2>1
  <2>3. Count(Append(v, b)) = Between
    BY <1>3, <2>2, CountBetween
  <2> QED
    BY <1>7, <2>1, <2>3
<1>9. PICK u : u = <<p, h, b>> \o lit
  OBVIOUS
<1>10. u \in Text /\ Count(u) = Between
  BY <1>1, <1>2, <1>7, <1>8, <1>9, JoinTyped, LiteralCounted
<1>11. t = u \o <<")">>
  BY <1>1, <1>4, <1>9 DEF Quoted
<1> QED
  BY <1>10, <1>11, FormCloses

(* A directive that is written anew ends at its last glyph.                  *)
LEMMA RenderedCounted ==
    ASSUME NEW words \in Seq(Text), NEW t, t = RenderIgnoreDicWord(words)
    PROVE  t \in Text /\ Count(t).at = Len(t) /\ Len(t) # 0
<1>1. PICK h : h = Ignore
  OBVIOUS
<1>2. h \in Glyph /\ h \notin {"\"", "(", ")"}
  BY <1>1, SyntaxGlyphs DEF Ignore
<1>3. <<"(", h>> \in Text /\ Count(<<"(", h>>) = Between
  BY <1>2, FormOpens
<1>4. PICK u : u = <<"(", h>> \o List(words)
  OBVIOUS
<1>5. u \in Text /\ Count(u) = Between
  <2>1. List(words) \in Text
    BY ListStep
  <2> QED
    BY <1>3, <1>4, <2>1, JoinTyped, ListCounted
<1>6. t = u \o <<")">>
  BY <1>1, <1>4, RenderedIs
<1> QED
  BY <1>5, <1>6, FormCloses

(* The fields of a text without glyphs.                                      *)
OneField == <<<<>>>>

(* The fields after each glyph: the recursion of Fields.                     *)
Cut(f, s, c, N) ==
    f = [n \in 0 .. N |-> IF n = 0 THEN OneField ELSE Extended(f[n - 1], s[n], c)]

(* It exists, whatever the text.                                            *)
LEMMA CutExists == ASSUME NEW s, NEW c, NEW N \in Nat PROVE \E f : Cut(f, s, c, N)
<1> DEFINE S == {n \in 0 .. N : \E f : Cut(f, s, c, n)}
<1>1. 0 \in S
  <2> DEFINE f == [i \in 0 .. 0 |-> OneField]
  <2>1. Cut(f, s, c, 0)
    BY DEF Cut
  <2> QED
    BY <2>1
<1>2. ASSUME NEW n \in 0 .. N - 1, n \in S PROVE n + 1 \in S
  <2>1. PICK f : Cut(f, s, c, n)
    BY <1>2
  <2> DEFINE g == [i \in 0 .. n + 1 |-> IF i = 0 THEN OneField ELSE Extended(f[i - 1], s[i], c)]
  <2>2. \A i \in 0 .. n : g[i] = f[i]
    BY <2>1 DEF Cut
  <2>3. \A i \in 0 .. n + 1 : i # 0 => g[i - 1] = f[i - 1]
    <3> HIDE DEF g
    <3>1. \A i \in 0 .. n + 1 : i # 0 => i - 1 \in 0 .. n
      OBVIOUS
    <3> QED
      BY <2>2, <3>1
  <2>4. Cut(g, s, c, n + 1)
    BY <2>3 DEF Cut
  <2> QED
    BY <2>4
<1>3. \A n \in 0 .. N : n \in S
  <2> HIDE DEF S
  <2> QED
    BY <1>1, <1>2, UpTo
<1> QED
  BY <1>3

(* Fields is that recursion.                                                *)
LEMMA FieldsIs == \A s, c : Fields(s, c) = (CHOOSE f : Cut(f, s, c, Len(s)))[Len(s)]
  BY DEF Fields, Cut, OneField

(* The next glyph is added to the fields so far.                             *)
LEMMA FieldsStep ==
    ASSUME NEW c
    PROVE  /\ Fields(<<>>, c) = <<<<>>>>
           /\ \A s \in Text : \A x \in Glyph :
                Fields(Append(s, x), c) = Extended(Fields(s, c), x, c)
<1>1. Fields(<<>>, c) = <<<<>>>>
  <2> DEFINE f == CHOOSE h : Cut(h, <<>>, c, 0)
  <2>1. Cut(f, <<>>, c, 0)
    BY CutExists
  <2>2. Len(<<>>) = 0 /\ Fields(<<>>, c) = f[0]
    BY FieldsIs
  <2> HIDE DEF f
  <2> QED
    BY <2>1, <2>2 DEF Cut, OneField
<1>2. ASSUME NEW s \in Text, NEW x \in Glyph
      PROVE  Fields(Append(s, x), c) = Extended(Fields(s, c), x, c)
  <2>1. PICK N : N = Len(s)
    OBVIOUS
  <2>2. PICK t : t = Append(s, x)
    OBVIOUS
  <2>3. N \in Nat /\ Len(t) = N + 1 /\ t[N + 1] = x /\ \A i \in 1 .. N : t[i] = s[i]
    BY <2>1, <2>2 DEF Text
  <2>4. PICK f : f = CHOOSE h : Cut(h, s, c, N)
    OBVIOUS
  <2>5. PICK g : g = CHOOSE h : Cut(h, t, c, N + 1)
    OBVIOUS
  <2>6. Cut(f, s, c, N)
    BY <2>3, <2>4, CutExists
  <2>7. Cut(g, t, c, N + 1)
    <3>1. N + 1 \in Nat
      BY <2>3
    <3>2. \E h : Cut(h, t, c, N + 1)
      BY <3>1, CutExists
    <3> QED
      BY <2>5, <3>2
  <2>8. Fields(s, c) = f[N] /\ Fields(t, c) = g[N + 1]
    BY <2>1, <2>3, <2>4, <2>5, FieldsIs
  <2>9. /\ \A i \in 0 .. N : f[i] = IF i = 0 THEN OneField ELSE Extended(f[i - 1], s[i], c)
        /\ \A i \in 0 .. N + 1 : g[i] = IF i = 0 THEN OneField ELSE Extended(g[i - 1], t[i], c)
    BY <2>6, <2>7 DEF Cut
  <2> DEFINE S == {n \in 0 .. N : f[n] = g[n]}
  <2>10. 0 \in S
    BY <2>3, <2>9
  <2>11. ASSUME NEW n \in 0 .. N - 1, n \in S PROVE n + 1 \in S
    <3>1. /\ n + 1 \in 0 .. N /\ n + 1 \in 1 .. N /\ n + 1 \in 0 .. N + 1 /\ n + 1 # 0
          /\ (n + 1) - 1 = n /\ f[n] = g[n]
      BY <2>3, <2>11
    <3>2. /\ f[n + 1] = Extended(f[n], s[n + 1], c)
          /\ g[n + 1] = Extended(g[n], t[n + 1], c)
      BY <2>9, <3>1
    <3>3. t[n + 1] = s[n + 1]
      BY <2>3, <3>1
    <3> QED
      BY <3>1, <3>2, <3>3
  <2>12. f[N] = g[N]
    <3> HIDE DEF S
    <3>1. \A n \in 0 .. N : n \in S
      BY <2>3, <2>10, <2>11, UpTo
    <3> QED
      BY <2>3, <3>1 DEF S
  <2>13. g[N + 1] = Extended(g[N], t[N + 1], c)
    BY <2>3, <2>9
  <2> QED
    BY <2>1, <2>2, <2>3, <2>8, <2>12, <2>13
<1> QED
  BY <1>1, <1>2

(* A separator begins a field; another glyph is one of the last.             *)
LEMMA ExtendedIs ==
    ASSUME NEW fs \in Seq(Text), NEW t \in Text, NEW x \in Glyph, NEW c
    PROVE  /\ x = c => Extended(fs, x, c) = Append(fs, <<>>)
           /\ x # c => Extended(Append(fs, t), x, c) = Append(fs, Append(t, x))
<1>1. x = c => Extended(fs, x, c) = Append(fs, <<>>)
  BY DEF Extended
<1>2. ASSUME x # c PROVE Extended(Append(fs, t), x, c) = Append(fs, Append(t, x))
  <2>1. PICK n, F, y : n = Len(fs) + 1 /\ F = Append(fs, t) /\ y = Append(t, x)
    OBVIOUS
  <2>2. n \in Nat /\ F \in Seq(Text) /\ Len(F) = n /\ n \in 1 .. n
        /\ F[n] = t /\ y \in Text /\ \A i \in 1 .. Len(fs) : F[i] = fs[i]
    BY <2>1 DEF Text
  <2>3. Extended(F, x, c) = [F EXCEPT ![n] = y]
    BY <1>2, <2>1, <2>2 DEF Extended
  <2>4. PICK G : G = Append(fs, y)
    OBVIOUS
  <2>5. G \in Seq(Text) /\ Len(G) = n /\ G[n] = y /\ \A i \in 1 .. Len(fs) : G[i] = fs[i]
    BY <2>1, <2>2, <2>4
  <2>6. G = [i \in 1 .. n |-> G[i]] /\ F = [i \in 1 .. n |-> F[i]]
    BY <2>2, <2>5
  <2>7. [F EXCEPT ![n] = y] = G
    <3>1. [F EXCEPT ![n] = y] = [i \in 1 .. n |-> IF i = n THEN y ELSE F[i]]
      BY <2>2, <2>6
    <3>2. \A i \in 1 .. n : (IF i = n THEN y ELSE F[i]) = G[i]
      BY <2>1, <2>2, <2>5
    <3> QED
      BY <2>6, <3>1, <3>2
  <2> QED
    BY <2>1, <2>3, <2>4, <2>7
<1> QED
  BY <1>1, <1>2

(* A text without separators is part of the last field.                      *)
LEMMA FieldsOn ==
    ASSUME NEW c, NEW u \in Text, NEW fs \in Seq(Text), NEW t \in Text,
           Fields(u, c) = Append(fs, t)
    PROVE  \A s \in Text : c \notin ToSet(s) => Fields(u \o s, c) = Append(fs, t \o s)
<1> DEFINE S == {s \in Text : c \notin ToSet(s) => Fields(u \o s, c) = Append(fs, t \o s)}
<1>1. <<>> \in S
  <2>1. u \o <<>> = u /\ t \o <<>> = t /\ <<>> \in Text
    BY ShortText DEF Text
  <2> QED
    BY <2>1
<1>2. ASSUME NEW s \in Text, NEW x \in Glyph, s \in S PROVE Append(s, x) \in S
  <2>1. SUFFICES ASSUME c \notin ToSet(Append(s, x))
                 PROVE  Fields(u \o Append(s, x), c) = Append(fs, t \o Append(s, x))
    BY ScanOn
  <2>2. x # c /\ c \notin ToSet(s)
    <3>1. s \in Seq(Glyph)
      BY DEF Text
    <3>2. /\ Append(s, x)[Len(s) + 1] = x /\ Len(Append(s, x)) = Len(s) + 1 /\ Len(s) \in Nat
          /\ \A i \in 1 .. Len(s) : Append(s, x)[i] = s[i]
      BY <3>1, Appended
    <3> QED
      BY <2>1, <3>1, <3>2 DEF ToSet
  <2>3. Fields(u \o s, c) = Append(fs, t \o s)
    BY <1>2, <2>2
  <2>4. PICK v, w : v = u \o s /\ w = t \o s
    OBVIOUS
  <2>5. v \in Text /\ w \in Text
    BY <2>4, JoinTyped
  <2>6. u \o Append(s, x) = Append(v, x) /\ t \o Append(s, x) = Append(w, x)
    <3>1. u \in Seq(Glyph) /\ s \in Seq(Glyph) /\ t \in Seq(Glyph)
      BY DEF Text
    <3>2. u \o Append(s, x) = Append(u \o s, x)
      BY <3>1, AppendJoin
    <3>3. t \o Append(s, x) = Append(t \o s, x)
      BY <3>1, AppendJoin
    <3> QED
      BY <2>4, <3>2, <3>3
  <2>7. Fields(Append(v, x), c) = Extended(Fields(v, c), x, c)
    BY <2>5, FieldsStep
  <2>8. Extended(Append(fs, w), x, c) = Append(fs, Append(w, x))
    BY <2>2, <2>5, ExtendedIs
  <2> QED
    BY <2>3, <2>4, <2>6, <2>7, <2>8
<1> HIDE DEF S
<1>3. \A s \in Text : s \in S
  BY <1>1, <1>2, Longer DEF Text
<1> QED
  BY <1>3 DEF S

(* A field with the separator before it.                                     *)
Prefixed(c, f) == <<c>> \o f
Parts(fs, c)   == [i \in DOMAIN fs |-> IF i = 1 THEN fs[i] ELSE Prefixed(c, fs[i])]

(* The parts that Join puts together.                                       *)
LEMMA PartsStep ==
    ASSUME NEW c \in Glyph
    PROVE  /\ Parts(<<>>, c) = <<>>
           /\ \A fs \in Seq(Text) : Parts(fs, c) \in Seq(Text)
           /\ \A fs \in Seq(Text) : \A f \in Text :
                 Parts(Append(fs, f), c)
                   = Append(Parts(fs, c), IF fs = <<>> THEN f ELSE Prefixed(c, f))
<1>1. Parts(<<>>, c) = <<>>
  BY DEF Parts
<1>2. \A f \in Text : Prefixed(c, f) \in Text
  BY ShortText, JoinTyped DEF Prefixed
<1>3. ASSUME NEW fs \in Seq(Text)
      PROVE  /\ Parts(fs, c) \in Seq(Text) /\ Len(Parts(fs, c)) = Len(fs) /\ Len(fs) \in Nat
             /\ Parts(fs, c) = [i \in 1 .. Len(fs) |-> IF i = 1 THEN fs[i] ELSE Prefixed(c, fs[i])]
  <2>1. PICK N, P : N = Len(fs) /\ P = Parts(fs, c)
    OBVIOUS
  <2>2. N \in Nat /\ DOMAIN fs = 1 .. N /\ \A i \in 1 .. N : fs[i] \in Text
    BY <2>1
  <2>3. P = [i \in 1 .. N |-> IF i = 1 THEN fs[i] ELSE Prefixed(c, fs[i])]
    BY <2>1, <2>2 DEF Parts
  <2>4. \A i \in 1 .. N : P[i] \in Text
    BY <1>2, <2>2, <2>3
  <2>5. P = [i \in 1 .. N |-> P[i]]
    BY <2>3
  <2>6. P \in Seq(Text) /\ Len(P) = N
    <3>1. P \in Seq(Text)
      BY ONLY <2>2, <2>4, <2>5, IsSeq
    <3> QED
      BY <2>2, <2>3, <3>1
  <2> QED
    BY <2>1, <2>2, <2>3, <2>6
<1>4. ASSUME NEW fs \in Seq(Text), NEW f \in Text
      PROVE  Parts(Append(fs, f), c)
               = Append(Parts(fs, c), IF fs = <<>> THEN f ELSE Prefixed(c, f))
  <2>1. PICK N, P, A, x : /\ N = Len(fs) /\ P = Parts(fs, c) /\ A = Append(fs, f)
                          /\ x = IF fs = <<>> THEN f ELSE Prefixed(c, f)
    OBVIOUS
  <2>2. /\ A \in Seq(Text) /\ N \in Nat /\ Len(A) = N + 1 /\ A[N + 1] = f
        /\ \A i \in 1 .. N : A[i] = fs[i]
    BY <2>1, Appended
  <2>3. Parts(A, c) = [i \in 1 .. N + 1 |-> IF i = 1 THEN A[i] ELSE Prefixed(c, A[i])]
    BY <1>3, <2>2
  <2>4. P \in Seq(Text) /\ Len(P) = N
        /\ P = [i \in 1 .. N |-> IF i = 1 THEN fs[i] ELSE Prefixed(c, fs[i])]
    BY <1>3, <2>1
  <2>5. x \in Text
    BY <1>2, <2>1
  <2>6. Append(P, x) = [i \in 1 .. N + 1 |-> IF i = N + 1 THEN x ELSE P[i]]
    <3>1. P \in Seq(Text)
      BY <2>4
    <3>2. Append(P, x) = [i \in 1 .. Len(P) + 1 |-> IF i = Len(P) + 1 THEN x ELSE P[i]]
      BY ONLY <3>1, <2>5, AppendIs
    <3> QED
      BY <2>4, <3>2
  <2>7. fs = <<>> <=> N = 0
    BY <2>1, NotEmpty
  <2>8. \A i \in 1 .. N + 1 : (IF i = 1 THEN A[i] ELSE Prefixed(c, A[i]))
                                = (IF i = N + 1 THEN x ELSE P[i])
    <3> SUFFICES ASSUME NEW i \in 1 .. N + 1
                 PROVE  (IF i = 1 THEN A[i] ELSE Prefixed(c, A[i]))
                          = (IF i = N + 1 THEN x ELSE P[i])
      OBVIOUS
    <3>1. CASE i = N + 1
      BY <2>1, <2>2, <2>7, <3>1
    <3>2. CASE i # N + 1
      <4>1. i \in 1 .. N
        BY <2>2, <3>2
      <4>2. P[i] = IF i = 1 THEN fs[i] ELSE Prefixed(c, fs[i])
        BY <2>4, <4>1
      <4> QED
        BY <2>2, <3>2, <4>1, <4>2
    <3> QED
      BY <3>1, <3>2
  <2> QED
    BY <2>1, <2>3, <2>6, <2>8
<1> QED
  BY <1>1, <1>3, <1>4

(* Fields that are joined come apart again.                                  *)
LEMMA JoinStep ==
    ASSUME NEW c \in Glyph
    PROVE  /\ Join(<<>>, c) = <<>>
           /\ \A fs \in Seq(Text) : Join(fs, c) \in Text
           /\ \A fs \in Seq(Text) : \A f \in Text :
                 Join(Append(fs, f), c)
                   = Join(fs, c) \o (IF fs = <<>> THEN f ELSE <<c>> \o f)
<1>1. \A fs : Join(fs, c) = FlattenSeq(Parts(fs, c))
  BY DEF Join, Parts, Prefixed
<1>2. Join(<<>>, c) = <<>>
  BY <1>1, PartsStep, FlattenStep
<1>3. ASSUME NEW fs \in Seq(Text) PROVE Join(fs, c) \in Text
  <2>1. Parts(fs, c) \in Seq(Text)
    BY PartsStep
  <2> QED
    BY <1>1, <2>1, FlattenTyped DEF Text
<1>4. ASSUME NEW fs \in Seq(Text), NEW f \in Text
      PROVE  Join(Append(fs, f), c) = Join(fs, c) \o (IF fs = <<>> THEN f ELSE <<c>> \o f)
  <2>1. PICK x, P : x = (IF fs = <<>> THEN f ELSE <<c>> \o f) /\ P = Parts(fs, c)
    OBVIOUS
  <2>2. x \in Text
    BY <2>1, ShortText, JoinTyped
  <2>3. P \in Seq(Text) /\ Parts(Append(fs, f), c) = Append(P, x)
    BY <2>1, PartsStep DEF Prefixed
  <2>4. FlattenSeq(Append(P, x)) = FlattenSeq(P) \o x
    BY <2>2, <2>3, FlattenStep DEF Text
  <2> QED
    BY <1>1, <2>1, <2>3, <2>4
<1> QED
  BY <1>2, <1>3, <1>4

(* The fields of a text of fields that have no separator in them.            *)
LEMMA FieldsJoined ==
    ASSUME NEW c \in Glyph
    PROVE  \A fs \in Seq(Text) :
             (\A i \in 1 .. Len(fs) : c \notin ToSet(fs[i])) =>
                Fields(Join(fs, c), c) = IF fs = <<>> THEN <<<<>>>> ELSE fs
<1> DEFINE Plainly(fs) == \A i \in 1 .. Len(fs) : c \notin ToSet(fs[i])
           S == {fs \in Seq(Text) :
                   Plainly(fs) => Fields(Join(fs, c), c) = IF fs = <<>> THEN <<<<>>>> ELSE fs}
<1>1. <<>> \in S
  <2>1. <<>> \in Seq(Text)
    OBVIOUS
  <2>2. Fields(Join(<<>>, c), c) = <<<<>>>>
    BY JoinStep, FieldsStep
  <2> QED
    BY <2>1, <2>2
<1>2. ASSUME NEW fs \in Seq(Text), NEW f \in Text, fs \in S PROVE Append(fs, f) \in S
  <2>1. PICK A : A = Append(fs, f)
    OBVIOUS
  <2>2. /\ A \in Seq(Text) /\ Len(fs) \in Nat /\ Len(A) = Len(fs) + 1 /\ A[Len(fs) + 1] = f
        /\ \A i \in 1 .. Len(fs) : A[i] = fs[i]
    BY <2>1, Appended
  <2>3. SUFFICES ASSUME Plainly(A) PROVE Fields(Join(A, c), c) = A
    <3>1. A # <<>>
      BY <2>2
    <3> QED
      BY <2>1, <2>2, <3>1
  <2>4. c \notin ToSet(f) /\ Plainly(fs)
    <3>1. Len(fs) + 1 \in 1 .. Len(A) /\ \A i \in 1 .. Len(fs) : i \in 1 .. Len(A)
      BY <2>2
    <3> QED
      BY <2>2, <2>3, <3>1
  <2> HIDE DEF Plainly
  <2>5. <<>> \in Text /\ <<>> \o f = f
    BY ShortText DEF Text
  <2>6. CASE fs = <<>>
    <3>1. Join(A, c) = <<>> \o f
      BY <2>1, <2>6, JoinStep
    <3>2. Fields(<<>>, c) = Append(<<>>, <<>>) /\ <<>> \in Seq(Text)
      BY FieldsStep
    <3>3. Fields(<<>> \o f, c) = Append(<<>>, <<>> \o f)
      BY <2>4, <2>5, <3>2, FieldsOn
    <3> QED
      BY <2>1, <2>5, <2>6, <3>1, <3>3
  <2>7. CASE fs # <<>>
    <3>1. PICK u, v : u = Join(fs, c) /\ v = u \o <<c>>
      OBVIOUS
    <3>2. u \in Text /\ v \in Text /\ v = Append(u, c) /\ <<c>> \in Text
      <4>1. u \in Text /\ <<c>> \in Text
        BY <3>1, JoinStep, ShortText
      <4>2. u \o <<c>> = Append(u, c) /\ Append(u, c) \in Text
        BY <4>1, JoinOne, ScanOn
      <4> QED
        BY <3>1, <4>1, <4>2
    <3>3. Join(A, c) = v \o f
      <4>1. Join(A, c) = u \o (<<c>> \o f)
        BY <2>1, <2>7, <3>1, JoinStep
      <4>2. u \o (<<c>> \o f) = (u \o <<c>>) \o f
        BY <3>2, JoinAssoc
      <4> QED
        BY <3>1, <4>1, <4>2
    <3>4. Fields(u, c) = fs
      BY <1>2, <2>4, <2>7, <3>1
    <3>5. Fields(v, c) = Append(fs, <<>>)
      <4>1. Fields(Append(u, c), c) = Extended(Fields(u, c), c, c)
        BY <3>2, FieldsStep
      <4>2. Extended(fs, c, c) = Append(fs, <<>>)
        BY DEF Extended
      <4> QED
        BY <3>2, <3>4, <4>1, <4>2
    <3>6. Fields(v \o f, c) = Append(fs, <<>> \o f)
      <4>1. PICK e : e = <<>>
        OBVIOUS
      <4>2. e \in Text /\ Fields(v, c) = Append(fs, e)
        BY <2>5, <3>5, <4>1
      <4>3. Fields(v \o f, c) = Append(fs, e \o f)
        <5>1. v \in Text
          BY <3>2
        <5>2. \A s \in Text : c \notin ToSet(s) => Fields(v \o s, c) = Append(fs, e \o s)
          BY ONLY <4>2, <5>1, FieldsOn, fs \in Seq(Text)
        <5> QED
          BY <2>4, <5>2
      <4> QED
        BY <4>1, <4>3
    <3> QED
      BY <2>1, <2>5, <3>3, <3>6
  <2> QED
    BY <2>6, <2>7
<1> HIDE DEF S
<1>3. \A fs \in Seq(Text) : fs \in S
  BY <1>1, <1>2, Longer
<1> QED
  BY <1>3 DEF S

(* A text that can be part of a field.                                       *)
NoSlash(s) == "/" \notin ToSet(s)

(* So can what is put together of such texts.                                *)
LEMMA NoSlashJoined ==
    ASSUME NEW a \in Text, NEW b \in Text, NoSlash(a), NoSlash(b)
    PROVE  NoSlash(a \o b)
<1>1. PICK t, m, n : t = a \o b /\ m = Len(a) /\ n = Len(b)
  OBVIOUS
<1>2. /\ m \in Nat /\ n \in Nat /\ Len(t) = m + n /\ DOMAIN t = 1 .. m + n
      /\ DOMAIN a = 1 .. m /\ DOMAIN b = 1 .. n
      /\ \A i \in 1 .. m + n : t[i] = IF i <= m THEN a[i] ELSE b[i - m]
  BY <1>1 DEF Text
<1>3. PICK x : x = "/"
  OBVIOUS
<1>4. (\A i \in 1 .. m : a[i] # x) /\ (\A i \in 1 .. n : b[i] # x)
  BY <1>2, <1>3 DEF NoSlash, ToSet
<1>5. \A i \in 1 .. m + n : t[i] # x
  <2> SUFFICES ASSUME NEW i \in 1 .. m + n PROVE t[i] # x
    OBVIOUS
  <2>1. CASE i <= m
    BY <1>2, <1>4, <2>1
  <2>2. CASE ~(i <= m)
    <3>1. i - m \in 1 .. n
      BY <1>2, <2>2
    <3> QED
      BY <1>2, <1>4, <2>2, <3>1
  <2> QED
    BY <2>1, <2>2
<1> QED
  BY <1>1, <1>2, <1>3, <1>5 DEF NoSlash, ToSet

(* A few glyphs other than a slash.                                          *)
LEMMA NoSlashShort ==
    /\ NoSlash(<<>>)
    /\ \A a \in Glyph : a # "/" => NoSlash(<<a>>)
    /\ \A a, b \in Glyph : a # "/" /\ b # "/" => NoSlash(<<a, b>>)
    /\ \A a, b, c \in Glyph : a # "/" /\ b # "/" /\ c # "/" => NoSlash(<<a, b, c>>)
    /\ \A a, b, c, d \in Glyph :
          a # "/" /\ b # "/" /\ c # "/" /\ d # "/" => NoSlash(<<a, b, c, d>>)
  BY DEF NoSlash, ToSet

(* A slash is written as its octal code.                                     *)
LEMMA NoSlashWritten == \A c \in Glyph : NoSlash(Written(c))
<1> SUFFICES ASSUME NEW c \in Glyph PROVE NoSlash(Written(c))
  OBVIOUS
<1>1. PICK bs, zero, five, seven, three :
        bs = "\\" /\ zero = "0" /\ five = "5" /\ seven = "7" /\ three = "3"
  OBVIOUS
<1>2. /\ bs \in Glyph /\ zero \in Glyph /\ five \in Glyph /\ seven \in Glyph /\ three \in Glyph
      /\ bs # "/" /\ zero # "/" /\ five # "/" /\ seven # "/" /\ three # "/"
  BY <1>1, SyntaxGlyphs
<1>3. CASE c = "/"
  <2>1. Written(c) = <<bs, zero, five, seven>>
    BY <1>1, <1>3, EscIs
  <2> QED
    BY <1>2, <2>1, NoSlashShort
<1>4. CASE c = ";"
  <2>1. Written(c) = <<bs, zero, seven, three>>
    BY <1>1, <1>4, EscIs
  <2> QED
    BY <1>2, <2>1, NoSlashShort
<1>5. CASE c \in {"\"", "\\", "LF", "CR"}
  <2>1. PICK e \in {"\"", "\\", "n", "r"} : Written(c) = <<bs, e>>
    BY <1>1, <1>5, EscIs
  <2>2. e \in Glyph /\ e # "/"
    BY SyntaxGlyphs
  <2> QED
    BY <1>2, <2>1, <2>2, NoSlashShort
<1>6. CASE c \notin {"/", ";", "\"", "\\", "LF", "CR"}
  <2>1. Written(c) = <<c>> /\ c # "/"
    BY <1>6, EscIs
  <2> QED
    BY <2>1, NoSlashShort
<1> QED
  BY <1>3, <1>4, <1>5, <1>6

(* So no literal has a slash.                                                *)
LEMMA NoSlashLiteral == \A s \in Text : NoSlash(WriteStringLiteral(s))
<1> DEFINE S == {s \in Text : NoSlash(Body(s))}
<1>1. <<>> \in S
  BY BodyStep, NoSlashShort, ShortText
<1>2. ASSUME NEW s \in Text, NEW c \in Glyph, s \in S PROVE Append(s, c) \in S
  <2>1. PICK b, w : b = Body(s) /\ w = Written(c)
    OBVIOUS
  <2>2. b \in Text /\ Body(Append(s, c)) = b \o w
    BY <2>1, BodyStep
  <2>3. w \in Text /\ Append(s, c) \in Text /\ NoSlash(w)
    BY <2>1, EscTyped, ScanOn, NoSlashWritten
  <2>4. NoSlash(b)
    BY <1>2, <2>1
  <2>5. NoSlash(b \o w)
    BY <2>2, <2>3, <2>4, NoSlashJoined
  <2> QED
    BY <2>2, <2>3, <2>5
<1> HIDE DEF S
<1>3. \A s \in Text : s \in S
  BY <1>1, <1>2, Longer DEF Text
<1>4. ASSUME NEW s \in Text PROVE NoSlash(WriteStringLiteral(s))
  <2>1. PICK b, q : b = Body(s) /\ q = "\""
    OBVIOUS
  <2>2. b \in Text /\ q \in Glyph /\ q # "/" /\ NoSlash(b)
    BY <1>3, <2>1, BodyStep, SyntaxGlyphs DEF S
  <2>3. <<q>> \in Text /\ NoSlash(<<q>>)
    BY <2>2, ShortText, NoSlashShort
  <2>4. <<q>> \o b \in Text /\ NoSlash(<<q>> \o b)
    BY <2>2, <2>3, JoinTyped, NoSlashJoined
  <2>5. NoSlash((<<q>> \o b) \o <<q>>)
    BY <2>3, <2>4, NoSlashJoined
  <2> QED
    BY <2>1, <2>5, LiteralIs
<1> QED
  BY <1>4

(* Nor has a quoted text.                                                    *)
LEMMA NoSlashQuoted == \A w \in Text : NoSlash(Quoted(w))
<1> SUFFICES ASSUME NEW w \in Text PROVE NoSlash(Quoted(w))
  OBVIOUS
<1>1. PICK lit, p, h, b, e :
        lit = WriteStringLiteral(w) /\ p = "(" /\ h = Concat /\ b = Blank /\ e = ")"
  OBVIOUS
<1>2. /\ p \in Glyph /\ h \in Glyph /\ b \in Glyph /\ e \in Glyph
      /\ p # "/" /\ h # "/" /\ b # "/" /\ e # "/"
  BY <1>1, SyntaxGlyphs DEF Concat, Blank
<1>3. lit \in Text /\ NoSlash(lit)
  BY <1>1, LiteralEnds, NoSlashLiteral
<1>4. <<p, h, b>> \in Text /\ NoSlash(<<p, h, b>>)
  BY <1>2, ShortText, NoSlashShort
<1>5. <<e>> \in Text /\ NoSlash(<<e>>)
  BY <1>2, ShortText, NoSlashShort
<1>6. <<p, h, b>> \o lit \in Text /\ NoSlash(<<p, h, b>> \o lit)
  BY <1>3, <1>4, JoinTyped, NoSlashJoined
<1>7. NoSlash((<<p, h, b>> \o lit) \o <<e>>)
  BY <1>5, <1>6, NoSlashJoined
<1> QED
  BY <1>1, <1>7 DEF Quoted

(* Nor has a directive that is written anew.                                 *)
LEMMA NoSlashRendered == \A words \in Seq(Text) : NoSlash(RenderIgnoreDicWord(words))
<1> DEFINE S == {words \in Seq(Text) : NoSlash(List(words))}
<1>1. <<>> \in S
  <2>1. <<>> \in Seq(Text)
    OBVIOUS
  <2> QED
    BY <2>1, ListStep, NoSlashShort
<1>2. ASSUME NEW words \in Seq(Text), NEW s \in Text, words \in S PROVE Append(words, s) \in S
  <2>1. PICK a, lit, g : a = List(words) /\ lit = WriteStringLiteral(s) /\ g = Blank
    OBVIOUS
  <2>2. a \in Text /\ NoSlash(a) /\ g \in Glyph /\ g # "/"
    BY <1>2, <2>1, ListStep, SyntaxGlyphs DEF Blank
  <2>3. lit \in Text /\ NoSlash(lit)
    BY <2>1, LiteralEnds, NoSlashLiteral
  <2>4. <<g>> \in Text /\ NoSlash(<<g>>)
    BY <2>2, ShortText, NoSlashShort
  <2>5. <<g>> \o lit \in Text /\ NoSlash(<<g>> \o lit)
    BY <2>3, <2>4, JoinTyped, NoSlashJoined
  <2>6. NoSlash(a \o (<<g>> \o lit))
    BY <2>2, <2>5, NoSlashJoined
  <2>7. List(Append(words, s)) = a \o (<<g>> \o lit)
    BY <2>1, ListStep
  <2>8. Append(words, s) \in Seq(Text)
    OBVIOUS
  <2> QED
    BY <2>6, <2>7, <2>8
<1> HIDE DEF S
<1>3. \A words \in Seq(Text) : words \in S
  BY <1>1, <1>2, Longer
<1>4. ASSUME NEW words \in Seq(Text) PROVE NoSlash(RenderIgnoreDicWord(words))
  <2>1. PICK a, p, h, e : a = List(words) /\ p = "(" /\ h = Ignore /\ e = ")"
    OBVIOUS
  <2>2. a \in Text /\ NoSlash(a)
    BY <1>3, <2>1, ListStep DEF S
  <2>3. p \in Glyph /\ h \in Glyph /\ e \in Glyph /\ p # "/" /\ h # "/" /\ e # "/"
    BY <2>1, SyntaxGlyphs DEF Ignore
  <2>4. <<p, h>> \in Text /\ NoSlash(<<p, h>>)
    BY <2>3, ShortText, NoSlashShort
  <2>5. <<e>> \in Text /\ NoSlash(<<e>>)
    BY <2>3, ShortText, NoSlashShort
  <2>6. <<p, h>> \o a \in Text /\ NoSlash(<<p, h>> \o a)
    BY <2>2, <2>4, JoinTyped, NoSlashJoined
  <2>7. NoSlash((<<p, h>> \o a) \o <<e>>)
    BY <2>5, <2>6, NoSlashJoined
  <2> QED
    BY <2>1, <2>7, RenderedIs
<1> QED
  BY <1>4

(* What is not quoted need not be.                                           *)
LEMMA QuoteIfNeededIs ==
    ASSUME NEW s \in Text
    PROVE  /\ QuoteIfNeeded(s) = IF NeedsQuoting(s) THEN Quoted(s) ELSE s
           /\ QuoteIfNeeded(s) \in Text /\ NoSlash(QuoteIfNeeded(s))
           /\ s # <<>> => QuoteIfNeeded(s) # <<>>
<1>1. QuoteIfNeeded(s) = IF NeedsQuoting(s) THEN Quoted(s) ELSE s
  BY DEF QuoteIfNeeded, Quoted
<1>2. ~NeedsQuoting(s) => NoSlash(s)
  BY DEF NeedsQuoting, NoSlash, ToSet
<1>3. Quoted(s) \in Text /\ NoSlash(Quoted(s))
  BY QuotedRead, NoSlashQuoted
<1>4. Quoted(s) # <<>>
  <2>1. Len(Quoted(s)) # 0
    BY QuotedCounted
  <2> QED
    BY <2>1
<1> QED
  BY <1>1, <1>2, <1>3, <1>4

(* What begins a form, and what an annotation.                               *)
Opening   == "("
Semicolon == ";"

(* They are glyphs.                                                         *)
LEMMA MarksTyped == Opening \in Glyph /\ Semicolon \in Glyph
  BY SyntaxGlyphs DEF Opening, Semicolon

(* Where the annotation of a word begins.                                    *)
Semi(field) == SelectInSeq(field, LAMBDA c : c = Semicolon)

(* What is parsed is split at a place.                                       *)
LEMMA FieldParsed ==
    ASSUME NEW f
    PROVE  /\ f[1] # Opening => ParseCandidateField(f) = SplitAt(f, Semi(f))
           /\ f[1] = Opening => ParseCandidateField(f) = SplitAt(f, FormEnd(f, SexpEnd(f)) + 1)
  BY DEF ParseCandidateField, Semi, SelectInSeq, Opening, Semicolon

(* The first semicolon.                                                     *)
LEMMA SemiIs ==
    ASSUME NEW s \in Text
    PROVE  /\ (\A i \in 1 .. Len(s) : s[i] # Semicolon) => Semi(s) = 0
           /\ \A k \in 1 .. Len(s) :
                s[k] = Semicolon /\ (\A i \in 1 .. k - 1 : s[i] # Semicolon) => Semi(s) = k
<1> DEFINE I == {i \in 1 .. Len(s) : s[i] = Semicolon}
<1>1. Semi(s) = IF I # {} THEN Min(I) ELSE 0
  BY DEF Semi, SelectInSeq
<1>2. ASSUME \A i \in 1 .. Len(s) : s[i] # Semicolon PROVE Semi(s) = 0
  <2>1. I = {}
    BY <1>2
  <2> QED
    BY <1>1, <2>1
<1>3. ASSUME NEW k \in 1 .. Len(s), s[k] = Semicolon, \A i \in 1 .. k - 1 : s[i] # Semicolon
      PROVE  Semi(s) = k
  <2>1. Len(s) \in Nat
    BY DEF Text
  <2>2. k \in I /\ I \subseteq 1 .. Len(s) /\ \A j \in I : k <= j
    BY <1>3, <2>1
  <2>3. Min(I) = k
    <3> HIDE DEF I
    <3> QED
      BY <2>1, <2>2, FirstPlace
  <2>4. I # {}
    BY <2>2
  <2> QED
    BY <1>1, <2>3, <2>4
<1> QED
  BY <1>2, <1>3

(* A word and its annotation.                                               *)
Noted(w, q) == w \o <<Semicolon>> \o q

(* The parts of it.                                                         *)
LEMMA NotedIs ==
    ASSUME NEW w \in Text, NEW q \in Text, NEW t, t = Noted(w, q)
    PROVE  /\ t \in Text /\ Len(w) \in Nat /\ Len(t) = Len(w) + 1 + Len(q)
           /\ t[Len(w) + 1] = Semicolon /\ Len(w) + 1 \in DOMAIN t
           /\ \A i \in 1 .. Len(w) : t[i] = w[i]
           /\ Before(t, Len(w) + 1) = w /\ After(t, Len(w) + 1) = q
<1>1. PICK g, n, m : g = Semicolon /\ n = Len(w) /\ m = Len(q)
  OBVIOUS
<1>2. g \in Glyph
  BY <1>1, MarksTyped
<1>3. w \in Seq(Glyph) /\ q \in Seq(Glyph) /\ t = (w \o <<g>>) \o q
  BY <1>1 DEF Text, Noted
<1>4. n \in Nat /\ m \in Nat /\ DOMAIN w = 1 .. n /\ DOMAIN q = 1 .. m
  BY <1>1, <1>3
<1>5. PICK v : v = w \o <<g>>
  OBVIOUS
<1>6. v \in Seq(Glyph) /\ Len(v) = n + 1 /\ v[n + 1] = g /\ \A i \in 1 .. n : v[i] = w[i]
  <2>1. v = Append(w, g)
    BY <1>2, <1>5, JoinOne
  <2> QED
    BY <1>1, <1>2, <1>3, <2>1, Appended
<1>7. t \in Seq(Glyph) /\ Len(t) = n + 1 + m
      /\ (\A i \in 1 .. n + 1 : t[i] = v[i]) /\ \A i \in 1 .. m : t[n + 1 + i] = q[i]
  BY <1>1, <1>3, <1>4, <1>5, <1>6
<1>8. n + 1 \in DOMAIN t /\ t[n + 1] = g
  BY <1>4, <1>6, <1>7
<1>9. \A i \in 1 .. n : t[i] = w[i]
  BY <1>4, <1>6, <1>7
<1>10. SubSeq(t, 1, n) = w
  <2>1. SubSeq(t, 1, n) = [i \in 1 .. n |-> t[i]]
    BY <1>4, <1>7
  <2>2. w = [i \in 1 .. n |-> w[i]]
    BY <1>3, <1>4
  <2> QED
    BY <1>9, <2>1, <2>2
<1>11. SubSeq(t, n + 2, Len(t)) = q
  <2>1. PICK x : x = SubSeq(t, n + 2, Len(t))
    OBVIOUS
  <2>2. x = [i \in 1 .. m |-> t[n + 1 + i]]
    <3>1. x = [i \in 1 .. (Len(t) - (n + 2) + 1) |-> t[i + (n + 2) - 1]]
      BY <1>4, <1>7, <2>1
    <3>2. Len(t) - (n + 2) + 1 = m
      BY <1>4, <1>7
    <3>3. \A i \in 1 .. m : i + (n + 2) - 1 = n + 1 + i
      BY <1>4
    <3> QED
      BY <3>1, <3>2, <3>3
  <2>3. q = [i \in 1 .. m |-> q[i]]
    BY <1>3, <1>4
  <2> QED
    BY <1>7, <2>1, <2>2, <2>3
<1>12. Before(t, n + 1) = w /\ After(t, n + 1) = q
  <2>1. (n + 1) - 1 = n /\ (n + 1) + 1 = n + 2
    BY <1>4
  <2> QED
    BY <1>10, <1>11, <2>1 DEF Before, After
<1> QED
  BY <1>1, <1>4, <1>7, <1>8, <1>9, <1>12 DEF Text

(* A field without annotation.                                               *)
LEMMA AloneSplit ==
    ASSUME NEW w \in Text
    PROVE  /\ SplitAt(w, 0) = WordAndAnnotation(w, w, None)
           /\ SplitAt(w, Len(w) + 1) = WordAndAnnotation(w, w, None)
<1>1. 0 \notin DOMAIN w /\ Len(w) + 1 \notin DOMAIN w
  BY DEF Text
<1> QED
  BY <1>1 DEF SplitAt

(* A field with one.                                                        *)
LEMMA NotedSplit ==
    ASSUME NEW w \in Text, NEW q \in Text, NEW t, t = Noted(w, q)
    PROVE  SplitAt(t, Len(w) + 1) = WordAndAnnotation(t, w, DecodeAnnotation(q))
<1>1. Len(w) + 1 \in DOMAIN t /\ Before(t, Len(w) + 1) = w /\ After(t, Len(w) + 1) = q
  BY NotedIs
<1> QED
  BY <1>1 DEF SplitAt

(* A word with nothing to quote is read back.                                *)
LEMMA WordAlone ==
    ASSUME NEW w \in Text, w # <<>>, ~NeedsQuoting(w)
    PROVE  ParseCandidateField(w) = Plain(w, None)
<1>1. w[1] # Opening /\ \A i \in 1 .. Len(w) : w[i] # Semicolon
  <2>1. DOMAIN w = 1 .. Len(w)
    BY DEF Text
  <2> QED
    BY <2>1 DEF NeedsQuoting, Opening, Semicolon
<1>2. Semi(w) = 0
  BY <1>1, SemiIs
<1>3. ParseCandidateField(w) = SplitAt(w, 0)
  BY <1>1, <1>2, FieldParsed
<1> QED
  BY <1>1, <1>3, AloneSplit DEF WordAndAnnotation, Opening

(* And so it is with an annotation.                                          *)
LEMMA WordNoted ==
    ASSUME NEW w \in Text, w # <<>>, ~NeedsQuoting(w), NEW q \in Text, NEW t, t = Noted(w, q)
    PROVE  ParseCandidateField(t) = Plain(w, DecodeAnnotation(q))
<1>1. w[1] # Opening /\ \A i \in 1 .. Len(w) : w[i] # Semicolon
  <2>1. DOMAIN w = 1 .. Len(w)
    BY DEF Text
  <2> QED
    BY <2>1 DEF NeedsQuoting, Opening, Semicolon
<1>2. PICK k : k = Len(w) + 1
  OBVIOUS
<1>3. /\ t \in Text /\ Len(w) \in Nat /\ t[k] = Semicolon /\ k \in DOMAIN t
      /\ \A i \in 1 .. Len(w) : t[i] = w[i]
  BY <1>2, NotedIs
<1>4. k \in 1 .. Len(t) /\ k - 1 = Len(w)
  BY <1>2, <1>3 DEF Text
<1>5. \A i \in 1 .. k - 1 : t[i] # Semicolon
  BY <1>1, <1>3, <1>4
<1>6. Semi(t) = k
  BY <1>3, <1>4, <1>5, SemiIs
<1>7. t[1] # Opening
  <2>1. 1 \in 1 .. Len(w)
    BY NotEmpty DEF Text
  <2> QED
    BY <1>1, <1>3, <2>1
<1>8. ParseCandidateField(t) = SplitAt(t, k)
  BY <1>6, <1>7, FieldParsed
<1>9. SplitAt(t, k) = WordAndAnnotation(t, w, DecodeAnnotation(q))
  BY <1>2, NotedSplit
<1> QED
  BY <1>7, <1>8, <1>9 DEF WordAndAnnotation, Opening

(* A form that is the whole field.                                           *)
LEMMA FormAlone ==
    ASSUME NEW w \in Text, w # <<>>, w[1] = Opening, FormEnd(w, SexpEnd(w)) = Len(w)
    PROVE  ParseCandidateField(w) = Form(w, ParseConcat(w), None)
<1>1. ParseCandidateField(w) = SplitAt(w, Len(w) + 1)
  BY FieldParsed
<1> QED
  BY <1>1, AloneSplit DEF WordAndAnnotation, Opening

(* A form and its annotation.                                               *)
LEMMA FormNoted ==
    ASSUME NEW w \in Text, w # <<>>, w[1] = Opening, SexpEnd(w) = Len(w), NEW q \in Text,
           NEW t, t = Noted(w, q)
    PROVE  ParseCandidateField(t) = Form(w, ParseConcat(w), DecodeAnnotation(q))
<1>1. PICK n : n = Len(w)
  OBVIOUS
<1>2. /\ t \in Text /\ n \in Nat /\ t[n + 1] = Semicolon /\ n + 1 \in DOMAIN t
      /\ \A i \in 1 .. n : t[i] = w[i]
  BY <1>1, NotedIs
<1>3. n # 0 /\ 1 \in 1 .. n
  BY <1>1, NotEmpty DEF Text
<1>4. t[1] = Opening /\ t # <<>>
  BY <1>2, <1>3 DEF Text
<1>5. Count(w).at = n
  BY <1>1, <1>3, SexpEndIs DEF Opening
<1>6. SexpEnd(t) = n
  <2>1. PICK v : v = <<Semicolon>> \o q
    OBVIOUS
  <2>2. v \in Text /\ t = w \o v
    <3>1. PICK g : g = <<Semicolon>>
      OBVIOUS
    <3>2. g \in Text
      BY <3>1, MarksTyped, ShortText
    <3>3. g \o q \in Text /\ w \o (g \o q) = (w \o g) \o q
      BY <3>2, JoinTyped, JoinAssoc
    <3> QED
      BY <2>1, <3>1, <3>3 DEF Noted
  <2>3. Count(w \o v) = Count(w)
    BY <1>3, <1>5, <2>2, CountStays
  <2> QED
    BY <1>4, <1>5, <2>2, <2>3, SexpEndIs DEF Opening
<1>7. FormEnd(t, n) = n
  BY <1>2, <1>3 DEF FormEnd, Semicolon
<1>8. ParseCandidateField(t) = SplitAt(t, n + 1)
  BY <1>4, <1>6, <1>7, FieldParsed
<1>9. SplitAt(t, n + 1) = WordAndAnnotation(t, w, DecodeAnnotation(q))
  BY <1>1, NotedSplit
<1> QED
  BY <1>4, <1>8, <1>9 DEF WordAndAnnotation, Opening

(* A form that ends at its last glyph is the whole field.                    *)
LEMMA FormWhole ==
    ASSUME NEW w \in Text, w # <<>>, w[1] = Opening, Count(w).at = Len(w)
    PROVE  SexpEnd(w) = Len(w) /\ FormEnd(w, SexpEnd(w)) = Len(w)
<1>1. SexpEnd(w) = Len(w)
  BY SexpEndIs DEF Opening
<1> QED
  BY <1>1 DEF FormEnd, Semicolon

(* A candidate as it is read from a file: a word that is not empty, a         *)
(* directive, or another form that can be part of a field as it is.          *)
Whole(w) ==
    /\ w # <<>> /\ w[1] = Opening /\ NoSlash(w)
    /\ ParseConcat(w) = None /\ WordsOf(w, Ignore) = None
    /\ FormEnd(w, SexpEnd(w)) = Len(w)

Saved(c) ==
    /\ c \in Candidate
    /\ c.form = "none" => c.word # <<>> /\ c.ignored = <<>>
    /\ c.form = "ignore" => c.word = <<>>
    /\ c.form = "unknown" => /\ c.ignored = <<>> /\ Whole(c.word)
                             /\ c.annotation # None => SexpEnd(c.word) = Len(c.word)

(* It as it is read after it was written.                                    *)
Decoded(a) == IF a = None THEN None ELSE DecodeAnnotation(QuoteIfNeeded(a))
Reread(c) == [form |-> c.form, word |-> c.word, annotation |-> Decoded(c.annotation),
              ignored |-> c.ignored]

(* What SerializeCandidates writes for a candidate.                          *)
WordText(c) == CASE c.form = "ignore"  -> RenderIgnoreDicWord(c.ignored)
                 [] c.form = "unknown" -> c.word
                 [] c.form = "none"    -> QuoteIfNeeded(c.word)
FieldText(c) == IF c.annotation = None THEN WordText(c)
                ELSE Noted(WordText(c), QuoteIfNeeded(c.annotation))

(* By the kind of candidate.                                                *)
LEMMA WordTextIs ==
    ASSUME NEW c
    PROVE  /\ c.form = "ignore" => WordText(c) = RenderIgnoreDicWord(c.ignored)
           /\ c.form = "unknown" => WordText(c) = c.word
           /\ c.form = "none" => WordText(c) = QuoteIfNeeded(c.word)
<1>1. c.form = "ignore" => WordText(c) = RenderIgnoreDicWord(c.ignored)
  BY Zenon DEF WordText
<1>2. c.form = "unknown" => WordText(c) = c.word
  BY Zenon DEF WordText
<1>3. c.form = "none" => WordText(c) = QuoteIfNeeded(c.word)
  BY Zenon DEF WordText
<1> QED
  BY <1>1, <1>2, <1>3

(* The parts of a candidate.                                                *)
LEMMA CandidateIs ==
    ASSUME NEW c \in Candidate
    PROVE  /\ c.form \in {"none", "ignore", "unknown"} /\ c.word \in Text
           /\ c.annotation \in Text \cup {None} /\ c.ignored \in Seq(Text)
  BY DEF Candidate

(* Candidates with the same parts are the same.                              *)
LEMMA SameCandidate ==
    ASSUME NEW a \in Candidate, NEW b \in Candidate, a.form = b.form, a.word = b.word,
           a.annotation = b.annotation, a.ignored = b.ignored
    PROVE  a = b
  BY DEF Candidate

(* The texts that None is not.                                               *)
LEMMA NoneIs == None \notin Text /\ None \notin Seq(Text) /\ None \notin Seq(Candidate)
  BY LookupAssumption DEF LookupAssumption

(* An annotation is read as a text.                                          *)
LEMMA DecodedTyped ==
    ASSUME NEW a \in Text, a # None, NEW q, q = QuoteIfNeeded(a)
    PROVE  q \in Text /\ NoSlash(q) /\ Decoded(a) = DecodeAnnotation(q)
<1>1. q \in Text /\ NoSlash(q)
  BY QuoteIfNeededIs
<1> QED
  BY <1>1 DEF Decoded

(* A word is written so that it is read.                                     *)
LEMMA WordSaved ==
    ASSUME NEW w \in Text, w # <<>>, NEW t, t = QuoteIfNeeded(w)
    PROVE  /\ t \in Text /\ t # <<>> /\ NoSlash(t)
           /\ ParseCandidateField(t) = Plain(w, None)
           /\ \A q \in Text : ParseCandidateField(Noted(t, q)) = Plain(w, DecodeAnnotation(q))
<1>1. t \in Text /\ t # <<>> /\ NoSlash(t) /\ t = IF NeedsQuoting(w) THEN Quoted(w) ELSE w
  BY QuoteIfNeededIs
<1>2. CASE ~NeedsQuoting(w)
  BY <1>1, <1>2, WordAlone, WordNoted
<1>3. CASE NeedsQuoting(w)
  <2>1. t = Quoted(w)
    BY <1>1, <1>3
  <2>2. t[1] = Opening /\ ParseConcat(t) = w
    BY <2>1, QuotedRead DEF Opening
  <2>3. Count(t).at = Len(t)
    BY <2>1, QuotedCounted
  <2>4. SexpEnd(t) = Len(t) /\ FormEnd(t, SexpEnd(t)) = Len(t)
    BY <1>1, <2>2, <2>3, FormWhole
  <2>5. ParseCandidateField(t) = Form(t, w, None)
    BY <1>1, <2>2, <2>4, FormAlone
  <2>6. \A q \in Text : ParseCandidateField(Noted(t, q)) = Form(t, w, DecodeAnnotation(q))
    BY <1>1, <2>2, <2>4, FormNoted
  <2>7. \A a : Form(t, w, a) = Plain(w, a)
    BY NoneIs DEF Form
  <2> QED
    BY <1>1, <2>5, <2>6, <2>7
<1> QED
  BY <1>2, <1>3

(* So is a directive.                                                       *)
LEMMA DirectiveSaved ==
    ASSUME NEW words \in Seq(Text), NEW t, t = RenderIgnoreDicWord(words)
    PROVE  /\ t \in Text /\ t # <<>> /\ NoSlash(t)
           /\ ParseCandidateField(t) = Directive(words, None)
           /\ \A q \in Text :
              ParseCandidateField(Noted(t, q)) = Directive(words, DecodeAnnotation(q))
<1>1. /\ t \in Text /\ t[1] = Opening /\ WordsOf(t, Ignore) = words /\ ParseConcat(t) = None
  BY RenderedRead DEF Opening
<1>2. Count(t).at = Len(t) /\ Len(t) # 0 /\ NoSlash(t)
  BY RenderedCounted, NoSlashRendered
<1>3. t # <<>>
  BY <1>2
<1>4. SexpEnd(t) = Len(t) /\ FormEnd(t, SexpEnd(t)) = Len(t)
  BY <1>1, <1>2, <1>3, FormWhole
<1>5. ParseCandidateField(t) = Form(t, None, None)
  BY <1>1, <1>3, <1>4, FormAlone
<1>6. \A q \in Text : ParseCandidateField(Noted(t, q)) = Form(t, None, DecodeAnnotation(q))
  BY <1>1, <1>3, <1>4, FormNoted
<1>7. \A a : Form(t, None, a) = Directive(words, a)
  BY <1>1, NoneIs DEF Form, Classified
<1> QED
  BY <1>1, <1>2, <1>3, <1>5, <1>6, <1>7

(* And so is another form.                                                  *)
LEMMA OtherSaved ==
    ASSUME NEW t \in Text, Whole(t)
    PROVE  /\ ParseCandidateField(t) = Classified(t, None, None)
           /\ SexpEnd(t) = Len(t) => \A q \in Text :
                 ParseCandidateField(Noted(t, q)) = Classified(t, None, DecodeAnnotation(q))
<1>1. /\ t # <<>> /\ t[1] = Opening /\ ParseConcat(t) = None /\ WordsOf(t, Ignore) = None
      /\ FormEnd(t, SexpEnd(t)) = Len(t)
  BY DEF Whole
<1>2. ParseCandidateField(t) = Form(t, None, None)
  BY <1>1, FormAlone
<1>3. ASSUME SexpEnd(t) = Len(t), NEW q \in Text
      PROVE  ParseCandidateField(Noted(t, q)) = Form(t, None, DecodeAnnotation(q))
  BY <1>1, <1>3, FormNoted
<1>4. \A a : Form(t, None, a) = Classified(t, None, a)
  BY <1>1 DEF Form
<1> QED
  BY <1>2, <1>3, <1>4

(* What the three kinds of candidates are.                                   *)
LEMMA KindsAre ==
    ASSUME NEW w, NEW a
    PROVE  /\ Plain(w, a) = [form |-> "none", word |-> w, annotation |-> a, ignored |-> <<>>]
           /\ Directive(w, a) = [form |-> "ignore", word |-> <<>>, annotation |-> a, ignored |-> w]
           /\ Classified(w, None, a)
                = [form |-> "unknown", word |-> w, annotation |-> a, ignored |-> <<>>]
  BY DEF Plain, Directive, Classified

(* What is written for a candidate is read as the candidate.                 *)
LEMMA FieldSaved ==
    ASSUME NEW c, Saved(c)
    PROVE  /\ FieldText(c) \in Text /\ FieldText(c) # <<>> /\ NoSlash(FieldText(c))
           /\ ParseCandidateField(FieldText(c)) = Reread(c)
<1>1. PICK w, a, t, f : w = c.word /\ a = c.annotation /\ t = WordText(c) /\ f = FieldText(c)
  OBVIOUS
<1>2. /\ c \in Candidate /\ c.form \in {"none", "ignore", "unknown"} /\ w \in Text
      /\ a \in Text \cup {None} /\ c.ignored \in Seq(Text)
  BY <1>1, CandidateIs DEF Saved
<1>3. /\ t \in Text /\ t # <<>> /\ NoSlash(t)
      /\ a = None => ParseCandidateField(t) = Reread(c)
      /\ a # None => \A q \in Text : DecodeAnnotation(q) = Decoded(a) =>
                        ParseCandidateField(Noted(t, q)) = Reread(c)
  <2>1. PICK d : d = Decoded(a)
    OBVIOUS
  <2>2. a = None => d = None
    BY <2>1 DEF Decoded
  <2>3. Reread(c) = [form |-> c.form, word |-> w, annotation |-> d, ignored |-> c.ignored]
    BY <1>1, <2>1 DEF Reread
  <2>4. CASE c.form = "none"
    <3>1. w # <<>> /\ c.ignored = <<>> /\ t = QuoteIfNeeded(w)
      BY <1>1, <2>4, WordTextIs DEF Saved
    <3>2. /\ t \in Text /\ t # <<>> /\ NoSlash(t)
          /\ ParseCandidateField(t) = Plain(w, None)
          /\ \A q \in Text : ParseCandidateField(Noted(t, q)) = Plain(w, DecodeAnnotation(q))
      BY <1>2, <3>1, WordSaved
    <3>3. Reread(c) = Plain(w, d)
      BY <2>3, <2>4, <3>1, KindsAre
    <3> QED
      BY <2>1, <2>2, <3>2, <3>3
  <2>5. CASE c.form = "ignore"
    <3>1. w = <<>> /\ t = RenderIgnoreDicWord(c.ignored)
      BY <1>1, <2>5, WordTextIs DEF Saved
    <3>2. /\ t \in Text /\ t # <<>> /\ NoSlash(t)
          /\ ParseCandidateField(t) = Directive(c.ignored, None)
          /\ \A q \in Text :
                ParseCandidateField(Noted(t, q)) = Directive(c.ignored, DecodeAnnotation(q))
      BY <1>2, <3>1, DirectiveSaved
    <3>3. Reread(c) = Directive(c.ignored, d)
      BY <2>3, <2>5, <3>1, KindsAre
    <3> QED
      BY <2>1, <2>2, <3>2, <3>3
  <2>6. CASE c.form = "unknown"
    <3>1. /\ Whole(w) /\ c.ignored = <<>> /\ t = w
          /\ a # None => SexpEnd(w) = Len(w)
      BY <1>1, <2>6, WordTextIs DEF Saved
    <3>2. /\ ParseCandidateField(t) = Classified(w, None, None)
          /\ a # None => \A q \in Text :
                ParseCandidateField(Noted(t, q)) = Classified(w, None, DecodeAnnotation(q))
      BY <1>2, <3>1, OtherSaved
    <3>3. Reread(c) = Classified(w, None, d)
      BY <2>3, <2>6, <3>1, KindsAre
    <3>4. t # <<>> /\ NoSlash(t)
      BY <3>1 DEF Whole
    <3> QED
      BY <1>2, <2>1, <2>2, <3>1, <3>2, <3>3, <3>4
  <2> QED
    BY <1>2, <2>4, <2>5, <2>6
<1>4. CASE a = None
  <2>1. f = t
    BY <1>1, <1>4 DEF FieldText
  <2> QED
    BY <1>1, <1>3, <1>4, <2>1
<1>5. CASE a # None
  <2>1. PICK q : q = QuoteIfNeeded(a)
    OBVIOUS
  <2>2. f = Noted(t, q) /\ a \in Text
    BY <1>1, <1>2, <1>5, <2>1 DEF FieldText
  <2>3. q \in Text /\ NoSlash(q) /\ Decoded(a) = DecodeAnnotation(q)
    BY <1>5, <2>1, <2>2, DecodedTyped
  <2>4. f \in Text /\ f # <<>>
    <3>1. f \in Text /\ Len(w) \in Nat /\ Len(t) + 1 \in DOMAIN f
      BY <1>2, <1>3, <2>2, <2>3, NotedIs DEF Text
    <3> QED
      BY <3>1
  <2>5. NoSlash(f)
    <3>1. PICK g : g = <<Semicolon>>
      OBVIOUS
    <3>2. Semicolon \in Glyph /\ Semicolon # "/"
      BY MarksTyped DEF Semicolon
    <3>3. g \in Text /\ NoSlash(g)
      BY <3>1, <3>2, ShortText, NoSlashShort
    <3>4. t \o g \in Text /\ NoSlash(t \o g)
      BY <1>3, <3>3, JoinTyped, NoSlashJoined
    <3>5. NoSlash((t \o g) \o q)
      BY <2>3, <3>4, NoSlashJoined
    <3> QED
      BY <2>2, <3>1, <3>5 DEF Noted
  <2> QED
    BY <1>1, <1>3, <1>5, <2>2, <2>3, <2>4, <2>5
<1> QED
  BY <1>4, <1>5

(* The candidates of a line that can be written.                             *)
AllSaved(cands) == cands \in Seq(Candidate) /\ \A i \in 1 .. Len(cands) : Saved(cands[i])

FieldTexts(cands) == [i \in DOMAIN cands |-> FieldText(cands[i])]
Rereads(cands)    == [i \in DOMAIN cands |-> Reread(cands[i])]

(* A line is the fields of its candidates, joined.                           *)
LEMMA SerializedIs == \A cands : SerializeCandidates(cands) = Join(FieldTexts(cands), "/")
  BY DEF SerializeCandidates, FieldTexts, FieldText, WordText, Noted, Semicolon

(* None of them is empty or has a separator in it.                           *)
LEMMA FieldTextsTyped ==
    ASSUME NEW cands, AllSaved(cands)
    PROVE  /\ FieldTexts(cands) \in Seq(Text) /\ Len(FieldTexts(cands)) = Len(cands)
           /\ DOMAIN FieldTexts(cands) = DOMAIN cands
           /\ \A i \in 1 .. Len(cands) : /\ FieldTexts(cands)[i] = FieldText(cands[i])
                                         /\ "/" \notin ToSet(FieldTexts(cands)[i])
           /\ <<>> \notin ToSet(FieldTexts(cands))
<1>1. PICK N, fs : N = Len(cands) /\ fs = FieldTexts(cands)
  OBVIOUS
<1>2. N \in Nat /\ DOMAIN cands = 1 .. N
  BY <1>1 DEF AllSaved
<1>3. fs = [i \in 1 .. N |-> FieldText(cands[i])]
  BY <1>1, <1>2 DEF FieldTexts
<1>4. \A i \in 1 .. N : fs[i] \in Text /\ fs[i] # <<>> /\ NoSlash(fs[i])
  BY <1>1, <1>3, FieldSaved DEF AllSaved
<1>5. fs \in Seq(Text)
  <2>1. fs = [i \in 1 .. N |-> fs[i]]
    BY <1>3
  <2> QED
    BY ONLY <1>2, <1>4, <2>1, IsSeq
<1>6. Len(fs) = N /\ DOMAIN fs = 1 .. N
  BY <1>2, <1>3, <1>5
<1>7. <<>> \notin ToSet(fs)
  BY <1>4, <1>6 DEF ToSet
<1> QED
  BY <1>1, <1>2, <1>3, <1>4, <1>5, <1>6, <1>7 DEF NoSlash

(* The fields of a line that was written.                                    *)
LEMMA WrittenFields ==
    ASSUME NEW cands, AllSaved(cands)
    PROVE  Without(Fields(SerializeCandidates(cands), "/"), <<>>) = FieldTexts(cands)
<1>1. PICK fs, c : fs = FieldTexts(cands) /\ c = "/"
  OBVIOUS
<1>2. /\ fs \in Seq(Text) /\ Len(fs) = Len(cands) /\ <<>> \notin ToSet(fs)
      /\ \A i \in 1 .. Len(fs) : c \notin ToSet(fs[i])
  BY <1>1, FieldTextsTyped
<1>3. c \in Glyph
  BY <1>1, SyntaxGlyphs
<1>4. Fields(Join(fs, c), c) = IF fs = <<>> THEN <<<<>>>> ELSE fs
  BY <1>2, <1>3, FieldsJoined
<1>5. CASE fs = <<>>
  <2>1. PICK e : e = <<>>
    OBVIOUS
  <2>2. e \in Text /\ <<>> \in Seq(Text)
    BY <2>1, ShortText
  <2>3. Append(<<>>, e) = <<e>>
    BY <2>2
  <2>4. Without(<<>>, e) = <<>>
    BY <2>2, WithoutStep
  <2>5. Without(Append(<<>>, e), e) = Without(<<>>, e)
    <3>1. PICK n : n = <<>>
      OBVIOUS
    <3>2. n \in Seq(Text)
      BY <2>2, <3>1
    <3>3. Without(Append(n, e), e) = IF e = e THEN Without(n, e) ELSE Append(Without(n, e), e)
      BY <2>2, <3>2, WithoutStep
    <3> QED
      BY <3>1, <3>3
  <2>6. Without(<<<<>>>>, <<>>) = <<>>
    BY <2>1, <2>3, <2>4, <2>5
  <2> QED
    BY <1>1, <1>4, <1>5, <2>6, SerializedIs
<1>6. CASE fs # <<>>
  <2>1. Without(fs, <<>>) = fs
    BY <1>2, WithoutNone
  <2> QED
    BY <1>1, <1>4, <1>6, <2>1, SerializedIs
<1> QED
  BY <1>5, <1>6

(* A line that was written is read as its candidates, but for annotations    *)
(* that read as a form.                                                    *)
LEMMA RoundTrip ==
    ASSUME NEW cands, AllSaved(cands)
    PROVE  ParseCandidates(SerializeCandidates(cands)) = Rereads(cands)
<1>1. PICK N, fs, rs : N = Len(cands) /\ fs = FieldTexts(cands) /\ rs = Rereads(cands)
  OBVIOUS
<1>2. N \in Nat /\ DOMAIN cands = 1 .. N /\ DOMAIN fs = 1 .. N
  BY <1>1, FieldTextsTyped DEF AllSaved
<1>3. \A i \in 1 .. N : fs[i] = FieldText(cands[i])
  BY <1>1, FieldTextsTyped
<1>4. \A i \in 1 .. N : ParseCandidateField(fs[i]) = Reread(cands[i])
  BY <1>1, <1>3, FieldSaved DEF AllSaved
<1>5. [i \in DOMAIN fs |-> ParseCandidateField(fs[i])] = rs
  BY <1>1, <1>2, <1>4 DEF Rereads
<1>6. \A i \in DOMAIN rs : rs[i].form = "none" => rs[i].word # <<>>
  <2> SUFFICES ASSUME NEW i \in 1 .. N PROVE rs[i].form = "none" => rs[i].word # <<>>
    BY <1>1, <1>2 DEF Rereads
  <2>1. rs[i] = Reread(cands[i])
    BY <1>1, <1>2 DEF Rereads
  <2>2. rs[i].form = cands[i].form /\ rs[i].word = cands[i].word
    BY <2>1 DEF Reread
  <2>3. Saved(cands[i])
    BY <1>1 DEF AllSaved
  <2> QED
    BY <2>2, <2>3 DEF Saved
<1>7. Valid(rs) = rs
  BY <1>6 DEF Valid
<1>8. ParsedFields(fs) = rs
  BY <1>5, <1>7 DEF ParsedFields
<1> QED
  BY <1>1, <1>8, WrittenFields DEF ParseCandidates

(* An annotation that does not read as a form is read back.                  *)
LEMMA AnnotationBack ==
    ASSUME NEW c, Saved(c), ~ReadAsForm(c)
    PROVE  Reread(c) = c
<1>1. PICK a : a = c.annotation
  OBVIOUS
<1>2. c \in Candidate /\ a \in Text \cup {None}
  BY <1>1, CandidateIs DEF Saved
<1>3. Decoded(a) = a
  <2>1. CASE a = None
    BY <2>1 DEF Decoded
  <2>2. CASE a # None
    <3>1. a \in Text
      BY <1>2, <2>2
    <3>2. PICK q : q = QuoteIfNeeded(a)
      OBVIOUS
    <3>3. Decoded(a) = DecodeAnnotation(q) /\ q = IF NeedsQuoting(a) THEN Quoted(a) ELSE a
      BY <2>2, <3>1, <3>2, QuoteIfNeededIs DEF Decoded
    <3>4. CASE NeedsQuoting(a)
      <4>1. ParseConcat(q) = a
        BY <3>1, <3>3, <3>4, QuotedRead
      <4> QED
        BY <2>2, <3>3, <4>1 DEF DecodeAnnotation, OrElse
    <3>5. CASE ~NeedsQuoting(a)
      <4>1. q = a /\ ParseConcat(a) = None
        BY <1>1, <2>2, <3>3, <3>5 DEF ReadAsForm
      <4> QED
        BY <3>3, <4>1 DEF DecodeAnnotation, OrElse
    <3> QED
      BY <3>4, <3>5
  <2> QED
    BY <2>1, <2>2
<1>4. Reread(c) \in Candidate
  <2>1. PICK r : r = Reread(c)
    OBVIOUS
  <2>2. r = [form |-> c.form, word |-> c.word, annotation |-> a, ignored |-> c.ignored]
    BY <1>1, <1>3, <2>1 DEF Reread
  <2>3. /\ c.form \in {"none", "ignore", "unknown"} /\ c.word \in Text
        /\ a \in Text \cup {None} /\ c.ignored \in Seq(Text)
    BY <1>1, <1>2, CandidateIs
  <2>4. r \in Candidate
    BY <2>2, <2>3 DEF Candidate
  <2> QED
    BY <2>1, <2>4
<1>5. /\ Reread(c).form = c.form /\ Reread(c).word = c.word
      /\ Reread(c).annotation = c.annotation /\ Reread(c).ignored = c.ignored
  BY <1>1, <1>3 DEF Reread
<1> QED
  BY <1>2, <1>4, <1>5, SameCandidate

(* Then the whole line is.                                                  *)
LEMMA LineBack ==
    ASSUME NEW cands, AllSaved(cands), \A i \in DOMAIN cands : ~ReadAsForm(cands[i])
    PROVE  ParseCandidates(SerializeCandidates(cands)) = cands
<1>1. cands \in Seq(Candidate) /\ DOMAIN cands = 1 .. Len(cands) /\ Len(cands) \in Nat
  BY DEF AllSaved
<1>2. \A i \in 1 .. Len(cands) : Reread(cands[i]) = cands[i]
  BY <1>1, AnnotationBack DEF AllSaved
<1>3. cands = [i \in 1 .. Len(cands) |-> cands[i]]
  BY <1>1
<1>4. Rereads(cands) = cands
  BY <1>1, <1>2, <1>3 DEF Rereads
<1> QED
  BY <1>4, RoundTrip

(* Some places have a last one.                                             *)
LEMMA GreatestMember ==
    ASSUME NEW S, NEW N \in Nat, S \subseteq 1 .. N, S # {}
    PROVE  \E k \in S : \A j \in S : k >= j
<1> DEFINE Has(n) == \A T \in SUBSET S :
                        T # {} /\ T \subseteq 1 .. n => \E m \in T : \A j \in T : m >= j
           H == {n \in 0 .. N : Has(n)}
<1>1. 0 \in H
  <2>1. ASSUME NEW T \in SUBSET S, T # {}, T \subseteq 1 .. 0 PROVE FALSE
    <3>1. PICK x : x \in T
      BY <2>1
    <3>2. x \in 1 .. 0
      BY <2>1, <3>1
    <3> QED
      BY ONLY <3>2
  <2>2. Has(0)
    BY <2>1
  <2> QED
    BY <2>2
<1>2. ASSUME NEW n \in 0 .. N - 1, n \in H PROVE n + 1 \in H
  <2>1. SUFFICES ASSUME NEW T \in SUBSET S, T # {}, T \subseteq 1 .. n + 1
                 PROVE  \E m \in T : \A j \in T : m >= j
    <3>1. n + 1 \in 0 .. N
      OBVIOUS
    <3> QED
      BY <3>1
  <2>2. CASE n + 1 \in T
    <3>1. \A j \in T : n + 1 >= j
      BY <2>1
    <3> QED
      BY <2>2, <3>1
  <2>3. CASE n + 1 \notin T
    <3>1. T \subseteq 1 .. n
      BY <2>1, <2>3
    <3> QED
      BY <1>2, <2>1, <3>1
  <2> QED
    BY <2>2, <2>3
<1> HIDE DEF H
<1>3. \A n \in 0 .. N : n \in H
  BY <1>1, <1>2, UpTo
<1>4. Has(N)
  BY <1>3 DEF H
<1> QED
  BY <1>4

(* The last of some places is one of them.                                   *)
LEMMA MaxIsMember ==
    ASSUME NEW S, NEW N \in Nat, S \subseteq 1 .. N, S # {}
    PROVE  Max(S) \in S
<1>1. PICK k \in S : \A j \in S : k >= j
  BY GreatestMember
<1> QED
  BY <1>1, LastPlace

(* Parts of a text are texts.                                               *)
LEMMA SubTyped ==
    ASSUME NEW s \in Text, NEW a \in Nat \ {0}, NEW b \in 0 .. Len(s), NEW t, t = SubSeq(s, a, b)
    PROVE  t \in Text /\ ToSet(t) \subseteq ToSet(s)
<1>1. PICK N : N = Len(s)
  OBVIOUS
<1>2. s \in Seq(Glyph) /\ N \in Nat /\ DOMAIN s = 1 .. N /\ \A i \in 1 .. N : s[i] \in Glyph
  BY <1>1 DEF Text
<1>3. \A i \in a .. b : i \in 1 .. N
  BY <1>1, <1>2
<1>4. t \in Seq(Glyph)
  BY <1>2, <1>3
<1>5. CASE a > b
  <2>1. t = <<>>
    BY <1>2, <1>5
  <2> QED
    BY <1>4, <2>1 DEF Text, ToSet
<1>6. CASE ~(a > b)
  <2>1. t = [i \in 1 .. b - a + 1 |-> s[a + i - 1]]
    BY <1>1, <1>2, <1>6
  <2>2. \A i \in 1 .. b - a + 1 : a + i - 1 \in 1 .. N
    BY <1>1, <1>2, <1>6
  <2>3. \A i \in DOMAIN t : \E j \in DOMAIN s : t[i] = s[j]
    BY <1>2, <2>1, <2>2
  <2> QED
    BY <1>4, <2>3 DEF Text, ToSet
<1> QED
  BY <1>5, <1>6

(* A trimmed text is one.                                                   *)
LEMMA TrimTyped ==
    ASSUME NEW s \in Text
    PROVE  TrimStart(s) \in Text /\ Trim(s) \in Text
<1>1. ASSUME NEW u \in Text PROVE TrimStart(u) \in Text
  <2> DEFINE I == {i \in 1 .. Len(u) : u[i] # Blank}
             k == SelectInSeq(u, LAMBDA c : c # Blank)
  <2>1. k = IF I # {} THEN Min(I) ELSE 0
    BY DEF SelectInSeq
  <2>2. Len(u) \in Nat
    BY DEF Text
  <2>3. I # {} => Min(I) \in I
    <3>1. I \subseteq Nat
      OBVIOUS
    <3> HIDE DEF I
    <3> QED
      BY <3>1, MinIsMember
  <2>4. k \in 0 .. Len(u)
    BY <2>1, <2>2, <2>3
  <2>5. TrimStart(u) = IF k = 0 THEN <<>> ELSE SubSeq(u, (k - 1) + 1, Len(u))
    BY DEF TrimStart, After
  <2> HIDE DEF k, I
  <2>6. CASE k = 0
    BY <2>5, <2>6, ShortText
  <2>7. CASE k # 0
    <3>1. PICK a, b : a = (k - 1) + 1 /\ b = Len(u)
      OBVIOUS
    <3>2. a \in Nat \ {0} /\ b \in 0 .. Len(u)
      BY <2>2, <2>4, <2>7, <3>1
    <3>3. SubSeq(u, a, b) \in Text
      BY <3>2, SubTyped
    <3> QED
      BY <2>5, <2>7, <3>1, <3>3
  <2> QED
    BY <2>6, <2>7
<1>2. Trim(s) \in Text
  <2> DEFINE I == {i \in 1 .. Len(s) : s[i] # Blank}
             k == SelectLastInSeq(s, LAMBDA c : c # Blank)
  <2>1. k = IF I # {} THEN Max(I) ELSE 0
    BY DEF SelectLastInSeq
  <2>2. Len(s) \in Nat /\ I \subseteq 1 .. Len(s)
    BY DEF Text
  <2>3. I # {} => Max(I) \in I
    <3> HIDE DEF I
    <3> QED
      BY <2>2, MaxIsMember
  <2>4. k \in 0 .. Len(s)
    BY <2>1, <2>2, <2>3
  <2>5. Trim(s) = TrimStart(SubSeq(s, 1, k))
    BY DEF Trim
  <2> HIDE DEF k, I
  <2>6. 1 \in Nat \ {0}
    OBVIOUS
  <2>7. SubSeq(s, 1, k) \in Text
    BY <2>4, <2>6, SubTyped
  <2> QED
    BY <1>1, <2>5, <2>7
<1> QED
  BY <1>1, <1>2

(* What follows a head is a text.                                           *)
LEMMA SplitHeadTyped ==
    ASSUME NEW s \in Text, NEW h
    PROVE  SplitHead(s, h) \in Text \cup {None}
<1>1. Trim(s) \in Text
  BY TrimTyped
<1>2. ASSUME NEW t \in Text PROVE Inside(t) \in Text
  <2>1. CASE Len(t) >= 2
    <3>1. PICK a, b : a = 2 /\ b = Len(t) - 1
      OBVIOUS
    <3>2. Len(t) \in Nat
      BY DEF Text
    <3>3. a \in Nat \ {0} /\ b \in 0 .. Len(t)
      BY <2>1, <3>1, <3>2
    <3>4. SubSeq(t, a, b) \in Text
      BY <3>3, SubTyped
    <3>5. Trim(SubSeq(t, a, b)) \in Text
      BY <3>4, TrimTyped
    <3> QED
      BY <3>1, <3>5, ShortText DEF Inside
  <2>2. CASE ~(Len(t) >= 2)
    BY <2>2, ShortText DEF Inside
  <2> QED
    BY <2>1, <2>2
<1>3. ASSUME NEW u \in Text PROVE AfterHead(u, h) \in Text \cup {None}
  <2>1. CASE u # <<>>
    <3>1. PICK a, b : a = 1 + 1 /\ b = Len(u)
      OBVIOUS
    <3>2. a \in Nat \ {0} /\ b \in 0 .. Len(u)
      <4>1. Len(u) \in Nat
        BY DEF Text
      <4> QED
        BY <3>1, <4>1
    <3>3. SubSeq(u, a, b) \in Text
      BY <3>2, SubTyped
    <3>4. TrimStart(After(u, 1)) \in Text
      BY <3>1, <3>3, TrimTyped DEF After
    <3> QED
      BY <3>4 DEF AfterHead
  <2>2. CASE u = <<>>
    BY <2>2 DEF AfterHead
  <2> QED
    BY <2>1, <2>2
<1> QED
  BY <1>1, <1>2, <1>3 DEF SplitHead

(* What an escape stands for is a glyph.                                     *)
LEMMA EscapeTyped ==
    /\ \A code : CharOf(code) \in Glyph
    /\ \A c \in DOMAIN Escape : Escape[c] \in Glyph
<1>1. \A code : CharOf(code) \in {"/", ";", "char"}
  BY Zenon DEF CharOf
<1>2. \A c \in DOMAIN Escape : Escape[c] \in {c, "LF", "TAB", "CR"}
  <2> SUFFICES ASSUME NEW c \in DOMAIN Escape PROVE Escape[c] \in {c, "LF", "TAB", "CR"}
    OBVIOUS
  <2>1. Escape[c] = CASE c = "n" -> "LF" [] c = "t" -> "TAB" [] c = "r" -> "CR" [] OTHER -> c
    BY DEF Escape
  <2> QED
    BY Zenon, <2>1
<1>3. \A c \in DOMAIN Escape : c \in {"\"", "\\", "n", "t", "r"}
  BY DEF Escape
<1>4. ASSUME NEW c \in DOMAIN Escape PROVE Escape[c] \in Glyph
  <2>1. CASE c = "t"
    <3>1. Escape[c] = CASE c = "n" -> "LF" [] c = "t" -> "TAB" [] c = "r" -> "CR" [] OTHER -> c
      BY DEF Escape
    <3>2. Escape[c] = "TAB"
      BY Zenon, <2>1, <3>1
    <3> QED
      BY <3>2, SyntaxGlyphs
  <2>2. CASE c # "t"
    BY <1>2, <1>3, <2>2, SyntaxGlyphs
  <2> QED
    BY <2>1, <2>2
<1> QED
  BY <1>1, <1>4, SyntaxGlyphs

(* Reading a glyph of a text in any state.                                   *)
LEMMA ReadTyped ==
    ASSUME NEW st \in ScanState, NEW c \in Glyph
    PROVE  Read(st, c) \in ScanState
<1>1. PICK i, words, text, code : i = st.in /\ words = st.words /\ text = st.text /\ code = st.code
  OBVIOUS
<1>2. /\ i \in {"list", "text", "escape", "code", "bad"}
      /\ words \in Seq(Text) /\ text \in Text /\ code \in Text
  BY <1>1 DEF ScanState
<1>3. <<>> \in Text /\ <<>> \in Seq(Text)
  BY ShortText
<1>4. \A x \in Glyph : Append(text, x) \in Text
  BY <1>2, ScanOn
<1>5. Append(words, text) \in Seq(Text) /\ Append(code, c) \in Text /\ <<c>> \in Text
  BY <1>2, ScanOn, ShortText
<1>6. /\ \A x \in Text : State("text", words, x, code) \in ScanState
      /\ \A x \in Text : State("text", words, x, <<>>) \in ScanState
      /\ \A x \in Text : State("code", words, text, x) \in ScanState
      /\ State("escape", words, text, code) \in ScanState
      /\ \A x \in Text : State("escape", words, x, <<>>) \in ScanState
      /\ \A x \in Seq(Text) : State("list", x, <<>>, <<>>) \in ScanState
      /\ State("bad", <<>>, <<>>, <<>>) \in ScanState
  BY <1>2, <1>3 DEF State, ScanState
<1>7. Bad = State("bad", <<>>, <<>>, <<>>)
  BY DEF Bad, Outside, State
<1>8. \A x \in Text : \A y \in Text : InText(State("text", words, x, y), c) \in ScanState
  <2> SUFFICES ASSUME NEW x \in Text, NEW y \in Text
               PROVE  InText(State("text", words, x, y), c) \in ScanState
    OBVIOUS
  <2>1. InText(State("text", words, x, y), c) =
          IF c = "\"" THEN State("list", Append(words, x), <<>>, <<>>)
          ELSE IF c = "\\" THEN State("escape", words, x, y)
          ELSE State("text", words, Append(x, c), y)
    <3>1. words \in Seq(Text)
      BY <1>2
    <3> QED
      BY ONLY <3>1, x \in Text, y \in Text, InTextIs
  <2>2. Append(words, x) \in Seq(Text) /\ Append(x, c) \in Text
    BY <1>2, ScanOn
  <2>3. /\ State("list", Append(words, x), <<>>, <<>>) \in ScanState
        /\ State("escape", words, x, y) \in ScanState
        /\ State("text", words, Append(x, c), y) \in ScanState
    BY <1>2, <1>3, <2>2 DEF State, ScanState
  <2> QED
    BY <2>1, <2>3
<1>9. CASE i = "list"
  <2>1. Read(st, c) = IF c = Blank THEN st
                      ELSE IF c = "\"" THEN State("text", words, text, code) ELSE Bad
    BY <1>1, <1>9, ReadIs
  <2> QED
    BY <1>2, <1>6, <1>7, <2>1
<1>10. CASE i = "text"
  <2>1. Read(st, c) = InText(st, c)
    BY <1>1, <1>10, ReadIs
  <2>2. st = State("text", words, text, code)
    BY <1>1, <1>10 DEF ScanState, State
  <2> QED
    BY <1>2, <1>8, <2>1, <2>2
<1>11. CASE i = "escape"
  <2>1. Read(st, c) = IF c \in Octal THEN State("code", words, text, <<c>>)
                      ELSE IF c \in DOMAIN Escape
                        THEN State("text", words, Append(text, Escape[c]), code)
                      ELSE Bad
    BY <1>1, <1>11, ReadIs
  <2>2. c \in DOMAIN Escape => Append(text, Escape[c]) \in Text
    BY <1>4, EscapeTyped
  <2> QED
    BY <1>5, <1>6, <1>7, <2>1, <2>2
<1>12. CASE i = "code"
  <2>1. Read(st, c) = IF c \in Octal /\ TakesMore(code)
                      THEN State("code", words, text, Append(code, c))
                      ELSE InText(CodeRead(st), c)
    BY <1>1, <1>12, ReadIs
  <2>2. st = State("code", words, text, code)
    BY <1>1, <1>12 DEF ScanState, State
  <2>3. CodeRead(st) = State("text", words, Append(text, CharOf(code)), <<>>)
    BY <1>2, <2>2, CodeReadIs
  <2>4. Append(text, CharOf(code)) \in Text
    BY <1>4, EscapeTyped
  <2>5. InText(CodeRead(st), c) \in ScanState
    BY <1>3, <1>8, <2>3, <2>4
  <2> QED
    BY <1>5, <1>6, <2>1, <2>5
<1>13. CASE i = "bad"
  <2>1. Read(st, c) = st
    BY <1>1, <1>13, ReadCases
  <2> QED
    BY <2>1
<1> QED
  BY <1>2, <1>9, <1>10, <1>11, <1>12, <1>13

(* And so the words of a text are texts.                                     *)
LEMMA StringListTyped == \A s \in Text : StringList(s) \in Seq(Text) \cup {None}
<1> DEFINE S == {s \in Text : Scan(s) \in ScanState}
<1>1. <<>> \in S
  <2>1. <<>> \in Text /\ <<>> \in Seq(Text)
    BY ShortText
  <2>2. State("list", <<>>, <<>>, <<>>) \in ScanState
    BY <2>1 DEF State, ScanState
  <2> QED
    BY <2>1, <2>2, ScanNothing
<1>2. ASSUME NEW s \in Text, NEW c \in Glyph, s \in S PROVE Append(s, c) \in S
  BY <1>2, ScanOn, ReadTyped
<1> HIDE DEF S
<1>3. \A s \in Text : s \in S
  BY <1>1, <1>2, Longer DEF Text
<1>4. ASSUME NEW s \in Text PROVE StringList(s) \in Seq(Text) \cup {None}
  <2>1. PICK st : st = Scan(s)
    OBVIOUS
  <2>2. st \in ScanState
    BY <1>3, <2>1 DEF S
  <2>3. st.words \in Seq(Text)
    BY <2>2 DEF ScanState
  <2> QED
    BY <2>1, <2>3, StringListIs DEF Closed
<1> QED
  BY <1>4

(* And so is what they are joined to.                                        *)
LEMMA WordsTyped ==
    ASSUME NEW s \in Text
    PROVE  /\ \A h : WordsOf(s, h) \in Seq(Text) \cup {None}
           /\ ParseConcat(s) \in Text \cup {None} /\ DecodeAnnotation(s) \in Text
<1>1. ASSUME NEW h PROVE WordsOf(s, h) \in Seq(Text) \cup {None}
  BY SplitHeadTyped, StringListTyped DEF WordsOf, WordsIn
<1>2. ParseConcat(s) \in Text \cup {None}
  <2>1. PICK words : words = WordsOf(s, Concat)
    OBVIOUS
  <2>2. words \in Seq(Text) \cup {None}
    BY <1>1, <2>1
  <2>3. words # None => FlattenSeq(words) \in Text
    BY <2>2, FlattenTyped DEF Text
  <2> QED
    BY <2>1, <2>3 DEF ParseConcat, Joined
<1>3. DecodeAnnotation(s) \in Text
  BY <1>2 DEF DecodeAnnotation, OrElse
<1> QED
  BY <1>1, <1>2, <1>3

(* The fields between separators are texts without one.                      *)
LEMMA FieldsTyped ==
    ASSUME NEW c \in Glyph
    PROVE  \A s \in Text : /\ Fields(s, c) \in Seq(Text)
                           /\ \A f \in ToSet(Fields(s, c)) : c \notin ToSet(f)
<1> DEFINE Free(fs) == fs \in Seq(Text) /\ \A i \in 1 .. Len(fs) : c \notin ToSet(fs[i])
           S == {s \in Text : \E fs, t : /\ Free(fs) /\ t \in Text /\ c \notin ToSet(t)
                                         /\ Fields(s, c) = Append(fs, t)}
<1>1. \A fs, t : Free(fs) /\ t \in Text /\ c \notin ToSet(t) => Free(Append(fs, t))
  <2> SUFFICES ASSUME NEW fs, NEW t, Free(fs), t \in Text, c \notin ToSet(t)
               PROVE  Free(Append(fs, t))
    OBVIOUS
  <2>1. /\ Append(fs, t) \in Seq(Text) /\ Len(fs) \in Nat /\ Len(Append(fs, t)) = Len(fs) + 1
        /\ Append(fs, t)[Len(fs) + 1] = t
        /\ \A i \in 1 .. Len(fs) : Append(fs, t)[i] = fs[i]
    BY Appended
  <2>2. ASSUME NEW i \in 1 .. Len(Append(fs, t)) PROVE c \notin ToSet(Append(fs, t)[i])
    <3>1. CASE i = Len(fs) + 1
      BY <2>1, <3>1
    <3>2. CASE i # Len(fs) + 1
      <4>1. i \in 1 .. Len(fs)
        BY <2>1, <3>2
      <4> QED
        BY <2>1, <4>1
    <3> QED
      BY <3>1, <3>2
  <2> QED
    BY <2>1, <2>2
<1>2. <<>> \in S
  <2>1. PICK n : n = <<>>
    OBVIOUS
  <2>2. n \in Text /\ n \in Seq(Text) /\ Len(n) = 0
    BY <2>1, ShortText
  <2>3. Free(n) /\ c \notin ToSet(n)
    BY <2>1, <2>2 DEF ToSet
  <2>4. Fields(n, c) = Append(n, n)
    <3>1. Fields(<<>>, c) = <<<<>>>>
      BY FieldsStep
    <3>2. Append(<<>>, n) = <<n>>
      BY <2>2
    <3> QED
      BY <2>1, <3>1, <3>2
  <2> HIDE DEF Free
  <2> QED
    BY <2>1, <2>2, <2>3, <2>4
<1>3. ASSUME NEW s \in Text, NEW x \in Glyph, s \in S PROVE Append(s, x) \in S
  <2>1. PICK fs, t : /\ Free(fs) /\ t \in Text /\ c \notin ToSet(t)
                     /\ Fields(s, c) = Append(fs, t)
    BY <1>3
  <2>2. Append(s, x) \in Text /\ Append(t, x) \in Text /\ <<>> \in Text
    BY <2>1, ScanOn, ShortText
  <2>3. Fields(Append(s, x), c) = Extended(Append(fs, t), x, c)
    BY <2>1, FieldsStep
  <2>4. fs \in Seq(Text) /\ Append(fs, t) \in Seq(Text)
    BY <2>1
  <2>5. CASE x = c
    <3>1. Extended(Append(fs, t), x, c) = Append(Append(fs, t), <<>>)
      BY <2>5 DEF Extended
    <3>2. Free(Append(fs, t))
      BY <1>1, <2>1
    <3>3. c \notin ToSet(<<>>)
      BY DEF ToSet
    <3> HIDE DEF Free
    <3> QED
      BY <2>2, <2>3, <3>1, <3>2, <3>3
  <2>6. CASE x # c
    <3>1. Extended(Append(fs, t), x, c) = Append(fs, Append(t, x))
      BY <2>1, <2>4, <2>6, ExtendedIs
    <3>2. c \notin ToSet(Append(t, x))
      <4>1. t \in Seq(Glyph)
        BY <2>1 DEF Text
      <4>2. /\ Append(t, x) \in Seq(Glyph) /\ Len(t) \in Nat
            /\ Len(Append(t, x)) = Len(t) + 1 /\ Append(t, x)[Len(t) + 1] = x
            /\ \A i \in 1 .. Len(t) : Append(t, x)[i] = t[i]
        BY <4>1, Appended
      <4> QED
        BY <2>1, <2>6, <4>1, <4>2 DEF ToSet
    <3> HIDE DEF Free
    <3> QED
      BY <2>1, <2>2, <2>3, <3>1, <3>2
  <2> QED
    BY <2>5, <2>6
<1> HIDE DEF S
<1>4. \A s \in Text : s \in S
  BY <1>2, <1>3, Longer DEF Text
<1>5. ASSUME NEW s \in Text
      PROVE  /\ Fields(s, c) \in Seq(Text)
             /\ \A f \in ToSet(Fields(s, c)) : c \notin ToSet(f)
  <2>1. PICK fs, t : /\ Free(fs) /\ t \in Text /\ c \notin ToSet(t)
                     /\ Fields(s, c) = Append(fs, t)
    BY <1>4 DEF S
  <2>2. Free(Fields(s, c))
    BY <1>1, <2>1
  <2> QED
    BY <2>2 DEF ToSet
<1> QED
  BY <1>5

(* A candidate put together from its parts.                                  *)
LEMMA CandidateMade ==
    ASSUME NEW f \in {"none", "ignore", "unknown"}, NEW w \in Text, NEW a \in Text \cup {None},
           NEW g \in Seq(Text),
           NEW c, c = [form |-> f, word |-> w, annotation |-> a, ignored |-> g]
    PROVE  /\ c \in Candidate /\ c.form = f /\ c.word = w /\ c.annotation = a /\ c.ignored = g
  BY DEF Candidate

(* A word that is not empty can be saved.                                    *)
LEMMA PlainSaved ==
    ASSUME NEW w \in Text, NEW a \in Text \cup {None}, NEW c, c = Plain(w, a)
    PROVE  c \in Candidate /\ c.form = "none" /\ c.word = w /\ c.annotation = a
           /\ (w # <<>> => Saved(c))
<1>1. PICK f, g : f = "none" /\ g = <<>>
  OBVIOUS
<1>2. f \in {"none", "ignore", "unknown"} /\ g \in Seq(Text)
  BY <1>1
<1>3. c = [form |-> f, word |-> w, annotation |-> a, ignored |-> g]
  BY <1>1, KindsAre
<1>4. c \in Candidate /\ c.form = f /\ c.word = w /\ c.annotation = a /\ c.ignored = g
  BY <1>2, <1>3, CandidateMade
<1> QED
  BY <1>1, <1>4 DEF Saved

(* A directive can.                                                         *)
LEMMA DirectiveIsSaved ==
    ASSUME NEW words \in Seq(Text), NEW a \in Text \cup {None}, NEW c, c = Directive(words, a)
    PROVE  Saved(c)
<1>1. PICK f, w : f = "ignore" /\ w = <<>>
  OBVIOUS
<1>2. f \in {"none", "ignore", "unknown"} /\ w \in Text
  BY <1>1, ShortText
<1>3. c = [form |-> f, word |-> w, annotation |-> a, ignored |-> words]
  BY <1>1, KindsAre
<1>4. c \in Candidate /\ c.form = f /\ c.word = w /\ c.annotation = a /\ c.ignored = words
  BY <1>2, <1>3, CandidateMade
<1> QED
  BY <1>1, <1>4 DEF Saved

(* So can any other form that is a whole field.                              *)
LEMMA OtherIsSaved ==
    ASSUME NEW w \in Text, Whole(w), NEW a \in Text \cup {None},
           a # None => SexpEnd(w) = Len(w), NEW c, c = Classified(w, None, a)
    PROVE  Saved(c)
<1>1. PICK f, g : f = "unknown" /\ g = <<>>
  OBVIOUS
<1>2. f \in {"none", "ignore", "unknown"} /\ g \in Seq(Text)
  BY <1>1
<1>3. c = [form |-> f, word |-> w, annotation |-> a, ignored |-> g]
  BY <1>1, KindsAre
<1>4. c \in Candidate /\ c.form = f /\ c.word = w /\ c.annotation = a /\ c.ignored = g
  BY ONLY <1>2, <1>3, w \in Text, a \in Text \cup {None}, CandidateMade
<1> QED
  BY <1>1, <1>4 DEF Saved

(* A word that has been read, unless it is empty.                            *)
AsRead(c) == c \in Candidate /\ (Saved(c) \/ (c.form = "none" /\ c.word = <<>>))

(* What a form is read as.                                                  *)
LEMMA FormRead ==
    ASSUME NEW w \in Text, w # <<>>, w[1] = Opening, NoSlash(w),
           FormEnd(w, SexpEnd(w)) = Len(w), NEW a \in Text \cup {None},
           a # None => SexpEnd(w) = Len(w)
    PROVE  AsRead(Form(w, ParseConcat(w), a))
<1>1. ParseConcat(w) \in Text \cup {None} /\ WordsOf(w, Ignore) \in Seq(Text) \cup {None}
  BY WordsTyped
<1>2. CASE ParseConcat(w) # None
  <2>1. ParseConcat(w) \in Text
    BY <1>1, <1>2
  <2>2. Form(w, ParseConcat(w), a) = Plain(ParseConcat(w), a)
    BY <1>2 DEF Form
  <2> QED
    BY <2>1, <2>2, PlainSaved DEF AsRead
<1>3. CASE ParseConcat(w) = None /\ WordsOf(w, Ignore) # None
  <2>1. PICK words : words = WordsOf(w, Ignore)
    OBVIOUS
  <2>2. words \in Seq(Text)
    BY <1>1, <1>3, <2>1
  <2>3. Form(w, ParseConcat(w), a) = Directive(words, a)
    BY <1>3, <2>1 DEF Form, Classified
  <2>4. Saved(Directive(words, a))
    BY <2>2, DirectiveIsSaved
  <2> QED
    BY <2>3, <2>4 DEF AsRead, Saved
<1>4. CASE ParseConcat(w) = None /\ WordsOf(w, Ignore) = None
  <2>1. Whole(w)
    BY <1>4 DEF Whole
  <2>2. Form(w, ParseConcat(w), a) = Classified(w, None, a)
    BY <1>4 DEF Form
  <2>3. Saved(Classified(w, None, a))
    BY <2>1, OtherIsSaved
  <2> QED
    BY <2>2, <2>3 DEF AsRead, Saved
<1> QED
  BY <1>2, <1>3, <1>4

(* What a field is read as.                                                 *)
LEMMA FieldRead ==
    ASSUME NEW f \in Text, f # <<>>, NoSlash(f)
    PROVE  AsRead(ParseCandidateField(f))
<1>1. PICK N : N = Len(f)
  OBVIOUS
<1>2. N \in Nat /\ DOMAIN f = 1 .. N /\ 1 \in 1 .. N
  BY <1>1, NotEmpty DEF Text
<1>3. ASSUME NEW k \in 1 .. N
      PROVE  /\ Before(f, k) \in Text /\ NoSlash(Before(f, k))
             /\ After(f, k) \in Text /\ DecodeAnnotation(After(f, k)) \in Text
  <2>1. PICK a, b, c, d : a = 1 /\ b = k - 1 /\ c = k + 1 /\ d = N
    OBVIOUS
  <2>2. a \in Nat \ {0} /\ b \in 0 .. N /\ c \in Nat \ {0} /\ d \in 0 .. N
    BY <1>2, <2>1
  <2>3. SubSeq(f, a, b) \in Text /\ ToSet(SubSeq(f, a, b)) \subseteq ToSet(f)
    BY <1>1, <2>2, SubTyped
  <2>4. SubSeq(f, c, d) \in Text
    BY <1>1, <2>2, SubTyped
  <2>5. Before(f, k) \in Text /\ NoSlash(Before(f, k))
    BY <2>1, <2>3 DEF Before, NoSlash
  <2>6. After(f, k) \in Text
    BY <1>1, <2>1, <2>4 DEF After
  <2> QED
    BY <2>5, <2>6, WordsTyped
<1>4. CASE f[1] # Opening
  <2>1. PICK k : k = Semi(f)
    OBVIOUS
  <2>2. ParseCandidateField(f) = SplitAt(f, k)
    BY <1>4, <2>1, FieldParsed
  <2>3. \A w, a : WordAndAnnotation(f, w, a) = Plain(w, a)
    BY <1>4 DEF WordAndAnnotation, Opening
  <2>4. CASE k \in DOMAIN f
    <3>1. SplitAt(f, k) = Plain(Before(f, k), DecodeAnnotation(After(f, k)))
      BY <2>3, <2>4 DEF SplitAt
    <3>2. Before(f, k) \in Text /\ DecodeAnnotation(After(f, k)) \in Text \cup {None}
      BY <1>2, <1>3, <2>4
    <3> QED
      BY <2>2, <3>1, <3>2, PlainSaved DEF AsRead
  <2>5. CASE k \notin DOMAIN f
    <3>1. SplitAt(f, k) = Plain(f, None)
      BY <2>3, <2>5 DEF SplitAt
    <3>2. None \in Text \cup {None}
      OBVIOUS
    <3> QED
      BY <2>2, <3>1, <3>2, PlainSaved DEF AsRead
  <2> QED
    BY <2>4, <2>5
<1>5. CASE f[1] = Opening
  <2>1. PICK s, e : s = SexpEnd(f) /\ e = FormEnd(f, s)
    OBVIOUS
  <2>2. ParseCandidateField(f) = SplitAt(f, e + 1)
    BY <1>5, <2>1, FieldParsed
  <2>3. \A w, a : WordAndAnnotation(f, w, a) = Form(w, ParseConcat(w), a)
    BY <1>5 DEF WordAndAnnotation, Opening
  <2>4. s = Count(f).at /\ (s # 0 => s \in 1 .. N /\ Count(SubSeq(f, 1, s)).at = s)
    BY <1>1, <1>5, <2>1, SexpEndIs, CountTyped DEF Opening
  <2>5. e = N \/ (e = s /\ s # 0)
    BY <1>1, <2>1 DEF FormEnd
  <2>6. CASE e + 1 \in DOMAIN f
    <3>1. e = s /\ s # 0 /\ e \in 1 .. N /\ e + 1 \in 1 .. N
      BY <1>2, <2>4, <2>5, <2>6
    <3>2. PICK w, a : w = SubSeq(f, 1, e) /\ a = DecodeAnnotation(After(f, e + 1))
      OBVIOUS
    <3>3. Before(f, e + 1) = w
      <4>1. (e + 1) - 1 = e
        BY <1>2, <3>1
      <4> QED
        BY <3>2, <4>1 DEF Before
    <3>4. w \in Text /\ NoSlash(w) /\ a \in Text
      BY <1>3, <3>1, <3>2, <3>3
    <3>5. Len(w) = e /\ w[1] = f[1] /\ w # <<>>
      <4>1. f \in Seq(Glyph)
        BY DEF Text
      <4>2. w = [i \in 1 .. e |-> f[i]]
        BY <1>1, <1>2, <3>1, <3>2, <4>1
      <4>3. w \in Seq(Glyph)
        BY <3>4 DEF Text
      <4> QED
        BY <1>2, <3>1, <4>2, <4>3
    <3>6. SplitAt(f, e + 1) = Form(w, ParseConcat(w), a)
      BY <2>3, <2>6, <3>2, <3>3 DEF SplitAt
    <3>7. Count(w).at = Len(w)
      BY <2>4, <3>1, <3>2, <3>5
    <3>8. SexpEnd(w) = Len(w) /\ FormEnd(w, SexpEnd(w)) = Len(w)
      BY <1>5, <3>4, <3>5, <3>7, FormWhole
    <3> QED
      BY <1>5, <2>2, <3>4, <3>5, <3>6, <3>8, FormRead
  <2>7. CASE e + 1 \notin DOMAIN f
    <3>1. e = N
      <4>1. CASE e = s /\ s # 0
        <5>1. e \in 1 .. N
          BY <2>4, <4>1
        <5> QED
          BY <1>2, <2>7, <5>1
      <4> QED
        BY <2>5, <4>1
    <3>2. SplitAt(f, e + 1) = Form(f, ParseConcat(f), None)
      BY <2>3, <2>7 DEF SplitAt
    <3>3. None \in Text \cup {None}
      OBVIOUS
    <3> QED
      BY <1>1, <1>5, <2>1, <2>2, <3>1, <3>2, <3>3, FormRead
  <2> QED
    BY <2>6, <2>7
<1> QED
  BY <1>4, <1>5

(* A line that can be read has only candidates that can be saved.            *)
LEMMA LineRead ==
    ASSUME NEW text \in Text, ParseCandidates(text) # None
    PROVE  AllSaved(ParseCandidates(text))
<1>1. PICK c, all, fs : c = "/" /\ all = Fields(text, c) /\ fs = Without(all, <<>>)
  OBVIOUS
<1>2. c \in Glyph
  BY <1>1, SyntaxGlyphs
<1>3. all \in Seq(Text) /\ \A f \in ToSet(all) : c \notin ToSet(f)
  BY <1>1, <1>2, FieldsTyped
<1>4. fs \in Seq(Text) /\ ToSet(fs) = ToSet(all) \ {<<>>}
  BY <1>1, <1>3, WithoutTyped
<1>5. PICK N : N = Len(fs)
  OBVIOUS
<1>6. N \in Nat /\ DOMAIN fs = 1 .. N
  BY <1>4, <1>5
<1>7. \A i \in 1 .. N : fs[i] \in Text /\ fs[i] # <<>> /\ NoSlash(fs[i])
  <2>1. \A i \in 1 .. N : fs[i] \in ToSet(fs)
    BY <1>6 DEF ToSet
  <2> QED
    BY <1>1, <1>3, <1>4, <1>6, <2>1 DEF NoSlash
<1>8. PICK ps : ps = [i \in DOMAIN fs |-> ParseCandidateField(fs[i])]
  OBVIOUS
<1>9. ps = [i \in 1 .. N |-> ps[i]] /\ \A i \in 1 .. N : ps[i] = ParseCandidateField(fs[i])
  BY <1>6, <1>8
<1>10. \A i \in 1 .. N : AsRead(ps[i])
  BY <1>7, <1>9, FieldRead
<1>11. ParseCandidates(text) = Valid(ps)
  BY <1>1, <1>8 DEF ParseCandidates, ParsedFields
<1>12. /\ Valid(ps) = ps
       /\ \A i \in DOMAIN ps : ~(ps[i].form = "none" /\ ps[i].word = <<>>)
  BY <1>11 DEF Valid
<1>13. DOMAIN ps = 1 .. N
  BY <1>9
<1>14. \A i \in 1 .. N : Saved(ps[i]) /\ ps[i] \in Candidate
  BY <1>10, <1>12, <1>13 DEF AsRead
<1>15. ps \in Seq(Candidate)
  BY ONLY <1>6, <1>9, <1>14, IsSeq
<1>16. Len(ps) = N
  BY <1>6, <1>13, <1>15
<1> QED
  BY <1>11, <1>12, <1>14, <1>15, <1>16 DEF AllSaved

(* A directive without one of its words.                                     *)
Unhiding(c, w) == [c EXCEPT !.ignored = Without(@, w)]

(* It is one.                                                               *)
LEMMA UnhidingSaved ==
    ASSUME NEW c, Saved(c), NEW w
    PROVE  /\ Saved(Unhiding(c, w)) /\ Unhiding(c, w) \in Candidate
           /\ Unhiding(c, w).form = c.form /\ Unhiding(c, w).word = c.word
<1>1. PICK g, u : g = Without(c.ignored, w) /\ u = Unhiding(c, w)
  OBVIOUS
<1>2. c \in Candidate /\ c.ignored \in Seq(Text)
  BY CandidateIs DEF Saved
<1>3. g \in Seq(Text) /\ (c.ignored = <<>> => g = <<>>)
  BY <1>1, <1>2, WithoutTyped
<1>4. u = [c EXCEPT !.ignored = g]
  BY <1>1 DEF Unhiding
<1>5. /\ u \in Candidate /\ u.form = c.form /\ u.word = c.word
      /\ u.annotation = c.annotation /\ u.ignored = g
  BY <1>2, <1>3, <1>4 DEF Candidate
<1> QED
  BY <1>1, <1>3, <1>5 DEF Saved

(* What learning a word leaves of the others.                                *)
Others(cands, w)   == Among(cands, {c \in ToSet(cands) : c.word # w})
Unhidden(cands, w) == [i \in DOMAIN cands |-> Unhiding(cands[i], w)]
Useful(cands)      == Among(cands, {c \in ToSet(cands) : c.form = "ignore" => c.ignored # <<>>})

(* Learned puts the word before them.                                        *)
LEMMA LearnedIs ==
    \A cands, new :
        Learned(cands, new) = <<new>> \o Useful(Unhidden(Others(cands, new.word), new.word))
  BY DEF Learned, Useful, Unhidden, Others, Unhiding

(* Members kept of candidates that can be saved can be.                      *)
LEMMA KeptSaved ==
    ASSUME NEW cands, AllSaved(cands), NEW set
    PROVE  AllSaved(Among(cands, set))
<1>1. PICK a : a = Among(cands, set)
  OBVIOUS
<1>2. cands \in Seq(Candidate) /\ \A c \in ToSet(cands) : Saved(c)
  BY DEF AllSaved, ToSet
<1>3. a \in Seq(Candidate) /\ ToSet(a) \subseteq ToSet(cands)
  BY <1>1, <1>2, AmongPlaces, AmongMembers
<1>4. \A i \in 1 .. Len(a) : a[i] \in ToSet(a)
  BY <1>3 DEF ToSet
<1> QED
  BY <1>1, <1>2, <1>3, <1>4 DEF AllSaved

(* What is learned can be saved, and comes first.                            *)
LEMMA LearnedSaved ==
    ASSUME NEW cands, AllSaved(cands), NEW new, Saved(new)
    PROVE  /\ AllSaved(Learned(cands, new))
           /\ Len(Learned(cands, new)) >= 1 /\ Learned(cands, new)[1] = new
<1>1. PICK others, un, useful, w : /\ w = new.word /\ others = Others(cands, w)
                                   /\ un = Unhidden(others, w) /\ useful = Useful(un)
  OBVIOUS
<1>2. AllSaved(others)
  BY <1>1, KeptSaved DEF Others
<1>3. PICK N : N = Len(others)
  OBVIOUS
<1>4. N \in Nat /\ DOMAIN others = 1 .. N /\ \A i \in 1 .. N : Saved(others[i])
  BY <1>2, <1>3 DEF AllSaved
<1>5. un = [i \in 1 .. N |-> un[i]] /\ \A i \in 1 .. N : un[i] = Unhiding(others[i], w)
  BY <1>1, <1>4 DEF Unhidden
<1>6. \A i \in 1 .. N : un[i] \in Candidate /\ Saved(un[i])
  BY <1>4, <1>5, UnhidingSaved
<1>7. un \in Seq(Candidate)
  BY ONLY <1>4, <1>5, <1>6, IsSeq
<1>8. Len(un) = N
  BY <1>4, <1>5, <1>7
<1>9. AllSaved(un)
  BY <1>6, <1>7, <1>8 DEF AllSaved
<1>10. AllSaved(useful)
  BY <1>1, <1>9, KeptSaved DEF Useful
<1>11. PICK all, n : all = <<new>> \o useful /\ n = Len(useful)
  OBVIOUS
<1>12. useful \in Seq(Candidate) /\ n \in Nat /\ \A i \in 1 .. n : Saved(useful[i])
  BY <1>10, <1>11 DEF AllSaved
<1>13. new \in Candidate
  BY DEF Saved
<1>14. /\ all \in Seq(Candidate) /\ Len(all) = n + 1 /\ all[1] = new
       /\ \A i \in 1 .. n : all[i + 1] = useful[i]
  BY <1>11, <1>12, <1>13, HeadTail
<1>15. \A i \in 1 .. Len(all) : Saved(all[i])
  <2> SUFFICES ASSUME NEW i \in 1 .. Len(all) PROVE Saved(all[i])
    OBVIOUS
  <2>1. CASE i = 1
    BY <1>14, <2>1
  <2>2. CASE i # 1
    <3>1. i - 1 \in 1 .. n /\ (i - 1) + 1 = i
      BY <1>12, <1>14, <2>2
    <3> QED
      BY <1>12, <1>14, <3>1
  <2> QED
    BY <2>1, <2>2
<1>16. Learned(cands, new) = all
  BY <1>1, <1>11, LearnedIs
<1>17. n + 1 >= 1
  BY <1>12
<1> QED
  BY <1>14, <1>15, <1>16, <1>17 DEF AllSaved

(* What is written for it is a text.                                         *)
LEMMA SerializedTyped ==
    ASSUME NEW cands, AllSaved(cands)
    PROVE  SerializeCandidates(cands) \in Text
<1>1. PICK fs, c : fs = FieldTexts(cands) /\ c = "/"
  OBVIOUS
<1>2. fs \in Seq(Text) /\ c \in Glyph
  BY <1>1, FieldTextsTyped, SyntaxGlyphs
<1>3. Join(fs, c) \in Text
  BY <1>2, JoinStep
<1> QED
  BY <1>1, <1>3, SerializedIs

(* A word that is registered can be saved.                                   *)
LEMMA RegisteredSaved ==
    ASSUME NEW text \in Text, text # <<>>
    PROVE  Saved(Registered(text)) /\ Registered(text).form = "none"
<1> DEFINE I == {i \in 1 .. Len(text) : text[i] = Semicolon}
           k == SelectLastInSeq(text, LAMBDA c : c = ";")
<1>1. k = IF I # {} THEN Max(I) ELSE 0
  BY DEF SelectLastInSeq, Semicolon
<1>2. Len(text) \in Nat /\ I \subseteq 1 .. Len(text)
  BY DEF Text
<1>3. I # {} => Max(I) \in I
  <2> HIDE DEF I
  <2> QED
    BY <1>2, MaxIsMember
<1> HIDE DEF k, I
<1>4. k \in 0 .. Len(text)
  <2>1. PICK m : m = Max(I)
    OBVIOUS
  <2>2. I # {} => m \in 1 .. Len(text)
    BY <1>2, <1>3, <2>1
  <2>3. k = IF I # {} THEN m ELSE 0
    BY <1>1, <2>1
  <2>4. 0 \in 0 .. Len(text) /\ \A j \in 1 .. Len(text) : j \in 0 .. Len(text)
    BY <1>2
  <2> QED
    BY <2>2, <2>3, <2>4
<1>5. Registered(text) =
        IF k <= 1 THEN Plain(text, None)
        ELSE Plain(Before(text, k), IF k = Len(text) THEN None ELSE After(text, k))
  BY DEF Registered, k
<1>6. CASE k <= 1
  <2>1. None \in Text \cup {None}
    OBVIOUS
  <2> QED
    BY <1>5, <1>6, <2>1, PlainSaved
<1>7. CASE ~(k <= 1)
  <2>1. PICK a, b, c, d, w, n : /\ a = 1 /\ b = k - 1 /\ c = k + 1 /\ d = Len(text)
                                /\ w = Before(text, k)
                                /\ n = IF k = Len(text) THEN None ELSE After(text, k)
    OBVIOUS
  <2>2. a \in Nat \ {0} /\ b \in 0 .. Len(text) /\ c \in Nat \ {0} /\ d \in 0 .. Len(text) /\ 1 <= b
    BY <1>2, <1>4, <1>7, <2>1
  <2>3. SubSeq(text, a, b) \in Text /\ SubSeq(text, c, d) \in Text
    BY <2>2, SubTyped
  <2>4. w \in Text /\ n \in Text \cup {None}
    BY <2>1, <2>3 DEF Before, After
  <2>5. w # <<>>
    <3>1. text \in Seq(Glyph)
      BY DEF Text
    <3>2. w = [i \in 1 .. b |-> text[i]]
      BY <1>2, <2>1, <2>2, <3>1 DEF Before
    <3>3. 1 \in DOMAIN w
      BY <1>2, <2>2, <3>2
    <3> QED
      BY <3>3
  <2> QED
    BY <1>5, <1>7, <2>1, <2>4, <2>5, PlainSaved
<1> QED
  BY <1>6, <1>7

(* A sequence of whatever its members are.                                   *)
IsList(s) == s \in Seq(ToSet(s))

(* It has a length, and its members are those at its places.                *)
LEMMA ListIs ==
    ASSUME NEW T, NEW s \in Seq(T)
    PROVE  /\ Len(s) \in Nat /\ DOMAIN s = 1 .. Len(s) /\ s = [i \in 1 .. Len(s) |-> s[i]]
           /\ \A i \in 1 .. Len(s) : s[i] \in T /\ s[i] \in ToSet(s)
           /\ \A x \in ToSet(s) : x \in T /\ \E i \in 1 .. Len(s) : s[i] = x
  BY DEF ToSet

(* A function from the first numbers is a list.                              *)
LEMMA ListMade ==
    ASSUME NEW N \in Nat, NEW s, s = [i \in 1 .. N |-> s[i]]
    PROVE  IsList(s) /\ Len(s) = N /\ DOMAIN s = 1 .. N
<1>1. DOMAIN s = 1 .. N
  OBVIOUS
<1>2. \A i \in 1 .. N : s[i] \in ToSet(s)
  BY <1>1 DEF ToSet
<1>3. s \in Seq(ToSet(s))
  BY <1>2, IsSeq
<1> QED
  BY <1>1, <1>3 DEF IsList

(* A sequence is a list.                                                     *)
LEMMA SeqIsList == ASSUME NEW T, NEW s \in Seq(T) PROVE IsList(s)
  BY ListIs, ListMade

(* Every list is a sequence over any set its members are in.                  *)
LEMMA ListTyped ==
    ASSUME NEW T, NEW s, IsList(s), \A i \in 1 .. Len(s) : s[i] \in T
    PROVE  s \in Seq(T)
<1>1. Len(s) \in Nat /\ s = [i \in 1 .. Len(s) |-> s[i]]
  BY ListIs DEF IsList
<1> QED
  BY <1>1, IsSeq

(* Where the members of a flattened list come from: f names the part.         *)
Origin(f, all, parts) ==
    /\ f \in [1 .. Len(all) -> 1 .. Len(parts)]
    /\ \A k, l \in 1 .. Len(all) : k <= l => f[k] <= f[l]
    /\ \A k \in 1 .. Len(all) : all[k] \in ToSet(parts[f[k]])
    /\ \A i \in 1 .. Len(parts) : \A x \in ToSet(parts[i]) :
          \E k \in 1 .. Len(all) : f[k] = i /\ all[k] = x

(* The parts follow each other.                                             *)
LEMMA FlattenOrigin ==
    ASSUME NEW T, NEW parts \in Seq(Seq(T))
    PROVE  FlattenSeq(parts) \in Seq(T) /\ \E f : Origin(f, FlattenSeq(parts), parts)
<1> DEFINE S == {p \in Seq(Seq(T)) : \E f : Origin(f, FlattenSeq(p), p)}
<1>1. <<>> \in S
  <2> DEFINE f == [i \in 1 .. 0 |-> 1]
  <2>1. FlattenSeq(<<>>) = <<>> /\ <<>> \in Seq(Seq(T))
    BY FlattenStep
  <2>2. Origin(f, <<>>, <<>>)
    BY DEF Origin
  <2> QED
    BY <2>1, <2>2
<1>2. ASSUME NEW p \in Seq(Seq(T)), NEW s \in Seq(T), p \in S PROVE Append(p, s) \in S
  <2>1. PICK a, b, q, n, m, c : /\ a = FlattenSeq(p) /\ q = Append(p, s) /\ b = FlattenSeq(q)
                                /\ n = Len(a) /\ m = Len(s) /\ c = Len(p)
    OBVIOUS
  <2>2. a \in Seq(T) /\ b = a \o s
    BY <2>1, FlattenTyped, FlattenStep
  <2>3. PICK f : Origin(f, a, p)
    BY <1>2, <2>1
  <2>4. n \in Nat /\ m \in Nat /\ c \in Nat
    BY <2>1, <2>2
  <2>5. /\ b \in Seq(T) /\ Len(b) = n + m /\ \A k \in 1 .. n : b[k] = a[k]
        /\ \A k \in 1 .. m : b[n + k] = s[k]
    BY <2>1, <2>2, <2>4
  <2>6. q \in Seq(Seq(T)) /\ Len(q) = c + 1 /\ q[c + 1] = s /\ \A i \in 1 .. c : q[i] = p[i]
    BY <2>1, <2>4
  <2> DEFINE g == [k \in 1 .. n + m |-> IF k \in 1 .. n THEN f[k] ELSE c + 1]
  <2>7. /\ \A k \in 1 .. n : f[k] \in 1 .. c
        /\ \A k, l \in 1 .. n : k <= l => f[k] <= f[l]
        /\ \A k \in 1 .. n : a[k] \in ToSet(p[f[k]])
        /\ \A i \in 1 .. c : \A x \in ToSet(p[i]) : \E k \in 1 .. n : f[k] = i /\ a[k] = x
    BY <2>1, <2>3 DEF Origin
  <2>8. /\ g = [k \in 1 .. n + m |-> g[k]] /\ \A k \in 1 .. n : k \in 1 .. n + m /\ g[k] = f[k]
        /\ \A k \in 1 .. n + m : k \notin 1 .. n => g[k] = c + 1
    BY <2>4
  <2> HIDE DEF g
  <2>9. \A k \in 1 .. m : n + k \in 1 .. n + m /\ n + k \notin 1 .. n /\ g[n + k] = c + 1
    <3>1. \A k \in 1 .. m : n + k \in 1 .. n + m /\ n + k \notin 1 .. n
      BY <2>4
    <3> QED
      BY <2>8, <3>1
  <2>10. ASSUME NEW k \in 1 .. n + m PROVE g[k] \in 1 .. c + 1
    <3>1. CASE k \in 1 .. n
      <4>1. g[k] \in 1 .. c
        BY <2>7, <2>8, <3>1
      <4> QED
        BY <2>4, <4>1
    <3>2. CASE k \notin 1 .. n
      <4>1. g[k] = c + 1
        BY <2>8, <3>2
      <4> QED
        BY <2>4, <4>1
    <3> QED
      BY <3>1, <3>2
  <2>11. ASSUME NEW k \in 1 .. n + m, NEW l \in 1 .. n + m, k <= l PROVE g[k] <= g[l]
    <3>1. CASE l \in 1 .. n
      <4>1. k \in 1 .. n
        BY <2>4, <2>11, <3>1
      <4> QED
        BY <2>7, <2>8, <2>11, <3>1, <4>1
    <3>2. CASE l \notin 1 .. n
      <4>1. g[l] = c + 1
        BY <2>8, <3>2
      <4> QED
        BY <2>4, <2>10, <4>1
    <3> QED
      BY <3>1, <3>2
  <2>12. ASSUME NEW k \in 1 .. n + m PROVE b[k] \in ToSet(q[g[k]])
    <3>1. CASE k \in 1 .. n
      BY <2>5, <2>6, <2>7, <2>8, <3>1
    <3>2. CASE k \notin 1 .. n
      <4>1. PICK j : j = k - n
        OBVIOUS
      <4>2. j \in 1 .. m /\ n + j = k
        BY <2>4, <3>2, <4>1
      <4>3. b[k] = s[j]
        BY <2>5, <4>2
      <4>4. q[g[k]] = s
        BY <2>6, <2>8, <3>2
      <4>5. s[j] \in ToSet(s)
        BY <2>1, <4>2, ListIs
      <4> QED
        BY <4>3, <4>4, <4>5
    <3> QED
      BY <3>1, <3>2
  <2>13. ASSUME NEW i \in 1 .. c + 1, NEW x \in ToSet(q[i])
         PROVE  \E k \in 1 .. n + m : g[k] = i /\ b[k] = x
    <3>1. CASE i \in 1 .. c
      <4>1. PICK k \in 1 .. n : f[k] = i /\ a[k] = x
        BY <2>6, <2>7, <2>13, <3>1
      <4> QED
        BY <2>5, <2>8, <4>1
    <3>2. CASE i \notin 1 .. c
      <4>1. i = c + 1
        BY <2>4, <3>2
      <4>2. q[i] = s
        BY <2>6, <4>1
      <4>3. PICK k \in 1 .. m : s[k] = x
        BY <2>1, <2>13, <4>2 DEF ToSet
      <4> QED
        BY <2>5, <2>9, <4>1, <4>3
    <3> QED
      BY <3>1, <3>2
  <2>14. g \in [1 .. n + m -> 1 .. c + 1]
    BY <2>8, <2>10
  <2>15. Origin(g, b, q)
    BY <2>5, <2>6, <2>11, <2>12, <2>13, <2>14 DEF Origin
  <2> QED
    BY <2>1, <2>6, <2>15
<1>3. \A p \in Seq(Seq(T)) : p \in S
  <2> HIDE DEF S
  <2> QED
    BY <1>1, <1>2, Longer
<1> QED
  BY <1>3, FlattenTyped

(* The numbers from 1 to n in a set, in their order.                         *)
LEMMA InOrderIs ==
    ASSUME NEW n \in Nat, NEW set
    PROVE  /\ InOrder(set, n) \in Seq(1 .. n)
           /\ \A i, j \in 1 .. Len(InOrder(set, n)) :
                 i < j => InOrder(set, n)[i] < InOrder(set, n)[j]
           /\ \A i \in 1 .. Len(InOrder(set, n)) : InOrder(set, n)[i] \in set
           /\ \A m \in 1 .. n : m \in set =>
                 \E i \in 1 .. Len(InOrder(set, n)) : InOrder(set, n)[i] = m
<1>1. PICK s, a : s = [i \in 1 .. n |-> i] /\ a = Among(s, set)
  OBVIOUS
<1>2. s = [i \in 1 .. n |-> s[i]] /\ \A i \in 1 .. n : s[i] = i
  BY <1>1
<1>3. s \in Seq(1 .. n) /\ Len(s) = n
  BY <1>1
<1>4. a \in Seq(1 .. n) /\ \E f : Places(f, a, s, set, n)
  BY <1>1, <1>3, AmongPlaces
<1>5. PICK f : Places(f, a, s, set, n)
  BY <1>4
<1>6. InOrder(set, n) = a
  BY <1>1 DEF InOrder
<1>7. \A i \in 1 .. Len(a) : a[i] = f[i] /\ a[i] \in set
  BY <1>2, <1>5 DEF Places
<1>8. \A i, j \in 1 .. Len(a) : i < j => a[i] < a[j]
  BY <1>5, <1>7 DEF Places
<1>9. \A m \in 1 .. n : m \in set => \E i \in 1 .. Len(a) : a[i] = m
  BY <1>2, <1>5, <1>7 DEF Places
<1> QED
  BY <1>4, <1>6, <1>7, <1>8, <1>9

(* What is shown of a list: the first of each word that is not hidden, in     *)
(* the order of the list; f names their places.                             *)
Shows(f, v, list, hidden) ==
    /\ f \in [1 .. Len(v) -> 1 .. Len(list)]
    /\ \A k, l \in 1 .. Len(v) : k < l => f[k] < f[l]
    /\ \A k \in 1 .. Len(v) : v[k] = list[f[k]] /\ v[k].word \notin hidden
    /\ \A k, l \in 1 .. Len(v) : v[k].word = v[l].word => k = l
    /\ \A i \in 1 .. Len(list) : list[i].word \notin hidden =>
          \E k \in 1 .. Len(v) : f[k] <= i /\ v[k].word = list[i].word

(* Distinct shows the first of each word.                                   *)
LEMMA DistinctIs ==
    ASSUME NEW list, IsList(list)
    PROVE  IsList(Distinct(list)) /\ \E f : Shows(f, Distinct(list), list, {})
<1> DEFINE firsts == {i \in DOMAIN list : \A j \in 1 .. i - 1 : list[j].word # list[i].word}
<1>1. PICK n, f, d : n = Len(list) /\ f = InOrder(firsts, n) /\ d = Distinct(list)
  OBVIOUS
<1>2. n \in Nat /\ DOMAIN list = 1 .. n
  BY <1>1, ListIs DEF IsList
<1>3. d = [k \in DOMAIN f |-> list[f[k]]]
  BY <1>1 DEF Distinct
<1>4. /\ f \in Seq(1 .. n)
      /\ \A i, j \in 1 .. Len(f) : i < j => f[i] < f[j]
      /\ \A i \in 1 .. Len(f) : f[i] \in firsts
      /\ \A m \in 1 .. n : m \in firsts => \E i \in 1 .. Len(f) : f[i] = m
  <2> HIDE DEF firsts
  <2> QED
    BY <1>1, <1>2, InOrderIs
<1>5. /\ Len(f) \in Nat /\ DOMAIN f = 1 .. Len(f) /\ f = [i \in 1 .. Len(f) |-> f[i]]
      /\ \A i \in 1 .. Len(f) : f[i] \in 1 .. n
  BY <1>4, ListIs
<1>6. d = [k \in 1 .. Len(f) |-> d[k]] /\ \A k \in 1 .. Len(f) : d[k] = list[f[k]]
  BY <1>3, <1>5
<1>7. IsList(d) /\ Len(d) = Len(f)
  BY <1>5, <1>6, ListMade
<1>8. ASSUME NEW k \in 1 .. Len(f), NEW l \in 1 .. Len(f), k < l PROVE d[k].word # d[l].word
  <2>1. f[k] < f[l] /\ f[l] \in firsts /\ f[k] \in 1 .. n /\ f[l] \in 1 .. n
    <3> HIDE DEF firsts
    <3> QED
      BY <1>4, <1>5, <1>8
  <2>2. f[k] \in 1 .. f[l] - 1
    BY <1>2, <2>1
  <2>3. list[f[k]].word # list[f[l]].word
    BY <2>1, <2>2
  <2> QED
    BY <1>6, <2>3
<1>9. ASSUME NEW k \in 1 .. Len(f), NEW l \in 1 .. Len(f), d[k].word = d[l].word PROVE k = l
  <2>1. ~(k < l) /\ ~(l < k)
    BY <1>8, <1>9
  <2>2. k \in Nat /\ l \in Nat
    BY <1>5
  <2> QED
    BY <2>1, <2>2
<1>10. ASSUME NEW i \in 1 .. n
       PROVE  \E k \in 1 .. Len(f) : f[k] <= i /\ d[k].word = list[i].word
  <2> DEFINE same == {j \in 1 .. n : list[j].word = list[i].word}
  <2>1. same \subseteq Nat /\ i \in same /\ same # {}
    BY <1>2
  <2>2. PICK m : m = Min(same)
    OBVIOUS
  <2>3. m \in same /\ \A j \in same : m <= j
    <3> HIDE DEF same
    <3>1. m \in same
      BY <2>1, <2>2, MinIsMember
    <3>2. \E x \in same : \A y \in same : x <= y
      BY <2>1, LeastMember
    <3> QED
      BY <2>1, <2>2, <3>1, <3>2 DEF Min
  <2>4. m \in 1 .. n /\ list[m].word = list[i].word /\ m <= i
    BY <2>1, <2>3
  <2>5. \A j \in 1 .. m - 1 : list[j].word # list[m].word
    <3> SUFFICES ASSUME NEW j \in 1 .. m - 1, list[j].word = list[m].word PROVE FALSE
      OBVIOUS
    <3>1. j \in same /\ j < m
      BY <1>2, <2>4
    <3> HIDE DEF same
    <3>2. m <= j
      BY <2>3, <3>1
    <3> QED
      BY <1>2, <2>4, <3>1, <3>2
  <2>6. m \in firsts
    BY <1>2, <2>4, <2>5
  <2> HIDE DEF firsts, same
  <2>7. PICK k \in 1 .. Len(f) : f[k] = m
    BY <1>4, <2>4, <2>6
  <2> QED
    BY <1>6, <2>4, <2>7
<1>11. \A k \in 1 .. Len(d) : d[k].word \notin {}
  OBVIOUS
<1>12. f \in [1 .. Len(d) -> 1 .. n]
  BY <1>5, <1>7
<1> HIDE DEF firsts
<1>13. Shows(f, d, list, {})
  <2>1. Len(d) = Len(f) /\ n = Len(list)
    BY <1>1, <1>7
  <2>2. \A k \in 1 .. Len(d) : d[k] = list[f[k]]
    BY <1>6, <2>1
  <2>3. \A k, l \in 1 .. Len(d) : k < l => f[k] < f[l]
    BY <1>4, <2>1
  <2>4. \A k, l \in 1 .. Len(d) : d[k].word = d[l].word => k = l
    BY <1>9, <2>1
  <2>5. \A i \in 1 .. n : \E k \in 1 .. Len(d) : f[k] <= i /\ d[k].word = list[i].word
    BY <1>10, <2>1
  <2> QED
    BY ONLY <1>11, <1>12, <2>1, <2>2, <2>3, <2>4, <2>5 DEF Shows
<1> QED
  BY <1>1, <1>7, <1>13

(* Visible shows the first of each word that is not hidden.                  *)
LEMMA VisibleIs ==
    ASSUME NEW list, IsList(list), NEW hidden
    PROVE  IsList(Visible(list, hidden)) /\ \E f : Shows(f, Visible(list, hidden), list, hidden)
<1>1. PICK set, a, v, n, m : /\ set = {o \in ToSet(list) : o.word \notin hidden}
                             /\ a = Among(list, set) /\ v = Distinct(a)
                             /\ n = Len(list) /\ m = Len(a)
  OBVIOUS
<1>2. v = Visible(list, hidden)
  BY <1>1 DEF Visible
<1>3. /\ list \in Seq(ToSet(list)) /\ n \in Nat
      /\ \A i \in 1 .. n : list[i] \in ToSet(list)
  BY <1>1, ListIs DEF IsList
<1>4. a \in Seq(ToSet(list)) /\ \E f : Places(f, a, list, set, n)
  BY <1>1, <1>3, AmongPlaces
<1>5. PICK f : Places(f, a, list, set, n)
  BY <1>4
<1>6. IsList(a) /\ m \in Nat
  BY <1>1, <1>4, SeqIsList, ListIs
<1>7. IsList(v) /\ \E g : Shows(g, v, a, {})
  BY <1>1, <1>6, DistinctIs
<1>8. PICK g : Shows(g, v, a, {})
  BY <1>7
<1>9. /\ \A i \in 1 .. m : f[i] \in 1 .. n /\ a[i] = list[f[i]] /\ a[i].word \notin hidden
      /\ \A i, j \in 1 .. m : i < j => f[i] < f[j]
      /\ \A i \in 1 .. n : list[i].word \notin hidden => \E j \in 1 .. m : f[j] = i
  BY <1>1, <1>3, <1>5 DEF Places
<1>10. PICK c : c = Len(v)
  OBVIOUS
<1>11. /\ \A k \in 1 .. c : g[k] \in 1 .. m /\ v[k] = a[g[k]]
       /\ \A k, l \in 1 .. c : k < l => g[k] < g[l]
       /\ \A k, l \in 1 .. c : v[k].word = v[l].word => k = l
       /\ \A i \in 1 .. m : \E k \in 1 .. c : g[k] <= i /\ v[k].word = a[i].word
  <2>1. c = Len(v) /\ m = Len(a)
    BY <1>1, <1>10
  <2>2. \A i \in 1 .. m : a[i].word \notin {}
    OBVIOUS
  <2> QED
    BY ONLY <1>8, <2>1, <2>2 DEF Shows
<1> DEFINE h == [k \in 1 .. c |-> f[g[k]]]
<1>12. \A k \in 1 .. c : h[k] = f[g[k]]
  OBVIOUS
<1>13. h = [k \in 1 .. c |-> h[k]]
  OBVIOUS
<1> HIDE DEF h
<1>14. \A k \in 1 .. c : h[k] \in 1 .. n
  BY <1>9, <1>11, <1>12
<1>15. \A k, l \in 1 .. c : k < l => h[k] < h[l]
  BY <1>9, <1>11, <1>12
<1>16. \A k \in 1 .. c : v[k] = list[h[k]] /\ v[k].word \notin hidden
  BY <1>9, <1>11, <1>12
<1>17. ASSUME NEW i \in 1 .. n, list[i].word \notin hidden
       PROVE  \E k \in 1 .. c : h[k] <= i /\ v[k].word = list[i].word
  <2>1. PICK j \in 1 .. m : f[j] = i
    BY <1>9, <1>17
  <2>2. PICK k \in 1 .. c : g[k] <= j /\ v[k].word = a[j].word
    BY <1>11
  <2>3. g[k] \in 1 .. m /\ a[j] = list[i]
    BY <1>9, <1>11, <2>1
  <2>4. f[g[k]] <= f[j]
    <3>1. CASE g[k] = j
      <4>1. f[j] \in Int
        BY <1>3, <2>1
      <4> QED
        BY <3>1, <4>1
    <3>2. CASE g[k] # j
      <4>1. g[k] < j
        BY <1>6, <2>2, <2>3, <3>2
      <4>2. f[g[k]] < f[j] /\ f[g[k]] \in 1 .. n /\ f[j] \in 1 .. n
        BY <1>9, <2>3, <4>1
      <4> QED
        BY <1>3, <4>2
    <3> QED
      BY <3>1, <3>2
  <2> QED
    BY <1>12, <2>1, <2>2, <2>3, <2>4
<1>18. h \in [1 .. c -> 1 .. n]
  BY <1>13, <1>14
<1>19. \A i \in 1 .. n : list[i].word \notin hidden =>
          \E k \in 1 .. c : h[k] <= i /\ v[k].word = list[i].word
  BY <1>17
<1>20. Shows(h, v, list, hidden)
  <2>1. n = Len(list) /\ c = Len(v)
    BY <1>1, <1>10
  <2>2. \A k, l \in 1 .. c : v[k].word = v[l].word => k = l
    BY <1>11
  <2> QED
    BY ONLY <1>15, <1>16, <1>18, <1>19, <2>1, <2>2 DEF Shows
<1> QED
  BY <1>2, <1>7, <1>20

(* The members kept of a list are one.                                      *)
LEMMA AmongList ==
    ASSUME NEW s, IsList(s), NEW set
    PROVE  IsList(Among(s, set)) /\ ToSet(Among(s, set)) = ToSet(s) \cap set
  BY AmongPlaces, AmongMembers, SeqIsList DEF IsList

(* A part of a list from its beginning is one, with members of it.            *)
LEMMA FrontList ==
    ASSUME NEW s, IsList(s), NEW n \in 0 .. Len(s)
    PROVE  /\ IsList(SubSeq(s, 1, n)) /\ Len(SubSeq(s, 1, n)) = n
           /\ \A i \in 1 .. n : SubSeq(s, 1, n)[i] = s[i]
<1>1. Len(s) \in Nat /\ s \in Seq(ToSet(s))
  BY ListIs DEF IsList
<1>2. PICK a : a = SubSeq(s, 1, n)
  OBVIOUS
<1>3. a \in Seq(ToSet(s)) /\ Len(a) = n /\ \A i \in 1 .. n : a[i] = s[i]
  BY <1>1, <1>2
<1> QED
  BY <1>2, <1>3, SeqIsList

(* At most as many as the cap allows are left, and all if it is not reached.  *)
LEMMA CappedIs ==
    ASSUME NEW s, IsList(s)
    PROVE  /\ IsList(Capped(s)) /\ Len(Capped(s)) <= Len(s)
           /\ \A i \in 1 .. Len(Capped(s)) : Capped(s)[i] = s[i]
           /\ Len(s) <= MaxExpansions => Capped(s) = s
<1>1. PICK n : n = IF Len(s) > MaxExpansions THEN MaxExpansions ELSE Len(s)
  OBVIOUS
<1>2. Len(s) \in Nat /\ s \in Seq(ToSet(s)) /\ MaxExpansions \in Nat
  BY ListIs, NumeralsAssumption DEF IsList
<1>3. n \in 0 .. Len(s) /\ n <= Len(s) /\ (Len(s) <= MaxExpansions => n = Len(s))
  BY <1>1, <1>2
<1>4. SubSeq(s, 1, Len(s)) = s
  BY <1>2
<1>5. Capped(s) = SubSeq(s, 1, n)
  BY <1>1 DEF Capped
<1> QED
  BY <1>3, <1>4, <1>5, FrontList

(* What the dictionaries hold.                                              *)
Found == {c \in Candidate : c.form = "none" => c.word # <<>>}

Dictionaries ==
    /\ system = [d \in 1 .. Len(system) |-> system[d]] /\ Len(system) \in Nat
    /\ \A d \in 1 .. Len(system) : Readable(system[d])
    /\ \A key \in DOMAIN user : AllSaved(user[key])

(* What each dictionary has for a key, the user dictionary first.            *)
Dicts       == <<user>> \o system
Entry(key)  == [d \in DOMAIN Dicts |-> IF key \in DOMAIN Dicts[d] THEN Dicts[d][key] ELSE <<>>]

(* What is found for a key are the entries, one after the other.            *)
LEMMA AllFoundIs == \A key : AllFound(key) = FlattenSeq(Entry(key))
  BY DEF AllFound, Entry, Dicts

(* Candidates that can be saved are among them.                              *)
LEMMA SavedFound == ASSUME NEW cands, AllSaved(cands) PROVE cands \in Seq(Found)
<1>1. cands \in Seq(Candidate) /\ \A i \in 1 .. Len(cands) : cands[i] \in Found
  BY DEF AllSaved, Saved, Found
<1> QED
  BY <1>1, SeqIsList, ListTyped

(* The user dictionary comes first.                                         *)
LEMMA EntryTyped ==
    ASSUME Dictionaries, NEW key
    PROVE  /\ Entry(key) \in Seq(Seq(Found)) /\ Len(Entry(key)) >= 1
           /\ Entry(key)[1] = IF key \in DOMAIN user THEN user[key] ELSE <<>>
<1>1. PICK ds, S, n : ds = Dicts /\ S = {user} \cup ToSet(system) /\ n = Len(system)
  OBVIOUS
<1>2. /\ system = [d \in 1 .. n |-> system[d]] /\ n \in Nat /\ DOMAIN system = 1 .. n
      /\ \A d \in 1 .. n : Readable(system[d])
  BY <1>1 DEF Dictionaries
<1>3. \A d \in 1 .. n : system[d] \in S
  BY <1>1, <1>2 DEF ToSet
<1>4. system \in Seq(S) /\ user \in S
  BY <1>1, <1>2, <1>3, IsSeq
<1>5. /\ ds \in Seq(S) /\ Len(ds) = n + 1 /\ ds[1] = user
      /\ \A i \in 1 .. n : ds[i + 1] = system[i]
  BY <1>1, <1>4, HeadTail DEF Dicts
<1>6. PICK e, m : e = Entry(key) /\ m = n + 1
  OBVIOUS
<1>7. /\ e = [d \in 1 .. m |-> e[d]] /\ m \in Nat /\ m >= 1 /\ 1 \in 1 .. m
      /\ \A d \in 1 .. m : e[d] = IF key \in DOMAIN ds[d] THEN ds[d][key] ELSE <<>>
  BY <1>1, <1>2, <1>5, <1>6 DEF Entry
<1>8. e[1] = IF key \in DOMAIN user THEN user[key] ELSE <<>>
  BY <1>5, <1>7
<1>9. e[1] \in Seq(Found)
  <2>1. key \in DOMAIN user => user[key] \in Seq(Found)
    BY SavedFound DEF Dictionaries
  <2> QED
    BY <1>8, <2>1
<1>10. ASSUME NEW i \in 1 .. n PROVE e[i + 1] \in Seq(Found)
  <2>1. PICK s, j : s = system[i] /\ j = i + 1
    OBVIOUS
  <2>2. j \in 1 .. m /\ ds[j] = s /\ Readable(s)
    BY <1>2, <1>5, <1>6, <2>1
  <2>3. e[j] = IF key \in DOMAIN s THEN s[key] ELSE <<>>
    BY <1>7, <2>2
  <2>4. ASSUME key \in DOMAIN s PROVE s[key] \in Seq(Found)
    <3>1. PICK c : c = s[key]
      OBVIOUS
    <3>2. c \in Seq(Candidate) /\ \A i1 \in DOMAIN c : c[i1].form = "none" => c[i1].word # <<>>
      BY <2>2, <2>4, <3>1 DEF Readable
    <3>3. IsList(c) /\ DOMAIN c = 1 .. Len(c)
      BY <3>2, SeqIsList
    <3>4. \A i1 \in 1 .. Len(c) : c[i1] \in Found
      BY <3>2 DEF Found
    <3> QED
      BY <3>1, <3>3, <3>4, ListTyped
  <2> QED
    BY <2>1, <2>3, <2>4
<1>11. \A d \in 1 .. m : e[d] \in Seq(Found)
  <2> SUFFICES ASSUME NEW d \in 1 .. m PROVE e[d] \in Seq(Found)
    OBVIOUS
  <2>1. CASE d = 1
    BY <1>9, <2>1
  <2>2. CASE d # 1
    <3>1. PICK j : j = d - 1
      OBVIOUS
    <3>2. j \in 1 .. n /\ d = j + 1
      BY <1>2, <1>6, <2>2, <3>1
    <3> QED
      BY <1>10, <3>2
  <2> QED
    BY <2>1, <2>2
<1>12. e \in Seq(Seq(Found)) /\ Len(e) = m
  BY <1>7, <1>11
<1> QED
  BY <1>6, <1>7, <1>8, <1>12

(* All that is found.                                                       *)
LEMMA AllFoundTyped ==
    ASSUME Dictionaries, NEW key
    PROVE  AllFound(key) \in Seq(Found)
  BY AllFoundIs, EntryTyped, FlattenTyped

(* The first of a part that comes first comes first.                         *)
LEMMA FlattenHead ==
    ASSUME NEW T, NEW parts \in Seq(Seq(T)), Len(parts) >= 1, parts[1] # <<>>
    PROVE  FlattenSeq(parts) # <<>> /\ FlattenSeq(parts)[1] = parts[1][1]
<1> DEFINE Fine(p) == Len(p) >= 1 /\ p[1] # <<>>
                         => FlattenSeq(p) # <<>> /\ FlattenSeq(p)[1] = p[1][1]
           S == {p \in Seq(Seq(T)) : Fine(p)}
<1>1. <<>> \in S
  OBVIOUS
<1>2. ASSUME NEW p \in Seq(Seq(T)), NEW s \in Seq(T), p \in S PROVE Append(p, s) \in S
  <2>1. PICK a, b, q : a = FlattenSeq(p) /\ q = Append(p, s) /\ b = FlattenSeq(q)
    OBVIOUS
  <2>2. a \in Seq(T) /\ b = a \o s
    BY <2>1, FlattenTyped, FlattenStep
  <2>3. q \in Seq(Seq(T)) /\ Len(q) = Len(p) + 1 /\ Len(p) \in Nat
    BY <2>1
  <2>4. CASE Len(p) >= 1
    <3>1. q[1] = p[1]
      BY <2>1, <2>3, <2>4
    <3>2. a # <<>> => b # <<>> /\ b[1] = a[1]
      BY <2>2
    <3>3. Fine(p)
      BY <1>2
    <3>4. Fine(q)
      BY <2>1, <2>4, <3>1, <3>2, <3>3
    <3> QED
      BY <2>1, <2>3, <3>4
  <2>5. CASE ~(Len(p) >= 1)
    <3>1. p = <<>>
      BY <2>3, <2>5
    <3>2. a = <<>> /\ q[1] = s
      BY <2>1, <3>1, FlattenStep
    <3>3. b = s
      BY <2>2, <3>2
    <3>4. Fine(q)
      BY <2>1, <3>2, <3>3
    <3> QED
      BY <2>1, <2>3, <3>4
  <2> QED
    BY <2>4, <2>5
<1>3. \A p \in Seq(Seq(T)) : p \in S
  <2> HIDE DEF S
  <2> QED
    BY <1>1, <1>2, Longer
<1>4. Fine(parts)
  BY <1>3
<1> QED
  BY <1>4

(* What was learned comes first of all.                                     *)
LEMMA FoundFirst ==
    ASSUME Dictionaries, NEW key \in DOMAIN user, user[key] # <<>>
    PROVE  AllFound(key) # <<>> /\ AllFound(key)[1] = user[key][1]
<1>1. PICK e : e = Entry(key)
  OBVIOUS
<1>2. e \in Seq(Seq(Found)) /\ Len(e) >= 1 /\ e[1] = user[key]
  BY <1>1, EntryTyped
<1>3. FlattenSeq(e) # <<>> /\ FlattenSeq(e)[1] = e[1][1]
  BY <1>2, FlattenHead
<1> QED
  BY <1>1, <1>2, <1>3, AllFoundIs

(* A set whose members can be numbered has that many.                        *)
LEMMA Numbered ==
    ASSUME NEW N \in Nat, NEW S, NEW f \in [1 .. N -> S],
           \A i, j \in 1 .. N : f[i] = f[j] => i = j, \A x \in S : \E i \in 1 .. N : f[i] = x
    PROVE  IsFiniteSet(S) /\ Cardinality(S) = N
<1>1. f \in Bijection(1 .. N, S)
  BY DEF Bijection, Injection, Surjection, IsInjective
<1>2. ExistsBijection(1 .. N, S)
  BY <1>1 DEF ExistsBijection
<1>3. IsFiniteSet(1 .. N) /\ Cardinality(1 .. N) = N
  BY FS_Interval
<1> QED
  BY <1>2, <1>3, FS_Bijection

(* The words among what is found.                                           *)
Plainly == {c \in Candidate : c.form = "none" /\ c.word # <<>>}

(* What can be displayed are those.                                         *)
LEMMA DisplayableIs ==
    ASSUME NEW cands \in Seq(Found)
    PROVE  /\ Displayable(cands) \in Seq(Plainly) /\ IsList(Displayable(cands))
           /\ ToSet(Displayable(cands)) = {c \in ToSet(cands) : c.form = "none"}
<1>1. PICK set, d : set = {c \in ToSet(cands) : c.form = "none"} /\ d = Among(cands, set)
  OBVIOUS
<1>2. d \in Seq(Found) /\ ToSet(d) = ToSet(cands) \cap set
  BY <1>1, AmongPlaces, AmongMembers
<1>3. \A i \in 1 .. Len(d) : d[i] \in Found /\ d[i] \in ToSet(d)
  BY <1>2, ListIs
<1>4. \A i \in 1 .. Len(d) : d[i] \in Plainly
  BY <1>1, <1>2, <1>3 DEF Found, Plainly
<1>5. IsList(d)
  BY <1>2, SeqIsList
<1>6. d \in Seq(Plainly)
  BY <1>4, <1>5, ListTyped
<1>7. ToSet(d) = set
  BY <1>1, <1>2
<1> QED
  BY <1>1, <1>5, <1>6, <1>7 DEF Displayable

(* The first word found is shown first.                                     *)
LEMMA DisplayableFirst ==
    ASSUME NEW cands \in Seq(Found), cands # <<>>, cands[1].form = "none"
    PROVE  Displayable(cands) # <<>> /\ Displayable(cands)[1] = cands[1]
<1>1. PICK set : set = {c \in ToSet(cands) : c.form = "none"}
  OBVIOUS
<1>2. cands[1] \in ToSet(cands)
  <2>1. 1 \in DOMAIN cands
    OBVIOUS
  <2> QED
    BY <2>1 DEF ToSet
<1>3. cands[1] \in set
  BY <1>1, <1>2
<1>4. Among(cands, set) # <<>> /\ Among(cands, set)[1] = cands[1]
  BY <1>3, AmongFirst
<1> QED
  BY <1>1, <1>4 DEF Displayable

(* The words a conversion hides.                                            *)
LEMMA HiddenIs == \A key : IgnoreSet(AllFound(key)) = Hidden(key)
  BY DEF IgnoreSet, Hidden, ToSet

(* The words a list of candidates has.                                      *)
LEMMA WordingIs ==
    ASSUME NEW list, IsList(list)
    PROVE  /\ IsList(Wording(list)) /\ Len(Wording(list)) = Len(list)
           /\ \A i \in 1 .. Len(list) : Wording(list)[i] = list[i].word
<1>1. PICK n, w : n = Len(list) /\ w = Wording(list)
  OBVIOUS
<1>2. n \in Nat /\ DOMAIN list = 1 .. n
  BY <1>1, ListIs DEF IsList
<1>3. w = [i \in 1 .. n |-> w[i]] /\ \A i \in 1 .. n : w[i] = list[i].word
  BY <1>1, <1>2 DEF Wording
<1> QED
  BY <1>1, <1>2, <1>3, ListMade

(* "#4" brings words known for its run, each once; all of them if they are     *)
(* not more than the cap.                                                   *)
LEMMA RecursiveLookupIs ==
    ASSUME Dictionaries, NEW run
    PROVE  /\ IsList(RecursiveLookup(run))
           /\ ToSet(RecursiveLookup(run)) \subseteq Known(run)
           /\ \A i, j \in 1 .. Len(RecursiveLookup(run)) :
                 RecursiveLookup(run)[i] = RecursiveLookup(run)[j] => i = j
           /\ IsFiniteSet(Known(run))
           /\ Cardinality(Known(run)) <= MaxExpansions => ToSet(RecursiveLookup(run)) = Known(run)
<1>1. PICK all, ds, hidden, v, c, w : /\ all = AllFound(run) /\ ds = Displayable(all)
                                      /\ hidden = Hidden(run) /\ v = Visible(ds, hidden)
                                      /\ c = Capped(v) /\ w = Wording(c)
  OBVIOUS
<1>2. w = RecursiveLookup(run)
  BY <1>1, HiddenIs DEF RecursiveLookup
<1>3. IsList(ds) /\ ds \in Seq(Plainly)
  BY <1>1, AllFoundTyped, DisplayableIs
<1>4. IsList(v) /\ \E f : Shows(f, v, ds, hidden)
  BY <1>1, <1>3, VisibleIs
<1>5. PICK f : Shows(f, v, ds, hidden)
  BY <1>4
<1>6. /\ IsList(c) /\ Len(c) <= Len(v) /\ \A i \in 1 .. Len(c) : c[i] = v[i]
      /\ Len(v) <= MaxExpansions => c = v
  BY <1>1, <1>4, CappedIs
<1>7. IsList(w) /\ Len(w) = Len(c) /\ \A i \in 1 .. Len(c) : w[i] = c[i].word
  BY <1>1, <1>6, WordingIs
<1>8. Len(c) \in Nat /\ Len(v) \in Nat /\ DOMAIN w = 1 .. Len(c)
  BY <1>4, <1>6, <1>7, ListIs DEF IsList
<1>9. Known(run) = {d.word : d \in ToSet(ds)} \ hidden
  BY <1>1 DEF Known
<1>10. /\ \A k \in 1 .. Len(v) : f[k] \in 1 .. Len(ds) /\ v[k] = ds[f[k]] /\ v[k].word \notin hidden
       /\ \A k, l \in 1 .. Len(v) : v[k].word = v[l].word => k = l
       /\ \A i \in 1 .. Len(ds) :
             ds[i].word \notin hidden => \E k \in 1 .. Len(v) : v[k].word = ds[i].word
  BY <1>5 DEF Shows
<1>11. \A k \in 1 .. Len(v) : v[k].word \in Known(run)
  <2> SUFFICES ASSUME NEW k \in 1 .. Len(v) PROVE v[k].word \in Known(run)
    OBVIOUS
  <2>1. v[k] \in ToSet(ds)
    BY <1>3, <1>10, ListIs
  <2> QED
    BY <1>9, <1>10, <2>1
<1>12. \A i \in 1 .. Len(c) : i \in 1 .. Len(v)
  BY <1>6, <1>8
<1>13. \A i \in 1 .. Len(w) : w[i] = v[i].word /\ i \in 1 .. Len(v)
  BY <1>6, <1>7, <1>12
<1>14. ToSet(w) \subseteq Known(run)
  BY <1>7, <1>8, <1>11, <1>13 DEF ToSet
<1>15. \A i, j \in 1 .. Len(w) : w[i] = w[j] => i = j
  BY <1>10, <1>13
<1> DEFINE g == [k \in 1 .. Len(v) |-> v[k].word]
<1>16. g \in [1 .. Len(v) -> Known(run)]
  BY <1>11
<1>17. \A x \in Known(run) : \E k \in 1 .. Len(v) : v[k].word = x
  <2> SUFFICES ASSUME NEW x \in Known(run) PROVE \E k \in 1 .. Len(v) : v[k].word = x
    OBVIOUS
  <2>1. PICK d \in ToSet(ds) : d.word = x /\ x \notin hidden
    BY <1>9
  <2>2. PICK i \in 1 .. Len(ds) : ds[i] = d
    BY <1>3, ListIs
  <2> QED
    BY <1>10, <2>1, <2>2
<1>18. g = [k \in 1 .. Len(v) |-> g[k]] /\ \A k \in 1 .. Len(v) : g[k] = v[k].word
  OBVIOUS
<1>19. IsFiniteSet(Known(run)) /\ Cardinality(Known(run)) = Len(v)
  <2> HIDE DEF g
  <2>1. \A i, j \in 1 .. Len(v) : g[i] = g[j] => i = j
    BY <1>10, <1>18
  <2>2. \A x \in Known(run) : \E i \in 1 .. Len(v) : g[i] = x
    BY <1>17, <1>18
  <2> QED
    BY <1>8, <1>16, <2>1, <2>2, Numbered
<1>20. Cardinality(Known(run)) <= MaxExpansions => ToSet(w) = Known(run)
  <2> SUFFICES ASSUME Cardinality(Known(run)) <= MaxExpansions PROVE Known(run) \subseteq ToSet(w)
    BY <1>14
  <2>1. c = v
    BY <1>6, <1>19
  <2> QED
    BY <1>7, <1>8, <1>13, <1>17, <2>1 DEF ToSet
<1> QED
  BY <1>2, <1>7, <1>14, <1>15, <1>19, <1>20

(* The digits and their values.                                             *)
LEMMA DigitsAre ==
    /\ DOMAIN Digits = 1 .. 10 /\ \A v \in 0 .. 9 : Digits[v + 1] \in Digit
    /\ \A d \in Digit : Value[d] \in 0 .. 9
    /\ "0" \in Digit /\ "1" \in Digit
<1>1. DOMAIN Digits = 1 .. 10 /\ Digits[1] = "0" /\ Digits[2] = "1"
  BY DEF Digits
<1>2. \A i \in 1 .. 10 : Digits[i] \in Digit
  BY <1>1 DEF Digit, ToSet
<1>3. \A v \in 0 .. 9 : v + 1 \in 1 .. 10
  OBVIOUS
<1>4. ASSUME NEW d \in Digit PROVE Value[d] \in 0 .. 9
  <2>1. PICK i \in 1 .. 10 : Digits[i] = d
    BY <1>1 DEF Digit, ToSet
  <2>2. PICK v : v = i - 1
    OBVIOUS
  <2>3. v \in 0 .. 9 /\ Digits[v + 1] = d
    BY <2>1, <2>2
  <2>4. Value[d] = CHOOSE x \in 0 .. 9 : Digits[x + 1] = d
    BY DEF Value
  <2> QED
    BY <2>3, <2>4
<1> QED
  BY <1>1, <1>2, <1>3, <1>4

(* Numerals are texts.                                                      *)
LEMMA NumeralGlyphs == NumeralGlyph \subseteq Glyph
<1>1. \A c \in NumeralGlyph : c \in Glyph
  BY LookupAssumption DEF LookupAssumption
<1> QED
  BY <1>1

(* The digits of each script are glyphs.                                    *)
LEMMA DigitGlyphs ==
    /\ Digit \subseteq Glyph
    /\ \A d \in Digit : Wide[d] \in Glyph /\ KanjiDigit[d] \in Glyph /\ DaijiDigit[d] \in Glyph
<1>1. Digit \subseteq NumeralGlyph
  BY DEF NumeralGlyph
<1>2. \A d \in Digit :
        Wide[d] \in NumeralGlyph /\ KanjiDigit[d] \in NumeralGlyph /\ DaijiDigit[d] \in NumeralGlyph
  BY DEF NumeralGlyph
<1> QED
  BY <1>1, <1>2, NumeralGlyphs

(* The units are glyphs.                                                    *)
LEMMA UnitGlyphs ==
    /\ \A i \in 1 .. 4 : LargeUnits[i] \in Glyph
    /\ \A i \in 1 .. 3 : KanjiUnits[i] \in Glyph /\ DaijiUnits[i] \in Glyph
<1>1. DOMAIN LargeUnits = 1 .. 4 /\ DOMAIN KanjiUnits = 1 .. 3 /\ DOMAIN DaijiUnits = 1 .. 3
  BY DEF LargeUnits, KanjiUnits, DaijiUnits
<1>2. \A i \in 1 .. 4 : LargeUnits[i] \in ToSet(LargeUnits)
  BY <1>1 DEF ToSet
<1>3. \A i \in 1 .. 3 : KanjiUnits[i] \in ToSet(KanjiUnits) /\ DaijiUnits[i] \in ToSet(DaijiUnits)
  BY <1>1 DEF ToSet
<1>4. /\ ToSet(LargeUnits) \subseteq NumeralGlyph
      /\ ToSet(KanjiUnits) \subseteq NumeralGlyph /\ ToSet(DaijiUnits) \subseteq NumeralGlyph
  BY DEF NumeralGlyph
<1> QED
  BY <1>2, <1>3, <1>4, NumeralGlyphs

(* The digits of a number from the first that is not zero.                   *)
LEMMA SignificantTyped ==
    ASSUME NEW run \in Seq(Digit)
    PROVE  Significant(run) \in Seq(0 .. 9)
<1> DEFINE I == {i \in 1 .. Len(run) : run[i] # "0"}
           k == SelectInSeq(run, LAMBDA d : d # "0")
<1>1. k = IF I # {} THEN Min(I) ELSE 0
  BY DEF SelectInSeq
<1>2. Len(run) \in Nat /\ I \subseteq Nat /\ I \subseteq 1 .. Len(run)
  OBVIOUS
<1>3. I # {} => Min(I) \in I
  <2> HIDE DEF I
  <2> QED
    BY <1>2, MinIsMember
<1> HIDE DEF k, I
<1>4. k = 0 \/ k \in 1 .. Len(run)
  BY <1>1, <1>2, <1>3
<1>5. PICK kept : kept = IF k = 0 THEN <<>> ELSE SubSeq(run, k, Len(run))
  OBVIOUS
<1>6. kept \in Seq(Digit)
  BY <1>2, <1>4, <1>5
<1>7. Significant(run) = [i \in DOMAIN kept |-> Value[kept[i]]]
  BY <1>5 DEF Significant, k
<1>8. PICK s, n : s = Significant(run) /\ n = Len(kept)
  OBVIOUS
<1>9. n \in Nat /\ DOMAIN kept = 1 .. n /\ \A i \in 1 .. n : kept[i] \in Digit
  BY <1>6, <1>8
<1>10. s = [i \in 1 .. n |-> s[i]] /\ \A i \in 1 .. n : s[i] = Value[kept[i]]
  BY <1>7, <1>8, <1>9
<1>11. \A i \in 1 .. n : s[i] \in 0 .. 9
  BY <1>9, <1>10, DigitsAre
<1> QED
  BY <1>8, <1>9, <1>10, <1>11, IsSeq

(* A number has at most twenty digits.                                      *)
LEMMA NumberTyped ==
    ASSUME NEW run \in Seq(Digit), Number(run) # None
    PROVE  Number(run) \in Seq(0 .. 9) /\ Len(Number(run)) <= 20
<1>1. PICK n : n = Significant(run)
  OBVIOUS
<1>2. n \in Seq(0 .. 9)
  BY <1>1, SignificantTyped
<1>3. Number(run) = n /\ ~Exceeds(n, LargestNumber)
  BY <1>1 DEF Number
<1>4. Len(LargestNumber) = 20
  BY DEF LargestNumber
<1>5. ~(Len(n) > 20)
  BY <1>3, <1>4 DEF Exceeds
<1>6. Len(n) \in Nat
  BY <1>2
<1> QED
  BY <1>2, <1>3, <1>5, <1>6

(* Digit by digit.                                                          *)
LEMMA MappedTyped ==
    ASSUME NEW run \in Seq(Digit), NEW glyph, \A d \in Digit : glyph[d] \in Glyph
    PROVE  Mapped(run, glyph) \in Text
<1>1. PICK n, m : n = Len(run) /\ m = Mapped(run, glyph)
  OBVIOUS
<1>2. n \in Nat /\ DOMAIN run = 1 .. n /\ \A i \in 1 .. n : run[i] \in Digit
  BY <1>1
<1>3. m = [i \in 1 .. n |-> m[i]] /\ \A i \in 1 .. n : m[i] = glyph[run[i]]
  BY <1>1, <1>2 DEF Mapped
<1>4. m \in Seq(Glyph)
  BY <1>2, <1>3, IsSeq
<1> QED
  BY <1>1, <1>4 DEF Text

(* A shogi numeral is a text.                                               *)
LEMMA ShogiTyped == ASSUME NEW run \in Seq(Digit) PROVE Shogi(run) \in Text
<1>1. PICK n, m, z : n = Len(run) /\ m = Shogi(run) /\ z = "0"
  OBVIOUS
<1>2. n \in Nat /\ DOMAIN run = 1 .. n /\ \A i \in 1 .. n : run[i] \in Digit
  BY <1>1
<1>3. /\ m = [i \in 1 .. n |-> m[i]]
      /\ \A i \in 1 .. n : m[i] = IF i = 1 THEN Wide[run[i]]
                                  ELSE IF run[i] = z THEN z ELSE KanjiDigit[run[i]]
  BY <1>1, <1>2 DEF Shogi
<1>4. z \in Glyph
  BY <1>1, DigitsAre, DigitGlyphs
<1>5. \A i \in 1 .. n : m[i] \in Glyph
  BY <1>2, <1>3, <1>4, DigitGlyphs
<1>6. m \in Seq(Glyph)
  BY <1>2, <1>3, <1>5, IsSeq
<1> QED
  BY <1>1, <1>6 DEF Text

(* A text of one glyph.                                                     *)
LEMMA OneTyped == \A c \in Glyph : <<c>> \in Text
  BY DEF Text

(* With the places of the digits.                                           *)
LEMMA KanjiTyped ==
    ASSUME NEW n \in Seq(0 .. 9), Len(n) <= 20, NEW digits, \A d \in Digit : digits[d] \in Glyph,
           NEW units, \A i \in 1 .. 3 : units[i] \in Glyph, NEW omitOne
    PROVE  KanjiNumber(n, digits, units, omitOne) \in Text
<1> DEFINE Place(d, e) ==
                IF d = 0 THEN <<>>
                ELSE (IF d = 1 /\ omitOne /\ e > 0 THEN <<>> ELSE <<digits[Digits[d + 1]]>>)
                     \o (IF e > 0 THEN <<units[e]>> ELSE <<>>)
           Unit(e) == IF WritesUnit(n, e) THEN <<LargeUnits[e \div 4]>> ELSE <<>>
           Part(i) == Place(n[i], (Len(n) - i) % 4) \o Unit(Len(n) - i)
           parts == [i \in DOMAIN n |-> Part(i)]
<1>1. KanjiNumber(n, digits, units, omitOne) =
        IF n = <<>> THEN <<digits["0"]>> ELSE FlattenSeq(parts)
  BY DEF KanjiNumber
<1>2. <<digits["0"]>> \in Text
  BY DigitsAre, OneTyped
<1>3. <<>> \in Text
  BY ShortText
<1>4. ASSUME NEW d \in 0 .. 9, NEW e \in 0 .. 3 PROVE Place(d, e) \in Text
  <2>1. PICK a, b : /\ a = IF d = 1 /\ omitOne /\ e > 0 THEN <<>> ELSE <<digits[Digits[d + 1]]>>
                    /\ b = IF e > 0 THEN <<units[e]>> ELSE <<>>
    OBVIOUS
  <2>2. digits[Digits[d + 1]] \in Glyph
    BY DigitsAre
  <2>3. a \in Text
    BY <1>3, <2>1, <2>2, OneTyped
  <2>4. e > 0 => units[e] \in Glyph
    OBVIOUS
  <2>5. b \in Text
    BY <1>3, <2>1, <2>4, OneTyped
  <2>6. a \o b \in Text
    BY <2>3, <2>5, JoinTyped
  <2>7. Place(d, e) = IF d = 0 THEN <<>> ELSE a \o b
    BY <2>1
  <2> QED
    BY <1>3, <2>6, <2>7
<1>5. ASSUME NEW e \in 0 .. 19 PROVE Unit(e) \in Text
  <2>1. WritesUnit(n, e) => e > 0 /\ e % 4 = 0
    BY DEF WritesUnit
  <2>2. e > 0 /\ e % 4 = 0 => e \div 4 \in 1 .. 4
    OBVIOUS
  <2>3. WritesUnit(n, e) => LargeUnits[e \div 4] \in Glyph
    BY <2>1, <2>2, UnitGlyphs
  <2> QED
    BY <1>3, <2>3, OneTyped
<1>6. PICK N : N = Len(n)
  OBVIOUS
<1>7. N \in Nat /\ N <= 20 /\ DOMAIN n = 1 .. N /\ \A i \in 1 .. N : n[i] \in 0 .. 9
  BY <1>6
<1>8. ASSUME NEW i \in 1 .. N PROVE Part(i) \in Text
  <2>1. PICK e, r, d : e = N - i /\ r = e % 4 /\ d = n[i]
    OBVIOUS
  <2>2. e \in 0 .. 19 /\ r \in 0 .. 3 /\ d \in 0 .. 9
    BY <1>7, <2>1
  <2>3. Place(d, r) \in Text /\ Unit(e) \in Text
    BY <1>4, <1>5, <2>2
  <2>4. Part(i) = Place(d, r) \o Unit(e)
    BY <1>6, <2>1
  <2> HIDE DEF Place, Unit, Part
  <2> QED
    BY <2>3, <2>4, JoinTyped
<1>9. parts = [i \in 1 .. N |-> parts[i]] /\ \A i \in 1 .. N : parts[i] = Part(i)
  BY <1>7
<1> HIDE DEF Place, Unit, Part, parts
<1>10. parts \in Seq(Text)
  BY <1>7, <1>8, <1>9, IsSeq
<1>11. FlattenSeq(parts) \in Text
  BY <1>10, FlattenTyped DEF Text
<1> QED
  BY <1>1, <1>2, <1>11

(* A function that begins with a and goes on by step[i].                     *)
Stepwise(f, N, a, step) == f = [i \in 0 .. N |-> IF i = 0 THEN a ELSE step[i][f[i - 1]]]

(* It is there.                                                             *)
LEMMA RecursionExists ==
    ASSUME NEW N \in Nat, NEW T, NEW a \in T, NEW step \in [1 .. N -> [T -> T]]
    PROVE  \E f \in [0 .. N -> T] : Stepwise(f, N, a, step)
<1> DEFINE Is(f, n) == /\ f \in [0 .. n -> T] /\ f[0] = a
                       /\ \A i \in 1 .. n : f[i] = step[i][f[i - 1]]
           S == {n \in 0 .. N : \E f : Is(f, n)}
<1>1. 0 \in S
  <2> DEFINE f == [i \in 0 .. 0 |-> a]
  <2>1. f \in [0 .. 0 -> T] /\ f[0] = a
    OBVIOUS
  <2>2. Is(f, 0)
    BY <2>1
  <2> HIDE DEF f, Is
  <2>3. 0 \in 0 .. N
    OBVIOUS
  <2> QED
    BY <2>2, <2>3
<1>2. ASSUME NEW n \in 0 .. N - 1, n \in S PROVE n + 1 \in S
  <2>1. PICK f : Is(f, n)
    BY <1>2
  <2>2. PICK x : x = step[n + 1][f[n]]
    OBVIOUS
  <2>3. x \in T
    <3>1. n + 1 \in 1 .. N /\ n \in 0 .. n
      OBVIOUS
    <3>2. f[n] \in T /\ step[n + 1] \in [T -> T]
      BY <2>1, <3>1
    <3> QED
      BY <2>2, <3>2
  <2> DEFINE g == [i \in 0 .. n + 1 |-> IF i = n + 1 THEN x ELSE f[i]]
  <2>4. /\ g = [i \in 0 .. n + 1 |-> g[i]] /\ g[n + 1] = x
        /\ \A i \in 0 .. n : i \in 0 .. n + 1 /\ g[i] = f[i]
    OBVIOUS
  <2> HIDE DEF g
  <2>5. \A i \in 0 .. n + 1 : g[i] \in T
    <3> SUFFICES ASSUME NEW i \in 0 .. n + 1 PROVE g[i] \in T
      OBVIOUS
    <3>1. CASE i = n + 1
      BY <2>3, <2>4, <3>1
    <3>2. CASE i # n + 1
      <4>1. i \in 0 .. n
        BY <3>2
      <4> QED
        BY <2>1, <2>4, <4>1
    <3> QED
      BY <3>1, <3>2
  <2>6. \A i \in 1 .. n + 1 : g[i] = step[i][g[i - 1]]
    <3> SUFFICES ASSUME NEW i \in 1 .. n + 1 PROVE g[i] = step[i][g[i - 1]]
      OBVIOUS
    <3>1. CASE i = n + 1
      <4>1. i - 1 = n /\ n \in 0 .. n
        BY <3>1
      <4> QED
        BY <2>2, <2>4, <3>1, <4>1
    <3>2. CASE i # n + 1
      <4>1. i \in 1 .. n /\ i \in 0 .. n /\ i - 1 \in 0 .. n
        BY <3>2
      <4> QED
        BY <2>1, <2>4, <4>1
    <3> QED
      BY <3>1, <3>2
  <2>7. g \in [0 .. n + 1 -> T] /\ g[0] = a
    <3>1. g \in [0 .. n + 1 -> T]
      BY <2>4, <2>5
    <3>2. 0 \in 0 .. n
      OBVIOUS
    <3> QED
      BY <2>1, <2>4, <3>1, <3>2
  <2>8. Is(g, n + 1)
    BY <2>6, <2>7
  <2> QED
    BY <2>8
<1>3. N \in S
  <2> HIDE DEF S
  <2>1. \A n \in 0 .. N : n \in S
    BY <1>1, <1>2, UpTo
  <2> QED
    BY <2>1
<1>4. PICK f : Is(f, N)
  BY <1>3
<1>5. \A i \in 0 .. N : i # 0 => i \in 1 .. N
  OBVIOUS
<1>6. \A i \in 0 .. N : f[i] = IF i = 0 THEN a ELSE step[i][f[i - 1]]
  BY <1>4, <1>5
<1>7. Stepwise(f, N, a, step)
  BY <1>4, <1>6 DEF Stepwise
<1> QED
  BY <1>4, <1>7

(* Digits are a number.                                                     *)
LEMMA ToIntTyped == ASSUME NEW n \in Seq(0 .. 9) PROVE ToInt(n) \in Nat
<1> DEFINE L == Len(n)
           Is(f) == f = [i \in 0 .. L |-> IF i = 0 THEN 0 ELSE 10 * f[i - 1] + n[i]]
           step == [i \in 1 .. L |-> [t \in Nat |-> 10 * t + n[i]]]
           upto == CHOOSE f : Is(f)
<1>1. ToInt(n) = upto[L]
  BY DEF ToInt
<1>2. L \in Nat /\ \A i \in 1 .. L : n[i] \in 0 .. 9
  OBVIOUS
<1> HIDE DEF L
<1>3. \A i \in 1 .. L : \A t \in Nat : 10 * t + n[i] \in Nat
  BY <1>2
<1>4. PICK z : z = 0
  OBVIOUS
<1>5. PICK f \in [0 .. L -> Nat] : f = [i \in 0 .. L |-> IF i = 0 THEN 0 ELSE step[i][f[i - 1]]]
  <2>1. step \in [1 .. L -> [Nat -> Nat]] /\ z \in Nat
    BY <1>3, <1>4
  <2> HIDE DEF step
  <2>2. \E f \in [0 .. L -> Nat] : Stepwise(f, L, z, step)
    BY <1>2, <2>1, RecursionExists
  <2> QED
    BY <1>4, <2>2 DEF Stepwise
<1>6. \A i \in 0 .. L : i # 0 => step[i][f[i - 1]] = 10 * f[i - 1] + n[i]
  <2> SUFFICES ASSUME NEW i \in 0 .. L, i # 0 PROVE step[i][f[i - 1]] = 10 * f[i - 1] + n[i]
    OBVIOUS
  <2>1. i \in 1 .. L /\ i - 1 \in 0 .. L
    BY <1>2
  <2>2. f[i - 1] \in Nat
    BY <2>1
  <2> QED
    BY <2>1, <2>2
<1>7. Is(f)
  <2> HIDE DEF step
  <2> QED
    BY <1>5, <1>6
<1>8. Is(upto)
  BY <1>7
<1> HIDE DEF step, upto
<1> DEFINE S == {i \in 0 .. L : upto[i] \in Nat}
<1>9. upto[0] = 0 /\ \A i \in 0 .. L - 1 : upto[i + 1] = 10 * upto[i] + n[i + 1]
  BY <1>2, <1>8
<1>10. 0 \in S
  BY <1>2, <1>9
<1>11. ASSUME NEW i \in 0 .. L - 1, i \in S PROVE i + 1 \in S
  <2>1. PICK u, d, j : u = upto[i] /\ j = i + 1 /\ d = n[j]
    OBVIOUS
  <2>2. u \in Nat /\ d \in 0 .. 9 /\ j \in 0 .. L
    BY <1>2, <1>11, <2>1
  <2>3. upto[j] = 10 * u + d
    BY <1>9, <2>1
  <2>4. 10 * u + d \in Nat
    BY ONLY <2>2
  <2>5. upto[j] \in Nat
    BY ONLY <2>3, <2>4
  <2> QED
    BY <2>1, <2>2, <2>5
<1>12. \A i \in 0 .. L : i \in S
  <2> HIDE DEF S
  <2> QED
    BY <1>2, <1>10, <1>11, UpTo
<1> QED
  BY <1>1, <1>2, <1>12

(* Each value of a Roman numeral is written in letters.                      *)
LEMMA RomanValuesAre ==
    /\ DOMAIN RomanValues = 1 .. 13 /\ Len(RomanValues) = 13
    /\ \A i \in 1 .. 13 : RomanValues[i][1] \in Nat \ {0} /\ RomanValues[i][2] \in Seq(Letter)
    /\ \A v \in DOMAIN OneGlyph : OneGlyph[v] \in Seq(Letter)
<1>1. \A a, b \in Letter : <<a>> \in Seq(Letter) /\ <<a, b>> \in Seq(Letter)
  OBVIOUS
<1>2. "M" \in Letter /\ "D" \in Letter /\ "C" \in Letter /\ "L" \in Letter /\ "X" \in Letter
  BY DEF Letter
<1>3. "V" \in Letter /\ "I" \in Letter /\ "IX" \in Letter /\ "IV" \in Letter
  BY DEF Letter
<1>4. /\ <<"M">> \in Seq(Letter) /\ <<"C", "M">> \in Seq(Letter)
      /\ <<"D">> \in Seq(Letter) /\ <<"C", "D">> \in Seq(Letter)
      /\ <<"C">> \in Seq(Letter) /\ <<"X", "C">> \in Seq(Letter)
      /\ <<"L">> \in Seq(Letter) /\ <<"X", "L">> \in Seq(Letter)
  BY <1>1, <1>2
<1>5. /\ <<"X">> \in Seq(Letter) /\ <<"I", "X">> \in Seq(Letter)
      /\ <<"V">> \in Seq(Letter) /\ <<"I", "V">> \in Seq(Letter) /\ <<"I">> \in Seq(Letter)
      /\ <<"IV">> \in Seq(Letter) /\ <<"IX">> \in Seq(Letter)
  BY <1>1, <1>2, <1>3
<1>6. DOMAIN RomanValues = 1 .. 13 /\ Len(RomanValues) = 13
  BY DEF RomanValues
<1>7. \A i \in 1 .. 13 : RomanValues[i][1] \in Nat \ {0}
  BY DEF RomanValues
<1>8. /\ RomanValues[1][2] = <<"M">> /\ RomanValues[2][2] = <<"C", "M">>
      /\ RomanValues[3][2] = <<"D">> /\ RomanValues[4][2] = <<"C", "D">>
      /\ RomanValues[5][2] = <<"C">> /\ RomanValues[6][2] = <<"X", "C">>
      /\ RomanValues[7][2] = <<"L">> /\ RomanValues[8][2] = <<"X", "L">>
  BY DEF RomanValues
<1>9. /\ RomanValues[9][2] = <<"X">> /\ RomanValues[10][2] = <<"I", "X">>
      /\ RomanValues[11][2] = <<"V">> /\ RomanValues[12][2] = <<"I", "V">>
      /\ RomanValues[13][2] = <<"I">>
  BY DEF RomanValues
<1>10. \A i \in 1 .. 8 : RomanValues[i][2] \in Seq(Letter)
  <2>1. \A i \in 1 .. 8 : \/ i = 1 \/ i = 2 \/ i = 3 \/ i = 4
                          \/ i = 5 \/ i = 6 \/ i = 7 \/ i = 8
    OBVIOUS
  <2> QED
    BY <1>4, <1>8, <2>1
<1>11. \A i \in 9 .. 13 : RomanValues[i][2] \in Seq(Letter)
  <2>1. \A i \in 9 .. 13 : i = 9 \/ i = 10 \/ i = 11 \/ i = 12 \/ i = 13
    OBVIOUS
  <2> QED
    BY <1>5, <1>9, <2>1
<1>12. \A i \in 1 .. 13 : i \in 1 .. 8 \/ i \in 9 .. 13
  OBVIOUS
<1>13. \A v \in DOMAIN OneGlyph : OneGlyph[v] \in Seq(Letter)
  BY <1>5 DEF OneGlyph
<1> QED
  BY <1>6, <1>7, <1>10, <1>11, <1>12, <1>13

(* A Roman numeral is some of them.                                         *)
LEMMA RomanNumeralTyped ==
    ASSUME NEW value \in Nat, NEW unicode
    PROVE  RomanNumeral(value, unicode) \in Seq(Letter)
<1> DEFINE R == RomanValues
           Letters(i) == IF unicode /\ R[i][1] \in DOMAIN OneGlyph
                         THEN OneGlyph[R[i][1]] ELSE R[i][2]
           Is(f) == f = [i \in 0 .. Len(R) |-> IF i = 0 THEN value ELSE f[i - 1] % R[i][1]]
           step == [i \in 1 .. 13 |-> [t \in Nat |-> t % R[i][1]]]
           rest == CHOOSE f : Is(f)
           Part(i) == FlattenSeq([k \in 1 .. rest[i - 1] \div R[i][1] |-> Letters(i)])
           parts == [i \in DOMAIN R |-> Part(i)]
<1>1. RomanNumeral(value, unicode) = FlattenSeq(parts)
  BY DEF RomanNumeral
<1>2. /\ DOMAIN R = 1 .. 13 /\ Len(R) = 13
      /\ \A i \in 1 .. 13 : R[i][1] \in Nat \ {0} /\ R[i][2] \in Seq(Letter)
      /\ \A v \in DOMAIN OneGlyph : OneGlyph[v] \in Seq(Letter)
  BY RomanValuesAre
<1> HIDE DEF R
<1>3. PICK N : N = 13
  OBVIOUS
<1>4. N \in Nat
  BY <1>3
<1>5. \A m \in Nat : \A d \in Nat \ {0} : m % d \in Nat /\ m \div d \in Nat
  OBVIOUS
<1>6. step \in [1 .. N -> [Nat -> Nat]]
  BY <1>2, <1>3, <1>5
<1>7. PICK f \in [0 .. N -> Nat] : Stepwise(f, N, value, step)
  <2> HIDE DEF step
  <2> QED
    BY <1>4, <1>6, RecursionExists
<1>8. \A i \in 0 .. N : i # 0 => step[i][f[i - 1]] = f[i - 1] % R[i][1]
  <2> SUFFICES ASSUME NEW i \in 0 .. N, i # 0 PROVE step[i][f[i - 1]] = f[i - 1] % R[i][1]
    OBVIOUS
  <2>1. i \in 1 .. N /\ i - 1 \in 0 .. N
    BY <1>4
  <2>2. f[i - 1] \in Nat
    BY <2>1
  <2> QED
    BY <1>3, <2>1, <2>2
<1>9. Is(f)
  <2> HIDE DEF step
  <2> QED
    BY <1>2, <1>3, <1>7, <1>8 DEF Stepwise
<1>10. Is(rest)
  BY <1>9
<1> HIDE DEF step, rest, Letters
<1> DEFINE S == {i \in 0 .. N : rest[i] \in Nat}
<1>11. rest[0] = value /\ \A i \in 0 .. N - 1 : rest[i + 1] = rest[i] % R[i + 1][1]
  BY <1>2, <1>3, <1>10
<1>12. 0 \in S
  BY <1>4, <1>11
<1>13. ASSUME NEW i \in 0 .. N - 1, i \in S PROVE i + 1 \in S
  <2>1. i + 1 \in 1 .. 13 /\ i + 1 \in 0 .. N
    BY <1>3
  <2>2. R[i + 1][1] \in Nat \ {0}
    BY <1>2, <2>1
  <2> QED
    BY <1>5, <1>11, <1>13, <2>1, <2>2
<1>14. \A i \in 0 .. N : rest[i] \in Nat
  <2>1. \A i \in 0 .. N : i \in S
    <3> HIDE DEF S
    <3> QED
      BY <1>4, <1>12, <1>13, UpTo
  <2> QED
    BY <2>1
<1>15. \A i \in 1 .. N : Letters(i) \in Seq(Letter)
  BY <1>2, <1>3 DEF Letters
<1>16. ASSUME NEW i \in 1 .. N PROVE Part(i) \in Seq(Letter)
  <2>1. PICK n, s, l : /\ n = rest[i - 1] \div R[i][1] /\ l = Letters(i)
                       /\ s = [k \in 1 .. n |-> l]
    OBVIOUS
  <2>2. i - 1 \in 0 .. N /\ i \in 1 .. 13
    BY <1>3
  <2>3. n \in Nat
    BY <1>2, <1>5, <1>14, <2>1, <2>2
  <2>4. l \in Seq(Letter)
    BY <1>15, <2>1
  <2>5. s \in Seq(Seq(Letter))
    BY <2>1, <2>3, <2>4
  <2> QED
    BY <2>1, <2>5, FlattenTyped
<1>17. parts = [i \in 1 .. N |-> parts[i]] /\ \A i \in 1 .. N : parts[i] = Part(i)
  BY <1>2, <1>3
<1> HIDE DEF Part, parts
<1>18. parts \in Seq(Seq(Letter))
  BY <1>4, <1>16, <1>17, IsSeq
<1> QED
  BY <1>1, <1>18, FlattenTyped

(* Letters in a script are texts.                                           *)
LEMMA RomanTyped ==
    ASSUME NEW n, n # None => n \in Seq(0 .. 9), NEW unicode,
           NEW script \in RomanScript
    PROVE  Roman(n, unicode, script) \in Text \cup {None}
<1>1. PICK letters, N, t : /\ letters = RomanNumeral(ToInt(n), unicode) /\ N = Len(letters)
                           /\ t = [i \in DOMAIN letters |-> script \o letters[i]]
  OBVIOUS
<1>2. Roman(n, unicode, script) = None \/ (n # None /\ Roman(n, unicode, script) = t)
  BY <1>1 DEF Roman, InRange
<1>3. ASSUME n # None PROVE t \in Text
  <2>1. letters \in Seq(Letter)
    <3>1. n \in Seq(0 .. 9)
      BY <1>3
    <3>2. ToInt(n) \in Nat
      BY <3>1, ToIntTyped
    <3> QED
      BY Zenon, <1>1, <3>2, RomanNumeralTyped
  <2>2. N \in Nat /\ DOMAIN letters = 1 .. N /\ \A i \in 1 .. N : letters[i] \in Letter
    BY <1>1, <2>1
  <2>3. \A l \in Letter : script \o l \in RomanGlyph
    BY DEF RomanGlyph
  <2>4. RomanGlyph \subseteq Glyph
    BY NumeralGlyphs DEF NumeralGlyph
  <2>5. t = [i \in 1 .. N |-> t[i]] /\ \A i \in 1 .. N : t[i] = script \o letters[i]
    BY <1>1, <2>2
  <2>6. \A i \in 1 .. N : t[i] \in Glyph
    BY <2>2, <2>3, <2>4, <2>5
  <2>7. t \in Seq(Glyph)
    BY <2>2, <2>5, <2>6, IsSeq
  <2> QED
    BY <2>7 DEF Text
<1> QED
  BY <1>2, <1>3

(* So are circled numbers.                                                  *)
LEMMA CircledTyped ==
    ASSUME NEW n, n # None => n \in Seq(0 .. 9)
    PROVE  Circled(n) \in Text \cup {None}
<1>1. PICK top, k : top = <<5, 0>> /\ k = Len(n)
  OBVIOUS
<1>2. ~InRange(n, top) => Circled(n) = None
  BY <1>1 DEF Circled
<1>3. ASSUME InRange(n, top) PROVE Circled(n) \in Text \cup {None}
  <2>1. n \in Seq(0 .. 9) /\ n # <<>> /\ ~Exceeds(n, top)
    BY <1>3 DEF InRange
  <2>2. ~(k > 2)
    BY <1>1, <2>1 DEF Exceeds
  <2>3. k \in 1 .. 2 /\ n \in [1 .. k -> 0 .. 9]
    BY <1>1, <2>1, <2>2
  <2>4. \A j \in 1 .. 2 : \A m \in [1 .. j -> 0 .. 9] : InRange(m, top) => Circled(m) \in Text
    BY <1>1, LookupAssumption DEF LookupAssumption
  <2> QED
    BY <1>3, <2>3, <2>4
<1> QED
  BY <1>2, <1>3

(* A numeral is a text if there is one.                                     *)
LEMMA ConvertTyped ==
    ASSUME NEW run \in Seq(Digit), NEW type \in NumType
    PROVE  Convert(run, type) \in Text \cup {None}
<1>1. PICK n : n = Number(run)
  OBVIOUS
<1>2. n # None => n \in Seq(0 .. 9) /\ Len(n) <= 20
  BY <1>1, NumberTyped
<1>3. run \in Text
  <2>1. Digit \subseteq Glyph
    BY DigitGlyphs
  <2>2. run \in Seq(Glyph)
    BY <2>1
  <2> QED
    BY <2>2 DEF Text
<1>4. Mapped(run, Wide) \in Text /\ Mapped(run, KanjiDigit) \in Text /\ Shogi(run) \in Text
  BY DigitGlyphs, MappedTyped, ShogiTyped
<1>5. n # None => KanjiNumber(n, KanjiDigit, KanjiUnits, TRUE) \in Text
  BY <1>2, DigitGlyphs, UnitGlyphs, KanjiTyped
<1>6. n # None => KanjiNumber(n, DaijiDigit, DaijiUnits, FALSE) \in Text
  BY <1>2, DigitGlyphs, UnitGlyphs, KanjiTyped
<1>7. /\ Roman(n, TRUE, "unicode ") \in Text \cup {None}
      /\ Roman(n, TRUE, "unicode small ") \in Text \cup {None}
      /\ Roman(n, FALSE, "") \in Text \cup {None} /\ Roman(n, FALSE, "small ") \in Text \cup {None}
  <2>1. /\ \A s \in RomanScript : Roman(n, TRUE, s) \in Text \cup {None}
        /\ \A s \in RomanScript : Roman(n, FALSE, s) \in Text \cup {None}
    BY <1>2, RomanTyped
  <2>6. /\ "unicode " \in RomanScript /\ "unicode small " \in RomanScript
        /\ "" \in RomanScript /\ "small " \in RomanScript
    BY DEF RomanScript
  <2>2. Roman(n, TRUE, "unicode ") \in Text \cup {None}
    BY <2>1, <2>6
  <2>3. Roman(n, TRUE, "unicode small ") \in Text \cup {None}
    BY <2>1, <2>6
  <2>4. Roman(n, FALSE, "") \in Text \cup {None}
    BY <2>1, <2>6
  <2>5. Roman(n, FALSE, "small ") \in Text \cup {None}
    BY <2>1, <2>6
  <2> QED
    BY <2>2, <2>3, <2>4, <2>5
<1>8. Circled(n) \in Text \cup {None}
  BY <1>2, CircledTyped
<1>9. type \in {"0", "1", "2", "3", "5", "9", "6", "7", "a", "b", "c"}
  BY DEF NumType, SynthTypes, ToSet
<1>10. PICK v : v = Numeral(run, n, type)
  OBVIOUS
<1>11. type = "0" => v \in Text \cup {None}
  <2>1. type = "0" => v = run
    BY Zenon, <1>10 DEF Numeral
  <2> QED
    BY <1>3, <2>1
<1>12. type = "1" => v \in Text \cup {None}
  <2>1. type = "1" => v = Mapped(run, Wide)
    BY Zenon, <1>10 DEF Numeral
  <2> QED
    BY <1>4, <2>1
<1>13. type = "2" => v \in Text \cup {None}
  <2>1. type = "2" => v = Mapped(run, KanjiDigit)
    BY Zenon, <1>10 DEF Numeral
  <2> QED
    BY <1>4, <2>1
<1>14. type = "3" => v \in Text \cup {None}
  <2>1. type = "3" => v = IF n = None THEN None ELSE KanjiNumber(n, KanjiDigit, KanjiUnits, TRUE)
    BY Zenon, <1>10 DEF Numeral
  <2> QED
    BY <1>5, <2>1
<1>15. type = "5" => v \in Text \cup {None}
  <2>1. type = "5" => v = IF n = None THEN None ELSE KanjiNumber(n, DaijiDigit, DaijiUnits, FALSE)
    BY Zenon, <1>10 DEF Numeral
  <2> QED
    BY <1>6, <2>1
<1>16. type = "9" => v \in Text \cup {None}
  <2>1. type = "9" => v = IF run = <<>> THEN None ELSE Shogi(run)
    BY Zenon, <1>10 DEF Numeral
  <2> QED
    BY <1>4, <2>1
<1>17. type = "6" => v \in Text \cup {None}
  <2>1. type = "6" => v = Roman(n, TRUE, "unicode ")
    BY Zenon, <1>10 DEF Numeral
  <2> QED
    BY <1>7, <2>1
<1>18. type = "7" => v \in Text \cup {None}
  <2>1. type = "7" => v = Roman(n, TRUE, "unicode small ")
    BY Zenon, <1>10 DEF Numeral
  <2> QED
    BY <1>7, <2>1
<1>19. type = "a" => v \in Text \cup {None}
  <2>1. type = "a" => v = Roman(n, FALSE, "")
    BY Zenon, <1>10 DEF Numeral
  <2> QED
    BY <1>7, <2>1
<1>20. type = "b" => v \in Text \cup {None}
  <2>1. type = "b" => v = Roman(n, FALSE, "small ")
    BY Zenon, <1>10 DEF Numeral
  <2> QED
    BY <1>7, <2>1
<1>21. type = "c" => v \in Text \cup {None}
  <2>1. type = "c" => v = Circled(n)
    BY Zenon, <1>10 DEF Numeral
  <2> QED
    BY <1>8, <2>1
<1>22. v \in Text \cup {None}
  BY Zenon, <1>9, <1>11, <1>12, <1>13, <1>14, <1>15, <1>16, <1>17, <1>18, <1>19, <1>20, <1>21
<1> QED
  BY <1>1, <1>10, <1>22 DEF Convert

(* A reading's template is a text.                                          *)
LEMMA TemplateTyped == ASSUME NEW text \in Text PROVE Template(text) \in Text
<1> DEFINE begins == {i \in DOMAIN text : text[i] \in Digit => i = 1 \/ text[i - 1] \notin Digit}
<1>1. PICK N, starts, t, m, h : /\ N = Len(text) /\ starts = GlyphStarts(text)
                                /\ t = Template(text) /\ m = Len(starts) /\ h = "#"
  OBVIOUS
<1>2. N \in Nat /\ \A i \in 1 .. N : text[i] \in Glyph
  BY <1>1 DEF Text
<1>3. starts \in Seq(1 .. N)
  <2>1. starts = InOrder(begins, N)
    BY <1>1 DEF GlyphStarts
  <2> HIDE DEF begins
  <2> QED
    BY <1>2, <2>1, InOrderIs
<1>4. m \in Nat /\ DOMAIN starts = 1 .. m /\ \A k \in 1 .. m : starts[k] \in 1 .. N
  BY <1>1, <1>3
<1>5. /\ t = [k \in 1 .. m |-> t[k]]
      /\ \A k \in 1 .. m : t[k] = IF text[starts[k]] \in Digit THEN h ELSE text[starts[k]]
  BY <1>1, <1>4 DEF Template
<1>6. h \in Glyph
  BY <1>1, SyntaxGlyphs
<1>7. \A k \in 1 .. m : t[k] \in Glyph
  BY <1>2, <1>4, <1>5, <1>6
<1>8. t \in Seq(Glyph)
  BY <1>4, <1>5, <1>7, IsSeq
<1> QED
  BY <1>1, <1>8 DEF Text

(* The digits from a place on end somewhere.                                *)
RunEnd(text, i, j) == /\ \A k \in i .. j : text[k] \in Digit
                      /\ j = Len(text) \/ text[j + 1] \notin Digit

(* There is such an end.                                                    *)
LEMMA RunEnds ==
    ASSUME NEW text \in Text, NEW i \in 1 .. Len(text), text[i] \in Digit
    PROVE  \E j \in i .. Len(text) : RunEnd(text, i, j)
<1> DEFINE ends == {j \in i .. Len(text) : j = Len(text) \/ text[j + 1] \notin Digit}
<1>1. PICK N : N = Len(text)
  OBVIOUS
<1>2. N \in Nat
  BY <1>1 DEF Text
<1>3. ends \subseteq Nat /\ N \in ends /\ ends # {}
  BY <1>1, <1>2
<1>4. PICK j \in ends : \A x \in ends : j <= x
  <2> HIDE DEF ends
  <2> QED
    BY <1>3, LeastMember
<1>5. j \in i .. N
  BY <1>1, <1>4
<1>6. ASSUME NEW k \in i .. j PROVE text[k] \in Digit
  <2>1. CASE k = i
    BY <2>1
  <2>2. CASE k # i
    <3>1. PICK l : l = k - 1
      OBVIOUS
    <3>2. l \in i .. N /\ l < j /\ l + 1 = k /\ l # N
      BY <1>1, <1>2, <1>5, <2>2, <3>1
    <3>3. l \notin ends
      <4> HIDE DEF ends
      <4>1. j <= l => FALSE
        BY <1>2, <1>5, <3>2
      <4> QED
        BY <1>4, <4>1
    <3>4. text[l + 1] \in Digit
      BY <1>1, <3>2, <3>3
    <3> QED
      BY <3>2, <3>4
  <2> QED
    BY <2>1, <2>2
<1>7. j = N \/ text[j + 1] \notin Digit
  BY <1>1, <1>4
<1> QED
  BY <1>1, <1>5, <1>6, <1>7 DEF RunEnd

(* A part of a sequence.                                                    *)
LEMMA PartIs ==
    ASSUME NEW T, NEW s \in Seq(T), NEW i \in 1 .. Len(s), NEW j \in i .. Len(s),
           NEW n, n = j - i + 1, NEW t, t = SubSeq(s, i, j)
    PROVE  t \in Seq(T) /\ Len(t) = n /\ \A x \in 1 .. n : t[x] = s[i + x - 1]
<1>1. /\ Len(s) \in Nat /\ n \in Nat /\ \A x \in 1 .. Len(s) : s[x] \in T
      /\ \A x \in 1 .. n : i + x - 1 \in 1 .. Len(s)
  OBVIOUS
<1>2. t = [x \in 1 .. n |-> t[x]] /\ \A x \in 1 .. n : t[x] = s[i + x - 1]
  OBVIOUS
<1>3. \A x \in 1 .. n : t[x] \in T
  BY <1>1, <1>2
<1>4. t \in Seq(T)
  BY <1>1, <1>2, <1>3, IsSeq
<1>5. Len(t) = n
  BY <1>1, <1>2, <1>4
<1> QED
  BY <1>2, <1>4, <1>5

(* The runs of a reading are of digits.                                      *)
LEMMA RunsAre ==
    ASSUME NEW text \in Text
    PROVE  /\ Runs(text) \in Seq(Seq(Digit))
           /\ \A k \in DOMAIN Runs(text) : Runs(text)[k] # <<>>
<1> DEFINE begins == {i \in DOMAIN text : text[i] \in Digit => i = 1 \/ text[i - 1] \notin Digit}
           digits == {i \in DOMAIN text : text[i] \in Digit}
           End(i) == CHOOSE j \in i .. Len(text) : RunEnd(text, i, j)
<1>1. PICK N, starts, first, r, m : /\ N = Len(text) /\ starts = GlyphStarts(text)
                                    /\ first = Among(starts, digits)
                                    /\ r = Runs(text) /\ m = Len(first)
  OBVIOUS
<1>2. text \in Seq(Glyph) /\ N \in Nat /\ DOMAIN text = 1 .. N
  BY <1>1 DEF Text
<1>3. starts \in Seq(1 .. N)
  <2>1. starts = InOrder(begins, N)
    BY <1>1 DEF GlyphStarts
  <2> HIDE DEF begins
  <2> QED
    BY <1>2, <2>1, InOrderIs
<1>4. first \in Seq(1 .. N) /\ \E f : Places(f, first, starts, digits, Len(starts))
  <2> HIDE DEF digits
  <2> QED
    BY <1>1, <1>3, AmongPlaces
<1>5. m \in Nat /\ DOMAIN first = 1 .. m /\ \A k \in 1 .. m : first[k] \in 1 .. N
  <2>1. first \in Seq(1 .. N) /\ m = Len(first)
    BY <1>1, <1>4
  <2> QED
    BY ONLY <2>1, ListIs
<1>6. \A k \in 1 .. m : first[k] \in digits
  <2> HIDE DEF digits
  <2> QED
    BY <1>1, <1>4 DEF Places
<1>7. r = [k \in DOMAIN first |-> SubSeq(text, first[k], End(first[k]))]
  <2>1. Runs(text) =
          LET f == Among(GlyphStarts(text), digits)
          IN  [k \in DOMAIN f |-> SubSeq(text, f[k], End(f[k]))]
    BY DEF Runs, RunEnd
  <2> HIDE DEF End, digits
  <2> QED
    BY <1>1, <2>1
<1>8. r = [k \in 1 .. m |-> r[k]] /\ \A k \in 1 .. m : r[k] = SubSeq(text, first[k], End(first[k]))
  <2> HIDE DEF End
  <2> QED
    BY <1>5, <1>7
<1>9. ASSUME NEW k \in 1 .. m PROVE r[k] \in Seq(Digit) /\ r[k] # <<>>
  <2>1. PICK i, j, s : i = first[k] /\ j = End(i) /\ s = SubSeq(text, i, j)
    OBVIOUS
  <2>2. i \in 1 .. N /\ text[i] \in Digit
    BY <1>5, <1>6, <2>1
  <2>3. j \in i .. N /\ RunEnd(text, i, j)
    BY <1>1, <2>1, <2>2, RunEnds
  <2>4. \A x \in i .. j : text[x] \in Digit
    BY <2>3 DEF RunEnd
  <2>5. PICK n : n = j - i + 1
    OBVIOUS
  <2>6. n \in Nat /\ \A x \in 1 .. n : i + x - 1 \in i .. j
    BY <1>2, <2>2, <2>3, <2>5
  <2>7. s \in Seq(Glyph) /\ Len(s) = n /\ \A x \in 1 .. n : s[x] = text[i + x - 1]
    <3>1. /\ text \in Seq(Glyph) /\ i \in 1 .. Len(text) /\ j \in i .. Len(text)
          /\ n = j - i + 1 /\ s = SubSeq(text, i, j)
      BY <1>1, <1>2, <2>1, <2>2, <2>3, <2>5
    <3> QED
      BY ONLY <3>1, PartIs
  <2>8. \A x \in 1 .. Len(s) : s[x] \in Digit
    BY <2>4, <2>6, <2>7
  <2>9. s \in Seq(Digit)
    BY <2>7, <2>8, SeqIsList, ListTyped
  <2>10. n > 0
    BY <1>2, <2>2, <2>3, <2>5
  <2>11. s # <<>>
    <3>1. ASSUME s = <<>> PROVE FALSE
      <4>1. Len(s) = 0
        BY <3>1
      <4> QED
        BY <2>7, <2>10, <4>1
    <3> QED
      BY <3>1
  <2> QED
    BY <1>8, <2>1, <2>9, <2>11
<1> HIDE DEF End
<1>10. r \in Seq(Seq(Digit))
  BY <1>5, <1>8, <1>9, IsSeq
<1>11. DOMAIN r = 1 .. m
  BY <1>8
<1> QED
  BY <1>1, <1>9, <1>10, <1>11

(* They are numbers.                                                        *)
LEMMA RunsTyped == ASSUME NEW text \in Text PROVE Runs(text) \in Seq(Seq(Digit))
  BY RunsAre

(* Synthesized words are texts.                                             *)
LEMMA SynthesizeTyped == ASSUME NEW runs \in Seq(Seq(Digit)) PROVE Synthesize(runs) \in Seq(Text)
<1> DEFINE can == {type \in NumType : \A k \in DOMAIN runs : Convert(runs[k], type) # None}
<1>1. PICK types, m, s : types = Among(SynthTypes, can) /\ m = Len(types) /\ s = Synthesize(runs)
  OBVIOUS
<1>2. SynthTypes \in Seq(NumType)
  <2>1. DOMAIN SynthTypes = 1 .. 11 /\ SynthTypes = [i \in 1 .. 11 |-> SynthTypes[i]]
    BY DEF SynthTypes
  <2>2. \A i \in 1 .. 11 : SynthTypes[i] \in NumType
    BY <2>1 DEF NumType, ToSet
  <2>3. PICK n, t : n = 11 /\ t = SynthTypes
    OBVIOUS
  <2>4. n \in Nat /\ t = [i \in 1 .. n |-> t[i]] /\ \A i \in 1 .. n : t[i] \in NumType
    BY <2>1, <2>2, <2>3
  <2>5. t \in Seq(NumType)
    BY ONLY <2>4, IsSeq
  <2> QED
    BY <2>3, <2>5
<1>3. types \in Seq(NumType) /\ \E f : Places(f, types, SynthTypes, can, Len(SynthTypes))
  <2> HIDE DEF can
  <2> QED
    BY <1>1, <1>2, AmongPlaces
<1>4. m \in Nat /\ DOMAIN types = 1 .. m
  BY <1>1, <1>3
<1>5. \A t \in 1 .. m : types[t] \in can
  <2> HIDE DEF can
  <2> QED
    BY <1>1, <1>3 DEF Places
<1>6. CASE runs = <<>>
  <2>1. s = <<>>
    BY <1>1, <1>6 DEF Synthesize
  <2> QED
    BY <1>1, <2>1
<1>7. CASE runs # <<>>
  <2>1. s = [t \in DOMAIN types |-> FlattenSeq([k \in DOMAIN runs |-> Convert(runs[k], types[t])])]
    BY <1>1, <1>7 DEF Synthesize
  <2>2. s = [t \in 1 .. m |-> s[t]]
    BY <1>4, <2>1
  <2>3. ASSUME NEW t \in 1 .. m PROVE s[t] \in Text
    <3>1. PICK n, p, type : /\ n = Len(runs) /\ type = types[t]
                            /\ p = [k \in DOMAIN runs |-> Convert(runs[k], type)]
      OBVIOUS
    <3>2. n \in Nat /\ DOMAIN runs = 1 .. n /\ \A k \in 1 .. n : runs[k] \in Seq(Digit)
      BY <3>1
    <3>3. type \in NumType /\ \A k \in 1 .. n : Convert(runs[k], type) # None
      BY <1>5, <3>1, <3>2
    <3>4. p = [k \in 1 .. n |-> p[k]] /\ \A k \in 1 .. n : p[k] = Convert(runs[k], type)
      BY <3>1, <3>2
    <3>5. \A k \in 1 .. n : p[k] \in Text
      BY <3>2, <3>3, <3>4, ConvertTyped
    <3>6. p \in Seq(Text)
      BY <3>2, <3>4, <3>5, IsSeq
    <3>7. FlattenSeq(p) \in Text
      BY <3>6, FlattenTyped DEF Text
    <3> QED
      BY <1>4, <2>1, <3>1, <3>7
  <2>4. s \in Seq(Text)
    BY <1>4, <2>2, <2>3, IsSeq
  <2> QED
    BY <1>1, <2>4
<1> QED
  BY <1>6, <1>7

(* Places in a table with n columns and its rows.                            *)
LEMMA TableIs ==
    ASSUME NEW L \in Nat, NEW n \in Nat
    PROVE  /\ L * n \in Nat /\ (n = 0 => L * n = 0)
           /\ \A m \in 1 .. L * n :
                 /\ n # 0 /\ ((m - 1) \div n) + 1 \in 1 .. L /\ ((m - 1) % n) + 1 \in 1 .. n
                 /\ m = ((m - 1) \div n) * n + ((m - 1) % n) + 1
<1>1. L * n \in Nat /\ (n = 0 => L * n = 0)
  OBVIOUS
<1>2. ASSUME NEW m \in 1 .. L * n
      PROVE  /\ n # 0 /\ ((m - 1) \div n) + 1 \in 1 .. L /\ ((m - 1) % n) + 1 \in 1 .. n
             /\ m = ((m - 1) \div n) * n + ((m - 1) % n) + 1
  <2>1. PICK k, q, r : k = m - 1 /\ q = k \div n /\ r = k % n
    OBVIOUS
  <2>2. n # 0
    BY <1>1
  <2>3. k \in Nat /\ k < L * n
    BY <1>1, <2>1
  <2>4. q \in Nat /\ r \in 0 .. n - 1
    BY <2>1, <2>2, <2>3
  <2>5. k = q * n + r
    BY <2>1, <2>2, <2>3
  <2>6. q * n < L * n
    <3>1. q * n \in Nat
      BY <2>4
    <3> QED
      BY <1>1, <2>3, <2>4, <2>5, <3>1
  <2>7. q < L
    BY <2>2, <2>4, <2>6
  <2>8. m = k + 1
    BY <1>1, <2>1
  <2> QED
    BY <2>1, <2>2, <2>4, <2>5, <2>7, <2>8
<1> QED
  BY <1>1, <1>2

(* A place in the table, by its row and its column.                          *)
At(m, n, a, b) == ((m - 1) \div n) + 1 = a /\ ((m - 1) % n) + 1 = b

(* There is one for each row and column.                                     *)
LEMMA TableHas ==
    ASSUME NEW L \in Nat, NEW n \in Nat, NEW N, N = L * n, NEW a \in 1 .. L, NEW b \in 1 .. n
    PROVE  \E m \in 1 .. N : At(m, n, a, b)
<1>1. PICK q, r, m : q = a - 1 /\ r = b - 1 /\ m = q * n + r + 1
  OBVIOUS
<1>2. n \in Nat \ {0} /\ q \in Nat /\ q < L /\ r \in 0 .. n - 1
  BY <1>1
<1>3. q * n \in Nat /\ L * n \in Nat /\ q * n + n <= L * n
  BY <1>2
<1>4. m \in 1 .. L * n /\ m - 1 = q * n + r
  BY <1>1, <1>2, <1>3
<1>5. (m - 1) \div n = q
  BY <1>2, <1>4
<1>6. (m - 1) % n = r
  BY <1>2, <1>4
<1>7. q + 1 = a /\ r + 1 = b
  BY <1>1
<1>8. At(m, n, a, b)
  BY <1>5, <1>6, <1>7 DEF At
<1> QED
  BY <1>4, <1>8

(* Every result so far, extended by every option.                            *)
Product(results, options) ==
    [m \in 1 .. Len(results) * Len(options) |->
        results[((m - 1) \div Len(options)) + 1] \o options[((m - 1) % Len(options)) + 1]]

(* Combining is that, capped.                                               *)
LEMMA CombinedIs ==
    \A results, options : Combined(results, options) = Capped(Product(results, options))
  BY DEF Combined, Product

(* They are texts.                                                          *)
LEMMA ProductTyped ==
    ASSUME NEW results \in Seq(Text), NEW options \in Seq(Text)
    PROVE  /\ Product(results, options) \in Seq(Text)
           /\ Len(Product(results, options)) = Len(results) * Len(options)
           /\ \A m \in 1 .. Len(results) * Len(options) :
                 Product(results, options)[m] =
                     results[((m - 1) \div Len(options)) + 1]
                         \o options[((m - 1) % Len(options)) + 1]
<1>1. PICK L, n, N, p : /\ L = Len(results) /\ n = Len(options) /\ N = L * n
                        /\ p = Product(results, options)
  OBVIOUS
<1>2. /\ L \in Nat /\ n \in Nat /\ \A i \in 1 .. L : results[i] \in Text
      /\ \A i \in 1 .. n : options[i] \in Text
  BY <1>1, ListIs
<1>3. N \in Nat /\ \A m \in 1 .. N : ((m - 1) \div n) + 1 \in 1 .. L /\ ((m - 1) % n) + 1 \in 1 .. n
  BY <1>1, <1>2, TableIs
<1>4. /\ p = [m \in 1 .. N |-> p[m]]
      /\ \A m \in 1 .. N : p[m] = results[((m - 1) \div n) + 1] \o options[((m - 1) % n) + 1]
  BY <1>1 DEF Product
<1>5. \A m \in 1 .. N : p[m] \in Text
  BY <1>2, <1>3, <1>4, JoinTyped
<1>6. p \in Seq(Text)
  BY <1>3, <1>4, <1>5, IsSeq
<1>7. Len(p) = N
  BY <1>3, <1>4, <1>6
<1> QED
  BY <1>1, <1>4, <1>6, <1>7

(* There are as many as the table has places.                               *)
LEMMA ProductSize ==
    ASSUME NEW results \in Seq(Text), NEW options \in Seq(Text),
           NEW p, p = Product(results, options)
    PROVE  p \in Seq(Text) /\ Len(p) = Len(results) * Len(options)
  BY ProductTyped

(* As many of the first as the cap allows are.                               *)
LEMMA CappedTyped ==
    ASSUME NEW T, NEW s \in Seq(T)
    PROVE  /\ Capped(s) \in Seq(T) /\ Len(Capped(s)) <= Len(s)
           /\ \A i \in 1 .. Len(Capped(s)) : i \in 1 .. Len(s) /\ Capped(s)[i] = s[i]
           /\ Len(s) <= MaxExpansions => Capped(s) = s
<1>1. PICK c : c = Capped(s)
  OBVIOUS
<1>2. IsList(s)
  BY SeqIsList
<1>3. /\ IsList(c) /\ Len(c) <= Len(s) /\ \A i \in 1 .. Len(c) : c[i] = s[i]
      /\ Len(s) <= MaxExpansions => c = s
  BY <1>1, <1>2, CappedIs
<1>4. Len(c) \in Nat /\ Len(s) \in Nat
  BY <1>2, <1>3, ListIs DEF IsList
<1>5. \A i \in 1 .. Len(c) : i \in 1 .. Len(s)
  BY <1>3, <1>4
<1>6. \A i \in 1 .. Len(s) : s[i] \in T
  BY ListIs
<1>7. c \in Seq(T)
  BY <1>3, <1>5, <1>6, ListTyped
<1> QED
  BY <1>1, <1>3, <1>5, <1>7

(* The results combined are texts.                                          *)
LEMMA CombinedTyped ==
    ASSUME NEW results \in Seq(Text), NEW options \in Seq(Text)
    PROVE  Combined(results, options) \in Seq(Text)
  BY CombinedIs, ProductTyped, CappedTyped

(* The markers, "#4" among them.                                            *)
Types == NumType \cup {"4"}

(* A marker takes a run, if there are as many.                               *)
LEMMA RunIndexIs ==
    ASSUME NEW word, NEW types, NEW i \in Nat, IsMarker(word, i, types), i >= 1
    PROVE  RunIndex(word, i, types) \in Nat \ {0}
<1> DEFINE marks == {j \in 1 .. i : IsMarker(word, j, types)}
<1>1. IsFiniteSet(1 .. i) /\ marks \in SUBSET (1 .. i)
  BY FS_Interval
<1>2. i \in marks
  OBVIOUS
<1> HIDE DEF marks
<1>3. IsFiniteSet(marks) /\ marks # {}
  BY <1>1, <1>2, FS_Subset
<1>4. Cardinality(marks) \in Nat /\ Cardinality(marks) # 0
  BY <1>3, FS_CardinalityType, FS_EmptySet
<1> QED
  BY <1>4 DEF RunIndex, marks

(* What a marker may stand for are texts.                                    *)
LEMMA OptionOfTyped ==
    ASSUME NEW t \in Text \cup {None}
    PROVE  OptionOf(t) \in Seq(Text)
  BY DEF OptionOf

(* A list of texts for each run.                                            *)
Looked(runs, lookup) ==
    runs \in Seq(Seq(Digit)) /\ \A run \in ToSet(runs) : lookup[run] \in Seq(Text)

(* What a marker may stand for are texts.                                   *)
LEMMA OptionsTyped ==
    ASSUME NEW word, NEW i \in Nat, i >= 1, IsMarker(word, i, Types),
           NEW runs, NEW lookup, Looked(runs, lookup)
    PROVE  Options(word, i, runs, lookup) \in Seq(Text)
<1>1. PICK k, c : k = RunIndex(word, i, Types) /\ c = word[i + 1]
  OBVIOUS
<1>2. k \in Nat \ {0}
  BY <1>1, RunIndexIs
<1>3. c \in Types
  BY <1>1 DEF IsMarker
<1>4. Options(word, i, runs, lookup) =
        IF k > Len(runs) THEN <<>>
        ELSE IF c = "4" THEN lookup[runs[k]] ELSE OptionOf(Convert(runs[k], c))
  BY <1>1 DEF Options, Types
<1>5. CASE k > Len(runs)
  BY <1>4, <1>5
<1>6. CASE ~(k > Len(runs))
  <2>1. runs \in Seq(Seq(Digit)) /\ \A run \in ToSet(runs) : lookup[run] \in Seq(Text)
    BY DEF Looked
  <2>2. k \in 1 .. Len(runs)
    BY <1>2, <1>6, <2>1
  <2>3. runs[k] \in Seq(Digit) /\ runs[k] \in ToSet(runs)
    BY <2>1, <2>2, ListIs
  <2>4. c = "4" => Options(word, i, runs, lookup) \in Seq(Text)
    BY <1>4, <1>6, <2>1, <2>3
  <2>5. ASSUME c # "4" PROVE Options(word, i, runs, lookup) \in Seq(Text)
    <3>1. c \in NumType
      BY <1>3, <2>5 DEF Types
    <3>2. OptionOf(Convert(runs[k], c)) \in Seq(Text)
      BY <2>3, <3>1, ConvertTyped, OptionOfTyped
    <3> QED
      BY <1>4, <1>6, <2>5, <3>2
  <2> QED
    BY <2>4, <2>5
<1> QED
  BY <1>5, <1>6

(* The results after a glyph of the word.                                    *)
Grown(results, word, i, runs, lookup) ==
    IF Follows(word, i, Types) THEN results
    ELSE IF IsMarker(word, i, Types) THEN Combined(results, Options(word, i, runs, lookup))
    ELSE Combined(results, <<<<word[i]>>>>)

(* The results stay texts.                                                  *)
LEMMA GrownTyped ==
    ASSUME NEW results \in Seq(Text), NEW word \in Text, NEW i \in 1 .. Len(word),
           NEW runs, NEW lookup, Looked(runs, lookup)
    PROVE  Grown(results, word, i, runs, lookup) \in Seq(Text)
<1>1. i \in Nat /\ i >= 1 /\ word[i] \in Glyph
  BY DEF Text
<1>2. <<word[i]>> \in Text
  BY <1>1, OneTyped
<1>3. <<<<word[i]>>>> \in Seq(Text)
  BY <1>2
<1>4. Combined(results, <<<<word[i]>>>>) \in Seq(Text)
  BY <1>3, CombinedTyped
<1>5. IsMarker(word, i, Types) => Combined(results, Options(word, i, runs, lookup)) \in Seq(Text)
  BY <1>1, OptionsTyped, CombinedTyped
<1> QED
  BY <1>4, <1>5 DEF Grown

(* The recursion of the expansion.                                          *)
Expanding(f, word, runs, lookup) ==
    f = [i \in 0 .. Len(word) |-> IF i = 0 THEN OneField
                                  ELSE Grown(f[i - 1], word, i, runs, lookup)]

(* The expansion is the last of its results.                                *)
LEMMA ExpansionIs ==
    ASSUME NEW word \in Text, NEW runs, NEW lookup, Looked(runs, lookup)
    PROVE  \E f \in [0 .. Len(word) -> Seq(Text)] :
              /\ ExpandWithRecursiveLookup(word, runs, lookup) = f[Len(word)]
              /\ f[0] = OneField
              /\ \A i \in 1 .. Len(word) : f[i] = Grown(f[i - 1], word, i, runs, lookup)
<1> DEFINE after == CHOOSE f : Expanding(f, word, runs, lookup)
           step == [i \in 1 .. Len(word) |-> [r \in Seq(Text) |-> Grown(r, word, i, runs, lookup)]]
<1>1. PICK N : N = Len(word)
  OBVIOUS
<1>2. N \in Nat
  BY <1>1 DEF Text
<1>3. OneField \in Seq(Text)
  BY ShortText DEF OneField
<1>4. step \in [1 .. N -> [Seq(Text) -> Seq(Text)]]
  BY <1>1, GrownTyped
<1>5. PICK f \in [0 .. N -> Seq(Text)] : Stepwise(f, N, OneField, step)
  <2> HIDE DEF step
  <2> QED
    BY <1>2, <1>3, <1>4, RecursionExists
<1>6. \A i \in 0 .. N : i # 0 => step[i][f[i - 1]] = Grown(f[i - 1], word, i, runs, lookup)
  <2> SUFFICES ASSUME NEW i \in 0 .. N, i # 0
               PROVE  step[i][f[i - 1]] = Grown(f[i - 1], word, i, runs, lookup)
    OBVIOUS
  <2>1. i \in 1 .. N /\ i - 1 \in 0 .. N
    BY <1>2
  <2>2. f[i - 1] \in Seq(Text)
    BY <2>1
  <2> QED
    BY <1>1, <2>1, <2>2
<1>7. Expanding(f, word, runs, lookup)
  <2> HIDE DEF step
  <2> QED
    BY <1>1, <1>5, <1>6 DEF Stepwise, Expanding
<1>8. Expanding(after, word, runs, lookup)
  BY <1>7
<1>9. ExpandWithRecursiveLookup(word, runs, lookup) = after[N]
  BY <1>1 DEF ExpandWithRecursiveLookup, Expanding, Grown, Types, OneField
<1> HIDE DEF after, step
<1>10. /\ after = [i \in 0 .. N |-> after[i]] /\ after[0] = OneField
       /\ \A i \in 0 .. N : i # 0 => after[i] = Grown(after[i - 1], word, i, runs, lookup)
  <2>1. after = [i \in 0 .. N |-> IF i = 0 THEN OneField
                                 ELSE Grown(after[i - 1], word, i, runs, lookup)]
    BY <1>1, <1>8 DEF Expanding
  <2>2. 0 \in 0 .. N
    BY <1>2
  <2> QED
    BY ONLY <2>1, <2>2
<1> DEFINE S == {i \in 0 .. N : after[i] \in Seq(Text)}
<1>11. 0 \in S
  BY <1>2, <1>3, <1>10
<1>12. ASSUME NEW i \in 0 .. N - 1, i \in S PROVE i + 1 \in S
  <2>1. PICK j : j = i + 1
    OBVIOUS
  <2>2. j \in 1 .. Len(word) /\ j \in 0 .. N /\ j # 0 /\ j - 1 = i /\ after[i] \in Seq(Text)
    BY <1>1, <1>2, <1>12, <2>1
  <2>3. after[j] = Grown(after[i], word, j, runs, lookup)
    BY <1>10, <2>2
  <2>4. after[j] \in Seq(Text)
    BY <2>2, <2>3, GrownTyped
  <2> QED
    BY <2>1, <2>2, <2>4
<1>13. \A i \in 0 .. N : after[i] \in Seq(Text)
  <2>1. \A i \in 0 .. N : i \in S
    <3> HIDE DEF S
    <3> QED
      BY <1>2, <1>11, <1>12, UpTo
  <2> QED
    BY <2>1
<1>14. after \in [0 .. N -> Seq(Text)]
  BY <1>10, <1>13
<1>15. \A i \in 1 .. N : after[i] = Grown(after[i - 1], word, i, runs, lookup)
  <2>1. \A i \in 1 .. N : i \in 0 .. N /\ i # 0
    OBVIOUS
  <2> QED
    BY <1>10, <2>1
<1> QED
  BY <1>1, <1>9, <1>10, <1>14, <1>15

(* The words a candidate offers are texts.                                  *)
LEMMA WordsForTyped ==
    ASSUME NEW word \in Text, NEW runs, NEW lookup, Looked(runs, lookup)
    PROVE  WordsFor(word, runs, lookup) \in Seq(Text)
<1>1. PICK w : w = ExpandWithRecursiveLookup(word, runs, lookup)
  OBVIOUS
<1>2. w \in Seq(Text)
  <2>1. PICK f \in [0 .. Len(word) -> Seq(Text)] : w = f[Len(word)]
    BY <1>1, ExpansionIs
  <2>2. Len(word) \in 0 .. Len(word)
    BY DEF Text
  <2> QED
    BY <2>1, <2>2
<1>3. <<word>> \in Seq(Text)
  OBVIOUS
<1> QED
  BY <1>1, <1>2, <1>3 DEF WordsFor

(* What is offered.                                                         *)
Offered == [word : Text, template : Text, annotation : Text \cup {None}, synthetic : BOOLEAN]

(* The offer of a word of a candidate.                                      *)
LEMMA OfferTyped ==
    ASSUME NEW w \in Text, NEW c \in Plainly, NEW o, o = Offer(w, c)
    PROVE  /\ o \in Offered /\ o.word = w /\ o.template = c.word /\ o.annotation = c.annotation
           /\ o.synthetic = FALSE /\ o.template # <<>>
<1>1. c.word \in Text /\ c.annotation \in Text \cup {None} /\ c.word # <<>>
  BY CandidateIs DEF Plainly
<1>2. PICK e \in BOOLEAN : e = FALSE
  OBVIOUS
<1>3. o = [word |-> w, template |-> c.word, annotation |-> c.annotation, synthetic |-> e]
  BY <1>2 DEF Offer
<1> QED
  BY <1>1, <1>2, <1>3 DEF Offered

(* The offer of a synthesized word.                                         *)
LEMMA SyntheticTyped ==
    ASSUME NEW w \in Text, NEW o, o = Synthetic(w)
    PROVE  o \in Offered /\ o.word = w /\ o.synthetic = TRUE
<1> PICK e \in BOOLEAN : e = TRUE
  OBVIOUS
<1>1. PICK t, a : e = TRUE /\ t = <<>> /\ a = None
  OBVIOUS
<1>2. o = [word |-> w, template |-> t, annotation |-> a, synthetic |-> e]
  BY <1>1 DEF Synthetic
<1>3. t \in Text /\ a \in Text \cup {None}
  BY <1>1, ShortText
<1> QED
  BY <1>1, <1>2, <1>3 DEF Offered

(* A candidate's offers are one for each word.                              *)
LEMMA OffersTyped ==
    ASSUME NEW words \in Seq(Text), NEW c \in Plainly
    PROVE  /\ Offers(c, words) \in Seq(Offered) /\ Len(Offers(c, words)) = Len(words)
           /\ \A i \in 1 .. Len(words) : Offers(c, words)[i] = Offer(words[i], c)
<1>1. PICK N, o : N = Len(words) /\ o = Offers(c, words)
  OBVIOUS
<1>2. N \in Nat /\ DOMAIN words = 1 .. N /\ \A i \in 1 .. N : words[i] \in Text
  BY <1>1
<1>3. o = [i \in 1 .. N |-> o[i]] /\ \A i \in 1 .. N : o[i] = Offer(words[i], c)
  BY <1>1, <1>2 DEF Offers
<1>4. \A i \in 1 .. N : o[i] \in Offered
  <2>1. \A w \in Text : Offer(w, c) \in Offered
    BY OfferTyped
  <2> QED
    BY <1>2, <1>3, <2>1
<1>5. o \in Seq(Offered)
  BY <1>2, <1>3, <1>4, IsSeq
<1>6. Len(o) = N
  BY <1>2, <1>3, <1>5
<1> QED
  BY <1>1, <1>3, <1>5, <1>6

(* The synthesized offers are one for each word.                            *)
LEMMA SyntheticsTyped ==
    ASSUME NEW words \in Seq(Text)
    PROVE  /\ Synthetics(words) \in Seq(Offered) /\ Len(Synthetics(words)) = Len(words)
           /\ \A i \in 1 .. Len(words) : Synthetics(words)[i].synthetic = TRUE
<1>1. PICK N, o : N = Len(words) /\ o = Synthetics(words)
  OBVIOUS
<1>2. N \in Nat /\ DOMAIN words = 1 .. N /\ \A i \in 1 .. N : words[i] \in Text
  BY <1>1
<1>3. o = [i \in 1 .. N |-> o[i]] /\ \A i \in 1 .. N : o[i] = Synthetic(words[i])
  BY <1>1, <1>2 DEF Synthetics
<1>4. \A i \in 1 .. N : o[i] \in Offered /\ o[i].synthetic = TRUE
  BY <1>2, <1>3, SyntheticTyped
<1>5. o \in Seq(Offered)
  BY <1>2, <1>3, <1>4, IsSeq
<1>6. Len(o) = N
  BY <1>2, <1>3, <1>5
<1> QED
  BY <1>1, <1>4, <1>5, <1>6

(* What a conversion has to do with: words for the runs, the words of each    *)
(* candidate, all offers from the dictionaries, and those that are seen.     *)
Lookups(runs)    == [run \in ToSet(runs) |-> RecursiveLookup(run)]
Brings(text, c)  == WordsFor(c.word, Runs(text), Lookups(Runs(text)))
Bringing(text)   ==
    [i \in DOMAIN Shown(text) |-> Offers(Shown(text)[i], Brings(text, Shown(text)[i]))]
AllOffers(text)  == FlattenSeq(Bringing(text))
SeenOffers(text) == Visible(AllOffers(text), Hidden(Template(text)))
Synths(text)     == Synthetics(Synthesize(Runs(text)))

(* Those are the parts of a conversion.                                     *)
LEMMA CandidatesIs ==
    ASSUME NEW text
    PROVE  Candidates(text) = WithSynthetics(SeenOffers(text), Template(text), Synths(text))
<1>1. SeenOffers(text) =
        FromDictionaries(Shown(text), Hidden(Template(text)), Runs(text), Lookups(Runs(text)))
  BY DEF SeenOffers, AllOffers, Bringing, Brings, FromDictionaries
<1>2. IgnoreSet(AllFound(Template(text))) = Hidden(Template(text))
  BY HiddenIs
<1> QED
  BY <1>1, <1>2 DEF Candidates, CandidatesOf, Shown, Lookups, Synths

(* The words for "#4" are texts.                                            *)
LEMMA LookedUp ==
    ASSUME Dictionaries, NEW runs \in Seq(Seq(Digit))
    PROVE  Looked(runs, Lookups(runs))
<1> SUFFICES ASSUME NEW run \in ToSet(runs) PROVE Lookups(runs)[run] \in Seq(Text)
  BY DEF Looked
<1>1. PICK w : w = RecursiveLookup(run)
  OBVIOUS
<1>2. IsList(w) /\ ToSet(w) \subseteq Known(run)
  BY <1>1, RecursiveLookupIs
<1>3. \A x \in Known(run) : x \in Text
  <2>1. PICK ds : ds = Displayable(AllFound(run))
    OBVIOUS
  <2>2. ds \in Seq(Plainly)
    BY <2>1, AllFoundTyped, DisplayableIs
  <2>3. \A c \in ToSet(ds) : c \in Plainly
    BY <2>2, ListIs
  <2>4. \A c \in ToSet(ds) : c.word \in Text
    BY <2>3, CandidateIs DEF Plainly
  <2> QED
    BY <2>1, <2>4 DEF Known
<1>4. \A i \in 1 .. Len(w) : w[i] \in Text
  <2>1. \A i \in 1 .. Len(w) : w[i] \in ToSet(w)
    BY <1>2, ListIs DEF IsList
  <2> QED
    BY <1>2, <1>3, <2>1
<1>5. w \in Seq(Text)
  BY <1>2, <1>4, ListTyped
<1> QED
  BY <1>1, <1>5 DEF Lookups

(* The candidates shown are words.                                          *)
LEMMA ShownTyped ==
    ASSUME Dictionaries, NEW text
    PROVE  Shown(text) \in Seq(Plainly)
  BY AllFoundTyped, DisplayableIs DEF Shown

(* The words a candidate brings are texts.                                  *)
LEMMA BringsTyped ==
    ASSUME Dictionaries, NEW text \in Text, NEW c \in Plainly
    PROVE  Brings(text, c) \in Seq(Text)
<1>1. c.word \in Text
  BY CandidateIs DEF Plainly
<1>2. Looked(Runs(text), Lookups(Runs(text)))
  BY RunsTyped, LookedUp
<1> QED
  BY <1>1, <1>2, WordsForTyped DEF Brings

(* Where the offers from the dictionaries come from: f names the candidate.   *)
Source(f, offers, shown, text) ==
    /\ f \in [1 .. Len(offers) -> 1 .. Len(shown)]
    /\ \A k, l \in 1 .. Len(offers) : k <= l => f[k] <= f[l]
    /\ \A k \in 1 .. Len(offers) :
          /\ offers[k].word \in ToSet(Brings(text, shown[f[k]]))
          /\ offers[k] = Offer(offers[k].word, shown[f[k]])

(* The offers of one candidate are for its words.                            *)
Fits(offers, text, c) ==
    /\ \A o \in ToSet(offers) : o.word \in ToSet(Brings(text, c)) /\ o = Offer(o.word, c)
    /\ \A w \in ToSet(Brings(text, c)) : \E o \in ToSet(offers) : o.word = w

(* Each candidate has offers for its words.                                  *)
LEMMA BringingIs ==
    ASSUME Dictionaries, NEW text \in Text
    PROVE  /\ Bringing(text) \in Seq(Seq(Offered)) /\ Len(Bringing(text)) = Len(Shown(text))
           /\ \A i \in 1 .. Len(Shown(text)) : Fits(Bringing(text)[i], text, Shown(text)[i])
<1>1. PICK shown, b, N : shown = Shown(text) /\ b = Bringing(text) /\ N = Len(shown)
  OBVIOUS
<1>2. shown \in Seq(Plainly)
  BY <1>1, ShownTyped
<1>3. N \in Nat /\ DOMAIN shown = 1 .. N /\ \A i \in 1 .. N : shown[i] \in Plainly
  BY <1>1, <1>2
<1>4. /\ b = [i \in 1 .. N |-> b[i]]
      /\ \A i \in 1 .. N : b[i] = Offers(shown[i], Brings(text, shown[i]))
  BY <1>1, <1>3 DEF Bringing
<1>5. ASSUME NEW i \in 1 .. N
      PROVE  b[i] \in Seq(Offered) /\ Fits(b[i], text, shown[i])
  <2>1. PICK c, ws, os : c = shown[i] /\ ws = Brings(text, c) /\ os = b[i]
    OBVIOUS
  <2>2. c \in Plainly /\ ws \in Seq(Text)
    BY <1>3, <2>1, BringsTyped
  <2>3. os = Offers(c, ws)
    BY <1>4, <2>1
  <2>4. os \in Seq(Offered) /\ Len(os) = Len(ws) /\ \A k \in 1 .. Len(ws) : os[k] = Offer(ws[k], c)
    BY <2>2, <2>3, OffersTyped
  <2>5. ASSUME NEW k \in 1 .. Len(ws)
        PROVE  /\ os[k].word = ws[k] /\ os[k] = Offer(os[k].word, c)
               /\ ws[k] \in ToSet(ws) /\ os[k] \in ToSet(os)
    <3>1. ws[k] \in Text /\ ws[k] \in ToSet(ws)
      BY <2>2, ListIs
    <3>2. os[k].word = ws[k]
      <4>1. PICK w, o : w = ws[k] /\ o = os[k]
        OBVIOUS
      <4>2. w \in Text /\ o = Offer(w, c)
        BY <2>4, <3>1, <4>1
      <4>3. o.word = w
        BY ONLY <4>2 DEF Offer
      <4> QED
        BY <4>1, <4>3
    <3>3. os[k] \in ToSet(os)
      BY <2>4, ListIs
    <3> QED
      BY <2>4, <3>1, <3>2, <3>3
  <2>6. \A o \in ToSet(os) : o.word \in ToSet(ws) /\ o = Offer(o.word, c)
    <3> SUFFICES ASSUME NEW o \in ToSet(os) PROVE o.word \in ToSet(ws) /\ o = Offer(o.word, c)
      OBVIOUS
    <3>1. PICK k \in 1 .. Len(ws) : os[k] = o
      BY <2>4, ListIs
    <3> QED
      BY <2>5, <3>1
  <2>7. \A w \in ToSet(ws) : \E o \in ToSet(os) : o.word = w
    <3> SUFFICES ASSUME NEW w \in ToSet(ws) PROVE \E o \in ToSet(os) : o.word = w
      OBVIOUS
    <3>1. PICK k \in 1 .. Len(ws) : ws[k] = w
      BY <2>2, ListIs
    <3> QED
      BY <2>5, <3>1
  <2> QED
    BY <2>1, <2>4, <2>6, <2>7 DEF Fits
<1>6. b \in Seq(Seq(Offered))
  BY <1>3, <1>4, <1>5, IsSeq
<1>7. Len(b) = N
  BY <1>3, <1>4, <1>6
<1> QED
  BY <1>1, <1>5, <1>6, <1>7

(* All offers, candidate by candidate.                                       *)
Complete(f, offers, shown, text) ==
    \A i \in 1 .. Len(shown) : \A w \in ToSet(Brings(text, shown[i])) :
        \E k \in 1 .. Len(offers) : f[k] = i /\ offers[k].word = w

(* That is what the offers are.                                             *)
LEMMA AllOffersAre ==
    ASSUME Dictionaries, NEW text \in Text
    PROVE  /\ AllOffers(text) \in Seq(Offered)
           /\ \E f : /\ Source(f, AllOffers(text), Shown(text), text)
                     /\ Complete(f, AllOffers(text), Shown(text), text)
<1>1. PICK shown, b, all : shown = Shown(text) /\ b = Bringing(text) /\ all = AllOffers(text)
  OBVIOUS
<1>2. b \in Seq(Seq(Offered)) /\ Len(b) = Len(shown)
  BY <1>1, BringingIs
<1>3. \A i \in 1 .. Len(shown) : Fits(b[i], text, shown[i])
  BY <1>1, BringingIs
<1>5. all = FlattenSeq(b)
  BY <1>1 DEF AllOffers
<1>6. all \in Seq(Offered) /\ \E f : Origin(f, all, b)
  BY <1>2, <1>5, FlattenOrigin
<1>7. PICK f : Origin(f, all, b)
  BY <1>6
<1>8. /\ f \in [1 .. Len(all) -> 1 .. Len(shown)]
      /\ \A k, l \in 1 .. Len(all) : k <= l => f[k] <= f[l]
      /\ \A k \in 1 .. Len(all) : all[k] \in ToSet(b[f[k]])
      /\ \A i \in 1 .. Len(shown) : \A x \in ToSet(b[i]) :
            \E k \in 1 .. Len(all) : f[k] = i /\ all[k] = x
  BY <1>2, <1>7 DEF Origin
<1>9. \A k \in 1 .. Len(all) : /\ all[k].word \in ToSet(Brings(text, shown[f[k]]))
                               /\ all[k] = Offer(all[k].word, shown[f[k]])
  <2> SUFFICES ASSUME NEW k \in 1 .. Len(all)
               PROVE  /\ all[k].word \in ToSet(Brings(text, shown[f[k]]))
                      /\ all[k] = Offer(all[k].word, shown[f[k]])
    OBVIOUS
  <2>1. f[k] \in 1 .. Len(shown) /\ all[k] \in ToSet(b[f[k]])
    BY <1>8
  <2> QED
    BY <1>3, <2>1 DEF Fits
<1>10. Source(f, all, shown, text)
  BY <1>8, <1>9 DEF Source
<1>11. ASSUME NEW i \in 1 .. Len(shown), NEW w \in ToSet(Brings(text, shown[i]))
       PROVE  \E k \in 1 .. Len(all) : f[k] = i /\ all[k].word = w
  <2>1. PICK o \in ToSet(b[i]) : o.word = w
    BY <1>3 DEF Fits
  <2>2. PICK k \in 1 .. Len(all) : f[k] = i /\ all[k] = o
    BY <1>8
  <2> QED
    BY <2>1, <2>2
<1>12. Complete(f, all, shown, text)
  BY <1>11 DEF Complete
<1> QED
  BY <1>1, <1>6, <1>10, <1>12

(* Those that are seen: one of each word that is not hidden, from the first   *)
(* candidate that has it.                                                   *)
Seen(f, offers, text) ==
    /\ Source(f, offers, Shown(text), text)
    /\ \A k \in 1 .. Len(offers) : offers[k].word \notin Hidden(Template(text))
    /\ \A k, l \in 1 .. Len(offers) : offers[k].word = offers[l].word => k = l
    /\ \A i \in 1 .. Len(Shown(text)) : \A w \in ToSet(Brings(text, Shown(text)[i])) :
          w \notin Hidden(Template(text)) =>
             \E k \in 1 .. Len(offers) : f[k] <= i /\ offers[k].word = w

(* That is what is seen.                                                    *)
LEMMA SeenOffersAre ==
    ASSUME Dictionaries, NEW text \in Text
    PROVE  SeenOffers(text) \in Seq(Offered) /\ \E f : Seen(f, SeenOffers(text), text)
<1>1. PICK shown, all, seen, hidden, n :
        /\ shown = Shown(text) /\ all = AllOffers(text) /\ n = Len(shown)
        /\ seen = SeenOffers(text) /\ hidden = Hidden(Template(text))
  OBVIOUS
<1>2. all \in Seq(Offered) /\ IsList(all)
  BY <1>1, AllOffersAre, SeqIsList
<1>3. PICK f : Source(f, all, shown, text) /\ Complete(f, all, shown, text)
  BY <1>1, AllOffersAre
<1>4. IsList(seen) /\ \E g : Shows(g, seen, all, hidden)
  BY <1>1, <1>2, VisibleIs DEF SeenOffers
<1>5. PICK g : Shows(g, seen, all, hidden)
  BY <1>4
<1>6. PICK c, m : c = Len(seen) /\ m = Len(all)
  OBVIOUS
<1>7. c \in Nat /\ m \in Nat /\ n \in Nat /\ \A k \in 1 .. m : all[k] \in Offered
  <2>1. n \in Nat
    BY <1>1, ShownTyped, ListIs
  <2> QED
    BY <1>2, <1>4, <1>6, <2>1, ListIs DEF IsList
<1>8. /\ \A k \in 1 .. m : f[k] \in 1 .. n
      /\ \A k, l \in 1 .. m : k <= l => f[k] <= f[l]
      /\ \A k \in 1 .. m : /\ all[k].word \in ToSet(Brings(text, shown[f[k]]))
                           /\ all[k] = Offer(all[k].word, shown[f[k]])
  BY <1>1, <1>3, <1>6 DEF Source
<1>9. /\ \A k \in 1 .. c : g[k] \in 1 .. m /\ seen[k] = all[g[k]] /\ seen[k].word \notin hidden
      /\ \A k, l \in 1 .. c : k < l => g[k] < g[l]
      /\ \A k, l \in 1 .. c : seen[k].word = seen[l].word => k = l
      /\ \A i \in 1 .. m : all[i].word \notin hidden =>
            \E k \in 1 .. c : g[k] <= i /\ seen[k].word = all[i].word
  BY <1>5, <1>6 DEF Shows
<1> DEFINE h == [k \in 1 .. c |-> f[g[k]]]
<1>10. h = [k \in 1 .. c |-> h[k]] /\ \A k \in 1 .. c : h[k] = f[g[k]]
  OBVIOUS
<1> HIDE DEF h
<1>11. h \in [1 .. c -> 1 .. n]
  BY <1>8, <1>9, <1>10
<1>12. ASSUME NEW k \in 1 .. c, NEW l \in 1 .. c, k <= l PROVE h[k] <= h[l]
  <2>1. g[k] <= g[l]
    <3>1. CASE k = l
      <4>1. g[k] \in 1 .. m
        BY <1>9
      <4> QED
        BY <1>7, <3>1, <4>1
    <3>2. CASE k # l
      <4>1. k < l
        BY <1>7, <1>12, <3>2
      <4>2. g[k] < g[l] /\ g[k] \in 1 .. m /\ g[l] \in 1 .. m
        BY <1>9, <4>1
      <4> QED
        BY <1>7, <4>2
    <3> QED
      BY <3>1, <3>2
  <2>2. g[k] \in 1 .. m /\ g[l] \in 1 .. m
    BY <1>9
  <2> QED
    BY <1>8, <1>10, <2>1, <2>2
<1>13. \A k \in 1 .. c : /\ seen[k].word \in ToSet(Brings(text, shown[h[k]]))
                         /\ seen[k] = Offer(seen[k].word, shown[h[k]])
  BY <1>8, <1>9, <1>10
<1>14. Source(h, seen, shown, text)
  BY <1>1, <1>6, <1>11, <1>12, <1>13 DEF Source
<1>15. ASSUME NEW i \in 1 .. n, NEW w \in ToSet(Brings(text, shown[i])), w \notin hidden
       PROVE  \E k \in 1 .. c : h[k] <= i /\ seen[k].word = w
  <2>1. PICK j \in 1 .. m : f[j] = i /\ all[j].word = w
    BY <1>1, <1>3, <1>6 DEF Complete
  <2>2. PICK k \in 1 .. c : g[k] <= j /\ seen[k].word = w
    BY <1>9, <1>15, <2>1
  <2>3. g[k] \in 1 .. m
    BY <1>9
  <2>4. f[g[k]] <= f[j]
    BY <1>8, <2>2, <2>3
  <2> QED
    BY <1>10, <2>1, <2>2, <2>4
<1>16. Seen(h, seen, text)
  <2>1. \A k \in 1 .. c : seen[k].word \notin hidden
    BY <1>9
  <2>2. \A k, l \in 1 .. c : seen[k].word = seen[l].word => k = l
    BY <1>9
  <2>3. \A i \in 1 .. n : \A w \in ToSet(Brings(text, shown[i])) : w \notin hidden =>
           \E k \in 1 .. c : h[k] <= i /\ seen[k].word = w
    BY <1>15
  <2> QED
    BY ONLY <1>1, <1>6, <1>14, <2>1, <2>2, <2>3 DEF Seen
<1>17. seen \in Seq(Offered)
  <2>1. \A k \in 1 .. Len(seen) : seen[k] \in Offered
    BY <1>6, <1>7, <1>9
  <2> QED
    BY <1>4, <2>1, ListTyped
<1> QED
  BY <1>1, <1>16, <1>17

(* Two lists, one after the other.                                          *)
LEMMA JoinIs ==
    ASSUME NEW T, NEW a \in Seq(T), NEW b \in Seq(T), NEW c, c = a \o b
    PROVE  /\ c \in Seq(T) /\ Len(c) = Len(a) + Len(b) /\ Len(a) \in Nat /\ Len(b) \in Nat
           /\ \A i \in 1 .. Len(a) : c[i] = a[i]
           /\ \A i \in 1 .. Len(b) : c[Len(a) + i] = b[i]
  OBVIOUS

(* What is offered: what was found, then synthesized words, each word once;   *)
(* f names the places.                                                      *)
Offering(f, list, found, synths) ==
    /\ f \in [1 .. Len(list) -> 1 .. Len(found) + Len(synths)]
    /\ \A k, l \in 1 .. Len(list) : k < l => f[k] < f[l]
    /\ \A k \in 1 .. Len(list) : list[k] = (found \o synths)[f[k]]
    /\ \A k, l \in 1 .. Len(list) : list[k].word = list[l].word => k = l
    /\ \A i \in 1 .. Len(found) :
          \E k \in 1 .. Len(list) : f[k] <= i /\ list[k].word = found[i].word

(* That is what the two make.                                               *)
LEMMA WithSyntheticsIs ==
    ASSUME NEW found \in Seq(Offered), NEW synths \in Seq(Offered), NEW template,
           \A k, l \in 1 .. Len(found) : found[k].word = found[l].word => k = l
    PROVE  /\ WithSynthetics(found, template, synths) \in Seq(Offered)
           /\ \E f : Offering(f, WithSynthetics(found, template, synths), found, synths)
<1>1. PICK both, n, m : both = found \o synths /\ n = Len(found) /\ m = Len(synths)
  OBVIOUS
<1>2. /\ both \in Seq(Offered) /\ Len(both) = n + m /\ n \in Nat /\ m \in Nat
      /\ \A i \in 1 .. n : both[i] = found[i]
  BY <1>1, JoinIs
<1>3. CASE found = <<>> \/ template = <<"#">>
  <2>1. PICK d : d = Distinct(both)
    OBVIOUS
  <2>2. WithSynthetics(found, template, synths) = d
    BY <1>1, <1>3, <2>1 DEF WithSynthetics
  <2>3. IsList(both)
    BY <1>2, SeqIsList
  <2>4. IsList(d) /\ \E f : Shows(f, d, both, {})
    BY <2>1, <2>3, DistinctIs
  <2>5. PICK f : Shows(f, d, both, {})
    BY <2>4
  <2>6. /\ f \in [1 .. Len(d) -> 1 .. n + m]
        /\ \A k, l \in 1 .. Len(d) : k < l => f[k] < f[l]
        /\ \A k \in 1 .. Len(d) : d[k] = both[f[k]]
        /\ \A k, l \in 1 .. Len(d) : d[k].word = d[l].word => k = l
        /\ \A i \in 1 .. n + m : \E k \in 1 .. Len(d) : f[k] <= i /\ d[k].word = both[i].word
    BY <1>2, <2>5 DEF Shows
  <2>7. \A i \in 1 .. n : i \in 1 .. n + m
    BY <1>2
  <2>8. ASSUME NEW i \in 1 .. n
        PROVE  \E k \in 1 .. Len(d) : f[k] <= i /\ d[k].word = found[i].word
    <3>1. i \in 1 .. n + m /\ both[i] = found[i]
      BY <1>2, <2>7
    <3>2. PICK k \in 1 .. Len(d) : f[k] <= i /\ d[k].word = both[i].word
      BY <2>6, <3>1
    <3> QED
      BY <3>1, <3>2
  <2>9. Offering(f, d, found, synths)
    BY <1>1, <2>6, <2>8 DEF Offering
  <2>10. d \in Seq(Offered)
    <3>1. \A k \in 1 .. Len(d) : d[k] \in Offered
      BY <1>2, <2>6, ListIs
    <3> QED
      BY <2>4, <3>1, ListTyped
  <2> QED
    BY <2>2, <2>9, <2>10
<1>4. CASE ~(found = <<>> \/ template = <<"#">>)
  <2>1. WithSynthetics(found, template, synths) = found
    BY <1>4 DEF WithSynthetics
  <2> DEFINE f == [i \in 1 .. n |-> i]
  <2>2. f = [i \in 1 .. n |-> f[i]] /\ \A i \in 1 .. n : f[i] = i
    OBVIOUS
  <2> HIDE DEF f
  <2>3. f \in [1 .. n -> 1 .. n + m]
    BY <1>2, <2>2
  <2>4. \A k, l \in 1 .. n : k < l => f[k] < f[l]
    BY <2>2
  <2>5. \A k \in 1 .. n : found[k] = both[f[k]]
    BY <1>2, <2>2
  <2>6. \A i \in 1 .. n : f[i] <= i /\ found[i].word = found[i].word
    BY <1>2, <2>2
  <2>7. Offering(f, found, found, synths)
    BY <1>1, <2>3, <2>4, <2>5, <2>6 DEF Offering
  <2> QED
    BY <2>1, <2>7
<1> QED
  BY <1>3, <1>4

(* A conversion offers what is seen, then synthesized words.                 *)
LEMMA CandidatesAre ==
    ASSUME Dictionaries, NEW text \in Text
    PROVE  /\ SeenOffers(text) \in Seq(Offered) /\ Synths(text) \in Seq(Offered)
           /\ Candidates(text) \in Seq(Offered)
           /\ \E f : Offering(f, Candidates(text), SeenOffers(text), Synths(text))
<1>1. PICK seen, synths, runs :
        seen = SeenOffers(text) /\ synths = Synths(text) /\ runs = Runs(text)
  OBVIOUS
<1>2. seen \in Seq(Offered) /\ \E g : Seen(g, seen, text)
  BY <1>1, SeenOffersAre
<1>3. synths \in Seq(Offered)
  <2>1. Synthesize(runs) \in Seq(Text)
    BY <1>1, RunsTyped, SynthesizeTyped
  <2> QED
    BY <1>1, <2>1, SyntheticsTyped DEF Synths
<1>4. \A k, l \in 1 .. Len(seen) : seen[k].word = seen[l].word => k = l
  BY <1>2 DEF Seen
<1>5. Candidates(text) = WithSynthetics(seen, Template(text), synths)
  BY <1>1, CandidatesIs
<1>6. /\ WithSynthetics(seen, Template(text), synths) \in Seq(Offered)
      /\ \E f : Offering(f, WithSynthetics(seen, Template(text), synths), seen, synths)
  BY ONLY <1>2, <1>3, <1>4, WithSyntheticsIs
<1> QED
  BY <1>1, <1>2, <1>3, <1>5, <1>6

(* A word from the dictionaries can be learned.                              *)
LEMMA OfferedTemplates ==
    ASSUME Dictionaries, NEW text \in Text, NEW i \in 1 .. Len(Candidates(text)),
           ~Candidates(text)[i].synthetic
    PROVE  Candidates(text)[i].template # <<>>
<1>1. PICK seen, synths, list, o : /\ seen = SeenOffers(text) /\ synths = Synths(text)
                                   /\ list = Candidates(text) /\ o = list[i]
  OBVIOUS
<1>2. seen \in Seq(Offered) /\ synths \in Seq(Offered) /\ \E f : Offering(f, list, seen, synths)
  BY <1>1, CandidatesAre
<1>3. PICK f : Offering(f, list, seen, synths)
  BY <1>2
<1>4. PICK both, n, m, j : both = seen \o synths /\ n = Len(seen) /\ m = Len(synths) /\ j = f[i]
  OBVIOUS
<1>5. j \in 1 .. n + m /\ o = both[j]
  BY <1>1, <1>3, <1>4 DEF Offering
<1>6. /\ n \in Nat /\ m \in Nat
      /\ \A k \in 1 .. n : both[k] = seen[k]
      /\ \A k \in 1 .. m : both[n + k] = synths[k]
  BY <1>2, <1>4, JoinIs
<1>7. CASE j \in 1 .. n
  <2>1. o = seen[j]
    BY <1>5, <1>6, <1>7
  <2>2. PICK g : Source(g, seen, Shown(text), text)
    BY <1>1, SeenOffersAre DEF Seen
  <2>3. g[j] \in 1 .. Len(Shown(text)) /\ o = Offer(o.word, Shown(text)[g[j]])
    BY <1>4, <1>7, <2>1, <2>2 DEF Source
  <2>4. PICK c : c = Shown(text)[g[j]]
    OBVIOUS
  <2>5. c \in Plainly
    BY <2>3, <2>4, ShownTyped, ListIs
  <2>6. o.template = c.word
    BY <2>3, <2>4 DEF Offer
  <2> QED
    BY <1>1, <2>5, <2>6 DEF Plainly
<1>8. CASE j \notin 1 .. n
  <2>1. PICK k : k = j - n
    OBVIOUS
  <2>2. k \in 1 .. m /\ n + k = j
    BY <1>5, <1>6, <1>8, <2>1
  <2>3. o = synths[k]
    BY <1>5, <1>6, <2>2
  <2>4. PICK words : words = Synthesize(Runs(text))
    OBVIOUS
  <2>5. words \in Seq(Text) /\ synths = Synthetics(words)
    BY <1>1, <2>4, RunsTyped, SynthesizeTyped DEF Synths
  <2>6. Len(synths) = Len(words) /\ \A x \in 1 .. Len(words) : synths[x].synthetic = TRUE
    BY <2>5, SyntheticsTyped
  <2>7. o.synthetic = TRUE
    BY <1>4, <2>2, <2>3, <2>6
  <2> QED
    BY <1>1, <2>7
<1> QED
  BY <1>7, <1>8

(* What is loaded can be written, what is written can be loaded, and what is   *)
(* offered is what the dictionaries have for the reading.                    *)
DictionaryInv ==
    /\ Dictionaries
    /\ \A key \in DOMAIN file : file[key] \in Text
    /\ reading \in Text /\ buffer \in Text
    /\ offered = IF phase = "selecting" THEN Candidates(reading) ELSE <<>>
    /\ phase = "selecting" => offered # <<>>

(* The candidates depend on the dictionaries and the reading alone.         *)
LEMMA SameCandidates ==
    ASSUME user' = user, system' = system, directives' = directives, reading' = reading
    PROVE  Candidates(reading)' = Candidates(reading)
<1>1. \A key : AllFound(key)' = AllFound(key)
  BY DEF AllFound
<1>2. \A cands : IgnoreSet(cands)' = IgnoreSet(cands)
  BY DEF IgnoreSet
<1>3. \A run : RecursiveLookup(run)' = RecursiveLookup(run)
  BY <1>1, <1>2 DEF RecursiveLookup
<1>4. \A template, runs, all :
        CandidatesOf(template, runs, all)' = CandidatesOf(template, runs, all)
  BY <1>2, <1>3 DEF CandidatesOf
<1> QED
  BY <1>1, <1>4 DEF Candidates

(* Dictionaries that stay the same stay readable.                           *)
LEMMA SameDictionaries ==
    ASSUME Dictionaries, user' = user, system' = system
    PROVE  Dictionaries'
  BY DEF Dictionaries

(* Learning a word leaves all of it so.                                      *)
LEMMA LearnKeeps ==
    ASSUME Dictionaries, \A key \in DOMAIN file : file[key] \in Text,
           NEW key, NEW new, Saved(new), Learn(key, new), system' = system
    PROVE  /\ Dictionaries' /\ \A k \in DOMAIN file' : file'[k] \in Text
<1>1. PICK before, cands, text : /\ before = IF key \in DOMAIN user THEN user[key] ELSE <<>>
                                 /\ cands = Learned(before, new)
                                 /\ text = SerializeCandidates(cands)
  OBVIOUS
<1>2. AllSaved(before)
  <2>1. AllSaved(<<>>)
    BY DEF AllSaved
  <2> QED
    BY <1>1, <2>1 DEF Dictionaries
<1>3. AllSaved(cands)
  BY <1>1, <1>2, LearnedSaved
<1>4. text \in Text
  BY <1>1, <1>3, SerializedTyped
<1>5. user' = Put(user, key, cands) /\ file' = Put(file, key, text)
  BY <1>1 DEF Learn
<1>6. ASSUME NEW k \in DOMAIN user' PROVE AllSaved(user'[k])
  BY <1>3, <1>5, <1>6 DEF Dictionaries, Put
<1>7. ASSUME NEW k \in DOMAIN file' PROVE file'[k] \in Text
  BY <1>4, <1>5, <1>7 DEF Put
<1>8. Dictionaries'
  BY <1>6 DEF Dictionaries
<1> QED
  BY <1>7, <1>8

(* What choosing a candidate teaches can be saved.                           *)
LEMMA TaughtSaved ==
    ASSUME DictionaryInv, phase = "selecting", NEW i \in DOMAIN offered, ~offered[i].synthetic
    PROVE  Saved(Taught(offered[i]))
<1>1. PICK o : o = offered[i]
  OBVIOUS
<1>2. offered = Candidates(reading) /\ Dictionaries /\ reading \in Text
  BY DEF DictionaryInv
<1>3. offered \in Seq(Offered)
  BY <1>2, CandidatesAre
<1>4. i \in 1 .. Len(Candidates(reading)) /\ o \in Offered
  BY <1>1, <1>2, <1>3
<1>5. o.template # <<>>
  BY <1>1, <1>2, <1>4, OfferedTemplates
<1>6. o.template \in Text /\ o.annotation \in Text \cup {None}
  BY <1>4 DEF Offered
<1>7. PICK t : t = Taught(o)
  OBVIOUS
<1>8. t = Plain(o.template, o.annotation)
  BY <1>7 DEF Taught
<1>9. Saved(t)
  BY <1>5, <1>6, <1>8, PlainSaved
<1> QED
  BY <1>1, <1>7, <1>9

(* It holds at first.                                                       *)
LEMMA DictionaryInit == Init => DictionaryInv
<1> SUFFICES ASSUME Init PROVE DictionaryInv
  OBVIOUS
<1>1. PICK s \in Starts : /\ phase = "stopped" /\ system = s.system /\ user = NoEntry
                          /\ file = s.file /\ reading = s.reading /\ offered = <<>> /\ buffer = <<>>
  BY DEF Init
<1>2. /\ s.system = [d \in 1 .. Len(s.system) |-> s.system[d]] /\ Len(s.system) \in Nat
      /\ \A d \in 1 .. Len(s.system) : Readable(s.system[d])
      /\ s.reading \in Text
      /\ \A key \in DOMAIN s.file : s.file[key] \in Text
  BY LookupAssumption DEF LookupAssumption
<1>3. Dictionaries
  BY <1>1, <1>2 DEF Dictionaries, NoEntry
<1>4. buffer \in Text
  BY <1>1, ShortText
<1> QED
  BY <1>1, <1>2, <1>3, <1>4 DEF DictionaryInv

(* Every step keeps it.                                                     *)
LEMMA DictionaryStep == DictionaryInv /\ [Next]_vars => DictionaryInv'
<1> SUFFICES ASSUME DictionaryInv, [Next]_vars PROVE DictionaryInv'
  OBVIOUS
<1> DEFINE Files == \A key \in DOMAIN file : file[key] \in Text
<1>1. /\ Dictionaries /\ Files /\ reading \in Text /\ buffer \in Text
      /\ offered = IF phase = "selecting" THEN Candidates(reading) ELSE <<>>
      /\ phase = "selecting" => offered # <<>>
  BY DEF DictionaryInv
<1>2. <<>> \in Text
  BY ShortText
<1>3. ASSUME NEW g \in ReadingGlyph, TypeReading(g) PROVE DictionaryInv'
  <2>1. /\ phase = "reading" /\ reading' = Append(reading, g)
        /\ phase' = phase /\ system' = system /\ user' = user /\ file' = file
        /\ offered' = offered /\ buffer' = buffer
    BY <1>3 DEF TypeReading
  <2>2. g \in Glyph
    BY LookupAssumption DEF LookupAssumption
  <2>3. reading' \in Text
    BY <1>1, <2>1, <2>2 DEF Text
  <2>4. Dictionaries'
    BY <1>1, <2>1, SameDictionaries
  <2> QED
    BY <1>1, <2>1, <2>3, <2>4 DEF DictionaryInv
<1>4. ASSUME StartConversion PROVE DictionaryInv'
  <2>1. /\ offered' = Candidates(reading)
        /\ phase' = IF offered' = <<>> THEN "registering" ELSE "selecting"
        /\ system' = system /\ directives' = directives /\ user' = user /\ file' = file
        /\ reading' = reading /\ buffer' = buffer
    BY <1>4 DEF StartConversion
  <2>2. Candidates(reading)' = Candidates(reading) /\ Dictionaries'
    BY <1>1, <2>1, SameCandidates, SameDictionaries
  <2>3. offered' = (IF phase' = "selecting" THEN Candidates(reading)' ELSE <<>>)
    BY <2>1, <2>2
  <2>4. phase' = "selecting" => offered' # <<>>
    BY <2>1
  <2> QED
    BY <1>1, <2>1, <2>2, <2>3, <2>4 DEF DictionaryInv
<1>5. ASSUME NEW i \in DOMAIN offered, CommitCandidate(i) PROVE DictionaryInv'
  <2>1. /\ phase = "selecting" /\ phase' = "reading" /\ reading' = <<>> /\ offered' = <<>>
        /\ system' = system /\ buffer' = buffer
    BY <1>5 DEF CommitCandidate
  <2>2. Dictionaries' /\ Files'
    <3>1. CASE offered[i].synthetic
      <4>1. user' = user /\ file' = file
        BY <1>5, <3>1 DEF CommitCandidate
      <4> QED
        BY <1>1, <2>1, <4>1, SameDictionaries
    <3>2. CASE ~offered[i].synthetic
      <4>1. Learn(Template(reading), Taught(offered[i]))
        BY <1>5, <3>2 DEF CommitCandidate
      <4>2. Saved(Taught(offered[i]))
        BY <2>1, <3>2, TaughtSaved
      <4>3. Dictionaries' /\ \A k \in DOMAIN file' : file'[k] \in Text
        BY <1>1, <2>1, <4>1, <4>2, LearnKeeps
      <4> QED
        BY <4>3
    <3> QED
      BY <3>1, <3>2
  <2> QED
    BY <1>1, <1>2, <2>1, <2>2 DEF DictionaryInv
<1>6. ASSUME NEW g \in WordGlyph, TypeWord(g) PROVE DictionaryInv'
  <2>1. /\ phase = "registering" /\ buffer' = Append(buffer, g)
        /\ phase' = phase /\ system' = system /\ user' = user /\ file' = file
        /\ offered' = offered /\ reading' = reading
    BY <1>6 DEF TypeWord
  <2>2. g \in Glyph
    BY LookupAssumption DEF LookupAssumption
  <2>3. buffer' \in Text
    BY <1>1, <2>1, <2>2 DEF Text
  <2>4. Dictionaries'
    BY <1>1, <2>1, SameDictionaries
  <2> QED
    BY <1>1, <2>1, <2>3, <2>4 DEF DictionaryInv
<1>7. ASSUME EnterRegister PROVE DictionaryInv'
  <2>1. /\ phase' = "registering" /\ offered' = <<>> /\ system' = system /\ user' = user
        /\ file' = file /\ reading' = reading /\ buffer' = buffer
    BY <1>7 DEF EnterRegister
  <2>2. Dictionaries'
    BY <1>1, <2>1, SameDictionaries
  <2> QED
    BY <1>1, <2>1, <2>2 DEF DictionaryInv
<1>8. ASSUME FinalizeRegister PROVE DictionaryInv'
  <2>1. /\ phase = "registering" /\ phase' = "reading" /\ reading' = <<>> /\ buffer' = <<>>
        /\ system' = system /\ offered' = offered /\ buffer # <<>>
        /\ Learn(Template(reading), Registered(buffer))
    BY <1>8 DEF FinalizeRegister
  <2>2. Saved(Registered(buffer))
    BY <1>1, <2>1, RegisteredSaved
  <2>3. Dictionaries' /\ \A k \in DOMAIN file' : file'[k] \in Text
    BY <1>1, <2>1, <2>2, LearnKeeps
  <2> QED
    BY <1>1, <1>2, <2>1, <2>3 DEF DictionaryInv
<1>9. ASSUME Cancel PROVE DictionaryInv'
  <2>1. /\ phase' = "reading" /\ offered' = <<>> /\ buffer' = <<>> /\ system' = system
        /\ user' = user /\ file' = file /\ reading' = reading
    BY <1>9 DEF Cancel
  <2>2. Dictionaries'
    BY <1>1, <2>1, SameDictionaries
  <2> QED
    BY <1>1, <1>2, <2>1, <2>2 DEF DictionaryInv
<1>10. ASSUME Stop PROVE DictionaryInv'
  <2>1. /\ phase' = "stopped" /\ offered' = <<>> /\ buffer' = <<>> /\ reading' = <<>>
        /\ user' = NoEntry /\ system' = system /\ file' = file
    BY <1>10 DEF Stop
  <2>2. Dictionaries'
    BY <1>1, <2>1 DEF Dictionaries, NoEntry
  <2> QED
    BY <1>1, <1>2, <2>1, <2>2 DEF DictionaryInv
<1>11. ASSUME Start PROVE DictionaryInv'
  <2>1. /\ phase = "stopped" /\ phase' = "reading"
        /\ user' = [key \in DOMAIN file |-> ParseCandidates(file[key])]
        /\ \A key \in DOMAIN file : user'[key] # None
        /\ system' = system /\ file' = file /\ reading' = reading /\ offered' = offered
        /\ buffer' = buffer
    BY <1>11 DEF Start
  <2>2. \A key \in DOMAIN user' : AllSaved(user'[key])
    BY <1>1, <2>1, LineRead
  <2>3. Dictionaries'
    BY <1>1, <2>1, <2>2 DEF Dictionaries
  <2> QED
    BY <1>1, <2>1, <2>3 DEF DictionaryInv
<1>12. ASSUME NEW key \in DOMAIN file, NEW g \in FieldGlyph, EditFile(key, g) PROVE DictionaryInv'
  <2>1. /\ phase = "stopped" /\ phase' = phase /\ file' = Put(file, key, Append(file[key], g))
        /\ system' = system /\ user' = user /\ reading' = reading /\ offered' = offered
        /\ buffer' = buffer
    BY <1>12 DEF EditFile
  <2>2. g \in Glyph
    BY LookupAssumption DEF LookupAssumption
  <2>3. Append(file[key], g) \in Text
    BY <1>1, <2>2 DEF Text
  <2>4. ASSUME NEW k \in DOMAIN file' PROVE file'[k] \in Text
    BY <1>1, <2>1, <2>3, <2>4 DEF Put
  <2>5. Dictionaries'
    BY <1>1, <2>1, SameDictionaries
  <2> QED
    BY <1>1, <2>1, <2>4, <2>5 DEF DictionaryInv
<1>13. ASSUME UNCHANGED vars PROVE DictionaryInv'
  <2>1. /\ phase' = phase /\ system' = system /\ directives' = directives /\ user' = user
        /\ file' = file /\ reading' = reading /\ offered' = offered /\ buffer' = buffer
    BY <1>13 DEF vars
  <2>2. Candidates(reading)' = Candidates(reading) /\ Dictionaries'
    BY <1>1, <2>1, SameCandidates, SameDictionaries
  <2> QED
    BY <1>1, <2>1, <2>2 DEF DictionaryInv
<1> QED
  BY <1>3, <1>4, <1>5, <1>6, <1>7, <1>8, <1>9, <1>10, <1>11, <1>12, <1>13 DEF Next

(* The dictionary holds that all along.                                     *)
THEOREM DictionaryInvariant == Spec => []DictionaryInv
<1> QED
  BY DictionaryInit, DictionaryStep, PTL DEF Spec

(* Any word that can be registered, and whatever a line was read as, is read   *)
(* back the same after it was written.                                      *)
THEOREM ReadBack == Spec => []FilesReadBack
<1>1. ASSUME DictionaryInv PROVE FilesReadBack
  <2>1. ASSUME NEW key \in DOMAIN user, \A i \in DOMAIN user[key] : ~ReadAsForm(user[key][i])
        PROVE  ParseCandidates(SerializeCandidates(user[key])) = user[key]
    BY <1>1, <2>1, LineBack DEF DictionaryInv, Dictionaries
  <2>2. ASSUME phase = "registering", buffer # <<>>, NEW cands, cands = <<Registered(buffer)>>,
               \A i \in DOMAIN cands : ~ReadAsForm(cands[i])
        PROVE  ParseCandidates(SerializeCandidates(cands)) = cands
    <3>1. PICK c : c = Registered(buffer)
      OBVIOUS
    <3>2. Saved(c)
      BY <1>1, <2>2, <3>1, RegisteredSaved DEF DictionaryInv
    <3>3. c \in Candidate
      BY <3>2 DEF Saved
    <3>4. cands \in Seq(Candidate) /\ Len(cands) = 1 /\ cands[1] = c
      BY <2>2, <3>1, <3>3
    <3>5. AllSaved(cands)
      BY <3>2, <3>4 DEF AllSaved
    <3> QED
      BY <2>2, <3>5, LineBack
  <2> QED
    BY <2>1, <2>2 DEF FilesReadBack
<1> QED
  BY <1>1, DictionaryInvariant, PTL

(* ---- what a word stands for ---- *)

(* Markers are told by the glyph after "#"; none begins inside another.        *)
LEMMA MarkersAre ==
    ASSUME NEW word \in Text
    PROVE  /\ Markers(word) \subseteq 1 .. Len(word) /\ IsFiniteSet(Markers(word))
           /\ \A i \in 1 .. Len(word) : i \in Markers(word) <=> IsMarker(word, i, Types)
           /\ \A i \in 1 .. Len(word) : Follows(word, i, Types) <=> i - 1 \in Markers(word)
           /\ \A i \in Markers(word) : i - 1 \notin Markers(word)
<1>1. PICK N : N = Len(word)
  OBVIOUS
<1>2. N \in Nat /\ DOMAIN word = 1 .. N
  BY <1>1 DEF Text
<1>3. Markers(word) \subseteq 1 .. N
      /\ \A i \in 1 .. N : i \in Markers(word) <=> IsMarker(word, i, Types)
  BY <1>2 DEF Markers, Types
<1>4. IsFiniteSet(Markers(word))
  BY <1>2, <1>3, FS_Interval, FS_Subset
<1>5. ASSUME NEW i \in 1 .. N PROVE Follows(word, i, Types) <=> i - 1 \in Markers(word)
  <2>1. Follows(word, i, Types) <=> i > 1 /\ IsMarker(word, i - 1, Types)
    BY DEF Follows
  <2>2. i > 1 => i - 1 \in 1 .. N
    BY <1>2
  <2>3. i - 1 \in Markers(word) => i > 1
    BY <1>2, <1>3
  <2> QED
    BY <1>3, <2>1, <2>2, <2>3
<1>6. "#" \notin Types
  BY DEF Types, NumType, SynthTypes, ToSet
<1>7. ASSUME NEW i \in Markers(word), i - 1 \in Markers(word) PROVE FALSE
  <2>1. IsMarker(word, i, Types) /\ IsMarker(word, i - 1, Types) /\ i \in 1 .. N
    BY <1>3, <1>7
  <2>2. word[i] = "#" /\ word[(i - 1) + 1] \in Types
    BY <2>1 DEF IsMarker
  <2>3. (i - 1) + 1 = i
    BY <2>1
  <2> QED
    BY <1>6, <2>2, <2>3
<1> QED
  BY <1>1, <1>3, <1>4, <1>5, <1>7

(* How many markers there are up to a place.                                 *)
Upto(word, i) == Cardinality({j \in Markers(word) : j <= i})

(* That is the run a marker takes, and there are as many.                    *)
LEMMA UptoIs ==
    ASSUME NEW word \in Text, NEW i \in Markers(word)
    PROVE  /\ RunIndex(word, i, Types) = Upto(word, i)
           /\ Upto(word, i) \in Nat \ {0} /\ Upto(word, i) <= Cardinality(Markers(word))
           /\ Cardinality(Markers(word)) \in Nat
           /\ (\A j \in Markers(word) : j <= i) => Upto(word, i) = Cardinality(Markers(word))
<1>1. PICK N : N = Len(word)
  OBVIOUS
<1>2. N \in Nat /\ i \in 1 .. N /\ IsMarker(word, i, Types) /\ IsFiniteSet(Markers(word))
  BY <1>1, MarkersAre DEF Text
<1>3. {j \in 1 .. i : IsMarker(word, j, Types)} = {j \in Markers(word) : j <= i}
  <2>1. \A j \in 1 .. i : j \in 1 .. N /\ j <= i
    BY <1>2
  <2>2. \A j \in 1 .. N : j <= i => j \in 1 .. i
    BY <1>2
  <2>3. /\ \A j \in 1 .. N : j \in Markers(word) <=> IsMarker(word, j, Types)
        /\ Markers(word) \subseteq 1 .. N
    BY <1>1, MarkersAre
  <2> QED
    BY <2>1, <2>2, <2>3
<1>4. RunIndex(word, i, Types) = Upto(word, i)
  BY <1>3 DEF RunIndex, Upto
<1>5. RunIndex(word, i, Types) \in Nat \ {0}
  BY <1>2, RunIndexIs
<1>6. {j \in Markers(word) : j <= i} \in SUBSET Markers(word)
  OBVIOUS
<1>7. Upto(word, i) <= Cardinality(Markers(word)) /\ Cardinality(Markers(word)) \in Nat
  BY <1>2, <1>6, FS_Subset, FS_CardinalityType DEF Upto
<1>8. (\A j \in Markers(word) : j <= i) => {j \in Markers(word) : j <= i} = Markers(word)
  OBVIOUS
<1> QED
  BY <1>4, <1>5, <1>7, <1>8 DEF Upto

(* ---- spelling ---- *)

(* What a place of the word becomes, given a text for each marker, and what   *)
(* its first places become.                                                 *)
Piece(word, f, i) ==
    IF i \in Markers(word) THEN f[i]
    ELSE IF i - 1 \in Markers(word) THEN <<>> ELSE <<word[i]>>
Pieces(word, f, i)  == [j \in 1 .. i |-> Piece(word, f, j)]
SpeltTo(word, f, i) == FlattenSeq(Pieces(word, f, i))

(* They are texts.                                                          *)
LEMMA PiecesTyped ==
    ASSUME NEW word \in Text, NEW f \in [Markers(word) -> Text], NEW i \in 0 .. Len(word)
    PROVE  /\ Pieces(word, f, i) \in Seq(Text) /\ Len(Pieces(word, f, i)) = i
           /\ \A j \in 1 .. i : Piece(word, f, j) \in Text
<1>1. PICK N : N = Len(word)
  OBVIOUS
<1>2. N \in Nat /\ \A j \in 1 .. N : word[j] \in Glyph
  BY <1>1 DEF Text
<1>3. ASSUME NEW j \in 1 .. i PROVE Piece(word, f, j) \in Text
  <2>1. j \in 1 .. N
    BY <1>1, <1>2
  <2>2. <<word[j]>> \in Text /\ <<>> \in Text
    BY <1>2, <2>1, OneTyped, ShortText
  <2>3. j \in Markers(word) => f[j] \in Text
    OBVIOUS
  <2> QED
    BY <2>2, <2>3 DEF Piece
<1>4. PICK p : p = Pieces(word, f, i)
  OBVIOUS
<1>5. p = [j \in 1 .. i |-> p[j]] /\ \A j \in 1 .. i : p[j] = Piece(word, f, j)
  BY <1>4 DEF Pieces
<1>6. i \in Nat
  BY <1>1, <1>2
<1>7. p \in Seq(Text)
  BY <1>3, <1>5, <1>6, IsSeq
<1>8. Len(p) = i
  BY <1>5, <1>6, ListMade
<1> QED
  BY <1>3, <1>4, <1>7, <1>8

(* What the places before a place become does not change.                    *)
LEMMA SpeltStep ==
    ASSUME NEW word \in Text, NEW f \in [Markers(word) -> Text], NEW i \in 1 .. Len(word)
    PROVE  SpeltTo(word, f, i) = SpeltTo(word, f, i - 1) \o Piece(word, f, i)
<1>1. PICK N, h : N = Len(word) /\ h = i - 1
  OBVIOUS
<1>2. N \in Nat
  BY <1>1 DEF Text
<1>3. h \in 0 .. N /\ i \in 0 .. N /\ h + 1 = i /\ h \in Nat
  BY <1>1, <1>2
<1>4. PICK p, q, x : p = Pieces(word, f, h) /\ q = Pieces(word, f, i) /\ x = Piece(word, f, i)
  OBVIOUS
<1>5. p \in Seq(Text) /\ Len(p) = h
  BY <1>1, <1>3, <1>4, PiecesTyped
<1>6. i \in 1 .. i
  BY <1>3
<1>7. x \in Text
  BY <1>1, <1>3, <1>4, <1>6, PiecesTyped
<1>8. Append(p, x) = [j \in 1 .. Len(p) + 1 |-> IF j = Len(p) + 1 THEN x ELSE p[j]]
  BY <1>5, <1>7, AppendIs
<1>9. \A j \in 1 .. h + 1 : (IF j = h + 1 THEN x ELSE p[j]) = Piece(word, f, j)
  <2>1. \A j \in 1 .. h : p[j] = Piece(word, f, j)
    BY <1>4 DEF Pieces
  <2>2. \A j \in 1 .. h + 1 : j # h + 1 => j \in 1 .. h
    BY <1>3
  <2> QED
    BY <1>3, <1>4, <2>1, <2>2
<1>10. q = Append(p, x)
  BY <1>3, <1>4, <1>5, <1>8, <1>9 DEF Pieces
<1>11. PICK T : T = Glyph
  OBVIOUS
<1>12. p \in Seq(Seq(T)) /\ x \in Seq(T)
  BY <1>5, <1>7, <1>11 DEF Text
<1>13. FlattenSeq(Append(p, x)) = FlattenSeq(p) \o x
  BY <1>12, FlattenStep
<1> QED
  BY <1>1, <1>4, <1>10, <1>13 DEF SpeltTo

(* They are texts, and depend on the markers so far alone.                    *)
LEMMA SpeltAre ==
    ASSUME NEW word \in Text, NEW f \in [Markers(word) -> Text], NEW i \in 0 .. Len(word)
    PROVE  /\ SpeltTo(word, f, i) \in Text
           /\ \A g \in [Markers(word) -> Text] :
                 (\A j \in Markers(word) : j <= i => g[j] = f[j])
                     => SpeltTo(word, g, i) = SpeltTo(word, f, i)
<1>1. PICK p, T : p = Pieces(word, f, i) /\ T = Glyph
  OBVIOUS
<1>2. p \in Seq(Seq(T))
  BY <1>1, PiecesTyped DEF Text
<1>3. FlattenSeq(p) \in Seq(T)
  BY <1>2, FlattenTyped
<1>4. ASSUME NEW g \in [Markers(word) -> Text], \A j \in Markers(word) : j <= i => g[j] = f[j]
      PROVE  SpeltTo(word, g, i) = SpeltTo(word, f, i)
  <2>1. \A j \in 1 .. i : j <= i
    OBVIOUS
  <2>2. \A j \in 1 .. i : Piece(word, g, j) = Piece(word, f, j)
    BY <1>4, <2>1 DEF Piece
  <2>3. Pieces(word, g, i) = Pieces(word, f, i)
    BY <2>2 DEF Pieces
  <2> QED
    BY <2>3 DEF SpeltTo
<1> QED
  BY <1>1, <1>3, <1>4 DEF SpeltTo, Text

(* The first are none, and all are what the word is spelt.                    *)
LEMMA SpeltIs ==
    ASSUME NEW word \in Text, NEW f
    PROVE  SpeltTo(word, f, 0) = <<>> /\ SpeltTo(word, f, Len(word)) = Spelt(word, f)
<1>1. Pieces(word, f, 0) = <<>>
  BY DEF Pieces
<1>2. SpeltTo(word, f, 0) = <<>>
  BY <1>1, FlattenStep DEF SpeltTo
<1>3. DOMAIN word = 1 .. Len(word)
  BY DEF Text
<1>4. Pieces(word, f, Len(word)) =
        [i \in DOMAIN word |-> IF i \in Markers(word) THEN f[i]
                               ELSE IF i - 1 \in Markers(word) THEN <<>> ELSE <<word[i]>>]
  BY <1>3 DEF Pieces, Piece
<1> QED
  BY <1>2, <1>4 DEF SpeltTo, Spelt

(* What a marker may stand for are the ways to write its run: all of them     *)
(* unless there are too many words for it, and each once.                    *)
Lists(options, ways, all) ==
    /\ ToSet(options) \subseteq ways
    /\ \A a, b \in 1 .. Len(options) : options[a] = options[b] => a = b
    /\ all => ToSet(options) = ways

(* That is what the options are.                                            *)
LEMMA WaysAre ==
    ASSUME Dictionaries, NEW word \in Text, NEW runs \in Seq(Seq(Digit)), NEW i \in Markers(word),
           Cardinality(Markers(word)) <= Len(runs), NEW options,
           options = Options(word, i, runs, Lookups(runs))
    PROVE  /\ options \in Seq(Text) /\ Ways(word, i, runs) \subseteq Text
           /\ IsFiniteSet(Ways(word, i, runs))
           /\ Lists(options, Ways(word, i, runs),
                    \A k \in DOMAIN runs : Cardinality(Known(runs[k])) <= MaxExpansions)
<1>1. PICK k, c, run, ways : /\ k = Upto(word, i) /\ c = word[i + 1] /\ run = runs[k]
                             /\ ways = Ways(word, i, runs)
  OBVIOUS
<1>2. Len(runs) \in Nat /\ DOMAIN runs = 1 .. Len(runs)
  OBVIOUS
<1>3. RunIndex(word, i, Types) = k /\ k \in 1 .. Len(runs)
  BY <1>1, <1>2, UptoIs
<1>4. run \in Seq(Digit) /\ run \in ToSet(runs)
  BY <1>1, <1>3, ListIs
<1>5. IsMarker(word, i, Types) /\ i \in Nat /\ i >= 1
  <2>1. Len(word) \in Nat
    BY DEF Text
  <2>2. i \in 1 .. Len(word) /\ IsMarker(word, i, Types)
    BY MarkersAre
  <2> QED
    BY <2>1, <2>2
<1>6. c \in Types
  BY <1>1, <1>5 DEF IsMarker
<1>7. Looked(runs, Lookups(runs))
  BY LookedUp
<1>8. options \in Seq(Text)
  BY <1>5, <1>7, OptionsTyped
<1>9. ways = IF c = "4" THEN Known(run) ELSE {Convert(run, c)} \ {None}
  BY <1>1 DEF Ways, Upto
<1>10. options = IF c = "4" THEN Lookups(runs)[run] ELSE OptionOf(Convert(run, c))
  <2>1. ~(k > Len(runs))
    BY <1>2, <1>3
  <2>2. options = IF k > Len(runs) THEN <<>>
                  ELSE IF c = "4" THEN Lookups(runs)[runs[k]] ELSE OptionOf(Convert(runs[k], c))
    BY <1>1, <1>3 DEF Options, Types
  <2> QED
    BY <1>1, <2>1, <2>2
<1>11. CASE c = "4"
  <2>1. options = RecursiveLookup(run) /\ ways = Known(run)
    BY <1>4, <1>9, <1>10, <1>11 DEF Lookups
  <2>2. /\ ToSet(options) \subseteq ways /\ IsFiniteSet(ways)
        /\ \A a, b \in 1 .. Len(options) : options[a] = options[b] => a = b
        /\ Cardinality(ways) <= MaxExpansions => ToSet(options) = ways
    BY <2>1, RecursiveLookupIs
  <2>3. (\A n \in DOMAIN runs : Cardinality(Known(runs[n])) <= MaxExpansions)
            => Cardinality(ways) <= MaxExpansions
    BY <1>1, <1>2, <1>3, <2>1
  <2>4. ways \subseteq Text
    <3>1. AllFound(run) \in Seq(Found)
      BY AllFoundTyped
    <3>2. Displayable(AllFound(run)) \in Seq(Plainly)
      BY <3>1, DisplayableIs
    <3>3. \A d \in ToSet(Displayable(AllFound(run))) : d \in Plainly
      BY <3>2, ListIs
    <3>4. \A d \in Plainly : d.word \in Text
      BY CandidateIs DEF Plainly
    <3> QED
      BY <2>1, <3>3, <3>4 DEF Known
  <2> QED
    BY <1>1, <1>8, <2>2, <2>3, <2>4 DEF Lists
<1>12. CASE c # "4"
  <2>1. PICK t : t = Convert(run, c)
    OBVIOUS
  <2>2. t \in Text \cup {None}
    <3>1. c \in NumType
      BY <1>6, <1>12 DEF Types
    <3> QED
      BY <1>4, <2>1, <3>1, ConvertTyped
  <2>3. None \notin Text
    BY LookupAssumption DEF LookupAssumption
  <2>4. ways = {t} \ {None} /\ options = OptionOf(t)
    BY <1>9, <1>10, <1>12, <2>1
  <2>5. CASE t = None
    <3>1. ways = {} /\ options = <<>>
      BY <2>4, <2>5 DEF OptionOf
    <3>2. ToSet(options) = {} /\ Len(options) = 0
      BY <3>1 DEF ToSet
    <3>3. IsFiniteSet(ways)
      BY <3>1, FS_EmptySet
    <3> QED
      BY <1>1, <1>8, <3>1, <3>2, <3>3 DEF Lists
  <2>6. CASE t # None
    <3>1. ways = {t} /\ options = <<t>>
      BY <2>4, <2>6 DEF OptionOf
    <3>2. ToSet(options) = {t} /\ Len(options) = 1
      BY <3>1 DEF ToSet
    <3>3. IsFiniteSet(ways)
      BY <3>1, FS_Singleton
    <3>4. \A a, b \in 1 .. Len(options) : a = b
      BY <3>2
    <3> QED
      BY <1>1, <1>8, <2>2, <2>6, <3>1, <3>2, <3>3, <3>4 DEF Lists
  <2> QED
    BY <2>5, <2>6
<1> QED
  BY <1>11, <1>12

(* A glyph that is no marker is one more of every result.                     *)
LEMMA ProductOne ==
    ASSUME NEW results \in Seq(Text), NEW x \in Text, NEW options, options = <<x>>
    PROVE  /\ Len(Product(results, options)) = Len(results)
           /\ \A m \in 1 .. Len(results) : Product(results, options)[m] = results[m] \o x
<1>1. PICK n, L, p : n = Len(options) /\ L = Len(results) /\ p = Product(results, options)
  OBVIOUS
<1>2. n = 1 /\ options[1] = x /\ L \in Nat
  BY <1>1
<1>3. L * n = L
  BY <1>2
<1>6. options \in Seq(Text)
  OBVIOUS
<1>4. /\ Len(p) = L * n
      /\ \A m \in 1 .. L * n : p[m] = results[((m - 1) \div n) + 1] \o options[((m - 1) % n) + 1]
  BY <1>1, <1>6, ProductTyped
<1>5. ASSUME NEW m \in 1 .. L PROVE p[m] = results[m] \o x
  <2>1. PICK a, b : a = ((m - 1) \div n) + 1 /\ b = ((m - 1) % n) + 1
    OBVIOUS
  <2>2. a = m /\ b = 1
    BY <1>2, <2>1
  <2>3. p[m] = results[a] \o options[b]
    BY <1>3, <1>4, <2>1
  <2> QED
    BY <1>2, <2>2, <2>3
<1> QED
  BY <1>1, <1>3, <1>4, <1>5

(* Where a member of the product comes from.                                 *)
LEMMA ProductFrom ==
    ASSUME NEW results \in Seq(Text), NEW options \in Seq(Text),
           NEW m \in 1 .. Len(Product(results, options))
    PROVE  \E a \in 1 .. Len(results), b \in 1 .. Len(options) :
              Product(results, options)[m] = results[a] \o options[b]
<1>1. PICK n, L, p : n = Len(options) /\ L = Len(results) /\ p = Product(results, options)
  OBVIOUS
<1>2. n \in Nat /\ L \in Nat
  BY <1>1
<1>3. /\ Len(p) = L * n
      /\ \A j \in 1 .. L * n : p[j] = results[((j - 1) \div n) + 1] \o options[((j - 1) % n) + 1]
  BY <1>1, ProductTyped
<1>4. m \in 1 .. L * n
  BY <1>1, <1>3
<1>5. PICK a, b : a = ((m - 1) \div n) + 1 /\ b = ((m - 1) % n) + 1
  OBVIOUS
<1>6. a \in 1 .. L /\ b \in 1 .. n
  BY <1>2, <1>4, <1>5, TableIs
<1>7. p[m] = results[a] \o options[b]
  BY <1>3, <1>4, <1>5
<1> QED
  BY <1>1, <1>6, <1>7

(* How the results grow at a place, by the markers.                          *)
LEMMA GrownIs ==
    ASSUME NEW word \in Text, NEW i \in 1 .. Len(word), NEW results, NEW runs, NEW lookup,
           NEW grown, grown = Grown(results, word, i, runs, lookup)
    PROVE  /\ i - 1 \in Markers(word) => grown = results
           /\ i \in Markers(word)
                 => grown = Capped(Product(results, Options(word, i, runs, lookup)))
           /\ i \notin Markers(word) /\ i - 1 \notin Markers(word)
                 => grown = Capped(Product(results, <<<<word[i]>>>>))
<1>1. /\ i \in Markers(word) <=> IsMarker(word, i, Types)
      /\ i - 1 \in Markers(word) <=> Follows(word, i, Types)
      /\ ~(i \in Markers(word) /\ i - 1 \in Markers(word))
  BY MarkersAre
<1>2. CASE i - 1 \in Markers(word)
  <2>1. grown = results
    BY <1>1, <1>2 DEF Grown
  <2> QED
    BY <1>1, <1>2, <2>1
<1>3. CASE i \in Markers(word)
  <2>1. grown = Combined(results, Options(word, i, runs, lookup))
    BY <1>1, <1>3 DEF Grown
  <2> QED
    BY <1>1, <1>3, <2>1, CombinedIs
<1>4. CASE i \notin Markers(word) /\ i - 1 \notin Markers(word)
  <2>1. grown = Combined(results, <<<<word[i]>>>>)
    BY <1>1, <1>4 DEF Grown
  <2> QED
    BY <1>4, <2>1, CombinedIs
<1> QED
  BY <1>2, <1>3, <1>4

(* A text for each marker, among the ways to write its run up to a place.     *)
WrittenTo(word, runs, g, i) ==
    /\ g \in [Markers(word) -> Text]
    /\ \A j \in Markers(word) : j <= i => g[j] \in Ways(word, j, runs)

(* All of them make a combination.                                          *)
LEMMA CombinationsAre ==
    ASSUME NEW word \in Text, NEW runs,
           \A i \in Markers(word) : Ways(word, i, runs) \subseteq Text
    PROVE  Combinations(word, runs) = {g \in [Markers(word) -> Text] :
               \A i \in Markers(word) : g[i] \in Ways(word, i, runs)}
<1> DEFINE C == Combinations(word, runs)
           D == {g \in [Markers(word) -> Text] :
                    \A i \in Markers(word) : g[i] \in Ways(word, i, runs)}
           U == UNION {Ways(word, i, runs) : i \in Markers(word)}
<1>1. \A g \in C : g \in D
  <2> SUFFICES ASSUME NEW g \in C PROVE g \in D
    OBVIOUS
  <2>1. g \in [Markers(word) -> U] /\ \A i \in Markers(word) : g[i] \in Ways(word, i, runs)
    BY DEF Combinations
  <2>2. U \subseteq Text
    OBVIOUS
  <2> HIDE DEF U
  <2>3. g \in [Markers(word) -> Text]
    BY <2>1, <2>2
  <2> QED
    BY <2>1, <2>3
<1>2. \A g \in D : g \in C
  <2> SUFFICES ASSUME NEW g \in D PROVE g \in C
    OBVIOUS
  <2>1. g \in [Markers(word) -> Text] /\ \A i \in Markers(word) : g[i] \in Ways(word, i, runs)
    OBVIOUS
  <2>2. \A i \in Markers(word) : g[i] \in U
    BY <2>1
  <2> HIDE DEF U
  <2>3. g \in [Markers(word) -> U]
    BY <2>1, <2>2
  <2> QED
    BY <2>1, <2>3 DEF Combinations, U
<1> QED
  BY <1>1, <1>2

(* What is expanded is spelt by a combination.                               *)
LEMMA ExpandedSpelt ==
    ASSUME Dictionaries, NEW word \in Text, NEW runs \in Seq(Seq(Digit)),
           Cardinality(Markers(word)) <= Len(runs), NEW list,
           list = ExpandWithRecursiveLookup(word, runs, Lookups(runs)), NEW k \in 1 .. Len(list)
    PROVE  \E g \in Combinations(word, runs) : list[k] = Spelt(word, g)
<1> DEFINE lookup == Lookups(runs)
           M == Markers(word)
<1>1. Looked(runs, lookup)
  BY LookedUp
<1> HIDE DEF lookup
<1>2. PICK N : N = Len(word)
  OBVIOUS
<1>3. N \in Nat /\ \A j \in 1 .. N : word[j] \in Glyph
  BY <1>2 DEF Text
<1>4. PICK r \in [0 .. N -> Seq(Text)] :
          /\ list = r[N] /\ r[0] = OneField
          /\ \A i \in 1 .. N : r[i] = Grown(r[i - 1], word, i, runs, lookup)
  BY <1>1, <1>2, ExpansionIs DEF lookup
<1>5. \A i \in M : Ways(word, i, runs) \subseteq Text
  BY WaysAre
<1>12. M \subseteq 1 .. N
  BY <1>2, MarkersAre
<1>13. word \in Text
  OBVIOUS
<1> DEFINE Good(i, m) == \E g : WrittenTo(word, runs, g, i) /\ r[i][m] = SpeltTo(word, g, i)
           S == {i \in 0 .. N : \A m \in 1 .. Len(r[i]) : Good(i, m)}
<1>6. 0 \in S
  <2> DEFINE g == [j \in M |-> <<>>]
  <2>1. g \in [M -> Text]
    BY ShortText
  <2>2. \A j \in M : ~(j <= 0)
    BY <1>12
  <2>3. WrittenTo(word, runs, g, 0)
    BY <2>1, <2>2 DEF WrittenTo
  <2>4. \A m \in 1 .. Len(r[0]) : r[0][m] = <<>>
    BY <1>4 DEF OneField
  <2>5. SpeltTo(word, g, 0) = <<>>
    BY SpeltIs
  <2> HIDE DEF g
  <2>6. \A m \in 1 .. Len(r[0]) : Good(0, m)
    BY <2>3, <2>4, <2>5
  <2> QED
    BY <1>3, <2>6
<1>7. ASSUME NEW n \in 0 .. N - 1, n \in S PROVE n + 1 \in S
  <2>1. PICK i : i = n + 1
    OBVIOUS
  <2>2. i \in 1 .. N /\ i \in 0 .. N /\ i - 1 = n /\ n \in 0 .. N /\ n <= i
    BY <1>3, <2>1
  <2>3. \A m \in 1 .. Len(r[n]) : Good(n, m)
    BY <1>7
  <2>4. r[n] \in Seq(Text) /\ r[i] \in Seq(Text) /\ r[i] = Grown(r[n], word, i, runs, lookup)
    BY <1>4, <2>2
  <2> SUFFICES ASSUME NEW m \in 1 .. Len(r[i]) PROVE Good(i, m)
    BY <2>1, <2>2
  <2>5. \A g \in [M -> Text] : SpeltTo(word, g, i) = SpeltTo(word, g, n) \o Piece(word, g, i)
    BY <1>2, <2>2, SpeltStep
  <2>10. PICK rs : rs = r[n]
    OBVIOUS
  <2>11. r[i] = Grown(rs, word, i, runs, lookup) /\ i \in 1 .. Len(word)
    BY <1>2, <2>2, <2>4, <2>10
  <2>12. /\ i - 1 \in M => r[i] = rs
         /\ i \in M => r[i] = Capped(Product(rs, Options(word, i, runs, lookup)))
         /\ i \notin M /\ i - 1 \notin M => r[i] = Capped(Product(rs, <<<<word[i]>>>>))
    BY ONLY <1>13, <2>11, GrownIs
  <2>6. CASE i \in M
    <3>1. PICK os : os = Options(word, i, runs, lookup)
      OBVIOUS
    <3>2. os \in Seq(Text) /\ ToSet(os) \subseteq Ways(word, i, runs)
      BY <2>6, <3>1, WaysAre DEF Lists, lookup
    <3>3. r[i] = Capped(Product(r[n], os))
      BY <2>6, <2>10, <2>12, <3>1
    <3>4. PICK p : p = Product(r[n], os)
      OBVIOUS
    <3>5. p \in Seq(Text)
      BY <2>4, <3>2, <3>4, ProductTyped
    <3>6. m \in 1 .. Len(p) /\ r[i][m] = p[m]
      BY <3>3, <3>4, <3>5, CappedTyped
    <3>7. PICK a \in 1 .. Len(r[n]), b \in 1 .. Len(os) : p[m] = r[n][a] \o os[b]
      BY <2>4, <3>2, <3>4, <3>6, ProductFrom
    <3>8. PICK g : WrittenTo(word, runs, g, n) /\ r[n][a] = SpeltTo(word, g, n)
      BY <2>3
    <3> DEFINE h == [g EXCEPT ![i] = os[b]]
    <3>9. os[b] \in Text /\ os[b] \in Ways(word, i, runs)
      BY <3>2, ListIs
    <3>10. g \in [M -> Text] /\ \A j \in M : j <= n => g[j] \in Ways(word, j, runs)
      BY <3>8 DEF WrittenTo
    <3>11. h \in [M -> Text] /\ h[i] = os[b] /\ \A j \in M : j # i => h[j] = g[j]
      BY <2>6, <3>9, <3>10
    <3> HIDE DEF h
    <3>12. \A j \in M : (j <= i => j <= n \/ j = i) /\ (j <= n => j # i)
      BY <1>12, <2>2
    <3>13. WrittenTo(word, runs, h, i)
      BY <3>9, <3>10, <3>11, <3>12 DEF WrittenTo
    <3>14. SpeltTo(word, h, n) = SpeltTo(word, g, n)
      <4>1. \A j \in M : j <= n => h[j] = g[j]
        BY <3>11, <3>12
      <4> QED
        BY <1>2, <2>2, <3>10, <3>11, <4>1, SpeltAre
    <3>15. Piece(word, h, i) = os[b]
      BY <2>6, <3>11 DEF Piece
    <3>16. r[i][m] = SpeltTo(word, h, i)
      BY <2>5, <3>6, <3>7, <3>8, <3>11, <3>14, <3>15
    <3> QED
      BY <3>13, <3>16
  <2>7. ASSUME i \notin M, NEW a \in 1 .. Len(r[n]), r[i][m] = r[n][a] \o
               (IF n \in M THEN <<>> ELSE <<word[i]>>)
        PROVE  Good(i, m)
    <3>1. PICK g : WrittenTo(word, runs, g, n) /\ r[n][a] = SpeltTo(word, g, n)
      BY <2>3
    <3>2. \A j \in M : j <= i => j <= n
      BY <1>12, <2>2, <2>7
    <3>3. WrittenTo(word, runs, g, i)
      BY <3>1, <3>2 DEF WrittenTo
    <3>4. Piece(word, g, i) = IF n \in M THEN <<>> ELSE <<word[i]>>
      BY <2>2, <2>7 DEF Piece
    <3>5. r[i][m] = SpeltTo(word, g, i)
      BY <2>5, <2>7, <3>1, <3>4 DEF WrittenTo
    <3> QED
      BY <3>3, <3>5
  <2>8. CASE n \in M
    <3>1. r[i] = r[n] /\ i \notin M
      BY <2>2, <2>8, <2>10, <2>12, MarkersAre
    <3>2. m \in 1 .. Len(r[n]) /\ r[n][m] \in Text
      BY <2>4, <3>1, ListIs
    <3>3. r[i][m] = r[n][m] \o <<>>
      BY <3>1, <3>2 DEF Text
    <3> QED
      BY <2>7, <2>8, <3>1, <3>2, <3>3
  <2>9. CASE i \notin M /\ n \notin M
    <3>1. PICK x, os : x = <<word[i]>> /\ os = <<x>>
      OBVIOUS
    <3>2. x \in Text
      BY <1>3, <2>2, <3>1, OneTyped
    <3>3. r[i] = Capped(Product(r[n], os))
      BY <2>2, <2>9, <2>10, <2>12, <3>1
    <3>4. PICK p : p = Product(r[n], os)
      OBVIOUS
    <3>5. os \in Seq(Text)
      BY <3>1, <3>2
    <3>6. p \in Seq(Text)
      BY <2>4, <3>4, <3>5, ProductTyped
    <3>7. m \in 1 .. Len(p) /\ r[i][m] = p[m]
      BY <3>3, <3>4, <3>6, CappedTyped
    <3>8. Len(p) = Len(r[n]) /\ \A a \in 1 .. Len(r[n]) : p[a] = r[n][a] \o x
      BY <2>4, <3>1, <3>2, <3>4, ProductOne
    <3> QED
      BY <2>7, <2>9, <3>1, <3>7, <3>8
  <2> QED
    BY <2>6, <2>8, <2>9
<1>8. N \in S
  <2> HIDE DEF S
  <2>1. \A i \in 0 .. N : i \in S
    BY <1>3, <1>6, <1>7, UpTo
  <2> QED
    BY <1>3, <2>1
<1>9. PICK g : WrittenTo(word, runs, g, N) /\ list[k] = SpeltTo(word, g, N)
  BY <1>4, <1>8
<1>10. \A j \in M : j <= N
  BY <1>12
<1>11. g \in Combinations(word, runs)
  <2>1. g \in [M -> Text] /\ \A j \in M : g[j] \in Ways(word, j, runs)
    BY <1>9, <1>10 DEF WrittenTo
  <2>2. Combinations(word, runs) =
          {h \in [M -> Text] : \A j \in M : h[j] \in Ways(word, j, runs)}
    BY <1>5, CombinationsAre
  <2> QED
    BY <2>1, <2>2
<1> QED
  BY <1>2, <1>9, <1>11, SpeltIs

(* The combinations that agree with one after a place.                       *)
Agreeing(word, runs, f, i) ==
    {g \in Combinations(word, runs) : \A j \in Markers(word) : j > i => g[j] = f[j]}

(* One marker more makes a difference there only.                            *)
LEMMA AgreeingStep ==
    ASSUME NEW word \in Text, NEW runs, NEW f \in Combinations(word, runs), NEW i \in Markers(word),
           \A j \in Markers(word) : Ways(word, j, runs) \subseteq Text
    PROVE  /\ \A g \in Agreeing(word, runs, f, i) :
                 /\ g[i] \in Ways(word, i, runs)
                 /\ [g EXCEPT ![i] = f[i]] \in Agreeing(word, runs, f, i - 1)
                 /\ g = [[g EXCEPT ![i] = f[i]] EXCEPT ![i] = g[i]]
           /\ \A g \in Agreeing(word, runs, f, i - 1) : \A t \in Ways(word, i, runs) :
                 [g EXCEPT ![i] = t] \in Agreeing(word, runs, f, i)
           /\ \A g \in Agreeing(word, runs, f, i - 1) : g[i] = f[i]
<1>1. PICK M, ways, C : /\ M = Markers(word) /\ C = Combinations(word, runs)
                        /\ ways = [j \in M |-> Ways(word, j, runs)]
  OBVIOUS
<1>2. C = {g \in [M -> Text] : \A j \in M : g[j] \in ways[j]} /\ \A j \in M : ways[j] \subseteq Text
  BY <1>1, CombinationsAre
<1>3. M \subseteq Nat /\ i \in M /\ f \in C
  <2>1. M \subseteq 1 .. Len(word) /\ Len(word) \in Nat
    BY <1>1, MarkersAre DEF Text
  <2> QED
    BY <1>1, <2>1
<1>4. \A g \in C, t \in ways[i] : [g EXCEPT ![i] = t] \in C
  <2> SUFFICES ASSUME NEW g \in C, NEW t \in ways[i] PROVE [g EXCEPT ![i] = t] \in C
    OBVIOUS
  <2>1. g \in [M -> Text] /\ \A j \in M : g[j] \in ways[j]
    BY <1>2
  <2> DEFINE h == [g EXCEPT ![i] = t]
  <2>2. h = [j \in M |-> IF j = i THEN t ELSE g[j]]
    BY <2>1
  <2> HIDE DEF h
  <2>3. \A j \in M : h[j] \in ways[j] /\ h[j] \in Text
    BY <1>2, <1>3, <2>1, <2>2
  <2>4. h \in [M -> Text]
    BY <2>2, <2>3
  <2> QED
    BY <1>2, <2>3, <2>4 DEF h
<1>5. f[i] \in ways[i]
  BY <1>2, <1>3
<1>6. \A j \in M : (j > i - 1 <=> j > i \/ j = i)
  BY <1>3
<1>7. ASSUME NEW g \in Agreeing(word, runs, f, i)
      PROVE  /\ g[i] \in ways[i]
             /\ [g EXCEPT ![i] = f[i]] \in Agreeing(word, runs, f, i - 1)
             /\ g = [[g EXCEPT ![i] = f[i]] EXCEPT ![i] = g[i]]
  <2>1. g \in C /\ \A j \in M : j > i => g[j] = f[j]
    BY <1>1 DEF Agreeing
  <2>2. g \in [M -> Text] /\ g[i] \in ways[i]
    BY <1>2, <1>3, <2>1
  <2> DEFINE h == [g EXCEPT ![i] = f[i]]
  <2>3. h = [j \in M |-> IF j = i THEN f[i] ELSE g[j]]
    BY <2>2
  <2>4. h \in C
    BY <1>4, <1>5, <2>1
  <2>5. g = [h EXCEPT ![i] = g[i]]
    BY <2>2
  <2> HIDE DEF h
  <2>6. \A j \in M : j > i - 1 => h[j] = f[j]
    BY <1>6, <2>1, <2>3
  <2>7. h \in Agreeing(word, runs, f, i - 1)
    BY <1>1, <2>4, <2>6 DEF Agreeing
  <2> QED
    BY <2>2, <2>5, <2>7 DEF h
<1>8. ASSUME NEW g \in Agreeing(word, runs, f, i - 1)
      PROVE  g[i] = f[i] /\ \A t \in ways[i] : [g EXCEPT ![i] = t] \in Agreeing(word, runs, f, i)
  <2>1. g \in C /\ \A j \in M : j > i - 1 => g[j] = f[j]
    BY <1>1 DEF Agreeing
  <2>2. g \in [M -> Text] /\ g[i] = f[i]
    BY <1>2, <1>3, <1>6, <2>1
  <2> SUFFICES ASSUME NEW t \in ways[i] PROVE [g EXCEPT ![i] = t] \in Agreeing(word, runs, f, i)
    BY <2>2
  <2> DEFINE h == [g EXCEPT ![i] = t]
  <2>3. h = [j \in M |-> IF j = i THEN t ELSE g[j]]
    BY <2>2
  <2>4. h \in C
    BY <1>4, <2>1
  <2> HIDE DEF h
  <2>5. \A j \in M : j > i => h[j] = f[j]
    BY <1>3, <1>6, <2>1, <2>3
  <2>6. h \in Agreeing(word, runs, f, i)
    BY <1>1, <2>4, <2>5 DEF Agreeing
  <2> QED
    BY <2>6 DEF h
<1>9. ways[i] = Ways(word, i, runs)
  BY <1>1
<1> QED
  BY <1>7, <1>8, <1>9

(* Where there is no marker, none.                                          *)
LEMMA AgreeingStays ==
    ASSUME NEW word \in Text, NEW runs, NEW f, NEW i \in 1 .. Len(word), i \notin Markers(word)
    PROVE  Agreeing(word, runs, f, i) = Agreeing(word, runs, f, i - 1)
<1>1. Len(word) \in Nat
  BY DEF Text
<1>2. \A j \in Markers(word) : j > i <=> j > i - 1
  BY <1>1, MarkersAre
<1> QED
  BY <1>2 DEF Agreeing

(* At first there is only the one, at last there are all.                    *)
LEMMA AgreeingEnds ==
    ASSUME NEW word \in Text, NEW runs, NEW f \in Combinations(word, runs),
           \A j \in Markers(word) : Ways(word, j, runs) \subseteq Text
    PROVE  /\ Agreeing(word, runs, f, 0) = {f}
           /\ Agreeing(word, runs, f, Len(word)) = Combinations(word, runs)
           /\ \A i : f \in Agreeing(word, runs, f, i)
<1>1. PICK M, C : M = Markers(word) /\ C = Combinations(word, runs)
  OBVIOUS
<1>2. C \subseteq [M -> Text] /\ f \in C
  BY <1>1, CombinationsAre
<1>3. M \subseteq 1 .. Len(word) /\ Len(word) \in Nat
  BY <1>1, MarkersAre DEF Text
<1>4. ASSUME NEW g \in C, \A j \in M : j > 0 => g[j] = f[j] PROVE g = f
  <2>1. \A j \in M : g[j] = f[j]
    BY <1>3, <1>4
  <2>2. g \in [M -> Text] /\ f \in [M -> Text]
    BY <1>2
  <2> QED
    BY <2>1, <2>2
<1>5. Agreeing(word, runs, f, 0) = {f}
  BY <1>1, <1>2, <1>4 DEF Agreeing
<1>6. \A j \in M : ~(j > Len(word))
  BY <1>3
<1>7. Agreeing(word, runs, f, Len(word)) = C
  BY <1>1, <1>6 DEF Agreeing
<1> QED
  BY <1>1, <1>5, <1>7 DEF Agreeing

(* There are finitely many combinations.                                     *)
LEMMA CombinationsFinite ==
    ASSUME NEW word \in Text, NEW runs, NEW f \in Combinations(word, runs),
           \A j \in Markers(word) : Ways(word, j, runs) \subseteq Text,
           \A j \in Markers(word) : IsFiniteSet(Ways(word, j, runs))
    PROVE  IsFiniteSet(Combinations(word, runs))
<1>1. PICK N : N = Len(word)
  OBVIOUS
<1>2. N \in Nat
  BY <1>1 DEF Text
<1> DEFINE A(i) == Agreeing(word, runs, f, i)
           S == {i \in 0 .. N : IsFiniteSet(A(i))}
<1>3. 0 \in S
  <2>1. Agreeing(word, runs, f, 0) = {f} /\ 0 \in 0 .. N
    BY <1>2, AgreeingEnds
  <2>2. IsFiniteSet({f})
    BY FS_Singleton
  <2> QED
    BY <2>1, <2>2
<1>4. ASSUME NEW n \in 0 .. N - 1, n \in S PROVE n + 1 \in S
  <2>1. PICK i : i = n + 1
    OBVIOUS
  <2>2. i \in 1 .. N /\ i \in 0 .. N /\ n = i - 1
    BY <1>2, <2>1
  <2>3. IsFiniteSet(A(n))
    BY <1>4
  <2>4. CASE i \notin Markers(word)
    <3>1. A(i) = A(n)
      BY <1>1, <2>2, <2>4, AgreeingStays
    <3> QED
      BY <2>1, <2>2, <2>3, <3>1
  <2>5. CASE i \in Markers(word)
    <3>1. PICK a, b, w : a = A(i) /\ b = A(n) /\ w = Ways(word, i, runs)
      OBVIOUS
    <3>2. \A g \in a : /\ g[i] \in w /\ [g EXCEPT ![i] = f[i]] \in b
                       /\ g = [[g EXCEPT ![i] = f[i]] EXCEPT ![i] = g[i]]
      BY <2>2, <2>5, <3>1, AgreeingStep
    <3>3. IsFiniteSet(b) /\ IsFiniteSet(w)
      BY <2>3, <2>5, <3>1
    <3>4. IsFiniteSet(b \X w)
      BY <3>3, FS_Product
    <3> DEFINE h == [g \in a |-> <<[g EXCEPT ![i] = f[i]], g[i]>>]
    <3>5. \A g \in a : h[g] \in b \X w
      BY <3>2
    <3>6. ASSUME NEW g1 \in a, NEW g2 \in a, h[g1] = h[g2] PROVE g1 = g2
      <4>1. PICK e1, e2 : e1 = [g1 EXCEPT ![i] = f[i]] /\ e2 = [g2 EXCEPT ![i] = f[i]]
        OBVIOUS
      <4>2. h[g1] = <<e1, g1[i]>> /\ h[g2] = <<e2, g2[i]>>
        BY <4>1
      <4>3. e1 = e2 /\ g1[i] = g2[i]
        BY <3>6, <4>2
      <4>4. g1 = [e1 EXCEPT ![i] = g1[i]] /\ g2 = [e2 EXCEPT ![i] = g2[i]]
        BY <3>2, <4>1
      <4> QED
        BY <4>3, <4>4
    <3>7. h \in [a -> b \X w]
      BY <3>5
    <3> HIDE DEF h
    <3>8. h \in Injection(a, b \X w)
      BY <3>6, <3>7 DEF Injection, IsInjective
    <3>9. IsFiniteSet(a)
      BY <3>4, <3>8, FS_Injection
    <3> QED
      BY <2>1, <2>2, <3>1, <3>9
  <2> QED
    BY <2>4, <2>5
<1>5. N \in S
  <2> HIDE DEF S
  <2>1. \A i \in 0 .. N : i \in S
    BY <1>2, <1>3, <1>4, UpTo
  <2> QED
    BY <1>2, <2>1
<1> QED
  BY <1>1, <1>5, AgreeingEnds

(* A list of texts spelt by combinations, each of them once.                  *)
Numbers(g, list, set, word, i) ==
    /\ g \in [1 .. Len(list) -> set]
    /\ \A k, l \in 1 .. Len(list) : g[k] = g[l] => k = l
    /\ \A x \in set : \E k \in 1 .. Len(list) : g[k] = x
    /\ \A k \in 1 .. Len(list) : list[k] = SpeltTo(word, g[k], i)

(* Extended by the ways for one marker more it is one again.                  *)
LEMMA ProductNumbers ==
    ASSUME NEW word \in Text, NEW runs, NEW f \in Combinations(word, runs), NEW i \in Markers(word),
           \A j \in Markers(word) : Ways(word, j, runs) \subseteq Text,
           NEW list \in Seq(Text), NEW g,
           Numbers(g, list, Agreeing(word, runs, f, i - 1), word, i - 1),
           NEW options \in Seq(Text), Lists(options, Ways(word, i, runs), TRUE)
    PROVE  \E h : Numbers(h, Product(list, options), Agreeing(word, runs, f, i), word, i)
<1>1. PICK L, n, N, a, b, ways, p :
        /\ L = Len(list) /\ n = Len(options) /\ N = L * n /\ p = Product(list, options)
        /\ a = Agreeing(word, runs, f, i) /\ b = Agreeing(word, runs, f, i - 1)
        /\ ways = Ways(word, i, runs)
  OBVIOUS
<1>2. L \in Nat /\ n \in Nat
  BY <1>1
<1>18. N = L * n
  BY <1>1
<1>3. /\ g \in [1 .. L -> b]
      /\ \A k, l \in 1 .. L : g[k] = g[l] => k = l
      /\ \A x \in b : \E k \in 1 .. L : g[k] = x
      /\ \A k \in 1 .. L : list[k] = SpeltTo(word, g[k], i - 1)
  BY <1>1 DEF Numbers
<1>4. /\ ToSet(options) = ways
      /\ \A x, y \in 1 .. n : options[x] = options[y] => x = y
  BY <1>1 DEF Lists
<1>5. (\A x \in 1 .. n : options[x] \in ways) /\ \A t \in ways : \E x \in 1 .. n : options[x] = t
  BY <1>1, <1>4, ListIs
<1>6. Len(p) = N /\ p \in Seq(Text)
      /\ \A m \in 1 .. N : p[m] = list[((m - 1) \div n) + 1] \o options[((m - 1) % n) + 1]
  BY <1>1, ProductTyped
<1> DEFINE Row(m) == ((m - 1) \div n) + 1
           Col(m) == ((m - 1) % n) + 1
<1>7. ASSUME NEW m \in 1 .. N
      PROVE  /\ Row(m) \in 1 .. L /\ Col(m) \in 1 .. n
             /\ m = (Row(m) - 1) * n + Col(m)
  <2>1. /\ ((m - 1) \div n) + 1 \in 1 .. L /\ ((m - 1) % n) + 1 \in 1 .. n
        /\ m = ((m - 1) \div n) * n + ((m - 1) % n) + 1
    BY <1>2, <1>18, TableIs
  <2>2. PICK q, r : q = (m - 1) \div n /\ r = (m - 1) % n
    OBVIOUS
  <2>3. /\ q + 1 \in 1 .. L /\ r + 1 \in 1 .. n
        /\ m = q * n + r + 1 /\ Row(m) = q + 1 /\ Col(m) = r + 1
    BY <2>1, <2>2
  <2>4. (q + 1) - 1 = q \/ q \notin Int
    OBVIOUS
  <2>5. q \in Int
    BY <1>2, <2>1, <2>2
  <2>6. q * n \in Int /\ r \in Int
    BY <1>2, <2>1, <2>2, <2>5
  <2>7. q * n + (r + 1) = q * n + r + 1
    BY <2>6
  <2> QED
    BY <2>3, <2>4, <2>5, <2>7
<1>8. \A x \in 1 .. L, y \in 1 .. n : \E m \in 1 .. N : Row(m) = x /\ Col(m) = y
  <2> SUFFICES ASSUME NEW x \in 1 .. L, NEW y \in 1 .. n
               PROVE  \E m \in 1 .. N : Row(m) = x /\ Col(m) = y
    OBVIOUS
  <2>1. PICK m \in 1 .. N : At(m, n, x, y)
    BY <1>2, <1>18, TableHas
  <2> QED
    BY <2>1 DEF At
<1> HIDE DEF Row, Col
<1>9. /\ \A x \in a : /\ x[i] \in ways /\ [x EXCEPT ![i] = f[i]] \in b
                      /\ x = [[x EXCEPT ![i] = f[i]] EXCEPT ![i] = x[i]]
      /\ \A x \in b : \A t \in ways : [x EXCEPT ![i] = t] \in a
      /\ \A x \in b : x[i] = f[i]
  BY <1>1, AgreeingStep
<1>10. \A x \in a \cup b : x \in [Markers(word) -> Text]
  BY <1>1, CombinationsAre DEF Agreeing
<1> DEFINE h == [m \in 1 .. N |-> [g[Row(m)] EXCEPT ![i] = options[Col(m)]]]
<1>11. h = [m \in 1 .. N |-> h[m]]
       /\ \A m \in 1 .. N : h[m] = [g[Row(m)] EXCEPT ![i] = options[Col(m)]]
  OBVIOUS
<1> HIDE DEF h
<1>12. ASSUME NEW m \in 1 .. N PROVE g[Row(m)] \in b /\ options[Col(m)] \in ways /\ h[m] \in a
  <2>1. g[Row(m)] \in b /\ options[Col(m)] \in ways
    BY <1>3, <1>5, <1>7
  <2> QED
    BY <1>9, <1>11, <2>1
<1>13. h \in [1 .. N -> a]
  BY <1>11, <1>12
<1>14. ASSUME NEW m \in 1 .. N, NEW o \in 1 .. N, h[m] = h[o] PROVE m = o
  <2>1. PICK gm, go, tm, to : /\ gm = g[Row(m)] /\ go = g[Row(o)]
                              /\ tm = options[Col(m)] /\ to = options[Col(o)]
    OBVIOUS
  <2>2. gm \in b /\ go \in b /\ tm \in ways /\ to \in ways
    BY <1>12, <2>1
  <2>3. gm \in [Markers(word) -> Text] /\ go \in [Markers(word) -> Text]
    BY <1>10, <2>2
  <2>4. [gm EXCEPT ![i] = tm] = [go EXCEPT ![i] = to]
    BY <1>11, <1>14, <2>1
  <2>5. tm = to
    BY <2>3, <2>4
  <2>6. \A j \in Markers(word) : j # i => gm[j] = go[j]
    BY <2>3, <2>4
  <2>7. gm[i] = go[i]
    BY <1>9, <2>2
  <2>8. gm = go
    BY <2>3, <2>6, <2>7
  <2>9. Row(m) = Row(o) /\ Col(m) = Col(o)
    BY <1>3, <1>4, <1>7, <2>1, <2>5, <2>8
  <2> QED
    BY <1>7, <2>9
<1>15. ASSUME NEW x \in a PROVE \E m \in 1 .. N : h[m] = x
  <2>1. PICK y, t : y = [x EXCEPT ![i] = f[i]] /\ t = x[i]
    OBVIOUS
  <2>2. t \in ways /\ y \in b /\ x = [y EXCEPT ![i] = t]
    BY <1>9, <2>1
  <2>3. PICK r \in 1 .. L : g[r] = y
    BY <1>3, <2>2
  <2>4. PICK c \in 1 .. n : options[c] = t
    BY <1>5, <2>2
  <2>5. PICK m \in 1 .. N : Row(m) = r /\ Col(m) = c
    BY <1>8
  <2> QED
    BY <1>11, <2>2, <2>3, <2>4, <2>5
<1>16. ASSUME NEW m \in 1 .. N PROVE p[m] = SpeltTo(word, h[m], i)
  <2>1. PICK y, t, x : y = g[Row(m)] /\ t = options[Col(m)] /\ x = h[m]
    OBVIOUS
  <2>2. p[m] = list[Row(m)] \o t
    BY <1>6, <2>1 DEF Row, Col
  <2>3. list[Row(m)] = SpeltTo(word, y, i - 1)
    BY <1>3, <1>7, <2>1
  <2>4. y \in b /\ x \in a /\ x = [y EXCEPT ![i] = t]
    BY <1>11, <1>12, <2>1
  <2>5. y \in [Markers(word) -> Text] /\ x \in [Markers(word) -> Text]
    BY <1>10, <2>4
  <2>6. x[i] = t /\ \A j \in Markers(word) : j # i => x[j] = y[j]
    BY <2>4, <2>5
  <2>7. /\ i \in 1 .. Len(word) /\ i - 1 \in 0 .. Len(word)
        /\ \A j \in Markers(word) : j <= i - 1 => j # i
    <3>1. Len(word) \in Nat /\ Markers(word) \subseteq 1 .. Len(word)
      BY MarkersAre DEF Text
    <3> QED
      BY <3>1
  <2>8. SpeltTo(word, x, i - 1) = SpeltTo(word, y, i - 1)
    BY <2>5, <2>6, <2>7, SpeltAre
  <2>9. Piece(word, x, i) = t
    BY <2>6 DEF Piece
  <2>10. SpeltTo(word, x, i) = SpeltTo(word, x, i - 1) \o Piece(word, x, i)
    BY <2>5, <2>7, SpeltStep
  <2> QED
    BY <2>1, <2>2, <2>3, <2>8, <2>9, <2>10
<1>17. Numbers(h, p, a, word, i)
  BY <1>6, <1>13, <1>14, <1>15, <1>16 DEF Numbers
<1> QED
  BY <1>1, <1>17

(* Extended by what is no marker, too.                                       *)
LEMMA ExtendedNumbers ==
    ASSUME NEW word \in Text, NEW set, NEW i \in 1 .. Len(word), i \notin Markers(word),
           set \subseteq [Markers(word) -> Text],
           NEW list, NEW more, Len(more) = Len(list), NEW g, Numbers(g, list, set, word, i - 1),
           \A k \in 1 .. Len(list) :
              more[k] = list[k] \o (IF i - 1 \in Markers(word) THEN <<>> ELSE <<word[i]>>)
    PROVE  Numbers(g, more, set, word, i)
<1>1. ASSUME NEW k \in 1 .. Len(list) PROVE more[k] = SpeltTo(word, g[k], i)
  <2>1. PICK x : x = g[k]
    OBVIOUS
  <2>2. x \in [Markers(word) -> Text] /\ list[k] = SpeltTo(word, x, i - 1)
    BY <2>1 DEF Numbers
  <2>3. Piece(word, x, i) = IF i - 1 \in Markers(word) THEN <<>> ELSE <<word[i]>>
    BY DEF Piece
  <2>4. SpeltTo(word, x, i) = SpeltTo(word, x, i - 1) \o Piece(word, x, i)
    BY <2>2, SpeltStep
  <2> QED
    BY <2>1, <2>2, <2>3, <2>4
<1> QED
  BY <1>1 DEF Numbers

(* If few enough, every combination is expanded.                              *)
LEMMA ExpandedAll ==
    ASSUME Dictionaries, NEW word \in Text, NEW runs \in Seq(Seq(Digit)),
           Cardinality(Markers(word)) <= Len(runs), FewEnough(word, runs), NEW list,
           list = ExpandWithRecursiveLookup(word, runs, Lookups(runs)),
           NEW f \in Combinations(word, runs)
    PROVE  \E k \in 1 .. Len(list) : list[k] = Spelt(word, f)
<1> DEFINE lookup == Lookups(runs)
           M == Markers(word)
           C == Combinations(word, runs)
<1>1. Looked(runs, lookup)
  BY LookedUp
<1> HIDE DEF lookup
<1>2. PICK N : N = Len(word)
  OBVIOUS
<1>3. N \in Nat /\ \A j \in 1 .. N : word[j] \in Glyph
  BY <1>2 DEF Text
<1>4. PICK r \in [0 .. N -> Seq(Text)] :
          /\ list = r[N] /\ r[0] = OneField
          /\ \A i \in 1 .. N : r[i] = Grown(r[i - 1], word, i, runs, lookup)
  BY <1>1, <1>2, ExpansionIs DEF lookup
<1>5. /\ \A j \in M : Ways(word, j, runs) \subseteq Text
      /\ \A j \in M : IsFiniteSet(Ways(word, j, runs))
  BY WaysAre
<1>6. M \subseteq 1 .. N /\ word \in Text
  BY <1>2, MarkersAre
<1>7. IsFiniteSet(C)
  BY <1>5, CombinationsFinite
<1>8. /\ \A k \in DOMAIN runs : Cardinality(Known(runs[k])) <= MaxExpansions
      /\ Cardinality(C) <= MaxExpansions
  BY DEF FewEnough
<1>9. MaxExpansions \in Nat /\ Cardinality(C) \in Nat
  BY <1>7, NumeralsAssumption, FS_CardinalityType
<1>10. \A x \in C : x \in [M -> Text]
  BY <1>5, CombinationsAre
<1> DEFINE A(i) == Agreeing(word, runs, f, i)
<1>11. \A i : A(i) \subseteq C
  BY DEF Agreeing
<1>12. ASSUME NEW i, NEW g, NEW s, Numbers(g, s, A(i), word, i), s \in Seq(Text)
       PROVE  Len(s) <= MaxExpansions
  <2>1. Len(s) \in Nat
    BY <1>12
  <2>2. Cardinality(A(i)) = Len(s)
    BY <1>12, <2>1, Numbered DEF Numbers
  <2>3. Cardinality(A(i)) <= Cardinality(C)
    BY <1>7, <1>11, FS_Subset
  <2> QED
    BY <1>8, <1>9, <2>1, <2>2, <2>3
<1> DEFINE S == {i \in 0 .. N : \E g : Numbers(g, r[i], A(i), word, i)}
<1>13. 0 \in S
  <2>1. A(0) = {f}
    BY AgreeingEnds, <1>5
  <2>2. Len(r[0]) = 1 /\ r[0][1] = <<>>
    BY <1>4 DEF OneField
  <2>3. SpeltTo(word, f, 0) = <<>>
    BY SpeltIs
  <2> DEFINE g == [k \in 1 .. 1 |-> f]
  <2>4. g \in [1 .. 1 -> {f}] /\ g[1] = f
    OBVIOUS
  <2> HIDE DEF g
  <2>5. \A k \in 1 .. 1 : k = 1
    OBVIOUS
  <2>6. Numbers(g, r[0], {f}, word, 0)
    <3>1. PICK s, z, y : s = r[0] /\ z = 0 /\ y = SpeltTo(word, f, z)
      OBVIOUS
    <3>2. Len(s) = 1 /\ s[1] = y
      BY <2>2, <2>3, <3>1
    <3>3. Numbers(g, s, {f}, word, z)
      BY ONLY <2>4, <2>5, <3>1, <3>2 DEF Numbers
    <3> QED
      BY <3>1, <3>3
  <2>7. Numbers(g, r[0], A(0), word, 0)
    BY ONLY <2>1, <2>6
  <2>8. 0 \in 0 .. N
    BY <1>3
  <2> QED
    BY <2>7, <2>8
<1>14. ASSUME NEW n \in 0 .. N - 1, n \in S PROVE n + 1 \in S
  <2>1. PICK i : i = n + 1
    OBVIOUS
  <2>2. i \in 1 .. N /\ i \in 0 .. N /\ i - 1 = n /\ n \in 0 .. N
    BY <1>3, <2>1
  <2>3. PICK g : Numbers(g, r[n], A(n), word, n)
    BY <1>14
  <2>4. PICK rs : rs = r[n]
    OBVIOUS
  <2>5. rs \in Seq(Text) /\ r[i] = Grown(rs, word, i, runs, lookup) /\ i \in 1 .. Len(word)
    BY <1>2, <1>4, <2>2, <2>4
  <2>6. /\ i - 1 \in M => r[i] = rs
        /\ i \in M => r[i] = Capped(Product(rs, Options(word, i, runs, lookup)))
        /\ i \notin M /\ i - 1 \notin M => r[i] = Capped(Product(rs, <<<<word[i]>>>>))
    BY ONLY <1>6, <2>5, GrownIs
  <2> SUFFICES \E h : Numbers(h, r[i], A(i), word, i)
    BY <2>1, <2>2
  <2>7. Numbers(g, rs, Agreeing(word, runs, f, i - 1), word, i - 1)
    BY <2>2, <2>3, <2>4
  <2>8. CASE i \in M
    <3>1. PICK os, p : os = Options(word, i, runs, lookup) /\ p = Product(rs, os)
      OBVIOUS
    <3>2. /\ os \in Seq(Text)
          /\ Lists(os, Ways(word, i, runs),
                   \A k \in DOMAIN runs : Cardinality(Known(runs[k])) <= MaxExpansions)
      BY <2>8, <3>1, WaysAre DEF lookup
    <3>3. Lists(os, Ways(word, i, runs), TRUE)
      BY <1>8, <3>2 DEF Lists
    <3>4. \E h : Numbers(h, p, A(i), word, i)
      BY <1>5, <2>5, <2>7, <2>8, <3>1, <3>2, <3>3, ProductNumbers
    <3>5. p \in Seq(Text)
      BY <2>5, <3>1, <3>2, ProductTyped
    <3>6. Len(p) <= MaxExpansions
      BY <1>12, <3>4, <3>5
    <3>7. Capped(p) = p
      BY <3>5, <3>6, CappedTyped
    <3> QED
      BY <2>6, <2>8, <3>1, <3>4, <3>7
  <2>9. CASE i \notin M
    <3>1. A(i) = Agreeing(word, runs, f, i - 1) /\ A(i) \subseteq [M -> Text]
      BY <1>10, <1>11, <2>5, <2>9, AgreeingStays
    <3>2. PICK set : set = A(i)
      OBVIOUS
    <3>3. Numbers(g, rs, set, word, i - 1) /\ set \subseteq [M -> Text]
      BY <2>7, <3>1, <3>2
    <3>4. CASE i - 1 \in M
      <4>1. r[i] = rs
        BY <2>6, <3>4
      <4>2. \A k \in 1 .. Len(rs) : rs[k] \in Text
        BY <2>5
      <4>3. \A k \in 1 .. Len(rs) : rs[k] = rs[k] \o <<>>
        BY <4>2 DEF Text
      <4>4. Numbers(g, rs, set, word, i)
        BY <2>5, <2>9, <3>3, <3>4, <4>3, ExtendedNumbers
      <4> QED
        BY <3>2, <4>1, <4>4
    <3>5. CASE i - 1 \notin M
      <4>1. PICK x, os, p : x = <<word[i]>> /\ os = <<x>> /\ p = Product(rs, os)
        OBVIOUS
      <4>2. x \in Text
        BY <1>3, <2>2, <4>1, OneTyped
      <4>3. Len(p) = Len(rs) /\ \A k \in 1 .. Len(rs) : p[k] = rs[k] \o x
        BY <2>5, <4>1, <4>2, ProductOne
      <4>4. Numbers(g, p, set, word, i)
        BY <2>5, <2>9, <3>3, <3>5, <4>1, <4>3, ExtendedNumbers
      <4>5. os \in Seq(Text)
        BY <4>1, <4>2
      <4>6. p \in Seq(Text)
        BY <2>5, <4>1, <4>5, ProductTyped
      <4>7. Len(p) <= MaxExpansions
        BY <1>12, <3>2, <4>4, <4>6
      <4>8. Capped(p) = p
        BY <4>6, <4>7, CappedTyped
      <4> QED
        BY <2>6, <2>9, <3>2, <3>5, <4>1, <4>4, <4>8
    <3> QED
      BY <3>4, <3>5
  <2> QED
    BY <2>8, <2>9
<1>15. N \in S
  <2> HIDE DEF S
  <2>1. \A i \in 0 .. N : i \in S
    BY <1>3, <1>13, <1>14, UpTo
  <2> QED
    BY <1>3, <2>1
<1>16. PICK g : Numbers(g, list, C, word, N)
  <2>1. A(N) = C
    BY <1>2, <1>5, AgreeingEnds
  <2> QED
    BY <1>4, <1>15, <2>1
<1>17. PICK k \in 1 .. Len(list) : g[k] = f
  BY <1>16 DEF Numbers
<1>18. list[k] = SpeltTo(word, f, N)
  BY <1>16, <1>17 DEF Numbers
<1> QED
  BY <1>2, <1>17, <1>18, SpeltIs

(* What is nothing stays nothing.                                           *)
LEMMA GrownNothing ==
    ASSUME NEW word \in Text, NEW i \in 1 .. Len(word), NEW runs, NEW lookup, Looked(runs, lookup),
           NEW results \in Seq(Text), Len(results) = 0
    PROVE  Len(Grown(results, word, i, runs, lookup)) = 0
<1>1. ASSUME NEW options \in Seq(Text) PROVE Len(Capped(Product(results, options))) = 0
  <2>1. PICK p, n : p = Product(results, options) /\ n = Len(options)
    OBVIOUS
  <2>2. p \in Seq(Text) /\ Len(p) = Len(results) * Len(options)
    BY <2>1, ProductSize
  <2>3. n \in Nat
    BY <2>1
  <2>4. Len(p) = 0
    BY <2>1, <2>2, <2>3
  <2>5. Capped(p) \in Seq(Text) /\ Len(Capped(p)) <= Len(p)
    BY <2>2, CappedTyped
  <2>6. Len(Capped(p)) \in Nat
    BY <2>5
  <2> QED
    BY <2>1, <2>4, <2>5, <2>6
<1>2. PICK grown : grown = Grown(results, word, i, runs, lookup)
  OBVIOUS
<1>3. /\ i - 1 \in Markers(word) => grown = results
      /\ i \in Markers(word)
            => grown = Capped(Product(results, Options(word, i, runs, lookup)))
      /\ i \notin Markers(word) /\ i - 1 \notin Markers(word)
            => grown = Capped(Product(results, <<<<word[i]>>>>))
  BY <1>2, GrownIs
<1>4. i \in Markers(word) => Options(word, i, runs, lookup) \in Seq(Text)
  <2>1. i \in Nat /\ i >= 1
    BY DEF Text
  <2> QED
    BY <2>1, MarkersAre, OptionsTyped
<1>5. <<<<word[i]>>>> \in Seq(Text)
  <2>1. PICK x : x = <<word[i]>>
    OBVIOUS
  <2>2. x \in Text
    BY <2>1, OneTyped DEF Text
  <2>3. <<x>> \in Seq(Text)
    BY <2>2
  <2> QED
    BY <2>1, <2>3
<1>6. CASE i - 1 \in Markers(word)
  BY <1>2, <1>3, <1>6
<1>7. CASE i \in Markers(word)
  <2>1. PICK options : options = Options(word, i, runs, lookup)
    OBVIOUS
  <2>2. options \in Seq(Text) /\ grown = Capped(Product(results, options))
    BY <1>3, <1>4, <1>7, <2>1
  <2> QED
    BY <1>1, <1>2, <2>2
<1>8. CASE i \notin Markers(word) /\ i - 1 \notin Markers(word)
  <2>1. PICK options : options = <<<<word[i]>>>>
    OBVIOUS
  <2>2. options \in Seq(Text) /\ grown = Capped(Product(results, options))
    BY <1>3, <1>5, <1>8, <2>1
  <2> QED
    BY <1>1, <1>2, <2>2
<1> QED
  BY <1>6, <1>7, <1>8

(* A word with more markers than there are runs is not expanded.              *)
LEMMA ExpandedNothing ==
    ASSUME Dictionaries, NEW word \in Text, NEW runs \in Seq(Seq(Digit)),
           Cardinality(Markers(word)) > Len(runs), NEW list,
           list = ExpandWithRecursiveLookup(word, runs, Lookups(runs))
    PROVE  ToSet(list) = {}
<1> DEFINE lookup == Lookups(runs)
           M == Markers(word)
<1>1. Looked(runs, lookup)
  BY LookedUp
<1> HIDE DEF lookup
<1>2. PICK N : N = Len(word)
  OBVIOUS
<1>3. N \in Nat /\ M \subseteq 1 .. N /\ IsFiniteSet(M) /\ Len(runs) \in Nat
  BY <1>2, MarkersAre DEF Text
<1>4. PICK r \in [0 .. N -> Seq(Text)] :
          /\ list = r[N]
          /\ \A i \in 1 .. N : r[i] = Grown(r[i - 1], word, i, runs, lookup)
  BY <1>1, <1>2, ExpansionIs DEF lookup
<1>5. M # {}
  <2>1. Cardinality(M) # 0
    BY <1>3
  <2> QED
    BY <1>3, <2>1, FS_EmptySet
<1>6. PICK i \in M : \A j \in M : i >= j
  BY <1>3, <1>5, GreatestMember
<1>7. Len(r[i]) = 0
  <2>1. i \in 1 .. N /\ i \in 0 .. N /\ i - 1 \in 0 .. N /\ \A j \in M : j <= i
    BY <1>3, <1>6
  <2>2. PICK rs, os : rs = r[i - 1] /\ os = Options(word, i, runs, lookup)
    OBVIOUS
  <2>3. rs \in Seq(Text) /\ r[i] = Grown(rs, word, i, runs, lookup)
    BY <1>4, <2>1, <2>2
  <2>12. word \in Text /\ i \in 1 .. Len(word)
    BY <1>2, <2>1
  <2>13. /\ i - 1 \in M => r[i] = rs
         /\ i \in M => r[i] = Capped(Product(rs, Options(word, i, runs, lookup)))
         /\ i \notin M /\ i - 1 \notin M => r[i] = Capped(Product(rs, <<<<word[i]>>>>))
    BY ONLY <2>3, <2>12, GrownIs
  <2>4. r[i] = Capped(Product(rs, os))
    BY <2>2, <2>13
  <2>5. os = <<>>
    <3>1. RunIndex(word, i, Types) = Cardinality(M)
      BY <2>1, UptoIs
    <3> QED
      BY <2>2, <3>1 DEF Options, Types
  <2>6. PICK p : p = Product(rs, os)
    OBVIOUS
  <2>7. os \in Seq(Text) /\ Len(os) = 0 /\ Len(rs) \in Nat
    BY <2>3, <2>5
  <2>8. p \in Seq(Text) /\ Len(p) = Len(rs) * Len(os)
    BY <2>3, <2>6, <2>7, ProductTyped
  <2>9. Len(p) = 0
    BY <2>7, <2>8
  <2>10. Capped(p) \in Seq(Text) /\ Len(Capped(p)) <= Len(p)
    BY <2>8, CappedTyped
  <2>11. Len(Capped(p)) \in Nat
    BY <2>10
  <2> QED
    BY <2>4, <2>6, <2>9, <2>10, <2>11
<1> DEFINE S == {n \in 0 .. N : n >= i => Len(r[n]) = 0}
<1>8. 0 \in S
  BY <1>3
<1>9. ASSUME NEW n \in 0 .. N - 1, n \in S PROVE n + 1 \in S
  <2>1. PICK k : k = n + 1
    OBVIOUS
  <2>2. k \in 1 .. N /\ k \in 0 .. N /\ k - 1 = n /\ n \in 0 .. N
    BY <1>3, <2>1
  <2>3. r[n] \in Seq(Text) /\ r[k] = Grown(r[n], word, k, runs, lookup) /\ k \in 1 .. Len(word)
    BY <1>2, <1>4, <2>2
  <2>4. CASE n >= i
    <3>1. Len(r[n]) = 0
      BY <1>9, <2>4
    <3>2. Len(r[k]) = 0
      BY <1>1, <2>3, <3>1, GrownNothing
    <3> QED
      BY <2>1, <2>2, <3>2
  <2>5. CASE ~(n >= i)
    <3>1. k >= i => k = i
      BY <1>3, <2>2, <2>5
    <3> QED
      BY <1>7, <2>1, <2>2, <3>1
  <2> QED
    BY <2>4, <2>5
<1>10. Len(r[N]) = 0
  <2>1. N \in 0 .. N /\ N >= i
    BY <1>3
  <2> HIDE DEF S
  <2>2. \A n \in 0 .. N : n \in S
    BY <1>3, <1>8, <1>9, UpTo
  <2>3. N \in S
    BY <2>1, <2>2
  <2> QED
    BY <2>1, <2>3 DEF S
<1>11. list \in Seq(Text)
  BY <1>3, <1>4
<1>13. Len(list) = 0
  BY <1>4, <1>10
<1>12. ASSUME NEW x \in ToSet(list) PROVE FALSE
  <2>1. PICK k \in 1 .. Len(list) : list[k] = x
    BY <1>11, ListIs
  <2> QED
    BY <1>13, <2>1
<1> QED
  BY <1>12

(* The numeral of each marker, by its run.                                   *)
Converted(word, runs) == [i \in Markers(word) |-> Convert(runs[Upto(word, i)], word[i + 1])]

(* It is a text, if there is one.                                            *)
LEMMA ConvertedTyped ==
    ASSUME NEW word \in Text, NEW runs \in Seq(Seq(Digit)),
           Cardinality(Markers(word)) <= Len(runs), NEW i \in Markers(word), word[i + 1] # "4"
    PROVE  /\ Converted(word, runs)[i] \in Text \cup {None}
           /\ Ways(word, i, runs) = {Converted(word, runs)[i]} \ {None}
           /\ word[i + 1] \in NumType /\ ~(Upto(word, i) > Len(runs))
<1>1. i \in 1 .. Len(word) /\ IsMarker(word, i, Types)
  BY MarkersAre
<1>2. word[i + 1] \in NumType
  BY <1>1 DEF IsMarker, Types
<1>3. PICK u, n : u = Upto(word, i) /\ n = Len(runs)
  OBVIOUS
<1>4. u \in Nat \ {0} /\ u <= Cardinality(Markers(word)) /\ Cardinality(Markers(word)) \in Nat
  BY <1>3, UptoIs
<1>5. n \in Nat /\ u \in 1 .. n
  BY <1>3, <1>4
<1>6. runs[u] \in Seq(Digit)
  BY <1>3, <1>5
<1>7. Convert(runs[u], word[i + 1]) \in Text \cup {None}
  BY <1>2, <1>6, ConvertTyped
<1>8. Converted(word, runs)[i] = Convert(runs[u], word[i + 1])
  BY <1>3 DEF Converted
<1>9. Ways(word, i, runs) = {Convert(runs[u], word[i + 1])} \ {None}
  BY <1>3 DEF Ways, Upto
<1> QED
  BY <1>2, <1>3, <1>5, <1>7, <1>8, <1>9

(* With no "#4", expand gives what the numerals make, if each has one.         *)
LEMMA ExpandIs ==
    ASSUME NEW word \in Text, NEW runs \in Seq(Seq(Digit)),
           Cardinality(Markers(word)) <= Len(runs),
           \A i \in Markers(word) : word[i + 1] # "4", NEW c, c = Converted(word, runs)
    PROVE  Expand(word, runs) =
             IF \E i \in Markers(word) : c[i] = None THEN None ELSE Spelt(word, c)
<1> DEFINE M == Markers(word)
           Part(i) ==
            IF Follows(word, i, NumType) THEN <<>>
            ELSE IF ~IsMarker(word, i, NumType) THEN <<word[i]>>
            ELSE IF RunIndex(word, i, NumType) > Len(runs) THEN None
            ELSE Convert(runs[RunIndex(word, i, NumType)], word[i + 1])
<1>1. PICK N : N = Len(word)
  OBVIOUS
<1>2. N \in Nat /\ DOMAIN word = 1 .. N /\ \A j \in 1 .. N : word[j] \in Glyph
  BY <1>1 DEF Text
<1>3. /\ M \subseteq 1 .. N
      /\ \A i \in 1 .. N : i \in M <=> IsMarker(word, i, Types)
      /\ \A i \in M : i - 1 \notin M
  BY <1>1, MarkersAre
<1>4. ASSUME NEW i \in 1 .. N PROVE IsMarker(word, i, NumType) <=> i \in M
  <2>1. i \in M => IsMarker(word, i, NumType)
    BY <1>3 DEF IsMarker, Types
  <2>2. IsMarker(word, i, NumType) => IsMarker(word, i, Types)
    BY DEF IsMarker, Types
  <2> QED
    BY <1>3, <2>1, <2>2
<1>5. ASSUME NEW i \in 1 .. N PROVE Follows(word, i, NumType) <=> i - 1 \in M
  <2>1. i > 1 => i - 1 \in 1 .. N
    BY <1>2
  <2>2. i - 1 \in M => i > 1
    BY <1>2, <1>3
  <2> QED
    BY <1>4, <2>1, <2>2 DEF Follows
<1>6. ASSUME NEW i \in M PROVE RunIndex(word, i, NumType) = Upto(word, i)
  <2>1. i \in 1 .. N
    BY <1>3
  <2>2. \A j \in 1 .. i : j \in 1 .. N /\ j <= i
    BY <1>2, <2>1
  <2>3. \A j \in 1 .. N : j <= i => j \in 1 .. i
    BY <1>2, <2>1
  <2>4. {j \in 1 .. i : IsMarker(word, j, NumType)} = {j \in M : j <= i}
    BY <1>3, <1>4, <2>2, <2>3
  <2> QED
    BY <2>4 DEF RunIndex, Upto
<1>7. ASSUME NEW i \in 1 .. N PROVE Part(i) = Piece(word, c, i)
  <2>1. CASE i \in M
    <3>1. ~Follows(word, i, NumType) /\ IsMarker(word, i, NumType)
      BY <1>3, <1>4, <1>5, <2>1
    <3>2. RunIndex(word, i, NumType) = Upto(word, i) /\ ~(Upto(word, i) > Len(runs))
      BY <1>6, <2>1, ConvertedTyped
    <3>3. Part(i) = Convert(runs[Upto(word, i)], word[i + 1])
      BY <3>1, <3>2
    <3> QED
      BY <2>1, <3>3 DEF Piece, Converted
  <2>2. CASE i \notin M
    BY <1>4, <1>5, <2>2 DEF Piece
  <2> QED
    BY <2>1, <2>2
<1>8. [i \in DOMAIN word |-> Part(i)] = Pieces(word, c, N)
  BY <1>2, <1>7 DEF Pieces
<1>9. Expand(word, runs) =
        IF \E i \in DOMAIN Pieces(word, c, N) : Pieces(word, c, N)[i] = None THEN None
        ELSE FlattenSeq(Pieces(word, c, N))
  BY <1>8 DEF Expand
<1> HIDE DEF Part
<1>10. /\ DOMAIN Pieces(word, c, N) = 1 .. N
       /\ \A i \in 1 .. N : Pieces(word, c, N)[i] = Piece(word, c, i)
  BY DEF Pieces
<1>11. ASSUME NEW i \in 1 .. N PROVE Piece(word, c, i) = None <=> i \in M /\ c[i] = None
  <2>1. <<>> # None /\ <<word[i]>> # None
    BY <1>2, OneTyped, ShortText, NoneIs
  <2> QED
    BY <2>1 DEF Piece
<1>12. (\E i \in DOMAIN Pieces(word, c, N) : Pieces(word, c, N)[i] = None)
         <=> \E i \in M : c[i] = None
  BY <1>3, <1>10, <1>11
<1>13. FlattenSeq(Pieces(word, c, N)) = Spelt(word, c)
  BY <1>1, SpeltIs DEF SpeltTo
<1> QED
  BY <1>9, <1>12, <1>13

(* So the combinations spell what expand gives.                              *)
LEMMA MeaningPlain ==
    ASSUME NEW word \in Text, NEW runs \in Seq(Seq(Digit)),
           Cardinality(Markers(word)) <= Len(runs),
           \A i \in Markers(word) : word[i + 1] # "4"
    PROVE  {Spelt(word, f) : f \in Combinations(word, runs)} = {Expand(word, runs)} \ {None}
<1> DEFINE M == Markers(word)
           C == Combinations(word, runs)
<1>1. PICK c : c = Converted(word, runs)
  OBVIOUS
<1>2. \A i \in M : c[i] \in Text \cup {None} /\ Ways(word, i, runs) = {c[i]} \ {None}
  BY <1>1, ConvertedTyped
<1>3. Expand(word, runs) = IF \E i \in M : c[i] = None THEN None ELSE Spelt(word, c)
  BY <1>1, ExpandIs
<1>4. C = {g \in [M -> Text] : \A i \in M : g[i] \in Ways(word, i, runs)}
  BY <1>2, CombinationsAre
<1>5. CASE \E i \in M : c[i] = None
  <2>1. PICK i \in M : Ways(word, i, runs) = {}
    BY <1>2, <1>5
  <2>2. C = {}
    BY <1>4, <2>1
  <2> QED
    BY <1>3, <1>5, <2>2
<1>6. CASE ~\E i \in M : c[i] = None
  <2>1. c = [i \in M |-> c[i]]
    BY <1>1 DEF Converted
  <2>2. c \in [M -> Text]
    BY <1>2, <1>6, <2>1
  <2>3. c \in C
    BY <1>2, <1>4, <1>6, <2>2
  <2>4. ASSUME NEW g \in C PROVE g = c
    <3>1. g \in [M -> Text] /\ \A i \in M : g[i] = c[i]
      BY <1>2, <1>4
    <3> QED
      BY <2>2, <3>1
  <2>5. C = {c}
    BY <2>3, <2>4
  <2>6. Len(word) \in 0 .. Len(word)
    BY DEF Text
  <2>7. SpeltTo(word, c, Len(word)) \in Text /\ SpeltTo(word, c, Len(word)) = Spelt(word, c)
    BY <2>2, <2>6, SpeltAre, SpeltIs
  <2>8. Spelt(word, c) # None
    BY <2>7, NoneIs
  <2> QED
    BY <1>3, <1>6, <2>5, <2>8
<1> QED
  BY <1>5, <1>6

(* What a word brings is what it stands for, all of it if that is not much.    *)
LEMMA WordsMean ==
    ASSUME Dictionaries, NEW word \in Text, NEW runs \in Seq(Seq(Digit)), NEW list,
           list = WordsFor(word, runs, Lookups(runs))
    PROVE  /\ ToSet(list) \subseteq Meanings(word, runs)
           /\ FewEnough(word, runs) => ToSet(list) = Meanings(word, runs)
<1> DEFINE M == Markers(word)
<1>1. CASE runs = <<>>
  <2>1. list = <<word>> /\ Meanings(word, runs) = {word}
    BY <1>1 DEF WordsFor, Meanings
  <2>2. ToSet(list) = {word}
    BY <2>1 DEF ToSet
  <2> QED
    BY <2>1, <2>2
<1>2. CASE runs # <<>>
  <2>1. list = ExpandWithRecursiveLookup(word, runs, Lookups(runs))
    BY <1>2 DEF WordsFor
  <2>2. Looked(runs, Lookups(runs))
    BY LookedUp
  <2>3. list \in Seq(Text)
    BY <2>2, WordsForTyped
  <2>4. CASE Cardinality(M) > Len(runs)
    <3>1. Meanings(word, runs) = {}
      BY <1>2, <2>4 DEF Meanings
    <3>2. ToSet(list) = {}
      BY <2>1, <2>4, ExpandedNothing
    <3> QED
      BY <3>1, <3>2
  <2>5. CASE ~(Cardinality(M) > Len(runs))
    <3>1. Cardinality(M) \in Nat /\ Len(runs) \in Nat
      BY MarkersAre, FS_CardinalityType
    <3>2. Cardinality(M) <= Len(runs)
      BY <2>5, <3>1
    <3>3. Meanings(word, runs) = {Spelt(word, f) : f \in Combinations(word, runs)}
      <4>1. CASE \A i \in M : word[i + 1] # "4"
        <5>1. Meanings(word, runs) = {Expand(word, runs)} \ {None}
          BY <1>2, <2>5, <4>1 DEF Meanings
        <5> QED
          BY <3>2, <4>1, <5>1, MeaningPlain
      <4>2. CASE ~\A i \in M : word[i + 1] # "4"
        BY <1>2, <2>5, <4>2 DEF Meanings
      <4> QED
        BY <4>1, <4>2
    <3>4. ASSUME NEW x \in ToSet(list) PROVE x \in Meanings(word, runs)
      <4>1. PICK k \in 1 .. Len(list) : list[k] = x
        BY <2>3, ListIs
      <4>2. PICK g \in Combinations(word, runs) : list[k] = Spelt(word, g)
        BY <2>1, <3>2, ExpandedSpelt
      <4> QED
        BY <3>3, <4>1, <4>2
    <3>5. ASSUME FewEnough(word, runs), NEW x \in Meanings(word, runs) PROVE x \in ToSet(list)
      <4>1. PICK f \in Combinations(word, runs) : x = Spelt(word, f)
        BY <3>3
      <4>2. PICK k \in 1 .. Len(list) : list[k] = Spelt(word, f)
        BY <2>1, <3>2, <3>5, ExpandedAll
      <4> QED
        BY <2>3, <4>1, <4>2, ListIs
    <3> QED
      BY <3>4, <3>5
  <2> QED
    BY <2>4, <2>5
<1> QED
  BY <1>1, <1>2

(* Which of the candidates shown an offer is from.                           *)
RankIn(shown, o) == SelectInSeq(shown, LAMBDA c : c.word = o.template)

(* The first with its template.                                             *)
LEMMA RankIs ==
    ASSUME NEW T, NEW shown \in Seq(T), NEW o, NEW k \in 1 .. Len(shown),
           shown[k].word = o.template, \A j \in 1 .. k - 1 : shown[j].word # o.template
    PROVE  RankIn(shown, o) = k
<1> DEFINE I == {i \in 1 .. Len(shown) : shown[i].word = o.template}
<1>1. RankIn(shown, o) = IF I # {} THEN Min(I) ELSE 0
  BY DEF RankIn, SelectInSeq
<1>2. Len(shown) \in Nat
  OBVIOUS
<1>3. k \in I /\ I \subseteq 1 .. Len(shown) /\ \A j \in I : k <= j
  BY <1>2
<1>4. Min(I) = k
  <2> HIDE DEF I
  <2> QED
    BY <1>2, <1>3, FirstPlace
<1> QED
  BY <1>1, <1>3, <1>4

(* h says which of the candidates shown each offer is from; those that are    *)
(* synthetic come last.                                                     *)
From(h, list, text, k) ==
    /\ h[k] \in 1 .. Len(Shown(text))
    /\ list[k].template = Shown(text)[h[k]].word
    /\ list[k].word \in ToSet(Brings(text, Shown(text)[h[k]]))
    /\ list[k].word \notin Hidden(Template(text))
    /\ \A j \in 1 .. h[k] - 1 : Shown(text)[j].word # list[k].template

Traced(h, list, text) ==
    /\ \A k \in 1 .. Len(list) : ~list[k].synthetic => From(h, list, text, k)
    /\ \A k, l \in 1 .. Len(list) :
          k < l /\ ~list[l].synthetic => ~list[k].synthetic /\ h[k] <= h[l]

(* Every word that is not ignored is offered, no later than from the first   *)
(* candidate that brings it, and each word once.                            *)
Exhaustive(h, list, text) ==
    /\ \A k, l \in 1 .. Len(list) : list[k].word = list[l].word => k = l
    /\ \A i \in 1 .. Len(Shown(text)) : \A w \in ToSet(Brings(text, Shown(text)[i])) :
          w \notin Hidden(Template(text)) =>
             \E k \in 1 .. Len(list) : ~list[k].synthetic /\ h[k] <= i /\ list[k].word = w

(* What was found, by the candidates shown.                                  *)
LEMMA SeenFrom ==
    ASSUME Dictionaries, NEW text \in Text, NEW found, found = SeenOffers(text), NEW g,
           Seen(g, found, text), NEW k \in 1 .. Len(found)
    PROVE  From(g, found, text, k) /\ found[k].synthetic = FALSE
<1>1. PICK shown, c, w : shown = Shown(text) /\ c = shown[g[k]] /\ w = found[k].word
  OBVIOUS
<1>2. shown \in Seq(Plainly)
  BY <1>1, ShownTyped
<1>3. g[k] \in 1 .. Len(shown) /\ w \in ToSet(Brings(text, c)) /\ found[k] = Offer(w, c)
  BY <1>1 DEF Seen, Source
<1>4. found[k].template = c.word /\ found[k].synthetic = FALSE
  BY <1>3 DEF Offer
<1>5. w \notin Hidden(Template(text))
  BY <1>1 DEF Seen
<1>6. ASSUME NEW j \in 1 .. g[k] - 1, shown[j].word = c.word PROVE FALSE
  <2>1. j \in 1 .. Len(shown) /\ j < g[k] /\ g[k] \in Nat
    BY <1>2, <1>3
  <2>2. Brings(text, shown[j]) = Brings(text, c)
    BY <1>6 DEF Brings
  <2>3. PICK l \in 1 .. Len(found) : g[l] <= j /\ found[l].word = w
    BY <1>1, <1>3, <1>5, <2>1, <2>2 DEF Seen
  <2>4. l = k
    BY <1>1, <2>3 DEF Seen
  <2> QED
    BY <2>1, <2>3, <2>4
<1> QED
  BY <1>1, <1>3, <1>4, <1>5, <1>6 DEF From

(* Where an offer is from.                                                  *)
LEMMA OfferedFrom ==
    ASSUME NEW found \in Seq(Offered), NEW synths \in Seq(Offered), NEW list, NEW f,
           Offering(f, list, found, synths), NEW k \in 1 .. Len(list)
    PROVE  /\ f[k] \in Nat \ {0} /\ Len(found) \in Nat
           /\ f[k] <= Len(found) => f[k] \in 1 .. Len(found) /\ list[k] = found[f[k]]
           /\ f[k] > Len(found) => \E x \in 1 .. Len(synths) : list[k] = synths[x]
<1>1. PICK both, n, m, j : both = found \o synths /\ n = Len(found) /\ m = Len(synths) /\ j = f[k]
  OBVIOUS
<1>2. j \in 1 .. n + m /\ list[k] = both[j]
  BY <1>1 DEF Offering
<1>3. /\ n \in Nat /\ m \in Nat
      /\ \A x \in 1 .. n : both[x] = found[x]
      /\ \A x \in 1 .. m : both[n + x] = synths[x]
  BY <1>1, JoinIs
<1>4. CASE j <= n
  <2>1. j \in 1 .. n
    BY <1>2, <1>3, <1>4
  <2> QED
    BY <1>1, <1>2, <1>3, <1>4, <2>1
<1>5. CASE j > n
  <2>1. PICK x : x = j - n
    OBVIOUS
  <2>2. x \in 1 .. m /\ n + x = j
    BY <1>2, <1>3, <1>5, <2>1
  <2>3. list[k] = synths[x]
    BY <1>2, <1>3, <2>2
  <2>4. j \in Nat \ {0} /\ ~(j <= n)
    BY <1>2, <1>3, <1>5
  <2> QED
    BY <1>1, <1>3, <2>2, <2>3, <2>4
<1>6. j \in Nat /\ n \in Nat
  BY <1>2, <1>3
<1> QED
  BY <1>4, <1>5, <1>6

(* The synthesized are.                                                     *)
LEMMA SynthsAre ==
    ASSUME NEW text \in Text
    PROVE  /\ Synths(text) \in Seq(Offered)
           /\ \A x \in 1 .. Len(Synths(text)) : Synths(text)[x].synthetic = TRUE
           /\ Runs(text) = <<>> => Len(Synths(text)) = 0
<1>1. PICK words : words = Synthesize(Runs(text))
  OBVIOUS
<1>2. words \in Seq(Text) /\ Synths(text) = Synthetics(words)
  BY <1>1, RunsTyped, SynthesizeTyped DEF Synths
<1>3. Runs(text) = <<>> => words = <<>>
  BY <1>1 DEF Synthesize
<1>4. Len(Synthetics(words)) = Len(words) /\ Synthetics(words) \in Seq(Offered)
      /\ \A x \in 1 .. Len(words) : Synthetics(words)[x].synthetic = TRUE
  BY <1>2, SyntheticsTyped
<1>5. Runs(text) = <<>> => Len(words) = 0
  BY <1>3
<1> QED
  BY <1>2, <1>4, <1>5

(* All that is offered is traced.                                            *)
LEMMA OfferedTraced ==
    ASSUME Dictionaries, NEW text \in Text, NEW list, list = Candidates(text)
    PROVE  /\ list \in Seq(Offered)
           /\ \E h : Traced(h, list, text) /\ Exhaustive(h, list, text)
           /\ \A k \in 1 .. Len(list) : list[k].synthetic =>
                 /\ Runs(text) # <<>>
                 /\ SeenOffers(text) = <<>> \/ Template(text) = <<"#">>
           /\ SeenOffers(text) = <<>> => \A k \in 1 .. Len(list) : list[k].synthetic
<1>1. PICK found, synths : found = SeenOffers(text) /\ synths = Synths(text)
  OBVIOUS
<1>2. found \in Seq(Offered) /\ synths \in Seq(Offered) /\ list \in Seq(Offered)
  BY <1>1, CandidatesAre
<1>3. PICK f : Offering(f, list, found, synths)
  BY <1>1, CandidatesAre
<1>4. PICK g : Seen(g, found, text)
  BY <1>1, SeenOffersAre
<1>5. PICK h : h = [k \in 1 .. Len(list) |-> g[f[k]]]
  OBVIOUS
<1>6. ASSUME NEW k \in 1 .. Len(list)
      PROVE  /\ f[k] \in Nat \ {0} /\ Len(found) \in Nat
             /\ f[k] <= Len(found) => f[k] \in 1 .. Len(found) /\ list[k] = found[f[k]]
             /\ f[k] > Len(found) => \E x \in 1 .. Len(synths) : list[k] = synths[x]
  BY ONLY <1>2, <1>3, <1>6, OfferedFrom
<1>7. ASSUME NEW k \in 1 .. Len(list)
      PROVE  list[k].synthetic <=> f[k] > Len(found)
  <2>1. CASE f[k] > Len(found)
    BY <1>1, <1>6, <2>1, SynthsAre
  <2>2. CASE ~(f[k] > Len(found))
    <3>1. f[k] \in 1 .. Len(found) /\ list[k] = found[f[k]]
      BY <1>6, <2>2
    <3>2. found[f[k]].synthetic = FALSE
      BY <1>1, <1>4, <3>1, SeenFrom
    <3> QED
      BY <2>2, <3>1, <3>2
  <2> QED
    BY <2>1, <2>2
<1>8. ASSUME NEW k \in 1 .. Len(list), ~list[k].synthetic
      PROVE  h[k] = g[f[k]] /\ f[k] \in 1 .. Len(found) /\ list[k] = found[f[k]]
  BY <1>5, <1>6, <1>7, <1>8
<1>9. ASSUME NEW k \in 1 .. Len(list), ~list[k].synthetic
      PROVE  From(h, list, text, k)
  <2>1. From(g, found, text, f[k])
    BY <1>1, <1>4, <1>8, <1>9, SeenFrom
  <2> QED
    BY <1>8, <1>9, <2>1 DEF From
<1>10. ASSUME NEW k \in 1 .. Len(list), NEW l \in 1 .. Len(list), k < l, ~list[l].synthetic
       PROVE  ~list[k].synthetic /\ h[k] <= h[l]
  <2>1. f[k] < f[l]
    BY <1>3, <1>10 DEF Offering
  <2>2. f[l] <= Len(found) /\ f[k] \in Nat /\ f[l] \in Nat /\ Len(found) \in Nat
    BY <1>6, <1>7, <1>10
  <2>3. ~list[k].synthetic
    BY <1>7, <2>1, <2>2
  <2>4. f[k] \in 1 .. Len(found) /\ f[l] \in 1 .. Len(found) /\ f[k] <= f[l]
    BY <1>8, <1>10, <2>1, <2>2, <2>3
  <2>5. g[f[k]] <= g[f[l]]
    BY <1>4, <2>4 DEF Seen, Source
  <2> QED
    BY <1>8, <1>10, <2>3, <2>5
<1>11. Traced(h, list, text)
  BY <1>9, <1>10 DEF Traced
<1>12. Exhaustive(h, list, text)
  <2>1. \A k, l \in 1 .. Len(list) : list[k].word = list[l].word => k = l
    BY <1>3 DEF Offering
  <2>2. ASSUME NEW i \in 1 .. Len(Shown(text)), NEW w \in ToSet(Brings(text, Shown(text)[i])),
               w \notin Hidden(Template(text))
        PROVE  \E k \in 1 .. Len(list) : ~list[k].synthetic /\ h[k] <= i /\ list[k].word = w
    <3>1. PICK x \in 1 .. Len(found) : g[x] <= i /\ found[x].word = w
      BY <1>4, <2>2 DEF Seen
    <3>2. PICK k \in 1 .. Len(list) : f[k] <= x /\ list[k].word = w
      BY <1>3, <3>1 DEF Offering
    <3>3. f[k] <= Len(found)
      BY <1>6, <3>2
    <3>4. ~list[k].synthetic
      BY <1>6, <1>7, <3>3
    <3>5. h[k] = g[f[k]] /\ f[k] \in 1 .. Len(found)
      BY <1>8, <3>4
    <3>6. g \in [1 .. Len(found) -> 1 .. Len(Shown(text))] /\ g[f[k]] <= g[x]
      BY <1>4, <3>2, <3>5 DEF Seen, Source
    <3>7. g[f[k]] \in Nat /\ g[x] \in Nat /\ i \in Nat
      BY <3>5, <3>6
    <3> QED
      BY <3>1, <3>2, <3>4, <3>5, <3>6, <3>7
  <2> QED
    BY <2>1, <2>2 DEF Exhaustive
<1>13. ASSUME NEW k \in 1 .. Len(list), list[k].synthetic
       PROVE  Runs(text) # <<>> /\ (found = <<>> \/ Template(text) = <<"#">>)
  <2>1. PICK x \in 1 .. Len(synths) : list[k] = synths[x]
    BY <1>6, <1>7, <1>13
  <2>4. Runs(text) = <<>> => Len(synths) = 0
    BY <1>1, SynthsAre
  <2>2. Runs(text) # <<>>
    BY <2>1, <2>4
  <2>3. ASSUME found # <<>>, Template(text) # <<"#">> PROVE FALSE
    <3>1. list = found
      BY <1>1, <2>3, CandidatesIs DEF WithSynthetics
    <3>2. k \in 1 .. Len(found)
      BY <3>1
    <3>3. found[k].synthetic = FALSE
      BY <1>1, <1>4, <3>2, SeenFrom
    <3> QED
      BY <1>13, <3>1, <3>3
  <2> QED
    BY <2>2, <2>3
<1>14. ASSUME found = <<>>, NEW k \in 1 .. Len(list) PROVE list[k].synthetic
  <2>1. Len(found) = 0
    BY <1>14
  <2>2. f[k] > Len(found)
    BY <1>6, <2>1
  <2> QED
    BY <1>7, <2>2
<1> QED
  BY <1>1, <1>2, <1>11, <1>12, <1>13, <1>14

(* The offers of the dictionaries, by the places they have in all.            *)
FromDict(list) == Among(list, {o \in ToSet(list) : ~o.synthetic})

(* They keep their order.                                                   *)
LEMMA FromDictIs ==
    ASSUME NEW list \in Seq(Offered)
    PROVE  /\ FromDict(list) \in Seq(Offered)
           /\ \E p : /\ p \in [1 .. Len(FromDict(list)) -> 1 .. Len(list)]
                     /\ \A i, j \in 1 .. Len(FromDict(list)) : i < j => p[i] < p[j]
                     /\ \A i \in 1 .. Len(FromDict(list)) :
                           FromDict(list)[i] = list[p[i]] /\ ~list[p[i]].synthetic
           /\ ToSet(FromDict(list)) = {o \in ToSet(list) : ~o.synthetic}
           /\ (\A k \in 1 .. Len(list) : ~list[k].synthetic) => FromDict(list) = list
<1> DEFINE set == {o \in ToSet(list) : ~o.synthetic}
           d == FromDict(list)
<1>1. d = Among(list, set)
  BY DEF FromDict
<1>2. \A o : o \in set <=> o \in ToSet(list) /\ ~o.synthetic
  OBVIOUS
<1> HIDE DEF set
<1>3. d \in Seq(Offered)
  BY <1>1, AmongPlaces
<1>4. PICK p : Places(p, d, list, set, Len(list))
  BY <1>1, AmongPlaces
<1>5. ToSet(d) = ToSet(list) \cap set
  BY <1>1, AmongMembers
<1>6. ToSet(d) = {o \in ToSet(list) : ~o.synthetic}
  BY <1>2, <1>5
<1>7. \A i \in 1 .. Len(d) : d[i] = list[p[i]] /\ ~list[p[i]].synthetic
  BY <1>2, <1>4 DEF Places
<1>8. p \in [1 .. Len(d) -> 1 .. Len(list)] /\ \A i, j \in 1 .. Len(d) : i < j => p[i] < p[j]
  BY <1>4 DEF Places
<1>9. ASSUME \A k \in 1 .. Len(list) : ~list[k].synthetic PROVE d = list
  <2>1. \A k \in 1 .. Len(list) : list[k] \in set
    BY <1>2, <1>9, ListIs
  <2> QED
    BY <1>1, <2>1, AmongAll
<1> QED
  BY <1>3, <1>6, <1>7, <1>8, <1>9

(* What is meant by any of the candidates shown.                             *)
Meant(shown, runs) == UNION {Meanings(c.word, runs) : c \in ToSet(shown)}

(* A text is meant if one of them stands for it.                             *)
LEMMA MeantIs ==
    ASSUME NEW shown, NEW runs, NEW w
    PROVE  w \in Meant(shown, runs) <=> \E c \in ToSet(shown) : w \in Meanings(c.word, runs)
  BY ZenonT(60) DEF Meant

(* What OfferedAsPromised says, by what it is about.                          *)
AsPromised(list, d, shown, ignored, runs, template) ==
    /\ Cardinality({o.word : o \in ToSet(list)}) = Len(list)
    /\ \A o \in ToSet(d) : RankIn(shown, o) # 0 /\ o.word \in Meanings(o.template, runs)
    /\ {o.word : o \in ToSet(d)} \subseteq Meant(shown, runs) \ ignored
    /\ (\A c \in ToSet(shown) : FewEnough(c.word, runs)) =>
          {o.word : o \in ToSet(d)} = Meant(shown, runs) \ ignored
    /\ \A i, j \in DOMAIN d : i < j => RankIn(shown, d[i]) <= RankIn(shown, d[j])
    /\ \A i \in DOMAIN list : list[i].synthetic => i > Len(d)
    /\ d # list => runs # <<>> /\ (d = <<>> \/ template = <<"#">>)

(* A conversion offers as OfferedAsPromised says.                            *)
LEMMA CandidatesPromised ==
    ASSUME Dictionaries, NEW text \in Text, NEW list, list = Candidates(text),
           NEW shown, shown = Shown(text), NEW ignored, ignored = Hidden(Template(text)),
           NEW runs, runs = Runs(text), NEW d, d = FromDict(list)
    PROVE  AsPromised(list, d, shown, ignored, runs, Template(text))
<1>1. list \in Seq(Offered)
  BY OfferedTraced
<1>2. PICK h : Traced(h, list, text) /\ Exhaustive(h, list, text)
  BY OfferedTraced
<1>3. d \in Seq(Offered) /\ ToSet(d) = {o \in ToSet(list) : ~o.synthetic}
  BY <1>1, FromDictIs
<1>4. PICK p : /\ p \in [1 .. Len(d) -> 1 .. Len(list)]
               /\ \A i, j \in 1 .. Len(d) : i < j => p[i] < p[j]
               /\ \A i \in 1 .. Len(d) : d[i] = list[p[i]] /\ ~list[p[i]].synthetic
  BY <1>1, FromDictIs
<1>5. shown \in Seq(Plainly) /\ runs \in Seq(Seq(Digit)) /\ Len(list) \in Nat /\ Len(d) \in Nat
  BY <1>1, <1>3, ShownTyped, RunsTyped
<1>6. ASSUME NEW c \in ToSet(shown)
      PROVE  /\ ToSet(Brings(text, c)) \subseteq Meanings(c.word, runs)
             /\ FewEnough(c.word, runs) => ToSet(Brings(text, c)) = Meanings(c.word, runs)
  <2>1. c.word \in Text
    BY <1>5, <1>6, ListIs, CandidateIs DEF Plainly
  <2>2. PICK w, b : w = c.word /\ b = Brings(text, c)
    OBVIOUS
  <2>3. w \in Text /\ b = WordsFor(w, runs, Lookups(runs))
    BY <2>1, <2>2 DEF Brings
  <2>4. ToSet(b) \subseteq Meanings(w, runs) /\ (FewEnough(w, runs) => ToSet(b) = Meanings(w, runs))
    BY <1>5, <2>3, WordsMean
  <2> QED
    BY <2>2, <2>4
<1>7. ASSUME NEW k \in 1 .. Len(list), ~list[k].synthetic
      PROVE  /\ RankIn(shown, list[k]) = h[k] /\ h[k] \in 1 .. Len(shown) /\ h[k] # 0
             /\ shown[h[k]] \in ToSet(shown) /\ shown[h[k]].word = list[k].template
             /\ list[k].word \in Meanings(list[k].template, runs) \ ignored
  <2>1. From(h, list, text, k)
    BY <1>2, <1>7 DEF Traced
  <2>2. PICK c : c = shown[h[k]]
    OBVIOUS
  <2>3. /\ h[k] \in 1 .. Len(shown) /\ list[k].template = c.word
        /\ list[k].word \in ToSet(Brings(text, c)) /\ list[k].word \notin ignored
        /\ \A j \in 1 .. h[k] - 1 : shown[j].word # list[k].template
    BY <2>1, <2>2 DEF From
  <2>4. c \in ToSet(shown)
    BY <1>5, <2>2, <2>3, ListIs
  <2>5. RankIn(shown, list[k]) = h[k]
    BY <1>5, <2>2, <2>3, RankIs
  <2> QED
    BY <1>6, <2>2, <2>3, <2>4, <2>5
<1>8. Cardinality({o.word : o \in ToSet(list)}) = Len(list)
  <2> DEFINE f == [k \in 1 .. Len(list) |-> list[k].word]
             W == {o.word : o \in ToSet(list)}
  <2>1. \A k \in 1 .. Len(list) : f[k] = list[k].word /\ f[k] \in W
    BY <1>1, ListIs
  <2>2. \A x \in W : \E k \in 1 .. Len(list) : f[k] = x
    BY <1>1, <2>1, ListIs
  <2>3. \A k, l \in 1 .. Len(list) : f[k] = f[l] => k = l
    BY <1>2, <2>1 DEF Exhaustive
  <2>4. f \in [1 .. Len(list) -> W]
    BY <2>1
  <2> HIDE DEF f, W
  <2>5. Cardinality(W) = Len(list)
    BY <1>5, <2>2, <2>3, <2>4, Numbered
  <2> QED
    BY <2>5 DEF W
<1>9. ASSUME NEW o \in ToSet(d)
      PROVE  \E k \in 1 .. Len(list) : list[k] = o /\ ~list[k].synthetic
  BY <1>1, <1>3, <1>9, ListIs
<1>10. \A o \in ToSet(d) : RankIn(shown, o) # 0 /\ o.word \in Meanings(o.template, runs)
  BY <1>7, <1>9
<1> DEFINE words    == {o.word : o \in ToSet(d)}
           promised == Meant(shown, runs) \ ignored
<1>16. ASSUME NEW w
       PROVE  w \in promised
                <=> w \notin ignored /\ \E c \in ToSet(shown) : w \in Meanings(c.word, runs)
  BY MeantIs
<1>17. ASSUME NEW w PROVE w \in words <=> \E o \in ToSet(d) : o.word = w
  OBVIOUS
<1>18. words = {o.word : o \in ToSet(d)}
       /\ promised = Meant(shown, runs) \ ignored
  OBVIOUS
<1> HIDE DEF words, promised
<1>11. words \subseteq promised
  <2>1. ASSUME NEW o \in ToSet(d) PROVE o.word \in promised
    <3>1. PICK k \in 1 .. Len(list) : list[k] = o /\ ~list[k].synthetic
      BY <1>9
    <3>2. PICK c \in ToSet(shown) :
             c.word = o.template /\ o.word \in Meanings(c.word, runs) \ ignored
      BY <1>7, <3>1
    <3> QED
      BY <1>16, <3>2
  <2> QED
    BY <1>17, <2>1
<1>12. ASSUME \A c \in ToSet(shown) : FewEnough(c.word, runs) PROVE words = promised
  <2>1. ASSUME NEW w \in promised PROVE w \in words
    <3>1. PICK c \in ToSet(shown) : w \in Meanings(c.word, runs) /\ w \notin ignored
      BY <1>16, <2>1
    <3>2. w \in ToSet(Brings(text, c))
      BY <1>6, <1>12, <3>1
    <3>3. PICK i \in 1 .. Len(shown) : shown[i] = c
      BY <1>5, ListIs
    <3>4. PICK k \in 1 .. Len(list) : ~list[k].synthetic /\ list[k].word = w
      BY <1>2, <3>1, <3>2, <3>3 DEF Exhaustive
    <3>5. list[k] \in ToSet(d)
      BY <1>1, <1>3, <3>4, ListIs
    <3> QED
      BY <1>17, <3>4, <3>5
  <2> QED
    BY <1>11, <2>1
<1>13. ASSUME NEW i \in 1 .. Len(d), NEW j \in 1 .. Len(d), i < j
       PROVE  RankIn(shown, d[i]) <= RankIn(shown, d[j])
  <2>1. p[i] \in 1 .. Len(list) /\ p[j] \in 1 .. Len(list) /\ p[i] < p[j]
    BY <1>4, <1>13
  <2>2. d[i] = list[p[i]] /\ d[j] = list[p[j]] /\ ~list[p[i]].synthetic /\ ~list[p[j]].synthetic
    BY <1>4
  <2>3. h[p[i]] <= h[p[j]]
    BY <1>2, <2>1, <2>2 DEF Traced
  <2> QED
    BY <1>7, <2>1, <2>2, <2>3
<1>14. ASSUME NEW i \in 1 .. Len(list), list[i].synthetic PROVE i > Len(d)
  <2>1. ASSUME i <= Len(d) PROVE FALSE
    <3>1. i \in 1 .. Len(d) /\ p[i] \in 1 .. Len(list)
      BY <1>4, <1>5, <2>1
    <3>2. i <= p[i]
      BY <1>4, <1>5, <3>1, Rising
    <3>3. ~list[p[i]].synthetic
      BY <1>4, <3>1
    <3>4. i < p[i]
      BY <1>14, <3>1, <3>2, <3>3
    <3> QED
      BY <1>2, <1>14, <3>1, <3>3, <3>4 DEF Traced
  <2> QED
    BY <1>5, <2>1
<1>15. ASSUME d # list PROVE runs # <<>> /\ (d = <<>> \/ Template(text) = <<"#">>)
  <2>1. PICK k \in 1 .. Len(list) : list[k].synthetic
    BY <1>1, <1>15, FromDictIs
  <2>2. runs # <<>> /\ (SeenOffers(text) = <<>> \/ Template(text) = <<"#">>)
    BY <2>1, OfferedTraced
  <2>3. ASSUME SeenOffers(text) = <<>> PROVE d = <<>>
    <3>1. \A l \in 1 .. Len(list) : list[l].synthetic
      BY <2>3, OfferedTraced
    <3>2. ASSUME d # <<>> PROVE FALSE
      <4>1. 1 \in 1 .. Len(d)
        BY <1>3, <3>2, NotEmpty
      <4> QED
        BY <1>4, <3>1, <4>1
    <3> QED
      BY <3>2
  <2> QED
    BY <2>2, <2>3
<1> QED
  <2>1. DOMAIN list = 1 .. Len(list) /\ DOMAIN d = 1 .. Len(d)
    BY <1>1, <1>3, ListIs
  <2> QED
    BY <1>8, <1>10, <1>11, <1>12, <1>13, <1>14, <1>15, <1>18, <2>1 DEF AsPromised

(* Whatever is offered is as promised: each word once, what the entry means   *)
(* for the numbers typed, in the order of the dictionaries (engine.rs:1439,  *)
(* template.rs:125).                                                       *)
THEOREM Promised == Spec => []OfferedAsPromised
<1>1. DictionaryInv => OfferedAsPromised
  <2> SUFFICES ASSUME DictionaryInv, phase = "selecting" PROVE OfferedAsPromised
    BY DEF OfferedAsPromised
  <2>1. Dictionaries /\ reading \in Text /\ offered = Candidates(reading)
    BY DEF DictionaryInv
  <2>2. AsPromised(offered, FromDict(offered), Shown(reading), Hidden(Template(reading)),
                   Runs(reading), Template(reading))
    BY ONLY <2>1, CandidatesPromised
  <2> DEFINE fromDict == Among(offered, {o \in ToSet(offered) : ~o.synthetic})
             shown    == Shown(reading)
             ignored  == Hidden(Template(reading))
             runs     == Runs(reading)
             meant    == UNION {Meanings(c.word, runs) : c \in ToSet(shown)}
  <2>3. /\ Cardinality({o.word : o \in ToSet(offered)}) = Len(offered)
        /\ \A o \in ToSet(fromDict) : RankIn(shown, o) # 0 /\ o.word \in Meanings(o.template, runs)
        /\ {o.word : o \in ToSet(fromDict)} \subseteq meant \ ignored
        /\ (\A c \in ToSet(shown) : FewEnough(c.word, runs)) =>
              {o.word : o \in ToSet(fromDict)} = meant \ ignored
        /\ \A i, j \in DOMAIN fromDict :
              i < j => RankIn(shown, fromDict[i]) <= RankIn(shown, fromDict[j])
        /\ \A i \in DOMAIN offered : offered[i].synthetic => i > Len(fromDict)
        /\ fromDict # offered =>
              runs # <<>> /\ (fromDict = <<>> \/ Template(reading) = <<"#">>)
    BY <2>2, ZenonT(60) DEF AsPromised, Meant, FromDict
  <2> QED
    BY <2>3, ZenonT(60) DEF OfferedAsPromised, RankIn, SelectInSeq
<1> QED
  BY <1>1, DictionaryInvariant, PTL

(* ---- what was learned comes first ---- *)

(* The first candidate of an entry is a plain word.                          *)
Leads(cands, w) == cands # <<>> /\ cands[1].form = "none" /\ cands[1].word = w

(* For every key learned since the file was edited the word leads its line,    *)
(* and its entry while the daemon runs.                                      *)
LearnedLeads ==
    \A key \in DOMAIN learned :
        /\ key \in DOMAIN file /\ Leads(ParseCandidates(file[key]), learned[key])
        /\ phase # "stopped" => key \in DOMAIN user /\ Leads(user[key], learned[key])

LearnedInv == DictionaryInv /\ LearnedLeads

(* A word learned leads its entry, and its line when that is read again; other *)
(* keys stay as they are.                                                   *)
LEMMA LearnLeads ==
    ASSUME Dictionaries, NEW key, NEW new, Saved(new), new.form = "none", Learn(key, new)
    PROVE  /\ key \in DOMAIN user' /\ Leads(user'[key], new.word)
           /\ key \in DOMAIN file' /\ Leads(ParseCandidates(file'[key]), new.word)
           /\ \A k \in DOMAIN user : k \in DOMAIN user' /\ (k # key => user'[k] = user[k])
           /\ \A k \in DOMAIN file : k \in DOMAIN file' /\ (k # key => file'[k] = file[k])
<1>1. PICK old, cands : /\ old = (IF key \in DOMAIN user THEN user[key] ELSE <<>>)
                        /\ cands = Learned(old, new)
  OBVIOUS
<1>2. user' = Put(user, key, cands) /\ file' = Put(file, key, SerializeCandidates(cands))
  BY <1>1 DEF Learn
<1>3. AllSaved(<<>>)
  BY DEF AllSaved
<1>4. AllSaved(old)
  BY <1>1, <1>3 DEF Dictionaries
<1>5. AllSaved(cands) /\ Len(cands) >= 1 /\ cands[1] = new
  BY <1>1, <1>4, LearnedSaved
<1>6. cands \in Seq(Candidate)
  BY <1>5 DEF AllSaved
<1>7. DOMAIN cands = 1 .. Len(cands) /\ Len(cands) \in Nat
  BY <1>6
<1>8. cands # <<>> /\ 1 \in DOMAIN cands
  BY <1>5, <1>7
<1>9. Leads(cands, new.word)
  BY <1>5, <1>8 DEF Leads
<1>10. PICK r : r = Rereads(cands)
  OBVIOUS
<1>11. ParseCandidates(SerializeCandidates(cands)) = r
  BY <1>5, <1>10, RoundTrip
<1>12. r[1] = Reread(new) /\ 1 \in DOMAIN r
  BY <1>5, <1>8, <1>10 DEF Rereads
<1>13. r[1].form = "none" /\ r[1].word = new.word
  BY <1>12 DEF Reread
<1>14. r # <<>>
  BY <1>12
<1>15. Leads(r, new.word)
  BY <1>13, <1>14 DEF Leads
<1>16. PICK line : line = SerializeCandidates(cands)
  OBVIOUS
<1>17. /\ DOMAIN user' = DOMAIN user \cup {key} /\ DOMAIN file' = DOMAIN file \cup {key}
       /\ user'[key] = cands /\ file'[key] = line
       /\ \A k \in DOMAIN user : k # key => user'[k] = user[k]
       /\ \A k \in DOMAIN file : k # key => file'[k] = file[k]
  BY <1>2, <1>16 DEF Put
<1> QED
  BY <1>9, <1>11, <1>15, <1>16, <1>17

(* So it goes on leading.                                                    *)
LEMMA LearnKeepsLeads ==
    ASSUME LearnedInv, phase # "stopped", NEW key, NEW new, Saved(new), new.form = "none",
           Learn(key, new), learned' = Put(learned, key, new.word)
    PROVE  LearnedLeads'
<1>1. Dictionaries /\ LearnedLeads
  BY DEF LearnedInv, DictionaryInv
<1>2. /\ key \in DOMAIN user' /\ Leads(user'[key], new.word)
      /\ key \in DOMAIN file' /\ Leads(ParseCandidates(file'[key]), new.word)
      /\ \A k \in DOMAIN user : k \in DOMAIN user' /\ (k # key => user'[k] = user[k])
      /\ \A k \in DOMAIN file : k \in DOMAIN file' /\ (k # key => file'[k] = file[k])
  BY <1>1, LearnLeads
<1>3. /\ DOMAIN learned' = DOMAIN learned \cup {key} /\ learned'[key] = new.word
      /\ \A k \in DOMAIN learned : k # key => learned'[k] = learned[k]
  BY DEF Put
<1>4. ASSUME NEW k \in DOMAIN learned'
      PROVE  /\ k \in DOMAIN file' /\ Leads(ParseCandidates(file'[k]), learned'[k])
             /\ k \in DOMAIN user' /\ Leads(user'[k], learned'[k])
  <2>1. CASE k = key
    BY <1>2, <1>3, <2>1
  <2>2. CASE k # key
    <3>1. k \in DOMAIN learned /\ learned'[k] = learned[k]
      BY <1>3, <2>2
    <3>2. /\ k \in DOMAIN file /\ Leads(ParseCandidates(file[k]), learned[k])
          /\ k \in DOMAIN user /\ Leads(user[k], learned[k])
      BY <1>1, <3>1 DEF LearnedLeads
    <3> QED
      BY <1>2, <2>2, <3>1, <3>2
  <2> QED
    BY <2>1, <2>2
<1> QED
  BY <1>4 DEF LearnedLeads

(* Every step keeps it.                                                     *)
LEMMA LearnedStep == LearnedInv /\ [Next]_vars => LearnedInv'
<1> SUFFICES ASSUME LearnedInv, [Next]_vars PROVE LearnedInv'
  OBVIOUS
<1>1. DictionaryInv /\ LearnedLeads /\ Dictionaries /\ buffer \in Text
  BY DEF LearnedInv, DictionaryInv
<1>2. DictionaryInv'
  BY <1>1, DictionaryStep
<1>3. ASSUME learned' = learned, user' = user, file' = file, phase # "stopped" \/ phase' = phase
      PROVE  LearnedLeads'
  BY <1>1, <1>3 DEF LearnedLeads
<1>4. ASSUME NEW g \in ReadingGlyph, TypeReading(g) PROVE LearnedLeads'
  BY <1>3, <1>4 DEF TypeReading
<1>5. ASSUME StartConversion PROVE LearnedLeads'
  BY <1>3, <1>5 DEF StartConversion
<1>6. ASSUME NEW i \in DOMAIN offered, CommitCandidate(i) PROVE LearnedLeads'
  <2>1. phase = "selecting"
    BY <1>6 DEF CommitCandidate
  <2>2. CASE offered[i].synthetic
    BY <1>3, <1>6, <2>1, <2>2 DEF CommitCandidate
  <2>3. CASE ~offered[i].synthetic
    <3>1. PICK o, new : o = offered[i] /\ new = Taught(o)
      OBVIOUS
    <3>2. /\ Learn(Template(reading), new)
          /\ learned' = Put(learned, Template(reading), o.template)
      BY <1>6, <2>3, <3>1 DEF CommitCandidate
    <3>3. Saved(new)
      BY <1>1, <2>1, <2>3, <3>1, TaughtSaved
    <3>4. new.form = "none" /\ new.word = o.template
      BY <3>1 DEF Taught, Plain
    <3> QED
      BY <2>1, <3>2, <3>3, <3>4, LearnKeepsLeads
  <2> QED
    BY <2>2, <2>3
<1>7. ASSUME NEW g \in WordGlyph, TypeWord(g) PROVE LearnedLeads'
  BY <1>3, <1>7 DEF TypeWord
<1>8. ASSUME EnterRegister PROVE LearnedLeads'
  BY <1>3, <1>8 DEF EnterRegister
<1>9. ASSUME FinalizeRegister PROVE LearnedLeads'
  <2>1. PICK new : new = Registered(buffer)
    OBVIOUS
  <2>2. /\ phase = "registering" /\ buffer # <<>> /\ Learn(Template(reading), new)
        /\ learned' = Put(learned, Template(reading), new.word)
    BY <1>9, <2>1 DEF FinalizeRegister
  <2>3. Saved(new) /\ new.form = "none"
    BY <1>1, <2>1, <2>2, RegisteredSaved
  <2> QED
    BY <2>2, <2>3, LearnKeepsLeads
<1>10. ASSUME Cancel PROVE LearnedLeads'
  BY <1>3, <1>10 DEF Cancel
<1>11. ASSUME Stop PROVE LearnedLeads'
  <2>1. phase' = "stopped" /\ file' = file /\ learned' = learned
    BY <1>11 DEF Stop
  <2> QED
    BY <1>1, <2>1 DEF LearnedLeads
<1>12. ASSUME Start PROVE LearnedLeads'
  <2>1. /\ user' = [key \in DOMAIN file |-> ParseCandidates(file[key])]
        /\ file' = file /\ learned' = learned
    BY <1>12 DEF Start
  <2> QED
    BY <1>1, <2>1 DEF LearnedLeads
<1>13. ASSUME NEW key \in DOMAIN file, NEW g \in FieldGlyph, EditFile(key, g) PROVE LearnedLeads'
  BY <1>13 DEF EditFile, NoEntry, LearnedLeads
<1>14. ASSUME UNCHANGED vars PROVE LearnedLeads'
  BY <1>3, <1>14 DEF vars
<1> QED
  BY <1>2, <1>4, <1>5, <1>6, <1>7, <1>8, <1>9, <1>10, <1>11, <1>12, <1>13, <1>14
  DEF Next, LearnedInv

(* What was learned leads its entry and its line all along.                    *)
THEOREM LearnedInvariant == Spec => []LearnedInv
<1>1. Init => LearnedInv
  <2>1. Init => LearnedLeads
    BY DEF Init, LearnedLeads, NoEntry
  <2> QED
    BY <2>1, DictionaryInit DEF LearnedInv
<1> QED
  BY <1>1, LearnedStep, PTL DEF Spec

(* The word that leads an entry is offered first, unless it is ignored.        *)
LEMMA LeaderFirst ==
    ASSUME Dictionaries, NEW text \in Text, NEW key, key = Template(text), key \in DOMAIN user,
           NEW w, Leads(user[key], w), NEW runs, runs = Runs(text), FewEnough(w, runs),
           NEW list, list = Candidates(text), list # <<>>
    PROVE  list[1].word \in Meanings(w, runs) \/ Meanings(w, runs) \subseteq Hidden(key)
<1> SUFFICES ASSUME NEW x, x \in Meanings(w, runs), x \notin Hidden(key)
             PROVE  list[1].word \in Meanings(w, runs)
  OBVIOUS
<1>1. PICK c, all, shown : c = user[key][1] /\ all = AllFound(key) /\ shown = Shown(text)
  OBVIOUS
<1>2. user[key] # <<>> /\ c.form = "none" /\ c.word = w
  BY <1>1 DEF Leads
<1>3. all # <<>> /\ all[1] = c /\ all \in Seq(Found)
  BY <1>1, <1>2, FoundFirst, AllFoundTyped
<1>4. shown = Displayable(all)
  BY <1>1 DEF Shown
<1>5. shown # <<>> /\ shown[1] = c
  BY <1>2, <1>3, <1>4, DisplayableFirst
<1>6. shown \in Seq(Plainly)
  BY <1>1, ShownTyped
<1>7. 1 \in 1 .. Len(shown) /\ c \in Plainly
  BY <1>5, <1>6, NotEmpty
<1>8. w \in Text
  BY <1>2, <1>7, CandidateIs DEF Plainly
<1>9. PICK b : b = Brings(text, c)
  OBVIOUS
<1>10. b = WordsFor(w, runs, Lookups(runs)) /\ runs \in Seq(Seq(Digit))
  BY <1>2, <1>9, RunsTyped DEF Brings
<1>11. ToSet(b) = Meanings(w, runs)
  BY <1>8, <1>10, WordsMean
<1>12. list \in Seq(Offered)
  BY OfferedTraced
<1>13. PICK h : Traced(h, list, text) /\ Exhaustive(h, list, text)
  BY OfferedTraced
<1>14. PICK k \in 1 .. Len(list) : ~list[k].synthetic /\ h[k] <= 1
  BY <1>1, <1>5, <1>7, <1>9, <1>11, <1>13 DEF Exhaustive
<1>15. 1 \in 1 .. Len(list) /\ k \in Nat /\ k >= 1
  BY <1>12, NotEmpty
<1>16. ~list[1].synthetic /\ h[1] <= h[k]
  <2>1. CASE k = 1
    <3>1. From(h, list, text, k)
      BY <1>13, <1>14 DEF Traced
    <3>2. h[k] \in 1 .. Len(Shown(text))
      BY <3>1 DEF From
    <3> QED
      BY <1>14, <2>1, <3>2
  <2>2. CASE k # 1
    BY <1>13, <1>14, <1>15, <2>2 DEF Traced
  <2> QED
    BY <2>1, <2>2
<1>17. From(h, list, text, 1) /\ From(h, list, text, k)
  BY <1>13, <1>14, <1>15, <1>16 DEF Traced
<1>18. h[1] \in 1 .. Len(shown) /\ h[k] \in 1 .. Len(shown)
       /\ list[1].word \in ToSet(Brings(text, shown[h[1]]))
  BY <1>1, <1>17 DEF From
<1>19. h[1] = 1
  BY <1>14, <1>16, <1>18
<1> QED
  BY <1>5, <1>9, <1>11, <1>18, <1>19

(* The word chosen or registered last for a key is offered first the next time,*)
(* for other numbers too and after a restart, unless all it stands for is      *)
(* ignored (engine.rs:1951, 2201, file.rs:219).                              *)
THEOREM LearnedFirst == Spec => []LearnedComesFirst
<1>1. ASSUME LearnedInv PROVE LearnedComesFirst
  <2> SUFFICES ASSUME phase = "selecting", Template(reading) \in DOMAIN learned,
                      FewEnough(learned[Template(reading)], Runs(reading))
               PROVE  \/ offered[1].word \in Meanings(learned[Template(reading)], Runs(reading))
                      \/ Meanings(learned[Template(reading)], Runs(reading))
                            \subseteq Hidden(Template(reading))
    BY DEF LearnedComesFirst
  <2>1. PICK key, runs, w : key = Template(reading) /\ runs = Runs(reading) /\ w = learned[key]
    OBVIOUS
  <2>2. /\ Dictionaries /\ reading \in Text
        /\ offered = Candidates(reading) /\ offered # <<>>
    BY <1>1 DEF LearnedInv, DictionaryInv
  <2>3. key \in DOMAIN user /\ Leads(user[key], w)
    BY <1>1, <2>1 DEF LearnedInv, LearnedLeads
  <2>4. offered[1].word \in Meanings(w, runs) \/ Meanings(w, runs) \subseteq Hidden(key)
    BY <2>1, <2>2, <2>3, LeaderFirst
  <2> QED
    BY <2>1, <2>4
<1> QED
  BY <1>1, LearnedInvariant, PTL
===============================================================================
