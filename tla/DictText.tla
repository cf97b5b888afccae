------------------------------ MODULE DictText ------------------------------
(***************************************************************************)
(* Candidates as a dictionary file writes them (skk-core/src/dict/lisp.rs   *)
(* and file.rs): fields between slashes, a word, a Lisp form, and an        *)
(* annotation after a semicolon; what the syntax reserves is quoted.        *)
(*                                                                         *)
(* A text is a sequence of glyphs.  The two symbols a form may begin with    *)
(* are one glyph each.                                                     *)
(***************************************************************************)
EXTENDS Integers, Lists

CONSTANT None

Concat == "concat"
Ignore == "skk-ignore-dic-word"
Blank  == " "

After(s, i)  == SubSeq(s, i + 1, Len(s))
Before(s, i) == SubSeq(s, 1, i - 1)

TrimStart(s) == LET i == SelectInSeq(s, LAMBDA c : c # Blank)
                IN  IF i = 0 THEN <<>> ELSE After(s, i - 1)
Trim(s)      == LET i == SelectLastInSeq(s, LAMBDA c : c # Blank) IN TrimStart(SubSeq(s, 1, i))

(* A separator begins the next field; any other glyph is one of the last.    *)
Extended(fields, x, c) ==
    IF x = c THEN Append(fields, <<>>) ELSE [fields EXCEPT ![Len(fields)] = Append(@, x)]

(* The fields between the glyphs c.                                         *)
Fields(s, c) ==
    LET upto[n \in 0 .. Len(s)] == IF n = 0 THEN <<<<>>>> ELSE Extended(upto[n - 1], s[n], c)
    IN  upto[Len(s)]

Join(fields, c) ==
    FlattenSeq([i \in DOMAIN fields |-> IF i = 1 THEN fields[i] ELSE <<c>> \o fields[i]])

(* ---- string literals ---- *)

(* read_string_literal and parse_string_list, glyph by glyph.  in: between    *)
(* literals, inside one, after a backslash, or inside an octal escape, whose *)
(* digits so far are in code.                                              *)
Outside == [in |-> "list", words |-> <<>>, text |-> <<>>, code |-> <<>>]
Bad     == [Outside EXCEPT !.in = "bad"]

Octal     == {"0", "1", "2", "3", "4", "5", "6", "7"}
CharOf(code) == CASE code \in {<<"0", "5", "7">>, <<"5", "7">>} -> "/"
                  [] code \in {<<"0", "7", "3">>, <<"7", "3">>} -> ";"
                  [] OTHER -> "char"
Escape == [c \in {"\"", "\\", "n", "t", "r"} |->
              CASE c = "n" -> "LF" [] c = "t" -> "TAB" [] c = "r" -> "CR" [] OTHER -> c]

InText(st, c) ==
    IF c = "\"" THEN [Outside EXCEPT !.words = Append(st.words, st.text)]
    ELSE IF c = "\\" THEN [st EXCEPT !.in = "escape"]
    ELSE [st EXCEPT !.text = Append(@, c)]

CodeRead(st) == [st EXCEPT !.in = "text", !.text = Append(@, CharOf(st.code)), !.code = <<>>]

(* Mutant: an octal escape goes on as long as there are octal digits.        *)
TakesMoreAlways(code) == TRUE

TakesMore(code) == Len(code) < 3

Read(st, c) ==
    CASE st.in = "list" -> IF c = Blank THEN st
                           ELSE IF c = "\"" THEN [st EXCEPT !.in = "text"] ELSE Bad
      [] st.in = "text" -> InText(st, c)
      [] st.in = "escape" ->
            IF c \in Octal THEN [st EXCEPT !.in = "code", !.code = <<c>>]
            ELSE IF c \in DOMAIN Escape
              THEN [st EXCEPT !.in = "text", !.text = Append(@, Escape[c])]
            ELSE Bad
      [] st.in = "code" ->
            IF c \in Octal /\ TakesMore(st.code) THEN [st EXCEPT !.code = Append(@, c)]
            ELSE InText(CodeRead(st), c)
      [] st.in = "bad" -> st

Closed(st) == IF st.in = "list" THEN st.words ELSE None

(* The literals of a text that is nothing else, or None.                     *)
StringList(s) ==
    LET after[i \in 0 .. Len(s)] == IF i = 0 THEN Outside ELSE Read(after[i - 1], s[i])
    IN  Closed(after[Len(s)])

Written(c) ==
    CASE c = "/"  -> <<"\\", "0", "5", "7">>
      [] c = ";"  -> <<"\\", "0", "7", "3">>
      [] c = "\"" -> <<"\\", "\"">>
      [] c = "\\" -> <<"\\", "\\">>
      [] c = "LF" -> <<"\\", "n">>
      [] c = "CR" -> <<"\\", "r">>
      [] OTHER    -> <<c>>

WriteStringLiteral(s) == <<"\"">> \o FlattenSeq([i \in DOMAIN s |-> Written(s[i])]) \o <<"\"">>

(* ---- forms ---- *)

Inside(t) ==
    IF Len(t) >= 2 /\ t[1] = "(" /\ t[Len(t)] = ")" THEN Trim(SubSeq(t, 2, Len(t) - 1)) ELSE <<>>

AfterHead(inner, head) ==
    IF inner # <<>> /\ inner[1] = head /\ (Len(inner) > 1 => inner[2] = Blank)
    THEN TrimStart(After(inner, 1)) ELSE None

(* split_head: what follows the symbol, or None.                            *)
SplitHead(s, head) == AfterHead(Inside(Trim(s)), head)

WordsIn(rest) == IF rest = None THEN None ELSE StringList(rest)
Joined(words) == IF words = None THEN None ELSE FlattenSeq(words)

(* Words in a form with this head, or None.                                 *)
WordsOf(s, head) == WordsIn(SplitHead(s, head))
ParseConcat(s)   == Joined(WordsOf(s, Concat))

(* sexp_end: the place of the parenthesis that closes the one s begins with,  *)
(* or 0; parentheses inside a literal do not count.                         *)
Unopened == [at |-> 0, depth |-> 0, quoted |-> FALSE, escaped |-> FALSE]

Nested(st, c, i) ==
    IF st.at # 0 THEN st
    ELSE IF st.quoted
      THEN IF st.escaped THEN [st EXCEPT !.escaped = FALSE]
           ELSE [st EXCEPT !.escaped = c = "\\", !.quoted = c # "\""]
    ELSE CASE c = "\"" -> [st EXCEPT !.quoted = TRUE]
           [] c = "("  -> [st EXCEPT !.depth = @ + 1]
           [] c = ")"  -> [st EXCEPT !.depth = @ - 1, !.at = IF st.depth = 1 THEN i ELSE 0]
           [] OTHER    -> st

SexpEnd(s) ==
    LET after[i \in 0 .. Len(s)] == IF i = 0 THEN Unopened ELSE Nested(after[i - 1], s[i], i)
    IN  IF s = <<>> \/ s[1] # "(" THEN 0 ELSE after[Len(s)].at

NeedsQuoting(s) ==
    \/ s # <<>> /\ s[1] = "("
    \/ \E i \in DOMAIN s : s[i] \in {"/", ";", "\"", "\\", "LF", "CR"}

QuoteIfNeeded(s) ==
    IF NeedsQuoting(s) THEN <<"(", Concat, Blank>> \o WriteStringLiteral(s) \o <<")">> ELSE s

RenderIgnoreDicWord(words) ==
    LET written == [i \in DOMAIN words |-> <<Blank>> \o WriteStringLiteral(words[i])]
    IN  <<"(", Ignore>> \o FlattenSeq(written) \o <<")">>

(* ---- candidates ---- *)

(* form is that of LispForm, or "none" for a word; a directive to ignore     *)
(* words keeps them in ignored and is rendered anew, other forms are kept as *)
(* they are in word.                                                       *)
Plain(word, annotation) ==
    [form |-> "none", word |-> word, annotation |-> annotation, ignored |-> <<>>]

Directive(words, annotation) ==
    [form |-> "ignore", word |-> <<>>, annotation |-> annotation, ignored |-> words]

OrElse(text, default)  == IF text = None THEN default ELSE text
DecodeAnnotation(raw) == OrElse(ParseConcat(raw), raw)

(* lisp::classify for a text that begins with a parenthesis, given the words  *)
(* it is to ignore.                                                        *)
Classified(sexp, words, annotation) ==
    IF words # None THEN Directive(words, annotation)
    ELSE [form |-> "unknown", word |-> sexp, annotation |-> annotation, ignored |-> <<>>]

Form(sexp, joined, annotation) ==
    IF joined # None THEN Plain(joined, annotation)
    ELSE Classified(sexp, WordsOf(sexp, Ignore), annotation)

WordAndAnnotation(field, word, annotation) ==
    IF field[1] = "(" THEN Form(word, ParseConcat(word), annotation) ELSE Plain(word, annotation)

(* The annotation of a form comes right after it, else the field is the form. *)
FormEnd(field, end) ==
    IF end # 0 /\ (end = Len(field) \/ field[end + 1] = ";") THEN end ELSE Len(field)

SplitAt(field, semi) ==
    IF semi \in DOMAIN field
    THEN WordAndAnnotation(field, Before(field, semi), DecodeAnnotation(After(field, semi)))
    ELSE WordAndAnnotation(field, field, None)

ParseCandidateField(field) ==
    SplitAt(field, IF field[1] = "(" THEN FormEnd(field, SexpEnd(field)) + 1
                   ELSE SelectInSeq(field, LAMBDA c : c = ";"))

(* An empty word makes the file invalid.                                    *)
Valid(cands) ==
    IF \E i \in DOMAIN cands : cands[i].form = "none" /\ cands[i].word = <<>> THEN None ELSE cands

ParsedFields(fields) == Valid([i \in DOMAIN fields |-> ParseCandidateField(fields[i])])

(* The candidates of a line, or None.                                       *)
ParseCandidates(text) == ParsedFields(Without(Fields(text, "/"), <<>>))

SerializeCandidates(cands) ==
    LET Word(c) == CASE c.form = "ignore"  -> RenderIgnoreDicWord(c.ignored)
                     [] c.form = "unknown" -> c.word
                     [] c.form = "none"    -> QuoteIfNeeded(c.word)
        Field(c) == IF c.annotation = None THEN Word(c)
                    ELSE Word(c) \o <<";">> \o QuoteIfNeeded(c.annotation)
    IN  Join([i \in DOMAIN cands |-> Field(cands[i])], "/")
=============================================================================
