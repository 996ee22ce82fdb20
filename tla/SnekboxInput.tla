----------------------------- MODULE SnekboxInput -----------------------------
(***************************************************************************)
(* Snekbox.prepare_input (src/bot/exts/utils/snekbox.py, lines 77-97): the  *)
(* code of an eval is taken out of its Markdown by FORMATTED_CODE_REGEX or, *)
(* when that does not match, by RAW_CODE_REGEX (lines 23-40), and then      *)
(* dedented by textwrap.dedent.                                             *)
(*                                                                         *)
(* A message is a sequence over the characters the regexes tell apart:    *)
(* the backtick "bq", a letter "l" ([a-z] under IGNORECASE), any other     *)
(* printable character "p", the space "S" and the newline "N".  The tab    *)
(* and the other characters of \s are left out.                            *)
(*                                                                         *)
(* Python's re engine backtracks depth first and returns the first parse  *)
(* that reaches the end: alternatives left to right, greedy quantifiers    *)
(* longest first, lazy ones shortest first.  A parse of FORMATTED_CODE_REGEX *)
(* is the tuple of its choices, and the match is the least parse in that  *)
(* order.                                                                  *)
(***************************************************************************)
EXTENDS Integers, Sequences, FiniteSets, SequencesExt, SnekboxFormat

CONSTANT CodeLen  \* the longest code the check below enumerates

InChars == {"bq", "l", "p", "S", "N"}

\* \s
Ws == {"S", "N"}

\* The length of the longest prefix of s[i..] whose characters are in C.
RunFrom(s, i, C) == Max({n \in 0..Len(s) - i + 1 : \A j \in i..i + n - 1 : s[j] \in C})

\* s[i..] starts with n blank lines, (?:[ \t]*\n)*, of b characters in all.
BlankLinesAt(s, i, b) ==
    \/ b = 0
    \/ /\ i + b - 1 <= Len(s)
       /\ s[i + b - 1] = "N"
       /\ \A j \in i..i + b - 1 : s[j] \in Ws

\* r is \s*(?P=delim)\s* for a delimiter of d backticks.
ClosesWith(r, d) ==
    LET w == RunFrom(r, 1, Ws)
    IN /\ Len(r) >= w + d
       /\ \A j \in w + 1..w + d : r[j] = "bq"
       /\ \A j \in w + d + 1..Len(r) : r[j] \in Ws

\* (?(block)(?:(?P<lang>[a-z]+)\n)?): the lengths the optional language
\* line may take after the delimiter, the language line first.
LangOptions(t, d) ==
    LET run == RunFrom(t, d + 1, {"l"})
    IN IF d = 3 /\ run > 0 /\ d + run + 1 <= Len(t) /\ t[d + run + 1] = "N"
       THEN {run + 1, 0} ELSE {0}

\* The lengths of the runs of blank lines s[i..] may start with.
BlankOptions(s, i) == {b \in 0..Len(s) - i + 1 : BlankLinesAt(s, i, b)}

\* Lines 24-32 after ^\s*: the parses <<d, l, b, k>> of t, a delimiter of d
\* backticks, a language line of l characters, b characters of blank lines
\* and k of code, whose closing part reaches the end of t.
FormattedParses(t) ==
    LET Delims == {d \in 1..3 : d <= Len(t) /\ \A j \in 1..d : t[j] = "bq"}
        Heads == UNION {{<<d, l, b>> : b \in BlankOptions(t, d + l + 1)} :
                          <<d, l>> \in UNION {{d} \X LangOptions(t, d) : d \in Delims}}
        End(p) == p[1] + p[2] + p[3] + p[4]
    IN {p \in {<<h[1], h[2], h[3], k>> : h \in Heads, k \in 0..Len(t)} :
          End(p) <= Len(t) /\ ClosesWith(SubSeq(t, End(p) + 1, Len(t)), p[1])}

\* No match.
NoMatch == <<"no match">>

\* Mutation: the code group greedy, (?P<code>.*), so the whitespace before
\* the closing delimiter stays in the code.
FormattedCodeGreedy(s) ==
    LET t == SubSeq(s, RunFrom(s, 1, Ws) + 1, Len(s))
        P1 == FormattedParses(t)
        d == Max({p[1] : p \in P1})
        P2 == {p \in P1 : p[1] = d}
        l == Max({p[2] : p \in P2})
        P3 == {p \in P2 : p[2] = l}
        b == Max({p[3] : p \in P3})
        k == Max({p[4] : p \in {p \in P3 : p[3] = b}})
    IN IF P1 = {} THEN NoMatch ELSE SubSeq(t, d + l + b + 1, d + l + b + k)

\* FORMATTED_CODE_REGEX.fullmatch(code) (line 80) and its "code" group: the
\* delimiter ``` before `` before `, the language line before none, more
\* blank lines before fewer, then the shortest code (.*?).
FormattedCode(s) ==
    LET t == SubSeq(s, RunFrom(s, 1, Ws) + 1, Len(s))
        P1 == FormattedParses(t)
        d == Max({p[1] : p \in P1})
        P2 == {p \in P1 : p[1] = d}
        l == Max({p[2] : p \in P2})
        P3 == {p \in P2 : p[2] = l}
        b == Max({p[3] : p \in P3})
        k == Min({p[4] : p \in {p \in P3 : p[3] = b}})
    IN IF P1 = {} THEN NoMatch ELSE SubSeq(t, d + l + b + 1, d + l + b + k)

\* RAW_CODE_REGEX.fullmatch(code).group("code") (line 91): the blank lines
\* at the start (greedy), then the shortest code followed only by \s.
RawCode(s) ==
    LET b == Max({n \in 0..Len(s) : BlankLinesAt(s, 1, n)})
        k == Min({n \in 0..Len(s) - b : \A j \in b + n + 1..Len(s) : s[j] \in Ws})
    IN SubSeq(s, b + 1, b + k)

\* textwrap.dedent: lines of spaces only are emptied, and the spaces every
\* other line starts with are removed from it.
Dedent(s) ==
    LET lines == Split(s, "N")
        Blank(x) == \A j \in 1..Len(x) : x[j] = "S"
        margins == {RunFrom(lines[i], 1, {"S"}) : i \in {i \in 1..Len(lines) : ~Blank(lines[i])}}
        m == IF margins = {} THEN 0 ELSE Min(margins)
    IN Join([i \in 1..Len(lines) |->
               IF Blank(lines[i]) THEN <<>> ELSE SubSeq(lines[i], m + 1, Len(lines[i]))], "N")

\* Snekbox.prepare_input, lines 77-97.
PrepareInput(s) ==
    LET f == FormattedCode(s)
    IN Dedent(IF f # NoMatch THEN f ELSE RawCode(s))

-----------------------------------------------------------------------------
(* What prepare_input is for: the code the author wrote, whichever of the  *)
(* Markdown forms of Discord they put it in.                               *)

\* The ways an author marks up code c: a code block with or without a
\* language, inline code in one or two backticks, or no markup at all.
MarkedUp(c) ==
    {Fence \o <<"N">> \o c \o <<"N">> \o Fence,
     Fence \o <<"l", "N">> \o c \o <<"N">> \o Fence,
     <<"bq">> \o c \o <<"bq">>,
     <<"bq", "bq">> \o c \o <<"bq", "bq">>,
     c}

\* Code c without the blank lines it starts with and the whitespace it
\* ends with.
Trimmed(c) ==
    LET nl == {j \in 1..RunFrom(c, 1, Ws) : c[j] = "N"}
        from == IF nl = {} THEN 1 ELSE Max(nl) + 1
        to == Max({j \in 0..Len(c) : j = 0 \/ c[j] \notin Ws})
    IN SubSeq(c, from, to)

\* The code the author means: trimmed and dedented.
Intended(c) == Dedent(Trimmed(c))

\* The codes checked: every string of up to CodeLen characters that a
\* Python 3 program can be, so none whose first non-blank character is a
\* backtick, which is no token of Python 3.  (A code both starting and
\* ending with one is itself inline-code markup, and is read as such.)
Codes == {c \in BoundedSeq(InChars, CodeLen) :
            LET w == RunFrom(c, 1, Ws) IN w = Len(c) \/ c[w + 1] # "bq"}

\* prepare_input (lines 77-97) gives back the code the author wrote, in
\* whichever Markdown form it came: the backtracking of FORMATTED_CODE_REGEX
\* (the delimiter alternation, the optional language line, the greedy
\* blank lines and the lazy code before the closing delimiter) and the
\* RAW_CODE_REGEX fallback take off exactly the markup and the surrounding
\* blank space.  Constant-level: TLC evaluates it once.
AllInputsExtracted ==
    \A c \in Codes : \A s \in MarkedUp(c) : PrepareInput(s) = Intended(c)
====
