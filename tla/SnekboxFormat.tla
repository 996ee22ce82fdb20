---------------------------- MODULE SnekboxFormat ----------------------------
(***************************************************************************)
(* The text an eval or timeit job posts (src/bot/exts/utils/snekbox.py):   *)
(* get_results_message, get_status_emoji, format_output, get_time, and the *)
(* message send_eval and send_timeit build around them.  These are pure    *)
(* functions of the results dict the snekbox service returns.             *)
(*                                                                         *)
(* A string is a sequence of characters from a small alphabet that keeps   *)
(* what the code looks at: the newline "N", the backtick "bq" and the     *)
(* zero-width space "Z" (both in the class of ESCAPE_REGEX), the           *)
(* characters of a mention ("<", "@", "!") and of its id ("d"), and "a"   *)
(* for any other character.                                                *)
(* U+202E, the third character of the class, behaves like "Z" and is left  *)
(* out.  Fixed texts of the code (the notices, the emoji, the status       *)
(* sentence, the paste link) are single tokens, which contain none of      *)
(* these characters.  The limits of 10 lines and 1000 characters are the   *)
(* constants LineLimit and CharLimit; a line number "001 | " is the one    *)
(* token "#".                                                              *)
(***************************************************************************)
EXTENDS Integers, Sequences, FiniteSets, SequencesExt

CONSTANTS
    LineLimit,     \* the 10 of `lines > 10` and output[:11]
    CharLimit,     \* the 1000 of `len(output) >= 1000` and output[:1000]
    MaxPasteLen,   \* MAX_PASTE_LEN
    SignalNumbers, \* the values of signal.Signals
    NoCode,        \* returncode None
    Stdouts,       \* the stdout of a job that ran
    ReturnCodes,   \* the returncode of a job that ran
    ServiceErrors  \* the stdout of a job with returncode None

Fence == <<"bq", "bq", "bq">>
EscapeChars == {"bq", "Z"}
Chars == {"a", "d", "bq", "<", "@", "!", "Z", "N"}

-----------------------------------------------------------------------------
(* String helpers, as the str methods of Python do them.                  *)

RECURSIVE StripTrailing(_, _)
StripTrailing(s, c) ==
    IF s # <<>> /\ Last(s) = c THEN StripTrailing(Front(s), c) ELSE s

RECURSIVE StripLeading(_, _)
StripLeading(s, c) ==
    IF s # <<>> /\ Head(s) = c THEN StripLeading(Tail(s), c) ELSE s

\* s.strip(c); with no argument only "N" of the alphabet is whitespace.
Strip(s, c) == StripLeading(StripTrailing(s, c), c)

\* s.replace(old, new): non-overlapping, left to right.
RECURSIVE StrReplace(_, _, _)
StrReplace(s, old, new) ==
    IF Len(s) < Len(old) THEN s
    ELSE IF SubSeq(s, 1, Len(old)) = old
         THEN new \o StrReplace(SubSeq(s, Len(old) + 1, Len(s)), old, new)
         ELSE <<Head(s)>> \o StrReplace(Tail(s), old, new)

\* s.split(c).
RECURSIVE Split(_, _)
Split(s, c) ==
    IF \E k \in 1..Len(s) : s[k] = c
    THEN LET k == CHOOSE k \in 1..Len(s) :
                    s[k] = c /\ \A j \in 1..k - 1 : s[j] # c
         IN <<SubSeq(s, 1, k - 1)>> \o Split(SubSeq(s, k + 1, Len(s)), c)
    ELSE <<s>>

\* c.join(parts).
RECURSIVE Join(_, _)
Join(parts, c) ==
    IF Len(parts) <= 1 THEN FlattenSeq(parts)
    ELSE Head(parts) \o <<c>> \o Join(Tail(parts), c)

\* s.count(c).
CountOf(s, c) == Cardinality({k \in 1..Len(s) : s[k] = c})

\* s[:n].
Prefix(s, n) == SubSeq(s, 1, IF n < Len(s) THEN n ELSE Len(s))

\* ESCAPE_REGEX.findall(s) is not empty: a run of three characters of the
\* class.
HasEscapeRun(s) ==
    \E k \in 1..Len(s) - 2 : {s[k], s[k + 1], s[k + 2]} \subseteq EscapeChars

-----------------------------------------------------------------------------
(* The results dict of post_eval (line 61), and the functions of it.        *)

Results ==
    {[stdout |-> o, returncode |-> r] : o \in Stdouts, r \in ReturnCodes}
    \cup {[stdout |-> o, returncode |-> NoCode] : o \in ServiceErrors}

SIGKILL == 9

\* get_results_message, lines 99-121: the status sentence and the error
\* text shown instead of the output.
GetResultsMessage(results) ==
    LET stdout == results.stdout
        returncode == results.returncode
    IN CASE returncode = NoCode ->
              [msg |-> "has failed", error |-> Strip(stdout, "N")]
         [] returncode = 128 + SIGKILL ->
              [msg |-> "timed out or ran out of memory", error |-> <<>>]
         [] returncode = 255 ->
              [msg |-> "has failed", error |-> <<"A fatal NsJail error occurred">>]
         [] returncode - 128 \in SignalNumbers ->
              [msg |-> "completed with return code (signal)", error |-> <<>>]
         [] OTHER ->
              [msg |-> "completed with return code", error |-> <<>>]

\* get_status_emoji, lines 123-131.
GetStatusEmoji(results) ==
    CASE Strip(results.stdout, "N") = <<>> -> ":warning:"
      [] results.returncode = 0 -> ":white_check_mark:"
      [] OTHER -> ":x:"

\* upload_output, lines 68-75: send_to_paste_service answers a link, or
\* None when the upload fails (served says whether it did).
UploadOutput(output, served) ==
    IF Len(output) > MaxPasteLen THEN "too long to upload"
    ELSE IF served THEN "link" ELSE "None"

\* Mutation: only "<!@" escaped (lines 146-147 left out).
EscapeMentionsBangOnly(output) ==
    StrReplace(output, <<"<", "!", "@">>, <<"<", "!", "@", "Z">>)

\* Lines 146-150: the zero-width space after "<@" and "<!@".
EscapeMentions(output) ==
    StrReplace(StrReplace(output, <<"<", "@">>, <<"<", "@", "Z">>),
               <<"<", "!", "@">>, <<"<", "!", "@", "Z">>)

\* Line 160: every line behind its number.
NumberLines(output) ==
    LET ls == Split(output, "N") IN [k \in 1..Len(ls) |-> <<"#">> \o ls[k]]

\* Mutation: the line limit off by one (line 164 as `lines > 11`).
TooManyLinesOffByOne(lines) == lines > LineLimit + 1

\* Line 164: more lines than the message shows.
TooManyLines(lines) == lines > LineLimit

\* format_output, lines 133-179: the text shown, the paste link, and whether
\* the full output was sent to the paste service.
FormatOutput(raw, served) ==
    LET original == StripTrailing(raw, "N")
        escaped == EscapeMentions(original)
        lines == CountOf(escaped, "N")
        numbered == IF lines > 0
                    THEN Join(Prefix(NumberLines(escaped), LineLimit + 1), "N")
                    ELSE escaped
        cut == CASE TooManyLines(lines) /\ Len(numbered) >= CharLimit ->
                      Prefix(numbered, CharLimit)
                        \o <<"N", "... (truncated - too long, too many lines)">>
                 [] TooManyLines(lines) ->
                      numbered \o <<"N", "... (truncated - too many lines)">>
                 [] Len(numbered) >= CharLimit ->
                      Prefix(numbered, CharLimit)
                        \o <<"N", "... (truncated - too long)">>
                 [] OTHER -> numbered
        truncated == TooManyLines(lines) \/ Len(numbered) >= CharLimit
    IN IF HasEscapeRun(escaped)
       THEN [text |-> <<"Code block escape attempt detected; will not output result">>,
             link |-> UploadOutput(original, served), uploaded |-> TRUE]
       ELSE [text |-> IF cut = <<>> THEN <<"[No output]">> ELSE cut,
             link |-> IF truncated THEN UploadOutput(original, served) ELSE "None",
             uploaded |-> truncated]

\* get_time, lines 220-235: the output and the timing line of a timeit job
\* (None, like "", is the empty sequence).
GetTime(results) ==
    LET output == Strip(results.stdout, "N")
        nl == {k \in 1..Len(output) : output[k] = "N"}
    IN IF results.returncode # 0 THEN [output |-> output, time |-> <<>>]
       ELSE IF nl = {} THEN [output |-> <<>>, time |-> output]
       ELSE LET k == Max(nl)
            IN [output |-> SubSeq(output, 1, k - 1),
                time |-> SubSeq(output, k, Len(output))]

\* Lines 197-199 and 258-264: the message, with the code block of the
\* output, the Time block and the paste link.
Message(icon, msg, output, time, link) ==
    <<"MENTION", icon, msg, ".", "N", "N">> \o Fence \o <<"N">> \o output
    \o <<"N">> \o Fence
    \o (IF time # <<>> THEN <<"N", "Time:", "N">> \o Fence \o time \o Fence ELSE <<>>)
    \o (IF link # "None" THEN <<"N", "Full output: ", link>> ELSE <<>>)

\* send_eval, lines 188-199: the message posted for results.
EvalMessage(results, served) ==
    LET rm == GetResultsMessage(results)
        f == IF rm.error # <<>> THEN [text |-> rm.error, link |-> "None"]
             ELSE FormatOutput(results.stdout, served)
    IN Message(GetStatusEmoji(results), rm.msg, f.text, <<>>, f.link)

\* send_timeit, lines 248-264.
TimeitMessage(results, served) ==
    LET rm == GetResultsMessage(results)
        t == GetTime(results)
        f == IF rm.error # <<>> THEN [text |-> rm.error, link |-> "None"]
             ELSE FormatOutput(t.output, served)
    IN Message(GetStatusEmoji(results), rm.msg, f.text, t.time, f.link)

-----------------------------------------------------------------------------
(* Properties of the text posted.                                          *)

\* The code fences Discord sees in a message: maximal runs of three or more
\* characters of the escape class.
FenceRuns(s) ==
    Cardinality({k \in 1..Len(s) - 2 :
                   /\ {s[k], s[k + 1], s[k + 2]} \subseteq EscapeChars
                   /\ (k = 1 \/ s[k - 1] \notin EscapeChars)})

\* A user or nickname mention, <@id> or <@!id>, that Discord would ping.
LiveMention(s) ==
    \E k \in 1..Len(s) - 2 :
        s[k] = "<" /\ s[k + 1] = "@" /\ s[k + 2] \in {"d", "!"}

Notices == {"... (truncated - too long, too many lines)",
            "... (truncated - too many lines)", "... (truncated - too long)",
            "Code block escape attempt detected; will not output result"}

\* format_output (lines 142-177) shows the whole output, every line behind
\* its number, or ends the text with a notice and hands the full output to
\* upload_output: no line or character is dropped without a word.
ShownOrNoticed(o, served) ==
    LET f == FormatOutput(o, served)
        e == EscapeMentions(StripTrailing(o, "N"))
        whole == IF CountOf(e, "N") > 0 THEN Join(NumberLines(e), "N") ELSE e
    IN \/ f.text = whole
       \/ whole = <<>> /\ f.text = <<"[No output]">>
       \/ f.uploaded /\ Last(f.text) \in Notices

\* A message has exactly the fences the bot writes (two per code block) and
\* no mention but the author's.
Intact(m, blocks) == FenceRuns(m) = 2 * blocks /\ ~LiveMention(m)

\* The three facts over every results dict.  Constant-level: TLC evaluates
\* each once.
AllOutputsShownOrNoticed ==
    \A o \in Stdouts, served \in BOOLEAN : ShownOrNoticed(o, served)

\* send_eval (lines 188-199): the zero-width spaces of lines 146-150 and the
\* escape check of line 152 keep the output inside its one code block.
AllEvalMessagesIntact ==
    \A r \in Results, served \in BOOLEAN : Intact(EvalMessage(r, served), 1)

\* send_timeit (lines 248-264): the code block of the output, and the Time
\* block when there is a time.
AllTimeitMessagesIntact ==
    \A r \in Results, served \in BOOLEAN :
        Intact(TimeitMessage(r, served), IF GetTime(r).time # <<>> THEN 2 ELSE 1)

====
