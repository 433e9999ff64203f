------------------------------- MODULE Lexer -------------------------------
(***************************************************************************)
(* The lexer of crates/lexer/src/lib.rs: from characters to tokens.        *)
(*                                                                         *)
(* A text is a sequence of symbols.  Each special character is a symbol;   *)
(* a run of ordinary characters that nothing tells apart is one symbol: a  *)
(* name, a number, a pattern, "[[" and "]]".  "NL" is a newline, "TAB" a   *)
(* tab.  What a scan puts into the word it builds is the text it passes,   *)
(* less escaped newlines, so a scan is modelled by where it stops.         *)
(***************************************************************************)
EXTENDS Integers, Sequences, SequencesExt, FiniteSets

CONSTANT posix_mode

Digits == {"1", "2"}
Blanks == {" ", "TAB"}
Spaces == Blanks \cup {"NL"}
Special == {"'", "\"", "BQ", "\\", "$", "(", ")", "{", "}", "[", "]", "#", "<", ">", "|", "&",
            ";", "-", "!", "=", "+", "*", "@", "==", "-n", "-z", "-p", "--", "[[", "]]", "End"}
is_word_metacharacter(c) == c \in Spaces \cup {"|", "&", ";", "<", ">", "(", ")"}
is_name_start(c) == c \notin Special \cup Spaces \cup Digits
is_name_byte(c) == is_name_start(c) \/ c \in Digits

At(t, i) == IF i >= 1 /\ i <= Len(t) THEN t[i] ELSE "End"
Past(t, i, c) == IF At(t, i) = c THEN i + 1 ELSE i
Escaped(t, i) == IF i < Len(t) THEN i + 2 ELSE i + 1
NextOf(t, i, set) ==
    CHOOSE e \in i .. Len(t) + 1 :
        /\ e > Len(t) \/ t[e] \in set
        /\ \A h \in i .. e - 1 : t[h] \notin set
NextNotOf(t, i, set) ==
    CHOOSE e \in i .. Len(t) + 1 :
        /\ e > Len(t) \/ t[e] \notin set
        /\ \A h \in i .. e - 1 : t[h] \in set
EndOfLine(t, i) == NextOf(t, i, {"NL"})

\* The last symbol before i that is not a space; "End" if there is none.
previous_significant_byte(t, i) ==
    LET before == {h \in 1 .. i - 1 : t[h] \notin Spaces}
    IN  IF before = {} THEN "End" ELSE t[CHOOSE h \in before : \A g \in before : g <= h]

line_continuation_len(t, i) == IF At(t, i) = "\\" /\ At(t, i + 1) = "NL" THEN 2 ELSE 0

----------------------------------------------------------------------------
(***************************************************************************)
(* Quotes, expansions and substitutions inside a word.  A scan starts      *)
(* after what opens it and stops at what closes it, or past the end.       *)
(***************************************************************************)
RECURSIVE UntilQuote(_, _, _)
UntilQuote(t, i, quote) ==
    LET e == NextOf(t, i, {quote, "\\"})
    IN  IF At(t, e) = "\\" THEN UntilQuote(t, Escaped(t, e), quote) ELSE e

\* Past a quoted part in which a backslash escapes, from its opening quote.
Quoted(t, i) == Past(t, UntilQuote(t, i + 1, t[i]), t[i])
SingleQuoted(t, i) == Past(t, NextOf(t, i + 1, {"'"}), "'")

\* Brackets or parentheses of arithmetic.
RECURSIVE Arithmetic(_, _, _, _, _)
Arithmetic(t, i, open, close, depth) ==
    LET c == At(t, i)
        on(j, d) == Arithmetic(t, j, open, close, d)
    IN  IF i > Len(t) \/ (c = close /\ depth = 1) THEN i
        ELSE CASE c = open  -> on(i + 1, depth + 1)
               [] c = close -> on(i + 1, depth - 1)
               [] c = "\\"  -> on(Escaped(t, i), depth)
               [] c \in {"'", "\"", "BQ"} -> on(Quoted(t, i), depth)
               [] OTHER -> on(i + 1, depth)

scan_legacy_arith(t, i) == Arithmetic(t, i, "[", "]", 1)
scan_dparen(t, i) == Arithmetic(t, i, "(", ")", 1)

\* What "$((" opens: arithmetic up to end, a substitution, or neither.
RECURSIVE DParen(_, _, _)
DParen(t, i, depth) ==
    LET c == At(t, i)
        j == NextNotOf(t, i + 1, Blanks)
    IN  CASE i > Len(t) -> [is |-> "missing", end |-> i]
          [] c = "\\" /\ i < Len(t) -> DParen(t, i + 2, depth)
          [] c \in {"'", "\"", "BQ"} -> DParen(t, Quoted(t, i), depth)
          [] c = "(" -> DParen(t, i + 1, depth + 1)
          [] c = ")" /\ depth > 1 -> DParen(t, i + 1, depth - 1)
          [] c = ")" /\ depth = 1 ->
                 IF At(t, i + 1) = ")" THEN [is |-> "arithmetic", end |-> i + 2]
                 ELSE IF At(t, j) \in {"End", ")", "NL", ";", "&", "|"}
                      THEN [is |-> "substitution", end |-> i]
                      ELSE [is |-> "missing", end |-> i]
          [] OTHER -> DParen(t, i + 1, depth)

arith_dparen_scan(t, i) == DParen(t, i, 1)

current_subst_starts_here(t, i) == At(t, i) \in Spaces \cup {"|"}

RECURSIVE scan_double_quoted(_, _), scan_dollar(_, _, _), BraceBody(_, _, _, _),
          scan_parameter_brace(_, _, _), BalancedRest(_, _, _, _, _, _),
          scan_double_quoted_in_balanced_pair(_, _), SubstitutionRest(_, _, _)

scan_balanced_pair(t, i, open, close) == BalancedRest(t, i, open, close, 1, TRUE)
scan_current_subst_brace(t, i, double) == BraceBody(t, Past(t, i, "|"), 0, double)
scan_command_substitution(t, i) ==
    SubstitutionRest(t, i, [depth |-> 1, cases |-> 0, comment |-> TRUE, docs |-> <<>>,
                            bol |-> FALSE])
Backquoted(t, i) == Past(t, scan_balanced_pair(t, i + 1, "BQ", "BQ"), "BQ")
DoubleQuoted(t, i) == Past(t, scan_double_quoted(t, i + 1), "\"")
Braced(t, i, double) ==
    IF current_subst_starts_here(t, i) THEN scan_current_subst_brace(t, i, double)
    ELSE scan_parameter_brace(t, i, double)

scan_double_quoted(t, i) ==
    LET e == NextOf(t, i, {"\"", "\\", "$", "BQ"})
        c == At(t, e)
    IN  CASE c = "\\" -> scan_double_quoted(t, Escaped(t, e))
          [] c = "$"  -> scan_double_quoted(t, scan_dollar(t, e + 1, TRUE))
          [] c = "BQ"  -> scan_double_quoted(t, Backquoted(t, e))
          [] OTHER    -> e

\* Past what follows a dollar sign.
scan_dollar(t, i, double) ==
    LET c == At(t, i)
        inner == arith_dparen_scan(t, i + 2)
    IN  CASE c = "(" /\ At(t, i + 1) # "(" ->
                 Past(t, scan_command_substitution(t, i + 1), ")")
          [] c = "(" /\ At(t, i + 1) = "(" ->
                 IF inner.is = "arithmetic" THEN inner.end
                 ELSE IF inner.is = "substitution"
                      THEN Past(t, scan_command_substitution(t, i + 1), ")")
                      ELSE Past(t, Past(t, scan_dparen(t, i + 2), ")"), ")")
          [] c = "{" -> Past(t, Braced(t, i + 1, double), "}")
          [] c = "[" -> Past(t, scan_legacy_arith(t, i + 1), "]")
          [] c = "'" /\ ~double -> Quoted(t, i)
          [] c = "\"" /\ ~double -> DoubleQuoted(t, i)
          [] OTHER -> i

BraceBody(t, i, depth, double) ==
    LET c == At(t, i)
        on(j, d) == BraceBody(t, j, d, double)
    IN  IF i > Len(t) \/ (c = "}" /\ depth = 0) THEN i
        ELSE CASE c = "}"  -> on(i + 1, depth - 1)
               [] c = "{"  -> on(i + 1, depth + 1)
               [] c = "\\" -> on(Escaped(t, i), depth)
               [] c = "$"  -> on(scan_dollar(t, i + 1, double), depth)
               [] c \in {"'", "\"", "BQ"} -> on(Quoted(t, i), depth)
               [] OTHER -> on(i + 1, depth)

scan_parameter_brace(t, i, double) ==
    LET literal == double /\ posix_mode
        e == NextOf(t, i, {"}", "\\", "$", "\"", "BQ"} \cup (IF literal THEN {} ELSE {"'"}))
        c == At(t, e)
        on(j) == scan_parameter_brace(t, j, double)
    IN  CASE c = "\\" -> on(Escaped(t, e))
          [] c = "$"  -> on(scan_dollar(t, e + 1, double))
          [] c = "'"  -> on(SingleQuoted(t, e))
          [] c = "\"" -> on(Quoted(t, e))
          [] c = "BQ"  -> on(Backquoted(t, e))
          [] OTHER    -> e

\* start: at the start of a word, where "#" opens a comment.
BalancedRest(t, i, open, close, depth, start) ==
    LET c == At(t, i)
        on(j, d, s) == BalancedRest(t, j, open, close, d, s)
        brace == Braced(t, i + 2, FALSE)
    IN  IF i > Len(t) THEN i
        ELSE CASE c \in Spaces -> on(i + 1, depth, TRUE)
               [] c = "#" /\ start -> on(EndOfLine(t, i), depth, start)
               [] c = open /\ open # close -> on(i + 1, depth + 1, FALSE)
               [] c = close -> IF depth = 1 THEN i ELSE on(i + 1, depth - 1, FALSE)
               [] c = "\\" -> on(Escaped(t, i), depth, FALSE)
               [] c = "$" /\ At(t, i + 1) = "(" ->
                      on(Past(t, scan_balanced_pair(t, i + 2, "(", ")"), ")"), depth, FALSE)
               [] c = "$" /\ At(t, i + 1) = "{" ->
                      on(IF brace <= Len(t) THEN brace + 1 ELSE brace, depth, FALSE)
               [] c = "'" -> on(SingleQuoted(t, i), depth, FALSE)
               [] c = "\"" ->
                      on(Past(t, scan_double_quoted_in_balanced_pair(t, i + 1), "\""), depth, FALSE)
               [] OTHER -> on(i + 1, depth, FALSE)

\* Past the "(...)" after a dollar sign that is itself inside a balanced pair.
scan_dollar_in_balanced_pair(t, i) ==
    IF At(t, i) = "(" THEN Past(t, scan_balanced_pair(t, i + 1, "(", ")"), ")") ELSE i

scan_double_quoted_in_balanced_pair(t, i) ==
    LET e == NextOf(t, i, {"\"", "\\", "$", "BQ"})
        c == At(t, e)
        on(j) == scan_double_quoted_in_balanced_pair(t, j)
    IN  CASE c = "\\" -> on(Escaped(t, e))
          [] c = "$" /\ At(t, e + 1) = "{" -> on(Past(t, Braced(t, e + 2, TRUE), "}"))
          [] c = "$" /\ At(t, e + 1) # "{" -> on(scan_dollar_in_balanced_pair(t, e + 1))
          [] c = "BQ"  -> on(Backquoted(t, e))
          [] OTHER    -> e

----------------------------------------------------------------------------
(***************************************************************************)
(* Command substitutions: parentheses are counted, and case patterns,      *)
(* comments and here-documents do not count.                               *)
(***************************************************************************)
\* The delimiter of a here-document, without its quotes, from i.
RECURSIVE Delimiter(_, _, _, _)
Delimiter(t, i, d, quote) ==
    LET c == At(t, i)
    IN  IF i > Len(t) THEN [end |-> i, d |-> d]
        ELSE CASE quote # "" ->
                      Delimiter(t, i + 1, IF c = quote THEN d ELSE Append(d, c),
                                IF c = quote THEN "" ELSE quote)
               [] quote = "" /\ c \in {"'", "\""} -> Delimiter(t, i + 1, d, c)
               [] quote = "" /\ c = "\\" ->
                      IF At(t, i + 1) \in {"NL", "End"} THEN Delimiter(t, Escaped(t, i), d, "")
                      ELSE Delimiter(t, i + 2, Append(d, t[i + 1]), "")
               [] quote = "" /\ is_word_metacharacter(c) -> [end |-> i, d |-> d]
               [] OTHER -> Delimiter(t, i + 1, Append(d, c), "")

\* Past the redirection whose "<<" is at i, and the here-documents with its own.
scan_heredoc_redirect(t, i, docs) ==
    LET tabs == At(t, i + 2) = "-"
        read == Delimiter(t, NextNotOf(t, Past(t, i + 2, "-"), Blanks), <<>>, "")
        d == IF tabs THEN SubSeq(read.d, NextNotOf(read.d, 1, {"TAB"}), Len(read.d)) ELSE read.d
    IN  [end |-> read.end, docs |-> IF d = <<>> THEN docs
                                    ELSE Append(docs, [d |-> d, tabs |-> tabs])]

\* The line of a body at i, less the tabs that do not count.
Candidate(t, i, doc) ==
    SubSeq(t, IF doc.tabs THEN NextNotOf(t, i, {"TAB"}) ELSE i, EndOfLine(t, i) - 1)

LineAfter(t, i) == Past(t, EndOfLine(t, i), "NL")
LeftOf(docs, line) == IF line = Head(docs).d THEN Tail(docs) ELSE docs

\* Where in a line the parenthesis after a delimiter is; 0 if it is not there.
heredoc_delimiter_closing_paren(line, d) ==
    LET j == NextNotOf(line, Len(d) + 1, Blanks)
    IN  IF Len(d) <= Len(line) /\ SubSeq(line, 1, Len(d)) = d /\ At(line, j) = ")" THEN j ELSE 0

RECURSIVE scan_command_substitution_trailing_heredocs(_, _, _)
scan_command_substitution_trailing_heredocs(t, i, docs) ==
    IF i > Len(t) \/ docs = <<>> THEN i
    ELSE scan_command_substitution_trailing_heredocs(
             t, LineAfter(t, i), LeftOf(docs, Candidate(t, i, Head(docs))))

NameEnd(t, i) == CHOOSE e \in i .. Len(t) + 1 :
                     /\ ~is_name_byte(At(t, e))
                     /\ \A h \in i .. e - 1 : is_name_byte(t[h])
IsNameAt(t, i, name) == At(t, i) = name /\ NameEnd(t, i) = i + 1

SubstitutionRest(t, i, s) ==
    LET c == At(t, i)
        on(j, comment) == SubstitutionRest(t, j, [s EXCEPT !.bol = FALSE, !.comment = comment])
        deeper(d) == SubstitutionRest(t, i + 1, [s EXCEPT !.bol = FALSE, !.comment = TRUE,
                                                          !.depth = @ + d])
        line == Candidate(t, i, Head(s.docs))
        close == heredoc_delimiter_closing_paren(line, Head(s.docs).d)
        doc == scan_heredoc_redirect(t, i, s.docs)
        opens == IsNameAt(t, i, "case") /\ s.comment
        closes == /\ IsNameAt(t, i, "esac") /\ s.comment /\ s.cases > 0
                  /\ previous_significant_byte(t, i) \notin {"|", "("}
    IN  IF i > Len(t) THEN i
        ELSE IF s.bol /\ s.docs # <<>>
        THEN IF s.depth = 1 /\ close > 0 THEN EndOfLine(t, i) - Len(line) + close
             ELSE SubstitutionRest(t, LineAfter(t, i),
                                   [s EXCEPT !.docs = LeftOf(@, line), !.comment = TRUE])
        ELSE CASE c = "NL" -> SubstitutionRest(t, i + 1, [s EXCEPT !.comment = TRUE, !.bol = TRUE])
               [] c = "#" /\ s.comment -> on(EndOfLine(t, i), TRUE)
               [] c = "\\" -> on(Escaped(t, i), FALSE)
               [] c = "'" -> on(SingleQuoted(t, i), FALSE)
               [] c = "\"" -> on(DoubleQuoted(t, i), FALSE)
               [] c = "BQ" -> on(Quoted(t, i), FALSE)
               [] c = "$" /\ At(t, i + 1) = "'" -> on(SingleQuoted(t, i + 1), FALSE)
               [] c = "<" /\ At(t, i + 1) = "<" ->
                      SubstitutionRest(t, doc.end, [s EXCEPT !.bol = FALSE, !.comment = FALSE,
                                                             !.docs = doc.docs])
               [] is_name_start(c) ->
                      SubstitutionRest(t, NameEnd(t, i),
                          [s EXCEPT !.bol = FALSE, !.comment = FALSE,
                                    !.cases = @ + (IF opens THEN 1 ELSE IF closes THEN -1 ELSE 0)])
               [] c = "(" -> deeper(1)
               [] c = ")" -> IF s.depth > 1 THEN deeper(-1)
                             ELSE IF s.cases > 0 THEN on(i + 1, TRUE)
                             ELSE IF s.docs = <<>> THEN i
                             ELSE scan_command_substitution_trailing_heredocs(
                                      t, Past(t, i + 1, "NL"), s.docs)
               [] OTHER -> on(i + 1, c \in Blanks \cup {"|", "&", ";", "<", ">"})

----------------------------------------------------------------------------
(***************************************************************************)
(* Tokens.  A token has a kind, the word it stands for ("" for operators), *)
(* its text, the offsets where it starts and ends, and flags of the word.  *)
(***************************************************************************)
Operators ==
    {";", "&", "&&", "||", "|", "|&", "(", ")", "((", "))", ";;", ";&", ";;&", "<", ">", "<<",
     "<<-", "<<<", ">>", ">|", "<&", ">&", "&>", "&>>", "<>", "{", "}", "[[", "]]"}

is_reserved_word_text(x) ==
    x \in {"if", "then", "else", "elif", "fi", "case", "esac", "for", "select", "while",
           "until", "do", "done", "function", "coproc", "in"}

Starters ==
    {"none", "NL", ";", "&", "&&", "||", "|", "|&", "(", ")", "{", "}", ";;", ";&", ";;&",
     "((", "))", "]]", "!", "time", "time-p", "time--"}

at_word_start(l) == l.reserved \/ l.named \/ l.last \in Starters

brace_can_close(l) ==
    l.reserved \/ l.last \in {"none", "NL", ";", "&", ")", "))", "}", "]]"}

Token(k, x, raw, at, to) == [k |-> k, x |-> x, raw |-> raw, at |-> at, to |-> to, flags |-> {}]

\* The text from i to j, less escaped newlines.
Joined(t, i, j) ==
    LET text[h \in i - 1 .. j] ==
            IF h < i THEN ""
            ELSE IF line_continuation_len(t, h) = 2 \/ (h > i /\ line_continuation_len(t, h - 1) = 2)
                 THEN text[h - 1] ELSE text[h - 1] \o t[h]
    IN  text[j]

emit_simple(l, k, to) ==
    [l EXCEPT !.out = Append(@, Token(k, "", Joined(l.in, l.at + 1, to), l.at, to)),
              !.at = to, !.last = k, !.reserved = FALSE, !.named = FALSE,
              !.cond = (k = "[[") \/ (@ /\ k # "]]")]

\* The length of the operator at i, 0 if there is none.
OperatorLen(l, i) ==
    LET is(n) == LET x == Joined(l.in, i, i + n - 1)
                 IN  /\ i + n - 1 <= Len(l.in)
                     /\ x \in Operators
                     /\ x \in {"((", "))"} => ~l.cond
                     /\ x \in {"[[", "{"} => at_word_start(l)
                     /\ x = "]]" => l.cond
                     /\ x = "}" => brace_can_close(l)
    IN  IF is(3) THEN 3 ELSE IF is(2) THEN 2 ELSE IF is(1) THEN 1 ELSE 0

starts_with_proc_subst(t, i) == At(t, i) \in {"<", ">"} /\ At(t, i + 1) = "("
starts_with_extglob_pattern(l, i) ==
    l.extglob /\ At(l.in, i) \in {"@", "+", "*", "!"} /\ At(l.in, i + 1) = "("
starts_with_redir_word(t, i) ==
    /\ At(t, i) = "{" /\ is_name_start(At(t, i + 1))
    /\ At(t, NameEnd(t, i + 1)) = "}" /\ At(t, NameEnd(t, i + 1) + 1) \in {"<", ">"}

is_valid_name(t, i, j) ==
    i <= j /\ is_name_start(t[i]) /\ \A h \in i .. j : is_name_byte(t[h])

\* w.eq: an assignment's "=" was seen; w.ref: a subscript; w.name: what is before
\* the "=" is a name.
RECURSIVE WordRest(_, _, _, _)
WordRest(l, from, i, w) ==
    LET t == l.in
        c == At(t, i)
        pair(j, open, close) == Past(t, scan_balanced_pair(t, j, open, close), close)
        on(j, flags) == WordRest(l, from, j, [w EXCEPT !.flags = @ \cup flags])
        lhs == ~w.eq /\ (is_valid_name(t, from, i - 1) \/ w.ref)
        assigned(j, name) ==
            WordRest(l, from, IF At(t, j) = "(" THEN pair(j + 1, "(", ")") ELSE j,
                     [w EXCEPT !.eq = TRUE, !.name = name,
                               !.flags = @ \cup IF At(t, j) = "(" THEN {"compound"} ELSE {}])
    IN  IF i <= Len(t) /\ (starts_with_extglob_pattern(l, i) \/ starts_with_proc_subst(t, i))
        THEN on(pair(i + 2, "(", ")"), IF c \in {"<", ">"} THEN {"dollar"} ELSE {})
        ELSE IF i > Len(t) \/ is_word_metacharacter(c) THEN [w EXCEPT !.end = i]
        ELSE CASE c = "\\" -> IF line_continuation_len(t, i) = 2 THEN on(i + 2, {})
                              ELSE on(Escaped(t, i), {"quoted"})
               [] c = "'" -> on(SingleQuoted(t, i), {"quoted"})
               [] c = "\"" -> on(DoubleQuoted(t, i), {"quoted"})
               [] c = "$" -> on(scan_dollar(t, i + 1, FALSE),
                                {"dollar"} \cup IF At(t, i + 1) \in {"'", "\""} THEN {"quoted"} ELSE {})
               [] c = "BQ" -> on(Backquoted(t, i), {"dollar"})
               [] c = "+" /\ At(t, i + 1) = "=" /\ lhs -> assigned(i + 2, w.ref)
               [] c = "=" /\ lhs -> assigned(i + 1, TRUE)
               [] c = "[" /\ ~w.eq /\ is_valid_name(t, from, i - 1) ->
                      WordRest(l, from, pair(i + 1, "[", "]"),
                               [w EXCEPT !.ref = TRUE, !.flags = @ \cup {"arrayref"}])
               [] OTHER -> on(i + 1, {})

lex_word_or_number(l0) ==
    LET l == [l0 EXCEPT !.keyword = FALSE, !.named = FALSE]
        w == WordRest(l, l.at + 1, l.at + 1,
                      [eq |-> FALSE, ref |-> FALSE, name |-> FALSE, flags |-> {}, end |-> 0])
        to == w.end - 1
        x == Joined(l.in, l.at + 1, to)
        starts == w.flags = {} /\ at_word_start(l)
        text(k) == [l EXCEPT !.out = Append(@, [Token(k, x, x, l.at, to) EXCEPT !.flags = w.flags]),
                             !.at = to, !.last = k]
        untimed == [text("word") EXCEPT !.timed = FALSE]
    IN  CASE x = "" -> [text("word") EXCEPT !.at = @ + 1]
          [] x # "" /\ w.eq /\ w.name -> text("assign")
          [] w.flags = {} /\ \A h \in l.at + 1 .. to : l.in[h] \in Digits -> text("number")
          [] x = "!" /\ starts -> emit_simple(l, "!", to)
          [] x = "time" /\ starts -> [emit_simple(l, "time", to) EXCEPT !.timed = TRUE]
          [] w.flags = {} /\ l.timed /\ x \in {"-p", "--"} ->
                 [emit_simple(l, "time" \o x, to) EXCEPT !.timed = FALSE]
          [] is_reserved_word_text(x) /\ starts ->
                 [untimed EXCEPT !.reserved = TRUE, !.keyword = (x = "function")]
          [] OTHER -> [untimed EXCEPT !.reserved = FALSE, !.named = l0.keyword]

RECURSIVE skip_whitespace_and_comments(_, _)
skip_whitespace_and_comments(l, i) ==
    LET e == NextNotOf(l.in, i, Blanks)
    IN  IF At(l.in, e) = "#" /\ l.comments /\ (e > i \/ at_word_start(l))
        THEN skip_whitespace_and_comments(l, EndOfLine(l.in, e))
        ELSE IF line_continuation_len(l.in, e) = 2 THEN skip_whitespace_and_comments(l, e + 2)
        ELSE e

next_token(l0) ==
    LET i == skip_whitespace_and_comments(l0, l0.at + 1)
        l == [l0 EXCEPT !.at = i - 1]
        n == OperatorLen(l, i)
    IN  IF i > Len(l.in) THEN [emit_simple(l, "End", l.at) EXCEPT !.done = TRUE]
        ELSE IF At(l.in, i) = "NL" THEN emit_simple(l, "NL", i)
        ELSE IF starts_with_proc_subst(l.in, i) \/ starts_with_redir_word(l.in, i) \/ n = 0
        THEN lex_word_or_number(l)
        ELSE emit_simple(l, Joined(l.in, i, i + n - 1), i + n - 1)

RECURSIVE TokensFrom(_)
TokensFrom(l) ==
    IF l.done THEN l.out ELSE CHOOSE r \in {TokensFrom(n) : n \in {next_token(l)}} : TRUE

\* The tokens of the text from offset at on.
Tokens(t, at, extglob, comments) ==
    TokensFrom([in |-> t, at |-> at, done |-> FALSE, out |-> <<>>, last |-> "none",
                reserved |-> FALSE, named |-> FALSE, keyword |-> FALSE, timed |-> FALSE,
                cond |-> FALSE, extglob |-> extglob, comments |-> comments])

============================================================================
