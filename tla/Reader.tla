------------------------------- MODULE Reader -------------------------------
(***************************************************************************)
(* How the reader loop of crates/shell/src/reader_loop gathers lines into  *)
(* one command: after each line a series of probes decide whether more is  *)
(* needed, and the parser is tried last.  The probes are separate scanners *)
(* of the same text; what they share is ProbeStep, and `what` says where   *)
(* they differ.  No aliases are defined and history expansion is off.      *)
(***************************************************************************)
EXTENDS Parser

\* Past the closing symbol when the scan found it; 0 where the code has None.
Closed(t, e, c) == IF At(t, e) = c THEN e + 1 ELSE 0
skip_single_quoted_for_probe(t, i) == Closed(t, NextOf(t, i + 1, {"'"}), "'")
skip_simple_quoted_for_probe(t, i, quote) == Closed(t, UntilQuote(t, i + 1, quote), quote)
skip_ansi_c_quoted_for_probe(t, i) == Closed(t, UntilQuote(t, i, "'"), "'")
skip_backtick_body(t, i) == Closed(t, UntilQuote(t, i + 1, "BQ"), "BQ")

current_subst_probe_starts(t, i) == At(t, i) \in Spaces \cup {"|"}

probe_name_is_reserved(t, i) ==
    i = 1 \/ t[i - 1] \in Spaces \cup {";", "&", "|", "(", ")", "{", "}"}
probe_name_is_case_terminator(t, i) ==
    probe_name_is_reserved(t, i) /\ previous_significant_byte(t, i) \notin {"|", "("}

skip_arithmetic_substitution_for_parse(t, i) ==
    LET scan == arith_dparen_scan(t, i) IN IF scan.is = "arithmetic" THEN scan.end ELSE 0
command_substitution_is_arithmetic(t, i) ==
    /\ At(t, i) = "$" /\ At(t, i + 1) = "(" /\ At(t, i + 2) = "("
    /\ skip_arithmetic_substitution_for_parse(t, i + 3) # 0

RECURSIVE skip_parameter_brace_for_probe(_, _, _, _), Balanced(_, _, _, _),
          skip_double_quoted_for_parse(_, _), Probe(_, _, _)

ProbeState(i, depth) ==
    [i |-> i, depth |-> depth, cases |-> 0, quote |-> "", docs |-> <<>>, bol |-> FALSE,
     comment |-> TRUE, is |-> "", at |-> 0]

\* Past the command substitution whose body starts at i.
skip_command_substitution_for_probe(t, i) ==
    LET end == Probe(t, ProbeState(i, 1), "skip") IN IF end.is = "closed" THEN end.i ELSE 0

\* Up to the close of a brace or of a compound assignment; kind says which scan.
skip_current_subst_brace_for_probe(t, i) == Balanced(t, Past(t, i, "|"), "current", 0)
skip_compound_assignment_body(t, i) == Balanced(t, i, "assignment", 0)

Balanced(t, i, kind, depth) ==
    LET c == At(t, i)
        d == At(t, i + 1)
        open == IF kind = "current" THEN "{" ELSE "("
        close == IF kind = "current" THEN "}" ELSE ")"
        on(j) == IF j = 0 THEN 0 ELSE Balanced(t, j, kind, depth)
        brace == IF kind = "current" /\ current_subst_probe_starts(t, i + 2)
                 THEN skip_current_subst_brace_for_probe(t, i + 2)
                 ELSE skip_parameter_brace_for_probe(t, i + 2, FALSE, 1)
    IN  IF i > Len(t) THEN 0
        ELSE IF c = "$" /\ d \in {"'", "{", "("}
        THEN CASE d = "'" -> on(skip_ansi_c_quoted_for_probe(t, i + 2))
               [] d = "{" -> on(brace)
               [] d = "(" -> on(skip_command_substitution_for_probe(t, i + 2))
        ELSE CASE c = "\\" -> on(Escaped(t, i))
               [] c = "'" -> on(skip_single_quoted_for_probe(t, i))
               [] c \in {"\"", "BQ"} -> on(skip_simple_quoted_for_probe(t, i, c))
               [] c = open -> Balanced(t, i + 1, kind, depth + 1)
               [] c = close -> IF depth = 0 THEN i + 1 ELSE Balanced(t, i + 1, kind, depth - 1)
               [] OTHER -> on(i + 1)

skip_parameter_brace_for_probe(t, i, posix_single_quote, depth) ==
    LET c == At(t, i)
        d == At(t, i + 1)
        deep(j, n) == skip_parameter_brace_for_probe(t, j, posix_single_quote, n)
        on(j) == IF j = 0 THEN 0 ELSE deep(j, depth)
    IN  IF i > Len(t) THEN 0
        ELSE IF c = "$" /\ d \in {"'", "{", "("}
        THEN CASE d = "'" -> on(skip_ansi_c_quoted_for_probe(t, i + 2))
               [] d = "{" -> IF current_subst_probe_starts(t, i + 2)
                             THEN on(skip_current_subst_brace_for_probe(t, i + 2))
                             ELSE deep(i + 2, depth + 1)
               [] d = "(" -> on(skip_command_substitution_for_probe(t, i + 2))
        ELSE CASE c = "\\" -> on(Escaped(t, i))
               [] c = "'" /\ ~posix_single_quote -> on(skip_single_quoted_for_probe(t, i))
               [] c = "\"" -> on(skip_simple_quoted_for_probe(t, i, c))
               [] c = "}" -> IF depth = 1 THEN i + 1 ELSE deep(i + 1, depth - 1)
               [] OTHER -> on(i + 1)

skip_double_quoted_for_parse(t, i) ==
    LET e == NextOf(t, i, {"\\", "$", "BQ", "\""})
        c == At(t, e)
        d == At(t, e + 1)
        on(j) == IF j = 0 THEN 0 ELSE skip_double_quoted_for_parse(t, j)
    IN  CASE c = "\\" -> on(Escaped(t, e))
          [] c = "$" -> on(IF d = "(" /\ command_substitution_is_arithmetic(t, e)
                           THEN skip_arithmetic_substitution_for_parse(t, e + 3)
                           ELSE IF d = "(" THEN skip_command_substitution_for_probe(t, e + 2)
                           ELSE IF d = "{" THEN skip_parameter_brace_for_probe(t, e + 2, FALSE, 1)
                           ELSE e + 1)
          [] c = "BQ" -> on(skip_backtick_body(t, e))
          [] OTHER -> Closed(t, e, "\"")

skip_quoted_for_parse(t, i) ==
    CASE t[i] = "\"" -> skip_double_quoted_for_parse(t, i + 1)
      [] t[i] = "'"  -> skip_single_quoted_for_probe(t, i)
      [] t[i] = "BQ" -> skip_backtick_body(t, i)

----------------------------------------------------------------------------
(***************************************************************************)
(* One step of a probe.  what is the scanner:                              *)
(*   "continuation"  has_trailing_line_continuation                        *)
(*   "quotes"        has_open_quotes                                       *)
(*   "substitution"  has_unclosed_command_substitution                     *)
(*   "assignment"    has_unclosed_compound_assignment                      *)
(*   "skip"          skip_command_substitution_for_probe                   *)
(*   "extract"       extract_command_substitution_for_parse                *)
(*   "validate"      validate_command_substitutions_for_parse              *)
(* A probe stops with `is`: "end" of the text, "unclosed" when something   *)
(* nested is not closed, "closed" when its own parenthesis is, "continued" *)
(* or "joined" at an escaped newline that is or is not the last symbol,    *)
(* "body" at a command substitution to validate, "open" at an assignment.  *)
(***************************************************************************)
compound_assignment_lhs_before(t, eq) ==
    LET end == IF At(t, eq - 1) = "+" THEN eq - 1 ELSE eq
        opens == {h \in 1 .. end - 2 : t[h] = "["}
        open == CHOOSE h \in opens : \A g \in opens : g <= h
        named(from, to) ==
            /\ from < to /\ is_name_start(t[from])
            /\ \A h \in from .. to - 1 : is_name_byte(t[h])
        start == CHOOSE s \in 1 .. end :
                     /\ s = 1 \/ ~is_name_byte(t[s - 1])
                     /\ \A h \in s .. end - 1 : is_name_byte(t[h])
    IN  IF end = 1 THEN FALSE
        ELSE IF t[end - 1] = "]" THEN opens # {} /\ named(1, open)
        ELSE named(start, end)

\* Which expansions each scanner skips whole, and where.
SkipsProcess(what) == what \in {"quotes", "skip"}
SkipsBrace(what) == what \in {"quotes", "validate"}
SkipsCurrent(what) == what = "substitution"
Counts(what, depth) ==
    what \in {"skip", "extract"} \/ (what = "substitution" /\ depth > 0)

\* Inside double quotes.
DoubleStep(t, s, what) ==
    LET i == s.i
        c == t[i]
        d == At(t, i + 1)
        to(j) == [s EXCEPT !.i = j, !.bol = FALSE]
        past(j) == IF j = 0 THEN [s EXCEPT !.is = "unclosed"] ELSE to(j)
        selective == what \in {"quotes", "validate"}
    IN  CASE c = "\\" ->
                 IF what = "continuation" /\ d = "NL"
                 THEN [s EXCEPT !.is = IF i + 1 = Len(t) THEN "continued" ELSE "joined"]
                 ELSE IF selective /\ d \notin {"\"", "\\", "$", "BQ", "NL"} THEN to(i + 1)
                      ELSE to(Escaped(t, i))
          [] c = "$" /\ d = "(" ->
                 IF what # "validate" THEN past(skip_command_substitution_for_probe(t, i + 2))
                 ELSE IF command_substitution_is_arithmetic(t, i)
                      THEN to(skip_arithmetic_substitution_for_parse(t, i + 3))
                      ELSE [s EXCEPT !.is = "body", !.at = i + 2]
          [] c \in {"<", ">"} /\ d = "(" /\ SkipsProcess(what) ->
                 past(skip_command_substitution_for_probe(t, i + 2))
          [] c = "$" /\ d = "{" /\ SkipsBrace(what) ->
                 past(skip_parameter_brace_for_probe(t, i + 2, posix_mode, 1))
          [] c = "$" /\ d = "{" /\ SkipsCurrent(what) /\ current_subst_probe_starts(t, i + 2) ->
                 past(skip_current_subst_brace_for_probe(t, i + 2))
          [] c = "BQ" -> past(skip_backtick_body(t, i))
          [] c = "\"" -> [to(i + 1) EXCEPT !.quote = ""]
          [] OTHER -> to(i + 1)

\* Inside single quotes, plain or after a dollar sign.
SingleStep(t, s, what) ==
    LET i == s.i
        to(j) == [s EXCEPT !.i = j, !.bol = FALSE]
    IN  CASE t[i] = "\\" /\ s.quote = "$'" ->
                 IF what = "continuation" /\ At(t, i + 1) = "NL"
                 THEN [s EXCEPT !.is = IF i + 1 = Len(t) THEN "continued" ELSE "joined"]
                 ELSE to(Escaped(t, i))
          [] t[i] = "'" -> [to(i + 1) EXCEPT !.quote = ""]
          [] OTHER -> to(i + 1)

\* At a dollar sign outside quotes that opens something this scanner looks at.
DollarStep(t, s, what) ==
    LET i == s.i
        d == At(t, i + 1)
        to(j, comment) == [s EXCEPT !.i = j, !.bol = FALSE, !.comment = comment]
        past(j) == IF j = 0 THEN [s EXCEPT !.is = "unclosed"] ELSE to(j, FALSE)
        quoted == skip_ansi_c_quoted_for_probe(t, i + 2)
    IN  CASE d = "'" -> IF what \in {"assignment", "extract"}
                        THEN to(IF quoted = 0 THEN Len(t) + 1 ELSE quoted, FALSE)
                        ELSE [to(i + 2, FALSE) EXCEPT !.quote = "$'"]
          [] d = "(" /\ what = "assignment" ->
                 past(skip_command_substitution_for_probe(t, i + 2))
          [] d = "(" /\ what \in {"extract", "validate"} /\ command_substitution_is_arithmetic(t, i) ->
                 to(skip_arithmetic_substitution_for_parse(t, i + 3),
                    s.comment /\ what = "validate")
          [] d = "(" /\ what = "validate" /\ ~command_substitution_is_arithmetic(t, i) ->
                 [s EXCEPT !.is = "body", !.at = i + 2]
          [] d = "(" /\ (what \in {"substitution", "skip"}
                         \/ (what = "extract" /\ ~command_substitution_is_arithmetic(t, i))) ->
                 [to(i + 2, TRUE) EXCEPT !.depth = @ + 1]
          [] d = "{" /\ SkipsCurrent(what) /\ current_subst_probe_starts(t, i + 2) ->
                 past(skip_current_subst_brace_for_probe(t, i + 2))
          [] OTHER -> to(i + 1, FALSE)

\* Parentheses and the words case and esac, where they are counted.
CountStep(t, s, what) ==
    LET i == s.i
        c == t[i]
        to(j, comment) == [s EXCEPT !.i = j, !.bol = FALSE, !.comment = comment]
    IN  CASE c = "(" -> [to(i + 1, TRUE) EXCEPT !.depth = @ + 1]
          [] c = ")" /\ s.cases > 0 /\ s.depth = 1 -> to(i + 1, TRUE)
          [] c = ")" /\ ~(s.cases > 0 /\ s.depth = 1) ->
                 IF s.depth = 1 /\ what \in {"skip", "extract"}
                 THEN [to(i + 1, TRUE) EXCEPT !.is = "closed"]
                 ELSE [to(i + 1, TRUE) EXCEPT !.depth = @ - 1]
          [] OTHER ->
                 LET e == NameEnd(t, i)
                 IN  IF e = i + 1 /\ c = "case" /\ probe_name_is_reserved(t, i)
                     THEN [to(e, FALSE) EXCEPT !.cases = @ + 1]
                     ELSE IF e = i + 1 /\ c = "esac" /\ probe_name_is_case_terminator(t, i)
                     THEN [to(e, FALSE) EXCEPT !.cases = IF @ = 0 THEN 0 ELSE @ - 1]
                     ELSE to(e, FALSE)

PlainStep(t, s, what) ==
    LET i == s.i
        c == t[i]
        d == At(t, i + 1)
        to(j, comment) == [s EXCEPT !.i = j, !.bol = FALSE, !.comment = comment]
        past(j) == IF j = 0 THEN [s EXCEPT !.is = "unclosed"] ELSE to(j, FALSE)
        whole(j) == to(IF j = 0 THEN Len(t) + 1 ELSE j, FALSE)
        doc == scan_heredoc_redirect(t, i, s.docs)
        separators == Blanks \cup {"|", "&", ";", "<", ">"}
                      \cup (IF what \in {"assignment", "extract"} THEN {} ELSE {"(", ")"})
    IN  CASE c = "\\" -> IF what = "continuation" /\ d = "NL"
                         THEN [s EXCEPT !.is = IF i + 1 = Len(t) THEN "continued" ELSE "joined"]
                         ELSE to(Escaped(t, i), FALSE)
          [] c = "#" /\ s.comment -> to(EndOfLine(t, i), TRUE)
          [] c \in {"'", "\"", "BQ"} /\ what = "extract" -> past(skip_quoted_for_parse(t, i))
          [] c = "BQ" /\ what # "extract" -> past(skip_backtick_body(t, i))
          [] c = "'" /\ what = "assignment" -> whole(skip_single_quoted_for_probe(t, i))
          [] c = "\"" /\ what = "assignment" -> whole(skip_simple_quoted_for_probe(t, i, c))
          [] c \in {"'", "\""} /\ what \notin {"assignment", "extract"} ->
                 [to(i + 1, s.comment) EXCEPT !.quote = c]
          [] c = "<" /\ d = "<" -> [to(doc.end, FALSE) EXCEPT !.docs = doc.docs]
          [] c \in {"<", ">"} /\ d = "(" /\ SkipsProcess(what) ->
                 past(skip_command_substitution_for_probe(t, i + 2))
          [] c = "$" -> DollarStep(t, s, what)
          [] (c \in {"(", ")"} \/ is_name_start(c)) /\ Counts(what, s.depth) ->
                 CountStep(t, s, what)
          [] c = "=" /\ what = "assignment" /\ d = "(" ->
                 IF compound_assignment_lhs_before(t, i) /\ skip_compound_assignment_body(t, i + 2) = 0
                 THEN [s EXCEPT !.is = "open"] ELSE to(i + 1, FALSE)
          [] OTHER -> to(i + 1, c \in separators)

ProbeStep(t, s, what) ==
    LET i == s.i
    IN  IF i > Len(t) THEN [s EXCEPT !.is = "end"]
        ELSE IF s.bol /\ s.docs # <<>>
        THEN [s EXCEPT !.i = LineAfter(t, i), !.comment = TRUE,
                       !.docs = LeftOf(@, Candidate(t, i, Head(@)))]
        ELSE IF t[i] = "NL" THEN [s EXCEPT !.i = i + 1, !.bol = TRUE, !.comment = TRUE]
        ELSE IF s.quote = "\"" THEN DoubleStep(t, s, what)
        ELSE IF s.quote # "" THEN SingleStep(t, s, what)
        ELSE PlainStep(t, s, what)

\* A scanner from a state to where it stops.
Probe(t, s, what) ==
    IF s.is # "" THEN s
    ELSE CHOOSE r \in {Probe(t, n, what) : n \in {ProbeStep(t, s, what)}} : TRUE

has_trailing_line_continuation(t) == Probe(t, ProbeState(1, 0), "continuation").is = "continued"
\* Mutant: a substitution left open inside quotes is not an open quote.
ForgetsNested(t) == Probe(t, ProbeState(1, 0), "quotes").quote # ""
has_open_quotes(t) ==
    LET end == Probe(t, ProbeState(1, 0), "quotes") IN end.is = "unclosed" \/ end.quote # ""
has_unclosed_command_substitution(t) ==
    LET end == Probe(t, ProbeState(1, 0), "substitution")
    IN  end.is = "unclosed" \/ end.depth > 0
has_unclosed_compound_assignment(t) == Probe(t, ProbeState(1, 0), "assignment").is = "open"

----------------------------------------------------------------------------
(***************************************************************************)
(* Here-documents are probed line by line.                                 *)
(***************************************************************************)
RECURSIVE Lines(_, _)
Lines(t, i) ==
    IF i > Len(t) THEN <<>>
    ELSE <<SubSeq(t, i, EndOfLine(t, i) - 1)>> \o Lines(t, LineAfter(t, i))

\* The first line with the lines its backslashes join to it; `cut` if they run out.
RECURSIVE JoinedLine(_)
JoinedLine(lines) ==
    LET line == Head(lines)
    IN  IF line = <<>> \/ line[Len(line)] # "\\"
        THEN [line |-> line, rest |-> Tail(lines), cut |-> FALSE]
        ELSE IF Len(lines) = 1 THEN [line |-> line, rest |-> <<>>, cut |-> TRUE]
        ELSE JoinedLine(<<Front(line) \o lines[2]>> \o SubSeq(lines, 3, Len(lines)))

RECURSIVE DepthAfter(_, _, _, _)
DepthAfter(t, i, quote, depth) ==
    LET c == At(t, i)
        on(j, q, d) == DepthAfter(t, j, q, d)
    IN  IF i > Len(t) THEN depth
        ELSE CASE quote = "'" -> on(i + 1, IF c = "'" THEN "" ELSE quote, depth)
               [] quote # "'" /\ c = "\\" -> on(Escaped(t, i), quote, depth)
               [] quote # "'" /\ c = "\"" -> on(i + 1, IF quote = "" THEN "\"" ELSE "", depth)
               [] quote = "" /\ c = "'" -> on(i + 1, "'", depth)
               [] quote # "'" /\ c = "$" /\ At(t, i + 1) = "(" -> on(i + 2, quote, depth + 1)
               [] quote # "'" /\ c = ")" -> on(i + 1, quote, IF depth > 0 THEN depth - 1 ELSE 0)
               [] OTHER -> on(i + 1, quote, depth)

command_subst_depth_after_line_for_heredoc_probe(line, depth) == DepthAfter(line, 1, "", depth)

\* The here-documents a line asks for: every "<<" outside quotes, the one of an
\* arithmetic shift or of a comment too.
RECURSIVE HeredocsFrom(_, _, _, _)
HeredocsFrom(t, i, quote, docs) ==
    LET c == At(t, i)
        tabs == At(t, i + 2) = "-"
        start == NextNotOf(t, Past(t, i + 2, "-"), Blanks)
        read == Delimiter(t, start, <<>>, "")
        doc == [d |-> IF tabs THEN SubSeq(read.d, NextNotOf(read.d, 1, {"TAB"}), Len(read.d))
                      ELSE read.d,
                tabs |-> tabs,
                joins |-> \A h \in start .. read.end - 1 : t[h] \notin {"'", "\"", "\\"}]
        on(j, q) == HeredocsFrom(t, j, q, docs)
    IN  IF i >= Len(t) THEN docs
        ELSE CASE quote = "'" -> on(i + 1, IF c = "'" THEN "" ELSE quote)
               [] quote # "'" /\ c = "\\" -> on(Escaped(t, i), quote)
               [] quote = "\"" /\ c # "\\" -> on(i + 1, IF c = "\"" THEN "" ELSE quote)
               [] quote = "" /\ c \in {"'", "\""} -> on(i + 1, c)
               [] quote = "" /\ c = "<" /\ t[i + 1] = "<" ->
                      IF At(t, i - 1) = "<" THEN on(i + 1, "")
                      ELSE HeredocsFrom(t, read.end, "", IF read.end > start THEN Append(docs, doc)
                                                         ELSE docs)
               [] OTHER -> on(i + 1, quote)

heredocs_in_line(line) == HeredocsFrom(line, 1, "", <<>>)

RECURSIVE UnclosedHeredoc(_, _, _)
UnclosedHeredoc(lines, pending, depth) ==
    LET doc == Head(pending)
        joined == JoinedLine(lines)
        line == IF doc.joins THEN joined.line ELSE Head(lines)
        rest == IF doc.joins THEN joined.rest ELSE Tail(lines)
        candidate == IF doc.tabs THEN SubSeq(line, NextNotOf(line, 1, {"TAB"}), Len(line)) ELSE line
    IN  IF lines = <<>> THEN pending # <<>>
        ELSE IF pending = <<>>
        THEN joined.cut
             \/ UnclosedHeredoc(joined.rest, heredocs_in_line(joined.line),
                                command_subst_depth_after_line_for_heredoc_probe(joined.line, depth))
        ELSE IF depth > 0
        THEN UnclosedHeredoc(Tail(lines), pending,
                             command_subst_depth_after_line_for_heredoc_probe(Head(lines), depth))
        ELSE (doc.joins /\ joined.cut)
             \/ UnclosedHeredoc(rest, IF candidate = doc.d THEN Tail(pending) ELSE pending, depth)

has_unclosed_heredoc(t) == UnclosedHeredoc(Lines(t, 1), <<>>, 0)

----------------------------------------------------------------------------
(***************************************************************************)
(* The parse, after the bodies of command substitutions have been parsed.  *)
(***************************************************************************)
parse_error_is_at_body_end(body, err) ==
    /\ err.t = NoToken \/ err.t.to >= Len(body)
    /\ err.m \in {"expected", "eof"}

\* at is where the body starts in the text, close where its parenthesis is.
map_command_substitution_parse_error(at, close, body, err) ==
    IF parse_error_is_at_body_end(body, err)
    THEN [err EXCEPT !.m = "other", !.t = Token(")", ")", ")", close - 1, close)]
    ELSE IF err.t = NoToken THEN err
    ELSE [err EXCEPT !.t.at = @ + at - 1, !.t.to = @ + at - 1]

Valid == [ok |-> TRUE]
Empty(res) == ~res.ok /\ res.m = "empty"
RECURSIVE ValidateFrom(_, _)
validate_command_substitutions_for_parse(t) == ValidateFrom(t, ProbeState(1, 0))

validate_command_substitution_body(at, close, body) ==
    LET inner == validate_command_substitutions_for_parse(body)
        res == Parse(body)
    IN  IF ~inner.ok THEN map_command_substitution_parse_error(at, close, body, inner)
        ELSE IF res.ok \/ Empty(res) THEN Valid
        ELSE map_command_substitution_parse_error(at, close, body, res)

validate_unclosed_command_substitution_body(t, at) ==
    LET body == SubSeq(t, at, Len(t))
        res == Parse(body)
    IN  IF res.ok \/ Empty(res) \/ parse_error_is_at_body_end(body, res) THEN Valid
        ELSE map_command_substitution_parse_error(at, Len(t), body, res)

ValidateFrom(t, from) ==
    LET s == Probe(t, from, "validate")
        ext == Probe(t, ProbeState(s.at, 1), "extract")
        body == SubSeq(t, s.at, ext.i - 2)
        res == validate_command_substitution_body(s.at, ext.i - 1, body)
    IN  IF s.is # "body" THEN Valid
        ELSE IF ext.is # "closed" THEN validate_unclosed_command_substitution_body(t, s.at)
        ELSE IF ~res.ok THEN res
        ELSE ValidateFrom(t, [s EXCEPT !.is = "", !.i = ext.i, !.bol = FALSE,
                                       !.comment = IF s.quote = "" THEN FALSE ELSE @])

parse_text(t) ==
    LET valid == validate_command_substitutions_for_parse(t)
    IN  IF valid.ok THEN Parse(t) ELSE valid

----------------------------------------------------------------------------
(***************************************************************************)
(* Whether a command is whole after its last line.                         *)
(***************************************************************************)
Trimmed(t) ==
    LET dark == {h \in DOMAIN t : t[h] \notin Spaces}
    IN  IF dark = {} THEN <<>>
        ELSE SubSeq(t, CHOOSE h \in dark : \A g \in dark : h <= g,
                       CHOOSE h \in dark : \A g \in dark : g <= h)
trim_end_len(t) ==
    LET dark == {h \in DOMAIN t : t[h] \notin Spaces} \cup {0}
    IN  CHOOSE h \in dark : \A g \in dark : g <= h

parse_error_wants_more_input(err, t) ==
    /\ err.t = NoToken \/ err.t.to >= trim_end_len(t)
    /\ err.m \in {"expected", "matching", "body", "eof"}

has_trailing_control_operator(t) ==
    LET ts == SelectSeq(Tokens(t, 0, FALSE, TRUE), LAMBDA tok : tok.k \notin {"End", "NL"})
    IN  ts # <<>> /\ ts[Len(ts)].k \in {"&&", "||", "|", "|&"}

\* The first line that is neither blank nor a comment, trimmed.
FirstLine(t) ==
    LET lines == SelectSeq([i \in DOMAIN Lines(t, 1) |-> Trimmed(Lines(t, 1)[i])],
                           LAMBDA line : line # <<>> /\ line[1] # "#")
    IN  IF lines = <<>> THEN <<>> ELSE lines[1]

starts_with_function_definition(t) ==
    LET line == FirstLine(t)
        open == NextOf(line, 1, {"{"})
        head == SubSeq(line, 1, trim_end_len(SubSeq(line, 1, open - 1)))
    IN  \/ At(line, 1) = "function" /\ At(line, 2) = " "
        \/ /\ At(line, open) = "{"
           /\ At(head, Len(head)) = ")" /\ At(head, Len(head) - 1) = "("

large_function_definition_may_end(t, line) ==
    LET start == At(Trimmed(line), 1)
        first == FirstLine(t)
    IN  \/ Len(Lines(t, 1)) = 1 /\ \E h \in DOMAIN line : line[h] = "}"
        \/ start = "}"
        \/ At(first, 1) = "function" /\ At(first, 2) = " " /\ start = ")"

\* The body of the loop of read_logical_command: is another line needed?
NeedsLine(t, line) ==
    /\ Trimmed(t) # <<>>
    /\ \/ has_trailing_line_continuation(t)
       \/ /\ starts_with_function_definition(t)
          /\ ~large_function_definition_may_end(t, line)
       \/ has_open_quotes(t)
       \/ has_unclosed_command_substitution(t)
       \/ has_unclosed_heredoc(t)
       \/ has_unclosed_compound_assignment(t)
       \/ has_trailing_control_operator(t)
       \/ LET res == parse_text(t)
          IN  ~res.ok /\ res.m # "empty" /\ parse_error_wants_more_input(res, t)
=============================================================================
