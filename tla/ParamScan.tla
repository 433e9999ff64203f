----------------------------- MODULE ParamScan ------------------------------
(***************************************************************************)
(* Finding the end of a $-construct: crates/expander/src/param/scanning.rs *)
(* and the scanners of quote.rs.  A scan returns the body it copied and    *)
(* the position after the construct, or an error.  The words case and esac *)
(* are one symbol each, as are a newline and a tab.                        *)
(***************************************************************************)
EXTENDS ExpandBuf
LOCAL INSTANCE FiniteSetsExt

White == {" ", "TAB", "NL"}
Meta == {"|", "&", ";", "<", ">", "(", ")"}
NameStart == {"a", "b", "c", "x", "y", "z", "A", "B", "_", "IFS", "HOME", "PWD", "OLDPWD", "case", "esac"}
param_is_name_start(c) == c \in NameStart
param_is_name_byte(c) == c \in NameStart \cup {"0", "1", "2", "3"}
is_valid_name_str(s) == s # <<>> /\ param_is_name_start(s[1]) /\ \A k \in DOMAIN s : param_is_name_byte(s[k])

Scanned(body, end) == [err |-> "", body |-> body, end |-> end]
ScanError(err) == [err |-> err, body |-> <<>>, end |-> 0]
\* A nested construct is copied with its brackets.
Wrapped(open, r, close) == [r EXCEPT !.body = open \o @ \o close]

----------------------------------------------------------------------------
(* Quotes. *)
\* The position after the closing quote q; a backslash hides a character.
RECURSIVE QuoteEnd(_, _, _)
QuoteEnd(s, j, q) ==
    CASE j > Len(s) -> Len(s) + 1
      [] j <= Len(s) /\ s[j] = q -> j + 1
      [] j < Len(s) /\ s[j] = "\\" /\ q # "\\" -> QuoteEnd(s, j + 2, q)
      [] OTHER -> QuoteEnd(s, j + 1, q)
\* The closing quote itself is there.
QuoteCloses(s, j, q) == \E k \in j .. Len(s) : QuoteEnd(s, j, q) = k + 1 /\ s[k] = q

RECURSIVE SingleEnd(_, _)
SingleEnd(s, j) == IF j > Len(s) THEN j ELSE IF s[j] = "'" THEN j + 1 ELSE SingleEnd(s, j + 1)
scan_single_quoted(s, start) ==
    LET end == SingleEnd(s, start)
        last == IF CharAt(s, end - 1) = "'" /\ end > start THEN end - 2 ELSE end - 1
    IN  Scanned(SubSeq(s, start, last), end)

scan_ansi_c_quoted(s, start) ==
    LET end == QuoteEnd(s, start, "'")
    IN  Scanned(SubSeq(s, start, IF QuoteCloses(s, start, "'") THEN end - 2 ELSE end - 1), end)

AnsiAt(s, i) == CharAt(s, i) = "$" /\ CharAt(s, i + 1) = "'"
Copied(s, i, end) == Scanned(SubSeq(s, i, end - 1), end)
append_ansi_c_literal(s, i) == Copied(s, i, scan_ansi_c_quoted(s, i + 2).end)

----------------------------------------------------------------------------
(* Arithmetic: the matching )) and ]. *)
RECURSIVE param_arith_dparen_scan(_, _, _)
param_arith_dparen_scan(s, i, depth) ==
    LET rest == SelectSeq(SubSeq(s, i + 1, Len(s)), LAMBDA c : c \notin {" ", "TAB"})
        c == CharAt(s, i)
    IN  CASE i > Len(s) -> [k |-> "Missing", end |-> 0]
          [] c = "\\" /\ i < Len(s) -> param_arith_dparen_scan(s, i + 2, depth)
          [] c \in {"'", "\"", "BQ"} -> param_arith_dparen_scan(s, QuoteEnd(s, i + 1, c), depth)
          [] c = "(" -> param_arith_dparen_scan(s, i + 1, depth + 1)
          [] c = ")" /\ depth > 1 -> param_arith_dparen_scan(s, i + 1, depth - 1)
          [] c = ")" /\ depth = 1 ->
                IF CharAt(s, i + 1) = ")" THEN [k |-> "Arithmetic", end |-> i + 2]
                ELSE IF CharAt(rest, 1) \in {"END", ")", "NL", ";", "&", "|"}
                     THEN [k |-> "CommandSubstitution", end |-> 0]
                     ELSE [k |-> "Missing", end |-> 0]
          [] OTHER -> param_arith_dparen_scan(s, i + 1, depth)

extract_double_paren(s, start) ==
    LET r == param_arith_dparen_scan(s, start, 1)
    IN  IF r.k = "Arithmetic" THEN Scanned(SubSeq(s, start, r.end - 3), r.end) ELSE ScanError("missing ))")

RECURSIVE LegacyEnd(_, _, _)
LegacyEnd(s, i, depth) ==
    LET c == CharAt(s, i)
    IN  CASE i > Len(s) -> 0
          [] c = "\\" -> LegacyEnd(s, i + 2, depth)
          [] c \in {"'", "\"", "BQ"} -> LegacyEnd(s, QuoteEnd(s, i + 1, c), depth)
          [] c = "[" -> LegacyEnd(s, i + 1, depth + 1)
          [] c = "]" /\ depth = 1 -> i
          [] c = "]" /\ depth > 1 -> LegacyEnd(s, i + 1, depth - 1)
          [] OTHER -> LegacyEnd(s, i + 1, depth)
extract_legacy_arith(s, start) ==
    LET end == LegacyEnd(s, start, 1)
    IN  IF end = 0 THEN ScanError("missing ]") ELSE Scanned(SubSeq(s, start, end - 1), end + 1)

----------------------------------------------------------------------------
(* Here-documents inside a command substitution. *)
\* The delimiter word from i: what it is without its quotes, and what is copied of it.
RECURSIVE DelimiterFrom(_, _, _, _, _)
DelimiterFrom(s, i, q, delim, body) ==
    LET c == CharAt(s, i)
    IN  CASE i > Len(s) -> [delim |-> delim, body |-> body, end |-> i]
          [] i <= Len(s) /\ q # "" ->
                DelimiterFrom(s, i + 1, IF c = q THEN "" ELSE q, IF c = q THEN delim ELSE Append(delim, c), Append(body, c))
          [] q = "" /\ c \in {"'", "\""} -> DelimiterFrom(s, i + 1, c, delim, Append(body, c))
          [] q = "" /\ c = "\\" /\ CharAt(s, i + 1) \in {"NL", "END"} -> DelimiterFrom(s, i + 2, q, delim, body)
          [] q = "" /\ c = "\\" /\ CharAt(s, i + 1) \notin {"NL", "END"} ->
                DelimiterFrom(s, i + 2, q, Append(delim, s[i + 1]), body \o <<c, s[i + 1]>>)
          [] q = "" /\ c \in White \cup Meta -> [delim |-> delim, body |-> body, end |-> i]
          [] OTHER -> DelimiterFrom(s, i + 1, q, Append(delim, c), Append(body, c))

RECURSIVE PastIn(_, _, _)
PastIn(s, i, set) == IF CharAt(s, i) \in set THEN PastIn(s, i + 1, set) ELSE i

append_heredoc_redirect(s, i) ==
    LET strip == CharAt(s, i + 2) = "-"
        word == PastIn(s, IF strip THEN i + 3 ELSE i + 2, {" ", "TAB"})
        r == DelimiterFrom(s, word, "", <<>>, SubSeq(s, i, word - 1))
        delim == IF strip THEN SubSeq(r.delim, PastIn(r.delim, 1, {"TAB"}), Len(r.delim)) ELSE r.delim
    IN  [body |-> r.body, end |-> r.end,
         docs |-> IF delim = <<>> THEN <<>> ELSE <<[delim |-> delim, strip |-> strip]>>]

\* Where the delimiter is followed by the closing parenthesis.
param_heredoc_delimiter_closing_paren(line, delim) ==
    LET k == PastIn(line, Len(delim) + 1, {" ", "TAB"})
    IN  IF SubSeq(line, 1, Len(delim)) = delim /\ Len(line) >= Len(delim) /\ CharAt(line, k) = ")" THEN {k} ELSE {}

param_previous_significant_byte(s, i) ==
    LET before == SelectSeq(SubSeq(s, 1, i - 1), LAMBDA c : c \notin White)
    IN  IF before = <<>> THEN "END" ELSE Last(before)

----------------------------------------------------------------------------
(* The matching ), } and closing double quote.  They call each other. *)
RECURSIVE ParenBody(_, _), BracedBody(_, _, _, _, _), CurrentBody(_, _, _, _), InDoubleQuotes(_, _, _)

extract_paren(s, start) ==
    ParenBody(s, [i |-> start, depth |-> 1, cases |-> 0, comment |-> TRUE, docs |-> <<>>, line |-> FALSE, body |-> <<>>])
extract_brace_body(s, start, psq) == BracedBody(s, start, <<>>, FALSE, psq)
extract_current_brace_body(s, start) == CurrentBody(s, start, <<>>, 0)
current_subst_mode(s, start) ==
    IF CharAt(s, start) = "|" THEN "Reply" ELSE IF CharAt(s, start) \in White THEN "Output" ELSE "None"

\* The construct at i, where s[i] is a $ before { or (.
NestedAt(s, i, psq) ==
    CASE s[i + 1] = "{" -> Wrapped(<<"$", "{">>, extract_brace_body(s, i + 2, psq), <<"}">>)
      [] s[i + 1] = "(" /\ CharAt(s, i + 2) = "(" ->
            Wrapped(<<"$", "(", "(">>, extract_double_paren(s, i + 3), <<")", ")">>)
      [] s[i + 1] = "(" /\ CharAt(s, i + 2) # "(" -> Wrapped(<<"$", "(">>, extract_paren(s, i + 2), <<")">>)
NestsAt(s, i) == CharAt(s, i) = "$" /\ CharAt(s, i + 1) \in {"{", "("}

append_quoted_bytes(s, i) ==
    IF s[i] = "\"" THEN InDoubleQuotes(s, i + 1, <<"\"">>) ELSE Copied(s, i, QuoteEnd(s, i + 1, s[i]))

InDoubleQuotes(s, i, body) ==
    LET c == CharAt(s, i)
        then(r) == IF r.err # "" THEN r ELSE InDoubleQuotes(s, r.end, body \o r.body)
    IN  CASE i > Len(s) -> Scanned(body, i)
          [] c = "\"" -> Scanned(Append(body, c), i + 1)
          [] c = "\\" /\ i < Len(s) -> InDoubleQuotes(s, i + 2, body \o <<c, s[i + 1]>>)
          [] NestsAt(s, i) -> then(NestedAt(s, i, FALSE))
          [] c = "BQ" -> then(append_quoted_bytes(s, i))
          [] OTHER -> InDoubleQuotes(s, i + 1, Append(body, c))

\* After a quote with an escaped quote in it, a } comes before the closing quote.
RECURSIVE ClosesBeforeQuote(_, _, _)
ClosesBeforeQuote(s, j, escaped) ==
    LET c == CharAt(s, j)
    IN  CASE c \in {"'", "END"} -> FALSE
          [] c = "\\" /\ j < Len(s) -> ClosesBeforeQuote(s, j + 2, escaped \/ s[j + 1] = "'")
          [] c = "}" /\ escaped -> TRUE
          [] OTHER -> ClosesBeforeQuote(s, j + 1, escaped)

BracedBody(s, i, body, swallowed, psq) ==
    LET c == CharAt(s, i)
        n == CharAt(s, i + 1)
        keep(k) == BracedBody(s, i + k, body \o SubSeq(s, i, i + k - 1), swallowed, psq)
        then(r, more) == IF r.err # "" THEN r ELSE BracedBody(s, r.end, body \o r.body, swallowed \/ more, psq)
        quoted == QuoteEnd(s, i + 1, "\"")
    IN  CASE i > Len(s) -> ScanError(IF swallowed THEN "unexpected EOF" ELSE "missing }")
          [] AnsiAt(s, i) -> then(append_ansi_c_literal(s, i), FALSE)
          [] c = "\\" /\ n = "}" -> BracedBody(s, i + 2, Append(body, n), swallowed, psq)
          [] c = "\\" /\ n \notin {"}", "END"} -> keep(2)
          [] c = "'" /\ ~psq ->
                IF ClosesBeforeQuote(s, i + 1, FALSE) THEN keep(1) ELSE then(Copied(s, i, SingleEnd(s, i + 1)), FALSE)
          [] c = "\"" ->
                IF QuoteCloses(s, i + 1, "\"")
                THEN then(Copied(s, i, quoted), QuoteEnd(s, i + 1, "}") <= quoted - 1)
                ELSE IF psq THEN ScanError("unexpected EOF") ELSE keep(1)
          [] c = "BQ" -> then(append_quoted_bytes(s, i), FALSE)
          [] NestsAt(s, i) -> then(NestedAt(s, i, psq), FALSE)
          [] c = "}" -> Scanned(body, i + 1)
          [] OTHER -> keep(1)

\* The braces of ${ command; } are balanced.
CurrentBody(s, i, body, depth) ==
    LET c == CharAt(s, i)
        then(r, d) == IF r.err # "" THEN r ELSE CurrentBody(s, r.end, body \o r.body, d)
        current == c = "$" /\ CharAt(s, i + 1) = "{" /\ current_subst_mode(s, i + 2) # "None"
        bar == IF CharAt(s, i + 2) = "|" THEN <<"|">> ELSE <<>>
    IN  CASE i > Len(s) -> ScanError("missing }")
          [] c = "\\" /\ i < Len(s) -> then(Copied(s, i, i + 2), depth)
          [] AnsiAt(s, i) -> then(append_ansi_c_literal(s, i), depth)
          [] c \in {"'", "\"", "BQ"} -> then(append_quoted_bytes(s, i), depth)
          [] current -> then(Wrapped(<<"$", "{">> \o bar, extract_current_brace_body(s, i + 2 + Len(bar)), <<"}">>), depth)
          [] NestsAt(s, i) /\ ~current -> then(NestedAt(s, i, FALSE), depth)
          [] c = "{" -> then(Copied(s, i, i + 1), depth + 1)
          [] c = "}" -> IF depth = 0 THEN Scanned(body, i + 1) ELSE then(Copied(s, i, i + 1), depth - 1)
          [] OTHER -> then(Copied(s, i, i + 1), depth)

\* One step inside $( ... ): a line of a here-document, a comment, a quote, a word, or a byte.
ParenBody(s, st) ==
    LET i == st.i
        c == CharAt(s, i)
        doc == st.line /\ st.docs # <<>>
        go(r, comment) == IF r.err # "" THEN r
                          ELSE ParenBody(s, [st EXCEPT !.i = r.end, !.body = @ \o r.body, !.comment = comment, !.line = FALSE])
        eol == IF \E k \in i .. Len(s) : s[k] = "NL" THEN CHOOSE k \in i .. Len(s) : s[k] = "NL" /\ \A j \in i .. k - 1 : s[j] # "NL"
               ELSE Len(s) + 1
        from == IF doc /\ Head(st.docs).strip THEN PastIn(s, i, {"TAB"}) ELSE i
        line == SubSeq(s, from, eol - 1)
        close == IF doc /\ st.depth = 1 THEN param_heredoc_delimiter_closing_paren(line, Head(st.docs).delim) ELSE {}
        word == PastIn(s, i, NameStart \cup {"0", "1", "2", "3"})
        esac == param_previous_significant_byte(s, i) \notin {"|", "("}
    IN  CASE i > Len(s) -> ScanError("missing )")
          [] i <= Len(s) /\ doc ->
                IF close # {} THEN Scanned(st.body \o SubSeq(s, i, from - 1) \o Head(st.docs).delim, from + Max(close))
                ELSE ParenBody(s, [st EXCEPT !.i = eol + 1, !.body = @ \o SubSeq(s, i, IF eol > Len(s) THEN Len(s) ELSE eol), !.comment = TRUE,
                                             !.docs = IF line = Head(@).delim THEN Tail(@) ELSE @])
          [] ~doc /\ c = "NL" -> ParenBody(s, [st EXCEPT !.i = i + 1, !.body = Append(@, c), !.comment = TRUE, !.line = TRUE])
          [] ~doc /\ c = "#" /\ st.comment -> go(Copied(s, i, eol), TRUE)
          [] ~doc /\ c = "\\" /\ i < Len(s) -> go(Copied(s, i, i + 2), FALSE)
          [] ~doc /\ AnsiAt(s, i) -> go(append_ansi_c_literal(s, i), FALSE)
          [] ~doc /\ c \in {"'", "\"", "BQ"} -> go(append_quoted_bytes(s, i), FALSE)
          [] ~doc /\ c = "<" /\ CharAt(s, i + 1) = "<" ->
                LET r == append_heredoc_redirect(s, i)
                IN  ParenBody(s, [st EXCEPT !.i = r.end, !.body = @ \o r.body, !.comment = FALSE, !.line = FALSE,
                                            !.docs = @ \o r.docs])
          [] ~doc /\ param_is_name_start(c) ->
                LET w == SubSeq(s, i, word - 1)
                IN  ParenBody(s, [st EXCEPT !.i = word, !.body = @ \o w, !.comment = FALSE, !.line = FALSE,
                                            !.cases = IF w = <<"case">> THEN @ + 1
                                                      ELSE IF w = <<"esac">> /\ esac /\ @ > 0 THEN @ - 1 ELSE @])
          [] ~doc /\ c = ")" /\ st.depth = 1 /\ st.cases = 0 -> Scanned(st.body, i + 1)
          [] ~doc /\ c = ")" /\ st.depth = 1 /\ st.cases > 0 -> go(Copied(s, i, i + 1), TRUE)
          [] ~doc /\ c = ")" /\ st.depth > 1 ->
                ParenBody(s, [st EXCEPT !.i = i + 1, !.depth = @ - 1, !.body = Append(@, c), !.comment = TRUE, !.line = FALSE])
          [] ~doc /\ c = "(" ->
                ParenBody(s, [st EXCEPT !.i = i + 1, !.depth = @ + 1, !.body = Append(@, c), !.comment = TRUE, !.line = FALSE])
          [] OTHER -> go(Copied(s, i, i + 1), c \in White \cup Meta)
=============================================================================
