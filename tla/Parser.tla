------------------------------- MODULE Parser -------------------------------
(***************************************************************************)
(* The recursive-descent parser of crates/parser/src/lib.rs: from tokens   *)
(* to commands.                                                            *)
(*                                                                         *)
(* A command is a record [c, w, s, r, f]: what it is, its words, the       *)
(* commands in it, its redirections, and its flags.  An offset into the    *)
(* input counts symbols.                                                   *)
(***************************************************************************)
EXTENDS Lexer

----------------------------------------------------------------------------
(***************************************************************************)
(* Commands, and the state of the parser: the tokens, the next one, the    *)
(* number of here-documents of the command and where the next body starts, *)
(* an option kept as a set.                                                *)
(***************************************************************************)
Node(c, w, s) == [c |-> c, w |-> w, s |-> s, r |-> <<>>, f |-> {}]
null_command == Node("simple", <<>>, <<>>)
connect(left, right, connector) == Node(connector, <<>>, <<left, right>>)

new(tokens, input) == [t |-> tokens, i |-> 1, in |-> input, docs |-> 0, body |-> {}]

NoToken == Token("none", "", "", 0, 0)
peek_n(p, n) == IF p.i + n <= Len(p.t) THEN p.t[p.i + n] ELSE NoToken
peek(p) == peek_n(p, 0)
bump(p) == IF p.i <= Len(p.t) THEN [p EXCEPT !.i = @ + 1] ELSE p
is_word(p, x) == peek(p).x = x

\* An error has the class of its message and the token it is reported at: "expected"
\* something, "eof", "matching" (end of file inside parentheses), "body" (of a
\* function), "empty" input, or "other".
Ok(p, v) == [ok |-> TRUE, p |-> p, v |-> v]
ErrAt(p, m, t) == [ok |-> FALSE, p |-> p, v |-> null_command, m |-> m, t |-> t]
Err(p, m) == ErrAt(p, m, peek(p))
\* An error ends what is being parsed; the rest is only looked at after a success.
Then(res, rest) == IF res.ok THEN rest ELSE res
With(res, v) == IF res.ok THEN Ok(res.p, v) ELSE res

skip_newlines(p) ==
    LET i == CHOOSE j \in p.i .. Len(p.t) + 1 :
                 /\ j > Len(p.t) \/ p.t[j].k # "NL"
                 /\ \A h \in p.i .. j - 1 : p.t[h].k = "NL"
    IN  [p EXCEPT !.i = i]

\* The text of a token where any token may stand for a word.
token_to_text_lossy(t) == IF t.k = "End" THEN "EOF" ELSE t.raw

unexpected_reserved_word(p) ==
    /\ peek(p).k = "word"
    /\ peek(p).x \in {"then", "else", "elif", "fi", "do", "done", "in", "esac"}

\* Mutant: "))" does not close a subshell.
OnlyOneParen(p, words, kinds) == peek(p).x \in words \/ peek(p).k \in kinds

is_stop(p, words, kinds) ==
    \/ peek(p).x \in words
    \/ peek(p).k \in kinds
    \/ peek(p).k = "))" /\ ")" \in kinds

reject_unexpected_reserved_command(p, words) ==
    peek(p).x \notin words /\ unexpected_reserved_word(p)

expect_word(p, x) == IF is_word(p, x) THEN Ok(bump(p), null_command) ELSE Err(p, "expected")

\* A "))" where one parenthesis is expected loses its first half.
expect_kind(p, k) ==
    IF k = ")" /\ peek(p).k = "))"
    THEN Ok([p EXCEPT !.t[p.i].k = ")", !.t[p.i].at = @ + 1], null_command)
    ELSE IF peek(p).k = k THEN Ok(bump(p), null_command) ELSE Err(p, "expected")

at_list_terminator(p) ==
    \/ peek(p).k \in {"End", "NL", ";", "&", "}", ")"}
    \/ peek(p).x \in {"then", "else", "elif", "fi", "do", "done", "esac"}

previous_token_terminated_list(p) ==
    /\ p.i > 1
    /\ LET t == p.t[p.i - 1]
       IN  t.k \in {";", "&", "NL", ")", "))", "}", "]]"} \/ t.x \in {"fi", "done", "esac", "}"}

----------------------------------------------------------------------------
(***************************************************************************)
(* Redirections and here-documents.  A redirection is a record             *)
(* [op, fd, to, eof, body]: eof and the lines of the body are those of a   *)
(* here-document and <<>> for others.                                      *)
(***************************************************************************)
CONSTANT HEREDOC_MAX    \* 16 in the code

RedirectionOps ==
    {"<", ">", "<<", "<<-", "<<<", ">>", ">|", "<&", ">&", "&>", "&>>", "<>"}

Moved(x) == IF x = "1-" THEN <<"1">> ELSE IF x = "w-" THEN <<"w">> ELSE <<>>

\* The symbols of a token, less escaped newlines.
Symbols(p, t) ==
    LET kept == {h \in t.at + 1 .. t.to : /\ line_continuation_len(p.in, h) = 0
                                          /\ line_continuation_len(p.in, h - 1) = 0}
    IN  [j \in 1 .. Cardinality(kept) |->
            p.in[CHOOSE h \in kept : Cardinality({g \in kept : g <= h}) = j]]

\* A name, or a name with a subscript, in braces.
is_redir_word_token(p, t) ==
    LET e == NameEnd(p.in, t.at + 2)
    IN  /\ t.k = "word" /\ At(p.in, t.at + 1) = "{" /\ At(p.in, t.to) = "}"
        /\ e > t.at + 2 /\ is_name_start(At(p.in, t.at + 2))
        /\ e = t.to \/ (At(p.in, e) = "[" /\ At(p.in, t.to - 1) = "]" /\ e < t.to - 2)
is_redir_word_redirector(p) == is_redir_word_token(p, peek(p)) /\ peek_n(p, 1).k \in RedirectionOps
number_is_adjacent_redirection_operator(p) ==
    /\ peek(p).k = "number"
    /\ peek_n(p, 1).k \in RedirectionOps
    /\ peek(p).to = peek_n(p, 1).at
current_is_redirection_operator(p) == peek(p).k \in RedirectionOps
is_redirection_target(t) == t.k \in {"word", "assign", "number"}

default_redirect_fd(op) ==
    IF op \in {"<", "<<", "<<-", "<<<", "<&", "<>"} THEN "0" ELSE "1"

LineEnd(p, cursor) == EndOfLine(p.in, cursor + 1) - 1

\* The start of the line after start that no token reaches into.
RECURSIVE initial_heredoc_body_cursor(_, _)
initial_heredoc_body_cursor(p, start) ==
    LET cursor == LineEnd(p, start) + 1
        spanning == {p.t[j].to : j \in {h \in 1 .. Len(p.t) : p.t[h].at < cursor /\ p.t[h].to > cursor}}
        last == CHOOSE e \in spanning : \A f \in spanning : f <= e
    IN  IF cursor > Len(p.in) THEN {}
        ELSE IF spanning = {} THEN {cursor}
        ELSE IF LineEnd(p, last) = Len(p.in) THEN {Len(p.in)}
        ELSE initial_heredoc_body_cursor(p, last)

RECURSIVE heredoc_logical_line(_, _, _)
heredoc_logical_line(p, cursor, joins) ==
    LET e == LineEnd(p, cursor)
        line == SubSeq(p.in, cursor + 1, e)
        rest == heredoc_logical_line(p, e + 1, joins)
    IN  IF e = Len(p.in) THEN [line |-> line, end |-> e]
        ELSE IF joins /\ e > cursor /\ p.in[e] = "\\"
        THEN [rest EXCEPT !.line = SubSeq(line, 1, Len(line) - 1) \o @]
        ELSE [line |-> line, end |-> e + 1]

\* The tokens the lexer made of a body are removed from those still to be read; if
\* one of them reaches past the body, what follows the body is lexed again.
skip_tokens_in_range(p, from, to) ==
    LET inside(t) == t.at >= from /\ t.at < to
        before(t) == t.at < from
        outside(t) == ~inside(t)
    IN  IF \E j \in 1 .. Len(p.t) : inside(p.t[j]) /\ p.t[j].to > to
        THEN [p EXCEPT !.t = SelectSeq(@, before) \o Tokens(p.in, to, FALSE, TRUE)]
        ELSE [p EXCEPT !.t = SubSeq(@, 1, p.i - 1) \o SelectSeq(SubSeq(@, p.i, Len(@)), outside)]

Detabbed(line) == SubSeq(line, NextNotOf(line, 1, {"TAB"}), Len(line))

\* doc is [eof, tabs, joins]: its delimiter, whether tabs are dropped before it is
\* looked for, and whether escaped newlines are removed.
RECURSIVE BodyLines(_, _, _, _)
BodyLines(p, doc, cursor, lines) ==
    LET l == heredoc_logical_line(p, cursor, doc.joins)
    IN  IF (IF doc.tabs THEN Detabbed(l.line) ELSE l.line) = doc.eof
        THEN [lines |-> lines, end |-> l.end]
        ELSE IF l.end >= Len(p.in)
             THEN [lines |-> IF cursor = Len(p.in) THEN lines ELSE Append(lines, l.line),
                   end |-> l.end]
             ELSE BodyLines(p, doc, l.end, Append(lines, l.line))

consume_heredoc_body(p, doc, start) ==
    LET cursor == IF p.body # {}
                  THEN {IF b > start THEN b ELSE start : b \in p.body}
                  ELSE initial_heredoc_body_cursor(p, start)
        at == CHOOSE c \in cursor : TRUE
        read == BodyLines(p, doc, at, <<>>)
    IN  IF start >= Len(p.in) THEN [p |-> p, lines |-> <<>>, end |-> start]
        ELSE IF cursor = {} THEN [p |-> p, lines |-> <<>>, end |-> Len(p.in)]
        ELSE [p |-> skip_tokens_in_range(p, at, read.end), lines |-> read.lines,
              end |-> read.end]

RECURSIVE normalize_heredoc_delimiter(_)
normalize_heredoc_delimiter(s) ==
    LET e == NextOf(s, 2, {Head(s)})
    IN  IF s = <<>> THEN <<>>
        ELSE IF Head(s) = "\\" /\ Len(s) > 1
        THEN <<s[2]>> \o normalize_heredoc_delimiter(SubSeq(s, 3, Len(s)))
        ELSE IF Head(s) \in {"'", "\""}
        THEN SubSeq(s, 2, e - 1) \o normalize_heredoc_delimiter(SubSeq(s, e + 1, Len(s)))
        ELSE <<Head(s)>> \o normalize_heredoc_delimiter(Tail(s))

Refined(op, x, digits) ==
    IF op \notin {"<&", ">&"} THEN op
    ELSE IF x = "-" THEN "close"
    ELSE IF Moved(x) # <<>> THEN IF x = "1-" THEN "move" \o op ELSE "movew" \o op
    ELSE IF digits THEN op ELSE "w" \o op

Redirect(op, fd, to, eof, lines) == [op |-> op, fd |-> fd, to |-> to, eof |-> eof, body |-> lines]

\* The value is the redirection; redirector is the token before it or NoToken.
parse_redirect(p, redirector) ==
    LET op == peek(p).k
        fd == IF redirector = NoToken THEN default_redirect_fd(op)
              ELSE IF redirector.k = "number" THEN redirector.raw
              ELSE Joined(p.in, redirector.at + 2, redirector.to - 1)
        target == peek_n(p, 1)
        p2 == bump(bump(p))
        instruction == Refined(op, target.raw, target.k = "number")
        to == CASE instruction = "close" -> "-1"
                [] instruction \in {"move<&", "move>&"} -> Head(Moved(target.raw))
                [] OTHER -> target.raw
        eof == normalize_heredoc_delimiter(Symbols(p, target))
        doc == [eof |-> IF op = "<<-" THEN Detabbed(eof) ELSE eof, tabs |-> op = "<<-",
                joins |-> "quoted" \notin target.flags]
        read == consume_heredoc_body(p2, doc, target.to)
    IN  IF target.k = "none" THEN ErrAt(p2, "expected", peek(p))
        ELSE IF ~is_redirection_target(target) THEN ErrAt(p2, "expected", target)
        ELSE IF op \notin {"<<", "<<-"} THEN Ok(p2, Redirect(instruction, fd, to, <<>>, <<>>))
        ELSE IF p.docs >= HEREDOC_MAX THEN ErrAt(p2, "other", peek(p))
        ELSE Ok([read.p EXCEPT !.docs = @ + 1, !.body = {read.end}],
                Redirect(op, fd, to, doc.eof, read.lines))

StartsRedirect(p) ==
    \/ is_redir_word_redirector(p)
    \/ current_is_redirection_operator(p)
    \/ number_is_adjacent_redirection_operator(p)

Redirected(p) ==
    IF current_is_redirection_operator(p)
    THEN parse_redirect(p, NoToken) ELSE parse_redirect(bump(p), peek(p))

RECURSIVE parse_trailing_redirects(_, _)
parse_trailing_redirects(p, c) ==
    IF ~StartsRedirect(p) THEN Ok(p, c)
    ELSE LET r == Redirected(p)
         IN  Then(r, parse_trailing_redirects(r.p, [c EXCEPT !.r = Append(@, r.v)]))

assignment_builtin_accepts_compound(x) ==
    x \in {"declare", "typeset", "local", "readonly", "export", "eval", "let"}

\* name is the command name once there is one, <<>> before.
RECURSIVE SimpleRest(_, _, _)
SimpleRest(p, c, name) ==
    LET t == peek(p)
        named == IF name # <<>> \/ t.k # "word" THEN name ELSE <<t.x>>
    IN  IF StartsRedirect(p)
        THEN LET r == Redirected(p)
             IN  Then(r, SimpleRest(r.p, [c EXCEPT !.r = Append(@, r.v)], name))
        ELSE IF t.k \in {"word", "assign"}
        THEN IF /\ "compound" \in t.flags
                /\ name # <<>>
                /\ ~assignment_builtin_accepts_compound(Head(name))
             THEN Err(p, "other")
             ELSE SimpleRest(bump(p), [c EXCEPT !.w = Append(@, t.x)], named)
        ELSE IF t.k = "number"
        THEN SimpleRest(bump(p), [c EXCEPT !.w = Append(@, t.raw)], name)
        ELSE IF c = null_command THEN Err(p, "expected") ELSE Ok(p, c)

parse_simple_command(p) == SimpleRest(p, null_command, <<>>)

----------------------------------------------------------------------------
(***************************************************************************)
(* Words of patterns, of [[ ]], and of arithmetic commands.                *)
(***************************************************************************)
is_case_pattern_separator(k) == k \in {")", "|", "NL", "End", ";;", ";&", ";;&", "none"}

pattern_word_stops_before(k, context, depth) ==
    /\ depth = 0
    /\ IF context = "case" THEN is_case_pattern_separator(k)
       ELSE k \in {"]]", "&&", "||", ")", "NL", "none"}

pattern_extglob_op_precedes(c) == c \in {"@", "+", "*", "!"}

\* Tokens up to the end of the pattern, put together; last is the symbol before.
PatternEnd(p, text) ==
    [ok |-> text # "", p |-> p, v |-> text, closed |-> FALSE, m |-> "expected", t |-> peek(p)]

RECURSIVE PatternRest(_, _, _, _, _)
PatternRest(p, context, text, last, depth) ==
    LET t == peek(p)
        opens == t.k = "(" /\ (context = "regex" \/ pattern_extglob_op_precedes(last))
        less(n) == IF depth > n THEN depth - n ELSE 0
        next == IF opens THEN depth + 1
                ELSE IF t.k = ")" THEN less(1) ELSE IF t.k = "))" THEN less(2) ELSE depth
        more == PatternRest(bump(p), context, text \o token_to_text_lossy(t), At(p.in, t.to), next)
    IN  IF t.k = "none" \/ pattern_word_stops_before(t.k, context, depth)
        THEN PatternEnd(p, text)
        ELSE IF t.k = "))" /\ context = "case" /\ depth = 0
        THEN PatternEnd(p, text)
        ELSE IF t.k = "))" /\ context = "case" /\ depth = 1
        THEN [PatternEnd(bump(p), text \o ")") EXCEPT !.closed = TRUE]
        ELSE more

collect_pattern_word(p, context) == PatternRest(p, context, "", "", 0)

\* The patterns of a clause and whether their closing parenthesis was taken.
RECURSIVE parse_case_patterns(_, _)
parse_case_patterns(p, patterns) ==
    LET k == peek(p).k
        word == collect_pattern_word(p, "case")
    IN  IF k = "|" THEN parse_case_patterns(bump(p), patterns)
        ELSE IF k = "NL" THEN parse_case_patterns(skip_newlines(p), patterns)
        ELSE IF is_case_pattern_separator(k)
             THEN [PatternEnd(p, "") EXCEPT !.ok = TRUE, !.v = patterns]
        ELSE IF ~word.ok THEN [word EXCEPT !.v = patterns]
        ELSE IF word.closed THEN [word EXCEPT !.v = Append(patterns, word.v)]
        ELSE parse_case_patterns(word.p, Append(patterns, word.v))

is_unary_test_op(x) == x \in {"-n", "-z"}
is_binary_test_op(x) == x \in {"==", "=~", "<", ">", "-eq"}
cond_leaf(x) == Node("leaf", <<x>>, <<>>)
cond_at_terminator(p) == peek(p).k \in {"]]", "&&", "||", ")", "none"}

\* A word of [[ ]], where any token may stand for one.
cond_word(p) == [p |-> bump(skip_newlines(p)), x |-> token_to_text_lossy(peek(skip_newlines(p)))]

RECURSIVE cond_expr(_), OrRest(_, _), cond_and(_), AndRest(_, _), cond_term(_)
cond_expr(p) ==
    LET first == cond_and(skip_newlines(p)) IN Then(first, OrRest(skip_newlines(first.p), first.v))

OrRest(p, left) ==
    LET right == cond_and(skip_newlines(bump(p)))
    IN  IF peek(p).k # "||" THEN Ok(p, left)
        ELSE Then(right, OrRest(skip_newlines(right.p),
                                Node("cond_or", <<>>, <<left, right.v>>)))

cond_and(p) ==
    LET first == cond_term(skip_newlines(p)) IN Then(first, AndRest(skip_newlines(first.p), first.v))

AndRest(p, left) ==
    LET right == cond_term(skip_newlines(bump(p)))
    IN  IF peek(p).k # "&&" THEN Ok(p, left)
        ELSE Then(right, AndRest(skip_newlines(right.p),
                                 Node("cond_and", <<>>, <<left, right.v>>)))

cond_term(p0) ==
    LET p == skip_newlines(p0)
        lhs == cond_word(p)
        after == skip_newlines(lhs.p)
        arg == cond_word(after)
        op == cond_word(after)
        rhs == collect_pattern_word(skip_newlines(op.p),
                                    IF op.x = "=~" THEN "regex" ELSE "cond")
        not == cond_term(bump(p))
        inner == cond_expr(bump(p))
    IN  IF peek(p).k = "!" \/ is_word(p, "!")
        THEN With(not, Node("cond_not", <<>>, <<not.v>>))
        ELSE IF peek(p).k = "("
        THEN Then(inner, With(expect_kind(skip_newlines(inner.p), ")"),
                              Node("cond_expr", <<>>, <<inner.v>>)))
        ELSE IF peek(p).k = "none" THEN Err(p, "expected")
        ELSE IF is_unary_test_op(lhs.x)
        THEN IF arg.x \in {"&", "<"} THEN Err(p, "other")
             ELSE Ok(arg.p, Node("cond_unary", <<lhs.x>>, <<cond_leaf(arg.x)>>))
        ELSE IF cond_at_terminator(after)
        THEN IF lhs.x = "&" THEN Err(p, "other")
             ELSE Ok(after, Node("cond_unary", <<"-n">>, <<cond_leaf(lhs.x)>>))
        ELSE IF ~is_binary_test_op(op.x) THEN Err(p, "other")
        ELSE IF ~rhs.ok THEN ErrAt(p, "expected", rhs.t)
        ELSE IF rhs.v = "&" THEN Err(p, "other")
        ELSE Ok(rhs.p, Node("cond_binary", <<op.x>>, <<cond_leaf(lhs.x), cond_leaf(rhs.v)>>))

parse_cond_command(p) ==
    LET tree == cond_expr(skip_newlines(bump(p)))
    IN  Then(tree, With(expect_kind(skip_newlines(tree.p), "]]"), tree.v))

\* Brackets in a word of arithmetic.
update_arith_bracket_depth(p, t, depth) ==
    LET after[h \in t.at .. t.to] ==
            IF h = t.at THEN depth
            ELSE IF p.in[h] = "[" THEN after[h - 1] + 1
            ELSE IF p.in[h] = "]" /\ after[h - 1] > 0 THEN after[h - 1] - 1 ELSE after[h - 1]
    IN  IF t.k \in {"word", "assign"} THEN after[t.to] ELSE depth

\* The symbols of an expression, less blanks.
Expression(p, from, to) ==
    LET dark(c) == c \notin Blanks IN SelectSeq(SubSeq(p.in, from + 1, to), dark)

\* Skips an expression up to its "))".
RECURSIVE collect_arith_command_expr(_, _, _, _)
collect_arith_command_expr(p, start, parens, brackets) ==
    LET t == peek(p)
        less(n) == IF parens > n THEN parens - n ELSE 0
        after == bump(p)
        on(d, b) == collect_arith_command_expr(after, start, d, b)
    IN  IF t.k = "))" /\ brackets = 0 /\ parens = 0
        THEN Ok(after, Node("arith", Expression(p, start, t.at), <<>>))
        ELSE IF t.k = "))" /\ brackets = 0 /\ parens = 1
        THEN Ok(IF peek(after).k = ")" THEN bump(after) ELSE after,
                Node("arith", Expression(p, start, t.at + 1), <<>>))
        ELSE IF t.k = "))"
        THEN on(IF brackets > 0 /\ parens = 1 THEN 0 ELSE less(2), brackets)
        ELSE IF t.k = "((" THEN on(parens + 2, brackets)
        ELSE IF t.k = "(" THEN on(parens + 1, brackets)
        ELSE IF t.k = ")" THEN on(less(1), brackets)
        ELSE IF t.k \in {"End", "none"}
        THEN Err(p, IF t.k = "End" /\ brackets + parens > 0 THEN "matching" ELSE "expected")
        ELSE on(parens, update_arith_bracket_depth(p, t, brackets))

parse_arith_command(p) ==
    collect_arith_command_expr(bump(p), peek(p).to, 0, 0)

RECURSIVE StartsArith(_, _, _)
StartsArith(p, j, depth) ==
    LET k == IF j <= Len(p.t) THEN p.t[j].k ELSE "none"
    IN  CASE k = "((" -> StartsArith(p, j + 1, depth + 2)
          [] k = "))" /\ depth = 0 -> TRUE
          [] k = "))" /\ depth >= 2 -> StartsArith(p, j + 1, depth - 2)
          [] k = "))" /\ depth = 1 -> j < Len(p.t) /\ p.t[j + 1].k = ")"
          [] k = "End" -> TRUE
          [] k \in {";", "none"} -> FALSE
          [] k = "(" -> StartsArith(p, j + 1, depth + 1)
          [] k = ")" -> depth > 0 /\ StartsArith(p, j + 1, depth - 1)
          [] OTHER -> StartsArith(p, j + 1, depth)

dbl_lparen_starts_arith_command(p) == StartsArith(p, p.i + 1, 0)

\* The text of for ((...)), from start on.
RECURSIVE collect_arith_for_exprs(_, _, _)
collect_arith_for_exprs(p, start, parens) ==
    LET t == peek(p)
        less(n) == IF parens > n THEN parens - n ELSE 0
        on(d) == collect_arith_for_exprs(bump(p), start, d)
    IN  IF t.k = "))" /\ parens = 0
        THEN [p |-> bump(p), text |-> Expression(p, start, t.at)]
        ELSE CASE t.k = "none" -> [p |-> p, text |-> Expression(p, start, Len(p.in))]
               [] t.k = "))" -> on(less(2))
               [] t.k = "((" -> on(parens + 2)
               [] t.k = "("  -> on(parens + 1)
               [] t.k = ")"  -> on(less(1))
               [] OTHER      -> on(parens)

RECURSIVE skip_arith_for_nested(_, _, _, _, _)
skip_arith_for_nested(t, i, open, close, depth) ==
    LET c == At(t, i)
        on(j, d) == skip_arith_for_nested(t, j, open, close, d)
    IN  IF i > Len(t) \/ depth = 0 THEN i
        ELSE CASE c = "\\" -> on(Escaped(t, i), depth)
               [] c \in {"'", "\""} -> on(Quoted(t, i), depth)
               [] c = "$" /\ At(t, i + 1) = "(" ->
                      on(skip_arith_for_nested(t, i + 2, "(", ")", 1), depth)
               [] c = "$" /\ At(t, i + 1) = "{" ->
                      on(skip_arith_for_nested(t, i + 2, "{", "}", 1), depth)
               [] c = open  -> on(i + 1, depth + 1)
               [] c = close -> on(i + 1, depth - 1)
               [] OTHER     -> on(i + 1, depth)

\* The clauses of the text from i, of which the first starts at from.
RECURSIVE ArithForClauses(_, _, _, _)
ArithForClauses(t, from, i, depth) ==
    LET c == At(t, i)
        clause == SubSeq(t, from, i - 1)
        on(j, d) == ArithForClauses(t, from, j, d)
    IN  IF i > Len(t) THEN <<clause>>
        ELSE CASE c = "\\" -> on(Escaped(t, i), depth)
               [] c \in {"'", "\""} -> on(Quoted(t, i), depth)
               [] c = "$" /\ At(t, i + 1) = "(" ->
                      on(skip_arith_for_nested(t, i + 2, "(", ")", 1), depth)
               [] c = "$" /\ At(t, i + 1) = "{" ->
                      on(skip_arith_for_nested(t, i + 2, "{", "}", 1), depth)
               [] c = "(" -> on(i + 1, depth + 1)
               [] c = ")" -> on(i + 1, IF depth > 0 THEN depth - 1 ELSE 0)
               [] c = ";" /\ depth = 0 -> <<clause>> \o ArithForClauses(t, i + 1, i + 1, 0)
               [] OTHER -> on(i + 1, depth)

split_arith_for_clauses(t) == ArithForClauses(t, 1, 1, 0)

----------------------------------------------------------------------------
(***************************************************************************)
(* Lists, pipelines and compound commands.                                 *)
(***************************************************************************)
RECURSIVE parse_list(_, _, _), ListRest(_, _, _, _), parse_and_or(_), AndOrRest(_, _),
          parse_pipeline(_, _), PipeRest(_, _), parse_command(_)

\* A list up to a word of words or a token of kinds.
parse_list(p, words, kinds) ==
    LET q == skip_newlines(p)
        left == parse_and_or(q)
    IN  IF is_stop(q, words, kinds) THEN Err(q, "expected")
        ELSE IF reject_unexpected_reserved_command(q, words) THEN Err(q, "other")
        ELSE Then(left, ListRest(left.p, left.v, words, kinds))

ListRest(p, left, words, kinds) ==
    LET sep == peek(p).k
        q == skip_newlines(bump(p))
        right == parse_and_or(q)
    IN  IF is_stop(p, words, kinds) \/ sep \notin {";", "&", "NL"} THEN Ok(p, left)
        ELSE IF is_stop(q, words, kinds) \/ peek(q).k = "End"
        THEN Ok(q, IF sep = "&" THEN connect(left, null_command, "&") ELSE left)
        ELSE IF reject_unexpected_reserved_command(q, words) THEN Err(q, "other")
        ELSE Then(right, ListRest(right.p, connect(left, right.v, sep), words, kinds))

parse_and_or(p) ==
    LET left == parse_pipeline(p, {}) IN Then(left, AndOrRest(left.p, left.v))

AndOrRest(p, left) ==
    LET right == parse_pipeline(skip_newlines(bump(p)), {})
    IN  IF peek(p).k \notin {"&&", "||"} THEN Ok(p, left)
        ELSE Then(right, AndOrRest(right.p, connect(left, right.v, peek(p).k)))

Toggled(flags) == IF "!" \in flags THEN flags \ {"!"} ELSE flags \cup {"!"}

parse_pipeline(p, flags) ==
    LET q == bump(p)
        posix == peek(q).k = "time-p"
        ignored == \/ peek(q).k = "time--"
                   \/ posix /\ (peek_n(q, 1).k = "time--" \/ peek_n(q, 1).x = "--")
        after == IF posix THEN IF ignored THEN bump(bump(q)) ELSE bump(q)
                 ELSE IF ignored THEN bump(q) ELSE q
        first == parse_command(p)
        whole == Then(first, PipeRest(first.p, first.v))
    IN  IF peek(p).k = "time"
        THEN parse_pipeline(after, flags \cup {"time"} \cup (IF posix THEN {"-p"} ELSE {}))
        ELSE IF peek(p).k = "!" THEN parse_pipeline(q, Toggled(flags))
        ELSE IF at_list_terminator(p) THEN Ok(p, [null_command EXCEPT !.f = flags])
        ELSE With(whole, [whole.v EXCEPT !.f = @ \cup flags])

add_stderr_to_stdout_redirect(c) ==
    [c EXCEPT !.r = Append(@, Redirect(">&", "2", "1", <<>>, <<>>))]

PipeRest(p, left) ==
    LET right == parse_command(skip_newlines(bump(p)))
        from == IF peek(p).k = "|&" THEN add_stderr_to_stdout_redirect(left) ELSE left
    IN  IF peek(p).k \notin {"|", "|&"} THEN Ok(p, left)
        ELSE Then(right, PipeRest(right.p, connect(from, right.v, "|")))

\* if and elif: the value is the command without its closing fi.
RECURSIVE IfChain(_)
IfChain(p) ==
    LET test == parse_list(bump(p), {"then"}, {})
        then == Then(test, expect_word(test.p, "then"))
        yes == Then(then, parse_list(then.p, {"elif", "else", "fi"}, {}))
        no == IF is_word(yes.p, "elif") THEN IfChain(yes.p)
              ELSE parse_list(bump(yes.p), {"fi"}, {})
    IN  IF yes.ok /\ (is_word(yes.p, "elif") \/ is_word(yes.p, "else"))
        THEN With(no, Node("if", <<>>, <<test.v, yes.v, no.v>>))
        ELSE With(yes, Node("if", <<>>, <<test.v, yes.v>>))

parse_if_command(p) ==
    LET c == IfChain(p) IN Then(c, With(expect_word(c.p, "fi"), c.v))

DoBody(p) ==
    LET do == expect_word(p, "do")
        action == Then(do, parse_list(do.p, {"done"}, {}))
    IN  Then(action, With(expect_word(action.p, "done"), action.v))

\* while and until
parse_while_command(p) ==
    LET test == parse_list(bump(p), {"do"}, {})
        action == Then(test, DoBody(test.p))
    IN  With(action, Node(peek(p).x, <<>>, <<test.v, action.v>>))

parse_brace_body(p) ==
    LET open == expect_kind(p, "{")
        body == Then(open, parse_list(open.p, {}, {"}"}))
    IN  IF body.ok /\ peek(body.p).k = "End" THEN Err(body.p, "eof")
        ELSE IF body.ok /\ ~previous_token_terminated_list(body.p) THEN Err(body.p, "expected")
        ELSE Then(body, With(expect_kind(body.p, "}"), body.v))

\* The body of for and select, after an optional semicolon.
LoopBody(p0) ==
    LET p1 == skip_newlines(p0)
        p == IF peek(p1).k = ";" THEN skip_newlines(bump(p1)) ELSE p1
    IN  IF peek(p).k = "{" THEN parse_brace_body(p) ELSE DoBody(p)

RECURSIVE parse_word_list_until_command_body(_, _)
parse_word_list_until_command_body(p, words) ==
    IF peek(p).k \in {"word", "assign", "number"}
    THEN parse_word_list_until_command_body(bump(p), Append(words, peek(p).raw))
    ELSE [p |-> IF peek(p).k \in {"NL", ";"} THEN skip_newlines(bump(p)) ELSE p,
          words |-> words]

parse_arith_for_command(p) ==
    LET start == IF peek(bump(p)).k = "none" THEN Len(p.in) ELSE peek(bump(p)).at
        read == collect_arith_for_exprs(bump(p), start, 0)
        clauses == split_arith_for_clauses(read.text)
        action == LoopBody(read.p)
    IN  IF Len(clauses) # 3 THEN Err(read.p, "other")
        ELSE With(action, Node("arith_for", <<>>,
                               [j \in 1 .. 3 |-> Node("arith", clauses[j], <<>>)]
                               \o <<action.v>>))

\* for and select; an empty list of words after in is the same as no list.
parse_for_command(p) ==
    LET p1 == bump(p)
        name == peek(p1)
        p2 == IF is_word(p, "for") THEN skip_newlines(bump(p1)) ELSE bump(p1)
        list == parse_word_list_until_command_body(bump(p2), <<>>)
        in == is_word(p2, "in")
        action == LoopBody(IF in THEN list.p ELSE p2)
    IN  IF is_word(p, "for") /\ name.k = "((" THEN parse_arith_for_command(p1)
        ELSE IF is_word(p, "for") /\ name.k \notin {"word", "assign", "number"}
             THEN Err(p1, "expected")
        ELSE IF name.k = "none" THEN Err(p1, "expected")
        ELSE With(action, Node(peek(p).x, <<name.raw>> \o (IF in THEN list.words ELSE <<>>),
                               <<action.v>>))

RECURSIVE CaseClauses(_, _)
CaseClauses(p0, clauses) ==
    LET p == skip_newlines(p0)
        open == IF peek(p).k = "(" THEN bump(p) ELSE p
        pats == parse_case_patterns(open, <<>>)
        stops == {";;", ";&", ";;&"}
        closed == IF ~pats.ok THEN ErrAt(open, pats.m, pats.t)
                  ELSE IF pats.closed THEN Ok(pats.p, null_command)
                  ELSE expect_kind(pats.p, ")")
        body == skip_newlines(closed.p)
        list == parse_list(body, {"esac"}, stops)
        action == IF ~closed.ok THEN closed
                  ELSE IF is_stop(body, {"esac"}, stops) THEN Ok(body, <<>>)
                  ELSE With(list, <<list.v>>)
        end == peek(action.p).k
        flags == CASE end = ";&" -> {"fallthrough"} [] end = ";;&" -> {"testnext"} [] OTHER -> {}
        clause == [Node("clause", pats.v, action.v) EXCEPT !.f = flags]
    IN  IF is_word(p, "esac") THEN Ok(bump(p), clauses)
        ELSE Then(action, CaseClauses(IF end \in stops THEN bump(action.p) ELSE action.p,
                                      Append(clauses, clause)))

parse_case_command(p) ==
    LET word == peek(bump(p))
        in == expect_word(skip_newlines(bump(bump(p))), "in")
        clauses == Then(in, CaseClauses(in.p, <<>>))
    IN  IF word.k = "none" THEN Err(bump(p), "expected")
        ELSE With(clauses, Node("case", <<word.raw>>, clauses.v))

parse_group_command(p) ==
    LET body == parse_brace_body(p) IN With(body, Node("group", <<>>, <<body.v>>))

parse_subshell_command(p) ==
    LET body == parse_list(bump(p), {}, {")"})
    IN  Then(body, With(expect_kind(body.p, ")"), Node("subshell", <<>>, <<body.v>>)))

\* What may follow the inner command of "((" that are two parentheses.
RECURSIVE DoubleRest(_, _)
DoubleRest(p, body) ==
    LET sep == peek(p).k
        q == skip_newlines(bump(p))
        right == parse_and_or(q)
    IN  IF sep \notin {";", "&", "NL"} THEN Ok(p, body)
        ELSE IF peek(q).k = ")"
        THEN Ok(q, IF sep = "&" THEN connect(body, null_command, "&") ELSE body)
        ELSE Then(right, DoubleRest(right.p, connect(body, right.v, sep)))

parse_double_subshell_command(p) ==
    LET inner == parse_subshell_command(p)
        body == Then(inner, DoubleRest(inner.p, inner.v))
    IN  Then(body, With(expect_kind(body.p, ")"), Node("subshell", <<>>, <<body.v>>)))

peek_n_is_compound_opener(p, n) ==
    \/ peek_n(p, n).k \in {"{", "(", "((", "[["}
    \/ peek_n(p, n).x \in {"{", "(", "if", "while", "until", "for", "case", "select"}

\* The lexer may have taken the brace of a body for a word.
parse_compound_body(p) ==
    LET body == parse_list(bump(p), {"}"}, {"}"})
        end == peek(body.p)
    IN  IF ~(peek(p).k = "word" /\ is_word(p, "{")) THEN parse_command(p)
        ELSE IF ~body.ok THEN body
        ELSE IF end.k = "End" THEN Err(body.p, "eof")
        ELSE Ok(IF end.k = "}" \/ (end.k = "word" /\ end.x = "}") THEN bump(body.p) ELSE body.p,
                Node("group", <<>>, <<body.v>>))

is_function_def_start(p) ==
    peek(p).k = "word" /\ peek_n(p, 1).k = "(" /\ peek_n(p, 2).k = ")"

parse_function_def(p) ==
    LET keyword == is_word(p, "function")
        name == IF keyword THEN peek_n(p, 1) ELSE peek(p)
        p1 == IF keyword THEN bump(bump(p)) ELSE bump(p)
        parens == IF peek(p1).k = "(" THEN expect_kind(bump(p1), ")")
                  ELSE IF keyword THEN Ok(p1, null_command) ELSE Err(p1, "expected")
        body == Then(parens, parse_compound_body(skip_newlines(parens.p)))
    IN  IF name.k = "none" THEN Err(bump(p), "expected")
        ELSE IF body.ok /\ body.v.c = "simple" THEN ErrAt(body.p, "body", NoToken)
        ELSE With(body, Node("function", <<name.raw>>, <<body.v>>))

parse_coproc_command(p0) ==
    LET p == bump(p0)
        named == peek(p).k = "word" /\ peek_n_is_compound_opener(p, 1)
        opener == peek_n_is_compound_opener(p, 0)
        body == IF opener THEN parse_compound_body(p)
                ELSE IF named THEN parse_compound_body(bump(p)) ELSE parse_simple_command(p)
        name == IF named /\ ~opener THEN <<peek(p).raw>> ELSE <<>>
    IN  With(body, Node("coproc", name, <<body.v>>))

parse_command(p0) ==
    LET p == [p0 EXCEPT !.docs = 0, !.body = {}]
        k == peek(p).k
        x == peek(p).x
        keyword == x \in {"if", "while", "until", "for", "select", "case", "function", "coproc"}
        defines == ~keyword /\ is_function_def_start(p)
        command ==
            CASE x = "if" -> parse_if_command(p)
              [] x \in {"while", "until"} -> parse_while_command(p)
              [] x \in {"for", "select"} -> parse_for_command(p)
              [] x = "case" -> parse_case_command(p)
              [] x = "function" \/ defines -> parse_function_def(p)
              [] x = "coproc" -> parse_coproc_command(p)
              [] k = "{" -> parse_group_command(p)
              [] k = "(" -> parse_subshell_command(p)
              [] k = "((" /\ dbl_lparen_starts_arith_command(p) -> parse_arith_command(p)
              [] k = "((" /\ ~dbl_lparen_starts_arith_command(p) ->
                     parse_double_subshell_command(p)
              [] k = "[[" -> parse_cond_command(p)
              [] unexpected_reserved_word(p) /\ ~defines -> Err(p, "other")
              [] OTHER -> parse_simple_command(p)
        whole == Then(command, parse_trailing_redirects(command.p, command.v))
    IN  IF ~whole.ok THEN whole
        ELSE Ok([whole.p EXCEPT !.docs = p0.docs, !.body = p0.body], whole.v)

parse_input_unit(p0) ==
    LET p == skip_newlines(p0)
        root == parse_list(p, {}, {})
    IN  IF peek(p).k = "End" THEN Err(p, "empty")
        ELSE IF root.ok /\ peek(skip_newlines(root.p)).k # "End"
             THEN Err(skip_newlines(root.p), "other")
        ELSE root

Parse(input) == parse_input_unit(new(Tokens(input, 0, FALSE, TRUE), input))
=============================================================================
