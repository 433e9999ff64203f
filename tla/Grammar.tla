------------------------------ MODULE Grammar ------------------------------
(***************************************************************************)
(* The reference for Parser and Pretty: the shell grammar, as the trees it *)
(* generates and the text each is written as.  Nothing here is taken from  *)
(* the parser; a tree is right if it is what its text means in the shell.  *)
(***************************************************************************)
EXTENDS Pretty

S(words) == Node("simple", words, <<>>)
Flagged(c, flags) == [c EXCEPT !.f = flags]
WithRedirects(c, rs) == [c EXCEPT !.r = rs]

\* The text of a tree.  sep separates the commands inside compound commands and
\* style says how freely newlines and the optional spellings are used.
RECURSIVE Text(_, _)

WrittenRedirects(rs) ==
    LET out[i \in 0 .. Len(rs)] ==
            IF i = 0 THEN <<>>
            ELSE out[i - 1] \o (IF rs[i].fd = default_redirect_fd(rs[i].op) THEN <<>>
                                ELSE <<"fd" \o rs[i].fd>>)
                            \o <<rs[i].op, rs[i].to>>
    IN  out[Len(rs)]

Listed(c, style) ==
    Text(c, style) \o (IF c.c = "&" /\ is_null_command(c.s[2]) THEN <<>> ELSE <<style.sep>>)

Block(open, c, close, style) == <<open>> \o Listed(c, style) \o <<close>>

Patterns(ws) == [j \in 1 .. 2 * Len(ws) - 1 |-> IF j % 2 = 1 THEN ws[(j + 1) \div 2] ELSE "|"]

ClauseText(cl, style) ==
    (IF style.free THEN <<"(">> ELSE <<>>) \o Patterns(cl.w) \o <<")">>
    \o (IF cl.s = <<>> THEN <<>> ELSE Listed(cl.s[1], style))
    \o <<IF cl.f = {} THEN ";;" ELSE IF "testnext" \in cl.f THEN ";;&" ELSE ";&">>

IfText(word, c, style) ==
    <<word>> \o Listed(c.s[1], style) \o <<"then">> \o Listed(c.s[2], style)
    \o (IF Len(c.s) = 2 THEN <<>>
        ELSE IF style.free /\ c.s[3].c = "if" /\ c.s[3].f = {} /\ c.s[3].r = <<>>
             THEN SubSeq(Text(c.s[3], [style EXCEPT !.word = "elif"]), 1,
                         Len(Text(c.s[3], [style EXCEPT !.word = "elif"])) - 1)
             ELSE <<"else">> \o Listed(c.s[3], [style EXCEPT !.word = "if"]))
    \o <<"fi">>

\* The text of an expression of [[ ]].
RECURSIVE CondText(_)
CondText(c) ==
    CASE c.c = "cond_and"    -> CondText(c.s[1]) \o <<"&&">> \o CondText(c.s[2])
      [] c.c = "cond_or"     -> CondText(c.s[1]) \o <<"||">> \o CondText(c.s[2])
      [] c.c = "cond_not"    -> <<"!">> \o CondText(c.s[1])
      [] c.c = "cond_expr"   -> <<"(">> \o CondText(c.s[1]) \o <<")">>
      [] c.c = "cond_unary"  -> c.w \o CondText(c.s[1])
      [] c.c = "cond_binary" -> CondText(c.s[1]) \o c.w \o CondText(c.s[2])
      [] OTHER               -> c.w

Plain(c, style0) ==
    LET style == [style0 EXCEPT !.word = "if"]
        gap == IF style.free THEN <<"NL">> ELSE <<>>
        done(body) == Block("do", body, "done", style)
        clauses[i \in 0 .. Len(c.s)] ==
            IF i = 0 THEN <<>> ELSE clauses[i - 1] \o ClauseText(c.s[i], style) \o gap
    IN  CASE c.c \in {";", "NL"} -> Text(c.s[1], style) \o <<c.c>> \o Text(c.s[2], style)
          [] c.c = "&" -> Text(c.s[1], style) \o <<"&">>
                          \o (IF is_null_command(c.s[2]) THEN <<>> ELSE Text(c.s[2], style))
          [] c.c \in {"&&", "||", "|"} ->
                 Text(c.s[1], style) \o <<c.c>> \o gap \o Text(c.s[2], style)
          [] c.c = "simple" -> c.w
          [] c.c = "if" -> IfText(style0.word, c, style)
          [] c.c \in {"while", "until"} -> <<c.c>> \o Listed(c.s[1], style) \o done(c.s[2])
          [] c.c \in {"for", "select"} ->
                 <<c.c, c.w[1]>>
                 \o (IF Len(c.w) = 1 THEN <<>> ELSE <<"in">> \o Tail(c.w)) \o <<style.sep>>
                 \o (IF style.free THEN <<"NL">> \o Block("{", c.s[1], "}", style)
                     ELSE done(c.s[1]))
          [] c.c = "arith_for" ->
                 <<"for", "((">> \o c.s[1].w \o <<";">> \o c.s[2].w \o <<";">> \o c.s[3].w
                 \o <<"))", style.sep>> \o done(c.s[4])
          [] c.c = "case" -> <<"case", c.w[1]>> \o gap \o <<"in">> \o gap
                             \o clauses[Len(c.s)] \o <<"esac">>
          [] c.c = "group" -> Block("{", c.s[1], "}", style)
          [] c.c = "subshell" -> IF style.free THEN Block("(", c.s[1], ")", style)
                                 ELSE <<"(">> \o Text(c.s[1], style) \o <<")">>
          [] c.c = "function" ->
                 (IF style.free THEN <<"function", c.w[1]>> ELSE <<c.w[1], "(", ")">>)
                 \o gap \o Text(c.s[1], style)
          [] c.c = "coproc" -> <<"coproc">> \o c.w \o Text(c.s[1], style)
          [] c.c = "arith" -> <<"((">> \o c.w \o <<"))">>
          [] OTHER -> <<"[[">> \o gap \o CondText(c) \o gap \o <<"]]">>

Text(c, style) ==
    (IF "time" \in c.f THEN <<"time">> ELSE <<>>)
    \o (IF "-p" \in c.f THEN <<"-p">> ELSE <<>>)
    \o (IF "!" \in c.f THEN <<"!">> ELSE <<>>)
    \o Plain(c, style) \o WrittenRedirects(c.r)

\* Two closing parentheses written together.
Glued(text) ==
    LET out[i \in 0 .. Len(text)] ==
            IF i = 0 THEN <<>>
            ELSE IF text[i] = ")" /\ i > 1 /\ text[i - 1] = ")" /\ ~(out[i - 1][Len(out[i - 1])] = "))")
                 THEN SubSeq(out[i - 1], 1, Len(out[i - 1]) - 1) \o <<"))">>
                 ELSE Append(out[i - 1], text[i])
    IN  out[Len(text)]

Written(c, style) == Spaced(IF style.glued THEN Glued(Text(c, style)) ELSE Text(c, style))

Styles ==
    {[sep |-> ";", free |-> FALSE, glued |-> FALSE, word |-> "if"],
     [sep |-> "NL", free |-> TRUE, glued |-> FALSE, word |-> "if"],
     [sep |-> ";", free |-> FALSE, glued |-> TRUE, word |-> "if"]}

----------------------------------------------------------------------------
(***************************************************************************)
(* The trees.  Each level of the grammar is built from the level below, so *)
(* a tree groups its parts the way precedence and associativity say.       *)
(***************************************************************************)
A == S(<<"a">>)
B == S(<<"b", "if">>)
To(op, fd, to) == Redirect(op, fd, to, <<>>, <<>>)

Simples ==
    {A, S(<<"x=1", "a">>), WithRedirects(S(<<"a", "2">>), <<To(">", "2", "b")>>)}

Pipelines(cs) ==
    cs \cup {connect(c, B, "|") : c \in cs}
       \cup {connect(connect(A, c, "|"), B, "|") : c \in cs}
       \cup {Flagged(c, f) : c \in cs, f \in {{"!"}, {"time"}, {"time", "-p", "!"}}}
       \cup {Flagged(connect(c, B, "|"), {"!"}) : c \in cs}

AndOrs(ps) ==
    ps \cup {connect(p, B, op) : p \in ps, op \in {"&&", "||"}}
       \cup {connect(A, p, op) : p \in ps, op \in {"&&", "||"}}
       \cup {connect(connect(A, p, "&&"), B, "||") : p \in ps}
       \cup {connect(connect(A, p, "||"), B, "&&") : p \in ps}

Lists(as) ==
    as \cup {connect(a, B, op) : a \in as, op \in {";", "&", "NL"}}
       \cup {connect(A, a, op) : a \in as, op \in {";", "&", "NL"}}
       \cup {connect(a, null_command, "&") : a \in as}
       \cup {connect(connect(A, a, "&"), B, ";") : a \in as}

Clauses(l) ==
    {<<Node("clause", <<"a">>, <<l>>)>>,
     <<Flagged(Node("clause", <<"a", "b">>, <<l>>), {"fallthrough"}),
       Flagged(Node("clause", <<"*">>, <<>>), {"testnext"}),
       Node("clause", <<"c">>, <<A>>)>>}

\* Commands that begin with a word.  After the name of a coprocess a brace is not
\* taken to begin a command, so "!", "time" and braces after it are plain words.
RECURSIVE BeginsPlain(_)
BeginsPlain(c) ==
    /\ c.f = {}
    /\ IF c.c \in {";", "NL", "&", "&&", "||", "|"} THEN BeginsPlain(c.s[1]) ELSE c.c = "simple"

Compounds(l) ==
    {Node("if", <<>>, <<l, A>>), Node("if", <<>>, <<A, l>>), Node("if", <<>>, <<A, B, l>>),
     Node("if", <<>>, <<A, B, Node("if", <<>>, <<A, l, B>>)>>),
     Node("while", <<>>, <<l, A>>), Node("until", <<>>, <<A, l>>),
     Node("for", <<"x">>, <<l>>), Node("for", <<"x", "a", "in">>, <<l>>),
     Node("select", <<"x", "do">>, <<l>>),
     Node("arith_for", <<>>, <<Node("arith", <<"x">>, <<>>), Node("arith", <<>>, <<>>),
                              Node("arith", <<"(", "x", ")">>, <<>>), l>>),
     Node("group", <<>>, <<l>>), Node("subshell", <<>>, <<l>>),
     WithRedirects(Node("subshell", <<>>, <<l>>), <<To("<", "0", "b"), To(">>", "v", "a")>>),
     Node("function", <<"f">>, <<Node("group", <<>>, <<l>>)>>),
     Node("function", <<"f">>, <<WithRedirects(Node("subshell", <<>>, <<l>>),
                                               <<To(">&", "2", "1")>>)>>),
     Node("coproc", <<>>, <<Node("group", <<>>, <<l>>)>>)}
    \cup {Node("coproc", <<"N">>, <<Node("group", <<>>, <<b>>)>>) : b \in {b \in {l} : BeginsPlain(b)}}
    \cup {Node("case", <<"a">>, cls) : cls \in Clauses(l)}

Leaf(x) == Node("leaf", <<x>>, <<>>)
CondTerms ==
    {Node("cond_unary", <<"-n">>, <<Leaf("a")>>),
     Node("cond_unary", <<"-z">>, <<Leaf("-z")>>),
     Node("cond_binary", <<"==">>, <<Leaf("a"), Leaf("!")>>),
     Node("cond_binary", <<"<">>, <<Leaf("a"), Leaf("b")>>)}
CondNots(ts) == ts \cup {Node("cond_not", <<>>, <<t>>) : t \in ts}
CondAnds(ts) == ts \cup {Node("cond_and", <<>>, <<t, u>>) : t \in ts, u \in ts}
CondOrs(ts) == ts \cup {Node("cond_or", <<>>, <<t, u>>) : t \in ts, u \in CondTerms}
CondParens(ts) == {Node("cond_expr", <<>>, <<t>>) : t \in ts}
Conditions ==
    LET flat == CondOrs(CondAnds(CondNots(CondTerms)))
        few == CondOrs({CHOOSE t \in CondTerms : TRUE})
    IN  flat \cup CondAnds(CondNots(CondParens(few)))

Arithmetics == {Node("arith", ws, <<>>) : ws \in {<<"x">>, <<"x", "[", "b", "]">>,
                                                  <<"(", "x", ")", "a">>}}

Small == Lists(AndOrs(Pipelines(Simples)))
Few == {A, connect(A, B, "|"), connect(A, B, ";"), connect(A, null_command, "&")}
Some == Few \cup Lists(AndOrs({Flagged(connect(A, B, "|"), {"!"})}))
Level1 == UNION {Compounds(l) : l \in Some}
Nested == UNION {Compounds(l) : l \in Few}
Around(c) == {connect(c, B, ";"), connect(A, c, "|"), connect(c, null_command, "&"),
              Flagged(c, {"!"})}
Inner == Compounds(connect(A, null_command, "&"))
Level2 == UNION {Compounds(l) : l \in UNION {Around(c) : c \in Inner}}
Trees == Small \cup Level1 \cup Level2 \cup Conditions \cup Arithmetics \cup Lists(Nested)

\* Trees the printer is known to get right: without unary conditions, and with the
\* redirections it prints.
Printable ==
    Small \cup Level1
    \cup UNION {Compounds(connect(c, B, ";")) : c \in Nested}
    \cup UNION {Compounds(WithRedirects(Node("group", <<>>, <<l>>), <<To(">", "1", "b")>>)) : l \in Few}

\* Compound commands that end with the word that closes them.
Closes(c) ==
    /\ c.c \in {"if", "while", "until", "for", "select", "arith_for", "case", "group", "subshell"}
    /\ c.r = <<>>
=============================================================================
