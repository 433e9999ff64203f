------------------------------- MODULE Pretty -------------------------------
(***************************************************************************)
(* The printer of crates/parser/src/pretty.rs: from a command back to      *)
(* text.  Indentation is only kept as whether there is any, which decides  *)
(* how two commands are separated.                                         *)
(***************************************************************************)
EXTENDS Parser

\* The symbols of a word or operator; "fd1" is a number that touches what follows.
Chars(x) ==
    CASE x = "x=1" -> <<"x", "=", "1">>
      [] x \in {">>", "<<", "&&", "||", ";;", "((", "))"} ->
             LET c == CHOOSE c \in {">", "<", "&", "|", ";", "(", ")"} : x = c \o c IN <<c, c>>
      [] x = "<&"  -> <<"<", "&">>
      [] x = ">&"  -> <<">", "&">>
      [] x = ">|"  -> <<">", "|">>
      [] x = "<>"  -> <<"<", ">">>
      [] x = "<<<" -> <<"<", "<", "<">>
      [] x = "<<-" -> <<"<", "<", "-">>
      [] x = "&>"  -> <<"&", ">">>
      [] x = "&>>" -> <<"&", ">", ">">>
      [] x = ";&"  -> <<";", "&">>
      [] x = ";;&" -> <<";", ";", "&">>
      [] x = "-1"  -> <<"-", "1">>
      [] x = "1-"  -> <<"1", "-">>
      [] OTHER -> <<x>>

Touching(x) == CASE x = "fd1" -> <<"1">> [] x = "fd2" -> <<"2">> [] x = "fdv" -> <<"{", "v", "}">>
                 [] OTHER -> <<>>

Spaced(lexemes) ==
    LET out[i \in 0 .. Len(lexemes)] ==
            IF i = 0 THEN <<>>
            ELSE out[i - 1] \o (CASE lexemes[i] = "NL" -> <<"NL">>
                                  [] Touching(lexemes[i]) # <<>> -> Touching(lexemes[i])
                                  [] OTHER -> Append(Chars(lexemes[i]), " "))
    IN  out[Len(lexemes)]

put(out, lexemes) == out \o Spaced(lexemes)

last_of(out) == previous_significant_byte(out, Len(out) + 1)
trimmed(out) ==
    LET dark == {h \in 1 .. Len(out) : out[h] # " "}
    IN  IF dark = {} THEN <<>> ELSE SubSeq(out, 1, CHOOSE h \in dark : \A g \in dark : g <= h)
newline(out) ==
    LET t == trimmed(out) IN IF t # <<>> /\ t[Len(t)] = "NL" THEN t ELSE Append(t, "NL")
finish_statement(out) ==
    LET t == trimmed(out)
    IN  IF t # <<>> /\ t[Len(t)] \in {";", "&", "NL"} THEN t ELSE t \o <<";", " ">>

is_null_command(c) == c.c = "simple" /\ c.w = <<>> /\ c.r = <<>>
is_compound(c) ==
    c.c \in {"for", "case", "while", "until", "if", "function", "group", "select",
             "arith_for", "subshell", "coproc"}

\* Plain operator of an instruction; a move or a word is written with the same one.
OperatorOf(op) ==
    CASE op \in {"<&", "w<&", "move<&", "movew<&"} -> "<&"
      [] op \in {">&", "w>&", "move>&", "movew>&", "close"} -> ">&"
      [] OTHER -> op

PrintedFd(r) ==
    LET default == IF r.op \in {"<", "<<", "<<<", "<<-", "<&", "w<&", "move<&", "movew<&"}
                   THEN "0" ELSE "1"
    IN  IF r.fd = default THEN <<>> ELSE <<"fd" \o r.fd>>

PrintedBody(lines) ==
    LET out[i \in 0 .. Len(lines)] ==
            IF i = 0 THEN <<"NL">> ELSE Append(out[i - 1] \o lines[i], "NL")
    IN  out[Len(lines)]

redirect(out, r) ==
    put(out, PrintedFd(r) \o <<OperatorOf(r.op), r.to>>)
    \o (IF r.op \in {"<<", "<<-"} THEN PrintedBody(r.body) \o r.eof ELSE <<>>)

redirects(out, rs) ==
    LET done[i \in 0 .. Len(rs)] == IF i = 0 THEN out ELSE redirect(done[i - 1], rs[i])
    IN  done[Len(rs)]

RECURSIVE condition(_)
condition(c) ==
    CASE c.c = "cond_and"    -> condition(c.s[1]) \o <<"&&">> \o condition(c.s[2])
      [] c.c = "cond_or"     -> condition(c.s[1]) \o <<"||">> \o condition(c.s[2])
      [] c.c = "cond_binary" -> condition(c.s[1]) \o c.w \o condition(c.s[2])
      [] c.c = "cond_expr"   -> <<"(">> \o condition(c.s[1]) \o <<")">>
      [] c.c = "cond_unary"  -> c.w      \* the operand is in left, the printer looks in term
      [] c.c = "cond_not"    -> <<>>     \* likewise
      [] OTHER               -> c.w

RECURSIVE command(_, _, _, _), Statement(_, _, _, _), block_body(_, _)

Clause(out, cl) ==
    LET pats == IF cl.w = <<>> THEN <<>>
                ELSE [j \in 1 .. 2 * Len(cl.w) - 1 |->
                         IF j % 2 = 1 THEN cl.w[(j + 1) \div 2] ELSE "|"]
        head == put(out, Append(pats, ")"))
        body == IF cl.s = <<>> THEN head ELSE command(newline(head), cl.s[1], TRUE, TRUE)
        mark == IF "fallthrough" \in cl.f THEN ";&"
                ELSE IF "testnext" \in cl.f THEN ";;&" ELSE ";;"
    IN  CHOOSE r \in {newline(put(newline(b), <<mark>>)) : b \in {body}} : TRUE

case_command(out, c) ==
    LET done[i \in 0 .. Len(c.s)] ==
            IF i = 0 THEN newline(put(out, <<"case">> \o c.w \o <<"in">>))
            ELSE CHOOSE r \in {Clause(before, c.s[i]) : before \in {done[i - 1]}} : TRUE
    IN  put(done[Len(c.s)], <<"esac">>)

arith_for(out, c) ==
    put(out, <<"for", "((">> \o c.s[1].w \o <<";">> \o c.s[2].w \o <<";">> \o c.s[3].w
             \o <<"))">>)

\* What a word opens, up to the word that closes it.
Enclosed(out, open, body, close) ==
    CHOOSE r \in {put(newline(inner), <<close>>) :
                       inner \in {block_body(newline(put(out, <<open>>)), body)}} : TRUE

Body(out, c, indented) ==
    CASE c.c = "simple" -> put(out, c.w)
      [] c.c \in {"for", "select"} ->
             Enclosed(newline(put(out, <<c.c, c.w[1]>>
                                       \o (IF Len(c.w) > 1 THEN <<"in">> \o Tail(c.w) ELSE <<>>)
                                       \o <<";">>)), "do", c.s[1], "done")
      [] c.c = "arith_for" -> Enclosed(newline(arith_for(out, c)), "do", c.s[4], "done")
      [] c.c = "case" -> case_command(out, c)
      [] c.c \in {"while", "until"} ->
             Enclosed(command(put(out, <<c.c>>), c.s[1], FALSE, TRUE), "do", c.s[2], "done")
      [] c.c = "if" ->
             LET test == command(put(out, <<"if">>), c.s[1], FALSE, TRUE)
             IN  IF Len(c.s) = 2 THEN Enclosed(test, "then", c.s[2], "fi")
                 ELSE Enclosed(newline(block_body(newline(put(test, <<"then">>)), c.s[2])),
                               "else", c.s[3], "fi")
      [] c.c = "function" ->
             command(newline(put(out, c.w \o <<"(", ")">>)), c.s[1], indented, FALSE)
      [] c.c = "group" -> Enclosed(out, "{", c.s[1], "}")
      [] c.c = "subshell" -> Enclosed(out, "(", c.s[1], ")")
      [] c.c = "arith" -> put(out, <<"((">> \o c.w \o <<"))">>)
      [] c.c = "coproc" -> command(put(out, <<"coproc">> \o c.w), c.s[1], FALSE, FALSE)
      [] OTHER -> put(out, <<"[[">> \o condition(c) \o <<"]]">>)

\* indented: the command is inside another one; statement: it ends with a semicolon.
\* The set makes TLC print what comes before first.
command(out0, c, indented, statement) ==
    CHOOSE out \in {Statement(before, c, indented, statement) : before \in {out0}} : TRUE

Statement(before, c, indented, statement) ==
    LET out == put(before, (IF "time" \in c.f THEN <<"time">> ELSE <<>>)
                         \o (IF "-p" \in c.f THEN <<"-p">> ELSE <<>>)
                         \o (IF "!" \in c.f THEN <<"!">> ELSE <<>>))
        whole == redirects(Body(out, c, indented), c.r)
    IN  CASE c.c \in {";", "NL"} ->
                 LET compound == is_compound(c.s[1])
                     second(first) ==
                         IF compound /\ indented
                         THEN command(IF last_of(first) = ";" THEN first ELSE put(first, <<";">>),
                                      c.s[2], FALSE, statement)
                         ELSE command(newline(first), c.s[2], indented, statement)
                 IN  CHOOSE r \in {second(first) :
                         first \in {command(out, c.s[1], indented, ~compound \/ indented)}} : TRUE
          [] c.c = "&" ->
                 LET first == put(command(out, c.s[1], indented, FALSE), <<"&">>)
                 IN  IF is_null_command(c.s[2]) THEN first
                     ELSE command(newline(first), c.s[2], indented, statement)
          [] c.c \in {"&&", "||", "|"} ->
                 LET both == command(put(command(out, c.s[1], indented, FALSE), <<c.c>>),
                                     c.s[2], FALSE, FALSE)
                 IN  IF statement THEN finish_statement(both) ELSE both
          [] OTHER -> IF statement THEN finish_statement(whole) ELSE whole

\* Mutant: nor those of a group with redirections.
DropsRedirections(out, c) ==
    IF c.c = "group" THEN command(out, c.s[1], TRUE, TRUE) ELSE command(out, c, TRUE, TRUE)
\* The braces of a group that is a body of its own are not printed.
block_body(out, c) ==
    IF c.c = "group" /\ c.r = <<>> THEN command(out, c.s[1], TRUE, TRUE)
    ELSE command(out, c, TRUE, TRUE)

pretty_print(root) == newline(command(<<>>, root, FALSE, FALSE))
=============================================================================
