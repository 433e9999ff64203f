------------------------------- MODULE Units -------------------------------
(***************************************************************************)
(* The reference for the reader loop: whole commands that take several     *)
(* lines, written from the shell's grammar, and the scripts made of them.  *)
(* None is whole before its last line.                                     *)
(***************************************************************************)
EXTENDS Sequences, Integers

\* Arguments that take more than one line.
Spanning ==
    {<<"'", "b", "NL", "\"", "'">>,
     <<"\"", "b", "NL", "'", "\"">>,
     <<"\"", "\\", "\"", "NL", "\"">>,
     <<"$", "'", "\\", "'", "NL", "'">>,
     <<"BQ", "b", "NL", "c", "BQ">>,
     <<"\\", "NL", "b">>,
     <<"b", "\\", "NL", "\\", "NL", "c">>,
     <<"$", "(", "b", "NL", "c", ")">>,
     <<"$", "(", "b", " ", "'", "NL", ")", "'", ")">>,
     <<"$", "(", "case", " ", "b", " ", "in", "NL", "b", ")", " ", "c", ";", ";", "NL", "esac", ")">>,
     <<"$", "(", "b", " ", "#", " ", ")", "NL", ")">>,
     <<"$", "(", "(", " ", "1", "NL", "2", " ", ")", ")">>,
     <<"\"", "$", "(", "b", " ", "\"", "NL", ")", "\"", ")", "\"">>,
     <<"\"", "$", "{", "x", "NL", "}", "\"">>,
     <<"\"", "BQ", "b", "NL", "BQ", "\"">>,
     <<"$", "{", " ", "b", ";", "NL", "}">>,
     <<"<", "(", "b", "NL", ")">>}

Plain == <<"b">>

\* Commands with an argument in them.
Around(x) ==
    LET a == <<"a", " ">> \o x
    IN  {a,
         a \o <<" ", "&", "&", "NL", "b">>,
         <<"b", " ", "|", "|", "NL", "NL">> \o a,
         <<"b", " ", "|", " ", "#", " ", "'", "NL">> \o a,
         <<"if", " ">> \o a \o <<"NL", "then", " ">> \o a \o <<"NL", "fi">>,
         <<"while", " ", "b", "NL", "do", " ">> \o a \o <<";", "NL", "done">>,
         <<"for", " ", "x", " ", "in", " ">> \o x \o <<"NL", "do", "NL", "b", "NL", "done">>,
         <<"case", " ">> \o x \o <<" ", "in", "NL", "b", ")", "NL">> \o a \o <<"NL", ";", ";", "NL", "esac">>,
         <<"{", "NL">> \o a \o <<"NL", "}", " ", ">", " ", "b">>,
         <<"(", " ">> \o a \o <<"NL", "b", ")">>,
         <<"f", "(", ")", " ", "{", "NL">> \o a \o <<"NL", "}">>,
         <<"f", "(", ")", "NL", "{", "NL">> \o a \o <<"NL", "}">>,
         <<"function", " ", "f", " ", "{", " ">> \o a \o <<"NL", "}">>,
         <<"!", " ", "{", " ">> \o a \o <<"NL", "}", " ", "&">>}

\* A compound assignment.  The lexer counts parentheses in it, those of a case
\* pattern inside a command substitution too.
Assigned(x) == {<<"x", "=", "(", "b", "NL">> \o x \o <<")">>}

\* Commands with here-documents; the bodies are not commands.
Bodies ==
    {<<>>, <<"'", "NL">>, <<"\"", "$", "(", "b", "NL">>, <<"BQ", "NL", "#", "E", "NL">>,
     <<"E", " ", "NL", "if", "NL">>, <<"b", "\\", "NL", "E", "NL">>}
WithHeredoc(body) ==
    {<<"a", " ", "<", "<", "E", "NL">> \o body \o <<"E">>,
     <<"a", " ", "<", "<", "-", "E", " ", "|", " ", "b", "NL">> \o body \o <<"TAB", "E">>,
     <<"if", " ", "a", " ", "<", "<", " ", "E", "NL">> \o body
         \o <<"E", "NL", "then", "NL", "b", "NL", "fi">>,
     <<"a", " ", "<", "<", "E", " ", "<", "<", " ", "F", "NL">> \o body \o <<"E", "NL", "b", "NL", "F">>,
     <<"f", "(", ")", " ", "{", "NL", "a", " ", "<", "<", "E", "NL">> \o body
         \o <<"E", "NL", "b", "NL", "}">>}
Literal ==
    {<<"a", " ", "<", "<", "'", "E", "'", "NL", "b", "\\", "NL", "E">>,
     <<"a", " ", "<", "<", "\\", "E", "NL", "E", "\\", "NL", "E">>}

Commands ==
    UNION {Around(x) : x \in Spanning \cup {Plain}}
    \cup UNION {Assigned(x) : x \in {x \in Spanning : x[3] # "case"}}
    \cup UNION {WithHeredoc(body) : body \in Bodies} \cup Literal

\* The text of a body whose delimiter is not quoted: escaped newlines are removed.
Unescaped(body) ==
    LET out[i \in 0 .. Len(body)] ==
            IF i = 0 THEN <<>>
            ELSE IF body[i] = "\\" \/ (i > 1 /\ body[i] = "NL" /\ body[i - 1] = "\\") THEN out[i - 1]
            ELSE Append(out[i - 1], body[i])
    IN  out[Len(body)]

Few ==
    {<<"b">>, <<"if", " ", "b", "NL", "then", " ", "b", "NL", "fi">>,
     <<"a", " ", "<", "<", "E", "NL", "'", "NL", "E">>, <<"a", " ", "|", "NL", "'", "NL", "'">>}

\* A command of one line, and lines that are no command at all.
Simple == <<"b">>
Wrong == {<<"fi">>, <<"a", " ", ")", " ", "b">>, <<"a", " ", "$", "(", ")", ")">>}
============================================================================
