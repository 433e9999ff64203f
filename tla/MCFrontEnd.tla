---------------------------- MODULE MCFrontEnd ----------------------------
(***************************************************************************)
(* The front end on small inputs: the reader loop on scripts of several    *)
(* lines, the parser and the printer on the trees of the grammar, and the  *)
(* expander on the words of WordChecks.                                    *)
(***************************************************************************)
EXTENDS ReaderLoop, Grammar, WordChecks
U == INSTANCE Units

\* The reader's own answers to the loop.
MCNeedsLine(t, line) == LET needed == NeedsLine(t, line) IN needed
MCTryParse(t) == LET res == parse_text(t) IN res

\* script: the commands of the script, or none.  tree: a tree of the grammar, text:
\* its text, how: which text that is.
VARIABLES script, tree, text, how
frontVars == <<readerVars, script, tree, text, how>>
vars == <<frontVars, wordVars>>

Terminated(c) == Append(c, "NL")
Fed(cs) ==
    LET ls == Lines(FoldLeft(LAMBDA out, c : out \o Terminated(c), <<>>, cs), 1)
    IN  [i \in DOMAIN ls |-> Terminated(ls[i])]

Scripts ==
    {<<c, U!Simple>> : c \in U!Commands} \cup {<<c, w, U!Simple>> : c \in U!Few, w \in U!Wrong}

InitScript ==
    /\ script \in Scripts /\ interactive \in (IF Len(script) = 3 THEN BOOLEAN ELSE {FALSE})
    /\ feed = Fed(script) /\ gathered = <<>> /\ executed = <<>> /\ eof_reached = FALSE
    /\ tree = null_command /\ how = "script"

NoScript ==
    /\ script = <<>> /\ interactive = FALSE /\ feed = <<>> /\ gathered = <<>>
    /\ executed = <<>> /\ eof_reached = TRUE

InitWrite ==
    /\ NoScript
    /\ tree \in Trees /\ how = "write"

InitPrint ==
    /\ NoScript
    /\ tree \in Printable /\ how = "print"

InitCut ==
    /\ NoScript
    /\ tree \in {c \in Nested : Closes(c)} /\ how = "cut"

InitFront == (InitCut \/ InitPrint \/ InitWrite \/ InitScript) /\ text = <<>>
NoText == NoScript /\ tree = null_command /\ text = <<>> /\ how = "none"
Init == (InitFront /\ NoWord) \/ (NoText /\ InitWords)

Read ==
    /\ how = "script"
    /\ ReadLine \/ ReadEnd
    /\ UNCHANGED <<script, tree, text, how>>

\* A tree is written in each way, or as the printer prints it.
WriteText ==
    /\ how \in {"write", "print", "cut"}
    /\ how' = CASE how = "write" -> "written" [] how = "print" -> "printed" [] how = "cut" -> "whole"
    /\ text' \in (IF how = "print" THEN {pretty_print(tree)} ELSE {Written(tree, style) : style \in Styles})
    /\ UNCHANGED <<readerVars, script, tree>>

Next == \/ (Read \/ WriteText) /\ UNCHANGED wordVars
        \/ (Pick \/ Grow) /\ UNCHANGED frontVars
Spec == Init /\ [][Next]_vars

----------------------------------------------------------------------------
(* A property is about what a step reads or writes, so it looks at the     *)
(* state after the step.                                                   *)

\* The commands of a script that a shell runs: all that are commands if it goes on
\* after a syntax error, else those before the first error.
Wanted(cs) ==
    LET wrong == {i \in DOMAIN cs : cs[i] \in U!Wrong}
        first == CHOOSE i \in wrong : \A j \in wrong : i <= j
    IN  IF interactive' \/ wrong = {} THEN SelectSeq(cs, LAMBDA c : c \notin U!Wrong)
        ELSE SubSeq(cs, 1, first - 1)

\* The reader loop executes exactly the commands of a script, in order: the probes of
\* read_logical_command never end a command before its last line and never add a line
\* that is not its own, whatever quotes, substitutions, here-documents, operators and
\* compound commands it is made of; and after a syntax error parse_command goes on with
\* the next line if the shell is interactive, and ends it if not.
ReaderTakesWhole ==
    how' = "script" =>
        LET whole == [i \in DOMAIN Wanted(script') |-> Terminated(Wanted(script')[i])]
        IN  IsPrefix(executed', whole) /\ (eof_reached' => executed' = whole)

RECURSIVE Heredocs(_)
Heredocs(c) ==
    LET inner[i \in 0 .. Len(c.s)] == IF i = 0 THEN <<>> ELSE inner[i - 1] \o Heredocs(c.s[i])
        own == SelectSeq(c.r, LAMBDA r : r.op \in {"<<", "<<-"})
    IN  inner[Len(c.s)] \o [i \in DOMAIN own |-> own[i].body]

\* The parser gives a here-document the lines of its body, all and only them, and goes
\* on after the delimiter: nothing in a body is taken for a quote, a substitution, a
\* comment or a command.
HeredocInert ==
    \A body \in U!Bodies :
        how' = "script" /\ eof_reached' /\ script'[1] \in U!WithHeredoc(body) =>
            LET docs == Heredocs(Parse(executed'[1]).v)
            IN  docs # <<>> /\ docs[1] = Lines(U!Unescaped(body), 1)

\* The parser makes of the text of a tree that tree: precedence and associativity of
\* connectors, the extent of "!" and "time", what closes what, and which words are
\* reserved where, in each way of writing it.
ParsesGrammar ==
    how' = "written" => \E res \in {Parse(text')} : res.ok /\ res.v = tree'

\* The proper beginnings of a text, cut between two tokens.
Beginnings(whole) ==
    UNION {{SubSeq(whole, 1, ts[n].to) : n \in {n \in 1 .. Len(ts) - 2 : ts[n + 1].k \notin {"NL", "End"}}} :
               ts \in {Tokens(whole, 0, FALSE, TRUE)}}

\* A compound command cut short is never taken for a whole one.
PrefixRejected == how' = "whole" => \A short \in Beginnings(text') : ~Parse(short).ok

\* A newline between commands means the same as a semicolon.
RECURSIVE Meaning(_)
Meaning(c) == [c EXCEPT !.c = IF @ = "NL" THEN ";" ELSE @,
                        !.s = [i \in DOMAIN @ |-> Meaning(@[i])]]

\* What the printer prints for a command (declare -f, type, jobs, exported functions)
\* is read back as the same command.
PrettyRoundTrip ==
    how' = "printed" => \E res \in {Parse(text')} : res.ok /\ Meaning(res.v) = Meaning(tree')

\* A script is cut into its commands and nothing else, with all of the here-documents
\* in their places.
ScriptTakenWhole == [][ReaderTakesWhole /\ HeredocInert]_vars

\* The parser reads what the grammar says, and no less.
ParserExact == [][ParsesGrammar /\ PrefixRejected]_vars

\* What the shell prints to be read again, commands and quoted values, is read as the
\* same thing.
PrintedReadsBack == [][PrettyRoundTrip /\ QuotedReadsBack(subject')]_vars

=============================================================================
