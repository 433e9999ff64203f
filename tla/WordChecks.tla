----------------------------- MODULE WordChecks -----------------------------
(***************************************************************************)
(* The expander against the meaning of what it expands: arithmetic, brace  *)
(* expansion, patterns, pathnames, whole words, and quoting.  A subject is *)
(* one input; it grows by a step where the inputs are trees.               *)
(***************************************************************************)
EXTENDS Expansion, ArithTrees, PatternLanguage, WordTrees, TLC

VARIABLES subject, grown
wordVars == <<subject, grown>>
NoWord == subject = [k |-> "none"] /\ grown = TRUE

----------------------------------------------------------------------------
(* Arithmetic. *)
ax == Var(<<"x">>)
Leaves == {Int_(0), Int_(3), ax}
Places == {ax, Elem(ax)}
BinOps == UNION {Levels[k] : k \in DOMAIN Levels}
SetOps == {Front(o) : o \in AssignOps}
UnOps == {<<"+">>, <<"-">>, <<"!">>, <<"~">>}
IncOps == {PlusPlus, MinusMinus}
ArithOnce ==
    {Un(o, s) : o \in UnOps, s \in Leaves} \cup {Bin(o, s, u) : o \in BinOps, s \in Leaves, u \in {Int_(0), ax}}
        \cup {Cond(c, s, ax) : c \in Leaves, s \in Leaves}
        \cup {Set(o, p, s) : o \in SetOps, p \in Places, s \in {Int_(0), ax}}
        \cup {Pre(o, p) : o \in IncOps, p \in Places} \cup {Post(o, p) : o \in IncOps, p \in Places}
        \cup {Var(<<"z">>), Var(<<"p">>), Var(<<"u">>)}
ArithEnv == [vars |-> (<<"x">> :> (0 :> Int_(3))) @@ (<<"z">> :> (0 :> Bin(<<"+">>, Post(PlusPlus, ax), Int_(1))))
                       @@ (<<"p">> :> (0 :> Var(<<"q">>))) @@ (<<"q">> :> (0 :> Var(<<"p">>)))
                       @@ (<<"a">> :> (1 :> Int_(5))),
             arrays |-> {<<"a">>}, readonly |-> {}, nounset |-> FALSE, depth |-> 0]
PickArith == \E t \in ArithOnce \cup Leaves,
                env \in {ArithEnv, [ArithEnv EXCEPT !.nounset = TRUE], [ArithEnv EXCEPT !.readonly = {<<"x">>}]} :
                subject' = [k |-> "arith", t |-> t, env |-> env]
ArithAround(t) ==
    {Bin(o, Int_(0), t) : o \in BinOps} \cup {Bin(o, t, ax) : o \in BinOps} \cup {Un(o, t) : o \in UnOps}
        \cup {Cond(t, ax, Int_(0)), Cond(ax, t, Int_(0)), Cond(ax, Int_(0), t)}
        \cup {Set(o, ax, t) : o \in {<<>>, <<"+">>, <<"/">>, <<"<", "<">>}} \cup {Set(<<>>, Elem(t), ax)}
        \cup {Post(PlusPlus, Elem(t))}
GrowArith == /\ subject.k = "arith"
             /\ subject.env # ArithEnv => subject.t.op \in {"set", "post", "var"}
             /\ \E t \in ArithAround(subject.t) : subject' = [subject EXCEPT !.t = t]

----------------------------------------------------------------------------
(* Braces. *)
EndTexts == {<<"0">>, <<"2">>, <<"0", "1">>, <<"-", "3">>, <<"-", "0", "2">>, <<"9">>, <<"1", "2">>, <<"-", "1", "3">>}
StepTexts == {<<>>, <<<<"2">>>>, <<<<"-", "5">>>>, <<<<"0">>>>}
Sequences_ == {Seq_(a, b, s) : a \in EndTexts, b \in EndTexts, s \in StepTexts}
               \cup {Seq_(a, b, s) : a, b \in {<<"A">>, <<"a">>, <<"c">>}, s \in StepTexts}
BraceTexts == {Verbatim(s) : s \in {<<"a">>, <<"'", ",", "{", "'">>, <<"\"", "}", "\\", "\"", ",", "\"">>, <<"\\", "}">>,
                                  <<"$", "{", "x", "}">>, <<".", ".", "=">>, <<>>}}
BraceLists(w) == UNION {{<<List(<<w, <<p>>>>)>>, <<List(<<<<p>>, w, w>>)>>} : p \in {Verbatim(<<"\\", ",">>), Verbatim(<<>>)}}
PickBrace == \E p \in Sequences_ \cup BraceTexts : subject' = [k |-> "brace", w |-> <<p>>]
GrowBrace == /\ subject.k = "brace" /\ (subject.w[1].k = "seq" => subject.w[1].by = <<>>)
             /\ \E v \in {subject.w, <<Lone(subject.w)>>} \cup BraceLists(subject.w) :
                    \/ subject' = [subject EXCEPT !.w = v]
                    \/ \E p \in BraceTexts : subject' = [subject EXCEPT !.w = v \o <<p>>]
                    \/ \E u \in BraceLists(v) \cup {<<Verbatim(<<"{">>)>> \o v} : subject' = [subject EXCEPT !.w = u]

----------------------------------------------------------------------------
(* Patterns, on all short texts. *)
Characters == {Lit("a"), Lit("b"), Lit("*"), Lit(")"), Star, Question}
Classes == {Class(TRUE, <<Single("]"), Single("a")>>), Class(FALSE, <<Span("a", "c")>>),
            Class(FALSE, <<Single("-"), Named("upper"), Single("!")>>), Class(TRUE, <<Span("*", "a")>>)}
ExtBodies == {<<<<Lit("a")>>, <<Lit("a"), Lit("b")>>>>, <<<<Star, Lit("b")>>>>, <<<<>>, <<Lit(")")>>>>,
             <<<<Ext("Bang", <<<<Lit("a")>>>>), Lit("b")>>, <<Lit("a")>>>>,
             <<<<Ext("Star", <<<<Lit("a")>>, <<>>>>), Lit("b")>>>>}
Extended == {Ext(way, b) : way \in {"At", "Q", "Star", "Plus", "Bang"}, b \in ExtBodies}
MatchTexts == UNION {[1 .. n -> {"a", "b", "A", "*", ")"}] : n \in 0 .. 2} \cup [1 .. 3 -> {"a", "b"}]
              \cup {<<"a", "a", "b", "b">>, <<"*", "a", ")">>, <<"a", ")", ")">>}
CutTexts == UNION {[1 .. n -> {"a", "b"}] : n \in 1 .. 2} \cup {<<"b", "a", "b">>, <<"a", "a", "b", "b">>, <<"*", "a", ")">>, <<"A", ")">>}
PickPattern == \E how \in Quoting, t \in Characters \cup Classes \cup Extended :
                   subject' = [k |-> "pattern", pat |-> <<t>>, how |-> how]
GrowPattern == /\ subject.k = "pattern"
               /\ \E t \in Characters \cup Classes \cup (IF subject.pat[1] = Star THEN Extended ELSE {}) :
                      \E pat \in {<<t>> \o subject.pat, subject.pat \o <<t>>} : subject' = [subject EXCEPT !.pat = pat]

----------------------------------------------------------------------------
(* Pathnames, in one small tree. *)
pa == <<"a">>
pb == <<"b">>
hidden == <<".", "b">>
named == <<"*">>
Tree == (<<pa>> :> "dir") @@ (<<pa, pa>> :> "dir") @@ (<<pa, pa, pb>> :> "file") @@ (<<pa, pb>> :> "file")
        @@ (<<hidden>> :> "dir") @@ (<<hidden, pa>> :> "file") @@ (<<pb>> :> "file")
        @@ (<<named>> :> "dir") @@ (<<named, hidden>> :> "file") @@ (<<<<"A">>>> :> "link")
Segments == {<<Lit("a")>>, <<Lit("*")>>, <<Star>>, <<Lit("."), Star>>, <<Question>>,
             <<Class(TRUE, <<Single("b")>>)>>, DoubleStar, <<Lit("."), Lit(".")>>}
PickPath == \E s \in Segments, on \in SUBSET {"dotglob", "globskipdots"}, absolute, slash \in BOOLEAN :
                subject' = [k |-> "path", segs |-> <<s>>, on |-> on, absolute |-> absolute, slash |-> slash, how |-> "mark"]
GrowPath == /\ subject.k = "path"
            /\ \/ \E s \in Segments : subject' = [subject EXCEPT !.segs = Append(@, s)]
               \/ /\ ~subject.absolute
                  /\ \E s, t \in Segments : subject' = [subject EXCEPT !.segs = @ \o <<s, t>>, !.how = "backslash"]

----------------------------------------------------------------------------
(* Words. *)
wx == <<"x">>
Values == {<<>>, <<" ", "a", " ", "b">>, <<":", "a", ":", "b">>, <<"a", " ", ":", " ">>, <<"ESC", ":", "NUL">>}
WordEnvs == {[pos |-> p, ifs |-> i, assigning |-> FALSE, vars |-> (<<"y">> :> <<"b">>) @@ (IF x = {} THEN <<>> ELSE wx :> Only(x))] :
                x \in {{}} \cup {{v} : v \in Values},
                p \in {<<>>, <<<<>>>>, <<<<"a", ":">>, <<>>, <<"b", " ", "c">>>>},
                i \in {{}, {<<>>}, {<<":", " ">>}}}
\* The shell's variables: those, IFS, and the array a of the arguments.
Shell(v) ==
    [vars |-> (<<"a">> :> [k |-> "Indexed", v |-> [i \in 0 .. Len(v.pos) - 1 |-> v.pos[i + 1]]])
              @@ [n \in DOMAIN v.vars \cup (IF v.ifs = {} THEN {} ELSE {IFS}) |->
                    [k |-> "Scalar", v |-> IF n = IFS THEN Only(v.ifs) ELSE v.vars[n]]],
     attrs |-> <<>>, pos |-> v.pos, zero |-> <<"0">>, opts |-> {}, async |-> {}, letters |-> <<>>, status |-> <<"0">>,
     pid |-> <<"1">>, ifs |-> IfsState({}), assign |-> FALSE, rhs |-> FALSE, split |-> FALSE, heredoc |-> FALSE,
     unbound |-> FALSE, depth |-> 0, cmds |-> <<>>, files |-> <<>>, tree |-> <<>>]
Spellings == {"bare", "braced", "array", "slice"}
Basic(as) == {PlainPart("."), PlainPart(":"), Variable(wx), Arguments(FALSE, as), Arguments(TRUE, as)}
QuotedPieces(as) == {Double(<<>>), SinglePart(<<>>), SinglePart(<<":">>), EscapedPart(":")} \cup {Double(<<p>>) : p \in Basic(as)}
Unset(w) == Default(<<"z">>, <<"-">>, w)
WordsOfText(as) ==
    {<<>>, <<PlainPart("c"), PlainPart(":"), PlainPart("b")>>, <<Variable(<<"y">>)>>, <<Arguments(TRUE, as)>>, <<Double(<<>>)>>,
     <<SinglePart(<<"a", ":">>)>>, <<EscapedPart(":")>>, <<Unset(<<PlainPart("c"), Double(<<PlainPart(":")>>), PlainPart(":")>>)>>,
     <<Double(<<Unset(<<PlainPart("c"), PlainPart(":")>>)>>), PlainPart(":")>>}
WordsOfFields(as) == {<<Double(<<Arguments(FALSE, as)>>)>>, <<PlainPart(":"), Double(<<Arguments(FALSE, as)>>)>>}
Operations(as) ==
    {Default(wx, op, w) : op \in {<<"-">>, <<":", "-">>, <<"+">>, <<":", "+">>}, w \in WordsOfText(as) \cup WordsOfFields(as)}
        \cup {Default(wx, op, w) : op \in {<<"=">>, <<":", "=">>}, w \in WordsOfText(as)}
RECURSIVE Mentions(_)
Mentions(w) == \E i \in DOMAIN w : w[i].k = "arguments" \/ (w[i].k \in {"double", "default"} /\ Mentions(w[i].w))
PickWord == \E as \in Spellings :
                \E w \in {<<p>> : p \in Basic(as) \cup QuotedPieces(as) \cup Operations(as) \cup {Double(<<o>>) : o \in Operations(as)}}
                         \cup {<<Double(<<p, q>>)>> : p, q \in Basic(as)} :
                    /\ as = "bare" \/ Mentions(w)
                    /\ subject' = [k |-> "word", w |-> w, as |-> as, env |-> {}]
\* What may follow a word: after an assignment the variable, after a simple piece another one.
Beyond(s) == CASE s.w[1].k = "default" /\ s.as = "bare" -> IF Assigns(s.w[1].op) THEN {Variable(wx)} ELSE {}
               [] s.w[1] \in Basic("bare") \cup QuotedPieces("bare") -> Basic("bare") \cup {Double(<<>>), EscapedPart(":")}
                                                                             \cup {Double(<<p>>) : p \in Basic("bare")}
               [] OTHER -> {}
GrowWord == /\ subject.k = "word" /\ subject.env = {}
            /\ \E w \in {subject.w} \cup {subject.w \o <<p>> : p \in Beyond(subject)}, v \in WordEnvs :
                   /\ w = subject.w \/ Len(v.pos) # 1
                   /\ subject' = [subject EXCEPT !.w = w, !.env = {v}]

----------------------------------------------------------------------------
(* Texts to quote. *)
Odd == {"a", "VT", " ", "'", "\"", "\\", "$", "BQ", "NL", "ESC", "~", "{", ",", "*", "!"}
PickQuote == \E s \in UNION {[1 .. n -> Odd] : n \in 0 .. 2} : subject' = [k |-> "quote", s |-> s]
GrowQuote == /\ subject.k = "quote" /\ Len(subject.s) = 2
             /\ \E c \in {"a", "'", "\\", "NL"} : subject' = [subject EXCEPT !.s = Append(@, c)]

----------------------------------------------------------------------------
(* A literal pattern that is taken out of a value or replaced in it. *)
Cuts == {<<"#">>, <<"#", "#">>, <<"%">>, <<"%", "%">>}
Replacements == {<<"/">>, <<"/", "/">>, <<"/", "#">>, <<"/", "%">>}
Literals == {<<"a">>, <<"a", "a">>, <<":">>, <<"a", " ">>, <<"]">>}
PickLiteral == \E s \in UNION {[1 .. n -> {"a", ":", " "}] : n \in 0 .. 2} \cup {<<"ESC", "a">>, <<"a", "NUL", "a">>, <<"a", "*", "]">>},
                  p \in Literals :
                   \/ \E op \in Cuts : subject' = [k |-> "literal", s |-> s, op |-> op, p |-> p, r |-> <<>>]
                   \/ \E op \in Replacements, r \in {<<>>, <<"/">>, <<"/", "b", ":">>, <<"/", "&", "/">>} :
                          subject' = [k |-> "literal", s |-> s, op |-> op, p |-> p, r |-> r]
GrowLiteral == /\ subject.k = "literal" /\ Len(subject.s) = 2
               /\ \E c \in {"a", ":"} : subject' = [subject EXCEPT !.s = @ \o <<c, "a">>]

----------------------------------------------------------------------------
(* Operators on all arguments, elements or characters. *)
ValueOperators == {o \o p : o \in {<<"#">>, <<"#", "#">>, <<"%">>, <<"%", "%">>, <<"^">>, <<",", ",">>},
                           p \in {<<>>, <<"a">>, <<"*">>, <<"?">>, <<"[", "!", "a", "]">>}}
                  \cup {o \o <<"a", "*">> \o r : o \in Replacements, r \in {<<>>, <<"/", "b", ":">>}}
                  \cup {<<"@", "Q">>, <<"@", "E">>}
Pools == {<<"a", "B", "a">>, <<>>, <<"b", "*">>, <<"ESC", "a">>, <<"\\", "a">>, <<"'">>}
Offsets == {<<"0">>, <<"1">>, <<"2">>, <<"3">>, <<" ", "-", "1">>, <<" ", "-", "2">>, <<" ", "-", "3">>}
Lengths == {<<>>, <<":", "0">>, <<":", "1">>, <<":", "2">>, <<":", "1", "2">>}
PickOperator == \/ \E p \in UNION {[1 .. n -> Pools] : n \in 0 .. 1}, op \in ValueOperators : subject' = [k |-> "operator", pos |-> p, op |-> op]
                \/ \E n \in 3 .. 4, o \in Offsets, l \in Lengths : subject' = [k |-> "slice", n |-> n, op |-> <<":">> \o o \o l]
GrowOperator == subject.k = "operator" /\ Len(subject.pos) = 1 /\ \E v \in Pools : subject' = [subject EXCEPT !.pos = <<v>> \o @ \o <<v>>]

\* A step picks an input, a second one grows it.
InitWords == grown = FALSE /\ \E of \in {"arith", "brace", "pattern", "path", "word", "quote", "literal", "operator"} :
                 subject = [k |-> "seed", of |-> of]
Pick == /\ subject.k = "seed" /\ UNCHANGED grown
        /\ \/ subject.of = "arith" /\ PickArith
           \/ subject.of = "brace" /\ PickBrace
           \/ subject.of = "pattern" /\ PickPattern
           \/ subject.of = "path" /\ PickPath
           \/ subject.of = "word" /\ PickWord
           \/ subject.of = "quote" /\ PickQuote
           \/ subject.of = "literal" /\ PickLiteral
           \/ subject.of = "operator" /\ PickOperator
Grow == /\ ~grown /\ grown' = TRUE
        /\ GrowOperator \/ GrowArith \/ GrowBrace \/ GrowPattern \/ GrowPath \/ GrowWord \/ GrowQuote \/ GrowLiteral

----------------------------------------------------------------------------
(* Each property is about the input `it` that a step gives, the subject    *)
(* after the step.                                                         *)

Evaluates(it) == it.k = "arith" => (SkipsDivision(it.t, it.env, 0) \/ SameOutcome(it.t, it.env))
\* eval gives an expression the value, the assignments and the failures of C's
\* evaluation from left to right, on integers that wrap around: precedence,
\* associativity, what && || and ?: skip, when a variable is read and when it is
\* written.  A skipped x /= e or x %= e is left out; the code divides there.
EvaluatesTrees == [][Evaluates(subject')]_wordVars

Multiplies(it) == it.k = "brace" => brace_expand(BraceWritten(it.w)) = BraceMeaning(it.w)

\* fnmatch matches a text exactly when the text can be divided among the parts of the
\* pattern, whichever way special characters are quoted: the backtracking over stars and
\* the branches of extended patterns loses no match and invents none.
MatchesDivide(it) ==
    it.k = "pattern" =>
        \A s \in MatchTexts : fnmatch(PatternWritten(it.pat, it.how), s, {"extglob"}) <=> Stands(it.pat, s)

\* ${x#p} and ${x##p} take the shortest and the longest match from the front, ${x%p} and
\* ${x%%p} from the end.
RemovesExtremes(it) ==
    it.k = "pattern" =>
        \A s \in CutTexts, prefix, longest \in BOOLEAN :
            remove_pattern(s, PatternWritten(it.pat, it.how), prefix, longest, {"extglob"})
                = Removed(s, it.pat, prefix, longest)

\* ${x/p/r} and ${x//p/r} replace the leftmost matches, each the longest from where it
\* begins, without overlaps and without going into a replacement.
ReplacesLeftmostLongest(it) ==
    it.k = "pattern" =>
        \A s \in CutTexts, all \in BOOLEAN :
            LeftmostLongest(s, it.pat, pat_subst(s, PatternWritten(it.pat, it.how),
                                                            IF all THEN "All" ELSE "First", {"extglob"}), all)

\* The paths of a pattern, in order and once.
FindsPaths(it) ==
    it.k = "path" /\ Regular(it) =>
        LET found == Answer(Tree, it)
        IN  /\ {found[i] : i \in DOMAIN found} = Meant(Tree, it)
            /\ \A i, j \in DOMAIN found : i < j => Less(found[i], found[j])

\* pathname_expand finds the paths that match, all and no other, in order and once:
\* hidden names only where they are asked for, . and .. only by name, ** through
\* directories but not through links.
PathsExact == [][FindsPaths(subject')]_wordVars

WordOn == {"SPLIT_FIELDS", "EXPAND_GLOB"}
\* "$@" without arguments beside another expansion: only "$x$@" makes the empty x vanish.
Beside(w) ==
    \E i \in DOMAIN w :
        /\ w[i].k = "double" /\ Len(w[i].w) = 2
        /\ \E j \in {1, 2} : w[i].w[j].k = "arguments" /\ ~w[i].w[j].star
        /\ ~(w[i].w[1].k = "variable" /\ w[i].w[2].as \in {"bare", "braced"})
\* A word gives the fields it means: "$@" gives the arguments unchanged whatever IFS is,
\* an unquoted expansion is split at IFS and nothing else is, quotes in the word of an
\* operator protect their part of it, a quoted empty string makes a field, bytes of the
\* data that look like the expander's marks survive, and all spellings of the arguments
\* agree.
FieldsAsMeant(it) ==
    \A v \in IF it.k = "word" THEN it.env ELSE {} :
        ~(v.pos = <<>> /\ Beside(it.w)) =>
            expand_word_list(Shell(v), <<[text |-> WordWritten(it.w), flags |-> {"hasdollar"}]>>, WordOn).v
                = WordFields(v, WordMeaning(v, it.w, "kept").items)

\* In an assignment the same word gives one text: nothing is split, and the arguments
\* are joined.  The shortcuts for a lone parameter give what the long way gives.
AssignedAsMeant(it) ==
    \A v \in IF it.k = "word" THEN it.env ELSE {} :
        expand_assignment_rhs(Shell(v), WordWritten(it.w)).v
            = Flat(WordMeaning([v EXCEPT !.assigning = TRUE], it.w, "kept").items)

\* A here-document gives the text its lines have in double quotes.
HeredocAsMeant(it) ==
    \A v \in IF it.k = "word" THEN it.env ELSE {} :
        Len(it.w) = 1 /\ it.w[1].k = "double" =>
            expand_heredoc_string(Shell(v), WordWritten(it.w[1].w)).v
                = Flat(WordMeaning([v EXCEPT !.assigning = TRUE], it.w[1].w, "quoted").items)

OneWord(text, env) == expand_word_list(env, <<[text |-> text, flags |-> {"hasdollar"}]>>, WordOn).v
QuoteEnv(s) == Shell([pos |-> <<>>, ifs |-> {}, vars |-> (wx :> s)])

\* The fast paths for a literal pattern and replacement, in a word and in an assignment,
\* give what the general path gives, which a quoted pattern takes.
FastPathAgrees(it) ==
    it.k = "literal" =>
        LET fast == <<"$", "{", "x">> \o it.op \o it.p \o it.r \o <<"}">>
            slow == <<"$", "{", "x">> \o it.op \o <<"\"">> \o it.p \o <<"\"">> \o it.r \o <<"}">>
            env == QuoteEnv(it.s)
        IN  /\ OneWord(fast, env) = OneWord(slow, env)
            /\ expand_assignment_rhs(env, fast).v = expand_assignment_rhs(env, slow).v

InCase(word, value, t) == fnmatch(expand_case_pattern_bytes(QuoteEnv(value), word, {"hasdollar"}).v, t, {"extglob"})
\* In case and [[ ]] a quoted parameter matches its value and nothing else, and one that is
\* not quoted matches what its value means as a pattern.
CaseAsMeant(it) ==
    /\ it.k = "quote" =>
         \A t \in {it.s, <<>>, Append(it.s, "a")} \cup {[it.s EXCEPT ![i] = "a"] : i \in DOMAIN it.s} :
             InCase(<<"\"", "$", "x", "\"">>, it.s, t) <=> t = it.s
    /\ it.k = "pattern" /\ it.how = "backslash" =>
         \A t \in CutTexts : InCase(<<"$", "x">>, PatternWritten(it.pat, it.how), t) <=> Stands(it.pat, t)

\* A text that the shell quotes (${x@Q}, declare -p, set, trap -p) is that text when it
\* is read back as a word, whatever characters it has.
QuotedReadsBack(it) ==
    it.k = "quote" =>
        \A q \in {shell_quote_shell_string(it.s), array_element_quote(it.s)} :
            OneWord(q, QuoteEnv(<<>>)) = <<it.s>>

\* An operator on "$@" or on all elements of an array gives what it gives for each value
\* alone, one field each; and it gives the same when the variable is reached through
\* ${!y} or through a name reference.
OperatorsDistribute(it) ==
    it.k = "operator" =>
        LET Applied(x, env) == OneWord(<<"\"", "$", "{">> \o x \o it.op \o <<"}", "\"">>, env)
            Env(v) == [Shell([pos |-> it.pos, ifs |-> {}, vars |-> (wx :> v) @@ (<<"y">> :> wx)])
                          EXCEPT !.vars = @ @@ (<<"z">> :> [k |-> "Nameref", v |-> wx])]
            alone == [i \in DOMAIN it.pos |-> Applied(wx, Env(it.pos[i]))]
        IN  /\ \A x \in {<<"@">>, <<"a", "[", "@", "]">>} : Applied(x, Env(<<>>)) = Concat(alone)
            /\ \A i \in DOMAIN it.pos, x \in {<<"!", "y">>, <<"z">>} : Applied(x, Env(it.pos[i])) = alone[i]

\* A slice of the arguments with $0, of an array and of a text with the same content is
\* the same, with an offset from the front or from the end and a length or none (an
\* offset before the first character is taken as 0 for a text, and as past the end for $@).
SlicesAgree(it) ==
    it.k = "slice" =>
        LET text == SubSeq(<<"a", "b", "c", "x">>, 1, it.n)
            items == [i \in DOMAIN text |-> <<text[i]>>]
            env == [Shell([pos |-> items, ifs |-> {}, vars |-> (wx :> text)]) EXCEPT !.pos = Tail(items), !.zero = items[1]]
            Sliced(x) == OneWord(<<"\"", "$", "{">> \o x \o it.op \o <<"}", "\"">>, env)
        IN  Concat(Sliced(<<"@">>)) = Sliced(wx)[1] /\ Sliced(<<"a", "[", "@", "]">>) = Sliced(<<"@">>)

\* What matching finds in a text is what the pattern means, in ${x#p}, ${x/p/r} and case too.
PatternsExact == [][MatchesDivide(subject') /\ RemovesExtremes(subject') /\ ReplacesLeftmostLongest(subject') /\ CaseAsMeant(subject')]_wordVars

\* A word means the same fields, or the same text in an assignment or a here-document,
\* whichever of the paths through the expander it takes.
WordsAsMeant == [][FieldsAsMeant(subject') /\ AssignedAsMeant(subject') /\ HeredocAsMeant(subject')]_wordVars

\* An operator of ${...} does the same on every path to a value: the fast paths, one
\* value or all of several, a reference, the arguments, an array or a text.
OperatorsAgree == [][FastPathAgrees(subject') /\ OperatorsDistribute(subject') /\ SlicesAgree(subject')]_wordVars

=============================================================================
