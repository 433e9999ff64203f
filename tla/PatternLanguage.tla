-------------------------- MODULE PatternLanguage ---------------------------
(***************************************************************************)
(* What a pattern means: the set of texts it stands for, by splitting a    *)
(* text among the parts of the pattern, and how a pattern is written with  *)
(* and without quoting; and what a pathname pattern means: the paths of a  *)
(* tree whose names match its segments one by one, where a ** stands for   *)
(* any number of directories.                                              *)
(***************************************************************************)
EXTENDS Glob

\* A literal as it is written: by itself where it is not special, else quoted in the
\* given way, as the expander marks it or with a backslash.
Quoting == {"mark", "backslash"}
PlainChars == {"a", "b", "A", "B", ".", "1"}
QuotedChar(c, how) == IF c \in PlainChars THEN <<c>> ELSE IF how = "mark" THEN <<CTLESC, c>> ELSE <<"\\", c>>

WrittenItem(item, how) ==
    CASE item.k = "Single" -> QuotedChar(item.c, how)
      [] item.k = "Range" -> QuotedChar(item.lo, how) \o <<"-">> \o QuotedChar(item.hi, how)
      [] item.k = "Named" -> <<"[", ":", item.n, ":", "]">>

ExtSign(kind) == CHOOSE c \in DOMAIN ExtKinds : ExtKinds[c] = kind
BranchesJoined(ss, sep) == FoldLeft(LAMBDA out, i : (IF i = 1 THEN <<>> ELSE out \o sep) \o ss[i],
                            <<>>, [i \in DOMAIN ss |-> i])

RECURSIVE PatternWritten(_, _)
WrittenTok(t, how, W(_, _)) ==
    CASE t.k = "Lit" -> QuotedChar(t.c, how)
      [] t.k = "Star" -> <<"*">>
      [] t.k = "Question" -> <<"?">>
      [] t.k = "Class" -> <<"[">> \o (IF t.negate THEN <<"!">> ELSE <<>>)
                          \o Concat([i \in DOMAIN t.items |-> WrittenItem(t.items[i], how)]) \o <<"]">>
      [] t.k = "Ext" -> <<ExtSign(t.kind), "(">>
                        \o BranchesJoined([i \in DOMAIN t.branches |-> W(t.branches[i], how)], <<"|">>) \o <<")">>
PatternWritten(toks, how) == Concat([i \in DOMAIN toks |-> WrittenTok(toks[i], how, PatternWritten)])

----------------------------------------------------------------------------
InItem(item, c) ==
    CASE item.k = "Single" -> c = item.c
      [] item.k = "Range" -> Code(c) \in Code(item.lo) .. Code(item.hi)
      [] item.k = "Named" -> named_matches(item.n, c)

RECURSIVE Stands(_, _), Repeated(_, _)
\* s is made of one or more non-empty pieces that each stand for a branch of t.
Repeated(t, s) == \E k \in 1 .. Len(s) : /\ \E b \in DOMAIN t.branches : Stands(t.branches[b], Before(s, k))
                                         /\ k = Len(s) \/ Repeated(t, From(s, k))

StandsTok(t, s, S(_, _), R(_, _)) ==
    LET Branch == \E b \in DOMAIN t.branches : S(t.branches[b], s)
    IN  CASE t.k = "Lit" -> s = <<t.c>>
          [] t.k = "Star" -> TRUE
          [] t.k = "Question" -> Len(s) = 1
          [] t.k = "Class" -> Len(s) = 1 /\ (\E i \in DOMAIN t.items : InItem(t.items[i], s[1])) # t.negate
          [] t.k = "Ext" -> CASE t.kind = "At" -> Branch
                              [] t.kind = "Q" -> s = <<>> \/ Branch
                              [] t.kind = "Star" -> s = <<>> \/ R(t, s)
                              [] t.kind = "Plus" -> R(t, s)
                              [] t.kind = "Bang" -> ~Branch
Stands(toks, s) ==
    IF toks = <<>> THEN s = <<>>
    ELSE \E k \in 0 .. Len(s) : StandsTok(toks[1], Before(s, k), Stands, Repeated) /\ Stands(Tail(toks), From(s, k))

----------------------------------------------------------------------------
\* The text that ${s#p}, ${s##p}, ${s%p} and ${s%%p} leave.
Removed(s, toks, prefix, longest) ==
    LET cuts == {k \in 0 .. Len(s) : Stands(toks, IF prefix THEN Before(s, k) ELSE From(s, k))}
        cut == IF prefix = longest THEN CHOOSE k \in cuts : \A j \in cuts : j <= k
               ELSE CHOOSE k \in cuts : \A j \in cuts : k <= j
    IN  IF cuts = {} THEN s ELSE IF prefix THEN From(s, cut) ELSE Before(s, cut)

\* The pieces ps of s are the leftmost matches that are not empty, each the longest from
\* where it starts: all of them, or the first.
LeftmostLongest(s, toks, ps, all) ==
    LET match(i, j) == Stands(toks, SubSeq(s, i + 1, j))
        from(n) == IF n = 1 THEN 0 ELSE ps[n - 1][2]
        none(i, j) == \A a \in i .. j : \A b \in a + 1 .. Len(s) : ~match(a, b)
    IN  /\ \A n \in DOMAIN ps : /\ from(n) <= ps[n][1] /\ ps[n][1] < ps[n][2] /\ match(ps[n][1], ps[n][2])
                                /\ none(from(n), ps[n][1] - 1)
                                /\ \A b \in ps[n][2] + 1 .. Len(s) : ~match(ps[n][1], b)
        /\ IF all \/ ps = <<>> THEN none(from(Len(ps) + 1), Len(s)) ELSE Len(ps) = 1

----------------------------------------------------------------------------
\* Pathnames.  A segment is a pattern.
DoubleStar == <<Star, Star>>
Literal(seg) == \A i \in DOMAIN seg : seg[i].k = "Lit"
HiddenName(n) == n[1] = "."

\* A query: its segments, the options on, and whether it begins and ends with a slash.
WrittenPath(q) ==
    (IF q.absolute THEN <<"/">> ELSE <<>>)
        \o BranchesJoined([i \in DOMAIN q.segs |-> PatternWritten(q.segs[i], q.how)], <<"/">>)
        \o (IF q.slash THEN <<"/">> ELSE <<>>)

NameMatches(n, seg, on) ==
    /\ Stands(seg, n)
    /\ \/ Literal(seg)
       \/ n \in {Dot, DotDot} /\ "globskipdots" \notin on /\ seg[1] = Lit(".")
       \/ n \notin {Dot, DotDot} /\ (~HiddenName(n) \/ "dotglob" \in on \/ seg[1] = Lit("."))
Names(tree, path) == read_dir(tree, path) \cup (IF is_dir(tree, path) THEN {Dot, DotDot} ELSE {})

\* What a ** reaches from a path: through directories, not through links.
RealDir(tree, p) == Resolved(p) = <<>> \/ tree[Resolved(p)] = "dir"
RECURSIVE Below(_, _, _, _)
Below(tree, at, on, files) ==
    {at} \cup UNION {Below(tree, Append(at, n), on, files) :
                        n \in {m \in read_dir(tree, at) : /\ ~HiddenName(m) \/ "dotglob" \in on
                                                          /\ files \/ is_dir(tree, Append(at, m))}}
RECURSIVE Reached(_, _, _, _)
Reached(tree, at, segs, q) ==
    CASE segs = <<>> -> {at}
      [] segs = <<DoubleStar>> -> Below(tree, at, q.on, ~q.slash)
      [] Len(segs) > 1 /\ segs[1] = DoubleStar ->
            UNION {Reached(tree, p, Tail(segs), q) : p \in {p \in Below(tree, at, q.on, FALSE) : p = at \/ RealDir(tree, p)}}
      [] OTHER -> UNION {Reached(tree, Append(at, n), Tail(segs), q) :
                            n \in {m \in Names(tree, at) : /\ NameMatches(m, segs[1], q.on)
                                                           /\ Len(segs) > 1 => is_dir(tree, Append(at, m))}}
Meant(tree, q) ==
    {(IF q.absolute THEN <<"/">> ELSE <<>>) \o PathText(p) :
        p \in {p \in Reached(tree, <<>>, q.segs, q) : (p # <<>> \/ q.absolute) /\ (q.slash => is_dir(tree, p))}}

\* The answer without the slash that a path may end with.
Bare(text) == IF Len(text) > 1 /\ Last(text) = "/" THEN Front(text) ELSE text
Answer(tree, q) ==
    LET flags == from_env(q.on \cup {"globstar", "extglob", "nullglob"}, {}, [by |-> "name", desc |-> FALSE])
        words == pathname_expand(WrittenPath(q), tree, <<>>, flags).words
    IN  [i \in DOMAIN words |-> Bare(words[i])]
\* A pattern, with at most one **, and none right after a literal name: name/** is
\* taken to match when name is a file.
Regular(q) ==
    /\ \E i \in DOMAIN q.segs : ~Literal(q.segs[i])
    /\ \A i, j \in DOMAIN q.segs : q.segs[i] = DoubleStar /\ q.segs[j] = DoubleStar => i = j
    /\ \A i \in 1 .. Len(q.segs) - 1 : Literal(q.segs[i]) => q.segs[i + 1] # DoubleStar
=============================================================================
