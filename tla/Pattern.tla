------------------------------ MODULE Pattern -------------------------------
(***************************************************************************)
(* The pattern matcher of crates/expander/src/pattern.rs: parsing of a     *)
(* pattern that carries quoting marks, matching, and what ${x#p}, ${x/p/r} *)
(* and ${x^p} make of it.  The name of a character class is one symbol.    *)
(* opts is a set of options.  A position in a text is the number of        *)
(* characters before it.                                                   *)
(***************************************************************************)
EXTENDS ExpandBuf, FiniteSets
LOCAL INSTANCE FiniteSetsExt

----------------------------------------------------------------------------
(* The characters, in the order of their codes. *)
Ascii == <<" ", "!", "(", ")", "*", "+", "-", ".", "/", "0", "1", ":", "=", "?", "@", "A", "B",
           "[", "\\", "]", "^", "_", "a", "b", "c", "|", "~">>
Code(c) == CHOOSE n \in DOMAIN Ascii : Ascii[n] = c
Uppers == {"A", "B"}
Lowers == {"a", "b", "c"}
PatternDigits == {"0", "1"}
to_ascii_lowercase(c) == CASE c = "A" -> "a" [] c = "B" -> "b" [] OTHER -> c
to_ascii_uppercase(c) == CASE c = "a" -> "A" [] c = "b" -> "B" [] OTHER -> c

Fold(c, opts) == IF "nocaseglob" \in opts THEN to_ascii_lowercase(c) ELSE c
lit_eq(a, b, opts) == Fold(a, opts) = Fold(b, opts)
literal_eq(s, t, opts) == Len(s) = Len(t) /\ \A i \in DOMAIN s : lit_eq(s[i], t[i], opts)

----------------------------------------------------------------------------
(* Tokens. *)
Lit(c) == [k |-> "Lit", c |-> c]
Star == [k |-> "Star"]
Question == [k |-> "Question"]
Class(negate, items) == [k |-> "Class", negate |-> negate, items |-> items]
Ext(kind, branches) == [k |-> "Ext", kind |-> kind, branches |-> branches]

Single(c) == [k |-> "Single", c |-> c]
Span(lo, hi) == [k |-> "Range", lo |-> lo, hi |-> hi]
Named(n) == [k |-> "Named", n |-> n]
Invalid == [k |-> "Invalid"]

ExtKinds == ("?" :> "Q") @@ ("*" :> "Star") @@ ("+" :> "Plus") @@ ("@" :> "At") @@ ("!" :> "Bang")

\* A character made literal at i by a mark or a backslash: the character and the position
\* after it.  A backslash before a mark is itself literal.
LiteralAt(pat, i) ==
    LET raw(k) == CharAt(pat, k) = CTLESC /\ CharAt(pat, k + 1) = CTLRAW /\ k + 2 <= Len(pat)
    IN  CASE raw(i) -> {[c |-> pat[i + 2], next |-> i + 3]}
          [] CharAt(pat, i) = CTLESC /\ ~raw(i) /\ i < Len(pat) -> {[c |-> pat[i + 1], next |-> i + 2]}
          [] CharAt(pat, i) = "\\" /\ raw(i + 1) -> {[c |-> pat[i + 3], next |-> i + 4]}
          [] CharAt(pat, i) = "\\" /\ CharAt(pat, i + 1) = CTLESC /\ ~raw(i + 1) ->
                {[c |-> "\\", next |-> i + 1]}
          [] CharAt(pat, i) = "\\" /\ CharAt(pat, i + 1) # CTLESC /\ i < Len(pat) ->
                {[c |-> pat[i + 1], next |-> i + 2]}
          [] OTHER -> {}

find_bracket_expr_end(pat, start, marker) ==
    LET hit == {k \in start .. Len(pat) - 1 : pat[k] = marker /\ pat[k + 1] = "]"}
        stop == IF marker = "." THEN {} ELSE {k \in start .. Len(pat) : pat[k] = "]"}
    IN  IF hit = {} \/ (stop # {} /\ Min(stop) < Min(hit)) THEN {} ELSE {Min(hit)}

ClassNames == {"alpha", "alnum", "digit", "lower", "upper", "blank", "punct"}
parse_named_class(name) ==
    IF Len(name) = 1 /\ name[1] \in ClassNames THEN Named(name[1]) ELSE Invalid
parse_collating_symbol(name) ==
    CASE name = <<"hyphen">> -> Single("-")
      [] name = <<"space">> -> Single(" ")
      [] Len(name) = 1 /\ name[1] \in Range(Ascii) -> Single(name[1])
      [] OTHER -> Invalid

\* One member of a bracket expression, and the position after it.
parse_class_atom(pat, j) ==
    LET marker == CharAt(pat, j + 1)
        end == IF pat[j] = "[" /\ marker \in {":", ".", "="}
               THEN find_bracket_expr_end(pat, j + 2, marker) ELSE {}
        name == dequote_bytes(SubSeq(pat, j + 2, Min(end) - 1))
        lit == LiteralAt(pat, j)
    IN  CASE end # {} -> [item |-> IF marker = ":" THEN parse_named_class(name)
                                   ELSE parse_collating_symbol(name),
                          next |-> Min(end) + 2]
          [] end = {} /\ lit # {} -> LET l == CHOOSE x \in lit : TRUE
                                     IN  [item |-> Single(l.c), next |-> l.next]
          [] OTHER -> [item |-> Single(pat[j]), next |-> j + 1]

Negation(pat, j) == IF CharAt(pat, j) \in {"!", "^"} THEN j + 1 ELSE j

\* The members from j on and the position after the bracket that closes them, or none.
\* A slash ends the search if the pattern is that of a path.
RECURSIVE ClassItems(_, _, _, _, _)
ClassItems(pat, j, first, items, path) ==
    CASE j > Len(pat) \/ (path /\ CharAt(pat, j) = "/") -> {}
      [] j <= Len(pat) /\ CharAt(pat, j) = "]" /\ ~first -> {[items |-> items, next |-> j + 1]}
      [] OTHER ->
            LET lo == parse_class_atom(pat, j)
                hi == parse_class_atom(pat, lo.next + 1)
                range == lo.next < Len(pat) /\ pat[lo.next] = "-" /\ pat[lo.next + 1] # "]"
            IN  CASE range /\ path /\ pat[lo.next + 1] = "/" -> {}
                  [] range /\ ~(path /\ pat[lo.next + 1] = "/") ->
                        ClassItems(pat, hi.next, FALSE,
                                   IF lo.item.k = "Single" /\ hi.item.k = "Single"
                                   THEN Append(items, Span(lo.item.c, hi.item.c)) ELSE items, path)
                  [] ~range -> ClassItems(pat, lo.next, FALSE,
                                          IF lo.item = Invalid THEN items ELSE Append(items, lo.item), path)

try_parse_class(pat, i) ==
    {[tok |-> Class(Negation(pat, i + 1) > i + 1, m.items), next |-> m.next] :
        m \in ClassItems(pat, Negation(pat, i + 1), TRUE, <<>>, FALSE)}
try_parse_pathname_class_end(pat, i) ==
    ClassItems(pat, Negation(pat, i + 1), TRUE, <<>>, TRUE) # {}

\* parse_inner: the tokens from i on, where it stopped, and whether a bracket expression
\* was not closed.  try_parse_ext: the token and the position after it, or none.
RECURSIVE parse_inner(_, _, _, _), try_parse_ext(_, _, _), Branches(_, _, _)
parse_inner(pat, i, opts, in_paren) ==
    LET Rest(toks, next, bad) ==
            LET r == parse_inner(pat, next, opts, in_paren)
            IN  [toks |-> toks \o r.toks, next |-> r.next, bad |-> bad \/ r.bad]
        b == CharAt(pat, i)
        lit == LiteralAt(pat, i)
        ext == IF "extglob" \in opts /\ b \in DOMAIN ExtKinds THEN try_parse_ext(pat, i, opts) ELSE {}
        cls == IF b = "[" THEN try_parse_class(pat, i) ELSE {}
        one == CHOOSE x \in lit \cup ext \cup cls : TRUE
    IN  CASE i > Len(pat) \/ (in_paren /\ b \in {"|", ")"}) -> [toks |-> <<>>, next |-> i, bad |-> FALSE]
          [] ~(i > Len(pat) \/ (in_paren /\ b \in {"|", ")"})) ->
             CASE lit # {} -> Rest(<<Lit(one.c)>>, one.next, FALSE)
               [] b = CTLNUL -> Rest(<<>>, i + 1, FALSE)
               [] ext # {} \/ cls # {} -> Rest(<<one.tok>>, one.next, FALSE)
               [] b = "*" /\ ext = {} -> Rest(<<Star>>, i + 1, FALSE)
               [] b = "?" /\ ext = {} -> Rest(<<Question>>, i + 1, FALSE)
               [] OTHER -> Rest(<<Lit(b)>>, i + 1, b = "[")

Branches(pat, j, opts) ==
    LET r == parse_inner(pat, j, opts, TRUE)
    IN  CASE r.bad \/ r.next > Len(pat) -> {}
          [] ~r.bad /\ CharAt(pat, r.next) = ")" -> {[branches |-> <<r.toks>>, next |-> r.next + 1]}
          [] ~r.bad /\ CharAt(pat, r.next) = "|" ->
                {[branches |-> <<r.toks>> \o m.branches, next |-> m.next] :
                    m \in Branches(pat, r.next + 1, opts)}

try_parse_ext(pat, i, opts) ==
    IF CharAt(pat, i + 1) # "(" THEN {}
    ELSE {[tok |-> Ext(ExtKinds[pat[i]], m.branches), next |-> m.next] : m \in Branches(pat, i + 2, opts)}

parse(pat, opts) == parse_inner(pat, 1, opts, FALSE).toks

----------------------------------------------------------------------------
(* Matching: the positions of a text where a match from si on may end. *)
named_matches(n, c) ==
    CASE n = "alpha" -> c \in Lowers \cup Uppers
      [] n = "alnum" -> c \in Lowers \cup Uppers \cup PatternDigits
      [] n = "digit" -> c \in PatternDigits
      [] n = "lower" -> c \in Lowers
      [] n = "upper" -> c \in Uppers
      [] n = "blank" -> c = " "
      [] n = "punct" -> c \in Range(Ascii) \ (Lowers \cup Uppers \cup PatternDigits \cup {" "})

class_matches(items, c, opts) ==
    \E i \in DOMAIN items :
        LET item == items[i]
        IN  CASE item.k = "Single" -> lit_eq(item.c, c, opts)
              [] item.k = "Range" -> /\ Code(Fold(item.lo, opts)) <= Code(Fold(c, opts))
                                     /\ Code(Fold(c, opts)) <= Code(Fold(item.hi, opts))
              [] item.k = "Named" -> named_matches(item.n, c)

\* The ends of a chain of one or more non-empty steps, begun at the positions of seen.
RECURSIVE Chain(_, _)
Chain(step, seen) ==
    LET more == UNION {{e \in step[c] : e > c} : c \in seen}
    IN  IF more \subseteq seen THEN seen ELSE Chain(step, seen \cup more)

RECURSIVE collect_match_ends(_, _, _, _), tok_ends(_, _, _, _)
collect_match_ends(toks, text, si, opts) ==
    IF toks = <<>> THEN {si}
    ELSE UNION {collect_match_ends(Tail(toks), text, e, opts) : e \in tok_ends(toks[1], text, si, opts)}

\* Mutant: *( ) takes its branches at most once.
RepeatsOnce(kind, one_step, si, n) ==
    CASE kind = "At" -> one_step[si]
      [] kind \in {"Q", "Star"} -> {si} \cup one_step[si]
      [] kind = "Plus" -> Chain(one_step, {e \in one_step[si] : e > si})
      [] kind = "Bang" -> (si .. n) \ one_step[si]

enumerate_ext_ends(kind, one_step, si, n) ==
    CASE kind = "At" -> one_step[si]
      [] kind = "Q" -> {si} \cup one_step[si]
      [] kind = "Star" -> {si} \cup Chain(one_step, {e \in one_step[si] : e > si})
      [] kind = "Plus" -> Chain(one_step, {e \in one_step[si] : e > si})
      [] kind = "Bang" -> (si .. n) \ one_step[si]

tok_ends(tok, text, si, opts) ==
    LET n == Len(text)
        next == IF si < n THEN {si + 1} ELSE {}
        one_step == [from \in si .. n |->
                        UNION {collect_match_ends(tok.branches[b], text, from, opts) : b \in DOMAIN tok.branches}]
    IN  CASE tok.k = "Lit" -> {e \in next : lit_eq(tok.c, text[e], opts)}
          [] tok.k = "Question" -> next
          [] tok.k = "Class" -> {e \in next : class_matches(tok.items, text[e], opts) # tok.negate}
          [] tok.k = "Star" -> si .. n
          [] tok.k = "Ext" -> enumerate_ext_ends(tok.kind, one_step, si, n)

match_tokens(toks, text, opts) == Len(text) \in collect_match_ends(toks, text, 0, opts)
fnmatch(pat, text, opts) == match_tokens(parse(pat, opts), text, opts)

\* The ends of the matches that take a leading dot of the text by a dot of the pattern.
RECURSIVE collect_explicit_dot_ends(_, _, _)
collect_explicit_dot_ends(toks, text, opts) ==
    IF toks = <<>> \/ CharAt(text, 1) # "." THEN {}
    ELSE CASE toks[1].k = "Lit" /\ toks[1].c = "." -> collect_match_ends(Tail(toks), text, 1, opts)
           [] toks[1].k = "Ext" ->
                UNION {(IF toks[1].kind \in {"Q", "Star"}
                        THEN collect_explicit_dot_ends(Tail(toks), text, opts) ELSE {}),
                       (IF toks[1].kind = "Bang" THEN {}
                        ELSE UNION {collect_match_ends(Tail(toks), text, e, opts) :
                                 e \in UNION {collect_explicit_dot_ends(toks[1].branches[b], text, opts) :
                                                b \in DOMAIN toks[1].branches}})}
           [] OTHER -> {}
explicitly_matches_dot_name(toks, text, opts) == Len(text) \in collect_explicit_dot_ends(toks, text, opts)

----------------------------------------------------------------------------
(* Whether a text is a pattern at all. *)
SpecialAt(s, i, opts) ==
    \/ s[i] \in {"*", "?"}
    \/ s[i] = "[" /\ try_parse_pathname_class_end(s, i)
    \/ "extglob" \in opts /\ s[i] \in {"@", "+", "!"} /\ CharAt(s, i + 1) = "("

RECURSIVE MetaFrom(_, _, _)
MetaFrom(s, i, opts) ==
    LET lit == LiteralAt(s, i)
        skip == IF CharAt(s, i) = "\\" /\ CharAt(s, i + 1) = CTLESC THEN i + 1
                ELSE (CHOOSE l \in lit : TRUE).next
    IN  /\ i <= Len(s)
        /\ IF lit # {} THEN MetaFrom(s, skip, opts) ELSE SpecialAt(s, i, opts) \/ MetaFrom(s, i + 1, opts)
has_glob_meta(s, opts) == MetaFrom(s, 1, opts)

\* The text a pattern without special characters stands for, or none.
literal_pattern(pat, opts) ==
    LET toks == parse(pat, opts)
    IN  IF has_glob_meta(pat, opts) \/ (\E i \in DOMAIN toks : toks[i].k # "Lit") THEN {}
        ELSE {[i \in DOMAIN toks |-> toks[i].c]}

Before(s, k) == SubSeq(s, 1, k)
From(s, k) == SubSeq(s, k + 1, Len(s))

literal_starts_with(s, lit, opts) == Len(s) >= Len(lit) /\ literal_eq(Before(s, Len(lit)), lit, opts)
literal_ends_with(s, lit, opts) == Len(s) >= Len(lit) /\ literal_eq(From(s, Len(s) - Len(lit)), lit, opts)

\* ${x#p} and its relatives.
remove_pattern(s, pat, prefix, longest, opts) ==
    LET literal == literal_pattern(pat, opts)
        lit == CHOOSE l \in literal : TRUE
        toks == parse(pat, opts)
        ends == collect_match_ends(toks, s, 0, opts)
        starts == {k \in 0 .. Len(s) : Len(s) \in collect_match_ends(toks, s, k, opts)}
    IN  CASE literal # {} /\ prefix -> IF literal_starts_with(s, lit, opts) THEN From(s, Len(lit)) ELSE s
          [] literal # {} /\ ~prefix -> IF literal_ends_with(s, lit, opts) THEN Before(s, Len(s) - Len(lit)) ELSE s
          [] literal = {} /\ prefix ->
                IF toks = <<>> \/ ends = {} THEN s ELSE From(s, IF longest THEN Max(ends) ELSE Min(ends))
          [] literal = {} /\ ~prefix ->
                IF toks = <<>> \/ starts = {} THEN s ELSE Before(s, IF longest THEN Min(starts) ELSE Max(starts))

----------------------------------------------------------------------------
(* ${x/p/r}: the pieces of s that are replaced, as pairs of positions in   *)
(* order.  mode is First, All, PrefixAnchored or SuffixAnchored.           *)
star_pattern_matches_empty_for_substitution(toks) ==
    toks # <<>> /\ \A i \in DOMAIN toks : toks[i].k = "Star" \/ (toks[i].k = "Ext" /\ toks[i].kind = "Star")

RECURSIVE Found(_, _, _, _)
\* The pieces from i on, when a piece from k on may end at any of ends[k].
Found(ends, i, n, mode) ==
    LET here == {e \in ends[i] : e > i}
    IN  CASE i > n -> <<>>
          [] i <= n /\ here = {} -> IF i = n THEN <<>> ELSE Found(ends, i + 1, n, mode)
          [] i <= n /\ here # {} -> <<<<i, Max(here)>>>> \o
                                   (IF mode = "First" THEN <<>> ELSE Found(ends, Max(here), n, mode))

Pieces(s, toks, mode, opts) ==
    LET n == Len(s)
        ends == [k \in 0 .. n |-> collect_match_ends(toks, s, k, opts)]
        starts == {k \in 0 .. n : n \in ends[k]}
    IN  CASE toks = <<>> -> CASE mode = "PrefixAnchored" -> <<<<0, 0>>>>
                              [] mode = "SuffixAnchored" -> <<<<n, n>>>>
                              [] OTHER -> <<>>
          [] /\ toks # <<>> /\ n = 0 /\ mode \in {"First", "All"}
             /\ star_pattern_matches_empty_for_substitution(toks) -> <<<<0, 0>>>>
          [] toks # <<>> /\ mode = "PrefixAnchored" -> IF ends[0] = {} THEN <<>> ELSE <<<<0, Max(ends[0])>>>>
          [] toks # <<>> /\ mode = "SuffixAnchored" -> IF starts = {} THEN <<>> ELSE <<<<Min(starts), n>>>>
          [] OTHER -> Found(ends, 0, n, mode)

find_literal(s, from, lit, opts) ==
    {k \in from .. Len(s) - Len(lit) : literal_eq(SubSeq(s, k + 1, k + Len(lit)), lit, opts)}

RECURSIVE LiteralFound(_, _, _, _, _)
LiteralFound(s, cursor, lit, mode, opts) ==
    LET hits == find_literal(s, cursor, lit, opts)
        end == Min(hits) + Len(lit)
    IN  IF hits = {} THEN <<>>
        ELSE <<<<Min(hits), end>>>> \o
             (IF mode = "First" THEN <<>> ELSE LiteralFound(s, end, lit, mode, opts))

pat_subst_literal(s, lit, mode, opts) ==
    CASE lit = <<>> -> Pieces(s, <<>>, mode, opts)
      [] lit # <<>> /\ mode = "PrefixAnchored" ->
            IF literal_starts_with(s, lit, opts) THEN <<<<0, Len(lit)>>>> ELSE <<>>
      [] lit # <<>> /\ mode = "SuffixAnchored" ->
            IF literal_ends_with(s, lit, opts) THEN <<<<Len(s) - Len(lit), Len(s)>>>> ELSE <<>>
      [] lit # <<>> /\ mode \in {"First", "All"} -> LiteralFound(s, 0, lit, mode, opts)

\* What is at a piece of s, and s with each piece replaced by a text.
Matched(s, piece) == SubSeq(s, piece[1] + 1, piece[2])
Replaced(s, pieces, texts) ==
    LET kept(k) == SubSeq(s, IF k = 1 THEN 1 ELSE pieces[k - 1][2] + 1, pieces[k][1])
        out[k \in 0 .. Len(pieces)] == IF k = 0 THEN <<>> ELSE out[k - 1] \o kept(k) \o texts[k]
    IN  out[Len(pieces)] \o From(s, IF pieces = <<>> THEN 0 ELSE pieces[Len(pieces)][2])

\* The pieces that a substitution replaces.
pat_subst(s, pat, mode, opts) ==
    LET literal == literal_pattern(pat, opts)
    IN  IF literal # {} THEN pat_subst_literal(s, CHOOSE l \in literal : TRUE, mode, opts)
        ELSE Pieces(s, parse(pat, opts), mode, opts)

----------------------------------------------------------------------------
(* ${x^p}: p is a set, empty when the pattern is not given. *)
toggle_case(c) == IF c \in Lowers THEN to_ascii_uppercase(c) ELSE to_ascii_lowercase(c)
Recased(op, c) == CASE op = "^" -> to_ascii_uppercase(c)
                     [] op = "," -> to_ascii_lowercase(c)
                     [] op = "~" -> toggle_case(c)
casemod(s, p, op, first, opts) ==
    LET matched(i) == \A pat \in p : i \in collect_match_ends(parse(pat, opts), s, i - 1, opts)
    IN  [i \in DOMAIN s |-> IF matched(i) /\ (~first \/ i = 1) THEN Recased(op, s[i]) ELSE s[i]]
=============================================================================
