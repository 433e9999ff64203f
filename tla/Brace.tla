------------------------------- MODULE Brace --------------------------------
(***************************************************************************)
(* Brace expansion, crates/expander/src/brace.rs: {a,b}, {1..9..2} and     *)
(* {a..c} in a word that has not been expanded otherwise yet.  IntMax is   *)
(* the largest number of the machine, SequenceMax the length at which a    *)
(* sequence is given up.                                                   *)
(***************************************************************************)
EXTENDS ExpandBuf
LOCAL INSTANCE FiniteSetsExt

CONSTANTS IntMax, SequenceMax

Numerals == <<"0", "1", "2", "3", "4", "5", "6", "7", "8", "9">>
LetterOrder == <<"A", "B", "[", "\\", "]", "a", "b", "c">>
is_ascii_alphabetic(c) == c \in {"A", "B", "a", "b", "c"}
Ordinal(c) == CHOOSE n \in DOMAIN LetterOrder : LetterOrder[n] = c

----------------------------------------------------------------------------
(* Scanning.  All positions count from 1. *)

\* The first position from i on where a character of set stands, or the end.
Reach(w, i, set) == Min({k \in i .. Len(w) : w[k] \in set} \cup {Len(w) + 1})

\* Past a run delimited by quote that opened just before i.  In single quotes a
\* backslash is nothing special.
RECURSIVE PastQuote(_, _, _)
PastQuote(w, i, quote) ==
    LET k == Reach(w, i, IF quote = "'" THEN {quote} ELSE {quote, "\\"})
    IN  CASE k > Len(w) -> Len(w) + 1
          [] k <= Len(w) /\ CharAt(w, k) = "\\" /\ k < Len(w) -> PastQuote(w, k + 2, quote)
          [] k <= Len(w) /\ CharAt(w, k) = "\\" /\ k = Len(w) -> Len(w) + 1
          [] k <= Len(w) /\ CharAt(w, k) = quote -> k + 1

\* Past what hides the character at i from the scan, or i itself.
PastHidden(w, i) ==
    CASE CharAt(w, i) = "\\" /\ i < Len(w) -> i + 2
      [] CharAt(w, i) \in {"'", "\""} -> PastQuote(w, i + 1, w[i])
      [] OTHER -> i

\* Where the open before i is closed, at the given depth.
RECURSIVE CloseFrom(_, _, _, _, _)
CloseFrom(w, i, depth, open, close) ==
    LET level == depth + (IF w[i] = open THEN 1 ELSE IF w[i] = close THEN -1 ELSE 0)
    IN  CASE i > Len(w) -> {}
          [] i <= Len(w) /\ PastHidden(w, i) # i -> CloseFrom(w, PastHidden(w, i), depth, open, close)
          [] i <= Len(w) /\ PastHidden(w, i) = i ->
                IF level = 0 THEN {i} ELSE CloseFrom(w, i + 1, level, open, close)
skip_balanced(w, start, open, close) ==
    LET end == CloseFrom(w, start + 1, 1, open, close)
    IN  IF end = {} THEN Len(w) + 1 ELSE Max(end) + 1

RECURSIVE SplitFrom(_, _, _, _, _)
SplitFrom(body, i, depth, cur, out) ==
    LET c == body[i]
    IN  CASE i > Len(body) -> Append(out, cur)
          [] i <= Len(body) /\ PastHidden(body, i) # i ->
                SplitFrom(body, PastHidden(body, i), depth, cur \o SubSeq(body, i, PastHidden(body, i) - 1), out)
          [] i <= Len(body) /\ PastHidden(body, i) = i /\ c = "," /\ depth = 0 ->
                SplitFrom(body, i + 1, depth, <<>>, Append(out, cur))
          [] i <= Len(body) /\ PastHidden(body, i) = i /\ ~(c = "," /\ depth = 0) ->
                SplitFrom(body, i + 1, depth + (IF c = "{" THEN 1 ELSE IF c = "}" THEN -1 ELSE 0),
                          Append(cur, c), out)
top_level_split(body) == SplitFrom(body, 1, 0, <<>>, <<>>)

RECURSIVE DotDotFrom(_, _, _)
DotDotFrom(body, i, depth) ==
    CASE i + 1 > Len(body) -> {}
      [] i + 1 <= Len(body) /\ CharAt(body, i) = "\\" -> DotDotFrom(body, i + 2, depth)
      [] i + 1 <= Len(body) /\ depth = 0 /\ CharAt(body, i) = "." /\ CharAt(body, i + 1) = "." -> {i}
      [] OTHER -> DotDotFrom(body, i + 1, depth + (IF body[i] = "{" THEN 1 ELSE IF body[i] = "}" THEN -1 ELSE 0))
find_dotdot(body) == DotDotFrom(body, 1, 0)

----------------------------------------------------------------------------
(* Sequences.  A result that may be missing is a set of at most one element. *)
Digit(c) == CHOOSE d \in 0 .. 9 : Numerals[d + 1] = c
Decimal(s) == FoldLeft(LAMBDA n, c : 10 * n + Digit(c), 0, s)
RECURSIVE Printed(_)
Printed(n) == IF n < 10 THEN <<Numerals[n + 1]>> ELSE Append(Printed(n \div 10), Numerals[(n % 10) + 1])
Abs(n) == IF n < 0 THEN -n ELSE n
Signed(n, s) == IF n < 0 THEN <<"-">> \o s ELSE s
Padded(s, width) == [i \in 1 .. (IF width > Len(s) THEN width - Len(s) ELSE 0) |-> "0"] \o s
Fits(n) == n \in -(IntMax + 1) .. IntMax

parse_seq_num(s) ==
    LET negative == CharAt(s, 1) = "-"
        unsigned == IF negative THEN Tail(s) ELSE s
        figures == IF ~negative /\ CharAt(s, 1) = "+" THEN Tail(s) ELSE unsigned
        n == IF negative THEN -Decimal(figures) ELSE Decimal(figures)
    IN  IF figures = <<>> \/ (\E i \in DOMAIN figures : figures[i] \notin Range(Numerals)) \/ ~Fits(n) THEN {}
        ELSE {[n |-> n, pad |-> Len(unsigned) > 1 /\ unsigned[1] = "0"]}


compute_width(start, end, padded) ==
    LET width(s) == IF CharAt(s, 1) = "-" THEN Len(s) - 1 ELSE Len(s)
    IN  IF padded THEN Max({width(start), width(end)}) ELSE 0

\* The numbers from cur on towards end.  A step that leaves the range of the machine
\* makes the whole sequence none.
RECURSIVE Steps(_, _, _, _, _)
Steps(cur, end, step, up, out) ==
    LET next == IF up THEN cur + step ELSE cur - step
        all == Append(out, cur)
    IN  CASE cur = end -> {all}
          [] cur # end /\ ~Fits(next) -> {}
          [] cur # end /\ Fits(next) /\ (IF up THEN next > end ELSE next < end) -> {all}
          [] OTHER -> IF Len(all) > SequenceMax THEN {} ELSE Steps(next, end, step, up, all)

NonZero(n) == IF n = 0 THEN 1 ELSE Abs(n)
Figures(n, width) == Signed(n, Padded(Printed(Abs(n)), width))
Letter(n) == IF LetterOrder[n] = "\\" THEN <<>> ELSE <<LetterOrder[n]>>

NumberSequence(start, end, a, b, step) ==
    LET width == compute_width(start, end, a.pad \/ b.pad)
    IN  {[i \in DOMAIN ns |-> Figures(ns[i], width)] : ns \in Steps(a.n, b.n, NonZero(step), a.n <= b.n, <<>>)}

\* Letters never reach the end of the machine's range.
LetterSequence(s, e, step) ==
    LET distance == Ordinal(e) - Ordinal(s)
        stride == IF distance < 0 THEN -NonZero(step) ELSE NonZero(step)
    IN  {[i \in 1 .. (Abs(distance) \div NonZero(step)) + 1 |-> Letter(Ordinal(s) + (i - 1) * stride)]}

expand_sequence(body) ==
    UNION {LET start == SubSeq(body, 1, dd - 1)
               after == SubSeq(body, dd + 2, Len(body))
               second == find_dotdot(after)
               cut == CHOOSE p \in second : TRUE
               end == IF second = {} THEN after ELSE SubSeq(after, 1, cut - 1)
               steps == IF second = {} THEN {1}
                        ELSE {p.n : p \in parse_seq_num(SubSeq(after, cut + 2, Len(after)))}
               numbers == {<<a, b>> : a \in parse_seq_num(start), b \in parse_seq_num(end)}
               letters == /\ Len(start) = 1 /\ Len(end) = 1
                          /\ is_ascii_alphabetic(start[1]) /\ is_ascii_alphabetic(end[1])
           IN  CASE start = <<>> \/ end = <<>> -> {}
                 [] start # <<>> /\ end # <<>> /\ numbers # {} ->
                       UNION {NumberSequence(start, end, ab[1], ab[2], step) : ab \in numbers, step \in steps}
                 [] start # <<>> /\ end # <<>> /\ numbers = {} ->
                       IF letters THEN UNION {LetterSequence(start[1], end[1], step) : step \in steps} ELSE {} :
           dd \in find_dotdot(body)}

----------------------------------------------------------------------------
is_expandable_body(body) == expand_sequence(body) # {} \/ Len(top_level_split(body)) >= 2

\* The brace opened at i, if it is closed and can be expanded.
BraceAt(w, i) ==
    {b \in {[prefix |-> SubSeq(w, 1, i - 1), body |-> SubSeq(w, i + 1, j - 1), suffix |-> SubSeq(w, j + 1, Len(w))] :
                j \in CloseFrom(w, i + 1, 1, "{", "}")} : is_expandable_body(b.body)}

\* The leftmost brace that can be expanded, outside quotes and substitutions.
RECURSIVE TopBraceFrom(_, _)
TopBraceFrom(w, i) ==
    LET c == CharAt(w, i)
        next == CharAt(w, i + 1)
    IN  CASE i > Len(w) -> {}
          [] i <= Len(w) /\ PastHidden(w, i) # i -> TopBraceFrom(w, PastHidden(w, i))
          [] i <= Len(w) /\ c = "$" /\ next = "{" -> TopBraceFrom(w, skip_balanced(w, i + 1, "{", "}"))
          [] i <= Len(w) /\ c = "$" /\ next = "(" -> TopBraceFrom(w, skip_balanced(w, i + 1, "(", ")"))
          [] i <= Len(w) /\ c = "BQ" -> TopBraceFrom(w, PastQuote(w, i + 1, "BQ"))
          [] i <= Len(w) /\ c = "{" -> IF BraceAt(w, i) # {} THEN BraceAt(w, i) ELSE TopBraceFrom(w, i + 1)
          [] OTHER -> TopBraceFrom(w, i + 1)
find_top_brace(w) == TopBraceFrom(w, 1)

RECURSIVE brace_expand(_)
brace_expand(word) ==
    LET top == find_top_brace(word)
        b == CHOOSE t \in top : TRUE
        seqs == expand_sequence(b.body)
        alternatives == top_level_split(b.body)
        pieces == IF seqs # {} THEN CHOOSE q \in seqs : TRUE
                  ELSE Concat([i \in DOMAIN alternatives |-> brace_expand(alternatives[i])])
        tails == brace_expand(b.suffix)
    IN  IF top = {} THEN <<word>>
        ELSE Concat([i \in DOMAIN pieces |-> [j \in DOMAIN tails |-> b.prefix \o pieces[i] \o tails[j]]])

----------------------------------------------------------------------------
(* What a word with braces stands for: the product of its parts, where a   *)
(* list has the words of its alternatives and a sequence the numbers or    *)
(* letters of an arithmetic progression.                                   *)

\* Parts of a word: text written as it is, and the three uses of braces.
Verbatim(s) == [k |-> "text", s |-> s]
List(alts) == [k |-> "list", alts |-> alts]
Seq_(from, to, by) == [k |-> "seq", from |-> from, to |-> to, by |-> by]
Lone(word) == [k |-> "lone", word |-> word]

BraceJoined(ss, sep) == FoldLeft(LAMBDA out, i : (IF i = 1 THEN <<>> ELSE out \o sep) \o ss[i],
                            <<>>, [i \in DOMAIN ss |-> i])

RECURSIVE BraceWritten(_)
WrittenPart(p, W(_)) ==
    CASE p.k = "text" -> p.s
      [] p.k = "list" -> <<"{">> \o BraceJoined([i \in DOMAIN p.alts |-> W(p.alts[i])], <<",">>) \o <<"}">>
      [] p.k = "seq" -> <<"{">> \o p.from \o <<".", ".">> \o p.to
                        \o Concat([i \in DOMAIN p.by |-> <<".", ".">> \o p.by[i]]) \o <<"}">>
      [] p.k = "lone" -> <<"{">> \o W(p.word) \o <<"}">>
BraceWritten(word) == Concat([i \in DOMAIN word |-> WrittenPart(word[i], BraceWritten)])

----------------------------------------------------------------------------
EndValue(s) == IF s[1] = "-" THEN -Decimal(Tail(s)) ELSE Decimal(s)
IsLetter(s) == Len(s) = 1 /\ is_ascii_alphabetic(s[1])
EndPlace(s) == IF IsLetter(s) THEN Ordinal(s[1]) ELSE EndValue(s)
Step(p) == IF p.by = <<>> \/ EndValue(p.by[1]) = 0 THEN 1 ELSE Abs(EndValue(p.by[1]))
BraceEnds(p) == {EndPlace(p.from), EndPlace(p.to)}
Items(p) == (Max(BraceEnds(p)) - Min(BraceEnds(p))) \div Step(p) + 1
Item(p, i) == EndPlace(p.from) + (IF EndPlace(p.from) <= EndPlace(p.to) THEN (i - 1) * Step(p) ELSE -(i - 1) * Step(p))

\* A sequence is given up when it is too long, or when the step that would leave it
\* leaves the range of the machine too.
GivenUp(p) == \/ Items(p) > SequenceMax + 1
              \/ Item(p, Items(p)) # EndPlace(p.to) /\ ~Fits(Item(p, Items(p) + 1))

\* Zeros in front of either end make all the numbers as wide as the wider end.
NoSign(s) == IF s[1] = "-" THEN Tail(s) ELSE s
Wide(p) == IF \E s \in {NoSign(p.from), NoSign(p.to)} : Len(s) > 1 /\ s[1] = "0"
           THEN Max({Len(NoSign(p.from)), Len(NoSign(p.to))}) ELSE 0
Shown(p, n) == IF IsLetter(p.from) THEN Letter(n) ELSE Figures(n, Wide(p))

Product(xs, ys) == Concat([i \in DOMAIN xs |-> [j \in DOMAIN ys |-> xs[i] \o ys[j]]])

RECURSIVE BraceMeaning(_)
MeaningPart(p, M(_)) ==
    CASE p.k = "text" -> <<p.s>>
      [] p.k = "list" -> Concat([i \in DOMAIN p.alts |-> M(p.alts[i])])
      [] p.k = "seq" -> IF GivenUp(p) THEN <<BraceWritten(<<p>>)>> ELSE [i \in 1 .. Items(p) |-> Shown(p, Item(p, i))]
      [] p.k = "lone" -> Product(Product(<<<<"{">>>>, M(p.word)), <<<<"}">>>>)
BraceMeaning(word) == FoldLeft(LAMBDA out, i : Product(out, MeaningPart(word[i], BraceMeaning)), <<<<>>>>,
                          [i \in DOMAIN word |-> i])
=============================================================================
