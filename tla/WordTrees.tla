----------------------------- MODULE WordTrees ------------------------------
(***************************************************************************)
(* What a word of the shell means, as a reference for Expansion: a word is *)
(* a sequence of pieces, written out as text for the expander and given a  *)
(* meaning here piece by piece.  The meaning is a sequence of items: a     *)
(* character that may separate fields ("split") or may not ("kept"), a     *)
(* quoted empty string ("null"), or the end of a field ("break").          *)
(***************************************************************************)
EXTENDS Integers, Sequences, SequencesExt

PlainPart(c) == [k |-> "plain", c |-> c]
EscapedPart(c) == [k |-> "escaped", c |-> c]
SinglePart(s) == [k |-> "single", s |-> s]
Double(w) == [k |-> "double", w |-> w]
Variable(x) == [k |-> "variable", x |-> x]
\* The arguments, or an array with the same elements: $@, ${@}, ${a[@]} and ${@:1}.
Arguments(star, as) == [k |-> "arguments", star |-> star, as |-> as]
Default(x, op, w) == [k |-> "default", x |-> x, op |-> op, w |-> w]

Cat(ss) == FoldLeft(LAMBDA out, s : out \o s, <<>>, ss)

Spelled(as, c) == CASE as = "bare" -> <<"$", c>>
                    [] as = "braced" -> <<"$", "{", c, "}">>
                    [] as = "array" -> <<"$", "{", "a", "[", c, "]", "}">>
                    [] as = "slice" -> <<"$", "{", c, ":", "1", "}">>
RECURSIVE WordWritten(_)
WordWritten(w) ==
    Cat([i \in DOMAIN w |->
            LET p == w[i]
            IN  CASE p.k = "plain" -> <<p.c>>
                  [] p.k = "escaped" -> <<"\\", p.c>>
                  [] p.k = "single" -> <<"'">> \o p.s \o <<"'">>
                  [] p.k = "double" -> <<"\"">> \o WordWritten(p.w) \o <<"\"">>
                  [] p.k = "variable" -> <<"$">> \o p.x
                  [] p.k = "arguments" -> Spelled(p.as, IF p.star THEN "*" ELSE "@")
                  [] p.k = "default" -> <<"$", "{">> \o p.x \o p.op \o WordWritten(p.w) \o <<"}">>])

----------------------------------------------------------------------------
(* How a text comes in: at the top of a word its own characters are kept,  *)
(* in the word of an operator they may separate, in quotes nothing does.   *)
CharsOf(s, m) == [i \in DOMAIN s |-> [m |-> m, c |-> s[i]]]
Null == <<[m |-> "null", c |-> ""]>>
Break == <<[m |-> "break", c |-> ""]>>
ValueItems(s, quoted) == IF quoted THEN IF s = <<>> THEN Null ELSE CharsOf(s, "kept") ELSE CharsOf(s, "split")
Between(parts, sep) == Cat([i \in DOMAIN parts |-> IF i = 1 THEN parts[1] ELSE sep \o parts[i]])

\* env: vars maps the names that are set to their values; pos; ifs, a set of at most one value;
\* assigning, in what is assigned to a variable, where nothing is split.
IfsChars(env) == IF env.ifs = {} THEN <<" ", "TAB", "NL">> ELSE CHOOSE v \in env.ifs : TRUE
Joiner(env) == IF IfsChars(env) = <<>> THEN <<>> ELSE <<IfsChars(env)[1]>>
ArgumentItems(env, star, quoted) ==
    LET each == [i \in DOMAIN env.pos |-> ValueItems(env.pos[i], quoted)]
    IN  CASE quoted /\ star -> ValueItems(Between(env.pos, Joiner(env)), TRUE)
          [] ~star /\ (quoted \/ env.assigning) -> Between(each, Break)
          [] star /\ ~quoted /\ env.assigning -> CharsOf(Between(env.pos, Joiner(env)), "split")
          [] OTHER -> Between(each, IF Joiner(env) = <<>> THEN Break ELSE CharsOf(Joiner(env), "split"))

Visible(items) == SelectSeq(items, LAMBDA x : x.m \in {"kept", "split"})
\* The text of a word that is assigned: what would break it is a space.
Flat(items) == LET cs == SelectSeq(items, LAMBDA x : x.m # "null")
               IN  [i \in DOMAIN cs |-> IF cs[i].m = "break" THEN " " ELSE cs[i].c]
Assigns(op) == op \in {<<"=">>, <<":", "=">>}
Missing(env, x, op) == x \notin DOMAIN env.vars \/ (op[1] = ":" /\ env.vars[x] = <<>>)

\* "$@" without arguments is nothing, even beside empty parameters.
Vanishes(env, w, items) == /\ env.pos = <<>> /\ \E i \in DOMAIN w : w[i].k = "arguments" /\ ~w[i].star
                           /\ \A i \in DOMAIN items : items[i].m = "null"

\* m is "kept" at the top, "split" in an operator's word, "quoted" in quotes.
RECURSIVE WordMeaning(_, _, _)
Of(env, p, m) ==
    LET quoted == m = "quoted"
        same(items) == [env |-> env, items |-> items]
        \* A quoted parameter always gives something.
        some(r) == IF quoted /\ r.items = <<>> THEN [r EXCEPT !.items = Null] ELSE r
        missing == Missing(env, p.x, p.op)
        word == WordMeaning(env, p.w, IF quoted THEN "quoted" ELSE "split")
        assigned == WordMeaning([env EXCEPT !.assigning = TRUE], p.w, IF quoted THEN "quoted" ELSE "split")
        text == Flat(assigned.items)
        value == same(ValueItems(IF p.x \in DOMAIN env.vars THEN env.vars[p.x] ELSE <<>>, quoted))
        inner == WordMeaning(env, p.w, "quoted")
    IN  CASE p.k = "plain" -> same(CharsOf(<<p.c>>, IF m = "split" THEN "split" ELSE "kept"))
          [] p.k = "escaped" -> same(CharsOf(IF quoted /\ p.c \notin {"\"", "\\", "$"} THEN <<"\\", p.c>> ELSE <<p.c>>, "kept"))
          [] p.k = "single" -> same(IF quoted THEN CharsOf(<<"'">> \o p.s \o <<"'">>, "kept") ELSE ValueItems(p.s, TRUE))
          [] p.k = "double" -> IF p.w = <<>> THEN same(Null)
                               ELSE IF Vanishes(env, p.w, inner.items) THEN same(<<>>) ELSE inner
          [] p.k = "variable" -> value
          [] p.k = "arguments" -> same(ArgumentItems(env, p.star, quoted))
          [] p.k = "default" ->
                CASE Last(p.op) = "+" -> some(IF missing THEN same(<<>>) ELSE word)
                  [] Last(p.op) # "+" /\ ~missing -> value
                  [] Last(p.op) = "-" /\ missing -> some(word)
                  [] Last(p.op) = "=" /\ missing -> [env |-> [assigned.env EXCEPT !.vars = (p.x :> text) @@ @, !.assigning = env.assigning],
                                                     items |-> ValueItems(text, quoted)]
WordMeaning(env, w, m) ==
    FoldLeft(LAMBDA acc, p : LET r == Of(acc.env, p, m) IN [env |-> r.env, items |-> acc.items \o r.items],
             [env |-> env, items |-> <<>>], w)

----------------------------------------------------------------------------
(* The fields of a meaning. *)
Separates(env, x) == x.m = "split" /\ x.c \in Range(IfsChars(env))
Blank(x) == x.c \in {" ", "TAB", "NL"}
\* The stretch of separators around i.
Run(env, s, i) == {j \in DOMAIN s : \A k \in DOMAIN s : (j <= k /\ k <= i) \/ (i <= k /\ k <= j) => Separates(env, s[k])}
\* A separator that is not blank ends a field; a stretch of blanks ends one unless it leads.
EndsField(env, s, i) ==
    /\ Separates(env, s[i])
    /\ \/ ~Blank(s[i])
       \/ /\ \A j \in Run(env, s, i) : Blank(s[j]) /\ i <= j
          /\ i > 1
Fields(env, part) ==
    LET ends == {i \in DOMAIN part : EndsField(env, part, i)}
        before(i) == {j \in ends : j < i}
        within(lo, hi) == SelectSeq(SubSeq(part, lo, hi), LAMBDA x : ~Separates(env, x))
        from(i) == IF before(i) = {} THEN 1 ELSE 1 + CHOOSE j \in before(i) : \A k \in before(i) : k <= j
        last == within(from(Len(part) + 1), Len(part))
        at == SelectSeq([i \in DOMAIN part |-> i], LAMBDA i : i \in ends)
    IN  [n \in DOMAIN at |-> within(from(at[n]), at[n] - 1)] \o (IF last = <<>> THEN <<>> ELSE <<last>>)
RECURSIVE FieldsOf(_)
FieldsOf(items) ==
    IF \A i \in DOMAIN items : items[i].m # "break" THEN <<items>>
    ELSE LET i == CHOOSE j \in DOMAIN items : items[j].m = "break" /\ \A k \in 1 .. j - 1 : items[k].m # "break"
         IN  <<SubSeq(items, 1, i - 1)>> \o FieldsOf(SubSeq(items, i + 1, Len(items)))
WordFields(env, items) ==
    LET parts == FieldsOf(items)
        full == [i \in DOMAIN parts |-> IF parts[i] = <<>> /\ Len(parts) > 1 THEN Null ELSE parts[i]]
        fields == Cat([i \in DOMAIN full |-> Fields(env, full[i])])
    IN  [i \in DOMAIN fields |-> [j \in DOMAIN Visible(fields[i]) |-> Visible(fields[i])[j].c]]
=============================================================================
