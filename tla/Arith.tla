------------------------------- MODULE Arith --------------------------------
(***************************************************************************)
(* The arithmetic evaluator of crates/expander/src/arith.rs.  The source   *)
(* is a sequence of characters; a token is its kind with its place.  The   *)
(* integers have Width bits.  An evaluation carries the lexer, the         *)
(* variables and the value; err is set when it fails, and the variables    *)
(* are then what the steps before the failure made of them.  Associative   *)
(* arrays are left out.                                                    *)
(***************************************************************************)
EXTENDS Integers, Sequences, SequencesExt, FiniteSets
LOCAL INSTANCE FiniteSetsExt
LOCAL INSTANCE Bitwise

CONSTANTS
    Width,              \* 64 in the code
    MAX_ARITH_NESTING   \* how deep values that are expressions may refer to each other

----------------------------------------------------------------------------
(* Two's complement. *)
Half == 2 ^ (Width - 1)
wrapping(n) == ((n + Half) % (2 * Half)) - Half
AsUnsigned(n) == n % (2 * Half)
Magnitude(n) == IF n < 0 THEN -n ELSE n
Truth(b) == IF b THEN 1 ELSE 0

wrapping_div(a, b) ==
    LET q == Magnitude(a) \div Magnitude(b) IN wrapping(IF (a < 0) = (b < 0) THEN q ELSE -q)
wrapping_rem(a, b) == LET r == Magnitude(a) % Magnitude(b) IN IF a < 0 THEN -r ELSE r
shl(a, b) == wrapping(a * 2 ^ (AsUnsigned(b) % Width))
shr(a, b) == a \div (2 ^ (AsUnsigned(b) % Width))

\* Squaring and multiplying, least significant bit of the exponent first.
pow_i64(b, e) ==
    LET p[n \in 0 .. Half, base \in -Half .. Half - 1, result \in -Half .. Half - 1] ==
            IF n = 0 THEN result
            ELSE p[n \div 2, wrapping(base * base),
                   IF n % 2 = 1 THEN wrapping(result * base) ELSE result]
    IN  IF e < 0 THEN 0 ELSE p[e, b, 1]

Binary(op, a, b) ==
    CASE op = <<"+">> -> wrapping(a + b)
      [] op = <<"-">> -> wrapping(a - b)
      [] op = <<"*">> -> wrapping(a * b)
      [] op = <<"/">> -> wrapping_div(a, b)
      [] op = <<"%">> -> wrapping_rem(a, b)
      [] op = <<"*", "*">> -> pow_i64(a, b)
      [] op = <<"&">> -> wrapping(AsUnsigned(a) & AsUnsigned(b))
      [] op = <<"|">> -> wrapping(AsUnsigned(a) | AsUnsigned(b))
      [] op = <<"^">> -> wrapping(AsUnsigned(a) ^^ AsUnsigned(b))
      [] op = <<"<", "<">> -> shl(a, b)
      [] op = <<">", ">">> -> shr(a, b)
      [] op = <<"=", "=">> -> Truth(a = b)
      [] op = <<"!", "=">> -> Truth(a # b)
      [] op = <<"<">> -> Truth(a < b)
      [] op = <<"<", "=">> -> Truth(a <= b)
      [] op = <<">">> -> Truth(a > b)
      [] op = <<">", "=">> -> Truth(a >= b)

----------------------------------------------------------------------------
(* Numbers. *)
DigitChars == <<"0", "1", "2", "3", "4", "5", "6", "7", "8", "9", "a", "b", "c", "d", "e", "f">>
IsDigit(c) == c \in {DigitChars[i] : i \in 1 .. 10}
DigitValue(c) == IF c \in Range(DigitChars) THEN (CHOOSE i \in DOMAIN DigitChars : DigitChars[i] = c) - 1 ELSE 99

\* {} stands for an error.
parse_radix_wrapping(digits, radix) ==
    IF digits = <<>> \/ \E i \in DOMAIN digits : DigitValue(digits[i]) >= radix THEN {}
    ELSE {FoldLeft(LAMBDA v, c : wrapping(v * radix + DigitValue(c)), 0, digits)}

parse_number(s) ==
    LET hash == SelectInSeq(s, LAMBDA c : c = "#")
        base == parse_radix_wrapping(SubSeq(s, 1, hash - 1), 10)
    IN  CASE hash # 0 -> IF base = {} \/ \E b \in base : b \notin 2 .. 64 THEN {}
                         ELSE UNION {parse_radix_wrapping(SubSeq(s, hash + 1, Len(s)), b) : b \in base}
          [] hash = 0 /\ Len(s) > 1 /\ SubSeq(s, 1, 2) = <<"0", "x">> ->
                 parse_radix_wrapping(SubSeq(s, 3, Len(s)), 16)
          [] hash = 0 /\ Len(s) > 1 /\ s[1] = "0" /\ \A i \in DOMAIN s : IsDigit(s[i]) ->
                 parse_radix_wrapping(Tail(s), 8)
          [] OTHER -> parse_radix_wrapping(s, 10)

\* str::parse::<i64>, which knows no base and no wrapping.
parse_i64(s) ==
    LET negative == s # <<>> /\ s[1] = "-"
        digits == IF s # <<>> /\ s[1] \in {"-", "+"} THEN Tail(s) ELSE s
        n == FoldLeft(LAMBDA v, c : v * 10 + DigitValue(c), 0, digits)
        v == IF negative THEN -n ELSE n
    IN  IF digits = <<>> \/ \E i \in DOMAIN digits : ~IsDigit(digits[i]) THEN {}
        ELSE IF v \in -Half .. Half - 1 THEN {v} ELSE {}

trim(s) ==
    LET kept == {i \in DOMAIN s : s[i] # " "}
    IN  IF kept = {} THEN <<>> ELSE SubSeq(s, Min(kept), Max(kept))
parse_plain_value(s) ==
    LET t == trim(s)
    IN  IF t = <<>> THEN {0} ELSE IF parse_i64(t) # {} THEN parse_i64(t) ELSE parse_number(t)

to_string(n) ==
    LET digits[m \in Nat] == IF m < 10 THEN <<DigitChars[m + 1]>>
                             ELSE digits[m \div 10] \o <<DigitChars[(m % 10) + 1]>>
    IN  IF n < 0 THEN <<"-">> \o digits[-n] ELSE digits[n]

----------------------------------------------------------------------------
(* The lexer: l is [src, k, start, end], k the operator or one of these. *)
Num == <<"num">>
Ident == <<"ident">>
Eof == <<"eof">>
BadToken == <<"bad">>
ArithOperators == {<<"*", "*", "=">>, <<"<", "<", "=">>, <<">", ">", "=">>,
              <<"*", "*">>, <<"<", "<">>, <<">", ">">>, <<"<", "=">>, <<">", "=">>, <<"=", "=">>,
              <<"!", "=">>, <<"&", "&">>, <<"|", "|">>, <<"+", "=">>, <<"-", "=">>, <<"*", "=">>,
              <<"/", "=">>, <<"%", "=">>, <<"&", "=">>, <<"|", "=">>, <<"^", "=">>, <<"+", "+">>,
              <<"-", "-">>}
             \cup {<<c>> : c \in {"+", "-", "*", "/", "%", "(", ")", "!", "~", "<", ">", "=", "&", "|",
                                  "^", "?", ":", ","}}
PlusPlus == <<"+", "+">>
MinusMinus == <<"-", "-">>
NameLetters == {"x", "y", "z", "a", "u", "p", "q", "_"}
is_arith_identifier(s) ==
    s # <<>> /\ s[1] \in NameLetters /\ \A i \in DOMAIN s : s[i] \in NameLetters \/ IsDigit(s[i])

\* The end of the subscript whose "[" is before i.
RECURSIVE SubscriptEnd(_, _, _)
SubscriptEnd(src, i, depth) ==
    LET c == src[i]
        next == IF i < Len(src) THEN src[i + 1] ELSE ""
    IN  CASE i > Len(src) \/ depth = 0 -> i
          [] i <= Len(src) /\ depth = 1 /\ c \in {"[", "]"} /\ next = "]" -> SubscriptEnd(src, i + 1, depth)
          [] i <= Len(src) /\ depth # 0 /\ ~(depth = 1 /\ c \in {"[", "]"} /\ next = "]") ->
                SubscriptEnd(src, i + 1, CASE c = "[" -> depth + 1 [] c = "]" -> depth - 1 [] OTHER -> depth)

\* The first position from i on whose character is not in cs.
PastAll(src, i, cs) == Min({j \in i .. Len(src) + 1 : j > Len(src) \/ src[j] \notin cs})
Alnum == NameLetters \cup Range(DigitChars)

\* advance, from position i.
TokenAt(src, i) ==
    LET start == PastAll(src, i, {" "})
        Tok(k, end) == [src |-> src, k |-> k, start |-> start, end |-> end]
        c == src[start]
        number == PastAll(src, start, Alnum \cup {"#", "@"})
        name == PastAll(src, start, Alnum)
        ops == {n \in 1 .. 3 : start + n - 1 <= Len(src) /\ SubSeq(src, start, start + n - 1) \in ArithOperators}
    IN  IF start > Len(src) THEN Tok(Eof, start)
        ELSE IF IsDigit(c)
        THEN Tok(IF parse_number(SubSeq(src, start, number - 1)) = {} THEN BadToken ELSE Num, number)
        ELSE IF c \in NameLetters
        THEN Tok(Ident, IF name <= Len(src) /\ src[name] = "[" THEN SubscriptEnd(src, name + 1, 1) ELSE name)
        ELSE IF ops = {} THEN Tok(BadToken, start)
        ELSE Tok(SubSeq(src, start, start + Max(ops) - 1), start + Max(ops))

Lexeme(l) == SubSeq(l.src, l.start, l.end - 1)
advance(l) == TokenAt(l.src, l.end)
consume_first_char_of_double_operator(l) == TokenAt(l.src, l.end - 1)

----------------------------------------------------------------------------
(* Evaluation.  vars has the elements of each variable, element 0 of a     *)
(* scalar; arrays are the names of indexed arrays; depth is the number of  *)
(* values being evaluated.                                                 *)
Give(v, l, env) == [err |-> FALSE, v |-> v, l |-> l, env |-> env]
Fail(env) == [err |-> TRUE, v |-> 0, l |-> <<>>, env |-> env]
IfOk(r, f(_)) == IF r.err THEN r ELSE f(r)
OnToken(l, env, f(_)) == LET n == l IN IF n.k = BadToken THEN Fail(env) ELSE f(n)

Has(env, name, i) == name \in DOMAIN env.vars /\ i \in DOMAIN env.vars[name]

array_ref_parts(name) ==
    LET bracket == SelectInSeq(name, LAMBDA c : c = "[")
    IN  IF bracket = 0 \/ Last(name) # "]" \/ ~is_arith_identifier(SubSeq(name, 1, bracket - 1)) THEN {}
        ELSE {[base |-> SubSeq(name, 1, bracket - 1), sub |-> SubSeq(name, bracket + 1, Len(name) - 1)]}

store_lvalue_value(env, lv, v, l, result) ==
    IF lv.name \in env.readonly THEN Fail(env)
    ELSE LET old == IF lv.name \in DOMAIN env.vars THEN env.vars[lv.name] ELSE [i \in {} |-> <<>>]
             new == [i \in DOMAIN old \cup {lv.index} |-> IF i = lv.index THEN to_string(v) ELSE old[i]]
         IN  Give(result, l,
                  [env EXCEPT !.vars = [n \in DOMAIN @ \cup {lv.name} |-> IF n = lv.name THEN new ELSE @[n]],
                              !.arrays = IF lv.indexed THEN @ \cup {lv.name} ELSE @])

AssignOps == {Append(op, "=") : op \in {<<>>, <<"+">>, <<"-">>, <<"*">>, <<"/">>, <<"%">>, <<"*", "*">>,
                                        <<"&">>, <<"|">>, <<"^">>, <<"<", "<">>, <<">", ">">>}}

\* The levels of binary operators between conditional and power expressions.
Ladder == <<{<<"|", "|">>}, {<<"&", "&">>}, {<<"|">>}, {<<"^">>}, {<<"&">>},
            {<<"=", "=">>, <<"!", "=">>}, {<<"<">>, <<"<", "=">>, <<">">>, <<">", "=">>},
            {<<"<", "<">>, <<">", ">">>}, {<<"+">>, <<"-">>, PlusPlus, MinusMinus},
            {<<"*">>, <<"/">>, <<"%">>}>>

RECURSIVE parse_comma(_, _, _), CommaRest(_, _), parse_assign(_, _, _), parse_ternary(_, _, _),
          parse_level(_, _, _, _), UpTo(_, _, _, _), LevelRest(_, _, _), parse_power(_, _, _), parse_unary(_, _, _),
          parse_postfix(_, _, _), parse_primary(_, _, _), resolve_lvalue(_, _), load_lvalue_value(_, _),
          finish_loaded_value(_, _), parse_value_recursive(_, _)

parse_comma(l, env, active) == CommaRest(parse_assign(l, env, active), active)
CommaRest(r, active) ==
    IF r.err \/ r.l.k # <<",">> THEN r
    ELSE OnToken(advance(r.l), r.env, LAMBDA n : CommaRest(parse_assign(n, r.env, active), active))

\* assigned_value also divides when the assignment is skipped, and its right side is 0 then.
parse_assign(l, env, active) ==
    IF l.k # Ident THEN parse_ternary(l, env, active)
    ELSE OnToken(advance(l), env, LAMBDA op :
         IF op.k \notin AssignOps THEN parse_ternary(l, env, active)
         ELSE OnToken(advance(op), env, LAMBDA n :
              LET opcode == Front(op.k)
                  early == active /\ opcode # <<>>
                  lv == resolve_lvalue(Lexeme(l), env)
                  old == load_lvalue_value(lv.v, lv.env)
              IN  IF early /\ lv.err THEN lv
                  ELSE IF early /\ old.err THEN old
                  ELSE IfOk(parse_assign(n, IF early THEN old.env ELSE env, active), LAMBDA r :
                       IF opcode \in {<<"/">>, <<"%">>} /\ r.v = 0 THEN Fail(r.env)
                       ELSE IF ~active THEN Give(0, r.l, r.env)
                       ELSE IF early
                       THEN LET v == Binary(opcode, old.v, r.v)
                            IN  store_lvalue_value(r.env, lv.v, v, r.l, v)
                       ELSE IfOk(resolve_lvalue(Lexeme(l), r.env), LAMBDA late :
                                 store_lvalue_value(late.env, late.v, r.v, r.l, r.v)))))

parse_ternary(l, env, active) ==
    IfOk(parse_level(1, l, env, active), LAMBDA c :
         IF c.l.k # <<"?">> THEN c
         ELSE OnToken(advance(c.l), c.env, LAMBDA n :
              IF n.k = <<":">> THEN Fail(c.env)
              ELSE IfOk(parse_comma(n, c.env, active /\ c.v # 0), LAMBDA t :
                   IF t.l.k # <<":">> THEN Fail(t.env)
                   ELSE OnToken(advance(t.l), t.env, LAMBDA m :
                        IfOk(parse_ternary(m, t.env, active /\ c.v = 0), LAMBDA f :
                             Give(IF ~active THEN 0 ELSE IF c.v # 0 THEN t.v ELSE f.v, f.l, f.env))))))

\* Mutant: the right side of && and || is always evaluated.
NoShortCircuit(k, active, v) == active

\* Whether the right operand is evaluated.
rhs_active(k, active, v) == active /\ (k = 1 => v = 0) /\ (k = 2 => v # 0)

\* The operand of level k is read by the levels after it, the last one first.
parse_level(k, l, env, active) == UpTo(Len(Ladder), k, parse_power(l, env, active), active)
UpTo(j, k, left, active) ==
    IF left.err \/ j < k THEN left ELSE UpTo(j - 1, k, LevelRest(j, left, active), active)
LevelRest(k, left, active) ==
    IF left.err \/ left.l.k \notin Ladder[k] THEN left
    ELSE LET op == left.l.k
             double == op \in {PlusPlus, MinusMinus}
             next == IF double THEN consume_first_char_of_double_operator(left.l) ELSE advance(left.l)
         IN  OnToken(next, left.env, LAMBDA n :
             IfOk(parse_level(k + 1, n, left.env, rhs_active(k, active, left.v)), LAMBDA r :
                  IF active /\ op \in {<<"/">>, <<"%">>} /\ r.v = 0 THEN Fail(r.env)
                  ELSE LevelRest(k, Give(CASE ~active -> 0
                                           [] active /\ k = 1 -> Truth(left.v # 0 \/ r.v # 0)
                                           [] active /\ k = 2 -> Truth(left.v # 0 /\ r.v # 0)
                                           [] active /\ k > 2 -> Binary(IF double THEN <<op[1]>> ELSE op, left.v, r.v),
                                         r.l, r.env), active)))

parse_power(l, env, active) ==
    IfOk(parse_unary(l, env, active), LAMBDA b :
         IF b.l.k # <<"*", "*">> THEN b
         ELSE OnToken(advance(b.l), b.env, LAMBDA n :
              IfOk(parse_power(n, b.env, active), LAMBDA e :
                   IF active /\ e.v < 0 THEN Fail(e.env)
                   ELSE Give(IF active THEN pow_i64(b.v, e.v) ELSE 0, e.l, e.env))))

\* The name that ++ or -- before l applies to, after signs that touch each other:
\* the lexer there, or one with another token.
RECURSIVE prefix_inc_dec_target_name(_, _, _)
prefix_inc_dec_target_name(l, prev_end, sign) ==
    IF l.k \in {<<sign>>, <<sign, sign>>} /\ l.start = prev_end
    THEN prefix_inc_dec_target_name(advance(l), l.end, sign) ELSE l

apply_pre(target, env, active, delta) ==
    OnToken(advance(target), env, LAMBDA n :
          IF ~active THEN Give(0, n, env)
          ELSE IfOk(resolve_lvalue(Lexeme(target), env), LAMBDA lv :
               IfOk(load_lvalue_value(lv.v, lv.env), LAMBDA old :
                    LET v == wrapping(old.v + delta) IN store_lvalue_value(old.env, lv.v, v, n, v))))

parse_unary(l, env, active) ==
    IF l.k \in {<<"+">>, <<"-">>, <<"!">>, <<"~">>}
    THEN OnToken(advance(l), env, LAMBDA n :
         IfOk(parse_unary(n, env, active), LAMBDA r :
              Give(CASE ~active -> 0
                     [] active /\ l.k = <<"+">> -> r.v
                     [] active /\ l.k = <<"-">> -> wrapping(-r.v)
                     [] active /\ l.k = <<"!">> -> Truth(r.v = 0)
                     [] active /\ l.k = <<"~">> -> -r.v - 1, r.l, r.env)))
    ELSE IF l.k \notin {PlusPlus, MinusMinus} THEN parse_postfix(l, env, active)
    ELSE OnToken(advance(l), env, LAMBDA first :
         OnToken(prefix_inc_dec_target_name(first, l.end, l.k[1]), env, LAMBDA target :
               IF target.k = Ident
               THEN apply_pre(target, env, active, IF l.k = PlusPlus THEN 1 ELSE -1)
               ELSE OnToken(consume_first_char_of_double_operator(l), env, LAMBDA n :
                    IfOk(parse_unary(n, env, active), LAMBDA r :
                         Give(IF ~active THEN 0 ELSE IF l.k = PlusPlus THEN r.v ELSE wrapping(-r.v), r.l, r.env)))))

parse_postfix(l, env, active) ==
    IF l.k # Ident THEN parse_primary(l, env, active)
    ELSE LET lv == resolve_lvalue(Lexeme(l), env)
             old == load_lvalue_value(lv.v, lv.env)
             now == IF active THEN old.env ELSE env
             v == IF active THEN old.v ELSE 0
         IN  IF active /\ lv.err THEN lv
             ELSE IF active /\ old.err THEN old
             ELSE OnToken(advance(l), now, LAMBDA n :
                  IF n.k \notin {PlusPlus, MinusMinus} THEN Give(v, n, now)
                  ELSE OnToken(advance(n), now, LAMBDA m :
                       IF ~active THEN Give(0, m, now)
                       ELSE store_lvalue_value(now, lv.v, wrapping(IF n.k = PlusPlus THEN v + 1 ELSE v - 1), m, v)))

parse_primary(l, env, active) ==
    CASE l.k = Num -> OnToken(advance(l), env, LAMBDA n :
                            Give(IF active THEN CHOOSE v \in parse_number(Lexeme(l)) : TRUE ELSE 0, n, env))
      [] l.k = <<"(">> -> OnToken(advance(l), env, LAMBDA n :
                          IfOk(parse_comma(n, env, active), LAMBDA r :
                               IF r.l.k # <<")">> THEN Fail(r.env)
                               ELSE OnToken(advance(r.l), r.env, LAMBDA m : Give(r.v, m, r.env))))
      [] OTHER -> Fail(env)

eval_array_index(sub, env) ==
    IF trim(sub) = <<>> THEN Give(0, <<>>, env)
    ELSE OnToken(TokenAt(sub, 1), env, LAMBDA l :
         IfOk(parse_comma(l, env, TRUE), LAMBDA r : IF r.l.k # Eof THEN Fail(r.env) ELSE r))

\* The place a name stands for, as the value of the result.
resolve_lvalue(name, env) ==
    LET ref == array_ref_parts(name)
    IN  IF ref = {} THEN Give([name |-> name, index |-> 0, indexed |-> FALSE], <<>>, env)
        ELSE LET r == CHOOSE r \in ref : TRUE
             IN  IF r.sub = <<>> THEN Fail(env)
                 ELSE IfOk(eval_array_index(r.sub, env), LAMBDA i :
                           Give([name |-> r.base, index |-> i.v, indexed |-> TRUE], <<>>, i.env))

load_lvalue_value(lv, env) ==
    IF Has(env, lv.name, lv.index) THEN finish_loaded_value(env.vars[lv.name][lv.index], env)
    ELSE IF env.nounset /\ ~(lv.indexed /\ lv.name \in env.arrays) THEN Fail(env)
    ELSE Give(0, <<>>, env)

finish_loaded_value(s, env) ==
    LET n == parse_plain_value(s)
    IN  IF n # {} THEN Give(CHOOSE v \in n : TRUE, <<>>, env) ELSE parse_value_recursive(s, env)

\* A value that is no number: another variable, or an expression.
parse_value_recursive(s, env) ==
    LET t == trim(s)
        deeper == [env EXCEPT !.depth = @ + 1]
        Back(r) == [r EXCEPT !.env.depth = env.depth]
        name == t[1] \in NameLetters /\ \A i \in DOMAIN t : t[i] \in Alnum \cup {"[", "]"}
    IN  IF env.depth >= MAX_ARITH_NESTING THEN Fail(env)
        ELSE IF array_ref_parts(t) # {}
        THEN Back(IfOk(resolve_lvalue(t, deeper), LAMBDA lv : load_lvalue_value(lv.v, lv.env)))
        ELSE IF name
        THEN IF ~Has(env, t, 0) THEN Give(0, <<>>, env)
             ELSE IF trim(env.vars[t][0]) = t THEN Fail(env)
             ELSE Back(finish_loaded_value(env.vars[t][0], deeper))
        ELSE Back(OnToken(TokenAt(t, 1), deeper, LAMBDA l : parse_comma(l, deeper, TRUE)))

\* --name++ and ++name-- are refused before anything is evaluated.
prefix_postfix_lvalue_error(s) ==
    LET t == trim(s)
        n == Len(t)
    IN  /\ n > 4
        /\ <<SubSeq(t, 1, 2), SubSeq(t, n - 1, n)>> \in {<<MinusMinus, PlusPlus>>, <<PlusPlus, MinusMinus>>}
        /\ is_arith_identifier(SubSeq(t, 3, n - 2))

eval(src, env) ==
    IF trim(src) = <<>> THEN Give(0, <<>>, env)
    ELSE IF prefix_postfix_lvalue_error(src) THEN Fail(env)
    ELSE OnToken(TokenAt(src, 1), env, LAMBDA l :
         IfOk(parse_comma(l, env, TRUE), LAMBDA r : IF r.l.k # Eof THEN Fail(r.env) ELSE r))
=============================================================================
