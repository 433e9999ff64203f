----------------------------- MODULE Expansion ------------------------------
(***************************************************************************)
(* The expansion of words: crates/expander/src/internal.rs, pipeline.rs,   *)
(* cmdsub.rs, tilde.rs, lib.rs and the handlers of param/, for every       *)
(* construct of a word.  An expansion changes the environment, because of  *)
(* ${x=word}, so each operation takes the environment e and gives a result *)
(* with the environment after it; err is "" or the error that ends it.     *)
(* Prompt strings (${x@P}) are left out; commands, files and arithmetic    *)
(* beyond a number or a name are external: e.cmds gives the output of a    *)
(* command and e.files the text of a file.                                 *)
(***************************************************************************)
EXTENDS ExpandValues

EXPANSION_NESTING_MAX == 32

\* A result: the environment, the error, and a value or the word built.
Res(e, v) == [e |-> e, err |-> "", v |-> v]
ResErr(e, err) == [e |-> e, err |-> err, v |-> <<>>]
Fresh(e) == [e |-> e, out |-> EmptyBuf, err |-> ""]
WithErr(st, err) == [st EXCEPT !.err = err]
Bind(st, r, next(_)) == IF r.err # "" THEN [st EXCEPT !.e = r.e, !.err = r.err] ELSE next(r)
Write(st, r, out(_)) == Bind(st, r, LAMBDA q : [st EXCEPT !.e = q.e, !.out = out(q)])
OkThen(r, next(_)) == IF r.err # "" THEN ResErr(r.e, r.err) ELSE next(r)
Output(st, out) == [st EXCEPT !.out = out]

\* expand_word_internal(e, text, flags, no_tilde)
RECURSIVE expand_word_internal(_, _, _, _)
Dequoted(r) == IF r.err # "" THEN ResErr(r.e, r.err) ELSE Res(r.e, dequote_bytes(r.out.b))
run_string(e, s) == Dequoted(expand_word_internal(e, s, {}, TRUE))
run_arith_string(e, s) == Dequoted(expand_word_internal(e, s, {"noprocsub", "arith"}, TRUE))
QuotedFlags(quoted) == IF quoted THEN {"quoted", "paramword"} ELSE {}
expand_word_string(e, s, quoted) == expand_word_internal(e, s, {"nosplit"} \cup QuotedFlags(quoted), quoted)
run_heredoc_string(e, s) ==
    LET r == Dequoted(expand_word_internal([e EXCEPT !.heredoc = TRUE], s, {"quoted", "heredoc"}, TRUE))
    IN  [r EXCEPT !.e.heredoc = e.heredoc]
expand_pattern(e, s) ==
    LET r == expand_word_string([e EXCEPT !.split = FALSE], s, FALSE)
    IN  [e |-> [r.e EXCEPT !.split = e.split], err |-> r.err, v |-> r.out.b]

----------------------------------------------------------------------------
(* Reading parameters. *)
EvalArith(r) ==
    OkThen(r, LAMBDA q : IF eval_preexpanded(q.e, q.v) = {} THEN ResErr(q.e, "ArithSyntax")
                        ELSE Res(q.e, Only(eval_preexpanded(q.e, q.v))))
parse_subscript(e, s) == EvalArith(run_arith_string(e, s))
parse_indexed_subscript(e, x, s) ==
    OkThen(parse_subscript(e, s), LAMBDA q :
        LET max == array_max_index(q.e, x)
            n == IF q.v >= 0 \/ max = {} THEN q.v ELSE Only(max) + 1 + q.v
        IN  IF n < 0 THEN ResErr(q.e, "InvalidArraySubscript") ELSE Res(q.e, n))

\* The element, and whether it is unbound when it is missing.
Element(e, x) ==
    LET t == Target(e, Base(x))
    IN  IF kind(e, t) = "Assoc"
        THEN OkThen(run_string(e, Subscript(x)), LAMBDA q :
                Res(q.e, [at |-> get_array_assoc(q.e, t, q.v), strict |-> TRUE]))
        ELSE OkThen(parse_indexed_subscript(e, t, Subscript(x)), LAMBDA q :
                Res(q.e, IF kind(q.e, t) = "Indexed" THEN [at |-> get_array_indexed(q.e, t, q.v), strict |-> TRUE]
                         ELSE [at |-> IF q.v = 0 THEN get(q.e, t) ELSE {}, strict |-> q.v # 0]))
\* Nothing when x is not an element; the option otherwise.
read_element_value_if_set(e, x) ==
    IF ~contains(x, "[") \/ IsAll(x) THEN Res(e, {})
    ELSE LET r == Element(e, x)
         IN  CASE r.err = "InvalidArraySubscript" -> Res(r.e, {{}})
               [] r.err \notin {"", "InvalidArraySubscript"} -> r
               [] OTHER -> Res(r.e, {r.v.at})

OrUnbound(e, option, strict) ==
    IF option = {} /\ e.unbound /\ strict THEN ResErr(e, "UnboundVariable") ELSE Res(e, Scalar(unwrap_or_default(option)))
RECURSIVE read_value(_, _)
read_value(e, x) ==
    LET t == Target(e, x)
    IN  CASE x \in All -> Res(e, Array(e.pos, x = <<"*">>))
          [] x = <<"!">> -> OrUnbound(e, e.async, TRUE)
          [] x \notin All \cup {<<"!">>} /\ special_param(e, x) # {} -> Res(e, Scalar(Only(special_param(e, x))))
          [] is_number(x) /\ special_param(e, x) = {} -> OrUnbound(e, positional(e, Decimal(x)), TRUE)
          [] IsAll(x) -> Res(e, AllOf(e, Base(x), Subscript(x) = <<"*">>))
          [] contains(x, "[") /\ ~IsAll(x) ->
                IF resolve_nameref(e, Base(x)) = {} THEN Res(e, Scalar(<<>>))
                ELSE LET r == Element(e, x)
                     IN  IF r.err = "InvalidArraySubscript" THEN Res(r.e, Scalar(<<>>))
                         ELSE OkThen(r, LAMBDA q : OrUnbound(q.e, q.v.at, q.v.strict))
          [] OTHER -> IF resolve_nameref(e, x) = {} THEN Res(e, Scalar(<<>>))
                      ELSE IF t # x /\ contains(t, "[") THEN read_value(e, t)
                      ELSE OrUnbound(e, get(e, t), TRUE)

cached_separator(e) == IF join_separator(e.ifs) = <<>> THEN <<" ">> ELSE join_separator(e.ifs)
read_scalar(e, x) ==
    LET t == IF ~contains(x, "[") /\ contains(Target(e, x), "[") THEN Target(e, x) ELSE x
    IN  CASE x \in All -> IF e.unbound THEN ResErr(e, "UnboundVariable") ELSE Res(e, <<>>)
          [] x \notin All /\ IsAll(t) -> Res(e, join_array(e, Base(t), cached_separator(e)))
          [] OTHER -> OkThen(read_value(e, x), LAMBDA q : Res(q.e, q.v.s))

push_parameter_value(st, x, quoted) ==
    Write(st, read_value(st.e, x), LAMBDA q : PushParameter(st.out, q.e, x, q.v, quoted))

\* Set or not, by its kind; elements by their key.
SetTarget(e, t) ==
    CASE kind(e, t) = "Assoc" -> e.vars[t].v # <<>>
      [] kind(e, t) = "Indexed" -> DOMAIN e.vars[t].v # {}
      [] kind(e, t) = "Unset" -> FALSE
      [] OTHER -> get(e, t) # {}
IsSpecial(x) == x \in All \cup {<<"?">>, <<"#">>, <<"$">>, <<"-">>, <<"!">>} \/ is_number(x)
SpecialIsSet(e, x) ==
    CASE x \in All -> e.pos # <<>>
      [] x = <<"!">> -> e.async # {}
      [] is_number(x) -> positional(e, Decimal(x)) # {}
      [] OTHER -> TRUE
ElementIsSet(e, x) == LET r == read_element_value_if_set(e, x) IN Res(r.e, r.err = "" /\ r.v \notin {{}, {{}}})
parameter_is_set(e, x) ==
    LET t == Target(e, x)
        b == Target(e, Base(x))
        key == run_string(e, Subscript(x))
        idx == parse_subscript(e, Subscript(x))
    IN  CASE IsSpecial(x) -> Res(e, SpecialIsSet(e, x))
          [] array_all_ref(x) -> Res(e, SetTarget(e, b))
          [] kind(e, x) = "Nameref" /\ e.vars[x].v = <<>> -> Res(e, FALSE)
          [] contains(x, "[") /\ ~array_all_ref(x) ->
                IF kind(e, b) = "Assoc" THEN Res(key.e, get_array_assoc(key.e, b, key.v) # {})
                ELSE Res(idx.e, /\ kind(idx.e, b) = "Indexed"
                                /\ get_array_indexed(idx.e, b, IF idx.err = "" THEN idx.v ELSE 0) # {})
          [] OTHER -> IF t # x /\ contains(t, "[") THEN ElementIsSet(e, t) ELSE Res(e, get(e, t) # {})
parameter_has_transform_value(e, x) ==
    LET base == IF array_all_ref(x) THEN Base(x) ELSE x
        t == Target(e, base)
    IN  CASE IsSpecial(x) -> Res(e, SpecialIsSet(e, x))
          [] ~IsSpecial(x) /\ t # base /\ contains(t, "[") -> ElementIsSet(e, t)
          [] OTHER -> Res(e, SetTarget(e, t))

----------------------------------------------------------------------------
(* ${x-w}, ${x=w}, ${x?w} and ${x+w}. *)
expand_default_word_inner(e, word, quoted) ==
    IF e.heredoc THEN expand_word_internal(e, word, {"nosplit", "heredoc"} \cup QuotedFlags(quoted), quoted)
    ELSE expand_word_string(e, word, quoted)
expand_default_word(e, word, quoted) ==
    [expand_default_word_inner([e EXCEPT !.rhs = TRUE], word, quoted) EXCEPT !.e.rhs = e.rhs]
expand_assignment_default_word(e, word, quoted) ==
    [expand_default_word_inner([e EXCEPT !.assign = TRUE, !.rhs = FALSE], word, quoted)
        EXCEPT !.e.assign = e.assign, !.e.rhs = e.rhs]

attrs(e, x) == IF x \in DOMAIN e.attrs THEN e.attrs[x] ELSE {}
Upper(s) == [i \in DOMAIN s |-> to_ascii_uppercase(s[i])]
Lower(s) == [i \in DOMAIN s |-> to_ascii_lowercase(s[i])]
apply_assignment_attrs(e, t, s) ==
    LET integer == eval_preexpanded(e, s)
        text == IF "integer" \in attrs(e, t) THEN number_to_string(Only(integer)) ELSE s
        upper == IF "uppercase" \in attrs(e, t) THEN Upper(text) ELSE text
        lower == IF "lowercase" \in attrs(e, t) THEN Lower(upper) ELSE upper
    IN  IF "integer" \in attrs(e, t) /\ integer = {} THEN ResErr(e, "ArithSyntax")
        ELSE Res(e, IF "capcase" \in attrs(e, t) THEN Upper(Before(lower, 1)) \o Lower(From(lower, 1)) ELSE lower)

\* The environment's own assignments; Variables has them in full.
SetVar(e, x, k, v) == [e EXCEPT !.vars = (x :> [k |-> k, v |-> v]) @@ @]
set_array_indexed(e, x, n, s) ==
    SetVar(e, x, "Indexed", (n :> s) @@ (CASE kind(e, x) = "Indexed" -> e.vars[x].v
                                           [] kind(e, x) = "Scalar" -> (0 :> e.vars[x].v)
                                           [] OTHER -> <<>>))
set_array_assoc(e, x, key, s) ==
    LET old == e.vars[x].v
    IN  SetVar(e, x, "Assoc", IF \E i \in DOMAIN old : old[i][1] = key
                              THEN [i \in DOMAIN old |-> IF old[i][1] = key THEN <<key, s>> ELSE old[i]]
                              ELSE Append(old, <<key, s>>))
assign(e, x, s) ==
    LET t == Target(e, x)
        n == Number(Subscript(t))
    IN  CASE resolve_nameref(e, x) = {} -> ResErr(e, "CircularNameReference")
          [] resolve_nameref(e, x) # {} /\ "readonly" \in attrs(e, t) -> ResErr(e, "AssignToReadonly")
          [] contains(t, "[") -> Res(IF kind(e, Base(t)) = "Assoc" THEN set_array_assoc(e, Base(t), Subscript(t), s)
                                     ELSE set_array_indexed(e, Base(t), Only(n), s), <<>>)
          [] OTHER -> IF ~is_valid_name_str(t) THEN ResErr(e, "InvalidName")
                      ELSE Res(CASE kind(e, t) = "Assoc" -> set_array_assoc(e, t, <<"0">>, s)
                                 [] kind(e, t) = "Indexed" -> set_array_indexed(e, t, 0, s)
                                 [] kind(e, t) = "Nameref" -> SetVar(e, t, "Nameref", s)
                                 [] OTHER -> SetVar(e, t, "Scalar", s), <<>>)

assign_default_parameter(e, x, s) ==
    LET t == Target(e, IF contains(x, "[") THEN Base(x) ELSE x)
        unresolved == kind(e, x) = "Nameref" /\ e.vars[x].v = <<>>
        element(r, set(_, _, _, _)) ==
            OkThen(r, LAMBDA q : OkThen(apply_assignment_attrs(q.e, t, s), LAMBDA a : Res(set(a.e, t, q.v, a.v), a.v)))
    IN  CASE is_number(x) /\ x # <<"0">> -> ResErr(e, "CannotAssign")
          [] contains(x, "[") /\ "readonly" \in attrs(e, t) -> ResErr(e, "AssignToReadonly")
          [] contains(x, "[") /\ "readonly" \notin attrs(e, t) ->
                CASE kind(e, t) = "Assoc" -> element(run_string(e, Subscript(x)), set_array_assoc)
                  [] kind(e, t) # "Assoc" /\ IsAll(x) -> ResErr(e, "InvalidArraySubscript")
                  [] OTHER -> element(parse_indexed_subscript(e, t, Subscript(x)), set_array_indexed)
          [] OTHER -> OkThen(apply_assignment_attrs(e, t, s), LAMBDA a : OkThen(assign(a.e, x, a.v), LAMBDA q :
                        IF unresolved THEN Res(q.e, a.v)
                        ELSE LET r == read_scalar(q.e, x) IN Res(r.e, IF r.err = "" THEN r.v ELSE a.v)))

UseWord(st, word, quoted) ==
    IF quoted /\ word = <<>> THEN Output(st, push_quoted_null(st.out))
    ELSE Write(st, expand_default_word(st.e, word, quoted), LAMBDA q : extend_default_expansion(st.out, q.out, quoted))
\* fields: the word's field marks are kept.
AssignWord(st, x, word, quoted, fields) ==
    Bind(st, expand_assignment_default_word(st.e, word, quoted), LAMBDA w :
        Write(st, assign_default_parameter(w.e, x, assignment_value_from_expanded(w.out.b)), LAMBDA q :
            IF fields /\ ~quoted /\ contains(w.out.b, CTLFIELD) /\ ~is_null(q.e.ifs)
            THEN extend_assignment_default_expansion(st.out, w.out, quoted, q.e.ifs)
            ELSE push_value(st.out, q.v, quoted)))
Complain(st, word, quoted) ==
    LET r == expand_default_word(st.e, word, quoted)
    IN  IF word = <<>> THEN WithErr(st, "UnboundColonError")
        ELSE Bind(st, r, LAMBDA q : [st EXCEPT !.e = q.e, !.err = "UnboundColonError"])

handle_default_alt(st, x, op, colon, word, quoted) ==
    Bind(st, read_element_value_if_set(st.e, x), LAMBDA l :
        LET set == IF l.v = {} THEN parameter_is_set(l.e, x) ELSE Res(l.e, Only(l.v) # {})
            read == CASE ~set.v \/ (op = "+" /\ ~colon) -> Res(set.e, Scalar(<<>>))
                      [] set.v /\ (op # "+" \/ colon) /\ l.v # {} -> Res(set.e, Scalar(Only(Only(l.v))))
                      [] OTHER -> read_value(set.e, x)
        IN  Bind(st, read, LAMBDA v :
                LET now == [st EXCEPT !.e = v.e]
                    missing == ~set.v \/ (colon /\ default_test_string(v.v, join_separator(v.e.ifs)) = <<>>)
                    no_fields == ~set.v /\ (x = <<"@">> \/ (array_all_ref(x) /\ Subscript(x) = <<"@">>))
                IN  CASE op = "+" /\ missing ->
                            IF quoted /\ ~no_fields THEN Output(now, push_quoted_null(st.out)) ELSE now
                      [] (op = "-" /\ missing) \/ (op = "+" /\ ~missing) -> UseWord(now, word, quoted)
                      [] op = "=" /\ missing -> AssignWord(now, x, word, quoted, TRUE)
                      [] op = "?" /\ missing -> Complain(now, word, quoted)
                      [] OTHER -> Output(now, push_value_buf(st.out, v.e, v.v, quoted))))

----------------------------------------------------------------------------
(* The other operators. *)
handle_substring(st, x, rest, quoted) ==
    LET c == ColonFrom(rest, 1, 0, 0)
        off == parse_subscript(st.e, Before(rest, c - 1))
        len == IF c > Len(rest) THEN Res(off.e, {})
               ELSE OkThen(parse_subscript(off.e, From(rest, c)), LAMBDA q : Res(q.e, {q.v}))
        elems(e, all) == push_substring_array_values(st.out, e, all, quoted, (IF x \in All THEN x ELSE Subscript(x)) = <<"*">>,
                                                     join_separator(e.ifs))
    IN  IF rest = <<>> THEN WithErr(st, "BadSubstitution")
        ELSE IF x = <<"#">> /\ rest = <<"%">> THEN WithErr(st, "Other")
        ELSE Bind(st, off, LAMBDA o : Bind(st, len, LAMBDA l :
            LET t == Target(l.e, Base(x))
                negative == l.v # {} /\ Only(l.v) < 0
                array == x \in All \/ (array_all_ref(x) /\ kind(l.e, t) \in {"Indexed", "Assoc"})
                now == [st EXCEPT !.e = l.e]
            IN  CASE array /\ negative -> WithErr(now, "Other")
                  [] array /\ ~negative ->
                        Output(now, elems(l.e, IF x \in All THEN positional_substring_elems(l.e, o.v, l.v)
                                               ELSE IF kind(l.e, t) = "Indexed" THEN indexed_array_substring_elems(l.e, t, o.v, l.v)
                                               ELSE AssocSubstring(assoc_all(l.e, t), o.v, l.v)))
                  [] array_all_ref(x) /\ ~array ->
                        Output(now, IF get(l.e, t) = {} THEN elems(l.e, <<>>)
                                    ELSE push_value(st.out, ScalarSubstring(Only(get(l.e, t)), o.v, l.v), quoted))
                  [] OTHER -> Write(st, read_scalar(l.e, x), LAMBDA q :
                                push_value(st.out, ScalarSubstring(q.v, o.v, l.v), quoted))))

\* A literal pattern and a plain value: the result goes out as it is.
PlainValue(e, x) == UNION {IF plain_shell_string_bytes(v) THEN {v} ELSE {} : v \in read_plain_scalar_cow(e, x)}
FastUnbound(e, x) == e.unbound /\ read_plain_scalar_cow(e, x) # {} /\ get(e, x) = {}
Fast(st, x, bytes) == IF FastUnbound(st.e, x) THEN WithErr(st, "UnboundVariable")
                       ELSE Output(st, PutBytes(st.out, bytes))
CanFast(e, x) == FastUnbound(e, x) \/ PlainValue(e, x) # {}

handle_remove(st, x, pat, prefix, longest, quoted) ==
    LET opts == pattern_match_opts(st.e) \ {"nocaseglob"}
    IN  IF ~quoted /\ raw_literal_pattern(pat, opts) /\ CanFast(st.e, x)
        THEN Fast(st, x, literal_remove(Only(PlainValue(st.e, x)), pat, prefix))
        ELSE Bind(st, expand_pattern(st.e, pat), LAMBDA p : Write(st, read_value(p.e, x), LAMBDA q :
                push_value_buf(st.out, q.e, transform_value(q.v, [s \in ValueTexts(q.v) |->
                    IF is_literal_pattern(p.v, opts) THEN literal_remove(s, p.v, prefix)
                    ELSE remove_pattern(s, p.v, prefix, longest, opts)]), quoted)))

handle_patsub(st, x, rest, quoted) ==
    LET sub == PatSub(rest)
        opts == pattern_match_opts(st.e)
        amp == "patsub_replacement" \in st.e.opts
    IN  IF ~quoted /\ ~amp /\ raw_literal_pattern(sub.pat, opts) /\ raw_plain_word(sub.rep) /\ CanFast(st.e, x)
        THEN Fast(st, x, literal_substitute(Only(PlainValue(st.e, x)), sub.pat, sub.rep, sub.mode))
        ELSE Bind(st, expand_pattern(st.e, sub.pat), LAMBDA p :
             Bind(st, expand_word_string(p.e, sub.rep, FALSE), LAMBDA w : Write(st, read_value(w.e, x), LAMBDA q :
                LET rep == dequote_bytes(w.out.b)
                    by(m) == IF amp THEN expand_patsub_replacement(w.out.b, m) ELSE rep
                    replaced(s, ps) == Replaced(s, ps, [k \in DOMAIN ps |-> by(Matched(s, ps[k]))])
                IN  push_value_buf(st.out, q.e, transform_value(q.v, [s \in ValueTexts(q.v) |->
                        IF ~amp /\ is_literal_pattern(p.v, opts) THEN literal_substitute(s, p.v, rep, sub.mode)
                        ELSE replaced(s, pat_subst(s, p.v, sub.mode, opts))]), quoted))))

handle_casemod(st, x, pat, op, first, quoted) ==
    LET opts == pattern_match_opts(st.e) \ {"nocaseglob"}
        p == IF pat = <<>> THEN Res(st.e, {}) ELSE OkThen(expand_pattern(st.e, pat), LAMBDA q : Res(q.e, {q.v}))
    IN  Bind(st, p, LAMBDA q : Write(st, read_value(q.e, x), LAMBDA r :
            push_value_buf(st.out, r.e, transform_value(r.v, [s \in ValueTexts(r.v) |->
                casemod(s, q.v, op, first, opts)]), quoted)))

\* ${x@op}: the attributes as letters, and a command that sets x again.
AttributeLetters == <<<<"Indexed", "a">>, <<"Assoc", "A">>, <<"integer", "i">>, <<"Nameref", "n">>, <<"readonly", "r">>,
             <<"export", "x">>, <<"uppercase", "u">>, <<"lowercase", "l">>, <<"trace", "t">>>>
attribute_letters(e, x) ==
    Concat([i \in DOMAIN AttributeLetters |-> IF AttributeLetters[i][1] \in attrs(e, x) \cup {kind(e, x)} THEN <<AttributeLetters[i][2]>> ELSE <<>>])
Declared(e, x, default, text) ==
    LET letters == IF attribute_letters(e, x) = <<>> THEN default ELSE attribute_letters(e, x)
    IN  (IF letters = <<>> THEN <<>> ELSE <<"declare", " ", "-">> \o letters \o <<" ">>) \o x \o text
format_scalar_declaration(e, x) ==
    LET t == Target(e, x)
        b == Target(e, Base(x))
        l == read_element_value_if_set(e, x)
        value(y, s) == Declared(l.e, y, <<>>, <<"=">> \o shell_quote_shell_string(s))
    IN  CASE contains(x, "[") ->
                Res(l.e, IF l.err = "" /\ l.v \notin {{}, {{}}} THEN value(b, Only(Only(l.v))) ELSE <<>>)
          [] ~contains(x, "[") /\ get(e, t) # {} -> Res(e, value(t, Only(get(e, t))))
          [] OTHER -> Res(e, IF attribute_letters(e, t) = <<>> THEN <<>> ELSE Declared(e, t, <<>>, <<>>))
ListedElem(key, s) == <<"[">> \o key \o <<"]", "=">> \o array_element_quote(s)
format_array_declaration(e, x) ==
    LET t == Target(e, x)
        idx == Indexes(e, t)
        all == e.vars[t].v
        list(items, last) == Declared(e, t, IF kind(e, t) = "Assoc" THEN <<"A">> ELSE <<"a">>,
                                      <<"=", "(">> \o FieldsJoined(items, <<" ">>) \o last \o <<")">>)
    IN  CASE kind(e, t) = "Indexed" -> Res(e, list([i \in DOMAIN idx |-> ListedElem(Printed(idx[i]), all[idx[i]])], <<>>))
          [] kind(e, t) = "Assoc" -> Res(e, list([i \in DOMAIN all |-> ListedElem(assoc_key_quote(all[i][1]), all[i][2])],
                                                 IF all = <<>> THEN <<>> ELSE <<" ">>))
          [] OTHER -> format_scalar_declaration(e, t)
handle_transform_declare(st, x, quoted) ==
    Write(st, CASE x \in All -> Res(st.e, FieldsJoined(<<<<"set", " ", "-", "-">>>> \o
                                                 [i \in DOMAIN st.e.pos |-> shell_quote_shell_string(st.e.pos[i])], <<" ">>))
                [] array_all_ref(x) -> format_array_declaration(st.e, Base(x))
                [] OTHER -> format_scalar_declaration(st.e, x),
          LAMBDA q : push_value(st.out, q.v, quoted))

Pairs(e, t) == IF kind(e, t) \notin {"Indexed", "Assoc"} THEN <<>>
               ELSE LET all == IF kind(e, t) = "Assoc" THEN assoc_all(e, t) ELSE get_array_all(e, t)
                    IN  [i \in DOMAIN all |-> <<keys(e, t)[i], all[i]>>]
KeysAndValues(st, x, op, quoted) ==
    LET t == Target(st.e, IF array_all_ref(x) THEN Base(x) ELSE x)
        pairs == Pairs(st.e, t)
        text == FieldsJoined([i \in DOMAIN pairs |-> key_value_transform_key_quote(pairs[i][1]) \o <<" ">> \o double_quote(pairs[i][2])],
                       <<" ">>)
    IN  CASE array_all_ref(x) /\ op = "k" ->
                Output(st, push_array_values(st.out, st.e, Concat(pairs), quoted, Subscript(x) = <<"*">>,
                                             join_separator(st.e.ifs)))
          [] array_all_ref(x) /\ op = "K" ->
                Output(st, push_value(st.out, IF kind(st.e, t) = "Assoc" /\ text # <<>> THEN Append(text, " ") ELSE text, quoted))
          [] ~array_all_ref(x) /\ kind(st.e, t) = "Assoc" -> st
          [] OTHER -> Write(st, read_value(st.e, x), LAMBDA q :
                        push_value_buf(st.out, q.e, transform_value(q.v, [s \in ValueTexts(q.v) |-> shell_quote(s)]), quoted))

handle_transform(st, x, rest, quoted) ==
    LET op == CharAt(rest, 1)
        named == Target(st.e, IF array_all_ref(x) THEN Base(x) ELSE x)
        changed(v) == transform_value(v, [s \in ValueTexts(v) |-> IF op = "Q" THEN shell_quote_shell_string(s) ELSE ansi_c_decode(s)])
        has == parameter_has_transform_value(st.e, x)
        known == IF st.e.unbound /\ ~has.v THEN ResErr(has.e, "UnboundVariable") ELSE Res(st.e, <<>>)
        recase(s) == CASE op = "U" -> Upper(s) [] op = "L" -> Lower(s) [] op = "u" -> Upper(Before(s, 1)) \o From(s, 1)
    IN  CASE op \notin {"Q", "E", "A", "a", "K", "k", "U", "L", "u"} -> WithErr(st, "BadSubstitution")
          [] op \in {"Q", "E"} -> Bind(st, read_element_value_if_set(st.e, x), LAMBDA l :
                LET set == parameter_is_set(l.e, x)
                    now == [st EXCEPT !.e = l.e]
                IN  IF l.v # {} THEN IF Only(l.v) = {} THEN now
                                     ELSE Output(now, push_value_buf(st.out, l.e, changed(Scalar(Only(Only(l.v)))), quoted))
                    ELSE IF ~set.v THEN [now EXCEPT !.e = set.e]
                    ELSE Write(st, read_value(set.e, x), LAMBDA q : push_value_buf(st.out, q.e, changed(q.v), quoted)))
          [] op = "a" -> Write(st, known, LAMBDA q : push_value(st.out, attribute_letters(q.e, named), quoted))
          [] op = "A" -> Bind(st, known, LAMBDA q : handle_transform_declare([st EXCEPT !.e = q.e], x, quoted))
          [] op \in {"K", "k"} -> KeysAndValues(st, x, op, quoted)
          [] OTHER -> Write(st, read_scalar(st.e, x), LAMBDA q : push_value(st.out, recase(q.v), quoted))

----------------------------------------------------------------------------
(* ${#x}. *)
CountOf(e, t, scalar) == CASE kind(e, t) = "Assoc" -> Len(e.vars[t].v)
                           [] kind(e, t) = "Indexed" -> Cardinality(DOMAIN e.vars[t].v)
                           [] OTHER -> IF get(e, scalar) # {} THEN 1 ELSE 0
compute_length(e, x) ==
    LET b == Target(e, Base(x))
        t == Target(e, x)
        key == run_string(e, Subscript(x))
    IN  CASE x \in All -> Res(e, Len(e.pos))
          [] contains(x, "[") /\ e.unbound /\ kind(e, b) = "Unset" /\ get(e, b) = {} -> ResErr(e, "UnboundVariable")
          [] IsAll(x) /\ ~(e.unbound /\ kind(e, b) = "Unset" /\ get(e, b) = {}) ->
                Res(e, IF b # Base(x) /\ contains(b, "[") THEN 0 ELSE CountOf(e, b, Base(x)))
          [] contains(x, "[") /\ ~IsAll(x) /\ ~(e.unbound /\ kind(e, b) = "Unset" /\ get(e, b) = {}) ->
                IF kind(e, b) = "Assoc" /\ key.err = "" /\ key.v = <<>> THEN ResErr(key.e, "InvalidArraySubscript")
                ELSE OkThen(Element(e, x), LAMBDA q : Res(q.e, Len(unwrap_or_default(q.v.at))))
          [] ~contains(x, "[") /\ t # x /\ array_all_ref(t) -> Res(e, CountOf(e, Base(t), Base(t)))
          [] OTHER -> OkThen(read_scalar(e, x), LAMBDA q : Res(q.e, Len(q.v)))

Specials == {"#", "?", "$", "!", "-", "*", "@"} \cup Range(Numerals)
valid_length_parameter_name(x) ==
    LET i == PastIn(x, 1, NameStart \cup Range(Numerals))
    IN  \/ Len(x) = 1 /\ x[1] \in Specials
        \/ is_number(x)
        \/ param_is_name_start(CharAt(x, 1)) /\ (i > Len(x) \/ (x[i] = "[" /\ Last(x) = "]"))

----------------------------------------------------------------------------
(* ${!x}. *)
ApplyTo(st, x, op, quoted) ==
    LET c == op[1]
        twice == CharAt(op, 2) = c
        pat == From(op, IF twice THEN 2 ELSE 1)
    IN  CASE c = "@" -> handle_transform(st, x, Tail(op), quoted)
          [] c \in {"#", "%"} -> handle_remove(st, x, pat, c = "#", twice, quoted)
          [] c = "/" -> handle_patsub(st, x, Tail(op), quoted)
          [] c \in {"^", ",", "~"} -> handle_casemod(st, x, pat, c, ~twice, quoted)
          [] OTHER -> WithErr(st, "BadSubstitution")

\* The name that the value of x is.
Indirect(r) ==
    OkThen(r, LAMBDA q : IF q.v = <<>> \/ ~valid_length_parameter_name(q.v) THEN ResErr(q.e, "InvalidName") ELSE q)

handle_indirect_target_operation(st, source, suffix, quoted) ==
    LET all == Len(suffix) >= 3 /\ suffix[1] = "[" /\ suffix[2] \in {"@", "*"} /\ suffix[3] = "]"
        op == IF all THEN From(suffix, 3) ELSE suffix
        name == IF all /\ kind(st.e, source) \in {"Indexed", "Assoc"} THEN Res(st.e, join_array(st.e, source, <<" ">>))
                ELSE read_scalar(st.e, source)
        has(q) == parameter_has_transform_value(q.e, q.v)
    IN  IF suffix[1] = "[" /\ ~all /\ kind(st.e, source) = "Nameref"
        THEN IF kind(st.e, Target(st.e, source)) = "Unset" THEN WithErr(st, "Other") ELSE st
        ELSE Bind(st, Indirect(name), LAMBDA q :
                LET now == [st EXCEPT !.e = q.e]
                IN  IF op = <<>> THEN push_parameter_value(now, q.v, quoted)
                    ELSE IF op[1] = "@" /\ CharAt(op, 2) \in {"a", "A"} /\ q.e.unbound /\ ~has(q).v
                    THEN [now EXCEPT !.e = has(q).e, !.err = "UnboundVariable"]
                    ELSE ApplyTo(now, q.v, op, quoted))

handle_indirect_default_alt(st, x, op, colon, word, quoted) ==
    LET set == parameter_is_set(st.e, x)
        now == [st EXCEPT !.e = set.e]
    IN  CASE set.v -> Bind(now, Indirect(read_scalar(set.e, x)), LAMBDA q :
                        handle_default_alt([now EXCEPT !.e = q.e], q.v, op, colon, word, quoted))
          [] ~set.v /\ is_valid_name_str(x) -> WithErr(now, "Other")
          [] OTHER -> CASE op = "-" -> UseWord(now, word, quoted)
                        [] op = "+" -> IF quoted THEN Output(now, push_quoted_null(st.out)) ELSE now
                        [] op = "=" -> AssignWord(now, x, word, quoted, FALSE)
                        [] op = "?" -> Complain(now, word, quoted)

\* The names that begin with a prefix; the order of the names is left out.
NamesLike(e, prefix) == SetToSeq({x \in DOMAIN e.vars : Len(x) >= Len(prefix) /\ Before(x, Len(prefix)) = prefix})
PrefixNames(st, prefix, star, quoted) ==
    LET names == NamesLike(st.e, prefix)
        sep == IF star THEN cached_separator(st.e) ELSE <<" ">>
    IN  CASE quoted /\ star -> Output(st, push_value(st.out, FieldsJoined(names, sep), TRUE))
          [] quoted /\ ~star -> Output(st, PutBytes(buf_record_dollar_at(st.out),
                                               FieldsJoined([i \in DOMAIN names |-> push_quoted_slice(names[i])], <<CTLFIELD>>)))
          [] OTHER -> Output(st, PutBytes(st.out, FieldsJoined(names, push_literal_slice(sep))))
ArrayKeys(st, base, star, quoted) ==
    LET x == IF kind(st.e, base) = "Nameref" THEN Target(st.e, base) ELSE base
        ks == keys(st.e, x)
        sep == IF star THEN join_separator(st.e.ifs) ELSE <<" ">>
        put(out, i) == push_value(IF i = 1 THEN out ELSE PutBytes(out, push_literal_slice(sep)), ks[i], quoted)
    IN  CASE kind(st.e, x) \in {"Indexed", "Assoc"} ->
                Output(st, IF quoted /\ star THEN push_value(st.out, FieldsJoined(ks, sep), TRUE)
                           ELSE FoldLeft(put, st.out, [i \in DOMAIN ks |-> i]))
          [] kind(st.e, x) \in {"Scalar", "Nameref"} -> Output(st, push_value(st.out, <<"0">>, quoted))
          [] OTHER -> st

indirect_name_end(s) == IF param_is_name_start(CharAt(s, 1)) THEN PastIn(s, 1, NameStart \cup Range(Numerals)) - 1
                        ELSE IF CharAt(s, 1) \in Specials THEN 1 ELSE 0
handle_indirection(st, rest, quoted) ==
    LET last == Last(rest)
        prefix == Before(rest, Len(rest) - 1)
        n == indirect_name_end(rest)
        x == Before(rest, n)
        op == From(rest, n)
        colon == CharAt(op, 1) = ":" /\ Len(op) > 1
        o == CharAt(op, IF colon THEN 2 ELSE 1)
        set == parameter_is_set(st.e, x)
    IN  CASE last \in {"*", "@"} /\ (prefix = <<>> \/ is_valid_name_str(prefix)) ->
                IF prefix = <<>> THEN st ELSE PrefixNames(st, prefix, last = "*", quoted)
          [] last = "]" /\ IsAll(rest) /\ Bracket(rest) = Len(rest) - 2 ->
                ArrayKeys(st, Base(rest), Subscript(rest) = <<"*">>, quoted)
          [] OTHER ->
                IF n = 0 THEN WithErr(st, "BadSubstitution")
                ELSE IF op # <<>> /\ op[1] \in {"@", "[", "#", "%", "/", "^", ",", "~"}
                THEN handle_indirect_target_operation(st, x, op, quoted)
                ELSE IF op # <<>>
                THEN IF o \notin {"-", "=", "?", "+"} THEN WithErr(st, "BadSubstitution")
                     ELSE handle_indirect_default_alt(st, x, o, colon, From(op, IF colon THEN 2 ELSE 1), quoted)
                ELSE IF kind(st.e, x) = "Nameref"
                THEN IF Target(st.e, x) = <<>> THEN WithErr(st, "InvalidName")
                     ELSE Output(st, push_value(st.out, Target(st.e, x), quoted))
                ELSE IF ~set.v /\ is_valid_name_str(x) THEN [st EXCEPT !.e = set.e, !.err = "Other"]
                ELSE Bind(st, Indirect(read_scalar(set.e, x)), LAMBDA q :
                        push_parameter_value([st EXCEPT !.e = q.e], q.v, quoted))

----------------------------------------------------------------------------
(* What is between the braces. *)
prefix_is_parameter(body) == \/ CharAt(body, 2) \in {":", "/", "%", "=", "+"}
                             \/ CharAt(body, 2) \in {"-", "?"} /\ Len(body) > 2

\* Past the matching close of what begins before p.
RECURSIVE skip_balanced_param_construct(_, _, _), skip_parameter_subscript(_, _, _)
skip_balanced_param_construct(s, p, depth) ==
    LET c == CharAt(s, p)
    IN  CASE p > Len(s) \/ depth = 0 -> p
          [] p <= Len(s) /\ depth > 0 /\ c = "\\" -> skip_balanced_param_construct(s, Min({p + 2, Len(s) + 1}), depth)
          [] depth > 0 /\ c = "'" -> skip_balanced_param_construct(s, SingleEnd(s, p + 1), depth)
          [] depth > 0 /\ c = "\"" -> skip_balanced_param_construct(s, QuoteEnd(s, p + 1, "\""), depth)
          [] depth > 0 /\ c \in {"{", "}"} -> skip_balanced_param_construct(s, p + 1, IF c = "{" THEN depth + 1 ELSE depth - 1)
          [] OTHER -> skip_balanced_param_construct(s, p + 1, depth)
PastDollar(s, p) == IF CharAt(s, p + 1) = "{" THEN skip_balanced_param_construct(s, p + 2, 1)
                    ELSE IF extract_paren(s, p + 2).err = "" THEN extract_paren(s, p + 2).end ELSE Len(s) + 1
RECURSIVE SubscriptQuote(_, _)
SubscriptQuote(s, p) ==
    CASE p > Len(s) -> p
      [] CharAt(s, p) = "\\" -> SubscriptQuote(s, Min({p + 2, Len(s) + 1}))
      [] CharAt(s, p) = "\"" -> p + 1
      [] NestsAt(s, p) -> SubscriptQuote(s, PastDollar(s, p))
      [] OTHER -> SubscriptQuote(s, p + 1)
skip_parameter_subscript(s, p, depth) ==
    LET c == CharAt(s, p)
    IN  CASE p > Len(s) \/ depth = 0 -> p
          [] p <= Len(s) /\ depth > 0 /\ c = "\\" -> skip_parameter_subscript(s, Min({p + 2, Len(s) + 1}), depth)
          [] depth > 0 /\ c = "'" -> skip_parameter_subscript(s, SingleEnd(s, p + 1), depth)
          [] depth > 0 /\ c = "\"" -> skip_parameter_subscript(s, SubscriptQuote(s, p + 1), depth)
          [] depth > 0 /\ NestsAt(s, p) -> skip_parameter_subscript(s, PastDollar(s, p), depth)
          [] depth > 0 /\ c \in {"[", "]"} -> skip_parameter_subscript(s, p + 1, IF c = "[" THEN depth + 1 ELSE depth - 1)
          [] OTHER -> skip_parameter_subscript(s, p + 1, depth)

\* The parameter's name and where it ends; 0 when there is none.
ParameterName(e, body) ==
    LET ansi == scan_ansi_c_quoted(body, 3)
        quoted == "extquote" \in e.opts /\ AnsiAt(body, 1) /\ CharAt(body, ansi.end - 1) = "'"
        p == PastIn(body, 1, NameStart \cup Range(Numerals))
        end == IF CharAt(body, p) = "[" THEN skip_parameter_subscript(body, p + 1, 1) - 1 ELSE p - 1
        n == IF end > 0 THEN end ELSE IF CharAt(body, 1) \in Specials THEN 1 ELSE 0
    IN  IF ~quoted THEN [x |-> Before(body, n), end |-> n]
        ELSE LET x == ansi_c_decode(ansi.body)
             IN  IF valid_length_parameter_name(x) THEN [x |-> x, end |-> ansi.end - 1] ELSE [x |-> <<>>, end |-> 0]

expand_brace_body(st, body, quoted) ==
    LET name == ParameterName(st.e, body)
        x == name.x
        op == From(body, name.end)
        c == CharAt(op, 1)
        colon == c = ":" /\ CharAt(op, 2) \in {"-", "=", "?", "+"}
        o == IF colon THEN op[2] ELSE c
        word == From(op, IF colon THEN 2 ELSE 1)
    IN  CASE body = <<>> -> WithErr(st, "BadSubstitution")
          [] CharAt(body, 1) = "#" /\ Len(body) > 1 /\ ~prefix_is_parameter(body) ->
                IF ~valid_length_parameter_name(Tail(body)) THEN WithErr(st, "BadSubstitution")
                ELSE Write(st, compute_length(st.e, Tail(body)), LAMBDA q : push_value(st.out, Printed(q.v), quoted))
          [] /\ CharAt(body, 1) = "!" /\ Len(body) > 1 /\ ~prefix_is_parameter(body)
             /\ ~("posix" \in st.e.opts /\ body[2] \in {"?", "-"}) -> handle_indirection(st, Tail(body), quoted)
          [] OTHER ->
                IF name.end = 0 THEN WithErr(st, "BadSubstitution")
                ELSE IF op = <<>> THEN push_parameter_value(st, x, quoted)
                ELSE IF op = <<":">> \/ (x = <<"#">> /\ word = <<>> /\ o \in {"/", "%", "=", "+"})
                THEN WithErr(st, "BadSubstitution")
                ELSE IF c = ":" /\ ~colon THEN handle_substring(st, x, Tail(op), quoted)
                ELSE IF o \in {"-", "=", "?", "+"} THEN handle_default_alt(st, x, o, colon, word, quoted)
                ELSE ApplyTo(st, x, op, quoted)

\* ${x#lit}, ${x%lit} and ${x//lit/text} of a plain variable; nothing when it is not one.
simple_brace_body(s, start) == LET end == Reach(s, start, {"}", "{", "$", "BQ", "'", "\"", "\\"})
                               IN  IF CharAt(s, end) = "}" THEN {SubSeq(s, start, end - 1)} ELSE {}
try_fast_literal_brace_body_bytes(e, body) ==
    LET n == PastIn(body, 1, NameStart \cup Range(Numerals)) - 1
        x == Before(body, n)
        op == From(body, n)
        twice == CharAt(op, 2) = CharAt(op, 1)
        pat == From(op, IF twice THEN 2 ELSE 1)
        sep == Reach(pat, 1, {"/"})
        opts == pattern_match_opts(e)
        done(f(_)) == IF FastUnbound(e, x) THEN {ResErr(e, "UnboundVariable")} ELSE {Res(e, f(v)) : v \in PlainValue(e, x)}
    IN  CASE n = 0 \/ ~param_is_name_start(CharAt(body, 1)) -> {}
          [] param_is_name_start(CharAt(body, 1)) /\ CharAt(op, 1) \in {"#", "%"} ->
                IF raw_literal_pattern(pat, opts) THEN done(LAMBDA v : literal_remove(v, pat, op[1] = "#")) ELSE {}
          [] param_is_name_start(CharAt(body, 1)) /\ CharAt(op, 1) = "/" /\ twice ->
                IF "patsub_replacement" \notin e.opts /\ raw_literal_pattern(Before(pat, sep - 1), opts) /\ raw_plain_word(From(pat, sep))
                THEN done(LAMBDA v : literal_substitute(v, Before(pat, sep - 1), From(pat, sep), "All")) ELSE {}
          [] OTHER -> {}

----------------------------------------------------------------------------
(* Commands. *)
\* A list of words through every stage, with the options on.
braced(word, on) ==
    IF "NO_BRACE" \in on \/ word.flags \cap {"nobrace", "assignment"} # {} THEN <<word>>
    ELSE LET b == brace_expand(word.text) IN [j \in DOMAIN b |-> [word EXCEPT !.text = b[j]]]
SplitWord(e, w, on) ==
    LET parts == IF "SPLIT_FIELDS" \in on /\ "nosplit" \notin w.flags /\ "hasdollar" \in w.flags
                 THEN split(w.text, e.ifs) ELSE <<w.text>>
    IN  [j \in DOMAIN parts |-> [w EXCEPT !.text = parts[j]]]
GlobWord(e, w, on) ==
    IF /\ "EXPAND_GLOB" \in on /\ "noglob" \notin e.opts /\ "noglob" \notin w.flags
       /\ has_glob_meta(w.text, e.opts \cap {"extglob", "nocaseglob"})
    THEN pathname_expand(w.text, e.tree, <<>>, from_env(e.opts, get(e, <<"GLOBIGNORE">>), [by |-> "name", desc |-> FALSE]))
    ELSE [err |-> FALSE, words |-> <<w.text>>]
run_words(e, words, on) ==
    LET each(acc, w) == OkThen(acc, LAMBDA a : LET r == expand_word_internal(a.e, w.text, w.flags, "NO_TILDE" \in on)
                                              IN  [e |-> r.e, err |-> r.err, v |-> Append(a.v, [w EXCEPT !.text = r.out.b])])
        all == FoldLeft(each, Res([e EXCEPT !.split = "SPLIT_FIELDS" \in on], <<>>),
                        Concat([k \in DOMAIN words |-> braced(words[k], on)]))
        marked == Concat([k \in DOMAIN all.v |-> LET parts == split_field_markers(all.v[k].text)
                                                 IN  [j \in DOMAIN parts |-> [all.v[k] EXCEPT !.text = parts[j]]]])
        fields == Concat([k \in DOMAIN marked |-> SplitWord(all.e, marked[k], on)])
        globbed == [k \in DOMAIN fields |-> GlobWord(all.e, fields[k], on)]
        words1 == Concat([k \in DOMAIN globbed |-> globbed[k].words])
        done == [all.e EXCEPT !.split = e.split]
    IN  IF all.err # "" THEN ResErr(done, all.err)
        ELSE IF \E k \in DOMAIN globbed : globbed[k].err THEN ResErr(done, "NoMatch")
        ELSE Res(done, [k \in DOMAIN words1 |-> dequote_bytes(words1[k])])

\* A new context, and back to the one before with the variables as they are now.
NewContext(e) == [e EXCEPT !.ifs = LiveIfs(e), !.depth = 0, !.assign = FALSE, !.rhs = FALSE, !.split = FALSE,
                           !.heredoc = FALSE, !.unbound = "nounset" \in e.opts]
Resumed(e, r) == [r EXCEPT !.e = [e EXCEPT !.vars = r.e.vars, !.status = r.e.status]]
expand_word_list(e, words, on) == Resumed(e, run_words(NewContext(e), words, on))

StripNewlines(s) == Before(s, Max({0} \cup {k \in DOMAIN s : s[k] # "NL"}))
bytes_to_subst_buf(s, quoted) == IF quoted /\ s = <<>> THEN push_quoted_param_null(EmptyBuf) ELSE PutBytes(EmptyBuf, InMode(s, quoted))
input_file_substitution_word(src) ==
    LET rest == From(TrimmedText(src), 1)
    IN  IF CharAt(TrimmedText(src), 1) = "<" /\ CharAt(rest, 1) \notin {"<", ">", "&", "("} THEN TrimmedText(rest) ELSE <<>>
Lookup(f, x) == IF x \in DOMAIN f THEN f[x] ELSE <<>>
command_substitute(st, src, quoted) ==
    LET file == input_file_substitution_word(src)
        word == [text |-> file, flags |-> IF contains(file, "$") \/ contains(file, "BQ") THEN {"hasdollar"} ELSE {}]
        path == expand_word_list(st.e, <<word>>, IF "posix" \in st.e.opts THEN {} ELSE {"EXPAND_GLOB"})
        add(e, s) == [st EXCEPT !.e = e, !.out = extend_from(@, bytes_to_subst_buf(StripNewlines(s), quoted))]
    IN  IF file = <<>> THEN add(st.e, Lookup(st.e.cmds, src))
        ELSE Bind(st, path, LAMBDA q :
                LET found == q.v # <<>> /\ q.v[1] \in DOMAIN q.e.files
                IN  add([q.e EXCEPT !.status = IF found THEN <<"0">> ELSE <<"1">>],
                        IF found THEN q.e.files[q.v[1]] ELSE <<>>))
current_substitute(st, src, quoted, mode) ==
    LET s == Lookup(st.e.cmds, src)
    IN  Output(st, extend_from(st.out, bytes_to_subst_buf(IF mode = "Output" THEN StripNewlines(s) ELSE s, quoted)))

----------------------------------------------------------------------------
(* $ at i: the state, where to go on, and whether it was an expansion. *)
Onward(st, i) == [st |-> st, i |-> i, ok |-> TRUE]
Scan(st, r, next(_)) == IF r.err # "" THEN Onward(WithErr(st, r.err), 0) ELSE Onward(next(r.body), r.end)
DollarArith(st, expr, quoted) ==
    Write(st, EvalArith(run_arith_string(st.e, expr)), LAMBDA q : push_value(st.out, number_to_string(q.v), quoted))

parameter_brace_expand(st, s, i, quoted) ==
    LET mode == current_subst_mode(s, i + 2)
        simple == IF quoted THEN {} ELSE simple_brace_body(s, i + 2)
        fast == UNION {try_fast_literal_brace_body_bytes(st.e, b) : b \in simple}
    IN  CASE mode # "None" -> Scan(st, extract_current_brace_body(s, IF mode = "Reply" THEN i + 3 ELSE i + 2),
                                   LAMBDA body : current_substitute(st, body, quoted, mode))
          [] mode = "None" /\ fast # {} -> Onward(Write(st, Only(fast), LAMBDA q : PutBytes(st.out, q.v)), i + 3 + Len(Only(simple)))
          [] OTHER -> Scan(st, extract_brace_body(s, i + 2, quoted /\ "posix" \in st.e.opts),
                           LAMBDA body : expand_brace_body(st, body, quoted))
dollar_paren(st, s, i, quoted) ==
    IF CharAt(s, i + 2) = "(" /\ param_arith_dparen_scan(s, i + 3, 1).k # "CommandSubstitution"
    THEN Scan(st, extract_double_paren(s, i + 3), LAMBDA body : DollarArith(st, body, quoted))
    ELSE Scan(st, extract_paren(s, i + 2), LAMBDA body : command_substitute(st, body, quoted))
dollar_bracket(st, s, i, quoted) ==
    Scan(st, extract_legacy_arith(s, i + 2), LAMBDA body : DollarArith(st, body, quoted))
process_subst_expand(st, s, i) ==
    Scan(st, extract_paren(s, i + 2), LAMBDA body : Output(st, PutBytes(st.out, <<"path">>)))
ansi_c_quote(st, s, i) ==
    LET r == scan_ansi_c_quoted(s, i + 2)
        text == ansi_c_decode(r.body)
    IN  Onward(Output(st, IF text = <<>> THEN push_quoted_null(st.out) ELSE PutBytes(st.out, push_quoted_slice(text))), r.end)

expand_special(st, x, quoted) ==
    IF x \in All THEN Output(st, Positionals(st.out, st.e, x = <<"*">>, quoted))
    ELSE Write(st, read_value(st.e, x), LAMBDA q : push_value(st.out, q.v.s, quoted))
dollar_name(st, x, quoted) ==
    IF kind(st.e, x) = "Nameref" /\ array_all_ref(Target(st.e, x)) THEN push_parameter_value(st, Target(st.e, x), quoted)
    ELSE Write(st, IF ~st.e.unbound /\ kind(st.e, x) # "Nameref" THEN Res(st.e, unwrap_or_default(get(st.e, x)))
                   ELSE read_scalar(st.e, x), LAMBDA q : push_value(st.out, q.v, quoted))

\* A double-quoted text from i, and $"...".
next_is_dollar_at(s, i) == CharAt(s, i) = "$" /\ (\/ CharAt(s, i + 1) = "@"
                                                  \/ SubSeq(s, i + 1, Min({i + 3, Len(s)})) = <<"{", "@", "}">>)
RECURSIVE PopNulls(_)
PopNulls(out) == LET n == Len(out.b)
                 IN  IF n > 0 /\ out.b[n] = CTLNUL /\ n \in out.nulls
                     THEN PopNulls([out EXCEPT !.b = Before(out.b, n - 1), !.nulls = @ \ {n}]) ELSE out
drop_empty_param_before_dollar_at(st, s, i) ==
    IF st.err = "" /\ st.e.pos = <<>> /\ next_is_dollar_at(s, i) THEN Output(st, PopNulls(st.out)) ELSE st

RECURSIVE param_expand(_, _, _, _), double_quoted(_, _, _, _, _)
locale_quote(st, s, i) ==
    LET end == QuoteEnd(s, i + 2, "\"")
        text == SubSeq(s, i + 2, end - 2)
        inner == double_quoted(st, text \o <<"\"">>, 1, FALSE, FALSE)
    IN  IF ~QuoteCloses(s, i + 2, "\"") THEN double_quoted(st, s, i + 2, FALSE, FALSE)
        ELSE IF "noexpand_translation" \in st.e.opts
        THEN Onward(Output(st, IF text = <<>> THEN push_quoted_null(st.out) ELSE PutBytes(st.out, push_quoted_slice(text))), end)
        ELSE [inner EXCEPT !.i = end]
dollar_quote_expand(st, s, i) ==
    CASE CharAt(s, i + 1) = "'" -> ansi_c_quote(st, s, i)
      [] CharAt(s, i + 1) = "\"" -> locale_quote(st, s, i)
      [] OTHER -> [st |-> st, i |-> i, ok |-> FALSE]
param_expand(st, s, i, quoted) ==
    LET n == CharAt(s, i + 1)
        j == PastIn(s, i + 1, NameStart \cup Range(Numerals))
    IN  CASE n = "{" -> parameter_brace_expand(st, s, i, quoted)
          [] n = "(" -> dollar_paren(st, s, i, quoted)
          [] n = "[" -> dollar_bracket(st, s, i, quoted)
          [] n \in {"'", "\""} /\ ~quoted -> dollar_quote_expand(st, s, i)
          [] n \in Specials -> Onward(expand_special(st, <<n>>, quoted), i + 2)
          [] param_is_name_start(n) -> Onward(dollar_name(st, SubSeq(s, i + 1, j - 1), quoted), j)
          [] OTHER -> [st |-> st, i |-> i, ok |-> FALSE]

\* `...` at i; an unfinished empty one is the character itself.
backquote(st, s, i, quoted, itself) ==
    LET end == QuoteEnd(s, i + 1, "BQ")
    IN  CASE QuoteCloses(s, i + 1, "BQ") ->
                Onward(command_substitute(st, unbackslash_backticks(SubSeq(s, i + 1, end - 2), quoted), quoted), end)
          [] ~QuoteCloses(s, i + 1, "BQ") /\ i = Len(s) -> Onward(Output(st, PutBytes(st.out, itself)), end)
          [] OTHER -> Onward(WithErr(st, "BadSubstitution"), end)

double_quoted(st, s, i, escape_all, any) ==
    LET c == CharAt(s, i)
        n == CharAt(s, i + 1)
        put(bytes, k) == double_quoted(Output(st, PutBytes(st.out, bytes)), s, i + k, escape_all, TRUE)
        then(r) == IF r.st.err # "" THEN r ELSE double_quoted(r.st, s, r.i, escape_all, TRUE)
        dollar == param_expand(st, s, i, TRUE)
    IN  CASE i > Len(s) \/ c = "\"" ->
                Onward(IF any THEN st ELSE Output(st, push_quoted_null(st.out)), IF i > Len(s) THEN i ELSE i + 1)
          [] c = "\\" /\ n = "NL" -> double_quoted(st, s, i + 2, escape_all, any)
          [] c = "\\" /\ n \notin {"NL", "END"} ->
                put(IF escape_all \/ n \in {"\"", "\\", "$", "BQ"} THEN push_quoted(n) ELSE push_quoted(c) \o push_quoted(n), 2)
          [] c = "$" -> IF dollar.ok THEN then([dollar EXCEPT !.st = drop_empty_param_before_dollar_at(@, s, dollar.i)])
                        ELSE put(push_quoted(c), 1)
          [] c = "BQ" -> then(backquote(st, s, i, TRUE, push_quoted(c)))
          [] OTHER -> put(push_quoted(c), 1)

----------------------------------------------------------------------------
(* A word. *)
push_original_literal(e, c, protect) ==
    IF protect /\ is_ifs_nonws(e.ifs, c) /\ c \notin {"*", "?", "["} THEN push_quoted(c) ELSE push_literal(c)
TildeAt(st, s, i) ==
    LET prefix == SubSeq(s, i, i + prefix_len(From(s, i - 1)) - 1)
    IN  IF CharAt(s, i) = "~" /\ try_expand(st.e, prefix) # {}
        THEN Onward(Output(st, PutBytes(st.out, push_literal_slice(Only(try_expand(st.e, prefix))))), i + Len(prefix))
        ELSE Onward(st, i)

RECURSIVE Loop(_, _, _, _, _)
Loop(st, s, i, flags, eq_seen) ==
    LET c == CharAt(s, i)
        n == CharAt(s, i + 1)
        quoted == "quoted" \in flags
        heredoc == "heredoc" \in flags
        word == "paramword" \in flags
        rhs == "assignrhs" \in flags
        assignment == "assignment" \in flags /\ "posix" \notin st.e.opts
        itself == push_original_literal(st.e, c, "nosplit" \notin flags)
        put(bytes, k) == Loop(Output(st, PutBytes(st.out, bytes)), s, i + k, flags, eq_seen)
        then(r) == IF r.st.err # "" THEN r.st ELSE Loop(r.st, s, r.i, flags, eq_seen)
        kept == quoted /\ n \notin {"\\", "$", "BQ", "NL"} \cup (IF heredoc /\ ~word THEN {} ELSE {"\""})
        single == scan_single_quoted(s, i + 1)
        dollar_quote == IF ~heredoc /\ quoted /\ word THEN dollar_quote_expand(st, s, i) ELSE [ok |-> FALSE]
        dollar == param_expand(st, s, i, heredoc \/ quoted)
        tilde == TildeAt(Output(st, PutBytes(st.out, itself)), s, i + 1)
    IN  CASE i > Len(s) -> st
          [] c = "\\" /\ n = "END" -> put(push_quoted(c), 1)
          [] c = "\\" /\ n # "END" -> put(IF kept THEN push_quoted(c) \o push_quoted(n)
                                          ELSE IF n = "NL" THEN <<>> ELSE push_quoted(n), 2)
          [] c = "'" -> IF "arith" \in flags THEN put(itself, 1)
                        ELSE IF quoted THEN put(push_quoted(c), 1)
                        ELSE put(IF single.body = <<>> THEN <<CTLNUL>> ELSE push_quoted_slice(single.body), single.end - i)
          [] c = "\"" -> IF heredoc /\ ~word THEN put(push_quoted(c), 1) ELSE then(double_quoted(st, s, i + 1, quoted, FALSE))
          [] c = "$" -> IF dollar_quote.ok THEN then(dollar_quote)
                        ELSE IF dollar.ok THEN then([dollar EXCEPT !.st = drop_empty_param_before_dollar_at(@, s, dollar.i)])
                        ELSE put(IF heredoc THEN push_quoted(c) ELSE itself, 1)
          [] c = "BQ" -> then(backquote(st, s, i, FALSE, itself))
          [] c \in {"<", ">"} /\ n = "(" /\ "noprocsub" \notin flags -> then(process_subst_expand(st, s, i))
          [] c = "=" /\ assignment /\ ~eq_seen -> Loop(tilde.st, s, tilde.i, flags, TRUE)
          [] c = ":" /\ (rhs \/ assignment) -> then(tilde)
          [] OTHER -> put(itself, 1)

expand_word_internal(e, s, flags, no_tilde) ==
    LET entered == [e EXCEPT !.depth = @ + 1]
        first == IF no_tilde \/ "notilde" \in flags THEN Onward(Fresh(entered), 1) ELSE TildeAt(Fresh(entered), s, 1)
    IN  IF entered.depth > EXPANSION_NESTING_MAX THEN WithErr(Fresh(entered), "SubstitutionRecursive")
        ELSE [Loop(first.st, s, first.i, flags, FALSE) EXCEPT !.e.depth = e.depth]

----------------------------------------------------------------------------
(* The other ways in: the right side of an assignment, a here-document, a *)
(* string, and the pattern of a case, which keeps its marks. *)
simple_parameter_word(s) ==
    LET x == Tail(s)
    IN  /\ CharAt(s, 1) = "$" /\ Len(s) > 1
        /\ x \in {<<"?">>, <<"#">>, <<"$">>, <<"!">>, <<"-">>} \/ is_number(x) \/ is_valid_name_str(x)
expand_assignment_rhs(e, s) ==
    LET simple == IF SubSeq(s, 1, Min({2, Len(s)})) = <<"$", "{">> THEN simple_brace_body(s, 3) ELSE {}
        c == NewContext(e)
        fast == UNION {IF Len(s) = Len(b) + 3 THEN try_fast_literal_brace_body_bytes(c, b) ELSE {} : b \in simple}
        value == get(e, Tail(s))
        r == run_words([c EXCEPT !.assign = TRUE], <<[text |-> s, flags |-> {"assignrhs", "nosplit"}]>>, {})
    IN  IF fast # {} THEN Resumed(e, Only(fast))
        ELSE IF simple_parameter_word(s) /\ kind(e, Tail(s)) # "Nameref"
        THEN IF value = {} /\ "nounset" \in e.opts THEN ResErr(e, "UnboundVariable") ELSE Res(e, unwrap_or_default(value))
        ELSE Resumed(e, OkThen(r, LAMBDA q : Res(q.e, FieldsJoined(q.v, <<" ">>))))
expand_heredoc_string(e, s) == Resumed(e, run_heredoc_string(NewContext(e), s))
expand_case_pattern_bytes(e, s, flags) ==
    LET r == expand_word_internal(NewContext(e), s, flags \cup {"nosplit"}, FALSE)
    IN  Resumed(e, [e |-> r.e, err |-> r.err, v |-> r.out.b])
=============================================================================
