---------------------------- MODULE ExpandValues ----------------------------
(***************************************************************************)
(* What parameter expansion reads and where it writes, in                  *)
(* crates/expander/src/param: the values of parameters, how a value or the *)
(* elements of an array go into the word being built, and the pure         *)
(* transformations of values.  The expansion of strings is in Expansion.   *)
(*                                                                         *)
(* e is the environment and the context of an expansion: vars maps a name  *)
(* to its kind and value (a text, a function from indexes, a sequence of   *)
(* pairs, or the target of a reference), attrs to its attributes; pos, zero,*)
(* opts, async and letters are the parameters; ifs is the IFS cached when  *)
(* the context is made; assign, rhs, split, heredoc and unbound are its    *)
(* flags.  An option is a set of at most one value.                        *)
(***************************************************************************)
EXTENDS Glob, ParamScan, Brace

----------------------------------------------------------------------------
(* Field splitting, in ifs.rs and split.rs, and the breaking of a word at  *)
(* field marks in pipeline.rs.  The value of IFS is a text and whether the *)
(* variable is unset.                                                      *)

BlankBytes == {" ", "TAB", "NL"}
IFS == <<"IFS">>

\* The set holds the value of IFS, and nothing when it is unset.
IfsState(value) == IF value = {} THEN [raw |-> <<" ", "TAB", "NL">>, is_unset |-> TRUE]
                   ELSE [raw |-> CHOOSE v \in value : TRUE, is_unset |-> FALSE]
is_null(ifs) == ifs.raw = <<>>
is_ifs(ifs, c) == \E k \in DOMAIN ifs.raw : ifs.raw[k] = c
is_ifs_ws(ifs, c) == is_ifs(ifs, c) /\ c \in BlankBytes
is_ifs_nonws(ifs, c) == is_ifs(ifs, c) /\ c \notin BlankBytes
join_separator(ifs) == IF ifs.is_unset THEN <<" ">> ELSE IF is_null(ifs) THEN <<>> ELSE <<ifs.raw[1]>>

----------------------------------------------------------------------------
(* A marked text is read in units: a raw byte, a quoted one, or one byte. *)
raw_literal_at(s, i) == CharAt(s, i) = CTLESC /\ CharAt(s, i + 1) = CTLRAW /\ i + 2 <= Len(s)
UnitEnd(s, i) == IF raw_literal_at(s, i) THEN i + 3
                 ELSE IF s[i] = CTLESC /\ i < Len(s) THEN i + 2 ELSE i + 1

\* The separator at i, or NONE.
unquoted_ifs_at(s, i, ifs) ==
    CASE i > Len(s) -> "NONE"
      [] raw_literal_at(s, i) -> IF is_ifs(ifs, s[i + 2]) THEN s[i + 2] ELSE "NONE"
      [] OTHER -> IF s[i] \notin {CTLESC, CTLNUL} /\ is_ifs(ifs, s[i]) THEN s[i] ELSE "NONE"

RECURSIVE PastBlanks(_, _, _)
PastBlanks(s, i, ifs) ==
    IF unquoted_ifs_at(s, i, ifs) \in BlankBytes THEN PastBlanks(s, UnitEnd(s, i), ifs) ELSE i

\* Mutant: the blanks before a separator are a separator of their own.
BlanksApart(s, i, ifs) == PastBlanks(s, UnitEnd(s, i), ifs)

\* A separator is a run of blanks, or one other character with the blanks around it.
PastSeparator(s, i, ifs) ==
    LET after == PastBlanks(s, UnitEnd(s, i), ifs)
        blank == unquoted_ifs_at(s, i, ifs) \in BlankBytes
    IN  IF blank /\ unquoted_ifs_at(s, after, ifs) # "NONE"
        THEN PastBlanks(s, UnitEnd(s, after), ifs) ELSE after

RECURSIVE FieldsFrom(_, _, _, _)
FieldsFrom(s, i, cur, ifs) ==
    CASE i > Len(s) -> IF cur = <<>> THEN <<>> ELSE <<cur>>
      [] i <= Len(s) /\ unquoted_ifs_at(s, i, ifs) # "NONE" ->
            <<cur>> \o FieldsFrom(s, PastSeparator(s, i, ifs), <<>>, ifs)
      [] OTHER -> FieldsFrom(s, UnitEnd(s, i), cur \o SubSeq(s, i, UnitEnd(s, i) - 1), ifs)

split(s, ifs) ==
    IF is_null(ifs) THEN IF s = <<>> THEN <<>> ELSE <<s>>
    ELSE FieldsFrom(s, PastBlanks(s, 1, ifs), <<>>, ifs)

----------------------------------------------------------------------------
(* The parts of a text between its field marks, and where each begins. *)
RECURSIVE PartsFrom(_, _, _, _)
PartsFrom(s, i, start, cur) ==
    CASE i > Len(s) -> <<[start |-> start, text |-> cur]>>
      [] i <= Len(s) /\ s[i] = CTLFIELD ->
            <<[start |-> start, text |-> cur]>> \o PartsFrom(s, i + 1, i + 1, <<>>)
      [] OTHER -> PartsFrom(s, UnitEnd(s, i), start, cur \o SubSeq(s, i, UnitEnd(s, i) - 1))
split_ctlfield_parts(s) == PartsFrom(s, 1, 1, <<>>)

split_field_markers(s) ==
    LET parts == split_ctlfield_parts(s)
    IN  IF Len(parts) = 1 THEN <<s>>
        ELSE [k \in DOMAIN parts |-> IF parts[k].text = <<>> THEN <<CTLNUL>> ELSE parts[k].text]

----------------------------------------------------------------------------
(* Writing a value so that the shell reads it back: ${x@Q}, ${x@A} and     *)
(* ${x@K} of quote.rs and param/transforms.rs, and the decoding of $'...'. *)
(* The control characters of the model are those with a named escape, ALT  *)
(* (the escape character) and the marks of ExpandBuf.  The escapes \x, \u  *)
(* and \c are left out: no quoting writes them.                            *)

Bytes == (1 :> CTLESC) @@ (7 :> "BELL") @@ (8 :> "BS") @@ (9 :> "TAB") @@ (10 :> "NL") @@ (11 :> "VT") @@ (12 :> "FF") @@
         (13 :> "CR") @@ (27 :> "ALT") @@
         (30 :> CTLFIELD) @@ (39 :> "'") @@ (65 :> "A") @@ (97 :> "a") @@ (127 :> CTLNUL)
Byte(n) == IF n \in DOMAIN Bytes THEN Bytes[n] ELSE "other"
ByteCode(c) == CHOOSE n \in DOMAIN Bytes : Bytes[n] = c
Controls == {CTLESC, CTLFIELD, CTLNUL, "BELL", "BS", "TAB", "NL", "VT", "FF", "CR", "ALT"}
Octal3(n) == <<Numerals[(n \div 64) + 1], Numerals[((n \div 8) % 8) + 1], Numerals[(n % 8) + 1]>>

Named3 == ("'" :> "'") @@ ("\\" :> "\\") @@ ("NL" :> "n") @@ ("TAB" :> "t") @@ ("CR" :> "r") @@
          ("BELL" :> "a") @@ ("BS" :> "b") @@ ("VT" :> "v") @@ ("FF" :> "f")
\* $'...' with the escapes that names gives, and octal for the other controls.
AnsiQuoted(s, names) ==
    <<"$", "'">> \o Concat([i \in DOMAIN s |->
        CASE s[i] \in DOMAIN names -> <<"\\", names[s[i]]>>
          [] s[i] \in Controls \ DOMAIN names -> <<"\\">> \o Octal3(ByteCode(s[i]))
          [] OTHER -> <<s[i]>>]) \o <<"'">>

has_controls(s) == \E k \in DOMAIN s : s[k] \in Controls
InSingleQuotes(s) ==
    <<"'">> \o Concat([i \in DOMAIN s |-> IF s[i] = "'" THEN <<"'", "\\", "'", "'">> ELSE <<s[i]>>]) \o <<"'">>
shell_quote(s) ==
    CASE s = <<"'">> -> <<"\\", "'">>
      [] has_controls(s) -> AnsiQuoted(s, Named3 @@ ("ALT" :> "E"))
      [] OTHER -> InSingleQuotes(s)

ansi_quote_bytes(s) == AnsiQuoted(s, Named3)
shell_quote_shell_string(s) == IF has_controls(s) THEN ansi_quote_bytes(s) ELSE shell_quote(s)
escape_double(s) ==
    Concat([i \in DOMAIN s |-> IF s[i] \in {"\"", "\\", "$", "BQ"} THEN <<"\\", s[i]>> ELSE <<s[i]>>])
double_quote(s) == <<"\"">> \o escape_double(s) \o <<"\"">>
array_element_quote(s) == IF has_controls(s) THEN ansi_quote_bytes(s) ELSE double_quote(s)
Safe == {"a", "b", "c", "x", "y", "z", "A", "B", "_", "/", ".", "-", "+", ":", ","} \cup Range(Numerals)
assoc_key_quote(s) == IF Range(s) \subseteq Safe THEN s ELSE array_element_quote(s)
key_value_transform_key_quote(s) == IF Range(s) \subseteq Safe \cup {"="} THEN s ELSE array_element_quote(s)

----------------------------------------------------------------------------
Escapes == ("a" :> "BELL") @@ ("e" :> "ALT") @@ ("E" :> "ALT") @@ ("n" :> "NL") @@ ("t" :> "TAB") @@
           ("b" :> "BS") @@ ("f" :> "FF") @@ ("r" :> "CR") @@ ("v" :> "VT") @@ ("\\" :> "\\") @@ ("'" :> "'") @@ ("\"" :> "\"") @@ ("?" :> "?")
Octals == {Numerals[k] : k \in 1 .. 8}
\* The end of the digits at i, at most n of them.
DigitsEnd(s, i, n) == Max({k \in i .. Min({i + n, Len(s) + 1}) : \A j \in i .. k - 1 : s[j] \in Octals})

RECURSIVE AnsiFrom(_, _)
AnsiFrom(s, i) ==
    LET escaped == CharAt(s, i) = "\\" /\ i < Len(s)
        next == CharAt(s, i + 1)
        end == DigitsEnd(s, i + 1, 3)
        val == FoldLeft(LAMBDA n, c : 8 * n + Digit(c), 0, SubSeq(s, i + 1, end - 1)) % 256
    IN  CASE i > Len(s) -> <<>>
          [] i <= Len(s) /\ ~escaped -> <<s[i]>> \o AnsiFrom(s, i + 1)
          [] escaped /\ next \in DOMAIN Escapes -> <<Escapes[next]>> \o AnsiFrom(s, i + 2)
          [] escaped /\ next \in Octals -> IF val = 0 THEN <<>> ELSE <<Byte(val)>> \o AnsiFrom(s, end)
          [] OTHER -> <<"\\", next>> \o AnsiFrom(s, i + 2)
ansi_c_decode(s) == AnsiFrom(s, 1)

----------------------------------------------------------------------------
(* Values and where they go.                                               *)
Only(option) == CHOOSE v \in option : TRUE
unwrap_or_default(option) == IF option = {} THEN <<>> ELSE Only(option)
is_number(x) == x # <<>> /\ \A k \in DOMAIN x : x[k] \in Range(Numerals)
contains(s, c) == \E k \in DOMAIN s : s[k] = c

NAMEREF_MAX_DEPTH == 8
kind(e, x) == IF x \in DOMAIN e.vars THEN e.vars[x].k ELSE "Unset"
RECURSIVE Follow(_, _, _)
Follow(e, x, n) ==
    IF kind(e, x) # "Nameref" \/ e.vars[x].v \in {<<>>, x} THEN {x}
    ELSE IF n = NAMEREF_MAX_DEPTH THEN {} ELSE Follow(e, e.vars[x].v, n + 1)
resolve_nameref(e, x) == Follow(e, x, 0)
Target(e, x) == IF resolve_nameref(e, x) = {} THEN x ELSE Only(resolve_nameref(e, x))

positional(e, n) == IF n = 0 THEN {e.zero} ELSE IF n \in DOMAIN e.pos THEN {e.pos[n]} ELSE {}
special_param(e, x) ==
    CASE x = <<"?">> -> {e.status}
      [] x = <<"#">> -> {Printed(Len(e.pos))}
      [] x = <<"$">> -> {e.pid}
      [] x = <<"!">> -> {unwrap_or_default(e.async)}
      [] x = <<"-">> -> {e.letters}
      [] x = <<"0">> -> {e.zero}
      [] OTHER -> {}

get_array_indexed(e, x, n) == IF n \in DOMAIN e.vars[x].v THEN {e.vars[x].v[n]} ELSE {}
get_array_assoc(e, x, key) == {p[2] : p \in {q \in Range(e.vars[x].v) : q[1] = key}}
array_max_index(e, x) == IF kind(e, x) # "Indexed" \/ DOMAIN e.vars[x].v = {} THEN {}
                         ELSE {CHOOSE n \in DOMAIN e.vars[x].v : \A m \in DOMAIN e.vars[x].v : m <= n}
Indexes(e, x) == SetToSortSeq(DOMAIN e.vars[x].v, LAMBDA m, n : m < n)
get_array_all(e, x) == [i \in DOMAIN Indexes(e, x) |-> e.vars[x].v[Indexes(e, x)[i]]]
assoc_all(e, x) == [i \in DOMAIN e.vars[x].v |-> e.vars[x].v[i][2]]
keys(e, x) == IF kind(e, x) = "Assoc" THEN [i \in DOMAIN e.vars[x].v |-> e.vars[x].v[i][1]]
              ELSE [i \in DOMAIN Indexes(e, x) |-> Printed(Indexes(e, x)[i])]

get(e, x) ==
    CASE is_number(x) -> positional(e, Decimal(x))
      [] ~is_number(x) /\ special_param(e, x) # {} -> special_param(e, x)
      [] kind(e, x) \in {"Scalar", "Nameref"} -> {e.vars[x].v}
      [] kind(e, x) = "Indexed" -> get_array_indexed(e, x, 0)
      [] kind(e, x) = "Assoc" -> get_array_assoc(e, x, <<"0">>)
      [] OTHER -> {}
LiveIfs(e) == IfsState(get(e, IFS))

(* name[subscript], and whether it is all of an array. *)
Bracket(x) == Reach(x, 1, {"["})
LastBracket(x) == IF contains(x, "]") THEN CHOOSE k \in DOMAIN x : x[k] = "]" /\ ~contains(From(x, k), "]")
                  ELSE Len(x) + 1
Base(x) == SubSeq(x, 1, Bracket(x) - 1)
Subscript(x) == SubSeq(x, Bracket(x) + 1, LastBracket(x) - 1)
All == {<<"@">>, <<"*">>}
IsAll(x) == contains(x, "[") /\ Subscript(x) \in All
array_all_ref(x) == IsAll(x) /\ LastBracket(x) = Len(x)

----------------------------------------------------------------------------
(* A value is one text or the elements of an array, and whether by star. *)
Scalar(s) == [k |-> "Scalar", s |-> s]
Array(elems, star) == [k |-> "Array", elems |-> elems, star |-> star]
FieldsJoined(elems, sep) == Concat([i \in DOMAIN elems |-> IF i = 1 THEN elems[1] ELSE sep \o elems[i]])
default_test_string(v, sep) ==
    IF v.k = "Scalar" THEN v.s ELSE FieldsJoined(v.elems, IF v.star THEN sep ELSE <<" ">>)
\* Each text of a value changed by f.
ValueTexts(v) == IF v.k = "Scalar" THEN {v.s} ELSE Range(v.elems)
transform_value(v, f) ==
    IF v.k = "Scalar" THEN Scalar(f[v.s]) ELSE [v EXCEPT !.elems = [i \in DOMAIN @ |-> f[@[i]]]]

\* All of an array: a scalar stays a scalar.
AllOf(e, x, star) ==
    LET t == Target(e, x)
    IN  CASE resolve_nameref(e, x) = {} -> Array(<<>>, star)
          [] resolve_nameref(e, x) # {} /\ kind(e, t) = "Indexed" -> Array(get_array_all(e, t), star)
          [] resolve_nameref(e, x) # {} /\ kind(e, t) = "Assoc" -> Array(assoc_all(e, t), star)
          [] OTHER -> IF get(e, t) # {} THEN Scalar(Only(get(e, t))) ELSE Array(<<>>, star)
join_array(e, x, sep) ==
    CASE kind(e, Target(e, x)) = "Indexed" -> FieldsJoined(get_array_all(e, Target(e, x)), sep)
      [] kind(e, Target(e, x)) = "Assoc" -> FieldsJoined(assoc_all(e, Target(e, x)), sep)
      [] OTHER -> unwrap_or_default(get(e, Target(e, x)))

read_plain_scalar_cow(e, x) ==
    IF ~is_valid_name_str(x) \/ kind(e, x) = "Nameref" THEN {} ELSE {unwrap_or_default(get(e, x))}
\* Mutant: every value is taken for plain.
AnyBytes(s) == TRUE
plain_shell_string_bytes(s) == \A k \in DOMAIN s : ~is_ctl(s[k])

positional_substring_elems(e, off, len) ==
    LET first == IF off < 0 THEN Len(e.pos) + 1 + off ELSE off
        all == CASE first < 0 -> <<>>
                 [] first = 0 -> <<e.zero>> \o e.pos
                 [] first > 0 -> SubSeq(e.pos, first, Len(e.pos))
    IN  IF len = {} \/ Only(len) > Len(all) THEN all ELSE Before(all, Only(len))

----------------------------------------------------------------------------
(* The word being built: its bytes, which of its quoted nulls stand for an *)
(* empty parameter, and whether a quoted $@ went into it. *)
EmptyBuf == [b |-> <<>>, nulls |-> {}, at |-> FALSE]
PutBytes(out, bytes) == [out EXCEPT !.b = @ \o bytes]
push_quoted_null(out) == PutBytes(out, <<CTLNUL>>)
push_quoted_param_null(out) == [push_quoted_null(out) EXCEPT !.nulls = @ \cup {Len(out.b) + 1}]
buf_record_dollar_at(out) == [out EXCEPT !.at = TRUE]
extend_from(out, o) == [b |-> out.b \o o.b, nulls |-> out.nulls \cup {Len(out.b) + n : n \in o.nulls},
                        at |-> out.at \/ o.at]
InMode(s, quoted) == IF quoted THEN push_quoted_slice(s) ELSE push_literal_slice(s)
push_value(out, s, quoted) ==
    IF quoted /\ s = <<>> THEN push_quoted_param_null(out) ELSE PutBytes(out, InMode(s, quoted))

push_array_element_value(s, quoted, raw_ctlnul) ==
    CASE quoted /\ s = <<>> -> <<CTLNUL>>
      [] raw_ctlnul /\ ~quoted -> Concat([i \in DOMAIN s |-> IF s[i] = CTLNUL THEN <<CTLNUL>> ELSE push_literal(s[i])])
      [] OTHER -> InMode(s, quoted)
PutElems(out, elems, sep, quoted, raw) ==
    PutBytes(out, FieldsJoined([i \in DOMAIN elems |-> push_array_element_value(elems[i], quoted, raw)], sep))

\* null and protect are parameters because ${x} of all elements reads the live IFS.
push_array_values_impl(out, e, elems, quoted, star, sep, null, raw, protect) ==
    IF quoted /\ star /\ elems = <<>> THEN push_quoted_null(out)
    ELSE IF ~e.assign /\ ~e.split /\ ~star THEN PutElems(out, elems, InMode(<<" ">>, quoted), quoted, raw)
    ELSE IF (quoted \/ e.assign) /\ ~star
         THEN PutElems(buf_record_dollar_at(out), elems, <<CTLFIELD>>, quoted, raw)
    ELSE IF ~quoted /\ ~e.assign /\ e.split /\ null THEN PutElems(out, elems, <<CTLFIELD>>, protect, raw)
    ELSE PutElems(out, elems, InMode(sep, quoted), quoted, raw)
push_array_values(out, e, elems, quoted, star, sep) ==
    push_array_values_impl(out, e, elems, quoted, star, sep, is_null(e.ifs), FALSE, FALSE)
push_substring_array_values(out, e, elems, quoted, star, sep) ==
    push_array_values_impl(out, e, elems, quoted, star, sep, is_null(e.ifs), e.assign /\ ~quoted /\ star, FALSE)
push_value_buf(out, e, v, quoted) ==
    IF v.k = "Scalar" THEN push_value(out, v.s, quoted)
    ELSE push_array_values(out, e, v.elems, quoted, v.star, join_separator(e.ifs))

value_separator(e, quoted, star) == join_separator(IF quoted /\ star THEN LiveIfs(e) ELSE e.ifs)
PushParameter(out, e, x, v, quoted) ==
    LET protect == ~array_all_ref(x) /\ ~quoted /\ e.split /\ v.star /\ is_null(LiveIfs(e)) /\ ~is_null(e.ifs)
    IN  IF v.k = "Scalar" THEN push_value(out, v.s, quoted)
        ELSE push_array_values_impl(out, e, v.elems, quoted, v.star, value_separator(e, quoted, v.star),
                                    protect \/ is_null(e.ifs), FALSE, protect)

\* $@ and $* themselves.
Positionals(out, e, star, quoted) ==
    LET sep == InMode(value_separator(e, quoted, star), quoted)
    IN  IF quoted /\ star /\ e.pos = <<>> THEN push_quoted_null(out)
        ELSE IF e.assign /\ ~star THEN PutElems(buf_record_dollar_at(out), e.pos, <<CTLFIELD>>, quoted, FALSE)
        ELSE IF e.assign THEN PutElems(out, e.pos, sep, quoted, FALSE)
        ELSE IF ~e.split /\ ~star THEN PutElems(out, e.pos, InMode(<<" ">>, quoted), quoted, FALSE)
        ELSE IF e.rhs /\ ~star /\ ~quoted /\ ~e.ifs.is_unset /\ ~is_null(e.ifs) /\ e.ifs.raw[1] # " "
             THEN PutBytes(buf_record_dollar_at(out),
                      FieldsJoined([i \in DOMAIN e.pos |-> push_quoted_slice(e.pos[i])], <<" ">>))
        ELSE IF quoted /\ ~star THEN PutElems(buf_record_dollar_at(out), e.pos, <<CTLFIELD>>, TRUE, FALSE)
        ELSE IF ~quoted /\ e.split /\ is_null(e.ifs) THEN PutElems(out, e.pos, <<CTLFIELD>>, FALSE, FALSE)
        ELSE PutElems(out, e.pos, sep, quoted, FALSE)

----------------------------------------------------------------------------
(* The word of ${x-word}, ${x=word} and the like, expanded, goes into the *)
(* word being built. *)
strip_suppressible_nulls(part, nulls) ==
    LET kept == SelectSeq([i \in DOMAIN part.text |-> i],
                          LAMBDA i : ~(part.text[i] = CTLNUL /\ part.start + i - 1 \in nulls))
    IN  [i \in DOMAIN kept |-> part.text[kept[i]]]

RECURSIVE field_is_ifs_empty_after_quote_removal(_, _)
field_is_ifs_empty_after_quote_removal(s, ifs) ==
    LET rest == From(s, UnitEnd(s, 1) - 1)
    IN  CASE s = <<>> -> TRUE
          [] s # <<>> /\ raw_literal_at(s, 1) -> (s[3] = CTLNUL \/ is_ifs_ws(ifs, s[3]))
                                                /\ field_is_ifs_empty_after_quote_removal(rest, ifs)
          [] s # <<>> /\ ~raw_literal_at(s, 1) /\ s[1] = CTLESC /\ Len(s) > 1 ->
                is_ifs_ws(ifs, s[2]) /\ field_is_ifs_empty_after_quote_removal(rest, ifs)
          [] OTHER -> (s[1] = CTLNUL \/ is_ifs_ws(ifs, s[1])) /\ field_is_ifs_empty_after_quote_removal(rest, ifs)

extend_unquoted_dollar_at_expansion(out, x, drop, ifs) ==
    LET parts == split_ctlfield_parts(x.b)
        cleaned == [k \in DOMAIN parts |-> strip_suppressible_nulls(parts[k], x.nulls)]
        kept == SelectSeq(cleaned, LAMBDA c : c # <<>> /\ ~(drop /\ field_is_ifs_empty_after_quote_removal(c, ifs)))
    IN  buf_record_dollar_at(PutBytes(out, FieldsJoined(kept, <<CTLFIELD>>)))

RECURSIVE Requoted(_)
Requoted(s) ==
    CASE s = <<>> -> <<>>
      [] s # <<>> /\ s[1] = CTLESC -> LET n == IF CharAt(s, 2) = CTLRAW THEN 3 ELSE 2
                                          m == IF n > Len(s) THEN Len(s) ELSE n
                                      IN  Before(s, m) \o Requoted(From(s, m))
      [] s # <<>> /\ s[1] \in {CTLNUL, CTLFIELD} -> <<s[1]>> \o Requoted(Tail(s))
      [] OTHER -> push_quoted(s[1]) \o Requoted(Tail(s))

extend_default_expansion_inner(out, x, quoted, drop, ifs) ==
    CASE ~quoted /\ x.at -> extend_unquoted_dollar_at_expansion(out, x, drop, ifs)
      [] ~quoted /\ ~x.at -> extend_from(out, x)
      [] quoted /\ x.at /\ x.b = <<>> -> buf_record_dollar_at(push_quoted_null(out))
      [] OTHER -> [PutBytes(out, Requoted(x.b)) EXCEPT !.at = @ \/ x.at]
extend_default_expansion(out, x, quoted) == extend_default_expansion_inner(out, x, quoted, FALSE, <<>>)
extend_assignment_default_expansion(out, x, quoted, ifs) == extend_default_expansion_inner(out, x, quoted, TRUE, ifs)

\* The text to assign: as in quote removal, but a field mark is a space.
assignment_value_from_expanded(s) ==
    LET parts == split_ctlfield_parts(s)
    IN  FieldsJoined([k \in DOMAIN parts |-> dequote_bytes(parts[k].text)], <<" ">>)

----------------------------------------------------------------------------
(* Substrings and literal patterns. *)
Clamp(n, lo, hi) == IF n < lo THEN lo ELSE IF n > hi THEN hi ELSE n
ScalarSubstring(s, off, len) ==
    LET total == Len(s)
        start == IF off < 0 THEN Clamp(total + off, 0, total) ELSE Clamp(off, 0, total)
        end == CASE len = {} -> total
                 [] len # {} /\ Only(len) < 0 -> Max({total + Only(len), start})
                 [] OTHER -> Min({start + Only(len), total})
    IN  SubSeq(s, start + 1, end)
indexed_array_substring_elems(e, x, off, len) ==
    LET start == IF off < 0 THEN Max({0, Only(array_max_index(e, x)) + 1 + off}) ELSE off
        idx == SelectSeq(Indexes(e, x), LAMBDA n : n >= start)
        all == [i \in DOMAIN idx |-> e.vars[x].v[idx[i]]]
    IN  IF array_max_index(e, x) = {} THEN <<>>
        ELSE IF len = {} \/ Only(len) > Len(all) THEN all ELSE Before(all, Only(len))
AssocSubstring(all, off, len) ==
    LET start == IF off < 0 THEN Clamp(Len(all) + off, 0, Len(all)) ELSE Clamp(off, 0, Len(all))
    IN  SubSeq(all, start + 1, IF len = {} THEN Len(all) ELSE Min({start + Only(len), Len(all)}))

pattern_match_opts(e) ==
    (e.opts \cap {"extglob"}) \cup (IF "nocasematch" \in e.opts THEN {"nocaseglob"} ELSE {})
raw_plain_word(s) == \A k \in DOMAIN s : ~is_ctl(s[k]) /\ s[k] \notin {"$", "BQ", "'", "\"", "\\", "~"}
raw_literal_pattern(s, opts) == /\ opts = {} /\ s # <<>> /\ raw_plain_word(s)
                                /\ \A k \in DOMAIN s : s[k] \notin {"*", "?", "["}
is_literal_pattern(s, opts) == /\ opts = {} /\ s # <<>>
                               /\ \A k \in DOMAIN s : ~is_ctl(s[k]) /\ s[k] \notin {"*", "?", "[", "\\"}
literal_remove(s, lit, prefix) ==
    IF prefix THEN IF literal_starts_with(s, lit, {}) THEN From(s, Len(lit)) ELSE s
    ELSE IF literal_ends_with(s, lit, {}) THEN Before(s, Len(s) - Len(lit)) ELSE s
find_bytes(s, lit) == {k \in 0 .. Len(s) - Len(lit) : Before(From(s, k), Len(lit)) = lit}
RECURSIVE ReplaceLiteral(_, _, _, _)
ReplaceLiteral(s, lit, rep, all) ==
    IF find_bytes(s, lit) = {} THEN s
    ELSE LET k == Min(find_bytes(s, lit))
             rest == From(s, k + Len(lit))
         IN  Before(s, k) \o rep \o (IF all THEN ReplaceLiteral(rest, lit, rep, all) ELSE rest)
literal_substitute(s, lit, rep, mode) ==
    CASE mode = "PrefixAnchored" -> IF literal_starts_with(s, lit, {}) THEN rep \o From(s, Len(lit)) ELSE s
      [] mode = "SuffixAnchored" -> IF literal_ends_with(s, lit, {}) THEN Before(s, Len(s) - Len(lit)) \o rep ELSE s
      [] OTHER -> ReplaceLiteral(s, lit, rep, mode = "All")

\* offset:length, split at a colon outside brackets and ?: pairs.
RECURSIVE ColonFrom(_, _, _, _)
ColonFrom(s, i, depth, ternary) ==
    CASE i > Len(s) -> Len(s) + 1
      [] CharAt(s, i) \in {"(", "[", "{"} -> ColonFrom(s, i + 1, depth + 1, ternary)
      [] CharAt(s, i) \in {")", "]", "}"} -> ColonFrom(s, i + 1, depth - 1, ternary)
      [] CharAt(s, i) = "?" /\ depth = 0 -> ColonFrom(s, i + 1, depth, ternary + 1)
      [] CharAt(s, i) = ":" /\ depth = 0 /\ ternary > 0 -> ColonFrom(s, i + 1, depth, ternary - 1)
      [] CharAt(s, i) = ":" /\ depth = 0 /\ ternary = 0 -> i
      [] OTHER -> ColonFrom(s, i + 1, depth, ternary)

\* The end of a bracket expression that begins at start; nothing when it is not closed.
RECURSIVE BracketEnd(_, _, _)
BracketEnd(s, j, start) ==
    LET named == IF CharAt(s, j) = "[" /\ CharAt(s, j + 1) \in {":", ".", "="}
                 THEN {k \in j + 2 .. Len(s) - 1 : s[k] = s[j + 1] /\ s[k + 1] = "]"} ELSE {}
    IN  CASE j > Len(s) -> {}
          [] CharAt(s, j) = "\\" /\ j < Len(s) -> BracketEnd(s, j + 2, start)
          [] named # {} -> BracketEnd(s, Min(named) + 2, start)
          [] CharAt(s, j) = "]" /\ j > start + 1 -> {j + 1}
          [] OTHER -> BracketEnd(s, j + 1, start)
pattern_bracket_expr_end(s, start) ==
    LET j == IF CharAt(s, start + 1) \in {"!", "^"} THEN start + 2 ELSE start + 1
    IN  BracketEnd(s, IF CharAt(s, j) = "]" THEN j + 1 ELSE j, start)

RECURSIVE SlashFrom(_, _)
SlashFrom(s, p) ==
    CASE p > Len(s) -> Len(s) + 1
      [] CharAt(s, p) = "\\" /\ p < Len(s) -> SlashFrom(s, p + 2)
      [] CharAt(s, p) = "[" -> SlashFrom(s, IF pattern_bracket_expr_end(s, p) = {} THEN p + 1
                                            ELSE Only(pattern_bracket_expr_end(s, p)))
      [] CharAt(s, p) = "/" -> p
      [] OTHER -> SlashFrom(s, p + 1)
\* pattern/replacement, with the character before it that says where to look.
PatSubMode == ("/" :> "All") @@ ("#" :> "PrefixAnchored") @@ ("%" :> "SuffixAnchored")
PatSub(rest) ==
    LET moded == CharAt(rest, 1) \in DOMAIN PatSubMode
        idx == IF moded THEN 2 ELSE 1
        sep == SlashFrom(rest, IF CharAt(rest, 1) = "/" /\ CharAt(rest, 2) = "/" THEN 3 ELSE idx)
    IN  [mode |-> IF moded THEN PatSubMode[rest[1]] ELSE "First",
         pat |-> SubSeq(rest, idx, sep - 1), rep |-> From(rest, sep)]

\* The replacement of a match when & stands for it.
RECURSIVE ReplacementFrom(_, _, _)
ReplacementFrom(t, i, matched) ==
    LET slashes == PastIn(t, i, {"\\"}) - i
        half == [k \in 1 .. slashes \div 2 |-> "\\"]
    IN  CASE i > Len(t) -> <<>>
          [] i <= Len(t) /\ UnitEnd(t, i) > i + 1 ->
                <<t[UnitEnd(t, i) - 1]>> \o ReplacementFrom(t, UnitEnd(t, i), matched)
          [] CharAt(t, i) \in {CTLNUL, CTLFIELD} -> ReplacementFrom(t, i + 1, matched)
          [] CharAt(t, i) = "&" -> matched \o ReplacementFrom(t, i + 1, matched)
          [] CharAt(t, i) = "\\" /\ CharAt(t, i + slashes) = "&" ->
                half \o (IF slashes % 2 = 0 THEN matched ELSE <<"&">>) \o ReplacementFrom(t, i + slashes + 1, matched)
          [] CharAt(t, i) = "\\" /\ CharAt(t, i + slashes) # "&" ->
                SubSeq(t, i, i + slashes - 1) \o ReplacementFrom(t, i + slashes, matched)
          [] OTHER -> <<t[i]>> \o ReplacementFrom(t, i + 1, matched)
expand_patsub_replacement(t, matched) == ReplacementFrom(t, 1, matched)

----------------------------------------------------------------------------
(* Tilde prefixes; the home of a user is external. *)
prefix_len(s) == IF CharAt(s, 1) # "~" THEN 0 ELSE Reach(s, 2, {"/", ":"}) - 1
collect_dirstack(e) == IF kind(e, <<"DIRSTACK">>) = "Indexed" THEN get_array_all(e, <<"DIRSTACK">>)
                       ELSE IF get(e, <<"PWD">>) = {} THEN <<>> ELSE <<Only(get(e, <<"PWD">>))>>
StackEntry(dirs, n) == IF n + 1 \in DOMAIN dirs THEN {dirs[n + 1]} ELSE {}
try_expand(e, prefix) ==
    LET rest == Tail(prefix)
        dirs == collect_dirstack(e)
    IN  CASE \E k \in DOMAIN rest : rest[k] \in {"\\", "'", "\""} -> {}
          [] rest = <<>> -> get(e, <<"HOME">>)
          [] rest = <<"+">> -> get(e, <<"PWD">>)
          [] rest = <<"-">> -> get(e, <<"OLDPWD">>)
          [] CharAt(rest, 1) = "+" /\ is_number(Tail(rest)) -> StackEntry(dirs, Decimal(Tail(rest)))
          [] CharAt(rest, 1) = "-" /\ is_number(Tail(rest)) -> StackEntry(dirs, Len(dirs) - 1 - Decimal(Tail(rest)))
          [] is_number(rest) -> StackEntry(dirs, Decimal(rest))
          [] OTHER -> {}

RECURSIVE unbackslash_backticks(_, _)
unbackslash_backticks(s, quoted) ==
    LET next == CharAt(s, 2)
    IN  CASE s = <<>> -> <<>>
          [] CharAt(s, 1) = "\\" /\ next \in {"$", "BQ", "\\"} \cup (IF quoted THEN {"\""} ELSE {}) ->
                <<next>> \o unbackslash_backticks(From(s, 2), quoted)
          [] CharAt(s, 1) = "\\" /\ next = "NL" -> unbackslash_backticks(From(s, 2), quoted)
          [] OTHER -> <<s[1]>> \o unbackslash_backticks(Tail(s), quoted)

(* Arithmetic on one number or name; Arith has the whole language. *)
TrimmedText(s) == LET ink == {k \in DOMAIN s : s[k] \notin White}
              IN  IF ink = {} THEN <<>> ELSE SubSeq(s, Min(ink), Max(ink))
Number(s) == IF is_number(s) THEN {Decimal(s)}
             ELSE IF CharAt(s, 1) = "-" /\ is_number(Tail(s)) THEN {-Decimal(Tail(s))} ELSE {}
eval_preexpanded(e, s) ==
    LET t == TrimmedText(s)
    IN  CASE t = <<>> -> {0}
          [] t # <<>> /\ is_valid_name_str(t) -> IF unwrap_or_default(get(e, t)) = <<>> THEN {0}
                                                 ELSE Number(TrimmedText(Only(get(e, t))))
          [] OTHER -> Number(t)
number_to_string(n) == Signed(n, Printed(Abs(n)))
=============================================================================
