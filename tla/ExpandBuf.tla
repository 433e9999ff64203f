----------------------------- MODULE ExpandBuf ------------------------------
(***************************************************************************)
(* The bytes in flight of crates/expander/src/buf.rs.  A text is a         *)
(* sequence of characters.  Three bytes are marks: ESC makes the next      *)
(* character literal, NUL stands for a quoted empty string, and FIELD      *)
(* separates the fields of a quoted "$@"; RAW after ESC announces a byte   *)
(* of the data that looks like a mark.                                     *)
(***************************************************************************)
EXTENDS Integers, Sequences, SequencesExt

CTLESC == "ESC"
CTLRAW == "RAW"
CTLFIELD == "FIELD"
CTLNUL == "NUL"
is_ctl(b) == b \in {CTLESC, CTLFIELD, CTLNUL}

push_literal(b) == IF is_ctl(b) THEN <<CTLESC, CTLRAW, b>> ELSE <<b>>
push_quoted(b) == <<CTLESC, b>>

Concat(ss) == FoldLeft(LAMBDA out, s : out \o s, <<>>, ss)
push_literal_slice(s) == Concat([i \in DOMAIN s |-> push_literal(s[i])])
push_quoted_slice(s) == Concat([i \in DOMAIN s |-> push_quoted(s[i])])

CharAt(s, i) == IF i \in DOMAIN s THEN s[i] ELSE "END"

RECURSIVE DequoteFrom(_, _)
DequoteFrom(s, i) ==
    CASE i > Len(s) -> <<>>
      [] CharAt(s, i) = CTLESC /\ CharAt(s, i + 1) = CTLRAW /\ i + 2 <= Len(s) ->
            <<s[i + 2]>> \o DequoteFrom(s, i + 3)
      [] /\ CharAt(s, i) = CTLESC /\ i + 1 <= Len(s)
         /\ ~(CharAt(s, i + 1) = CTLRAW /\ i + 2 <= Len(s)) ->
            <<s[i + 1]>> \o DequoteFrom(s, i + 2)
      [] CharAt(s, i) \in {CTLNUL, CTLFIELD} -> DequoteFrom(s, i + 1)
      [] OTHER -> <<s[i]>> \o DequoteFrom(s, i + 1)
dequote_bytes(s) == DequoteFrom(s, 1)
=============================================================================
