----------------------------- MODULE EditBuffer -----------------------------
(***************************************************************************)
(* The line buffer and the kill ring of crates/lineedit (buffer.rs and     *)
(* killring.rs) as operators.  A buffer is a record [chars, point, undo,   *)
(* group]: point is the number of characters before the cursor, undo the   *)
(* states to go back to, group whether insertions are being joined.        *)
(***************************************************************************)
EXTENDS Integers, Sequences, FiniteSets, SequencesExt, FiniteSetsExt

CONSTANTS
    UNDO_MAX,       \* states kept for undo, 128 in the code
    RING_MAX        \* capacity of the kill ring, 8 in the code

Letters == {"a", "b", "A", "B", "w2"}
is_word_char(c) == c \in Letters
\* "w2" is a letter of two bytes.
len_utf8(c) == IF c = "w2" THEN 2 ELSE 1
to_ascii_uppercase(c) == CASE c = "a" -> "A" [] c = "b" -> "B" [] OTHER -> c
to_ascii_lowercase(c) == CASE c = "A" -> "a" [] c = "B" -> "b" [] OTHER -> c

new_buffer == [chars |-> <<>>, point |-> 0, undo |-> <<>>, group |-> FALSE]

\* s with the characters from .. to - 1, counted from 0, replaced.
Spliced(s, from, to, by) == SubSeq(s, 1, from) \o by \o SubSeq(s, to + 1, Len(s))
Within(b, p) == Min({p, Len(b.chars)})
Bytes(s) == FoldLeft(LAMBDA n, c : n + len_utf8(c), 0, s)
\* Bytes that are in the middle of a character count for the next one.
char_index_for_byte(b, byte) ==
    Min({p \in 0 .. Len(b.chars) : Bytes(SubSeq(b.chars, 1, p)) >= byte} \cup {Len(b.chars)})

----------------------------------------------------------------------------
snapshot(b) ==
    [b EXCEPT !.group = FALSE,
              !.undo = LET u == Append(@, [chars |-> b.chars, point |-> b.point])
                       IN  IF Len(u) > UNDO_MAX THEN Tail(u) ELSE u]

snapshot_insert(b) == IF b.group THEN b ELSE [snapshot(b) EXCEPT !.group = TRUE]

break_undo_group(b) == [b EXCEPT !.group = FALSE]

undo(b) ==
    IF b.undo = <<>> THEN break_undo_group(b)
    ELSE [chars |-> Last(b.undo).chars, point |-> Last(b.undo).point,
          undo |-> Front(b.undo), group |-> FALSE]

clear(b) == [snapshot(b) EXCEPT !.chars = <<>>, !.point = 0]

insert_str(b, s) ==
    [snapshot_insert(b) EXCEPT !.chars = Spliced(@, b.point, b.point, s), !.point = @ + Len(s)]

delete_forward(b) ==
    IF b.point >= Len(b.chars) THEN b
    ELSE [snapshot(b) EXCEPT !.chars = Spliced(@, b.point, b.point + 1, <<>>)]

backward_delete(b) ==
    IF b.point = 0 THEN b
    ELSE [snapshot(b) EXCEPT !.chars = Spliced(@, b.point - 1, b.point, <<>>), !.point = @ - 1]

set_char_point(b, p) == [b EXCEPT !.point = Within(b, p)]
move_left(b) == [b EXCEPT !.point = Max({0, @ - 1})]
move_right(b) == set_char_point(b, b.point + 1)
move_home(b) == [b EXCEPT !.point = 0]
move_end(b) == [b EXCEPT !.point = Len(b.chars)]

\* Over what is not a word, then over the word.
word_left_point(b) ==
    LET words == {i \in 1 .. b.point : is_word_char(b.chars[i])}
        last == Max(words)
    IN  IF words = {} THEN 0
        ELSE Min({p \in 0 .. last - 1 : \A i \in p + 1 .. last : is_word_char(b.chars[i])})
word_right_point(b) ==
    LET words == {i \in b.point + 1 .. Len(b.chars) : is_word_char(b.chars[i])}
        first == Min(words)
    IN  IF words = {} THEN Len(b.chars)
        ELSE Max({p \in first .. Len(b.chars) : \A i \in first .. p : is_word_char(b.chars[i])})
move_word_left(b) == [b EXCEPT !.point = word_left_point(b)]
move_word_right(b) == [b EXCEPT !.point = word_right_point(b)]

move_visual_line(b, columns, direction) ==
    LET row == b.point \div columns
        target == IF direction < 0 THEN Max({0, row - 1}) ELSE row + 1
    IN  set_char_point(b, (target * columns) + (b.point % columns))

\* The points of a character, to go to it or to stop beside it; {} or one point.
find_forward(b, c, include) ==
    LET at == {i \in b.point + 1 .. Len(b.chars) - 1 : b.chars[i + 1] = c}
    IN  IF at = {} THEN {} ELSE {IF include THEN Min(at) ELSE Min(at) - 1}
find_backward(b, c, include) ==
    LET at == {i \in 0 .. b.point - 1 : b.chars[i + 1] = c}
    IN  IF at = {} THEN {} ELSE {IF include THEN Max(at) ELSE Max(at) + 1}

\* A kill: the buffer without the characters, and the characters.
Cut(b, from, to) ==
    [buf |-> [snapshot(b) EXCEPT !.chars = Spliced(@, from, to, <<>>), !.point = from],
     text |-> SubSeq(b.chars, from + 1, to)]
kill_to_end(b) == Cut(b, b.point, Len(b.chars))
kill_to_beginning(b) == Cut(b, 0, b.point)
\* The cursor moves before the state is saved.
backward_kill_word(b) == Cut(move_word_left(b), word_left_point(b), b.point)
forward_kill_word(b) == Cut(b, b.point, word_right_point(b))
kill_range(b, left, right) ==
    LET from == Within(b, Min({left, right}))
        to == Within(b, Max({left, right}))
    IN  IF from = to THEN [buf |-> b, text |-> <<>>] ELSE Cut(b, from, to)

replace_char_range(b, start, end, s) ==
    LET from == Within(b, start)
        to == Max({from, Within(b, end)})
    IN  [snapshot(b) EXCEPT !.chars = Spliced(@, from, to, s), !.point = from + Len(s)]

\* Mutant: a line that comes from the history is not kept for undo.
replace_unsaved(b, s) == [b EXCEPT !.chars = s, !.point = Len(s), !.group = FALSE]

replace_all(b, s) == [snapshot(b) EXCEPT !.chars = s, !.point = Len(s)]
replace_all_at_byte(b, s, byte) ==
    LET r == replace_all(b, s) IN [r EXCEPT !.point = char_index_for_byte(r, byte)]

transpose_chars(b) ==
    LET n == Len(b.chars)
        i == IF b.point >= n THEN n - 1 ELSE Max({1, b.point})
    IN  IF n < 2 THEN b
        ELSE [snapshot(b) EXCEPT !.chars = Spliced(@, i - 1, i + 1, <<b.chars[i + 1], b.chars[i]>>),
                                 !.point = Within(b, @ + 1)]

\* The words, as <<start, end>>, in order.
word_ranges(chars) ==
    LET word(i) == i \in DOMAIN chars /\ is_word_char(chars[i])
        starts == {i \in 0 .. Len(chars) - 1 : word(i + 1) /\ ~word(i)}
        end(s) == Max({p \in s + 1 .. Len(chars) : \A i \in s + 1 .. p : word(i)})
    IN  [k \in 1 .. Cardinality(starts) |->
            LET s == CHOOSE s \in starts : Cardinality({t \in starts : t < s}) = k - 1
            IN  <<s, end(s)>>]

transpose_words(b) ==
    LET ranges == word_ranges(b.chars)
        around == {k \in DOMAIN ranges : ranges[k][1] <= b.point /\ b.point <= ranges[k][2]}
        after == {k \in DOMAIN ranges : ranges[k][1] > b.point}
        right == IF around # {} THEN Min(around) ELSE IF after # {} THEN Min(after) ELSE Len(ranges)
        l == ranges[right - 1]
        r == ranges[right]
        text(from, to) == SubSeq(b.chars, from + 1, to)
    IN  IF Len(ranges) < 2 \/ right = 1 THEN b
        ELSE [snapshot(b) EXCEPT
                 !.chars = Spliced(@, l[1], r[2], text(r[1], r[2]) \o text(l[2], r[1]) \o text(l[1], l[2])),
                 !.point = r[2]]

\* f: what each character becomes.
case_map_word(b, f) ==
    LET end == word_right_point(b)
    IN  [snapshot(move_word_right(b)) EXCEPT
            !.chars = [i \in DOMAIN @ |-> IF i > b.point /\ i <= end THEN f[@[i]] ELSE @[i]]]
upcase_word(b) == case_map_word(b, [c \in Range(b.chars) |-> to_ascii_uppercase(c)])
downcase_word(b) == case_map_word(b, [c \in Range(b.chars) |-> to_ascii_lowercase(c)])
\* The first letter of each run of letters is raised, the others lowered.
capitalize_word(b) ==
    LET end == word_right_point(b)
        first(i) == i = b.point + 1 \/ ~is_word_char(b.chars[i - 1])
    IN  [snapshot(move_word_right(b)) EXCEPT
            !.chars = [i \in DOMAIN @ |-> IF i <= b.point \/ i > end THEN @[i]
                                          ELSE IF first(i) THEN to_ascii_uppercase(@[i])
                                          ELSE to_ascii_lowercase(@[i])]]

----------------------------------------------------------------------------
(***************************************************************************)
(* Completion.  A completion is [matches, start, append, filenames]: start *)
(* is in bytes, append is <<>> or the character to add.                    *)
(***************************************************************************)
common_prefix(ms) ==
    LET n == Max({k \in 0 .. Len(ms[1]) :
                     \A m \in Range(ms) : IsPrefix(SubSeq(ms[1], 1, k), m)})
    IN  SubSeq(ms[1], 1, n)

Appended(c, chosen) ==
    IF c.filenames /\ chosen # <<>> /\ Last(chosen) = "/" THEN <<>> ELSE c.append

\* The buffer, and whether there was one match, several or none.
apply_completion_result(b, c) ==
    LET from == char_index_for_byte(b, c.start)
        unique == Len(c.matches) = 1
        chosen == IF unique THEN c.matches[1] ELSE common_prefix(c.matches)
        text == chosen \o (IF unique THEN Appended(c, chosen) ELSE <<>>)
        done == [snapshot(b) EXCEPT !.chars = Spliced(@, from, b.point, text),
                                    !.point = from + Len(text)]
    IN  IF c.matches = <<>> THEN [kind |-> "none", buf |-> b]
        ELSE IF unique THEN [kind |-> "unique", buf |-> done]
        ELSE [kind |-> "ambiguous", buf |-> IF Len(chosen) > b.point - from THEN done ELSE b]

replace_completion(b, c, chosen) ==
    LET r == replace_char_range(b, char_index_for_byte(b, c.start), b.point, chosen)
        more == Appended(c, chosen)
    IN  IF more = <<>> THEN r ELSE insert_str(r, more)

----------------------------------------------------------------------------
\* The kill ring: [entries, head]; head counts from 0.
new_ring == [entries |-> <<>>, head |-> 0]

push(r, s) ==
    IF s = <<>> THEN r
    ELSE IF Len(r.entries) < RING_MAX
    THEN [entries |-> Append(r.entries, s), head |-> Len(r.entries)]
    ELSE LET h == (r.head + 1) % RING_MAX IN [entries |-> [r.entries EXCEPT ![h + 1] = s], head |-> h]

current(r) == IF r.head < Len(r.entries) THEN r.entries[r.head + 1] ELSE <<>>

append(r, s) ==
    IF r.entries = <<>> THEN push(r, s) ELSE [r EXCEPT !.entries[r.head + 1] = @ \o s]
\* Mutant: what is killed before the cursor is put after what was killed behind it.
prepend_last(r, s) == append(r, s)
prepend(r, s) ==
    IF r.entries = <<>> THEN push(r, s) ELSE [r EXCEPT !.entries[r.head + 1] = s \o @]

rotate(r) ==
    IF r.entries = <<>> THEN r
    ELSE [r EXCEPT !.head = IF @ = 0 THEN Len(r.entries) - 1 ELSE @ - 1]
=============================================================================
