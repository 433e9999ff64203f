------------------------------ MODULE History ------------------------------
(***************************************************************************)
(* The history table of one shell (common/src/history.rs), as operators on *)
(* a record [entries, max, base, mark], and the lookups of the builtins    *)
(* history and fc.                                                         *)
(*                                                                         *)
(* A line of history is a sequence of physical lines, drawn from a small   *)
(* set that has one member for each form the file format tells apart.      *)
(* `id' names an entry, so that two equal lines are not confused; the code *)
(* has no such field.                                                      *)
(***************************************************************************)
EXTENDS Integers, Sequences, SequencesExt, FiniteSets

\* "a" and "b" are ordinary, " a" starts with a blank, "ab" is "a; b", "'q" and
\* "q'" have one quote each, "#1" is a number behind a hash, "<<E" starts a
\* here-document and "E" ends it, "mixed" is what two writers make of one line
\* and "bad" is no UTF-8.
Blank == ""
Stamp == "#1"
NL == "NL"

CONSTANT Texts      \* the physical lines that the run uses

\* HISTCONTROL as a set of flags
HistControls == {{}, {"ignorespace"}, {"ignoredups"}, {"ignorespace", "ignoredups"}, {"erasedups"}}

Entry(text, ts, filed, id) == [text |-> text, ts |-> ts, filed |-> filed, id |-> id]

EmptyTable(max) == [entries |-> <<>>, max |-> max, base |-> 0, mark |-> 0]

MaxOf(i, j) == IF i > j THEN i ELSE j
MinOf(i, j) == IF i < j THEN i ELSE j
LastN(s, n) == SubSeq(s, MaxOf(Len(s) - n, 0) + 1, Len(s))

----------------------------------------------------------------------------
(* The table *)

\* a slip: the mark does not follow the base
trim_unmarked(t) ==
    LET over == MaxOf(Len(t.entries) - t.max, 0)
    IN  [t EXCEPT !.entries = LastN(@, t.max),
                  !.base = @ + over]

\* a slip: the base is left behind
trim_unbased(t) ==
    LET over == MaxOf(Len(t.entries) - t.max, 0)
    IN  [t EXCEPT !.entries = LastN(@, t.max),
                  !.mark = MaxOf(@ - over, 0)]

\* trim: the oldest entries go, the base and the mark follow
trim(t) ==
    LET over == MaxOf(Len(t.entries) - t.max, 0)
    IN  [t EXCEPT !.entries = LastN(@, t.max),
                  !.base = @ + over,
                  !.mark = MaxOf(@ - over, 0)]

set_max(t, n) == trim([t EXCEPT !.max = MaxOf(n, 1)])

\* get: an event number to the entries it names (none or one)
get(t, n) == { t.entries[i] : i \in { i \in 1..Len(t.entries) : n = t.base + i } }

Accepts(t, text, control) ==
    /\ text # <<Blank>>
    /\ ~ ("ignorespace" \in control /\ text[1] = " a")
    /\ ~ ("ignoredups" \in control /\ t.entries # <<>> /\ Last(t.entries).text = text)

Erased(t, text, control) ==
    IF "erasedups" \in control
    THEN [t EXCEPT !.entries = SelectSeq(@, LAMBDA e : e.text # text)]
    ELSE t

add(t, text, control, id) ==
    IF Accepts(t, text, control)
    THEN trim([Erased(t, text, control)
                 EXCEPT !.entries = Append(@, Entry(text, TRUE, FALSE, id))])
    ELSE t

add_forced(t, text, id) ==
    trim([t EXCEPT !.entries = Append(@, Entry(text, FALSE, FALSE, id))])

remove_at(t, n) ==
    IF n > t.base /\ n <= t.base + Len(t.entries)
    THEN [t EXCEPT !.entries = RemoveAt(@, n - t.base)]
    ELSE t

remove_range(t, m, n) ==
    LET s == MaxOf(m, t.base + 1) - (t.base + 1)
        e == MinOf(n, t.base + Len(t.entries)) - t.base
    IN  IF m > t.base + Len(t.entries) \/ n < t.base + 1 \/ s >= e
        THEN t
        ELSE [t EXCEPT !.entries = SubSeq(@, 1, s) \o SubSeq(@, e + 1, Len(@))]

replace_last(t, text, control, id) ==
    LET popped == IF t.entries = <<>> THEN t
                  ELSE [t EXCEPT !.entries = Front(@),
                                 !.mark = MinOf(@, Len(t.entries) - 1)]
    IN  add(popped, text, control, id)

clear(t) == [t EXCEPT !.entries = <<>>, !.base = 0, !.mark = 0]

mark_saved(t) == [t EXCEPT !.mark = Len(t.entries)]

new_since_save(t) == MaxOf(Len(t.entries) - t.mark, 0)

----------------------------------------------------------------------------
(* The file: a sequence of pieces, each one write(2). writeln! on a File   *)
(* writes the text and then the newline.                                   *)

Piece(text, id) == [text |-> text, id |-> id]

\* the writes that store one entry
Written(e, with_timestamps) ==
    (IF e.ts /\ (with_timestamps \/ e.filed)
       THEN <<Piece(Stamp, 0), Piece(NL, 0)>> ELSE <<>>)
    \o [i \in 1..(2 * Len(e.text)) |->
          IF i % 2 = 1 THEN Piece(e.text[(i + 1) \div 2], e.id) ELSE Piece(NL, 0)]

\* write_to: the entries kept under HISTFILESIZE
write_to(t, max_size, with_timestamps) ==
    LET kept == LastN(t.entries, max_size)
        after[i \in 0..Len(kept)] ==
          IF i = 0 THEN <<>> ELSE after[i - 1] \o Written(kept[i], with_timestamps)
    IN  after[Len(kept)]

append_to(t, with_timestamps) ==
    write_to(t, new_since_save(t), with_timestamps)

\* what one line of the file reads as
LineOf(pieces) ==
    CASE pieces = <<>>     -> Piece(Blank, 0)
      [] Len(pieces) = 1   -> pieces[1]
      [] OTHER             -> Piece("mixed", 0)

\* BufRead::lines
LinesOf(f) ==
    LET ends == { i \in 1..Len(f) : f[i].text = NL }
        start(e) == IF \E i \in ends : i < e
                    THEN (CHOOSE i \in ends : i < e /\ \A j \in ends : j < e => j <= i) + 1
                    ELSE 1
        upto[i \in 0..Len(f)] ==
          IF i = 0 THEN <<>>
          ELSE IF i \in ends THEN Append(upto[i - 1], LineOf(SubSeq(f, start(i), i - 1)))
          ELSE IF i = Len(f) THEN Append(upto[i - 1], LineOf(SubSeq(f, start(i), i)))
          ELSE upto[i - 1]
    IN  upto[Len(f)]

\* an odd number of quotes leaves one open
quotes_balanced(text) ==
    Cardinality({ i \in 1..Len(text) : text[i] \in {"'q", "q'"} }) % 2 = 0

\* one here-document at a time is pending: the first "<<E" line, and every one
\* after the "E" that closed the one before
heredocs_closed(text) ==
    LET pending[i \in 0..Len(text)] ==
          IF i = 0 THEN FALSE ELSE IF pending[i - 1] THEN text[i] # "E" ELSE text[i] = "<<E"
    IN  ~ pending[Len(text)]

history_entry_complete(text) == quotes_balanced(text) /\ heredocs_closed(text)

\* one line of load_from. `rd' is the reader: the entries so far, the lines of
\* the entry being put together, its id, and the stamp read before it.
LoadLine(rd, line) ==
    IF rd.text = <<>> /\ line.text = Blank
    THEN IF ~ rd.pending /\ rd.entries # <<>>
         THEN [rd EXCEPT !.entries[Len(rd.entries)].text = Append(@, Blank)]
         ELSE rd
    ELSE IF rd.text = <<>> /\ line.text = Stamp
    THEN [rd EXCEPT !.pending = TRUE]
    ELSE LET text == Append(rd.text, line.text)
             ts == IF rd.text = <<>> THEN rd.pending ELSE rd.ts
             id == IF rd.text = <<>> THEN line.id ELSE rd.id
         IN  IF history_entry_complete(text)
             THEN [entries |-> Append(rd.entries, Entry(text, ts, TRUE, id)),
                   text |-> <<>>, ts |-> FALSE, id |-> 0, pending |-> FALSE]
             ELSE [rd EXCEPT !.text = text, !.ts = ts, !.id = id, !.pending = FALSE]

ReadAll(entries, lines) ==
    LET upto[i \in 0..Len(lines)] ==
          IF i = 0 THEN [entries |-> entries, text |-> <<>>, ts |-> FALSE, id |-> 0,
                         pending |-> FALSE]
          ELSE LoadLine(upto[i - 1], lines[i])
    IN  upto[Len(lines)]

\* load_from reads as far as the first line that is no UTF-8. When it meets one
\* it returns the error at once: what was read stays, untrimmed and unmarked.
LoadFails(f) == \E i \in 1..Len(f) : f[i].text = "bad"

load_from(t, f) ==
    LET lines == LinesOf(f)
        first == IF LoadFails(f)
                 THEN CHOOSE i \in 1..Len(lines) :
                        /\ lines[i].text = "bad"
                        /\ \A j \in 1..(i - 1) : lines[j].text # "bad"
                 ELSE Len(lines) + 1
        rd == ReadAll(t.entries, SubSeq(lines, 1, first - 1))
        rest == IF rd.text = <<>> THEN rd.entries
                ELSE Append(rd.entries, Entry(rd.text, rd.ts, TRUE, rd.id))
    IN  IF LoadFails(f) THEN [t EXCEPT !.entries = rd.entries]
        ELSE mark_saved(trim([t EXCEPT !.entries = rest]))

----------------------------------------------------------------------------
(* Recording a command (shell/src/reader_loop/history.rs) *)

newline_inside_quotes(lines) ==
    \E i \in 1..(Len(lines) - 1) : ~ quotes_balanced(SubSeq(lines, 1, i))

compact_cmdhist_line(lines) ==
    LET full == SelectSeq(lines, LAMBDA l : l # Blank)
    IN  IF Len(full) = 1 THEN full ELSE <<"ab">>

history_record_line(cmdhist, lithist, lines) ==
    IF \E i \in 1..Len(lines) : lines[i] = "<<E"
    THEN Append(lines, Blank)
    ELSE IF ~ cmdhist \/ lithist \/ Len(lines) = 1 \/ newline_inside_quotes(lines)
    THEN lines
    ELSE compact_cmdhist_line(lines)

\* HISTIGNORE as a set of patterns: "&" and ordinary ones, which match a text
should_record_history(t, ignore, text) ==
    /\ text # <<Blank>>
    /\ ~ ("&" \in ignore /\ t.entries # <<>> /\ Last(t.entries).text = text)
    /\ ~ (text[1] \in ignore)

----------------------------------------------------------------------------
(* Positions (builtins/src/history.rs and fc.rs). A token is a record      *)
(* [neg, n] for a number with or without a minus sign.                     *)

\* history -d: the event numbers a position resolves to (none or one)
resolve_history_position(t, k) ==
    LET n == IF k.neg THEN t.base + Len(t.entries) + 1 - k.n ELSE k.n
    IN  { i \in (t.base + 1)..(t.base + Len(t.entries)) : i = n /\ k.n # 0 }

handle_delete(t, k) ==
    IF resolve_history_position(t, k) = {} THEN t
    ELSE remove_at(t, CHOOSE i \in resolve_history_position(t, k) : TRUE)

handle_delete_range(t, k, l) ==
    LET s == resolve_history_position(t, k)
        e == resolve_history_position(t, l)
    IN  IF s = {} \/ e = {} THEN t
        ELSE LET i == CHOOSE x \in s : TRUE
                 j == CHOOSE x \in e : TRUE
             IN  remove_range(t, MinOf(i, j), MaxOf(i, j))

\* fc leaves out the command that runs it, which is the last entry
effective_total(t, added) == MaxOf(Len(t.entries) - (IF added THEN 1 ELSE 0), 0)

parse_execute_index(t, k, total) ==
    LET newest == t.base + total
        first == t.base + 1
    IN  IF k.neg THEN MaxOf(MaxOf(newest + 1 - k.n, 0), first)
        ELSE IF k.n = 0 THEN newest
        ELSE MinOf(MaxOf(k.n, first), newest)

\* the entries fc -s runs again (none or one); -0 is no number to it
find_last_match(t, k, added) ==
    LET total == effective_total(t, added)
    IN  IF total = 0 THEN {}
        ELSE IF k = {} THEN get(t, t.base + total)
        ELSE UNION { get(t, parse_execute_index(t, n, total)) : n \in k \ {[neg |-> TRUE, n |-> 0]} }

\* one bound of fc -l
resolve_list_index(t, added, k, first_arg) ==
    LET first_event == t.base + 1
        last_hist == t.base + effective_total(t, added)
        real_last == t.base + Len(t.entries)
    IN  IF k.neg /\ k.n = 0 THEN real_last
        ELSE IF k.neg THEN MaxOf(MaxOf(last_hist + 1 - k.n, 0), first_event)
        ELSE IF k.n = 0 THEN last_hist
        ELSE IF k.n < first_event \/ k.n > last_hist
             THEN (IF first_arg THEN first_event ELSE last_hist)
        ELSE k.n

\* the event numbers fc -l prints, given no bound, one or two
list_range(t, added, from, to) ==
    LET total == Len(t.entries)
        effective == effective_total(t, added)
        first_event == t.base + 1
        last_hist == t.base + effective
        real_last == t.base + total
        start == IF from = {} THEN MaxOf(MaxOf(last_hist - 15, 0), first_event)
                 ELSE resolve_list_index(t, added, CHOOSE k \in from : TRUE, TRUE)
        end == IF from = {} THEN last_hist
               ELSE IF to # {} THEN resolve_list_index(t, added, CHOOSE k \in to : TRUE, FALSE)
               ELSE IF start = real_last THEN real_last
               ELSE last_hist
        low == MinOf(start, end)
        high == MaxOf(start, end)
    IN  IF total = 0 \/ effective = 0 THEN {}
        ELSE { n \in low..MinOf(high, real_last) :
                 /\ ~ (added /\ n = real_last /\ n # low /\ n # high)
                 /\ ~ (~ added /\ n > last_hist)
                 /\ n >= first_event }
============================================================================
