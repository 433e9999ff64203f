------------------------------ MODULE LineEdit ------------------------------
(***************************************************************************)
(* The line editor of crates/lineedit/src/lib.rs: readline, the dispatch   *)
(* of keys to editing commands, vi command mode, history motion and        *)
(* incremental search, over the operators of EditBuffer.  A key is the     *)
(* name of the command it is bound to, or a character.                     *)
(***************************************************************************)
EXTENDS EditBuffer

CONSTANTS
    Vocabulary,     \* completions the shell offers
    columns,        \* width of the terminal
    Home,           \* the characters of HOME
    HIST_MAX,       \* HISTSIZE
    MaxKeys,        \* bound on the number of keys
    MaxCount        \* bound on vi counts

VARIABLES
    ed,             \* the fields of LineEditor, and the locals of readline and of search
    history,        \* the history list
    keymap,         \* "emacs" or "vi-insert"
    keys            \* number of keys so far

editVars == <<ed, history, keymap, keys>>

NewEditor ==
    [mode |-> "idle", b |-> new_buffer, ring |-> new_ring, last |-> "none", mark |-> 0,
     last_yank |-> {}, menu |-> {}, original |-> <<>>, changed |-> FALSE,
     vi_mode |-> FALSE, pending |-> "none", count |-> {},
     history_index |-> {}, saved_current |-> {}, next_index |-> {}, next_entries |-> {},
     needle |-> <<>>, cursor |-> 0, hit |-> {}, reverse |-> FALSE, before |-> <<>>]

The(option) == CHOOSE x \in option : TRUE
OrElse(option, default) == IF option = {} THEN default ELSE The(option)
Entry(i) == history[i + 1]      \* history.get, from 0
Has(line, needle) ==
    \E i \in 0 .. Len(line) - Len(needle) : SubSeq(line, i + 1, i + Len(needle)) = needle

vi_reset(e) == [e EXCEPT !.pending = "none", !.count = {}]
clear_operate_and_get_next(e) == [e EXCEPT !.next_index = {}, !.next_entries = {}]

\* readline_inner up to the first key.
StartLine ==
    /\ ed.mode = "idle"
    /\ LET entries == OrElse(ed.next_entries, history)
           i == Min({OrElse(ed.next_index, 0), Len(entries)})
           b == IF ed.next_index # {} /\ i < Len(entries)
                THEN replace_all(new_buffer, entries[i + 1]) ELSE new_buffer
       IN  ed' = vi_reset([ed EXCEPT
                   !.mode = "edit", !.b = b, !.next_index = {}, !.original = b.chars,
                   !.mark = b.point, !.last_yank = {}, !.menu = {}, !.vi_mode = FALSE,
                   !.saved_current = {}, !.history_index = IF ed.next_index = {} THEN {} ELSE {i}])
    /\ UNCHANGED <<history, keymap, keys>>

Key == ed.mode = "edit" /\ keys < MaxKeys /\ keys' = keys + 1 /\ UNCHANGED keymap

\* What dispatch does before the command itself.
Begun(a) ==
    [ed EXCEPT !.last = a,
               !.b = IF a = "SelfInsert" THEN @ ELSE break_undo_group(@),
               !.menu = IF a \in {"MenuComplete", "MenuCompleteBackward"} THEN @ ELSE {}]

Command(a) == Key /\ ~ed.vi_mode

----------------------------------------------------------------------------
(* Editing without the kill ring. *)
SelfInsert(c) ==
    /\ Command("SelfInsert")
    /\ ed' = [Begun("SelfInsert") EXCEPT !.b = insert_str(@, <<c>>)]
    /\ UNCHANGED history

\* QuotedInsert, TabInsert and a macro: text that begins a group of its own.
InsertText(a, s) ==
    /\ Command(a)
    /\ ed' = [Begun(a) EXCEPT !.b = insert_str(@, s)]
    /\ UNCHANGED history

\* A bracketed paste counts as typing.
Paste(s) ==
    /\ Key
    /\ ed' = [ed EXCEPT !.b = insert_str(break_undo_group(@), s), !.last = "SelfInsert", !.menu = {}]
    /\ UNCHANGED history

expand_tilde_at_point(b) ==
    LET stops == {i \in 1 .. b.point : b.chars[i] \in {" ", ":", "="}}
        start == IF stops = {} THEN 0 ELSE Max(stops)
        word == SubSeq(b.chars, start + 1, b.point)
    IN  IF word = <<"~">> \/ (Len(word) > 1 /\ SubSeq(word, 1, 2) = <<"~", "/">>)
        THEN replace_char_range(b, start, b.point, Home \o Tail(word)) ELSE b

Edited(b, a) ==
    CASE a = "BackwardDeleteChar" -> backward_delete(b)
      [] a = "DeleteChar"         -> delete_forward(b)
      [] a = "ForwardChar"        -> move_right(b)
      [] a = "BackwardChar"       -> move_left(b)
      [] a = "ForwardWord"        -> move_word_right(b)
      [] a = "BackwardWord"       -> move_word_left(b)
      [] a = "BeginningOfLine"    -> move_home(b)
      [] a = "EndOfLine"          -> move_end(b)
      [] a = "NextScreenLine"     -> move_visual_line(b, columns, 1)
      [] a = "PreviousScreenLine" -> move_visual_line(b, columns, -1)
      [] a = "TransposeChars"     -> transpose_chars(b)
      [] a = "TransposeWords"     -> transpose_words(b)
      [] a = "UpcaseWord"         -> upcase_word(b)
      [] a = "DowncaseWord"       -> downcase_word(b)
      [] a = "CapitalizeWord"     -> capitalize_word(b)
      [] a = "UndoCmd"            -> undo(b)
      [] a = "RevertLine"         -> replace_all(b, ed.original)
      [] a = "Tilde"              -> expand_tilde_at_point(b)
      [] a = "Noop"               -> b
Edits == {"BackwardDeleteChar", "DeleteChar", "ForwardChar", "BackwardChar", "ForwardWord",
          "BackwardWord", "BeginningOfLine", "EndOfLine", "NextScreenLine", "PreviousScreenLine",
          "TransposeChars", "TransposeWords", "UpcaseWord", "DowncaseWord", "CapitalizeWord",
          "UndoCmd", "RevertLine", "Tilde", "Noop"}
Edit(a) ==
    /\ Command(a)
    /\ ed' = [Begun(a) EXCEPT !.b = Edited(@, a)]
    /\ UNCHANGED history

\* A command bound with bind -x hands back the line and the cursor, in bytes.
ShellCommand(line, byte) ==
    /\ Command("ShellCommand")
    /\ ed' = [Begun("ShellCommand") EXCEPT !.b = replace_all_at_byte(@, line, byte)]
    /\ UNCHANGED history

----------------------------------------------------------------------------
(* Killing and yanking. *)
Kills == {"KillLine", "BackwardKillLine", "KillWord", "BackwardKillWord", "UnixWordRubout",
          "UnixLineDiscard", "KillRegion"}
is_kill_action(a) == a \in Kills
Backward == {"BackwardKillLine", "UnixLineDiscard", "BackwardKillWord", "UnixWordRubout"}

Killed(b, a) ==
    CASE a = "KillLine" -> kill_to_end(b)
      [] a \in {"BackwardKillLine", "UnixLineDiscard"} -> kill_to_beginning(b)
      [] a \in {"BackwardKillWord", "UnixWordRubout"} -> backward_kill_word(b)
      [] a = "KillWord" -> forward_kill_word(b)
      [] a = "KillRegion" -> kill_range(b, ed.mark, b.point)

record_kill(ring, text, backward, previous) ==
    IF ~is_kill_action(previous) THEN push(ring, text)
    ELSE IF backward THEN prepend(ring, text) ELSE append(ring, text)

Kill(a) ==
    /\ Command(a)
    /\ \E cut \in {Killed(break_undo_group(ed.b), a)} :
          ed' = [Begun(a) EXCEPT !.b = cut.buf,
                                 !.ring = record_kill(@, cut.text, a \in Backward, ed.last)]
    /\ UNCHANGED history

Yank ==
    /\ Command("Yank")
    /\ LET text == current(ed.ring)
       IN  ed' = IF ed.ring.entries = <<>> THEN Begun("Yank")
                 ELSE [Begun("Yank") EXCEPT !.b = insert_str(@, text),
                                            !.last_yank = {<<ed.b.point, ed.b.point + Len(text)>>}]
    /\ UNCHANGED history

YankPop ==
    /\ Command("YankPop")
    /\ LET ring == rotate(ed.ring)
           text == current(ring)
           at == The(ed.last_yank)
       IN  ed' = IF ed.last \notin {"Yank", "YankPop"} \/ Len(ed.ring.entries) < 2 \/ ed.last_yank = {}
                 THEN Begun("YankPop")
                 ELSE [Begun("YankPop") EXCEPT
                          !.ring = ring,
                          !.b = replace_char_range(@, at[1], at[2], text),
                          !.last_yank = {<<at[1], at[1] + Len(text)>>}]
    /\ UNCHANGED history

\* The words of a line without quotes.
shell_words(line) ==
    LET starts == {i \in DOMAIN line : line[i] # " " /\ (i = 1 \/ line[i - 1] = " ")}
        end(s) == Max({p \in s .. Len(line) : \A i \in s .. p : line[i] # " "})
    IN  [k \in 1 .. Cardinality(starts) |->
            LET s == CHOOSE s \in starts : Cardinality({t \in starts : t < s}) = k - 1
            IN  SubSeq(line, s, end(s))]

\* YankLastArg and YankNthArg, which takes the second word if there is one.
yank_history_argument(a) ==
    /\ Command(a)
    /\ LET words == IF history = <<>> THEN <<>> ELSE shell_words(Last(history))
           word == IF a = "YankNthArg" /\ Len(words) > 1 THEN words[2] ELSE Last(words)
       IN  ed' = IF words = <<>> THEN Begun(a) ELSE [Begun(a) EXCEPT !.b = insert_str(@, word)]
    /\ UNCHANGED history

----------------------------------------------------------------------------
(* History. *)

navigate_history(e, delta) ==
    LET n == Len(history)
        i == OrElse(e.history_index, n)
        j == i + delta
        saved == IF e.history_index = {} THEN {e.b.chars} ELSE e.saved_current
    IN  IF n = 0 \/ j < 0 \/ j > n THEN e
        ELSE [e EXCEPT !.saved_current = saved, !.history_index = {j},
                       !.b = replace_all(@, IF j = n THEN OrElse(saved, <<>>) ELSE Entry(j))]

navigate_history_prefix(e, direction) ==
    LET n == Len(history)
        saved == IF e.saved_current = {} THEN {e.b.chars} ELSE e.saved_current
        start == OrElse(e.history_index, n)
        found == {i \in 0 .. n - 1 : /\ IF direction < 0 THEN i < start ELSE i > start
                                     /\ IsPrefix(The(saved), Entry(i))}
        i == IF direction < 0 THEN Max(found) ELSE Min(found)
    IN  IF n = 0 THEN e
        ELSE IF found # {}
        THEN [e EXCEPT !.saved_current = saved, !.history_index = {i}, !.b = replace_all(@, Entry(i))]
        ELSE IF direction < 0 THEN [e EXCEPT !.saved_current = saved]
        ELSE [e EXCEPT !.saved_current = saved, !.history_index = {n}, !.b = replace_all(@, The(saved))]

BeginningOfHistory(e) ==
    IF history = <<>> THEN e
    ELSE [e EXCEPT !.saved_current = IF e.history_index = {} THEN {e.b.chars} ELSE @,
                   !.history_index = {0}, !.b = replace_all(@, Entry(0))]

EndOfHistory(e) ==
    [e EXCEPT !.history_index = {Len(history)}, !.b = replace_all(@, OrElse(e.saved_current, <<>>))]

Motions == {"PreviousHistory", "NextHistory", "BeginningOfHistory", "EndOfHistory",
            "HistorySearchBackward", "HistorySearchForward"}
Move(a) ==
    /\ Command(a)
    /\ ed' = CASE a = "PreviousHistory"       -> navigate_history(Begun(a), -1)
               [] a = "NextHistory"           -> navigate_history(Begun(a), 1)
               [] a = "BeginningOfHistory"    -> BeginningOfHistory(Begun(a))
               [] a = "EndOfHistory"          -> EndOfHistory(Begun(a))
               [] a = "HistorySearchBackward" -> navigate_history_prefix(Begun(a), -1)
               [] a = "HistorySearchForward"  -> navigate_history_prefix(Begun(a), 1)
    /\ UNCHANGED history

\* Mutant: the next entry is looked up in the history of the next call.
NoCopy(e) ==
    LET n == Len(history)
    IN  [e EXCEPT !.next_entries = {},
                  !.next_index = {IF e.history_index = {} THEN n ELSE Min({n, The(e.history_index) + 1})}]

queue_operate_and_get_next(e) ==
    LET entries == OrElse(e.next_entries, history)
        n == Len(entries)
    IN  [e EXCEPT !.next_entries = {entries},
                  !.next_index = {IF e.history_index = {} THEN n ELSE Min({n, The(e.history_index) + 1})}]

\* The shell gets the line and records it.
Accepted(e) ==
    /\ ed' = [e EXCEPT !.mode = "idle"]
    /\ history' = IF e.b.chars = <<>> THEN history
                  ELSE LET h == Append(history, e.b.chars) IN IF Len(h) > HIST_MAX THEN Tail(h) ELSE h

AcceptLine == Key /\ Accepted(clear_operate_and_get_next(Begun("AcceptLine")))

OperateAndGetNext ==
    /\ Command("OperateAndGetNext")
    /\ Accepted(queue_operate_and_get_next(Begun("OperateAndGetNext")))

\* Control-C leaves the last command as it was; Abort is a command.
Interrupt ==
    /\ Key
    /\ ed' = [vi_reset(clear_operate_and_get_next(ed)) EXCEPT !.mode = "idle"]
    /\ UNCHANGED history
Abort ==
    /\ Command("Abort")
    /\ ed' = [clear_operate_and_get_next(Begun("Abort")) EXCEPT !.b = clear(@), !.mode = "idle"]
    /\ UNCHANGED history

----------------------------------------------------------------------------
(* Completion.  The shell completes the word that ends at the cursor. *)
complete(b) ==
    LET stops == {i \in 1 .. b.point : b.chars[i] = " "}
        start == IF stops = {} THEN 0 ELSE Max(stops)
        word == SubSeq(b.chars, start + 1, b.point)
    IN  [matches |-> SelectSeq(Vocabulary, LAMBDA m : IsPrefix(word, m)),
         start |-> Bytes(SubSeq(b.chars, 1, start)), append |-> <<" ">>, filenames |-> TRUE]

\* A second Tab after one that changed nothing lists the matches.
Complete ==
    /\ Command("Complete")
    /\ LET list == ed.last = "Complete" /\ ~ed.changed
           done == apply_completion_result(break_undo_group(ed.b), complete(ed.b))
       IN  ed' = IF list THEN [Begun("Complete") EXCEPT !.changed = FALSE]
                 ELSE [Begun("Complete") EXCEPT !.b = done.buf,
                                                !.changed = done.buf.chars # ed.b.chars]
    /\ UNCHANGED history

InsertCompletions ==
    /\ Command("InsertCompletions")
    /\ LET c == [complete(ed.b) EXCEPT !.append = <<>>]
           joined == FoldLeft(LAMBDA s, m : IF s = <<>> THEN m ELSE s \o <<" ">> \o m, <<>>, c.matches)
       IN  ed' = IF c.matches = <<>> THEN Begun("InsertCompletions")
                 ELSE [Begun("InsertCompletions") EXCEPT !.b = replace_completion(@, c, joined)]
    /\ UNCHANGED history

\* The menu keeps the matches of its first turn.
menu_complete(backward) ==
    LET c == IF ed.menu = {} THEN complete(ed.b) ELSE The(ed.menu).completion
        n == Len(c.matches)
        i == IF ed.menu = {} THEN IF backward THEN n - 1 ELSE 0
             ELSE IF backward THEN (The(ed.menu).index + n - 1) % n ELSE (The(ed.menu).index + 1) % n
        a == IF backward THEN "MenuCompleteBackward" ELSE "MenuComplete"
    IN  /\ Command(a)
        /\ ed' = IF n = 0 THEN [Begun(a) EXCEPT !.menu = {}]
                 ELSE [Begun(a) EXCEPT
                          !.b = replace_completion(@, [c EXCEPT !.append = <<>>], c.matches[i + 1]),
                          !.menu = {[completion |-> c, index |-> i]}]
        /\ UNCHANGED history

\* At the end of a line the matches are listed, elsewhere a character goes; Quit
\* does neither.  On an empty line both end the input.
DeleteCharOrList(a) ==
    /\ Command(a)
    /\ ed' = IF ed.b.chars = <<>> THEN [Begun(a) EXCEPT !.mode = "ended"]
             ELSE IF a = "Quit" THEN Begun(a) ELSE [Begun(a) EXCEPT !.b = delete_forward(@)]
    /\ UNCHANGED history

----------------------------------------------------------------------------
(* Incremental search: history_search.rs. *)
find_match(needle, start, reverse) ==
    LET n == Len(history)
        found == {i \in 0 .. n - 1 : /\ Has(Entry(i), needle)
                                     /\ IF reverse THEN i <= start ELSE i >= start}
    IN  IF needle = <<>> \/ found = {} THEN {} ELSE {IF reverse THEN Max(found) ELSE Min(found)}

\* In vi command mode the key is "/".
StartSearch(reverse) ==
    /\ Key /\ (ed.vi_mode => reverse /\ ed.pending = "none")
    /\ \E e \in {Begun(IF reverse THEN "ReverseSearchHistory" ELSE "ForwardSearchHistory")} :
          ed' = [e EXCEPT !.mode = "search", !.before = e.b.chars, !.needle = <<>>, !.hit = {},
                          !.count = {}, !.reverse = reverse, !.cursor = IF reverse THEN Len(history) ELSE 0]
    /\ UNCHANGED history

SearchKey == ed.mode = "search" /\ keys < MaxKeys /\ keys' = keys + 1 /\ UNCHANGED keymap

Searched(needle, cursor) ==
    LET hit == find_match(needle, cursor, ed.reverse)
    IN  IF hit = {} THEN [ed EXCEPT !.needle = needle, !.cursor = cursor]
        ELSE [ed EXCEPT !.needle = needle, !.cursor = The(hit), !.hit = hit,
                        !.b = replace_all(@, Entry(The(hit)))]

SearchFor(c) == SearchKey /\ ed' = Searched(Append(ed.needle, c), ed.cursor) /\ UNCHANGED history
SearchShorter ==
    /\ SearchKey
    /\ ed' = Searched(IF ed.needle = <<>> THEN <<>> ELSE Front(ed.needle), ed.cursor)
    /\ UNCHANGED history
SearchOn(older) ==
    /\ SearchKey
    /\ ed' = Searched(ed.needle, IF older THEN Max({0, ed.cursor - 1}) ELSE ed.cursor + 1)
    /\ UNCHANGED history
SearchCancel ==
    /\ SearchKey
    /\ ed' = [ed EXCEPT !.mode = "edit", !.b = replace_all(@, ed.before)]
    /\ UNCHANGED history
SearchAccept ==
    SearchKey /\ Accepted(clear_operate_and_get_next([ed EXCEPT !.history_index = ed.hit]))
SearchOperate ==
    SearchKey /\ Accepted(queue_operate_and_get_next([ed EXCEPT !.history_index = ed.hit]))

----------------------------------------------------------------------------
(* Vi command mode: handle_vi_command.  Its commands are not recorded in last. *)
ViCommand == Key /\ ed.vi_mode /\ UNCHANGED history

\* The keys of the vi-insert map that change the mode.
ViMovementMode ==
    /\ Command("ViMovementMode") /\ keymap = "vi-insert"
    /\ ed' = vi_reset([Begun("ViMovementMode") EXCEPT !.vi_mode = TRUE])
    /\ UNCHANGED history

take_count == Max({1, OrElse(ed.count, 1)})
Taken == [ed EXCEPT !.count = {}, !.pending = "none", !.menu = {}]

Times(n, b, f(_)) == LET after[i \in 0 .. n] == IF i = 0 THEN b ELSE f(after[i - 1]) IN after[n]

ViDigit(d) ==
    /\ ViCommand /\ ed.pending = "none"
    /\ d # 0 \/ ed.count # {}
    /\ (10 * OrElse(ed.count, 0)) + d <= MaxCount
    /\ ed' = [ed EXCEPT !.count = {(10 * OrElse(ed.count, 0)) + d}, !.menu = {}]

\* d, c, y, f, F, t, T and r wait for a character.
ViPending(p) ==
    /\ ViCommand /\ ed.pending = "none"
    /\ ed' = [ed EXCEPT !.pending = p, !.menu = {}]

ViReset == ViCommand /\ ed' = vi_reset([ed EXCEPT !.menu = {}])

vi_motion_range(b, motion, n) ==
    LET target == CASE motion = "h" -> Max({0, b.point - n})
                    [] motion = "l" -> Within(b, b.point + n)
                    [] motion = "0" -> 0
                    [] motion = "$" -> Len(b.chars)
                    [] motion \in {"w", "e"} -> Times(n, b, move_word_right).point
                    [] motion = "b" -> Times(n, b, move_word_left).point
    IN  <<Min({b.point, target}), Max({b.point, target})>>

apply_vi_operator(e, op, from, to) ==
    LET cut == kill_range(e.b, from, to)
    IN  IF op = "y" THEN [e EXCEPT !.ring = push(@, SubSeq(e.b.chars, from + 1, to))]
        ELSE [e EXCEPT !.ring = push(@, cut.text), !.b = cut.buf, !.vi_mode = op # "c"]

apply_vi_line_operator(e, op) ==
    IF op = "y" THEN [e EXCEPT !.ring = push(@, e.b.chars)]
    ELSE [e EXCEPT !.ring = push(@, e.b.chars), !.b = clear(@), !.vi_mode = op # "c"]

\* The character an operator, a find or a replace waited for.  Others ring the bell.
ViAfterOperator(motion) ==
    /\ ViCommand /\ ed.pending \in {"d", "c", "y"}
    /\ ed' = IF motion = ed.pending THEN apply_vi_line_operator(Taken, ed.pending)
             ELSE IF motion \notin {"h", "l", "0", "$", "w", "e", "b"} THEN Taken
             ELSE LET r == vi_motion_range(ed.b, motion, take_count)
                  IN  apply_vi_operator(Taken, ed.pending, r[1], r[2])

RECURSIVE Found(_, _, _, _, _)
Found(n, b, c, backward, till) ==
    LET at == IF backward THEN find_backward(b, c, ~till) ELSE find_forward(b, c, ~till)
    IN  IF n = 0 \/ at = {} THEN b ELSE Found(n - 1, set_char_point(b, The(at)), c, backward, till)

ViFind(c) ==
    /\ ViCommand /\ ed.pending \in {"f", "F", "t", "T"}
    /\ ed' = [Taken EXCEPT !.b = Found(take_count, @, c, ed.pending \in {"F", "T"},
                                       ed.pending \in {"t", "T"})]

ViReplace(c) ==
    /\ ViCommand /\ ed.pending = "r"
    /\ LET from == ed.b.point
           to == Within(ed.b, from + take_count)
           by == [i \in 1 .. to - from |-> c]
       IN  ed' = IF from = to THEN Taken
                 ELSE [Taken EXCEPT !.b = set_char_point(replace_char_range(@, from, to, by),
                                                         Max({0, to - 1}))]

ToggledCase(b) ==
    LET c == b.chars[b.point + 1]
        by == IF c = to_ascii_lowercase(c) THEN to_ascii_uppercase(c) ELSE to_ascii_lowercase(c)
    IN  IF b.point >= Len(b.chars) THEN b ELSE replace_char_range(b, b.point, b.point + 1, <<by>>)

ViMoved(b, c, n) ==
    CASE c = "h" -> set_char_point(b, Max({0, b.point - n}))
      [] c = "l" -> set_char_point(b, b.point + n)
      [] c = "0" -> move_home(b)
      [] c = "$" -> move_end(b)
      [] c = "w" -> Times(n, b, move_word_right)
      [] c = "b" -> Times(n, b, move_word_left)
      [] c = "e" -> move_left(Times(n, b, move_word_right))
      [] c = "~" -> Times(n, b, ToggledCase)
      [] c = "u" -> undo(b)
ViMoves == {"h", "l", "0", "$", "w", "b", "e", "~", "u"}
ViMove(c) ==
    /\ ViCommand /\ ed.pending = "none" /\ (c = "0" => ed.count = {})
    /\ ed' = [Taken EXCEPT !.b = ViMoved(@, c, take_count)]

RECURSIVE Navigated(_, _, _)
Navigated(n, e, delta) == IF n = 0 THEN e ELSE Navigated(n - 1, navigate_history(e, delta), delta)
ViHistory(c) ==
    /\ ViCommand /\ ed.pending = "none"
    /\ ed' = Navigated(take_count, Taken, IF c = "k" THEN -1 ELSE 1)

ViInsert(c) ==
    /\ ViCommand /\ ed.pending = "none"
    /\ ed' = [Taken EXCEPT !.vi_mode = FALSE,
                           !.b = CASE c = "i" -> @ [] c = "I" -> move_home(@)
                                   [] c = "a" -> move_right(@) [] c = "A" -> move_end(@)]

ViCuts == {"x", "X", "D", "C", "S", "s"}
ViCut(c) ==
    /\ ViCommand /\ ed.pending = "none"
    /\ LET b == ed.b
           n == take_count
           cut == CASE c \in {"x", "s"} -> kill_range(b, b.point, b.point + n)
                    [] c = "X"          -> kill_range(b, Max({0, b.point - n}), b.point)
                    [] c \in {"D", "C"} -> kill_to_end(b)
                    [] c = "S"          -> kill_range(b, 0, Len(b.chars))
       IN  ed' = [Taken EXCEPT !.b = cut.buf, !.ring = push(@, cut.text),
                               !.vi_mode = c \notin {"C", "S", "s"}]

ViPut(c) ==
    /\ ViCommand /\ ed.pending = "none"
    /\ LET text == current(ed.ring)
           put(b) == insert_str(b, text)
       IN  ed' = IF ed.ring.entries = <<>> THEN Taken
                 ELSE [Taken EXCEPT !.b = Times(take_count, IF c = "p" THEN move_right(@) ELSE @, put)]
=============================================================================
