--------------------------- MODULE HistoryShells ---------------------------
(***************************************************************************)
(* Shells that record, edit and save their history, over one history file  *)
(* they share: shell/src/reader_loop (recording), builtins/src/history.rs  *)
(* and fc.rs, shell/src/exit.rs (saving) and the configuration of          *)
(* shell/src/state/variable_helpers.rs.                                    *)
(*                                                                         *)
(* A line of input may hold several commands, so any number of builtins    *)
(* runs between two Types; history_last_line_added stays as the last Type  *)
(* left it. Each write(2) to the file is a step, and so is each open, so   *)
(* another shell may come in between, or the shell may be killed.          *)
(*                                                                         *)
(* `plan' is what the run explores: a record of small sets of inputs.      *)
(***************************************************************************)
EXTENDS History

CONSTANTS
    Shells,
    Plans,        \* the names of the plans
    PlanOf,       \* name -> [shells, lines, budget, files, sizes, controls, ops, ks, faults]
    NoLimit       \* usize::MAX, as far as the run can tell

VARIABLES
    plan,         \* which plan this behaviour follows
    sh,           \* shell -> its state
    file,         \* the pieces in the history file
    left,         \* commands left to give
    nextid,       \* the id of the next entry
    \* what the properties need to know of the past
    appended,     \* shell -> ids whose append was completed
    slipped,      \* shell -> the mark has been left behind by a removal or a load
    torn,         \* two shells were at the file at once, or one died there
    dropped       \* the file was rewritten from a table that need not hold it all

vars == <<plan, sh, file, left, nextid, appended, slipped, torn, dropped>>

Plan == PlanOf[plan]

\* the shell has the file open, or is about to rewrite what it has read
AtFile(s) == sh[s].pc \in {"append", "load", "truncate", "rewrite"}

Off == [pc |-> "off", t |-> EmptyTable(NoLimit), added |-> FALSE, control |-> {},
        recording |-> TRUE, todo |-> <<>>, at |-> 0, exiting |-> FALSE, cur |-> 0,
        named |-> TRUE]

\* (`cur' is the entry of the command that runs, 0 if it has none or if lines
\* of the file have been read behind it; the code has no such field)

\* the options that do not change while a shell of this plan runs
Fixed == Plan.fixed

ASSUME HistoryAssumption ==
    \A p \in Plans : PlanOf[p].shells \subseteq Shells /\ PlanOf[p].controls \subseteq HistControls

Init ==
    /\ plan \in Plans
    /\ sh = [s \in Shells |-> Off]
    /\ file \in PlanOf[plan].files
    /\ left = PlanOf[plan].budget
    /\ nextid = 1
    /\ appended = [s \in Shells |-> {}]
    /\ slipped = [s \in Shells |-> FALSE]
    /\ torn = FALSE
    /\ dropped = FALSE

\* giving a command to a shell that waits for one
Ready(s) == sh[s].pc = "ready" /\ left > 0
Spend == left' = left - 1

\* an unsaved entry of s is in the table
Unsaved(s, t) == \E i \in 1..Len(t.entries) : t.entries[i].id \notin appended[s] /\ ~ t.entries[i].filed

----------------------------------------------------------------------------
(* Starting: load_history and configure_history_from_vars. When the file   *)
(* cannot be read to its end the shell forgets its name.                   *)

configure_history_from_vars(s, size) ==
    LET t == load_from(IF size > 0 THEN set_max(sh[s].t, size) ELSE sh[s].t, file)
    IN  sh' = [sh EXCEPT ![s].t = t, ![s].pc = "ready", ![s].named = ~ LoadFails(file)]

Start(s) ==
    /\ sh[s].pc = "off"
    /\ s \in Plan.shells
    /\ \E size \in Plan.sizes : configure_history_from_vars(s, size)
    /\ torn' = (torn \/ \E r \in Shells \ {s} : AtFile(r))
    /\ UNCHANGED <<plan, file, left, nextid, appended, slipped, dropped>>

\* set +o history
StopRecording(s) ==
    /\ Ready(s) /\ "option" \in Plan.ops
    /\ sh[s].recording
    /\ sh' = [sh EXCEPT ![s].recording = FALSE]
    /\ Spend
    /\ UNCHANGED <<plan, file, nextid, appended, slipped, torn, dropped>>

\* set -o history when it was off: the file is read once more
ResumeRecording(s) ==
    /\ Ready(s) /\ "option" \in Plan.ops
    /\ ~ sh[s].recording
    /\ ~ LoadFails(file)
    /\ sh' = [sh EXCEPT ![s].recording = TRUE, ![s].t = load_from(@, file), ![s].cur = 0]
    /\ slipped' = [slipped EXCEPT ![s] = @ \/ Unsaved(s, sh[s].t)]
    /\ Spend
    /\ UNCHANGED <<plan, file, nextid, appended, torn, dropped>>

----------------------------------------------------------------------------
(* parse_command: a line of input is recorded, or not *)

\* A removal before the mark leaves the mark on a later entry: what was in front
\* of it, less what was trimmed, is not in front of it any more.
Slips(old, new) ==
    LET kept == LastN(old.entries, Len(old.entries) - (new.base - old.base))
    IN  /\ new.entries # <<>>
        /\ \/ new.mark > Len(new.entries) \/ new.mark > Len(kept)
           \/ SubSeq(kept, 1, new.mark) # SubSeq(new.entries, 1, new.mark)

Type(s) ==
    /\ Ready(s)
    /\ \E lines \in Plan.lines :
         LET text == history_record_line(Fixed.cmdhist, Fixed.lithist, lines)
             t == sh[s].t
             offered == sh[s].recording /\ should_record_history(t, Fixed.ignore, text)
             new == IF offered THEN add(t, text, sh[s].control, nextid) ELSE t
             added == offered /\ Accepts(t, text, sh[s].control)
         IN  /\ sh' = [sh EXCEPT ![s].t = new, ![s].added = added,
                                 ![s].named = @ /\ lines # <<"HISTFILE=">>,
                                 ![s].cur = IF added THEN nextid ELSE 0]
             /\ slipped' = [slipped EXCEPT ![s] = @ \/ Slips(t, new)]
    /\ nextid' = nextid + 1
    /\ Spend
    /\ UNCHANGED <<plan, file, appended, torn, dropped>>

\* an assignment to HISTSIZE (0 is ignored) or HISTCONTROL
AssignSize(s) ==
    /\ Ready(s) /\ "size" \in Plan.ops
    /\ \E n \in Plan.sizes : n > 0 /\ sh' = [sh EXCEPT ![s].t = set_max(@, n)]
    /\ Spend
    /\ UNCHANGED <<plan, file, nextid, appended, slipped, torn, dropped>>

AssignControl(s) ==
    /\ Ready(s)
    /\ \E c \in Plan.controls : c # sh[s].control /\ sh' = [sh EXCEPT ![s].control = c]
    /\ Spend
    /\ UNCHANGED <<plan, file, nextid, appended, slipped, torn, dropped>>

----------------------------------------------------------------------------
(* The builtins that change the table *)

HistoryClear(s) ==
    /\ Ready(s) /\ "clear" \in Plan.ops
    /\ sh' = [sh EXCEPT ![s].t = clear(@)]
    /\ Spend
    /\ UNCHANGED <<plan, file, nextid, appended, slipped, torn, dropped>>

Edited(s, new) ==
    /\ sh' = [sh EXCEPT ![s].t = new]
    /\ slipped' = [slipped EXCEPT ![s] = @ \/ Slips(sh[s].t, new)]
    /\ Spend

HistoryDelete(s) ==
    /\ Ready(s) /\ "delete" \in Plan.ops
    /\ \E k \in Plan.ks : Edited(s, handle_delete(sh[s].t, k))
    /\ UNCHANGED <<plan, file, nextid, appended, torn, dropped>>

HistoryDeleteRange(s) ==
    /\ Ready(s) /\ "delete" \in Plan.ops
    /\ \E k, l \in Plan.ks : Edited(s, handle_delete_range(sh[s].t, k, l))
    /\ UNCHANGED <<plan, file, nextid, appended, torn, dropped>>

\* history -s: in place of the command itself if that was recorded
HistoryStore(s) ==
    /\ Ready(s) /\ "store" \in Plan.ops
    /\ \E line \in Plan.lines :
         Edited(s, IF sh[s].added THEN replace_last(sh[s].t, line, sh[s].control, nextid)
                   ELSE add_forced(sh[s].t, line, nextid))
    /\ nextid' = nextid + 1
    /\ UNCHANGED <<plan, file, appended, torn, dropped>>

\* fc -s: the line found is recorded in place of the last entry, whether or not
\* that is the fc command
FcSubstitute(s) ==
    /\ Ready(s) /\ "fc" \in Plan.ops
    /\ \E k \in {{}} \cup { {n} : n \in Plan.ks } :
         \E e \in find_last_match(sh[s].t, k, sh[s].added) :
           Edited(s, replace_last(sh[s].t, e.text, sh[s].control, nextid))
    /\ nextid' = nextid + 1
    /\ UNCHANGED <<plan, file, appended, torn, dropped>>

----------------------------------------------------------------------------
(* The file operations of the builtin, and of exit_shell *)

\* the file is used by s from now on
Overlap(s) == torn' = (torn \/ \E r \in Shells \ {s} : AtFile(r))

\* append_to opens nothing when nothing is new
BeginAppend(s, exiting) ==
    sh' = [sh EXCEPT ![s].pc = IF new_since_save(sh[s].t) > 0 THEN "append"
                               ELSE IF ~ exiting THEN "ready"
                               ELSE IF Fixed.interactive THEN "load" ELSE "gone",
                     ![s].todo = append_to(sh[s].t, exiting /\ Fixed.interactive /\ Fixed.stamps),
                     ![s].exiting = exiting]

HistoryAppend(s) ==
    /\ Ready(s) /\ "append" \in Plan.ops /\ sh[s].named
    /\ new_since_save(sh[s].t) > 0
    /\ BeginAppend(s, FALSE)
    /\ Overlap(s)
    /\ Spend
    /\ UNCHANGED <<plan, file, nextid, appended, slipped, dropped>>

\* O_APPEND: one write at the end of the file, wherever that is now
AppendPiece(s) ==
    /\ sh[s].pc = "append" /\ sh[s].todo # <<>>
    /\ file' = Append(file, Head(sh[s].todo))
    /\ sh' = [sh EXCEPT ![s].todo = Tail(@)]
    /\ UNCHANGED <<plan, left, nextid, appended, slipped, torn, dropped>>

AfterAppend(s) ==
    IF ~ sh[s].exiting THEN "ready" ELSE IF Fixed.interactive THEN "load" ELSE "gone"

AppendEnds(s) ==
    /\ sh[s].pc = "append" /\ sh[s].todo = <<>>
    /\ LET t == sh[s].t
       IN  appended' = [appended EXCEPT ![s] = @ \cup
                          { LastN(t.entries, new_since_save(t))[i].id : i \in 1..new_since_save(t) }]
    /\ sh' = [sh EXCEPT ![s].t = mark_saved(@), ![s].pc = AfterAppend(s)]
    /\ UNCHANGED <<plan, file, left, nextid, slipped, torn, dropped>>

\* a write fails: the mark stays; exit_shell goes on, the builtin returns
AppendFails(s) ==
    /\ sh[s].pc = "append" /\ sh[s].todo # <<>>
    /\ "full" \in Plan.faults
    /\ sh' = [sh EXCEPT ![s].pc = AfterAppend(s), ![s].todo = <<>>]
    /\ torn' = TRUE
    /\ UNCHANGED <<plan, file, left, nextid, appended, slipped, dropped>>

\* write_to opens with O_TRUNC. The mark is not moved.
HistoryWrite(s) ==
    /\ Ready(s) /\ "write" \in Plan.ops /\ sh[s].named
    /\ file' = <<>>
    /\ sh' = [sh EXCEPT ![s].pc = "rewrite", ![s].at = 0, ![s].exiting = FALSE,
                        ![s].todo = write_to(sh[s].t, NoLimit, FALSE)]
    /\ Overlap(s)
    /\ dropped' = TRUE
    /\ Spend
    /\ UNCHANGED <<plan, nextid, appended, slipped>>

\* one write at the offset of s's own descriptor; a file cut short by another
\* shell meanwhile is filled up with zero bytes
WritePiece(s) ==
    /\ sh[s].pc = "rewrite" /\ sh[s].todo # <<>>
    /\ LET at == sh[s].at + 1
           long == file \o [i \in 1..MaxOf(at - Len(file), 0) |-> Piece("mixed", 0)]
       IN  file' = [long EXCEPT ![at] = Head(sh[s].todo)]
    /\ sh' = [sh EXCEPT ![s].todo = Tail(@), ![s].at = @ + 1]
    /\ UNCHANGED <<plan, left, nextid, appended, slipped, torn, dropped>>

WriteEnds(s) ==
    /\ sh[s].pc = "rewrite" /\ sh[s].todo = <<>>
    /\ sh' = [sh EXCEPT ![s].pc = IF sh[s].exiting THEN "gone" ELSE "ready"]
    /\ UNCHANGED <<plan, file, left, nextid, appended, slipped, torn, dropped>>

\* history -r, with the name of the file. A line that cannot be read ends it.
HistoryRead(s) ==
    /\ Ready(s) /\ "read" \in Plan.ops
    /\ sh' = [sh EXCEPT ![s].t = load_from(@, file), ![s].cur = 0]
    /\ slipped' = [slipped EXCEPT ![s] = @ \/ Unsaved(s, sh[s].t)]
    /\ Spend
    /\ UNCHANGED <<plan, file, nextid, appended, torn, dropped>>

\* exit_shell. An entry that sets HISTFILE to nothing, anywhere in the table,
\* keeps the shell from saving.
SavesAtExit(s) ==
    /\ sh[s].named
    /\ \A i \in 1..Len(sh[s].t.entries) : sh[s].t.entries[i].text # <<"HISTFILE=">>

Exit(s) ==
    /\ sh[s].pc = "ready"
    /\ IF ~ SavesAtExit(s)
       THEN /\ sh' = [sh EXCEPT ![s].pc = "gone"]
            /\ UNCHANGED <<file, torn, dropped>>
       ELSE IF Fixed.histappend \/ ~ Fixed.interactive
       THEN /\ BeginAppend(s, TRUE)
            /\ Overlap(s)
            /\ UNCHANGED <<file, dropped>>
       ELSE /\ sh' = [sh EXCEPT ![s].pc = "rewrite", ![s].at = 0, ![s].exiting = TRUE,
                                ![s].todo = write_to(sh[s].t, Fixed.filesize, Fixed.stamps)]
            /\ file' = <<>>
            /\ Overlap(s)
            /\ dropped' = TRUE
    /\ UNCHANGED <<plan, left, nextid, appended, slipped>>

\* a slip: the file is read into a table as small as the shell's own
ExitLoadCapped(s) ==
    /\ sh[s].pc = "load"
    /\ LET disk == load_from(EmptyTable(sh[s].t.max), file)
       IN  /\ sh' = [sh EXCEPT ![s].pc = IF LoadFails(file) THEN "gone" ELSE "truncate",
                               ![s].todo = write_to(disk, Fixed.filesize, Fixed.stamps)]
           /\ dropped' = (dropped \/ Len(disk.entries) > Fixed.filesize)
    /\ Overlap(s)
    /\ UNCHANGED <<plan, file, left, nextid, appended, slipped>>

\* exit_shell with histappend: the whole file is read back into a fresh table
ExitLoad(s) ==
    /\ sh[s].pc = "load"
    /\ LET disk == load_from(EmptyTable(NoLimit), file)
       IN  /\ sh' = [sh EXCEPT ![s].pc = IF LoadFails(file) THEN "gone" ELSE "truncate",
                               ![s].todo = write_to(disk, Fixed.filesize, Fixed.stamps)]
           /\ dropped' = (\/ dropped \/ Len(disk.entries) > Fixed.filesize
                          \/ \E i \in 1..Len(file) : file[i].text = Stamp /\ file[i].id # 0)
    /\ Overlap(s)
    /\ UNCHANGED <<plan, file, left, nextid, appended, slipped>>

\* and rewritten, to HISTFILESIZE entries
ExitTruncate(s) ==
    /\ sh[s].pc = "truncate"
    /\ file' = <<>>
    /\ sh' = [sh EXCEPT ![s].pc = "rewrite", ![s].at = 0]
    /\ Overlap(s)
    /\ UNCHANGED <<plan, left, nextid, appended, slipped, dropped>>

\* the shell, or the machine, dies
Crash(s) ==
    /\ "crash" \in Plan.faults
    /\ sh[s].pc \notin {"off", "gone"}
    /\ sh' = [sh EXCEPT ![s].pc = "gone"]
    /\ torn' = (torn \/ AtFile(s))
    /\ UNCHANGED <<plan, file, left, nextid, appended, slipped, dropped>>

\* a new shell in place of one that is gone
Restart(s) ==
    /\ sh[s].pc = "gone" /\ left > 0
    /\ sh' = [sh EXCEPT ![s] = Off]
    /\ slipped' = [slipped EXCEPT ![s] = FALSE]
    /\ Spend
    /\ UNCHANGED <<plan, file, nextid, appended, torn, dropped>>

Next ==
    \E s \in Shells :
       \/ Start(s) \/ StopRecording(s) \/ ResumeRecording(s)
       \/ Type(s) \/ AssignSize(s) \/ AssignControl(s)
       \/ HistoryClear(s) \/ HistoryDelete(s) \/ HistoryDeleteRange(s) \/ HistoryStore(s)
       \/ FcSubstitute(s)
       \/ HistoryAppend(s) \/ AppendPiece(s) \/ AppendEnds(s) \/ AppendFails(s)
       \/ HistoryWrite(s) \/ WritePiece(s) \/ WriteEnds(s) \/ HistoryRead(s)
       \/ Exit(s) \/ ExitLoad(s) \/ ExitTruncate(s) \/ Crash(s) \/ Restart(s)

Spec == Init /\ [][Next]_vars

----------------------------------------------------------------------------
(* Properties *)

\* Tables, marks and the file are what the code declares them to be.
TypeOK ==
    /\ \A s \in Shells :
         LET t == sh[s].t
         IN  /\ sh[s].pc \in {"off", "ready", "append", "load", "truncate", "rewrite",
                              "gone"}
             /\ t.max > 0 /\ t.base \in Nat /\ t.mark \in Nat
             /\ \A i \in 1..Len(t.entries) :
                  /\ Range(t.entries[i].text) \subseteq Texts
                  /\ t.entries[i].id < nextid
             /\ appended[s] \subseteq 0..nextid
    /\ \A i \in 1..Len(file) : file[i].text \in Texts \cup {NL}

\* What history -a (or exit) has stored once it never stores again: every entry
\* behind the mark is one whose append was not completed, through trimming,
\* replacement, deletion and reloading.
SavedNotAgain ==
    \A s \in Shells :
      \A i \in 1..Len(sh[s].t.entries) :
        (i > sh[s].t.mark /\ sh[s].pc # "off") => sh[s].t.entries[i].id \notin appended[s]

\* An entry of this session that has not been appended stays behind the mark,
\* so that the next history -a or exit stores it. Deleting a saved entry,
\* erasing a duplicate and reading a file move entries and not the mark; after
\* those it need not hold.
UnsavedKept ==
    \A s \in Shells :
      sh[s].pc # "off" /\ ~ slipped[s] =>
        \A i \in 1..Len(sh[s].t.entries) :
          LET e == sh[s].t.entries[i]
          IN  ~ e.filed /\ e.id \notin appended[s] => i > sh[s].t.mark

\* Event numbers: an entry that stays in the table keeps its number while no
\* entry is deleted or erased, however many are trimmed from the front and
\* whatever is read from the file.
EventNumbersStable(now) ==
    \A s \in Shells :
         LET t == sh[s].t
             u == now[s].t
         IN  /\ now[s].pc # "off"
             /\ "erasedups" \notin sh[s].control
             /\ Len(u.entries) >= Len(t.entries) \/ u.max < t.max
             => \A i \in 1..Len(t.entries), j \in 1..Len(u.entries) :
                  t.entries[i] = u.entries[j] /\ ~ t.entries[i].filed
                    => t.base + i = u.base + j

\* The file holds what it is read as again: with or without timestamps, a table
\* of entries that are each one command (no part of it reads as a command, and
\* it does not look like a timestamp) is loaded as it was written, here-documents
\* with their final newline included.
OneCommand(text) ==
    LET core == IF Last(text) = Blank /\ Len(text) > 1 THEN Front(text) ELSE text
    IN  /\ core[1] \notin {Stamp, Blank, "mixed"}
        /\ Last(core) # Blank
        /\ \A i \in 1..Len(core) :
             history_entry_complete(SubSeq(core, 1, i)) <=> i = Len(core)

FileRoundTrip ==
    \A s \in Shells, stamps \in BOOLEAN :
      LET es == sh[s].t.entries
          back == load_from(EmptyTable(NoLimit), write_to(sh[s].t, NoLimit, stamps)).entries
      IN  (\A i \in 1..Len(es) : OneCommand(es[i].text)) =>
             [i \in 1..Len(back) |-> back[i].text] = [i \in 1..Len(es) |-> es[i].text]

\* What a shell has appended stays in the file, also when it or another one with
\* histappend exits and rewrites the file: unless two of them are at the file at
\* once, one dies there, HISTFILESIZE drops it, the file is overwritten on
\* purpose, or the command itself looks like a timestamp.
AppendedStays ==
    (~ torn /\ ~ dropped /\ \A s \in Shells : sh[s].pc # "rewrite")
    => \A s \in Shells : appended[s] \ {0} \subseteq { file[i].id : i \in 1..Len(file) }

\* fc -s never picks the command that runs it, which would run for ever (unless
\* that command has also read a file, so that its entry is not the last), and
\* fc -l prints only events that exist.
FcNotItself(now) ==
    \A s \in Shells :
      LET t == now[s].t
          added == now[s].added
          Tokens == {{}} \cup { {k} : k \in Plan.ks }
      IN  /\ now[s].cur # 0 =>
               \A k \in Tokens : \A e \in find_last_match(t, k, added) : e.id # now[s].cur
          /\ \A from, to \in Tokens : \A n \in list_range(t, added, from, to) : get(t, n) # {}

\* An event number means one command: it does not move under trimming and
\* reading, and fc takes it for a command that exists and is not fc itself.
EventsStable == [][EventNumbersStable(sh') /\ FcNotItself(sh')]_vars

\* The mark divides the entries that history -a and exit have stored from those
\* they have not.
SaveMarkExact == TypeOK /\ SavedNotAgain /\ UnsavedKept

\* The file gives back what was put there, by one shell or by several.
FileKeeps == FileRoundTrip /\ AppendedStays

============================================================================
