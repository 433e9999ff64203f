---------------------------- MODULE EditSession ----------------------------
(***************************************************************************)
(* What the line editor promises to its user: LineEdit with the keys of    *)
(* one kind of work at a time, and what the user remembers of it.          *)
(***************************************************************************)
EXTENDS LineEdit

VARIABLES
    work,       \* the keys in use
    dropped,    \* the oldest state for undo is gone
    killing,    \* {} or the line before the current run of kills
    around,     \* {} or what is before and after the text being yanked or completed
    own,        \* {} or the line left for the history
    walk        \* {} or the entry the last of a run of operate-and-get-next asked for

userVars == <<work, dropped, killing, around, own, walk>>
sessionVars == <<editVars, userVars>>

Works == {"typing", "killing", "yanking", "recall", "operate", "search", "complete", "vi", "vi cut"}

InitSession ==
    /\ ed = NewEditor /\ keys = 0
    /\ work \in Works
    /\ keymap = IF work \in {"vi", "vi cut"} THEN "vi-insert" ELSE "emacs"
    /\ history \in CASE work = "operate" -> {<<<<"a">>, <<"b">>, <<"B">>>>}
                     [] work \in {"recall", "search"} ->
                            {<<>>, <<<<"a", "b">>, <<"b">>, <<"a", " ", "b">>>>}
                     [] OTHER -> {<<<<"a", " ", "b">>>>}
    /\ dropped = FALSE /\ killing = {} /\ around = {} /\ own = {} /\ walk = {}

Typing(cs) == \E c \in cs : SelfInsert(c)
Do ==
    \/ StartLine
    \/ AcceptLine
    \/ /\ work = "typing"
       /\ \/ Typing({"a", "w2", " "})
          \/ \E a \in Edits : Edit(a)
          \/ InsertText("TabInsert", <<" ">>) \/ Paste(<<"b", " ", "a">>)
          \/ \E byte \in {0, 1, 2} : ShellCommand(<<"w2", "a">>, byte)
    \/ /\ work = "killing"
       /\ \/ Typing({"a"}) \/ Paste(<<"a", "b", " ", "b", " ", "a">>)
          \/ \E a \in {"BackwardWord", "BackwardChar"} : Edit(a)
          \/ \E a \in Kills : Kill(a)
          \/ Yank \/ Interrupt \/ Abort
    \/ /\ work = "yanking"
       /\ \/ Typing({"b"}) \/ Paste(<<"a", " ", "b">>)
          \/ \E a \in {"UnixWordRubout", "KillLine"} : Kill(a)
          \/ \E a \in {"BackwardChar", "UndoCmd"} : Edit(a)
          \/ Yank \/ YankPop
          \/ \E a \in {"YankLastArg", "YankNthArg"} : yank_history_argument(a)
    \/ /\ work = "recall"
       /\ \/ Typing({"a", "b"}) \/ Edit("BackwardDeleteChar")
          \/ \E a \in Motions : Move(a)
          \/ \E a \in {"DeleteCharOrList", "Quit"} : DeleteCharOrList(a)
    \/ /\ work = "operate"
       /\ OperateAndGetNext \/ Move("PreviousHistory") \/ Interrupt
    \/ /\ work = "search"
       /\ \/ Typing({"b"})
          \/ \E r \in BOOLEAN : StartSearch(r) \/ SearchOn(r)
          \/ \E c \in {"a", "b"} : SearchFor(c)
          \/ SearchShorter \/ SearchCancel \/ SearchAccept \/ SearchOperate
    \/ /\ work = "complete"
       /\ \/ Typing({"a", " ", "w2"})
          \/ \E a \in {"BackwardChar", "UndoCmd"} : Edit(a)
          \/ Complete \/ InsertCompletions
          \/ \E back \in BOOLEAN : menu_complete(back)
    \/ /\ work = "vi"
       /\ \/ Paste(<<"a", " ", "b">>) \/ Edit("BackwardDeleteChar") \/ ViMovementMode \/ ViReset
          \/ \E d \in {0, 2} : ViDigit(d)
          \/ \E c \in ViMoves : ViMove(c)
          \/ \E c \in {"j", "k"} : ViHistory(c)
          \/ \E c \in {"i", "I", "a", "A"} : ViInsert(c)
          \/ \E p \in {"f", "F", "t", "T", "r"} : ViPending(p)
          \/ \E c \in {"a", " "} : ViFind(c) \/ ViReplace(c)
          \/ StartSearch(TRUE)
          \/ SearchCancel
    \/ /\ work = "vi cut"
       /\ \/ Paste(<<"a", "b", " ", "b">>) \/ ViMovementMode
          \/ ViDigit(2)
          \/ \E c \in {"b", "h", "u"} : ViMove(c)
          \/ \E p \in {"d", "c", "y"} : ViPending(p)
          \/ \E m \in {"h", "l", "0", "$", "w", "e", "b", "d", "c", "y", "x"} : ViAfterOperator(m)
          \/ \E c \in ViCuts : ViCut(c)
          \/ \E c \in {"p", "P"} : ViPut(c)
          \/ ViInsert("a")

\* What the user remembers.
Before(b) == SubSeq(b.chars, 1, b.point)
After(b) == SubSeq(b.chars, b.point + 1, Len(b.chars))
Remember ==
    LET a == ed'.last
        pressed == keys' # keys
        line == ed.b.chars
        leaves == ed.history_index = {} /\ ed'.history_index \notin {{}, {Len(history)}}
    IN  /\ dropped' = (ed.mode # "idle" /\
                          (dropped \/ /\ Len(ed.b.undo) = UNDO_MAX /\ Len(ed'.b.undo) = UNDO_MAX
                                      /\ ed'.b.undo # ed.b.undo))
        /\ killing' = IF ~pressed \/ a \notin Kills \ {"KillRegion"} \/ ed.mode # "edit" \/ ed'.mode # "edit"
                      THEN {}
                      ELSE IF ed.last \in Kills THEN killing
                      ELSE IF ed'.b.chars = line THEN {} ELSE {line}
        /\ around' = IF ~pressed \/ ed'.mode # "edit" THEN {}
                     ELSE IF a = "Yank" /\ ed.ring.entries # <<>> THEN {<<Before(ed.b), After(ed.b)>>}
                     ELSE IF a = "YankPop" /\ ed.last \in {"Yank", "YankPop"} THEN around
                     ELSE IF a \in {"MenuComplete", "MenuCompleteBackward"} /\ ed'.menu # {}
                     THEN IF ed.menu # {} THEN around
                          ELSE {<<SubSeq(line, 1, char_index_for_byte(ed.b, complete(ed.b).start)),
                                  After(ed.b)>>}
                     ELSE {}
        /\ own' = IF ed'.mode = "idle" THEN {} ELSE IF pressed /\ leaves /\ ed.mode = "edit" THEN {line} ELSE own
        /\ walk' = IF ~pressed THEN walk
                   ELSE IF a \in Motions THEN {}
                   ELSE IF ed'.mode # "idle" THEN walk
                   ELSE IF ed'.next_index = {} THEN {}
                   ELSE IF walk # {} THEN {[The(walk) EXCEPT !.at = @ + 1]}
                   ELSE IF ed.next_entries # {} THEN {}
                   ELSE {[entries |-> history, at |-> 1 + OrElse(ed.history_index, Len(history))]}
        /\ UNCHANGED work

NextSession == Do /\ Remember

----------------------------------------------------------------------------
\* The ranges the code slices the line with are in order and inside it, so that no
\* slice panics: the cursor, the states kept for undo and the word of the menu.
RangesInOrder ==
    /\ ed.b.point \in 0 .. Len(ed.b.chars)
    /\ \A i \in DOMAIN ed.b.undo : ed.b.undo[i].point \in 0 .. Len(ed.b.undo[i].chars)
    /\ \A m \in ed.menu : char_index_for_byte(ed.b, m.completion.start) <= ed.b.point
    /\ ed.ring.entries # <<>> => ed.ring.head < Len(ed.ring.entries)

\* Every change of the line can be undone: as long as the oldest state was not dropped,
\* undoing all there is gives back the empty line readline began with.  The commands
\* that join insertions into one group (snapshot_insert) never hide a change.
UndoReachesStart ==
    ed.mode \in {"edit", "search"} /\ ~dropped =>
        IF ed.b.undo = <<>> THEN ed.b.chars = <<>> ELSE Head(ed.b.undo).chars = <<>>

\* A run of kills followed by a yank gives back the line as it was: record_kill joins
\* what is killed before the cursor in front and what is killed after it behind.  Not
\* for kill-region, which is joined behind although it lies before the cursor, nor
\* when the first kill of the run is empty, which joins the next one to an older entry.
YankRestores ==
    [][ed.mode = "edit" /\ killing # {} /\ ed'.last = "Yank" =>
           ed'.b.chars \in killing]_sessionVars

\* Yank-pop and the completion menu replace what the command before put there, and
\* nothing else of the line, however often they are repeated.
InsertsInPlace ==
    \A p \in around :
        /\ Before(ed.b) = p[1] \o SubSeq(ed.b.chars, Len(p[1]) + 1, ed.b.point)
        /\ After(ed.b) = p[2]
        /\ SubSeq(ed.b.chars, Len(p[1]) + 1, ed.b.point) \in
               Range(ed.ring.entries) \cup Range(Vocabulary)

\* The line that was left for the history comes back at its end, by whatever commands
\* one moves there.  Only as it was when first left: what is typed on it after coming
\* back is not saved again.
OwnLineReturns ==
    /\ ed.mode = "edit" /\ ed'.mode = "edit"
    /\ ed.history_index \notin {{}, {Len(history)}} /\ ed'.history_index = {Len(history)}
    => own = {} \/ ed'.b.chars \in own

\* A run of operate-and-get-next offers the entries of the history one after the other
\* as they were at its start, although each line accepted is added to the history and
\* may push the oldest one out.  Not when a history motion comes in between: it counts
\* in the history as it is by then, and the entries kept are those of the start.
OperateWalks ==
    \A w \in walk :
        ed.mode = "edit" /\ ed.last = "OperateAndGetNext" =>
            ed.b.chars = IF w.at < Len(w.entries) THEN w.entries[w.at + 1] ELSE <<>>

\* The line and the entry the user counts on come back, however one walks through
\* the history and however the history moves meanwhile.
RecallReturns == [][OwnLineReturns /\ OperateWalks']_sessionVars

\* Commands change the part of the line they are about, and undo takes it all back.
EditsConfined == RangesInOrder /\ UndoReachesStart /\ InsertsInPlace

=============================================================================
