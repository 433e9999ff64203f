----------------------------- MODULE MCLineEdit -----------------------------
(* The two halves of the line editor for TLC: the editor under the keys of *)
(* one kind of work, or the decoder under one input.                       *)
EXTENDS EditSession, InputDecoder

VARIABLE half

MCVocabulary == <<<<"a", "b">>, <<"a", "w2", "/">>, <<"b">>>>
MCHome == <<"/", "b">>
MCPieces == {<<"ESC">>, <<"[">>, <<"O">>, <<"A">>, <<"x">>, <<"2">>, <<"L2">>, <<"L3">>, <<"C">>, <<"^C">>,
             BRACKETED_PASTE_START, BRACKETED_PASTE_END, <<"ESC", "[", "2", "0">>, <<"1", "~">>}

NoInput == bytes = <<>> /\ decoder = new_decoder(FALSE) /\ events = <<>> /\ parts = <<<<>>>> /\ stage = "end"
NoKeys ==
    /\ ed = NewEditor /\ keys = 0 /\ work = "typing" /\ keymap = "emacs" /\ history = <<>>
    /\ dropped = FALSE /\ killing = {} /\ around = {} /\ own = {} /\ walk = {}

Init == \/ half = "editor" /\ InitSession /\ NoInput
        \/ half = "decoder" /\ InitDecoder /\ NoKeys

Next == \/ half = "editor" /\ NextSession /\ UNCHANGED <<decoderVars, half>>
        \/ half = "decoder" /\ NextDecoder /\ UNCHANGED <<sessionVars, half>>

Spec == Init /\ [][Next]_<<sessionVars, decoderVars, half>>
=============================================================================
