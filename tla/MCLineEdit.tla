----------------------------- MODULE MCLineEdit -----------------------------
(* The line editor on a terminal of a few cells: see MCLineEdit.cfg.       *)
EXTENDS LineEdit

MCPrompt == <<">">>
MCContinuation == <<".", ".">>
MCFirstHistory == << <<"(", "a", ")">> >>
MCOtherLines == {<<"a">>}
MCParamLists == {<<Nil>>}
=============================================================================
