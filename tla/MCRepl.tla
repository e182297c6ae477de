------------------------------- MODULE MCRepl -------------------------------
(* The serial REPL with buffers of a few characters: see MCRepl.cfg.       *)
EXTENDS Repl

MCKey == {"(", ")", "exit", "cr", "bs"}

\* Cancelled, white space, a form, a form the C code would not take for whole
\* (it has an open bracket too many, as after a character literal), and one that
\* does not fit.
MCEditorTexts ==
  {<<>>, <<Newline>>, <<"exit", Newline>>, <<"(", Newline>>, <<"(", "exit", ")", Newline>>}
=============================================================================
