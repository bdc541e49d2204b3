------------------------------ MODULE MCCmdLine ------------------------------
(* parseCommandLine on every line of at most 4 characters over one letter, *)
(* the blanks, the quotes and the backslash.                                *)
EXTENDS CmdLine

MCLetters == {"a"}

(* Two letters, so that merged words differ from split ones.               *)
MCLettersAB == {"a", "b"}

=============================================================================
