------------------------------- MODULE CmdLine -------------------------------
(***************************************************************************)
(* parseCommandLine of src/cmd/cli/console.go: the console splits the line *)
(* the user typed into the command name and its arguments.                 *)
(*                                                                         *)
(* The loop over the bytes of the line is a left fold of Step over the     *)
(* line, a sequence of one-character strings; the loop's variables are     *)
(* the fields of the fold's state.  The result is the argument list, or   *)
(* Unclosed for the "Unclosed quote" error.                                *)
(***************************************************************************)
EXTENDS Sequences, SequencesExt

CONSTANTS
    Letters,    \* ordinary characters
    MaxLen      \* longest line

ASSUME CmdLineAssumption ==
    /\ MaxLen \in Nat
    /\ Letters \cap {" ", "\t", "\"", "'", "\\"} = {}

Blanks == {" ", "\t"}
Quotes == {"\"", "'"}
Chars == Letters \cup Blanks \cup Quotes \cup {"\\"}

Unclosed == "unclosed"

(* The loop's variables before the first byte; escapeNext starts TRUE.     *)
Start == [state |-> "start", current |-> "", quote |-> "\"",
          escapeNext |-> TRUE, args |-> <<>>]

(* Mutant: a blank after an argument does not end it.                      *)
StepNoSplit(st, c) ==
    IF st.state = "quotes"
    THEN IF c # st.quote
         THEN [st EXCEPT !.current = @ \o c]
         ELSE [st EXCEPT !.args = Append(@, st.current), !.current = "",
                         !.state = "start"]
    ELSE IF st.escapeNext
    THEN [st EXCEPT !.current = @ \o c, !.escapeNext = FALSE]
    ELSE IF c = "\\"
    THEN [st EXCEPT !.escapeNext = TRUE]
    ELSE IF c \in Quotes
    THEN [st EXCEPT !.state = "quotes", !.quote = c]
    ELSE IF st.state = "arg"
    THEN IF c \in Blanks
         THEN [st EXCEPT !.state = "start"]
         ELSE [st EXCEPT !.current = @ \o c]
    ELSE IF c \notin Blanks
    THEN [st EXCEPT !.state = "arg", !.current = @ \o c]
    ELSE st

(* One iteration of the loop on byte c, its early continues in order.      *)
Step(st, c) ==
    IF st.state = "quotes"
    THEN IF c # st.quote
         THEN [st EXCEPT !.current = @ \o c]
         ELSE [st EXCEPT !.args = Append(@, st.current), !.current = "",
                         !.state = "start"]
    ELSE IF st.escapeNext
    THEN [st EXCEPT !.current = @ \o c, !.escapeNext = FALSE]
    ELSE IF c = "\\"
    THEN [st EXCEPT !.escapeNext = TRUE]
    ELSE IF c \in Quotes
    THEN [st EXCEPT !.state = "quotes", !.quote = c]
    ELSE IF st.state = "arg"
    THEN IF c \in Blanks
         THEN [st EXCEPT !.args = Append(@, st.current), !.current = "",
                         !.state = "start"]
         ELSE [st EXCEPT !.current = @ \o c]
    ELSE IF c \notin Blanks
    THEN [st EXCEPT !.state = "arg", !.current = @ \o c]
    ELSE st

(* parseCommandLine(command): the error for an open quote, else the      *)
(* arguments with the last one appended when it is not empty.             *)
ParseCommandLine(line) ==
    LET st == FoldLeft(Step, Start, line) IN
    IF st.state = "quotes" THEN Unclosed
    ELSE IF st.current # "" THEN Append(st.args, st.current)
    ELSE st.args

VARIABLE line      \* the line liner.Prompt returned

Init == line \in SeqOf(Chars, MaxLen)

Next == UNCHANGED line

Spec == Init /\ [][Next]_line

-----------------------------------------------------------------------------
(* The reference splitter: the maximal runs of non-blank characters of a  *)
(* line, in order, as strings.                                             *)
Concat(s) == FoldLeft(LAMBDA acc, c : acc \o c, "", s)
WordStarts(s) ==
    {i \in 1..Len(s) : s[i] \notin Blanks /\ (i = 1 \/ s[i-1] \in Blanks)}
WordEnd(s, i) ==
    CHOOSE j \in i..Len(s) : /\ \A k \in i..j : s[k] \notin Blanks
                            /\ (j = Len(s) \/ s[j+1] \in Blanks)
Words(s) ==
    LET starts == SetToSortSeq(WordStarts(s), <)
    IN  [k \in 1..Len(starts) |->
            Concat(SubSeq(s, starts[k], WordEnd(s, starts[k])))]

(* A command whose name has at least two letters, followed by plain        *)
(* arguments, is split at every run of blanks into exactly its words:      *)
(* "sendtx  -to x" gives "sendtx", "-to", "x" however many blanks separate *)
(* them.  (A shorter name, or a leading blank, is split otherwise: Start  *)
(* copies the first character literally.)                                  *)
PlainWordsSplit ==
    (/\ \A i \in 1..Len(line) : line[i] \in Letters \cup Blanks
     /\ Len(line) >= 2 /\ line[1] \in Letters /\ line[2] \in Letters)
        => ParseCommandLine(line) = Words(line)

=============================================================================
