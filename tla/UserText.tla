------------------------------ MODULE UserText ------------------------------
(***************************************************************************)
(* shell_escape of src/application/provisioning.rs: the values that        *)
(* generate_user_data writes in the droplet's boot script, against what a  *)
(* POSIX shell reads back.  Which text a request brings changes nothing    *)
(* else about it, so the texts are not part of its state: where a request  *)
(* converts one, the property looks at all of them.                        *)
(*                                                                         *)
(* A text is a sequence of characters, one of each kind the conversion and *)
(* the shell tell apart.                                                   *)
(***************************************************************************)
EXTENDS Provisioning, SequencesExt

CONSTANT MaxLength   \* bound: the texts considered

ASSUME TextAssumption == MaxLength \in Nat

\* A letter, digit, hyphen or underscore; a space; the two quotes; a character the shell
\* expands between double quotes; any other.
Characters == {"a", " ", "'", "dquote", "$", "other"}

Texts == BoundedSeq(Characters, MaxLength)

----------------------------------------------------------------------------
(* shell_escape                                                             *)

\* Mutation: the quotes inside are left as they are.
OnlyQuoted(value) == <<"'">> \o value \o <<"'">>
\* The replacement of ' by '"'"' in a text between single quotes.
Replacement(c) == IF c = "'" THEN <<"'", "dquote", "'", "dquote", "'">> ELSE <<c>>

\* What becomes of the first i characters of value, for each i.
Escaped(value) ==
    LET upTo[i \in 0 .. Len(value)] ==
            IF i = 0 THEN <<>> ELSE upTo[i - 1] \o Replacement(value[i])
    IN  upTo

ShellEscaped(value) == <<"'">> \o Escaped(value)[Len(value)] \o <<"'">>

\* What the shell makes of a word: the mode it is in after each character, what it has
\* read, and whether the word goes on and nothing in it is expanded.
ShellStart == [mode |-> "bare", read |-> <<>>, literal |-> TRUE]

ShellRead(state, c) ==
    CASE state.mode = "bare" /\ c = "'" -> [state EXCEPT !.mode = "single"]
      [] state.mode = "bare" /\ c = "dquote" -> [state EXCEPT !.mode = "double"]
      [] state.mode = "single" /\ c = "'" -> [state EXCEPT !.mode = "bare"]
      [] state.mode = "double" /\ c = "dquote" -> [state EXCEPT !.mode = "bare"]
      [] \/ state.mode = "bare" /\ c \in {" ", "$", "other"}
         \/ state.mode = "double" /\ c = "$" -> [state EXCEPT !.literal = FALSE]
      [] OTHER -> [state EXCEPT !.read = Append(@, c)]

\* The shell after i characters of s.
Shell(s) ==
    LET after[i \in 0 .. Len(s)] ==
            IF i = 0 THEN ShellStart ELSE ShellRead(after[i - 1], s[i])
    IN  after

ShellWord(s) == Shell(s)[Len(s)]

----------------------------------------------------------------------------

QuotedAsGiven ==
    \A text \in Texts :
        LET word == ShellWord(ShellEscaped(text))
        IN  word.mode = "bare" /\ word.literal /\ word.read = text

\* A droplet that a request is about to create reads every value of its boot script as
\* it was given, as one word, with nothing in it expanded.
ShellReadsBack == \A p \in Handlers : req[p].pc = "create_droplet" => QuotedAsGiven
=============================================================================
