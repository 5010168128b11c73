----------------------------- MODULE ParseLine -----------------------------
(***************************************************************************)
(* How the shell reads a command line: fgets in main and parseline of      *)
(* lab05_shell/tsh.c, on lines a user writes word by word.                 *)
(***************************************************************************)
EXTENDS Integers, SequencesExt

CONSTANTS
    Vocabulary,    \* the words a user may mean, sequences of characters
    MAXLINE, MAXARGS,
    MaxWords       \* bound: words on a line

ASSUME LineAssumption ==
    /\ MAXLINE \in Nat \ {0, 1} /\ MAXARGS \in Nat \ {0} /\ MaxWords \in Nat
    /\ \A w \in Vocabulary : w \in Seq({"a", "&", " "})

VARIABLES
    typed,         \* the characters typed so far
    meant,         \* the words they stand for
    open,          \* a quote was opened and not closed: the rest is one word
    status         \* typing, entered

parseVars == <<typed, meant, open, status>>

ParseInit == typed = <<>> /\ meant = <<>> /\ open = FALSE /\ status = "typing"

\* A word is written plain when it may be, or in quotes, after some spaces.
Plain(w) == w # <<>> /\ " " \notin Range(w)
Spaces(n) == [i \in 1 .. n |-> " "]
Forms(w) == {<<"'">> \o w \o <<"'">>} \cup (IF Plain(w) THEN {w} ELSE {})
Word1(w) ==
    /\ status = "typing" /\ ~open /\ Len(meant) < MaxWords /\ meant' = Append(meant, w)
    /\ \E form \in Forms(w), n \in (IF meant = <<>> THEN {0, 1} ELSE {1, 2}) :
           typed' = typed \o Spaces(n) \o form
    /\ UNCHANGED <<open, status>>

\* A quote that is never closed.
OpenQuote(w) ==
    /\ status = "typing" /\ ~open /\ open' = TRUE
    /\ typed' = typed \o <<" ", "'">> \o w /\ UNCHANGED <<meant, status>>

Enter ==
    /\ status = "typing" /\ status' = "entered"
    /\ \E n \in {0, 1} : typed' = typed \o Spaces(n) \o <<"\n">>
    /\ UNCHANGED <<meant, open>>

ParseNext == (\E w \in Vocabulary : Word1(w) \/ OpenQuote(w)) \/ Enter

(***************************************************************************)
(* The code                                                                *)
(***************************************************************************)

\* fgets: the first MAXLINE - 1 characters at most.
cmdline == SubSeq(typed, 1, Min({Len(typed), MAXLINE - 1}))

SkipSpaces(s) ==
    LET rest == {i \in DOMAIN s : s[i] # " "}
    IN  IF rest = {} THEN <<>> ELSE SubSeq(s, Min(rest), Len(s))
strchr(s, c) == LET at == {i \in DOMAIN s : s[i] = c} IN IF at = {} THEN 0 ELSE Min(at)

\* Mutated: a quoted argument ends at the next space.
DelimSpace(s, quoted) == strchr(s, " ")

Delim(s, quoted) == strchr(s, IF quoted THEN "'" ELSE " ")

\* The loop of parseline: from what is left of the line, the arguments.
RECURSIVE Arguments(_)
Arguments(left) ==
    LET word == SkipSpaces(left)
        quoted == word # <<>> /\ word[1] = "'"
        buf == IF quoted THEN Tail(word) ELSE word
        delim == Delim(buf, quoted)
    IN  IF delim = 0 THEN <<>>
        ELSE <<SubSeq(buf, 1, delim - 1)>> \o Arguments(SubSeq(buf, delim + 1, Len(buf)))

\* parseline: the last character, a newline as a rule, becomes a space.  A
\* last argument that begins with & is dropped.
parseline ==
    LET args == Arguments([cmdline EXCEPT ![Len(cmdline)] = " "])
        last == IF args = <<>> THEN <<>> ELSE args[Len(args)]
        bg == args = <<>> \/ (last # <<>> /\ last[1] = "&")
    IN  [argv |-> IF bg /\ args # <<>> THEN Front(args) ELSE args, bg |-> bg,
         overflow |-> Len(args) >= MAXARGS]

(***************************************************************************)
(* Properties                                                              *)
(***************************************************************************)

\* The shell runs the words that were meant, in the background if the last
\* begins with & (quoted or not, alone or not: that word is dropped), and
\* what follows a quote that is not closed is left out.  Two limits break
\* this: a line of MAXLINE or more is cut and loses the character before the
\* cut, and argv holds MAXARGS - 1 words, which parseline does not check.
ParsesAsMeant ==
    LET bg == meant = <<>> \/ (Last(meant) # <<>> /\ Last(meant)[1] = "&")
        p == parseline
    IN  status = "entered" /\ Len(typed) < MAXLINE =>
            /\ p.bg = bg
            /\ p.argv = IF bg /\ meant # <<>> THEN Front(meant) ELSE meant
            /\ p.overflow <=> Len(meant) >= MAXARGS
=============================================================================
