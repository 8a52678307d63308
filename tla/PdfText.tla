------------------------------- MODULE PdfText -------------------------------
(***************************************************************************)
(* extractTextAndPagesFromPDF of internal/handlers/media/pdf_processor.go: *)
(* the text that its regular expressions find in a content stream.  The    *)
(* stream is a sequence of tokens: the literal strings (...), each one      *)
(* token, the operators Tj and TJ, brackets and line ends; other white     *)
(* space matters to no expression.                                         *)
(***************************************************************************)
EXTENDS Integers, SequencesExt

CONSTANT Words              \* the texts of literal strings that are not blank

Blank       == ""
Placeholder == "Document"   \* the text of a PDF in which nothing is found
Punctuation == {"Tj", "TJ", "[", "]", "newline"}

ASSUME TextAssumption == Words \cap ({Blank, Placeholder} \cup Punctuation) = {}

Strings     == Words \cup {Blank}
IsString(t) == t \in Strings

\* \s*Tj, \s*TJ: the position after operator op, if it follows position i
\* with nothing but line ends in between.
AfterOp(s, i, op) ==
    {n + 1 : n \in {m \in i + 1 .. Len(s) :
                        s[m] = op /\ \A k \in i + 1 .. m - 1 : s[k] = "newline"}}

\* . matches no line end.
OneLine(s, i, j) == \A k \in i .. j : s[k] # "newline"

\* Mutant: .* instead of .*?: the longest match.
LastOf(S) == CHOOSE n \in S : \A m \in S : m <= n

\* .*? takes the shortest match.
FirstOf(S) == CHOOSE n \in S : \A m \in S : n <= m

\* Where a match of textObjRegex that starts with the string at i may end.
TextEnds(s, i) ==
    {j \in i .. Len(s) : IsString(s[i]) /\ IsString(s[j]) /\ OneLine(s, i, j)
                         /\ AfterOp(s, j, "Tj") # {}}

\* Where a match of textArrRegex that starts with the bracket at i may end.
ArrayEnds(s, i) ==
    {j \in i + 1 .. Len(s) : s[i] = "[" /\ s[j] = "]" /\ OneLine(s, i, j)
                             /\ AfterOp(s, j, "TJ") # {}}

\* The first loop: the captures of textObjRegex, leftmost first and without
\* overlap, unless they are blank.
Texts(s) ==
    LET from[i \in 1 .. Len(s) + 1] ==
            IF i > Len(s) THEN <<>>
            ELSE IF TextEnds(s, i) = {} THEN from[i + 1]
            ELSE LET j == FirstOf(TextEnds(s, i))
                     capture == SubSeq(s, i, j)
                 IN  (IF capture = <<Blank>> THEN <<>> ELSE <<capture>>)
                         \o from[FirstOf(AfterOp(s, j, "Tj"))]
    IN  from[1]

\* The second loop: textObjRegex again, inside each capture of textArrRegex.
ArrayTexts(s) ==
    LET from[i \in 1 .. Len(s) + 1] ==
            IF i > Len(s) THEN <<>>
            ELSE IF ArrayEnds(s, i) = {} THEN from[i + 1]
            ELSE LET j == FirstOf(ArrayEnds(s, i))
                 IN  Texts(SubSeq(s, i + 1, j - 1))
                         \o from[FirstOf(AfterOp(s, j, "TJ"))]
    IN  from[1]

\* Process puts the placeholder in the place of an empty text.
ExtractText(s) ==
    LET found == Texts(s) \o ArrayTexts(s)
    IN  IF found = <<>> THEN <<<<Placeholder>>>> ELSE found

-----------------------------------------------------------------------------
(* What a PDF says: a command shows one string (Tj) or an array (TJ), and  *)
(* may end its line.                                                       *)

Commands == [op : {"Tj"}, shows : {<<t>> : t \in Strings}, ends : BOOLEAN]
                \cup [op : {"TJ"}, shows : Seq(Strings), ends : BOOLEAN]

Written(c) ==
    (IF c.op = "Tj" THEN c.shows \o <<"Tj">> ELSE <<"[">> \o c.shows \o <<"]", "TJ">>)
        \o (IF c.ends THEN <<"newline">> ELSE <<>>)

Stream(commands) == FlattenSeq([i \in DOMAIN commands |-> Written(commands[i])])
=============================================================================
