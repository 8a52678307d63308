--------------------------- MODULE MCMediaProcessors ---------------------------
\* TLC instances of MediaProcessors: images of all sizes up to MaxSide, and PDFs
\* of up to MaxCommands commands.
EXTENDS MediaProcessors

CONSTANTS a, b, MaxCommands

MCWords == {a, b}

MCCommands ==
    [op : {"Tj"}, shows : {<<t>> : t \in MCWords \cup {Blank}}, ends : BOOLEAN]
        \cup [op : {"TJ"}, shows : {<<>>, <<a>>, <<Blank, b>>}, ends : BOOLEAN]

MCDocuments == UNION {[1 .. n -> MCCommands] : n \in 0 .. MaxCommands}
=============================================================================
