---------------------------- MODULE MediaProcessors ----------------------------
(***************************************************************************)
(* What the two processors of internal/handlers/media make of an upload:   *)
(* three sizes of an image, text and cover of a PDF, in the order in which *)
(* Process saves them.  When a save fails, or the worker dies, it ends      *)
(* before: WorkerService has that.                                         *)
(***************************************************************************)
EXTENDS ImageResize, PdfText

CONSTANTS ThumbMax,         \* 300 in the code
          MediumMax,        \* 1024 in the code
          MaxSide,          \* bound of the model: the longest side of an image
          Documents         \* the PDFs: sequences of commands

ASSUME ProcessorsAssumption ==
    /\ ThumbMax \in Nat \ {0} /\ MediumMax \in Nat /\ ThumbMax < MediumMax
    /\ MaxSide \in Nat
    /\ Documents \subseteq Seq(Commands)

VARIABLES
    upload,                 \* the size of an image or the commands of a PDF
    isImage,                \* which of the two
    made                    \* the artifacts saved so far

vars == <<upload, isImage, made>>

Sizes == (1 .. MaxSide) \X (1 .. MaxSide)

Init ==
    /\ isImage \in BOOLEAN
    /\ upload \in IF isImage THEN Sizes ELSE Documents
    /\ made = <<>>

Save(artifact) ==
    /\ made' = Append(made, artifact)
    /\ UNCHANGED <<upload, isImage>>

SaveThumbnail ==
    isImage /\ made = <<>> /\ \E size \in resizeMax(upload, ThumbMax) : Save(size)

SaveMedium ==
    isImage /\ Len(made) = 1 /\ \E size \in resizeMax(upload, MediumMax) : Save(size)

\* Mutant: the optimized image is scaled down from the upload once more.
SaveSmallest ==
    isImage /\ Len(made) = 2 /\ \E size \in resizeMax(made[2], ThumbMax) : Save(size)

\* The medium image, encoded again.
SaveOptimized == isImage /\ Len(made) = 2 /\ Save(made[2])

SaveText == ~isImage /\ made = <<>> /\ Save(ExtractText(Stream(upload)))

\* The cover shows the first lines of the text.
SaveCover == ~isImage /\ Len(made) = 1 /\ Save(<<"cover", made[1]>>)

Next == SaveThumbnail \/ SaveMedium \/ SaveOptimized \/ SaveText \/ SaveCover

Spec == Init /\ [][Next]_vars
-----------------------------------------------------------------------------
\* The box that artifact i of an image must fit.
BoxOf(i) == IF i = 1 THEN ThumbMax ELSE MediumMax

\* However extreme its aspect ratio, every variant of an image has at least one
\* pixel a side, fits its box and is no larger than the upload.
FitsTheBox ==
    isImage => \A i \in DOMAIN made, side \in {1, 2} :
        /\ made[i][side] \in 1 .. BoxOf(i)
        /\ made[i][side] <= upload[side]

\* Its aspect ratio is that of the upload, up to one pixel a side.
KeepsAspect ==
    isImage => \A i \in DOMAIN made :
        LET skew == made[i][1] * upload[2] - made[i][2] * upload[1]
        IN  skew <= upload[1] + upload[2] /\ -skew <= upload[1] + upload[2]

\* The variants are ordered by size, although each is rounded by itself.
VariantsNest ==
    isImage => \A i, k \in DOMAIN made, side \in {1, 2} :
        i <= k => made[i][side] <= made[k][side]

\* Every pixel of a scaled image comes from a pixel of the upload, and the
\* sampling walks all over it: the last pixel from the last part.
SamplesSpread ==
    isImage => \A i \in DOMAIN made, side \in {1, 2} :
        made[i] # upload =>
            \A x \in 0 .. made[i][side] - 1 :
                \A n \in Samples(x, upload[side], upload, BoxOf(i)) :
                    /\ n \in 0 .. upload[side] - 1
                    /\ (upload[side] - n) * BoxOf(i) <=
                           (made[i][side] - x + 2) * Longest(upload)

\* The strings that Tj commands show, if not blank, in order.
Shown(commands) ==
    FlattenSeq([i \in DOMAIN commands |->
                   IF commands[i].op = "Tj" /\ commands[i].shows # <<Blank>>
                   THEN commands[i].shows ELSE <<>>])

\* If arrays end their lines, the text of a PDF is what its Tj commands show, in
\* order, each string once and none of the syntax between them.
TextInOrder ==
    ~isImage /\ made # <<>>
    /\ (\A i \in DOMAIN upload : upload[i].op = "TJ" => upload[i].ends)
        => LET shown == Shown(upload)
           IN  made[1] = IF shown = <<>> THEN <<<<Placeholder>>>>
                         ELSE [i \in DOMAIN shown |-> <<shown[i]>>]

\* What a TJ command shows is extracted as well.
ArraysAreExtracted ==
    ~isImage /\ made # <<>> =>
        \A i \in DOMAIN upload : upload[i].op = "TJ" =>
            \A k \in DOMAIN upload[i].shows :
                upload[i].shows[k] = Blank
                \/ \E n \in DOMAIN made[1] : made[1][n] = <<upload[i].shows[k]>>
=============================================================================
