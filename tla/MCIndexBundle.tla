---------------------------- MODULE MCIndexBundle ----------------------------
(***************************************************************************)
(* Two states of a corpus, the second with a section put before that of    *)
(* the first, and two embedding models, the second with short vectors.     *)
(* Documents are made of up to six lines of six kinds: a text as long as   *)
(* half a chunk, a blank line, headings of two levels, fences of two marks.*)
(***************************************************************************)
EXTENDS IndexBundle

MCChunksOf == [c \in {"old", "new"} |-> IF c = "old" THEN <<1>> ELSE <<2, 1>>]

\* Within its first line, the one text goes on where the other cuts its own.
MCChunkPieces == <<2, 2>>
MCRowPieces == [r \in VectorRow |-> IF r[2] = "bge" THEN 2 ELSE 1]

Line(kind, mark, chars) == [kind |-> kind, mark |-> mark, chars |-> chars]

MCLineKind == {Line("text", 0, 16), Line("blank", 0, 0)}
                \cup {Line("heading", n, 4) : n \in 1 .. 2}
                \cup {Line("fence", n, 3) : n \in 1 .. 2}
=============================================================================
