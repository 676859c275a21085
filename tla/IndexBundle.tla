----------------------------- MODULE IndexBundle -----------------------------
(***************************************************************************)
(* The index on disk (autopsy/store/chunks.py, autopsy/ingest.py): three   *)
(* files, chunks.jsonl, vectors.jsonl and meta.json, that an ingest writes *)
(* one after the other, in place, and a process that starts reads one      *)
(* after the other, each through a buffer, without a lock, a rename or a   *)
(* checksum.  The ingest may be stopped at any point; the next one reads   *)
(* what is there and keeps the vectors that it believes its own embedding  *)
(* model made.                                                             *)
(*                                                                         *)
(* A text is a sequence of pieces, <<line, k>> for the k-th of a line: a   *)
(* flush or a read may end behind any of them.  A line is a chunk, or a row*)
(* <<chunk, model its vector was made by>>; its first piece has the ids,   *)
(* and all but the first are parts of its text or of its vector.           *)
(***************************************************************************)
EXTENDS Integers, Sequences, FiniteSets, SequencesExt, Sorting, Chunking

CONSTANTS Chunk,        \* chunk ids, the hash of a chunk's place and text
          Corpus,       \* the states of the Markdown tree
          ChunksOf,     \* corpus -> its chunks, in order
          Model,        \* embedding models
          ChunkPieces,  \* of a chunk: how many pieces its line has
          RowPieces,    \* likewise, of a row
          MaxCrashes    \* a bound on the interrupted ingests

VectorRow == Chunk \X Model

ASSUME IndexBundleAssumption ==
  /\ ChunksOf \in [Corpus -> Seq(Chunk)]
  /\ \A c \in Corpus : ChunksOf[c] # <<>> /\ IsInjective(ChunksOf[c])
  /\ ChunkPieces \in [Chunk -> Nat \ {0}] /\ RowPieces \in [VectorRow -> Nat \ {0}]
  /\ {"none", "torn"} \cap Corpus = {}
  /\ MaxCrashes \in Nat

VARIABLES
  chunkFile,   \* is the file there, and the text in it
  vectorFile,  \* likewise
  metaFile,    \* [corpus, model], or Absent, or Torn
  pc,          \* where the ingest is
  build,       \* the corpus and the model of the ingest under way
  plan,        \* the vectors it will write, in order
  embedded,    \* the chunks among them that it had to embed
  last,        \* the build whose ingest was the last to end, unless one was cut since
  crashes,
  reader,      \* where a process that reads the index is
  seen,        \* what it has read: two texts and meta
  replaced     \* history: the files that an ingest emptied while it was inside them

disk   == <<chunkFile, vectorFile, metaFile>>
ingest == <<pc, build, plan, embedded, last, crashes>>
starts == <<reader, seen, replaced>>
vars   == <<disk, ingest, starts>>

Absent == [there |-> FALSE, text |-> <<>>]
None   == [corpus |-> "none", model |-> "none"]
Torn   == [corpus |-> "torn", model |-> "torn"]
Build  == [corpus : Corpus, model : Model]

-----------------------------------------------------------------------------
(* Texts, and what Index.read makes of them.                               *)

\* The text of some lines, given the number of pieces of each.
Contents(lines, pieces) ==
  LET upTo[n \in 0 .. Len(lines)] ==
        IF n = 0 THEN <<>>
        ELSE upTo[n - 1] \o [k \in 1 .. pieces[lines[n]] |-> <<lines[n], k>>]
  IN  upTo[Len(lines)]

\* What an ingest of a corpus writes to chunks.jsonl.
ChunkText(c) == Contents(ChunksOf[c], ChunkPieces)

Firsts(text) == {i \in DOMAIN text : text[i][2] = 1}

\* The lines that a reader of a text finds, told by their first pieces.
LinesOf(text) == {text[i][1] : i \in Firsts(text)}

ChunksIn(rows) == {r[1] : r \in rows}

\* Every line of the text is JSON: where one ends and only there the next begins.  A
\* line put together of the first pieces of one and the last of another is JSON too.
Parses(text, pieces) ==
  /\ \A i \in DOMAIN text :
       text[i][2] = 1 <=> i = 1 \/ text[i - 1][2] = pieces[text[i - 1][1]]
  /\ text # <<>> => text[Len(text)][2] = pieces[text[Len(text)][1]]

\* Each of its lines is of one content.
Intact(text) ==
  \A i \in DOMAIN text :
    text[i][2] # 1 => i > 1 /\ text[i - 1] = <<text[i][1], text[i][2] - 1>>

\* Slip: a chunk without a vector goes unnoticed.
UnreadableLines(chunks, vectors, meta) ==
  \/ meta \in {None, Torn}
  \/ ~Parses(chunks, ChunkPieces) \/ ~Parses(vectors, RowPieces)

\* A missing file (meta.json is there only if the others are), a line that is no JSON,
\* a chunk without a vector: each raises an exception that ingest catches and that
\* stops a process that starts.
Unreadable(chunks, vectors, meta) ==
  \/ meta \in {None, Torn}
  \/ ~Parses(chunks, ChunkPieces) \/ ~Parses(vectors, RowPieces)
  \/ ~(LinesOf(chunks) \subseteq ChunksIn(LinesOf(vectors)))

-----------------------------------------------------------------------------
(* ingest: read, build, write.                                             *)

\* Slip: whatever has a vector keeps it.
ReusableByChunk(model) ==
  IF Unreadable(chunkFile.text, vectorFile.text, metaFile) THEN {}
  ELSE LinesOf(vectorFile.text)

\* Slip: the model that ingest asks for is never the one that meta names.
ReusableNever(model) == {}

\* The rows of the index that is there, if it can be read and its meta names the
\* model that this ingest embeds with.
Reusable(model) ==
  IF Unreadable(chunkFile.text, vectorFile.text, metaFile) \/ metaFile.model # model
  THEN {} ELSE LinesOf(vectorFile.text)

\* The row of a chunk; a file has one for each of its chunks.
Row(rows, c) == CHOOSE r \in rows : r[1] = c

\* build_index fills one dict, in two passes over the chunks of the corpus: those that
\* have a vector come first, both groups in the order of the corpus.
KeptFirst(chunks, rows) ==
  LET kept(i) == chunks[i] \in ChunksIn(rows)
  IN  {p \in (DOMAIN chunks) \X (DOMAIN chunks) :
         \/ kept(p[1]) /\ ~kept(p[2])
         \/ (kept(p[1]) <=> kept(p[2])) /\ p[1] < p[2]}

\* A chunk that has a vector keeps it, any other is embedded.
VectorOf(b, rows, c) == IF c \in ChunksIn(rows) THEN Row(rows, c) ELSE <<c, b.model>>

\* Slip: the file keeps what was new and forgets what was reused.
VectorsEmbedded(b, rows) ==
  LET chunks == ChunksOf[b.corpus]
      order  == Sorted({i \in DOMAIN chunks : chunks[i] \notin ChunksIn(rows)},
                       KeptFirst(chunks, rows))
  IN  [i \in DOMAIN order |-> <<chunks[order[i]], b.model>>]

\* Slip: new vectors are tagged with the model of the index they join.
VectorsOfMeta(b, rows) ==
  LET chunks == ChunksOf[b.corpus]
      order  == Sorted(DOMAIN chunks, KeptFirst(chunks, rows))
  IN  [i \in DOMAIN order |-> VectorOf([b EXCEPT !.model = metaFile.model], rows,
                                       chunks[order[i]])]

\* The rows that an ingest of b writes, given the rows it may reuse.
Vectors(b, rows) ==
  LET chunks == ChunksOf[b.corpus]
      order  == Sorted(DOMAIN chunks, KeptFirst(chunks, rows))
  IN  [i \in DOMAIN order |-> VectorOf(b, rows, chunks[order[i]])]

\* One ingest at a time: nobody writes while it reads what is there.
Begin ==
  /\ pc = "idle"
  /\ build' \in Build
  /\ plan' = Vectors(build', Reusable(build'.model))
  /\ embedded' = ToSet(ChunksOf[build'.corpus]) \ ChunksIn(Reusable(build'.model))
  /\ pc' = "open_chunks"
  /\ UNCHANGED <<disk, last, crashes, starts>>

\* open(..., "w") truncates the file, also under a process that is inside it: one that
\* has read some of it goes on at the same offset in whatever is written next.
Opened == [there |-> TRUE, text |-> <<>>]

Truncate(name) ==
  replaced' = IF reader = name /\ seen[name] # <<>> THEN replaced \cup {name} ELSE replaced

\* What is on disk after the next flush of an open file.
Flushed(file, text) ==
  {[there |-> TRUE, text |-> SubSeq(text, 1, j)] : j \in Len(file.text) + 1 .. Len(text)}

OpenChunks ==
  /\ pc = "open_chunks"
  /\ pc' = "chunks"
  /\ chunkFile' = Opened
  /\ Truncate("chunks")
  /\ last' = None
  /\ UNCHANGED <<vectorFile, metaFile, build, plan, embedded, crashes, reader, seen>>

WriteChunks ==
  /\ pc = "chunks"
  /\ chunkFile' \in Flushed(chunkFile, ChunkText(build.corpus))
  /\ pc' = IF chunkFile'.text = ChunkText(build.corpus) THEN "open_vectors" ELSE "chunks"
  /\ UNCHANGED <<vectorFile, metaFile, build, plan, embedded, last, crashes, starts>>

OpenVectors ==
  /\ pc = "open_vectors"
  /\ pc' = "vectors"
  /\ vectorFile' = Opened
  /\ Truncate("vectors")
  /\ UNCHANGED <<chunkFile, metaFile, build, plan, embedded, last, crashes, reader, seen>>

\* What an ingest writes to vectors.jsonl.
RowText == Contents(plan, RowPieces)

WriteVectors ==
  /\ pc = "vectors"
  /\ vectorFile' \in Flushed(vectorFile, RowText)
  /\ pc' = IF vectorFile'.text = RowText THEN "open_meta" ELSE "vectors"
  /\ UNCHANGED <<chunkFile, metaFile, build, plan, embedded, last, crashes, starts>>

OpenMeta ==
  /\ pc = "open_meta"
  /\ pc' = "meta"
  /\ metaFile' = Torn
  /\ UNCHANGED <<chunkFile, vectorFile, build, plan, embedded, last, crashes, starts>>

\* What the ingest had in memory goes with its process.
Gone == build' = None /\ plan' = <<>> /\ embedded' = {}

WriteMeta ==
  /\ pc = "meta"
  /\ pc' = "idle"
  /\ metaFile' = build
  /\ last' = build
  /\ Gone
  /\ UNCHANGED <<chunkFile, vectorFile, crashes, starts>>

\* The ingest is stopped: the files stay as they are.
Crash ==
  /\ pc # "idle"
  /\ crashes < MaxCrashes
  /\ crashes' = crashes + 1
  /\ pc' = "idle"
  /\ Gone
  /\ UNCHANGED <<disk, last, starts>>

-----------------------------------------------------------------------------
(* A process that starts and reads the index, while the ingest goes on.    *)

Nothing == [chunks |-> <<>>, vectors |-> <<>>, meta |-> None]

\* Without a chunk file the start fails here.
OpenIndex ==
  /\ reader = "idle" /\ chunkFile.there
  /\ reader' = "chunks"
  /\ UNCHANGED <<disk, ingest, seen, replaced>>

\* A buffer is filled with some of what the file now holds beyond what was read.
More(text, file) ==
  {text \o SubSeq(file.text, Len(text) + 1, j) : j \in Len(text) + 1 .. Len(file.text)}

\* The read that finds no more ends the loop over the lines.
AtEnd(text, file) == Len(text) >= Len(file.text)

ReadChunks ==
  /\ reader = "chunks"
  /\ \E text \in More(seen.chunks, chunkFile) : seen' = [seen EXCEPT !.chunks = text]
  /\ UNCHANGED <<disk, ingest, reader, replaced>>

CloseChunks ==
  /\ reader = "chunks" /\ AtEnd(seen.chunks, chunkFile)
  /\ Parses(seen.chunks, ChunkPieces) /\ vectorFile.there
  /\ reader' = "vectors"
  /\ UNCHANGED <<disk, ingest, seen, replaced>>

ReadVectors ==
  /\ reader = "vectors"
  /\ \E text \in More(seen.vectors, vectorFile) : seen' = [seen EXCEPT !.vectors = text]
  /\ UNCHANGED <<disk, ingest, reader, replaced>>

CloseVectors ==
  /\ reader = "vectors" /\ AtEnd(seen.vectors, vectorFile)
  /\ Parses(seen.vectors, RowPieces)
  /\ reader' = "meta"
  /\ UNCHANGED <<disk, ingest, seen, replaced>>

\* read_text takes the file in one read.  The process serves what it has read.
ReadMeta ==
  /\ reader = "meta"
  /\ ~Unreadable(seen.chunks, seen.vectors, metaFile)
  /\ reader' = "loaded"
  /\ seen' = [seen EXCEPT !.meta = metaFile]
  /\ UNCHANGED <<disk, ingest, replaced>>

Ends == reader' = "idle" /\ seen' = Nothing /\ replaced' = {} /\ UNCHANGED <<disk, ingest>>

\* Index.read raises.  A line put together of two may be no JSON, or hold no id that is
\* one: it depends on where it was cut.
StartFails ==
  /\ \/ /\ reader = "chunks" /\ AtEnd(seen.chunks, chunkFile)
        /\ \/ ~Parses(seen.chunks, ChunkPieces) \/ ~Intact(seen.chunks)
           \/ ~vectorFile.there
     \/ /\ reader = "vectors" /\ AtEnd(seen.vectors, vectorFile)
        /\ ~Parses(seen.vectors, RowPieces) \/ ~Intact(seen.vectors)
     \/ reader = "meta" /\ Unreadable(seen.chunks, seen.vectors, metaFile)
  /\ Ends

Leave == reader = "loaded" /\ Ends

-----------------------------------------------------------------------------
Init ==
  /\ chunkFile = Absent /\ vectorFile = Absent /\ metaFile = None
  /\ pc = "idle" /\ build = None /\ plan = <<>> /\ embedded = {}
  /\ last = None /\ crashes = 0
  /\ reader = "idle" /\ seen = Nothing /\ replaced = {}

Next == \/ Begin \/ OpenChunks \/ WriteChunks \/ OpenVectors \/ WriteVectors
        \/ OpenMeta \/ WriteMeta \/ Crash
        \/ OpenIndex \/ ReadChunks \/ CloseChunks \/ ReadVectors \/ CloseVectors
        \/ ReadMeta \/ StartFails \/ Leave

Spec == Init /\ [][Next]_vars

-----------------------------------------------------------------------------
(* Properties.                                                             *)

Metas == Build \cup {None, Torn}
TextOf(lines) == Seq(lines \X (Nat \ {0}))
FileOf(lines) == [there : BOOLEAN, text : TextOf(lines)]

\* The types of the variables.
TypeOK ==
  /\ chunkFile \in FileOf(Chunk) /\ vectorFile \in FileOf(VectorRow) /\ metaFile \in Metas
  /\ pc \in {"idle", "open_chunks", "chunks", "open_vectors", "vectors", "open_meta", "meta"}
  /\ build \in Build \cup {None} /\ plan \in Seq(VectorRow) /\ embedded \subseteq Chunk
  /\ last \in Build \cup {None} /\ crashes \in 0 .. MaxCrashes
  /\ reader \in {"idle", "chunks", "vectors", "meta", "loaded"}
  /\ seen \in [chunks : TextOf(Chunk), vectors : TextOf(VectorRow), meta : Metas]
  /\ replaced \subseteq {"chunks", "vectors"}

\* However ingests were interrupted, and however the reads of a process and the flushes
\* of an ingest alternate (chunks.py:156-166, 216-224), an index that loads can be
\* searched: each of its chunks has a vector.  Unless an ingest emptied the file while
\* the process was inside it, its chunks are the first of one state of the corpus, never
\* a mixture of two, and no vector is put together of two.
LoadedCanBeSearched ==
  reader = "loaded" =>
    /\ LinesOf(seen.chunks) \subseteq ChunksIn(LinesOf(seen.vectors))
    /\ "chunks" \notin replaced => \E c \in Corpus : IsPrefix(seen.chunks, ChunkText(c))
    /\ "vectors" \notin replaced => Intact(seen.vectors)

\* An ingest that ends leaves a whole index, whatever was on disk when it began
\* (ingest.py:156-163): every chunk of its corpus, one vector for each, its meta.
EndedIngestIsWhole ==
  last # None =>
    /\ ~Unreadable(chunkFile.text, vectorFile.text, metaFile)
    /\ chunkFile.text = ChunkText(last.corpus)
    /\ Cardinality(Firsts(vectorFile.text)) = Len(ChunksOf[last.corpus])
    /\ metaFile = last

\* As long as no ingest was interrupted, the vectors of an index are by the model its
\* meta names, also when they were reused over several ingests and two models
\* (ingest.py:72-82).
VectorsAreByTheirModel ==
  last # None /\ crashes = 0 =>
    \A r \in LinesOf(vectorFile.text) : r[2] = last.model

\* "re-running ingest over an unchanged corpus ... reuses every existing embedding"
\* (ingest.py:3-5).
ReusesEverything ==
  [][pc = "idle" /\ pc' = "open_chunks" /\ build' = last => embedded' = {}]_vars

\* The chunks an ingest writes (ingest.py:42), however headings, fences of both kinds
\* and blank lines alternate: no line of the text is lost, they follow the document, a
\* fenced block is whole in one of them, and the size cap is kept where that allows it
\* (rules 1 and 2 of chunking.py).  It is about documents, not states, and evaluated
\* in the initial state alone.
ChunksAreExact == Init => AllExact

\* "The model the vectors were actually built with, not the one the config requested"
\* (pipeline.py:232-233): the model that meta names, which every trace reports.
MetaNamesTheModel ==
  last # None => \A r \in LinesOf(vectorFile.text) : r[2] = metaFile.model

\* "re-running ingest over an unchanged corpus ... writes the same bytes"
\* (ingest.py:3-5).
WritesTheSameBytes ==
  [][pc = "idle" /\ pc' = "open_chunks" /\ build' = last => RowText' = vectorFile.text]_vars
=============================================================================
