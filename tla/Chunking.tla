------------------------------ MODULE Chunking -------------------------------
(***************************************************************************)
(* How a Markdown document becomes chunks (autopsy/chunking.py).  Pure:    *)
(* each loop of the code is a function from the number of its rounds to    *)
(* the values of its variables.                                            *)
(*                                                                         *)
(* A line is its place in the document, what the chunker takes it for and  *)
(* its length; a text is a sequence of lines.  The place 0 is that of the  *)
(* empty line that joins two texts.                                        *)
(***************************************************************************)
EXTENDS Integers, Sequences, FiniteSetsExt

CONSTANTS TargetTokens,  \* TARGET_TOKENS, 800 in the code
          MinTokens,     \* MIN_TOKENS, 30 in the code
          LineKind,      \* bound: the lines a document is made of
          MaxLines       \* bound: how many

\* mark is the marker of a fence or the level of a heading, 0 of any other line.
ASSUME ChunkingAssumption ==
  /\ TargetTokens \in Nat \ {0} /\ MinTokens \in Nat /\ MaxLines \in Nat
  /\ LineKind \subseteq [kind : {"text", "blank", "heading", "fence"}, mark : Nat,
                         chars : Nat]

Blank == [at |-> 0, kind |-> "blank", mark |-> 0, chars |-> 0]

Document(kinds) ==
  [i \in DOMAIN kinds |-> [at |-> i, kind |-> kinds[i].kind, mark |-> kinds[i].mark,
                           chars |-> kinds[i].chars]]

-----------------------------------------------------------------------------
Total(numbers) ==
  LET sum[i \in 0 .. Len(numbers)] == IF i = 0 THEN 0 ELSE sum[i - 1] + numbers[i]
  IN  sum[Len(numbers)]

\* estimate_tokens of some lines, with a newline between any two.
Tokens(text) ==
  Max({1, (Total([i \in DOMAIN text |-> text[i].chars]) + Len(text) - 1) \div 4})

\* Two texts with an empty line between them.
Joined(text, more) == IF text = <<>> THEN more ELSE text \o <<Blank>> \o more

Stripped(text) ==
  LET full == {i \in DOMAIN text : text[i].kind # "blank"}
  IN  IF full = {} THEN <<>> ELSE SubSeq(text, Min(full), Max(full))

\* The fence that is open after a line: a fence is closed by its own marker only.
FenceAfter(fence, line) ==
  IF line.kind # "fence" THEN fence
  ELSE IF fence = 0 THEN line.mark
  ELSE IF fence = line.mark THEN 0
  ELSE fence

\* in_fence and fence_marker of both loops over lines.
Fences(text) ==
  LET fence[i \in 0 .. Len(text)] == IF i = 0 THEN 0 ELSE FenceAfter(fence[i - 1], text[i])
  IN  fence

Outside(text, i) == Fences(text)[i - 1] = 0

-----------------------------------------------------------------------------
\* flush, and the filter of the sections with a body.
Flush(acc) ==
  IF Stripped(acc.buf) = <<>> THEN acc.sections
  ELSE Append(acc.sections, [path |-> acc.path, body |-> Stripped(acc.buf)])

\* The headings above one: those of its level and below leave the stack.
Above(path, heading) ==
  SubSeq(path, 1, Max({0} \cup {i \in DOMAIN path : path[i].mark < heading.mark}))

\* A heading inside a fence is a line like any other.
ReadLine(acc, line, outside) ==
  IF line.kind = "heading" /\ outside
  THEN [sections |-> Flush(acc), buf |-> <<>>, path |-> Append(Above(acc.path, line), line)]
  ELSE [acc EXCEPT !.buf = Append(@, line)]

Read(doc) ==
  LET read[i \in 0 .. Len(doc)] ==
        IF i = 0 THEN [sections |-> <<>>, buf |-> <<>>, path |-> <<>>]
        ELSE ReadLine(read[i - 1], doc[i], Outside(doc, i))
  IN  read

SplitSections(doc) == Flush(Read(doc)[Len(doc)])

-----------------------------------------------------------------------------
\* Slip: every blank line ends a block.
BlockLineAnywhere(acc, line, outside) ==
  IF line.kind = "blank"
  THEN [blocks |-> IF acc.current = <<>> THEN acc.blocks ELSE Append(acc.blocks, acc.current),
        current |-> <<>>]
  ELSE [acc EXCEPT !.current = Append(@, line)]

\* A blank line ends a block, but not inside a fence.
BlockLine(acc, line, outside) ==
  IF line.kind = "blank" /\ outside
  THEN [blocks |-> IF acc.current = <<>> THEN acc.blocks ELSE Append(acc.blocks, acc.current),
        current |-> <<>>]
  ELSE [acc EXCEPT !.current = Append(@, line)]

Gather(body) ==
  LET gather[i \in 0 .. Len(body)] ==
        IF i = 0 THEN [blocks |-> <<>>, current |-> <<>>]
        ELSE BlockLine(gather[i - 1], body[i], Outside(body, i))
  IN  gather

Blocks(body) ==
  LET read == Gather(body)[Len(body)]
  IN  IF read.current = <<>> THEN read.blocks ELSE Append(read.blocks, read.current)

SizeOf(blocks) == Total([i \in DOMAIN blocks |-> Tokens(blocks[i])])

\* The last blocks of a chunk that the next one repeats: as many as fit.
Overlapping(blocks, overlap) ==
  LET from == Min({i \in 1 .. Len(blocks) + 1 :
                     SizeOf(SubSeq(blocks, i, Len(blocks))) <= overlap})
  IN  SubSeq(blocks, from, Len(blocks))

\* Blocks are packed up to the target; one that is larger is packed all the same.
PackBlock(acc, block, target, overlap) ==
  IF acc.buf # <<>> /\ SizeOf(acc.buf) + Tokens(block) > target
  THEN [out |-> Append(acc.out, acc.buf),
        buf |-> Append(Overlapping(acc.buf, overlap), block)]
  ELSE [acc EXCEPT !.buf = Append(@, block)]

Pack(blocks, target, overlap) ==
  LET pack[i \in 0 .. Len(blocks)] ==
        IF i = 0 THEN [out |-> <<>>, buf |-> <<>>]
        ELSE PackBlock(pack[i - 1], blocks[i], target, overlap)
  IN  pack

\* The blocks of each chunk.
Packed(blocks, target, overlap) ==
  LET read == Pack(blocks, target, overlap)[Len(blocks)]
  IN  IF read.buf = <<>> THEN read.out ELSE Append(read.out, read.buf)

\* "\n\n".join(buf), for the first blocks.
JoinedBlocks(blocks) ==
  LET text[i \in 0 .. Len(blocks)] ==
        IF i = 0 THEN <<>> ELSE Joined(text[i - 1], blocks[i])
  IN  text

\* _fence_safe_split, of a body with text: it has a block, and a part is never empty.
FenceSafeSplit(body, target, overlap) ==
  LET parts == Packed(Blocks(body), target, overlap)
  IN  [i \in DOMAIN parts |-> JoinedBlocks(parts[i])[Len(parts[i])]]

-----------------------------------------------------------------------------
\* A section too small to stand alone goes into the next one, ...
MergeSection(acc, sec) ==
  LET body == Joined(acc.carry, sec.body)
  IN  IF Tokens(body) < MinTokens
      THEN [acc EXCEPT !.carry = body, !.path = sec.path]
      ELSE [acc EXCEPT !.carry = <<>>,
                       !.merged = Append(@, [path |-> sec.path, body |-> body])]

Merge(sections) ==
  LET merge[i \in 0 .. Len(sections)] ==
        IF i = 0 THEN [merged |-> <<>>, carry |-> <<>>, path |-> <<>>]
        ELSE MergeSection(merge[i - 1], sections[i])
  IN  merge

\* ... the last one into the one before it.
MergeSmall(sections) ==
  LET read == Merge(sections)[Len(sections)]
      n    == Len(read.merged)
  IN  IF read.carry = <<>> THEN read.merged
      ELSE IF n = 0 THEN <<[path |-> read.path, body |-> read.carry]>>
      ELSE [read.merged EXCEPT ![n].body = Joined(@, read.carry)]

Overlap == (TargetTokens * 15) \div 100

PiecesOf(sec) ==
  LET parts == FenceSafeSplit(sec.body, TargetTokens, Overlap)
  IN  [i \in DOMAIN parts |-> [path |-> sec.path, text |-> Stripped(parts[i])]]

\* The pieces of the first sections.
Cut(sections) ==
  LET pieces[i \in 0 .. Len(sections)] ==
        IF i = 0 THEN <<>> ELSE pieces[i - 1] \o PiecesOf(sections[i])
  IN  pieces

ChunkMarkdown(doc) ==
  LET sections == MergeSmall(SplitSections(doc))
  IN  Cut(sections)[Len(sections)]

-----------------------------------------------------------------------------
(* What chunking keeps.                                                    *)

Places(text) == {text[i].at : i \in DOMAIN text} \ {0}

\* The lines of the fenced block that opens at line i, to its closing marker; one that
\* is never closed ends with the last line that is not blank.
FencedFrom(doc, i) ==
  LET closed == {j \in DOMAIN doc : j >= i /\ Fences(doc)[j] = 0}
  IN  i .. (IF closed # {} THEN Min(closed)
            ELSE Max({j \in DOMAIN doc : doc[j].kind # "blank"}))

Fenced(doc) ==
  {FencedFrom(doc, i) : i \in {k \in DOMAIN doc : Outside(doc, k) /\ Fences(doc)[k] # 0}}

\* The lines that chunks show: all but the blank ones and the headings outside fences.
Content(doc) ==
  {i \in DOMAIN doc : doc[i].kind # "blank" /\ (doc[i].kind = "heading" => ~Outside(doc, i))}

\* A chunk outgrows the target by the overlap only, unless it ends in a block that
\* alone is larger.
Bounded(blocks) ==
  SizeOf(blocks) <= Max({TargetTokens, Overlap + Tokens(blocks[Len(blocks)])})

Exact(doc, pieces) ==
  /\ Content(doc) \subseteq UNION {Places(pieces[i].text) : i \in DOMAIN pieces}
  /\ \A i \in 1 .. Len(pieces) - 1 :
       Min(Places(pieces[i].text)) <= Min(Places(pieces[i + 1].text))
  /\ \A block \in Fenced(doc) :
       \E i \in DOMAIN pieces : block \subseteq Places(pieces[i].text)
  /\ \A i \in DOMAIN pieces : Bounded(Blocks(pieces[i].text))

\* Of every document within the bounds.
AllExact ==
  \A n \in 0 .. MaxLines : \A kinds \in [1 .. n -> LineKind] :
    Exact(Document(kinds), ChunkMarkdown(Document(kinds)))
=============================================================================
