------------------------------- MODULE Sorting -------------------------------
(***************************************************************************)
(* Lists, and sorted(), as the stages and the ingest use them.  A list is  *)
(* laid out by a strict total order, a set of pairs: the place of an       *)
(* element counts those the order puts before it.                          *)
(***************************************************************************)
EXTENDS Integers, FiniteSets, Sequences

\* The elements of a list.
Elems(s) == {s[i] : i \in DOMAIN s}

\* The first n elements, or all of them: s[:n].
Prefix(s, n) == SubSeq(s, 1, IF n < Len(s) THEN n ELSE Len(s))

Place(S, before) ==
  [c \in S |-> Cardinality({d \in S : <<d, c>> \in before}) + 1]

Sorted(S, before) ==
  LET place == Place(S, before)
  IN  [i \in 1 .. Cardinality(S) |-> CHOOSE c \in S : place[c] = i]
=============================================================================
