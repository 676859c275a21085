------------------------------- MODULE Corpus -------------------------------
(***************************************************************************)
(* The loaded index, as the stages see it (autopsy/store/chunks.py): the   *)
(* chunks, who owns them, and the two ways to reach one, by tenant (scope) *)
(* and by document (neighbours).  A chunk is an integer, and integers are  *)
(* ordered as the code orders chunk ids, its last tiebreaker everywhere.   *)
(***************************************************************************)
EXTENDS Sorting

CONSTANTS Chunk,         \* the chunk ids of the index
          Tenant,        \* the tenants, the global one among them
          GlobalTenant,  \* "tenant_global": readable by every tenant
          Doc,           \* document ids; two tenants may use the same one
          Owner,         \* chunk -> tenant
          DocOf,         \* chunk -> document id
          Ordinal        \* chunk -> position in its document

ASSUME CorpusAssumption ==
  /\ Chunk \subseteq Int
  /\ IsFiniteSet(Chunk)
  /\ GlobalTenant \in Tenant
  /\ Owner \in [Chunk -> Tenant]
  /\ DocOf \in [Chunk -> Doc]
  /\ Ordinal \in [Chunk -> Int]
  /\ \A c, d \in Chunk :
       Owner[c] = Owner[d] /\ DocOf[c] = DocOf[d] /\ Ordinal[c] = Ordinal[d] => c = d

\* The key a document is stored under: its tenant and its id.
DocKey(c) == <<Owner[c], DocOf[c]>>

\* Index.scope: a tenant's own chunks and the global ones.
Scope(t) == {c \in Chunk : Owner[c] \in {t, GlobalTenant}}

\* Slip: documents keyed by their id alone.
NeighboursAnyTenant(c, span) ==
  {n \in Chunk : /\ DocOf[n] = DocOf[c]
                 /\ n # c
                 /\ Ordinal[n] \in (Ordinal[c] - span) .. (Ordinal[c] + span)}

\* Index.neighbours: the chunks within span positions of c in its document.
Neighbours(c, span) ==
  {n \in Chunk : /\ DocKey(n) = DocKey(c)
                 /\ Ordinal[n] # Ordinal[c]
                 /\ Ordinal[n] \in (Ordinal[c] - span) .. (Ordinal[c] + span)}

\* The test of ensure_candidate: may a chunk enter a run of this tenant?
Permitted(t) == {c \in Chunk : Owner[c] = t \/ Owner[c] = GlobalTenant}

\* sorted(..., key=lambda c: (-score[c], c)), the order of every ranking.
ByScore(score) ==
  {p \in Chunk \X Chunk : \/ score[p[1]] > score[p[2]]
                          \/ score[p[1]] = score[p[2]] /\ p[1] < p[2]}
=============================================================================
