----------------------------- MODULE MCPipeline -----------------------------
(***************************************************************************)
(* Two tenants that use the same document id, and one global document.     *)
(* Chunks 1, 2, 3 are tenant a's document d; chunk 4 is tenant b's         *)
(* document d, at the position of chunk 2; chunk 5 is global.              *)
(***************************************************************************)
EXTENDS Pipeline

MCChunk   == 1 .. 5
MCTenant  == {"a", "b", "tenant_global"}
MCOwner   == <<"a", "a", "a", "b", "tenant_global">>
MCDocOf   == <<"d", "d", "d", "d", "g">>
MCOrdinal == <<0, 1, 2, 1, 0>>

\* The offline provider gates the dense score, the groq one the sparse score.
Offline == DefaultConfig("dense_top1", 420000)
Groq    == DefaultConfig("lexical_top1", 1738000)

Composite == Apply("no_gate", Apply("no_lexical", Offline))

Request(c, t, h, g) == [cfg |-> c, tenant |-> t, history |-> h, generate |-> g]

\* Every ablation of the offline default for tenant a; follow-up questions,
\* context-only runs, the other tenants and the other provider for the defaults.
MCRequests ==
  {Request(c, "a", FALSE, TRUE) : c \in Variants(Offline) \cup {Composite}}
    \cup {Request(Offline, "a", TRUE, FALSE), Request(Groq, "b", FALSE, TRUE),
          Request(Offline, "b", TRUE, TRUE), Request(Offline, "tenant_global", FALSE, TRUE)}

\* Below the gate, in the gray zone, and above it.
MCSemanticScores == {0, 300000, 500000, 900000}
MCLexicalScores  == {0, 2000000}
MCRerankScores   == {0, 80}
=============================================================================
