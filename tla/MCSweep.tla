------------------------------ MODULE MCSweep -------------------------------
(***************************************************************************)
(* Three cases.  Cases 1 and 2 are the same question of one tenant, once   *)
(* with ground truth and once, needing the judge, without; case 3 asks the *)
(* same of another tenant.  The base config has no reranker, so that       *)
(* force_rerank does not apply to it.                                      *)
(***************************************************************************)
EXTENDS Sweep, TLC

MCSingle   == <<"no_semantic", "no_discriminator_guard", "force_rerank">>
MCComposed == <<"no_semantic", "no_discriminator_guard",
                "no_semantic+no_discriminator_guard">>
MCParts    == [a \in {MCComposed[3]} |-> {MCComposed[1], MCComposed[2]}]

MCTenant    == <<"a", "a", "b">>
MCExpecting == <<"answer_key", "none", "answer_key">>

\* What the ablations leave of the embedder and of the guard in the prompt.
Dense(n)   == Name(n) \notin {"no_semantic", MCComposed[3]}
Guarded(n) == Name(n) \notin {"no_discriminator_guard", MCComposed[3]}

MCConfig == [n \in Turn |-> <<Dense(n), Guarded(n)>>]

MCStamp == [corpus |-> "v1", embed_model |-> "m", gen_model |-> "g", rerank_model |-> "none",
            provider |-> "live", code |-> "c"]
MCSemantic == [n \in Turn |-> Dense(n)]
MCRerank   == [n \in Turn |-> FALSE]

\* The guard is part of the prompt, not of the context: the same payload.
MCPayload == {"q", "both legs", "sparse leg"}
MCPlan == [r \in Run |->
  IF Dense(r[2])
  THEN <<[stage |-> "embed", payload |-> "q"], [stage |-> "generate", payload |-> "both legs"]>>
  ELSE <<[stage |-> "generate", payload |-> "sparse leg"]>>]

Right  == [text |-> "right", refused |-> FALSE, hedged |-> FALSE, key |-> TRUE]
Wrong  == [text |-> "wrong", refused |-> FALSE, hedged |-> FALSE, key |-> FALSE]
Hedged == [text |-> "perhaps", refused |-> FALSE, hedged |-> TRUE, key |-> FALSE]

\* Without the guard every answer is wrong; the other tenant's baseline hedges.
MCAnswerTo == [r \in Run |->
  IF ~Guarded(r[2]) THEN Wrong ELSE IF r[1] = 3 THEN Hedged ELSE Right]

MCRetrieved == [r \in Run |->
  IF Dense(r[2])
  THEN [context |-> <<1, 2>>, fused |-> (1 :> 1) @@ (2 :> 2), skipped |-> {}, budget |-> 3]
  ELSE [context |-> <<2>>, fused |-> (2 :> 1), skipped |-> {"embed"}, budget |-> 3]]

\* A dropped connection, a daily quota, a request the service rejects.
MCErrors == {[status |-> 0, daily |-> FALSE, retry_type |-> TRUE],
             [status |-> 429, daily |-> TRUE, retry_type |-> TRUE],
             [status |-> 400, daily |-> FALSE, retry_type |-> FALSE]}
=============================================================================
