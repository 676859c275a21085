--------------------------- MODULE PipelineConfig ---------------------------
(***************************************************************************)
(* The knobs of one run (autopsy/config.py) and the named ablations, which *)
(* are functions from configs to configs (autopsy/ablations.py).           *)
(*                                                                         *)
(* A leg, the fusion, the gate, the reranker and the expansion are each    *)
(* present or None in the code; here they are on or off.  Scores and       *)
(* thresholds are integers in millionths, the precision the stages round   *)
(* a leg's score to.                                                       *)
(***************************************************************************)
EXTENDS Integers

Scale == 1000000

Signal == {"dense_top1", "lexical_top1", "fused_top1"}

RerankMode == {"off", "gray_zone", "always"}

\* PipelineConfig; its __post_init__ refuses a config without any leg.
Config ==
  {c \in [lexical : BOOLEAN, semantic : BOOLEAN, fusion : BOOLEAN,
          gate : BOOLEAN, reads : Signal, threshold : Int,
          rerank : RerankMode, expansion : BOOLEAN, rewrite : BOOLEAN,
          max_context_chunks : Nat \ {0}] :
     c.lexical \/ c.semantic}

\* default_config: everything on; the provider picks the signal the gate reads.
DefaultConfig(reads, threshold) ==
  [lexical |-> TRUE, semantic |-> TRUE, fusion |-> TRUE,
   gate |-> TRUE, reads |-> reads, threshold |-> threshold,
   rerank |-> "gray_zone", expansion |-> TRUE, rewrite |-> TRUE,
   max_context_chunks |-> 3]

Ablation ==
  {"baseline", "no_lexical", "no_semantic", "no_fusion", "no_gate",
   "no_rerank", "force_rerank", "no_expansion", "top_k_1", "no_rewrite",
   "gate_on_fused"}

\* ABLATIONS.  "no_discriminator_guard" changes only the prompt of the generator,
\* so on this abstraction of a config it is "baseline".
Apply(name, c) ==
  CASE name = "baseline"      -> c
    [] name = "no_lexical"    -> [c EXCEPT !.lexical = FALSE]
    [] name = "no_semantic"   -> [c EXCEPT !.semantic = FALSE]
    [] name = "no_fusion"     -> [c EXCEPT !.fusion = FALSE]
    [] name = "no_gate"       -> [c EXCEPT !.gate = FALSE]
    [] name = "no_rerank"     -> [c EXCEPT !.rerank = "off"]
    [] name = "force_rerank"  -> [c EXCEPT !.rerank = "always"]
    [] name = "no_expansion"  -> [c EXCEPT !.expansion = FALSE]
    [] name = "top_k_1"       -> [c EXCEPT !.max_context_chunks = 1]
    [] name = "no_rewrite"    -> [c EXCEPT !.rewrite = FALSE]
    [] name = "gate_on_fused" -> [c EXCEPT !.reads = "fused_top1",
                                           !.threshold = 25000]

\* The ValueErrors: force_rerank without a reranker, gate_on_fused without a
\* gate, and the leg whose removal would leave none.
Composes(name, c) ==
  /\ name = "force_rerank" => c.rerank # "off"
  /\ name = "gate_on_fused" => c.gate
  /\ name = "no_lexical" => c.semantic
  /\ name = "no_semantic" => c.lexical

\* The configs one ablation away from a config.
Variants(base) == {Apply(a, base) : a \in {a \in Ablation : Composes(a, base)}}
=============================================================================
