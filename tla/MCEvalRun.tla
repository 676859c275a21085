----------------------------- MODULE MCEvalRun ------------------------------
(***************************************************************************)
(* Three evaluations under two providers, two cases of which do not pass.  *)
(* Two traps: a question without an answer, and one whose answer needs a   *)
(* caveat.  Three pairs of answers, one with nothing to judge.             *)
(***************************************************************************)
EXTENDS EvalRun

Sight(tenants, text) ==
  [canaries |-> tenants, in_answer |-> tenants, quoted |-> tenants,
   owners |-> tenants \cup {Global}, expanded |-> tenants, text |-> text]

\* What is in scope, the same and something foreign, shared documents, and nothing.
MCSightings == {Sight({Me}, "of mine"), Sight({Me, Other}, "of both"),
                Sight({}, "of none"),
                [Sight({}, "refusal") EXCEPT !.owners = {}]}

MCTraps == <<[id |-> "superlative", no_claim |-> TRUE, any_of |-> {}, banned |-> {}],
             [id |-> "version", no_claim |-> FALSE, any_of |-> {"caveat"},
              banned |-> {"number"}]>>

Reply(refused, hedged, phrases) ==
  [refused |-> refused, hedged |-> hedged, marker |-> refused, phrases |-> phrases]

MCReplies == {Reply(TRUE, FALSE, {}), Reply(FALSE, TRUE, {"caveat"}),
              Reply(FALSE, FALSE, {"number"}), Reply(FALSE, FALSE, {"caveat"})}

Told(text, hedged, key) == [text |-> text, refused |-> FALSE, hedged |-> hedged, key |-> key]
Read(overlap) == [same |-> FALSE, a_declines |-> FALSE, b_declines |-> FALSE,
                  disjoint_numbers |-> FALSE, overlap |-> overlap]

MCPairs ==
  <<[baseline |-> Told("right", FALSE, TRUE), variant |-> Told("wrong", FALSE, FALSE),
     expect |-> "answer_key", pair |-> Read(50), said |-> <<"contradictory", "contradictory">>],
    [baseline |-> Told("right", FALSE, TRUE), variant |-> Told("right", FALSE, TRUE),
     expect |-> "answer_key", pair |-> Read(100), said |-> <<"equivalent", "equivalent">>],
    [baseline |-> Told("right", FALSE, TRUE), variant |-> Told("perhaps", TRUE, FALSE),
     expect |-> "answer_key", pair |-> [Read(20) EXCEPT !.b_declines = TRUE],
     said |-> <<"degraded", "no idea">>]>>
=============================================================================
