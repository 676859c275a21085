---------------------------- MODULE MCVectorStore ----------------------------
(***************************************************************************)
(* Two processes, one of them with two stores (the API server and a suite  *)
(* that builds a pipeline of its own), three indexes: two of one shape by  *)
(* different models, and one of concept bags.  A sync takes two batches.   *)
(***************************************************************************)
EXTENDS VectorStore

MCProcessOf == [s \in {"p1", "p2", "q1"} |-> IF s = "q1" THEN "q" ELSE "p"]

Built(model, dim) == [corpus |-> 1, model |-> model, dim |-> dim, chunks |-> 3]

MCIndex == {Built(1, 4), Built(2, 4), Built(0, 0)}
=============================================================================
