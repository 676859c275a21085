----------------------------- MODULE MCStreaming -----------------------------
(***************************************************************************)
(* One client of each socket, runs of two events and of one, and one thread *)
(* for both.                                                               *)
(***************************************************************************)
EXTENDS Streaming

MCKind == [s \in {"query", "suite"} |-> IF s = "query" THEN "stream" ELSE "eval"]

MCMaxEvents == [s \in {"query", "suite"} |-> IF s = "query" THEN 2 ELSE 1]
=============================================================================
