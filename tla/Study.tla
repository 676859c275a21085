------------------------------- MODULE Study --------------------------------
(***************************************************************************)
(* What an ablation study promises: every case is measured once under      *)
(* every ablation, and the report shows those measurements and nothing     *)
(* else.  A study that cannot measure a case at all reports nothing.       *)
(***************************************************************************)
CONSTANTS Cell,       \* the cases under the ablations
          Measure,    \* what a measurement may say
          Undecided   \* no measurement

VARIABLES cell, report, state

Init ==
  /\ cell = [x \in Cell |-> Undecided]
  /\ report = [x \in Cell |-> Undecided]
  /\ state = "running"

\* A cell is measured once, also while the study is being abandoned.
Decide(x) ==
  /\ state # "published"
  /\ cell[x] = Undecided /\ cell'[x] \in Measure
  /\ \A y \in Cell \ {x} : cell'[y] = cell[y]
  /\ UNCHANGED <<report, state>>

Publish ==
  /\ state = "running"
  /\ \A x \in Cell : cell[x] # Undecided
  /\ state' = "published"
  /\ report' = cell
  /\ UNCHANGED cell

Abandon ==
  /\ state = "running"
  /\ state' = "abandoned"
  /\ UNCHANGED <<cell, report>>

Next ==
  \/ \E x \in Cell : Decide(x)
  \/ Publish
  \/ Abandon

Spec == Init /\ [][Next]_<<cell, report, state>>
=============================================================================
