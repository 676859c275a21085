---------------------------- MODULE EventStream ----------------------------
(***************************************************************************)
(* What a socket of the API promises its client: after a request, some     *)
(* events in the order of the run, then one last message; every request is *)
(* answered unless the connection is lost.                                 *)
(***************************************************************************)
EXTENDS Integers

CONSTANTS Socket, MaxEvents

VARIABLES phase,  \* socket -> idle, asked, or gone
          told    \* socket -> the events the client has of its request

vars == <<phase, told>>

Init == phase = [s \in Socket |-> "gone"] /\ told = [s \in Socket |-> 0]

Become(s, p, n) ==
  phase' = [phase EXCEPT ![s] = p] /\ told' = [told EXCEPT ![s] = n]

Connect(s) == phase[s] = "gone" /\ Become(s, "idle", 0)
Ask(s)     == phase[s] = "idle" /\ Become(s, "asked", 0)
Tell(s)    == phase[s] = "asked" /\ told[s] < MaxEvents[s] /\ Become(s, "asked", told[s] + 1)
Answer(s)  == phase[s] = "asked" /\ Become(s, "idle", 0)
Hangup(s)  == phase[s] # "gone" /\ Become(s, "gone", 0)

\* The server may go down with all its connections.
Outage == /\ phase' = [s \in Socket |-> "gone"]
          /\ told' = [s \in Socket |-> 0]

Next == \/ \E s \in Socket : Connect(s) \/ Ask(s) \/ Tell(s) \/ Answer(s) \/ Hangup(s)
        \/ Outage

Answered == \A s \in Socket : phase[s] = "asked" ~> phase[s] # "asked"

\* What it promises of every step, and that it comes to an end.
Safety == Init /\ [][Next]_vars

Spec == Safety /\ Answered
=============================================================================
