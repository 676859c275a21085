------------------------------ MODULE ChatCall ------------------------------
(***************************************************************************)
(* One chat completion with its retries                                    *)
(* (autopsy/providers/oaicompat.py, OpenAICompatibleLLM._call), for any    *)
(* number of callers at once.                                              *)
(*                                                                         *)
(* The service is external: each request it is sent is answered, or raises *)
(* one of Errors after it was, or was not, paid for.  The pauses between   *)
(* attempts are left out; whatever happens meanwhile is interleaved.       *)
(***************************************************************************)
EXTENDS Integers

CONSTANTS Caller,      \* who may have a call in progress
          Errors,      \* what a request may raise
          MaxRetries,  \* MAX_RETRIES, 6 in the code
          MaxFaults    \* bound: how many calls raise, in all

VARIABLES
  attempt,  \* of each caller's call: how many requests were sent
  faults    \* how many calls have raised so far, for the bound

callVars == <<attempt, faults>>

NoStatus == 0

RETRY_STATUS == {408, 409, 429, 500, 502, 503, 504, 529}

\* What the code reads of an exception: a status if it carries one, whether its
\* text names a daily budget, and whether its type is one of _RETRY_TYPES.
Error == [status : RETRY_STATUS \cup {NoStatus, 400, 401}, daily : BOOLEAN,
          retry_type : BOOLEAN]

ASSUME ChatCallAssumption ==
  Errors \subseteq Error /\ MaxRetries \in Nat \ {0} /\ MaxFaults \in Nat

IsDailyLimit(e) == e.daily

IsTransient(e) ==
  /\ ~(e.status = 429 /\ IsDailyLimit(e))
  /\ \/ e.status \in RETRY_STATUS
     \/ e.status = NoStatus /\ e.retry_type

\* Is this attempt, having raised e, followed by another?
Retried(e, made) == ~IsDailyLimit(e) /\ IsTransient(e) /\ made < MaxRetries

CallInit == attempt = [c \in Caller |-> 0] /\ faults = 0

\* Slip: the loop starts over when its attempts are used up.
RetryForever(c) ==
  /\ \E e \in Errors : IsTransient(e)
  /\ attempt' = [attempt EXCEPT ![c] = (@ + 1) % MaxRetries]
  /\ UNCHANGED faults

\* The request raised, and the loop goes round again.
Retry(c) ==
  /\ \E e \in Errors : Retried(e, attempt[c] + 1)
  /\ attempt' = [attempt EXCEPT ![c] = @ + 1]
  /\ UNCHANGED faults

\* The call raises: a daily quota, an error that no retry mends, the last
\* attempt, or an answer that is of no use.
GiveUp(c, unusable) ==
  /\ faults < MaxFaults
  /\ unusable \/ \E e \in Errors : ~Retried(e, attempt[c] + 1)
  /\ attempt' = [attempt EXCEPT ![c] = 0]
  /\ faults' = faults + 1

\* The request is answered.
Answered(c) ==
  /\ attempt' = [attempt EXCEPT ![c] = 0]
  /\ UNCHANGED faults

\* Slip: every request sent is counted.
UsageOfAll(c) == attempt[c] + 1

\* The usage of a call is that of the request that was answered, whatever the
\* requests before it may have cost.
Usage(c) == 1
=============================================================================
