------------------------------ MODULE LlmClient ------------------------------
(***************************************************************************)
(* LLMClient.complete (llm/client.py): one completion at a time for the    *)
(* decision pipeline, with retries on transient errors and, for the        *)
(* reasoning role, one fall back to the triage endpoint.                   *)
(***************************************************************************)
EXTENDS Integers

CONSTANTS
  Retries,            \* options.retry_attempts
  FallbackToTriage    \* options.fallback_to_triage

ASSUME LlmAssumption == Retries \in Nat /\ FallbackToTriage \in BOOLEAN

VARIABLE call   \* the completion asked for last

\* "unavailable" is an LLMError; "refused" is the provider's own exception.
NoCall == [role |-> "triage", endpoint |-> "triage", attempt |-> 0, outcome |-> "none"]

TypeCall ==
  call \in [role : {"triage", "reasoning"}, endpoint : {"triage", "reasoning"},
            attempt : 0..Retries,
            outcome : {"none", "waiting", "answered", "unavailable", "refused"}]

Ask(role) ==
  call' = [role |-> role, endpoint |-> role, attempt |-> 0, outcome |-> "waiting"]

Waiting == call.outcome = "waiting"
OnPrimary == call.endpoint = call.role

\* The endpoint is done with: the reasoning role has the triage endpoint left.
GiveUp ==
  IF call.role = "reasoning" /\ OnPrimary /\ FallbackToTriage
  THEN call' = [call EXCEPT !.endpoint = "triage", !.attempt = 0]
  ELSE call' = [call EXCEPT !.outcome = "unavailable"]

LlmAnswers ==
  /\ Waiting
  /\ call' = [call EXCEPT !.outcome = "answered"]

\* MUTANT: one attempt too many.
LlmTransientError_OffByOne ==
  /\ Waiting
  /\ IF call.attempt <= Retries
     THEN call' = [call EXCEPT !.attempt = @ + 1]
     ELSE GiveUp

\* A timeout, a rate limit or a broken connection is tried again.
LlmTransientError ==
  /\ Waiting
  /\ IF call.attempt < Retries
     THEN call' = [call EXCEPT !.attempt = @ + 1]
     ELSE GiveUp

\* An error of neither list is not.
LlmOtherError ==
  /\ Waiting
  /\ GiveUp

\* A bad key or request is raised as it is, unless it is the fall back's.
LlmRefuses ==
  /\ Waiting
  /\ call' = [call EXCEPT !.outcome = IF OnPrimary THEN "refused" ELSE "unavailable"]

LlmStep == LlmAnswers \/ LlmTransientError \/ LlmOtherError \/ LlmRefuses
=============================================================================
