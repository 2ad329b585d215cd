------------------------------- MODULE ModelCalls -------------------------------
(***************************************************************************)
(* The calls of language models: core/llm.py with the agents' factory.     *)
(*                                                                         *)
(* Every agent has a client of its own: a circuit breaker around retries   *)
(* around the provider.  An agent makes one call at a time, but agents of  *)
(* different runs call at the same time and share the memory of endpoints  *)
(* that reject the reasoning effort.  Time is abstracted to whether the    *)
(* recovery timeout, or the lifetime of that memory, is over.              *)
(***************************************************************************)
EXTENDS Naturals

CONSTANTS
    Agent,
    Endpoint,       \* pairs of a base URL and a model
    EndpointOf,     \* EndpointOf[a]: the one agent a calls
    Wants,          \* agents whose configuration has a reasoning effort, and
                    \* whose provider passes it on
    MaxRetries,     \* RetryConfig
    Threshold       \* CircuitBreakerConfig

ASSUME ModelCallsAssumption ==
    /\ EndpointOf \in [Agent -> Endpoint] /\ Wants \subseteq Agent
    /\ MaxRetries \in Nat /\ Threshold \in Nat \ {0}

VARIABLES
    breaker,        \* breaker[a]: [state, failures, waited]
    call,           \* call[a]: [pc, attempt, effort]
    unsupported,    \* endpoints that are remembered to reject the effort
    accepts,        \* endpoints that accept the effort
    up              \* endpoints that answer

callVars == <<breaker, call, unsupported, accepts, up>>

NoCall == [pc |-> "idle", attempt |-> 0, effort |-> FALSE]
Closed == [state |-> "closed", failures |-> 0, waited |-> FALSE]

(* Breakers, calls and memories keep their types.                          *)
CallsTypeOK ==
    /\ breaker \in [Agent -> [state : {"closed", "open", "half_open"}, failures : 0..Threshold + 1,
                              waited : BOOLEAN]]
    /\ call \in [Agent -> [pc : {"idle", "try", "plain"}, attempt : 0..MaxRetries + 1, effort : BOOLEAN]]
    /\ unsupported \subseteq Endpoint /\ accepts \subseteq Endpoint /\ up \subseteq Endpoint

InitCalls ==
    /\ breaker = [a \in Agent |-> Closed] /\ call = [a \in Agent |-> NoCall]
    /\ unsupported = {} /\ accepts \in SUBSET Endpoint /\ up = Endpoint
-----------------------------------------------------------------------------
(* create_provider() leaves the retries out when there are none.           *)
Attempts == IF MaxRetries = 0 THEN 1 ELSE MaxRetries

(* _openai_chat_generate(): every attempt consults the memory anew.        *)
Attempt(a, n) ==
    [pc |-> "try", attempt |-> n, effort |-> a \in Wants /\ EndpointOf[a] \notin unsupported']

(* Fault: the count starts again with the recovery.                        *)
FaultyRecovered(b) == [b EXCEPT !.state = "half_open", !.failures = 0]

(* The state property: an open circuit lets a call pass after the timeout. *)
Recovered(b) == [b EXCEPT !.state = "half_open"]

Current(b) == IF b.state = "open" /\ b.waited THEN Recovered(b) ELSE b

Call(a) ==
    /\ call[a].pc = "idle"
    /\ UNCHANGED <<unsupported, accepts, up>>
    /\ breaker' = [breaker EXCEPT ![a] = Current(@)]
    /\ call' = IF breaker'[a].state = "open" THEN call ELSE [call EXCEPT ![a] = Attempt(a, 1)]

(* Fault: a success counts, but leaves the state alone.                    *)
FaultyOnSuccess(b) == [b EXCEPT !.failures = 0]

OnSuccess(b) ==
    [state |-> IF b.state = "half_open" THEN "closed" ELSE b.state, failures |-> 0,
     waited |-> b.waited]

Cap(n) == IF n > Threshold THEN Threshold + 1 ELSE n

OnFailure(b) ==
    LET n == Cap(b.failures + 1)
    IN [state |-> IF n >= Threshold THEN "open" ELSE b.state, failures |-> n, waited |-> FALSE]

Return(a) ==
    /\ call' = [call EXCEPT ![a] = NoCall]
    /\ breaker' = [breaker EXCEPT ![a] = OnSuccess(@)]
    /\ UNCHANGED unsupported

Fail(a) ==
    /\ UNCHANGED unsupported
    /\ IF call[a].attempt < Attempts
       THEN call' = [call EXCEPT ![a] = Attempt(a, call[a].attempt + 1)] /\ UNCHANGED breaker
       ELSE call' = [call EXCEPT ![a] = NoCall] /\ breaker' = [breaker EXCEPT ![a] = OnFailure(@)]

(* An error that reads like a rejection of the effort is remembered as one *)
(* and the request is sent again without it, within the same attempt.      *)
Reject(a) ==
    /\ call[a].effort
    /\ unsupported' = unsupported \cup {EndpointOf[a]}
    /\ call' = [call EXCEPT ![a].pc = "plain", ![a].effort = FALSE]
    /\ UNCHANGED breaker

Answered(a) ==
    LET e == EndpointOf[a]
    IN /\ call[a].pc \in {"try", "plain"}
       /\ \/ e \in up /\ (call[a].effort => e \in accepts) /\ Return(a)
          \/ e \in up /\ e \notin accepts /\ Reject(a)
          \/ e \notin up /\ (Fail(a) \/ Reject(a))
       /\ UNCHANGED <<accepts, up>>
-----------------------------------------------------------------------------
(* The clock, and the endpoints.                                           *)
Wait(a) ==
    /\ breaker[a].state = "open" /\ ~breaker[a].waited
    /\ breaker' = [breaker EXCEPT ![a].waited = TRUE]
    /\ UNCHANGED <<call, unsupported, accepts, up>>

Forget(e) ==
    /\ e \in unsupported /\ unsupported' = unsupported \ {e}
    /\ UNCHANGED <<breaker, call, accepts, up>>

EndpointChanges(e) ==
    /\ \/ up' = (up \cup {e}) \ (up \cap {e}) /\ UNCHANGED accepts
       \/ accepts' = (accepts \cup {e}) \ (accepts \cap {e}) /\ UNCHANGED up
    /\ UNCHANGED <<breaker, call, unsupported>>

NextCalls ==
    \/ \E a \in Agent : Call(a) \/ Answered(a) \/ Wait(a)
    \/ \E e \in Endpoint : Forget(e) \/ EndpointChanges(e)

(* Requests come back or time out, the clock goes on, and an agent that is *)
(* asked again and again calls again and again.                            *)
Fairness == \A a \in Agent : WF_callVars(Call(a)) /\ WF_callVars(Answered(a)) /\ WF_callVars(Wait(a))

CallsSpec == InitCalls /\ [][NextCalls]_callVars /\ Fairness
-----------------------------------------------------------------------------
(* One failed probe is enough to hold the circuit open: as long as it is   *)
(* not closed, the failures that opened it still count.                    *)
ProbeDecides == \A a \in Agent : breaker[a].state = "closed" <=> breaker[a].failures < Threshold

(* An agent whose endpoint answers from some time on is not shut out: its  *)
(* circuit closes and stays closed.                                        *)
RecoveredEndpointIsUsed ==
    \A a \in Agent : <>[](EndpointOf[a] \in up) => <>[](breaker[a].state = "closed")
=============================================================================
