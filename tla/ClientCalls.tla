---------------------------- MODULE ClientCalls ----------------------------
(* pkg/grpcx and pkg/resilience: the calls of one client connection, each     *)
(* through the circuit breaker and then the retrier, and what the server's    *)
(* interceptors may answer. gobreaker, grpc-go and the network are external.  *)
EXTENDS Integers

CONSTANTS
    Calls,
    MaxAttempts,    \* RetryConfig.MaxAttempts
    MinRequests,    \* ReadyToTrip's least number of requests
    Probes,         \* BreakerConfig.MaxRequests
    MaxGenerations  \* bound: generations of the breaker's counters that time ends

ClientAssumption ==
    /\ MaxAttempts \in Nat \ {0} /\ MinRequests \in Nat \ {0} /\ Probes \in Nat \ {0}
    /\ MaxGenerations \in Nat

VARIABLES
    idempotent, \* what the connection was dialled with
    call,       \* the calls
    breaker,    \* the connection's circuit breaker
    outage,     \* the server cannot be reached, or does not answer in time
    wasOut      \* there was an outage
vars == <<idempotent, call, breaker, outage, wasOut>>

(* What a call may bring, by what the guards tell apart: Unavailable and      *)
(* DeadlineExceeded, a refusal (any other code: a domain error's, Internal    *)
(* for a panic or an error without a code, Unauthenticated) or a reply.       *)
IsRetryable(answer) == answer = "transport"
Served == {"ok", "refused"}

TypeOK ==
    /\ idempotent \in BOOLEAN /\ outage \in BOOLEAN /\ wasOut \in BOOLEAN
    /\ call \in [Calls -> [at : {"none", "sent", "backoff", "done"}, sent : 0..MaxAttempts,
                           generation : 0..MaxGenerations + 2,
                           answer : {"none", "transport", "open"} \cup Served]]
    /\ breaker \in [state : {"closed", "open", "half"}, generation : 0..MaxGenerations + 2,
                    requests : Nat, failures : Nat, successes : Nat]

Counting(state, generation) ==
    [state |-> state, generation |-> generation, requests |-> 0, failures |-> 0, successes |-> 0]
Init ==
    /\ idempotent \in BOOLEAN
    /\ call = [c \in Calls |-> [at |-> "none", sent |-> 0, generation |-> 0, answer |-> "none"]]
    /\ breaker = Counting("closed", 0)
    /\ outage = FALSE /\ wasOut = FALSE

-----------------------------------------------------------------------------
(* The breaker: gobreaker, with the settings of DefaultBreakerConfig.         *)

ReadyToTrip(b) == b.requests >= MinRequests /\ 2 * b.failures >= b.requests
Admits(b) == b.state = "closed" \/ (b.state = "half" /\ b.requests < Probes)
\* An answer to a call of an earlier generation is not counted.
Counted(b, success) ==
    IF success THEN [b EXCEPT !.successes = @ + 1] ELSE [b EXCEPT !.failures = @ + 1]
Verdict(b, success) ==
    LET n == Counted(b, success) IN
    IF ~success /\ (b.state = "half" \/ ReadyToTrip(n))
    THEN Counting("open", b.generation + 1)
    ELSE IF b.state = "half" /\ n.successes >= Probes THEN Counting("closed", b.generation + 1)
    ELSE n

\* Interval: the counters of a closed breaker start again. Timeout: an open one lets
\* probes through.
Tick ==
    /\ breaker.generation < MaxGenerations
    /\ breaker.state \in {"closed", "open"}
    /\ breaker' = Counting(IF breaker.state = "open" THEN "half" ELSE "closed",
                           breaker.generation + 1)
    /\ UNCHANGED <<idempotent, call, outage, wasOut>>

-----------------------------------------------------------------------------
(* A call.                                                                    *)

Enter(c) ==
    /\ call[c].at = "none"
    /\ IF Admits(breaker)
       THEN /\ call' = [call EXCEPT ![c] = [@ EXCEPT !.at = "sent", !.sent = 1,
                                               !.generation = breaker.generation]]
            /\ breaker' = [breaker EXCEPT !.requests = @ + 1]
       ELSE /\ call' = [call EXCEPT ![c] = [@ EXCEPT !.at = "done", !.answer = "open"]]
            /\ UNCHANGED breaker
    /\ UNCHANGED <<idempotent, outage, wasOut>>

Return(c, answer) ==
    /\ call' = [call EXCEPT ![c] = [@ EXCEPT !.at = "done", !.answer = answer]]
    /\ breaker' = IF call[c].generation = breaker.generation
                  THEN Verdict(breaker, answer = "ok") ELSE breaker
\* As if every connection were retried.
RepeatsAlways(c, answer) == IsRetryable(answer) /\ call[c].sent < MaxAttempts

\* As if the first attempt did not count.
RepeatsOnceMore(c, answer) == idempotent /\ IsRetryable(answer) /\ call[c].sent <= MaxAttempts

\* Another attempt, unless the deadline comes before the end of the pause.
Repeats(c, answer) == idempotent /\ IsRetryable(answer) /\ call[c].sent < MaxAttempts
Answer(c) ==
    /\ call[c].at = "sent"
    /\ \E answer \in IF outage THEN {"transport"} ELSE Served :
          \/ Return(c, answer)
          \/ /\ Repeats(c, answer)
             /\ call' = [call EXCEPT ![c].at = "backoff"]
             /\ UNCHANGED breaker
    /\ UNCHANGED <<idempotent, outage, wasOut>>
Backoff(c) ==
    /\ call[c].at = "backoff"
    /\ \/ /\ call' = [call EXCEPT ![c].at = "sent", ![c].sent = @ + 1]
          /\ UNCHANGED breaker
       \/ Return(c, "transport")
    /\ UNCHANGED <<idempotent, outage, wasOut>>

Outage ==
    /\ outage' = ~outage /\ wasOut' = TRUE
    /\ UNCHANGED <<idempotent, call, breaker>>

Next ==
    \/ Tick \/ Outage
    \/ \E c \in Calls : Enter(c) \/ Answer(c) \/ Backoff(c)
Spec == Init /\ [][Next]_vars

-----------------------------------------------------------------------------
\* What is sent how often is what the caller allowed: a call that is not idempotent
\* once, another again only after a failure of the transport; and a call that the
\* breaker refused has sent nothing (retry.go:121-171, client.go:128-131).
SentAsPromised ==
    \A c \in Calls :
        /\ call[c].sent > 1 => idempotent /\ wasOut
        /\ call[c].answer = "open" => call[c].sent = 0
=============================================================================
