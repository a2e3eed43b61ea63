----------------------------- MODULE Resilience -----------------------------
(***************************************************************************)
(* The calls that leave the process and the requests that enter it.        *)
(*                                                                         *)
(* A call to the LLM (app/llm/fallback.py) tries the providers of a chain  *)
(* in order.  Each has a circuit breaker around a retried operation        *)
(* (app/llm/openai_compatible.py, app/core/resilience.py).  The callers    *)
(* are those that share one chain: the passes of a scoring, which run in   *)
(* parallel.  The storage (app/core/storage.py) is a chain of one.         *)
(*                                                                         *)
(* A request is counted in Redis, or in memory when Redis fails            *)
(* (app/core/ratelimit.py).                                                *)
(***************************************************************************)
EXTENDS Naturals, Sequences, FiniteSets

CONSTANTS
    N,              \* the length of the chain
    Callers,        \* the tasks that share it
    MaxCalls,       \* bound: the calls that they make
    Hits,           \* the requests of one client
    MaxHits,        \* bound: how many it sends
    Limit           \* what a window admits

ASSUME ResilienceAssumption ==
    N \in Nat \ {0} /\ MaxCalls \in Nat /\ MaxHits \in Nat /\ Limit \in Nat \ {0}

MaxAttempts == 3
FailureThreshold == 3
Providers == 1..N

VARIABLES
    breaker,  \* [Providers -> [failures, opened]]
    call,     \* [Callers -> the call that a task is making]
    sent,     \* the calls begun so far
    reliable, \* does Redis answer in this execution? chosen once
    redis,    \* the counter of the client: [count, ttl]
    buckets,  \* its counter in memory
    hit,      \* [Hits -> "idle", or "counted": the counter has no expiry yet]
    hits,     \* the requests so far
    admitted  \* history: what the two windows of the client have let in

chainVars == <<breaker, call, sent>>
limitVars == <<reliable, redis, buckets, hit, hits, admitted>>
resilienceVars == <<chainVars, limitVars>>

\* "closed": _opened_at is None; "open": less than reset_timeout ago; "elapsed": longer ago.
CircuitBreaker == [failures : 0..MaxCalls, opened : {"closed", "open", "elapsed"}]
Outcomes == {"open", "failed"}
NoCall == [stage |-> "idle", at |-> 0, attempt |-> 0, tried |-> <<>>]

\* The types of the circuits, of the calls and of the counters.
ResilienceTypeOK ==
    /\ breaker \in [Providers -> CircuitBreaker]
    /\ \A c \in Callers :
        /\ call[c].stage \in {"idle", "next", "trying", "answered", "failed", "broken"}
        /\ call[c].at \in 0..(N + 1) /\ call[c].attempt \in 0..MaxAttempts
        /\ call[c].tried \in Seq(Outcomes)
    /\ sent \in 0..MaxCalls /\ hits \in 0..MaxHits
    /\ reliable \in BOOLEAN /\ redis \in [count : 0..MaxHits, ttl : BOOLEAN] /\ buckets \in 0..MaxHits
    /\ hit \in [Hits -> {"idle", "counted"}]
    /\ admitted \in [redis : Nat, memory : Nat]

ResilienceInit ==
    /\ breaker = [p \in Providers |-> [failures |-> 0, opened |-> "closed"]]
    /\ call = [c \in Callers |-> NoCall]
    /\ sent = 0
    /\ reliable \in BOOLEAN /\ redis = [count |-> 0, ttl |-> FALSE] /\ buckets = 0
    /\ hit = [h \in Hits |-> "idle"]
    /\ hits = 0
    /\ admitted = [redis |-> 0, memory |-> 0]

-----------------------------------------------------------------------------
(* The circuit breaker.                                                    *)

is_open(p) == breaker[p].opened = "open"

\* Mutant: the circuit opens one failure too late.
RecordFailureLate(b) == [failures |-> b.failures + 1, opened |-> IF b.failures >= FailureThreshold THEN "open" ELSE b.opened]
RecordFailure(b) ==
    [failures |-> b.failures + 1, opened |-> IF b.failures + 1 >= FailureThreshold THEN "open" ELSE b.opened]
RecordSuccess(b) == [failures |-> 0, opened |-> "closed"]

ResetTimeout(p) ==
    /\ is_open(p)
    /\ breaker' = [breaker EXCEPT ![p].opened = "elapsed"]
    /\ UNCHANGED <<call, sent, limitVars>>

-----------------------------------------------------------------------------
(* The chain.                                                              *)

Begin(c) ==
    /\ call[c].stage \in {"idle", "answered", "failed", "broken"} /\ sent < MaxCalls
    /\ sent' = sent + 1
    /\ call' = [call EXCEPT ![c] = [stage |-> "next", at |-> 1, attempt |-> 0, tried |-> <<>>]]
    /\ UNCHANGED <<breaker, limitVars>>

\* Mutant: a provider whose circuit is open is waited for.
FailoverWaiting(c, outcome) ==
    call' = IF outcome = "open" THEN call
            ELSE [call EXCEPT ![c].stage = "next", ![c].at = @ + 1, ![c].tried = Append(@, outcome)]
\* LLMError and CircuitOpenError go on to the next provider.
Failover(c, outcome) ==
    call' = [call EXCEPT ![c].stage = "next", ![c].at = @ + 1, ![c].tried = Append(@, outcome)]
Ends(c, stage) == call' = [call EXCEPT ![c].stage = stage]

TryProvider(c) ==
    /\ call[c].stage = "next"
    /\ IF call[c].at > N THEN Ends(c, "failed")
       ELSE IF is_open(call[c].at) THEN Failover(c, "open")
       ELSE call' = [call EXCEPT ![c].stage = "trying", ![c].attempt = 1]
    /\ UNCHANGED <<breaker, sent, limitVars>>

Record(p, new) == breaker' = [breaker EXCEPT ![p] = new]

\* 5xx, network, timeout: after a delay the operation is tried again, three times in all.
Retry(c) == call' = [call EXCEPT ![c].attempt = @ + 1]
Transient(c) ==
    LET p == call[c].at IN
    /\ call[c].stage = "trying"
    /\ IF call[c].attempt < MaxAttempts
       THEN Retry(c) /\ UNCHANGED breaker
       ELSE Failover(c, "failed") /\ Record(p, RecordFailure(breaker[p]))
    /\ UNCHANGED <<sent, limitVars>>

\* 4xx: no retry.
Refused(c) ==
    LET p == call[c].at IN
    /\ call[c].stage = "trying"
    /\ Failover(c, "failed") /\ Record(p, RecordFailure(breaker[p]))
    /\ UNCHANGED <<sent, limitVars>>

\* A body that is not JSON: neither LLMError nor CircuitOpenError, it goes through the chain.
Unexpected(c) ==
    LET p == call[c].at IN
    /\ call[c].stage = "trying"
    /\ Ends(c, "broken") /\ Record(p, RecordFailure(breaker[p]))
    /\ UNCHANGED <<sent, limitVars>>

\* A success for the breaker; what it says may be unreadable (LLMParseError, another
\* provider is tried) or without choices (KeyError, it goes through the chain).
Succeeds(c) ==
    LET p == call[c].at IN
    /\ call[c].stage = "trying"
    /\ Record(p, RecordSuccess(breaker[p]))
    /\ Ends(c, "answered") \/ Failover(c, "failed") \/ Ends(c, "broken")
    /\ UNCHANGED <<sent, limitVars>>

-----------------------------------------------------------------------------
(* The rate limiter.                                                       *)

\* One more request in a window that has seen count of them.
Admit(window, count) == admitted' = IF count <= Limit THEN [admitted EXCEPT ![window] = @ + 1] ELSE admitted

\* Mutant: a counter gets its expiry when the limit is reached.
NeedsExpiryAtLimit(count) == count = Limit + 1
\* The first request of a window is the one that gives it its end.
NeedsExpiry(count) == count = 1

\* INCR, and an EXPIRE that is another round trip for the first one.
Increment(h) ==
    /\ hit[h] = "idle" /\ hits < MaxHits
    /\ hits' = hits + 1
    /\ redis' = [redis EXCEPT !.count = @ + 1]
    /\ IF NeedsExpiry(redis.count + 1)
       THEN hit' = [hit EXCEPT ![h] = "counted"] /\ UNCHANGED admitted
       ELSE Admit("redis", redis.count + 1) /\ UNCHANGED hit
    /\ UNCHANGED <<chainVars, reliable, buckets>>

ExpireKey(h) ==
    /\ hit[h] = "counted"
    /\ hit' = [hit EXCEPT ![h] = "idle"]
    /\ redis' = [redis EXCEPT !.ttl = TRUE]
    /\ Admit("redis", 1)
    /\ UNCHANGED <<chainVars, reliable, buckets, hits>>

\* Redis fails on the one or on the other: the request is counted in memory.
AllowInMemory(h) ==
    /\ ~ reliable /\ (hit[h] = "counted" \/ hits < MaxHits) /\ buckets < MaxHits
    /\ hits' = IF hit[h] = "counted" THEN hits ELSE hits + 1
    /\ hit' = [hit EXCEPT ![h] = "idle"]
    /\ buckets' = buckets + 1
    /\ Admit("memory", buckets + 1)
    /\ UNCHANGED <<chainVars, reliable, redis>>

\* The window of a counter is over.
KeyExpires ==
    /\ redis.ttl
    /\ redis' = [count |-> 0, ttl |-> FALSE] /\ admitted' = [admitted EXCEPT !.redis = 0]
    /\ UNCHANGED <<chainVars, reliable, buckets, hit, hits>>
BucketExpires ==
    /\ buckets > 0
    /\ buckets' = 0 /\ admitted' = [admitted EXCEPT !.memory = 0]
    /\ UNCHANGED <<chainVars, reliable, redis, hit, hits>>

ChainNext ==
    \/ \E p \in Providers : ResetTimeout(p)
    \/ \E c \in Callers : Begin(c) \/ TryProvider(c) \/ Transient(c) \/ Refused(c) \/ Unexpected(c) \/ Succeeds(c)
LimitNext ==
    \/ \E h \in Hits : Increment(h) \/ ExpireKey(h) \/ AllowInMemory(h)
    \/ KeyExpires \/ BucketExpires
ResilienceNext == ChainNext \/ LimitNext

\* A call is answered or times out (httpx, asyncio.timeout); Redis expires its keys.
ResilienceFairness ==
    /\ \A c \in Callers : WF_resilienceVars(TryProvider(c))
                          /\ WF_resilienceVars(Transient(c) \/ Refused(c) \/ Unexpected(c) \/ Succeeds(c))
    /\ \A h \in Hits : WF_resilienceVars(ExpireKey(h))
    /\ WF_resilienceVars(KeyExpires)
ResilienceSpec == ResilienceInit /\ [][ResilienceNext]_resilienceVars /\ ResilienceFairness
-----------------------------------------------------------------------------

\* A circuit is open since the third failure in a row, and until a success.
OpenSinceThirdFailure == \A p \in Providers : breaker[p].opened # "closed" <=> breaker[p].failures >= FailureThreshold

\* A call is given up only when no provider of the chain could answer it, each in its turn.
GivenUpByAll ==
    \A c \in Callers : /\ call[c].stage = "failed" => Len(call[c].tried) = N
                       /\ call[c].stage # "idle" => Len(call[c].tried) = call[c].at - 1

\* No window lets in more than its limit, whatever requests come together.
LimitHolds == admitted.redis <= Limit /\ admitted.memory <= Limit

\* A counter has an end, or the request that gives it one is under way.
CountersEnd == reliable /\ redis.count > 0 /\ ~ redis.ttl => \E h \in Hits : hit[h] = "counted"

\* Circuits, failover and limits under calls and requests that overlap (CircuitBreaker,
\* FallbackProvider, RateLimiter).
ResilienceIsSound == OpenSinceThirdFailure /\ GivenUpByAll /\ LimitHolds /\ CountersEnd

\* Every call comes to an end: a chain of retries, failovers and circuits, that other calls open
\* and close meanwhile, never holds a caller.
EveryCallEnds ==
    \A c \in Callers : call[c].stage \in {"next", "trying"} ~> call[c].stage \in {"answered", "failed", "broken"}
=============================================================================
