------------------------------- MODULE Gateway -------------------------------
(***************************************************************************)
(* One KELA AI gateway (app/kela_ai/gateway.py) with its three helpers:    *)
(* the per-pool key managers, the per-key circuit breaker and the per-key  *)
(* sliding-window rate limiter, the last two shared by all model pools.    *)
(*                                                                         *)
(* A gateway serves one request at a time: every caller builds its own     *)
(* (build_gateway) and awaits complete().  Between two awaits the code is  *)
(* synchronous, so the scan over the keys takes no time on the model's     *)
(* clock; the clock moves while the gateway is idle and while a chat call  *)
(* is awaited.  Build discards the gateway and makes a fresh one, which is *)
(* what the bot and the API do for each message or request.                *)
(***************************************************************************)
EXTENDS Integers, Sequences, FiniteSets

CONSTANTS
    Keys,             \* key names, e.g. OLLAMA_API_KEY_1, LLM_API_KEY_1
    NumPools,         \* number of configured models (AI_MODELS)
    PoolConfigs,      \* the key lists the environment may give the pools
    Replies,          \* what a chat call may end in
    KeyCooldown,      \* AI_KEY_COOLDOWN_SECONDS
    Threshold,        \* AI_CIRCUIT_FAILURE_THRESHOLD
    BreakerCooldown,  \* AI_CIRCUIT_COOLDOWN_SECONDS
    RateLimit,        \* AI_RATE_LIMIT_PER_MINUTE
    Window,           \* _WINDOW_SECONDS
    MaxTime,          \* bound: last instant of the clock
    MaxRequests,      \* bound: calls of complete(), over all gateways
    MaxBuilds         \* bound: gateways built one after the other

Pools == 1 .. NumPools

\* ollama_client: what each failing reply raises.  "garbled" is a 2xx body
\* whose normalisation raises something other than an OllamaError.
ErrorOf ==
    [timeout |-> "TIMEOUT", network |-> "NETWORK",
     http401 |-> "INVALID_CREDENTIALS", http403 |-> "FORBIDDEN",
     http429 |-> "RATE_LIMIT", http5xx |-> "SERVER", http4xx |-> "OTHER",
     nocontent |-> "OTHER"]

Failing == DOMAIN ErrorOf
AllReplies == Failing \cup {"ok", "garbled"}

ErrorCodes == {"TIMEOUT", "NETWORK", "INVALID_CREDENTIALS", "FORBIDDEN",
               "RATE_LIMIT", "SERVER", "OTHER"}
CooldownErrors == {"RATE_LIMIT", "SERVER", "TIMEOUT", "NETWORK", "FORBIDDEN"}
DisableErrors == {"INVALID_CREDENTIALS"}

Results == ErrorCodes \cup {"none", "ok", "NO_KEYS", "EXHAUSTED", "EXCEPTION"}
NoTime == -1

ASSUME GatewayAssumption ==
    /\ NumPools \in Nat \ {0}
    /\ PoolConfigs \subseteq [Pools -> Seq(Keys)]
    /\ \A c \in PoolConfigs : \A p \in Pools : \A i, j \in 1 .. Len(c[p]) :
          c[p][i] = c[p][j] => i = j
    /\ Replies \subseteq AllReplies
    /\ KeyCooldown \in Nat /\ BreakerCooldown \in Nat /\ Window \in Nat
    /\ Threshold \in Nat \ {0}
    /\ RateLimit \in Nat \ {0}
    /\ MaxTime \in Nat /\ MaxRequests \in Nat /\ MaxBuilds \in Nat \ {0}

VARIABLES
    names,          \* names[p]: the keys of pool p in failover order
    keyState,       \* keyState[p, k]: _state of p's key manager
    cooldownUntil,  \* cooldownUntil[p, k]: _cooldown_until
    hits,           \* hits[k]: the rate limiter's deque
    failures,       \* failures[k]: the breaker's _consecutive_failures
    cbState,        \* cbState[k]: the breaker's _state
    openedAt,       \* openedAt[k]: the breaker's _opened_at
    pc,             \* complete(): "idle", "scan" or "await"
    pool, idx,      \* the pool and the position in its list being looked at
    attempts,       \* chat calls made in this pool by this request
    lastError,      \* error code of the last of them
    result,         \* what the last finished request returned or raised
    now,            \* time.monotonic()
    gen,            \* how many gateways were built
    req,            \* history: how many requests were started
    log             \* history: the chat calls of this gateway, in order

keyVars == <<keyState, cooldownUntil>>
cbVars == <<failures, cbState, openedAt>>
runVars == <<pc, pool, idx, attempts, lastError, result>>
vars == <<names, keyVars, hits, cbVars, runVars, now, gen, req, log>>

-----------------------------------------------------------------------------
(* The helpers                                                             *)

\* OllamaKeyManager.state_of: an elapsed COOLDOWN reads as ACTIVE.  (The code
\* also stores ACTIVE then; as the clock never goes back, reading the state
\* through this operator is the same.)
StateOf(p, k) ==
    IF keyState[p, k] = "COOLDOWN" /\ now >= cooldownUntil[p, k]
    THEN "ACTIVE" ELSE keyState[p, k]

KeysOf(p) == {names[p][i] : i \in 1 .. Len(names[p])}
Configured(p) == names[p] # <<>>
AvailableKey(p) == \E k \in KeysOf(p) : StateOf(p, k) = "ACTIVE"

\* Fault: the window is taken half open.
RecentStrict(t) == t > now - Window

\* SlidingWindowRateLimiter._prune: popleft as long as the head is too old.
Recent(t) == t >= now - Window
FirstRecent(k) ==
    CHOOSE i \in 1 .. Len(hits[k]) + 1 :
        /\ i <= Len(hits[k]) => Recent(hits[k][i])
        /\ \A j \in 1 .. i - 1 : ~Recent(hits[k][j])
Pruned(k) == SubSeq(hits[k], FirstRecent(k), Len(hits[k]))

\* Fault: one token too many.
LimitedLate(k) == Len(Pruned(k)) > RateLimit
Limited(k) == Len(Pruned(k)) >= RateLimit
TakeToken(k) == hits' = [hits EXCEPT ![k] = Append(Pruned(k), now)]

\* CircuitBreaker.state_of and allow
BreakerState(k) ==
    IF cbState[k] = "OPEN" /\ now - openedAt[k] >= BreakerCooldown
    THEN "HALF_OPEN" ELSE cbState[k]
BreakerAllows(k) == BreakerState(k) # "OPEN"

MarkSuccess(p, k) ==
    /\ keyState' = [keyState EXCEPT ![<<p, k>>] = "ACTIVE"]
    /\ cooldownUntil' = [cooldownUntil EXCEPT ![<<p, k>>] = 0]

MarkFailure(p, k, code) ==
    /\ keyState' = [keyState EXCEPT ![<<p, k>>] =
          IF code \in DisableErrors THEN "DISABLED"
          ELSE IF code \in CooldownErrors THEN "COOLDOWN" ELSE @]
    /\ cooldownUntil' = [cooldownUntil EXCEPT ![<<p, k>>] =
          IF code \in CooldownErrors THEN now + KeyCooldown ELSE @]

\* Fault: closing the circuit keeps the failure count.
RecordSuccessKeepsCount(k) ==
    /\ failures' = failures
    /\ cbState' = [cbState EXCEPT ![k] = "CLOSED"]
    /\ openedAt' = [openedAt EXCEPT ![k] = NoTime]

RecordSuccess(k) ==
    /\ failures' = [failures EXCEPT ![k] = 0]
    /\ cbState' = [cbState EXCEPT ![k] = "CLOSED"]
    /\ openedAt' = [openedAt EXCEPT ![k] = NoTime]

\* a failed probe, or the last failure of a row
Trips(k) == cbState[k] = "HALF_OPEN" \/ failures[k] + 1 >= Threshold

RecordFailure(k) ==
    /\ failures' = [failures EXCEPT ![k] = @ + 1]
    /\ cbState' = [cbState EXCEPT ![k] = IF Trips(k) THEN "OPEN" ELSE @]
    /\ openedAt' = [openedAt EXCEPT ![k] = IF Trips(k) THEN now ELSE @]

-----------------------------------------------------------------------------
(* build_gateway                                                           *)

FreshKeys == [pk \in Pools \X Keys |-> "ACTIVE"]

Init ==
    /\ names \in PoolConfigs
    /\ keyState = FreshKeys
    /\ cooldownUntil = [pk \in Pools \X Keys |-> 0]
    /\ hits = [k \in Keys |-> <<>>]
    /\ failures = [k \in Keys |-> 0]
    /\ cbState = [k \in Keys |-> "CLOSED"]
    /\ openedAt = [k \in Keys |-> NoTime]
    /\ pc = "idle" /\ pool = 1 /\ idx = 1
    /\ attempts = 0 /\ lastError = "none" /\ result = "none"
    /\ now = 0 /\ gen = 1 /\ req = 0
    /\ log = <<>>

\* The next message or API request builds a gateway of its own.
Build ==
    /\ pc = "idle"
    /\ gen < MaxBuilds
    /\ gen' = gen + 1
    /\ keyState' = FreshKeys
    /\ cooldownUntil' = [pk \in Pools \X Keys |-> 0]
    /\ hits' = [k \in Keys |-> <<>>]
    /\ failures' = [k \in Keys |-> 0]
    /\ cbState' = [k \in Keys |-> "CLOSED"]
    /\ openedAt' = [k \in Keys |-> NoTime]
    /\ result' = "none" /\ log' = <<>>
    /\ UNCHANGED <<names, pc, pool, idx, attempts, lastError, now, req>>

-----------------------------------------------------------------------------
(* complete and _complete_with_pool                                        *)

EnterPool(p) ==
    /\ pool' = p
    /\ idx' = 1
    /\ attempts' = 0
    /\ lastError' = "none"

\* complete() is called; the pools without keys are passed over.
Complete ==
    /\ pc = "idle"
    /\ req < MaxRequests
    /\ \E p \in Pools :
          /\ Configured(p)
          /\ \A q \in Pools : Configured(q) => p <= q
          /\ EnterPool(p)
    /\ pc' = "scan"
    /\ result' = "none"
    /\ req' = req + 1
    /\ UNCHANGED <<names, keyVars, hits, cbVars, now, gen, log>>

\* complete() on a gateway without a single key.
CompleteWithoutKeys ==
    /\ pc = "idle"
    /\ \A p \in Pools : ~Configured(p)
    /\ result' = "NO_KEYS"
    /\ UNCHANGED <<names, keyVars, hits, cbVars, pc, pool, idx, attempts,
                   lastError, now, gen, req, log>>

Key == names[pool][idx]
AtKey == pc = "scan" /\ idx <= Len(names[pool]) /\ AvailableKey(pool)

\* `continue`: the key is not ACTIVE.
SkipInactive ==
    /\ AtKey
    /\ StateOf(pool, Key) # "ACTIVE"
    /\ idx' = idx + 1
    /\ UNCHANGED <<names, keyVars, hits, cbVars, pc, pool, attempts, lastError,
                   result, now, gen, req, log>>

\* Fault: the scan stops at a key out of tokens instead of moving on.
SkipLimitedStops ==
    /\ AtKey
    /\ StateOf(pool, Key) = "ACTIVE"
    /\ Limited(Key)
    /\ hits' = [hits EXCEPT ![Key] = Pruned(Key)]
    /\ idx' = Len(names[pool]) + 1
    /\ UNCHANGED <<names, keyVars, cbVars, pc, pool, attempts, lastError,
                   result, now, gen, req, log>>

\* `continue`: the rate limiter refuses.  Its deque is pruned all the same.
SkipLimited ==
    /\ AtKey
    /\ StateOf(pool, Key) = "ACTIVE"
    /\ Limited(Key)
    /\ hits' = [hits EXCEPT ![Key] = Pruned(Key)]
    /\ idx' = idx + 1
    /\ UNCHANGED <<names, keyVars, cbVars, pc, pool, attempts, lastError,
                   result, now, gen, req, log>>

\* `continue`: the breaker refuses, after the limiter has taken a token.
SkipOpen ==
    /\ AtKey
    /\ StateOf(pool, Key) = "ACTIVE"
    /\ ~Limited(Key)
    /\ TakeToken(Key)
    /\ ~BreakerAllows(Key)
    /\ idx' = idx + 1
    /\ UNCHANGED <<names, keyVars, cbVars, pc, pool, attempts, lastError,
                   result, now, gen, req, log>>

\* `await pool.client.chat(...)`
Send ==
    /\ AtKey
    /\ StateOf(pool, Key) = "ACTIVE"
    /\ ~Limited(Key)
    /\ TakeToken(Key)
    /\ BreakerAllows(Key)
    /\ cbState' = [cbState EXCEPT ![Key] = BreakerState(Key)]
    /\ attempts' = attempts + 1
    /\ log' = Append(log, [req |-> req, pool |-> pool, pos |-> idx,
                           key |-> Key, sent |-> now, done |-> NoTime,
                           reply |-> "pending"])
    /\ pc' = "await"
    /\ UNCHANGED <<names, keyVars, failures, openedAt, pool, idx, lastError,
                   result, now, gen, req>>

Logged(reply) ==
    log' = [log EXCEPT ![Len(log)].done = now, ![Len(log)].reply = reply]

\* The chat call returns: the request is served.
AnswerOk ==
    /\ pc = "await"
    /\ "ok" \in Replies
    /\ MarkSuccess(pool, Key)
    /\ RecordSuccess(Key)
    /\ Logged("ok")
    /\ pc' = "idle" /\ result' = "ok"
    /\ UNCHANGED <<names, hits, pool, idx, attempts, lastError, now, gen, req>>

\* The chat call raises an OllamaError: on to the next key.
AnswerError ==
    /\ pc = "await"
    /\ \E reply \in Replies \cap Failing :
          /\ MarkFailure(pool, Key, ErrorOf[reply])
          /\ RecordFailure(Key)
          /\ lastError' = ErrorOf[reply]
          /\ Logged(reply)
    /\ pc' = "scan" /\ idx' = idx + 1
    /\ UNCHANGED <<names, hits, pool, attempts, result, now, gen, req>>

\* Any other exception leaves complete() with nothing recorded.
AnswerEscapes ==
    /\ pc = "await"
    /\ "garbled" \in Replies
    /\ Logged("garbled")
    /\ pc' = "idle" /\ result' = "EXCEPTION"
    /\ UNCHANGED <<names, keyVars, hits, cbVars, pool, idx, attempts, lastError,
                   now, gen, req>>

\* The end of the loop over the pool's keys, or its `break`.
PoolDone ==
    /\ pc = "scan"
    /\ idx > Len(names[pool]) \/ ~AvailableKey(pool)

PoolCode == IF attempts = 0 THEN "EXHAUSTED" ELSE lastError

\* Fault: a pool that failed is entered again.
LaterOrSame(p) == p >= pool /\ Configured(p)

\* Fault: the next pool is any other pool.
OtherPool(p) == p # pool /\ Configured(p)
Later(p) == p > pool /\ Configured(p)

NextPool ==
    /\ PoolDone
    /\ \E p \in Pools :
          /\ Later(p)
          /\ \A q \in Pools : Later(q) => p <= q
          /\ EnterPool(p)
    /\ UNCHANGED <<names, keyVars, hits, cbVars, pc, result, now, gen, req, log>>

\* AIUnavailable carries the code of the last pool.
GiveUp ==
    /\ PoolDone
    /\ \A p \in Pools : ~Later(p)
    /\ pc' = "idle" /\ result' = PoolCode
    /\ UNCHANGED <<names, keyVars, hits, cbVars, pool, idx, attempts, lastError,
                   now, gen, req, log>>

-----------------------------------------------------------------------------

Tick ==
    /\ pc # "scan"
    /\ now < MaxTime
    /\ now' = now + 1
    /\ UNCHANGED <<names, keyVars, hits, cbVars, runVars, gen, req, log>>

\* The bounds are used up: the model stops here, the gateway would not.
Terminated ==
    /\ pc = "idle" /\ now = MaxTime /\ req = MaxRequests /\ gen = MaxBuilds
    /\ UNCHANGED vars

Scan == SkipInactive \/ SkipLimited \/ SkipOpen \/ Send \/ NextPool \/ GiveUp
Answer == AnswerOk \/ AnswerError \/ AnswerEscapes

Next == Build \/ Complete \/ CompleteWithoutKeys \/ Scan \/ Answer \/ Tick
        \/ Terminated

Spec == Init /\ [][Next]_vars

\* The scan is synchronous code, and every chat call carries a timeout
\* (ai_timeout_seconds), so it ends.
FairSpec == Spec /\ WF_vars(Scan) /\ WF_vars(Answer)

-----------------------------------------------------------------------------
(* Properties                                                              *)

Call == [req : Nat, pool : Pools, pos : Nat, key : Keys, sent : Nat,
         done : Nat \cup {NoTime}, reply : AllReplies \cup {"pending"}]

\* Every variable stays in its range, and no deque of the rate limiter ever
\* holds more than RateLimit tokens (rate_limiter.allow).
TypeOK ==
    /\ names \in PoolConfigs
    /\ keyState \in [Pools \X Keys -> {"ACTIVE", "COOLDOWN", "DISABLED"}]
    /\ cooldownUntil \in [Pools \X Keys -> Nat]
    /\ hits \in [Keys -> Seq(Nat)]
    /\ \A k \in Keys : Len(hits[k]) <= RateLimit
    /\ failures \in [Keys -> Nat]
    /\ cbState \in [Keys -> {"CLOSED", "OPEN", "HALF_OPEN"}]
    /\ openedAt \in [Keys -> Nat \cup {NoTime}]
    /\ pc \in {"idle", "scan", "await"}
    /\ pool \in Pools /\ idx \in Nat \ {0} /\ attempts \in Nat
    /\ lastError \in ErrorCodes \cup {"none"} /\ result \in Results
    /\ now \in Nat /\ gen \in Nat /\ req \in Nat
    /\ log \in Seq(Call)

\* The breaker's three fields agree in every state: a key's circuit is CLOSED
\* exactly while it has fewer than Threshold failures in a row, it has an
\* opening time exactly while it is not CLOSED, and it is HALF_OPEN only once
\* the cooldown that followed that opening is over (circuit_breaker.py).
BreakerTracksFailures ==
    \A k \in Keys :
        /\ cbState[k] = "CLOSED" <=> failures[k] < Threshold
        /\ cbState[k] = "CLOSED" <=> openedAt[k] = NoTime
        /\ cbState[k] = "HALF_OPEN" => now - openedAt[k] >= BreakerCooldown

\* Calls i and j, in this order, with one key.
Followed(i, j) == i < j /\ log[i].key = log[j].key

\* Failing calls with call i's key, up to i, since the last that succeeded.
FailuresUpTo(i) ==
    {h \in 1 .. i :
        /\ h = i \/ Followed(h, i)
        /\ log[h].reply \in Failing
        /\ \A g \in h .. i : Followed(h, g) => log[g].reply # "ok"}

\* Once a key has failed Threshold times in a row, whatever pools the calls
\* came from, each further failure is followed by BreakerCooldown of silence
\* on that key (gateway.py: the breaker is asked before every chat call).
ProbesSpaced ==
    \A i, j \in 1 .. Len(log) :
        /\ Followed(i, j)
        /\ log[i].reply \in Failing
        /\ Cardinality(FailuresUpTo(i)) >= Threshold
        => log[j].sent - log[i].done >= BreakerCooldown

\* After 429, 5xx, a timeout, a network error or 403 a pool leaves the key
\* alone for KeyCooldown, and after 401 for good, as long as this gateway
\* lives (key_manager.mark_failure and the scan of _complete_with_pool).
CooldownRespected ==
    \A i, j \in 1 .. Len(log) :
        /\ Followed(i, j)
        /\ log[i].pool = log[j].pool
        /\ log[i].reply \in Failing
        => LET code == ErrorOf[log[i].reply] IN
           /\ code # "INVALID_CREDENTIALS"
           /\ code # "OTHER" => log[j].sent - log[i].done >= KeyCooldown

\* A gateway makes at most RateLimit calls with one key in any Window, over
\* all its pools together (rate_limiter.allow is keyed by name alone).
RateRespected ==
    \A i, j \in 1 .. Len(log) :
        /\ Followed(i, j)
        /\ Cardinality({h \in i .. j : h = j \/ Followed(h, j)}) > RateLimit
        => log[j].sent - log[i].sent > Window

\* Within one request the calls go through the pools, and through each pool's
\* keys, in order and without repetition, and every call but the last failed
\* with an OllamaError (gateway.complete: failover).
FailoverOrder ==
    \A i, j \in 1 .. Len(log) :
        i < j /\ log[i].req = log[j].req =>
            /\ log[i].reply \in Failing
            /\ \/ log[i].pool < log[j].pool
               \/ log[i].pool = log[j].pool /\ log[i].pos < log[j].pos

CallsOf(r) == {i \in 1 .. Len(log) : log[i].req = r}

\* What a finished request reports is what happened to it: "ok" exactly if a
\* call of its own succeeded, an OllamaError code if its last configured pool
\* was called and failed last with that code, EXHAUSTED if no key of that
\* pool could be called (gateway.complete and the errors it raises).
ResultMatchesCalls ==
    pc = "idle" /\ result \notin {"none", "NO_KEYS"} =>
        LET calls == CallsOf(req)
            last == CHOOSE i \in calls : \A j \in calls : j <= i
            lastPool == CHOOSE p \in Pools :
                /\ Configured(p)
                /\ \A q \in Pools : Configured(q) => q <= p
        IN  /\ result = "ok" <=> \E i \in calls : log[i].reply = "ok"
            /\ result = "EXHAUSTED" =>
                  \A i \in calls : log[i].pool # lastPool
            /\ result \in ErrorCodes =>
                  /\ calls # {}
                  /\ log[last].pool = lastPool
                  /\ ErrorOf[log[last].reply] = result

\* What the limits owe to the provider and the report to the caller, together.
CallsJustified ==
    ProbesSpaced /\ CooldownRespected /\ RateRespected /\ ResultMatchesCalls

\* A pool is left without a single call (which is how a request comes to report
\* EXHAUSTED) only if, at that moment, each of its keys is cooling down or
\* disabled, out of tokens, or behind an open circuit: no usable key was passed
\* over (the `continue`s of _complete_with_pool).
NoUsableKeyPassedOver ==
    [][pc = "scan" /\ attempts = 0 /\ (pool' # pool \/ pc' = "idle") =>
          \A k \in KeysOf(pool) :
              StateOf(pool, k) # "ACTIVE" \/ Limited(k) \/ ~BreakerAllows(k)]_vars

\* Every request ends, whatever the provider answers (gateway.complete).
RequestsEnd == pc # "idle" ~> pc = "idle"

=============================================================================
