--------------------------- MODULE ProviderClient ---------------------------
(***************************************************************************)
(* One call of MarketDataProvider._request_json: the host is resolved and  *)
(* checked once, then the request is sent until it is answered, refused,   *)
(* or out of attempts.  All reasons to try again share the attempts, but   *)
(* not the pause before the next one.  A reply is what the code tells      *)
(* apart of a response or of the exception that stands for it.  Pauses are *)
(* in ticks of the clock.                                                  *)
(***************************************************************************)
EXTENDS Integers, Sequences

CONSTANTS
    MaxAttempts,  \* max_attempts
    RetryBase,    \* retry_base_seconds
    RetryCap,     \* 30 seconds
    RetryAsks,    \* bound: the seconds that Retry-After headers ask for
    NoAsk         \* no Retry-After header, or none that float() reads

ASSUME ClientAssumption ==
    /\ MaxAttempts \in Nat \ {0}
    /\ RetryBase \in Nat /\ RetryCap \in Nat
    /\ RetryAsks \subseteq Int

\* transient: a status of 429 or 5xx.  transport: the connection fails.
\* refused: another status of 400 or more, a content type, a length or a body
\* that is not taken; ok: a JSON list or object.
Replies ==
    [kind : {"ok", "refused", "transport"}, ask : {NoAsk}]
        \cup [kind : {"transient"}, ask : RetryAsks \cup {NoAsk}]

Retryable(reply) == reply.kind \in {"transient", "transport"}

\* The exponential pause after an attempt.
Backoff(n) == RetryBase * (2 ^ (n - 1))

\* _retry_after_seconds: what a header asks for, within 0 and RetryCap.
RetryAfter(ask) ==
    IF ask < 0 THEN 0 ELSE IF ask > RetryCap THEN RetryCap ELSE ask

\* Mutant of Pause: the pause a server asks for is not kept.
PauseBackoff(reply, n) == Backoff(n)

\* The sleep after a reply to attempt n.
Pause(reply, n) ==
    IF reply.ask = NoAsk THEN Backoff(n) ELSE RetryAfter(reply.ask)

VARIABLES
    phase,      \* "resolving", "sending", "sleeping" or "ended"
    attempt,    \* attempt
    left,       \* what is left of the sleep
    slept,      \* history: the sleep since the last reply
    exchanges,  \* history: replies, and the sleep before each request
    outcome     \* "none", "returned" or "raised"

requestVars == <<phase, attempt, left, slept, exchanges, outcome>>
-----------------------------------------------------------------------------
RequestInit ==
    /\ phase = "resolving" /\ attempt = 1 /\ left = 0 /\ slept = 0
    /\ exchanges = <<>> /\ outcome = "none"

\* _resolve_public_addresses; a failure is not tried again.
Resolve ==
    /\ phase = "resolving"
    /\ \/ phase' = "sending" /\ outcome' = "none"
       \/ phase' = "ended" /\ outcome' = "raised"
    /\ UNCHANGED <<attempt, left, slept, exchanges>>

\* Mutant of AttemptsLeft: the last attempt is not used.
AttemptsLeftOneLess == attempt + 1 < MaxAttempts

AttemptsLeft == attempt < MaxAttempts

\* One round of the loop, up to its sleep: the response or the exception.
Send(reply) ==
    /\ phase = "sending"
    /\ exchanges' = Append(exchanges, [reply |-> reply, slept |-> slept])
    /\ slept' = 0
    /\ \/ /\ reply.kind = "ok"
          /\ phase' = "ended" /\ outcome' = "returned" /\ left' = 0
       \/ /\ Retryable(reply) /\ AttemptsLeft
          /\ phase' = "sleeping" /\ left' = Pause(reply, attempt)
          /\ UNCHANGED outcome
       \/ /\ reply.kind = "refused" \/ (Retryable(reply) /\ ~AttemptsLeft)
          /\ phase' = "ended" /\ outcome' = "raised" /\ left' = 0
    /\ UNCHANGED attempt

Sleep ==
    /\ phase = "sleeping" /\ left > 0
    /\ left' = left - 1 /\ slept' = slept + 1
    /\ UNCHANGED <<phase, attempt, exchanges, outcome>>

Wake ==
    /\ phase = "sleeping" /\ left = 0
    /\ phase' = "sending" /\ attempt' = attempt + 1
    /\ UNCHANGED <<left, slept, exchanges, outcome>>

RequestNext == Resolve \/ (\E r \in Replies : Send(r)) \/ Sleep \/ Wake

RequestSpec == RequestInit /\ [][RequestNext]_requestVars
-----------------------------------------------------------------------------
(* Properties. *)

RequestTypeOK ==
    /\ phase \in {"resolving", "sending", "sleeping", "ended"}
    /\ attempt \in 1..MaxAttempts
    /\ left \in Int /\ slept \in Int
    /\ exchanges \in Seq([reply : Replies, slept : Int])
    /\ outcome \in {"none", "returned", "raised"}

\* A call raises only for a reason: the host was not accepted, a reply was
\* refused, or every attempt was used on replies that may be tried again,
\* whatever mixture of them; and it never sends again after a reply that
\* decides (_request_json).
RaisesOnlySpent ==
    /\ \A i \in 1..(Len(exchanges) - 1) : Retryable(exchanges[i].reply)
    /\ outcome = "raised" =>
        \/ exchanges = <<>>
        \/ exchanges[Len(exchanges)].reply.kind = "refused"
        \/ /\ Len(exchanges) = MaxAttempts
           /\ Retryable(exchanges[MaxAttempts].reply)
    /\ outcome = "returned" =>
        exchanges # <<>> /\ exchanges[Len(exchanges)].reply.kind = "ok"

\* A request is sent again only after the pause that its last reply asked
\* for, up to the cap, or after the exponential one if it asked for none; no
\* pause is longer than the cap and the exponential one; and nobody waits when
\* no attempt is left (_request_json, _retry_after_seconds).
PausesKept ==
    /\ \A i \in 1..(Len(exchanges) - 1) :
        LET ask == exchanges[i].reply.ask
            pause == exchanges[i + 1].slept
        IN  /\ ask = NoAsk => pause = Backoff(i)
            /\ ask # NoAsk /\ ask \in 0..RetryCap => pause = ask
            /\ pause = Backoff(i) \/ pause \in 0..RetryCap
    /\ exchanges # <<>> => exchanges[1].slept = 0
    /\ phase = "ended" => slept = 0
=============================================================================
