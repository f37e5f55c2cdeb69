--------------------------- MODULE AlertRegistry ---------------------------
(***************************************************************************)
(* AlertRegistry: which rules a snapshot meets, and which of those are not *)
(* told again because the same was told less than a cooldown ago.  What    *)
(* was told is a function from keys to times, in memory only.              *)
(***************************************************************************)
EXTENDS Integers, FiniteSets

CONSTANTS
    Horizons,  \* the horizons of snapshots
    Cooldown   \* cooldown, in ticks of the clock

ASSUME CooldownAssumption == Cooldown \in Nat

AlertRules == {"regime_strong_bull", "distribution_risk", "data_degraded"}

\* What the rules ask of a RegimeSnapshot: whether its output is blocked, a
\* bull score of 72 with conviction, a distribution risk of 75.
Snapshots ==
    [horizon : Horizons, blocked : BOOLEAN, bull : BOOLEAN, distribution : BOOLEAN]

Conditions(s) ==
    {r \in AlertRules :
        \/ r = "regime_strong_bull" /\ ~s.blocked /\ s.bull
        \/ r = "distribution_risk" /\ ~s.blocked /\ s.distribution
        \/ r = "data_degraded" /\ s.blocked}

\* dedupe_key; there is one asset.
Keys == AlertRules \X Horizons

\* Nothing was told yet.
FreshRegistry == [k \in {} |-> 0]

\* evaluate: the keys that are told at a time.
Told(registry, s, now) ==
    {k \in Conditions(s) \X {s.horizon} :
        k \in DOMAIN registry => now - registry[k] >= Cooldown}

\* evaluate: what is remembered then, before anything is delivered.
Remembered(registry, s, now) ==
    [k \in DOMAIN registry \cup Told(registry, s, now) |->
        IF k \in Told(registry, s, now) THEN now ELSE registry[k]]
=============================================================================
