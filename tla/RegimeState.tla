---------------------------- MODULE RegimeState ----------------------------
(***************************************************************************)
(* regime_state_v1: the regime of a feature row.  The signals a policy     *)
(* names are taken from the row's features, scaled and clipped; a list of  *)
(* rules, of which the first that applies wins, names the regime.          *)
(*                                                                         *)
(* Numbers are in hundredths.  The ids and the confidence of a RegimeState *)
(* are left out: nothing is decided by them.                               *)
(***************************************************************************)
EXTENDS Integers, Sequences, FiniteSets

CONSTANT RegimePolicy  \* a RegimeClassifierPolicy

SignalNames ==
    {"trend", "relative_strength", "spot_flow", "leverage", "crowding",
     "deleveraging", "breakout", "distribution", "volatility",
     "drawdown_stress", "liquidity"}

\* RegimeClassifierPolicy, with one RegimeSignalSpec for every signal.
RegimePolicies ==
    [center : [SignalNames -> Int], scale : [SignalNames -> Nat \ {0}],
     direction : [SignalNames -> {-1, 1}],
     required : SUBSET SignalNames, coverage : 1..100,
     breakout : 0..100, failedBreakout : -100..-1, deleveraging : 0..100,
     distribution : 0..100, crowding : 0..100, expansionTrend : 0..100,
     spotFlow : 0..100, leverage : 0..100, capitulationTrend : -100..-1,
     capitulationVolatility : 0..100, capitulationDrawdown : 0..100,
     recoveryTrend : 0..100, riskOnLiquidity : 0..100,
     accumulationTrend : 0..100]

\* canonical_regime_policy, with the defaults of RegimeClassifierPolicy.
CanonicalRegimePolicy ==
    [center |-> [s \in SignalNames |-> 0],
     scale |-> [s \in SignalNames |->
                  IF s = "trend" THEN 30 ELSE IF s = "relative_strength" THEN 25
                  ELSE IF s = "volatility" THEN 200 ELSE 100],
     direction |-> [s \in SignalNames |-> 1],
     required |-> {"trend", "relative_strength"}, coverage |-> 70,
     breakout |-> 65, failedBreakout |-> -55, deleveraging |-> 60,
     distribution |-> 60, crowding |-> 60, expansionTrend |-> 35,
     spotFlow |-> 40, leverage |-> 45, capitulationTrend |-> -65,
     capitulationVolatility |-> 55, capitulationDrawdown |-> 55,
     recoveryTrend |-> 15, riskOnLiquidity |-> 35, accumulationTrend |-> 25]

ASSUME RegimeAssumption == RegimePolicy \in RegimePolicies
-----------------------------------------------------------------------------
\* What RegimeSignalSpec.transform finds in a row: the features it has, as a
\* function from the signals made of them.
IsFeatures(f) == DOMAIN f \subseteq SignalNames /\ f \in [DOMAIN f -> Int]

Clip(v) == IF v < -100 THEN -100 ELSE IF v > 100 THEN 100 ELSE v

Transform(s, v) ==
    Clip((RegimePolicy.direction[s] * (v - RegimePolicy.center[s]) * 100)
            \div RegimePolicy.scale[s])

Extracted(feature) == [s \in DOMAIN feature |-> Transform(s, feature[s])]

Has(signals, S) == S \subseteq DOMAIN signals

\* _signal: what is read of a signal that is not there is the default, 0.
Signal(signals, s, default) ==
    IF s \in DOMAIN signals THEN signals[s] ELSE default

\* The rules in the order in which they are tried.
Rules ==
    <<"FAILED_BREAKOUT", "DELEVERAGING", "CAPITULATION", "LONG_CROWDING",
      "DISTRIBUTION", "BREAKOUT", "SPOT_LED_EXPANSION", "LEVERAGED_EXPANSION",
      "RECOVERY", "RISK_ON", "ACCUMULATION">>

Regimes == {Rules[n] : n \in DOMAIN Rules} \cup {"NO_DATA"}

Applies(rule, signals, default) ==
    LET P == RegimePolicy
        v(s) == Signal(signals, s, default)
        has(S) == Has(signals, S)
    IN  CASE rule = "FAILED_BREAKOUT" ->
               has({"breakout"}) /\ v("breakout") <= P.failedBreakout
          [] rule = "DELEVERAGING" ->
               has({"deleveraging"}) /\ v("deleveraging") >= P.deleveraging
          [] rule = "CAPITULATION" ->
               /\ has({"trend", "volatility", "drawdown_stress"})
               /\ v("trend") <= P.capitulationTrend
               /\ v("volatility") >= P.capitulationVolatility
               /\ v("drawdown_stress") >= P.capitulationDrawdown
          [] rule = "LONG_CROWDING" ->
               /\ has({"crowding", "leverage"})
               /\ v("crowding") >= P.crowding /\ v("leverage") >= P.leverage
          [] rule = "DISTRIBUTION" ->
               has({"distribution"}) /\ v("distribution") >= P.distribution
          [] rule = "BREAKOUT" ->
               /\ has({"breakout", "trend"})
               /\ v("breakout") >= P.breakout /\ v("trend") >= P.expansionTrend
          [] rule = "SPOT_LED_EXPANSION" ->
               /\ has({"trend", "spot_flow", "leverage"})
               /\ v("trend") >= P.expansionTrend /\ v("spot_flow") >= P.spotFlow
               /\ v("leverage") < P.leverage
          [] rule = "LEVERAGED_EXPANSION" ->
               /\ has({"trend", "leverage", "crowding"})
               /\ v("trend") >= P.expansionTrend /\ v("leverage") >= P.leverage
               /\ v("crowding") < P.crowding
          [] rule = "RECOVERY" ->
               /\ has({"trend", "drawdown_stress"})
               /\ v("trend") >= P.recoveryTrend /\ v("drawdown_stress") >= 30
          [] rule = "RISK_ON" ->
               /\ has({"liquidity", "trend", "relative_strength"})
               /\ v("liquidity") >= P.riskOnLiquidity
               /\ v("trend") >= P.recoveryTrend
               /\ v("relative_strength") >= 0
          [] rule = "ACCUMULATION" ->
               /\ has({"trend", "spot_flow", "leverage", "distribution"})
               /\ v("trend") \in -P.accumulationTrend..P.accumulationTrend
               /\ v("spot_flow") >= 10 /\ v("leverage") < P.leverage
               /\ v("distribution") < P.distribution

\* Enough of the signals are there to try the rules.
Covered(signals) ==
    /\ RegimePolicy.required \subseteq DOMAIN signals
    /\ 100 * Cardinality(DOMAIN signals) >=
       RegimePolicy.coverage * Cardinality(SignalNames)

\* The rules that apply and that no earlier one beats.
Winning(signals, default) ==
    {n \in DOMAIN Rules :
        /\ Applies(Rules[n], signals, default)
        /\ \A m \in 1..(n - 1) : ~Applies(Rules[m], signals, default)}

RegimeReading(signals, default) ==
    IF Covered(signals) /\ Winning(signals, default) # {}
      THEN Rules[CHOOSE n \in Winning(signals, default) : TRUE]
      ELSE "NO_DATA"

\* classify_regime.
Classify(signals) == RegimeReading(signals, 0)
=============================================================================
