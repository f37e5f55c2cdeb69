------------------------- MODULE MCAnalogChallenger -------------------------
(* An instance of AnalogChallenger for TLC.  It has two parts: three rows    *)
(* with all that features and labels handed over again can do, and the      *)
(* verdict, over four rows of which one fold tests three.                   *)
EXTENDS AnalogChallenger

\* Rows whose labels are resolved before the next prediction, or too late.
MCTimes == <<1, 4, 7, 10>>
MCRows(late) ==
    [i \in DOMAIN late |-> [predicted |-> MCTimes[i],
                            resolved |-> MCTimes[i] + late[i]]]
MCVerdictRows == MCRows(<<1, 1, 1, 1>>)
MCDatasets ==
    {MCRows(late) : late \in {<<1, 1, 1>>, <<4, 1, 1>>, <<1, 4, 1>>}}
    \cup {MCVerdictRows}

VerdictSize == 3

InVerdict == rows = MCVerdictRows

\* One test row or two, or the three of the verdict; steps of the same size,
\* windows that keep all rows: BaselineOOS is checked with all configurations.
MCInit ==
    /\ ChallengeInit
    /\ config.minTrain = 1 /\ config.step = None /\ ~config.rolling
    /\ InVerdict <=> config.testSize = VerdictSize

\* B0 and B2 (momentum), which needs features.
MCKinds == <<0, 2>>

\* -ln(s / 50) in hundredths: of three rows, one score of 9 for what happened
\* and two of 41 make smaller squared errors than three of 25, and a larger
\* log loss.
MCLoss == (9 :> 171) @@ (25 :> 69) @@ (41 :> 20)

\* Features of a spot-led expansion, in hundredths; the policy asks for eight.
Expansion ==
    ("trend" :> 15) @@ ("relative_strength" :> 5) @@ ("spot_flow" :> 70)
    @@ ("leverage" :> 10) @@ ("crowding" :> 5) @@ ("deleveraging" :> 0)
    @@ ("breakout" :> 0) @@ ("distribution" :> 0) @@ ("liquidity" :> 20)

Capitulation ==
    ("trend" :> -24) @@ ("relative_strength" :> -5) @@ ("leverage" :> 20)
    @@ ("deleveraging" :> 0) @@ ("breakout" :> 0) @@ ("distribution" :> 0)
    @@ ("volatility" :> 160) @@ ("drawdown_stress" :> 80)

Without(feature, s) == [x \in DOMAIN feature \ {s} |-> feature[x]]

\* Two regimes, and a row that has none for want of a required signal.
MCExpansion == [features |-> Expansion, universe |-> "u1"]
MCCapitulation == [features |-> Capitulation, universe |-> "u2"]
MCUnread ==
    [features |-> Without(Expansion, "relative_strength"), universe |-> "u1"]
MCProfiles == {MCExpansion, MCCapitulation, MCUnread}

MCFeatureSets ==
    {<<MCExpansion, MCExpansion, MCExpansion>>,
     <<MCExpansion, MCCapitulation, MCExpansion>>,
     <<MCExpansion, MCExpansion, MCUnread>>,
     <<MCCapitulation, MCExpansion, MCExpansion>>,
     <<MCExpansion, MCExpansion, MCExpansion, MCExpansion>>,
     <<MCExpansion, MCExpansion, MCExpansion, MCUnread>>}

MCBase ==
    [k |-> 1, minHistory |-> 1, metric |-> "EUCLIDEAN", sameRegime |-> TRUE,
     keys |-> {}, excluded |-> {}, lookback |-> 0, universes |-> {}]

\* Metrics and an ablation, as the default policy varies them.
MCDefault ==
    [base |-> MCBase, requireStable |-> TRUE,
     metrics |-> <<"EUCLIDEAN", "COSINE">>,
     ablations |-> <<{}, {"relative_strength"}>>, lookbacks |-> <<0>>,
     filters |-> <<{}>>,
     minReady |-> 3, minOverlap |-> 40, minAgreement |-> 60,
     minSample |-> 2, minClass |-> 1, maxSuppressed |-> 50]

\* Any regime, recent rows of one universe, no scenarios.
MCRestricted ==
    [MCDefault EXCEPT
        !.base = [MCBase EXCEPT !.sameRegime = FALSE, !.lookback = 4,
                                !.universes = {"u1"}],
        !.requireStable = FALSE]

\* Named signals, one of which a scenario leaves out; a metric given twice.
MCNamed ==
    [MCDefault EXCEPT
        !.base = [MCBase EXCEPT !.sameRegime = FALSE,
                                !.keys = {"trend", "relative_strength"}],
        !.metrics = <<"EUCLIDEAN", "EUCLIDEAN">>]

\* For the verdict: all three rows are asked for, or two of them, or no more
\* than a third suppressed.
MCVerdictPolicy == [MCDefault EXCEPT !.requireStable = FALSE]
MCVerdictPolicies ==
    {[MCVerdictPolicy EXCEPT !.minSample = 3],
     MCVerdictPolicy,
     [MCVerdictPolicy EXCEPT !.maxSuppressed = 33]}

MCPlanPolicies == {MCDefault, MCRestricted, MCNamed}
MCPolicies == MCPlanPolicies \cup MCVerdictPolicies

\* What a part varies: three scores and no relabeling for the verdict, two
\* scores otherwise.
MCInputs ==
    IF InVerdict
      THEN challenge = "running" => policy \in MCVerdictPolicies /\ handed = bundle
      ELSE /\ challenge = "running" => policy \in MCPlanPolicies
           /\ \A r \in records \cup analogs : r.score \in {9, 41}

MCSpec == MCInit /\ [][ChallengeNext /\ MCInputs']_<<allVars, challengeVars>>
=============================================================================
