-------------------------- MODULE HistoricalAnalog --------------------------
(***************************************************************************)
(* historical_analog_v1: from the states of a history, the k that are      *)
(* nearest to a query, and whether they stay the same when the search is   *)
(* varied.                                                                 *)
(*                                                                         *)
(* Distances are not computed.  Which of the candidates are nearest is a   *)
(* function of the search, so that equal searches have equal answers.      *)
(***************************************************************************)
EXTENDS RegimeState, FiniteSetsExt

\* An AnalogSearchConfig; no keys, no lookback (0) and no universes mean that
\* there is no such restriction.
AnalogConfigs ==
    {c \in [k : Nat \ {0}, minHistory : Nat, metric : STRING,
            sameRegime : BOOLEAN, keys : SUBSET SignalNames,
            excluded : SUBSET SignalNames, lookback : Nat,
            universes : SUBSET STRING] : c.minHistory >= c.k}

\* What a search looks at in the features of a row: the names of its signals,
\* for distances are not computed, and its regime.
Reading(feature) ==
    [signals |-> DOMAIN Extracted(feature),
     regime |-> Classify(Extracted(feature))]

\* A RegimeState: the row it is of, its time, what was read, and its universe.
StateOf(row, time, reading, universe) ==
    [row |-> row, time |-> time, signals |-> reading.signals,
     regime |-> reading.regime, universe |-> universe]
-----------------------------------------------------------------------------
(* search_historical_analogs *)

\* _selected_signals; it raises if the query lacks a signal that is asked for.
SelectedSignals(query, c) ==
    (IF c.keys # {} THEN c.keys ELSE query.signals) \ c.excluded

SearchRaises(query, c) ==
    ~(SelectedSignals(query, c) \subseteq query.signals)

\* _eligible_candidates.
Candidates(query, history, c) ==
    {s \in history :
        /\ s.row # query.row
        /\ s.time < query.time
        /\ c.lookback = 0 \/ s.time >= query.time - c.lookback
        /\ c.sameRegime => s.regime = query.regime
        /\ c.universes = {} \/ s.universe \in c.universes
        /\ SelectedSignals(query, c) \subseteq s.signals}

\* Mutant of Ready: a query without a regime may match others without one.
ReadyAnyRegime(query, history, c) ==
    /\ SelectedSignals(query, c) # {}
    /\ Cardinality(Candidates(query, history, c)) >= c.minHistory

\* AnalogSearchStatus.READY: none of the reasons against.
Ready(query, history, c) ==
    /\ query.regime # "NO_DATA"
    /\ SelectedSignals(query, c) # {}
    /\ Cardinality(Candidates(query, history, c)) >= c.minHistory

\* What the order of the candidates depends on.
Search(query, history, c) ==
    [query |-> query.row, metric |-> c.metric, k |-> c.k,
     signals |-> SelectedSignals(query, c),
     candidates |-> Candidates(query, history, c)]

\* The k nearest, of which one is first.
AnswersTo(search) ==
    UNION {[states : {S}, first : S] : S \in kSubset(search.k, search.candidates)}

\* Every way to answer some searches.
Answers(searches) ==
    {a \in [searches -> UNION {AnswersTo(x) : x \in searches}] :
        \A x \in searches : a[x] \in AnswersTo(x)}
-----------------------------------------------------------------------------
(* run_analog_sensitivity: a policy varies its base configuration along     *)
(* four axes.  An entry that an axis has twice counts twice, so scenarios  *)
(* are told apart by their places on the axes.                             *)

\* The restrictions of the base are replaced, not added to.
Variation(base, m, e, l, u) ==
    [base EXCEPT !.metric = m, !.excluded = e, !.lookback = l, !.universes = u]

Places(policy) ==
    (DOMAIN policy.metrics) \X (DOMAIN policy.ablations)
        \X (DOMAIN policy.lookbacks) \X (DOMAIN policy.filters)

ScenarioAt(policy, n) ==
    Variation(policy.base, policy.metrics[n[1]], policy.ablations[n[2]],
              policy.lookbacks[n[3]], policy.filters[n[4]])

Scenarios(policy) == {ScenarioAt(policy, n) : n \in Places(policy)}

\* A scenario with keys of which one is excluded is no AnalogSearchConfig.
ScenarioRaises(policy) ==
    \E c \in Scenarios(policy) : c.keys \cap c.excluded # {}

\* Answers to a scenario and to the base search share at least this much.
Overlaps(a, b, percent) ==
    100 * Cardinality(a.states \cap b.states) >=
    percent * Cardinality(a.states \cup b.states)

\* What is asked of the answers to the ready scenarios.
Steady(base, ready, answer, policy) ==
    /\ ready # {} /\ Cardinality(ready) >= policy.minReady
    /\ \A n \in ready : Overlaps(base, answer[n], policy.minOverlap)
    /\ 100 * Cardinality({n \in ready :
                            answer[n].first.regime = base.first.regime}) >=
       policy.minAgreement * Cardinality(ready)

Stable(query, history, policy, answers) ==
    LET search(n) == Search(query, history, ScenarioAt(policy, n))
        ready == {n \in Places(policy) :
                    Ready(query, history, ScenarioAt(policy, n))}
    IN  Steady(answers[Search(query, history, policy.base)], ready,
               [n \in ready |-> answers[search(n)]], policy)
=============================================================================
