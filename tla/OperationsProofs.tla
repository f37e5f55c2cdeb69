-------------------------- MODULE OperationsProofs --------------------------
(***************************************************************************)
(* That what readers are shown goes forward, that a run which returned     *)
(* left what it returned and that a restore is sound, for every set of     *)
(* workers and horizons, every cooldown and every bound.                   *)
(***************************************************************************)
EXTENDS Operations, FiniteSetFacts

Databases ==
    [snapshots : [Horizons -> Seq(Nat)], checked : Seq(Nat),
     audited : Nat, damaged : BOOLEAN]

OpsTypeOK ==
    /\ clock \in Nat /\ db \in Databases /\ copied \in Databases
    /\ backup \in Seq(Databases) /\ Len(backup) <= 1
    /\ step \in [Workers -> {"sleeping", "health", "snapshots", "files"}]
    /\ done \in [Workers -> Nat] /\ time \in [Workers -> Nat]
    /\ files \in [DOMAIN Files -> {<<>>} \cup (Workers \X Nat)]
    /\ alerts \in [Workers -> SUBSET Keys]
    /\ result \in [Workers -> {"none", "returned", "raised"}]
    /\ kept \in [Workers -> BOOLEAN] /\ alone \in [Workers -> BOOLEAN]
    /\ late \in BOOLEAN

\* A damaged file that may be copied, or was, was damaged late; and since a
\* copy nothing of it is gone.
RestoreInv ==
    /\ db.damaged => late
    /\ restore = "copy" => backup # <<>> /\ (backup[1].damaged => late)
    /\ restore \in {"check", "returned"} => RowsKept(copied, db)

\* There is an audit event for each row.
SnapshotRows(d) == MapThenSumSet(LAMBDA h : Len(d.snapshots[h]), Horizons)

Counted(d) == d.audited >= Len(d.checked) + SnapshotRows(d)

CountedInv ==
    /\ Counted(db) /\ Counted(copied)
    /\ backup # <<>> => Counted(backup[1])

\* The keys that the demo frame meets.
Met == {k \in Keys : k[1] \in Conditions(Facts[k[2]])}

\* The rounds of a loop are within it.
RoundsInv(w) ==
    /\ step[w] \in {"sleeping", "health"} => done[w] = 0
    /\ step[w] = "snapshots" => done[w] < Len(HorizonOrder)
    /\ step[w] = "files" => done[w] < Len(Files)
    /\ result[w] = "returned" => step[w] = "sleeping"

Saved(w) == step[w] = "files" \/ result[w] = "returned"

\* The rows that a run saved are there.
RowsInv(w) ==
    kept[w] =>
        /\ step[w] = "snapshots" \/ Saved(w) => time[w] \in Range(db.checked)
        /\ step[w] = "snapshots" =>
            \A i \in 1..done[w] : time[w] \in Range(db.snapshots[HorizonOrder[i]])
        /\ Saved(w) => \A h \in Horizons : time[w] \in Range(db.snapshots[h])

\* The files that a run wrote are its own if it is alone.
FilesInv(w) ==
    alone[w] =>
        /\ \A v \in Workers \ {w} : ~Running(v)
        /\ step[w] = "files" => \A n \in 1..done[w] : files[n] = <<w, time[w]>>
        /\ result[w] = "returned" =>
            \A n \in DOMAIN Files : files[n] = <<w, time[w]>>

AlertsInv(w) ==
    (step[w] = "files" /\ done[w] >= 1) \/ result[w] = "returned" =>
        alerts[w] = Met

RunInv(w) == RoundsInv(w) /\ RowsInv(w) /\ FilesInv(w) /\ AlertsInv(w)

OperationsInv ==
    /\ OpsTypeOK /\ RestoreInv /\ CountedInv
    /\ \A w \in Workers : RunInv(w)
-----------------------------------------------------------------------------
(* The alerts of a run, as the fold over the horizons gives them. *)

\* What is told of a snapshot, by a registry that remembers what was told
\* before and nothing else, are the rules that it meets.
LEMMA ToldOnce ==
    ASSUME NEW h \in Horizons, NEW registry, NEW now
    PROVE  /\ DOMAIN registry \cup Told(registry, Facts[h], now)
              = DOMAIN registry \cup {k \in Met : k[2] = h}
           /\ DOMAIN Remembered(registry, Facts[h], now)
              = DOMAIN registry \cup Told(registry, Facts[h], now)
<1>1. Facts[h].horizon = h
    BY OperationsAssumption
<1>2. Conditions(Facts[h]) \subseteq AlertRules
    BY DEF Conditions
<1>3. {k \in Met : k[2] = h} = Conditions(Facts[h]) \X {h}
    <2> SUFFICES ASSUME NEW k
                 PROVE  k \in {x \in Met : x[2] = h} <=> k \in Conditions(Facts[h]) \X {h}
        OBVIOUS
    <2> QED
        BY <1>2 DEF Met, Keys
<1>4. Told(registry, Facts[h], now) \subseteq Conditions(Facts[h]) \X {h}
    BY <1>1 DEF Told
<1>5. \A k \in Conditions(Facts[h]) \X {h} :
        k \in DOMAIN registry \/ k \in Told(registry, Facts[h], now)
    BY <1>1 DEF Told
<1>6. DOMAIN registry \cup Told(registry, Facts[h], now)
      = DOMAIN registry \cup (Conditions(Facts[h]) \X {h})
    BY <1>4, <1>5
<1> QED
    BY <1>3, <1>6 DEF Remembered

\* What evaluating some snapshots at one time may give.
Evaluations ==
    {a \in [told : SUBSET Keys, registry : UNION {[K -> {clock}] : K \in SUBSET Keys}] :
        DOMAIN a.registry = a.told}

Evaluated(a, h) ==
    [told |-> a.told \cup Told(a.registry, Facts[h], clock),
     registry |-> Remembered(a.registry, Facts[h], clock)]

\* Evaluating a horizon tells exactly the conditions met there, and leaves a
\* registry that remembers what was told.
LEMMA EvaluatedOnce ==
    ASSUME NEW a \in Evaluations, NEW h \in Horizons
    PROVE  /\ Evaluated(a, h) \in Evaluations
           /\ Evaluated(a, h).told = a.told \cup {k \in Met : k[2] = h}
<1> DEFINE told == Told(a.registry, Facts[h], clock)
           registry == Remembered(a.registry, Facts[h], clock)
<1>1. a.told \in SUBSET Keys /\ DOMAIN a.registry = a.told
      /\ \A k \in DOMAIN a.registry : a.registry[k] = clock
    BY DEF Evaluations
<1>2. /\ a.told \cup told = a.told \cup {k \in Met : k[2] = h}
      /\ DOMAIN registry = a.told \cup told
    <2>1. PICK before, now : before = a.registry /\ now = clock
        OBVIOUS
    <2>2. /\ DOMAIN before \cup Told(before, Facts[h], now)
             = DOMAIN before \cup {k \in Met : k[2] = h}
          /\ DOMAIN Remembered(before, Facts[h], now)
             = DOMAIN before \cup Told(before, Facts[h], now)
        BY ToldOnce
    <2> QED
        BY <1>1, <2>1, <2>2
<1>3. registry \in [a.told \cup told -> {clock}]
    BY <1>1 DEF Remembered
<1>4. a.told \cup told \in SUBSET Keys
    BY <1>1, <1>2 DEF Met
<1> HIDE DEF told, registry
<1>5. [told |-> a.told \cup told, registry |-> registry] \in Evaluations
    BY <1>2, <1>3, <1>4 DEF Evaluations
<1> QED
    BY <1>2, <1>5 DEF Evaluated, told, registry

\* A run is told of every rule that its snapshots meet, in whatever order it
\* evaluates them.
LEMMA AlertsOfARun == EvaluateAlerts = Met
<1> DEFINE Base == [told |-> {}, registry |-> FreshRegistry]
           D == DOMAIN HorizonOrder
           Solves(g) ==
               g = [s \in SUBSET D |->
                     IF s = {} THEN Base
                     ELSE Evaluated(g[s \ {Max(s)}], HorizonOrder[Max(s)])]
           runs == CHOOSE g : Solves(g)
<1>1. EvaluateAlerts = runs[D].told
    BY DEF EvaluateAlerts, FoldLeft, MapThenFoldSet, Evaluated
<1>2. /\ IsFiniteSet(D) /\ D \in SUBSET Int
      /\ \A i \in D : HorizonOrder[i] \in Horizons
      /\ \A h \in Horizons : \E i \in D : HorizonOrder[i] = h
    <2>1. HorizonOrder \in Seq(Horizons) /\ Range(HorizonOrder) = Horizons
          /\ Len(HorizonOrder) \in Nat /\ D = 1..Len(HorizonOrder)
        BY OperationsAssumption
    <2>2. IsFiniteSet(D)
        BY <2>1, FS_Interval
    <2> QED
        BY <2>1, <2>2 DEF Range
<1>3. \A s \in SUBSET D : s # {} => Max(s) \in s
    BY <1>2, FS_Subset, MaxOfFinite
<1>4. Base \in Evaluations
    <2>1. FreshRegistry \in [{} -> {clock}] /\ DOMAIN FreshRegistry = {}
        BY DEF FreshRegistry
    <2> QED
        BY <2>1 DEF Evaluations
<1> HIDE DEF Base, D
<1>5. \E g \in [SUBSET D -> Evaluations] : Solves(g)
    <2>1. PICK pick : pick = [s \in SUBSET D |-> Max(s)]
        OBVIOUS
    <2>2. PICK comb : comb = [p \in D \X Evaluations |-> Evaluated(p[2], HorizonOrder[p[1]])]
        OBVIOUS
    <2>3. Picks(pick, D) /\ Combines(comb, D, Evaluations)
        BY <1>2, <1>3, <2>1, <2>2, EvaluatedOnce DEF Picks, Combines
    <2>4. PICK g : FoldOn(pick, Base, comb, D, Evaluations, g)
        BY <1>2, <1>4, <2>3, FoldsExist
    <2>5. ASSUME NEW s \in SUBSET D
          PROVE  FoldStep(pick, Base, comb, g, s)
                 = IF s = {} THEN Base
                   ELSE Evaluated(g[s \ {Max(s)}], HorizonOrder[Max(s)])
        <3>1. CASE s = {}
            BY <3>1 DEF FoldStep
        <3>2. CASE s # {}
            <4>1. pick[s] = Max(s) /\ Max(s) \in D /\ g[s \ {Max(s)}] \in Evaluations
                BY <1>3, <2>1, <2>4, <3>2 DEF FoldOn
            <4>2. comb[<<Max(s), g[s \ {Max(s)}]>>]
                  = Evaluated(g[s \ {Max(s)}], HorizonOrder[Max(s)])
                BY <2>2, <4>1
            <4> QED
                BY <3>2, <4>1, <4>2 DEF FoldStep
        <3> QED
            BY <3>1, <3>2
    <2>6. Solves(g)
        BY <2>4, <2>5 DEF FoldOn
    <2> QED
        BY <2>4, <2>6 DEF FoldOn
<1>6. Solves(runs)
    <2>1. \E g : Solves(g)
        BY <1>5
    <2> QED
        BY <2>1
<1> HIDE DEF runs
<1> DEFINE Told0(s) == {k \in Met : \E i \in s : HorizonOrder[i] = k[2]}
           Bad == {s \in SUBSET D :
                    ~(runs[s] \in Evaluations /\ runs[s].told = Told0(s))}
<1>7. Bad = {}
    <2> SUFFICES ASSUME Bad # {} PROVE FALSE
        OBVIOUS
    <2>1. PICK s \in Bad : \A t \in Bad : t \subseteq s => t = s
        <3>1. Bad \in SUBSET SUBSET D
            OBVIOUS
        <3>2. IsFiniteSet(D)
            BY <1>2
        <3> HIDE DEF Bad
        <3> QED
            BY <3>1, <3>2, SmallestSubset
    <2>2. s \in SUBSET D
        OBVIOUS
    <2>3. CASE s = {}
        <3>1. runs[s] = Base
            BY <1>6, <2>2, <2>3
        <3> QED
            BY <1>4, <2>1, <2>3, <3>1 DEF Base
    <2>4. CASE s # {}
        <3> DEFINE t == s \ {Max(s)}
        <3>1. Max(s) \in s /\ t \in SUBSET D /\ t \subseteq s /\ t # s
            BY <1>3, <2>2, <2>4
        <3>2. runs[t] \in Evaluations /\ runs[t].told = Told0(t)
            BY <2>1, <3>1
        <3>3. HorizonOrder[Max(s)] \in Horizons
            BY <1>2, <3>1
        <3>4. runs[s] = Evaluated(runs[t], HorizonOrder[Max(s)])
            BY <1>6, <2>2, <2>4
        <3>5. /\ runs[s] \in Evaluations
              /\ runs[s].told = runs[t].told \cup {k \in Met : k[2] = HorizonOrder[Max(s)]}
            <4>1. PICK a, h : a = runs[t] /\ h = HorizonOrder[Max(s)]
                OBVIOUS
            <4>2. a \in Evaluations /\ h \in Horizons /\ runs[s] = Evaluated(a, h)
                BY <3>2, <3>3, <3>4, <4>1
            <4>3. Evaluated(a, h) \in Evaluations
                  /\ Evaluated(a, h).told = a.told \cup {k \in Met : k[2] = h}
                BY <4>2, EvaluatedOnce
            <4> QED
                BY <4>1, <4>2, <4>3
        <3>6. Told0(s) = Told0(t) \cup {k \in Met : k[2] = HorizonOrder[Max(s)]}
            BY <3>1
        <3> QED
            BY <2>1, <3>2, <3>5, <3>6
    <2> QED
        BY <2>3, <2>4
<1>8. runs[D].told = Told0(D)
    BY <1>7
<1>9. Told0(D) = Met
    BY <1>2 DEF Met, Keys
<1> QED
    BY <1>1, <1>8, <1>9
-----------------------------------------------------------------------------
(* What a transaction makes of the database. *)

\* The loop goes over finitely many horizons.
LEMMA HorizonsFinite == IsFiniteSet(Horizons)
<1>1. HorizonOrder \in [1..Len(HorizonOrder) -> Horizons] /\ Len(HorizonOrder) \in Nat
      /\ \A h \in Horizons : \E i \in 1..Len(HorizonOrder) : HorizonOrder[i] = h
    BY OperationsAssumption DEF Range
<1>2. PICK S, f : S = 1..Len(HorizonOrder) /\ f = HorizonOrder
    OBVIOUS
<1>3. IsFiniteSet(S)
    BY <1>1, <1>2, FS_Interval
<1>4. f \in [S -> Horizons] /\ \A h \in Horizons : \E i \in S : f[i] = h
    BY <1>1, <1>2
<1> QED
    BY <1>3, <1>4, FiniteImage

\* A row more, or none: those that were there stay.
LEMMA UpsertedAdds ==
    ASSUME NEW table \in Seq(Nat), NEW t \in Nat
    PROVE  /\ Upserted(table, t) \in Seq(Nat)
           /\ t \in Range(Upserted(table, t))
           /\ Range(table) \subseteq Range(Upserted(table, t))
           /\ \/ Upserted(table, t) = table
              \/ Len(Upserted(table, t)) = Len(table) + 1
<1>1. CASE t \in Range(table)
    BY <1>1 DEF Upserted
<1>2. CASE t \notin Range(table)
    <2>1. Upserted(table, t) = Append(table, t)
        BY <1>2 DEF Upserted
    <2>2. /\ Append(table, t) \in Seq(Nat)
          /\ Len(Append(table, t)) = Len(table) + 1
          /\ Append(table, t)[Len(table) + 1] = t
          /\ \A i \in 1..Len(table) : Append(table, t)[i] = table[i]
        OBVIOUS
    <2>3. /\ \A x \in Range(table) : \E i \in 1..Len(table) : table[i] = x
          /\ \A i \in 1..(Len(table) + 1) : Append(table, t)[i] \in Range(Append(table, t))
        BY <2>2 DEF Range
    <2>4. Len(table) \in Nat
        OBVIOUS
    <2>5. t \in Range(Append(table, t))
        BY <2>2, <2>3, <2>4
    <2>6. Range(table) \subseteq Range(Append(table, t))
        BY <2>2, <2>3, <2>4
    <2> QED
        BY <2>1, <2>2, <2>5, <2>6
<1> QED
    BY <1>1, <1>2

\* The lengths of the tables of snapshots, as the sum in Counted takes them.
Lengths(d) == [h \in Horizons |-> Len(d.snapshots[h])]

\* The number of snapshot rows is the sum of the lengths per horizon.
LEMMA LengthsSum ==
    ASSUME NEW d \in Databases
    PROVE  /\ \A h \in Horizons : Lengths(d)[h] \in Nat
           /\ \E sums : /\ SumsOf(Lengths(d), Horizons, sums)
                        /\ SnapshotRows(d) = sums[Horizons]
<1> DEFINE Solves(g) ==
               g = [s \in SUBSET Horizons |->
                     IF s = {} THEN 0
                     ELSE Len(d.snapshots[CHOOSE h \in s : TRUE])
                          + g[s \ {CHOOSE h \in s : TRUE}]]
           sums == CHOOSE g : Solves(g)
<1>1. \A h \in Horizons : Lengths(d)[h] \in Nat
    BY DEF Databases, Lengths
<1>2. ASSUME NEW g
      PROVE  Solves(g) <=> SumsOf(Lengths(d), Horizons, g)
    <2>1. \A s \in SUBSET Horizons :
            s # {} => Lengths(d)[Chosen(s)] = Len(d.snapshots[Chosen(s)])
        BY DEF Chosen, Lengths
    <2>2. [s \in SUBSET Horizons |->
            IF s = {} THEN 0
            ELSE Len(d.snapshots[Chosen(s)]) + g[s \ {Chosen(s)}]]
          = [s \in SUBSET Horizons |-> SumStep(Lengths(d), g, s)]
        BY <2>1 DEF SumStep
    <2> QED
        BY <2>2 DEF SumsOf, Chosen
<1>3. \E g : SumsOf(Lengths(d), Horizons, g)
    BY <1>1, HorizonsFinite, SumsExist
<1>4. Solves(sums)
    <2>1. \E g : Solves(g)
        <3> HIDE DEF Solves
        <3> QED
            BY <1>2, <1>3
    <2> QED
        BY <2>1
<1>5. SnapshotRows(d) = sums[Horizons]
    BY DEF SnapshotRows, MapThenSumSet, MapThenFoldSet
<1>6. SumsOf(Lengths(d), Horizons, sums)
    <2> HIDE DEF sums, Solves
    <2> QED
        BY <1>2, <1>4
<1> HIDE DEF sums
<1> QED
    BY <1>1, <1>5, <1>6

\* An empty database has no row, and no audit event.
LEMMA EmptyCounted == EmptyDatabase \in Databases /\ Counted(EmptyDatabase)
<1>1. EmptyDatabase \in Databases
    BY DEF EmptyDatabase, Databases
<1>2. PICK sums : /\ SumsOf(Lengths(EmptyDatabase), Horizons, sums)
                  /\ SnapshotRows(EmptyDatabase) = sums[Horizons]
    BY <1>1, LengthsSum
<1>3. \A h \in Horizons : Lengths(EmptyDatabase)[h] = 0
    BY DEF Lengths, EmptyDatabase
<1> DEFINE Bad == {s \in SUBSET Horizons : sums[s] # 0}
<1>4. Bad = {}
    <2> SUFFICES ASSUME Bad # {} PROVE FALSE
        OBVIOUS
    <2>1. PICK s \in Bad : \A t \in Bad : t \subseteq s => t = s
        <3>1. Bad \in SUBSET SUBSET Horizons
            OBVIOUS
        <3> HIDE DEF Bad
        <3> QED
            BY <3>1, HorizonsFinite, SmallestSubset
    <2>2. sums[s] = SumStep(Lengths(EmptyDatabase), sums, s)
        BY <1>2 DEF SumsOf
    <2>3. s # {}
        BY <2>2 DEF SumStep
    <2>4. Chosen(s) \in s /\ s \ {Chosen(s)} \in SUBSET Horizons /\ s \ {Chosen(s)} # s
        BY <2>3, SumStepShrinks
    <2>5. sums[s \ {Chosen(s)}] = 0 /\ Lengths(EmptyDatabase)[Chosen(s)] = 0
        BY <1>3, <2>1, <2>4
    <2> QED
        BY <2>2, <2>3, <2>5 DEF SumStep
<1>5. sums[Horizons] = 0
    BY <1>4
<1> QED
    BY <1>1, <1>2, <1>5 DEF Counted, EmptyDatabase

\* A row is saved with its audit event.
LEMMA HealthRow ==
    ASSUME NEW d \in Databases, NEW t \in Nat
    PROVE  /\ HealthSaved(d, t) \in Databases
           /\ HealthSaved(d, t).damaged = d.damaged
           /\ HealthSaved(d, t).snapshots = d.snapshots
           /\ t \in Range(HealthSaved(d, t).checked)
           /\ RowsKept(d, HealthSaved(d, t))
           /\ Counted(d) => Counted(HealthSaved(d, t))
<1> DEFINE e == HealthSaved(d, t)
           table == Upserted(d.checked, t)
<1>1. /\ d.checked \in Seq(Nat) /\ d.audited \in Nat
      /\ d.snapshots \in [Horizons -> Seq(Nat)] /\ d.damaged \in BOOLEAN
    BY DEF Databases
<1>2. /\ table \in Seq(Nat) /\ t \in Range(table)
      /\ Range(d.checked) \subseteq Range(table)
      /\ table = d.checked \/ Len(table) = Len(d.checked) + 1
    BY <1>1, UpsertedAdds
<1> HIDE DEF table
<1>3. /\ e.checked = table /\ e.audited = d.audited + 1
      /\ e.snapshots = d.snapshots /\ e.damaged = d.damaged
    BY DEF HealthSaved, Databases, table
<1>4. e \in Databases
    <2>1. e = [d EXCEPT !.checked = table, !.audited = d.audited + 1]
        BY DEF HealthSaved, table
    <2>2. table \in Seq(Nat) /\ d.audited + 1 \in Nat
        BY <1>1, <1>2
    <2> HIDE DEF e
    <2>3. [d EXCEPT !.checked = table] \in Databases
        BY <2>2 DEF Databases
    <2> QED
        BY <2>1, <2>2, <2>3 DEF Databases
<1> HIDE DEF e
<1>5. RowsKept(d, e)
    BY <1>1, <1>2, <1>3 DEF RowsKept
<1>6. ASSUME Counted(d) PROVE Counted(e)
    <2>1. PICK sums : /\ SumsOf(Lengths(d), Horizons, sums)
                      /\ SnapshotRows(d) = sums[Horizons]
        BY LengthsSum
    <2>2. sums[Horizons] \in Nat
        BY <2>1, LengthsSum, HorizonsFinite, SumsAreNatural
    <2>3. SnapshotRows(e) = SnapshotRows(d)
        BY <1>3 DEF SnapshotRows, MapThenSumSet, MapThenFoldSet
    <2>4. d.audited >= Len(d.checked) + sums[Horizons]
        BY <1>6, <2>1 DEF Counted
    <2>5. Len(table) <= Len(d.checked) + 1 /\ Len(table) \in Nat /\ Len(d.checked) \in Nat
        BY <1>1, <1>2
    <2>6. e.audited >= Len(e.checked) + sums[Horizons]
        BY <1>1, <1>3, <2>2, <2>4, <2>5
    <2> QED
        BY <2>1, <2>3, <2>6 DEF Counted
<1> QED
    BY <1>2, <1>3, <1>4, <1>5, <1>6 DEF e

\* save_snapshot adds its row and its audit event and loses none.
LEMMA SnapshotRow ==
    ASSUME NEW d \in Databases, NEW h \in Horizons, NEW t \in Nat
    PROVE  /\ SnapshotSaved(d, h, t) \in Databases
           /\ SnapshotSaved(d, h, t).damaged = d.damaged
           /\ SnapshotSaved(d, h, t).checked = d.checked
           /\ t \in Range(SnapshotSaved(d, h, t).snapshots[h])
           /\ RowsKept(d, SnapshotSaved(d, h, t))
           /\ Counted(d) => Counted(SnapshotSaved(d, h, t))
<1> DEFINE e == SnapshotSaved(d, h, t)
           table == Upserted(d.snapshots[h], t)
           tables == [d.snapshots EXCEPT ![h] = table]
<1>1. /\ d.checked \in Seq(Nat) /\ d.audited \in Nat
      /\ d.snapshots \in [Horizons -> Seq(Nat)] /\ d.damaged \in BOOLEAN
    BY DEF Databases
<1>2. /\ table \in Seq(Nat) /\ t \in Range(table)
      /\ Range(d.snapshots[h]) \subseteq Range(table)
      /\ table = d.snapshots[h] \/ Len(table) = Len(d.snapshots[h]) + 1
    BY <1>1, UpsertedAdds
<1>3. e = [d EXCEPT !.snapshots = tables, !.audited = d.audited + 1]
    BY <1>1 DEF SnapshotSaved, Databases
<1> HIDE DEF table
<1>4. /\ tables \in [Horizons -> Seq(Nat)]
      /\ tables[h] = table /\ \A k \in Horizons \ {h} : tables[k] = d.snapshots[k]
    BY <1>1, <1>2
<1> HIDE DEF tables, e
<1>5. e \in Databases
    <2>1. [d EXCEPT !.snapshots = tables] \in Databases
        BY <1>4 DEF Databases
    <2>2. d.audited + 1 \in Nat
        BY <1>1
    <2> QED
        BY <1>3, <1>4, <2>1, <2>2 DEF Databases
<1>6. /\ e.checked = d.checked /\ e.audited = d.audited + 1
      /\ e.snapshots = tables /\ e.damaged = d.damaged
    BY <1>3 DEF Databases
<1>7. RowsKept(d, e)
    <2>1. ASSUME NEW k \in Horizons
          PROVE  Range(d.snapshots[k]) \subseteq Range(e.snapshots[k])
        BY <1>2, <1>4, <1>6
    <2>2. Range(d.checked) \subseteq Range(e.checked) /\ d.audited <= e.audited
        BY <1>1, <1>6
    <2> QED
        BY <2>1, <2>2 DEF RowsKept
<1>8. ASSUME Counted(d) PROVE Counted(e)
    <2>1. PICK sums : /\ SumsOf(Lengths(d), Horizons, sums)
                      /\ SnapshotRows(d) = sums[Horizons]
        BY LengthsSum
    <2>2. \A k \in Horizons : Lengths(d)[k] \in Nat
        BY LengthsSum
    <2>3. sums[Horizons] \in Nat
        BY <2>1, <2>2, HorizonsFinite, SumsAreNatural
    <2>4. d.audited >= Len(d.checked) + sums[Horizons] /\ Len(d.checked) \in Nat
        BY <1>1, <1>8, <2>1 DEF Counted
    <2>5. CASE table = d.snapshots[h]
        <3>1. e.snapshots = d.snapshots
            BY <1>1, <1>4, <1>6, <2>5
        <3>2. SnapshotRows(e) = SnapshotRows(d)
            BY <3>1 DEF SnapshotRows, MapThenSumSet, MapThenFoldSet
        <3> QED
            BY <1>1, <1>6, <2>1, <2>3, <2>4, <3>2 DEF Counted
    <2>6. CASE Len(table) = Len(d.snapshots[h]) + 1
        <3>1. PICK more : /\ SumsOf(Lengths(e), Horizons, more)
                          /\ SnapshotRows(e) = more[Horizons]
            BY <1>5, LengthsSum
        <3>2. /\ Lengths(e)[h] = Lengths(d)[h] + 1
              /\ \A k \in Horizons \ {h} : Lengths(e)[k] = Lengths(d)[k]
            BY <1>4, <1>6, <2>6 DEF Lengths
        <3>3. more[Horizons] = sums[Horizons] + 1
            BY <2>1, <2>2, <3>1, <3>2, HorizonsFinite, SumsGrowByOne
        <3> QED
            BY <1>1, <1>6, <2>3, <2>4, <3>1, <3>3 DEF Counted
    <2> QED
        BY <1>2, <2>5, <2>6
<1> QED
    BY <1>2, <1>4, <1>5, <1>6, <1>7, <1>8 DEF e

\* The latest of more rows is not earlier.
LEMMA LatestGrows ==
    ASSUME NEW d \in Databases, NEW e \in Databases, NEW h \in Horizons,
           Range(d.snapshots[h]) \subseteq Range(e.snapshots[h])
    PROVE  Latest(e, h) >= Latest(d, h)
<1>1. ASSUME NEW table \in Seq(Nat), table # <<>>
      PROVE  /\ Max(Range(table)) \in Range(table)
             /\ Range(table) \subseteq Nat
             /\ \A t \in Range(table) : t <= Max(Range(table))
    <2>1. PICK S, T : S = 1..Len(table) /\ T = Range(table)
        OBVIOUS
    <2>2. Len(table) \in Nat /\ Len(table) >= 1
        BY <1>1
    <2>3. IsFiniteSet(S)
        BY <2>1, <2>2, FS_Interval
    <2>4. /\ table \in [S -> T] /\ \A t \in T : \E x \in S : table[x] = t
          /\ T \subseteq Nat /\ table[1] \in T
        BY <2>1, <2>2 DEF Range
    <2>5. IsFiniteSet(T)
        BY <2>3, <2>4, FiniteImage
    <2>6. Max(T) \in T /\ \A t \in T : t <= Max(T)
        BY <2>4, <2>5, MaxOfFinite
    <2> QED
        BY <2>1, <2>4, <2>6
<1>2. d.snapshots[h] \in Seq(Nat) /\ e.snapshots[h] \in Seq(Nat)
    BY DEF Databases
<1>3. CASE d.snapshots[h] = <<>>
    BY <1>1, <1>2, <1>3 DEF Latest
<1>4. CASE d.snapshots[h] # <<>>
    <2>1. e.snapshots[h] # <<>>
        <3>1. Range(d.snapshots[h]) # {}
            BY <1>1, <1>2, <1>4
        <3>2. Range(<<>>) = {}
            BY DEF Range
        <3> QED
            BY <3>1, <3>2
    <2> QED
        BY <1>1, <1>2, <1>4, <2>1 DEF Latest
<1> QED
    BY <1>3, <1>4
-----------------------------------------------------------------------------
(* The invariant. *)

\* There is a first and a last file and horizon.
LEMMA FilesType ==
    /\ DOMAIN Files = 1..Len(Files) /\ Len(Files) \in Nat /\ Len(Files) >= 1
    /\ Len(HorizonOrder) \in Nat /\ Len(HorizonOrder) >= 1
    /\ \A i \in 1..Len(HorizonOrder) : HorizonOrder[i] \in Horizons
    /\ \A h \in Horizons : \E i \in 1..Len(HorizonOrder) : HorizonOrder[i] = h
BY OperationsAssumption DEF Range

\* The invariant holds of the empty database and workers that begin.
LEMMA OperationsBegin == OpsInit => OperationsInv
<1> SUFFICES ASSUME OpsInit PROVE OperationsInv
    OBVIOUS
<1>1. EmptyDatabase \in Databases /\ Counted(EmptyDatabase)
      /\ EmptyDatabase.damaged = FALSE
    BY EmptyCounted DEF EmptyDatabase
<1> USE DEF OpsInit
<1>2. OpsTypeOK
    <2>1. backup \in Seq(Databases) /\ Len(backup) <= 1
        OBVIOUS
    <2>2. files \in [DOMAIN Files -> {<<>>} \cup (Workers \X Nat)]
        OBVIOUS
    <2>3. clock \in Nat /\ db \in Databases /\ copied \in Databases
        BY <1>1
    <2> QED
        BY <2>1, <2>2, <2>3 DEF OpsTypeOK
<1>3. RestoreInv /\ CountedInv
    BY <1>1 DEF RestoreInv, CountedInv
<1>4. \A w \in Workers : RunInv(w)
    BY DEF RunInv, RoundsInv, RowsInv, FilesInv, AlertsInv, Saved, Running
<1> QED
    BY <1>2, <1>3, <1>4 DEF OperationsInv

\* A run's rounds begin within the loop it enters, and stay in it.
LEMMA RoundType ==
    ASSUME OpsTypeOK, NEW w \in Workers, NEW rounds \in Nat,
           NEW next \in {"sleeping", "files"}, Round(w, rounds, next)
    PROVE  /\ step' \in [Workers -> {"sleeping", "health", "snapshots", "files"}]
           /\ done' \in [Workers -> Nat]
           /\ \A v \in Workers \ {w} : step'[v] = step[v] /\ done'[v] = done[v]
           /\ \/ /\ done[w] + 1 < rounds
                 /\ done'[w] = done[w] + 1 /\ step'[w] = step[w]
              \/ /\ done[w] + 1 >= rounds
                 /\ done'[w] = 0 /\ step'[w] = next
<1>1. CASE done[w] + 1 < rounds
    BY <1>1 DEF Round, OpsTypeOK
<1>2. CASE ~(done[w] + 1 < rounds)
    <2>1. done' = [done EXCEPT ![w] = 0] /\ step' = [step EXCEPT ![w] = next]
        BY <1>2 DEF Round
    <2>2. step \in [Workers -> {"sleeping", "health", "snapshots", "files"}]
          /\ done \in [Workers -> Nat]
        BY DEF OpsTypeOK
    <2>3. done[w] \in Nat /\ done[w] + 1 >= rounds
        BY <1>2, <2>2
    <2>4. step' \in [Workers -> {"sleeping", "health", "snapshots", "files"}]
          /\ done' \in [Workers -> Nat]
        BY <2>1, <2>2
    <2> QED
        BY <2>1, <2>2, <2>3, <2>4
<1> QED
    BY <1>1, <1>2

\* Every step keeps the types.
LEMMA OpsTypeStep ==
    ASSUME OpsTypeOK, \A w \in Workers : RoundsInv(w), RestoreInv, [OpsNext]_opsVars
    PROVE  OpsTypeOK'
<1> USE DEF OpsTypeOK
<1>1. CASE Tick
    BY <1>1 DEF Tick, workerVars, restoreVars, historyVars
<1>2. ASSUME NEW w \in Workers, Score(w) PROVE OpsTypeOK'
    BY <1>2 DEF Score, restoreVars
<1>3. ASSUME NEW w \in Workers, SaveHealth(w) PROVE OpsTypeOK'
    <2>1. db' \in Databases
        BY <1>3, HealthRow DEF SaveHealth
    <2> QED
        BY <1>3, <2>1 DEF SaveHealth, restoreVars, historyVars
<1>4. ASSUME NEW w \in Workers, SaveSnapshot(w) PROVE OpsTypeOK'
    <2>1. HorizonOrder[done[w] + 1] \in Horizons
        BY <1>4, FilesType DEF RoundsInv, SaveSnapshot
    <2>2. db' \in Databases
        BY <1>4, <2>1, SnapshotRow DEF SaveSnapshot
    <2>3. /\ step' \in [Workers -> {"sleeping", "health", "snapshots", "files"}]
          /\ done' \in [Workers -> Nat]
        BY <1>4, FilesType, RoundType DEF SaveSnapshot
    <2> QED
        BY <1>4, <2>2, <2>3 DEF SaveSnapshot, restoreVars, historyVars
<1>5. ASSUME NEW w \in Workers, WriteFile(w) PROVE OpsTypeOK'
    <2>1. alerts' \in [Workers -> SUBSET Keys]
        <3>1. EvaluateAlerts \in SUBSET Keys
            BY AlertsOfARun DEF Met
        <3>2. alerts' = alerts \/ alerts' = [alerts EXCEPT ![w] = EvaluateAlerts]
            BY <1>5 DEF WriteFile
        <3> QED
            BY <3>1, <3>2
    <2>2. /\ step' \in [Workers -> {"sleeping", "health", "snapshots", "files"}]
          /\ done' \in [Workers -> Nat]
        BY <1>5, FilesType, RoundType DEF WriteFile
    <2>3. files' \in [DOMAIN Files -> {<<>>} \cup (Workers \X Nat)]
        BY <1>5 DEF WriteFile
    <2>4. result' \in [Workers -> {"none", "returned", "raised"}]
        BY <1>5 DEF WriteFile
    <2> QED
        BY <1>5, <2>1, <2>2, <2>3, <2>4 DEF WriteFile, restoreVars, historyVars
<1>6. ASSUME NEW w \in Workers, Raise(w) PROVE OpsTypeOK'
    BY <1>6 DEF Raise, restoreVars, historyVars
<1>7. CASE BackUp
    BY <1>7 DEF BackUp, workerVars, historyVars
<1>8. CASE DamageBackup
    <2>1. backup[1] \in Databases
        BY <1>8 DEF DamageBackup
    <2>2. [backup[1] EXCEPT !.damaged = TRUE] \in Databases
        BY <2>1 DEF Databases
    <2>3. backup' \in Seq(Databases) /\ Len(backup') <= 1
        BY <1>8, <2>2 DEF DamageBackup
    <2> QED
        BY <1>8, <2>3 DEF DamageBackup, workerVars, historyVars
<1>9. CASE CheckBackup
    BY <1>9 DEF CheckBackup, workerVars, historyVars
<1>10. CASE CopyBackup
    <2>1. backup[1] \in Databases
        BY <1>10 DEF CopyBackup, RestoreInv
    <2> QED
        BY <1>10, <2>1 DEF CopyBackup, workerVars
<1>11. CASE CheckRestored
    BY <1>11 DEF CheckRestored, workerVars, historyVars
<1>12. CASE FailCopy
    BY <1>12 DEF FailCopy, workerVars, historyVars
<1>13. CASE UNCHANGED opsVars
    BY <1>13 DEF opsVars, workerVars, restoreVars, historyVars
<1> QED
    BY <1>1, <1>2, <1>3, <1>4, <1>5, <1>6, <1>7, <1>8, <1>9, <1>10, <1>11, <1>12, <1>13
       DEF OpsNext, Work

\* What is saved adds to the database; only a copy replaces it.
LEMMA DatabaseAfter ==
    ASSUME OpsTypeOK, \A w \in Workers : RoundsInv(w), [OpsNext]_opsVars
    PROVE  \/ CopyBackup
           \/ /\ db' \in Databases /\ RowsKept(db, db')
              /\ db'.damaged = db.damaged
              /\ Counted(db) => Counted(db')
<1>1. db \in Databases /\ RowsKept(db, db)
    <2>1. db \in Databases
        BY DEF OpsTypeOK
    <2>2. db.audited \in Nat
        BY <2>1 DEF Databases
    <2> QED
        BY <2>1, <2>2 DEF RowsKept
<1>2. CASE db' = db
    BY <1>1, <1>2
<1>3. ASSUME NEW w \in Workers, SaveHealth(w)
      PROVE  /\ db' \in Databases /\ RowsKept(db, db')
             /\ db'.damaged = db.damaged
             /\ Counted(db) => Counted(db')
    <2>1. db' = HealthSaved(db, time[w]) /\ time[w] \in Nat
        BY <1>3 DEF SaveHealth, OpsTypeOK
    <2> QED
        BY <1>1, <2>1, HealthRow
<1>4. ASSUME NEW w \in Workers, SaveSnapshot(w)
      PROVE  /\ db' \in Databases /\ RowsKept(db, db')
             /\ db'.damaged = db.damaged
             /\ Counted(db) => Counted(db')
    <2>1. db' = SnapshotSaved(db, HorizonOrder[done[w] + 1], time[w])
        BY <1>4 DEF SaveSnapshot
    <2>2. time[w] \in Nat /\ HorizonOrder[done[w] + 1] \in Horizons
        BY <1>4, FilesType DEF SaveSnapshot, OpsTypeOK, RoundsInv
    <2> QED
        BY <1>1, <2>1, <2>2, SnapshotRow
<1>5. \/ CopyBackup \/ db' = db
      \/ \E w \in Workers : SaveHealth(w) \/ SaveSnapshot(w)
    BY DEF OpsNext, Work, Tick, Score, WriteFile, Raise, BackUp, DamageBackup,
           CheckBackup, FailCopy, CheckRestored, opsVars
<1> QED
    BY <1>2, <1>3, <1>4, <1>5

\* Every step keeps what is known of a backup and of a restore under way.
LEMMA RestoreStep ==
    ASSUME OpsTypeOK, RestoreInv, \A w \in Workers : RoundsInv(w), [OpsNext]_opsVars
    PROVE  RestoreInv'
<1>0. db \in Databases /\ copied \in Databases
    BY DEF OpsTypeOK
<1>1. CASE CopyBackup
    <2>1. backup[1] \in Databases /\ (backup[1].damaged => late)
        BY <1>1 DEF CopyBackup, RestoreInv, OpsTypeOK
    <2>2. RowsKept(backup[1], backup[1])
        <3>1. backup[1].audited \in Nat
            BY <2>1 DEF Databases
        <3> QED
            BY <3>1 DEF RowsKept
    <2> QED
        BY <1>1, <2>1, <2>2 DEF CopyBackup, RestoreInv
<1>2. CASE ~CopyBackup
    <2>1. /\ db' \in Databases /\ RowsKept(db, db') /\ db'.damaged = db.damaged
        BY <1>2, DatabaseAfter
    <2>2. ASSUME RowsKept(copied, db) PROVE RowsKept(copied, db')
        <3>1. db.audited \in Nat /\ copied.audited \in Nat /\ db'.audited \in Nat
            BY <1>0, <2>1 DEF Databases
        <3> QED
            BY <2>1, <2>2, <3>1 DEF RowsKept
    <2>3. /\ copied' = copied /\ (late => late')
          /\ restore' \in {"check", "returned"} => restore \in {"check", "returned"}
          /\ restore' = "copy" =>
                /\ backup' # <<>>
                /\ backup'[1].damaged => late'
        <3>1. CASE Tick
            BY <3>1 DEF Tick, restoreVars, RestoreInv
        <3>2. ASSUME NEW w \in Workers, Work(w) \/ Raise(w)
              PROVE  UNCHANGED <<restoreVars, backup>>
            BY <3>2 DEF Work, Score, SaveHealth, SaveSnapshot, WriteFile, Raise, restoreVars
        <3>3. CASE BackUp
            BY <3>3 DEF BackUp, RestoreInv
        <3>4. CASE DamageBackup
            BY <3>4 DEF DamageBackup, RestoreInv
        <3>5. CASE CheckBackup
            BY <3>5 DEF CheckBackup, RestoreIdle, RestoreInv
        <3>6. CASE CheckRestored
            BY <3>6 DEF CheckRestored, RestoreInv
        <3>7. CASE UNCHANGED opsVars
            BY <3>7 DEF opsVars, restoreVars, RestoreInv
        <3>9. CASE FailCopy
            BY <3>9 DEF FailCopy, RestoreInv
        <3>8. CASE UNCHANGED <<restoreVars, backup>>
            BY <3>8 DEF restoreVars, RestoreInv
        <3> QED
            BY <1>2, <3>1, <3>2, <3>3, <3>4, <3>5, <3>6, <3>7, <3>8, <3>9
               DEF OpsNext
    <2> QED
        BY <2>1, <2>2, <2>3 DEF RestoreInv
<1> QED
    BY <1>1, <1>2

\* Every step keeps one audit event for each row.
LEMMA CountedStep ==
    ASSUME OpsTypeOK, RestoreInv, CountedInv, \A w \in Workers : RoundsInv(w),
           [OpsNext]_opsVars
    PROVE  CountedInv'
<1>1. CASE CopyBackup
    BY <1>1 DEF CopyBackup, CountedInv, RestoreInv
<1>2. CASE ~CopyBackup
    <2>1. Counted(db')
        BY <1>2, DatabaseAfter DEF CountedInv
    <2>2. copied' = copied
        BY <1>2 DEF OpsNext, Work, Tick, Score, SaveHealth, SaveSnapshot, WriteFile,
               Raise, BackUp, DamageBackup, CheckBackup, FailCopy, CheckRestored, opsVars,
               restoreVars
    <2>3. ASSUME backup' # <<>> PROVE Counted(backup'[1])
        <3>1. CASE backup' = backup
            BY <2>3, <3>1 DEF CountedInv
        <3>2. CASE BackUp
            BY <3>2 DEF BackUp, CountedInv
        <3>3. CASE DamageBackup
            <4>1. backup # <<>> /\ backup' = <<[backup[1] EXCEPT !.damaged = TRUE]>>
                BY <3>3 DEF DamageBackup
            <4>2. backup[1] \in Databases
                BY <4>1 DEF OpsTypeOK
            <4>3. /\ backup'[1].audited = backup[1].audited
                  /\ backup'[1].checked = backup[1].checked
                  /\ backup'[1].snapshots = backup[1].snapshots
                BY <4>1, <4>2 DEF Databases
            <4>4. SnapshotRows(backup'[1]) = SnapshotRows(backup[1])
                BY <4>3 DEF SnapshotRows, MapThenSumSet, MapThenFoldSet
            <4> QED
                BY <4>1, <4>3, <4>4 DEF CountedInv, Counted
        <3>4. backup' = backup \/ BackUp \/ DamageBackup
            BY DEF OpsNext, Work, Tick, Score, SaveHealth, SaveSnapshot, WriteFile,
                   Raise, CheckBackup, CopyBackup, FailCopy, CheckRestored, opsVars
        <3> QED
            BY <3>1, <3>2, <3>3, <3>4
    <2> QED
        BY <2>1, <2>2, <2>3 DEF CountedInv
<1> QED
    BY <1>1, <1>2

\* A run's own step.
LEMMA OwnStep ==
    ASSUME OpsTypeOK, NEW w \in Workers, RunInv(w), Work(w) \/ Raise(w)
    PROVE  RunInv(w)'
<1> USE DEF OpsTypeOK
<1>1. CASE Score(w)
    <2>1. /\ step'[w] = "health" /\ done'[w] = 0 /\ result'[w] = "none"
          /\ alone'[w] => \A v \in Workers \ {w} : step'[v] = "sleeping"
        BY <1>1 DEF Score, RunInv, RoundsInv, Running
    <2> QED
        BY <2>1 DEF RunInv, RoundsInv, RowsInv, FilesInv, AlertsInv, Saved, Running
<1>2. CASE SaveHealth(w)
    <2>1. /\ step[w] = "health" /\ done[w] = 0 /\ result[w] # "returned"
        BY <1>2 DEF SaveHealth, RunInv, RoundsInv
    <2>2. /\ step'[w] = "snapshots" /\ \A v \in Workers \ {w} : step'[v] = step[v]
          /\ UNCHANGED <<done, time, alerts, result, kept, alone>>
          /\ db' = HealthSaved(db, time[w])
        BY <1>2 DEF SaveHealth, historyVars
    <2>3. time[w] \in Range(db'.checked)
        BY <2>2, HealthRow
    <2> QED
        BY <2>1, <2>2, <2>3, FilesType
           DEF RunInv, RoundsInv, RowsInv, FilesInv, AlertsInv, Saved, Running
<1>3. CASE SaveSnapshot(w)
    <2>1. /\ step[w] = "snapshots" /\ done[w] < Len(HorizonOrder)
          /\ result[w] # "returned"
        BY <1>3 DEF SaveSnapshot, RunInv, RoundsInv
    <2>2. /\ UNCHANGED <<time, alerts, result, kept, alone, files>>
          /\ db' = SnapshotSaved(db, HorizonOrder[done[w] + 1], time[w])
          /\ Round(w, Len(HorizonOrder), "files")
        BY <1>3 DEF SaveSnapshot, historyVars
    <2>3. /\ \A v \in Workers \ {w} : step'[v] = step[v] /\ done'[v] = done[v]
          /\ \/ /\ done[w] + 1 < Len(HorizonOrder)
                /\ done'[w] = done[w] + 1 /\ step'[w] = "snapshots"
             \/ /\ done[w] + 1 >= Len(HorizonOrder)
                /\ done'[w] = 0 /\ step'[w] = "files"
        BY <2>1, <2>2, FilesType, RoundType
    <2>4. done[w] + 1 \in 1..Len(HorizonOrder) /\ HorizonOrder[done[w] + 1] \in Horizons
        BY <2>1, FilesType
    <2>5. /\ time[w] \in Range(db'.snapshots[HorizonOrder[done[w] + 1]])
          /\ RowsKept(db, db')
        BY <2>2, <2>4, SnapshotRow
    <2>6. RowsInv(w)'
        <3> SUFFICES ASSUME kept[w]
                     PROVE  /\ time[w] \in Range(db'.checked)
                            /\ step'[w] = "snapshots" => \A i \in 1..done'[w] :
                                    time[w] \in Range(db'.snapshots[HorizonOrder[i]])
                            /\ step'[w] = "files" => \A h \in Horizons :
                                    time[w] \in Range(db'.snapshots[h])
            BY <2>1, <2>2 DEF RowsInv, Saved
        <3>1. time[w] \in Range(db'.checked)
            BY <2>1, <2>5 DEF RunInv, RowsInv, RowsKept
        <3>2. ASSUME NEW i \in 1..(done[w] + 1)
              PROVE  time[w] \in Range(db'.snapshots[HorizonOrder[i]])
            <4>1. CASE i = done[w] + 1
                BY <2>5, <4>1
            <4>2. CASE i # done[w] + 1
                <5>1. i \in 1..done[w] /\ HorizonOrder[i] \in Horizons
                    BY <2>1, <4>2, FilesType
                <5>2. time[w] \in Range(db.snapshots[HorizonOrder[i]])
                    BY <2>1, <5>1 DEF RunInv, RowsInv
                <5> QED
                    BY <2>5, <5>1, <5>2 DEF RowsKept
            <4> QED
                BY <4>1, <4>2
        <3>3. ASSUME step'[w] = "files", NEW h \in Horizons
              PROVE  time[w] \in Range(db'.snapshots[h])
            <4>1. PICK i \in 1..Len(HorizonOrder) : HorizonOrder[i] = h
                BY FilesType
            <4>2. i \in 1..(done[w] + 1)
                BY <2>1, <2>3, <3>3, <4>1, FilesType
            <4> QED
                BY <3>2, <4>1, <4>2
        <3>4. ASSUME step'[w] = "snapshots" PROVE done'[w] = done[w] + 1
            BY <2>3, <3>4
        <3> QED
            BY <3>1, <3>2, <3>3, <3>4
    <2>7. RoundsInv(w)' /\ AlertsInv(w)'
        BY <2>1, <2>2, <2>3, FilesType DEF RoundsInv, AlertsInv
    <2>8. FilesInv(w)'
        BY <2>1, <2>2, <2>3 DEF RunInv, FilesInv, Running
    <2> QED
        BY <2>6, <2>7, <2>8 DEF RunInv
<1>4. CASE WriteFile(w)
    <2>1. /\ step[w] = "files" /\ done[w] < Len(Files) /\ done[w] \in Nat
          /\ result[w] # "returned"
        BY <1>4 DEF WriteFile, RunInv, RoundsInv
    <2>2. /\ UNCHANGED <<time, db, kept, alone>>
          /\ Round(w, Len(Files), "sleeping")
          /\ files' = [files EXCEPT ![done[w] + 1] = <<w, time[w]>>]
        BY <1>4 DEF WriteFile, historyVars
    <2>3. /\ \A v \in Workers \ {w} : step'[v] = step[v] /\ done'[v] = done[v]
          /\ \/ /\ done[w] + 1 < Len(Files)
                /\ done'[w] = done[w] + 1 /\ step'[w] = "files"
             \/ /\ done[w] + 1 >= Len(Files)
                /\ done'[w] = 0 /\ step'[w] = "sleeping"
        BY <2>1, <2>2, FilesType, RoundType
    <2>4. result'[w] = "returned" <=> done[w] + 1 = Len(Files)
        BY <1>4, <2>1 DEF WriteFile
    <2>5. /\ done[w] + 1 \in 1..Len(Files)
          /\ files'[done[w] + 1] = <<w, time[w]>>
          /\ \A n \in 1..done[w] : n \in DOMAIN Files /\ files'[n] = files[n]
        BY <2>1, <2>2, FilesType
    <2>6. RoundsInv(w)'
        BY <2>1, <2>3, <2>4, FilesType DEF RoundsInv
    <2>7. RowsInv(w)'
        BY <2>1, <2>2, <2>3 DEF RunInv, RowsInv, Saved
    <2>8. AlertsInv(w)'
        <3>1. alerts'[w] = Met
            <4>1. CASE done[w] = 0
                BY <1>4, <4>1, AlertsOfARun DEF WriteFile
            <4>2. CASE done[w] # 0
                <5>1. alerts' = alerts /\ done[w] >= 1
                    BY <1>4, <2>1, <4>2 DEF WriteFile
                <5> QED
                    BY <2>1, <5>1 DEF RunInv, AlertsInv
            <4> QED
                BY <4>1, <4>2
        <3>2. UNCHANGED Met
            BY DEF Met
        <3> QED
            BY <3>1, <3>2 DEF AlertsInv
    <2>9. FilesInv(w)'
        <3> SUFFICES ASSUME alone[w]
                     PROVE  /\ \A v \in Workers \ {w} : step'[v] = "sleeping"
                            /\ step'[w] = "files" =>
                                \A n \in 1..done'[w] : files'[n] = <<w, time[w]>>
                            /\ result'[w] = "returned" =>
                                \A n \in DOMAIN Files : files'[n] = <<w, time[w]>>
            BY <2>2 DEF FilesInv, Running
        <3>1. \A n \in 1..(done[w] + 1) : files'[n] = <<w, time[w]>>
            <4>1. \A n \in 1..done[w] : files[n] = <<w, time[w]>>
                BY <2>1 DEF RunInv, FilesInv
            <4>2. \A n \in 1..(done[w] + 1) : n = done[w] + 1 \/ n \in 1..done[w]
                BY <2>1
            <4> QED
                BY <2>5, <4>1, <4>2
        <3>2. \A v \in Workers \ {w} : step'[v] = "sleeping"
            BY <2>3 DEF RunInv, FilesInv, Running
        <3>3. step'[w] = "files" => done'[w] = done[w] + 1
            BY <2>3
        <3>4. result'[w] = "returned" => DOMAIN Files = 1..(done[w] + 1)
            BY <2>4, FilesType
        <3> QED
            BY <3>1, <3>2, <3>3, <3>4
    <2> QED
        BY <2>6, <2>7, <2>8, <2>9 DEF RunInv
<1>5. CASE Raise(w)
    <2>1. /\ step'[w] = "sleeping" /\ done'[w] = 0 /\ result'[w] = "raised"
          /\ \A v \in Workers \ {w} : step'[v] = step[v]
          /\ UNCHANGED <<alone>>
        BY <1>5 DEF Raise, historyVars
    <2> QED
        BY <2>1 DEF RunInv, RoundsInv, RowsInv, FilesInv, AlertsInv, Saved, Running
<1> QED
    BY <1>1, <1>2, <1>3, <1>4, <1>5 DEF Work

\* A step of another run: it takes nothing from this one's rows, and writes
\* no file while this one is alone.
LEMMA OthersStep ==
    ASSUME OpsTypeOK, NEW w \in Workers, RunInv(w), NEW v \in Workers \ {w},
           RoundsInv(v), Work(v) \/ Raise(v)
    PROVE  RunInv(w)'
<1> USE DEF OpsTypeOK
<1>1. /\ step'[w] = step[w] /\ done'[w] = done[w] /\ time'[w] = time[w]
      /\ alerts'[w] = alerts[w] /\ result'[w] = result[w] /\ kept'[w] = kept[w]
    <2>1. ASSUME NEW rounds \in Nat, NEW next \in {"sleeping", "files"},
                 Round(v, rounds, next)
          PROVE  step'[w] = step[w] /\ done'[w] = done[w]
        BY <2>1, RoundType
    <2>2. CASE Score(v)
        BY <2>2 DEF Score
    <2>3. CASE SaveHealth(v)
        BY <2>3 DEF SaveHealth, historyVars
    <2>4. CASE SaveSnapshot(v)
        BY <2>1, <2>4, FilesType DEF SaveSnapshot, historyVars
    <2>5. CASE WriteFile(v)
        BY <2>1, <2>5, FilesType DEF WriteFile, historyVars
    <2>6. CASE Raise(v)
        BY <2>6 DEF Raise, historyVars
    <2> QED
        BY <2>2, <2>3, <2>4, <2>5, <2>6 DEF Work
<1>2. ASSUME alone'[w]
      PROVE  alone[w] /\ UNCHANGED <<step, files>>
    <2>1. ~Score(v)
        BY <1>2 DEF Score
    <2>2. alone' = alone
        BY <2>1 DEF Work, SaveHealth, SaveSnapshot, WriteFile, Raise, historyVars
    <2>3. step[v] = "sleeping"
        BY <1>2, <2>2 DEF RunInv, FilesInv, Running
    <2> QED
        BY <2>1, <2>3 DEF Work, SaveHealth, SaveSnapshot, WriteFile, Raise, Running
<1>3. db' \in Databases /\ RowsKept(db, db')
    <2>0. RowsKept(db, db)
        BY DEF RowsKept, Databases
    <2>1. CASE db' = db
        BY <2>0, <2>1
    <2>2. CASE SaveHealth(v)
        <3>1. db' = HealthSaved(db, time[v])
            BY <2>2 DEF SaveHealth
        <3> QED
            BY <3>1, HealthRow
    <2>3. CASE SaveSnapshot(v)
        <3>1. db' = SnapshotSaved(db, HorizonOrder[done[v] + 1], time[v])
              /\ HorizonOrder[done[v] + 1] \in Horizons
            BY <2>3, FilesType DEF SaveSnapshot, RoundsInv
        <3> QED
            BY <3>1, SnapshotRow
    <2> QED
        BY <2>1, <2>2, <2>3 DEF Work, Score, WriteFile, Raise
<1>4. RoundsInv(w)'
    BY <1>1 DEF RunInv, RoundsInv
<1>5. RowsInv(w)'
    <2>1. \A h \in Horizons : time[w] \in Range(db.snapshots[h])
                => time[w] \in Range(db'.snapshots[h])
        BY <1>3 DEF RowsKept
    <2>2. time[w] \in Range(db.checked) => time[w] \in Range(db'.checked)
        BY <1>3 DEF RowsKept
    <2>3. step[w] = "snapshots" =>
            \A i \in 1..done[w] : HorizonOrder[i] \in Horizons
        BY FilesType DEF RunInv, RoundsInv
    <2> QED
        BY <1>1, <2>1, <2>2, <2>3 DEF RunInv, RowsInv, Saved
<1>6. FilesInv(w)'
    BY <1>1, <1>2 DEF RunInv, FilesInv, Running
<1>7. AlertsInv(w)'
    BY <1>1 DEF RunInv, AlertsInv, Met
<1> QED
    BY <1>4, <1>5, <1>6, <1>7 DEF RunInv

\* A step of no run.
LEMMA OutsideStep ==
    ASSUME OpsTypeOK, NEW w \in Workers, RunInv(w),
           \/ Tick \/ BackUp \/ DamageBackup \/ CheckBackup \/ CopyBackup
           \/ FailCopy \/ CheckRestored \/ UNCHANGED opsVars
    PROVE  RunInv(w)'
<1>1. UNCHANGED <<step, done, time, alerts, result, files, alone>>
    BY DEF Tick, BackUp, DamageBackup, CheckBackup, CopyBackup, FailCopy,
           CheckRestored, opsVars, workerVars, historyVars
<1>2. kept'[w] => kept[w] /\ db' = db
    BY DEF OpsTypeOK, Tick, BackUp, DamageBackup, CheckBackup, CopyBackup,
           FailCopy, CheckRestored, opsVars, historyVars
<1> QED
    BY <1>1, <1>2 DEF RunInv, RoundsInv, RowsInv, FilesInv, AlertsInv, Saved, Running, Met

\* Every step of the workers, the clock and the operator keeps the invariant.
LEMMA OperationsStep == OperationsInv /\ [OpsNext]_opsVars => OperationsInv'
<1> SUFFICES ASSUME OperationsInv, [OpsNext]_opsVars PROVE OperationsInv'
    OBVIOUS
<1>1. OpsTypeOK /\ RestoreInv /\ CountedInv /\ \A w \in Workers : RunInv(w)
    BY DEF OperationsInv
<1>2. \A w \in Workers : RoundsInv(w)
    BY <1>1 DEF RunInv
<1>3. OpsTypeOK' /\ RestoreInv' /\ CountedInv'
    BY <1>1, <1>2, OpsTypeStep, RestoreStep, CountedStep
<1>4. ASSUME NEW w \in Workers PROVE RunInv(w)'
    <2>1. ASSUME NEW v \in Workers, Work(v) \/ Raise(v) PROVE RunInv(w)'
        <3>1. CASE v = w
            BY <1>1, <2>1, <3>1, OwnStep
        <3>2. CASE v # w
            BY <1>1, <1>2, <2>1, <3>2, OthersStep
        <3> QED
            BY <3>1, <3>2
    <2>2. \/ \E v \in Workers : Work(v) \/ Raise(v)
          \/ Tick \/ BackUp \/ DamageBackup \/ CheckBackup \/ CopyBackup
          \/ FailCopy \/ CheckRestored \/ UNCHANGED opsVars
        BY DEF OpsNext
    <2> QED
        BY <1>1, <2>1, <2>2, OutsideStep
<1> QED
    BY <1>3, <1>4 DEF OperationsInv
-----------------------------------------------------------------------------
(* The theorems. *)

\* In every state: the database is typed, what is damaged was damaged late,
\* there is an audit event for each row, and each run has saved and written
\* what its step says (run_demo, restore_from, save_snapshot, save_health).
THEOREM OperationsInvariant == OpsSpec => []OperationsInv
BY OperationsBegin, OperationsStep, PTL DEF OpsSpec

\* A restore puts no damaged database in place of a good one that it could
\* have seen was damaged, and nothing of the backup is lost when it returns
\* (restore_from).
THEOREM RestoresAreSound == OpsSpec => []RestoreSound
<1>1. OperationsInv => RestoreSound
    BY DEF OperationsInv, RestoreInv, RestoreSound
<1> QED
    BY <1>1, OperationsInvariant, PTL

\* A run that returned left its rows, an audit event for each row, every
\* alert that its snapshots meet and, if no other run was under way, its
\* files (run_demo, AlertRegistry.evaluate).
THEOREM RunsLeaveWhatTheyReturn == OpsSpec => []RunTold
<1>1. OperationsInv => RunTold
    <2> SUFFICES ASSUME OperationsInv, NEW w \in Workers, result[w] = "returned"
                 PROVE  /\ kept[w] => /\ time[w] \in Range(db.checked)
                                      /\ \A h \in Horizons :
                                            time[w] \in Range(db.snapshots[h])
                        /\ db.audited >= Len(db.checked) +
                              MapThenSumSet(LAMBDA h : Len(db.snapshots[h]), Horizons)
                        /\ alerts[w] = {k \in Keys : k[1] \in Conditions(Facts[k[2]])}
                        /\ alone[w] =>
                              \A n \in DOMAIN Files : files[n] = <<w, time[w]>>
        BY DEF RunTold
    <2>1. RunInv(w) /\ Counted(db)
        BY DEF OperationsInv, CountedInv
    <2>2. db.audited >= Len(db.checked) +
                        MapThenSumSet(LAMBDA h : Len(db.snapshots[h]), Horizons)
        BY <2>1 DEF Counted, SnapshotRows
    <2> QED
        BY <2>1, <2>2 DEF RunInv, RowsInv, Saved, AlertsInv, Met, FilesInv
<1> QED
    BY <1>1, OperationsInvariant, PTL

\* What readers are shown of a horizon goes back in no step but the copy of a
\* restore, in whatever order overlapping runs save (latest_snapshot).
THEOREM SnapshotsGoForward == OpsSpec => SnapshotsForward
<1>1. OperationsInv /\ [OpsNext]_opsVars =>
        [CopyBackup \/ \A h \in Horizons : Latest(db', h) >= Latest(db, h)]_opsVars
    <2> SUFFICES ASSUME OperationsInv, [OpsNext]_opsVars, ~CopyBackup,
                        NEW h \in Horizons
                 PROVE  Latest(db', h) >= Latest(db, h)
        OBVIOUS
    <2>1. OpsTypeOK /\ db \in Databases /\ \A w \in Workers : RoundsInv(w)
        BY DEF OperationsInv, OpsTypeOK, RunInv
    <2>2. db' \in Databases /\ RowsKept(db, db')
        BY <2>1, DatabaseAfter
    <2>3. Range(db.snapshots[h]) \subseteq Range(db'.snapshots[h])
        BY <2>2 DEF RowsKept
    <2> QED
        BY <2>1, <2>2, <2>3, LatestGrows
<1> QED
    BY <1>1, OperationsInvariant, PTL DEF OpsSpec, SnapshotsForward
=============================================================================
