--------------------------- MODULE Timing_proofs ---------------------------
(***************************************************************************)
(* Proofs about what the program does with time: TimedLogging, for any     *)
(* number of threads and managers and any levels, and Profiler, for any    *)
(* sections and any number of runs.                                        *)
(***************************************************************************)
EXTENDS TimedLogging, Profiler, DataTheorems, FiniteSetTheorems, SequenceTheorems

-----------------------------------------------------------------------------
(* TimedLogging: the level counts the managers, and only the first print.  *)

\* Until create() is called both streams are disabled by level.
DisabledByLevel ==
  ~created_ => max_info_level_ = default_max_level /\ max_debug_level_ = default_max_level

\* The inductive invariant: few managers print because the level counts them,
\* and hardly one does early because the levels are below every count.
TimedIInv ==
  /\ TimedTypeOK
  /\ LevelDrift
  /\ FewAtOnce
  /\ DisabledByLevel
  /\ FewUntilCreated

USE TimedLoggingAssumption DEF config, timedVars

-----------------------------------------------------------------------------
(* What the actions do to the set of the managers that exist. *)

LEMMA ExistFinite == /\ IsFiniteSet(Exist)
                     /\ Cardinality(Exist) \in Nat
  <1>1. Exist \subseteq Managers
    BY DEF Exist
  <1>2. IsFiniteSet(Exist)
    BY <1>1, FS_Subset
  <1> QED
    BY <1>2, FS_CardinalityType

LEMMA SubsetsOfExist ==
  ASSUME NEW S, S \subseteq Exist
  PROVE  /\ IsFiniteSet(S)
         /\ Cardinality(S) \in Nat
         /\ Cardinality(S) <= Cardinality(Exist)
  <1>1. IsFiniteSet(S) /\ Cardinality(S) <= Cardinality(Exist)
    BY ExistFinite, FS_Subset
  <1> QED
    BY <1>1, FS_CardinalityType

\* A manager that is made, or copied into, did not exist before.
LEMMA ExistGrows ==
  ASSUME TimedTypeOK, NEW m \in Managers, state[m] = "none",
         NEW s \in {"made", "alive"}, state' = [state EXCEPT ![m] = s]
  PROVE  /\ Exist' = Exist \cup {m}
         /\ Cardinality(Exist') = Cardinality(Exist) + 1
  <1>1. Exist' = Exist \cup {m}
    BY DEF TimedTypeOK, Exist, In
  <1>2. m \notin Exist
    BY DEF Exist, In
  <1> QED
    BY <1>1, <1>2, ExistFinite, FS_AddElement

\* A manager that is destroyed does not exist any more.
LEMMA ExistShrinks ==
  ASSUME TimedTypeOK, NEW m \in Managers, state[m] = "alive",
         state' = [state EXCEPT ![m] = "none"]
  PROVE  /\ Exist' = Exist \ {m}
         /\ Cardinality(Exist') = Cardinality(Exist) - 1
  <1>1. Exist' = Exist \ {m}
    BY DEF TimedTypeOK, Exist, In
  <1>2. m \in Exist
    BY DEF Exist, In
  <1> QED
    BY <1>1, <1>2, ExistFinite, FS_RemoveElement

\* One more manager prints, or none more does.
LEMMA OneMorePrints ==
  ASSUME NEW S, NEW m, IsFiniteSet(S), NEW T, T = S \cup {m} \/ T = S
  PROVE  /\ IsFiniteSet(T)
         /\ Cardinality(T) \in Nat
         /\ Cardinality(T) <= Cardinality(S) + 1
  <1>1. Cardinality(S) \in Nat
    BY FS_CardinalityType
  <1>2. CASE T = S
    BY <1>1, <1>2
  <1>3. CASE T = S \cup {m}
    <2>1. /\ IsFiniteSet(S \cup {m})
          /\ Cardinality(S \cup {m}) = IF m \in S THEN Cardinality(S) ELSE Cardinality(S) + 1
      BY FS_AddElement
    <2> QED
      BY <1>1, <1>3, <2>1
  <1> QED
    BY <1>2, <1>3

-----------------------------------------------------------------------------
LEMMA InitTimedIInv == TimedInit => TimedIInv
  <1> SUFFICES ASSUME TimedInit PROVE TimedIInv
    OBVIOUS
  <1>1. Exist = {}
    BY DEF TimedInit, Exist, In
  <1>2. Cardinality(Exist) = 0 /\ Cardinality({}) = 0
    BY <1>1, FS_EmptySet
  <1>3. TimedTypeOK
    <2>1. info_ \subseteq Exist /\ debug_ \subseteq Exist
      BY DEF TimedInit
    <2> QED
      <3>1. created_ \in BOOLEAN /\ pc \in {"idle", "info", "debug"}
        BY DEF TimedInit
      <3>2. current_level_ \in Int /\ copies \in 0 .. MaxCopies /\ drift \in Nat
        BY DEF TimedInit
      <3>3. state \in [Managers -> {"none", "made", "alive"}]
        BY DEF TimedInit
      <3> QED
        BY <2>1, <3>1, <3>2, <3>3 DEF TimedInit, TimedTypeOK
  <1>4. LevelDrift
    BY <1>2 DEF TimedInit, LevelDrift
  <1>5. FewAtOnce
    BY <1>2 DEF TimedInit, FewAtOnce
  <1>6. DisabledByLevel /\ FewUntilCreated
    BY <1>2 DEF TimedInit, DisabledByLevel, FewUntilCreated
  <1> QED
    BY <1>3, <1>4, <1>5, <1>6 DEF TimedIInv

LEMMA NextTimedIInv == TimedIInv /\ [TimedNext]_timedVars => TimedIInv'
  <1> SUFFICES ASSUME TimedIInv, [TimedNext]_timedVars PROVE TimedIInv'
    OBVIOUS
  <1> USE DEF TimedIInv
  <1> DEFINE n == Cardinality(Exist)
             i == Cardinality(info_)
             d == Cardinality(debug_)
  <1>n. n \in Nat
    BY ExistFinite
  <1>s. /\ IsFiniteSet(info_) /\ i \in Nat /\ i <= n
        /\ IsFiniteSet(debug_) /\ d \in Nat /\ d <= n
    BY SubsetsOfExist DEF TimedTypeOK
  <1>1. CASE create
    <2>1. Exist' = Exist
      BY <1>1 DEF create, Exist, In
    <2>2. TimedTypeOK'
      BY <1>1, <1>n, <2>1 DEF create, TimedTypeOK
    <2>3. LevelDrift'
      BY <1>1, <1>n, <2>1 DEF create, LevelDrift
    <2>4. FewAtOnce'
      BY <1>1, <1>n, <1>s DEF create, FewAtOnce
    <2>5. DisabledByLevel' /\ FewUntilCreated'
      BY <1>1 DEF create, DisabledByLevel, FewUntilCreated
    <2> QED
      BY <2>2, <2>3, <2>4, <2>5
  <1>2. ASSUME NEW m \in Managers, NEW t \in Threads, get(t, m)
        PROVE  TimedIInv'
    <2>1. Exist' = Exist \cup {m} /\ Cardinality(Exist') = n + 1
      BY <1>2, ExistGrows DEF get
    <2>2. TimedTypeOK'
      BY <1>2, <2>1 DEF get, TimedTypeOK
    <2>3. LevelDrift'
      BY <1>2, <1>n, <2>1 DEF get, LevelDrift, TimedTypeOK
    <2>4. FewAtOnce' /\ DisabledByLevel' /\ FewUntilCreated'
      BY <1>2 DEF get, FewAtOnce, DisabledByLevel, FewUntilCreated
    <2> QED
      BY <2>2, <2>3, <2>4
  <1>3. ASSUME NEW m \in Managers, NEW t \in Threads, MakeInfo(t, m)
        PROVE  TimedIInv'
    <2>1. Exist' = Exist
      BY <1>3 DEF MakeInfo, Exist, In
    <2>2. m \in Exist
      BY <1>3 DEF MakeInfo, Exist, In
    <2>3. info_' \subseteq Exist
      BY <1>3, <2>2 DEF MakeInfo, TimedTypeOK
    <2>4. TimedTypeOK'
      BY <1>3, <2>1, <2>3 DEF MakeInfo, TimedTypeOK
    <2>5. LevelDrift' /\ DisabledByLevel'
      BY <1>3, <2>1 DEF MakeInfo, LevelDrift, DisabledByLevel
    <2>6. CASE current_level_ <= max_info_level_
      <3>1. max_info_level_ <= InfoLevel /\ max_info_level_ \in Int
        BY DEF TimedTypeOK, default_max_level
      <3>2. n <= InfoLevel + 1 + drift
        BY <1>n, <2>6, <3>1 DEF LevelDrift, TimedTypeOK
      <3>3. Cardinality(info_') <= n /\ Cardinality(info_') \in Nat
        BY <2>3, SubsetsOfExist
      <3>4. FewAtOnce'
        BY <1>3, <1>n, <3>2, <3>3 DEF MakeInfo, FewAtOnce, TimedTypeOK
      <3>5. ~created_ => n <= drift
        BY <1>n, <2>6 DEF LevelDrift, DisabledByLevel, default_max_level, TimedTypeOK
      <3>6. FewUntilCreated'
        BY <1>3, <1>n, <3>3, <3>5 DEF MakeInfo, FewUntilCreated, TimedTypeOK
      <3> QED
        BY <2>4, <2>5, <3>4, <3>6
    <2>7. CASE ~(current_level_ <= max_info_level_)
      <3>1. info_' = info_
        BY <1>3, <2>7 DEF MakeInfo
      <3>2. FewAtOnce' /\ FewUntilCreated'
        BY <1>3, <3>1 DEF MakeInfo, FewAtOnce, FewUntilCreated
      <3> QED
        BY <2>4, <2>5, <3>2
    <2> QED
      BY <2>6, <2>7
  <1>4. ASSUME NEW m \in Managers, NEW t \in Threads, MakeDebug(t, m)
        PROVE  TimedIInv'
    <2>1. Exist' = Exist
      BY <1>4 DEF MakeDebug, Exist, In, TimedTypeOK
    <2>2. m \in Exist
      BY <1>4 DEF MakeDebug, Exist, In
    <2>3. debug_' \subseteq Exist
      BY <1>4, <2>2 DEF MakeDebug, TimedTypeOK
    <2>4. TimedTypeOK'
      BY <1>4, <2>1, <2>3 DEF MakeDebug, TimedTypeOK
    <2>5. LevelDrift' /\ DisabledByLevel'
      BY <1>4, <2>1 DEF MakeDebug, LevelDrift, DisabledByLevel
    <2>6. CASE current_level_ <= max_debug_level_
      <3>1. max_debug_level_ <= DebugLevel /\ max_debug_level_ \in Int
        BY DEF TimedTypeOK, default_max_level
      <3>2. n <= DebugLevel + 1 + drift
        BY <1>n, <2>6, <3>1 DEF LevelDrift, TimedTypeOK
      <3>3. Cardinality(debug_') <= n /\ Cardinality(debug_') \in Nat
        BY <2>3, SubsetsOfExist
      <3>4. FewAtOnce'
        BY <1>4, <1>n, <3>2, <3>3 DEF MakeDebug, FewAtOnce, TimedTypeOK
      <3>5. ~created_ => n <= drift
        BY <1>n, <2>6 DEF LevelDrift, DisabledByLevel, default_max_level, TimedTypeOK
      <3>6. FewUntilCreated'
        BY <1>4, <1>n, <3>3, <3>5 DEF MakeDebug, FewUntilCreated, TimedTypeOK
      <3> QED
        BY <2>4, <2>5, <3>4, <3>6
    <2>7. CASE ~(current_level_ <= max_debug_level_)
      <3>1. debug_' = debug_
        BY <1>4, <2>7 DEF MakeDebug
      <3>2. FewAtOnce' /\ FewUntilCreated'
        BY <1>4, <3>1 DEF MakeDebug, FewAtOnce, FewUntilCreated
      <3> QED
        BY <2>4, <2>5, <3>2
    <2> QED
      BY <2>6, <2>7
  <1>5. ASSUME NEW m \in Managers, destroy(m)
        PROVE  TimedIInv'
    <2>1. Exist' = Exist \ {m} /\ Cardinality(Exist') = n - 1
      BY <1>5, ExistShrinks DEF destroy
    <2>2. TimedTypeOK'
      BY <1>5, <2>1 DEF destroy, TimedTypeOK
    <2>3. LevelDrift' /\ DisabledByLevel'
      BY <1>5, <1>n, <2>1 DEF destroy, LevelDrift, DisabledByLevel, TimedTypeOK
    <2>4. /\ Cardinality(info_ \ {m}) <= i /\ Cardinality(info_ \ {m}) \in Nat
          /\ Cardinality(debug_ \ {m}) <= d /\ Cardinality(debug_ \ {m}) \in Nat
      <3>1. IsFiniteSet(info_ \ {m}) /\ Cardinality(info_ \ {m}) <= i
        BY <1>s, FS_Subset, info_ \ {m} \subseteq info_
      <3>2. IsFiniteSet(debug_ \ {m}) /\ Cardinality(debug_ \ {m}) <= d
        BY <1>s, FS_Subset, debug_ \ {m} \subseteq debug_
      <3> QED
        BY <3>1, <3>2, FS_CardinalityType
    <2>5. FewAtOnce'
      BY <1>5, <1>s, <2>4 DEF destroy, FewAtOnce, TimedTypeOK
    <2>6. FewUntilCreated'
      BY <1>5, <1>s, <2>4 DEF destroy, FewUntilCreated, TimedTypeOK
    <2> QED
      BY <2>2, <2>3, <2>5, <2>6
  <1>6. ASSUME NEW m \in Managers, NEW k \in Managers, copy(m, k)
        PROVE  TimedIInv'
    <2>1. Exist' = Exist \cup {m} /\ Cardinality(Exist') = n + 1
      BY <1>6, ExistGrows DEF copy
    <2>2. TimedTypeOK'
      BY <1>6, <2>1 DEF copy, TimedTypeOK
    <2>3. LevelDrift' /\ DisabledByLevel'
      BY <1>6, <1>n, <2>1 DEF copy, LevelDrift, DisabledByLevel, TimedTypeOK
    <2>4. /\ Cardinality(info_') <= i + 1 /\ Cardinality(info_') \in Nat
          /\ Cardinality(debug_') <= d + 1 /\ Cardinality(debug_') \in Nat
      BY <1>6, <1>s, OneMorePrints DEF copy
    <2>5. FewAtOnce'
      BY <1>6, <1>s, <2>4 DEF copy, FewAtOnce, TimedTypeOK
    <2>6. FewUntilCreated'
      BY <1>6, <1>s, <2>4 DEF copy, FewUntilCreated, TimedTypeOK
    <2> QED
      BY <2>2, <2>3, <2>5, <2>6
  <1>7. CASE UNCHANGED timedVars
    <2>1. Exist' = Exist
      BY <1>7 DEF Exist, In
    <2> QED
      BY <1>7, <2>1 DEF TimedTypeOK, LevelDrift, FewAtOnce, DisabledByLevel, FewUntilCreated
  <1> QED
    BY <1>1, <1>2, <1>3, <1>4, <1>5, <1>6, <1>7 DEF TimedNext

LEMMA TimedInvariance == TimedSpec => []TimedIInv
  BY InitTimedIInv, NextTimedIInv, PTL DEF TimedSpec

-----------------------------------------------------------------------------
\* The level of the timed logger counts the managers there are, but for those
\* of before create() and the copies.
THEOREM LevelCounts == TimedSpec => []LevelDrift
  <1>1. TimedIInv => LevelDrift
    BY DEF TimedIInv
  <1> QED
    BY <1>1, TimedInvariance, PTL

\* No more managers print at once than the maximal levels let, and all of them
\* are there.
THEOREM OnlyTheFirstPrint == TimedSpec => []FewPrint
  <1>1. TimedIInv => FewPrint
    BY DEF TimedIInv, FewPrint
  <1> QED
    BY <1>1, TimedInvariance, PTL

\* Before create() no more managers print at once than have been copied.
THEOREM HardlyAnyUntilCreated == TimedSpec => []FewUntilCreated
  <1>1. TimedIInv => FewUntilCreated
    BY DEF TimedIInv
  <1> QED
    BY <1>1, TimedInvariance, PTL

-----------------------------------------------------------------------------
(* Profiler: what is recorded of a section is never more than was spent in *)
(* it and recorded again, and a run that is over keeps its times.          *)

HIDE TimedLoggingAssumption DEF config, timedVars

Clocks == [known : BOOLEAN, running : BOOLEAN, stopped : BOOLEAN, start : Nat, stop : Nat]
Scopes == [section : Sections, kind : {"plain", "output"}]

\* The types of the state, the bounds aside.
Typed ==
  /\ now \in Nat
  /\ timer \in [Sections -> Clocks]
  /\ datamaps_ \in Seq(Datamap)
  /\ current_run_number_ \in Nat
  /\ scopes \in Seq(Scopes)
  /\ within \in [Sections -> Nat]
  /\ spent \in [Sections -> Nat]
  /\ taken \in [Sections -> BOOLEAN]
  /\ again \in [Sections -> Nat]

Bounded ==
  /\ now <= MaxTime
  /\ current_run_number_ < MaxRuns
  /\ \A s \in Sections : spent[s] <= now /\ within[s] <= MaxNesting /\ again[s] <= MaxAgain

\* The time of the clock of s is yet to be recorded.
Due(s) == timer[s].known /\ ~taken[s]

\* A clock that runs has time to be recorded, the program is in a section that
\* has, and no clock has stopped before it was started.
ClocksAreRight ==
  \A s \in Sections :
    /\ timer[s].running => Due(s)
    /\ Due(s) => within[s] > 0
    /\ timer[s].start <= now
    /\ timer[s].stopped => timer[s].start <= timer[s].stop
    /\ timer[s].stop <= now

\* What has been recorded and what is yet to be recorded of a section has been
\* spent, or recorded again.
StillToRecord(s) ==
  IF Due(s) THEN (IF timer[s].stopped THEN timer[s].stop ELSE now) - timer[s].start ELSE 0

Counted == \A s \in Sections : Times(s) + StillToRecord(s) <= spent[s] + again[s]

\* The inductive invariant.
IInv == Typed /\ Bounded /\ ClocksAreRight /\ Counted

USE ProfilerAssumption

-----------------------------------------------------------------------------
(* Lemmas about the times of the runs. *)

Amount(t) == IF t = NoTime THEN 0 ELSE t

LEMMA TimesOfRuns ==
  ASSUME NEW d \in Seq(Datamap), NEW s \in Sections
  PROVE  /\ DOMAIN TimesIn(d, s) = 1 .. Len(d)
         /\ \A i \in 1 .. Len(d) : TimesIn(d, s)[i] = Amount(d[i][s]) /\ TimesIn(d, s)[i] \in Nat
         /\ SumFunction(TimesIn(d, s)) = SumFunctionOnSet(TimesIn(d, s), 1 .. Len(d))
         /\ SumFunction(TimesIn(d, s)) \in Nat
         /\ IsFiniteSet(1 .. Len(d)) /\ Len(d) \in Nat
  <1>1. Len(d) \in Nat /\ DOMAIN d = 1 .. Len(d)
    OBVIOUS
  <1>2. IsFiniteSet(1 .. Len(d))
    BY <1>1, FS_Interval
  <1>3. \A i \in 1 .. Len(d) : d[i] \in Datamap
    BY ElementOfSeq
  <1>4. DOMAIN TimesIn(d, s) = 1 .. Len(d)
    BY <1>1 DEF TimesIn
  <1>5. \A i \in 1 .. Len(d) : TimesIn(d, s)[i] = Amount(d[i][s]) /\ TimesIn(d, s)[i] \in Nat
    BY <1>1, <1>3 DEF TimesIn, Amount, Datamap
  <1>6. SumFunction(TimesIn(d, s)) = SumFunctionOnSet(TimesIn(d, s), 1 .. Len(d))
    BY <1>4 DEF SumFunction
  <1>7. SumFunctionOnSet(TimesIn(d, s), 1 .. Len(d)) \in Nat
    BY <1>2, <1>5, SumType
  <1> QED
    BY <1>1, <1>2, <1>4, <1>5, <1>6, <1>7

\* New runs have recorded nothing.
LEMMA NewRuns ==
  ASSUME NEW n \in Nat, NEW d, d = [i \in 1 .. n |-> NewMap], NEW s \in Sections
  PROVE  d \in Seq(Datamap) /\ SumFunction(TimesIn(d, s)) = 0
  <1>1. d \in Seq(Datamap) /\ Len(d) = n /\ \A i \in 1 .. n : d[i][s] = NoTime
    BY DEF NewMap, Datamap
  <1>2. \A i \in 1 .. Len(d) : TimesIn(d, s)[i] = 0
    BY <1>1, TimesOfRuns DEF Amount
  <1> QED
    BY <1>1, <1>2, TimesOfRuns, SumOfZeros

LEMMA OneMoreRun ==
  ASSUME NEW d \in Seq(Datamap), NEW s \in Sections
  PROVE  /\ Append(d, NewMap) \in Seq(Datamap)
         /\ SumFunction(TimesIn(Append(d, NewMap), s)) = SumFunction(TimesIn(d, s))
  <1>1. NewMap \in Datamap /\ NewMap[s] = NoTime
    BY DEF NewMap, Datamap
  <1>2. PICK e \in Seq(Datamap) : /\ e = Append(d, NewMap) /\ Len(e) = Len(d) + 1 /\ Len(d) \in Nat
                                  /\ e[Len(d) + 1] = NewMap /\ \A i \in 1 .. Len(d) : e[i] = d[i]
    <2>1. PICK map \in Datamap : map = NewMap
      BY <1>1
    <2>2. PICK e : e = Append(d, map)
      OBVIOUS
    <2>3. e \in Seq(Datamap) /\ Len(e) = Len(d) + 1 /\ Len(d) \in Nat
      BY <2>2
    <2>4. e[Len(d) + 1] = map /\ \A i \in 1 .. Len(d) : e[i] = d[i]
      BY <2>2, AppendProperties
    <2> QED
      BY <2>1, <2>2, <2>3, <2>4
  <1> DEFINE n == Len(d) + 1
             f == TimesIn(d, s)
             g == TimesIn(e, s)
  <1>3. /\ \A i \in 1 .. Len(d) : f[i] \in Int /\ g[i] = f[i]
        /\ g[n] = 0 /\ \A i \in 1 .. n : g[i] \in Int
    <2>1. \A i \in 1 .. Len(d) : f[i] = Amount(d[i][s]) /\ f[i] \in Nat
      BY TimesOfRuns
    <2>2. \A i \in 1 .. n : g[i] = Amount(e[i][s]) /\ g[i] \in Nat
      BY <1>2, TimesOfRuns
    <2>3. Amount(e[n][s]) = 0
      BY <1>1, <1>2 DEF Amount
    <2>4. n \in 1 .. n /\ \A i \in 1 .. Len(d) : i \in 1 .. n
      BY <1>2
    <2> HIDE DEF f, g
    <2> QED
      BY <1>2, <2>1, <2>2, <2>3, <2>4
  <1>4. /\ SumFunction(f) = SumFunctionOnSet(f, 1 .. Len(d)) /\ SumFunction(f) \in Nat
        /\ SumFunction(g) = SumFunctionOnSet(g, 1 .. n)
        /\ IsFiniteSet(1 .. Len(d)) /\ IsFiniteSet(1 .. n)
    <2>1. SumFunction(f) = SumFunctionOnSet(f, 1 .. Len(d)) /\ SumFunction(f) \in Nat /\ IsFiniteSet(1 .. Len(d))
      BY TimesOfRuns
    <2>2. SumFunction(g) = SumFunctionOnSet(g, 1 .. Len(e)) /\ IsFiniteSet(1 .. Len(e))
      BY TimesOfRuns
    <2> QED
      BY ONLY <1>2, <2>1, <2>2
  <1> HIDE DEF f, g
  <1>5. SumFunctionOnSet(g, 1 .. n) = g[n] + SumFunctionOnSet(g, (1 .. n) \ {n})
    <2>1. n \in 1 .. n
      BY <1>2
    <2>2. PICK runs : runs = 1 .. n
      OBVIOUS
    <2>3. IsFiniteSet(runs) /\ \A i \in runs : g[i] \in Int
      BY ONLY <1>3, <1>4, <2>2
    <2>4. PICK last \in runs : last = n
      BY <2>1, <2>2
    <2>5. SumFunctionOnSet(g, runs) = g[last] + SumFunctionOnSet(g, runs \ {last})
      BY ONLY <2>3, last \in runs, SumRemove
    <2> QED
      BY ONLY <2>2, <2>4, <2>5
  <1>6. (1 .. n) \ {n} = 1 .. Len(d)
    BY <1>2
  <1>7. SumFunctionOnSet(g, 1 .. Len(d)) = SumFunctionOnSet(f, 1 .. Len(d))
    BY <1>3, <1>4, SumSame
  <1>8. SumFunction(g) = SumFunction(f)
    <2>1. SumFunctionOnSet(g, 1 .. n) = 0 + SumFunctionOnSet(f, 1 .. Len(d))
      BY <1>3, <1>5, <1>6, <1>7
    <2>2. SumFunctionOnSet(f, 1 .. Len(d)) \in Int
      BY <1>4
    <2> QED
      BY <1>4, <2>1, <2>2
  <1> QED
    BY <1>1, <1>2, <1>8 DEF f, g

\* The time that one run has recorded of one section is replaced.
Changed(d, k, r, t) == [d EXCEPT ![k][r] = t]

LEMMA OneRunChanges ==
  ASSUME NEW d \in Seq(Datamap), NEW k \in 1 .. Len(d), NEW r \in Sections, NEW t \in Nat, NEW s \in Sections
  PROVE  /\ Changed(d, k, r, t) \in Seq(Datamap) /\ Len(Changed(d, k, r, t)) = Len(d)
         /\ \A i \in 1 .. Len(d) : i # k => Changed(d, k, r, t)[i] = d[i]
         /\ SumFunction(TimesIn(Changed(d, k, r, t), s)) =
              SumFunction(TimesIn(d, s)) + (IF s = r THEN Amount(t) - Amount(d[k][r]) ELSE 0)
  <1> DEFINE e == Changed(d, k, r, t)
  <1>1. /\ Len(d) \in Nat /\ DOMAIN d = 1 .. Len(d)
        /\ \A i \in 1 .. Len(d) : d[i] \in Datamap
    BY ElementOfSeq
  <1>2. PICK m : m = [d[k] EXCEPT ![r] = t]
    OBVIOUS
  <1>3. m \in Datamap /\ m[r] = t /\ \A q \in Sections \ {r} : m[q] = d[k][q]
    BY <1>1, <1>2 DEF Datamap
  <1>4. e = [d EXCEPT ![k] = m]
    BY <1>2 DEF Changed
  <1> HIDE DEF e
  <1>5. e \in Seq(Datamap) /\ Len(e) = Len(d) /\ e[k] = m /\ \A i \in 1 .. Len(d) : i # k => e[i] = d[i]
    BY <1>1, <1>3, <1>4
  <1> DEFINE f == TimesIn(d, s)
             g == TimesIn(e, s)
  <1>6. /\ \A i \in 1 .. Len(d) : f[i] \in Int /\ g[i] \in Int
        /\ f[k] = Amount(d[k][s]) /\ g[k] = Amount(m[s])
        /\ \A i \in (1 .. Len(d)) \ {k} : g[i] = f[i]
    <2>1. \A i \in 1 .. Len(d) : /\ f[i] = Amount(d[i][s]) /\ f[i] \in Nat
                                 /\ g[i] = Amount(e[i][s]) /\ g[i] \in Nat
      BY <1>5, TimesOfRuns
    <2> HIDE DEF f, g
    <2> QED
      BY <1>5, <2>1, SMTT(60)
  <1>7. /\ SumFunction(f) = SumFunctionOnSet(f, 1 .. Len(d)) /\ SumFunction(f) \in Nat
        /\ SumFunction(g) = SumFunctionOnSet(g, 1 .. Len(d))
        /\ IsFiniteSet(1 .. Len(d))
    BY <1>5, TimesOfRuns
  <1> HIDE DEF f, g
  <1>8. SumFunction(g) = SumFunction(f) + (g[k] - f[k])
    <2>1. SumFunctionOnSet(g, 1 .. Len(d)) = SumFunctionOnSet(f, 1 .. Len(d)) + (g[k] - f[k])
      <3>1. PICK S : S = 1 .. Len(d)
        OBVIOUS
      <3>2. /\ k \in S /\ IsFiniteSet(S)
            /\ \A i \in S : f[i] \in Int /\ g[i] \in Int
            /\ \A i \in S \ {k} : g[i] = f[i]
        BY <1>6, <1>7, <3>1
      <3>3. SumFunctionOnSet(g, S) = SumFunctionOnSet(f, S) + (g[k] - f[k])
        BY ONLY <3>2, SumChange, ZenonT(60)
      <3> QED
        BY <3>1, <3>3
    <2> QED
      BY <1>7, <2>1
  <1>9. SumFunction(g) = SumFunction(f) + (IF s = r THEN Amount(t) - Amount(d[k][r]) ELSE 0)
    BY <1>3, <1>6, <1>7, <1>8
  <1> QED
    BY <1>5, <1>9 DEF e, f, g

-----------------------------------------------------------------------------
(* Lemmas about the steps. *)

\* The values that the steps compute with.
LEMMA Values ==
  ASSUME IInv, NEW s \in Sections
  PROVE  /\ timer[s] \in Clocks /\ now \in Nat
         /\ timer[s].start \in Nat /\ timer[s].stop \in Nat /\ timer[s].start <= now
         /\ timer[s].stopped => timer[s].start <= timer[s].stop
         /\ timer[s].stop <= now
         /\ Times(s) \in Nat /\ spent[s] \in Nat /\ again[s] \in Nat /\ within[s] \in Nat
         /\ StillToRecord(s) \in Nat /\ Times(s) + StillToRecord(s) <= spent[s] + again[s]
  <1>1. timer[s] \in Clocks /\ now \in Nat /\ spent[s] \in Nat /\ again[s] \in Nat /\ within[s] \in Nat
    BY DEF IInv, Typed
  <1>2. timer[s].start \in Nat /\ timer[s].stop \in Nat
    BY <1>1 DEF Clocks
  <1>3. /\ timer[s].start <= now /\ timer[s].stop <= now
        /\ timer[s].stopped => timer[s].start <= timer[s].stop
    BY DEF IInv, ClocksAreRight
  <1>4. Times(s) \in Nat
    BY TimesOfRuns DEF IInv, Typed, Times
  <1>5. StillToRecord(s) \in Nat
    BY <1>1, <1>2, <1>3 DEF StillToRecord
  <1>6. Times(s) + StillToRecord(s) <= spent[s] + again[s]
    BY DEF IInv, Counted
  <1> QED
    BY <1>1, <1>2, <1>3, <1>4, <1>5, <1>6

\* A clock is stopped once.
LEMMA StoppedClock ==
  ASSUME IInv, NEW s \in Sections
  PROVE  LET c == Stopped(timer[s])
         IN  /\ c \in Clocks
             /\ c.known = timer[s].known /\ ~c.running /\ c.stopped
             /\ c.start = timer[s].start /\ c.start <= c.stop /\ c.stop <= now
             /\ c.stop = IF timer[s].stopped THEN timer[s].stop ELSE now
             /\ delta(c) \in Nat /\ (Due(s) => delta(c) = StillToRecord(s))
  <1>1. PICK b : b = timer[s]
    OBVIOUS
  <1>2. /\ b \in [known : BOOLEAN, running : BOOLEAN, stopped : BOOLEAN, start : Nat, stop : Nat]
        /\ now \in Nat /\ b.start <= now /\ b.stop <= now /\ (b.stopped => b.start <= b.stop)
    BY <1>1, Values DEF Clocks
  <1>3. PICK c : c = Stopped(b)
    OBVIOUS
  <1> DEFINE stop == IF b.stopped THEN b.stop ELSE now
  <1>4. c = [known |-> b.known, running |-> FALSE, stopped |-> TRUE, start |-> b.start, stop |-> stop]
    BY <1>2, <1>3 DEF Stopped
  <1>5. stop \in Nat /\ b.start <= stop /\ stop <= now
    BY <1>2
  <1>6. Due(s) => StillToRecord(s) = stop - b.start
    BY <1>1 DEF StillToRecord
  <1>7. stop = IF timer[s].stopped THEN timer[s].stop ELSE now
    BY <1>1
  <1> HIDE DEF stop
  <1>8. /\ c \in [known : BOOLEAN, running : BOOLEAN, stopped : BOOLEAN, start : Nat, stop : Nat]
        /\ c.known = b.known /\ ~c.running /\ c.stopped /\ c.start = b.start /\ c.stop = stop
    BY <1>2, <1>4, <1>5
  <1>9. delta(c) \in Nat /\ (Due(s) => delta(c) = StillToRecord(s))
    BY <1>2, <1>5, <1>6, <1>8 DEF delta
  <1> QED
    BY <1>1, <1>3, <1>5, <1>7, <1>8, <1>9 DEF Clocks

\* Beginning a section starts its clock, unless it runs.
LEMMA BeginStep ==
  ASSUME IInv, NEW s \in Sections, Begin(s), scopes' \in Seq(Scopes), UNCHANGED <<now, current_run_number_>>
  PROVE  IInv'
  <1> DEFINE clock == [known |-> TRUE, running |-> TRUE, stopped |-> FALSE, start |-> now, stop |-> 0]
  <1>1. /\ within[s] < MaxNesting /\ within' = [within EXCEPT ![s] = @ + 1]
        /\ timer' = IF timer[s].running THEN timer ELSE [timer EXCEPT ![s] = clock]
        /\ datamaps_' = datamaps_ \/ datamaps_' = Append(datamaps_, NewMap)
        /\ taken' = [taken EXCEPT ![s] = @ /\ timer[s].running]
        /\ UNCHANGED <<spent, again>>
    BY DEF Begin, startTiming, IInv, ClocksAreRight, Due
  <1>2. clock \in Clocks /\ clock.known /\ ~clock.stopped /\ clock.start = now /\ clock.stop = 0
    BY DEF IInv, Typed, Clocks
  <1> HIDE DEF clock
  <1>3. datamaps_' \in Seq(Datamap) /\ \A r \in Sections : Times(r)' = Times(r)
    <2>1. datamaps_ \in Seq(Datamap)
      BY DEF IInv, Typed
    <2>2. CASE datamaps_' = datamaps_
      BY <2>1, <2>2 DEF Times
    <2>3. CASE datamaps_' = Append(datamaps_, NewMap)
      BY <2>1, <2>3, OneMoreRun DEF Times
    <2> QED
      BY <1>1, <2>2, <2>3
  <1>4. /\ timer'[s] = IF timer[s].running THEN timer[s] ELSE clock
        /\ within'[s] = within[s] + 1 /\ ~taken'[s]
        /\ \A r \in Sections \ {s} :
             timer'[r] = timer[r] /\ within'[r] = within[r] /\ taken'[r] = taken[r]
    <2>1. timer[s].running => ~taken[s]
      BY DEF IInv, ClocksAreRight, Due
    <2> QED
      BY <1>1, <2>1 DEF IInv, Typed
  <1>5. Typed'
    <2>1. timer' \in [Sections -> Clocks] /\ within' \in [Sections -> Nat] /\ taken' \in [Sections -> BOOLEAN]
      BY <1>1, <1>2 DEF IInv, Typed
    <2> QED
      BY <1>1, <1>3, <2>1 DEF IInv, Typed
  <1>6. Bounded'
    BY <1>1, <1>4, Values DEF IInv, Bounded
  <1>7. \A r \in Sections : /\ StillToRecord(r)' <= StillToRecord(r) /\ StillToRecord(r)' \in Nat
    <2> SUFFICES ASSUME NEW r \in Sections
                 PROVE  StillToRecord(r)' <= StillToRecord(r) /\ StillToRecord(r)' \in Nat
      OBVIOUS
    <2>1. CASE r = s /\ ~timer[s].running
      BY <1>1, <1>2, <1>4, <2>1, Values DEF StillToRecord
    <2>2. CASE r # s \/ timer[s].running
      <3>1. timer'[r] = timer[r] /\ Due(r)' = Due(r)
        BY <1>4, <2>2 DEF Due, IInv, ClocksAreRight
      <3>2. now' = now
        BY <1>1
      <3>3. StillToRecord(r)' = StillToRecord(r)
        BY <3>1, <3>2 DEF StillToRecord
      <3>4. StillToRecord(r) \in Nat
        BY Values
      <3> QED
        BY <3>3, <3>4
    <2> QED
      BY <2>1, <2>2
  <1>8. ClocksAreRight'
    <2> SUFFICES ASSUME NEW r \in Sections
                 PROVE  /\ timer'[r].running => Due(r)'
                        /\ Due(r)' => within'[r] > 0
                        /\ timer'[r].start <= now
                        /\ timer'[r].stopped => timer'[r].start <= timer'[r].stop
                        /\ timer'[r].stop <= now
      BY DEF ClocksAreRight
    <2>1. CASE r = s /\ ~timer[s].running
      BY <1>2, <1>4, <2>1, Values DEF Due
    <2>2. CASE r # s \/ timer[s].running
      <3>1. timer'[r] = timer[r] /\ (Due(r)' <=> Due(r))
        BY <1>4, <2>2 DEF Due, IInv, ClocksAreRight
      <3>2. within[r] > 0 => within'[r] > 0
        BY <1>4, Values
      <3> QED
        BY <3>1, <3>2, Values DEF IInv, ClocksAreRight
    <2> QED
      BY <2>1, <2>2
  <1>9. Counted'
    BY <1>1, <1>3, <1>7, Values DEF Counted
  <1> QED
    BY <1>5, <1>6, <1>8, <1>9 DEF IInv

\* Ending a section records the time since it began, or records it again.
LEMMA EndStep ==
  ASSUME IInv, NEW s \in Sections, NEW times \in {1, 2}, End(s, times), scopes' \in Seq(Scopes),
         UNCHANGED <<now, current_run_number_>>
  PROVE  IInv'
  <1> DEFINE clock    == Stopped(timer[s])
             k        == current_run_number_ + 1
             old      == Amount(datamaps_[k][s])
             t        == delta(clock)
             repeated == (IF taken[s] THEN times ELSE times - 1) * t
             new      == old + times * t
  <1>1. /\ InRange /\ timer[s].known
        /\ again[s] + repeated <= MaxAgain
        /\ within' = [within EXCEPT ![s] = IF @ = 0 THEN 0 ELSE @ - 1]
        /\ timer' = [timer EXCEPT ![s] = clock]
        /\ datamaps_' = [datamaps_ EXCEPT ![k][s] = new]
        /\ taken' = [taken EXCEPT ![s] = TRUE]
        /\ again' = [again EXCEPT ![s] = @ + repeated]
        /\ UNCHANGED spent
    BY DEF End, stopTiming, Recorded, Current, Amount
  <1>2. /\ clock \in Clocks
        /\ clock.known = timer[s].known /\ ~clock.running /\ clock.stopped
        /\ clock.start = timer[s].start /\ clock.start <= clock.stop /\ clock.stop <= now
        /\ t \in Nat /\ (Due(s) => t = StillToRecord(s))
    BY StoppedClock
  <1> HIDE DEF clock
  <1>3. datamaps_ \in Seq(Datamap) /\ now \in Nat /\ k \in 1 .. Len(datamaps_)
    BY <1>1 DEF IInv, Typed, InRange
  <1>4. old \in Nat /\ new \in Nat /\ repeated \in Nat
        /\ times * t = repeated + (IF taken[s] THEN 0 ELSE t)
    <2>1. datamaps_[k] \in Datamap
      BY <1>3, ElementOfSeq
    <2>2. old \in Nat
      BY <2>1 DEF Amount, Datamap
    <2>3. PICK u \in Nat : u = t
      BY <1>2
    <2> HIDE DEF old, t
    <2>4. CASE times = 1
      BY <2>2, <2>3, <2>4
    <2>5. CASE times = 2
      BY <2>2, <2>3, <2>5
    <2> QED
      BY <2>4, <2>5
  <1> HIDE DEF k, new, old, repeated, t
  <1>5. /\ datamaps_' \in Seq(Datamap)
        /\ \A r \in Sections : Times(r)' = Times(r) + (IF r = s THEN Amount(new) - old ELSE 0)
    <2> SUFFICES ASSUME NEW r \in Sections
                 PROVE  /\ datamaps_' \in Seq(Datamap)
                        /\ Times(r)' = Times(r) + (IF r = s THEN Amount(new) - old ELSE 0)
      OBVIOUS
    <2>1. /\ datamaps_' \in Seq(Datamap)
          /\ SumFunction(TimesIn(datamaps_', r)) =
               SumFunction(TimesIn(datamaps_, r))
                 + (IF r = s THEN Amount(new) - Amount(datamaps_[k][s]) ELSE 0)
      <3>1. s \in Sections /\ r \in Sections
        OBVIOUS
      <3>2. datamaps_' = Changed(datamaps_, k, s, new)
        BY <1>1 DEF Changed
      <3>3. datamaps_ \in Seq(Datamap) /\ k \in 1 .. Len(datamaps_) /\ new \in Nat
        BY <1>3, <1>4
      <3> QED
        BY ONLY <3>1, <3>2, <3>3, OneRunChanges
    <2> QED
      BY <2>1 DEF Times, old
  <1>6. Amount(new) <= new /\ Amount(new) \in Nat
    BY <1>4 DEF Amount
  <1>7. /\ timer'[s] = clock /\ taken'[s] /\ again'[s] = again[s] + repeated
        /\ within'[s] \in Nat /\ within'[s] <= within[s]
        /\ \A r \in Sections \ {s} : /\ timer'[r] = timer[r] /\ taken'[r] = taken[r]
                                     /\ again'[r] = again[r] /\ within'[r] = within[r]
    <2>1. within'[s] = IF within[s] = 0 THEN 0 ELSE within[s] - 1
      BY <1>1 DEF IInv, Typed
    <2>2. within'[s] \in Nat /\ within'[s] <= within[s]
      BY <2>1, Values
    <2> QED
      BY <1>1, <2>2 DEF IInv, Typed
  <1>8. Typed'
    <2>1. timer' \in [Sections -> Clocks] /\ within' \in [Sections -> Nat]
      BY <1>1, <1>2, <1>7 DEF IInv, Typed
    <2>2. taken' \in [Sections -> BOOLEAN] /\ again' \in [Sections -> Nat]
      BY <1>1, <1>4 DEF IInv, Typed
    <2> QED
      BY <1>1, <1>5, <2>1, <2>2 DEF IInv, Typed
  <1>9. Bounded'
    <2>1. ASSUME NEW r \in Sections
          PROVE  spent'[r] <= now /\ within'[r] <= MaxNesting /\ again'[r] <= MaxAgain
      BY <1>1, <1>7, Values DEF IInv, Bounded
    <2> QED
      BY <2>1 DEF IInv, Bounded
  <1>10. ClocksAreRight'
    <2> SUFFICES ASSUME NEW r \in Sections
                 PROVE  /\ timer'[r].running => Due(r)'
                        /\ Due(r)' => within'[r] > 0
                        /\ timer'[r].start <= now
                        /\ timer'[r].stopped => timer'[r].start <= timer'[r].stop
                        /\ timer'[r].stop <= now
      BY DEF ClocksAreRight
    <2>1. CASE r = s
      <3>1. ~Due(s)' /\ ~timer'[s].running
        BY <1>2, <1>7 DEF Due
      <3>2. timer'[s].start <= now /\ timer'[s].start <= timer'[s].stop /\ timer'[s].stop <= now
        BY <1>2, <1>7, Values
      <3> QED
        BY <2>1, <3>1, <3>2
    <2>2. CASE r # s
      BY <1>7, <2>2 DEF Due, IInv, ClocksAreRight
    <2> QED
      BY <2>1, <2>2
  <1>11. Counted'
    <2> SUFFICES ASSUME NEW r \in Sections
                 PROVE  Times(r)' + StillToRecord(r)' <= spent'[r] + again'[r]
      BY DEF Counted
    <2>1. CASE r # s
      <3>1. StillToRecord(r)' = StillToRecord(r)
        BY <1>7, <2>1 DEF StillToRecord, Due
      <3> QED
        BY <1>1, <1>5, <1>7, <2>1, <3>1, Values
    <2>2. CASE r = s
      <3>1. Times(s)' = Times(s) + (Amount(new) - old) /\ StillToRecord(s)' = 0
        BY <1>5, <1>7, <2>2 DEF StillToRecord, Due
      <3>2. Amount(new) <= old + repeated + (IF taken[s] THEN 0 ELSE t)
        BY <1>2, <1>4, <1>6 DEF new
      <3>3. (IF taken[s] THEN 0 ELSE t) <= StillToRecord(s)
        BY <1>1, <1>2, Values DEF Due
      <3>4. PICK a \in Nat, b \in Nat : a = Amount(new) /\ b = IF taken[s] THEN 0 ELSE t
        BY <1>2, <1>6
      <3>5. a <= old + repeated + b /\ b <= StillToRecord(s) /\ Times(s)' = Times(s) + (a - old)
        BY <3>1, <3>2, <3>3, <3>4
      <3> HIDE DEF repeated, old
      <3>6. Times(s)' <= spent[s] + (again[s] + repeated) /\ Times(s)' \in Int
        <4>1. /\ old \in Nat /\ repeated \in Nat /\ Times(s) \in Nat /\ StillToRecord(s) \in Nat
              /\ spent[s] \in Nat /\ again[s] \in Nat
              /\ Times(s) + StillToRecord(s) <= spent[s] + again[s]
          BY <1>4, Values
        <4>2. a - old \in Int /\ a - old <= repeated + StillToRecord(s)
          BY <3>5, <4>1
        <4>3. PICK change \in Int : change = a - old
          BY <4>2
        <4>4. Times(s) + change <= spent[s] + (again[s] + repeated) /\ Times(s) + change \in Int
          BY <4>1, <4>2, <4>3
        <4> QED
          BY <3>5, <4>3, <4>4
      <3> QED
        BY <1>1, <1>7, <2>2, <3>1, <3>6
    <2> QED
      BY <2>1, <2>2
  <1> QED
    BY <1>8, <1>9, <1>10, <1>11 DEF IInv

\* Time passes.
LEMMA TickStep ==
  ASSUME IInv, Tick
  PROVE  IInv'
  <1>1. /\ now < MaxTime /\ now' = now + 1
        /\ spent' = [s \in Sections |-> IF within[s] > 0 THEN spent[s] + 1 ELSE spent[s]]
        /\ UNCHANGED <<timer, datamaps_, current_run_number_, scopes, within, taken, again>>
    BY DEF Tick
  <1>2. now \in Nat
    BY DEF IInv, Typed
  <1>3. \A s \in Sections : spent'[s] = IF within[s] > 0 THEN spent[s] + 1 ELSE spent[s]
    BY <1>1
  <1>4. spent' \in [Sections -> Nat]
    BY <1>1, Values
  <1>5. Typed'
    BY <1>1, <1>2, <1>4 DEF IInv, Typed
  <1>6. Bounded'
    BY <1>1, <1>2, <1>3, Values DEF IInv, Bounded
  <1>7. ClocksAreRight'
    <2> SUFFICES ASSUME NEW s \in Sections
                 PROVE  /\ timer[s].running => Due(s)
                        /\ Due(s) => within[s] > 0
                        /\ timer[s].start <= now'
                        /\ timer[s].stopped => timer[s].start <= timer[s].stop
                        /\ timer[s].stop <= now'
      BY <1>1 DEF ClocksAreRight, Due
    <2>1. timer[s].start <= now' /\ timer[s].stop <= now'
      BY <1>1, <1>2, Values
    <2> QED
      BY <2>1 DEF IInv, ClocksAreRight
  <1>8. Counted'
    <2> SUFFICES ASSUME NEW s \in Sections
                 PROVE  Times(s)' + StillToRecord(s)' <= spent'[s] + again'[s]
      BY DEF Counted
    <2>1. Times(s)' = Times(s) /\ again'[s] = again[s]
      BY <1>1 DEF Times
    <2>2. CASE Due(s)
      <3>1. within[s] > 0
        BY <2>2 DEF IInv, ClocksAreRight
      <3>2. StillToRecord(s)' <= StillToRecord(s) + 1 /\ StillToRecord(s)' \in Nat
        BY <1>1, <2>2, Values DEF StillToRecord, Due
      <3> QED
        BY <1>3, <2>1, <3>1, <3>2, Values
    <2>3. CASE ~Due(s)
      <3>1. StillToRecord(s)' = 0
        BY <1>1, <2>3 DEF StillToRecord, Due
      <3> QED
        BY <1>3, <2>1, <3>1, Values
    <2> QED
      BY <2>2, <2>3
  <1> QED
    BY <1>5, <1>6, <1>7, <1>8 DEF IInv

\* resetTiming() forgets, and stops the clock.
LEMMA ResetTimingStep ==
  ASSUME IInv, NEW s \in Sections, resetTiming(s)
  PROVE  IInv'
  <1> DEFINE clock == Stopped(timer[s])
             k     == current_run_number_ + 1
  <1>1. /\ InRange
        /\ timer' = timer \/ timer' = [timer EXCEPT ![s] = clock]
        /\ datamaps_' = Changed(datamaps_, k, s, 0)
        /\ UNCHANGED <<now, current_run_number_, scopes, within, spent, taken, again>>
    BY DEF resetTiming, Changed, history
  <1>2. /\ clock \in Clocks
        /\ clock.known = timer[s].known /\ ~clock.running /\ clock.stopped
        /\ clock.start = timer[s].start /\ clock.start <= clock.stop /\ clock.stop <= now
        /\ clock.stop = IF timer[s].stopped THEN timer[s].stop ELSE now
    BY StoppedClock
  <1> HIDE DEF clock
  <1>3. datamaps_ \in Seq(Datamap) /\ now \in Nat /\ k \in 1 .. Len(datamaps_)
    BY <1>1 DEF IInv, Typed, InRange
  <1> HIDE DEF k
  <1>4. /\ datamaps_' \in Seq(Datamap)
        /\ \A r \in Sections : Times(r)' <= Times(r) /\ Times(r)' \in Nat
    <2> SUFFICES ASSUME NEW r \in Sections
                 PROVE  datamaps_' \in Seq(Datamap) /\ Times(r)' <= Times(r) /\ Times(r)' \in Nat
      OBVIOUS
    <2>1. s \in Sections /\ r \in Sections /\ 0 \in Nat
      OBVIOUS
    <2>2. /\ datamaps_' \in Seq(Datamap)
          /\ SumFunction(TimesIn(datamaps_', r)) =
               SumFunction(TimesIn(datamaps_, r)) + (IF r = s THEN Amount(0) - Amount(datamaps_[k][s]) ELSE 0)
      BY ONLY <1>1, <1>3, <2>1, OneRunChanges
    <2>3. SumFunction(TimesIn(datamaps_', r)) \in Nat /\ SumFunction(TimesIn(datamaps_, r)) \in Nat
      BY <1>3, <2>2, TimesOfRuns
    <2>4. Amount(0) = 0 /\ Amount(datamaps_[k][s]) \in Nat
      <3>1. datamaps_[k] \in Datamap
        BY <1>3, ElementOfSeq
      <3> QED
        BY <3>1 DEF Amount, Datamap
    <2> QED
      BY <2>2, <2>3, <2>4 DEF Times
  <1>5. Typed'
    BY <1>1, <1>2, <1>4 DEF IInv, Typed
  <1>6. Bounded'
    BY <1>1 DEF IInv, Bounded
  <1>7. /\ timer'[s] = timer[s] \/ timer'[s] = clock
        /\ \A r \in Sections \ {s} : timer'[r] = timer[r]
    BY <1>1 DEF IInv, Typed
  <1>8. ClocksAreRight'
    <2> SUFFICES ASSUME NEW r \in Sections
                 PROVE  /\ timer'[r].running => Due(r)'
                        /\ Due(r)' => within[r] > 0
                        /\ timer'[r].start <= now
                        /\ timer'[r].stopped => timer'[r].start <= timer'[r].stop
                        /\ timer'[r].stop <= now
      BY <1>1 DEF ClocksAreRight
    <2>1. CASE timer'[r] = timer[r]
      BY <1>1, <2>1 DEF Due, IInv, ClocksAreRight
    <2>2. CASE r = s /\ timer'[s] = clock
      BY <1>1, <1>2, <2>2 DEF Due, IInv, ClocksAreRight
    <2> QED
      BY <1>7, <2>1, <2>2
  <1>9. Counted'
    <2> SUFFICES ASSUME NEW r \in Sections
                 PROVE  Times(r)' + StillToRecord(r)' <= spent'[r] + again'[r]
      BY DEF Counted
    <2>1. StillToRecord(r)' = StillToRecord(r)
      <3>1. CASE timer'[r] = timer[r]
        BY <1>1, <3>1 DEF StillToRecord, Due
      <3>2. CASE r = s /\ timer'[s] = clock
        BY <1>1, <1>2, <3>2 DEF StillToRecord, Due
      <3> QED
        BY <1>7, <3>1, <3>2
    <2> QED
      BY <1>1, <1>4, <2>1, Values
  <1> QED
    BY <1>5, <1>6, <1>8, <1>9 DEF IInv

\* reset() forgets all times, nextRun() none.
LEMMA RunsStep ==
  ASSUME IInv, (\E numRuns \in 1 .. MaxRuns : reset(numRuns)) \/ nextRun
  PROVE  IInv'
  <1>1. ASSUME NEW numRuns \in 1 .. MaxRuns, reset(numRuns)
        PROVE  IInv'
    <2>1. /\ datamaps_' = [i \in 1 .. numRuns |-> NewMap] /\ current_run_number_' = 0
          /\ UNCHANGED <<now, timer, scopes, within, spent, taken, again>> /\ numRuns \in Nat
      BY <1>1 DEF reset, history
    <2>2. \A s \in Sections : datamaps_' \in Seq(Datamap) /\ SumFunction(TimesIn(datamaps_', s)) = 0
      BY <2>1, NewRuns
    <2>3. datamaps_' \in Seq(Datamap)
      BY <2>1 DEF NewMap, Datamap
    <2>4. Typed'
      BY <2>1, <2>3 DEF IInv, Typed
    <2>5. Bounded' /\ ClocksAreRight'
      BY <2>1 DEF IInv, Bounded, ClocksAreRight, Due
    <2>6. Counted'
      <3> SUFFICES ASSUME NEW s \in Sections
                   PROVE  Times(s)' + StillToRecord(s)' <= spent'[s] + again'[s]
        BY DEF Counted
      <3>1. StillToRecord(s)' = StillToRecord(s)
        BY <2>1 DEF StillToRecord, Due
      <3>2. Times(s)' = 0
        BY <2>2 DEF Times
      <3> QED
        BY <2>1, <3>1, <3>2, Values
    <2> QED
      BY <2>4, <2>5, <2>6 DEF IInv
  <1>2. CASE nextRun
    <2>1. /\ current_run_number_ + 1 < MaxRuns /\ current_run_number_' = current_run_number_ + 1
          /\ timer' = [s \in Sections |-> [timer[s] EXCEPT !.running = FALSE]]
          /\ UNCHANGED <<now, datamaps_, scopes, within, spent, taken, again>>
      BY <1>2 DEF nextRun, history
    <2>2. ASSUME NEW s \in Sections
          PROVE  /\ timer'[s] \in Clocks
                 /\ ~timer'[s].running /\ timer'[s].known = timer[s].known
                 /\ timer'[s].stopped = timer[s].stopped
                 /\ timer'[s].start = timer[s].start /\ timer'[s].stop = timer[s].stop
      <3>1. PICK c : c = timer[s]
        OBVIOUS
      <3>2. c \in [known : BOOLEAN, running : BOOLEAN, stopped : BOOLEAN, start : Nat, stop : Nat]
        BY <3>1, Values DEF Clocks
      <3>3. timer'[s] = [c EXCEPT !.running = FALSE]
        BY <2>1, <3>1
      <3> QED
        BY <3>1, <3>2, <3>3 DEF Clocks
    <2>3. Typed'
      BY <2>1, <2>2 DEF IInv, Typed
    <2>4. Bounded'
      BY <2>1 DEF IInv, Bounded, Typed
    <2>5. ClocksAreRight'
      BY <2>1, <2>2 DEF IInv, ClocksAreRight, Due
    <2>6. Counted'
      BY <2>1, <2>2 DEF IInv, Counted, Times, StillToRecord, Due
    <2> QED
      BY <2>3, <2>4, <2>5, <2>6 DEF IInv
  <1> QED
    BY <1>1, <1>2

-----------------------------------------------------------------------------
(* The theorems. *)

\* The scopes that are open after one was opened, or left.
LEMMA ScopesTyped ==
  ASSUME IInv
  PROVE  /\ scopes \in Seq(Scopes)
         /\ \A x \in Scopes : Append(scopes, x) \in Seq(Scopes)
         /\ scopes # <<>> => Front(scopes) \in Seq(Scopes) /\ Last(scopes) \in Scopes
  <1>1. scopes \in Seq(Scopes)
    BY DEF IInv, Typed
  <1>2. ASSUME NEW x \in Scopes
        PROVE  Append(scopes, x) \in Seq(Scopes)
    BY <1>1
  <1>3. ASSUME scopes # <<>>
        PROVE  Front(scopes) \in Seq(Scopes) /\ Last(scopes) \in Scopes
    <2>1. Len(scopes) \in Nat \ {0}
      BY <1>1, <1>3, EmptySeq
    <2>2. \A i \in 1 .. Len(scopes) : scopes[i] \in Scopes
      BY <1>1, ElementOfSeq
    <2>3. PICK k : k = Len(scopes) - 1
      OBVIOUS
    <2>4. k \in 0 .. Len(scopes)
      BY <2>1, <2>3
    <2>5. SubSeq(scopes, 1, k) \in Seq(Scopes)
      BY <1>1, <2>2, <2>4
    <2> QED
      BY <2>1, <2>2, <2>3, <2>5 DEF Front, Last
  <1> QED
    BY <1>1, <1>2, <1>3

LEMMA InitIInv == Init => IInv
  <1> SUFFICES ASSUME Init PROVE IInv
    OBVIOUS
  <1> USE DEF Init
  <1>1. datamaps_ = [i \in 1 .. 1 |-> NewMap]
    OBVIOUS
  <1>2. \A s \in Sections : Times(s) = 0
    <2>1. 1 \in Nat
      OBVIOUS
    <2> QED
      BY <1>1, <2>1, NewRuns DEF Times
  <1>3. datamaps_ \in Seq(Datamap)
    BY DEF NewMap, Datamap
  <1>4. Typed
    BY <1>3, EmptySeq DEF Typed, Clocks
  <1>5. ClocksAreRight
    BY DEF ClocksAreRight, Due
  <1>6. Counted
    BY <1>2 DEF Counted, StillToRecord, Due
  <1>7. Bounded
    BY DEF Bounded
  <1> QED
    BY <1>4, <1>5, <1>6, <1>7 DEF IInv

LEMMA NextIInv == IInv /\ [Next]_vars => IInv'
  <1> SUFFICES ASSUME IInv, [Next]_vars PROVE IInv'
    OBVIOUS
  <1>1. CASE Tick
    BY <1>1, TickStep
  <1>2. ASSUME NEW s \in Sections, Start(s)
        PROVE  IInv'
    BY <1>2, ScopesTyped, BeginStep DEF Start
  <1>3. ASSUME NEW s \in Sections, Stop(s)
        PROVE  IInv'
    BY <1>3, ScopesTyped, EndStep DEF Stop
  <1>4. ASSUME NEW s \in Sections, resetTiming(s)
        PROVE  IInv'
    BY <1>4, ResetTimingStep
  <1>5. ASSUME NEW s \in Sections, NEW kind \in {"plain", "output"}, ScopedTiming(s, kind)
        PROVE  IInv'
    <2>1. PICK x : x = [section |-> s, kind |-> kind]
      OBVIOUS
    <2>2. x \in Scopes /\ scopes' = Append(scopes, x)
      BY <1>5, <2>1 DEF ScopedTiming, Scopes
    <2>3. scopes' \in Seq(Scopes)
      BY <2>2, ScopesTyped
    <2> QED
      BY <1>5, <2>3, BeginStep DEF ScopedTiming
  <1>6. CASE LeaveScope
    <2>1. PICK x : x = Last(scopes)
      OBVIOUS
    <2>2. x \in Scopes /\ scopes' \in Seq(Scopes)
      BY <1>6, <2>1, ScopesTyped DEF LeaveScope
    <2>3. x.section \in Sections
      BY <2>2 DEF Scopes
    <2>4. PICK times \in {1, 2} : End(x.section, times)
      BY <1>6, <2>1 DEF LeaveScope
    <2> QED
      BY <1>6, <2>2, <2>3, <2>4, EndStep DEF LeaveScope
  <1>7. CASE (\E numRuns \in 1 .. MaxRuns : reset(numRuns)) \/ nextRun
    BY <1>7, RunsStep
  <1>8. CASE UNCHANGED vars
    BY <1>8 DEF vars, history, IInv, Typed, Bounded, ClocksAreRight, Counted, Times, StillToRecord, Due
  <1> QED
    BY <1>1, <1>2, <1>3, <1>4, <1>5, <1>6, <1>7, <1>8 DEF Next

LEMMA Invariance == Spec => []IInv
  <1>1. Init => IInv
    BY InitIInv
  <1>2. IInv /\ [Next]_vars => IInv'
    BY NextIInv
  <1> QED
    BY <1>1, <1>2, PTL DEF Spec

LEMMA IInvImplies == IInv => OnlySecondStopsOvercount
  <1> SUFFICES ASSUME IInv PROVE OnlySecondStopsOvercount
    OBVIOUS
  <1>1. now \in 0 .. MaxTime /\ current_run_number_ \in 0 .. MaxRuns - 1
    BY DEF IInv, Typed, Bounded
  <1>2. /\ spent \in [Sections -> 0 .. MaxTime]
        /\ within \in [Sections -> 0 .. MaxNesting]
        /\ again \in [Sections -> 0 .. MaxAgain]
    BY DEF IInv, Typed, Bounded
  <1>3. timer \in [Sections -> Clock]
    <2>1. ASSUME NEW s \in Sections
          PROVE  timer[s] \in Clock
      <3>1. timer[s].start \in 0 .. MaxTime /\ timer[s].stop \in 0 .. MaxTime
        BY <1>1, Values
      <3>2. timer[s] \in [known : BOOLEAN, running : BOOLEAN, stopped : BOOLEAN, start : Nat, stop : Nat]
        BY Values DEF Clocks
      <3> QED
        BY <3>1, <3>2 DEF Clock
    <2> QED
      BY <2>1 DEF IInv, Typed
  <1>4. TypeOK
    BY <1>1, <1>2, <1>3 DEF TypeOK, IInv, Typed, Scopes
  <1>5. \A s \in Sections : Times(s) <= spent[s] + again[s]
    BY Values
  <1> QED
    BY <1>4, <1>5 DEF OnlySecondStopsOvercount

\* However starts, stops, scopes, resets and runs of the sections follow each
\* other, nested starts and scopes of one section and output scopes included, in
\* all runs together no more time is recorded of a section than the program has
\* spent in it and what second stops of one start have recorded again
\* (startTiming, stopTiming, resetTiming, nextRun and reset).
THEOREM NothingElseIsOvercounted == Spec => []OnlySecondStopsOvercount
  <1>1. IInv => OnlySecondStopsOvercount
    BY IInvImplies
  <1>2. Spec => []IInv
    BY Invariance
  <1> QED
    BY <1>1, <1>2, PTL

-----------------------------------------------------------------------------
(* The runs. *)

\* What the next theorem needs of the state.
RunsTyped == current_run_number_ \in Nat /\ \E S : datamaps_ \in Seq(S)

LEMMA ARunMore ==
  ASSUME NEW S, NEW d \in Seq(S), NEW x
  PROVE  /\ \E R : Append(d, x) \in Seq(R)
         /\ \A i \in DOMAIN d : Append(d, x)[i] = d[i]
  <1>1. S \subseteq S \cup {x} /\ x \in S \cup {x}
    OBVIOUS
  <1>2. d \in Seq(S \cup {x})
    BY <1>1, ElementOfSeq
  <1>3. Append(d, x) \in Seq(S \cup {x}) /\ \A i \in 1 .. Len(d) : Append(d, x)[i] = d[i]
    BY <1>1, <1>2, AppendProperties
  <1> QED
    BY <1>3

LEMMA ARunReplaced ==
  ASSUME NEW S, NEW d \in Seq(S), NEW k \in 1 .. Len(d), NEW x
  PROVE  /\ \E R : [d EXCEPT ![k] = x] \in Seq(R)
         /\ \A i \in DOMAIN d : i # k => [d EXCEPT ![k] = x][i] = d[i]
  <1>1. \A i \in 1 .. Len(d) : d[i] \in S \cup {x}
    BY ElementOfSeq
  <1>2. [d EXCEPT ![k] = x] \in Seq(S \cup {x})
    BY <1>1
  <1> QED
    BY <1>2

RunsStay(d) ==
  \A i \in DOMAIN datamaps_ : i <= current_run_number_ => d[i] = datamaps_[i]

\* No step touches a run that is over, but reset().
LEMMA RunsOverStay ==
  ASSUME RunsTyped, [Next]_vars
  PROVE  RunsTyped' /\ (RunsStay(datamaps_') \/ \E n \in 1 .. MaxRuns : reset(n))
  <1> PICK S : datamaps_ \in Seq(S)
    BY DEF RunsTyped
  <1>1. ASSUME NEW s \in Sections, startTiming(s), UNCHANGED current_run_number_
        PROVE  RunsTyped' /\ RunsStay(datamaps_')
    BY <1>1, ARunMore DEF startTiming, RunsTyped, RunsStay
  <1>2. ASSUME InRange, NEW x, datamaps_' = [datamaps_ EXCEPT ![current_run_number_ + 1] = x],
               UNCHANGED current_run_number_
        PROVE  RunsTyped' /\ RunsStay(datamaps_')
    <2>1. PICK k : k = current_run_number_ + 1
      OBVIOUS
    <2>2. k \in 1 .. Len(datamaps_)
      BY <1>2, <2>1 DEF InRange, RunsTyped
    <2>3. \A i \in DOMAIN datamaps_ : i <= current_run_number_ => i # k
      BY <2>1 DEF RunsTyped
    <2> QED
      BY <1>2, <2>1, <2>2, <2>3, ARunReplaced DEF RunsTyped, RunsStay
  <1>3. ASSUME NEW s, NEW times, End(s, times), UNCHANGED current_run_number_
        PROVE  RunsTyped' /\ RunsStay(datamaps_')
    <2>1. InRange /\ \E x : datamaps_' = [datamaps_ EXCEPT ![current_run_number_ + 1] = x]
      BY <1>3 DEF End, stopTiming, Recorded
    <2> QED
      BY <1>2, <1>3, <2>1
  <1>4. ASSUME NEW s \in Sections, Start(s) \/ Stop(s) \/ \E kind \in {"plain", "output"} : ScopedTiming(s, kind)
        PROVE  RunsTyped' /\ RunsStay(datamaps_')
    BY <1>1, <1>3, <1>4 DEF Start, Stop, ScopedTiming, Begin
  <1>5. CASE LeaveScope
    BY <1>3, <1>5 DEF LeaveScope
  <1>6. ASSUME NEW s \in Sections, resetTiming(s)
        PROVE  RunsTyped' /\ RunsStay(datamaps_')
    <2>1. \E x : datamaps_' = [datamaps_ EXCEPT ![current_run_number_ + 1] = x]
      BY <1>6 DEF resetTiming
    <2> QED
      BY <1>2, <1>6, <2>1 DEF resetTiming
  <1>7. ASSUME NEW n \in 1 .. MaxRuns, reset(n)
        PROVE  RunsTyped'
    <2>1. n \in Nat /\ datamaps_' = [i \in 1 .. n |-> NewMap]
      BY <1>7 DEF reset
    <2>2. datamaps_' \in Seq({NewMap})
      BY <2>1
    <2> QED
      BY <1>7, <2>2 DEF reset, RunsTyped
  <1>8. CASE Tick \/ nextRun \/ UNCHANGED vars
    BY <1>8 DEF Tick, nextRun, vars, RunsTyped, RunsStay
  <1> QED
    BY <1>4, <1>5, <1>6, <1>7, <1>8 DEF Next

LEMMA RunsAreTyped == Spec => []RunsTyped
  <1>1. Init => RunsTyped
    <2> SUFFICES ASSUME Init PROVE RunsTyped
      OBVIOUS
    <2>1. datamaps_ \in Seq({NewMap})
      BY DEF Init
    <2> QED
      BY <2>1 DEF RunsTyped, Init
  <1>2. RunsTyped /\ [Next]_vars => RunsTyped'
    BY RunsOverStay
  <1> QED
    BY <1>1, <1>2, PTL DEF Spec

\* A run that is over keeps the times it has recorded, until reset(): neither
\* sections that go on, nor resetTiming() or an output scope touch it (nextRun).
THEOREM EarlierRunsKeepTheirTimes == Spec => EarlierRunsAreFinal
  <1> DEFINE Final ==
        \A i \in DOMAIN datamaps_ :
           i <= current_run_number_ /\ current_run_number_' >= current_run_number_
             /\ Len(datamaps_') >= Len(datamaps_)
           => datamaps_'[i] = datamaps_[i]
  <1>1. RunsTyped /\ [Next]_vars => [Final]_vars
    <2> SUFFICES ASSUME RunsTyped, [Next]_vars PROVE Final
      OBVIOUS
    <2>1. CASE RunsStay(datamaps_')
      BY <2>1 DEF RunsStay
    <2>2. ASSUME NEW n \in 1 .. MaxRuns, reset(n)
          PROVE  Final
      <3>1. \A i \in DOMAIN datamaps_ : i \in Nat \ {0}
        BY DEF RunsTyped
      <3> QED
        BY <2>2, <3>1 DEF reset, RunsTyped
    <2> QED
      BY <2>1, <2>2, RunsOverStay
  <1>2. Spec => []RunsTyped
    BY RunsAreTyped
  <1> QED
    BY <1>1, <1>2, PTL DEF Spec, EarlierRunsAreFinal
=============================================================================
