------------------------------ MODULE Profiler ------------------------------
(***************************************************************************)
(* The profiler (dune/stuff/common/profiler.{hh,cc}): named sections of a  *)
(* program are timed, by calls or by the scope of an object, and the times *)
(* of each run are added up in a map of its own.  Time is counted in ticks *)
(* and one of the three clocks is modelled.  One thread.                   *)
(***************************************************************************)
EXTENDS Integers, FiniteSetsExt, SequencesExt, TLC

CONSTANTS
  Sections,
  NoTime,        \* the time of a section that a run has not recorded
  MaxTime,       \* bound: the ticks
  MaxRuns,       \* bound: the runs
  MaxScopes,     \* bound: the nested scopes
  MaxNesting,    \* bound: the starts of a section without a stop
  MaxAgain       \* bound: the ticks of a section that are recorded again

ASSUME ProfilerAssumption ==
  /\ MaxTime \in Nat /\ MaxRuns \in Nat \ {0} /\ MaxScopes \in Nat
  /\ MaxNesting \in Nat /\ MaxAgain \in Nat

VARIABLES
  now,
  timer,     \* known_timers_map_: the flag "running", and the clock of each section
  datamaps_,
  current_run_number_,
  scopes,    \* the ScopedTiming objects: "plain", "output"
  within,    \* the starts of each section that no stop has ended (history)
  spent,     \* the ticks within each section (history)
  taken,     \* a stop has recorded the time since the clock started (history)
  again      \* the ticks of each section that later stops recorded again (history)

history == <<within, spent, taken, again>>
vars    == <<now, timer, datamaps_, current_run_number_, scopes, history>>

Clock == [known : BOOLEAN, running : BOOLEAN, stopped : BOOLEAN,
          start : 0 .. MaxTime, stop : 0 .. MaxTime]

Datamap == [Sections -> {NoTime} \cup Nat]
NewMap  == [s \in Sections |-> NoTime]

TypeOK ==
  /\ now \in 0 .. MaxTime
  /\ timer \in [Sections -> Clock]
  /\ datamaps_ \in Seq(Datamap)
  /\ current_run_number_ \in 0 .. MaxRuns - 1
  /\ scopes \in Seq([section : Sections, kind : {"plain", "output"}])
  /\ within \in [Sections -> 0 .. MaxNesting]
  /\ spent \in [Sections -> 0 .. MaxTime]
  /\ taken \in [Sections -> BOOLEAN]
  /\ again \in [Sections -> 0 .. MaxAgain]

Init ==
  /\ now = 0
  /\ timer = [s \in Sections |-> [known |-> FALSE, running |-> FALSE, stopped |-> FALSE,
                                  start |-> 0, stop |-> 0]]
  /\ datamaps_ = <<NewMap>>
  /\ current_run_number_ = 0
  /\ scopes = <<>>
  /\ within = [s \in Sections |-> 0]
  /\ spent = [s \in Sections |-> 0]
  /\ taken = [s \in Sections |-> FALSE]
  /\ again = [s \in Sections |-> 0]

Tick ==
  /\ now < MaxTime
  /\ now' = now + 1
  /\ spent' = [s \in Sections |-> IF within[s] > 0 THEN spent[s] + 1 ELSE spent[s]]
  /\ UNCHANGED <<timer, datamaps_, current_run_number_, scopes, within, taken, again>>

-----------------------------------------------------------------------------
(* Sections. *)

\* Fault: a section that was timed before goes on from its old start.
startTimingFaulty(s) ==
  /\ datamaps_' = IF current_run_number_ >= Len(datamaps_) THEN Append(datamaps_, NewMap)
                  ELSE datamaps_
  /\ timer' = [timer EXCEPT ![s] = [known |-> TRUE, running |-> TRUE, stopped |-> FALSE,
                                    start |-> IF @.known THEN @.start ELSE now, stop |-> 0]]

\* A run that has no map gets one; a section that is running is left alone.
startTiming(s) ==
  /\ datamaps_' = IF current_run_number_ >= Len(datamaps_) THEN Append(datamaps_, NewMap)
                  ELSE datamaps_
  /\ timer' = IF timer[s].known /\ timer[s].running THEN timer
              ELSE [timer EXCEPT ![s] = [known |-> TRUE, running |-> TRUE, stopped |-> FALSE,
                                         start |-> now, stop |-> 0]]

InRange == current_run_number_ < Len(datamaps_)
Current == datamaps_[current_run_number_ + 1]

\* A clock is stopped once, whatever the flag says.
Stopped(c) == [c EXCEPT !.running = FALSE, !.stopped = TRUE,
                        !.stop = IF c.stopped THEN c.stop ELSE now]
delta(c)       == c.stop - c.start

\* Fault: the time goes to the first run.
RecordedFaulty(s, times) ==
  LET old == IF Current[s] = NoTime THEN 0 ELSE Current[s]
  IN  [datamaps_ EXCEPT ![1][s] = old + times * delta(Stopped(timer[s]))]

Recorded(s, times) ==
  LET old == IF Current[s] = NoTime THEN 0 ELSE Current[s]
  IN  [datamaps_ EXCEPT ![current_run_number_ + 1][s] = old + times * delta(Stopped(timer[s]))]

\* Adds the time between the last start and the first stop after it, as many
\* times as it is called.  Throws for a section that was never started.
stopTiming(s, times) ==
  /\ InRange /\ timer[s].known
  /\ timer' = [timer EXCEPT ![s] = Stopped(@)]
  /\ datamaps_' = Recorded(s, times)

\* A section may be started while it runs: its clock goes on, and there is one
\* stop more to come.
Begin(s) ==
  /\ within[s] < MaxNesting
  /\ startTiming(s)
  /\ within' = [within EXCEPT ![s] = @ + 1]
  /\ taken' = [taken EXCEPT ![s] = @ /\ timer[s].running]
  /\ UNCHANGED <<spent, again>>

\* A section may be stopped when it does not run.  The time since the clock
\* started counts once; what further stops record of it, they record again.
End(s, times) ==
  LET repeated == (IF taken[s] THEN times ELSE times - 1) * delta(Stopped(timer[s]))
  IN  /\ again[s] + repeated <= MaxAgain
      /\ stopTiming(s, times)
      /\ within' = [within EXCEPT ![s] = IF @ = 0 THEN 0 ELSE @ - 1]
      /\ taken' = [taken EXCEPT ![s] = TRUE]
      /\ again' = [again EXCEPT ![s] = @ + repeated]
      /\ UNCHANGED spent

Start(s) == Begin(s)  /\ UNCHANGED <<now, current_run_number_, scopes>>
Stop(s)  == End(s, 1) /\ UNCHANGED <<now, current_run_number_, scopes>>

ScopedTiming(s, kind) ==
  /\ Len(scopes) < MaxScopes
  /\ Begin(s)
  /\ scopes' = Append(scopes, [section |-> s, kind |-> kind])
  /\ UNCHANGED <<now, current_run_number_>>

\* The destructor of OutputScopedTiming stops the timer, and then that of its
\* base ScopedTiming does.
LeaveScope ==
  /\ scopes # <<>>
  /\ End(Last(scopes).section, IF Last(scopes).kind = "output" THEN 2 ELSE 1)
  /\ scopes' = Front(scopes)
  /\ UNCHANGED <<now, current_run_number_>>

\* Stops the section first, if it was ever started.
resetTiming(s) ==
  /\ InRange
  /\ timer' = IF timer[s].known THEN [timer EXCEPT ![s] = Stopped(@)] ELSE timer
  /\ datamaps_' = [datamaps_ EXCEPT ![current_run_number_ + 1][s] = 0]
  /\ UNCHANGED <<now, current_run_number_, scopes, history>>

-----------------------------------------------------------------------------
(* Runs. *)

\* Forgets all times, but not the timers.
reset(numRuns) ==
  /\ datamaps_' = [i \in 1 .. numRuns |-> NewMap]
  /\ current_run_number_' = 0
  /\ UNCHANGED <<now, timer, scopes, history>>

\* Marks all timers as stopped, and stops none.
nextRun ==
  /\ current_run_number_ + 1 < MaxRuns
  /\ timer' = [s \in Sections |-> [timer[s] EXCEPT !.running = FALSE]]
  /\ current_run_number_' = current_run_number_ + 1
  /\ UNCHANGED <<now, datamaps_, scopes, history>>

Next ==
  \/ Tick
  \/ \E s \in Sections :
        \/ Start(s) \/ Stop(s) \/ resetTiming(s)
        \/ \E kind \in {"plain", "output"} : ScopedTiming(s, kind)
  \/ LeaveScope
  \/ \E numRuns \in 1 .. MaxRuns : reset(numRuns)
  \/ nextRun

Spec == Init /\ [][Next]_vars

-----------------------------------------------------------------------------
(* Properties. *)

\* The time that each of the runs has recorded of a section.
TimesIn(runs, s) == [i \in DOMAIN runs |-> IF runs[i][s] = NoTime THEN 0 ELSE runs[i][s]]

Times(s) == SumFunction(TimesIn(datamaps_, s))

\* The times that are recorded of a section, in all runs together, are never
\* more than the program has spent in it and what second stops of one start have
\* recorded again: sections that are started while they run, stops without a
\* start, resetTiming() and nextRun() in between count nothing else twice.
OnlySecondStopsOvercount == TypeOK /\ \A s \in Sections : Times(s) <= spent[s] + again[s]

\* No time is counted twice: what a run records of a section has been spent in it
\* ("get runtime of section in current run in milliseconds", profiler.hh:96).
NeverOvercounts == \A s \in Sections : Times(s) <= spent[s]

\* The times of a run do not change after it, until reset() forgets them all.
EarlierRunsAreFinal ==
  [][\A i \in DOMAIN datamaps_ :
       i <= current_run_number_ /\ current_run_number_' >= current_run_number_
         /\ Len(datamaps_') >= Len(datamaps_)
       => datamaps_'[i] = datamaps_[i]]_vars

\* For model checking: what may be renamed.
Symmetry == Permutations(Sections)
=============================================================================
