# A verification project for dune-stuff

dune-stuff is a C++ module of the DUNE framework: linear algebra containers
with interchangeable backends, a grid walker and grid utilities, data functions,
loggers, a configuration tree, a profiler and many small utilities. This
directory holds TLA+ models of the parts that keep state and hand it around and
of the algorithms that are easy to get wrong, TLC runs that check them on small
instances, and TLAPS proofs of the results that matter most, for every instance.
Every definition was translated from the source; `PROJECT.json` says from which
lines ("map"), what can go wrong there ("hazards") and which property watches it.

## 1. Inventory

| Part | State | Operations | Hard because |
|---|---|---|---|
| Dense vectors (`la/container/common.hh`, `istl.hh`, `eigen/`, `vector-interface*.hh`) | `backend_`, a `shared_ptr` that copies share | copies, assignment, `backend()`, entries, `scal`, `axpy`, `add`, `sub`; iterators, norms, `dot`, `amax`, statistics | copy-on-write: every method that writes or exposes has to un-share first; arguments may alias; const methods replace the pointer; other threads own other shares; sizes of zero |
| Matrices (same files, `eigen/sparse.hh`, `pattern.*`) | the same, and a sparsity pattern | the same, `clear_row`, `clear_col`, `unit_row`, `unit_col`, pruning | the same contract, implemented four times, over patterns that may lack the entry that is written |
| Linear solvers (`la/solver`) | none | `options`, `apply` | which option is asked for by which type; a backend that fails silently; `nan` that gets past a check |
| Log streams (`common/logstreams.*`) | a string buffer, its put position, flags, suspension | `operator<<`, `flush`, `suspend`, `resume` | two mutexes that do not exclude each other, and paths that take none |
| Logging (`common/logging.*`) | the map of streams, flags, the log file | `create`, `setPrefix`, `setStreamFlags`, `addStream`, scopes | suspensions nest with priorities; streams are replaced while text waits in them |
| Timed logging (`common/timedlogging.*`) | the current level, `created_` | `create`, `get`, copies, destructors | the level is read twice by a constructor while destructors that take no lock change it |
| Grid walker (`grid/walker*`) | two lists of functors | `add`, `clear`, `walk` | workers share lists and functors; walkers nest; functors throw |
| Grid utilities (`grid/*.hh`, `grid/output`) | the start of a search; neighbours of a periodic view | searches, periodic iterators, boundary infos, statistics, pictures | searches that wrap around; neighbours found by searching; defaults of configurations that nest |
| Grid providers (`grid/provider*`) | a grid that is shared | creation from a configuration, levels, refinement | several studies and drawings refine one grid |
| Functions (`functions.hh`, `functions/*.hh`) | operands by reference or `shared_ptr` | evaluation, combinations, `divergence`, transfer, `visualize`, creation from a configuration | who owns the operands; vectors that come uninitialised; cells and boxes that share sides |
| Expressions (`functions/expression*`) | compiled code and the variables it reads | parsing, `Diff`, `Expr`, evaluation | a hand-written parser and optimiser; threads that share the variables |
| Conversions, comparisons (`common/string*`, `float_cmp*`) | none | `from_string`, `to_string`, `eq`, `lt`, ... | sizes known at compile time or not; tolerances that are not symmetric; `nan` |
| Configuration (`common/configuration.*`) | a tree, `log_on_exit_`, `logfile_` | constructors, `set`, `add`, `+`, `report`, the destructor | adding fails half way; three report layouts have to read back; copies log, too |
| Profiler (`common/profiler.*`) | timers, a map of times per run | start, stop, reset, runs, scoped timings | a section can be started while it runs, stopped without running, twice, or in a later run |
| Threads (`common/parallel`) | a static map of thread numbers, per-thread storage | `thread()`, `set_max_threads` | no lock; storage sized at construction |
| Other utilities, studies, tests | little or none | templates, tables | not modelled, see section 5 |

How they interact: `Logging` drives one `SuspendableStrBuffer` per stream and is
driven by its scopes; the walker is called by user code and by the grid utilities,
calls functors and the predicates of `apply-on.hh`, which ask boundary infos;
boundary infos and functions are made by factories from configurations, whose values
are converted from strings; periodic views search their neighbours; providers share
grids with studies and drawings; solvers read their options from configurations
and call `mv` and norms of the containers; the profiler keeps per-thread timers;
the configuration's destructor writes a file. Containers use nothing but
`shared_ptr` and their backend.

Correctness of each part, in a sentence: *vectors* behave as if nothing were
shared, and their loops visit every entry; *matrices* of all classes read as one
table would; *solvers* that return after a check have solved the system; *streams*
lose and repeat nothing; *logging* restores the flags it suspends and holds outer
suspensions; *timed logging* lets only the first managers print; *the walker*
applies every functor exactly where it was added; *searches* find what is there,
*periodic neighbours* are mutual, every *boundary* has a type, *levels* stay where
they are found; *formulas* read as usual and *derivatives* are derivatives;
*combined functions* take the values they promise while what they refer to is there;
*a configuration's* report reads back; *the profiler* counts no time twice but
that of sections that are stopped twice.

## 2. Modules

| Module | Models | State and actions |
|---|---|---|
| `Vectors` | the entries of a vector | modular arithmetic stands for any commutative ring: `Plus`, `Minus`, `Scaled`, `WithEntry` |
| `ValueContainer` | what the containers promise | one value per vector; an action per public method, named as in `CowContainer` |
| `CowContainer` | how they do it | `backend_` (vector to address), `heap` (address to content), `ref` (references handed out); `Flavour` selects the implementation where the classes differ (`axpy`, `add`, `data`) |
| `CowThreads` | `ensure_uniqueness` step by step | test, copy, swap and write are actions of their own, on several threads |
| `VectorInterface` | iterators, norms, statistics and the loops that write | one vector `vec`; numbers, `NaN`, and a size type of `SizeBits` bits, for `size() - 1` wraps |
| `Matrices` | patterns, scalars, what the interface computes | operators on records of shape, stored entries and the last exception |
| `CommonDenseMatrix`, `EigenDenseMatrix`, `IstlSparseMatrix`, `EigenSparseMatrix` | one class each | an operator per method, named alike in all four |
| `MatrixOperations` | a matrix of any class under its operations | `mat`, the `table` of what its entries should read, and `spoilt`, the entries that the code is known to leave otherwise |
| `Solvers` | options and `apply()` of the four solvers | `system`, `solution`, `call`; the answer of the external solver is any that it may give |
| `SuspendableStrBuffer` | the suspension of one buffer | operators `suspended`, `resumed`, `enabled`; used by the next two |
| `LogStreams` | one stream on several threads | `area`, `pptr`, `room` stand for the string buffer; one action per statement of `xsputn()` and `sync()` |
| `Logging` | the logger | `streammap_`, pending `text`, `console`, the log file; suspension by `suspended` and `resumed` of every stream |
| `TimedLogging` | levels | `get`, `MakeInfo`, `MakeDebug` are the three steps of `TimedLogging::get()` under its lock; `destroy` and `copy` take none |
| `Walker` | the walker | lists of `[what, where]`; workers with `todo`, `queue`, `next`; `++found_` in two steps |
| `Grids` | what dune-grid offers, and `search.hh` | axis-parallel elements in two dimensions, their intersections (external); the search is its view `gridview_` and its iterator `it_last_`, an index |
| `PeriodicView` | `periodicview.hh` | the map from intersections to periodic neighbours, the iterators, the search for the intersection on the far side |
| `BoundaryInfo` | `boundaryinfo.hh` | defaults and creation of every kind from (nested) configurations, `dirichlet`, `neumann` |
| `GridInformation` | `apply-on.hh`, `information.hh`, `intersection.hh`, `walk_functors.hh`, `entity_visualization.hh` | predicates, statistics, dimensions, `contains`, pictures of boundaries |
| `GridProviders` | the cube and eoc providers, `layers.hh`, `pgf.hh` | `coarse`, `maxLevel`, the studies and the last picture of one shared grid |
| `Expressions` | trees, their code, its instructions, `Diff` | `BuildCode` and `Val` are the stack machine with its error value; `OpPlus`, ... are the simplifying constructors |
| `ExpressionParser` | from text and back | a formula is a sequence of tokens; the steps of the constructor in their order; `Expr` |
| `ExpressionFunctions` | `Expression` and its gradients, their creation | from a configuration, or from values, to the objects that are evaluated |
| `ExpressionEvaluation` | their evaluation on threads | `maths` (code, variables, mutex), `created`, `calls`; the lock, copying the point, each component, the release are steps; knows nothing of the parser |
| `LocalizableFunctions` | functions, their combinations, all ways to evaluate | `functions` refer to each other by number, `held` are those somebody owns; `Move`, `Drop` |
| `DataFunctions` | functions given by data, and the provider | operators: creation from a configuration, then the value at a point |
| `Conversions` | numbers, strings, comparisons | exact fractions stand for `double`; operators over tokens, and over integers in units of the tolerance with `NaN` |
| `ParameterTrees` | trees and their text | recursive operators: `flatten`, `report` and its layouts, `readINITree`, `add_tree_` |
| `Configuration` | configuration objects | one record per live object; `log` is the file written last |
| `Profiler` | sections, runs, scopes | `now` is the clock; `timer` and `datamaps_` as in the code |
| `CowContainer_proofs`, `LogStreams_proofs`, `Logging_proofs` | proofs about the module of that name | |
| `Grid_proofs` | proofs about `Walker`, the search of `Grids` and `GridProviders` | |
| `Evaluation_proofs` | proofs about `ExpressionEvaluation` | |
| `Timing_proofs` | proofs about `TimedLogging` and `Profiler` | |
| `LinearAlgebra_proofs` | proofs about `CowThreads`, `MatrixOperations` and `Solvers` | |
| `DataTheorems` | lemmas about sums over finite sets, ascending enumerations, flattened sequences and functions defined by recursion over the numbers | used by all of the proofs but `CowContainer_proofs` and `LogStreams_proofs` |

`MC*.tla` give the constants of the runs their values where a `.cfg` alone cannot; the
other runs check the component's module with the `.cfg` of its name. `MCLinearAlgebra`,
`MCGridUtilities` and `MCFunctions` each hold several subjects: `part` says which
one a behaviour is about, and the others keep still. Keys, texts and contents
are numbers or model values; the wording of messages, colours and prefixes is
left out. History variables (`table`, `promised`, and those marked "history")
record what the code does not keep and a property needs.

The definitions named `..._faulty`, `...Faulty`, and a few others with a comment
that calls them a fault, are mutations: `PROJECT.json` "mutants" says which
definition each replaces, and with each of them the property named there fails.

The references that the properties of `MCFunctions` compare with are written
without the code's help: operator precedence by the last weakest operator,
derivatives of dual numbers, tables of promised values, differences in place of
jacobians, cells counted by their sides. The instructions of the stack machine
(`Binary`) are shared between both sides, for the property is about how a formula
is read; their corner cases are listed in section 5.

Assumptions about the user, each visible as a guard: a writable reference is used
until its vector is copied or assigned (`Drop` in `CowContainer`); distinct threads
use an object as the standard library asks (`MayUse`, `MayUseAlone` in `CowThreads`);
a stream is not inserted into while another thread dumps it (`ClientLocks` in
`LogStreams`); walkers are not added to each other in a circle (`AddBoth`); a
section is stopped by the run it was started in, or its run exists (`InRange`,
where the code asserts); sparse entries are written where they are stored (the
assertions of the sparse classes); a function is evaluated while what it refers to
is there (`IsValid`). `CowThreads` interleaves atomic steps: `unique()` reads the
use count relaxed, and the model takes the write that follows it to come after the
release by the last other owner, as the control dependency makes it on the processors
the code is built for. Where the code goes wrong without the guard the hazard says so.

## 3. Runs

| Run | Shows | Bounds, and why they are enough |
|---|---|---|
| `cow` | ownership, exclusive references, and `CowContainer` implements `ValueContainer` (Eigen vectors) | three vectors: writer, sharer, and a third that keeps the share alive; three backends: each may be alone; sizes 0 and 1 over three scalars, for the operations are entrywise |
| `cow_threads` | no data race, isolation, no leak | three threads over three vectors; five backends: two threads can hold fresh copies while all vectors are unshared |
| `log_streams` | nothing lost or repeated, file and console agree | three texts and three threads: one inserts, one dumps, one suspends |
| `logging` | suspensions nest, scopes leave nothing, text is kept | one standard and one added stream, two nested scopes of two priorities, one text: a nesting needs two scopes, a priority another to differ from |
| `timed_logging` | the level, who prints (`FewPrint` has the type invariant in it), and that before `create()` no more print than have been copied | five managers with levels 1 and 0: one more than may print, two copies |
| `walker` | every functor where it was added, prepared and finalized, and the walk ends | one functor per class, two walkers, two entities in two partitions, each with an intersection on the Dirichlet boundary, two workers, three functors in all lists, two increments of `found_` (`MaxFound`): both workers may read `found_` before either writes it, and one increment is lost |
| `configuration` | reports and logs read back, sums merge, nothing is overwritten unasked | two objects, keys of at most three names, three keys |
| `profiler` | only second stops count time again, earlier runs final | two sections, each begun up to twice before it is stopped (`MaxNesting`), one scope of either kind, within a section that runs or around its start and stop; two runs, two ticks, one of which may be recorded again (`MaxAgain`): a section can be nested, stopped twice, and open over `nextRun()` at once |
| `linear_algebra` | entries read as promised, patterns are kept, a returned solution solves, loops, norms and both variants of `amax()` agree | 2x2 and 3x2 matrices with full, triangular, off-diagonal and empty rows over 0, 1 and `NaN`: a diagonal that is stored, one that is not, one that is not there; every answer of a solver; vectors of 0 to 3 entries and a two-bit size type |
| `grid_utilities` | searches find, periodic neighbours are mutual, walks agree, boundaries are covered, levels stay | seven views of one to five elements, refined up to eight (`MaxElements`), one with a hanging node, one left of the origin; all periodic directions; every kind of boundary info over its defaults and variations; two points per search, repeated; up to nine levels (`MaxLevel`) |
| `functions` | formulas, derivatives, evaluations (of one thread each, and with the values that the formulas were worked out to), combinations, data, utilities | all formulas of up to four tokens over nine, and without brackets up to seven tokens; trees of depth two with one deep operand; two threads, two copies (`MaxCopies`), two points; three functions over five leaves (`MaxFunctions`: a combination of a combination), points up to seven steps from a corner (`MaxSpot`, which bounds the degrees that are compared); boards of up to 3x3 cells; three values of every tolerance; matrices of up to 2x2 written, and read into up to 3x3 |
| `profiler_output` | *violated:* `OutputScopedTiming` counts twice | as `profiler`, without nested starts |

The violation disagrees with a sentence of the source's documentation that
the finding in `PROJECT.json` quotes. Deadlock is checked where the system has
no natural end; it is off for `cow`, where three addresses may all be taken, and
for the three runs in which some parts only look at one state. Fractions whose
modulus exceeds `Huge` are the code's overflow and its error value.

Bounds on counters are constants or named definitions: `MaxTexts`, `MaxStreams`,
`MaxScopes`, `MaxCopies`, `MaxFunctors`, `MaxFound`, `MaxKeys`, `MaxDepth`, `MaxTime`,
`MaxRuns`, `MaxNesting`, `MaxAgain`, `MaxElements`, `MaxLevel`, `MaxFunctions`, `MaxSpot`, `Huge`, `SizeBits`.

*Fairness.* Only `Walker` states any: weak fairness of each worker's `Visit` and
of `finalize`. `walk()` is a loop on the calling thread or a
`tbb::parallel_reduce`, which returns when all tasks have run, and TBB runs every
task; nothing is assumed of the program between walks, nor that a functor throws.
`WalkEnds` follows from it only because each worker's queue shrinks.

## 4. Proofs

Checked by TLAPS for every value of the constants that the assumptions admit. These are
facts of the code or of C++: sentinels are outside the sets they are sentinels of,
`Flavour` is a known one, levels and bounds are numbers, there are finitely many
threads and managers, zero differs from one (`Modulus`), stream ids differ from each other
(`IdsAssumption`: enumerators, and the bits from `LOG_NEXT` on, which the code runs out
of after 24 streams), and the patterns of a matrix stay within its shape, which the code
asserts (`PatternsAssumption`). A theorem with a hypothesis of its own says so in its
statement: `ClientLocks` is the rule under which `LogStreams` loses nothing, and two
theorems of `CowContainer_proofs` exclude implementations by `Flavour`.

`CowContainer_proofs`: `TypeCorrect`, `Ownership`, `Exclusive`, `Refinement`.
The first two hold for every `Flavour`: `Owned`, which is `TypeOK`, `HeapMatchesOwners`
and where references may lead (`Home`), is inductive without exclusiveness: an address is
allocated as long as it has an owner, whatever was handed out. With `ExposedIsExclusive` it is
the invariant `IInv` of the other two.
That is not inductive alone: a copy is exclusive because it goes to an address nobody
owns, which needs `HeapMatchesOwners`; a write through a reference keeps other
vectors only if the reference is exclusive. All writes are one operator, `Rebind`,
so there is one lemma about `Rebind` and the methods cite it. `Exclusive` assumes
`Flavour # "eigen_matrix"` and `Refinement` also excludes `"istl"`: exactly the
implementations that break them (section 5). The refinement maps a vector to the content
of its backend; `backend() const` and un-sharing are stutters of the value.

`LinearAlgebra_proofs`, of `CowThreads`: `RaceFree`, `Isolated`, `NothingLeaks`, for any number of
threads, objects and addresses (`HandlesAssumption`: some object owns the first backend).
The invariant adds what the code relies on and says nowhere: the use count that a
thread has seen as one stays one until it has written (`WritesAlone`); a deep copy is
nobody's but its thread's until the pointer is replaced (`CopiesArePrivate`); what one
thread uses as non-const no other one uses (`Discipline`, which the guards `MayUse` and
`MayUseAlone` ask of the user). `WritesAlone` needs `Discipline` to exclude that another
thread copies the object in the meantime, the race needs both, and `Isolation` needs
`NoLeak`: a fresh copy goes to an address that is free. One lemma per action, one
step per conjunct.

`Timing_proofs`, of `TimedLogging`: `LevelCounts`, `OnlyTheFirstPrint`,
`HardlyAnyUntilCreated`. The invariant joins the three properties and the types with
`DisabledByLevel` (until `create()` both maximal levels are the default):
`OnlyTheFirstPrint` needs the level to count the managers, and both managers that
print and those that exist are finite sets whose cardinalities are compared
step by step.

`LogStreams_proofs`: `NothingIsLost`, `TheFileMirrors`, for any finite set of threads and
any texts. A text goes through the buffer in two steps (copy the characters, advance the put
position) and leaves it in three (`sync()` dumps to the console, to the file, and
clears). The invariant says where each one is: the texts on the console, then those
in the buffer, then one that is copied and not advanced over, are numbered without
a gap (`InOrder`); the file lacks exactly the buffer between the two dumps
(`FileBehind`). It is kept because each mutex is held where the code holds it
(`MutexesHeld`) and because inserting and dumping alternate (`PhasesAlternate`), which
the code does not enforce: the two mutexes are different ones.

`Logging_proofs`: `ScopesNest`, `NothingStaysSuspended`, `NoTextTwice`, `NoTextLost`, for any ids,
flags and priorities. The first two rest on lemmas about `suspended` and `resumed` of one buffer. A stream that is in
the scope of a `SuspendLocal` is suspended with at least the priority of that scope
(`HeldDown`), and, as long as nobody suspends it otherwise, some open scope has exactly
the priority that it takes to resume it (`HeldByScope`): leaving the last scope
therefore resumes it. Streams that are added while a scope is open are held by none;
that their ids are new is `IdsAreAdded`.
For the other two, what was inserted is numbered, and a number is in the buffer of
one stream or has been dumped once, never both. `flush()` of the
logger dumps the streams in the order of their ids, so that what it adds to the
console is a flattened sequence of the buffers: `DataTheorems` proves that flattening
sequences without repetitions that have no element in common gives one
without repetitions, of all the elements (`FlattenIsUnique`), and that ascending
enumerations visit each id once. `NoTextLost` is an action property:
every step that disables or replaces a stream dumps its text first, if the stream that
follows can print; the step in which the logger flushes all of them needs the lemmas
of the other theorem.

`Timing_proofs`, of `Profiler`: `NothingElseIsOvercounted`, `EarlierRunsKeepTheirTimes`, without
a hypothesis: sections may be started while they run and stopped when they do not, and
scopes are of both kinds. The former is not
inductive: as long as no stop has recorded the time since the clock started (`Due`), what
is still to be recorded (`StillToRecord`) has to be added to the times of the section
(`Counted`), and a section that is due must have been begun (`ClocksAreRight`). What a stop records of a
section that is not due is what it adds to `again`. Times are sums over all runs: `DataTheorems` proves of
`SumFunctionOnSet` that it is a sum, by an induction over finite sets of its own
(`SubsetInduction`, for a set in place of a predicate).

`Grid_proofs`, of `Walker`: `FunctorsAreAppliedAsAdded`, `TheDetectorDetects`, for any grid, any
partition of it, any predicates and number of workers, and for walkers nested to any depth. What an
application of a nested walker comes to is a count over its list that refers to the
counts of the walkers in it; it is a function defined by recursion over the numbers of the
walkers, so that the proofs begin with one lemma that such functions exist
(`RecursionExists`) and one that a claim about all walkers may assume it of those of
larger number (`DownwardInduction`; `ListsNest` says that no others are nested).
`CallsAreDue` then shows that the predicates compose. The invariant says where every item
is: in a partition or with a worker that has not begun it (`Waiting`: not visited), in
exactly one queue and there once (`VisitedOnce`), at its head visited as far as the
functor that is next (`SoFar`), or done with all that was due. The detector's theorem needs
that a worker has read `found_` before it writes: what two workers lose between them is at
most all but one increment. The assumptions are facts of a grid (`GridAssumption`: an
intersection has an inside entity, partitions are disjoint and cover the entities, as
those of a `RangedPartitioning` do) and that objects of different classes are
different (`ClassesAssumption`).

`Grid_proofs`, of the rest: `SearchesFind`, for any view, even one whose elements overlap or
leave holes, and any points. One call handles its points in a loop that changes the iterator,
the results and their counter; it is a recursive function over the number of points it has
handled, and `RecursionOnNumbers` of `DataTheorems` says that such a function exists. What the
loop keeps (`Finds`): the counter is one past the points so far that lie in the view,
each of these has its element at its place among them, and nothing is behind. The iterator may
have any value when a call begins, which is what the wrap-around is for: `FirstFromFinds`.

`SharedLevels`: studies and drawings on one grid that anybody refines at any time. The
invariant keeps of every study the level and the number of refinements it was set up with
(`StudiesFit`), and of a drawing its first level and how many follow (`Draws`), within the
levels that the grid has; levels are only added. That sizes and numbers of lines grow by the
right factor follows from `ChildrenOfChildren`: refining `m + n` times makes of one element as
many as refining `m` times and then `n` times. That lines stay in their element needs
that the first element of a cube has its corners in order, which is a lemma about how cubes
are made (`BoxesAreInOrder`). `ProvidersAssumption` is that configurations ask for a
positive number of elements between corners with integer coordinates, and that halving
the width takes at least one refinement.

`LinearAlgebra_proofs`, of the rest: `MatricesReadAsPromised` and `PatternsAreKept`, for matrices of any
shape and pattern, and `ReturnedSolutionsSolve`. For the matrices there is one lemma per
operation that says what all four classes make of it, as one change of the stored
entries; the steps of the invariant (the matrix is well formed, and reads as
`table` but for `spoilt`) cite it and do not know the class. Pruning goes through a
pattern and back: `PatternHasEntries` says that nothing is lost on the way. For
the solvers, each `apply()` is followed through its checks: `Apply` leaves a solution
whenever it does not throw and was asked to check, whatever the external solver
answers.

`Evaluation_proofs`, of `ExpressionEvaluation`: `EvaluationInvariance`, `EvaluationsAreIsolated`, for any
number of threads, objects, points and components. An evaluation takes the mutex of each
compiled object, copies the point into the variables that the object shares with all its
evaluations, computes, and releases. The invariant says that whoever is between
the lock and the release holds that mutex, so that nobody else does, and that the
variables it reads hold its point (`Guarded`); that what a call has so far is what it would
have computed alone, from the objects it has done (`Sequential`); and where in its
objects a call is (`Placed`). `Sequential` needs `Guarded` in the step that computes,
and `FlattenGrows` of `DataTheorems` where one object's values are appended to
those of the objects before. What the constructors leave is an assumption
(`EvaluationAssumption`: every function has objects, and each has code and as many variables as
a point has coordinates); the run checks it for the objects that the parser makes.

Only model-checked, and why: liveness (`WalkEnds`), for fairness and ENABLED are out
of the prover's reach; everything about `Configuration`, `ParameterTrees`,
`Expressions`, `ExpressionParser`, `ExpressionFunctions`, `Conversions`,
`LocalizableFunctions` and `DataFunctions`, whose operators are recursive, or which extend
modules that have such operators (`EvaluationsAreExact`, too, refers to them for its
references); `LoopsAndNormsAgree`, whose bounds are products of variables;
periodic views, predicates and boundary infos (`PeriodicNeighbours`, `WalksOverAllViewsAgree`,
`BoundariesAreCovered`) and the comparisons, which are checked as operators over bounded
inputs: what they say holds of cube grids, which the runs enumerate, and not of any set of boxes.

## 5. Not modelled, and the plan

Not modelled: the numerics inside of external solvers; formatting of tables,
colours, prefixes and file names; files of grids (dgf, gmsh) and of pictures;
`fasp.hh`, which no file includes; `femadapter.hh`, which wraps dune-fem;
`EnforceMaximumEntityVolume` and `EntityHierarchicSearch`, which cannot be
instantiated; user-defined functions of the expression parser; the convergence
and localization studies, which are loops around tables; compile-time traits;
thread numbering, whose races are undefined behaviour; and gtest, which is
vendored. `PROJECT.json` "components" says so part by part.

Disagreements of the code with its comments, or with what a reader expects, that
the models reproduce and whose cases the properties exclude by name:

- `IstlDenseVector::add(other, result)` with `result` the same object as `other`
  writes twice `this` (`istl.hh:267`), against `vector-interface.hh:274`; `sub` writes zero.
  `AddWritesTheSum` of `CowContainer` states it and fails for `Flavour = "istl"`.
- `EigenDenseMatrix::data()` exposes a shared backend (`eigen/dense.hh:461`), against
  `container-interface.hh:116`. `ExposedIsExclusive` fails for `Flavour = "eigen_matrix"`.
- Managers of timed loggers may be copied, and a copy is counted when it is destroyed but not
  when it is made (`timedlogging.cc:40`): managers print before `create()`, against
  `timedlogging.hh:152-153`: copy one, destroy both, and the next that `get()` returns prints.
  `FewUntilCreated` bounds how many do, `DisabledUntilCreate` of `TimedLogging` states
  the sentence and fails.
- A section that is started while it runs keeps its first start (`profiler.cc:89`), and a stop
  adds the time since then whether or not the section runs: two starts at 0 and stops at
  2 and 3 record 5 ticks of 3. `OutputScopedTiming` stops twice (`profiler.cc:308`). The
  history `again` of `Profiler` has what second stops record; `NeverOvercounts` fails.
- A loop over an empty vector does not end where it begins (`vector-interface-internal.hh:53`);
  `LoopsVisitEveryEntry` leaves empty vectors out.
- `amax()` of the Eigen vectors compares with a tolerance (`eigen/base.hh:152`), and may return
  neither the maximum nor its lowest index, against `vector-interface.hh:158-161`. `EigenAmaxIsClose` says
  how far it is off.
- A divergence, or the jacobian of a constant function, scales the memory it is given by zero
  (`derived.hh:96`, `constant.hh:176`), and a `NaN` in there stays. Sets, quadratures, the
  visualization adapter and combined functions hand out memory that was used before;
  `CombinationsKeepTheirPromise` allows the `NaN` where `ScalesValue` and `ScalesJacobian` say.
- In the style of numpy, the default, `lt(a, b)` is not `gt(b, a)`: the tolerance is relative to one
  of the two (`float_cmp_internal.hh`). `UtilitiesAreConsistent` demands it of the other
  styles, and of numpy's without a relative tolerance.
- `pattern(true, eps)` of `eigen/sparse.hh:364` compares with zero, so that `eps`, which is
  relative to it, has no effect, and the absolute default decides.
- A suspended stream goes on taking single characters (`logstreams.cc:57`).
- `unit_col` of istl keeps the column below the diagonal (`istl.hh:555`), that of
  `eigen/sparse.hh:319` does not set a diagonal that is not stored, rows are cleared
  by multiplication, which keeps a `NaN`: the set `spoilt` of `MatrixOperations`.
- `MatrixInterface::operator*` makes its result with `cols()` entries.
- `apply(b, b)` defeats the residual check of the Eigen solvers, for the right hand side has gone.
- `FunctionBased::create()` looks for the neumann function under `dirichlet.function`
  (`boundaryinfo.hh:551`).
- `Stacked` pictures read past their colours from the eighth level on (`pgf.hh:255`).
- The maxima of `MinMaxCoordinateFunctor` start from the smallest positive number
  (`walk_functors.hh:76`).
- Formulas: powers are read from left to right, `2E0` is 0 (`mathexpr.cc:1055`), and a
  factor of zero hides an error on its left (`mathexpr.cc:1033`).
- With `NDEBUG` an expression returns its error value (`expression.hh:198`).
- A missing `"values"` is replaced by eight defaults (`checkerboard.hh:127`), which
  overrun a board of fewer cells; an indicator takes centres that are level
  with a lower side of its box for outside (`indicator.hh:147`).
- Random ellipsoids with recursion keep a reference into a vector that grows
  (`random_ellipsoids_function.hh:182`); `Model2` reads as many numbers as the file has, and loses
  the last when no newline follows (`spe10model2.hh:98`).
- `set_logfile()` assigns nothing (`configuration.cc:94`); `outputTimingsAll()` reads a
  fourth of three timings (`profiler.cc:253`); the id of an added stream leaves its `int`
  after 24 streams (`logging.cc:107`); `found_` of a detector is never reset
  (`functors.hh:99`); two walkers that are added to each other never end (`walker.hh:145`).

Done, in this order: containers (the module everything else stands on), their
use by threads, streams, logging, timed logging, walker, configuration, profiler,
proofs of the containers and of timed logging; then matrices, solvers and the
loops over vectors; grid utilities and providers; functions, expressions,
conversions and comparisons; proofs of the containers on several threads, of streams,
logging, the profiler, the walker, matrices and solvers; of the text in the logger,
of evaluations on threads, of the search, and of grids that are shared.

Next, in order:

1. Proofs: the neighbours of a periodic view, whose grids would have to be assumed in
   place of enumerated; the loops over vectors.
2. The output of the profiler: averages over runs, which add the current run's
   time once per run (`profiler.cc:189`).
3. `fixed_map.hh`, `TimedPrefixedStreamBuffer`, the mapped Eigen vector.

## 6. Running

    tlc -workers 2 -config CowContainer.cfg CowContainer
    tlapm CowContainer_proofs.tla
