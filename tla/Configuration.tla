--------------------------- MODULE Configuration ---------------------------
(***************************************************************************)
(* Configuration objects (dune/stuff/common/configuration.{hh,cc}): trees  *)
(* that are set, merged, copied, read from the command line, and reported  *)
(* to a log file when they are destroyed.  One thread; an exception leaves *)
(* what was done before it.                                                *)
(***************************************************************************)
EXTENDS ParameterTrees

CONSTANTS
  Objects,
  NoObject,    \* the state of an object that is not constructed
  ParamTrees,  \* the Dune::ParameterTrees of the program
  SetKeys,     \* the keys that are set one by one
  SubIds,      \* the sub_ids that are passed
  SetValues,   \* and the values they are set to
  AnyValues,   \* the values a key may have
  Options,     \* what the command line may give: values by key
  Paramfile,   \* the key that names a parameter file
  Files,       \* the parameter files: values by key, by the name of the file
  Datadir, Logdir,  \* the keys global.datadir and logging.dir
  DefaultLog,  \* configuration_logfile
  MaxKeys,     \* bound: the keys of all objects and of the log
  MaxDepth     \* bound: the names of a key

ASSUME ConfigurationAssumption ==
  /\ \A o \in Options : Paramfile \in DOMAIN o => o[Paramfile] \in DOMAIN Files
  /\ Datadir # Logdir

VARIABLES
  config,   \* tree, log_on_exit_ and logfile_ of each object
  log,      \* the log file that was written last, and its text
  logged,   \* the values that its text has to report (history)
  told      \* the last call was told to overwrite values (history)

vars == <<config, log, logged, told>>

Live(c)   == config[c] # NoObject
Flat(c)   == flatten(config[c].tree)
Logfiles  == {DefaultLog} \cup (AnyValues \X AnyValues)

TypeOK ==
  /\ \A c \in Objects : Live(c) =>
        /\ config[c].logfile_ \in Logfiles
        /\ config[c].log_on_exit_ \in BOOLEAN
        /\ \A k \in DOMAIN Flat(c) : Len(k) \in 1 .. MaxDepth /\ Flat(c)[k] \in AnyValues
  /\ log.file \in Logfiles
  /\ told \in BOOLEAN

Init ==
  /\ config = [c \in Objects |-> NoObject]
  /\ log = [file |-> DefaultLog, text |-> <<>>]
  /\ logged = <<>>
  /\ told = FALSE

-----------------------------------------------------------------------------
\* The log file follows the two keys, if both are there.
setup_(tree, logfile) ==
  IF hasKey(tree, Datadir) /\ hasKey(tree, Logdir)
  THEN <<valueAt(tree, Datadir), valueAt(tree, Logdir)>> ELSE logfile

Object(tree, log_on_exit, logfile) ==
  [tree |-> tree, log_on_exit_ |-> log_on_exit, logfile_ |-> logfile]

\* Bounds.
Within(conf) ==
  LET trees == {conf[c].tree : c \in {o \in Objects : conf[o] # NoObject}}
      sizes(c) == IF conf[c] = NoObject THEN 0 ELSE Cardinality(DOMAIN flatten(conf[c].tree))
  IN  /\ MapThenSumSet(sizes, Objects) + Cardinality(DOMAIN logged) <= MaxKeys
      /\ \A t \in trees : \A k \in DOMAIN flatten(t) : Len(k) <= MaxDepth

Becomes(c, object, overwrite) ==
  /\ config' = [config EXCEPT ![c] = object]
  /\ Within(config')
  /\ told' = overwrite
  /\ UNCHANGED <<log, logged>>

Constructed(c, object) == ~Live(c) /\ Becomes(c, object, FALSE)

SetsTree(c, tree, overwrite) ==
  Live(c) /\ Becomes(c, [config[c] EXCEPT !.tree = tree], overwrite)

-----------------------------------------------------------------------------
(* Construction. *)

\* From a ParameterTree, or from nothing.
Construct(c, tree, log_on_exit) ==
  Constructed(c, Object(tree, log_on_exit, setup_(tree, DefaultLog)))

\* Configuration(tree_in, sub_id): setup_() comes before the tree is added.
ConstructSub(c, tree, sub_id) ==
  Constructed(c, Object(add_tree_(EmptyTree, flatten(tree), sub_id, FALSE), FALSE, DefaultLog))

\* From a stream: without setup_().
FromStream(c, tree, log_on_exit) == Constructed(c, Object(tree, log_on_exit, DefaultLog))

\* Options, and a parameter file, are put into a tree one by one.
Put(tree, values) == add_tree_(tree, values, <<>>, TRUE)

\* initialize(): the values of the command line, or of the file it names.  If
\* they name a parameter file it is read below them, and overwrites nothing.
initialize(first) ==
  IF Paramfile \in DOMAIN first THEN Put(EmptyTree, first @@ Files[first[Paramfile]])
  ELSE Put(EmptyTree, first)

FromCommandLine(c, first, log_on_exit) == Construct(c, initialize(first), log_on_exit)

CopyConstruct(c, g) == Live(g) /\ Constructed(c, config[g])

\* A new object with the values below sub_id, and none of the flags.
sub(c, g, sub_id) ==
  /\ Live(g)
  /\ sub_id # <<>> /\ hasSub(config[g].tree, sub_id)
  /\ Construct(c, getTree(config[g].tree, sub_id), FALSE)

-----------------------------------------------------------------------------
(* Changes. *)

\* operator=, self-assignment included.
Assign(c, g) ==
  /\ Live(c) /\ Live(g)
  /\ Becomes(c, config[g], TRUE)

\* Fault: an existing key is overwritten without being asked to.
set_faulty(c, key, value, overwrite) ==
  SetsTree(c, operatorBrackets(config[c].tree, key, value), overwrite)

\* Throws if the key exists and is not to be overwritten.
set(c, key, value, overwrite) ==
  /\ Live(c)
  /\ hasKey(config[c].tree, key) => overwrite
  /\ SetsTree(c, operatorBrackets(config[c].tree, key, value), overwrite)

\* add(), and operator+= with its defaults; c = g included: flatten() is a copy.
add(c, g, sub_id, overwrite) ==
  /\ Live(c) /\ Live(g)
  /\ SetsTree(c, add_tree_(config[c].tree, Flat(g), sub_id, overwrite), overwrite)

\* d = c + g: adds g to a copy of c, which has the flags of c.
Summed(c, g) == [config[c] EXCEPT !.tree = add_tree_(@, Flat(g), <<>>, FALSE)]

Sum(d, c, g) ==
  /\ Live(c) /\ Live(g)
  /\ DOMAIN Flat(c) \cap DOMAIN Flat(g) = {}
  /\ Constructed(d, Summed(c, g))

\* read_command_line(): a file, which overwrites, and the options above it.
read_command_line(c, file, options) ==
  /\ Live(c)
  /\ LET tree == Put(config[c].tree, options @@ Files[file])
     IN  Becomes(c, Object(tree, config[c].log_on_exit_, setup_(tree, config[c].logfile_)), TRUE)

\* read_options() does without the file and without setup_().
read_options(c, options) == Live(c) /\ SetsTree(c, Put(config[c].tree, options), TRUE)

set_log_on_exit(c, value) ==
  /\ Live(c)
  /\ Becomes(c, [config[c] EXCEPT !.log_on_exit_ = value], FALSE)

\* What the destructor of an object writes, to a file that it truncates.
Logs(object) ==
  IF object.log_on_exit_ /\ ~empty(object.tree)
  THEN /\ log' = [file |-> object.logfile_, text |-> report(object.tree)]
       /\ logged' = flatten(object.tree)
  ELSE UNCHANGED <<log, logged>>

Destroy(c) ==
  /\ Live(c)
  /\ Logs(config[c])
  /\ config' = [config EXCEPT ![c] = NoObject]
  /\ told' = FALSE

\* d = c + g for an object d, which may be c or g: the sum is destroyed.
AssignSum(d, c, g) ==
  /\ Live(d) /\ Live(c) /\ Live(g)
  /\ DOMAIN Flat(c) \cap DOMAIN Flat(g) = {}
  /\ config' = [config EXCEPT ![d] = Summed(c, g)]
  /\ Within(config')
  /\ Logs(Summed(c, g))
  /\ told' = TRUE

\* c + g that throws: the copy, with what was added to it, is destroyed.
SumThrows(c, g) ==
  /\ Live(c) /\ Live(g)
  /\ DOMAIN Flat(c) \cap DOMAIN Flat(g) # {}
  /\ Logs(Summed(c, g))
  /\ told' = FALSE
  /\ UNCHANGED config

-----------------------------------------------------------------------------
Constructs(c) ==
  \/ \E value \in BOOLEAN :
        \/ \E tree \in ParamTrees \cup {EmptyTree} : Construct(c, tree, value)
        \/ \E tree \in ParamTrees : FromStream(c, tree, value)
        \/ \E first \in Options \cup Range(Files) : FromCommandLine(c, first, value)
  \/ \E tree \in ParamTrees, sub_id \in SubIds : ConstructSub(c, tree, sub_id)
  \/ \E g \in Objects : CopyConstruct(c, g) \/ \E sub_id \in SubIds : sub(c, g, sub_id)
  \/ \E d, g \in Objects : Sum(c, d, g)

Changes(c) ==
  \/ \E g \in Objects : Assign(c, g) \/ SumThrows(c, g)
  \/ \E d, g \in Objects : AssignSum(c, d, g)
  \/ \E key \in SetKeys, value \in SetValues, overwrite \in BOOLEAN :
        set(c, key, value, overwrite)
  \/ \E g \in Objects, sub_id \in SubIds, overwrite \in BOOLEAN :
        add(c, g, sub_id, overwrite)
  \/ \E options \in Options :
        \/ read_options(c, options)
        \/ \E file \in DOMAIN Files : read_command_line(c, file, options)
  \/ \E value \in BOOLEAN : set_log_on_exit(c, value)

Next == \E c \in Objects : Constructs(c) \/ Changes(c) \/ Destroy(c)

Spec == Init /\ [][Next]_vars

-----------------------------------------------------------------------------
(* Properties. *)

\* A report, in whichever of its three forms, is a parameter file: read again,
\* it gives the values that were reported.
ReportReadsBack ==
  \A c \in Objects : Live(c) => readINITree(report(config[c].tree)) = Flat(c)

\* So does a log file, however many objects, copies and failed sums were
\* destroyed: it has the values of the last of them.
LogReadsBack == readINITree(log.text) = logged

\* Whatever is written, by request or at exit, reads back.
WrittenReadsBack == TypeOK /\ ReportReadsBack /\ LogReadsBack

\* No key loses its value to a call that was not told to overwrite it: not to a
\* set(), nor to an add() that fails half way, nor to a sum of which the object
\* is part.
NothingOverwritten ==
  [][~told' =>
       \A c \in Objects : Live(c) /\ config'[c] # NoObject =>
         \A k \in DOMAIN Flat(c) : k \in DOMAIN Flat(c)' /\ Flat(c)'[k] = Flat(c)[k]]_vars

\* What add() makes of any two objects: it leaves every value of the other one
\* below sub_id, or stops at a key that exists; either way nothing else is
\* changed, and no value is made up.
AddMerges ==
  \A c, g \in Objects, sub_id \in SubIds, overwrite \in BOOLEAN :
    Live(c) /\ Live(g) =>
      LET before == Flat(c)
          after  == flatten(add_tree_(config[c].tree, Flat(g), sub_id, overwrite))
          given  == [k \in {sub_id \o l : l \in DOMAIN Flat(g)} |->
                       Flat(g)[SubSeq(k, Len(sub_id) + 1, Len(k))]]
          common == DOMAIN given \cap DOMAIN before
      IN  IF overwrite \/ common = {} THEN after = given @@ before
          ELSE after = before @@ [k \in DOMAIN given \cap DOMAIN after |-> given[k]]
=============================================================================
