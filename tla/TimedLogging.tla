--------------------------- MODULE TimedLogging ---------------------------
(***************************************************************************)
(* The timed logger (dune/stuff/common/timedlogging.{hh,cc}): get() makes  *)
(* a TimedLogManager whose streams print only if few enough managers are   *)
(* alive; the level counts them.  get() and create() hold a mutex, the     *)
(* destructor of a manager does not: the level is atomic, but get() reads  *)
(* it once for each of the two streams, after it has incremented it.       *)
(***************************************************************************)
EXTENDS Integers, FiniteSets

CONSTANTS
  Threads,
  Nobody,         \* the owner of the mutex when it is not locked
  Managers,       \* bound: the TimedLogManager objects
  InfoLevel,      \* the max_info_level that is passed to create()
  DebugLevel,     \* and the max_debug_level
  MaxCopies       \* bound: the copies that are made of managers

ASSUME TimedLoggingAssumption ==
  /\ IsFiniteSet(Managers)
  /\ InfoLevel \in Nat /\ DebugLevel \in Nat
  /\ MaxCopies \in Nat
  /\ Nobody \notin Threads

VARIABLES
  created_, max_info_level_, max_debug_level_, current_level_,
  mutex_,     \* the thread in get()
  pc,         \* what that thread does next
  state,      \* of each manager: "none", "made" (in get()), "alive"
  info_,      \* the managers whose info stream prints
  debug_,     \* and those whose debug stream does
  copies,     \* the number of copies made (bound)
  drift       \* the managers that the level has not counted, and whose
              \* destructors decrement it all the same (history)

config == <<created_, max_info_level_, max_debug_level_>>
timedVars == <<config, current_level_, mutex_, pc, state, info_, debug_, copies, drift>>

\* The levels before create(): both streams are disabled.
default_max_level_faulty == 0   \* Fault: enabled by default.
default_max_level == -1

In(s)   == {m \in Managers : state[m] = s}
Exist   == Managers \ In("none")

TimedTypeOK ==
  /\ created_ \in BOOLEAN
  /\ max_info_level_ \in {default_max_level, InfoLevel}
  /\ max_debug_level_ \in {default_max_level, DebugLevel}
  /\ current_level_ \in Int
  /\ mutex_ \in Threads \cup {Nobody}
  /\ pc \in {"idle", "info", "debug"}
  /\ state \in [Managers -> {"none", "made", "alive"}]
  /\ info_ \subseteq Exist /\ debug_ \subseteq Exist
  /\ copies \in 0 .. MaxCopies
  /\ drift \in Nat

TimedInit ==
  /\ created_ = FALSE
  /\ max_info_level_ = default_max_level
  /\ max_debug_level_ = default_max_level
  /\ current_level_ = -1
  /\ mutex_ = Nobody
  /\ pc = "idle"
  /\ state = [m \in Managers |-> "none"]
  /\ info_ = {} /\ debug_ = {}
  /\ copies = 0 /\ drift = 0

\* Throws if it was called before.  The level starts anew, whatever managers
\* there are.
create ==
  /\ mutex_ = Nobody
  /\ ~created_
  /\ created_' = TRUE
  /\ max_info_level_' = InfoLevel
  /\ max_debug_level_' = DebugLevel
  /\ current_level_' = -1
  /\ drift' = Cardinality(Exist)
  /\ UNCHANGED <<mutex_, pc, state, info_, debug_, copies>>

\* get(): locks mutex_ and increments the level, ...
get(t, m) ==
  /\ mutex_ = Nobody
  /\ state[m] = "none"
  /\ mutex_' = t
  /\ current_level_' = current_level_ + 1
  /\ state' = [state EXCEPT ![m] = "made"]
  /\ pc' = "info"
  /\ UNCHANGED <<config, info_, debug_, copies, drift>>

\* Fault: the level of this manager is not counted.
MakeInfoFaulty(t, m) ==
  /\ mutex_ = t /\ state[m] = "made" /\ pc = "info"
  /\ info_' = IF current_level_ - 1 <= max_info_level_ THEN info_ \cup {m} ELSE info_
  /\ pc' = "debug"
  /\ UNCHANGED <<config, current_level_, mutex_, state, debug_, copies, drift>>

\* ... the constructor of the manager compares it for the info stream, ...
MakeInfo(t, m) ==
  /\ mutex_ = t /\ state[m] = "made" /\ pc = "info"
  /\ info_' = IF current_level_ <= max_info_level_ THEN info_ \cup {m} ELSE info_
  /\ pc' = "debug"
  /\ UNCHANGED <<config, current_level_, mutex_, state, debug_, copies, drift>>

\* ... and once more for the debug stream; get() returns.
MakeDebug(t, m) ==
  /\ mutex_ = t /\ state[m] = "made" /\ pc = "debug"
  /\ debug_' = IF current_level_ <= max_debug_level_ THEN debug_ \cup {m} ELSE debug_
  /\ state' = [state EXCEPT ![m] = "alive"]
  /\ pc' = "idle"
  /\ mutex_' = Nobody
  /\ UNCHANGED <<config, current_level_, info_, copies, drift>>

\* Fault: the level is not decremented.
destroy_keeping_level(m) ==
  /\ state[m] = "alive"
  /\ state' = [state EXCEPT ![m] = "none"]
  /\ info_' = info_ \ {m}
  /\ debug_' = debug_ \ {m}
  /\ UNCHANGED <<config, current_level_, mutex_, pc, copies, drift>>

\* ~TimedLogManager(), without the mutex.
destroy(m) ==
  /\ state[m] = "alive"
  /\ state' = [state EXCEPT ![m] = "none"]
  /\ current_level_' = current_level_ - 1
  /\ info_' = info_ \ {m}
  /\ debug_' = debug_ \ {m}
  /\ UNCHANGED <<config, mutex_, pc, copies, drift>>

\* The implicit copy constructor shares the streams and counts nothing.
copy(m, k) ==
  /\ copies < MaxCopies
  /\ copies' = copies + 1
  /\ drift' = drift + 1
  /\ state[m] = "none" /\ state[k] = "alive"
  /\ state' = [state EXCEPT ![m] = "alive"]
  /\ info_' = IF k \in info_ THEN info_ \cup {m} ELSE info_
  /\ debug_' = IF k \in debug_ THEN debug_ \cup {m} ELSE debug_
  /\ UNCHANGED <<config, current_level_, mutex_, pc>>

TimedNext ==
  \/ create
  \/ \E m \in Managers :
        \/ \E t \in Threads : get(t, m) \/ MakeInfo(t, m) \/ MakeDebug(t, m)
        \/ destroy(m)
        \/ \E k \in Managers : copy(m, k)

TimedSpec == TimedInit /\ [][TimedNext]_timedVars

-----------------------------------------------------------------------------
(* Properties. *)

\* "Each time a new TimedLogManager is created using TimedLogging::get() the
\* loglevel is increased, each time such a logger goes out of scope the
\* loglevel is decreased" (timedlogging.hh:149-150).  What that comes to: the
\* level is too low by the managers that were alive when create() was called
\* and by the copies ever made, no more and for good, however get() and the
\* unlocked destructors interleave.
LevelDrift == current_level_ = Cardinality(Exist) - 1 - drift

\* A maximal level of n lets the first n + 1 managers print (timedlogging.hh:166,
\* "only the first"): as long as the level has not drifted, no more of them
\* ever print at once, although get() reads the level twice, and none that has
\* been destroyed.
FewAtOnce ==
  /\ Cardinality(info_) <= InfoLevel + 1 + drift
  /\ Cardinality(debug_) <= DebugLevel + 1 + drift
FewPrint == TimedTypeOK /\ FewAtOnce

\* Before create() no more managers print at once than have been copied: a copy
\* lowers the level once more when it is destroyed, and the managers that get()
\* returns after that print, too.
FewUntilCreated ==
  ~created_ => Cardinality(info_) <= drift /\ Cardinality(debug_) <= drift

\* "You should call TimedLogging::create() as soon as possible (and only once!),
\* until then all logging (execpt warnings) is disabled"
\* (timedlogging.hh:152-153).
DisabledUntilCreate == ~created_ => info_ = {} /\ debug_ = {}
=============================================================================
