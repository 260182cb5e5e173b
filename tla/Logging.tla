------------------------------ MODULE Logging ------------------------------
(***************************************************************************)
(* The global logger (dune/stuff/common/logging.{hh,cc}): one LogStream    *)
(* per id, the flags each of them refers to, the log file, and the scopes  *)
(* SuspendLocal and ResumeLocal that suspend and resume all streams.  One  *)
(* thread; LogStreams has the threads of one stream.                       *)
(***************************************************************************)
EXTENDS SuspendableStrBuffer, FiniteSets, TLC, SequencesExt

CONSTANTS
  StandardIds,  \* LOG_ERROR, LOG_DEBUG, LOG_INFO in the order of the constructor
  LogFile,      \* LOG_FILE
  LogNext,      \* LOG_NEXT
  FlagSets,     \* the flags a program passes
  MaxStreams,   \* bound: the streams that are added
  MaxTexts,     \* bound: the texts that are written
  MaxScopes     \* bound: the scopes that are nested

\* For TLC: the stream of LOG_ERROR only.
OnlyErrors == <<2>>

\* The id of the n-th stream that is added.
AddedId(n) == LogNext * 2 ^ n

\* Ids are bits, and distinct: the standard ones are enumerators of their own,
\* and those that are added are the bits from LOG_NEXT on.
ASSUME IdsAssumption ==
  /\ Bits \subseteq Int
  /\ StandardIds \in Seq(Bits)
  /\ IsInjective(StandardIds)
  /\ MaxStreams \in Nat
  /\ \A n \in 1 .. MaxStreams : AddedId(n) \in Bits
  /\ \A n \in 1 .. MaxStreams : AddedId(n) \notin ToSet(StandardIds)
  /\ \A m, n \in 1 .. MaxStreams : AddedId(m) = AddedId(n) => m = n

VARIABLES
  streammap_,  \* the buffer of each stream; flagmap_[id] is its logflags_
  text,        \* the characters in each buffer
  streamIDs_,
  logflags_,
  logfile_,    \* "closed", "open", or "failed": opened while it was open
  console,
  scopes,      \* the open SuspendLocal and ResumeLocal objects
  written,     \* the number of texts that a stream accepted (history)
  configured,  \* the flags given to each stream while it was not suspended (history)
  unscoped     \* streams were suspended other than by a SuspendLocal (history)

suspension == <<scopes, unscoped>>
setup      == <<streamIDs_, logflags_, logfile_>>
vars == <<streammap_, text, setup, console, suspension, written, configured>>

ASSUME LoggingAssumption ==
  /\ FlagSets \subseteq SUBSET Bits
  /\ LogFile \in Bits
  /\ MaxTexts \in Nat

Ids  == DOMAIN streammap_
Texts == 1 .. MaxTexts

\* Streams exist from the start, but have no flags and go nowhere before create().
IsFile(b) == b.loglevel_ # LogNone

TypeOK ==
  /\ streammap_ \in [Ids -> Buffers]
  /\ text \in [Ids -> Seq(Texts)]
  /\ ToSet(streamIDs_) = Ids
  /\ logflags_ \in Flags
  /\ logfile_ \in {"closed", "open", "failed"}
  /\ console \in Seq(Texts)
  /\ written \in 0 .. MaxTexts
  /\ configured \in [Ids -> Flags]

\* What the open scopes hold once the streams I are resumed with priority p: a
\* resume of at least its priority lifts a SuspendLocal.
Lifted(I, p) ==
  [i \in DOMAIN scopes |->
     [scopes[i] EXCEPT !.holds = IF p >= scopes[i].prio THEN @ \ I ELSE @]]

EmptyBuffer == NewBuffer(LogNone, {LogNone})

Init ==
  /\ streammap_ = [id \in ToSet(StandardIds) |-> EmptyBuffer]
  /\ text = [id \in ToSet(StandardIds) |-> <<>>]
  /\ streamIDs_ = StandardIds
  /\ logflags_ = {LogNone}
  /\ logfile_ = "closed"
  /\ console = <<>>
  /\ scopes = <<>>
  /\ written = 0
  /\ configured = [id \in ToSet(StandardIds) |-> {LogNone}]
  /\ unscoped = FALSE

-----------------------------------------------------------------------------
(* Text. *)

\* The streams of map that have text to dump.
Dumps(map) == {id \in DOMAIN map : IsFile(map[id]) /\ enabled(map[id])}

\* LogStream::flush() of the streams in order, whose buffers are map.
Dumped(map, order) ==
  FlattenSeq([i \in DOMAIN order |-> IF order[i] \in Dumps(map) THEN text[order[i]] ELSE <<>>])

\* A std::map is ordered by its keys.
MapOrder ==
  CHOOSE order \in [1 .. Cardinality(Ids) -> Ids] :
    \A a, b \in DOMAIN order : a < b => order[a] < order[b]
KeptFaulty == text   \* Fault: a dump does not empty the buffer.
Kept     == [id \in Ids |-> IF enabled(streammap_[id]) THEN <<>> ELSE text[id]]

\* getStream(id) << n
log(id) ==
  /\ written < MaxTexts
  /\ enabled(streammap_[id])
  /\ written' = written + 1
  /\ text' = [text EXCEPT ![id] = Append(@, written + 1)]
  /\ UNCHANGED <<streammap_, setup, console, suspension, configured>>

\* getStream(id).flush()
FlushStream(id) ==
  /\ console' = console \o Dumped(streammap_, <<id>>)
  /\ text' = [text EXCEPT ![id] = Kept[id]]
  /\ UNCHANGED <<streammap_, setup, suspension, written, configured>>

FlushAll == console' = console \o Dumped(streammap_, MapOrder) /\ text' = Kept

flush == FlushAll /\ UNCHANGED <<streammap_, setup, suspension, written, configured>>

-----------------------------------------------------------------------------
(* Set-up. *)

\* The log file after create(flags): a file that is open cannot be opened.
Opened(flags, file) ==
  IF LogFile \notin flags THEN file
  ELSE IF file = "closed" THEN "open" ELSE "failed"

\* What create(flags) leaves, when the streams before it are those of map: each
\* is given its flags first, and flushed by its destructor when it is replaced.
Created(flags, file, map, before) ==
  LET told == [id \in DOMAIN map |->
                 IF IsFile(map[id]) THEN [map[id] EXCEPT !.logflags_ = flags] ELSE map[id]]
  IN  /\ logflags_' = flags
      /\ logfile_' = Opened(flags, file)
      /\ console' = before \o Dumped(told, streamIDs_)
      /\ streammap_' = [id \in Ids |-> NewBuffer(id, flags)]
      /\ text' = [id \in Ids |-> <<>>]
      /\ configured' = [id \in Ids |-> flags]
      /\ scopes' = [i \in DOMAIN scopes |-> [scopes[i] EXCEPT !.holds = {}]]
      /\ UNCHANGED <<streamIDs_, unscoped, written>>

create(flags) == Created(flags, logfile_, streammap_, console)

\* Fault: the streams are destroyed without a flush.
setPrefixFaulty ==
  LET closed == IF LogFile \in logflags_ THEN "closed" ELSE logfile_
  IN  Created(logflags_, closed, <<>>, console)

\* deinit() destroys the streams and closes the file, create() makes new ones.
setPrefix ==
  LET closed == IF LogFile \in logflags_ THEN "closed" ELSE logfile_
  IN  Created(logflags_, closed, <<>>, console \o Dumped(streammap_, MapOrder))

\* Asserts that create() or addStream() made the stream.
setStreamFlags(id, flags) ==
  /\ IsFile(streammap_[id])
  /\ FlushAll
  /\ streammap_' = [streammap_ EXCEPT ![id].logflags_ = flags]
  /\ configured' = IF streammap_[id].is_suspended_ THEN configured
                   ELSE [configured EXCEPT ![id] = flags]
  /\ UNCHANGED <<setup, suspension, written>>

\* A map with one more key, or with another value for a key it has.
Inserted(map, key, value) ==
  [id \in DOMAIN map \cup {key} |-> IF id = key THEN value ELSE map[id]]

\* The id is the next bit after those of the streams added before.
addStream(flags) ==
  LET added == Len(streamIDs_) - Len(StandardIds)
      id    == AddedId(added + 1)
  IN  /\ added < MaxStreams
      /\ streamIDs_' = Append(streamIDs_, id)
      /\ streammap_' = Inserted(streammap_, id, NewBuffer(id, flags \cup {id}))
      /\ text' = Inserted(text, id, <<>>)
      /\ configured' = Inserted(configured, id, flags \cup {id})
      /\ UNCHANGED <<logflags_, logfile_, console, suspension, written>>

-----------------------------------------------------------------------------
(* Suspension. *)

SuspendAll(p) == streammap_' = [id \in Ids |-> suspended(streammap_[id], p)]
ResumeAll(p)  == streammap_' = [id \in Ids |-> resumed(streammap_[id], p)]

Rest == UNCHANGED <<text, setup, console, written, configured>>

SuspendLocal(p) ==
  /\ Len(scopes) < MaxScopes
  /\ SuspendAll(p)
  /\ scopes' = Append(scopes, [kind |-> "suspend", prio |-> p, holds |-> Ids])
  /\ unscoped' = (unscoped \/ p < default_suspend_priority)
  /\ Rest

ResumeLocal(p) ==
  /\ Len(scopes) < MaxScopes
  /\ ResumeAll(p)
  /\ scopes' = Append(Lifted(Ids, p), [kind |-> "resume", prio |-> p, holds |-> {}])
  /\ UNCHANGED unscoped
  /\ Rest

\* The destructor of the innermost scope undoes what its constructor did.
LeaveScope ==
  /\ scopes # <<>>
  /\ LET scope == Last(scopes)
     IN  IF scope.kind = "suspend"
         THEN /\ ResumeAll(scope.prio)
              /\ scopes' = Front(Lifted(Ids, scope.prio))
              /\ UNCHANGED unscoped
         ELSE /\ SuspendAll(scope.prio)
              /\ scopes' = Front(scopes)
              /\ unscoped' = TRUE
  /\ Rest

\* Logger().suspend(), resume(), and those of one stream.
suspend(I, p) ==
  /\ streammap_' = [id \in Ids |-> IF id \in I THEN suspended(streammap_[id], p)
                                   ELSE streammap_[id]]
  /\ unscoped' = TRUE
  /\ UNCHANGED scopes
  /\ Rest

resume(I, p) ==
  /\ streammap_' = [id \in Ids |-> IF id \in I THEN resumed(streammap_[id], p)
                                   ELSE streammap_[id]]
  /\ scopes' = Lifted(I, p)
  /\ UNCHANGED unscoped
  /\ Rest

-----------------------------------------------------------------------------
Next ==
  \/ \E id \in Ids : log(id) \/ FlushStream(id)
  \/ flush
  \/ setPrefix
  \/ \E flags \in FlagSets :
        \/ create(flags)
        \/ addStream(flags)
        \/ \E id \in Ids : setStreamFlags(id, flags)
  \/ \E p \in Priorities :
        \/ SuspendLocal(p) \/ ResumeLocal(p)
        \/ suspend(Ids, p) \/ resume(Ids, p)
        \/ \E id \in Ids : suspend({id}, p) \/ resume({id}, p)
  \/ LeaveScope

Spec == Init /\ [][Next]_vars

-----------------------------------------------------------------------------
(* Properties. *)

\* No chain of suspensions and resumptions, of one stream or of all of them,
\* loses the flags of a stream: it has them while it is not suspended, and
\* keeps them for later while it is.  Flags set during a suspension are not
\* among them: resuming overwrites them.
FlagsSurviveSuspension ==
  \A id \in Ids :
    configured[id] = IF streammap_[id].is_suspended_
                     THEN streammap_[id].suspended_logflags_
                     ELSE streammap_[id].logflags_

\* A SuspendLocal silences its streams until something of at least its own
\* priority resumes them: a nested scope of a lower one never does
\* (logstreams.hh:47).
OuterSuspensionHolds ==
  \A i \in DOMAIN scopes : \A id \in scopes[i].holds :
    scopes[i].kind = "suspend" => streammap_[id].is_suspended_

\* Suspensions nest, for flags as well as for what is silenced.
SuspensionsNest == FlagsSurviveSuspension /\ OuterSuspensionHolds

\* However SuspendLocals of different priorities are nested, no stream stays
\* suspended once all of them are left, and none needs a higher priority to
\* be suspended or resumed by than a new one.
ScopesLeaveNothingSuspended ==
  scopes = <<>> /\ ~unscoped =>
    \A id \in Ids : /\ ~streammap_[id].is_suspended_
                    /\ streammap_[id].suspend_priority_ = default_suspend_priority

\* What an enabled stream has accepted is dumped before its buffer is changed
\* or replaced by one that is enabled as well: set-up loses no text.
AcceptedTextSurvives ==
  [][\A id \in Ids : \A n \in ToSet(text[id]) :
        IsFile(streammap_[id]) /\ enabled(streammap_[id])
        /\ (streammap_'[id].is_suspended_ \/ enabled(streammap_'[id]))
        => n \in ToSet(text'[id]) \cup ToSet(console')]_vars

\* While the flags say that there is a log file, it has been opened.
FileIsOpen == LogFile \in logflags_ => logfile_ # "closed"

\* Nothing is dumped twice, by however many flushes and destructors, nor to a
\* file that has not been opened.
NothingTwice ==
  LET buffered == FlattenSeq([i \in DOMAIN MapOrder |-> text[MapOrder[i]]])
  IN  TypeOK /\ FileIsOpen /\ IsInjective(console \o buffered)
=============================================================================
