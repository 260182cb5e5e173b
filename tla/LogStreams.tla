---------------------------- MODULE LogStreams ----------------------------
(***************************************************************************)
(* One FileLogStream used by several threads (dune/stuff/common/           *)
(* logstreams.{hh,cc}): text is put into a string buffer, and sync() dumps *)
(* the buffer to the console and the log file and empties it.  xsputn()    *)
(* holds one mutex and sync() another; sputc(), which std::endl and        *)
(* operator<<(char) come to, holds none and looks at nothing.              *)
(*                                                                         *)
(* The buffer is what a std::stringbuf is: an area of characters, here of  *)
(* whole texts, and a put position.  Inserting copies to the put position  *)
(* and advances it afterwards, so that two unlocked accesses overlap in    *)
(* the ways the library allows: an update is lost, or stale text is seen.  *)
(***************************************************************************)
EXTENDS SuspendableStrBuffer, FiniteSets

CONSTANTS
  Threads,
  Nobody,      \* the owner of a mutex that is not locked
  Level,       \* the level of the stream
  FlagSets,    \* the flags it may have
  MaxTexts,    \* bound: the texts that are inserted, 1 .. MaxTexts
  ClientLocks  \* the program keeps insertions apart from sync() and sputc()

ASSUME LogStreamsAssumption ==
  /\ Level \in Bits
  /\ FlagSets \subseteq SUBSET Bits
  /\ MaxTexts \in Nat
  /\ Nobody \notin Threads
  /\ ClientLocks \in BOOLEAN
  /\ IsFiniteSet(Threads)

VARIABLES
  buffer,      \* the suspension state of the stream's buffer
  area, pptr,  \* the characters of the buffer, and its put position
  room,        \* the buffer has room for another character
  mutex_,      \* the thread in xsputn()
  sync_mutex_, \* the thread in sync()
  pc,          \* what each thread does next
  inserted,    \* the number of texts that reached the buffer (history)
  console,     \* std::cout
  logfile_

chars   == <<area, pptr, room>>
mutexes == <<mutex_, sync_mutex_>>
targets == <<console, logfile_>>
vars    == <<buffer, chars, mutexes, pc, inserted, targets>>

Texts == 1 .. MaxTexts

\* xsputn() called, locked, copied; sputc() copied; sync() called, and before
\* each of its statements.
Inserting == {"xsputn", "xcopy", "xadvance"}
Unlocked  == {"advance", "sync", "cout", "file", "clear"}
Labels    == {"idle"} \cup Inserting \cup Unlocked

str == SubSeq(area, 1, pptr)

TypeOK ==
  /\ buffer \in Buffers
  /\ area \in [Texts -> {0} \cup Texts]
  /\ pptr \in 0 .. MaxTexts
  /\ room \in BOOLEAN
  /\ mutex_ \in Threads \cup {Nobody}
  /\ sync_mutex_ \in Threads \cup {Nobody}
  /\ pc \in [Threads -> Labels]
  /\ inserted \in 0 .. MaxTexts
  /\ console \in Seq(Texts)
  /\ logfile_ \in Seq(Texts)

Init ==
  /\ \E flags \in FlagSets : buffer = NewBuffer(Level, flags)
  /\ area = [i \in Texts |-> 0]
  /\ pptr = 0
  /\ room = FALSE
  /\ mutex_ = Nobody
  /\ sync_mutex_ = Nobody
  /\ pc = [t \in Threads |-> "idle"]
  /\ inserted = 0
  /\ console = <<>>
  /\ logfile_ = <<>>

Goto(t, label) == pc' = [pc EXCEPT ![t] = label]
Busy(labels)   == \E t \in Threads : pc[t] \in labels

\* What a program that uses the stream correctly waits for.
MayInsert == ClientLocks => ~Busy(Unlocked)
MayDump   == ClientLocks => ~Busy(Inserting \cup {"advance"})
MayPut    == ClientLocks => ~Busy(Inserting \cup Unlocked)

-----------------------------------------------------------------------------
(* Inserting. *)

\* Bound: as many texts are on their way to the buffer as may be inserted.
Bounded == inserted + Cardinality({t \in Threads : pc[t] \in {"xsputn", "xcopy"}}) < MaxTexts

\* operator<<(const char* ) while enabled() (else the text is dropped).
Insert(t) ==
  /\ pc[t] = "idle" /\ MayInsert /\ Bounded
  /\ enabled(buffer)
  /\ Goto(t, "xsputn")
  /\ UNCHANGED <<buffer, chars, mutexes, inserted, targets>>

\* Fault: xsputn() does not lock.
LockFaulty(t) ==
  /\ pc[t] = "xsputn"
  /\ Goto(t, "xcopy")
  /\ UNCHANGED <<buffer, chars, mutexes, inserted, targets>>

\* xsputn() locks mutex_, and copies to the put position.
Lock(t) ==
  /\ pc[t] = "xsputn"
  /\ mutex_ = Nobody
  /\ mutex_' = t
  /\ Goto(t, "xcopy")
  /\ UNCHANGED <<buffer, chars, sync_mutex_, inserted, targets>>

CopyText(t, next) ==
  /\ inserted' = inserted + 1
  /\ area' = [area EXCEPT ![pptr + 1] = inserted + 1]
  /\ room' \in BOOLEAN
  /\ Goto(t, next)
  /\ UNCHANGED <<buffer, pptr, mutexes, targets>>

xsputn(t) == pc[t] = "xcopy" /\ CopyText(t, "xadvance")

\* operator<<(char), put() and the newline of std::endl: sputc() writes to the
\* buffer, suspended or not, unless it is full: overflow() then makes room if
\* the stream is enabled, and drops the character otherwise.
sputc(t) ==
  /\ pc[t] = "idle" /\ MayPut /\ Bounded
  /\ room \/ enabled(buffer)
  /\ CopyText(t, "advance")

Advance(t) ==
  /\ pc[t] \in {"xadvance", "advance"}
  /\ pptr' = pptr + 1
  /\ mutex_' = IF mutex_ = t THEN Nobody ELSE mutex_
  /\ Goto(t, "idle")
  /\ UNCHANGED <<buffer, area, room, sync_mutex_, inserted, targets>>

-----------------------------------------------------------------------------
(* Dumping. *)

BeginSync(t) ==
  /\ pc[t] = "idle" /\ MayDump
  /\ Goto(t, "sync")
  /\ UNCHANGED <<buffer, chars, mutexes, inserted, targets>>

\* LogStream::flush(), through SuspendableStrBuffer::pubsync().
flush(t) == enabled(buffer) /\ BeginSync(t)

\* `<< std::flush`: std::streambuf::pubsync() is not virtual, and inserted sync()
\* whether or not the stream is enabled.
Manipulator(t) == ~enabled(buffer) /\ BeginSync(t)

\* Fault: sync() does not lock.
LockSyncFaulty(t) ==
  /\ pc[t] = "sync"
  /\ Goto(t, "cout")
  /\ UNCHANGED <<buffer, chars, mutexes, inserted, targets>>

LockSync(t) ==
  /\ pc[t] = "sync"
  /\ sync_mutex_ = Nobody
  /\ sync_mutex_' = t
  /\ Goto(t, "cout")
  /\ UNCHANGED <<buffer, chars, mutex_, inserted, targets>>

\* `std::cout << str();`
ToConsole(t) ==
  /\ pc[t] = "cout"
  /\ console' = console \o str
  /\ Goto(t, "file")
  /\ UNCHANGED <<buffer, chars, mutexes, inserted, logfile_>>

\* `logfile_ << str();`
ToFile(t) ==
  /\ pc[t] = "file"
  /\ logfile_' = logfile_ \o str
  /\ Goto(t, "clear")
  /\ UNCHANGED <<buffer, chars, mutexes, inserted, console>>

\* `str("");` resets the put position, and keeps the memory; the guard
\* unlocks sync_mutex_.
Clear(t) ==
  /\ pc[t] = "clear"
  /\ pptr' = 0
  /\ room' = TRUE
  /\ sync_mutex_' = Nobody
  /\ Goto(t, "idle")
  /\ UNCHANGED <<buffer, area, mutex_, inserted, targets>>

-----------------------------------------------------------------------------
(* Suspending: any thread, at any time, without a lock. *)

suspend(t, p) ==
  /\ pc[t] = "idle"
  /\ buffer' = suspended(buffer, p)
  /\ UNCHANGED <<chars, mutexes, pc, inserted, targets>>

resume(t, p) ==
  /\ pc[t] = "idle"
  /\ buffer' = resumed(buffer, p)
  /\ UNCHANGED <<chars, mutexes, pc, inserted, targets>>

Step(t) ==
  \/ Insert(t) \/ Lock(t) \/ xsputn(t) \/ sputc(t) \/ Advance(t)
  \/ flush(t) \/ Manipulator(t)
  \/ LockSync(t) \/ ToConsole(t) \/ ToFile(t) \/ Clear(t)

Next == \E t \in Threads :
  \/ Step(t)
  \/ \E p \in Priorities : suspend(t, p) \/ resume(t, p)

Spec == Init /\ [][Next]_vars

-----------------------------------------------------------------------------
(* Properties. *)

\* Between two dumps, every text that was inserted is on the console or still
\* in the buffer: once, and in the order of insertion.
NothingLost ==
  /\ TypeOK
  /\ sync_mutex_ = Nobody /\ mutex_ = Nobody /\ ~Busy({"advance"}) =>
       console \o str = [n \in 1 .. inserted |-> n]

\* The console and the log file are dumped the same texts, although each
\* reads the buffer on its own.
FileMirrorsConsole == ~Busy({"file"}) => logfile_ = console
=============================================================================
