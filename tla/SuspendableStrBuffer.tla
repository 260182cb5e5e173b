----------------------- MODULE SuspendableStrBuffer -----------------------
(***************************************************************************)
(* The buffer of a LogStream (dune/stuff/common/logstreams.hh), as a       *)
(* record: the level it serves, the flags it refers to, and how it is      *)
(* suspended.  A set of log flags is a set of bits; the bit of a stream is *)
(* its id.  What is done with the text is in LogStreams and Logging.       *)
(***************************************************************************)
EXTENDS Integers, Sequences

CONSTANTS
  LogNone,   \* the bit LOG_NONE
  Bits,      \* the other bits
  Priorities \* the priorities a stream may be suspended and resumed with

ASSUME LogNoneAssumption    == LogNone \notin Bits
ASSUME PrioritiesAssumption == Priorities \subseteq Int

default_suspend_priority == 0
Larger(p, q) == IF p < q THEN q ELSE p

Flags   == SUBSET (Bits \cup {LogNone})
Buffers == [loglevel_ : Bits \cup {LogNone},
            logflags_ : Flags, suspended_logflags_ : Flags,
            is_suspended_ : BOOLEAN,
            suspend_priority_ : Priorities \cup {default_suspend_priority}]

NewBuffer(level, flags) ==
  [loglevel_ |-> level, logflags_ |-> flags, suspended_logflags_ |-> flags,
   is_suspended_ |-> FALSE, suspend_priority_ |-> default_suspend_priority]

enabled(b) == ~b.is_suspended_ /\ b.loglevel_ \in b.logflags_

\* Faults: the flags of a suspended stream are saved; a nested suspension
\* lowers the priority; equal priorities do not resume.
SuspendedTwice(b, p) ==
  [b EXCEPT !.suspend_priority_ = Larger(p, @),
            !.suspended_logflags_ = b.logflags_,
            !.logflags_ = {LogNone},
            !.is_suspended_ = TRUE]
ResumedHigher(b, p) ==
  IF p <= b.suspend_priority_ THEN b
  ELSE [b EXCEPT !.logflags_ = IF b.is_suspended_ THEN b.suspended_logflags_ ELSE @,
                 !.is_suspended_ = FALSE,
                 !.suspend_priority_ = default_suspend_priority]

\* The flags are saved by the first of several suspensions only.
suspended(b, p) ==
  [b EXCEPT !.suspend_priority_ = Larger(p, @),
            !.suspended_logflags_ = IF b.is_suspended_ THEN @ ELSE b.logflags_,
            !.logflags_ = IF b.is_suspended_ THEN @ ELSE {LogNone},
            !.is_suspended_ = TRUE]

\* A priority below that of the suspension has no effect.
resumed(b, p) ==
  IF p < b.suspend_priority_ THEN b
  ELSE [b EXCEPT !.logflags_ = IF b.is_suspended_ THEN b.suspended_logflags_ ELSE @,
                 !.is_suspended_ = FALSE,
                 !.suspend_priority_ = default_suspend_priority]
=============================================================================
