-------------------------- MODULE Logging_proofs --------------------------
(***************************************************************************)
(* Proofs about Logging, for any ids, flags and priorities: how all        *)
(* streams are suspended, and where the texts written to them go.          *)
(***************************************************************************)
EXTENDS Logging, DataTheorems

Scope(I) == [kind : {"suspend", "resume"}, prio : Priorities, holds : SUBSET I]

\* What suspended() and resumed() need to know of a buffer.  One that is not
\* suspended has no priority left over.
Sound(b) ==
  /\ b = [loglevel_ |-> b.loglevel_,
          logflags_ |-> b.logflags_, suspended_logflags_ |-> b.suspended_logflags_,
          is_suspended_ |-> b.is_suspended_, suspend_priority_ |-> b.suspend_priority_]
  /\ b.is_suspended_ \in BOOLEAN
  /\ b.suspend_priority_ \in Int
  /\ ~b.is_suspended_ => b.suspend_priority_ = default_suspend_priority

\* The types of the part of the state that suspension is about.
Typed ==
  /\ streammap_ = [id \in Ids |-> streammap_[id]]
  /\ \A id \in Ids : Sound(streammap_[id])
  /\ scopes \in Seq(Scope(Ids))
  /\ unscoped \in BOOLEAN
  /\ configured = [id \in Ids |-> configured[id]]

\* The streams are the standard ones and those that were added.
Added == Len(streamIDs_) - Len(StandardIds)
IdsAreAdded ==
  /\ streamIDs_ \in Seq(Ids)
  /\ Added \in 0 .. MaxStreams
  /\ Ids = ToSet(StandardIds) \cup {AddedId(n) : n \in 1 .. Added}

\* A SuspendLocal silences its streams, with at least its own priority.
HeldDown ==
  \A i \in DOMAIN scopes : \A id \in scopes[i].holds :
    /\ scopes[i].kind = "suspend"
    /\ streammap_[id].is_suspended_
    /\ streammap_[id].suspend_priority_ >= scopes[i].prio

\* As long as only scopes suspend, each suspended stream is held by a scope of
\* just the priority it takes to resume it.
HeldByScope ==
  ~unscoped =>
    \A id \in Ids : streammap_[id].is_suspended_ =>
      \E i \in DOMAIN scopes :
        id \in scopes[i].holds /\ scopes[i].prio = streammap_[id].suspend_priority_

\* The inductive invariant.
IInv ==
  /\ Typed
  /\ IdsAreAdded
  /\ FlagsSurviveSuspension
  /\ HeldDown
  /\ HeldByScope

USE LogNoneAssumption, PrioritiesAssumption, IdsAssumption, LoggingAssumption

-----------------------------------------------------------------------------
(* Lemmas about buffers. *)

\* Suspending: the flags are put aside once, and the priority only rises.
LEMMA SuspendedBuffer ==
  ASSUME NEW b, Sound(b), NEW p \in Priorities
  PROVE  LET c == suspended(b, p)
         IN  /\ Sound(c)
             /\ c.is_suspended_
             /\ c.suspend_priority_ = IF p < b.suspend_priority_ THEN b.suspend_priority_ ELSE p
             /\ c.suspended_logflags_ = IF b.is_suspended_ THEN b.suspended_logflags_ ELSE b.logflags_
  <1> DEFINE prio == IF p < b.suspend_priority_ THEN b.suspend_priority_ ELSE p
             saved == IF b.is_suspended_ THEN b.suspended_logflags_ ELSE b.logflags_
             flags == IF b.is_suspended_ THEN b.logflags_ ELSE {LogNone}
             c == suspended(b, p)
  <1>1. c = [loglevel_ |-> b.loglevel_, logflags_ |-> flags, suspended_logflags_ |-> saved,
             is_suspended_ |-> TRUE, suspend_priority_ |-> prio]
    <2>1. Larger(p, b.suspend_priority_) = prio
      BY DEF Larger
    <2>2. c = [b EXCEPT !.suspend_priority_ = prio, !.suspended_logflags_ = saved,
                        !.logflags_ = flags, !.is_suspended_ = TRUE]
      BY <2>1 DEF suspended
    <2> HIDE DEF c, prio, saved, flags
    <2> QED
      BY <2>2 DEF Sound
  <1>2. prio \in Int
    BY DEF Sound
  <1> HIDE DEF c, prio, saved, flags
  <1>3. Sound(c) /\ c.is_suspended_ /\ c.suspend_priority_ = prio /\ c.suspended_logflags_ = saved
    BY <1>1, <1>2 DEF Sound
  <1> QED
    BY <1>3 DEF c, prio, saved

\* Resuming: nothing happens below the priority of the suspension, and from
\* there on the buffer is as if it had not been suspended.
LEMMA ResumedBuffer ==
  ASSUME NEW b, Sound(b), NEW p \in Priorities
  PROVE  LET c == resumed(b, p)
         IN  /\ Sound(c)
             /\ p < b.suspend_priority_ => c = b
             /\ p >= b.suspend_priority_ =>
                  /\ ~c.is_suspended_
                  /\ c.suspend_priority_ = default_suspend_priority
                  /\ c.logflags_ = IF b.is_suspended_ THEN b.suspended_logflags_ ELSE b.logflags_
  <1>1. CASE p < b.suspend_priority_
    BY <1>1 DEF Sound, resumed
  <1>2. CASE ~(p < b.suspend_priority_)
    <2> DEFINE flags == IF b.is_suspended_ THEN b.suspended_logflags_ ELSE b.logflags_
               c == resumed(b, p)
    <2>1. c = [loglevel_ |-> b.loglevel_, logflags_ |-> flags, suspended_logflags_ |-> b.suspended_logflags_,
               is_suspended_ |-> FALSE, suspend_priority_ |-> default_suspend_priority]
      BY <1>2 DEF Sound, resumed
    <2> HIDE DEF c, flags
    <2>2. /\ Sound(c) /\ ~c.is_suspended_ /\ c.suspend_priority_ = default_suspend_priority
          /\ c.logflags_ = flags
      BY <2>1 DEF Sound, default_suspend_priority
    <2> QED
      BY <1>2, <2>2 DEF c, flags
  <1> QED
    BY <1>1, <1>2

LEMMA NewBufferIsSound ==
  ASSUME NEW level, NEW flags
  PROVE  /\ Sound(NewBuffer(level, flags))
         /\ ~NewBuffer(level, flags).is_suspended_
         /\ NewBuffer(level, flags).logflags_ = flags
  BY DEF Sound, NewBuffer, default_suspend_priority

-----------------------------------------------------------------------------
(* Lemmas about scopes. *)

\* The scopes after a resume: some hold less.
LEMMA LiftedScopes ==
  ASSUME scopes \in Seq(Scope(Ids)), NEW I, NEW p \in Priorities
  PROVE  /\ Lifted(I, p) \in Seq(Scope(Ids))
         /\ Len(Lifted(I, p)) = Len(scopes)
         /\ \A i \in 1 .. Len(scopes) :
              /\ Lifted(I, p)[i].kind = scopes[i].kind
              /\ Lifted(I, p)[i].prio = scopes[i].prio
              /\ Lifted(I, p)[i].holds =
                   IF p >= scopes[i].prio THEN scopes[i].holds \ I ELSE scopes[i].holds
  <1>1. \A i \in 1 .. Len(scopes) : scopes[i] \in Scope(Ids)
    OBVIOUS
  <1>2. DOMAIN scopes = 1 .. Len(scopes) /\ Len(scopes) \in Nat
    OBVIOUS
  <1>3. ASSUME NEW i \in 1 .. Len(scopes)
        PROVE  /\ Lifted(I, p)[i] = [scopes[i] EXCEPT !.holds =
                      IF p >= scopes[i].prio THEN scopes[i].holds \ I ELSE scopes[i].holds]
               /\ Lifted(I, p)[i] \in Scope(Ids)
    BY ONLY <1>1, <1>2 DEF Lifted, Scope
  <1>4. Lifted(I, p) = [i \in 1 .. Len(scopes) |-> Lifted(I, p)[i]]
    BY <1>2 DEF Lifted
  <1>5. Lifted(I, p) \in Seq(Scope(Ids)) /\ Len(Lifted(I, p)) = Len(scopes)
    BY <1>2, <1>3, <1>4
  <1>6. ASSUME NEW i \in 1 .. Len(scopes)
        PROVE  /\ Lifted(I, p)[i].kind = scopes[i].kind
               /\ Lifted(I, p)[i].prio = scopes[i].prio
               /\ Lifted(I, p)[i].holds =
                    IF p >= scopes[i].prio THEN scopes[i].holds \ I ELSE scopes[i].holds
    <2> DEFINE left == IF p >= scopes[i].prio THEN scopes[i].holds \ I ELSE scopes[i].holds
    <2>1. scopes[i] \in Scope(Ids)
      BY <1>1
    <2>2. Lifted(I, p)[i] = [scopes[i] EXCEPT !.holds = left]
      BY <1>3
    <2> HIDE DEF left
    <2>3. /\ Lifted(I, p)[i].kind = scopes[i].kind /\ Lifted(I, p)[i].prio = scopes[i].prio
          /\ Lifted(I, p)[i].holds = left
      BY <2>1, <2>2 DEF Scope
    <2> QED
      BY <2>3 DEF left
  <1> QED
    BY <1>5, <1>6

LEMMA FrontOfSeq ==
  ASSUME NEW S, NEW s \in Seq(S), s # <<>>
  PROVE  /\ Front(s) \in Seq(S)
         /\ Len(s) \in Nat \ {0}
         /\ Len(Front(s)) = Len(s) - 1
         /\ \A i \in 1 .. Len(s) - 1 : Front(s)[i] = s[i]
         /\ Last(s) = s[Len(s)] /\ Last(s) \in S
  <1>1. Len(s) \in Nat \ {0}
    BY EmptySeq
  <1>2. \A i \in 1 .. Len(s) : s[i] \in S
    BY ElementOfSeq
  <1>3. /\ SubSeq(s, 1, Len(s) - 1) \in Seq(S)
        /\ Len(SubSeq(s, 1, Len(s) - 1)) = Len(s) - 1
        /\ \A i \in 1 .. Len(s) - 1 : SubSeq(s, 1, Len(s) - 1)[i] = s[i]
    <2>1. PICK k : k = Len(s) - 1
      OBVIOUS
    <2> k \in 0 .. Len(s)
      BY <1>1, <2>1
    <2>2. SubSeq(s, 1, k) \in Seq(S) /\ Len(SubSeq(s, 1, k)) = k /\ \A i \in 1 .. k : SubSeq(s, 1, k)[i] = s[i]
      BY <1>2
    <2> QED
      BY <2>1, <2>2
  <1> QED
    BY <1>1, <1>2, <1>3 DEF Front, Last

LEMMA AppendedScope ==
  ASSUME NEW S, NEW s \in Seq(S), NEW e \in S
  PROVE  /\ Append(s, e) \in Seq(S)
         /\ Len(Append(s, e)) = Len(s) + 1
         /\ Len(s) \in Nat
         /\ \A i \in 1 .. Len(s) : Append(s, e)[i] = s[i]
         /\ Append(s, e)[Len(s) + 1] = e
  BY AppendProperties

-----------------------------------------------------------------------------
(* What a change of the buffers and of the scopes has to keep. *)

\* The streams stay: the ids are as before.
LEMMA SameIds ==
  ASSUME IdsAreAdded, UNCHANGED streamIDs_, Ids' = Ids
  PROVE  IdsAreAdded'
  BY DEF IdsAreAdded, Added

\* A set of the buffers is suspended, or resumed.
Suspends(I, p) ==
  /\ streammap_' = [id \in Ids |-> IF id \in I THEN suspended(streammap_[id], p) ELSE streammap_[id]]
  /\ UNCHANGED <<configured, streamIDs_>>
Resumes(I, p) ==
  /\ streammap_' = [id \in Ids |-> IF id \in I THEN resumed(streammap_[id], p) ELSE streammap_[id]]
  /\ UNCHANGED <<configured, streamIDs_>>

LEMMA Suspending ==
  ASSUME IInv, NEW I \in SUBSET Ids, NEW p \in Priorities,
         Suspends(I, p)
  PROVE  /\ Ids' = Ids /\ IdsAreAdded' /\ FlagsSurviveSuspension'
         /\ streammap_' = [id \in Ids |-> streammap_'[id]] /\ configured' = [id \in Ids |-> configured'[id]]
         /\ \A id \in Ids : Sound(streammap_'[id])
         /\ \A id \in I : /\ streammap_'[id].is_suspended_
                          /\ streammap_'[id].suspend_priority_ =
                               IF p < streammap_[id].suspend_priority_ THEN streammap_[id].suspend_priority_ ELSE p
         /\ \A id \in Ids \ I : streammap_'[id] = streammap_[id]
  <1> USE DEF IInv, Typed, Suspends
  <1>1. Ids' = Ids
    BY DEF Ids
  <1>2. \A id \in Ids : streammap_'[id] = IF id \in I THEN suspended(streammap_[id], p) ELSE streammap_[id]
    OBVIOUS
  <1>3. \A id \in Ids : /\ Sound(streammap_'[id])
                        /\ id \in I => /\ streammap_'[id].is_suspended_
                                        /\ streammap_'[id].suspended_logflags_ = configured[id]
                                        /\ streammap_'[id].suspend_priority_ =
                                             IF p < streammap_[id].suspend_priority_
                                             THEN streammap_[id].suspend_priority_ ELSE p
    BY <1>2, SuspendedBuffer DEF FlagsSurviveSuspension
  <1>4. FlagsSurviveSuspension'
    BY <1>1, <1>2, <1>3 DEF FlagsSurviveSuspension
  <1> QED
    BY <1>1, <1>2, <1>3, <1>4, SameIds

LEMMA Resuming ==
  ASSUME IInv, NEW I \in SUBSET Ids, NEW p \in Priorities,
         Resumes(I, p)
  PROVE  /\ Ids' = Ids /\ IdsAreAdded' /\ FlagsSurviveSuspension'
         /\ streammap_' = [id \in Ids |-> streammap_'[id]] /\ configured' = [id \in Ids |-> configured'[id]]
         /\ \A id \in Ids : Sound(streammap_'[id])
         /\ \A id \in Ids : id \notin I \/ p < streammap_[id].suspend_priority_ => streammap_'[id] = streammap_[id]
         /\ \A id \in I : p >= streammap_[id].suspend_priority_ => ~streammap_'[id].is_suspended_
  <1> USE DEF IInv, Typed, Resumes
  <1>1. Ids' = Ids
    BY DEF Ids
  <1>2. \A id \in Ids : streammap_'[id] = IF id \in I THEN resumed(streammap_[id], p) ELSE streammap_[id]
    OBVIOUS
  <1>3. \A id \in Ids :
          /\ Sound(streammap_'[id])
          /\ id \notin I \/ p < streammap_[id].suspend_priority_ => streammap_'[id] = streammap_[id]
          /\ id \in I /\ p >= streammap_[id].suspend_priority_ =>
               ~streammap_'[id].is_suspended_ /\ streammap_'[id].logflags_ = configured[id]
    BY <1>2, ResumedBuffer DEF FlagsSurviveSuspension
  <1>4. \A id \in Ids : p < streammap_[id].suspend_priority_ \/ p >= streammap_[id].suspend_priority_
    BY DEF Sound
  <1>5. FlagsSurviveSuspension'
    BY <1>1, <1>2, <1>3, <1>4 DEF FlagsSurviveSuspension
  <1> QED
    BY <1>1, <1>2, <1>3, <1>5, SameIds

\* Resuming a set of streams while the scopes are lifted by the same.
LEMMA ResumingHeld ==
  ASSUME IInv, NEW I \in SUBSET Ids, NEW p \in Priorities,
         Resumes(I, p),
         NEW i \in DOMAIN scopes
  PROVE  /\ \A id \in Lifted(I, p)[i].holds :
              /\ id \in Ids
              /\ scopes[i].kind = "suspend"
              /\ streammap_'[id].is_suspended_
              /\ streammap_'[id].suspend_priority_ >= scopes[i].prio
         /\ \A id \in scopes[i].holds :
              /\ streammap_'[id].is_suspended_ /\ scopes[i].prio = streammap_'[id].suspend_priority_
              => id \in Lifted(I, p)[i].holds
  <1>a. scopes \in Seq(Scope(Ids)) /\ i \in 1 .. Len(scopes)
    BY DEF IInv, Typed
  <1>b. scopes[i] \in Scope(Ids)
    BY <1>a, ElementOfSeq
  <1>1. scopes[i] \in Scope(Ids) /\ i \in 1 .. Len(scopes) /\ scopes[i].prio \in Priorities
    BY <1>a, <1>b DEF Scope
  <1>c. /\ \A id \in Ids : id \notin I \/ p < streammap_[id].suspend_priority_ => streammap_'[id] = streammap_[id]
        /\ \A id \in I : p >= streammap_[id].suspend_priority_ => ~streammap_'[id].is_suspended_
    BY Resuming
  <1>2. Lifted(I, p)[i].holds = IF p >= scopes[i].prio THEN scopes[i].holds \ I ELSE scopes[i].holds
    <2>1. \A n \in 1 .. Len(scopes) :
            Lifted(I, p)[n].holds = IF p >= scopes[n].prio THEN scopes[n].holds \ I ELSE scopes[n].holds
      <3>1. p \in Priorities /\ scopes \in Seq(Scope(Ids))
        BY <1>a
      <3> QED
        BY ONLY <3>1, LiftedScopes
    <2> QED
      BY <1>a, <2>1
  <1>3. \A id \in scopes[i].holds :
          /\ id \in Ids /\ streammap_[id].suspend_priority_ \in Int
          /\ scopes[i].kind = "suspend" /\ streammap_[id].is_suspended_
          /\ streammap_[id].suspend_priority_ >= scopes[i].prio
    BY <1>1 DEF IInv, Typed, HeldDown, Scope, Sound
  <1>d. p \in Int /\ scopes[i].prio \in Int
    BY <1>1
  <1>4. \A id \in Lifted(I, p)[i].holds : id \in scopes[i].holds /\ streammap_'[id] = streammap_[id]
    BY <1>d, <1>2, <1>3, <1>c
  <1>5. ASSUME NEW id \in scopes[i].holds, streammap_'[id].is_suspended_,
               scopes[i].prio = streammap_'[id].suspend_priority_
        PROVE  id \in Lifted(I, p)[i].holds
    <2>1. CASE id \in I /\ p >= streammap_[id].suspend_priority_
      BY <1>5, <2>1, <1>c
    <2>2. CASE ~(id \in I /\ p >= streammap_[id].suspend_priority_)
      <3>1. streammap_'[id] = streammap_[id]
        BY <1>d, <1>3, <2>2, <1>c
      <3> QED
        BY <1>1, <1>2, <1>3, <1>5, <2>2, <3>1
    <2> QED
      BY <2>1, <2>2
  <1> QED
    BY <1>3, <1>4, <1>5

\* Suspending keeps the streams of every scope suspended.
LEMMA SuspendingHeld ==
  ASSUME IInv, NEW I \in SUBSET Ids, NEW p \in Priorities,
         Suspends(I, p),
         NEW i \in DOMAIN scopes, NEW id \in scopes[i].holds
  PROVE  /\ scopes[i].kind = "suspend"
         /\ streammap_'[id].is_suspended_
         /\ streammap_'[id].suspend_priority_ >= scopes[i].prio
  <1>1. scopes[i] \in Scope(Ids)
    BY ElementOfSeq DEF IInv, Typed
  <1>2. id \in Ids /\ scopes[i].prio \in Int
    BY <1>1 DEF Scope
  <1>3. /\ scopes[i].kind = "suspend" /\ streammap_[id].is_suspended_
        /\ streammap_[id].suspend_priority_ >= scopes[i].prio /\ streammap_[id].suspend_priority_ \in Int
    BY <1>2 DEF IInv, Typed, HeldDown, Sound
  <1>4. /\ id \in I => /\ streammap_'[id].is_suspended_
                        /\ streammap_'[id].suspend_priority_ =
                             IF p < streammap_[id].suspend_priority_ THEN streammap_[id].suspend_priority_ ELSE p
        /\ id \notin I => streammap_'[id] = streammap_[id]
        /\ p \in Int
    <2>1. /\ \A x \in I : /\ streammap_'[x].is_suspended_
                          /\ streammap_'[x].suspend_priority_ =
                               IF p < streammap_[x].suspend_priority_ THEN streammap_[x].suspend_priority_ ELSE p
          /\ \A x \in Ids \ I : streammap_'[x] = streammap_[x]
      BY Suspending
    <2> QED
      BY <1>2, <2>1
  <1> QED
    BY <1>2, <1>3, <1>4

-----------------------------------------------------------------------------
(* One lemma per kind of action. *)

\* Writing and flushing.
LEMMA QuietStep ==
  ASSUME IInv, UNCHANGED <<streammap_, scopes, unscoped, configured, streamIDs_>>
  PROVE  IInv'
  BY ZenonT(60) DEF IInv, Typed, IdsAreAdded, Added, FlagsSurviveSuspension, HeldDown, HeldByScope, Ids

\* create() and setPrefix().
LEMMA CreatedStep ==
  ASSUME IInv, NEW flags, NEW file, NEW map, NEW before, Created(flags, file, map, before)
  PROVE  IInv'
  <1>1. /\ streammap_' = [id \in Ids |-> NewBuffer(id, flags)]
        /\ configured' = [id \in Ids |-> flags]
        /\ scopes' = [i \in DOMAIN scopes |-> [scopes[i] EXCEPT !.holds = {}]]
        /\ UNCHANGED <<streamIDs_, unscoped>>
    BY DEF Created
  <1>2. Ids' = Ids
    BY <1>1 DEF Ids
  <1>3. \A id \in Ids : /\ Sound(streammap_'[id]) /\ ~streammap_'[id].is_suspended_
                        /\ streammap_'[id].logflags_ = flags
    BY <1>1, NewBufferIsSound
  <1>4. scopes' \in Seq(Scope(Ids)) /\ \A i \in DOMAIN scopes' : scopes'[i].holds = {}
    <2>1. scopes \in Seq(Scope(Ids))
      BY DEF IInv, Typed
    <2>2. \A i \in 1 .. Len(scopes) : scopes[i] \in Scope(Ids)
      BY <2>1, ElementOfSeq
    <2>3. DOMAIN scopes = 1 .. Len(scopes) /\ Len(scopes) \in Nat
      BY <2>1
    <2>4. \A i \in 1 .. Len(scopes) : scopes'[i] = [scopes[i] EXCEPT !.holds = {}]
      BY <1>1, <2>3
    <2>5. \A i \in 1 .. Len(scopes) : scopes'[i] \in Scope(Ids) /\ scopes'[i].holds = {}
      <3> SUFFICES ASSUME NEW i \in 1 .. Len(scopes)
                   PROVE  scopes'[i] \in Scope(Ids) /\ scopes'[i].holds = {}
        OBVIOUS
      <3>1. PICK old : old = scopes[i] /\ old \in Scope(Ids)
        BY <2>2
      <3>2. PICK new : new = [old EXCEPT !.holds = {}]
        OBVIOUS
      <3>3. scopes'[i] = new
        BY <2>4, <3>1, <3>2
      <3>4. new \in Scope(Ids) /\ new.holds = {}
        BY <3>1, <3>2 DEF Scope
      <3> QED
        BY <3>3, <3>4
    <2>6. scopes' = [i \in 1 .. Len(scopes) |-> scopes'[i]]
      BY <1>1, <2>3
    <2> QED
      BY ONLY <2>3, <2>5, <2>6
  <1>5. Typed'
    BY <1>1, <1>2, <1>3, <1>4 DEF Typed, IInv
  <1>6. IdsAreAdded'
    BY <1>1, <1>2, SameIds DEF IInv
  <1>7. FlagsSurviveSuspension' /\ HeldByScope'
    BY <1>1, <1>2, <1>3 DEF FlagsSurviveSuspension, HeldByScope
  <1>8. HeldDown'
    BY <1>4 DEF HeldDown
  <1> QED
    BY <1>5, <1>6, <1>7, <1>8 DEF IInv

\* setStreamFlags(): a suspended stream keeps the flags it was suspended with.
LEMMA FlagsStep ==
  ASSUME IInv, NEW id \in Ids, NEW flags, setStreamFlags(id, flags)
  PROVE  IInv'
  <1>1. /\ streammap_' = [streammap_ EXCEPT ![id].logflags_ = flags]
        /\ configured' = IF streammap_[id].is_suspended_ THEN configured ELSE [configured EXCEPT ![id] = flags]
        /\ UNCHANGED <<streamIDs_, unscoped, scopes>>
    BY DEF setStreamFlags, setup, suspension
  <1> DEFINE new == [streammap_[id] EXCEPT !.logflags_ = flags]
  <1>2. Ids' = Ids /\ streammap_' = [streammap_ EXCEPT ![id] = new]
    BY <1>1 DEF Ids
  <1>3. /\ Sound(new) /\ new.is_suspended_ = streammap_[id].is_suspended_
        /\ new.suspend_priority_ = streammap_[id].suspend_priority_
        /\ new.suspended_logflags_ = streammap_[id].suspended_logflags_ /\ new.logflags_ = flags
    <2>1. PICK b : b = streammap_[id]
      OBVIOUS
    <2>2. Sound(b)
      BY <2>1 DEF IInv, Typed
    <2>3. PICK c : c = [b EXCEPT !.logflags_ = flags]
      OBVIOUS
    <2>4. c = [loglevel_ |-> b.loglevel_, logflags_ |-> flags, suspended_logflags_ |-> b.suspended_logflags_,
               is_suspended_ |-> b.is_suspended_, suspend_priority_ |-> b.suspend_priority_]
      BY <2>2, <2>3 DEF Sound
    <2>5. /\ Sound(c) /\ c.is_suspended_ = b.is_suspended_ /\ c.suspend_priority_ = b.suspend_priority_
          /\ c.suspended_logflags_ = b.suspended_logflags_ /\ c.logflags_ = flags
      BY <2>2, <2>4 DEF Sound
    <2> QED
      BY <2>1, <2>3, <2>5
  <1> HIDE DEF new
  <1>4. /\ streammap_' = [x \in Ids |-> streammap_'[x]] /\ streammap_'[id] = new
        /\ \A x \in Ids \ {id} : streammap_'[x] = streammap_[x]
    BY <1>2 DEF IInv, Typed
  <1>5. \A x \in Ids : /\ Sound(streammap_'[x])
                       /\ streammap_'[x].is_suspended_ = streammap_[x].is_suspended_
                       /\ streammap_'[x].suspend_priority_ = streammap_[x].suspend_priority_
    BY <1>3, <1>4 DEF IInv, Typed
  <1>6. /\ configured' = [x \in Ids |-> configured'[x]]
        /\ \A x \in Ids : configured'[x] = IF x = id /\ ~streammap_[id].is_suspended_ THEN flags ELSE configured[x]
    BY <1>1 DEF IInv, Typed
  <1>7. Typed'
    BY <1>1, <1>2, <1>4, <1>5, <1>6 DEF IInv, Typed
  <1>8. IdsAreAdded'
    BY <1>1, <1>2, SameIds DEF IInv
  <1>9. FlagsSurviveSuspension'
    BY <1>2, <1>3, <1>4, <1>6 DEF IInv, FlagsSurviveSuspension
  <1>10. HeldDown' /\ HeldByScope'
    <2>1. \A i \in DOMAIN scopes : \A x \in scopes[i].holds : x \in Ids
      <3>1. scopes \in Seq(Scope(Ids)) /\ DOMAIN scopes = 1 .. Len(scopes)
        BY DEF IInv, Typed
      <3>2. \A i \in 1 .. Len(scopes) : scopes[i] \in Scope(Ids)
        BY <3>1, ElementOfSeq
      <3> QED
        BY <3>1, <3>2 DEF Scope
    <2> QED
      BY <1>1, <1>2, <1>5, <2>1 DEF IInv, HeldDown, HeldByScope
  <1> QED
    BY <1>7, <1>8, <1>9, <1>10 DEF IInv

\* addStream(): the id is not that of a stream yet.
LEMMA AddedStep ==
  ASSUME IInv, NEW flags, addStream(flags)
  PROVE  IInv'
  <1> DEFINE id == AddedId(Added + 1)
  <1>1. /\ Added < MaxStreams
        /\ streamIDs_' = Append(streamIDs_, id)
        /\ streammap_' = Inserted(streammap_, id, NewBuffer(id, flags \cup {id}))
        /\ configured' = Inserted(configured, id, flags \cup {id})
        /\ UNCHANGED <<scopes, unscoped>>
    BY DEF addStream, Added, suspension
  <1>2. /\ streamIDs_ \in Seq(Ids) /\ Added \in 0 .. MaxStreams
        /\ Ids = ToSet(StandardIds) \cup {AddedId(n) : n \in 1 .. Added}
    BY DEF IInv, IdsAreAdded
  <1>3. id \notin Ids
    <2>1. Added + 1 \in 1 .. MaxStreams /\ \A n \in 1 .. Added : n \in 1 .. MaxStreams /\ n # Added + 1
      BY <1>1, <1>2
    <2> QED
      BY <1>2, <2>1
  <1> HIDE DEF id
  <1>4. DOMAIN streammap_ = Ids /\ DOMAIN configured = Ids
    BY DEF IInv, Typed, Ids
  <1>5. /\ Ids' = Ids \cup {id}
        /\ streammap_' = [x \in Ids \cup {id} |-> streammap_'[x]]
        /\ streammap_'[id] = NewBuffer(id, flags \cup {id})
        /\ \A x \in Ids : streammap_'[x] = streammap_[x]
    BY <1>1, <1>3, <1>4 DEF Ids, Inserted
  <1>6. /\ configured' = [x \in Ids \cup {id} |-> configured'[x]]
        /\ configured'[id] = flags \cup {id}
        /\ \A x \in Ids : configured'[x] = configured[x]
    BY <1>1, <1>3, <1>4 DEF Inserted
  <1>7. /\ Sound(streammap_'[id]) /\ ~streammap_'[id].is_suspended_
        /\ streammap_'[id].logflags_ = flags \cup {id}
    BY <1>5, NewBufferIsSound
  <1>8. /\ scopes \in Seq(Scope(Ids)) /\ DOMAIN scopes = 1 .. Len(scopes)
        /\ \A i \in 1 .. Len(scopes) : scopes[i] \in Scope(Ids)
    <2>1. scopes \in Seq(Scope(Ids)) /\ DOMAIN scopes = 1 .. Len(scopes)
      BY DEF IInv, Typed
    <2> QED
      BY <2>1, ElementOfSeq
  <1>9. \A i \in 1 .. Len(scopes) : scopes[i].holds \subseteq Ids /\ scopes[i] \in Scope(Ids')
    BY <1>5, <1>8 DEF Scope
  <1>10. Typed'
    <2>1. scopes' \in Seq(Scope(Ids'))
      BY <1>1, <1>8, <1>9
    <2>2. \A x \in Ids' : Sound(streammap_'[x])
      BY <1>5, <1>7 DEF IInv, Typed
    <2> QED
      BY <1>1, <1>5, <1>6, <2>1, <2>2 DEF IInv, Typed
  <1>11. IdsAreAdded'
    <2>1. streamIDs_' \in Seq(Ids') /\ Len(streamIDs_') = Len(streamIDs_) + 1
      BY <1>1, <1>2, <1>5
    <2>2. Added' = Added + 1 /\ Added' \in 0 .. MaxStreams
      <3>1. Len(streamIDs_) \in Nat /\ Len(StandardIds) \in Nat
        BY <1>2
      <3> QED
        BY <1>1, <1>2, <2>1, <3>1 DEF Added
    <2>3. 1 .. Added + 1 = (1 .. Added) \cup {Added + 1}
      BY <1>2
    <2>4. Ids' = ToSet(StandardIds) \cup {AddedId(n) : n \in 1 .. Added'}
      BY <1>2, <1>5, <2>2, <2>3 DEF id
    <2> QED
      BY <2>1, <2>2, <2>4 DEF IdsAreAdded
  <1>12. FlagsSurviveSuspension'
    BY <1>5, <1>6, <1>7 DEF IInv, FlagsSurviveSuspension
  <1>13. HeldDown'
    BY <1>1, <1>5, <1>8, <1>9 DEF IInv, HeldDown
  <1>14. HeldByScope'
    <2> SUFFICES ASSUME ~unscoped', NEW x \in Ids', streammap_'[x].is_suspended_
                 PROVE  \E i \in DOMAIN scopes' : x \in scopes'[i].holds
                                                 /\ scopes'[i].prio = streammap_'[x].suspend_priority_
      BY DEF HeldByScope
    <2>1. x \in Ids /\ streammap_'[x] = streammap_[x] /\ ~unscoped
      BY <1>1, <1>5, <1>7
    <2>2. \E i \in DOMAIN scopes : x \in scopes[i].holds /\ scopes[i].prio = streammap_[x].suspend_priority_
      BY <2>1 DEF IInv, HeldByScope
    <2> QED
      BY <1>1, <2>1, <2>2
  <1> QED
    BY <1>10, <1>11, <1>12, <1>13, <1>14 DEF IInv

\* suspend() of all streams or of some, and the destructor of a ResumeLocal:
\* nothing is held by a scope that was not there before.
LEMMA SuspendStep ==
  ASSUME IInv, NEW I \in SUBSET Ids, NEW p \in Priorities,
         Suspends(I, p),
         scopes' = scopes \/ (scopes # <<>> /\ scopes' = Front(scopes)),
         unscoped' = TRUE
  PROVE  IInv'
  <1>1. /\ Ids' = Ids /\ IdsAreAdded' /\ FlagsSurviveSuspension'
        /\ streammap_' = [id \in Ids |-> streammap_'[id]] /\ configured' = [id \in Ids |-> configured'[id]]
        /\ \A id \in Ids : Sound(streammap_'[id])
    BY Suspending
  <1>2. scopes \in Seq(Scope(Ids)) /\ DOMAIN scopes = 1 .. Len(scopes) /\ Len(scopes) \in Nat
    BY DEF IInv, Typed
  <1>3. /\ scopes' \in Seq(Scope(Ids)) /\ Len(scopes') <= Len(scopes)
        /\ DOMAIN scopes' = 1 .. Len(scopes') /\ Len(scopes') \in Nat
        /\ \A i \in 1 .. Len(scopes') : scopes'[i] = scopes[i]
    <2>1. CASE scopes' = scopes
      BY <1>2, <2>1
    <2>2. CASE scopes # <<>> /\ scopes' = Front(scopes)
      <3>1. /\ scopes' \in Seq(Scope(Ids)) /\ Len(scopes') = Len(scopes) - 1
            /\ \A i \in 1 .. Len(scopes) - 1 : scopes'[i] = scopes[i]
        BY ONLY <1>2, <2>2, FrontOfSeq
      <3>2. Len(scopes') \in Nat /\ DOMAIN scopes' = 1 .. Len(scopes')
        BY <3>1
      <3> QED
        BY <1>2, <3>1, <3>2
    <2> QED
      BY <2>1, <2>2
  <1>4. Typed'
    BY <1>1, <1>3 DEF Typed
  <1>5. \A i \in DOMAIN scopes : \A id \in scopes[i].holds :
          /\ scopes[i].kind = "suspend"
          /\ streammap_'[id].is_suspended_
          /\ streammap_'[id].suspend_priority_ >= scopes[i].prio
    BY SuspendingHeld
  <1>6. HeldDown'
    <2>1. \A i \in 1 .. Len(scopes') : i \in DOMAIN scopes
      BY <1>2, <1>3
    <2> QED
      BY <1>3, <1>5, <2>1 DEF HeldDown
  <1> QED
    BY <1>1, <1>4, <1>6 DEF IInv, HeldByScope

\* The constructor of a SuspendLocal.
LEMMA SuspendLocalStep ==
  ASSUME IInv, NEW p \in Priorities, Suspends(Ids, p),
         scopes' = Append(scopes, [kind |-> "suspend", prio |-> p, holds |-> Ids]),
         unscoped' = (unscoped \/ p < default_suspend_priority)
  PROVE  IInv'
  <1>1. /\ Ids' = Ids /\ IdsAreAdded' /\ FlagsSurviveSuspension'
        /\ streammap_' = [id \in Ids |-> streammap_'[id]] /\ configured' = [id \in Ids |-> configured'[id]]
        /\ \A id \in Ids : Sound(streammap_'[id])
        /\ \A id \in Ids :
             /\ streammap_'[id].is_suspended_
             /\ streammap_'[id].suspend_priority_ =
                  IF p < streammap_[id].suspend_priority_ THEN streammap_[id].suspend_priority_ ELSE p
    BY Suspending
  <1> DEFINE new == [kind |-> "suspend", prio |-> p, holds |-> Ids]
             n   == Len(scopes) + 1
  <1>2. scopes \in Seq(Scope(Ids)) /\ DOMAIN scopes = 1 .. Len(scopes) /\ Len(scopes) \in Nat
    BY DEF IInv, Typed
  <1>3. new \in Scope(Ids) /\ new.kind = "suspend" /\ new.prio = p /\ new.holds = Ids
    BY DEF Scope
  <1> HIDE DEF new
  <1>4. /\ scopes' \in Seq(Scope(Ids)) /\ DOMAIN scopes' = 1 .. n
        /\ \A i \in DOMAIN scopes : i \in DOMAIN scopes' /\ scopes'[i] = scopes[i]
        /\ scopes'[n] = new /\ n \in DOMAIN scopes'
        /\ \A i \in DOMAIN scopes' : i = n \/ i \in DOMAIN scopes
    <2>1. scopes' = Append(scopes, new)
      BY DEF new
    <2>2. /\ scopes' \in Seq(Scope(Ids)) /\ Len(scopes') = n
          /\ \A i \in 1 .. Len(scopes) : scopes'[i] = scopes[i]
          /\ scopes'[n] = new
      BY <1>2, <1>3, <2>1, AppendedScope
    <2> QED
      BY <1>2, <2>2
  <1>5. unscoped' \in BOOLEAN
    OBVIOUS
  <1>6. Typed'
    BY <1>1, <1>4, <1>5 DEF Typed
  <1>7. \A id \in Ids : /\ streammap_[id].suspend_priority_ \in Int /\ p \in Int
                        /\ ~streammap_[id].is_suspended_ =>
                             streammap_[id].suspend_priority_ = default_suspend_priority
    BY DEF IInv, Typed, Sound
  <1>8. HeldDown'
    <2>1. \A i \in DOMAIN scopes : \A id \in scopes[i].holds :
            /\ scopes[i].kind = "suspend"
            /\ streammap_'[id].is_suspended_
            /\ streammap_'[id].suspend_priority_ >= scopes[i].prio
      BY SuspendingHeld
    <2>2. \A id \in Ids : streammap_'[id].is_suspended_ /\ streammap_'[id].suspend_priority_ >= p
      BY <1>1, <1>7
    <2> QED
      BY <1>3, <1>4, <2>1, <2>2 DEF HeldDown
  <1>9. HeldByScope'
    <2> SUFFICES ASSUME ~unscoped', NEW id \in Ids
                 PROVE  \E i \in DOMAIN scopes' : id \in scopes'[i].holds
                                                 /\ scopes'[i].prio = streammap_'[id].suspend_priority_
      BY <1>1 DEF HeldByScope
    <2>1. ~unscoped /\ ~(p < default_suspend_priority)
      OBVIOUS
    <2>2. CASE p < streammap_[id].suspend_priority_
      <3>1. streammap_[id].is_suspended_
        BY <1>7, <2>1, <2>2
      <3>2. \E i \in DOMAIN scopes : id \in scopes[i].holds /\ scopes[i].prio = streammap_[id].suspend_priority_
        BY <2>1, <3>1 DEF IInv, HeldByScope
      <3> QED
        BY <1>1, <1>4, <2>2, <3>2
    <2>3. CASE ~(p < streammap_[id].suspend_priority_)
      BY <1>1, <1>3, <1>4, <2>3
    <2> QED
      BY <2>2, <2>3
  <1> QED
    BY <1>1, <1>6, <1>8, <1>9 DEF IInv

\* Resuming, by whatever: the scopes that are left afterwards are some of those
\* before, less what was resumed, and perhaps one that holds nothing.
LEMMA ResumeStep ==
  ASSUME IInv, NEW I \in SUBSET Ids, NEW p \in Priorities, Resumes(I, p),
         UNCHANGED unscoped,
         scopes' \in Seq(Scope(Ids)),
         \A i \in DOMAIN scopes' :
           \/ scopes'[i].holds = {}
           \/ i \in DOMAIN scopes /\ scopes'[i] = Lifted(I, p)[i],
         \A i \in DOMAIN scopes :
           (i \in DOMAIN scopes' /\ scopes'[i] = Lifted(I, p)[i]) \/ (I = Ids /\ scopes[i].prio = p)
  PROVE  IInv'
  <1>1. /\ Ids' = Ids /\ IdsAreAdded' /\ FlagsSurviveSuspension'
        /\ streammap_' = [id \in Ids |-> streammap_'[id]] /\ configured' = [id \in Ids |-> configured'[id]]
        /\ \A id \in Ids : Sound(streammap_'[id])
        /\ \A id \in Ids : id \notin I \/ p < streammap_[id].suspend_priority_ => streammap_'[id] = streammap_[id]
        /\ \A id \in I : p >= streammap_[id].suspend_priority_ => ~streammap_'[id].is_suspended_
    BY Resuming
  <1>2. scopes \in Seq(Scope(Ids)) /\ DOMAIN scopes = 1 .. Len(scopes) /\ unscoped \in BOOLEAN
    BY DEF IInv, Typed
  <1>3. Typed'
    BY <1>1, <1>2 DEF Typed
  <1>4. \A i \in DOMAIN scopes : Lifted(I, p)[i].kind = scopes[i].kind /\ Lifted(I, p)[i].prio = scopes[i].prio
    <2>1. p \in Priorities
      OBVIOUS
    <2> QED
      BY ONLY <1>2, <2>1, LiftedScopes, ZenonT(60)
  <1>5. \A i \in DOMAIN scopes :
          /\ \A id \in Lifted(I, p)[i].holds :
               /\ id \in Ids
               /\ scopes[i].kind = "suspend"
               /\ streammap_'[id].is_suspended_
               /\ streammap_'[id].suspend_priority_ >= scopes[i].prio
          /\ \A id \in scopes[i].holds :
               /\ streammap_'[id].is_suspended_ /\ scopes[i].prio = streammap_'[id].suspend_priority_
               => id \in Lifted(I, p)[i].holds
    BY ResumingHeld
  <1>6. HeldDown'
    BY <1>4, <1>5 DEF HeldDown
  <1>7. HeldByScope'
    <2> SUFFICES ASSUME ~unscoped', NEW id \in Ids, streammap_'[id].is_suspended_
                 PROVE  \E i \in DOMAIN scopes' : id \in scopes'[i].holds
                                                 /\ scopes'[i].prio = streammap_'[id].suspend_priority_
      BY <1>1 DEF HeldByScope
    <2>1. p \in Int /\ streammap_[id].suspend_priority_ \in Int
      BY DEF IInv, Typed, Sound
    <2>2. streammap_'[id] = streammap_[id] /\ (I = Ids => p < streammap_[id].suspend_priority_)
      BY <1>1, <2>1
    <2>3. PICK i \in DOMAIN scopes : id \in scopes[i].holds /\ scopes[i].prio = streammap_[id].suspend_priority_
      BY <2>2 DEF IInv, HeldByScope
    <2>4. i \in DOMAIN scopes' /\ scopes'[i] = Lifted(I, p)[i]
      BY <2>1, <2>2, <2>3
    <2> QED
      BY <1>4, <1>5, <2>2, <2>3, <2>4
  <1> QED
    BY <1>1, <1>3, <1>6, <1>7 DEF IInv

\* The destructor of a scope.
LEMMA LeaveStep ==
  ASSUME IInv, LeaveScope
  PROVE  IInv'
  <1> DEFINE n     == Len(scopes)
             scope == Last(scopes)
  <1>1. scopes \in Seq(Scope(Ids)) /\ DOMAIN scopes = 1 .. n /\ n \in Nat /\ scopes # <<>>
    BY DEF IInv, Typed, LeaveScope
  <1>2. scope \in Scope(Ids) /\ scope = scopes[n] /\ n \in Nat \ {0}
    BY <1>1, FrontOfSeq
  <1>3. UNCHANGED <<configured, streamIDs_>>
    BY DEF LeaveScope, Rest, setup
  <1>4. PICK p \in Priorities : p = scope.prio
    BY <1>2 DEF Scope
  <1>5. CASE scope.kind = "suspend"
    <2>1. ResumeAll(p) /\ scopes' = Front(Lifted(Ids, p)) /\ UNCHANGED unscoped
      BY <1>4, <1>5 DEF LeaveScope
    <2>2. Resumes(Ids, p)
      BY <1>3, <2>1 DEF Resumes, ResumeAll
    <2>3. Lifted(Ids, p) \in Seq(Scope(Ids)) /\ Len(Lifted(Ids, p)) = n
      BY ONLY <1>1, <1>4, LiftedScopes
    <2>4. /\ scopes' \in Seq(Scope(Ids)) /\ Len(scopes') = n - 1
          /\ \A i \in 1 .. n - 1 : scopes'[i] = Lifted(Ids, p)[i]
      <3>1. Lifted(Ids, p) # <<>>
        BY <1>2, <2>3
      <3> QED
        BY ONLY <2>1, <2>3, <3>1, FrontOfSeq
    <2>5. DOMAIN scopes' = 1 .. n - 1
      BY <1>2, <2>4
    <2>6. \A i \in DOMAIN scopes' : i \in DOMAIN scopes /\ scopes'[i] = Lifted(Ids, p)[i]
      BY <1>1, <1>2, <2>4, <2>5
    <2>7. \A i \in DOMAIN scopes : (i \in DOMAIN scopes' /\ scopes'[i] = Lifted(Ids, p)[i]) \/ scopes[i].prio = p
      BY <1>1, <1>2, <1>4, <2>4, <2>5
    <2> HIDE DEF n, scope
    <2> QED
      BY <2>1, <2>2, <2>4, <2>6, <2>7, ResumeStep
  <1>6. CASE scope.kind # "suspend"
    <2>1. SuspendAll(p) /\ scopes' = Front(scopes) /\ unscoped' = TRUE
      BY <1>4, <1>6 DEF LeaveScope
    <2>2. Suspends(Ids, p)
      BY <1>3, <2>1 DEF Suspends, SuspendAll
    <2> QED
      BY <1>1, <2>1, <2>2, SuspendStep
  <1> QED
    BY <1>5, <1>6

\* The constructor of a ResumeLocal.
LEMMA ResumeLocalStep ==
  ASSUME IInv, NEW p \in Priorities, ResumeLocal(p)
  PROVE  IInv'
  <1> DEFINE new == [kind |-> "resume", prio |-> p, holds |-> {}]
             n   == Len(scopes)
  <1>1. ResumeAll(p) /\ scopes' = Append(Lifted(Ids, p), new) /\ UNCHANGED <<unscoped, configured, streamIDs_>>
    BY DEF ResumeLocal, Rest, setup
  <1>2. Resumes(Ids, p)
    BY <1>1 DEF Resumes, ResumeAll
  <1>3. scopes \in Seq(Scope(Ids)) /\ DOMAIN scopes = 1 .. n /\ n \in Nat
    BY DEF IInv, Typed
  <1>4. Lifted(Ids, p) \in Seq(Scope(Ids)) /\ Len(Lifted(Ids, p)) = n
    <2>1. p \in Priorities
      OBVIOUS
    <2> QED
      BY ONLY <1>3, <2>1, LiftedScopes
  <1>5. new \in Scope(Ids) /\ new.holds = {}
    BY DEF Scope
  <1> HIDE DEF new
  <1>6. /\ scopes' \in Seq(Scope(Ids)) /\ Len(scopes') = n + 1
        /\ \A i \in 1 .. n : scopes'[i] = Lifted(Ids, p)[i]
        /\ scopes'[n + 1] = new
    BY <1>1, <1>4, <1>5, AppendedScope
  <1>7. DOMAIN scopes' = 1 .. n + 1
    BY <1>3, <1>6
  <1>8. /\ \A i \in DOMAIN scopes' :
             scopes'[i].holds = {} \/ (i \in DOMAIN scopes /\ scopes'[i] = Lifted(Ids, p)[i])
        /\ \A i \in DOMAIN scopes : i \in DOMAIN scopes' /\ scopes'[i] = Lifted(Ids, p)[i]
    BY <1>3, <1>5, <1>6, <1>7
  <1> HIDE DEF n
  <1> QED
    BY <1>1, <1>2, <1>6, <1>8, ResumeStep

-----------------------------------------------------------------------------
(* The theorems. *)

LEMMA InitIInv == Init => IInv
  <1> SUFFICES ASSUME Init PROVE IInv
    OBVIOUS
  <1> DEFINE I == ToSet(StandardIds)
  <1>1. /\ streammap_ = [id \in I |-> EmptyBuffer] /\ configured = [id \in I |-> {LogNone}]
        /\ streamIDs_ = StandardIds /\ scopes = <<>> /\ unscoped = FALSE
    BY DEF Init
  <1>2. Ids = I
    BY <1>1 DEF Ids
  <1>3. Sound(EmptyBuffer) /\ ~EmptyBuffer.is_suspended_ /\ EmptyBuffer.logflags_ = {LogNone}
    BY NewBufferIsSound DEF EmptyBuffer
  <1>4. \A id \in Ids : streammap_[id] = EmptyBuffer
    BY <1>1, <1>2
  <1>5. Typed
    <2>1. streammap_ = [id \in Ids |-> streammap_[id]] /\ configured = [id \in Ids |-> configured[id]]
      BY <1>1, <1>2
    <2>2. \A id \in Ids : Sound(streammap_[id])
      BY <1>3, <1>4
    <2>3. scopes \in Seq(Scope(Ids)) /\ unscoped \in BOOLEAN
      BY <1>1, EmptySeq
    <2> QED
      BY <2>1, <2>2, <2>3 DEF Typed
  <1>6. IdsAreAdded
    <2>1. Added = 0 /\ streamIDs_ \in Seq(Ids)
      <3>1. StandardIds \in Seq(I)
        BY DEF ToSet
      <3> QED
        BY <1>1, <1>2, <3>1 DEF Added
    <2>2. {AddedId(n) : n \in 1 .. 0} = {}
      OBVIOUS
    <2> QED
      BY <1>2, <2>1, <2>2 DEF IdsAreAdded
  <1>7. FlagsSurviveSuspension /\ HeldDown /\ HeldByScope
    BY <1>1, <1>2, <1>3, <1>4 DEF FlagsSurviveSuspension, HeldDown, HeldByScope
  <1> QED
    BY <1>5, <1>6, <1>7 DEF IInv

LEMMA NextIInv == IInv /\ [Next]_vars => IInv'
  <1> SUFFICES ASSUME IInv, [Next]_vars PROVE IInv'
    OBVIOUS
  <1> USE DEF setup, suspension
  <1>1. ASSUME NEW id \in Ids, log(id) \/ FlushStream(id)
        PROVE  IInv'
    BY <1>1, QuietStep DEF log, FlushStream
  <1>2. CASE flush
    BY <1>2, QuietStep DEF flush
  <1>3. CASE setPrefix
    BY <1>3, CreatedStep DEF setPrefix
  <1>4. ASSUME NEW flags \in FlagSets, create(flags)
        PROVE  IInv'
    BY <1>4, CreatedStep DEF create
  <1>5. ASSUME NEW flags \in FlagSets, addStream(flags)
        PROVE  IInv'
    BY <1>5, AddedStep
  <1>6. ASSUME NEW flags \in FlagSets, NEW id \in Ids, setStreamFlags(id, flags)
        PROVE  IInv'
    BY <1>6, FlagsStep
  <1>7. ASSUME NEW p \in Priorities, SuspendLocal(p)
        PROVE  IInv'
    <2>1. Suspends(Ids, p)
      BY <1>7 DEF SuspendLocal, SuspendAll, Suspends, Rest
    <2> QED
      BY <1>7, <2>1, SuspendLocalStep DEF SuspendLocal
  <1>8. ASSUME NEW p \in Priorities, ResumeLocal(p)
        PROVE  IInv'
    BY <1>8, ResumeLocalStep
  <1>9. ASSUME NEW p \in Priorities, NEW I \in SUBSET Ids, suspend(I, p)
        PROVE  IInv'
    <2>1. Suspends(I, p)
      BY <1>9 DEF suspend, Suspends, Rest
    <2> QED
      BY <1>9, <2>1, SuspendStep DEF suspend
  <1>10. ASSUME NEW p \in Priorities, NEW I \in SUBSET Ids, resume(I, p)
         PROVE  IInv'
    <2>1. Resumes(I, p) /\ scopes' = Lifted(I, p) /\ UNCHANGED unscoped
      BY <1>10 DEF resume, Resumes, Rest
    <2>2. scopes \in Seq(Scope(Ids)) /\ p \in Priorities
      BY DEF IInv, Typed
    <2>3. Lifted(I, p) \in Seq(Scope(Ids))
      BY ONLY <2>2, LiftedScopes
    <2>4. DOMAIN Lifted(I, p) = DOMAIN scopes
      BY DEF Lifted
    <2> QED
      BY <2>1, <2>3, <2>4, ResumeStep
  <1>11. CASE LeaveScope
    BY <1>11, LeaveStep
  <1>12. CASE UNCHANGED vars
    BY <1>12, QuietStep DEF vars
  <1>13. ASSUME NEW id \in Ids
         PROVE  {id} \in SUBSET Ids
    OBVIOUS
  <1> QED
    BY <1>1, <1>2, <1>3, <1>4, <1>5, <1>6, <1>7, <1>8, <1>9, <1>10, <1>11, <1>12, <1>13 DEF Next

THEOREM Invariance == Spec => []IInv
  BY InitIInv, NextIInv, PTL DEF Spec

\* Suspensions nest, for any number of streams, scopes and priorities: the flags
\* of a stream are those it was given or are kept for it, and an inner scope of
\* a lower priority never lets go what an outer one suspended.
THEOREM ScopesNest == Spec => []SuspensionsNest
  <1>1. IInv => SuspensionsNest
    BY DEF IInv, SuspensionsNest, OuterSuspensionHolds, HeldDown
  <1> QED
    BY <1>1, Invariance, PTL

\* Once all scopes are left, no stream is suspended, whatever their priorities
\* were, and each is suspended and resumed as a new one is.
THEOREM NothingStaysSuspended == Spec => []ScopesLeaveNothingSuspended
  <1>1. IInv => ScopesLeaveNothingSuspended
    BY DEF IInv, Typed, Sound, HeldByScope, ScopesLeaveNothingSuspended
  <1> QED
    BY <1>1, Invariance, PTL

-----------------------------------------------------------------------------
(* The texts: the inductive invariant. *)

LevelsAreIds == \A id \in Ids : IsFile(streammap_[id]) => streammap_[id].loglevel_ = id

BuffersTyped == streammap_ \in [Ids -> Buffers] /\ LevelsAreIds

SetupTyped ==
  /\ Ids \subseteq Bits
  /\ streamIDs_ \in Seq(Ids) /\ IsInjective(streamIDs_) /\ ToSet(streamIDs_) = Ids
  /\ logflags_ \in Flags
  /\ logfile_ \in {"closed", "open", "failed"}
  /\ configured \in [Ids -> Flags]
  /\ FileIsOpen

\* Every text is at one place: on the console, or once in one buffer.
TextsOnce ==
  /\ written \in 0 .. MaxTexts
  /\ console \in Seq(1 .. written) /\ IsInjective(console)
  /\ text \in [Ids -> Seq(1 .. written)]
  /\ \A id \in Ids : IsInjective(text[id]) /\ ToSet(text[id]) \cap ToSet(console) = {}
  /\ \A i, j \in Ids : i # j => ToSet(text[i]) \cap ToSet(text[j]) = {}

TInv == BuffersTyped /\ SetupTyped /\ TextsOnce

LEMMA IdsAreFinite ==
  ASSUME SetupTyped
  PROVE  IsFiniteSet(Ids) /\ Ids \in SUBSET Int
  <1>1. PICK n \in Nat : n = Len(streamIDs_) /\ DOMAIN streamIDs_ = 1 .. n
    BY DEF SetupTyped
  <1>2. streamIDs_ \in Surjection(1 .. n, Ids)
    BY <1>1 DEF SetupTyped, ToSet, Surjection
  <1>3. IsFiniteSet(1 .. n)
    BY FS_Interval
  <1> QED
    BY <1>2, <1>3, FS_Surjection DEF SetupTyped

\* std::map goes through all streams, each once.
LEMMA MapOrderIsAll ==
  ASSUME SetupTyped
  PROVE  MapOrder \in Seq(Ids) /\ IsInjective(MapOrder) /\ ToSet(MapOrder) = Ids
  <1>1. \E s : IsAscending(Ids, s)
    BY IdsAreFinite, AscendingExists
  <1>2. IsAscending(Ids, MapOrder)
    BY <1>1 DEF MapOrder, IsAscending
  <1> QED
    BY <1>2, IdsAreFinite, AscendingEnumerates

\* What streams that are flushed one after the other dump.
LEMMA DumpedTexts ==
  ASSUME TextsOnce, NEW map, NEW order \in Seq(Ids), IsInjective(order)
  PROVE  LET d == Dumped(map, order)
         IN  /\ d \in Seq(1 .. written)
             /\ IsInjective(d)
             /\ ToSet(d) = UNION {ToSet(text[id]) : id \in ToSet(order) \cap Dumps(map)}
             /\ ToSet(d) \cap ToSet(console) = {}
             /\ \A id \in Ids : id \notin ToSet(order) \cap Dumps(map) => ToSet(text[id]) \cap ToSet(d) = {}
  <1> DEFINE parts == [i \in DOMAIN order |-> IF order[i] \in Dumps(map) THEN text[order[i]] ELSE <<>>]
             d     == Dumped(map, order)
  <1>1. PICK n \in Nat : n = Len(order) /\ DOMAIN order = 1 .. n
    OBVIOUS
  <1>2. \A i \in 1 .. n : order[i] \in Ids
    BY <1>1
  <1>3. \A i, j \in 1 .. n : order[i] = order[j] => i = j
    BY <1>1 DEF IsInjective
  <1>4. ToSet(order) = {order[i] : i \in 1 .. n}
    BY <1>1 DEF ToSet
  <1>5. /\ DOMAIN parts = 1 .. n
        /\ \A i \in 1 .. n : parts[i] = IF order[i] \in Dumps(map) THEN text[order[i]] ELSE <<>>
    BY <1>1
  <1>6. parts \in [1 .. n -> Seq(1 .. written)]
    <2>1. \A i \in 1 .. n : parts[i] \in Seq(1 .. written)
      <3>1. <<>> \in Seq(1 .. written) /\ \A id \in Ids : text[id] \in Seq(1 .. written)
        BY DEF TextsOnce
      <3> QED
        BY ONLY <1>2, <1>5, <3>1
    <2> QED
      BY <1>1, <2>1
  <1>7. d = FlattenSeq(parts)
    BY DEF Dumped
  <1> HIDE DEF d, parts
  <1>8. ToSet(<<>>) = {} /\ IsInjective(<<>>)
    BY DEF ToSet, IsInjective
  <1>9. AreDisjoint(parts)
    <2>1. \A i \in 1 .. n : IsInjective(parts[i])
      BY <1>2, <1>5, <1>8 DEF TextsOnce
    <2>2. ASSUME NEW i \in 1 .. n, NEW j \in 1 .. n, i # j
          PROVE  ToSet(parts[i]) \cap ToSet(parts[j]) = {}
      <3>1. ToSet(text[order[i]]) \cap ToSet(text[order[j]]) = {}
        BY <1>2, <1>3, <2>2 DEF TextsOnce
      <3> QED
        BY <1>5, <1>8, <3>1
    <2> QED
      BY <1>5, <2>1, <2>2 DEF AreDisjoint
  <1>10. /\ d \in Seq(1 .. written) /\ IsInjective(d)
         /\ ToSet(d) = UNION {ToSet(parts[i]) : i \in 1 .. n}
    BY ONLY <1>1, <1>6, <1>7, <1>9, Flattened, SMTT(60)
  <1>11. ToSet(d) = UNION {ToSet(text[id]) : id \in ToSet(order) \cap Dumps(map)}
    <2>1. ASSUME NEW x \in ToSet(d)
          PROVE  \E id \in ToSet(order) \cap Dumps(map) : x \in ToSet(text[id])
      <3>1. PICK i \in 1 .. n : x \in ToSet(parts[i])
        BY <1>10
      <3>2. order[i] \in Dumps(map) /\ parts[i] = text[order[i]]
        BY <1>5, <1>8, <3>1
      <3> QED
        BY <1>4, <3>1, <3>2
    <2>2. ASSUME NEW id \in ToSet(order) \cap Dumps(map)
          PROVE  ToSet(text[id]) \subseteq ToSet(d)
      <3>1. PICK i \in 1 .. n : id = order[i]
        BY <1>4
      <3>2. parts[i] = text[id]
        BY <1>5, <3>1
      <3> QED
        BY <1>10, <3>2
    <2> QED
      BY <2>1, <2>2
  <1>12. ToSet(order) \subseteq Ids
    BY <1>2, <1>4
  <1>13. ToSet(d) \cap ToSet(console) = {}
    BY <1>11, <1>12 DEF TextsOnce
  <1>14. \A id \in Ids : id \notin ToSet(order) \cap Dumps(map) => ToSet(text[id]) \cap ToSet(d) = {}
    <2>1. \A id \in Ids, j \in ToSet(order) \cap Dumps(map) :
            id # j => ToSet(text[id]) \cap ToSet(text[j]) = {}
      BY <1>12 DEF TextsOnce
    <2> QED
      BY <1>11, <2>1, SMTT(60)
  <1> QED
    BY <1>10, <1>11, <1>13, <1>14 DEF d

\* Some streams are dumped and emptied, and others are emptied.
LEMMA DumpStep ==
  ASSUME TextsOnce, Ids' = Ids, written' = written,
         NEW d \in Seq(1 .. written), IsInjective(d), ToSet(d) \cap ToSet(console) = {},
         console' = console \o d,
         DOMAIN text' = Ids, text' = [id \in Ids |-> text'[id]],
         \A id \in Ids : \/ text'[id] = <<>>
                         \/ text'[id] = text[id] /\ ToSet(text[id]) \cap ToSet(d) = {}
  PROVE  TextsOnce' /\ ToSet(d) \subseteq ToSet(console')
  <1>1. console \in Seq(1 .. written) /\ IsInjective(console)
    BY DEF TextsOnce
  <1>2. /\ console' \in Seq(1 .. written) /\ IsInjective(console')
        /\ ToSet(console') = ToSet(console) \cup ToSet(d)
    BY <1>1, Joined
  <1>3. ToSet(<<>>) = {} /\ IsInjective(<<>>) /\ <<>> \in Seq(1 .. written)
    BY DEF ToSet, IsInjective
  <1>4. \A id \in Ids : text'[id] \in Seq(1 .. written) /\ IsInjective(text'[id])
    BY <1>3 DEF TextsOnce
  <1>5. \A id \in Ids : ToSet(text'[id]) \cap ToSet(console') = {}
    BY <1>2, <1>3 DEF TextsOnce
  <1>6. \A i, j \in Ids : i # j => ToSet(text'[i]) \cap ToSet(text'[j]) = {}
    BY <1>3, ZenonT(60) DEF TextsOnce
  <1>7. text' \in [Ids -> Seq(1 .. written)]
    BY <1>4
  <1> QED
    BY <1>2, <1>4, <1>5, <1>6, <1>7 DEF TextsOnce

-----------------------------------------------------------------------------
(* The texts: one lemma per kind of action. *)

\* What an enabled stream has accepted is on the console or in the stream's
\* buffer afterwards (AcceptedTextSurvives, for one step).
Survives ==
  \A id \in Ids : \A n \in ToSet(text[id]) :
    IsFile(streammap_[id]) /\ enabled(streammap_[id])
    /\ (streammap_'[id].is_suspended_ \/ enabled(streammap_'[id]))
    => n \in ToSet(text'[id]) \cup ToSet(console')

LEMMA SetupStep ==
  ASSUME SetupTyped, UNCHANGED setup, Ids' = Ids, configured' \in [Ids -> Flags]
  PROVE  SetupTyped'
  BY DEF SetupTyped, setup, FileIsOpen

LEMMA SuspendedIsBuffer ==
  ASSUME NEW b \in Buffers, NEW p \in Priorities
  PROVE  suspended(b, p) \in Buffers /\ suspended(b, p).loglevel_ = b.loglevel_
  <1>1. LogNone \in Bits \cup {LogNone} /\ {LogNone} \in Flags
    BY DEF Flags
  <1>2. Larger(p, b.suspend_priority_) \in Priorities \cup {default_suspend_priority}
    BY DEF Larger, Buffers
  <1>3. PICK q \in Priorities \cup {default_suspend_priority} : q = Larger(p, b.suspend_priority_)
    BY <1>2
  <1> QED
    BY <1>1, <1>3 DEF suspended, Buffers

LEMMA ResumedIsBuffer ==
  ASSUME NEW b \in Buffers, NEW p \in Priorities
  PROVE  resumed(b, p) \in Buffers /\ resumed(b, p).loglevel_ = b.loglevel_
  BY DEF resumed, Buffers

\* log().
LEMMA LogStep ==
  ASSUME TInv, NEW id \in Ids, log(id)
  PROVE  TInv' /\ Survives
  <1>1. /\ written < MaxTexts /\ written' = written + 1
        /\ text' = [text EXCEPT ![id] = Append(@, written + 1)]
        /\ UNCHANGED <<streammap_, setup, console, configured>>
    BY DEF log
  <1>2. Ids' = Ids /\ BuffersTyped'
    BY <1>1 DEF TInv, BuffersTyped, LevelsAreIds, Ids
  <1>3. SetupTyped'
    BY <1>1, <1>2, SetupStep DEF TInv, SetupTyped
  <1>4. /\ written \in Nat /\ written' \in 0 .. MaxTexts /\ written + 1 \in 1 .. written'
        /\ written + 1 \notin 1 .. written /\ 1 .. written \subseteq 1 .. written'
    BY <1>1 DEF TInv, TextsOnce
  <1>5. /\ text \in [Ids -> Seq(1 .. written)] /\ console \in Seq(1 .. written)
        /\ \A s \in Seq(1 .. written) : s \in Seq(1 .. written') /\ ToSet(s) \subseteq 1 .. written
    BY <1>4 DEF TInv, TextsOnce, ToSet
  <1>6. PICK new : new = Append(text[id], written + 1)
    OBVIOUS
  <1>7. new \in Seq(1 .. written') /\ ToSet(new) = ToSet(text[id]) \cup {written + 1} /\ IsInjective(new)
    <2>1. text[id] \in Seq(1 .. written') /\ written + 1 \notin ToSet(text[id]) /\ IsInjective(text[id])
      BY <1>4, <1>5 DEF TInv, TextsOnce
    <2> QED
      BY <1>4, <1>6, <2>1, AppendedEntries
  <1>8. text'[id] = new /\ \A x \in Ids : x # id => text'[x] = text[x]
    BY <1>1, <1>5, <1>6
  <1>9. text' \in [Ids -> Seq(1 .. written')]
    BY <1>1, <1>5, <1>6, <1>7
  <1>10. written + 1 \notin ToSet(console) /\ \A x \in Ids : written + 1 \notin ToSet(text[x])
    BY <1>4, <1>5
  <1>11. TextsOnce'
    <2>1. console' \in Seq(1 .. written') /\ IsInjective(console')
      BY <1>1, <1>5 DEF TInv, TextsOnce
    <2> DEFINE old == [x \in Ids |-> ToSet(text[x])]
               now == [x \in Ids |-> ToSet(text'[x])]
    <2>4. /\ \A x \in Ids : old[x] \cap ToSet(console) = {}
          /\ \A i, j \in Ids : i # j => old[i] \cap old[j] = {}
      BY DEF TInv, TextsOnce
    <2>5. \A x \in Ids : /\ IsInjective(text'[x])
                         /\ now[x] = IF x = id THEN old[x] \cup {written + 1} ELSE old[x]
                         /\ written + 1 \notin old[x]
      BY <1>7, <1>8, <1>10 DEF TInv, TextsOnce
    <2> HIDE DEF old, now
    <2>6. \A x \in Ids : now[x] \cap ToSet(console) = {}
      <3> SUFFICES ASSUME NEW x \in Ids, NEW e \in now[x], e \in ToSet(console) PROVE FALSE
        OBVIOUS
      <3>1. e \notin old[x]
        BY <2>4
      <3> QED
        BY <1>10, <2>5, <3>1
    <2>7. \A i, j \in Ids : i # j => now[i] \cap now[j] = {}
      <3> SUFFICES ASSUME NEW i \in Ids, NEW j \in Ids, i # j, NEW e \in now[i], e \in now[j] PROVE FALSE
        OBVIOUS
      <3>1. e \notin old[i] \/ e \notin old[j]
        BY <2>4
      <3> QED
        BY <2>5, <3>1, ZenonT(60)
    <2>2. \A x \in Ids : IsInjective(text'[x]) /\ ToSet(text'[x]) \cap ToSet(console) = {}
      BY <2>5, <2>6 DEF now
    <2>3. \A i, j \in Ids : i # j => ToSet(text'[i]) \cap ToSet(text'[j]) = {}
      BY <2>7 DEF now
    <2> QED
      BY <1>1, <1>2, <1>4, <1>9, <2>1, <2>2, <2>3 DEF TextsOnce
  <1>12. Survives
    BY <1>7, <1>8 DEF Survives
  <1> QED
    BY <1>2, <1>3, <1>11, <1>12 DEF TInv

\* flush() and setStreamFlags() dump all streams.
LEMMA FlushAllTexts ==
  ASSUME SetupTyped, TextsOnce, FlushAll, Ids' = Ids, written' = written
  PROVE  /\ TextsOnce'
         /\ \A id \in Ids : IsFile(streammap_[id]) /\ enabled(streammap_[id])
                            => ToSet(text[id]) \subseteq ToSet(console')
         /\ \A id \in Ids : ~enabled(streammap_[id]) => text'[id] = text[id]
  <1> DEFINE d == Dumped(streammap_, MapOrder)
  <1>1. console' = console \o d /\ text' = Kept
    BY DEF FlushAll
  <1>2. MapOrder \in Seq(Ids) /\ IsInjective(MapOrder) /\ ToSet(MapOrder) = Ids
    BY MapOrderIsAll
  <1>3. /\ d \in Seq(1 .. written) /\ IsInjective(d) /\ ToSet(d) \cap ToSet(console) = {}
        /\ ToSet(d) = UNION {ToSet(text[id]) : id \in ToSet(MapOrder) \cap Dumps(streammap_)}
        /\ \A id \in Ids : id \notin ToSet(MapOrder) \cap Dumps(streammap_) => ToSet(text[id]) \cap ToSet(d) = {}
    BY <1>2, DumpedTexts
  <1> HIDE DEF d
  <1>4. /\ DOMAIN text' = Ids /\ text' = [id \in Ids |-> text'[id]]
        /\ \A id \in Ids : /\ enabled(streammap_[id]) => text'[id] = <<>>
                           /\ ~enabled(streammap_[id]) => text'[id] = text[id]
    BY <1>1 DEF Kept
  <1>5. \A id \in Ids : id \in Dumps(streammap_) <=> IsFile(streammap_[id]) /\ enabled(streammap_[id])
    BY DEF Dumps, Ids
  <1>6. \A id \in Ids : text'[id] = <<>> \/ (text'[id] = text[id] /\ ToSet(text[id]) \cap ToSet(d) = {})
    <2> TAKE id \in Ids
    <2>1. CASE enabled(streammap_[id])
      BY <1>4, <2>1
    <2>2. CASE ~enabled(streammap_[id])
      <3>1. id \notin ToSet(MapOrder) \cap Dumps(streammap_)
        BY <1>5, <2>2
      <3>2. ToSet(text[id]) \cap ToSet(d) = {}
        BY ONLY <1>3, <3>1
      <3> QED
        BY <1>4, <2>2, <3>2
    <2> QED
      BY <2>1, <2>2
  <1>7. TextsOnce' /\ ToSet(d) \subseteq ToSet(console')
    BY <1>1, <1>3, <1>4, <1>6, DumpStep
  <1>8. \A id \in Ids : IsFile(streammap_[id]) /\ enabled(streammap_[id]) => ToSet(text[id]) \subseteq ToSet(d)
    BY <1>2, <1>3, <1>5
  <1> QED
    BY <1>4, <1>7, <1>8

LEMMA FlushStep ==
  ASSUME TInv, flush
  PROVE  TInv' /\ Survives
  <1>1. FlushAll /\ UNCHANGED <<streammap_, setup, written, configured>>
    BY DEF flush
  <1>2. Ids' = Ids /\ BuffersTyped'
    BY <1>1 DEF TInv, BuffersTyped, LevelsAreIds, Ids
  <1>3. SetupTyped'
    BY <1>1, <1>2, SetupStep DEF TInv, SetupTyped
  <1>4. /\ TextsOnce'
        /\ \A id \in Ids : IsFile(streammap_[id]) /\ enabled(streammap_[id])
                           => ToSet(text[id]) \subseteq ToSet(console')
    BY <1>1, <1>2, FlushAllTexts DEF TInv
  <1> QED
    BY <1>2, <1>3, <1>4 DEF TInv, Survives

LEMMA FlushStreamStep ==
  ASSUME TInv, NEW id \in Ids, FlushStream(id)
  PROVE  TInv' /\ Survives
  <1> DEFINE d == Dumped(streammap_, <<id>>)
  <1>1. /\ console' = console \o d /\ text' = [text EXCEPT ![id] = Kept[id]]
        /\ UNCHANGED <<streammap_, setup, written, configured>>
    BY DEF FlushStream
  <1>2. Ids' = Ids /\ BuffersTyped'
    BY <1>1 DEF TInv, BuffersTyped, LevelsAreIds, Ids
  <1>3. SetupTyped'
    BY <1>1, <1>2, SetupStep DEF TInv, SetupTyped
  <1>4. <<id>> \in Seq(Ids) /\ IsInjective(<<id>>) /\ ToSet(<<id>>) = {id}
    BY DEF IsInjective, ToSet
  <1>5. /\ d \in Seq(1 .. written) /\ IsInjective(d) /\ ToSet(d) \cap ToSet(console) = {}
        /\ ToSet(d) = UNION {ToSet(text[x]) : x \in ToSet(<<id>>) \cap Dumps(streammap_)}
        /\ \A x \in Ids : x \notin ToSet(<<id>>) \cap Dumps(streammap_) => ToSet(text[x]) \cap ToSet(d) = {}
    BY <1>4, DumpedTexts, ZenonT(60) DEF TInv
  <1> HIDE DEF d
  <1>6. /\ DOMAIN text' = Ids /\ text' = [x \in Ids |-> text'[x]]
        /\ enabled(streammap_[id]) => text'[id] = <<>>
        /\ ~enabled(streammap_[id]) => text'[id] = text[id]
        /\ \A x \in Ids : x # id => text'[x] = text[x]
    BY <1>1 DEF TInv, TextsOnce, Kept
  <1>7. \A x \in Ids : x \in Dumps(streammap_) <=> IsFile(streammap_[x]) /\ enabled(streammap_[x])
    BY DEF Dumps, Ids
  <1>8. \A x \in Ids : text'[x] = <<>> \/ (text'[x] = text[x] /\ ToSet(text[x]) \cap ToSet(d) = {})
    <2> TAKE x \in Ids
    <2>1. CASE x = id /\ enabled(streammap_[id])
      BY <1>6, <2>1
    <2>2. CASE ~(x = id /\ enabled(streammap_[id]))
      <3>1. x \notin ToSet(<<id>>) \cap Dumps(streammap_)
        BY <1>4, <1>7, <2>2
      <3>2. ToSet(text[x]) \cap ToSet(d) = {}
        BY ONLY <1>5, <3>1
      <3> QED
        BY <1>6, <2>2, <3>2
    <2> QED
      BY <2>1, <2>2
  <1>9. TextsOnce' /\ ToSet(d) \subseteq ToSet(console')
    BY <1>1, <1>2, <1>5, <1>6, <1>8, DumpStep DEF TInv
  <1>10. IsFile(streammap_[id]) /\ enabled(streammap_[id]) => ToSet(text[id]) \subseteq ToSet(d)
    BY <1>4, <1>5, <1>7
  <1> QED
    BY <1>2, <1>3, <1>6, <1>9, <1>10 DEF TInv, Survives

LEMMA SetFlagsStep ==
  ASSUME TInv, NEW id \in Ids, NEW flags \in FlagSets, setStreamFlags(id, flags)
  PROVE  TInv' /\ Survives
  <1>1. /\ FlushAll /\ UNCHANGED <<setup, written>>
        /\ streammap_' = [streammap_ EXCEPT ![id].logflags_ = flags]
        /\ configured' = IF streammap_[id].is_suspended_ THEN configured ELSE [configured EXCEPT ![id] = flags]
    BY DEF setStreamFlags
  <1>2. Ids' = Ids
    BY <1>1 DEF Ids
  <1>3. flags \in Flags
    BY DEF Flags
  <1>4. SetupTyped'
    <2>1. configured' \in [Ids -> Flags]
      BY <1>1, <1>3 DEF TInv, SetupTyped
    <2> QED
      BY <1>1, <1>2, <2>1, SetupStep DEF TInv
  <1>5. BuffersTyped'
    <2>1. PICK b \in Buffers : b = streammap_[id]
      BY DEF TInv, BuffersTyped
    <2>2. PICK c : c = [b EXCEPT !.logflags_ = flags]
      OBVIOUS
    <2>3. c \in Buffers /\ c.loglevel_ = b.loglevel_
      BY <1>3, <2>2 DEF Buffers
    <2>4. streammap_' = [streammap_ EXCEPT ![id] = c]
      BY <1>1, <2>1, <2>2
    <2>5. streammap_' \in [Ids -> Buffers]
      BY <2>3, <2>4 DEF TInv, BuffersTyped
    <2>6. \A x \in Ids : streammap_'[x].loglevel_ = streammap_[x].loglevel_
      BY <2>1, <2>3, <2>4 DEF TInv, BuffersTyped
    <2> QED
      BY <1>2, <2>5, <2>6 DEF TInv, BuffersTyped, LevelsAreIds, IsFile
  <1>6. /\ TextsOnce'
        /\ \A x \in Ids : IsFile(streammap_[x]) /\ enabled(streammap_[x])
                          => ToSet(text[x]) \subseteq ToSet(console')
    BY <1>1, <1>2, FlushAllTexts DEF TInv
  <1> QED
    BY <1>4, <1>5, <1>6 DEF TInv, Survives

\* create() and setPrefix(): what is on the console before the streams of map
\* are destroyed is disjoint from what these dump.
LEMMA CreatedTexts ==
  ASSUME TInv, NEW flags \in Flags, NEW file \in {"closed", "open", "failed"}, NEW map, NEW before,
         Created(flags, file, map, before),
         NEW d, before = console \o d, d \in Seq(1 .. written), IsInjective(d), ToSet(d) \cap ToSet(console) = {},
         \A id \in DOMAIN map : id \in Ids => ToSet(text[id]) \cap ToSet(d) = {}
  PROVE  /\ TInv'
         /\ ToSet(before) \subseteq ToSet(console')
         /\ \A id \in Ids : streammap_'[id] = NewBuffer(id, flags)
         /\ \A id \in Ids \cap DOMAIN map :
              IsFile(map[id]) /\ enabled([map[id] EXCEPT !.logflags_ = flags])
              => ToSet(text[id]) \subseteq ToSet(console')
  <1> DEFINE told == [id \in DOMAIN map |->
                        IF IsFile(map[id]) THEN [map[id] EXCEPT !.logflags_ = flags] ELSE map[id]]
             e    == Dumped(told, streamIDs_)
  <1>1. /\ logflags_' = flags
        /\ logfile_' = Opened(flags, file)
        /\ console' = before \o e
        /\ streammap_' = [id \in Ids |-> NewBuffer(id, flags)]
        /\ text' = [id \in Ids |-> <<>>]
        /\ configured' = [id \in Ids |-> flags]
        /\ UNCHANGED <<streamIDs_, written>>
    BY DEF Created
  <1>2. /\ e \in Seq(1 .. written) /\ IsInjective(e) /\ ToSet(e) \cap ToSet(console) = {}
        /\ ToSet(e) = UNION {ToSet(text[id]) : id \in ToSet(streamIDs_) \cap Dumps(told)}
    <2>1. TextsOnce /\ streamIDs_ \in Seq(Ids) /\ IsInjective(streamIDs_)
      BY DEF TInv, SetupTyped
    <2> HIDE DEF told
    <2> QED
      BY ONLY <2>1, DumpedTexts
  <1>3. ToSet(streamIDs_) = Ids
    BY DEF TInv, SetupTyped
  <1>4. ToSet(e) \cap ToSet(d) = {}
    <2>1. Dumps(told) \subseteq DOMAIN map
      BY DEF Dumps
    <2> HIDE DEF e, told
    <2> QED
      BY <1>2, <1>3, <2>1
  <1>5. \A id \in Ids \cap DOMAIN map :
          IsFile(map[id]) /\ enabled([map[id] EXCEPT !.logflags_ = flags]) => id \in Dumps(told)
    <2> SUFFICES ASSUME NEW id \in Ids \cap DOMAIN map, IsFile(map[id]),
                        enabled([map[id] EXCEPT !.logflags_ = flags])
                 PROVE  id \in Dumps(told)
      OBVIOUS
    <2>1. told[id] = [map[id] EXCEPT !.logflags_ = flags] /\ id \in DOMAIN told
      OBVIOUS
    <2>2. IsFile(told[id])
      BY <2>1 DEF IsFile
    <2> QED
      BY <2>1, <2>2 DEF Dumps
  <1> HIDE DEF e, told
  <1>6. /\ before \in Seq(1 .. written) /\ IsInjective(before)
        /\ ToSet(before) = ToSet(console) \cup ToSet(d)
    BY Joined DEF TInv, TextsOnce
  <1>7. /\ console' \in Seq(1 .. written) /\ IsInjective(console')
        /\ ToSet(console') = ToSet(before) \cup ToSet(e)
    <2>1. ToSet(before) \cap ToSet(e) = {}
      BY <1>2, <1>4, <1>6
    <2> QED
      BY ONLY <1>1, <1>2, <1>6, <2>1, Joined
  <1>8. Ids' = Ids
    BY <1>1 DEF Ids
  <1>9. TextsOnce'
    <2>1. ToSet(<<>>) = {} /\ IsInjective(<<>>) /\ <<>> \in Seq(1 .. written)
      BY DEF ToSet, IsInjective
    <2>2. /\ text' \in [Ids -> Seq(1 .. written)]
          /\ \A id \in Ids : ToSet(text'[id]) = {} /\ IsInjective(text'[id])
      BY <1>1, <2>1
    <2> QED
      BY <1>1, <1>7, <1>8, <2>2 DEF TInv, TextsOnce
  <1>10. SetupTyped'
    BY <1>1, <1>8 DEF TInv, SetupTyped, FileIsOpen, Opened
  <1>11. BuffersTyped'
    <2>1. \A id \in Ids : NewBuffer(id, flags) \in Buffers /\ NewBuffer(id, flags).loglevel_ = id
      BY DEF TInv, SetupTyped, NewBuffer, Buffers
    <2> QED
      BY <1>1, <1>8, <2>1 DEF BuffersTyped, LevelsAreIds
  <1> QED
    BY <1>1, <1>2, <1>3, <1>5, <1>7, <1>9, <1>10, <1>11 DEF TInv

LEMMA CreateStep ==
  ASSUME TInv, NEW flags \in FlagSets, create(flags)
  PROVE  TInv' /\ Survives
  <1>1. Created(flags, logfile_, streammap_, console) /\ flags \in Flags
        /\ logfile_ \in {"closed", "open", "failed"}
    BY DEF create, Flags, TInv, SetupTyped
  <1>2. /\ <<>> \in Seq(1 .. written) /\ IsInjective(<<>>) /\ ToSet(<<>>) = {}
        /\ console = console \o <<>>
    <2>1. console \in Seq(1 .. written)
      BY DEF TInv, TextsOnce
    <2> QED
      BY <2>1, ConcatEmptySeq DEF IsInjective, ToSet
  <1> DEFINE d == <<>>
  <1>3. /\ d \in Seq(1 .. written) /\ IsInjective(d) /\ ToSet(d) \cap ToSet(console) = {}
        /\ console = console \o d
        /\ \A id \in DOMAIN streammap_ : id \in Ids => ToSet(text[id]) \cap ToSet(d) = {}
    BY <1>2
  <1> HIDE DEF d
  <1>4. /\ TInv'
        /\ \A id \in Ids : streammap_'[id] = NewBuffer(id, flags)
        /\ \A id \in Ids \cap DOMAIN streammap_ :
             IsFile(streammap_[id]) /\ enabled([streammap_[id] EXCEPT !.logflags_ = flags])
             => ToSet(text[id]) \subseteq ToSet(console')
    BY ONLY TInv, <1>1, <1>3, CreatedTexts
  <1>5. ASSUME NEW id \in Ids, IsFile(streammap_[id]), enabled(streammap_[id]),
               streammap_'[id].is_suspended_ \/ enabled(streammap_'[id])
        PROVE  ToSet(text[id]) \subseteq ToSet(console')
    <2>1. PICK b \in Buffers : b = streammap_[id] /\ b.loglevel_ = id
      BY <1>5 DEF TInv, BuffersTyped, LevelsAreIds
    <2>2. id \in flags
      <3>1. PICK new : new = NewBuffer(id, flags)
        OBVIOUS
      <3>2. ~new.is_suspended_ /\ new.loglevel_ = id /\ new.logflags_ = flags
        BY <3>1 DEF NewBuffer
      <3>3. streammap_'[id] = new
        BY <1>4, <3>1
      <3> QED
        BY <1>5, <3>2, <3>3 DEF enabled
    <2>3. PICK c : c = [b EXCEPT !.logflags_ = flags]
      OBVIOUS
    <2>4. c.loglevel_ = id /\ c.logflags_ = flags /\ c.is_suspended_ = b.is_suspended_
      BY <2>1, <2>3 DEF Buffers
    <2>5. enabled([streammap_[id] EXCEPT !.logflags_ = flags])
      BY <1>5, <2>1, <2>2, <2>3, <2>4 DEF enabled
    <2> QED
      BY <1>4, <1>5, <2>5 DEF Ids
  <1> QED
    BY <1>4, <1>5 DEF Survives

LEMMA SetPrefixStep ==
  ASSUME TInv, setPrefix
  PROVE  TInv' /\ Survives
  <1> DEFINE d    == Dumped(streammap_, MapOrder)
             file == IF LogFile \in logflags_ THEN "closed" ELSE logfile_
  <1>1. Created(logflags_, file, <<>>, console \o d)
    BY DEF setPrefix
  <1>2. file \in {"closed", "open", "failed"} /\ logflags_ \in Flags
    BY DEF TInv, SetupTyped
  <1>3. MapOrder \in Seq(Ids) /\ IsInjective(MapOrder) /\ ToSet(MapOrder) = Ids
    BY MapOrderIsAll DEF TInv
  <1>4. /\ d \in Seq(1 .. written) /\ IsInjective(d) /\ ToSet(d) \cap ToSet(console) = {}
        /\ ToSet(d) = UNION {ToSet(text[id]) : id \in ToSet(MapOrder) \cap Dumps(streammap_)}
    BY <1>3, DumpedTexts DEF TInv
  <1> HIDE DEF d, file
  <1>5. PICK before, map : before = console \o d /\ map = <<>>
    OBVIOUS
  <1>6. DOMAIN map = {}
    BY <1>5
  <1>7. TInv' /\ ToSet(before) \subseteq ToSet(console')
    <2>1. Created(logflags_, file, map, before)
      BY <1>1, <1>5
    <2>2. \A id \in DOMAIN map : id \in Ids => ToSet(text[id]) \cap ToSet(d) = {}
      BY <1>6
    <2>3. before = console \o d /\ logflags_ \in Flags /\ file \in {"closed", "open", "failed"}
      BY <1>2, <1>5
    <2>4. d \in Seq(1 .. written) /\ IsInjective(d) /\ ToSet(d) \cap ToSet(console) = {}
      BY <1>4
    <2> QED
      BY ONLY TInv, <2>1, <2>2, <2>3, <2>4, CreatedTexts, ZenonT(60)
  <1>8. ToSet(d) \subseteq ToSet(before)
    BY <1>4, <1>5, Joined DEF TInv, TextsOnce
  <1>9. \A id \in Ids : IsFile(streammap_[id]) /\ enabled(streammap_[id]) => ToSet(text[id]) \subseteq ToSet(d)
    BY <1>3, <1>4 DEF Dumps, Ids
  <1> QED
    BY <1>7, <1>8, <1>9 DEF Survives

\* addStream(): the new stream has written nothing.
LEMMA AddStreamStep ==
  ASSUME IInv, TInv, NEW flags \in FlagSets, addStream(flags)
  PROVE  TInv' /\ Survives
  <1> DEFINE id == AddedId(Added + 1)
  <1>1. /\ Added < MaxStreams
        /\ streamIDs_' = Append(streamIDs_, id)
        /\ streammap_' = Inserted(streammap_, id, NewBuffer(id, flags \cup {id}))
        /\ text' = Inserted(text, id, <<>>)
        /\ configured' = Inserted(configured, id, flags \cup {id})
        /\ UNCHANGED <<logflags_, logfile_, console, written>>
    BY DEF addStream, Added
  <1>2. id \in Bits /\ id \notin Ids
    <2>1. /\ Added \in 0 .. MaxStreams
          /\ Ids = ToSet(StandardIds) \cup {AddedId(n) : n \in 1 .. Added}
      BY DEF IInv, IdsAreAdded
    <2>2. Added + 1 \in 1 .. MaxStreams /\ \A n \in 1 .. Added : n \in 1 .. MaxStreams /\ n # Added + 1
      BY <1>1, <2>1
    <2> QED
      BY <2>1, <2>2
  <1> HIDE DEF id
  <1>3. /\ DOMAIN streammap_ = Ids /\ DOMAIN text = Ids /\ DOMAIN configured = Ids
        /\ streammap_ \in [Ids -> Buffers] /\ configured \in [Ids -> Flags] /\ text \in [Ids -> Seq(1 .. written)]
    BY DEF TInv, BuffersTyped, SetupTyped, TextsOnce
  <1>4. flags \cup {id} \in Flags
    BY <1>2 DEF Flags
  <1>5. PICK new : new = NewBuffer(id, flags \cup {id})
    OBVIOUS
  <1>6. new \in Buffers /\ new.loglevel_ = id
    BY <1>2, <1>4, <1>5 DEF NewBuffer, Buffers
  <1>7. /\ Ids' = Ids \cup {id}
        /\ streammap_' = [x \in Ids \cup {id} |-> IF x = id THEN new ELSE streammap_[x]]
        /\ text' = [x \in Ids \cup {id} |-> IF x = id THEN <<>> ELSE text[x]]
        /\ configured' = [x \in Ids \cup {id} |-> IF x = id THEN flags \cup {id} ELSE configured[x]]
    BY <1>1, <1>3, <1>5 DEF Ids, Inserted
  <1>8. BuffersTyped'
    <2>1. streammap_' \in [Ids' -> Buffers]
      BY <1>3, <1>6, <1>7
    <2>2. \A x \in Ids' : IF x = id THEN streammap_'[x] = new ELSE x \in Ids /\ streammap_'[x] = streammap_[x]
      BY <1>7
    <2> QED
      BY <1>6, <2>1, <2>2 DEF TInv, BuffersTyped, LevelsAreIds
  <1>9. SetupTyped'
    <2>1. streamIDs_ \in Seq(Ids') /\ id \in Ids'
      BY <1>7 DEF TInv, SetupTyped
    <2>2. IsInjective(streamIDs_) /\ ToSet(streamIDs_) = Ids
      BY DEF TInv, SetupTyped
    <2>3. /\ streamIDs_' \in Seq(Ids') /\ IsInjective(streamIDs_')
          /\ ToSet(streamIDs_') = Ids'
      BY <1>1, <1>2, <1>7, <2>1, <2>2, AppendedEntries
    <2>4. configured' \in [Ids' -> Flags]
      BY <1>3, <1>4, <1>7
    <2>5. Ids' \subseteq Bits
      BY <1>2, <1>7 DEF TInv, SetupTyped
    <2> QED
      BY <1>1, <2>3, <2>4, <2>5 DEF TInv, SetupTyped, FileIsOpen
  <1>10. ToSet(<<>>) = {} /\ IsInjective(<<>>) /\ <<>> \in Seq(1 .. written)
    BY DEF ToSet, IsInjective
  <1>11. \A x \in Ids' : /\ x = id => text'[x] = <<>>
                         /\ x # id => x \in Ids /\ text'[x] = text[x]
    BY <1>7
  <1>12. TextsOnce'
    <2>1. \A x \in Ids' : /\ text'[x] \in Seq(1 .. written) /\ IsInjective(text'[x])
                          /\ ToSet(text'[x]) \cap ToSet(console) = {}
      BY <1>10, <1>11 DEF TInv, TextsOnce
    <2>2. \A i, j \in Ids' : i # j => ToSet(text'[i]) \cap ToSet(text'[j]) = {}
      BY <1>10, <1>11 DEF TInv, TextsOnce
    <2>3. text' \in [Ids' -> Seq(1 .. written)]
      BY <1>7, <2>1
    <2> QED
      BY <1>1, <2>1, <2>2, <2>3 DEF TInv, TextsOnce
  <1>13. \A x \in Ids : text'[x] = text[x]
    BY <1>2, <1>7
  <1> QED
    BY <1>8, <1>9, <1>12, <1>13 DEF TInv, Survives

\* Suspensions and resumptions, in any way, and steps that change nothing here.
LEMMA BuffersStep ==
  ASSUME TInv, Rest,
         streammap_' = [id \in Ids |-> streammap_'[id]],
         \A id \in Ids : streammap_'[id] \in Buffers /\ streammap_'[id].loglevel_ = streammap_[id].loglevel_
  PROVE  TInv' /\ Survives
  <1>1. Ids' = Ids
    BY DEF Ids
  <1>2. UNCHANGED <<text, setup, console, written, configured>>
    BY DEF Rest
  <1>3. BuffersTyped'
    BY <1>1 DEF TInv, BuffersTyped, LevelsAreIds, IsFile
  <1>4. SetupTyped'
    BY <1>1, <1>2, SetupStep DEF TInv, SetupTyped
  <1>5. TextsOnce'
    BY <1>1, <1>2 DEF TInv, TextsOnce
  <1> QED
    BY <1>2, <1>3, <1>4, <1>5 DEF TInv, Survives

SomeChange(I, p) ==
  \/ streammap_' = [id \in Ids |-> IF id \in I THEN suspended(streammap_[id], p) ELSE streammap_[id]]
  \/ streammap_' = [id \in Ids |-> IF id \in I THEN resumed(streammap_[id], p) ELSE streammap_[id]]

LEMMA SuspendingStep ==
  ASSUME TInv, Rest, NEW I, NEW p \in Priorities, SomeChange(I, p)
  PROVE  TInv' /\ Survives
  <1>1. \A id \in Ids : streammap_[id] \in Buffers
    BY DEF TInv, BuffersTyped
  <1>2. \A id \in Ids : \/ streammap_'[id] = suspended(streammap_[id], p)
                        \/ streammap_'[id] = resumed(streammap_[id], p)
                        \/ streammap_'[id] = streammap_[id]
    BY DEF SomeChange
  <1>3. \A id \in Ids : streammap_'[id] \in Buffers /\ streammap_'[id].loglevel_ = streammap_[id].loglevel_
    BY <1>1, <1>2, SuspendedIsBuffer, ResumedIsBuffer
  <1>4. streammap_' = [id \in Ids |-> streammap_'[id]]
    BY DEF SomeChange
  <1> QED
    BY <1>3, <1>4, BuffersStep

-----------------------------------------------------------------------------
(* The texts: the theorems. *)

LEMMA InitTInv == Init => TInv
  <1> SUFFICES ASSUME Init PROVE TInv
    OBVIOUS
  <1> DEFINE I == ToSet(StandardIds)
  <1>1. /\ streammap_ = [id \in I |-> EmptyBuffer] /\ text = [id \in I |-> <<>>]
        /\ streamIDs_ = StandardIds /\ logflags_ = {LogNone} /\ logfile_ = "closed"
        /\ console = <<>> /\ written = 0 /\ configured = [id \in I |-> {LogNone}]
    BY DEF Init
  <1>2. Ids = I
    BY <1>1 DEF Ids
  <1>3. StandardIds \in Seq(I) /\ I \subseteq Bits
    BY DEF ToSet
  <1>4. {LogNone} \in Flags
    BY DEF Flags
  <1>5. BuffersTyped
    <2>1. EmptyBuffer \in Buffers /\ ~IsFile(EmptyBuffer)
      BY <1>4 DEF EmptyBuffer, NewBuffer, Buffers, IsFile
    <2> QED
      BY <1>1, <1>2, <2>1 DEF BuffersTyped, LevelsAreIds
  <1>6. SetupTyped
    <2>1. LogFile \notin logflags_
      BY <1>1
    <2> QED
      BY <1>1, <1>2, <1>3, <1>4, <2>1 DEF SetupTyped, FileIsOpen
  <1>7. TextsOnce
    <2>1. ToSet(<<>>) = {} /\ IsInjective(<<>>) /\ <<>> \in Seq(1 .. 0)
      BY DEF ToSet, IsInjective
    <2> QED
      BY <1>1, <1>2, <2>1 DEF TextsOnce
  <1> QED
    BY <1>5, <1>6, <1>7 DEF TInv

LEMMA NextTInv == IInv /\ TInv /\ [Next]_vars => TInv' /\ (Survives \/ UNCHANGED vars)
  <1> SUFFICES ASSUME IInv, TInv, [Next]_vars PROVE TInv' /\ (Survives \/ UNCHANGED vars)
    OBVIOUS
  <1>1. ASSUME NEW id \in Ids, log(id) \/ FlushStream(id)
        PROVE  TInv' /\ Survives
    BY <1>1, LogStep, FlushStreamStep
  <1>2. CASE flush \/ setPrefix
    BY <1>2, FlushStep, SetPrefixStep
  <1>3. ASSUME NEW flags \in FlagSets, create(flags) \/ addStream(flags)
        PROVE  TInv' /\ Survives
    BY <1>3, CreateStep, AddStreamStep
  <1>4. ASSUME NEW flags \in FlagSets, NEW id \in Ids, setStreamFlags(id, flags)
        PROVE  TInv' /\ Survives
    BY <1>4, SetFlagsStep
  <1>5. ASSUME NEW p \in Priorities, SuspendAll(p) \/ ResumeAll(p), Rest
        PROVE  TInv' /\ Survives
    <2>1. SomeChange(Ids, p)
      BY <1>5 DEF SuspendAll, ResumeAll, SomeChange
    <2> QED
      BY <1>5, <2>1, SuspendingStep
  <1>6. ASSUME NEW p \in Priorities, SuspendLocal(p) \/ ResumeLocal(p)
        PROVE  TInv' /\ Survives
    BY <1>5, <1>6 DEF SuspendLocal, ResumeLocal
  <1>7. ASSUME NEW p \in Priorities, NEW I \in SUBSET Ids, suspend(I, p) \/ resume(I, p)
        PROVE  TInv' /\ Survives
    <2>1. SomeChange(I, p) /\ Rest
      BY <1>7 DEF suspend, resume, SomeChange
    <2> QED
      BY <2>1, SuspendingStep
  <1>8. CASE LeaveScope
    <2>1. scopes # <<>> /\ scopes \in Seq(Scope(Ids))
      BY <1>8 DEF LeaveScope, IInv, Typed
    <2>2. Last(scopes).prio \in Priorities
      <3>1. Last(scopes) \in Scope(Ids)
        BY <2>1, FrontOfSeq
      <3> QED
        BY <3>1 DEF Scope
    <2>3. (SuspendAll(Last(scopes).prio) \/ ResumeAll(Last(scopes).prio)) /\ Rest
      BY <1>8 DEF LeaveScope
    <2> QED
      BY <1>5, <2>2, <2>3
  <1>9. CASE UNCHANGED vars
    <2>1. Rest /\ UNCHANGED streammap_
      BY <1>9 DEF vars, Rest, setup
    <2>2. streammap_ \in [Ids -> Buffers]
      BY DEF TInv, BuffersTyped
    <2> QED
      BY <1>9, <2>1, <2>2, BuffersStep
  <1>10. \A id \in Ids : {id} \in SUBSET Ids
    OBVIOUS
  <1> QED
    BY <1>1, <1>2, <1>3, <1>4, <1>6, <1>7, <1>8, <1>9, <1>10 DEF Next

THEOREM TextInvariance == Spec => [](IInv /\ TInv)
  <1>1. Init => IInv /\ TInv
    BY InitIInv, InitTInv
  <1>2. (IInv /\ TInv) /\ [Next]_vars => (IInv /\ TInv)'
    BY NextIInv, NextTInv
  <1> QED
    BY <1>1, <1>2, PTL DEF Spec

LEMMA TInvTypes ==
  ASSUME TInv
  PROVE  TypeOK /\ FileIsOpen
  <1>1. 1 .. written \subseteq Texts /\ written \in 0 .. MaxTexts
    BY DEF TInv, TextsOnce, Texts
  <1>2. \A s \in Seq(1 .. written) : s \in Seq(Texts)
    BY <1>1
  <1>3. text \in [Ids -> Seq(Texts)] /\ console \in Seq(Texts)
    BY <1>2 DEF TInv, TextsOnce
  <1> QED
    BY <1>1, <1>3 DEF TInv, BuffersTyped, SetupTyped, TypeOK

\* However streams are flushed, replaced, added and given other flags, no text
\* is on the console twice, nor on the console and still to be dumped.
THEOREM NoTextTwice == Spec => []NothingTwice
  <1>1. ASSUME TInv PROVE NothingTwice
    <2> DEFINE parts    == [i \in DOMAIN MapOrder |-> text[MapOrder[i]]]
               buffered == FlattenSeq(parts)
    <2>1. MapOrder \in Seq(Ids) /\ IsInjective(MapOrder) /\ ToSet(MapOrder) = Ids
      BY <1>1, MapOrderIsAll DEF TInv
    <2>2. PICK n \in Nat : n = Len(MapOrder) /\ DOMAIN MapOrder = 1 .. n
      BY <2>1
    <2>3. \A i \in 1 .. n : MapOrder[i] \in Ids /\ parts[i] = text[MapOrder[i]]
      BY <2>1, <2>2
    <2>4. parts \in [1 .. n -> Seq(1 .. written)]
      BY <1>1, <2>2, <2>3 DEF TInv, TextsOnce
    <2> HIDE DEF parts
    <2>5. AreDisjoint(parts)
      <3>1. \A i, j \in 1 .. n : i # j => MapOrder[i] # MapOrder[j]
        BY <2>1, <2>2 DEF IsInjective
      <3>2. \A i \in 1 .. n : IsInjective(parts[i])
        BY <1>1, <2>3 DEF TInv, TextsOnce
      <3>3. ASSUME NEW i \in 1 .. n, NEW j \in 1 .. n, i # j
            PROVE  ToSet(parts[i]) \cap ToSet(parts[j]) = {}
        <4>1. ToSet(text[MapOrder[i]]) \cap ToSet(text[MapOrder[j]]) = {}
          BY <1>1, <2>3, <3>1, <3>3 DEF TInv, TextsOnce
        <4> QED
          BY <2>3, <4>1
      <3>4. DOMAIN parts = 1 .. n
        BY <2>4
      <3> QED
        BY <3>2, <3>3, <3>4 DEF AreDisjoint
    <2>9. buffered = FlattenSeq(parts)
      OBVIOUS
    <2> HIDE DEF buffered
    <2>6. /\ buffered \in Seq(1 .. written) /\ IsInjective(buffered)
          /\ ToSet(buffered) = UNION {ToSet(parts[i]) : i \in 1 .. n}
      BY ONLY <2>2, <2>4, <2>5, <2>9, Flattened, SMTT(60)
    <2>7. ToSet(buffered) \cap ToSet(console) = {}
      BY <1>1, <2>3, <2>6, SMTT(60) DEF TInv, TextsOnce
    <2>8. IsInjective(console \o buffered)
      BY <1>1, <2>6, <2>7, Joined DEF TInv, TextsOnce
    <2> QED
      BY <1>1, <2>8, TInvTypes DEF NothingTwice, buffered, parts
  <1> QED
    BY <1>1, TextInvariance, PTL

\* No set-up of the logger, by create(), setPrefix(), setStreamFlags() or
\* addStream(), loses what an enabled stream has accepted.
THEOREM NoTextLost == Spec => AcceptedTextSurvives
  <1>1. IInv /\ TInv /\ [Next]_vars =>
          [\A id \in Ids : \A n \in ToSet(text[id]) :
             IsFile(streammap_[id]) /\ enabled(streammap_[id])
             /\ (streammap_'[id].is_suspended_ \/ enabled(streammap_'[id]))
             => n \in ToSet(text'[id]) \cup ToSet(console')]_vars
    BY NextTInv DEF Survives
  <1> QED
    BY <1>1, TextInvariance, PTL DEF Spec, AcceptedTextSurvives

=============================================================================
