------------------------- MODULE LogStreams_proofs -------------------------
(***************************************************************************)
(* Proofs about LogStreams, for any number of threads and texts, under the *)
(* rule of ClientLocks: who inserts does not dump at the same time.        *)
(***************************************************************************)
EXTENDS LogStreams, FiniteSetTheorems, SequenceTheorems, TLAPS

\* What the rule of the program comes to: threads insert through xsputn(),
\* or dump, or one of them puts a character.
PhasesAlternate ==
  /\ ~(Busy(Inserting) /\ Busy(Unlocked))
  /\ \A t, s \in Threads : pc[t] = "advance" /\ s # t => pc[s] = "idle"

\* The mutexes are held where the code holds them, and nowhere else.
MutexesHeld ==
  \A t \in Threads :
    /\ pc[t] \in {"xcopy", "xadvance"} <=> mutex_ = t
    /\ pc[t] \in {"cout", "file", "clear"} <=> sync_mutex_ = t

\* The texts that are on their way have a place.
Coming == {t \in Threads : pc[t] \in {"xsputn", "xcopy"}}
Room   == inserted + Cardinality(Coming) <= MaxTexts

\* Texts that have been copied, and not advanced over.
Copied == IF Busy({"xadvance", "advance"}) THEN 1 ELSE 0

\* Everything is in order of insertion: first on the console, then in the
\* buffer, and a text that has been copied behind the put position.
InOrder ==
  /\ \A n \in 1 .. Len(console) : console[n] = n
  /\ IF Busy({"file", "clear"})
     THEN Len(console) = inserted
     ELSE /\ Len(console) + pptr + Copied = inserted
          /\ \A i \in 1 .. pptr + Copied : area[i] = Len(console) + i

\* The file lacks the buffer between the two dumps.
FileBehind == console = IF Busy({"file"}) THEN logfile_ \o str ELSE logfile_

\* The inductive invariant.
IInv ==
  /\ TypeOK
  /\ PhasesAlternate
  /\ MutexesHeld
  /\ Room
  /\ InOrder
  /\ FileBehind

\* What is dumped comes after what was dumped.
LEMMA InOrderConcatenation ==
  ASSUME NEW S, NEW a \in Seq(S), NEW b \in Seq(S), NEW m \in Nat, Len(a) + Len(b) = m,
         \A n \in 1 .. Len(a) : a[n] = n, \A i \in 1 .. Len(b) : b[i] = Len(a) + i
  PROVE  a \o b = [n \in 1 .. m |-> n]
  <1>1. PICK c : c = a \o b
    OBVIOUS
  <1>2. c \in Seq(S) /\ Len(c) = m /\ \A n \in 1 .. m : c[n] = IF n <= Len(a) THEN a[n] ELSE b[n - Len(a)]
    BY <1>1, ConcatProperties
  <1>3. c = [n \in 1 .. m |-> c[n]]
    BY <1>2
  <1>4. \A n \in 1 .. m : c[n] = n
    BY <1>2, SMTT(60)
  <1> QED
    BY <1>1, <1>3, <1>4

USE LogStreamsAssumption, LogNoneAssumption, PrioritiesAssumption
USE DEF chars, mutexes, targets, Goto

-----------------------------------------------------------------------------
(* Lemmas about the parts of the state. *)

\* The text in the buffer is what is in front of the put position.
LEMMA BufferedText ==
  ASSUME TypeOK
  PROVE  /\ str \in Seq({0} \cup Texts)
         /\ Len(str) = pptr
         /\ \A i \in 1 .. pptr : str[i] = area[i]
  <1>1. area \in Seq({0} \cup Texts) /\ Len(area) = MaxTexts /\ pptr \in 0 .. MaxTexts
    BY DEF TypeOK, Texts
  <1> QED
    BY <1>1 DEF str

\* Suspending and resuming keep the type of a buffer.
LEMMA SuspensionType ==
  ASSUME NEW b \in Buffers, NEW p \in Priorities
  PROVE  suspended(b, p) \in Buffers /\ resumed(b, p) \in Buffers
  <1>1. Larger(p, b.suspend_priority_) \in Priorities \cup {default_suspend_priority}
    BY DEF Larger, Buffers
  <1>2. suspended(b, p) \in Buffers
    BY <1>1 DEF suspended, Buffers, Flags
  <1>3. resumed(b, p) \in Buffers
    BY DEF resumed, Buffers, Flags
  <1> QED
    BY <1>2, <1>3

\* A thread starts, or stops, being on its way with a text.
LEMMA ComingIsFinite == IsFiniteSet(Coming) /\ Cardinality(Coming) \in Nat
  <1>1. Coming \in SUBSET Threads
    BY DEF Coming
  <1> QED
    BY <1>1, FS_Subset, FS_CardinalityType

LEMMA InitIInv == Init => IInv
  <1> SUFFICES ASSUME Init PROVE IInv
    OBVIOUS
  <1>1. buffer \in Buffers
    BY DEF Init, NewBuffer, Buffers, Flags, default_suspend_priority
  <1>2. TypeOK
    <2>1. area \in [Texts -> {0} \cup Texts] /\ pptr \in 0 .. MaxTexts /\ inserted \in 0 .. MaxTexts
      BY DEF Init
    <2>2. pc \in [Threads -> Labels] /\ room \in BOOLEAN
      BY DEF Init, Labels
    <2>3. console \in Seq(Texts) /\ logfile_ \in Seq(Texts)
      BY DEF Init
    <2> QED
      BY <1>1, <2>1, <2>2, <2>3 DEF Init, TypeOK
  <1>3. PhasesAlternate /\ MutexesHeld
    BY DEF Init, PhasesAlternate, MutexesHeld, Busy, Inserting, Unlocked
  <1>4. Room
    <2>1. Coming = {}
      BY DEF Init, Coming
    <2> QED
      BY <2>1, FS_EmptySet DEF Init, Room
  <1>5. InOrder /\ FileBehind
    BY DEF Init, InOrder, FileBehind, Copied, Busy
  <1> QED
    BY <1>2, <1>3, <1>4, <1>5 DEF IInv

LEMMA InsertIInv ==
  ASSUME ClientLocks, IInv, NEW t \in Threads, Insert(t)
  PROVE  IInv'
  <1> USE DEF IInv, Insert
  <1>1. TypeOK'
    BY DEF TypeOK, Labels, Inserting
  <1>2. pc[t] = "idle" /\ pc'[t] = "xsputn" /\ \A s \in Threads \ {t} : pc'[s] = pc[s]
    BY DEF TypeOK
  <1>3. PhasesAlternate'
    BY <1>2 DEF PhasesAlternate, MayInsert, Busy, Inserting, Unlocked
  <1>4. MutexesHeld'
    BY <1>2 DEF MutexesHeld
  <1>5. Room'
    <2>1. Coming' = Coming \cup {t} /\ t \notin Coming
      BY <1>2 DEF Coming
    <2>2. Cardinality(Coming \cup {t}) = Cardinality(Coming) + 1
      BY <2>1, ComingIsFinite, FS_AddElement
    <2>3. inserted + Cardinality(Coming) < MaxTexts
      BY DEF Bounded, Coming
    <2> QED
      BY <2>1, <2>2, <2>3, ComingIsFinite DEF TypeOK, Room
  <1>6. InOrder' /\ FileBehind'
    <2>1. \A labels : "xsputn" \notin labels /\ "idle" \notin labels => (Busy(labels)' <=> Busy(labels))
      BY <1>2 DEF Busy
    <2> QED
      BY <1>2, ZenonT(60) DEF InOrder, FileBehind, Copied, str, Busy
  <1> QED
    BY <1>1, <1>3, <1>4, <1>5, <1>6

\* A thread that holds a mutex knows what the others are not doing.
LEMMA InsertersAlone ==
  ASSUME IInv, NEW t \in Threads, pc[t] \in {"xcopy", "xadvance", "advance"},
         NEW s \in Threads, s # t
  PROVE  pc[s] \in {"idle", "xsputn"}
  <1>1. CASE pc[t] = "advance"
    BY <1>1 DEF IInv, PhasesAlternate
  <1>2. CASE pc[t] \in {"xcopy", "xadvance"}
    <2>1. mutex_ = t /\ pc[s] \notin {"xcopy", "xadvance"}
      BY <1>2 DEF IInv, MutexesHeld
    <2>2. pc[s] \notin Unlocked
      BY <1>2 DEF IInv, PhasesAlternate, Busy, Inserting
    <2> QED
      BY <2>1, <2>2 DEF IInv, TypeOK, Labels, Inserting
  <1> QED
    BY <1>1, <1>2

LEMMA DumpersAlone ==
  ASSUME IInv, NEW t \in Threads, pc[t] \in {"cout", "file", "clear"}, NEW s \in Threads, s # t
  PROVE  pc[s] \in {"idle", "sync"}
  <1>1. sync_mutex_ = t /\ pc[s] \notin {"cout", "file", "clear"}
    BY DEF IInv, MutexesHeld
  <1>2. pc[s] \notin Inserting /\ pc[s] # "advance"
    BY DEF IInv, PhasesAlternate, Busy, Unlocked
  <1> QED
    BY <1>1, <1>2 DEF IInv, TypeOK, Labels, Unlocked

\* The text that a copying thread copies has a place behind the put position.
LEMMA PlaceForCopy ==
  ASSUME IInv, NEW t \in Threads, pc[t] = "xcopy"
  PROVE  /\ inserted + 1 <= MaxTexts
         /\ Cardinality(Coming \ {t}) = Cardinality(Coming) - 1
  <1>1. t \in Coming
    BY DEF Coming
  <1>2. Cardinality(Coming \ {t}) = Cardinality(Coming) - 1 /\ Cardinality(Coming \ {t}) \in Nat
    BY <1>1, ComingIsFinite, FS_RemoveElement, FS_CardinalityType
  <1> QED
    BY <1>2, ComingIsFinite DEF IInv, Room, TypeOK

LEMMA LockIInv ==
  ASSUME IInv, NEW t \in Threads, Lock(t)
  PROVE  IInv'
  <1> USE DEF IInv, Lock
  <1>1. TypeOK'
    BY DEF TypeOK, Labels, Inserting
  <1>2. pc[t] = "xsputn" /\ pc'[t] = "xcopy" /\ \A s \in Threads \ {t} : pc'[s] = pc[s]
    BY DEF TypeOK
  <1>3. PhasesAlternate'
    BY <1>2 DEF PhasesAlternate, Busy, Inserting, Unlocked
  <1>4. MutexesHeld'
    BY <1>2 DEF MutexesHeld
  <1>5. Room'
    <2>1. Coming' = Coming
      BY <1>2 DEF Coming
    <2> QED
      BY <2>1 DEF Room
  <1>6. InOrder' /\ FileBehind'
    BY <1>2, ZenonT(60) DEF InOrder, FileBehind, Copied, str, Busy
  <1> QED
    BY <1>1, <1>3, <1>4, <1>5, <1>6

LEMMA CopyType ==
  ASSUME TypeOK, inserted + 1 <= MaxTexts
  PROVE  /\ inserted + 1 \in 0 .. MaxTexts
         /\ \A p : [area EXCEPT ![p] = inserted + 1] \in [Texts -> {0} \cup Texts]
  <1>1. inserted + 1 \in 0 .. MaxTexts /\ inserted + 1 \in {0} \cup Texts
    BY DEF TypeOK, Texts
  <1> QED
    BY <1>1 DEF TypeOK

\* While nothing is being copied or emptied, console and buffer have every text.
LEMMA DumpInOrder ==
  ASSUME IInv, ~Busy({"file", "clear"}), ~Busy({"xadvance", "advance"})
  PROVE  str \in Seq(Texts) /\ console \o str = [n \in 1 .. inserted |-> n]
  <1>1. Len(console) \in Nat /\ pptr \in Nat /\ inserted \in 0 .. MaxTexts /\ console \in Seq(Texts)
    BY DEF IInv, TypeOK
  <1>2. Len(console) + pptr = inserted /\ \A i \in 1 .. pptr : area[i] = Len(console) + i
    BY <1>1 DEF IInv, InOrder, Copied
  <1>3. str \in Seq({0} \cup Texts) /\ Len(str) = pptr /\ \A i \in 1 .. pptr : str[i] = Len(console) + i
    BY <1>2, BufferedText DEF IInv
  <1>4. \A i \in 1 .. pptr : str[i] \in Texts
    BY <1>1, <1>2, <1>3 DEF Texts
  <1>5. str \in Seq(Texts)
    BY <1>3, <1>4
  <1>6. \A n \in 1 .. Len(console) : console[n] = n
    BY DEF IInv, InOrder
  <1> QED
    BY <1>1, <1>2, <1>3, <1>5, <1>6, InOrderConcatenation

\* The text is copied behind the put position, by xsputn() or sputc().
LEMMA CopyKeepsOrder ==
  ASSUME IInv, NEW t \in Threads, inserted + 1 <= MaxTexts, NEW next \in {"xadvance", "advance"},
         pc[t] \in {"xcopy", "idle"}, \A s \in Threads \ {t} : pc[s] \in {"idle", "xsputn"},
         CopyText(t, next)
  PROVE  InOrder' /\ FileBehind'
  <1> USE DEF IInv, CopyText
  <1>1. pc'[t] = next /\ \A s \in Threads \ {t} : pc'[s] = pc[s]
    BY DEF TypeOK
  <1>2. /\ ~Busy({"file", "clear"}) /\ ~Busy({"file"}) /\ ~Busy({"xadvance", "advance"})
        /\ ~Busy({"file", "clear"})' /\ ~Busy({"file"})' /\ Busy({"xadvance", "advance"})'
    BY <1>1 DEF Busy
  <1>3. Len(console) \in Nat /\ pptr \in Nat /\ inserted \in Nat
    BY DEF TypeOK
  <1>4. Len(console) + pptr = inserted /\ \A i \in 1 .. pptr : area[i] = Len(console) + i
    BY <1>2, <1>3 DEF InOrder, Copied
  <1>5. \A i \in 1 .. pptr + 1 : area'[i] = Len(console) + i
    <2>1. pptr + 1 \in DOMAIN area
      BY <1>3, <1>4 DEF TypeOK, Texts
    <2> QED
      BY <1>3, <1>4, <2>1
  <1>6. InOrder'
    BY <1>2, <1>3, <1>4, <1>5 DEF InOrder, Copied
  <1>7. FileBehind'
    BY <1>2 DEF FileBehind
  <1> QED
    BY <1>6, <1>7

LEMMA xsputnIInv ==
  ASSUME IInv, NEW t \in Threads, xsputn(t)
  PROVE  IInv'
  <1> USE DEF IInv, xsputn, CopyText
  <1>1. inserted + 1 <= MaxTexts
    BY PlaceForCopy
  <1>2. TypeOK'
    <2>1. area' \in [Texts -> {0} \cup Texts] /\ inserted' \in 0 .. MaxTexts
      BY <1>1, CopyType DEF TypeOK
    <2>2. pc' \in [Threads -> Labels]
      BY DEF TypeOK, Labels, Inserting
    <2> QED
      BY <2>1, <2>2 DEF TypeOK
  <1>3. pc[t] = "xcopy" /\ pc'[t] = "xadvance" /\ \A s \in Threads \ {t} : pc'[s] = pc[s]
    BY DEF TypeOK
  <1>4. PhasesAlternate'
    BY <1>3 DEF PhasesAlternate, Busy, Inserting, Unlocked
  <1>5. MutexesHeld'
    BY <1>3 DEF MutexesHeld
  <1>6. Room'
    <2>1. Coming' = Coming \ {t}
      BY <1>3 DEF Coming
    <2> QED
      BY <1>3, <2>1, PlaceForCopy, ComingIsFinite DEF Room, TypeOK
  <1>7. InOrder' /\ FileBehind'
    <2>1. \A s \in Threads \ {t} : pc[s] \in {"idle", "xsputn"}
      BY <1>3, InsertersAlone
    <2> QED
      BY <1>1, <1>3, <2>1, CopyKeepsOrder
  <1> QED
    BY <1>2, <1>4, <1>5, <1>6, <1>7

LEMMA sputcIInv ==
  ASSUME ClientLocks, IInv, NEW t \in Threads, sputc(t)
  PROVE  IInv'
  <1> USE DEF IInv, sputc, CopyText
  <1>1. inserted + 1 <= MaxTexts /\ inserted + 1 + Cardinality(Coming) <= MaxTexts
    BY ComingIsFinite DEF Bounded, Coming, TypeOK
  <1>2. TypeOK'
    <2>1. area' \in [Texts -> {0} \cup Texts] /\ inserted' \in 0 .. MaxTexts
      BY <1>1, CopyType DEF TypeOK
    <2>2. pc' \in [Threads -> Labels]
      BY DEF TypeOK, Labels, Unlocked
    <2> QED
      BY <2>1, <2>2 DEF TypeOK
  <1>3. pc[t] = "idle" /\ pc'[t] = "advance" /\ \A s \in Threads \ {t} : pc'[s] = pc[s]
    BY DEF TypeOK
  <1>4. \A s \in Threads : pc[s] = "idle"
    BY DEF MayPut, Busy, TypeOK, Labels
  <1>5. PhasesAlternate'
    BY <1>3, <1>4 DEF PhasesAlternate, Busy, Inserting, Unlocked
  <1>6. MutexesHeld'
    BY <1>3 DEF MutexesHeld
  <1>7. Room'
    <2>1. Coming' = Coming
      BY <1>3 DEF Coming
    <2> QED
      BY <1>1, <2>1 DEF Room
  <1>8. InOrder' /\ FileBehind'
    BY <1>1, <1>3, <1>4, CopyKeepsOrder
  <1> QED
    BY <1>2, <1>5, <1>6, <1>7, <1>8

\* The put position passes the text that was copied.
LEMMA AdvanceIInv ==
  ASSUME IInv, NEW t \in Threads, Advance(t)
  PROVE  IInv'
  <1> USE DEF IInv, Advance
  <1>1. pc[t] \in {"xadvance", "advance"} /\ pc'[t] = "idle" /\ \A s \in Threads \ {t} : pc'[s] = pc[s]
    BY DEF TypeOK
  <1>2. \A s \in Threads \ {t} : pc[s] \in {"idle", "xsputn"}
    BY <1>1, InsertersAlone
  <1>3. /\ ~Busy({"file", "clear"}) /\ ~Busy({"file"}) /\ Busy({"xadvance", "advance"})
        /\ ~Busy({"file", "clear"})' /\ ~Busy({"file"})' /\ ~Busy({"xadvance", "advance"})'
    BY <1>1, <1>2 DEF Busy
  <1>4. Len(console) \in Nat /\ pptr \in Nat /\ inserted \in 0 .. MaxTexts
    BY DEF TypeOK
  <1>5. Len(console) + pptr + 1 = inserted /\ \A i \in 1 .. pptr + 1 : area[i] = Len(console) + i
    BY <1>3 DEF InOrder, Copied
  <1>6. TypeOK'
    BY <1>4, <1>5 DEF TypeOK, Labels
  <1>7. PhasesAlternate'
    BY <1>1 DEF PhasesAlternate, Busy, Inserting, Unlocked
  <1>8. MutexesHeld'
    <2>1. mutex_ = t \/ mutex_ = Nobody \/ \E s \in Threads : s = mutex_ /\ pc[s] = "xcopy"
      BY <1>2 DEF MutexesHeld, TypeOK
    <2> QED
      BY <1>1, <1>2 DEF MutexesHeld
  <1>9. Room'
    <2>1. Coming' = Coming
      BY <1>1 DEF Coming
    <2> QED
      BY <2>1 DEF Room
  <1>10. InOrder'
    BY <1>3, <1>4, <1>5 DEF InOrder, Copied
  <1>11. FileBehind'
    BY <1>3 DEF FileBehind
  <1> QED
    BY <1>6, <1>7, <1>8, <1>9, <1>10, <1>11

LEMMA BeginSyncIInv ==
  ASSUME ClientLocks, IInv, NEW t \in Threads, BeginSync(t)
  PROVE  IInv'
  <1> USE DEF IInv, BeginSync
  <1>1. TypeOK'
    BY DEF TypeOK, Labels, Unlocked
  <1>2. pc[t] = "idle" /\ pc'[t] = "sync" /\ \A s \in Threads \ {t} : pc'[s] = pc[s]
    BY DEF TypeOK
  <1>3. PhasesAlternate'
    BY <1>2 DEF PhasesAlternate, MayDump, Busy, Inserting, Unlocked
  <1>4. MutexesHeld'
    BY <1>2 DEF MutexesHeld
  <1>5. Room'
    <2>1. Coming' = Coming
      BY <1>2 DEF Coming
    <2> QED
      BY <2>1 DEF Room
  <1>6. InOrder' /\ FileBehind'
    BY <1>2, ZenonT(60) DEF InOrder, FileBehind, Copied, str, Busy
  <1> QED
    BY <1>1, <1>3, <1>4, <1>5, <1>6

LEMMA LockSyncIInv ==
  ASSUME IInv, NEW t \in Threads, LockSync(t)
  PROVE  IInv'
  <1> USE DEF IInv, LockSync
  <1>1. TypeOK'
    BY DEF TypeOK, Labels, Unlocked
  <1>2. pc[t] = "sync" /\ pc'[t] = "cout" /\ \A s \in Threads \ {t} : pc'[s] = pc[s]
    BY DEF TypeOK
  <1>3. PhasesAlternate'
    BY <1>2 DEF PhasesAlternate, Busy, Inserting, Unlocked
  <1>4. MutexesHeld'
    BY <1>2 DEF MutexesHeld
  <1>5. Room'
    <2>1. Coming' = Coming
      BY <1>2 DEF Coming
    <2> QED
      BY <2>1 DEF Room
  <1>6. InOrder' /\ FileBehind'
    BY <1>2, ZenonT(60) DEF InOrder, FileBehind, Copied, str, Busy
  <1> QED
    BY <1>1, <1>3, <1>4, <1>5, <1>6

\* The console gets what is in the buffer.
LEMMA ToConsoleIInv ==
  ASSUME IInv, NEW t \in Threads, ToConsole(t)
  PROVE  IInv'
  <1> USE DEF IInv, ToConsole
  <1>1. pc[t] = "cout" /\ pc'[t] = "file" /\ \A s \in Threads \ {t} : pc'[s] = pc[s]
    BY DEF TypeOK
  <1>2. \A s \in Threads \ {t} : pc[s] \in {"idle", "sync"}
    BY <1>1, DumpersAlone
  <1>3. /\ ~Busy({"file", "clear"}) /\ ~Busy({"file"}) /\ ~Busy({"xadvance", "advance"})
        /\ Busy({"file", "clear"})' /\ Busy({"file"})'
    BY <1>1, <1>2 DEF Busy
  <1>4. Len(console) \in Nat /\ pptr \in Nat /\ inserted \in 0 .. MaxTexts
    BY DEF TypeOK
  <1>5. str \in Seq(Texts) /\ console \o str = [n \in 1 .. inserted |-> n]
    BY <1>3, DumpInOrder
  <1>6. console' \in Seq(Texts) /\ Len(console') = inserted /\ \A n \in 1 .. inserted : console'[n] = n
    <2>1. console' = [n \in 1 .. inserted |-> n]
      BY <1>5
    <2> QED
      BY <1>4, <2>1 DEF Texts
  <1>7. TypeOK'
    BY <1>6 DEF TypeOK, Labels, Unlocked
  <1>8. PhasesAlternate'
    BY <1>1 DEF PhasesAlternate, Busy, Inserting, Unlocked
  <1>9. MutexesHeld'
    BY <1>1 DEF MutexesHeld
  <1>10. Room'
    <2>1. Coming' = Coming
      BY <1>1 DEF Coming
    <2> QED
      BY <2>1 DEF Room
  <1>11. InOrder'
    BY <1>3, <1>6 DEF InOrder
  <1>12. FileBehind'
    BY <1>3 DEF FileBehind, str
  <1> QED
    BY <1>7, <1>8, <1>9, <1>10, <1>11, <1>12

\* The file gets the same.
LEMMA ToFileIInv ==
  ASSUME IInv, NEW t \in Threads, ToFile(t)
  PROVE  IInv'
  <1> USE DEF IInv, ToFile
  <1>1. pc[t] = "file" /\ pc'[t] = "clear" /\ \A s \in Threads \ {t} : pc'[s] = pc[s]
    BY DEF TypeOK
  <1>2. \A s \in Threads \ {t} : pc[s] \in {"idle", "sync"}
    BY <1>1, DumpersAlone
  <1>3. /\ Busy({"file", "clear"}) /\ Busy({"file"})
        /\ Busy({"file", "clear"})' /\ ~Busy({"file"})'
    BY <1>1, <1>2 DEF Busy
  <1>4. logfile_' = console
    BY <1>3 DEF FileBehind
  <1>5. TypeOK'
    BY <1>4 DEF TypeOK, Labels, Unlocked
  <1>6. PhasesAlternate'
    BY <1>1 DEF PhasesAlternate, Busy, Inserting, Unlocked
  <1>7. MutexesHeld'
    BY <1>1 DEF MutexesHeld
  <1>8. Room'
    <2>1. Coming' = Coming
      BY <1>1 DEF Coming
    <2> QED
      BY <2>1 DEF Room
  <1>9. InOrder' /\ FileBehind'
    BY <1>3, <1>4 DEF InOrder, FileBehind
  <1> QED
    BY <1>5, <1>6, <1>7, <1>8, <1>9

\* The buffer is emptied: all of it is on the console.
LEMMA ClearIInv ==
  ASSUME IInv, NEW t \in Threads, Clear(t)
  PROVE  IInv'
  <1> USE DEF IInv, Clear
  <1>1. pc[t] = "clear" /\ pc'[t] = "idle" /\ \A s \in Threads \ {t} : pc'[s] = pc[s]
    BY DEF TypeOK
  <1>2. \A s \in Threads \ {t} : pc[s] \in {"idle", "sync"}
    BY <1>1, DumpersAlone
  <1>3. /\ Busy({"file", "clear"}) /\ ~Busy({"file"})
        /\ ~Busy({"file", "clear"})' /\ ~Busy({"file"})' /\ ~Busy({"xadvance", "advance"})'
    BY <1>1, <1>2 DEF Busy
  <1>4. TypeOK'
    BY DEF TypeOK, Labels
  <1>5. PhasesAlternate'
    BY <1>1 DEF PhasesAlternate, Busy, Inserting, Unlocked
  <1>6. MutexesHeld'
    BY <1>1, <1>2 DEF MutexesHeld
  <1>7. Room'
    <2>1. Coming' = Coming
      BY <1>1 DEF Coming
    <2> QED
      BY <2>1 DEF Room
  <1>8. InOrder'
    BY <1>3 DEF InOrder, Copied, TypeOK
  <1>9. FileBehind'
    BY <1>3 DEF FileBehind
  <1> QED
    BY <1>4, <1>5, <1>6, <1>7, <1>8, <1>9

\* A suspension changes nothing but the buffer's flags.
LEMMA SuspensionIInv ==
  ASSUME IInv, NEW t \in Threads, NEW p \in Priorities, suspend(t, p) \/ resume(t, p)
  PROVE  IInv'
  <1> USE DEF IInv, suspend, resume
  <1>1. buffer' \in Buffers
    BY SuspensionType DEF TypeOK
  <1> QED
    BY <1>1, ZenonT(60) DEF TypeOK, PhasesAlternate, MutexesHeld, Room, Coming, InOrder, Copied, FileBehind, str, Busy

-----------------------------------------------------------------------------
(* The theorems. *)

LEMMA NextIInv == ClientLocks /\ IInv /\ [Next]_vars => IInv'
  <1> SUFFICES ASSUME ClientLocks, IInv, [Next]_vars PROVE IInv'
    OBVIOUS
  <1>1. CASE UNCHANGED vars
    BY <1>1, ZenonT(60) DEF vars, IInv, TypeOK, PhasesAlternate, MutexesHeld, Room, Coming, InOrder, Copied,
                FileBehind, str, Busy
  <1>2. ASSUME NEW t \in Threads, Step(t) PROVE IInv'
    BY <1>2, InsertIInv, LockIInv, xsputnIInv, sputcIInv, AdvanceIInv, BeginSyncIInv, LockSyncIInv,
       ToConsoleIInv, ToFileIInv, ClearIInv DEF Step, flush, Manipulator
  <1>3. ASSUME NEW t \in Threads, NEW p \in Priorities, suspend(t, p) \/ resume(t, p) PROVE IInv'
    BY <1>3, SuspensionIInv
  <1> QED
    BY <1>1, <1>2, <1>3 DEF Next

\* In order of insertion, across console and buffer, is what the property says.
LEMMA OrderIsNothingLost == IInv => NothingLost
  <1> SUFFICES ASSUME IInv, sync_mutex_ = Nobody, mutex_ = Nobody, ~Busy({"advance"})
               PROVE  console \o str = [n \in 1 .. inserted |-> n]
    BY DEF IInv, NothingLost
  <1>1. ~Busy({"file", "clear"}) /\ ~Busy({"xadvance", "advance"})
    BY DEF IInv, MutexesHeld, Busy
  <1> QED
    BY <1>1, DumpInOrder

\* A program that does not insert and dump at the same time loses no text and
\* sees none twice, however its threads are interleaved.
THEOREM NothingIsLost ==
  ASSUME ClientLocks PROVE Spec => []NothingLost
  <1>1. IInv /\ [Next]_vars => IInv'
    BY NextIInv
  <1> QED
    BY <1>1, InitIInv, OrderIsNothingLost, PTL DEF Spec

\* Its log file is dumped the same texts as the console.
THEOREM TheFileMirrors ==
  ASSUME ClientLocks PROVE Spec => []FileMirrorsConsole
  <1>1. IInv /\ [Next]_vars => IInv'
    BY NextIInv
  <1>2. IInv => FileMirrorsConsole
    BY DEF IInv, FileBehind, FileMirrorsConsole
  <1> QED
    BY <1>1, <1>2, InitIInv, PTL DEF Spec
=============================================================================
