---------------------------- MODULE CameraProofs -----------------------------
(***************************************************************************)
(* Proofs about RtspReader, for any backoff, timeout and number of frames  *)
(* and outages, and about CameraLoop in both modes, for any windows, any   *)
(* size of the memory and any number of vehicles, frames and failed        *)
(* submissions.                                                            *)
(***************************************************************************)
EXTENDS RtspReader, CameraLoop, FiniteSetTheorems, TLAPS

(* RtspReader.                                                             *)

(* EveryFrameOnce is not inductive by itself: a frame that replaces an     *)
(* untaken one must not meet the number of the frame taken last, which is  *)
(* why that number never exceeds the one in the slot.                      *)
SlotBooks ==
    /\ slot \in [seq : Nat, lastTaken : Nat, dropped : Nat]
    /\ taken \in Nat
    /\ slot.lastTaken <= slot.seq
    /\ EveryFrameOnce

(* The first state keeps the books of the slot.                             *)
LEMMA BooksBegin == ReaderInit => SlotBooks
BY DEF ReaderInit, SlotBooks, EveryFrameOnce, Fresh

(* A frame that comes in replaces one that was not taken, and counts it.   *)
LEMMA PublishKeepsBooks ==
    ASSUME SlotBooks, Publish
    PROVE  SlotBooks'
<1>1. slot' = [seq |-> slot.seq + 1, lastTaken |-> slot.lastTaken,
               dropped |-> IF Fresh THEN slot.dropped + 1 ELSE slot.dropped]
  BY DEF Publish, SlotBooks
<1>2. taken' = taken
  BY DEF Publish
<1>3. /\ slot' \in [seq : Nat, lastTaken : Nat, dropped : Nat]
      /\ slot'.seq = slot.seq + 1
      /\ slot'.lastTaken = slot.lastTaken
      /\ slot'.dropped = IF Fresh THEN slot.dropped + 1 ELSE slot.dropped
  BY <1>1 DEF SlotBooks
<1>4. Fresh'
  BY <1>3 DEF Fresh, SlotBooks
<1>5. EveryFrameOnce'
  BY <1>2, <1>3, <1>4 DEF EveryFrameOnce, Fresh, SlotBooks
<1> QED
  BY <1>2, <1>3, <1>5 DEF SlotBooks

(* A frame that is taken leaves the slot with nothing new in it.           *)
LEMMA TakeKeepsBooks ==
    ASSUME SlotBooks, Take
    PROVE  SlotBooks'
<1>1. /\ Fresh
      /\ taken' = taken + 1
      /\ slot' = [slot EXCEPT !.lastTaken = slot.seq]
  BY DEF Take, Taken
<1>2. /\ slot' \in [seq : Nat, lastTaken : Nat, dropped : Nat]
      /\ slot'.seq = slot.seq
      /\ slot'.lastTaken = slot.seq
      /\ slot'.dropped = slot.dropped
  BY <1>1 DEF SlotBooks
<1>3. ~Fresh'
  BY <1>2 DEF Fresh
<1>4. EveryFrameOnce'
  BY <1>1, <1>2, <1>3 DEF EveryFrameOnce, SlotBooks
<1> QED
  BY <1>1, <1>2, <1>4 DEF SlotBooks

(* Every other step, the stream's and the clock's included, leaves the     *)
(* slot alone.                                                             *)
LEMMA OthersKeepBooks ==
    ASSUME SlotBooks, UNCHANGED <<slot, taken>>
    PROVE  SlotBooks'
BY DEF SlotBooks, EveryFrameOnce, Fresh

(* Every step of the reader keeps the books of the slot.                    *)
LEMMA StepKeepsBooks ==
    ASSUME SlotBooks, [ReaderNext]_readerVars
    PROVE  SlotBooks'
<1>1. CASE Open
  BY <1>1, OthersKeepBooks DEF Open
<1>2. CASE Reopen
  BY <1>2, OthersKeepBooks DEF Reopen
<1>3. CASE Publish
  BY <1>3, PublishKeepsBooks
<1>4. CASE Lost
  BY <1>4, OthersKeepBooks DEF Lost
<1>5. CASE ReaderEnds
  BY <1>5, OthersKeepBooks DEF ReaderEnds
<1>6. CASE Take
  BY <1>6, TakeKeepsBooks
<1>7. CASE StopReader
  BY <1>7, OthersKeepBooks DEF StopReader
<1>8. CASE StreamChanges
  BY <1>8, OthersKeepBooks DEF StreamChanges
<1>9. CASE TimePasses
  BY <1>9, OthersKeepBooks DEF TimePasses
<1>10. CASE UNCHANGED readerVars
  BY <1>10, OthersKeepBooks DEF readerVars
<1> QED
  BY <1>1, <1>2, <1>3, <1>4, <1>5, <1>6, <1>7, <1>8, <1>9, <1>10 DEF ReaderNext

(* Whatever the stream does and however the worker is scheduled, each      *)
(* frame that the reader published was taken once, dropped and counted, or *)
(* is still to be taken (RtspReader.latest, _publish).                     *)
THEOREM EveryFrameOnceCorrect == ReaderSpec => []EveryFrameOnce
<1>1. ReaderInit => SlotBooks
  BY BooksBegin
<1>2. SlotBooks /\ [ReaderNext]_readerVars => SlotBooks'
  BY StepKeepsBooks
<1>3. SlotBooks => EveryFrameOnce
  BY DEF SlotBooks
<1> QED
  BY <1>1, <1>2, <1>3, PTL DEF ReaderSpec

-----------------------------------------------------------------------------
(* CameraLoop.                                                             *)

Dirs == {"in", "out", "none"}

Vehicle == [plate : Plates \cup {NoPlate}, wall : Nat, direction : Dirs]

LogEntry == [plate : Plates \cup {NoPlate}, direction : Dirs, wall : Nat,
             outcome : {"emitted", "suppressed", "dropped", "lost"},
             forced : SUBSET Plates]

Waiting == [vehicle : Vehicle, verified : BOOLEAN]

WorkerType == [phase : {"running", "stopping", "flushing", "ended"}, batch : Seq(Vehicle)]

Types ==
    /\ now \in Nat
    /\ worker \in WorkerType
    /\ line \in Seq(Waiting)
    /\ log \in Seq(LogEntry)

MemoryType(m) ==
    /\ IsFiniteSet(DOMAIN m) /\ DOMAIN m \subseteq Plates
    /\ \A p \in DOMAIN m : m[p] \in [at : Nat, direction : Dirs]

(* What is remembered was seen.                                            *)
Seen ==
    \A p \in DOMAIN recent :
        \E i \in 1 .. Len(log) : log[i].plate = p /\ log[i].wall = recent[p].at

(* What is remembered of a plate has the direction of its last event ...   *)
DirectionKept ==
    \A p \in DOMAIN recent : \A i \in Emissions(p) :
        (\A k \in i + 1 .. Len(log) : log[k].plate # p \/ log[k].outcome = "suppressed")
        => recent[p].direction = log[i].direction

(* ... and the time of the vehicle handled last; or the plate was forgotten. *)
TimeKept ==
    \A p \in Plates : \A l \in 1 .. Len(log) :
        (/\ log[l].plate = p /\ log[l].outcome \in {"emitted", "suppressed"}
         /\ \A k \in l + 1 .. Len(log) : log[k].plate # p)
        => \/ Evicted(p, l, Len(log) + 1)
           \/ Outdated(l, Len(log) + 1)
           \/ p \in DOMAIN recent /\ recent[p].at = log[l].wall

Properties == Seen /\ NothingHidden /\ DirectionKept /\ TimeKept /\ OneEventPerArrival

Sightings == Types /\ MemoryType(recent) /\ Properties

(* The windows are numbers within the horizon.                              *)
LEMMA Limits ==
    /\ SameWindow \in Nat /\ ReversalWindow \in Nat /\ MaxEntries \in Nat
    /\ Horizon \in Nat
    /\ Max2(SameWindow, ReversalWindow) <= Horizon
    /\ SameWindow <= Horizon /\ ReversalWindow <= Horizon
    /\ SameWindow <= Max2(SameWindow, ReversalWindow)
    /\ ReversalWindow <= Max2(SameWindow, ReversalWindow)
    /\ Max2(SameWindow, ReversalWindow) \in Nat
BY LoopAssumption DEF Horizon, Max2

(* An element of a sequence is of its type.                                 *)
LEMMA ElementType ==
    ASSUME NEW T, NEW s \in Seq(T), NEW k \in 1 .. Len(s)
    PROVE  s[k] \in T
OBVIOUS

(* The type and the length of two sequences put together.                   *)
LEMMA Concatenation ==
    ASSUME NEW T, NEW s \in Seq(T), NEW t \in Seq(T)
    PROVE  s \o t \in Seq(T) /\ Len(s \o t) = Len(s) + Len(t)
OBVIOUS

(* _evict(): what is kept is as it was.                                    *)
LEMMA KeptFacts ==
    ASSUME MemoryType(recent), NEW at \in Nat
    PROVE  /\ MemoryType(Kept(recent, at))
           /\ \A p : p \in DOMAIN Kept(recent, at)
                     <=> p \in DOMAIN recent /\ at - recent[p].at <= Horizon
           /\ \A p \in DOMAIN Kept(recent, at) : Kept(recent, at)[p] = recent[p]
<1> DEFINE kept == {p \in DOMAIN recent : at - recent[p].at <= Horizon}
<1>1. Kept(recent, at) = [p \in kept |-> recent[p]]
  BY DEF Kept, Restrict
<1>2. IsFiniteSet(kept)
  BY FS_Subset DEF MemoryType
<1> QED
  BY <1>1, <1>2 DEF MemoryType

(* record(): what is not pushed out is as it was.                          *)
LEMMA CappedFacts ==
    ASSUME NEW memory, MemoryType(memory), NEW new \in DOMAIN memory,
           NEW m \in Capped(memory, new)
    PROVE  /\ MemoryType(m)
           /\ DOMAIN m \subseteq DOMAIN memory
           /\ \A p \in DOMAIN m : m[p] = memory[p]
<1>1. CASE m = memory
  BY <1>1
<1>2. CASE m # memory
  <2>1. PICK old \in SUBSET DOMAIN memory : m = Restrict(memory, DOMAIN memory \ old)
    BY <1>2 DEF Capped
  <2>2. m = [p \in DOMAIN memory \ old |-> memory[p]]
    BY <2>1 DEF Restrict
  <2>3. IsFiniteSet(DOMAIN memory \ old)
    BY FS_Subset DEF MemoryType
  <2> QED BY <2>2, <2>3 DEF MemoryType
<1> QED BY <1>1, <1>2

(* check_and_record().                                                     *)
LEMMA CheckedFacts ==
    ASSUME MemoryType(recent), NEW v \in Vehicle, v.plate \in Plates, NEW c \in Checked(v)
    PROVE  /\ c.emit \in BOOLEAN
           /\ MemoryType(c.memory)
           /\ \A p \in DOMAIN c.memory :
                 p # v.plate => p \in DOMAIN recent /\ c.memory[p] = recent[p]
           /\ v.plate \in DOMAIN c.memory => c.memory[v.plate].at = v.wall
           /\ ~c.emit =>
                 /\ IsDuplicate(Kept(recent, v.wall), v)
                 /\ DOMAIN c.memory = DOMAIN Kept(recent, v.wall)
                 /\ c.memory[v.plate].direction = recent[v.plate].direction
           /\ c.emit =>
                 /\ ~IsDuplicate(Kept(recent, v.wall), v)
                 /\ v.plate \in DOMAIN c.memory => c.memory[v.plate].direction = v.direction
<1> DEFINE memory == Kept(recent, v.wall)
           recorded == [p \in DOMAIN memory \cup {v.plate} |->
                          IF p = v.plate THEN [at |-> v.wall, direction |-> v.direction]
                          ELSE memory[p]]
<1>1. v.wall \in Nat /\ v.direction \in Dirs
  BY DEF Vehicle
<1>2. /\ MemoryType(memory)
      /\ \A p \in DOMAIN memory : p \in DOMAIN recent /\ memory[p] = recent[p]
  BY <1>1, KeptFacts
<1>3. CASE IsDuplicate(memory, v)
  <2>1. c = [memory |-> Refreshed(memory, v), emit |-> FALSE]
    BY <1>3 DEF Checked
  <2>2. v.plate \in DOMAIN memory
    BY <1>3 DEF IsDuplicate
  <2>3. /\ DOMAIN Refreshed(memory, v) = DOMAIN memory
        /\ \A p \in DOMAIN memory : p # v.plate => Refreshed(memory, v)[p] = memory[p]
        /\ Refreshed(memory, v)[v.plate] = [memory[v.plate] EXCEPT !.at = v.wall]
    BY <2>2 DEF Refreshed
  <2>4. memory[v.plate] \in [at : Nat, direction : Dirs]
    BY <1>2, <2>2 DEF MemoryType
  <2>5. [memory[v.plate] EXCEPT !.at = v.wall]
          = [at |-> v.wall, direction |-> memory[v.plate].direction]
    BY <2>4
  <2> HIDE DEF memory
  <2>6. MemoryType(Refreshed(memory, v))
    BY <1>1, <1>2, <2>3, <2>4, <2>5 DEF MemoryType
  <2>7. c.memory = Refreshed(memory, v) /\ c.emit = FALSE
    BY <2>1
  <2>8. IsDuplicate(Kept(recent, v.wall), v) /\ DOMAIN c.memory = DOMAIN Kept(recent, v.wall)
    BY <1>3, <2>3, <2>7 DEF memory
  <2>9. /\ c.memory[v.plate].at = v.wall
        /\ c.memory[v.plate].direction = recent[v.plate].direction
    BY <1>2, <2>2, <2>3, <2>5, <2>7
  <2> QED BY <1>2, <2>3, <2>6, <2>7, <2>8, <2>9
<1>4. CASE ~IsDuplicate(memory, v)
  <2>1. PICK m \in Capped(recorded, v.plate) : c = [memory |-> m, emit |-> TRUE]
    BY <1>4 DEF Checked
  <2>2. IsFiniteSet(DOMAIN recorded)
    BY <1>2, FS_AddElement DEF MemoryType
  <2> HIDE DEF memory
  <2>3. /\ DOMAIN recorded = DOMAIN memory \cup {v.plate}
        /\ \A p \in DOMAIN memory : p # v.plate => recorded[p] = memory[p]
        /\ recorded[v.plate] = [at |-> v.wall, direction |-> v.direction]
    OBVIOUS
  <2>4. \A p \in DOMAIN recorded : recorded[p] \in [at : Nat, direction : Dirs]
    BY <1>1, <1>2, <2>3 DEF MemoryType
  <2> HIDE DEF recorded
  <2>5. MemoryType(recorded)
    BY <1>2, <2>2, <2>3, <2>4 DEF MemoryType
  <2>6. /\ MemoryType(m)
        /\ DOMAIN m \subseteq DOMAIN recorded
        /\ \A p \in DOMAIN m : m[p] = recorded[p]
    BY <2>1, <2>3, <2>5, CappedFacts
  <2>7. c.memory = m /\ c.emit = TRUE
    BY <2>1
  <2>9. v.plate \in DOMAIN m => m[v.plate].at = v.wall /\ m[v.plate].direction = v.direction
    BY <2>3, <2>6
  <2>10. \A p \in DOMAIN m : p # v.plate => p \in DOMAIN recent /\ m[p] = recent[p]
    BY <1>2, <2>3, <2>6
  <2>11. ~IsDuplicate(Kept(recent, v.wall), v)
    BY <1>4 DEF memory
  <2> QED BY <2>6, <2>7, <2>9, <2>10, <2>11
<1> QED BY <1>3, <1>4

-----------------------------------------------------------------------------
(* The log grows by what became of v, and perhaps by vehicles of the same  *)
(* frame that were lost with it.                                           *)
Logged(v, outcome, m) ==
    /\ log' \in Seq(LogEntry)
    /\ Len(log') > Len(log)
    /\ \A k \in 1 .. Len(log) : log'[k] = log[k]
    /\ log'[Len(log) + 1] = Entry(v, outcome, m)
    /\ \A k \in Len(log) + 2 .. Len(log') : log'[k].outcome = "lost"

(* A log entry says of a vehicle what was seen of it.                       *)
LEMMA EntryFacts ==
    ASSUME MemoryType(recent), NEW v \in Vehicle, NEW m,
           NEW outcome \in {"emitted", "suppressed", "dropped", "lost"}
    PROVE  /\ Entry(v, outcome, m) \in LogEntry
           /\ Entry(v, outcome, m).plate = v.plate
           /\ Entry(v, outcome, m).direction = v.direction
           /\ Entry(v, outcome, m).wall = v.wall
           /\ Entry(v, outcome, m).outcome = outcome
           /\ outcome # "suppressed" =>
                 Entry(v, outcome, m).forced
                   = Plates \cap ((DOMAIN Kept(recent, v.wall) \cup {v.plate}) \ DOMAIN m)
BY DEF Entry, LogEntry, Vehicle

(* A plate is remembered with the time of an entry of the log, and what    *)
(* looks like a duplicate is near to what is remembered.                   *)
LEMMA LoggedIsSeen ==
    ASSUME Types, MemoryType(recent), Seen, NothingHidden,
           NEW v \in Vehicle, v.plate \in Plates, NEW c \in Checked(v), recent' = c.memory,
           NEW outcome \in {"emitted", "suppressed", "lost"}, Logged(v, outcome, c.memory),
           outcome = "suppressed" => ~c.emit
    PROVE  Seen' /\ NothingHidden'
<1> DEFINE n == Len(log) + 1
<1>1. /\ Len(log) \in Nat /\ Len(log') \in Nat /\ n \in 1 .. Len(log')
      /\ DOMAIN log = 1 .. Len(log) /\ DOMAIN log' = 1 .. Len(log')
      /\ \A k \in 1 .. Len(log') : k \in 1 .. Len(log) \/ k = n \/ k \in n + 1 .. Len(log')
      /\ 1 .. Len(log) \subseteq 1 .. Len(log')
  BY DEF Types, Logged
<1>2. log'[n].plate = v.plate /\ log'[n].wall = v.wall /\ log'[n].outcome = outcome
  BY EntryFacts DEF Logged
<1>3. Seen'
  <2> SUFFICES ASSUME NEW p \in DOMAIN c.memory
               PROVE  \E i \in 1 .. Len(log') : log'[i].plate = p /\ log'[i].wall = c.memory[p].at
    BY DEF Seen
  <2>1. CASE p = v.plate
    BY <1>1, <1>2, <2>1, CheckedFacts
  <2>2. CASE p # v.plate
    <3>1. p \in DOMAIN recent /\ c.memory[p] = recent[p]
      BY <2>2, CheckedFacts
    <3>2. PICK i \in 1 .. Len(log) : log[i].plate = p /\ log[i].wall = recent[p].at
      BY <3>1 DEF Seen
    <3> QED BY <1>1, <3>1, <3>2 DEF Logged
  <2> QED BY <2>1, <2>2
<1>4. NothingHidden'
  <2> SUFFICES ASSUME NEW j \in 1 .. Len(log'), log'[j].outcome = "suppressed"
               PROVE  \E i \in 1 .. j - 1 :
                        /\ log'[i].plate = log'[j].plate
                        /\ log'[j].wall - log'[i].wall < Max2(SameWindow, ReversalWindow)
    BY <1>1 DEF NothingHidden
  <2>1. CASE j \in 1 .. Len(log)
    <3>1. log[j].outcome = "suppressed" /\ log'[j] = log[j]
      BY <2>1 DEF Logged
    <3>2. PICK i \in 1 .. j - 1 :
            /\ log[i].plate = log[j].plate
            /\ log[j].wall - log[i].wall < Max2(SameWindow, ReversalWindow)
      BY <1>1, <2>1, <3>1 DEF NothingHidden
    <3>3. i \in 1 .. Len(log)
      BY <1>1, <2>1
    <3>4. log'[i] = log[i]
      BY <3>3 DEF Logged
    <3> QED BY <3>1, <3>2, <3>4
  <2>2. CASE j = n
    <3>1. ~c.emit
      BY <1>2, <2>2
    <3>2. IsDuplicate(Kept(recent, v.wall), v)
      BY <3>1, CheckedFacts
    <3>3. v.wall \in Nat
      BY DEF Vehicle
    <3>4. /\ v.plate \in DOMAIN recent
          /\ v.wall - recent[v.plate].at < Max2(SameWindow, ReversalWindow)
      <4>1. /\ v.plate \in DOMAIN recent
            /\ Kept(recent, v.wall)[v.plate] = recent[v.plate]
            /\ recent[v.plate].at \in Nat
        BY <3>2, <3>3, KeptFacts DEF IsDuplicate, MemoryType
      <4> QED BY <3>2, <3>3, <4>1, Limits DEF IsDuplicate
    <3>5. PICK i \in 1 .. Len(log) : log[i].plate = v.plate /\ log[i].wall = recent[v.plate].at
      BY <3>4 DEF Seen
    <3>6. i \in 1 .. j - 1 /\ log'[i] = log[i]
      BY <1>1, <2>2, <3>5 DEF Logged
    <3> QED BY <1>2, <2>2, <3>4, <3>5, <3>6
  <2>3. CASE j \in n + 1 .. Len(log')
    BY <2>3 DEF Logged
  <2> QED BY <1>1, <2>1, <2>2, <2>3
<1> QED BY <1>3, <1>4

(* What the log said before stays so when it grows.                        *)
LEMMA PastStays ==
    ASSUME Types, log' \in Seq(LogEntry), Len(log') >= Len(log),
           \A k \in 1 .. Len(log) : log'[k] = log[k],
           NEW j \in 1 .. Len(log) + 1, NEW p, NEW l \in 1 .. Len(log), NEW i \in 1 .. Len(log)
    PROVE  /\ Evicted(p, l, j)' <=> Evicted(p, l, j)
           /\ Outdated(l, j)' <=> Outdated(l, j)
           /\ LastSeen(p, i, l, j)' <=> LastSeen(p, i, l, j)
<1>1. Len(log) \in Nat /\ l \in Nat /\ i \in Nat /\ j \in Nat
  BY DEF Types
<1>2. \A k \in l .. j - 1 : k \in 1 .. Len(log) /\ log'[k] = log[k]
  BY <1>1
<1>3. \A k \in l + 1 .. j - 1 : k \in 1 .. Len(log) /\ log'[k] = log[k]
  BY <1>1
<1>4. \A k \in i + 1 .. j - 1 : k \in 1 .. Len(log) /\ log'[k] = log[k]
  BY <1>1
<1>5. log'[l] = log[l]
  OBVIOUS
<1>6. Evicted(p, l, j)' <=> Evicted(p, l, j)
  BY <1>2 DEF Evicted
<1>7. Outdated(l, j)' <=> Outdated(l, j)
  BY <1>3, <1>5 DEF Outdated
<1>8. LastSeen(p, i, l, j)' <=> LastSeen(p, i, l, j)
  BY <1>3, <1>4, <1>5 DEF LastSeen
<1> QED BY <1>6, <1>7, <1>8

(* What is emitted is no duplicate of what is remembered, and becomes what *)
(* is remembered.                                                          *)
LEMMA LoggedIsRemembered ==
    ASSUME Types, MemoryType(recent), DirectionKept, TimeKept, OneEventPerArrival,
           NEW v \in Vehicle, v.plate \in Plates, NEW c \in Checked(v), recent' = c.memory,
           NEW outcome \in {"emitted", "suppressed", "lost"}, Logged(v, outcome, c.memory),
           c.emit <=> outcome # "suppressed"
    PROVE  DirectionKept' /\ TimeKept' /\ OneEventPerArrival'
<1> DEFINE n == Len(log) + 1
<1>1. /\ Len(log) \in Nat /\ Len(log') \in Nat /\ n \in 1 .. Len(log') /\ n \in Nat
      /\ DOMAIN log = 1 .. Len(log) /\ DOMAIN log' = 1 .. Len(log')
      /\ \A k \in 1 .. Len(log') : k \in 1 .. Len(log) \/ k = n \/ k \in n + 1 .. Len(log')
      /\ 1 .. Len(log) \subseteq 1 .. Len(log')
      /\ n <= Len(log') + 1 /\ Len(log') >= Len(log)
  BY DEF Types, Logged
<1>2. /\ log'[n].plate = v.plate /\ log'[n].wall = v.wall /\ log'[n].outcome = outcome
      /\ log'[n].direction = v.direction
      /\ outcome # "suppressed" =>
           log'[n].forced = Plates \cap ((DOMAIN Kept(recent, v.wall) \cup {v.plate})
                                          \ DOMAIN c.memory)
  BY EntryFacts DEF Logged
<1>3. /\ v.wall \in Nat
      /\ \A k \in 1 .. Len(log) : log[k].wall \in Nat
      /\ \A k \in 1 .. Len(log) : log'[k] = log[k]
      /\ \A k \in n + 1 .. Len(log') : log'[k].outcome = "lost"
  <2>1. \A k \in 1 .. Len(log) : log[k] \in LogEntry
    BY ElementType DEF Types
  <2> QED BY <2>1 DEF Vehicle, LogEntry, Logged
<1>4. \A p \in DOMAIN recent : recent[p].at \in Nat /\ p \in Plates
  BY DEF MemoryType
<1>5. \A p \in Plates : \A i \in Emissions(p)' :
         \/ i \in Emissions(p) /\ i \in 1 .. Len(log)
         \/ i = n /\ p = v.plate /\ outcome = "emitted"
  BY <1>1, <1>2, <1>3 DEF Emissions
<1>6. log' \in Seq(LogEntry)
  BY DEF Logged
<1>7. DirectionKept'
  <2> SUFFICES ASSUME NEW p \in DOMAIN c.memory, NEW i \in Emissions(p)',
                      \A k \in i + 1 .. Len(log') :
                         log'[k].plate # p \/ log'[k].outcome = "suppressed"
               PROVE  c.memory[p].direction = log'[i].direction
    BY DEF DirectionKept
  <2>0. p \in Plates
    BY CheckedFacts DEF MemoryType
  <2>1. CASE i = n /\ p = v.plate /\ outcome = "emitted"
    BY <1>2, <2>1, CheckedFacts
  <2>2. CASE i \in Emissions(p) /\ i \in 1 .. Len(log)
    <3>1. \A k \in i + 1 .. Len(log) : log[k].plate # p \/ log[k].outcome = "suppressed"
      BY <1>1, <1>3, <2>2
    <3>2. n \in i + 1 .. Len(log')
      BY <1>1, <2>2
    <3>3. p \in DOMAIN recent => recent[p].direction = log[i].direction
      BY <2>2, <3>1 DEF DirectionKept
    <3>4. CASE p = v.plate
      <4>1. outcome = "suppressed"
        BY <1>2, <3>2, <3>4
      <4>2. /\ c.memory[p].direction = recent[p].direction
            /\ p \in DOMAIN Kept(recent, v.wall)
        BY <3>4, <4>1, CheckedFacts DEF IsDuplicate
      <4>3. p \in DOMAIN recent
        BY <1>3, <4>2, KeptFacts
      <4> QED BY <1>3, <2>2, <3>3, <4>2, <4>3
    <3>5. CASE p # v.plate
      <4>1. p \in DOMAIN recent /\ c.memory[p] = recent[p]
        BY <3>5, CheckedFacts
      <4> QED BY <1>3, <2>2, <3>3, <4>1
    <3> QED BY <3>4, <3>5
  <2> QED BY <1>5, <2>0, <2>1, <2>2
<1>8. TimeKept'
  <2> SUFFICES ASSUME NEW p \in Plates, NEW l \in 1 .. Len(log'),
                      log'[l].plate = p, log'[l].outcome \in {"emitted", "suppressed"},
                      \A k \in l + 1 .. Len(log') : log'[k].plate # p
               PROVE  \/ Evicted(p, l, Len(log) + 1)'
                      \/ Outdated(l, Len(log) + 1)'
                      \/ p \in DOMAIN c.memory /\ c.memory[p].at = log'[l].wall
    BY DEF TimeKept
  <2>1. CASE l = n
    <3>1. p = v.plate
      BY <1>2, <2>1
    <3>2. CASE p \in DOMAIN c.memory
      BY <1>2, <2>1, <3>1, <3>2, CheckedFacts
    <3>3. CASE p \notin DOMAIN c.memory
      <4>1. outcome # "suppressed"
        BY <3>1, <3>3, CheckedFacts DEF IsDuplicate
      <4>2. p \in log'[n].forced
        BY <1>2, <3>1, <3>3, <4>1
      <4>3. n \in l .. (Len(log') + 1) - 1
        BY <1>1, <2>1
      <4> QED BY <4>2, <4>3 DEF Evicted
    <3> QED BY <3>2, <3>3
  <2>2. CASE l \in 1 .. Len(log)
    <3>1. n \in l + 1 .. Len(log')
      BY <1>1, <2>2
    <3>2. p # v.plate
      BY <1>2, <3>1
    <3>3. /\ log[l].plate = p /\ log[l].outcome \in {"emitted", "suppressed"}
          /\ \A k \in l + 1 .. Len(log) : log[k].plate # p
      BY <1>1, <1>3, <2>2
    <3>4. \/ Evicted(p, l, Len(log) + 1)
          \/ Outdated(l, Len(log) + 1)
          \/ p \in DOMAIN recent /\ recent[p].at = log[l].wall
      BY <2>2, <3>3 DEF TimeKept
    <3>5. CASE Evicted(p, l, Len(log) + 1)
      <4>1. PICK k \in l .. (Len(log) + 1) - 1 : p \in log[k].forced
        BY <3>5 DEF Evicted
      <4>2. k \in 1 .. Len(log) /\ k \in l .. (Len(log') + 1) - 1
        BY <1>1, <2>2, <4>1
      <4> QED BY <1>3, <4>1, <4>2 DEF Evicted
    <3>6. CASE Outdated(l, Len(log) + 1)
      <4>1. PICK k \in l + 1 .. (Len(log) + 1) - 1 :
              log[k].plate \in Plates /\ log[k].wall - log[l].wall > Horizon
        BY <3>6 DEF Outdated
      <4>2. k \in 1 .. Len(log) /\ k \in l + 1 .. (Len(log') + 1) - 1
        BY <1>1, <2>2, <4>1
      <4> QED BY <1>3, <2>2, <4>1, <4>2 DEF Outdated
    <3>7. CASE p \in DOMAIN recent /\ recent[p].at = log[l].wall
      <4>1. CASE p \in DOMAIN c.memory
        <5>1. c.memory[p] = recent[p]
          BY <3>2, <4>1, CheckedFacts
        <5> QED BY <1>3, <2>2, <3>7, <4>1, <5>1
      <4>2. CASE p \notin DOMAIN c.memory /\ p \in DOMAIN Kept(recent, v.wall)
        <5>1. outcome # "suppressed"
          BY <4>2, CheckedFacts
        <5>2. p \in log'[n].forced
          BY <1>2, <4>2, <5>1
        <5>3. n \in l .. (Len(log') + 1) - 1
          BY <1>1, <2>2
        <5> QED BY <5>2, <5>3 DEF Evicted
      <4>3. CASE p \notin DOMAIN Kept(recent, v.wall)
        <5>1. ~(v.wall - recent[p].at <= Horizon)
          BY <1>3, <3>7, <4>3, KeptFacts
        <5>2. log'[n].wall - log'[l].wall > Horizon
          BY <1>2, <1>3, <1>4, <2>2, <3>7, <5>1, Limits
        <5>3. n \in l + 1 .. (Len(log') + 1) - 1
          BY <1>1, <2>2
        <5> QED BY <1>2, <5>2, <5>3 DEF Outdated
      <4> QED BY <4>1, <4>2, <4>3
    <3> QED BY <3>4, <3>5, <3>6, <3>7
  <2>3. CASE l \in n + 1 .. Len(log')
    BY <1>3, <2>3
  <2> QED BY <1>1, <2>1, <2>2, <2>3
<1>9. OneEventPerArrival'
  <2> SUFFICES ASSUME NEW p \in Plates, NEW i \in Emissions(p)', NEW j \in Emissions(p)',
                      NEW l \in i .. j - 1, LastSeen(p, i, l, j)'
               PROVE  \/ Evicted(p, l, j)'
                      \/ Outdated(l, j)'
                      \/ log'[j].wall - log'[l].wall
                           >= IF log'[i].direction = log'[j].direction THEN SameWindow
                              ELSE ReversalWindow
    BY DEF OneEventPerArrival
  <2>0. /\ j \in 1 .. Len(log) \/ j = n
        /\ i \in 1 .. Len(log) \/ i = n
    BY <1>5
  <2>1. /\ i \in 1 .. Len(log) /\ l \in 1 .. Len(log) /\ j \in 1 .. Len(log) + 1
        /\ i \in Emissions(p)
    BY <1>1, <1>5, <2>0
  <2>2. /\ Evicted(p, l, j)' <=> Evicted(p, l, j)
        /\ Outdated(l, j)' <=> Outdated(l, j)
        /\ LastSeen(p, i, l, j)
    BY <1>1, <1>3, <1>6, <2>1, PastStays
  <2>3. CASE j \in Emissions(p) /\ j \in 1 .. Len(log)
    <3>1. \/ Evicted(p, l, j)
          \/ Outdated(l, j)
          \/ log[j].wall - log[l].wall
               >= IF log[i].direction = log[j].direction THEN SameWindow ELSE ReversalWindow
      BY <2>1, <2>2, <2>3 DEF OneEventPerArrival
    <3> QED BY <1>3, <2>1, <2>2, <2>3, <3>1
  <2>4. CASE j = n /\ p = v.plate /\ outcome = "emitted"
    <3>1. /\ log[l].plate = p
          /\ \A k \in l + 1 .. Len(log) : log[k].plate # p
          /\ \A k \in i + 1 .. Len(log) : log[k].plate # p \/ log[k].outcome = "suppressed"
      BY <1>1, <2>2, <2>4 DEF LastSeen
    <3>2. log[l].outcome \in {"emitted", "suppressed"}
      <4>1. CASE l = i
        BY <2>1, <4>1 DEF Emissions
      <4>2. CASE l \in i + 1 .. Len(log)
        BY <3>1, <4>2
      <4> QED BY <1>1, <2>1, <2>4, <4>1, <4>2
    <3>3. \/ Evicted(p, l, Len(log) + 1)
          \/ Outdated(l, Len(log) + 1)
          \/ p \in DOMAIN recent /\ recent[p].at = log[l].wall
      BY <2>1, <3>1, <3>2 DEF TimeKept
    <3>4. CASE p \in DOMAIN recent /\ recent[p].at = log[l].wall
      <4>1. recent[p].direction = log[i].direction
        BY <2>1, <3>1, <3>4 DEF DirectionKept
      <4>2. /\ log'[l] = log[l] /\ log'[i] = log[i]
            /\ log'[j].wall = v.wall /\ log'[j].direction = v.direction
        BY <1>2, <1>3, <2>1, <2>4
      <4>3. log[l].wall \in Nat
        BY <1>3, <2>1
      <4>4. CASE p \notin DOMAIN Kept(recent, v.wall)
        <5>1. ~(v.wall - recent[p].at <= Horizon)
          BY <1>3, <3>4, <4>4, KeptFacts
        <5>2. v.wall - log[l].wall >= SameWindow /\ v.wall - log[l].wall >= ReversalWindow
          BY <1>3, <3>4, <4>3, <5>1, Limits
        <5> QED BY <4>2, <5>2
      <4>5. CASE p \in DOMAIN Kept(recent, v.wall)
        <5>1. ~IsDuplicate(Kept(recent, v.wall), v) /\ Kept(recent, v.wall)[p] = recent[p]
          BY <1>3, <2>4, <4>5, CheckedFacts, KeptFacts
        <5>2. IF recent[p].direction = v.direction
              THEN ~(v.wall - recent[p].at < SameWindow)
              ELSE ~(v.wall - recent[p].at < ReversalWindow)
          BY <2>4, <4>5, <5>1 DEF IsDuplicate
        <5>3. IF log[i].direction = v.direction
              THEN v.wall - log[l].wall >= SameWindow
              ELSE v.wall - log[l].wall >= ReversalWindow
          BY <1>3, <3>4, <4>1, <4>3, <5>2, Limits
        <5> QED BY <4>2, <5>3
      <4> QED BY <4>4, <4>5
    <3> QED BY <2>2, <2>4, <3>3, <3>4
  <2> QED BY <1>5, <2>3, <2>4
<1> QED BY <1>7, <1>8, <1>9

(* Vehicles that are not de-duplicated leave a trace in the log, and       *)
(* nothing else.                                                           *)
LEMMA GrowthChangesNothing ==
    ASSUME Types, MemoryType(recent), Properties, recent' = recent,
           log' \in Seq(LogEntry), Len(log') >= Len(log),
           \A k \in 1 .. Len(log) : log'[k] = log[k],
           \A k \in Len(log) + 1 .. Len(log') : log'[k].plate = NoPlate
                                                /\ log'[k].outcome # "suppressed"
    PROVE  Properties'
<1>1. /\ Len(log) \in Nat /\ Len(log') \in Nat
      /\ DOMAIN log = 1 .. Len(log) /\ DOMAIN log' = 1 .. Len(log')
      /\ \A k \in 1 .. Len(log') : k \in 1 .. Len(log) \/ k \in Len(log) + 1 .. Len(log')
      /\ 1 .. Len(log) \subseteq 1 .. Len(log')
  BY DEF Types
<1>2. NoPlate \notin Plates
  BY LoopAssumption
<1>3. \A p \in Plates : \A i \in 1 .. Len(log') :
         log'[i].plate = p => i \in 1 .. Len(log) /\ log'[i] = log[i]
  BY <1>1, <1>2
<1>4. \A p \in Plates : \A i \in Emissions(p)' : i \in Emissions(p) /\ i \in 1 .. Len(log)
  BY <1>1, <1>3 DEF Emissions
<1>5. Seen'
  BY <1>1 DEF Seen, Properties
<1>6. NothingHidden'
  <2> SUFFICES ASSUME NEW j \in 1 .. Len(log'), log'[j].outcome = "suppressed"
               PROVE  \E i \in 1 .. j - 1 :
                        /\ log'[i].plate = log'[j].plate
                        /\ log'[j].wall - log'[i].wall < Max2(SameWindow, ReversalWindow)
    BY <1>1 DEF NothingHidden
  <2>1. j \in 1 .. Len(log) /\ log'[j] = log[j]
    BY <1>1
  <2>2. PICK i \in 1 .. j - 1 :
          /\ log[i].plate = log[j].plate
          /\ log[j].wall - log[i].wall < Max2(SameWindow, ReversalWindow)
    BY <1>1, <2>1 DEF NothingHidden, Properties
  <2>3. i \in 1 .. Len(log) /\ log'[i] = log[i]
    BY <1>1, <2>1
  <2> QED BY <2>1, <2>2, <2>3
<1>7. DirectionKept'
  <2> SUFFICES ASSUME NEW p \in DOMAIN recent, p \in Plates, NEW i \in Emissions(p)',
                      \A k \in i + 1 .. Len(log') :
                         log'[k].plate # p \/ log'[k].outcome = "suppressed"
               PROVE  recent[p].direction = log'[i].direction
    BY DEF DirectionKept, MemoryType
  <2>1. i \in Emissions(p) /\ i \in 1 .. Len(log) /\ log'[i] = log[i]
    BY <1>4
  <2>2. \A k \in i + 1 .. Len(log) : log[k].plate # p \/ log[k].outcome = "suppressed"
    BY <1>1, <2>1
  <2> QED BY <2>1, <2>2 DEF DirectionKept, Properties
<1>8. TimeKept'
  <2> SUFFICES ASSUME NEW p \in Plates, NEW l \in 1 .. Len(log'),
                      log'[l].plate = p, log'[l].outcome \in {"emitted", "suppressed"},
                      \A k \in l + 1 .. Len(log') : log'[k].plate # p
               PROVE  \/ Evicted(p, l, Len(log) + 1)'
                      \/ Outdated(l, Len(log) + 1)'
                      \/ p \in DOMAIN recent /\ recent[p].at = log'[l].wall
    BY DEF TimeKept
  <2>1. l \in 1 .. Len(log) /\ log'[l] = log[l]
    BY <1>3
  <2>2. \A k \in l + 1 .. Len(log) : log[k].plate # p
    BY <1>1, <2>1
  <2>3. \/ Evicted(p, l, Len(log) + 1)
        \/ Outdated(l, Len(log) + 1)
        \/ p \in DOMAIN recent /\ recent[p].at = log[l].wall
    BY <2>1, <2>2 DEF TimeKept, Properties
  <2>4. CASE Evicted(p, l, Len(log) + 1)
    <3>1. PICK k \in l .. (Len(log) + 1) - 1 : p \in log[k].forced
      BY <2>4 DEF Evicted
    <3>2. k \in 1 .. Len(log) /\ k \in l .. (Len(log') + 1) - 1
      BY <1>1, <2>1, <3>1
    <3> QED BY <3>1, <3>2 DEF Evicted
  <2>5. CASE Outdated(l, Len(log) + 1)
    <3>1. PICK k \in l + 1 .. (Len(log) + 1) - 1 :
            log[k].plate \in Plates /\ log[k].wall - log[l].wall > Horizon
      BY <2>5 DEF Outdated
    <3>2. k \in 1 .. Len(log) /\ k \in l + 1 .. (Len(log') + 1) - 1
      BY <1>1, <2>1, <3>1
    <3> QED BY <2>1, <3>1, <3>2 DEF Outdated
  <2> QED BY <2>1, <2>3, <2>4, <2>5
<1>9. OneEventPerArrival'
  <2> SUFFICES ASSUME NEW p \in Plates, NEW i \in Emissions(p)', NEW j \in Emissions(p)',
                      NEW l \in i .. j - 1, LastSeen(p, i, l, j)'
               PROVE  \/ Evicted(p, l, j)'
                      \/ Outdated(l, j)'
                      \/ log'[j].wall - log'[l].wall
                           >= IF log'[i].direction = log'[j].direction THEN SameWindow
                              ELSE ReversalWindow
    BY DEF OneEventPerArrival
  <2>1. /\ i \in Emissions(p) /\ i \in 1 .. Len(log)
        /\ j \in Emissions(p) /\ j \in 1 .. Len(log)
    BY <1>4
  <2>2. l \in 1 .. Len(log) /\ j \in 1 .. Len(log) + 1
    BY <1>1, <2>1
  <2>3. /\ Evicted(p, l, j)' <=> Evicted(p, l, j)
        /\ Outdated(l, j)' <=> Outdated(l, j)
        /\ LastSeen(p, i, l, j)
    BY <2>1, <2>2, PastStays
  <2>4. \/ Evicted(p, l, j)
        \/ Outdated(l, j)
        \/ log[j].wall - log[l].wall
             >= IF log[i].direction = log[j].direction THEN SameWindow ELSE ReversalWindow
    BY <2>1, <2>3 DEF OneEventPerArrival, Properties
  <2> QED BY <2>1, <2>2, <2>3, <2>4
<1> QED BY <1>5, <1>6, <1>7, <1>8, <1>9 DEF Properties

(* One entry more is a way to log; so is a batch that is lost.             *)
LEMMA AppendIsLogged ==
    ASSUME Types, MemoryType(recent), NEW v \in Vehicle, NEW m,
           NEW outcome \in {"emitted", "suppressed", "dropped", "lost"},
           log' = Append(log, Entry(v, outcome, m))
    PROVE  Logged(v, outcome, m) /\ Len(log') = Len(log) + 1
<1>1. Entry(v, outcome, m) \in LogEntry
  BY EntryFacts
<1> QED BY <1>1 DEF Types, Logged

(* A lost batch is logged vehicle by vehicle.                              *)
LEMMA LostIsLogged ==
    ASSUME Types, MemoryType(recent), NEW vs \in Seq(Vehicle), vs # <<>>, NEW m,
           log' = LogLost(vs, m)
    PROVE  Logged(vs[1], "lost", m)
<1> DEFINE lost(i) == Entry(vs[i], "lost", IF i = 1 THEN m ELSE recent)
           tail == [i \in 1 .. Len(vs) |-> lost(i)]
<1>1. /\ Len(vs) \in Nat /\ Len(vs) > 0 /\ DOMAIN vs = 1 .. Len(vs)
      /\ \A i \in 1 .. Len(vs) : vs[i] \in Vehicle
  BY ElementType
<1>2. \A i \in 1 .. Len(vs) :
         lost(i) \in LogEntry /\ lost(i).outcome = "lost"
  BY <1>1, EntryFacts
<1>3. lost(1) = Entry(vs[1], "lost", m)
  OBVIOUS
<1> HIDE DEF lost
<1>4. tail \in Seq(LogEntry) /\ Len(tail) = Len(vs) /\ \A i \in 1 .. Len(vs) : tail[i] = lost(i)
  BY <1>1, <1>2
<1>5. log' = log \o tail
  BY <1>1 DEF LogLost, lost
<1> HIDE DEF tail
<1>6. /\ log' \in Seq(LogEntry) /\ Len(log') = Len(log) + Len(vs)
      /\ \A k \in 1 .. Len(log) : log'[k] = log[k]
      /\ \A k \in Len(log) + 1 .. Len(log') :
            k - Len(log) \in 1 .. Len(vs) /\ log'[k] = lost(k - Len(log))
  <2>1. log \in Seq(LogEntry) /\ Len(log) \in Nat
    BY DEF Types
  <2>2. log' \in Seq(LogEntry) /\ Len(log') = Len(log) + Len(vs)
    <3>1. tail \in Seq(LogEntry) /\ Len(tail) = Len(vs)
      BY <1>4
    <3>2. log \o tail \in Seq(LogEntry) /\ Len(log \o tail) = Len(log) + Len(tail)
      BY <2>1, <3>1, Concatenation
    <3> QED BY <1>5, <3>1, <3>2
  <2>3. \A k \in 1 .. Len(log) : log'[k] = log[k]
    BY <1>1, <1>4, <1>5, <2>1
  <2>4. \A k \in Len(log) + 1 .. Len(log') : log'[k] = tail[k - Len(log)]
    BY <1>1, <1>4, <1>5, <2>1, <2>2
  <2>5. \A k \in Len(log) + 1 .. Len(log') : k - Len(log) \in 1 .. Len(vs)
    BY <1>1, <2>1, <2>2
  <2> QED BY <1>4, <2>2, <2>3, <2>4, <2>5
<1>7. Len(log) \in Nat /\ log'[Len(log) + 1] = lost(1)
  <2>1. Len(log) \in Nat
    BY DEF Types
  <2>2. Len(log) + 1 \in Len(log) + 1 .. Len(log')
    BY <1>1, <1>6, <2>1
  <2>3. log'[Len(log) + 1] = lost((Len(log) + 1) - Len(log))
    BY <1>6, <2>2
  <2>4. (Len(log) + 1) - Len(log) = 1
    BY <2>1
  <2> QED BY <2>1, <2>3, <2>4
<1>8. Logged(vs[1], "lost", m)
  <2>1. \A k \in Len(log) + 2 .. Len(log') : log'[k].outcome = "lost"
    BY <1>2, <1>6, <1>7
  <2> QED BY <1>1, <1>3, <1>6, <1>7, <2>1 DEF Logged
<1> QED BY <1>8

-----------------------------------------------------------------------------
(* A vehicle is validated, de-duplicated and emitted.                      *)
LEMMA FinalizedKeeps ==
    ASSUME Sightings, NEW v \in Vehicle, Finalized(v)
    PROVE  log' \in Seq(LogEntry) /\ MemoryType(recent)' /\ Properties'
<1>1. Types /\ MemoryType(recent) /\ Properties /\ Len(log) \in Nat
  BY DEF Sightings, Types
<1>2. CASE v.plate = NoPlate
  <2>1. log' = Append(log, Entry(v, "dropped", recent)) /\ recent' = recent
    BY <1>2 DEF Finalized
  <2>2. Logged(v, "dropped", recent) /\ Len(log') = Len(log) + 1
    BY <1>1, <2>1, AppendIsLogged
  <2>3. log'[Len(log) + 1].plate = NoPlate /\ log'[Len(log) + 1].outcome = "dropped"
    BY <1>1, <1>2, <2>2, EntryFacts DEF Logged
  <2>4. /\ log' \in Seq(LogEntry) /\ Len(log') >= Len(log)
        /\ \A k \in 1 .. Len(log) : log'[k] = log[k]
        /\ \A k \in Len(log) + 1 .. Len(log') : k = Len(log) + 1
    BY <1>1, <2>2 DEF Logged
  <2>5. Properties'
    BY <1>1, <2>1, <2>3, <2>4, GrowthChangesNothing
  <2> QED BY <1>1, <2>1, <2>4, <2>5 DEF MemoryType
<1>3. CASE v.plate # NoPlate
  <2>1. v.plate \in Plates
    BY <1>3 DEF Vehicle
  <2>2. PICK c \in Checked(v) :
          /\ recent' = c.memory
          /\ log' = Append(log, Entry(v, IF c.emit THEN "emitted" ELSE "suppressed", c.memory))
    BY <1>3 DEF Finalized
  <2>3. c.emit \in BOOLEAN /\ MemoryType(c.memory)
    BY <1>1, <2>1, CheckedFacts
  <2>4. MemoryType(recent)'
    BY <2>2, <2>3 DEF MemoryType
  <2> DEFINE outcome == IF c.emit THEN "emitted" ELSE "suppressed"
  <2>5. outcome \in {"emitted", "suppressed"} /\ (c.emit <=> outcome # "suppressed")
    BY <2>3
  <2>6. log' = Append(log, Entry(v, outcome, c.memory))
    BY <2>2
  <2> HIDE DEF outcome
  <2>7. Logged(v, outcome, c.memory)
    BY <1>1, <2>5, <2>6, AppendIsLogged
  <2>8. Seen' /\ NothingHidden'
    BY <1>1, <2>1, <2>2, <2>5, <2>7, LoggedIsSeen DEF Properties
  <2>9. DirectionKept' /\ TimeKept' /\ OneEventPerArrival'
    BY <1>1, <2>1, <2>2, <2>5, <2>7, LoggedIsRemembered DEF Properties
  <2> QED BY <2>4, <2>7, <2>8, <2>9 DEF Properties, Logged
<1> QED BY <1>2, <1>3

(* Inline: the first vehicle of the batch is handled.                      *)
LEMMA HandleInlineKeeps ==
    ASSUME Sightings, HandleInline
    PROVE  Sightings'
<1>1. /\ UNCHANGED <<now, line>> /\ Finalized(Head(worker.batch))
      /\ worker.batch # <<>> /\ worker' = [worker EXCEPT !.batch = Tail(worker.batch)]
  BY DEF HandleInline
<1>2. worker \in WorkerType /\ worker.batch \in Seq(Vehicle)
  BY DEF Sightings, Types, WorkerType
<1>3. Head(worker.batch) \in Vehicle /\ Tail(worker.batch) \in Seq(Vehicle)
  BY <1>1, <1>2
<1>5. worker' \in WorkerType
  BY <1>1, <1>2, <1>3 DEF WorkerType
<1>4. log' \in Seq(LogEntry) /\ MemoryType(recent)' /\ Properties'
  BY <1>1, <1>3, FinalizedKeeps
<1> QED BY <1>1, <1>4, <1>5 DEF Sightings, Types

(* The submission fails: what was recorded stays recorded.                 *)
LEMMA HandleRaisesKeeps ==
    ASSUME Sightings, HandleRaises
    PROVE  Sightings'
<1> DEFINE v == worker.batch[1]
<1>1. PICK c \in Checked(v) :
        /\ c.emit
        /\ recent' = c.memory
        /\ \/ /\ log' = LogLost(worker.batch, c.memory)
              /\ worker' = [phase |-> "stopping", batch |-> <<>>]
           \/ /\ log' = LogLost(<<v>>, c.memory)
              /\ worker' = [worker EXCEPT !.batch = Tail(worker.batch)]
  BY DEF HandleRaises
<1>2. UNCHANGED <<now, line>> /\ worker.batch # <<>> /\ v.plate # NoPlate
  BY DEF HandleRaises
<1>3. /\ Types /\ MemoryType(recent) /\ Properties
      /\ worker.batch \in Seq(Vehicle) /\ 1 \in 1 .. Len(worker.batch)
  BY <1>2 DEF Sightings, Types, WorkerType
<1>4. v \in Vehicle
  BY <1>3, ElementType
<1>5. v.plate \in Plates
  BY <1>2, <1>4 DEF Vehicle
<1>6. worker' \in WorkerType
  <2>1. Tail(worker.batch) \in Seq(Vehicle) /\ worker \in WorkerType
    BY <1>2, <1>3 DEF Types
  <2>2. CASE worker' = [phase |-> "stopping", batch |-> <<>>]
    BY <2>2 DEF WorkerType
  <2>3. CASE worker' = [worker EXCEPT !.batch = Tail(worker.batch)]
    BY <2>1, <2>3 DEF WorkerType
  <2> QED BY <1>1, <2>2, <2>3
<1>7. Logged(v, "lost", c.memory)
  <2>1. CASE log' = LogLost(worker.batch, c.memory)
    BY <1>2, <1>3, <2>1, LostIsLogged
  <2>2. CASE log' = LogLost(<<v>>, c.memory)
    <3>1. <<v>> \in Seq(Vehicle) /\ <<v>> # <<>> /\ <<v>>[1] = v
      BY <1>4
    <3> HIDE DEF v
    <3> QED BY <1>3, <2>2, <3>1, LostIsLogged
  <2> QED BY <1>1, <2>1, <2>2
<1> HIDE DEF v
<1>8. MemoryType(recent)'
  <2>1. MemoryType(c.memory)
    BY <1>3, <1>4, <1>5, CheckedFacts
  <2> QED BY <1>1, <2>1 DEF MemoryType
<1>9. Seen' /\ NothingHidden'
  BY <1>1, <1>3, <1>4, <1>5, <1>7, LoggedIsSeen DEF Properties
<1>10. DirectionKept' /\ TimeKept' /\ OneEventPerArrival'
  BY <1>1, <1>3, <1>4, <1>5, <1>7, LoggedIsRemembered DEF Properties
<1> QED BY <1>2, <1>3, <1>6, <1>7, <1>8, <1>9, <1>10 DEF Sightings, Types, Properties, Logged

(* Deferred: the oldest job is answered and its vehicle goes out.          *)
LEMMA PollKeeps ==
    ASSUME Sightings, Poll
    PROVE  Sightings'
<1>1. /\ UNCHANGED <<now, worker>> /\ line # <<>> /\ line' = Tail(line)
      /\ Emitted(Head(line).vehicle)
  BY DEF Poll
<1>2. Types /\ MemoryType(recent) /\ Properties /\ Len(log) \in Nat
  BY DEF Sightings, Types
<1>3. line \in Seq(Waiting)
  BY <1>2 DEF Types
<1>4. Head(line) \in Waiting /\ line' \in Seq(Waiting)
  BY <1>1, <1>3
<1> DEFINE v == Head(line).vehicle
<1>5. v \in Vehicle
  BY <1>4 DEF Waiting
<1>6. Emitted(v)
  BY <1>1
<1> HIDE DEF v
<1>7. log' \in Seq(LogEntry) /\ MemoryType(recent)' /\ Properties'
  <2>1. CASE v.plate # NoPlate
    BY <1>5, <1>6, <2>1, FinalizedKeeps DEF Emitted
  <2>2. CASE v.plate = NoPlate
    <3>1. log' = Append(log, Entry(v, "emitted", recent)) /\ recent' = recent
      BY <1>6, <2>2 DEF Emitted
    <3>2. Logged(v, "emitted", recent) /\ Len(log') = Len(log) + 1
      BY <1>2, <1>5, <3>1, AppendIsLogged
    <3>3. log'[Len(log) + 1].plate = NoPlate /\ log'[Len(log) + 1].outcome = "emitted"
      BY <1>2, <1>5, <2>2, <3>2, EntryFacts DEF Logged
    <3>4. /\ log' \in Seq(LogEntry) /\ Len(log') >= Len(log)
          /\ \A k \in 1 .. Len(log) : log'[k] = log[k]
          /\ \A k \in Len(log) + 1 .. Len(log') : k = Len(log) + 1
      BY <1>2, <3>2 DEF Logged
    <3>5. Properties'
      BY <1>2, <3>1, <3>3, <3>4, GrowthChangesNothing
    <3> QED BY <1>2, <3>1, <3>4, <3>5 DEF MemoryType
  <2> QED BY <2>1, <2>2
<1> QED BY <1>1, <1>2, <1>4, <1>7 DEF Sightings, Types

(* The drain: what still waits goes out without a plate.                   *)
LEMMA CloseKeeps ==
    ASSUME Sightings, Close
    PROVE  Sightings'
<1> DEFINE e(i) == Entry([line[i].vehicle EXCEPT !.plate = NoPlate], "emitted", recent)
           rest == [i \in DOMAIN line |-> e(i)]
<1>1. /\ UNCHANGED <<now, recent>> /\ line' = <<>> /\ log' = log \o rest
      /\ worker' = [worker EXCEPT !.phase = "ended"]
  BY DEF Close
<1>2. Types /\ MemoryType(recent) /\ Properties
  BY DEF Sightings
<1>3. worker' \in WorkerType /\ line' \in Seq(Waiting)
  BY <1>1, <1>2 DEF Types, WorkerType
<1>4. \A i \in 1 .. Len(line) :
        e(i) \in LogEntry /\ e(i).plate = NoPlate /\ e(i).outcome = "emitted"
  <2> TAKE i \in 1 .. Len(line)
  <2>1. line[i] \in Waiting
    BY <1>2, ElementType DEF Types
  <2> DEFINE w == [line[i].vehicle EXCEPT !.plate = NoPlate]
  <2>2. w \in Vehicle /\ w.plate = NoPlate
    BY <2>1 DEF Waiting, Vehicle
  <2>3. e(i) = Entry(w, "emitted", recent)
    OBVIOUS
  <2> HIDE DEF w, e
  <2> QED BY <1>2, <2>2, <2>3, EntryFacts
<1>5. DOMAIN line = 1 .. Len(line) /\ Len(line) \in Nat
  BY <1>2 DEF Types
<1> HIDE DEF e
<1>6. rest \in Seq(LogEntry) /\ Len(rest) = Len(line) /\ \A i \in 1 .. Len(line) : rest[i] = e(i)
  BY <1>4, <1>5
<1> HIDE DEF rest
<1>7. log \in Seq(LogEntry) /\ Len(log) \in Nat
  BY <1>2 DEF Types
<1>8. log' \in Seq(LogEntry) /\ Len(log') = Len(log) + Len(line)
  <2>1. rest \in Seq(LogEntry) /\ Len(rest) = Len(line)
    BY <1>6
  <2>2. log \o rest \in Seq(LogEntry) /\ Len(log \o rest) = Len(log) + Len(rest)
    BY <1>7, <2>1, Concatenation
  <2> QED BY <1>1, <2>1, <2>2
<1>9. \A k \in 1 .. Len(log) : log'[k] = log[k]
  BY <1>1, <1>6, <1>7
<1>10. \A k \in Len(log) + 1 .. Len(log') :
         log'[k].plate = NoPlate /\ log'[k].outcome # "suppressed"
  <2> TAKE k \in Len(log) + 1 .. Len(log')
  <2>1. k - Len(log) \in 1 .. Len(line)
    BY <1>5, <1>7, <1>8
  <2>2. log'[k] = rest[k - Len(log)]
    BY <1>1, <1>5, <1>6, <1>7, <1>8
  <2> QED BY <1>4, <1>6, <2>1, <2>2
<1>11. Len(log') >= Len(log)
  BY <1>5, <1>7, <1>8
<1>12. Properties'
  BY <1>1, <1>2, <1>8, <1>9, <1>10, <1>11, GrowthChangesNothing
<1> QED BY <1>1, <1>2, <1>3, <1>8, <1>12 DEF Sightings, Types, MemoryType

-----------------------------------------------------------------------------
(* A step that handles no vehicle changes none of this.                    *)
LEMMA UnloggedKeeps ==
    ASSUME Sightings, UNCHANGED <<recent, log>>, now' \in Nat, line' \in Seq(Waiting),
           worker' \in WorkerType
    PROVE  Sightings'
<1>1. Types' /\ MemoryType(recent)'
  BY DEF Sightings, Types, MemoryType
<1>2. Seen' /\ NothingHidden'
  BY DEF Sightings, Properties, Seen, NothingHidden
<1>3. DirectionKept'
  BY DEF Sightings, Properties, DirectionKept, Emissions
<1>4. TimeKept'
  BY DEF Sightings, Properties, TimeKept, Evicted, Outdated
<1>5. OneEventPerArrival'
  BY DEF Sightings, Properties, OneEventPerArrival, LastSeen, Emissions, Evicted, Outdated
<1> QED BY <1>1, <1>2, <1>3, <1>4, <1>5 DEF Sightings, Properties

(* Tracks that finalize now are vehicles of this moment.                   *)
LEMMA BatchType ==
    ASSUME now \in Nat, NEW n \in Nat, NEW f, \A k \in 1 .. n : f[k] \in Sighted
    PROVE  [k \in 1 .. n |-> [plate |-> f[k].plate, wall |-> now,
                              direction |-> Resolved(f[k].direction)]] \in Seq(Vehicle)
<1>1. \A d \in {"in", "none"} : Resolved(d) \in Dirs
  BY DEF Resolved, Dirs
<1>2. \A k \in 1 .. n : [plate |-> f[k].plate, wall |-> now,
                         direction |-> Resolved(f[k].direction)] \in Vehicle
  BY <1>1 DEF Sighted, Vehicle
<1> QED BY <1>2

(* Every step keeps what is remembered in line with what was seen.         *)
LEMMA SightingsStep ==
    ASSUME Sightings, [LoopNext]_loopVars
    PROVE  Sightings'
<1>1. /\ now \in Nat /\ line \in Seq(Waiting)
      /\ worker \in WorkerType /\ worker.batch \in Seq(Vehicle)
  BY DEF Sightings, Types, WorkerType
<1>2. CASE HandleInline
  BY <1>2, HandleInlineKeeps
<1>3. CASE HandleRaises
  BY <1>3, HandleRaisesKeeps
<1>4. CASE Poll
  BY <1>4, PollKeeps
<1>5. CASE Close
  BY <1>5, CloseKeeps
<1>6. CASE ProcessFrame
  <2>1. PICK n \in 1 .. Min2(2, MaxVehicles - Handled) :
          \E f \in [1 .. n -> Sighted] :
             worker' = [worker EXCEPT !.batch =
                          [k \in 1 .. n |-> [plate |-> f[k].plate, wall |-> now,
                                             direction |-> Resolved(f[k].direction)]]]
    BY <1>6 DEF ProcessFrame
  <2>2. PICK f \in [1 .. n -> Sighted] :
          worker' = [worker EXCEPT !.batch =
                       [k \in 1 .. n |-> [plate |-> f[k].plate, wall |-> now,
                                          direction |-> Resolved(f[k].direction)]]]
    BY <2>1
  <2>3. UNCHANGED <<now, line, recent, log>> /\ n \in Nat
    BY <1>6 DEF ProcessFrame
  <2>4. [k \in 1 .. n |-> [plate |-> f[k].plate, wall |-> now,
                           direction |-> Resolved(f[k].direction)]] \in Seq(Vehicle)
    BY <1>1, <2>3, BatchType
  <2>5. worker' \in WorkerType
    BY <1>1, <2>2, <2>4 DEF WorkerType
  <2> QED BY <1>1, <2>3, <2>5, UnloggedKeeps
<1>7. CASE BeginDeferred
  <2>1. /\ UNCHANGED <<now, recent, log>> /\ worker.batch # <<>>
        /\ line' = Append(line, [vehicle |-> Head(worker.batch), verified |-> FALSE])
        /\ worker' = [worker EXCEPT !.batch = Tail(worker.batch)]
    BY <1>7 DEF BeginDeferred
  <2>2. Head(worker.batch) \in Vehicle /\ Tail(worker.batch) \in Seq(Vehicle)
    BY <1>1, <2>1
  <2>3. [vehicle |-> Head(worker.batch), verified |-> FALSE] \in Waiting
    BY <2>2 DEF Waiting
  <2>4. line' \in Seq(Waiting)
    BY <1>1, <2>1, <2>3
  <2>5. worker' \in WorkerType
    BY <1>1, <2>1, <2>2 DEF WorkerType
  <2> QED BY <1>1, <2>1, <2>4, <2>5, UnloggedKeeps
<1>8. CASE PollUnsettled
  <2>1. /\ UNCHANGED <<now, worker, recent, log>> /\ line # <<>>
        /\ line' = Append(Tail(line), [Head(line) EXCEPT !.verified = TRUE])
    BY <1>8 DEF PollUnsettled
  <2>2. Head(line) \in Waiting /\ Tail(line) \in Seq(Waiting)
    BY <1>1, <2>1
  <2>3. [Head(line) EXCEPT !.verified = TRUE] \in Waiting
    BY <2>2 DEF Waiting
  <2>4. line' \in Seq(Waiting)
    BY <2>1, <2>2, <2>3
  <2> QED BY <1>1, <2>1, <2>4, UnloggedKeeps
<1>9. CASE Stop
  <2>1. UNCHANGED <<now, line, recent, log>> /\ worker' = [worker EXCEPT !.phase = "stopping"]
    BY <1>9 DEF Stop
  <2>2. worker' \in WorkerType
    BY <1>1, <2>1 DEF WorkerType
  <2> QED BY <1>1, <2>1, <2>2, UnloggedKeeps
<1>10. CASE Flush
  <2>1. PICK n \in 0 .. Min2(1, MaxVehicles - Handled), s \in Sighted :
          worker' = [phase |-> "flushing",
                     batch |-> [k \in 1 .. n |-> [plate |-> s.plate, wall |-> now,
                                                  direction |-> Resolved(s.direction)]]]
    BY <1>10 DEF Flush
  <2>2. UNCHANGED <<now, line, recent, log>> /\ n \in Nat
    BY <1>10 DEF Flush
  <2> DEFINE f == [k \in 1 .. n |-> s]
  <2>3. /\ \A k \in 1 .. n : f[k] \in Sighted
        /\ worker' = [phase |-> "flushing",
                      batch |-> [k \in 1 .. n |-> [plate |-> f[k].plate, wall |-> now,
                                                   direction |-> Resolved(f[k].direction)]]]
    BY <2>1
  <2> HIDE DEF f
  <2>4. [k \in 1 .. n |-> [plate |-> f[k].plate, wall |-> now,
                           direction |-> Resolved(f[k].direction)]] \in Seq(Vehicle)
    BY <1>1, <2>2, <2>3, BatchType
  <2>5. worker' \in WorkerType
    BY <2>3, <2>4 DEF WorkerType
  <2> QED BY <1>1, <2>2, <2>5, UnloggedKeeps
<1>11. CASE Tick
  BY <1>1, <1>11, UnloggedKeeps DEF Tick
<1>12. CASE UNCHANGED loopVars
  BY <1>1, <1>12, UnloggedKeeps DEF loopVars
<1> QED BY <1>2, <1>3, <1>4, <1>5, <1>6, <1>7, <1>8, <1>9, <1>10, <1>11, <1>12 DEF LoopNext

(* Nothing seen, nothing remembered.                                       *)
LEMMA SightingsInit ==
    ASSUME LoopInit
    PROVE  Sightings
<1>1. Types
  BY DEF LoopInit, Types, WorkerType
<1>2. MemoryType(recent)
  BY FS_EmptySet DEF LoopInit, MemoryType
<1>3. Properties
  BY DEF LoopInit, Properties, Seen, NothingHidden, DirectionKept, TimeKept,
         OneEventPerArrival, Emissions
<1> QED BY <1>1, <1>2, <1>3 DEF Sightings

(* No arrival is hidden by chance: inline and deferred, a suppressed       *)
(* vehicle was handled after one of the same plate that was not seen a     *)
(* window or more before it, for any windows, any size of the memory and   *)
(* any number of vehicles (check_and_record() evicts before it looks).     *)
THEOREM NothingHiddenCorrect == LoopSpec => []NothingHidden
<1>1. LoopInit => Sightings
  BY SightingsInit
<1>2. Sightings /\ [LoopNext]_loopVars => Sightings'
  BY SightingsStep
<1>3. Sightings => NothingHidden
  BY DEF Sightings, Properties
<1> QED BY <1>1, <1>2, <1>3, PTL DEF LoopSpec

(* Inline and deferred, whatever is lost by failed submissions on the way  *)
(* and in whatever order the VLM answers: an event of a plate is a window  *)
(* of its direction apart from the vehicle of that plate handled last,     *)
(* unless the plate was pushed out of the memory or too old in between     *)
(* (check_and_record(), with _evict() and record()).                       *)
THEOREM OneEventPerArrivalCorrect == LoopSpec => []OneEventPerArrival
<1>1. LoopInit => Sightings
  BY SightingsInit
<1>2. Sightings /\ [LoopNext]_loopVars => Sightings'
  BY SightingsStep
<1>3. Sightings => OneEventPerArrival
  BY DEF Sightings, Properties
<1> QED BY <1>1, <1>2, <1>3, PTL DEF LoopSpec
==============================================================================
