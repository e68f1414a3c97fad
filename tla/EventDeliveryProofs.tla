-------------------------- MODULE EventDeliveryProofs --------------------------
(***************************************************************************)
(* Proofs about EventDelivery, for any number of events and failures, any  *)
(* size of the spool and both clients.                                     *)
(***************************************************************************)
EXTENDS EventDelivery, FiniteSetTheorems, TLAPS

Shapes ==
  /\ made \in 0..Events /\ hand \in {0} \union Event
  /\ spool \in Seq(Event) /\ Len(spool) <= Cap
  /\ requests \subseteq [event : Event, attempt : Nat,
                         stage : {"lookup", "save", "insert", "stored", "duplicate"}]
  /\ rows \in [Event -> Nat]
  /\ timeouts \in Nat /\ exits \in Nat /\ diskFaults \in Nat /\ dropped \in Nat

(* What the worker has in hand comes from the head of the spool or is the  *)
(* event it just made, and what it takes for sent is stored.               *)
InHand ==
  /\ task \in {"loop", "gone"} => hand = 0 /\ wait = "none"
  /\ task = "drain" /\ hand # 0 => spool # <<>> /\ hand = Head(spool)
  /\ task = "fresh" => hand # 0
  /\ wait = "ok" => hand # 0 /\ rows[hand] > 0

(* Only the newest attempt can still answer the worker, and it carries the *)
(* event in the worker's hand.                                             *)
Attempts ==
  /\ \A r \in requests : r.attempt <= ThisAttempt
  /\ \A r \in requests : r.attempt = ThisAttempt => wait = "posted" /\ r.event = hand
  /\ \A r, q \in requests : r.attempt = q.attempt => r = q
  /\ \A r \in requests : r.stage \in {"stored", "duplicate"} => rows[r.event] > 0

OnRecord ==
  /\ \A e \in Event : rows[e] <= 1 /\ (rows[e] = 1 => e \in media)
  /\ \A r \in requests : r.stage = "insert" => r.event \in media

(* Lost, and what would be lost if every request under way failed.         *)
Missing ==
  {e \in 1..made : rows[e] = 0 /\ e \notin ToSet(spool) /\ e # hand}

Causes == exits + diskFaults + dropped

Accounted == IsFiniteSet(Missing) /\ Cardinality(Missing) <= Causes

Delivery == Shapes /\ InHand /\ Attempts /\ OnRecord /\ Accounted

-----------------------------------------------------------------------------
(* Fewer missing events have no fewer causes than before.                   *)
LEMMA NoMoreMissing ==
  ASSUME NEW M, IsFiniteSet(M), NEW N \in SUBSET M,
         NEW c \in Nat, Cardinality(M) <= c, NEW d \in Nat, c <= d
  PROVE  IsFiniteSet(N) /\ Cardinality(N) <= d
<1>1. IsFiniteSet(N) /\ Cardinality(N) <= Cardinality(M)
  BY FS_Subset
<1>2. Cardinality(N) \in Nat /\ Cardinality(M) \in Nat
  BY <1>1, FS_CardinalityType
<1> QED
  BY <1>1, <1>2

(* One more missing event needs one more cause.                             *)
LEMMA OneMoreMissing ==
  ASSUME NEW M, IsFiniteSet(M), NEW x, NEW N \in SUBSET (M \union {x}),
         NEW c \in Nat, Cardinality(M) <= c
  PROVE  IsFiniteSet(N) /\ Cardinality(N) <= c + 1
<1>1. IsFiniteSet(M \union {x}) /\ Cardinality(M \union {x}) <= c + 1
  <2>1. Cardinality(M) \in Nat
    BY FS_CardinalityType
  <2>2. /\ IsFiniteSet(M \union {x})
        /\ Cardinality(M \union {x}) = IF x \in M THEN Cardinality(M) ELSE Cardinality(M) + 1
    BY FS_AddElement
  <2> QED
    BY <2>1, <2>2
<1> QED
  BY <1>1, NoMoreMissing

(* The causes are counted in numbers.                                       *)
LEMMA CausesType == ASSUME Shapes PROVE Causes \in Nat /\ ThisAttempt \in Nat
BY DEF Shapes, Causes, ThisAttempt

(* The spool, as a set, after its ends change.                             *)
LEMMA Appended ==
  ASSUME NEW s \in Seq(Event), NEW e \in Event
  PROVE  ToSet(Append(s, e)) = ToSet(s) \union {e}
<1>1. /\ DOMAIN Append(s, e) = DOMAIN s \union {Len(s) + 1}
      /\ Append(s, e)[Len(s) + 1] = e
      /\ \A i \in DOMAIN s : Append(s, e)[i] = s[i]
  OBVIOUS
<1> QED
  BY <1>1 DEF ToSet

(* Dropping the oldest entry of the spool removes that event only.          *)
LEMMA Trimmed ==
  ASSUME NEW s \in Seq(Event), NEW n \in {0, 1}, n <= Len(s)
  PROVE  LET t == SubSeq(s, n + 1, Len(s)) IN
         /\ t \in Seq(Event) /\ Len(t) = Len(s) - n
         /\ ToSet(t) \subseteq ToSet(s)
         /\ ToSet(s) \subseteq ToSet(t) \union (IF n = 1 THEN {s[1]} ELSE {})
<1> DEFINE t == SubSeq(s, n + 1, Len(s))
<1>1. /\ t \in Seq(Event) /\ Len(t) = Len(s) - n /\ Len(s) \in Nat
      /\ DOMAIN s = 1..Len(s) /\ DOMAIN t = 1..(Len(s) - n)
      /\ \A i \in DOMAIN t : t[i] = s[i + n]
  OBVIOUS
<1> HIDE DEF t
<1>2. \A i \in DOMAIN t : i + n \in DOMAIN s
  BY <1>1
<1>3. \A i \in DOMAIN s : (n = 1 /\ i = 1) \/ (i - n \in DOMAIN t /\ s[i] = t[i - n])
  BY <1>1
<1>4. ToSet(t) \subseteq ToSet(s)
  BY <1>1, <1>2 DEF ToSet
<1>5. ToSet(s) \subseteq ToSet(t) \union (IF n = 1 THEN {s[1]} ELSE {})
  BY <1>3 DEF ToSet
<1> QED
  BY <1>1, <1>4, <1>5 DEF t

(* Taking the head of a sequence removes that element only.                 *)
LEMMA Beheaded ==
  ASSUME NEW s \in Seq(Event), s # <<>>
  PROVE  /\ Tail(s) \in Seq(Event) /\ Len(Tail(s)) <= Len(s)
         /\ Head(s) \in Event /\ Head(s) \in ToSet(s)
         /\ ToSet(s) \subseteq ToSet(Tail(s)) \union {Head(s)}
         /\ ToSet(Tail(s)) \subseteq ToSet(s)
<1> DEFINE t == Tail(s)
           h == Head(s)
<1>1. /\ t \in Seq(Event) /\ Len(t) = Len(s) - 1 /\ h = s[1]
      /\ h \in Event /\ Len(s) \in Nat /\ DOMAIN s = 1..Len(s) /\ 1 \in DOMAIN s
      /\ DOMAIN t = 1..(Len(s) - 1)
      /\ \A i \in DOMAIN t : t[i] = s[i + 1]
  OBVIOUS
<1> HIDE DEF t, h
<1>2. \A i \in DOMAIN s : i = 1 \/ (i - 1 \in DOMAIN t /\ s[i] = t[i - 1])
  BY <1>1
<1>3. \A i \in DOMAIN t : i + 1 \in DOMAIN s
  BY <1>1
<1>4. ToSet(t) \subseteq ToSet(s) /\ h \in ToSet(s)
  BY <1>1, <1>3 DEF ToSet
<1>5. ToSet(s) \subseteq ToSet(t) \union {h}
  BY <1>1, <1>2 DEF ToSet
<1>6. Len(t) <= Len(s)
  BY <1>1
<1> QED
  BY <1>1, <1>4, <1>5, <1>6 DEF t, h

-----------------------------------------------------------------------------
(* The worker.                                                             *)
LEMMA MakeKeeps == ASSUME Delivery, Make PROVE Delivery'
<1>1. made \in Nat /\ made + 1 \in Event /\ made + 1 <= Events
  BY SizesAssumption DEF Delivery, Shapes, Make, Event
<1>2. Shapes'
  BY <1>1, SizesAssumption DEF Delivery, Shapes, Make, apiVars, faultVars
<1>3. InHand' /\ Attempts' /\ OnRecord'
  BY <1>1 DEF Delivery, InHand, Attempts, OnRecord, ThisAttempt, Make, apiVars, faultVars
<1>4. Missing' \subseteq Missing
  BY <1>1 DEF Delivery, InHand, Missing, Make, apiVars
<1>5. Causes' = Causes
  BY DEF Make, Causes, faultVars
<1>6. Accounted'
  BY <1>4, <1>5, CausesType, NoMoreMissing DEF Delivery, Accounted
<1> QED
  BY <1>2, <1>3, <1>6 DEF Delivery

(* A new request carries the event of the hand.                             *)
LEMMA PostKeeps == ASSUME Delivery, Post PROVE Delivery'
<1> DEFINE p == [event |-> hand, attempt |-> ThisAttempt, stage |-> "lookup"]
<1>1. /\ wait' = "posted" /\ requests' \subseteq requests \union {p}
      /\ requests \subseteq requests'
      /\ UNCHANGED <<client, made, task, hand, sent, closing, spool, media, rows, apiUp,
                     dropped, faultVars>>
  BY DEF Post
<1>2. p \in [event : Event, attempt : Nat,
             stage : {"lookup", "save", "insert", "stored", "duplicate"}]
  BY CausesType DEF Delivery, Shapes, Post
<1>3. p.event = hand /\ p.attempt = ThisAttempt /\ p.stage = "lookup"
  OBVIOUS
<1>4. \A r \in requests : r.attempt # ThisAttempt
  BY DEF Delivery, Attempts, Post
<1>5. ThisAttempt' = ThisAttempt
  BY <1>1 DEF ThisAttempt, faultVars
<1> HIDE DEF p
<1>6. Shapes'
  BY <1>1, <1>2 DEF Delivery, Shapes, faultVars
<1>7. InHand'
  BY <1>1 DEF Delivery, InHand, Post
<1>8. Attempts'
  BY <1>1, <1>2, <1>3, <1>4, <1>5, CausesType DEF Delivery, Attempts
<1>9. OnRecord'
  BY <1>1, <1>3 DEF Delivery, OnRecord
<1>10. Accounted'
  BY <1>1 DEF Delivery, Accounted, Missing, Causes, faultVars
<1> QED
  BY <1>6, <1>7, <1>8, <1>9, <1>10 DEF Delivery

(* A refused connection leaves no request behind.                           *)
LEMMA ConnectionErrorKeeps == ASSUME Delivery, ConnectionError PROVE Delivery'
<1>1. \A r \in requests : r.attempt # ThisAttempt
  BY DEF ConnectionError, Awaited
<1>2. ThisAttempt' = ThisAttempt
  BY DEF ConnectionError, ThisAttempt, faultVars
<1>3. Shapes' /\ OnRecord' /\ Accounted'
  BY DEF Delivery, Shapes, OnRecord, Accounted, Missing, Causes, ConnectionError,
         apiVars, faultVars
<1>4. InHand'
  BY DEF Delivery, InHand, ConnectionError, apiVars
<1>5. Attempts'
  BY <1>1, <1>2 DEF Delivery, Attempts, ConnectionError, apiVars
<1> QED
  BY <1>3, <1>4, <1>5 DEF Delivery

(* The three ways in which the worker leaves an attempt alone.             *)
LEMMA NextAttempt ==
  ASSUME Delivery, ThisAttempt' = ThisAttempt + 1, UNCHANGED <<requests, rows>>
  PROVE  Attempts'
<1>1. ThisAttempt \in Nat /\ \A r \in requests : r.attempt \in Nat
  BY CausesType DEF Delivery, Shapes
<1> QED
  BY <1>1 DEF Delivery, Attempts

(* The worker stops waiting; the request goes on.                           *)
LEMMA TimeoutKeeps == ASSUME Delivery, Timeout PROVE Delivery'
<1>1. timeouts + 1 \in Nat /\ ThisAttempt' = ThisAttempt + 1
  BY DEF Delivery, Shapes, Timeout, ThisAttempt
<1>2. Shapes' /\ OnRecord' /\ Accounted'
  BY <1>1 DEF Delivery, Shapes, OnRecord, Accounted, Missing, Causes, Timeout, apiVars
<1>3. InHand'
  BY DEF Delivery, InHand, Timeout, Awaited, apiVars
<1>4. Attempts'
  BY <1>1, NextAttempt DEF Timeout, apiVars
<1> QED
  BY <1>2, <1>3, <1>4 DEF Delivery

(* The worker leaves in good order; what is spooled stays.                  *)
LEMMA CloseKeeps == ASSUME Delivery, Close PROVE Delivery'
<1>1. exits + 1 \in Nat /\ ThisAttempt' = ThisAttempt + 1 /\ Causes' = Causes + 1
  BY DEF Delivery, Shapes, Close, ThisAttempt, Causes
<1>2. Shapes' /\ OnRecord'
  BY <1>1 DEF Delivery, Shapes, OnRecord, Close, apiVars
<1>3. InHand'
  BY DEF Delivery, InHand, Close, apiVars
<1>4. Attempts'
  BY <1>1, NextAttempt DEF Close, apiVars
<1>5. Missing' = Missing
  BY DEF Missing, Close, apiVars
<1>6. Accounted'
  BY <1>1, <1>5, CausesType, NoMoreMissing DEF Delivery, Accounted
<1> QED
  BY <1>2, <1>3, <1>4, <1>6 DEF Delivery

(* A killed worker loses at most the event in its hand, one exit.           *)
LEMMA KilledKeeps == ASSUME Delivery, Killed PROVE Delivery'
<1>1. exits + 1 \in Nat /\ ThisAttempt' = ThisAttempt + 1 /\ Causes' = Causes + 1
  BY DEF Delivery, Shapes, Killed, ThisAttempt, Causes
<1>2. Shapes' /\ OnRecord'
  BY <1>1 DEF Delivery, Shapes, OnRecord, Killed, apiVars
<1>3. InHand'
  BY DEF InHand, Killed
<1>4. Attempts'
  BY <1>1, NextAttempt DEF Killed, apiVars
<1>5. Missing' \subseteq Missing \union {hand}
  BY DEF Missing, Killed, apiVars
<1>6. Accounted'
  BY <1>1, <1>5, CausesType, OneMoreMissing DEF Delivery, Accounted
<1> QED
  BY <1>2, <1>3, <1>4, <1>6 DEF Delivery

(* A new worker finds the spool as it was.                                  *)
LEMMA RespawnKeeps == ASSUME Delivery, Respawn PROVE Delivery'
BY DEF Delivery, Shapes, InHand, Attempts, ThisAttempt, OnRecord, Accounted, Missing,
       Causes, Respawn, apiVars, faultVars

(* The end of an attempt, when it was sent or is in the spool: nothing is  *)
(* missed that was not.                                                    *)
LEMMA HandFreed ==
  ASSUME Delivery, wait \in {"ok", "failed"} \/ hand = 0,
         hand' = 0, wait' = "none", task' # "fresh",
         UNCHANGED <<apiVars, timeouts, exits>>
  PROVE  InHand' /\ Attempts' /\ OnRecord'
<1>1. \A r \in requests : r.attempt # ThisAttempt
  <2>1. \A r \in requests : r.event # 0
    BY DEF Delivery, Shapes, Event
  <2> QED
    BY <2>1 DEF Delivery, Attempts
<1>2. ThisAttempt' = ThisAttempt
  BY DEF ThisAttempt
<1>3. InHand' /\ OnRecord'
  BY DEF Delivery, InHand, OnRecord, apiVars
<1>4. Attempts'
  BY <1>1, <1>2 DEF Delivery, Attempts, apiVars
<1> QED
  BY <1>3, <1>4

(* What the worker takes for sent is stored.                                *)
LEMMA FreshSentKeeps == ASSUME Delivery, FreshSent PROVE Delivery'
<1>1. InHand' /\ Attempts' /\ OnRecord'
  BY HandFreed DEF FreshSent, faultVars
<1>2. Shapes'
  BY DEF Delivery, Shapes, FreshSent, apiVars, faultVars
<1>3. Missing' \subseteq Missing
  BY DEF Delivery, InHand, Missing, FreshSent, apiVars
<1>4. Causes' = Causes
  BY DEF Causes, FreshSent, faultVars
<1>5. Accounted'
  BY <1>3, <1>4, CausesType, NoMoreMissing DEF Delivery, Accounted
<1> QED
  BY <1>1, <1>2, <1>5 DEF Delivery

(* A failed event goes to the spool; a full spool drops its oldest, and     *)
(* counts it.                                                               *)
LEMMA FreshSpooledKeeps == ASSUME Delivery, hand # 0, FreshSpooled PROVE Delivery'
<1> DEFINE files == Append(spool, hand)
           excess == IF Len(files) > Cap THEN Len(files) - Cap ELSE 0
<1>1. /\ spool' = SubSeq(files, excess + 1, Len(files))
      /\ dropped' = dropped + excess
      /\ UNCHANGED <<made, apiVars, faultVars>>
  BY DEF FreshSpooled
<1>2. /\ hand \in Event /\ spool \in Seq(Event) /\ Len(spool) <= Cap
      /\ Cap \in Nat \ {0} /\ dropped \in Nat
  BY SizesAssumption DEF Delivery, Shapes
<1>3. /\ files \in Seq(Event) /\ Len(files) = Len(spool) + 1 /\ Len(files) \in Nat
      /\ ToSet(files) = ToSet(spool) \union {hand}
  BY <1>2, Appended
<1> HIDE DEF files
<1>4. excess \in {0, 1} /\ excess <= Len(files) /\ Len(files) - excess <= Cap
  BY <1>2, <1>3
<1> HIDE DEF excess
<1>5. /\ spool' \in Seq(Event) /\ Len(spool') <= Cap
      /\ ToSet(files) \subseteq ToSet(spool') \union (IF excess = 1 THEN {files[1]} ELSE {})
  BY <1>1, <1>3, <1>4, Trimmed
<1>6. InHand' /\ Attempts' /\ OnRecord'
  BY HandFreed DEF FreshSpooled, faultVars
<1>7. Shapes'
  BY <1>1, <1>2, <1>4, <1>5, SMTT(30) DEF Delivery, Shapes, FreshSpooled, apiVars, faultVars
<1>8. Missing' \subseteq Missing \union (IF excess = 1 THEN {files[1]} ELSE {})
  BY <1>1, <1>3, <1>5 DEF Missing, apiVars
<1>9. Causes \in Nat /\ Causes' = Causes + excess
  BY <1>1, <1>2, <1>4, CausesType DEF Causes, faultVars, Delivery, Shapes
<1>10. CASE excess = 0
  BY <1>8, <1>9, <1>10, NoMoreMissing, <1>6, <1>7 DEF Delivery, Accounted
<1>11. CASE excess = 1
  BY <1>8, <1>9, <1>11, OneMoreMissing, <1>6, <1>7 DEF Delivery, Accounted
<1> QED
  BY <1>4, <1>10, <1>11

(* A failed write loses one event, one disk fault.                          *)
LEMMA SpoolWriteFailsKeeps == ASSUME Delivery, SpoolWriteFails PROVE Delivery'
<1>1. diskFaults + 1 \in Nat /\ Causes' = Causes + 1
  BY DEF Delivery, Shapes, SpoolWriteFails, Causes
<1>2. InHand' /\ Attempts' /\ OnRecord'
  BY HandFreed DEF SpoolWriteFails
<1>3. Shapes'
  BY <1>1 DEF Delivery, Shapes, SpoolWriteFails, apiVars
<1>4. Missing' \subseteq Missing \union {hand}
  BY DEF Missing, SpoolWriteFails, apiVars
<1>5. Accounted'
  BY <1>1, <1>4, CausesType, OneMoreMissing DEF Delivery, Accounted
<1> QED
  BY <1>2, <1>3, <1>5 DEF Delivery

(* A drain begins with what is in the spool.                                *)
LEMMA StartDrainKeeps == ASSUME Delivery, StartDrain PROVE Delivery'
<1>1. hand = 0
  BY DEF Delivery, InHand, StartDrain
<1>2. InHand' /\ Attempts' /\ OnRecord'
  BY <1>1, HandFreed DEF StartDrain, faultVars
<1>3. Shapes' /\ Accounted'
  BY <1>1 DEF Delivery, Shapes, Accounted, Missing, Causes, StartDrain, apiVars, faultVars
<1> QED
  BY <1>2, <1>3 DEF Delivery

(* The drain takes the next file in its hand, and leaves it on disk.        *)
LEMMA DrainNextKeeps == ASSUME Delivery, DrainNext PROVE Delivery'
<1>1. Head(spool) \in Event /\ Head(spool) \in ToSet(spool) /\ 0 \notin Event
  BY Beheaded DEF Delivery, Shapes, DrainNext, Event
<1>2. Shapes'
  BY <1>1 DEF Delivery, Shapes, DrainNext, apiVars, faultVars
<1>3. InHand'
  BY DEF InHand, DrainNext
<1>4. Attempts' /\ OnRecord'
  BY DEF Delivery, Attempts, OnRecord, ThisAttempt, DrainNext, apiVars, faultVars
<1>5. Missing' \subseteq Missing /\ Causes' = Causes
  BY DEF Missing, Causes, DrainNext, apiVars, faultVars
<1>6. Accounted'
  BY <1>5, CausesType, NoMoreMissing DEF Delivery, Accounted
<1> QED
  BY <1>2, <1>3, <1>4, <1>6 DEF Delivery

(* An unreadable file is discarded: one disk fault.                         *)
LEMMA DiscardUnreadableKeeps == ASSUME Delivery, DiscardUnreadable PROVE Delivery'
<1>1. diskFaults + 1 \in Nat /\ Causes' = Causes + 1
  BY DEF Delivery, Shapes, DiscardUnreadable, Causes
<1> DEFINE t == Tail(spool)
           h == Head(spool)
<1>2. /\ t \in Seq(Event) /\ Len(t) <= Cap /\ ToSet(spool) \subseteq ToSet(t) \union {h}
  <2>1. spool \in Seq(Event) /\ spool # <<>> /\ Len(spool) <= Cap /\ Cap \in Nat
    BY SizesAssumption DEF Delivery, Shapes, DiscardUnreadable
  <2>2. Len(t) \in Nat /\ Len(spool) \in Nat /\ Len(t) <= Len(spool)
    BY <2>1, Beheaded
  <2> QED
    BY <2>1, <2>2, Beheaded
<1>3. spool' = t
  BY DEF DiscardUnreadable
<1> HIDE DEF t, h
<1>4. Shapes'
  BY <1>1, <1>2, <1>3 DEF Delivery, Shapes, DiscardUnreadable, workerVars, apiVars
<1>5. InHand' /\ Attempts' /\ OnRecord'
  BY DEF Delivery, InHand, Attempts, OnRecord, ThisAttempt, DiscardUnreadable,
         workerVars, apiVars
<1>6. Missing' \subseteq Missing \union {h}
  BY <1>2, <1>3 DEF Missing, DiscardUnreadable, workerVars, apiVars
<1>7. Accounted'
  BY <1>1, <1>6, CausesType, OneMoreMissing DEF Delivery, Accounted
<1> QED
  BY <1>4, <1>5, <1>7 DEF Delivery

(* A file is removed when its event is stored.                              *)
LEMMA DrainedKeeps == ASSUME Delivery, Drained PROVE Delivery'
<1> DEFINE t == Tail(spool)
<1>1. hand # 0 /\ rows[hand] > 0 /\ spool # <<>> /\ hand = Head(spool)
  BY DEF Delivery, InHand, Drained
<1>2. /\ t \in Seq(Event) /\ Len(t) <= Cap /\ ToSet(spool) \subseteq ToSet(t) \union {hand}
  <2>1. spool \in Seq(Event) /\ Len(spool) <= Cap /\ Cap \in Nat
    BY SizesAssumption DEF Delivery, Shapes
  <2>2. Len(t) \in Nat /\ Len(spool) \in Nat /\ Len(t) <= Len(spool)
    BY <1>1, <2>1, Beheaded
  <2> QED
    BY <1>1, <2>1, <2>2, Beheaded
<1>3. spool' = t
  BY DEF Drained
<1> HIDE DEF t
<1>4. InHand' /\ Attempts' /\ OnRecord'
  BY HandFreed DEF Drained, faultVars
<1>5. Shapes'
  BY <1>2, <1>3 DEF Delivery, Shapes, Drained, apiVars, faultVars
<1>6. made' = made /\ rows' = rows /\ hand' = 0 /\ Causes' = Causes
  BY DEF Causes, Drained, apiVars, faultVars
<1>7. Missing' \subseteq Missing
  <2>1. hand \in Event /\ rows[hand] # 0
    BY <1>1 DEF Delivery, Shapes
  <2> QED
    BY <1>2, <1>3, <1>6, <2>1 DEF Missing
<1>8. Accounted'
  BY <1>6, <1>7, CausesType, NoMoreMissing DEF Delivery, Accounted
<1> QED
  BY <1>4, <1>5, <1>8 DEF Delivery

(* A drain that ends leaves the rest in the spool.                          *)
LEMMA DrainEndsKeeps == ASSUME Delivery, DrainEnds PROVE Delivery'
<1>1. InHand' /\ Attempts' /\ OnRecord'
  BY HandFreed DEF DrainEnds, faultVars
<1>2. Shapes'
  BY DEF Delivery, Shapes, DrainEnds, apiVars, faultVars
<1>3. hand = 0 \/ hand \in ToSet(spool)
  BY Beheaded DEF Delivery, Shapes, InHand, DrainEnds
<1>4. /\ made' = made /\ spool' = spool /\ rows' = rows /\ hand' = 0
      /\ Causes' = Causes
  BY DEF Causes, DrainEnds, apiVars, faultVars
<1>5. Missing' \subseteq Missing
  BY <1>3, <1>4 DEF Missing
<1>6. Accounted'
  BY <1>4, <1>5, CausesType, NoMoreMissing DEF Delivery, Accounted
<1> QED
  BY <1>1, <1>2, <1>6 DEF Delivery

(* The direct client stores the event or keeps it.                          *)
LEMMA SendDirectKeeps == ASSUME Delivery, SendDirect PROVE Delivery'
<1>1. /\ hand \in Event /\ hand # 0 /\ rows \in [Event -> Nat] /\ wait = "none"
      /\ UNCHANGED <<client, made, task, hand, sent, closing, spool, requests, apiUp,
                     dropped, timeouts, exits, diskFaults>>
  BY DEF Delivery, Shapes, SendDirect
<1>2. \A r \in requests : r.attempt # ThisAttempt
  BY <1>1 DEF Delivery, Attempts
<1>3. ThisAttempt' = ThisAttempt /\ Causes' = Causes
  BY <1>1 DEF ThisAttempt, Causes
<1>4. CASE UNCHANGED <<media, rows>> /\ wait' = "failed"
  <2>1. Shapes' /\ OnRecord' /\ Accounted'
    BY <1>1, <1>3, <1>4 DEF Delivery, Shapes, OnRecord, Accounted, Missing
  <2>2. InHand' /\ Attempts'
    BY <1>1, <1>2, <1>3, <1>4 DEF Delivery, InHand, Attempts
  <2> QED
    BY <2>1, <2>2 DEF Delivery
<1>5. CASE /\ rows[hand] = 0 /\ media' = media \union {hand} /\ wait' \in {"ok", "failed"}
           /\ rows' = [rows EXCEPT ![hand] = rows[hand] + 1]
  <2>1. /\ rows' \in [Event -> Nat] /\ rows'[hand] = 1
        /\ \A e \in Event : rows[e] <= rows'[e] /\ (e # hand => rows'[e] = rows[e])
    BY <1>1, <1>5
  <2>2. Shapes'
    BY <1>1, <2>1 DEF Delivery, Shapes
  <2>3. InHand'
    BY <1>1, <1>5, <2>1 DEF Delivery, InHand
  <2>4. \A r \in requests : r.event \in Event /\ rows[r.event] \in Nat
    BY <1>1 DEF Delivery, Shapes
  <2>5. Attempts'
    BY <1>1, <1>2, <1>3, <2>1, <2>4 DEF Delivery, Attempts
  <2>6. OnRecord'
    BY <1>1, <1>5, <2>1 DEF Delivery, OnRecord
  <2>7. Missing' \subseteq Missing
    BY <1>1, <1>5, <2>1 DEF Missing, Delivery, Shapes, Event
  <2>8. Accounted'
    BY <1>3, <2>7, CausesType, NoMoreMissing DEF Delivery, Accounted
  <2> QED
    BY <2>2, <2>3, <2>5, <2>6, <2>8 DEF Delivery
<1> QED
  BY <1>4, <1>5 DEF SendDirect

-----------------------------------------------------------------------------
(* The API.                                                                *)
LEMMA RequestType ==
  ASSUME Delivery, NEW r \in requests
  PROVE  /\ r \in [event : Event, attempt : Nat,
                   stage : {"lookup", "save", "insert", "stored", "duplicate"}]
         /\ rows[r.event] \in Nat
BY DEF Delivery, Shapes

(* A request that goes on keeps its event and its attempt.                 *)
LEMMA MovesKeeps ==
  ASSUME Delivery, NEW r \in requests,
         NEW stage \in {"save", "insert", "stored", "duplicate"}, Moves(r, stage),
         UNCHANGED <<made, task, hand, wait, spool, timeouts, exits, diskFaults, dropped>>,
         rows' \in [Event -> Nat],
         \A e \in Event : rows[e] <= rows'[e] /\ rows'[e] <= 1
                          /\ (rows'[e] = 1 => e \in media'),
         media \subseteq media',
         stage = "insert" => r.event \in media',
         stage \in {"stored", "duplicate"} => rows'[r.event] > 0
  PROVE  Delivery'
<1> DEFINE m == [r EXCEPT !.stage = stage]
<1>1. /\ m.event = r.event /\ m.attempt = r.attempt /\ m.stage = stage
      /\ m \in [event : Event, attempt : Nat,
                stage : {"lookup", "save", "insert", "stored", "duplicate"}]
  BY RequestType
<1>2. requests' = (requests \ {r}) \union {m}
  BY DEF Moves
<1> HIDE DEF m
<1>3. ThisAttempt' = ThisAttempt /\ Causes' = Causes
  BY DEF ThisAttempt, Causes
<1>4. Shapes'
  BY <1>1, <1>2 DEF Delivery, Shapes
<1>5. InHand'
  BY DEF Delivery, Shapes, InHand
<1>6. \A q \in requests : q.event \in Event /\ rows[q.event] \in Nat /\ rows'[q.event] \in Nat
  BY RequestType
<1>7. Attempts'
  BY <1>1, <1>2, <1>3, <1>6 DEF Delivery, Attempts
<1>8. OnRecord'
  BY <1>1, <1>2 DEF Delivery, OnRecord
<1>9. Missing' \subseteq Missing
  <2>1. \A e \in 1..made : e \in Event /\ rows[e] \in Nat
    BY SizesAssumption DEF Delivery, Shapes, Event
  <2> QED
    BY <2>1 DEF Missing
<1>10. Accounted'
  BY <1>3, <1>9, CausesType, NoMoreMissing DEF Delivery, Accounted
<1> QED
  BY <1>4, <1>5, <1>7, <1>8, <1>10 DEF Delivery

(* A request that is over tells the worker, if the worker still waits.     *)
LEMMA AnswersKeeps ==
  ASSUME Delivery, NEW r \in requests, NEW outcome \in {"ok", "failed"}, Answers(r, outcome),
         outcome = "ok" => rows[r.event] > 0,
         UNCHANGED <<made, task, hand, spool, rows, media, timeouts, exits, diskFaults, dropped>>
  PROVE  Delivery'
<1>1. /\ requests' = requests \ {r}
      /\ wait' = IF Awaited(r) THEN outcome ELSE wait
  BY DEF Answers
<1>2. ThisAttempt' = ThisAttempt /\ Causes' = Causes
  BY DEF ThisAttempt, Causes
<1>3. Shapes' /\ OnRecord' /\ Accounted'
  BY <1>1, <1>2 DEF Delivery, Shapes, OnRecord, Accounted, Missing
<1>4. CASE Awaited(r)
  <2>1. r.event = hand /\ r.event # 0 /\ task \notin {"loop", "gone"}
    BY <1>4, RequestType DEF Delivery, Attempts, InHand, Awaited, Event
  <2>2. InHand'
    BY <1>1, <1>4, <2>1 DEF Delivery, InHand
  <2>3. Attempts'
    BY <1>1, <1>2, <1>4 DEF Delivery, Attempts, Awaited
  <2> QED
    BY <1>3, <2>2, <2>3 DEF Delivery
<1>5. CASE ~Awaited(r)
  <2>1. InHand' /\ Attempts'
    BY <1>1, <1>2, <1>5 DEF Delivery, InHand, Attempts
  <2> QED
    BY <1>3, <2>1 DEF Delivery
<1> QED
  BY <1>4, <1>5

(* A request stores its event once, whichever attempt it is of.             *)
LEMMA HandleKeeps == ASSUME Delivery, NEW r \in requests, Handle(r) PROVE Delivery'
<1>1. /\ r.event \in Event /\ rows \in [Event -> Nat] /\ rows[r.event] \in Nat
      /\ \A e \in Event : rows[e] <= 1 /\ (rows[e] = 1 => e \in media)
  BY RequestType DEF Delivery, Shapes, OnRecord
<1>2. CASE Lookup(r)
  <2>1. CASE rows[r.event] > 0
    <3>1. Moves(r, "duplicate")
      BY <1>2, <2>1 DEF Lookup
    <3> QED
      BY <1>1, <1>2, <2>1, <3>1, MovesKeeps DEF Lookup, workerVars, faultVars
  <2>2. CASE ~(rows[r.event] > 0)
    <3>1. Moves(r, "save")
      BY <1>2, <2>2 DEF Lookup
    <3> QED
      BY <1>1, <1>2, <2>2, <3>1, MovesKeeps DEF Lookup, workerVars, faultVars
  <2> QED
    BY <2>1, <2>2
<1>3. CASE SaveMedia(r)
  BY <1>1, <1>3, MovesKeeps DEF SaveMedia, workerVars, faultVars
<1>4. CASE Insert(r)
  <2>1. /\ rows' = [rows EXCEPT ![r.event] = rows[r.event] + 1] /\ rows[r.event] = 0
        /\ media' = media /\ r.event \in media
    BY <1>4 DEF Insert, Delivery, OnRecord
  <2>2. /\ rows' \in [Event -> Nat] /\ rows'[r.event] = 1
        /\ \A e \in Event : e # r.event => rows'[e] = rows[e]
    BY <1>1, <2>1
  <2>3. \A e \in Event : rows[e] <= rows'[e] /\ rows'[e] <= 1 /\ (rows'[e] = 1 => e \in media')
    BY <1>1, <2>1, <2>2
  <2> QED
    BY <1>4, <2>1, <2>2, <2>3, MovesKeeps DEF Insert, workerVars, faultVars
<1>5. CASE InsertRefused(r)
  BY <1>5, AnswersKeeps DEF InsertRefused, faultVars
<1>6. CASE Acknowledge(r)
  <2>1. rows[r.event] > 0
    BY <1>6 DEF Acknowledge, Delivery, Attempts
  <2> QED
    BY <1>6, <2>1, AnswersKeeps DEF Acknowledge, faultVars
<1> QED
  BY <1>2, <1>3, <1>4, <1>5, <1>6 DEF Handle

(* A request that fails stores nothing.                                     *)
LEMMA DatabaseFailsKeeps == ASSUME Delivery, NEW r \in requests, DatabaseFails(r) PROVE Delivery'
BY AnswersKeeps DEF DatabaseFails

(* The requests of a dead process store nothing more.                       *)
LEMMA ApiKeeps == ASSUME Delivery, ApiDies \/ ApiStarts PROVE Delivery'
<1>1. /\ requests' \subseteq requests
      /\ UNCHANGED <<workerVars, spool, media, rows, dropped, timeouts, exits, diskFaults>>
  BY DEF ApiDies, ApiStarts, faultVars
<1> QED
  BY <1>1 DEF Delivery, Shapes, InHand, Attempts, ThisAttempt, OnRecord, Accounted,
              Missing, Causes, workerVars

-----------------------------------------------------------------------------
(* The invariant holds of every state.                                      *)
LEMMA DeliveryCorrect == Spec => []Delivery
<1>1. Init => Delivery
  <2> SUFFICES ASSUME Init
               PROVE  Delivery
    OBVIOUS
  <2>1. Shapes /\ InHand /\ Attempts /\ OnRecord
    BY SizesAssumption DEF Init, Shapes, InHand, Attempts, OnRecord, ThisAttempt
  <2>2. Missing = {} /\ Causes = 0
    BY DEF Init, Missing, Causes
  <2> QED
    BY <2>1, <2>2, FS_EmptySet DEF Delivery, Accounted
<1>2. Delivery /\ [Next]_vars => Delivery'
  <2> SUFFICES ASSUME Delivery, [Next]_vars
               PROVE  Delivery'
    OBVIOUS
  <2>1. CASE Make \/ StartDrain
    BY <2>1, MakeKeeps, StartDrainKeeps
  <2>2. CASE Worker
    <3>1. FreshSpooled => hand # 0
      BY DEF Delivery, InHand, FreshSpooled
    <3> QED
      BY <2>2, <3>1, PostKeeps, ConnectionErrorKeeps, SendDirectKeeps, FreshSentKeeps,
         FreshSpooledKeeps, DrainNextKeeps, DrainedKeeps, DrainEndsKeeps, RespawnKeeps
         DEF Worker
  <2>3. CASE Environment
    BY <2>3, TimeoutKeeps, SpoolWriteFailsKeeps, DiscardUnreadableKeeps, CloseKeeps,
       KilledKeeps, ApiKeeps, DatabaseFailsKeeps DEF Environment
  <2>4. CASE ApiStarts
    BY <2>4, ApiKeeps
  <2>5. CASE \E r \in requests : Handle(r)
    BY <2>5, HandleKeeps
  <2>6. CASE UNCHANGED vars
    BY <2>6 DEF vars, Delivery, Shapes, InHand, Attempts, ThisAttempt, OnRecord, Accounted,
                Missing, Causes
  <2> QED
    BY <2>1, <2>2, <2>3, <2>4, <2>5, <2>6 DEF Next
<1> QED
  BY <1>1, <1>2, PTL DEF Spec

(* An event is stored at most once and never without its pictures, however *)
(* many requests for it are in the API and wherever either side dies.      *)
THEOREM StoredOnceCorrect == Spec => []StoredOnce
<1>1. Delivery => StoredOnce
  BY DEF Delivery, OnRecord, StoredOnce
<1> QED
  BY <1>1, DeliveryCorrect, PTL

(* Every event that is neither stored, spooled, in hand nor under way has  *)
(* a cause of its own: a disk fault, the cap or an exit of the worker.     *)
THEOREM LossIsAccountedCorrect == Spec => []LossIsAccounted
<1>1. Delivery => LossIsAccounted
  <2> SUFFICES ASSUME Delivery
               PROVE  LossIsAccounted
    OBVIOUS
  <2>1. Lost \subseteq Missing
    BY DEF Lost, Missing
  <2>2. IsFiniteSet(Missing) /\ Cardinality(Missing) <= Causes /\ Causes \in Nat
    BY CausesType DEF Delivery, Accounted
  <2> QED
    BY <2>1, <2>2, NoMoreMissing DEF LossIsAccounted, Causes
<1> QED
  BY <1>1, DeliveryCorrect, PTL
==============================================================================
