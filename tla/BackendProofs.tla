---------------------------- MODULE BackendProofs ----------------------------
(***************************************************************************)
(* Proofs about the web application: EventService, for any database,       *)
(* rules, window, number of requests and clock, and LegacyCameras, for any *)
(* number of requests, workers and cameras.                                *)
(***************************************************************************)
EXTENDS EventService, LegacyCameras, FiniteSetTheorems, TLAPS

(* EventService.                                                           *)

(* Where the values of a row come from.                                    *)
Reads == {draft.read : draft \in Drafts}
Names == Reads \cup Texts \cup DOMAIN Vehicles \cup {Inferred[t] : t \in DOMAIN Inferred}
               \cup {NoVehicle}
Rows == [read : Reads, plate : Names, vehicle : Names,
         status : {"unknown"} \cup {Vehicles[v] : v \in Names},
         direction : {draft.direction : draft \in Drafts},
         confidence : {draft.confidence : draft \in Drafts},
         disputed : {FALSE} \cup {draft.disputed : draft \in Drafts},
         camera : {draft.camera : draft \in Drafts},
         at : Int, manual : BOOLEAN, filed : Names, concerned : SUBSET Rules, known : Nat]
OpenRequest == [phase : {"open"}, seen : Nat, event : Rows, raised : SUBSET Rules]

Typed ==
    /\ clock \in Int
    /\ events \in Seq(Rows)
    /\ request = [r \in Requests |-> request[r]]
    /\ \A r \in Requests : request[r] = Idle \/ request[r] \in OpenRequest
    /\ \A t \in DOMAIN aliases : aliases[t] \in Names
    /\ IsFiniteSet(lessons)
    /\ \A a \in alerts : a.event \in DOMAIN events /\ a.at \in Int

(* A request saw what was committed when it began.                         *)
SeenIsCommitted == \A r \in Requests : request[r].phase = "open" => request[r].seen <= Len(events)

(* What matching answers is a name, or the one that stands for none.        *)
LEMMA MatchIsNamed ==
    ASSUME Typed, NEW text \in Names
    PROVE  Match(text) \in Names
BY DEF Typed, Match, InferredFor, Names

(* A status is one of the registry's or unknown.                            *)
LEMMA StatusIsKnown ==
    ASSUME NEW v \in Names
    PROVE  ResolveStatus(v) \in {"unknown"} \cup {Vehicles[w] : w \in Names}
BY DEF ResolveStatus

(* The row of a new draft is a row.                                         *)
LEMMA NewRow ==
    ASSUME Typed, NEW draft \in Drafts
    PROVE  Row(draft) \in Rows
<1> DEFINE vehicle == IF draft.read = NoText THEN NoVehicle ELSE Match(draft.read)
<1>1. draft.read \in Names /\ draft.read \in Reads
  BY DEF Names, Reads
<1>2. vehicle \in Names
  BY <1>1, MatchIsNamed DEF Names
<1>3. ResolveStatus(vehicle) \in {"unknown"} \cup {Vehicles[w] : w \in Names}
  BY <1>2, StatusIsKnown
<1>4. clock \in Int /\ Cardinality(lessons) \in Nat
  BY FS_CardinalityType DEF Typed
<1> HIDE DEF vehicle
<1> DEFINE plate == IF vehicle = NoVehicle THEN draft.read ELSE vehicle
<1>5. plate \in Names
  BY <1>1, <1>2
<1> HIDE DEF plate
<1>6. Row(draft) = [read |-> draft.read, plate |-> plate, vehicle |-> vehicle,
     status |-> ResolveStatus(vehicle),
     direction |-> draft.direction, confidence |-> draft.confidence,
     disputed |-> draft.disputed, camera |-> draft.camera, at |-> clock, manual |-> FALSE,
     filed |-> plate, concerned |-> {}, known |-> Cardinality(lessons)]
  BY DEF Row, vehicle, plate
<1>7. /\ draft.direction \in {d.direction : d \in Drafts}
      /\ draft.confidence \in {d.confidence : d \in Drafts}
      /\ draft.disputed \in {FALSE} \cup {d.disputed : d \in Drafts}
      /\ draft.camera \in {d.camera : d \in Drafts}
  OBVIOUS
<1> DEFINE status == {"unknown"} \cup {Vehicles[w] : w \in Names}
           directions == {d.direction : d \in Drafts}
           confidences == {d.confidence : d \in Drafts}
           doubts == {FALSE} \cup {d.disputed : d \in Drafts}
           cameras == {d.camera : d \in Drafts}
<1>8. /\ ResolveStatus(vehicle) \in status /\ draft.direction \in directions
      /\ draft.confidence \in confidences /\ draft.disputed \in doubts /\ draft.camera \in cameras
  BY <1>3, <1>7
<1>9. Rows = [read : Reads, plate : Names, vehicle : Names, status : status,
              direction : directions, confidence : confidences, disputed : doubts,
              camera : cameras, at : Int, manual : BOOLEAN, filed : Names,
              concerned : SUBSET Rules, known : Nat]
  BY DEF Rows
<1> HIDE DEF status, directions, confidences, doubts, cameras
<1> QED BY <1>1, <1>2, <1>4, <1>5, <1>6, <1>8, <1>9

(* What ingest() hands to the commit.                                      *)
LEMMA IngestOpens ==
    ASSUME Typed, NEW r \in Requests, Ingest(r)
    PROVE  /\ request[r].phase = "idle"
           /\ request' = [request EXCEPT ![r] = request'[r]]
           /\ request'[r] \in OpenRequest
           /\ request'[r].seen = Len(events)
           /\ request'[r].event.at = clock
           /\ ~request'[r].event.manual
           /\ request'[r].event.known = Cardinality(lessons)
           /\ request'[r].event.filed = request'[r].event.plate
           /\ request'[r].event.vehicle = IF request'[r].event.read = NoText THEN NoVehicle
                                          ELSE Match(request'[r].event.read)
           /\ request'[r].raised =
                {rule \in request'[r].event.concerned : ~InCooldown(rule, request'[r].event.plate)}
<1>1. PICK draft \in Drafts :
        request' = [request EXCEPT ![r] =
                       [phase |-> "open", seen |-> Len(events),
                        event |-> [Row(draft) EXCEPT !.concerned = Concerned(Row(draft))],
                        raised |-> {rule \in Concerned(Row(draft)) : ~InCooldown(rule, Row(draft).plate)}]]
  BY DEF Ingest
<1> DEFINE e == Row(draft)
           row == [e EXCEPT !.concerned = Concerned(e)]
<1>2. e \in Rows /\ Concerned(e) \subseteq Rules
  BY NewRow DEF Concerned
<1>3. /\ e.at = clock /\ ~e.manual /\ e.known = Cardinality(lessons) /\ e.filed = e.plate
      /\ e.vehicle = IF e.read = NoText THEN NoVehicle ELSE Match(e.read)
  BY DEF Row
<1> HIDE DEF e
<1>4. /\ row \in Rows /\ row.concerned = Concerned(e) /\ row.at = clock /\ ~row.manual
      /\ row.known = Cardinality(lessons) /\ row.plate = e.plate /\ row.filed = e.plate
      /\ row.vehicle = IF row.read = NoText THEN NoVehicle ELSE Match(row.read)
  BY <1>2, <1>3 DEF Rows
<1> HIDE DEF row
<1> DEFINE q == [phase |-> "open", seen |-> Len(events), event |-> row,
                 raised |-> {rule \in Concerned(e) : ~InCooldown(rule, e.plate)}]
<1>5. request' = [request EXCEPT ![r] = q]
  BY <1>1 DEF e, row
<1>6. Len(events) \in Nat
  BY DEF Typed
<1>7. q \in OpenRequest
  BY <1>2, <1>4, <1>6 DEF OpenRequest
<1>8. q.seen = Len(events) /\ q.event = row
      /\ q.raised = {rule \in row.concerned : ~InCooldown(rule, row.plate)}
  BY <1>4
<1> HIDE DEF q
<1>9. request'[r] = q
  BY <1>5 DEF Typed
<1> QED BY <1>4, <1>5, <1>7, <1>8, <1>9 DEF Ingest

(* Nothing of a row changes but what a correction writes, and that one is   *)
(* among the lessons.                                                      *)
RowsPersist ==
    \A i \in DOMAIN events :
        /\ i \in DOMAIN events'
        /\ events'[i].read = events[i].read /\ events'[i].at = events[i].at
        /\ events'[i].concerned = events[i].concerned /\ events'[i].known = events[i].known
        /\ events'[i].filed = events[i].filed
        /\ \/ events'[i] = events[i]
           \/ /\ events'[i].manual
              /\ \E l \in lessons' : l.event = i /\ l.corrected = events'[i].plate

(* Committing an ingest adds its row at the end and changes no other.       *)
LEMMA CommitAppends ==
    ASSUME Typed, NEW r \in Requests, CommitIngest(r)
    PROVE  /\ request[r] \in OpenRequest
           /\ events' \in Seq(Rows)
           /\ Len(events') = Len(events) + 1
           /\ DOMAIN events = 1 .. Len(events) /\ DOMAIN events' = 1 .. Len(events')
           /\ events'[Len(events) + 1] = request[r].event
           /\ \A i \in DOMAIN events : events'[i] = events[i]
           /\ RowsPersist
<1>1. request[r] \in OpenRequest
  BY DEF Typed, CommitIngest, Idle
<1>2. request[r].event \in Rows /\ events' = Append(events, request[r].event)
  BY <1>1 DEF OpenRequest, CommitIngest
<1>3. events \in Seq(Rows)
  BY DEF Typed
<1> QED BY <1>1, <1>2, <1>3 DEF RowsPersist

(* A correction adds and removes no row.                                    *)
LEMMA CorrectKeepsRows ==
    ASSUME Typed, Correct
    PROVE  events' \in Seq(Rows) /\ Len(events') = Len(events) /\ DOMAIN events' = DOMAIN events
           /\ RowsPersist
<1>1. PICK i \in DOMAIN events, corrected \in Texts, learn \in BOOLEAN :
        /\ events' = [events EXCEPT ![i].plate = corrected, ![i].vehicle = Match(corrected),
                                    ![i].status = ResolveStatus(Match(corrected)), ![i].manual = TRUE,
                                    ![i].disputed = FALSE]
        /\ \E l \in lessons' : l.event = i /\ l.corrected = corrected
  <2>1. PICK i \in DOMAIN events, corrected \in Texts, learn \in BOOLEAN :
          LET original == events[i].plate
              vehicle == Match(corrected)
              learns == learn /\ vehicle # NoVehicle /\ original # NoText /\ original # corrected
          IN /\ events' = [events EXCEPT ![i].plate = corrected, ![i].vehicle = vehicle,
                                    ![i].status = ResolveStatus(vehicle), ![i].manual = TRUE,
                                    ![i].disputed = FALSE]
             /\ aliases' = IF learns THEN Learned(original, vehicle) ELSE aliases
             /\ lessons' = lessons \cup
                   {[number |-> Cardinality(lessons) + 1, event |-> i, corrected |-> corrected,
                     learns |-> learns, read |-> events[i].read, original |-> original,
                     vehicle |-> vehicle, taught |-> original \in DOMAIN aliases]}
    BY DEF Correct
  <2> DEFINE l == [number |-> Cardinality(lessons) + 1, event |-> i, corrected |-> corrected,
                   learns |-> /\ learn /\ Match(corrected) # NoVehicle
                              /\ events[i].plate # NoText /\ events[i].plate # corrected,
                   read |-> events[i].read, original |-> events[i].plate,
                   vehicle |-> Match(corrected), taught |-> events[i].plate \in DOMAIN aliases]
  <2>2. l \in lessons'
    BY <2>1
  <2>3. l.event = i /\ l.corrected = corrected
    OBVIOUS
  <2> HIDE DEF l
  <2>4. \E m \in lessons' : m.event = i /\ m.corrected = corrected
    BY <2>2, <2>3
  <2>5. events' = [events EXCEPT ![i].plate = corrected, ![i].vehicle = Match(corrected),
                                    ![i].status = ResolveStatus(Match(corrected)), ![i].manual = TRUE,
                                    ![i].disputed = FALSE]
    BY <2>1
  <2> QED BY <2>4, <2>5
<1> DEFINE row == [events[i] EXCEPT !.plate = corrected, !.vehicle = Match(corrected),
                                    !.status = ResolveStatus(Match(corrected)), !.manual = TRUE,
                                    !.disputed = FALSE]
<1>2. corrected \in Names /\ Match(corrected) \in Names
      /\ ResolveStatus(Match(corrected)) \in {"unknown"} \cup {Vehicles[w] : w \in Names}
  BY MatchIsNamed, StatusIsKnown DEF Names
<1>3. events[i] \in Rows /\ events \in Seq(Rows)
  BY DEF Typed
<1>4. row \in Rows /\ row.manual /\ row.read = events[i].read /\ row.at = events[i].at
      /\ row.concerned = events[i].concerned /\ row.known = events[i].known
      /\ row.filed = events[i].filed /\ row.plate = corrected
  BY <1>2, <1>3 DEF Rows
<1>5. events' = [events EXCEPT ![i] = row]
  BY <1>1, <1>3
<1> HIDE DEF row
<1>6. events' \in Seq(Rows) /\ Len(events') = Len(events) /\ DOMAIN events' = DOMAIN events
      /\ events'[i] = row /\ \A k \in DOMAIN events : k # i => events'[k] = events[k]
  BY <1>3, <1>4, <1>5
<1> QED BY <1>1, <1>4, <1>6 DEF RowsPersist

(* A correction teaches what it records, and no alias changes.             *)
Teaches(l) ==
    /\ lessons' = lessons \cup {l}
    /\ l.number = Cardinality(lessons) + 1
    /\ (l.learns /\ ~l.taught) => /\ l.original # NoText
                                  /\ l.original \in DOMAIN aliases'
                                  /\ aliases'[l.original] = l.vehicle

(* A correction teaches one alias and takes none away.                      *)
LEMMA CorrectTeaches ==
    ASSUME Typed, Correct
    PROVE  /\ \E l : Teaches(l)
           /\ \A t \in DOMAIN aliases : t \in DOMAIN aliases' /\ aliases'[t] = aliases[t]
           /\ \A t \in DOMAIN aliases' : aliases'[t] \in Names
<1>1. PICK i \in DOMAIN events, corrected \in Texts, learn \in BOOLEAN :
        LET original == events[i].plate
            vehicle == Match(corrected)
            learns == learn /\ vehicle # NoVehicle /\ original # NoText /\ original # corrected
        IN /\ aliases' = IF learns THEN Learned(original, vehicle) ELSE aliases
           /\ lessons' = lessons \cup
                 {[number |-> Cardinality(lessons) + 1, event |-> i, corrected |-> corrected,
                   learns |-> learns, read |-> events[i].read, original |-> original, vehicle |-> vehicle,
                   taught |-> original \in DOMAIN aliases]}
  BY DEF Correct
<1> DEFINE original == events[i].plate
           vehicle == Match(corrected)
           learns == learn /\ vehicle # NoVehicle /\ original # NoText /\ original # corrected
           l == [number |-> Cardinality(lessons) + 1, event |-> i, corrected |-> corrected,
                   learns |-> learns, read |-> events[i].read, original |-> original, vehicle |-> vehicle,
                   taught |-> original \in DOMAIN aliases]
<1>2. lessons' = lessons \cup {l} /\ l.number = Cardinality(lessons) + 1
  BY <1>1
<1>3. aliases' = IF learns THEN Learned(original, vehicle) ELSE aliases
  BY <1>1
<1>4. vehicle \in Names
  BY MatchIsNamed DEF Names
<1>5. /\ l.learns <=> learns
      /\ l.taught <=> original \in DOMAIN aliases
      /\ l.original = original /\ l.vehicle = vehicle
  OBVIOUS
<1>6. learns => original # NoText
  OBVIOUS
<1> HIDE DEF l, learns, vehicle, original
<1>7. (l.learns /\ ~l.taught) =>
                         /\ l.original \in DOMAIN aliases' /\ aliases'[l.original] = l.vehicle
                         /\ l.original # NoText
  BY <1>3, <1>5, <1>6 DEF Learned
<1>8. \A t \in DOMAIN aliases : t \in DOMAIN aliases' /\ aliases'[t] = aliases[t]
  BY <1>3 DEF Learned
<1>9. \A t \in DOMAIN aliases' : aliases'[t] \in Names
  BY <1>3, <1>4 DEF Learned, Typed
<1>10. Teaches(l)
  BY <1>2, <1>7 DEF Teaches
<1> QED BY <1>8, <1>9, <1>10

(* Types hold, rows stay, alerts and lessons are only added.               *)
LEMMA TypedStays ==
    ASSUME Typed, [ServiceNext]_serviceVars
    PROVE  /\ Typed' /\ RowsPersist /\ Len(events) <= Len(events')
           /\ alerts \subseteq alerts' /\ lessons \subseteq lessons'
<1>1. ASSUME NEW r \in Requests, Ingest(r)
      PROVE  Typed' /\ events' = events /\ alerts' = alerts /\ lessons' = lessons
  <2>1. request' = [request EXCEPT ![r] = request'[r]] /\ request'[r] \in OpenRequest
    BY <1>1, IngestOpens
  <2>2. UNCHANGED <<clock, aliases, events, alerts, lessons>>
    BY <1>1 DEF Ingest
  <2>3. \A g \in Requests : request'[g] = Idle \/ request'[g] \in OpenRequest
    BY <2>1 DEF Typed
  <2> QED BY <2>1, <2>2, <2>3 DEF Typed
<1>2. ASSUME NEW r \in Requests, CommitIngest(r)
      PROVE  /\ Typed' /\ RowsPersist /\ Len(events) <= Len(events')
             /\ alerts \subseteq alerts' /\ lessons \subseteq lessons'
  <2>1. /\ request[r] \in OpenRequest
        /\ events' \in Seq(Rows)
        /\ Len(events') = Len(events) + 1
        /\ DOMAIN events = 1 .. Len(events) /\ DOMAIN events' = 1 .. Len(events')
        /\ RowsPersist
    BY <1>2, CommitAppends
  <2>2. /\ request' = [request EXCEPT ![r] = Idle]
        /\ UNCHANGED <<clock, aliases, lessons>>
        /\ alerts' = alerts \cup
            {[code |-> rule.code, cooldown |-> rule.cooldown,
              event |-> Len(events) + 1, plate |-> request[r].event.plate,
              at |-> request[r].event.at, seen |-> request[r].seen] : rule \in request[r].raised}
    BY <1>2 DEF CommitIngest
  <2>3. request[r].event.at \in Int
    BY <2>1 DEF OpenRequest, Rows
  <2>4. Len(events) \in Nat
    BY DEF Typed
  <2>5. \A a \in alerts' : a.event \in DOMAIN events' /\ a.at \in Int
    BY <2>1, <2>2, <2>3, <2>4 DEF Typed
  <2>6. \A g \in Requests : request'[g] = Idle \/ request'[g] \in OpenRequest
    BY <2>2 DEF Typed
  <2> QED BY <2>1, <2>2, <2>4, <2>5, <2>6 DEF Typed
<1>3. ASSUME NEW r \in Requests, AbortIngest(r)
      PROVE  Typed' /\ events' = events /\ alerts' = alerts /\ lessons' = lessons
  BY <1>3 DEF AbortIngest, Typed
<1>4. ASSUME Correct
      PROVE  /\ Typed' /\ RowsPersist /\ Len(events) <= Len(events')
             /\ alerts \subseteq alerts' /\ lessons \subseteq lessons'
  <2>1. events' \in Seq(Rows) /\ Len(events') = Len(events) /\ DOMAIN events' = DOMAIN events
        /\ RowsPersist
    BY <1>4, CorrectKeepsRows
  <2>2. UNCHANGED <<clock, alerts, request>>
    BY <1>4 DEF Correct
  <2>3. \A t \in DOMAIN aliases' : aliases'[t] \in Names
    BY <1>4, CorrectTeaches
  <2>4. IsFiniteSet(lessons')
    <3>1. PICK l : Teaches(l)
      BY <1>4, CorrectTeaches
    <3> QED BY <3>1, FS_AddElement DEF Typed, Teaches
  <2>5. Len(events) \in Nat
    BY DEF Typed
  <2>6. lessons \subseteq lessons'
    BY <1>4, CorrectTeaches DEF Teaches
  <2> QED BY <2>1, <2>2, <2>3, <2>4, <2>5, <2>6 DEF Typed
<1>5. ASSUME ClockTicks
      PROVE  Typed' /\ events' = events /\ alerts' = alerts /\ lessons' = lessons
  BY <1>5 DEF ClockTicks, Typed
<1>6. ASSUME UNCHANGED serviceVars
      PROVE  Typed' /\ events' = events /\ alerts' = alerts /\ lessons' = lessons
  BY <1>6 DEF serviceVars, Typed
<1>7. ASSUME events' = events
      PROVE  RowsPersist /\ Len(events) <= Len(events')
  BY <1>7 DEF RowsPersist, Typed
<1>8. CASE events' = events /\ alerts' = alerts /\ lessons' = lessons /\ Typed'
  BY <1>7, <1>8
<1> QED BY <1>1, <1>2, <1>3, <1>4, <1>5, <1>6, <1>8 DEF ServiceNext

-----------------------------------------------------------------------------
(* The plate a row was filed under, and those it has come under since.  A   *)
(* lesson of the set L of lessons moved row i before the n-th.             *)
MovedBy(l, i, n) == l.event = i /\ l.number <= n

Moved(L, i, n) == \E l \in L : MovedBy(l, i, n)

StoodUnder(L, i, n, plate) == \E l \in L : MovedBy(l, i, n) /\ l.corrected = plate

Filed ==
    /\ \A l \in lessons : l.number \in Nat /\ l.number <= Cardinality(lessons)
    /\ \A i \in DOMAIN events :
          \/ events[i].plate = events[i].filed
          \/ \E l \in lessons : l.event = i /\ l.corrected = events[i].plate
    /\ \A a \in alerts : events[a.event].filed = a.plate
    /\ \A r \in Requests : request[r].phase = "open" => request[r].event.plate = request[r].event.filed

(* The cooldown.  What a request has raised was not cooling down, among the *)
(* alerts it could see; an alert moves to another plate only by a           *)
(* correction of its event.                                                 *)
RaisedApart ==
    \A r \in Requests : request[r].phase = "open" =>
        \A rule \in request[r].raised : \A a \in alerts :
            (a.code = rule.code /\ a.plate = request[r].event.plate /\ a.event <= request[r].seen)
            => (rule.cooldown > 0 => \/ request[r].event.at - a.at > rule.cooldown
                                     \/ Moved(lessons, a.event, request[r].event.known))

Spaced == Typed /\ SeenIsCommitted /\ Filed /\ RaisedApart /\ AlertsAreSpaced

(* What a request has read was committed before it.                         *)
LEMMA SeenStays ==
    ASSUME Typed, SeenIsCommitted, [ServiceNext]_serviceVars
    PROVE  SeenIsCommitted'
<1>1. Typed' /\ Len(events) <= Len(events') /\ Len(events) \in Nat /\ Len(events') \in Nat
  BY TypedStays DEF Typed
<1>2. \A r \in Requests : request[r].phase = "open" => request[r].seen \in Nat
  BY DEF Typed, OpenRequest, Idle
<1>3. ASSUME \A g \in Requests : request'[g] = request[g] \/ request'[g] = Idle
      PROVE  SeenIsCommitted'
  BY <1>1, <1>2, <1>3 DEF SeenIsCommitted, Idle
<1>4. ASSUME NEW r \in Requests, Ingest(r)
      PROVE  SeenIsCommitted'
  BY <1>1, <1>2, <1>4, IngestOpens DEF SeenIsCommitted, Typed
<1>5. ASSUME NEW r \in Requests, CommitIngest(r) \/ AbortIngest(r)
      PROVE  SeenIsCommitted'
  BY <1>3, <1>5 DEF CommitIngest, AbortIngest, Typed
<1>6. ASSUME Correct \/ ClockTicks \/ UNCHANGED serviceVars
      PROVE  SeenIsCommitted'
  BY <1>3, <1>6 DEF Correct, ClockTicks, serviceVars
<1> QED BY <1>4, <1>5, <1>6 DEF ServiceNext

(* Corrections are numbered in their order.                                 *)
LEMMA LessonsAreNumbered ==
    ASSUME Typed, [ServiceNext]_serviceVars,
           \A l \in lessons : l.number \in Nat /\ l.number <= Cardinality(lessons)
    PROVE  \A l \in lessons' : l.number \in Nat /\ l.number <= Cardinality(lessons')
<1>1. CASE Correct
  <2>1. PICK l : lessons' = lessons \cup {l} /\ l.number = Cardinality(lessons) + 1
    BY <1>1, CorrectTeaches DEF Teaches
  <2>2. Cardinality(lessons) \in Nat
    BY FS_CardinalityType DEF Typed
  <2>3. l \notin lessons
    BY <2>1, <2>2
  <2>4. Cardinality(lessons') = Cardinality(lessons) + 1
    BY <2>1, <2>3, FS_AddElement DEF Typed
  <2> QED BY <2>1, <2>2, <2>4
<1>2. CASE lessons' = lessons
  BY <1>2
<1> QED BY <1>1, <1>2 DEF ServiceNext, serviceVars, Ingest, CommitIngest, AbortIngest, ClockTicks

(* A row stands where it was filed or where a correction put it.            *)
LEMMA FiledStays ==
    ASSUME Typed, Filed, [ServiceNext]_serviceVars
    PROVE  Filed'
<1>1. Typed' /\ RowsPersist /\ lessons \subseteq lessons'
  BY TypedStays
<1>2. \A l \in lessons' : l.number \in Nat /\ l.number <= Cardinality(lessons')
  BY LessonsAreNumbered DEF Filed
<1>3. \A i \in DOMAIN events :
          \/ events'[i].plate = events'[i].filed
          \/ \E l \in lessons' : l.event = i /\ l.corrected = events'[i].plate
  BY <1>1 DEF Filed, RowsPersist
<1>4. \A a \in alerts : events'[a.event].filed = a.plate
  BY <1>1 DEF Typed, Filed, RowsPersist
<1>5. ASSUME DOMAIN events' = DOMAIN events, alerts' = alerts,
             \A g \in Requests : request'[g] = request[g] \/ request'[g] = Idle
      PROVE  Filed'
  BY <1>2, <1>3, <1>4, <1>5 DEF Filed, Idle
<1>6. ASSUME NEW r \in Requests, Ingest(r) PROVE Filed'
  <2>1. /\ request' = [request EXCEPT ![r] = request'[r]]
        /\ request'[r].event.plate = request'[r].event.filed
    BY <1>6, IngestOpens
  <2>2. alerts' = alerts /\ events' = events
    BY <1>6 DEF Ingest
  <2>3. \A g \in Requests : g # r => request'[g] = request[g]
    BY <2>1 DEF Typed
  <2> QED BY <1>2, <1>3, <1>4, <2>1, <2>2, <2>3 DEF Filed
<1>7. ASSUME NEW r \in Requests, CommitIngest(r) PROVE Filed'
  <2>1. /\ DOMAIN events = 1 .. Len(events) /\ DOMAIN events' = 1 .. Len(events) + 1
        /\ events'[Len(events) + 1] = request[r].event
        /\ Len(events) \in Nat
    BY <1>7, CommitAppends DEF Typed
  <2>2. /\ request' = [request EXCEPT ![r] = Idle] /\ request[r].phase = "open"
        /\ alerts' = alerts \cup
            {[code |-> rule.code, cooldown |-> rule.cooldown,
              event |-> Len(events) + 1, plate |-> request[r].event.plate,
              at |-> request[r].event.at, seen |-> request[r].seen] : rule \in request[r].raised}
    BY <1>7 DEF CommitIngest
  <2>3. events'[Len(events) + 1].plate = events'[Len(events) + 1].filed
        /\ events'[Len(events) + 1].filed = request[r].event.plate
    BY <2>1, <2>2 DEF Filed
  <2>4. \A i \in DOMAIN events' :
          \/ events'[i].plate = events'[i].filed
          \/ \E l \in lessons' : l.event = i /\ l.corrected = events'[i].plate
    <3> SUFFICES ASSUME NEW i \in DOMAIN events'
                 PROVE  \/ events'[i].plate = events'[i].filed
                        \/ \E l \in lessons' : l.event = i /\ l.corrected = events'[i].plate
      OBVIOUS
    <3>1. i \in DOMAIN events \/ i = Len(events) + 1
      BY <2>1
    <3> QED BY <1>3, <2>3, <3>1
  <2>5. \A a \in alerts' : events'[a.event].filed = a.plate
    BY <1>4, <2>2, <2>3
  <2>6. \A g \in Requests : request'[g].phase = "open" =>
              request'[g].event.plate = request'[g].event.filed
    BY <2>2 DEF Typed, Filed, Idle
  <2> QED BY <1>2, <2>4, <2>5, <2>6 DEF Filed
<1>8. ASSUME NEW r \in Requests, AbortIngest(r) PROVE Filed'
  BY <1>5, <1>8 DEF AbortIngest, Typed
<1>9. ASSUME Correct PROVE Filed'
  BY <1>5, <1>9, CorrectKeepsRows DEF Correct
<1>10. ASSUME ClockTicks \/ UNCHANGED serviceVars PROVE Filed'
  BY <1>5, <1>10 DEF ClockTicks, serviceVars
<1> QED BY <1>6, <1>7, <1>8, <1>9, <1>10 DEF ServiceNext

(* A row that stands under another plate than it was filed was corrected,   *)
(* and whatever request begins now knows of it.                             *)
LEMMA MovedRowsWereCorrected ==
    ASSUME Typed, Filed, NEW i \in DOMAIN events, events[i].plate # events[i].filed
    PROVE  StoodUnder(lessons, i, Cardinality(lessons), events[i].plate)
<1>1. PICK l \in lessons : l.event = i /\ l.corrected = events[i].plate
  BY DEF Filed
<1> QED BY <1>1 DEF Filed, StoodUnder, MovedBy

(* Every step leaves alerts spaced; the case that needs work is a commit,   *)
(* against what the request had read when it began.                         *)
LEMMA SpacedStays ==
    ASSUME Spaced, [ServiceNext]_serviceVars
    PROVE  Spaced'
<1> USE DEF Spaced
<1>1. Typed' /\ RowsPersist /\ Len(events) <= Len(events') /\ Filed' /\ SeenIsCommitted'
  BY TypedStays, FiledStays, SeenStays
<1>2. \A i, n : Moved(lessons, i, n) => Moved(lessons', i, n)
  BY TypedStays DEF Moved
<1>3. \A a \in alerts : a.at \in Int /\ a.event \in DOMAIN events /\ a.event \in 1 .. Len(events)
  BY DEF Typed
<1>4. Len(events) \in Nat
  BY DEF Typed
<1>5. \A g \in Requests : request[g].phase = "open" => request[g] \in OpenRequest
  BY DEF Typed, Idle

(* What is in hand, seen from the same alerts.                             *)
<1>6. ASSUME NEW g \in Requests, request'[g] = request[g], alerts' = alerts,
             request'[g].phase = "open", NEW rule \in request'[g].raised, NEW a \in alerts',
             a.code = rule.code, a.plate = request'[g].event.plate, a.event <= request'[g].seen
      PROVE  rule.cooldown > 0 => \/ request'[g].event.at - a.at > rule.cooldown
                                 \/ Moved(lessons', a.event, request'[g].event.known)
  BY <1>2, <1>6 DEF RaisedApart

(* The pairs that were there before.                                       *)
<1>7. ASSUME NEW a \in alerts, NEW b \in alerts,
             a.code = b.code, a.plate = b.plate, a.event < b.event, b.cooldown > 0
      PROVE  \/ b.at - a.at > b.cooldown
             \/ b.seen < a.event
             \/ CorrectionsBefore(a.event, events[b.event])' # {}
  <2>1. CASE CorrectionsBefore(a.event, events[b.event]) # {}
    <3>1. Moved(lessons, a.event, events[b.event].known)
      BY <2>1 DEF CorrectionsBefore, Moved, MovedBy
    <3>2. events'[b.event].known = events[b.event].known
      BY <1>1, <1>3 DEF RowsPersist
    <3>3. Moved(lessons', a.event, events'[b.event].known)
      BY <1>2, <3>1, <3>2
    <3> QED BY <3>3 DEF CorrectionsBefore, Moved, MovedBy
  <2> QED BY <1>7, <2>1 DEF AlertsAreSpaced
<1>8. ASSUME alerts' = alerts PROVE AlertsAreSpaced'
  BY <1>7, <1>8 DEF AlertsAreSpaced
<1>9. ASSUME NEW r \in Requests, Ingest(r) PROVE Spaced'
  <2>1. /\ request' = [request EXCEPT ![r] = request'[r]]
        /\ request'[r].event.at = clock
        /\ request'[r].event.known = Cardinality(lessons)
        /\ request'[r].raised =
              {rule \in request'[r].event.concerned : ~InCooldown(rule, request'[r].event.plate)}
        /\ request'[r] \in OpenRequest
    BY <1>9, IngestOpens
  <2>2. alerts' = alerts /\ events' = events /\ clock' = clock /\ lessons' = lessons
    BY <1>9 DEF Ingest
  <2>3. ASSUME NEW rule \in request'[r].raised, NEW a \in alerts,
               a.code = rule.code, a.plate = request'[r].event.plate
        PROVE  rule.cooldown > 0 => \/ request'[r].event.at - a.at > rule.cooldown
                                    \/ Moved(lessons', a.event, request'[r].event.known)
    <3>1. rule.cooldown \in Int
      BY <2>1, <2>3, RulesAssumption DEF OpenRequest
    <3>2. rule.cooldown > 0 => events[a.event].plate # a.plate \/ ~(a.at >= clock - rule.cooldown)
      BY <2>1, <2>3 DEF InCooldown
    <3>3. clock \in Int /\ a.at \in Int
      BY <1>3 DEF Typed
    <3>4. events[a.event].plate # a.plate => Moved(lessons, a.event, Cardinality(lessons))
      BY <1>3, MovedRowsWereCorrected DEF Filed, StoodUnder, Moved
    <3> QED BY <2>1, <2>2, <3>1, <3>2, <3>3, <3>4
  <2>4. RaisedApart'
    <3> SUFFICES ASSUME NEW g \in Requests, request'[g].phase = "open",
                        NEW rule \in request'[g].raised, NEW a \in alerts',
                        a.code = rule.code, a.plate = request'[g].event.plate,
                        a.event <= request'[g].seen
                 PROVE  rule.cooldown > 0 => \/ request'[g].event.at - a.at > rule.cooldown
                                 \/ Moved(lessons', a.event, request'[g].event.known)
      BY DEF RaisedApart
    <3>1. CASE g = r
      BY <2>2, <2>3, <3>1
    <3>2. CASE g # r
      <4>1. request'[g] = request[g]
        BY <2>1, <3>2 DEF Typed
      <4> QED BY <1>6, <2>2, <4>1
    <3> QED BY <3>1, <3>2
  <2> QED BY <1>1, <1>8, <2>2, <2>4
<1>10. ASSUME NEW r \in Requests, CommitIngest(r) PROVE Spaced'
  <2> DEFINE q == request[r]
             N == {[code |-> rule.code, cooldown |-> rule.cooldown,
                    event |-> Len(events) + 1, plate |-> q.event.plate,
                    at |-> q.event.at, seen |-> q.seen] : rule \in q.raised}
  <2>1. /\ q \in OpenRequest
        /\ events'[Len(events) + 1] = q.event
        /\ \A i \in DOMAIN events : events'[i] = events[i]
    BY <1>10, CommitAppends
  <2>2. /\ alerts' = alerts \cup N /\ request' = [request EXCEPT ![r] = Idle] /\ q.phase = "open"
        /\ lessons' = lessons
    BY <1>10 DEF CommitIngest
  <2>3. \A c \in N : c.event = Len(events) + 1
    OBVIOUS
  <2>4. \A c \in alerts' : c.event <= Len(events) + 1 /\ c.event \in Int
    BY <1>3, <1>4, <2>2, <2>3
  <2>5. AlertsAreSpaced'
    <3> SUFFICES ASSUME NEW a \in alerts', NEW b \in alerts',
                        a.code = b.code, a.plate = b.plate, a.event < b.event, b.cooldown > 0
                 PROVE  \/ b.at - a.at > b.cooldown
                        \/ b.seen < a.event
                        \/ CorrectionsBefore(a.event, events[b.event])' # {}
      BY DEF AlertsAreSpaced
    <3>1. a \in alerts
      BY <1>4, <2>2, <2>3, <2>4
    <3>2. CASE b \in alerts
      BY <1>7, <3>1, <3>2
    <3>3. CASE b \in N
      <4>1. PICK rule \in q.raised : /\ b.code = rule.code /\ b.cooldown = rule.cooldown
                                     /\ b.plate = q.event.plate /\ b.at = q.event.at
                                     /\ b.seen = q.seen /\ b.event = Len(events) + 1
        BY <3>3
      <4>2. a.event <= q.seen => (rule.cooldown > 0 => \/ q.event.at - a.at > rule.cooldown
                                                        \/ Moved(lessons, a.event, q.event.known))
        BY <2>2, <3>1, <4>1 DEF RaisedApart
      <4>3. a.event \in Int /\ q.seen \in Int
        BY <1>3, <2>1, <3>1 DEF OpenRequest
      <4>4. Moved(lessons, a.event, q.event.known) => CorrectionsBefore(a.event, events[b.event])' # {}
        <5>1. events'[b.event].known = q.event.known
          BY <2>1, <4>1
        <5> QED BY <2>2, <5>1 DEF Moved, MovedBy, CorrectionsBefore
      <4> QED BY <4>1, <4>2, <4>3, <4>4
    <3> QED BY <2>2, <3>2, <3>3
  <2>6. RaisedApart'
    <3> SUFFICES ASSUME NEW g \in Requests, request'[g].phase = "open",
                        NEW rule \in request'[g].raised, NEW a \in alerts',
                        a.code = rule.code, a.plate = request'[g].event.plate,
                        a.event <= request'[g].seen
                 PROVE  rule.cooldown > 0 => \/ request'[g].event.at - a.at > rule.cooldown
                                 \/ Moved(lessons', a.event, request'[g].event.known)
      BY DEF RaisedApart
    <3>1. g # r /\ request'[g] = request[g]
      BY <2>2 DEF Typed, Idle
    <3>2. request[g].seen <= Len(events) /\ request[g].seen \in Nat
      BY <1>5, <3>1 DEF SeenIsCommitted, OpenRequest
    <3>3. a \in alerts
      BY <1>4, <2>2, <2>3, <2>4, <3>1, <3>2
    <3> QED BY <1>2, <3>1, <3>3 DEF RaisedApart
  <2> QED BY <1>1, <2>5, <2>6
<1>11. ASSUME alerts' = alerts, \A g \in Requests : request'[g] = request[g] \/ request'[g] = Idle
       PROVE  Spaced'
  <2>1. RaisedApart'
    BY <1>6, <1>11 DEF RaisedApart, Idle
  <2> QED BY <1>1, <1>8, <1>11, <2>1
<1>12. ASSUME NEW r \in Requests, AbortIngest(r) PROVE Spaced'
  BY <1>11, <1>12 DEF AbortIngest, Typed
<1>13. ASSUME Correct \/ ClockTicks \/ UNCHANGED serviceVars PROVE Spaced'
  BY <1>11, <1>13 DEF Correct, ClockTicks, serviceVars
<1> QED BY <1>9, <1>10, <1>12, <1>13 DEF ServiceNext

(* Alerts of one rule for one plate are a cooldown apart: the look-up of a  *)
(* request (EventProcessor._in_cooldown) sees every alert committed before  *)
(* it began, under its own plate as long as nobody has corrected its event; *)
(* events may be corrected any number of times.                             *)
THEOREM AlertsAreSpacedCorrect == ServiceSpec => []AlertsAreSpaced
<1>1. ServiceInit => Spaced
  <2> SUFFICES ASSUME ServiceInit PROVE Spaced
    OBVIOUS
  <2>1. Typed
    BY FS_EmptySet DEF ServiceInit, Typed
  <2> QED BY <2>1 DEF ServiceInit, Spaced, SeenIsCommitted, Filed, RaisedApart,
                      AlertsAreSpaced, Idle
<1>2. Spaced /\ [ServiceNext]_serviceVars => Spaced'
  BY SpacedStays
<1>3. Spaced => AlertsAreSpaced
  BY DEF Spaced
<1> QED BY <1>1, <1>2, <1>3, PTL DEF ServiceSpec

-----------------------------------------------------------------------------
(* No silence.  A rule that concerns a row has its alert with the row, or   *)
(* an alert in the cooldown whose event stood under the row's plate.        *)
Accounts(L, a, rule, row) ==
    /\ a.code = rule.code
    /\ row.at - a.at <= rule.cooldown
    /\ row.filed = a.plate \/ StoodUnder(L, a.event, row.known, row.filed)

NoSilence ==
    \A r \in Requests : request[r].phase = "open" =>
        \A rule \in request[r].event.concerned :
            rule \in request[r].raised \/ \E a \in alerts : Accounts(lessons, a, rule, request[r].event)

(* NothingMuted of one row.                                                 *)
Answers(L, a, rule, i, row) ==
    (a.event = i /\ a.code = rule.code) \/ Accounts(L, a, rule, row)

Heard == Typed /\ Filed /\ NoSilence /\ NothingMuted

LEMMA MutedMeans ==
    NothingMuted <=> \A i \in DOMAIN events : \A rule \in events[i].concerned :
                        \E a \in alerts : Answers(lessons, a, rule, i, events[i])
<1>1. \A i, a : events[i].filed \in {a.plate} \cup {l.corrected : l \in CorrectionsBefore(a.event, events[i])}
              <=> events[i].filed = a.plate \/ StoodUnder(lessons, a.event, events[i].known, events[i].filed)
  BY DEF CorrectionsBefore, StoodUnder, MovedBy
<1> QED BY <1>1 DEF NothingMuted, Answers, Accounts

(* What accounts for a row goes on doing so.                                *)
LEMMA AccountsStay ==
    ASSUME Typed, [ServiceNext]_serviceVars, NEW a \in alerts, NEW rule, NEW row,
           Accounts(lessons, a, rule, row)
    PROVE  a \in alerts' /\ Accounts(lessons', a, rule, row)
<1>1. alerts \subseteq alerts' /\ lessons \subseteq lessons'
  BY TypedStays
<1> QED BY <1>1 DEF Accounts, StoodUnder

(* Every step leaves each concern of a rule with its alert or its excuse.   *)
LEMMA HeardStays ==
    ASSUME Heard, [ServiceNext]_serviceVars
    PROVE  Heard'
<1> USE DEF Heard
<1>1. /\ Typed' /\ RowsPersist /\ Len(events) <= Len(events') /\ Filed'
      /\ alerts \subseteq alerts'
  BY TypedStays, FiledStays
<1>2. NothingMuted' <=> \A i \in DOMAIN events' : \A rule \in events'[i].concerned :
                        \E a \in alerts' : Answers(lessons', a, rule, i, events'[i])
  <2>1. (NothingMuted <=> \A i \in DOMAIN events : \A rule \in events[i].concerned :
                        \E a \in alerts : Answers(lessons, a, rule, i, events[i]))'
    BY MutedMeans, PTL
  <2> QED BY <2>1
<1>3. ASSUME NEW g \in Requests, request'[g] = request[g], request'[g].phase = "open",
             NEW rule \in request'[g].event.concerned
      PROVE  \/ rule \in request'[g].raised
             \/ \E a \in alerts' : Accounts(lessons', a, rule, request'[g].event)
  BY <1>3, AccountsStay DEF NoSilence
<1>4. ASSUME NEW i \in DOMAIN events, NEW rule \in events'[i].concerned
      PROVE  \E a \in alerts' : Answers(lessons', a, rule, i, events'[i])
  <2>1. /\ rule \in events[i].concerned /\ events'[i].at = events[i].at
        /\ events'[i].filed = events[i].filed /\ events'[i].known = events[i].known
    BY <1>1, <1>4 DEF RowsPersist
  <2>2. PICK a \in alerts : Answers(lessons, a, rule, i, events[i])
    BY <2>1, MutedMeans
  <2>3. CASE a.event = i /\ a.code = rule.code
    BY <1>1, <2>3 DEF Answers
  <2>4. CASE Accounts(lessons, a, rule, events[i])
    <3>1. a \in alerts' /\ Accounts(lessons', a, rule, events[i])
      BY <2>4, AccountsStay
    <3>2. Accounts(lessons', a, rule, events'[i])
      BY <2>1, <3>1 DEF Accounts
    <3> QED BY <3>1, <3>2 DEF Answers
  <2> QED BY <2>2, <2>3, <2>4 DEF Answers
<1>5. ASSUME DOMAIN events' = DOMAIN events PROVE NothingMuted'
  BY <1>2, <1>4, <1>5
<1>6. ASSUME NEW r \in Requests, Ingest(r) PROVE Heard'
  <2>1. /\ request' = [request EXCEPT ![r] = request'[r]]
        /\ request'[r].event.at = clock
        /\ request'[r].event.known = Cardinality(lessons)
        /\ request'[r].event.plate = request'[r].event.filed
        /\ request'[r].raised =
              {rule \in request'[r].event.concerned : ~InCooldown(rule, request'[r].event.plate)}
        /\ request'[r] \in OpenRequest
    BY <1>6, IngestOpens
  <2>2. alerts' = alerts /\ events' = events /\ clock' = clock /\ lessons' = lessons
    BY <1>6 DEF Ingest
  <2>3. ASSUME NEW rule \in request'[r].event.concerned, rule \notin request'[r].raised
        PROVE  \E a \in alerts' : Accounts(lessons', a, rule, request'[r].event)
    <3>1. request'[r].event \in Rows
      BY <2>1 DEF OpenRequest
    <3>2. rule \in Rules /\ rule.cooldown \in Int
      BY <2>3, <3>1, RulesAssumption DEF Rows
    <3>3. PICK a \in alerts : /\ a.code = rule.code
                              /\ events[a.event].plate = request'[r].event.plate
                              /\ a.at >= clock - rule.cooldown
      BY <2>1, <2>3 DEF InCooldown
    <3>4. clock \in Int /\ a.at \in Int /\ a.event \in DOMAIN events
      BY DEF Typed
    <3>5. request'[r].event.at - a.at <= rule.cooldown
      BY <2>1, <3>2, <3>3, <3>4
    <3>6. CASE events[a.event].plate = events[a.event].filed
      BY <2>1, <2>2, <3>3, <3>5, <3>6 DEF Accounts, Filed
    <3>7. CASE events[a.event].plate # events[a.event].filed
      <4>1. StoodUnder(lessons, a.event, Cardinality(lessons), events[a.event].plate)
        BY <3>4, <3>7, MovedRowsWereCorrected
      <4>2. StoodUnder(lessons, a.event, request'[r].event.known, request'[r].event.filed)
        BY <2>1, <3>3, <4>1
      <4> QED BY <2>2, <3>3, <3>5, <4>2 DEF Accounts
    <3> QED BY <3>6, <3>7
  <2>4. NoSilence'
    <3>1. \A g \in Requests : g # r => request'[g] = request[g]
      BY <2>1 DEF Typed
    <3> QED BY <1>3, <2>3, <3>1 DEF NoSilence
  <2> QED BY <1>1, <1>5, <2>2, <2>4
<1>7. ASSUME \A g \in Requests : request'[g] = request[g] \/ request'[g] = Idle
      PROVE  NoSilence'
  BY <1>3, <1>7 DEF NoSilence, Idle
<1>8. ASSUME NEW r \in Requests, CommitIngest(r) PROVE Heard'
  <2> DEFINE q == request[r]
  <2>1. /\ q \in OpenRequest /\ q.phase = "open"
        /\ events'[Len(events) + 1] = q.event
        /\ Len(events') = Len(events) + 1
        /\ DOMAIN events = 1 .. Len(events) /\ DOMAIN events' = 1 .. Len(events')
        /\ Len(events) \in Nat
    BY <1>8, CommitAppends DEF OpenRequest, Typed
  <2>2. alerts' = alerts \cup
            {[code |-> rule.code, cooldown |-> rule.cooldown,
              event |-> Len(events) + 1, plate |-> q.event.plate,
              at |-> q.event.at, seen |-> q.seen] : rule \in q.raised}
    BY <1>8 DEF CommitIngest
  <2>3. ASSUME NEW rule \in q.event.concerned
        PROVE  \E a \in alerts' : Answers(lessons', a, rule, Len(events) + 1, q.event)
    <3>1. CASE rule \in q.raised
      <4> DEFINE a == [code |-> rule.code, cooldown |-> rule.cooldown,
                       event |-> Len(events) + 1, plate |-> q.event.plate,
                       at |-> q.event.at, seen |-> q.seen]
      <4>1. a \in alerts' /\ a.code = rule.code /\ a.event = Len(events) + 1
        BY <2>2, <3>1
      <4> QED BY <4>1 DEF Answers
    <3>2. CASE \E a \in alerts : Accounts(lessons, a, rule, q.event)
      BY <3>2, AccountsStay DEF Answers
    <3> QED BY <2>1, <2>3, <3>1, <3>2 DEF NoSilence
  <2>4. ASSUME NEW i \in DOMAIN events', NEW rule \in events'[i].concerned
        PROVE  \E a \in alerts' : Answers(lessons', a, rule, i, events'[i])
    <3>1. CASE i \in DOMAIN events
      BY <1>4, <2>4, <3>1
    <3>2. CASE i = Len(events) + 1
      BY <2>1, <2>3, <2>4, <3>2
    <3> QED BY <2>1, <3>1, <3>2
  <2>5. NoSilence'
    BY <1>7, <1>8 DEF CommitIngest, Typed
  <2> QED BY <1>1, <1>2, <2>4, <2>5
<1>9. ASSUME NEW r \in Requests, AbortIngest(r) PROVE Heard'
  <2>1. NoSilence' /\ events' = events
    BY <1>7, <1>9 DEF AbortIngest, Typed
  <2> QED BY <1>1, <1>5, <2>1
<1>10. ASSUME Correct PROVE Heard'
  <2>1. NoSilence'
    BY <1>7, <1>10 DEF Correct
  <2>2. DOMAIN events' = DOMAIN events
    BY <1>10, CorrectKeepsRows
  <2> QED BY <1>1, <1>5, <2>1, <2>2
<1>11. ASSUME ClockTicks \/ UNCHANGED serviceVars PROVE Heard'
  BY <1>1, <1>5, <1>7, <1>11 DEF ClockTicks, serviceVars
<1> QED BY <1>6, <1>8, <1>9, <1>10, <1>11 DEF ServiceNext

(* An event that a rule concerns has its alert, or one of its cooldown: no  *)
(* interleaving of requests, aborts and corrections loses one, however many *)
(* corrections each event gets.                                             *)
THEOREM NothingMutedCorrect == ServiceSpec => []NothingMuted
<1>1. ServiceInit => Heard
  <2> SUFFICES ASSUME ServiceInit PROVE Heard
    OBVIOUS
  <2>1. Typed
    BY FS_EmptySet DEF ServiceInit, Typed
  <2> QED BY <2>1 DEF ServiceInit, Heard, Filed, NoSilence, NothingMuted, Idle
<1>2. Heard /\ [ServiceNext]_serviceVars => Heard'
  BY HeardStays
<1>3. Heard => NothingMuted
  BY DEF Heard
<1> QED BY <1>1, <1>2, <1>3, PTL DEF ServiceSpec

-----------------------------------------------------------------------------
(* What was taught.  Lessons are numbered, and an alias once taught stays.  *)
Numbered ==
    /\ \A l \in lessons : l.number <= Cardinality(lessons) /\ l.number \in Nat
    /\ \A i \in DOMAIN events : events[i].known <= Cardinality(lessons)
    /\ \A r \in Requests : request[r].phase = "open" =>
          request[r].event.known <= Cardinality(lessons) /\ ~request[r].event.manual

AliasesHold ==
    \A l \in lessons : (l.learns /\ ~l.taught) =>
        l.original # NoText /\ l.original \in DOMAIN aliases /\ aliases[l.original] = l.vehicle

AppliesTo(l, row) ==
    (/\ row.read = l.read /\ l.learns /\ l.number <= row.known
     /\ l.read = l.original /\ ~l.taught /\ l.read \notin DOMAIN Vehicles)
    => row.vehicle = l.vehicle

RequestsLearn ==
    \A r \in Requests : request[r].phase = "open" =>
        \A l \in lessons : AppliesTo(l, request[r].event)

Taught == Typed /\ Numbered /\ AliasesHold /\ RequestsLearn /\ LessonsApply

(* A lesson stays in the aliases, and an ingest files by it.                *)
LEMMA TaughtStays ==
    ASSUME Taught, [ServiceNext]_serviceVars
    PROVE  Taught'
<1> USE DEF Taught
<1>1. Typed' /\ RowsPersist
  BY TypedStays
<1>2. Cardinality(lessons) \in Nat /\ events \in Seq(Rows)
      /\ \A g \in Requests : request[g].phase = "open" => request[g] \in OpenRequest
  BY FS_CardinalityType DEF Typed, Idle
<1>3. ASSUME NEW r \in Requests, Ingest(r) PROVE Taught'
  <2>1. /\ request' = [request EXCEPT ![r] = request'[r]]
        /\ request'[r].event.known = Cardinality(lessons)
        /\ request'[r].event.vehicle = IF request'[r].event.read = NoText THEN NoVehicle
                                        ELSE Match(request'[r].event.read)
        /\ ~request'[r].event.manual
    BY <1>3, IngestOpens
  <2>2. lessons' = lessons /\ events' = events /\ aliases' = aliases
    BY <1>3 DEF Ingest
  <2>3. \A g \in Requests : g # r => request'[g] = request[g]
    BY <2>1 DEF Typed
  <2>4. Numbered'
    BY <1>2, <2>1, <2>2, <2>3 DEF Numbered
  <2>5. \A l \in lessons : AppliesTo(l, request[r].event)'
    BY <2>1, <2>2 DEF AppliesTo, AliasesHold, Match
  <2>6. RequestsLearn'
    BY <2>2, <2>3, <2>5 DEF RequestsLearn, AppliesTo
  <2> QED BY <1>1, <2>2, <2>4, <2>6 DEF AliasesHold, LessonsApply, LessonsBefore
<1>4. ASSUME NEW r \in Requests, CommitIngest(r) PROVE Taught'
  <2>1. /\ request[r] \in OpenRequest
        /\ Len(events') = Len(events) + 1
        /\ DOMAIN events = 1 .. Len(events) /\ DOMAIN events' = 1 .. Len(events')
        /\ events'[Len(events) + 1] = request[r].event
        /\ \A i \in DOMAIN events : events'[i] = events[i]
        /\ Len(events) \in Nat
    BY <1>4, CommitAppends DEF Typed
  <2>2. lessons' = lessons /\ aliases' = aliases /\ request[r].phase = "open"
        /\ request' = [request EXCEPT ![r] = Idle]
    BY <1>4 DEF CommitIngest
  <2>3. \A g \in Requests : request'[g].phase = "open" => request'[g] = request[g]
    BY <2>2 DEF Typed, Idle
  <2>4. \A i \in DOMAIN events' : i \in DOMAIN events \/ i = Len(events) + 1
    BY <2>1
  <2>5. Numbered'
    BY <2>1, <2>2, <2>3, <2>4 DEF Numbered
  <2>6. RequestsLearn'
    BY <2>2, <2>3 DEF RequestsLearn, AppliesTo
  <2>7. LessonsApply'
    BY <2>1, <2>2, <2>4 DEF LessonsApply, LessonsBefore, RequestsLearn, AppliesTo
  <2> QED BY <1>1, <2>2, <2>5, <2>6, <2>7 DEF AliasesHold
<1>5. ASSUME NEW r \in Requests, AbortIngest(r) PROVE Taught'
  <2>1. lessons' = lessons /\ aliases' = aliases /\ events' = events
        /\ request' = [request EXCEPT ![r] = Idle]
    BY <1>5 DEF AbortIngest
  <2>2. \A g \in Requests : request'[g].phase = "open" => request'[g] = request[g]
    BY <2>1 DEF Typed, Idle
  <2> QED BY <1>1, <2>1, <2>2 DEF Numbered, AliasesHold, RequestsLearn, AppliesTo, LessonsApply,
                                   LessonsBefore
<1>6. ASSUME Correct PROVE Taught'
  <2>1. PICK l : Teaches(l)
    BY <1>6, CorrectTeaches
  <2>2. request' = request
    BY <1>6 DEF Correct
  <2>3. \A t \in DOMAIN aliases : t \in DOMAIN aliases' /\ aliases'[t] = aliases[t]
    BY <1>6, CorrectTeaches
  <2>4. DOMAIN events' = DOMAIN events
    BY <1>6, CorrectKeepsRows
  <2>5. lessons' = lessons \cup {l} /\ l.number = Cardinality(lessons) + 1
    BY <2>1 DEF Teaches
  <2>6. Cardinality(lessons') = Cardinality(lessons) + 1
    <3>1. l \notin lessons
      BY <1>2, <2>5 DEF Numbered
    <3> QED BY <2>5, <3>1, FS_AddElement DEF Typed
  <2>7. \A i \in DOMAIN events : events[i].known \in Nat
    <3>1. \A i \in DOMAIN events : events[i] \in Rows
      BY <1>2
    <3> QED BY <3>1 DEF Rows
  <2>8. \A g \in Requests : request[g].phase = "open" => request[g].event.known \in Nat
    BY <1>2 DEF Rows, OpenRequest
  <2>9. Numbered'
    <3>1. \A m \in lessons' : m.number <= Cardinality(lessons') /\ m.number \in Nat
      BY <1>2, <2>5, <2>6 DEF Numbered
    <3>2. \A i \in DOMAIN events' : events'[i].known <= Cardinality(lessons')
      BY <1>1, <1>2, <2>4, <2>6, <2>7 DEF Numbered, RowsPersist
    <3>3. \A r \in Requests : request'[r].phase = "open" =>
              request'[r].event.known <= Cardinality(lessons') /\ ~request'[r].event.manual
      BY <1>2, <2>2, <2>6, <2>8 DEF Numbered
    <3> QED BY <3>1, <3>2, <3>3 DEF Numbered
  <2>10. AliasesHold'
    BY <2>1, <2>3, <2>5 DEF AliasesHold, Teaches
  <2>11. RequestsLearn'
    BY <1>2, <2>2, <2>5, <2>8 DEF RequestsLearn, AppliesTo, Numbered
  <2>12. LessonsApply'
    <3> SUFFICES ASSUME NEW i \in DOMAIN events', NEW m \in lessons', m.learns,
                        m.number <= events'[i].known, events'[i].read = m.read, ~events'[i].manual,
                        m.read = m.original, ~m.taught, m.read \notin DOMAIN Vehicles
                 PROVE  events'[i].vehicle = m.vehicle
      BY DEF LessonsApply, LessonsBefore
    <3>1. i \in DOMAIN events /\ events'[i] = events[i]
      BY <1>1, <2>4 DEF RowsPersist
    <3>2. m \in lessons
      BY <1>2, <2>5, <2>7, <3>1 DEF Numbered
    <3> QED BY <3>1, <3>2 DEF LessonsApply, LessonsBefore
  <2> QED BY <1>1, <2>9, <2>10, <2>11, <2>12
<1>7. ASSUME ClockTicks \/ UNCHANGED serviceVars PROVE Taught'
  BY <1>1, <1>7 DEF ClockTicks, serviceVars, Numbered, AliasesHold, RequestsLearn, AppliesTo,
                    LessonsApply, LessonsBefore
<1> QED BY <1>3, <1>4, <1>5, <1>6, <1>7 DEF ServiceNext

(* What an operator taught files the later events that read it: the alias   *)
(* of a lesson is never overwritten, and a request that knows the lesson    *)
(* matches by it.                                                           *)
THEOREM LessonsApplyCorrect == ServiceSpec => []LessonsApply
<1>1. ServiceInit => Taught
  <2> SUFFICES ASSUME ServiceInit PROVE Taught
    OBVIOUS
  <2>1. Typed
    BY FS_EmptySet DEF ServiceInit, Typed
  <2> QED BY <2>1 DEF ServiceInit, Taught, Numbered, AliasesHold, RequestsLearn, AppliesTo,
                      LessonsApply, LessonsBefore, Idle
<1>2. Taught /\ [ServiceNext]_serviceVars => Taught'
  BY TaughtStays
<1>3. Taught => LessonsApply
  BY DEF Taught
<1> QED BY <1>1, <1>2, <1>3, PTL DEF ServiceSpec

-----------------------------------------------------------------------------
(* LegacyCameras.                                                          *)

WorkerType == [camera : Nat, stop : BOOLEAN, capture : {"begun", "raised"},
               inference : {"waiting", "ended"}, online : BOOLEAN]

(* What a request in hand names: a camera, or nothing at all.              *)
RequestsName ==
    /\ DOMAIN rows \subseteq Nat /\ lastRow \in Nat
    /\ handler = [h \in Handlers |-> handler[h]]
    /\ \A h \in Handlers : handler[h] = Free \/ handler[h].camera \in Nat

(* The registry names a worker of the camera.                              *)
RegistryIsTrue ==
    /\ workers \in Seq(WorkerType)
    /\ DOMAIN registry \subseteq Nat
    /\ \A c \in DOMAIN registry :
          registry[c] \in 1 .. Len(workers) /\ workers[registry[c]].camera = c

Watched == RequestsName /\ RegistryIsTrue /\ NoStrayWorker

(* What a step of one request thread changes, and keeps, of the others.     *)
LEMMA HandlerStep ==
    ASSUME RequestsName, NEW h \in Handlers, NEW q, q = Free \/ q.camera \in Nat,
           handler' = [handler EXCEPT ![h] = q],
           DOMAIN rows' \subseteq Nat, lastRow' \in Nat
    PROVE  /\ RequestsName'
           /\ handler'[h] = q
           /\ \A g \in Handlers : g # h => handler'[g] = handler[g]
BY DEF RequestsName

(* The lifespan starts at most one worker per row.                          *)
LEMMA BootKeeps == ASSUME Watched, Boot PROVE Watched'
<1>1. RequestsName'
  BY DEF Boot, Watched, RequestsName
<1>2. PICK upTo \in 0 .. lastRow :
        LET enabled == {c \in 1 .. upTo : rows[c].active /\ rows[c].url} IN
         \E wanted \in Bijection(1 .. Cardinality(enabled), enabled) :
            /\ \A v, w \in DOMAIN wanted : v < w => wanted[v] < wanted[w]
            /\ workers' = [w \in DOMAIN wanted |-> NewWorker(wanted[w])]
            /\ registry' = AntiFunction(wanted)
  BY DEF Boot
<1> DEFINE enabled == {c \in 1 .. upTo : rows[c].active /\ rows[c].url}
           n == Cardinality(enabled)
<1>3. PICK wanted \in Bijection(1 .. n, enabled) :
        /\ workers' = [w \in DOMAIN wanted |-> NewWorker(wanted[w])]
        /\ registry' = AntiFunction(wanted)
  BY <1>2
<1>4. enabled \subseteq Nat /\ n \in Nat
  <2>1. IsFiniteSet(1 .. upTo) /\ upTo \in Nat
    <3>1. upTo \in Nat
      BY DEF Watched, RequestsName
    <3> QED BY <3>1, FS_Interval
  <2>2. enabled \subseteq 1 .. upTo
    OBVIOUS
  <2> HIDE DEF enabled
  <2>3. IsFiniteSet(enabled)
    BY <2>1, <2>2, FS_Subset
  <2>4. enabled \subseteq Nat
    BY <2>1, <2>2
  <2>5. n \in Nat
    BY <2>3, FS_CardinalityType
  <2> QED BY <2>4, <2>5
<1> HIDE DEF n, enabled
<1>5. /\ wanted \in [1 .. n -> enabled]
      /\ \A v, w \in 1 .. n : wanted[v] = wanted[w] => v = w
      /\ \A c \in enabled : \E w \in 1 .. n : wanted[w] = c
  BY DEF Bijection, Injection, Surjection, IsInjective
<1>6. workers' = [w \in 1 .. n |-> NewWorker(wanted[w])]
  BY <1>3, <1>5
<1>7. /\ workers' \in Seq(WorkerType) /\ Len(workers') = n /\ DOMAIN workers' = 1 .. n
      /\ \A w \in 1 .. n : workers'[w].camera = wanted[w]
  <2>1. \A w \in 1 .. n : NewWorker(wanted[w]) \in WorkerType
                          /\ NewWorker(wanted[w]).camera = wanted[w]
    BY <1>4, <1>5 DEF NewWorker, WorkerType
  <2> QED BY <1>4, <1>6, <2>1
<1>8. /\ DOMAIN registry' = enabled
      /\ \A c \in enabled : registry'[c] \in 1 .. n /\ wanted[registry'[c]] = c
  BY <1>3, <1>5 DEF AntiFunction, Inverse, Range
<1>9. RegistryIsTrue'
  BY <1>4, <1>7, <1>8 DEF RegistryIsTrue
<1>10. NoStrayWorker'
  BY <1>5, <1>7, <1>8 DEF NoStrayWorker, Registered
<1> QED BY <1>1, <1>9, <1>10 DEF Watched

(* Shutdown tells every registered worker to stop.                          *)
LEMMA ShutdownKeeps == ASSUME Watched, Shutdown PROVE Watched'
<1>1. RequestsName'
  BY DEF Shutdown, Watched, RequestsName
<1>2. /\ workers \in Seq(WorkerType) /\ registry' = <<>>
      /\ workers' = [w \in 1 .. Len(workers) |->
                       IF w \in Range(registry) THEN [workers[w] EXCEPT !.stop = TRUE]
                       ELSE workers[w]]
  BY DEF Shutdown, Watched, RegistryIsTrue
<1>3. \A w \in 1 .. Len(workers) :
        workers[w] \in WorkerType /\ [workers[w] EXCEPT !.stop = TRUE] \in WorkerType
        /\ [workers[w] EXCEPT !.stop = TRUE].stop
  <2>1. \A w \in 1 .. Len(workers) : workers[w] \in WorkerType
    BY <1>2
  <2> QED BY <2>1 DEF WorkerType
<1>4. workers' \in Seq(WorkerType) /\ Len(workers') = Len(workers)
  BY <1>2, <1>3
<1>5. RegistryIsTrue'
  BY <1>2, <1>4 DEF RegistryIsTrue
<1>6. NoStrayWorker'
  <2> SUFFICES ASSUME NEW w \in 1 .. Len(workers)
               PROVE  workers'[w].stop
    BY <1>2, <1>4 DEF NoStrayWorker
  <2>1. \A h \in Handlers : handler[h].phase # "signal"
    BY DEF Shutdown, Free
  <2>2. workers[w].stop \/ w \in Range(registry)
    BY <1>2, <2>1 DEF NoStrayWorker, Watched, Registered, Range
  <2> QED BY <1>2, <1>3, <2>2
<1> QED BY <1>1, <1>5, <1>6 DEF Watched

(* A request goes on without touching the workers.                         *)
LEMMA RequestGoesOn ==
    ASSUME Watched, NEW h \in Handlers, NEW q, q = Free \/ q.camera \in Nat,
           handler' = [handler EXCEPT ![h] = q], handler[h].phase # "signal",
           UNCHANGED <<registry, workers>>,
           DOMAIN rows' \subseteq Nat, lastRow' \in Nat
    PROVE  Watched'
<1>1. RequestsName' /\ \A g \in Handlers : g # h => handler'[g] = handler[g]
  BY HandlerStep DEF Watched
<1>2. RegistryIsTrue'
  BY DEF Watched, RegistryIsTrue
<1>3. NoStrayWorker'
  BY <1>1 DEF Watched, NoStrayWorker, Registered
<1> QED BY <1>1, <1>2, <1>3 DEF Watched

(* A thread that goes on names a camera, or is free.                        *)
LEMMA ContinuedType ==
    ASSUME NEW q, q.camera \in Nat
    PROVE  Continued(q) = Free \/ Continued(q).camera \in Nat
BY DEF Continued

(* A signal sets the stop flag of one worker and leaves the cameras alone.  *)
LEMMA SignalledFacts ==
    ASSUME NEW W \in Seq(WorkerType), NEW v
    PROVE  /\ Signalled(W, v) \in Seq(WorkerType)
           /\ Len(Signalled(W, v)) = Len(W)
           /\ \A w \in 1 .. Len(W) :
                /\ Signalled(W, v)[w].camera = W[w].camera
                /\ Signalled(W, v)[w].stop <=> W[w].stop \/ w = v
<1>1. \A w \in 1 .. Len(W) : W[w] \in WorkerType
  OBVIOUS
<1>2. CASE v \in 1 .. Len(W)
  <2>1. [W[v] EXCEPT !.stop = TRUE] \in WorkerType
        /\ [W[v] EXCEPT !.stop = TRUE].stop = TRUE
        /\ [W[v] EXCEPT !.stop = TRUE].camera = W[v].camera
    BY <1>1, <1>2 DEF WorkerType
  <2>2. Signalled(W, v) = [W EXCEPT ![v] = [W[v] EXCEPT !.stop = TRUE]]
    BY DEF Signalled
  <2>3. Signalled(W, v) \in Seq(WorkerType) /\ Len(Signalled(W, v)) = Len(W)
    BY <1>2, <2>1, <2>2
  <2>4. \A w \in 1 .. Len(W) :
          Signalled(W, v)[w] = IF w = v THEN [W[v] EXCEPT !.stop = TRUE] ELSE W[w]
    BY <2>2
  <2>5. \A w \in 1 .. Len(W) : W[w].stop \in BOOLEAN
    BY <1>1 DEF WorkerType
  <2> QED BY <2>1, <2>3, <2>4, <2>5
<1>3. CASE v \notin 1 .. Len(W)
  <2>1. Signalled(W, v) = W
    BY <1>3 DEF Signalled
  <2>5. \A w \in 1 .. Len(W) : W[w].stop \in BOOLEAN
    BY <1>1 DEF WorkerType
  <2> QED BY <1>3, <2>1, <2>5
<1> QED BY <1>2, <1>3

(* Taken out of the registry, a worker is in the hands of the request.     *)
LEMMA PopKeeps == ASSUME Watched, NEW h \in Handlers, Pop(h) PROVE Watched'
<1> DEFINE q == handler[h]
           next == IF Registered(q.camera)
                   THEN [phase |-> "signal", camera |-> q.camera, row |-> q.row,
                         then |-> q.then, worker |-> registry[q.camera]]
                   ELSE Continued(q)
<1>1. /\ q.phase = "pop" /\ handler' = [handler EXCEPT ![h] = next]
      /\ registry' = [c \in DOMAIN registry \ {q.camera} |-> registry[c]]
      /\ UNCHANGED <<rows, lastRow, workers>>
  BY DEF Pop, Restrict
<1>2. q.camera \in Nat
  BY <1>1 DEF Watched, RequestsName, Free
<1>3. next = Free \/ next.camera \in Nat
  BY <1>2, ContinuedType
<1>4. Registered(q.camera) => next.phase = "signal" /\ next.worker = registry[q.camera]
  OBVIOUS
<1> HIDE DEF next
<1>5. RequestsName' /\ handler'[h] = next /\ \A g \in Handlers : g # h => handler'[g] = handler[g]
  BY <1>1, <1>3, HandlerStep DEF Watched, RequestsName
<1>6. RegistryIsTrue'
  BY <1>1 DEF Watched, RegistryIsTrue
<1>7. NoStrayWorker'
  BY <1>1, <1>4, <1>5 DEF Watched, NoStrayWorker, Registered
<1> QED BY <1>5, <1>6, <1>7 DEF Watched

(* A request signals the worker it took out of the registry.                *)
LEMMA SignalKeeps == ASSUME Watched, NEW h \in Handlers, Signal(h) PROVE Watched'
<1> DEFINE next == Continued(handler[h])
<1>1. /\ handler[h].phase = "signal" /\ handler' = [handler EXCEPT ![h] = next]
      /\ workers' = Signalled(workers, handler[h].worker)
      /\ UNCHANGED <<rows, lastRow, registry>>
  BY DEF Signal
<1>2. next = Free \/ next.camera \in Nat
  <2>1. handler[h].camera \in Nat
    BY <1>1 DEF Watched, RequestsName, Free
  <2> QED BY <2>1, ContinuedType
<1> HIDE DEF next
<1>3. RequestsName' /\ \A g \in Handlers : g # h => handler'[g] = handler[g]
  BY <1>1, <1>2, HandlerStep DEF Watched, RequestsName
<1>4. /\ workers' \in Seq(WorkerType) /\ Len(workers') = Len(workers)
      /\ \A w \in 1 .. Len(workers) :
            /\ workers'[w].camera = workers[w].camera
            /\ workers'[w].stop <=> workers[w].stop \/ w = handler[h].worker
  BY <1>1, SignalledFacts DEF Watched, RegistryIsTrue
<1>5. RegistryIsTrue'
  BY <1>1, <1>4 DEF Watched, RegistryIsTrue
<1>6. DOMAIN workers = 1 .. Len(workers) /\ DOMAIN workers' = 1 .. Len(workers)
  BY <1>4 DEF Watched, RegistryIsTrue
<1>7. NoStrayWorker'
  <2> SUFFICES ASSUME NEW w \in 1 .. Len(workers), ~workers'[w].stop
               PROVE  \/ workers'[w].camera \in DOMAIN registry' /\ registry'[workers'[w].camera] = w
                      \/ \E g \in Handlers : handler'[g].phase = "signal" /\ handler'[g].worker = w
    BY <1>6 DEF NoStrayWorker, Registered
  <2>1. ~workers[w].stop /\ w # handler[h].worker /\ workers'[w].camera = workers[w].camera
    BY <1>4
  <2>2. CASE Registered(workers[w].camera) /\ registry[workers[w].camera] = w
    BY <1>1, <2>1, <2>2 DEF Registered
  <2>3. CASE \E g \in Handlers : handler[g].phase = "signal" /\ handler[g].worker = w
    BY <1>3, <2>1, <2>3
  <2> QED BY <1>6, <2>1, <2>2, <2>3 DEF Watched, NoStrayWorker
<1> QED BY <1>3, <1>5, <1>7 DEF Watched

(* The worker that a new one relieves is told to stop.                     *)
LEMMA RelievedFacts ==
    ASSUME Watched, NEW c \in Nat
    PROVE  /\ Relieved(c) \in Seq(WorkerType)
           /\ Len(Relieved(c)) = Len(workers)
           /\ \A w \in 1 .. Len(workers) :
                /\ Relieved(c)[w].camera = workers[w].camera
                /\ workers[w].stop => Relieved(c)[w].stop
                /\ (Registered(c) /\ registry[c] = w) => Relieved(c)[w].stop
<1>1. workers \in Seq(WorkerType) /\ \A w \in 1 .. Len(workers) : workers[w] \in WorkerType
  BY DEF Watched, RegistryIsTrue
<1>2. CASE Registered(c)
  <2>1. Relieved(c) = Signalled(workers, registry[c])
    BY <1>2 DEF Relieved
  <2> DEFINE v == registry[c]
  <2> HIDE DEF v
  <2>2. /\ Signalled(workers, v) \in Seq(WorkerType)
        /\ Len(Signalled(workers, v)) = Len(workers)
        /\ \A w \in 1 .. Len(workers) :
              /\ Signalled(workers, v)[w].camera = workers[w].camera
              /\ Signalled(workers, v)[w].stop <=> workers[w].stop \/ w = v
    BY <1>1, SignalledFacts
  <2> QED BY <2>1, <2>2 DEF v
<1>3. CASE ~Registered(c)
  BY <1>1, <1>3 DEF Relieved
<1> QED BY <1>2, <1>3

(* A start registers the new worker and relieves the one before it.         *)
LEMMA StartKeeps == ASSUME Watched, NEW h \in Handlers, Start(h) PROVE Watched'
<1> DEFINE c == handler[h].camera
           n == Len(workers)
<1>1. /\ handler[h].phase = "start" /\ handler' = [handler EXCEPT ![h] = Free]
      /\ workers' = Append(Relieved(c), NewWorker(c))
      /\ registry' = [d \in DOMAIN registry \cup {c} |->
                        IF d = c THEN Len(workers') ELSE registry[d]]
      /\ UNCHANGED <<rows, lastRow>>
  BY DEF Start
<1>2. c \in Nat
  BY <1>1 DEF Watched, RequestsName, Free
<1>3. RequestsName' /\ \A g \in Handlers : g # h => handler'[g] = handler[g]
  BY <1>1, HandlerStep DEF Watched, RequestsName
<1>4. NewWorker(c) \in WorkerType /\ NewWorker(c).camera = c
  BY <1>2 DEF NewWorker, WorkerType
<1> HIDE DEF c
<1>5. /\ workers' \in Seq(WorkerType) /\ n \in Nat /\ Len(workers') = n + 1
      /\ workers'[n + 1].camera = c
      /\ \A w \in 1 .. n : workers'[w] = Relieved(c)[w]
  BY <1>1, <1>2, <1>4, RelievedFacts DEF Watched, RegistryIsTrue
<1>6. \A w \in 1 .. n : /\ workers'[w].camera = workers[w].camera
                        /\ workers[w].stop => workers'[w].stop
                        /\ (Registered(c) /\ registry[c] = w) => workers'[w].stop
  BY <1>2, <1>5, RelievedFacts
<1>7. RegistryIsTrue'
  BY <1>1, <1>2, <1>5, <1>6, SMTT(30) DEF Watched, RegistryIsTrue
<1>8. /\ DOMAIN workers = 1 .. n /\ DOMAIN workers' = 1 .. n + 1
      /\ \A w \in 1 .. n + 1 : w \in 1 .. n \/ w = n + 1
  BY <1>5 DEF Watched, RegistryIsTrue
<1>9. NoStrayWorker'
  <2> SUFFICES ASSUME NEW w \in 1 .. n + 1, ~workers'[w].stop
               PROVE  \/ workers'[w].camera \in DOMAIN registry' /\ registry'[workers'[w].camera] = w
                      \/ \E g \in Handlers : handler'[g].phase = "signal" /\ handler'[g].worker = w
    BY <1>8 DEF NoStrayWorker, Registered
  <2>1. CASE w = n + 1
    <3>1. registry'[c] = n + 1 /\ c \in DOMAIN registry'
      BY <1>1, <1>5
    <3> QED BY <1>5, <2>1, <3>1 DEF Registered
  <2>2. CASE w \in 1 .. n
    <3>1. ~workers[w].stop /\ workers'[w].camera = workers[w].camera
      BY <1>6, <2>2
    <3>2. CASE Registered(workers[w].camera) /\ registry[workers[w].camera] = w
      <4>1. workers[w].camera # c
        BY <1>6, <2>2, <3>2
      <4>2. /\ workers[w].camera \in DOMAIN registry'
            /\ registry'[workers[w].camera] = registry[workers[w].camera]
        BY <1>1, <3>2, <4>1 DEF Registered
      <4> QED BY <3>1, <3>2, <4>2 DEF Registered
    <3>3. CASE \E g \in Handlers : handler[g].phase = "signal" /\ handler[g].worker = w
      BY <1>1, <1>3, <3>3
    <3> QED BY <1>8, <2>2, <3>1, <3>2, <3>3 DEF Watched, NoStrayWorker
  <2> QED BY <1>8, <2>1, <2>2
<1> QED BY <1>3, <1>7, <1>9 DEF Watched

(* A start that raises has relieved the old worker and starts none.         *)
LEMMA StartRaisesKeeps == ASSUME Watched, NEW h \in Handlers, StartRaises(h) PROVE Watched'
<1> DEFINE c == handler[h].camera
<1>1. /\ handler[h].phase = "start" /\ handler' = [handler EXCEPT ![h] = Free]
      /\ workers' = Relieved(c)
      /\ UNCHANGED <<rows, lastRow, registry>>
  BY DEF StartRaises
<1>2. c \in Nat
  BY <1>1 DEF Watched, RequestsName, Free
<1>3. RequestsName' /\ \A g \in Handlers : g # h => handler'[g] = handler[g]
  BY <1>1, HandlerStep DEF Watched, RequestsName
<1> HIDE DEF c
<1>4. /\ workers' \in Seq(WorkerType) /\ Len(workers') = Len(workers)
      /\ \A w \in 1 .. Len(workers) : /\ workers'[w].camera = workers[w].camera
                                      /\ workers[w].stop => workers'[w].stop
  BY <1>1, <1>2, RelievedFacts
<1>5. RegistryIsTrue'
  BY <1>1, <1>4 DEF Watched, RegistryIsTrue
<1>6. DOMAIN workers = 1 .. Len(workers) /\ DOMAIN workers' = 1 .. Len(workers)
  BY <1>4 DEF Watched, RegistryIsTrue
<1>7. NoStrayWorker'
  BY <1>1, <1>3, <1>4, <1>6 DEF Watched, NoStrayWorker, Registered
<1> QED BY <1>3, <1>5, <1>7 DEF Watched

(* The other steps of a request start no worker.                            *)
LEMMA RequestKeeps == ASSUME Watched, NEW h \in Handlers PROVE
    /\ Create(h) => Watched'
    /\ Update(h) => Watched'
    /\ Refresh(h) => Watched'
    /\ Delete(h) => Watched'
    /\ CommitDelete(h) => Watched'
    /\ NotStarted(h) => Watched'
<1>1. handler[h] = Free \/ handler[h].camera \in Nat
  BY DEF Watched, RequestsName
<1>2. DOMAIN rows \subseteq Nat /\ lastRow \in Nat
  BY DEF Watched, RequestsName
<1>3. ASSUME Create(h) PROVE Watched'
  <2>1. PICK row \in CameraRow :
          handler' = [handler EXCEPT ![h] = [phase |-> "start", camera |-> lastRow', row |-> row]]
    BY <1>3 DEF Create
  <2> DEFINE q == [phase |-> "start", camera |-> lastRow', row |-> row]
  <2>2. lastRow' \in Nat /\ DOMAIN rows' = DOMAIN rows \cup {lastRow'}
    BY <1>2, <1>3 DEF Create
  <2>3. q.camera \in Nat /\ handler' = [handler EXCEPT ![h] = q] /\ DOMAIN rows' \subseteq Nat
    BY <1>2, <2>1, <2>2
  <2>4. handler[h].phase # "signal" /\ UNCHANGED <<registry, workers>>
    BY <1>3 DEF Create, Accepts, Free
  <2> HIDE DEF q
  <2> QED BY <2>2, <2>3, <2>4, RequestGoesOn
<1>4. ASSUME Update(h) PROVE Watched'
  <2>1. PICK c \in DOMAIN rows, row \in CameraRow :
          /\ rows' = [rows EXCEPT ![c] = row]
          /\ handler' = [handler EXCEPT ![h] = [phase |-> "refresh", camera |-> c]]
    BY <1>4 DEF Update
  <2> DEFINE q == [phase |-> "refresh", camera |-> c]
  <2>2. DOMAIN rows' \subseteq Nat
    BY <1>2, <2>1
  <2>3. q.camera \in Nat /\ handler' = [handler EXCEPT ![h] = q]
    BY <1>2, <2>1
  <2>4. handler[h].phase # "signal" /\ UNCHANGED <<lastRow, registry, workers>>
    BY <1>4 DEF Update, Accepts, Free
  <2> HIDE DEF q
  <2> QED BY <1>2, <2>2, <2>3, <2>4, RequestGoesOn
<1>5. ASSUME Refresh(h) PROVE Watched'
  <2> DEFINE c == handler[h].camera
             q == IF c \in DOMAIN rows
                  THEN [phase |-> "pop", camera |-> c, row |-> rows[c],
                        then |-> IF rows[c].active THEN "start" ELSE "free"]
                  ELSE Free
  <2>1. handler' = [handler EXCEPT ![h] = q] /\ handler[h].phase = "refresh"
    BY <1>5 DEF Refresh
  <2>2. q = Free \/ q.camera \in Nat
    BY <1>2
  <2> HIDE DEF q
  <2> QED BY <1>2, <1>5, <2>1, <2>2, RequestGoesOn DEF Refresh
<1>6. ASSUME Delete(h) PROVE Watched'
  <2>1. PICK c \in DOMAIN rows :
          handler' = [handler EXCEPT ![h] = [phase |-> "pop", camera |-> c, row |-> rows[c],
                                             then |-> "delete"]]
    BY <1>6 DEF Delete
  <2> DEFINE q == [phase |-> "pop", camera |-> c, row |-> rows[c], then |-> "delete"]
  <2>3. q.camera \in Nat /\ handler' = [handler EXCEPT ![h] = q]
    BY <1>2, <2>1
  <2>4. handler[h].phase # "signal" /\ UNCHANGED <<rows, lastRow, registry, workers>>
    BY <1>6 DEF Delete, Accepts, Free
  <2> HIDE DEF q
  <2> QED BY <1>2, <2>3, <2>4, RequestGoesOn
<1>7. ASSUME CommitDelete(h) PROVE Watched'
  <2>1. DOMAIN rows' \subseteq Nat
    BY <1>2, <1>7 DEF CommitDelete, Restrict
  <2> QED BY <1>2, <1>7, <2>1, RequestGoesOn DEF CommitDelete
<1>8. ASSUME NotStarted(h) PROVE Watched'
  BY <1>2, <1>8, RequestGoesOn DEF NotStarted
<1> QED BY <1>3, <1>4, <1>5, <1>6, <1>7, <1>8

(* The threads change neither the camera of a worker nor its flag.         *)
LEMMA ThreadKeeps ==
    ASSUME Watched, NEW v \in DOMAIN workers, UNCHANGED <<rows, lastRow, registry, handler>>,
           \/ workers' = [workers EXCEPT ![v].capture = "raised"]
           \/ workers' = [workers EXCEPT ![v].inference = "ended"]
    PROVE  Watched'
<1>1. workers \in Seq(WorkerType) /\ v \in 1 .. Len(workers) /\ workers[v] \in WorkerType
  BY DEF Watched, RegistryIsTrue
<1>2. PICK u \in WorkerType : /\ workers' = [workers EXCEPT ![v] = u]
                              /\ u.camera = workers[v].camera /\ u.stop = workers[v].stop
  BY <1>1 DEF WorkerType
<1>3. /\ workers' \in Seq(WorkerType) /\ Len(workers') = Len(workers)
      /\ \A w \in 1 .. Len(workers) : /\ workers'[w].camera = workers[w].camera
                                      /\ workers'[w].stop = workers[w].stop
  BY <1>1, <1>2
<1>4. RegistryIsTrue'
  BY <1>3 DEF Watched, RegistryIsTrue
<1>5. DOMAIN workers = 1 .. Len(workers) /\ DOMAIN workers' = 1 .. Len(workers)
  BY <1>1, <1>3
<1>6. NoStrayWorker'
  BY <1>3, <1>5 DEF Watched, NoStrayWorker, Registered
<1>7. RequestsName'
  BY DEF Watched, RequestsName
<1> QED BY <1>4, <1>6, <1>7 DEF Watched

(* However the requests for a camera interleave, a worker that nobody has  *)
(* told to stop, or is about to, is the registered one of its camera: for  *)
(* any number of cameras, request threads and workers.                     *)
THEOREM NoStrayWorkerCorrect == LegacySpec => []NoStrayWorker
<1>1. LegacyInit => Watched
  BY LegacyAssumption DEF LegacyInit, Watched, RequestsName, RegistryIsTrue, NoStrayWorker, Free
<1>2. Watched /\ [LegacyNext]_legacyVars => Watched'
  <2> SUFFICES ASSUME Watched, [LegacyNext]_legacyVars
               PROVE  Watched'
    OBVIOUS
  <2>1. CASE Boot
    BY <2>1, BootKeeps
  <2>2. CASE Shutdown
    BY <2>2, ShutdownKeeps
  <2>3. CASE Request
    BY <2>3, RequestKeeps, PopKeeps, SignalKeeps, StartKeeps, StartRaisesKeeps DEF Request
  <2>4. CASE Capture
    BY <2>4, ThreadKeeps DEF Capture
  <2>5. CASE Inference
    BY <2>5, ThreadKeeps DEF Inference
  <2>6. CASE UNCHANGED legacyVars
    BY <2>6 DEF legacyVars, Watched, RequestsName, RegistryIsTrue, NoStrayWorker, Registered
  <2> QED BY <2>1, <2>2, <2>3, <2>4, <2>5, <2>6 DEF LegacyNext
<1>3. Watched => NoStrayWorker
  BY DEF Watched
<1> QED BY <1>1, <1>2, <1>3, PTL DEF LegacySpec
==============================================================================
