----------------------------- MODULE EventService -----------------------------
(***************************************************************************)
(* What the API makes of a stored event: the match with the registry and   *)
(* its status (repositories/vehicle_repo.py), the alert rules and their    *)
(* cooldown (events/rules_engine.py), and the operator's correction that   *)
(* teaches an alias (services/event_service.py).  Requests run at the same *)
(* time, each in one database transaction: it reads what others have       *)
(* committed, and its own rows appear when it commits.  What the two       *)
(* inferring tiers of the match answer is a parameter, studied in          *)
(* PlateText.                                                              *)
(***************************************************************************)
EXTENDS Integers, Sequences, FiniteSets

CONSTANTS
    Texts,       \* what a camera may read
    Vehicles,    \* active vehicles: plate -> "registered", "blacklist" or "expired"
    Inferred,    \* text -> the plate the confusable and nearest tiers answer
    Rules,       \* enabled alert_rules rows: [code, cooldown, cameras], no cameras: all
    Drafts,      \* [read, direction, confidence, disputed, camera]
    MinConfidence, Threshold, Window,      \* parameters of the rules
    NightFrom, NightTo, DayLength,
    Requests, MaxEvents, MaxCorrections, MaxClock

ASSUME RulesAssumption == \A rule \in Rules : rule.cooldown \in Int

VARIABLES clock,
          aliases,    \* plate_aliases: text -> plate
          events,     \* committed rows, in order
          alerts,     \* committed rows
          request,    \* request -> [phase, event, alerts, begun]
          lessons     \* history: the corrections, numbered, and what each taught

serviceVars == <<clock, aliases, events, alerts, request, lessons>>

NoText == "none"
NoVehicle == "nobody"

Idle == [phase |-> "idle"]

ServiceInit ==
    /\ clock = 0
    /\ aliases = <<>>
    /\ events = <<>>
    /\ alerts = {}
    /\ request = [r \in Requests |-> Idle]
    /\ lessons = {}

-----------------------------------------------------------------------------
InferredFor(text) == IF text \in DOMAIN Inferred THEN Inferred[text] ELSE NoVehicle

(* match(): exact, alias, then inferred; a vehicle is named by its plate.  *)
Match(text) ==
    IF text \in DOMAIN Vehicles THEN text
    ELSE IF text \in DOMAIN aliases THEN aliases[text]
    ELSE InferredFor(text)

ResolveStatus(vehicle) ==
    IF vehicle = NoVehicle THEN "unknown"
    ELSE IF Vehicles[vehicle] = "expired" THEN "unknown"
    ELSE Vehicles[vehicle]

(* The row that ingest() inserts for a draft; filed, concerned and known   *)
(* are history: its plate before any correction, the rules it concerns,    *)
(* and how many corrections came before it.                                *)
Row(draft) ==
    LET vehicle == IF draft.read = NoText THEN NoVehicle ELSE Match(draft.read) IN
    LET plate == IF vehicle = NoVehicle THEN draft.read ELSE vehicle IN
    [read |-> draft.read, plate |-> plate, vehicle |-> vehicle, status |-> ResolveStatus(vehicle),
     direction |-> draft.direction, confidence |-> draft.confidence,
     disputed |-> draft.disputed, camera |-> draft.camera, at |-> clock, manual |-> FALSE,
     filed |-> plate, concerned |-> {}, known |-> Cardinality(lessons)]

-----------------------------------------------------------------------------
(* The rules.                                                              *)
IsNight(at) ==
    LET moment == at % DayLength IN
    IF NightFrom > NightTo THEN NightFrom <= moment \/ moment < NightTo
    ELSE NightFrom <= moment /\ moment < NightTo

(* recent_for_vehicle(): committed rows and the one just inserted.         *)
RecentCount(e) ==
    1 + Cardinality({i \in DOMAIN events : events[i].plate = e.plate /\ events[i].at >= clock - Window})

Fires(code, e) ==
    CASE code = "blacklisted_vehicle" -> e.status = "blacklist"
      [] code = "unknown_vehicle"     -> /\ e.status = "unknown"
                                         /\ e.direction = "in"
                                         /\ e.confidence >= MinConfidence
      [] code = "expired_permit"      -> e.vehicle # NoVehicle /\ Vehicles[e.vehicle] = "expired"
      [] code = "after_hours_entry"   -> /\ e.direction = "in"
                                         /\ IsNight(e.at)
                                         /\ e.status = "unknown"
      [] code = "repeated_unknown"    -> e.status = "unknown" /\ RecentCount(e) >= Threshold
      [] code = "low_confidence"      -> e.confidence < MinConfidence \/ e.disputed
      [] OTHER                        -> FALSE    \* an unknown code, or a check that raises

(* Mutant: the cooldown is over at its last moment.                        *)
CooldownExclusive(rule, plate) ==
    \E a \in alerts :
        a.code = rule.code /\ events[a.event].plate = plate /\ a.at > clock - rule.cooldown

(* Mutant: the cooldown of a rule is shared by all plates.                 *)
CoolingForAll(rule, plate) ==
    rule.cooldown > 0 /\ \E a \in alerts : a.code = rule.code /\ a.at >= clock - rule.cooldown

(* _in_cooldown(): the alert is looked up by the plate its event has now.  *)
InCooldown(rule, plate) ==
    /\ rule.cooldown > 0
    /\ \E a \in alerts :
         /\ a.code = rule.code
         /\ events[a.event].plate = plate
         /\ a.at >= clock - rule.cooldown

(* evaluate(): no rule without a plate, none of another camera, and a rule *)
(* that raises is skipped.                                                 *)
Concerned(e) ==
    {rule \in Rules : /\ e.plate # NoText
                      /\ rule.cameras = {} \/ e.camera \in rule.cameras
                      /\ Fires(rule.code, e)}

-----------------------------------------------------------------------------
Underway == Cardinality({r \in Requests : request[r].phase = "open"})

(* ingest(), up to the commit.                                             *)
Ingest(r) ==
    /\ request[r].phase = "idle"
    /\ Len(events) + Underway < MaxEvents
    /\ \E draft \in Drafts :
         LET e == Row(draft) IN
         request' = [request EXCEPT ![r] =
                       [phase |-> "open", seen |-> Len(events),
                        event |-> [e EXCEPT !.concerned = Concerned(e)],
                        raised |-> {rule \in Concerned(e) : ~InCooldown(rule, e.plate)}]]
    /\ UNCHANGED <<clock, aliases, events, alerts, lessons>>

(* The caller commits.                                                     *)
CommitIngest(r) ==
    /\ request[r].phase = "open"
    /\ LET q == request[r] IN
       /\ events' = Append(events, q.event)
       /\ alerts' = alerts \cup
            {[code |-> rule.code, cooldown |-> rule.cooldown,
              event |-> Len(events) + 1, plate |-> q.event.plate,
              at |-> q.event.at, seen |-> q.seen] : rule \in q.raised}
    /\ request' = [request EXCEPT ![r] = Idle]
    /\ UNCHANGED <<clock, aliases, lessons>>

(* The database fails: nothing of the request is kept.                     *)
AbortIngest(r) ==
    /\ request[r].phase = "open"
    /\ request' = [request EXCEPT ![r] = Idle]
    /\ UNCHANGED <<clock, aliases, events, alerts, lessons>>

(* Mutant: the alias is learned the wrong way round.                       *)
LearnedBackwards(original, vehicle) ==
    [t \in DOMAIN aliases \cup {vehicle} |-> IF t \in DOMAIN aliases THEN aliases[t] ELSE vehicle]

(* add_alias(): an alias that exists is left as it is.                     *)
Learned(original, vehicle) ==
    [t \in DOMAIN aliases \cup {original} |-> IF t \in DOMAIN aliases THEN aliases[t] ELSE vehicle]

(* correct(), as often as operators like, also of an event corrected       *)
(* before.  They may leave learn_alias on.                                 *)
Correct ==
    /\ Cardinality(lessons) < MaxCorrections
    /\ \E i \in DOMAIN events, corrected \in Texts, learn \in BOOLEAN :
         LET original == events[i].plate
             vehicle == Match(corrected)
             learns == learn /\ vehicle # NoVehicle /\ original # NoText /\ original # corrected
         IN /\ events' = [events EXCEPT ![i].plate = corrected, ![i].vehicle = vehicle,
                                        ![i].status = ResolveStatus(vehicle), ![i].manual = TRUE,
                                        ![i].disputed = FALSE]
            /\ aliases' = IF learns THEN Learned(original, vehicle) ELSE aliases
            /\ lessons' = lessons \cup
                 {[number |-> Cardinality(lessons) + 1, event |-> i, corrected |-> corrected,
                   learns |-> learns, read |-> events[i].read, original |-> original, vehicle |-> vehicle,
                   taught |-> original \in DOMAIN aliases]}
    /\ UNCHANGED <<clock, alerts, request>>

ClockTicks ==
    /\ clock < MaxClock
    /\ clock' = clock + 1
    /\ UNCHANGED <<aliases, events, alerts, request, lessons>>

ServiceNext ==
    \/ \E r \in Requests : Ingest(r) \/ CommitIngest(r) \/ AbortIngest(r)
    \/ Correct
    \/ ClockTicks

ServiceSpec == ServiceInit /\ [][ServiceNext]_serviceVars

-----------------------------------------------------------------------------
CorrectionsBefore(i, e) == {l \in lessons : l.event = i /\ l.number <= e.known}

(* Two alerts of one rule for one plate are a cooldown apart, unless the   *)
(* request that raised the later one had begun before the other committed  *)
(* (_in_cooldown reads what is committed), or before it began an operator  *)
(* had corrected the first one's event.                                    *)
AlertsAreSpaced ==
    \A a, b \in alerts :
        (/\ a.code = b.code /\ a.plate = b.plate /\ a.event < b.event
         /\ b.cooldown > 0)
        => \/ b.at - a.at > b.cooldown
           \/ b.seen < a.event
           \/ CorrectionsBefore(a.event, events[b.event]) # {}

(* No vehicle is passed over in silence: an event that a rule concerns has *)
(* its alert, or within the rule's cooldown there is one of an event that  *)
(* stood under the same plate, as it was filed or as an operator had       *)
(* corrected it by then.  No later correction takes the alert away.        *)
NothingMuted ==
    \A i \in DOMAIN events :
        \A rule \in events[i].concerned :
            \E a \in alerts :
                /\ a.code = rule.code
                /\ \/ a.event = i
                   \/ /\ events[i].at - a.at <= rule.cooldown
                      /\ events[i].filed \in
                           {a.plate} \cup {l.corrected : l \in CorrectionsBefore(a.event, events[i])}

LessonsBefore(e) == {l \in lessons : l.learns /\ l.number <= e.known}

(* What an operator taught is applied: a misread that was no plate of the  *)
(* registry and no alias yet, and was corrected to a registered vehicle,   *)
(* files the later events that read it under that vehicle.                 *)
LessonsApply ==
    \A i \in DOMAIN events :
        \A l \in LessonsBefore(events[i]) :
            (/\ events[i].read = l.read /\ ~events[i].manual
             /\ l.read = l.original /\ ~l.taught /\ l.read \notin DOMAIN Vehicles)
            => events[i].vehicle = l.vehicle

(* correct(): "Recording the original read as an alias is the cheap half   *)
(* of the feedback loop: the same camera will make the same mistake on the *)
(* same vehicle tomorrow."                                                 *)
ReadIsLearned ==
    \A i \in DOMAIN events :
        \A l \in LessonsBefore(events[i]) :
            (/\ events[i].read = l.read /\ ~events[i].manual
             /\ ~l.taught /\ l.read \notin DOMAIN Vehicles)
            => events[i].vehicle = l.vehicle
===============================================================================
