---------------------------- MODULE EventDelivery ----------------------------
(***************************************************************************)
(* How one camera worker's events reach the database: IngestClient with    *)
(* its on-disk EventSpool, and the ingest endpoint with EventProcessor     *)
(* behind it (HTTP), or EventProcessor called in the worker (Direct).      *)
(*                                                                         *)
(* The worker, each request in the API and the failures are interleaved: a *)
(* request goes on after the worker stopped waiting for it, the API and    *)
(* the worker die between any two steps, and the spool outlives both.      *)
(* Every camera has its own spool directory, so workers share only the     *)
(* database, in which their events do not meet.                            *)
(***************************************************************************)
EXTENDS Naturals, Sequences, FiniteSets, SequencesExt

CONSTANTS Events,        \* bound: events the worker makes, numbered in order
          Cap,           \* EventSpool.max_files
          Limit,         \* drain's limit
          MaxTimeouts,   \* bound: posts the worker stops waiting for
          MaxOutages,    \* bound: times the API or the database fails
          MaxExits,      \* bound: times the worker dies or is stopped
          MaxDiskFaults  \* bound: failing reads and writes of the spool

ASSUME SizesAssumption ==
  /\ Events \in Nat /\ Cap \in Nat \ {0} /\ Limit \in Nat \ {0}
  /\ MaxTimeouts \in Nat /\ MaxOutages \in Nat /\ MaxExits \in Nat /\ MaxDiskFaults \in Nat

VARIABLES
  client,    \* HttpIngestClient or DirectIngestClient: "http" or "direct"
  made,      \* events made so far
  task,      \* worker: "loop", "fresh", "drain", or "gone"
  hand,      \* worker: the event being sent, or 0
  wait,      \* worker: what _send knows: "none", "posted", "ok", "failed"
  sent,      \* worker: files drained in this drain
  closing,   \* worker: the drain is the one of close()
  spool,     \* disk: the spooled events, oldest first
  requests,  \* API: requests being handled
  media,     \* disk: events whose pictures are stored; one that could not
             \* be written has no path in the row
  rows,      \* database: rows per event
  apiUp,     \* the API process accepts requests
  dropped,   \* events removed by the cap
  timeouts, outages, exits, diskFaults

workerVars == <<made, task, hand, wait, sent, closing>>
apiVars == <<requests, media, rows, apiUp>>
faultVars == <<timeouts, outages, exits, diskFaults>>
vars == <<client, made, task, hand, wait, sent, closing, spool, requests, media, rows,
          apiUp, dropped, timeouts, outages, exits, diskFaults>>

Event == 1..Events
Attempt == 0..(MaxTimeouts + MaxExits)
Request == [event : Event, attempt : Attempt,
            stage : {"lookup", "save", "insert", "stored", "duplicate"}]

(* The attempt the worker is at: one that was left alone has a lower one.   *)
ThisAttempt == timeouts + exits
Awaited(r) == wait = "posted" /\ r.attempt = ThisAttempt

-----------------------------------------------------------------------------
(* IngestClient *)

(* A result is published: submit sends it at once, past what is spooled.    *)
Make ==
  /\ task = "loop" /\ made < Events
  /\ made' = made + 1
  /\ hand' = made + 1
  /\ task' = "fresh"
  /\ wait' = "none"
  /\ UNCHANGED <<client, sent, closing, spool, apiVars, dropped, faultVars>>

(* HttpIngestClient._send: the request reaches the API, or nobody answers.  *)
Post ==
  /\ client = "http" /\ hand # 0 /\ wait = "none"
  /\ wait' = "posted"
  /\ requests' = IF apiUp
                 THEN requests \union {[event |-> hand, attempt |-> ThisAttempt, stage |-> "lookup"]}
                 ELSE requests
  /\ UNCHANGED <<client, made, task, hand, sent, closing, spool, media, rows, apiUp, dropped, faultVars>>

ConnectionError ==
  /\ wait = "posted"
  /\ ~\E r \in requests : Awaited(r)
  /\ wait' = "failed"
  /\ UNCHANGED <<client, made, task, hand, sent, closing, spool, apiVars, dropped, faultVars>>

(* No answer within the timeout; the request goes on without the worker.    *)
Timeout ==
  /\ timeouts < MaxTimeouts
  /\ \E r \in requests : Awaited(r)
  /\ wait' = "failed"
  /\ timeouts' = timeouts + 1
  /\ UNCHANGED <<client, made, task, hand, sent, closing, spool, apiVars, dropped, outages, exits, diskFaults>>

(* DirectIngestClient._send: one transaction in the worker.  DuplicateEvent *)
(* is an exception like any other; so is a commit whose outcome is unknown. *)
SendDirect ==
  /\ client = "direct" /\ hand # 0 /\ wait = "none"
  /\ \/ /\ rows[hand] > 0
        /\ wait' = "failed"
        /\ UNCHANGED <<client, media, rows, outages>>
     \/ /\ rows[hand] = 0
        /\ media' = media \union {hand}
        /\ rows' = [rows EXCEPT ![hand] = @ + 1]
        /\ \/ wait' = "ok" /\ UNCHANGED outages
           \/ wait' = "failed" /\ outages < MaxOutages /\ outages' = outages + 1
     \/ /\ outages < MaxOutages
        /\ outages' = outages + 1
        /\ wait' = "failed"
        /\ UNCHANGED <<client, media, rows>>
  /\ UNCHANGED <<client, made, task, hand, sent, closing, spool, requests, apiUp, dropped,
                 timeouts, exits, diskFaults>>

FreshSent ==
  /\ task = "fresh" /\ wait = "ok"
  /\ task' = "loop" /\ hand' = 0 /\ wait' = "none"
  /\ UNCHANGED <<client, made, sent, closing, spool, apiVars, dropped, faultVars>>

(* EventSpool.add and _enforce_cap: the oldest files go first. *)
FreshSpooled ==
  /\ task = "fresh" /\ wait = "failed"
  /\ LET files == Append(spool, hand)
         excess == IF Len(files) > Cap THEN Len(files) - Cap ELSE 0
     IN /\ spool' = SubSeq(files, excess + 1, Len(files))
        /\ dropped' = dropped + excess
  /\ task' = "loop" /\ hand' = 0 /\ wait' = "none"
  /\ UNCHANGED <<client, made, sent, closing, apiVars, faultVars>>

(* add's OSError: logged, and the event is gone. *)
SpoolWriteFails ==
  /\ task = "fresh" /\ wait = "failed"
  /\ diskFaults < MaxDiskFaults
  /\ diskFaults' = diskFaults + 1
  /\ task' = "loop" /\ hand' = 0 /\ wait' = "none"
  /\ UNCHANGED <<client, made, sent, closing, spool, apiVars, dropped, timeouts, outages, exits>>

(* drain_spool on an iteration without a frame, when its interval is over.  *)
StartDrain ==
  /\ task = "loop" /\ spool # <<>>
  /\ task' = "drain" /\ hand' = 0 /\ wait' = "none" /\ sent' = 0
  /\ UNCHANGED <<client, made, closing, spool, apiVars, dropped, faultVars>>

DrainNext ==
  /\ task = "drain" /\ hand = 0 /\ wait = "none"
  /\ spool # <<>> /\ sent < Limit
  /\ hand' = Head(spool)
  /\ UNCHANGED <<client, made, task, wait, sent, closing, spool, apiVars, dropped, faultVars>>

(* pending() deletes a file that it cannot read. *)
DiscardUnreadable ==
  /\ task = "drain" /\ hand = 0 /\ wait = "none"
  /\ spool # <<>>
  /\ diskFaults < MaxDiskFaults
  /\ diskFaults' = diskFaults + 1
  /\ spool' = Tail(spool)
  /\ UNCHANGED <<client, workerVars, apiVars, dropped, timeouts, outages, exits>>

(* Mutant: the file is removed whatever became of the submission. *)
DrainedAnyway ==
  /\ task = "drain" /\ wait \in {"ok", "failed"}
  /\ spool' = Tail(spool)
  /\ sent' = sent + 1
  /\ hand' = 0 /\ wait' = "none"
  /\ UNCHANGED <<client, made, task, closing, apiVars, dropped, faultVars>>

(* Submitted: unlink the file and go on. *)
Drained ==
  /\ task = "drain" /\ wait = "ok"
  /\ spool' = Tail(spool)
  /\ sent' = sent + 1
  /\ hand' = 0 /\ wait' = "none"
  /\ UNCHANGED <<client, made, task, closing, apiVars, dropped, faultVars>>

(* The first failure, the limit or the last file ends the drain. *)
DrainEnds ==
  /\ task = "drain"
  /\ \/ wait = "failed"
     \/ hand = 0 /\ wait = "none" /\ (spool = <<>> \/ sent >= Limit)
  /\ task' = IF closing THEN "gone" ELSE "loop"
  /\ hand' = 0 /\ wait' = "none"
  /\ UNCHANGED <<client, made, sent, closing, spool, apiVars, dropped, faultVars>>

(* close(): a last forced drain. *)
Close ==
  /\ task = "loop" /\ exits < MaxExits
  /\ exits' = exits + 1
  /\ closing' = TRUE
  /\ task' = "drain" /\ sent' = 0
  /\ UNCHANGED <<client, made, hand, wait, spool, apiVars, dropped, timeouts, outages, diskFaults>>

(* The worker process dies, with what it had in hand. *)
Killed ==
  /\ task # "gone" /\ exits < MaxExits
  /\ exits' = exits + 1
  /\ task' = "gone" /\ hand' = 0 /\ wait' = "none" /\ closing' = FALSE
  /\ UNCHANGED <<client, made, sent, spool, apiVars, dropped, timeouts, outages, diskFaults>>

(* The supervisor starts it again. *)
Respawn ==
  /\ task = "gone"
  /\ task' = "loop" /\ closing' = FALSE /\ sent' = 0
  /\ UNCHANGED <<client, made, hand, wait, spool, apiVars, dropped, faultVars>>

-----------------------------------------------------------------------------
(* The API: ingest_event and EventProcessor.ingest, one request each *)

Moves(r, stage) == requests' = (requests \ {r}) \union {[r EXCEPT !.stage = stage]}

Answers(r, outcome) ==
  /\ requests' = requests \ {r}
  /\ wait' = IF Awaited(r) THEN outcome ELSE wait

(* by_uid: DuplicateEvent when the row is there. *)
Lookup(r) ==
  /\ r.stage = "lookup"
  /\ Moves(r, IF rows[r.event] > 0 THEN "duplicate" ELSE "save")
  /\ UNCHANGED <<client, workerVars, spool, media, rows, apiUp, dropped, faultVars>>

SaveMedia(r) ==
  /\ r.stage = "save"
  /\ media' = media \union {r.event}
  /\ Moves(r, "insert")
  /\ UNCHANGED <<client, workerVars, spool, rows, apiUp, dropped, faultVars>>

(* Mutant: event_uid without its unique index. *)
InsertAgain(r) ==
  /\ r.stage = "insert"
  /\ rows' = [rows EXCEPT ![r.event] = @ + 1]
  /\ Moves(r, "stored")
  /\ UNCHANGED <<client, workerVars, spool, media, apiUp, dropped, faultVars>>

(* Insert and commit, if no other request was faster. *)
Insert(r) ==
  /\ r.stage = "insert" /\ rows[r.event] = 0
  /\ rows' = [rows EXCEPT ![r.event] = @ + 1]
  /\ Moves(r, "stored")
  /\ UNCHANGED <<client, workerVars, spool, media, apiUp, dropped, faultVars>>

(* The unique index refuses the second row: rolled back, 500. *)
InsertRefused(r) ==
  /\ r.stage = "insert" /\ rows[r.event] > 0
  /\ Answers(r, "failed")
  /\ UNCHANGED <<client, made, task, hand, sent, closing, spool, media, rows, apiUp, dropped, faultVars>>

(* Mutant: only 201 tells the worker that its event is stored. *)
AcknowledgeOnlyCreated(r) ==
  /\ r.stage \in {"stored", "duplicate"}
  /\ Answers(r, IF r.stage = "stored" THEN "ok" ELSE "failed")
  /\ UNCHANGED <<client, made, task, hand, sent, closing, spool, media, rows, apiUp, dropped, faultVars>>

(* 201 created or 409 duplicate: both tell the worker to drop its draft.    *)
Acknowledge(r) ==
  /\ r.stage \in {"stored", "duplicate"}
  /\ Answers(r, "ok")
  /\ UNCHANGED <<client, made, task, hand, sent, closing, spool, media, rows, apiUp, dropped, faultVars>>

(* The database fails under the request: rolled back, 500. *)
DatabaseFails(r) ==
  /\ r.stage \in {"lookup", "save", "insert"}
  /\ outages < MaxOutages
  /\ outages' = outages + 1
  /\ Answers(r, "failed")
  /\ UNCHANGED <<client, made, task, hand, sent, closing, spool, media, rows, apiUp, dropped,
                 timeouts, exits, diskFaults>>

Handle(r) ==
  Lookup(r) \/ SaveMedia(r) \/ Insert(r) \/ InsertRefused(r) \/ Acknowledge(r)

ApiDies ==
  /\ apiUp /\ outages < MaxOutages
  /\ outages' = outages + 1
  /\ apiUp' = FALSE
  /\ requests' = {}
  /\ UNCHANGED <<client, workerVars, spool, media, rows, dropped, timeouts, exits, diskFaults>>

ApiStarts ==
  /\ ~apiUp
  /\ apiUp' = TRUE
  /\ UNCHANGED <<client, workerVars, spool, requests, media, rows, dropped, faultVars>>

-----------------------------------------------------------------------------
Init ==
  /\ client \in {"http", "direct"}
  /\ made = 0
  /\ task = "loop" /\ hand = 0 /\ wait = "none" /\ sent = 0 /\ closing = FALSE
  /\ spool = <<>>
  /\ requests = {} /\ media = {}
  /\ rows = [e \in Event |-> 0]
  /\ apiUp \in BOOLEAN
  /\ dropped = 0
  /\ timeouts = 0 /\ outages = 0 /\ exits = 0 /\ diskFaults = 0

(* What the worker does by itself once it has begun. *)
Worker ==
  \/ Post \/ ConnectionError \/ SendDirect
  \/ FreshSent \/ FreshSpooled
  \/ DrainNext \/ Drained \/ DrainEnds
  \/ Respawn

Environment ==
  \/ Timeout \/ SpoolWriteFails \/ DiscardUnreadable
  \/ Close \/ Killed \/ ApiDies
  \/ \E r \in requests : DatabaseFails(r)

Next ==
  \/ Make \/ StartDrain \/ Worker \/ Environment \/ ApiStarts
  \/ \E r \in requests : Handle(r)

Spec == Init /\ [][Next]_vars

(* The worker and the API run and the API is started again; failures are   *)
(* bounded, and vehicles keep coming until the bound.                       *)
Fairness ==
  /\ WF_vars(Worker)
  /\ WF_vars(Make)
  /\ WF_vars(ApiStarts)
  /\ WF_vars(\E r \in requests : Handle(r))

(* A camera whose stream delivers a frame at every iteration.               *)
BusySpec == Spec /\ Fairness

(* A camera whose stream leaves an iteration without a frame ever again.    *)
QuietSpec == BusySpec /\ WF_vars(StartDrain)

-----------------------------------------------------------------------------
(* Properties *)

TypeOK ==
  /\ client \in {"http", "direct"}
  /\ made \in 0..Events /\ hand \in 0..made
  /\ task \in {"loop", "fresh", "drain", "gone"}
  /\ wait \in {"none", "posted", "ok", "failed"}
  /\ sent \in 0..Limit /\ closing \in BOOLEAN
  /\ spool \in Seq(1..made) /\ Len(spool) <= Cap
  /\ requests \in SUBSET Request
  /\ media \in SUBSET (1..made) /\ rows \in [Event -> Nat]
  /\ apiUp \in BOOLEAN /\ dropped \in Nat
  /\ timeouts \in 0..MaxTimeouts /\ outages \in 0..MaxOutages
  /\ exits \in 0..MaxExits /\ diskFaults \in 0..MaxDiskFaults

(* However often an event is sent, and however many requests for it are in  *)
(* the API at once, it is stored once, and with its pictures, which are     *)
(* written outside the transaction.                                         *)
StoredOnce == \A e \in Event : rows[e] <= 1 /\ (rows[e] = 1 => e \in media)

(* An event is on record, spooled, in the worker's hand or on its way; the  *)
(* others were lost to a disk fault, the cap, or one exit of the worker     *)
(* each.                                                                    *)
Lost ==
  {e \in 1..made : /\ rows[e] = 0
                   /\ e \notin ToSet(spool)
                   /\ e # hand
                   /\ \A r \in requests : r.event # e}

LossIsAccounted == Cardinality(Lost) <= exits + diskFaults + dropped

(* Over HTTP nothing stays in the spool for ever.  (DirectIngestClient      *)
(* takes the DuplicateEvent of an event it has stored for a failure, and    *)
(* offers its file again and again.)                                        *)
SpooledIsDelivered ==
  \A e \in Event :
    (client = "http" /\ e \in ToSet(spool)) ~> (e \notin ToSet(spool))
==============================================================================
