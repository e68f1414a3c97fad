----------------------------- MODULE VlmService ------------------------------
(***************************************************************************)
(* The socket clients of the camera workers and the one VLM service they   *)
(* share (backend/app/vlm/client.py, server.py).                           *)
(*                                                                         *)
(* Threads: each camera's pipeline thread (Submit, Poll), each client's    *)
(* I/O thread (one tick at a time, the lock released between the steps of  *)
(* a tick), one handler thread per connection and one inference thread in  *)
(* the service.  A connection is a pair <<camera, generation>>; bytes      *)
(* already written survive the closing of the other end for a while, and   *)
(* the service process may die and be started again at any moment.         *)
(***************************************************************************)
EXTENDS Naturals, Sequences, FiniteSets, SequencesExt

CONSTANTS Camera,
          JobsPerCamera,   \* bound: jobs a camera submits
          Workloads,       \* sets of jobs that the pipelines may submit
          MaxConnections,  \* bound: connections a camera opens
          MaxCrashes,      \* bound: times the service dies
          ClientPending,   \* VlmConfig.client_pending
          QueueSize,       \* VlmConfig.queue_size
          Undecodable,     \* jobs decode_job may raise on
          Unencodable      \* jobs encode_job may raise on

Job == Camera \X (1..JobsPerCamera)
Owner(j) == j[1]
JobsOf(c) == {j \in Job : Owner(j) = c}

ASSUME BoundsAssumption ==
  /\ JobsPerCamera \in Nat /\ MaxConnections \in Nat /\ MaxCrashes \in Nat
  /\ ClientPending \in Nat \ {0} /\ QueueSize \in Nat \ {0}
ASSUME JobsAssumption ==
  Workloads \subseteq SUBSET Job /\ Undecodable \subseteq Job /\ Unencodable \subseteq Job

VARIABLES
  fresh,     \* jobs the pipeline has not submitted
  outbox,    \* client: _outbox
  inflight,  \* client: _inflight
  results,   \* client: _results, what poll() will return
  got,       \* history: every status a job was ever answered with
  io,        \* client: where the I/O thread is in its tick
  conn,      \* client: _conn, the generation of its connection or 0
  opened,    \* generations used so far
  toServer,  \* bytes on their way to the service, per connection
  toClient,  \* bytes on their way back
  handler,   \* service: connections whose handler thread is in its loop
  alive,     \* service: connections whose _Reply.alive is set
  queue,     \* service: _queue
  running,   \* service: the job the inference thread executes, or <<>>
  up,        \* the service process is running
  crashes    \* times it died

pipelineVars == <<fresh>>
clientVars == <<outbox, inflight, results, got, io, conn, opened>>
wireVars == <<toServer, toClient>>
serverVars == <<handler, alive, queue, running, up, crashes>>
vars == <<fresh, outbox, inflight, results, got, io, conn, opened,
          toServer, toClient, handler, alive, queue, running, up, crashes>>

Connection == Camera \X (1..MaxConnections)
Status == {"ok", "error", "overflow", "expired", "unavailable"}
Answer == [job : Job, status : Status]
Entry == [conn : Connection, job : Job]

(* The client still holds its end of connection k. *)
Holds(k) == conn[k[1]] = k[2]

-----------------------------------------------------------------------------
(* SocketVlmClient, pipeline thread *)

(* Jobs are numbered in the order in which the pipeline makes them. *)
NextJob(j) == j \in fresh /\ \A i \in fresh : Owner(i) = Owner(j) => j[2] <= i[2]

(* Mutant: the bound looks at the outbox alone. *)
SubmitCountsOutbox(j) ==
  LET c == Owner(j)
  IN /\ io[c] # "closed"
     /\ NextJob(j)
     /\ fresh' = fresh \ {j}
     /\ outbox' = IF Len(outbox[c]) >= ClientPending
                  THEN outbox
                  ELSE [outbox EXCEPT ![c] = Append(@, j)]
     /\ UNCHANGED <<inflight, results, got, io, conn, opened, wireVars, serverVars>>

(* submit: queued, or refused and never queued. *)
Submit(j) ==
  LET c == Owner(j)
  IN /\ io[c] # "closed"
     /\ NextJob(j)
     /\ fresh' = fresh \ {j}
     /\ outbox' = IF Len(outbox[c]) + Cardinality(inflight[c]) >= ClientPending
                  THEN outbox
                  ELSE [outbox EXCEPT ![c] = Append(@, j)]
     /\ UNCHANGED <<inflight, results, got, io, conn, opened, wireVars, serverVars>>

Poll(c) ==
  /\ io[c] # "closed"
  /\ results[c] # {}
  /\ results' = [results EXCEPT ![c] = {}]
  /\ UNCHANGED <<pipelineVars, outbox, inflight, got, io, conn, opened, wireVars, serverVars>>

-----------------------------------------------------------------------------
(* SocketVlmClient, I/O thread *)

(* Answer every job of S with the same failure. *)
FailJobs(c, S) ==
  /\ results' = [results EXCEPT ![c] = @ \union {[job |-> j, status |-> "unavailable"] : j \in S}]
  /\ got' = [j \in Job |-> IF j \in S THEN Append(got[j], "unavailable") ELSE got[j]]

(* Mutant: dropping the connection forgets what was sent on it. *)
DropConnectionForgets(c) ==
  /\ conn' = [conn EXCEPT ![c] = 0]
  /\ inflight' = [inflight EXCEPT ![c] = {}]
  /\ UNCHANGED <<results, got>>

(* _drop_connection: what was sent and not answered fails. *)
DropConnection(c) ==
  /\ conn' = [conn EXCEPT ![c] = 0]
  /\ inflight' = [inflight EXCEPT ![c] = {}]
  /\ FailJobs(c, inflight[c])

Connected(c) ==
  /\ io[c] = "tick" /\ conn[c] = 0
  /\ up /\ opened[c] < MaxConnections
  /\ opened' = [opened EXCEPT ![c] = @ + 1]
  /\ conn' = [conn EXCEPT ![c] = opened[c] + 1]
  /\ handler' = handler \union {<<c, opened[c] + 1>>}
  /\ alive' = alive \union {<<c, opened[c] + 1>>}
  /\ io' = [io EXCEPT ![c] = "send"]
  /\ UNCHANGED <<pipelineVars, outbox, inflight, results, got, wireVars, queue, running,
                 up, crashes>>

(* No connection: the service is down, refuses, or the retry interval has   *)
(* not passed.  Everything queued fails now.                                *)
NotConnected(c) ==
  /\ io[c] = "tick" /\ conn[c] = 0
  /\ FailJobs(c, inflight[c] \union ToSet(outbox[c]))
  /\ inflight' = [inflight EXCEPT ![c] = {}]
  /\ outbox' = [outbox EXCEPT ![c] = <<>>]
  /\ UNCHANGED <<pipelineVars, io, conn, opened, wireVars, serverVars>>

StillConnected(c) ==
  /\ io[c] = "tick" /\ conn[c] # 0
  /\ io' = [io EXCEPT ![c] = "send"]
  /\ UNCHANGED <<pipelineVars, outbox, inflight, results, got, conn, opened, wireVars, serverVars>>

(* _send_outbox: pop one job under the lock; it is sent outside the lock.   *)
TakeFromOutbox(c) ==
  /\ io[c] = "send" /\ outbox[c] # <<>>
  /\ inflight' = [inflight EXCEPT ![c] = @ \union {Head(outbox[c])}]
  /\ outbox' = [outbox EXCEPT ![c] = Tail(@)]
  /\ io' = [io EXCEPT ![c] = "sending"]
  /\ UNCHANGED <<pipelineVars, results, got, conn, opened, wireVars, serverVars>>

(* The job last taken from the outbox: in flight and not on the wire.       *)
Sending(c, j) ==
  /\ io[c] = "sending"
  /\ j = (CHOOSE i \in inflight[c] : \A k \in inflight[c] : k[2] <= i[2])

SendJob(c, j) ==
  /\ Sending(c, j)
  /\ toServer' = [toServer EXCEPT ![<<c, conn[c]>>] = Append(@, j)]
  /\ io' = [io EXCEPT ![c] = "send"]
  /\ UNCHANGED <<pipelineVars, outbox, inflight, results, got, conn, opened, toClient, serverVars>>

(* The send fails because the peer is gone, or the job cannot be encoded.   *)
SendFails(c, j) ==
  /\ Sending(c, j)
  /\ j \in Unencodable \/ <<c, conn[c]>> \notin handler
  /\ DropConnection(c)
  /\ io' = [io EXCEPT ![c] = "tick"]
  /\ UNCHANGED <<pipelineVars, outbox, opened, wireVars, serverVars>>

OutboxSent(c) ==
  /\ io[c] = "send" /\ outbox[c] = <<>>
  /\ io' = [io EXCEPT ![c] = "recv"]
  /\ UNCHANGED <<pipelineVars, outbox, inflight, results, got, conn, opened, wireVars, serverVars>>

(* One result is read, or none has arrived. *)
Receive(c) ==
  LET k == <<c, conn[c]>>
  IN /\ io[c] = "recv"
     /\ toClient[k] # <<>>
     /\ LET r == Head(toClient[k])
        IN /\ inflight' = [inflight EXCEPT ![c] = @ \ {r.job}]
           /\ results' = [results EXCEPT ![c] = @ \union {r}]
           /\ got' = [got EXCEPT ![r.job] = Append(@, r.status)]
     /\ toClient' = [toClient EXCEPT ![k] = Tail(@)]
     /\ io' = [io EXCEPT ![c] = "tick"]
     /\ UNCHANGED <<pipelineVars, outbox, conn, opened, toServer, serverVars>>

NothingYet(c) ==
  /\ io[c] = "recv" /\ toClient[<<c, conn[c]>>] = <<>> /\ <<c, conn[c]>> \in handler
  /\ io' = [io EXCEPT ![c] = "tick"]
  /\ UNCHANGED <<pipelineVars, outbox, inflight, results, got, conn, opened, wireVars, serverVars>>

(* recv raises: the service closed its end, perhaps losing what it sent.    *)
ConnectionLost(c) ==
  /\ io[c] = "recv" /\ <<c, conn[c]>> \notin handler
  /\ DropConnection(c)
  /\ io' = [io EXCEPT ![c] = "tick"]
  /\ UNCHANGED <<pipelineVars, outbox, opened, wireVars, serverVars>>

(* close(): the thread is joined between two ticks, the connection dropped. *)
Close(c) ==
  /\ io[c] = "tick"
  /\ DropConnection(c)
  /\ io' = [io EXCEPT ![c] = "closed"]
  /\ UNCHANGED <<pipelineVars, outbox, opened, wireVars, serverVars>>

-----------------------------------------------------------------------------
(* VlmServer *)

(* _Reply.send: to the connection the job came from, while it lives; a send *)
(* to a peer that has closed may still be accepted, or fail and mark it.    *)
Reply(k, r) ==
  \/ /\ k \in alive
     /\ toClient' = [toClient EXCEPT ![k] = Append(@, r)]
     /\ UNCHANGED alive
  \/ /\ k \in alive /\ ~Holds(k)
     /\ alive' = alive \ {k}
     /\ UNCHANGED toClient
  \/ /\ k \notin alive
     /\ UNCHANGED <<alive, toClient>>

Arrived(k) == k \in handler /\ toServer[k] # <<>>

(* _handle: an undecodable job is logged and nothing is answered. *)
HandleUndecodable(k) ==
  /\ Arrived(k)
  /\ Head(toServer[k]) \in Undecodable
  /\ toServer' = [toServer EXCEPT ![k] = Tail(@)]
  /\ UNCHANGED <<pipelineVars, clientVars, toClient, serverVars>>

HandleEnqueue(k) ==
  /\ Arrived(k)
  /\ Len(queue) < QueueSize
  /\ queue' = Append(queue, [conn |-> k, job |-> Head(toServer[k])])
  /\ toServer' = [toServer EXCEPT ![k] = Tail(@)]
  /\ UNCHANGED <<pipelineVars, clientVars, toClient, handler, alive, running, up, crashes>>

(* Mutant: a job that finds the queue full is dropped without a word. *)
HandleOverflowSilently(k) ==
  /\ Arrived(k)
  /\ Len(queue) = QueueSize
  /\ toServer' = [toServer EXCEPT ![k] = Tail(@)]
  /\ UNCHANGED <<pipelineVars, clientVars, toClient, handler, alive, queue, running, up, crashes>>

HandleOverflow(k) ==
  /\ Arrived(k)
  /\ Len(queue) = QueueSize
  /\ toServer' = [toServer EXCEPT ![k] = Tail(@)]
  /\ Reply(k, [job |-> Head(toServer[k]), status |-> "overflow"])
  /\ UNCHANGED <<pipelineVars, clientVars, handler, queue, running, up, crashes>>

(* The client closed and everything it wrote was read, or a reply failed.   *)
HandlerExits(k) ==
  /\ k \in handler
  /\ \/ ~Holds(k) /\ toServer[k] = <<>>
     \/ k \notin alive
  /\ handler' = handler \ {k}
  /\ alive' = alive \ {k}
  /\ UNCHANGED <<pipelineVars, clientVars, wireVars, queue, running, up, crashes>>

(* The inference thread takes the oldest job and runs it. *)
StartJob ==
  /\ running = <<>> /\ queue # <<>>
  /\ running' = <<Head(queue)>>
  /\ queue' = Tail(queue)
  /\ UNCHANGED <<pipelineVars, clientVars, wireVars, handler, alive, up, crashes>>

(* The oldest job waited longer than max_job_age_s: it is answered unrun.   *)
ExpireJob ==
  /\ running = <<>> /\ queue # <<>>
  /\ queue' = Tail(queue)
  /\ Reply(Head(queue).conn, [job |-> Head(queue).job, status |-> "expired"])
  /\ UNCHANGED <<pipelineVars, clientVars, toServer, handler, running, up, crashes>>

FinishJob ==
  /\ running # <<>>
  /\ running' = <<>>
  /\ \E status \in {"ok", "error"} :
       Reply(Head(running).conn, [job |-> Head(running).job, status |-> status])
  /\ UNCHANGED <<pipelineVars, clientVars, toServer, handler, queue, up, crashes>>

(* The service process dies, and the supervisor starts it again. *)
Crash ==
  /\ up /\ crashes < MaxCrashes
  /\ up' = FALSE
  /\ crashes' = crashes + 1
  /\ handler' = {} /\ alive' = {} /\ queue' = <<>> /\ running' = <<>>
  /\ toServer' = [k \in Connection |-> <<>>]
  /\ UNCHANGED <<pipelineVars, clientVars, toClient>>

Restart ==
  /\ ~up
  /\ up' = TRUE
  /\ UNCHANGED <<pipelineVars, clientVars, wireVars, handler, alive, queue, running, crashes>>

-----------------------------------------------------------------------------
Init ==
  /\ fresh \in Workloads
  /\ outbox = [c \in Camera |-> <<>>]
  /\ inflight = [c \in Camera |-> {}]
  /\ results = [c \in Camera |-> {}]
  /\ got = [j \in Job |-> <<>>]
  /\ io = [c \in Camera |-> IF JobsOf(c) \intersect fresh = {} THEN "closed" ELSE "tick"]
  /\ conn = [c \in Camera |-> 0]
  /\ opened = [c \in Camera |-> 0]
  /\ toServer = [k \in Connection |-> <<>>]
  /\ toClient = [k \in Connection |-> <<>>]
  /\ handler = {} /\ alive = {}
  /\ queue = <<>> /\ running = <<>>
  /\ up \in BOOLEAN
  /\ crashes = 0

(* One step of a client's I/O thread. *)
Io(c) ==
  \/ Connected(c) \/ NotConnected(c) \/ StillConnected(c)
  \/ TakeFromOutbox(c) \/ OutboxSent(c)
  \/ \E j \in inflight[c] : SendJob(c, j) \/ SendFails(c, j)
  \/ Receive(c) \/ NothingYet(c) \/ ConnectionLost(c)

Handle(k) ==
  HandleUndecodable(k) \/ HandleEnqueue(k) \/ HandleOverflow(k) \/ HandlerExits(k)

Inference == StartJob \/ ExpireJob \/ FinishJob

Next ==
  \/ \E j \in Job : Submit(j)
  \/ \E c \in Camera : Poll(c) \/ Io(c) \/ Close(c)
  \/ \E k \in Connection : Handle(k)
  \/ Inference
  \/ Crash \/ Restart

Spec == Init /\ [][Next]_vars

(* Threads are scheduled and a model call returns; that the service is ever *)
(* restarted is not assumed.                                                *)
Fairness ==
  /\ \A c \in Camera : WF_vars(Io(c))
  /\ \A k \in Connection : WF_vars(Handle(k))
  /\ WF_vars(Inference)

FairSpec == Spec /\ Fairness

-----------------------------------------------------------------------------
(* Properties *)

TypeOK ==
  /\ fresh \in SUBSET Job
  /\ outbox \in [Camera -> Seq(Job)] /\ inflight \in [Camera -> SUBSET Job]
  /\ results \in [Camera -> SUBSET Answer] /\ got \in [Job -> Seq(Status)]
  /\ io \in [Camera -> {"tick", "send", "sending", "recv", "closed"}]
  /\ conn \in [Camera -> 0..MaxConnections] /\ opened \in [Camera -> 0..MaxConnections]
  /\ toServer \in [Connection -> Seq(Job)] /\ toClient \in [Connection -> Seq(Answer)]
  /\ alive \in SUBSET handler /\ handler \in SUBSET Connection
  /\ queue \in Seq(Entry) /\ Len(queue) <= QueueSize
  /\ running \in Seq(Entry) /\ Len(running) <= 1
  /\ up \in BOOLEAN /\ crashes \in 0..MaxCrashes

(* No slot is leaked: a job in flight is being sent, or is somewhere on its *)
(* way through the connection it was sent on, or that connection is dead;   *)
(* but one that the service cannot decode keeps its slot until then.        *)
InflightIsUnderway ==
  \A c \in Camera : \A j \in inflight[c] :
    LET k == <<c, conn[c]>>
    IN \/ Sending(c, j)
       \/ j \in Undecodable
       \/ conn[c] # 0 /\ \/ k \notin handler
                         \/ j \in ToSet(toServer[k])
                         \/ [conn |-> k, job |-> j] \in ToSet(queue) \union ToSet(running)
                         \/ \E r \in ToSet(toClient[k]) : r.job = j

(* Every client keeps the contract the pipeline relies on.                  *)
Contract(c) == INSTANCE JobContract
  WITH Job <- JobsOf(c), Capacity <- ClientPending,
       fresh <- fresh \intersect JobsOf(c),
       open <- ToSet(outbox[c]) \union inflight[c],
       results <- results[c]

ContractKept ==
  /\ \A c \in Camera : Contract(c)!Init
  /\ [][\A c \in Camera : [Contract(c)!Next]_(Contract(c)!vars)]_vars

(* Every accepted job is answered, unless the client is closed first (or    *)
(* the service cannot decode it and the connection lives on).               *)
EveryJobAnswered ==
  \A j \in Job \ Undecodable :
    (j \in ToSet(outbox[Owner(j)]) \union inflight[Owner(j)])
      ~> (got[j] # <<>> \/ io[Owner(j)] = "closed")
==============================================================================
