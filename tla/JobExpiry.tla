------------------------------ MODULE JobExpiry ------------------------------
(***************************************************************************)
(* The clocks a recognition job lives under: the camera's deadline         *)
(* (DeferredFinalizer, VlmConfig.job_timeout_s, counted from the           *)
(* submission), the wait of its shutdown (drain, shutdown_wait_s) and the  *)
(* service's age limit (VlmServer, max_job_age_s, counted from the arrival *)
(* in its queue).  A camera also loses jobs with its connection, and all   *)
(* of them when its process is killed; the service runs them nevertheless. *)
(* Time is a number of ticks; a tick happens only when no thread has work  *)
(* it does without waiting.                                                *)
(***************************************************************************)
EXTENDS Naturals, Sequences

CONSTANTS Sender,      \* processes of cameras, each with its client
          MaxJobs,     \* bound: jobs, numbered in order of submission
          MaxTime,     \* bound: ticks
          MaxBacklog,  \* VlmConfig.queue_size
          MaxJobAge,   \* VlmConfig.max_job_age_s, 0: no limit
          JobTimeout,  \* VlmConfig.job_timeout_s
          ShutdownWait,\* VlmConfig.shutdown_wait_s
          MaxDelay,    \* longest way from submit to the service's queue
          MaxRun       \* longest run of the model on one job

ASSUME TimesAssumption ==
  /\ MaxJobs \in Nat /\ MaxTime \in Nat /\ MaxBacklog \in Nat \ {0}
  /\ MaxJobAge \in Nat /\ JobTimeout \in Nat /\ ShutdownWait \in Nat
  /\ MaxDelay \in Nat /\ MaxRun \in Nat

VARIABLES now,
          sent,     \* [at, by] of each job, in order
          moving,   \* jobs on their way to the service
          backlog,  \* service: _queue, with the time each job was enqueued
          inModel,  \* service: the job being run and since when, or <<>>
          waiting,  \* cameras: jobs in _pending
          cut,      \* history: jobs failed because their connection was lost
          leaves,   \* camera in drain -> the time its wait is over
          gone      \* cameras that have ended

expiryVars == <<now, sent, moving, backlog, inModel, waiting, cut, leaves, gone>>
cameraVars == <<cut, leaves, gone>>

ExpiryInit ==
  /\ now = 0
  /\ sent = <<>>
  /\ moving = {} /\ waiting = {} /\ cut = {}
  /\ backlog = <<>> /\ inModel = <<>>
  /\ leaves = <<>> /\ gone = {}

(* begin() submits a recognition, also of the tracks left at a stop, and    *)
(* poll() a verification, also during the drain.                            *)
HandOver ==
  /\ Len(sent) < MaxJobs
  /\ \E c \in Sender \ gone : sent' = Append(sent, [at |-> now, by |-> c])
  /\ moving' = moving \union {Len(sent) + 1}
  /\ waiting' = waiting \union {Len(sent) + 1}
  /\ UNCHANGED <<now, backlog, inModel, cameraVars>>

(* The connection handler enqueues the job, or answers "overflow". *)
Arrive(j) ==
  /\ j \in moving
  /\ \A i \in moving : sent[i].by = sent[j].by => j <= i
  /\ moving' = moving \ {j}
  /\ \/ /\ Len(backlog) < MaxBacklog
        /\ backlog' = Append(backlog, [job |-> j, at |-> now])
        /\ UNCHANGED waiting
     \/ /\ Len(backlog) = MaxBacklog
        /\ waiting' = waiting \ {j}
        /\ UNCHANGED backlog
  /\ UNCHANGED <<now, sent, inModel, cameraVars>>

Waited(entry) == now - entry.at

TooOld(entry) == MaxJobAge > 0 /\ Waited(entry) > MaxJobAge

(* Mutant: the age limit is not applied. *)
StartAtAnyAge ==
  /\ inModel = <<>> /\ backlog # <<>>
  /\ inModel' = <<[job |-> Head(backlog).job, at |-> now]>>
  /\ backlog' = Tail(backlog)
  /\ UNCHANGED <<now, sent, moving, waiting, cameraVars>>

(* Whether the connection that brought the job is alive is not asked. *)
Start ==
  /\ inModel = <<>> /\ backlog # <<>>
  /\ ~TooOld(Head(backlog))
  /\ inModel' = <<[job |-> Head(backlog).job, at |-> now]>>
  /\ backlog' = Tail(backlog)
  /\ UNCHANGED <<now, sent, moving, waiting, cameraVars>>

(* The job at the front is too old: answered "expired", unrun. *)
Expire ==
  /\ inModel = <<>> /\ backlog # <<>>
  /\ TooOld(Head(backlog))
  /\ backlog' = Tail(backlog)
  /\ waiting' = waiting \ {Head(backlog).job}
  /\ UNCHANGED <<now, sent, moving, inModel, cameraVars>>

Finish ==
  /\ inModel # <<>>
  /\ inModel' = <<>>
  /\ waiting' = waiting \ {Head(inModel).job}
  /\ UNCHANGED <<now, sent, moving, backlog, cameraVars>>

SentBy(c) == {j \in DOMAIN sent : sent[j].by = c}

(* _drop_connection(), and _fail_all() if the service cannot be reached     *)
(* again: the jobs in flight fail, of those that were not sent none or all. *)
(* What had left for the service may still arrive there, up to some job.    *)
LinkLost(c) ==
  \E failed \in SUBSET (moving \intersect SentBy(c)) :
    \E lost \in SUBSET failed :
      /\ \A i \in failed, k \in (moving \intersect SentBy(c)) \ failed : i < k
      /\ \A i \in failed \ lost, k \in lost : i < k
      /\ moving' = moving \ lost
      /\ cut' = cut \union (waiting \intersect (SentBy(c) \ (moving \ failed)))
      /\ waiting' = waiting \ (SentBy(c) \ (moving \ failed))
      /\ UNCHANGED <<now, sent, backlog, inModel, leaves, gone>>

Overdue(j) == now - sent[j].at >= JobTimeout

(* The deadline sweep of DeferredFinalizer.poll. *)
GiveUp(j) ==
  /\ j \in waiting
  /\ Overdue(j)
  /\ waiting' = waiting \ {j}
  /\ UNCHANGED <<now, sent, moving, backlog, inModel, cameraVars>>

(* A worker that is told to stop drains. *)
Drain(c) ==
  /\ c \notin gone \union DOMAIN leaves
  /\ leaves' = [d \in DOMAIN leaves \union {c} |-> IF d = c THEN now + ShutdownWait ELSE leaves[d]]
  /\ UNCHANGED <<now, sent, moving, backlog, inModel, waiting, cut, gone>>

Ends(c) ==
  /\ gone' = gone \union {c}
  /\ leaves' = [d \in DOMAIN leaves \ {c} |-> leaves[d]]
  /\ waiting' = waiting \ SentBy(c)
  /\ UNCHANGED <<now, sent, moving, backlog, inModel, cut>>

(* The end of drain(): nothing is pending, or the rest is given up. *)
DrainOver(c) ==
  /\ c \in DOMAIN leaves
  /\ waiting \intersect SentBy(c) = {} \/ now >= leaves[c]
  /\ Ends(c)

(* The supervisor kills the process, or it crashes. *)
Killed(c) == c \notin gone /\ Ends(c)

Tick ==
  /\ now < MaxTime
  /\ \A j \in waiting : ~Overdue(j)
  /\ \A j \in moving : now - sent[j].at < MaxDelay
  /\ \A c \in DOMAIN leaves : now < leaves[c]
  /\ IF inModel = <<>> THEN backlog = <<>> ELSE Waited(Head(inModel)) < MaxRun
  /\ now' = now + 1
  /\ UNCHANGED <<sent, moving, backlog, inModel, waiting, cameraVars>>

ExpiryNext ==
  \/ HandOver \/ Start \/ Expire \/ Finish \/ Tick
  \/ \E j \in moving : Arrive(j)
  \/ \E j \in waiting : GiveUp(j)
  \/ \E c \in Sender : LinkLost(c) \/ Drain(c) \/ DrainOver(c) \/ Killed(c)

ExpirySpec == ExpiryInit /\ [][ExpiryNext]_expiryVars

-----------------------------------------------------------------------------
(* Properties *)

(* Whoever waited for job j has lost its connection or is no more. *)
Orphan(j) == j \in cut \/ sent[j].by \in gone

(* No CPU is spent on a job that was given up at its deadline: with an age  *)
(* limit that is shorter than the camera's deadline, the model only ever    *)
(* begins with a job whose camera still waits for it, or whose camera has   *)
(* lost its connection or ended; _inference_loop asks for neither.          *)
NoWastedRun ==
  [][(/\ inModel = <<>> /\ inModel' # <<>>
      /\ 0 < MaxJobAge /\ MaxDelay + MaxJobAge < JobTimeout)
       => inModel'[1].job \in waiting \/ Orphan(inModel'[1].job)]_expiryVars

(* server.py:20, config.py:30, ARCHITECTURE.md:1231: a job that is          *)
(* discarded as too old belongs to a camera that has already given it up.   *)
ExpiredIsGivenUp == [][Expire => Head(backlog).job \notin waiting]_expiryVars
==============================================================================
