-------------------------- MODULE VlmServiceProofs ---------------------------
(***************************************************************************)
(* Proofs about VlmService, for any cameras, jobs, connections, crashes and*)
(* bounds of the two queues, and about JobExpiry, for every positive age   *)
(* limit shorter than the deadline, any backlog, delay and length of a run.*)
(***************************************************************************)
EXTENDS VlmService, JobExpiry, FiniteSetTheorems, TLAPS

(* VlmService.                                                             *)

WireTypes ==
  /\ handler \subseteq Connection
  /\ toServer \in [Connection -> Seq(Job)] /\ toClient \in [Connection -> Seq(Answer)]
  /\ queue \in Seq(Entry) /\ running \in Seq(Entry) /\ Len(running) <= 1

(* No two answers are for the same job.                                     *)
AnsweredOnce(s) == \A p, q \in DOMAIN s : s[p].job = s[q].job => p = q

InService == ToSet(queue) \union ToSet(running)

(* Job j is somewhere on its way through connection k.                      *)
OnWay(k, j) ==
  \/ j \in ToSet(toServer[k])
  \/ [conn |-> k, job |-> j] \in InService
  \/ \E r \in ToSet(toClient[k]) : r.job = j

(* A job that was sent on a connection is in one place.                     *)
OneCopy ==
  /\ \A k \in Connection : IsInjective(toServer[k]) /\ AnsweredOnce(toClient[k])
  /\ IsInjective(queue) /\ ToSet(queue) \intersect ToSet(running) = {}
  /\ \A k \in Connection : \A j \in ToSet(toServer[k]) :
       /\ [conn |-> k, job |-> j] \notin InService
       /\ \A r \in ToSet(toClient[k]) : r.job # j
  /\ \A e \in InService : \A r \in ToSet(toClient[e.conn]) : r.job # e.job

(* The handler of a connection that its client holds can reply.             *)
CanReply == \A k \in handler : Holds(k) => k \in alive

Carried == WireTypes /\ OneCopy /\ CanReply

-----------------------------------------------------------------------------
(* Taking the head of a sequence without repetitions.                       *)
LEMMA TakenFrom ==
  ASSUME NEW S, NEW s \in Seq(S), s # <<>>
  PROVE  /\ Head(s) \in S /\ Head(s) \in ToSet(s) /\ Tail(s) \in Seq(S)
         /\ ToSet(s) \subseteq S
         /\ ToSet(s) = ToSet(Tail(s)) \union {Head(s)}
         /\ IsInjective(s) => IsInjective(Tail(s)) /\ Head(s) \notin ToSet(Tail(s))
<1>1. /\ Head(s) = s[1] /\ 1 \in DOMAIN s /\ Tail(s) \in Seq(S) /\ Len(s) \in Nat \ {0}
      /\ DOMAIN s = 1..Len(s) /\ DOMAIN Tail(s) = 1..(Len(s) - 1)
      /\ \A i \in 1..(Len(s) - 1) : Tail(s)[i] = s[i + 1] /\ i + 1 \in 1..Len(s)
  OBVIOUS
<1>2. ToSet(s) \subseteq S
  BY DEF ToSet
<1>3. ToSet(s) \subseteq ToSet(Tail(s)) \union {Head(s)}
  <2> SUFFICES ASSUME NEW i \in DOMAIN s, i # 1 PROVE s[i] \in ToSet(Tail(s))
    BY <1>1 DEF ToSet
  <2>1. i - 1 \in DOMAIN Tail(s) /\ Tail(s)[i - 1] = s[i]
    BY <1>1
  <2> QED BY <2>1 DEF ToSet
<1>4. ToSet(Tail(s)) \union {Head(s)} \subseteq ToSet(s)
  BY <1>1 DEF ToSet
<1>5. ASSUME IsInjective(s)
      PROVE  IsInjective(Tail(s)) /\ Head(s) \notin ToSet(Tail(s))
  BY <1>1, <1>5 DEF IsInjective, ToSet
<1>6. Head(s) \in S /\ Head(s) \in ToSet(s)
  BY <1>1 DEF ToSet
<1> QED BY <1>1, <1>2, <1>3, <1>4, <1>5, <1>6

(* What is in the service is entries.                                       *)
LEMMA Entries == ASSUME WireTypes PROVE InService \subseteq Entry
<1>1. queue \in Seq(Entry) /\ running \in Seq(Entry)
  BY DEF WireTypes
<1>2. ToSet(queue) \subseteq Entry /\ ToSet(running) \subseteq Entry
  BY <1>1 DEF ToSet
<1> QED BY <1>2 DEF InService

(* Adding a new element at the end of a sequence.                           *)
LEMMA AddedTo ==
  ASSUME NEW S, NEW s \in Seq(S), NEW x \in S
  PROVE  /\ Append(s, x) \in Seq(S)
         /\ ToSet(Append(s, x)) = ToSet(s) \union {x}
         /\ IsInjective(s) /\ x \notin ToSet(s) => IsInjective(Append(s, x))
<1>1. /\ Append(s, x) \in Seq(S) /\ Len(s) \in Nat
      /\ DOMAIN s = 1..Len(s) /\ DOMAIN Append(s, x) = 1..(Len(s) + 1)
      /\ Append(s, x)[Len(s) + 1] = x
      /\ \A i \in 1..Len(s) : Append(s, x)[i] = s[i]
  OBVIOUS
<1>2. ToSet(Append(s, x)) = ToSet(s) \union {x}
  BY <1>1 DEF ToSet
<1>3. ASSUME IsInjective(s), x \notin ToSet(s) PROVE IsInjective(Append(s, x))
  BY <1>1, <1>3 DEF IsInjective, ToSet
<1> QED BY <1>1, <1>2, <1>3

(* Answers of different jobs stay answers of different jobs.                *)
LEMMA Answered ==
  ASSUME NEW s \in Seq(Answer), AnsweredOnce(s)
  PROVE  /\ \A r \in Answer : (\A a \in ToSet(s) : a.job # r.job) => AnsweredOnce(Append(s, r))
         /\ s # <<>> => /\ AnsweredOnce(Tail(s))
                        /\ \A a \in ToSet(Tail(s)) : a.job # Head(s).job
<1>1. ASSUME NEW r \in Answer, \A a \in ToSet(s) : a.job # r.job
      PROVE  AnsweredOnce(Append(s, r))
  <2>1. /\ Len(s) \in Nat
        /\ DOMAIN s = 1..Len(s) /\ DOMAIN Append(s, r) = 1..(Len(s) + 1)
        /\ Append(s, r)[Len(s) + 1] = r
        /\ \A i \in 1..Len(s) : Append(s, r)[i] = s[i]
    OBVIOUS
  <2> QED BY <1>1, <2>1 DEF AnsweredOnce, ToSet
<1>2. ASSUME s # <<>>
      PROVE  AnsweredOnce(Tail(s)) /\ \A a \in ToSet(Tail(s)) : a.job # Head(s).job
  <2>1. /\ Head(s) = s[1] /\ 1 \in DOMAIN s /\ Len(s) \in Nat \ {0}
        /\ DOMAIN s = 1..Len(s) /\ DOMAIN Tail(s) = 1..(Len(s) - 1)
        /\ \A i \in 1..(Len(s) - 1) : Tail(s)[i] = s[i + 1] /\ i + 1 \in 1..Len(s)
    BY <1>2
  <2>2. ASSUME NEW i \in DOMAIN Tail(s), NEW l \in DOMAIN Tail(s), Tail(s)[i].job = Tail(s)[l].job
        PROVE  i = l
    <3>1. s[i + 1].job = s[l + 1].job /\ i + 1 \in DOMAIN s /\ l + 1 \in DOMAIN s
      BY <2>1, <2>2
    <3>2. i + 1 = l + 1
      BY <3>1 DEF AnsweredOnce
    <3> QED BY <2>1, <2>2, <3>2
  <2>3. ASSUME NEW i \in DOMAIN Tail(s) PROVE Tail(s)[i].job # Head(s).job
    <3>1. s[i + 1] = Tail(s)[i] /\ i + 1 \in DOMAIN s /\ i + 1 # 1
      BY <2>1
    <3> QED BY <2>1, <3>1 DEF AnsweredOnce
  <2> QED BY <2>2, <2>3 DEF AnsweredOnce, ToSet
<1> QED BY <1>1, <1>2
-----------------------------------------------------------------------------
(* The service.  A step of it moves a job along the connection it came by   *)
(* or takes it off; while the client holds that connection and its handler  *)
(* runs, it takes off nothing but what it cannot decode.                    *)
Moved ==
  /\ Carried' /\ handler' \subseteq handler
  /\ \A k \in Connection : \A j \in Job :
       /\ OnWay(k, j)' => OnWay(k, j)
       /\ OnWay(k, j) /\ Holds(k) /\ k \in handler' => OnWay(k, j)' \/ j \in Undecodable

(* A reply reaches its connection once, or that connection is dead.         *)
LEMMA Replies ==
  ASSUME Carried, NEW k \in Connection, NEW r \in Answer, Reply(k, r),
         \A a \in ToSet(toClient[k]) : a.job # r.job, UNCHANGED <<handler, conn>>
  PROVE  /\ toClient' \in [Connection -> Seq(Answer)]
         /\ \A m \in Connection : AnsweredOnce(toClient'[m])
         /\ \A m \in Connection : m # k => toClient'[m] = toClient[m]
         /\ ToSet(toClient[k]) \subseteq ToSet(toClient'[k])
         /\ ToSet(toClient'[k]) \subseteq ToSet(toClient[k]) \union {r}
         /\ k \in handler /\ Holds(k) => r \in ToSet(toClient'[k])
         /\ CanReply'
<1>1. /\ toClient \in [Connection -> Seq(Answer)] /\ handler \subseteq Connection
      /\ \A m \in Connection : AnsweredOnce(toClient[m])
  BY DEF Carried, WireTypes, OneCopy
<1>2. /\ Append(toClient[k], r) \in Seq(Answer)
      /\ ToSet(Append(toClient[k], r)) = ToSet(toClient[k]) \union {r}
      /\ AnsweredOnce(Append(toClient[k], r))
  BY <1>1, AddedTo, Answered
<1>3. CASE k \in alive /\ toClient' = [toClient EXCEPT ![k] = Append(@, r)] /\ alive' = alive
  <2>1. \A m \in Connection : toClient'[m] = IF m = k THEN Append(toClient[k], r) ELSE toClient[m]
    BY <1>1, <1>3
  <2>2. toClient' \in [Connection -> Seq(Answer)]
    BY <1>1, <1>2, <1>3
  <2>3. CanReply'
    BY <1>3 DEF Carried, CanReply, Holds
  <2> QED BY <1>1, <1>2, <2>1, <2>2, <2>3
<1>4. CASE toClient' = toClient /\ alive' = alive \ {k} /\ ~Holds(k)
  BY <1>1, <1>4 DEF Carried, CanReply, Holds
<1>5. CASE toClient' = toClient /\ alive' = alive /\ k \notin alive
  BY <1>1, <1>5 DEF Carried, CanReply, Holds
<1> QED BY <1>3, <1>4, <1>5 DEF Reply

(* A job that cannot be decoded leaves the service unanswered.              *)
LEMMA UndecodableMoves ==
  ASSUME Carried, NEW k \in Connection, HandleUndecodable(k)
  PROVE  Moved
<1> DEFINE h == Head(toServer[k])
<1>1. /\ toServer[k] # <<>> /\ h \in Undecodable
      /\ toServer' = [toServer EXCEPT ![k] = Tail(toServer[k])]
      /\ UNCHANGED <<toClient, handler, alive, queue, running, conn>>
  BY DEF HandleUndecodable, Arrived, serverVars, clientVars
<1>2. toServer \in [Connection -> Seq(Job)] /\ \A m \in Connection : IsInjective(toServer[m])
  BY DEF Carried, WireTypes, OneCopy
<1>3. /\ h \in Job /\ Tail(toServer[k]) \in Seq(Job) /\ IsInjective(Tail(toServer[k]))
      /\ ToSet(toServer[k]) = ToSet(Tail(toServer[k])) \union {h}
  BY <1>1, <1>2, TakenFrom
<1> HIDE DEF h
<1>4. \A m \in Connection : toServer'[m] = IF m = k THEN Tail(toServer[k]) ELSE toServer[m]
  BY <1>1, <1>2
<1>5. toServer' \in [Connection -> Seq(Job)]
  BY <1>1, <1>2, <1>3
<1>6. Carried'
  BY <1>1, <1>3, <1>4, <1>5 DEF Carried, WireTypes, OneCopy, CanReply, Holds, InService
<1>7. \A m \in Connection : \A j \in Job :
        /\ OnWay(m, j)' => OnWay(m, j)
        /\ OnWay(m, j) => OnWay(m, j)' \/ j \in Undecodable
  BY <1>1, <1>3, <1>4 DEF OnWay, InService
<1> QED BY <1>1, <1>6, <1>7 DEF Moved

(* A job read from a connection enters the queue.                           *)
LEMMA EnqueueMoves ==
  ASSUME Carried, NEW k \in Connection, HandleEnqueue(k)
  PROVE  Moved
<1> DEFINE h == Head(toServer[k])
           e == [conn |-> k, job |-> h]
<1>1. /\ toServer[k] # <<>> /\ queue' = Append(queue, e)
      /\ toServer' = [toServer EXCEPT ![k] = Tail(toServer[k])]
      /\ UNCHANGED <<toClient, handler, alive, running, conn>>
  BY DEF HandleEnqueue, Arrived, clientVars
<1>2. /\ toServer \in [Connection -> Seq(Job)] /\ \A m \in Connection : IsInjective(toServer[m])
      /\ queue \in Seq(Entry) /\ IsInjective(queue)
  BY DEF Carried, WireTypes, OneCopy
<1>3. /\ h \in Job /\ Tail(toServer[k]) \in Seq(Job) /\ IsInjective(Tail(toServer[k]))
      /\ ToSet(toServer[k]) = ToSet(Tail(toServer[k])) \union {h}
      /\ h \notin ToSet(Tail(toServer[k]))
  BY <1>1, <1>2, TakenFrom
<1>4. h \in ToSet(toServer[k])
  BY <1>3
<1>5. e \notin InService /\ \A r \in ToSet(toClient[k]) : r.job # h
  BY <1>4 DEF Carried, OneCopy
<1>6. e \in Entry /\ e.conn = k /\ e.job = h /\ \A m, j : [conn |-> m, job |-> j] = e <=> m = k /\ j = h
  BY <1>3 DEF Entry
<1> HIDE DEF e, h
<1>7. queue' \in Seq(Entry) /\ IsInjective(queue') /\ ToSet(queue') = ToSet(queue) \union {e}
  BY <1>1, <1>2, <1>5, <1>6, AddedTo DEF InService
<1>8. \A m \in Connection : toServer'[m] = IF m = k THEN Tail(toServer[k]) ELSE toServer[m]
  BY <1>1, <1>2
<1>9. toServer' \in [Connection -> Seq(Job)]
  BY <1>1, <1>2, <1>3
<1>10. InService' = InService \union {e}
  BY <1>1, <1>7 DEF InService
<1>11. OneCopy'
  <2>1. \A m \in Connection : IsInjective(toServer'[m]) /\ AnsweredOnce(toClient'[m])
    BY <1>1, <1>3, <1>8 DEF Carried, OneCopy
  <2>2. ToSet(queue') \intersect ToSet(running') = {}
    BY <1>1, <1>5, <1>7 DEF Carried, OneCopy, InService
  <2>3. \A m \in Connection : \A j \in ToSet(toServer'[m]) :
          j \in ToSet(toServer[m]) /\ ~(m = k /\ j = h)
    BY <1>3, <1>8
  <2>4. \A m \in Connection : \A j \in ToSet(toServer'[m]) :
          [conn |-> m, job |-> j] \notin InService' /\ \A r \in ToSet(toClient'[m]) : r.job # j
    <3> SUFFICES ASSUME NEW m \in Connection, NEW j \in ToSet(toServer'[m])
                 PROVE  [conn |-> m, job |-> j] \notin InService'
                        /\ \A r \in ToSet(toClient'[m]) : r.job # j
      OBVIOUS
    <3>1. j \in ToSet(toServer[m]) /\ ~(m = k /\ j = h)
      BY <2>3
    <3>2. [conn |-> m, job |-> j] \notin InService /\ \A r \in ToSet(toClient[m]) : r.job # j
      BY <3>1 DEF Carried, OneCopy
    <3> QED BY <1>1, <1>6, <1>10, <3>1, <3>2
  <2>5. ASSUME NEW f \in InService', NEW r \in ToSet(toClient'[f.conn]) PROVE r.job # f.job
    <3>1. CASE f = e
      BY <1>1, <1>5, <1>6, <3>1
    <3>2. CASE f \in InService
      BY <1>1, <3>2 DEF Carried, OneCopy
    <3> QED BY <1>10, <3>1, <3>2
  <2> QED BY <1>7, <2>1, <2>2, <2>4, <2>5 DEF OneCopy
<1>12. Carried'
  BY <1>1, <1>7, <1>9, <1>11 DEF Carried, WireTypes, CanReply, Holds
<1>13. \A m \in Connection : \A j \in Job : OnWay(m, j)' <=> OnWay(m, j)
  <2> SUFFICES ASSUME NEW m \in Connection, NEW j \in Job PROVE OnWay(m, j)' <=> OnWay(m, j)
    OBVIOUS
  <2>1. [conn |-> m, job |-> j] \in InService' <=> [conn |-> m, job |-> j] \in InService \/ (m = k /\ j = h)
    BY <1>6, <1>10
  <2>2. j \in ToSet(toServer[m]) <=> j \in ToSet(toServer'[m]) \/ (m = k /\ j = h)
    BY <1>3, <1>8
  <2> QED BY <1>1, <2>1, <2>2 DEF OnWay
<1> QED BY <1>1, <1>12, <1>13 DEF Moved

(* A job for which there is no room is answered at once.                    *)
LEMMA OverflowMoves ==
  ASSUME Carried, NEW k \in Connection, HandleOverflow(k)
  PROVE  Moved
<1> DEFINE h == Head(toServer[k])
           r == [job |-> h, status |-> "overflow"]
<1>1. /\ toServer[k] # <<>> /\ Reply(k, r) /\ k \in handler
      /\ toServer' = [toServer EXCEPT ![k] = Tail(toServer[k])]
      /\ UNCHANGED <<handler, queue, running, conn>>
  BY DEF HandleOverflow, Arrived, clientVars
<1>2. toServer \in [Connection -> Seq(Job)] /\ \A m \in Connection : IsInjective(toServer[m])
  BY DEF Carried, WireTypes, OneCopy
<1>3. /\ h \in Job /\ Tail(toServer[k]) \in Seq(Job) /\ IsInjective(Tail(toServer[k]))
      /\ ToSet(toServer[k]) = ToSet(Tail(toServer[k])) \union {h}
      /\ h \notin ToSet(Tail(toServer[k]))
  BY <1>1, <1>2, TakenFrom
<1>4. /\ [conn |-> k, job |-> h] \notin InService /\ \A a \in ToSet(toClient[k]) : a.job # h
      /\ h \in ToSet(toServer[k])
  BY <1>3 DEF Carried, OneCopy
<1>5. r \in Answer /\ r.job = h
  BY <1>3 DEF Answer, Status
<1> HIDE DEF r, h
<1>6. /\ toClient' \in [Connection -> Seq(Answer)]
      /\ \A m \in Connection : AnsweredOnce(toClient'[m])
      /\ \A m \in Connection : m # k => toClient'[m] = toClient[m]
      /\ ToSet(toClient[k]) \subseteq ToSet(toClient'[k])
      /\ ToSet(toClient'[k]) \subseteq ToSet(toClient[k]) \union {r}
      /\ Holds(k) => r \in ToSet(toClient'[k])
      /\ CanReply'
  BY <1>1, <1>4, <1>5, Replies
<1>7. \A m \in Connection : toServer'[m] = IF m = k THEN Tail(toServer[k]) ELSE toServer[m]
  BY <1>1, <1>2
<1>8. toServer' \in [Connection -> Seq(Job)]
  BY <1>1, <1>2, <1>3
<1>9. InService' = InService
  BY <1>1 DEF InService
<1>10. \A m \in Connection : \A j \in ToSet(toServer'[m]) :
          j \in ToSet(toServer[m]) /\ ~(m = k /\ j = h)
  BY <1>3, <1>7
<1>11. \A m \in Connection : \A a \in ToSet(toClient'[m]) : a \in ToSet(toClient[m]) \/ (m = k /\ a = r)
  BY <1>6
<1>12. OneCopy'
  <2>1. \A m \in Connection : IsInjective(toServer'[m])
    BY <1>2, <1>3, <1>7
  <2>2. ASSUME NEW m \in Connection, NEW j \in ToSet(toServer'[m])
        PROVE  [conn |-> m, job |-> j] \notin InService' /\ \A a \in ToSet(toClient'[m]) : a.job # j
    <3>1. j \in ToSet(toServer[m]) /\ ~(m = k /\ j = h)
      BY <1>10
    <3>2. [conn |-> m, job |-> j] \notin InService /\ \A a \in ToSet(toClient[m]) : a.job # j
      BY <3>1 DEF Carried, OneCopy
    <3>3. ASSUME NEW a \in ToSet(toClient'[m]) PROVE a.job # j
      BY <1>5, <1>11, <3>1, <3>2
    <3> QED BY <1>9, <3>2, <3>3
  <2>3. ASSUME NEW e \in InService', NEW a \in ToSet(toClient'[e.conn]) PROVE a.job # e.job
    <3>1. e \in InService /\ e \in Entry
      BY <1>9, <2>3, Entries DEF Carried
    <3>2. e.conn \in Connection /\ (e.conn = k /\ e.job = h => e = [conn |-> k, job |-> h])
      BY <3>1 DEF Entry
    <3> QED BY <1>4, <1>5, <1>11, <2>3, <3>1, <3>2 DEF Carried, OneCopy
  <2>4. IsInjective(queue') /\ ToSet(queue') \intersect ToSet(running') = {}
    BY <1>1 DEF Carried, OneCopy
  <2> QED BY <1>6, <2>1, <2>2, <2>3, <2>4 DEF OneCopy
<1>13. Carried'
  BY <1>1, <1>6, <1>8, <1>12 DEF Carried, WireTypes
<1>14. ASSUME NEW m \in Connection, NEW j \in Job
       PROVE  /\ OnWay(m, j)' => OnWay(m, j)
              /\ OnWay(m, j) /\ Holds(m) => OnWay(m, j)'
  <2>1. j \in ToSet(toServer[m]) <=> j \in ToSet(toServer'[m]) \/ (m = k /\ j = h)
    BY <1>3, <1>7
  <2>2. (\E a \in ToSet(toClient'[m]) : a.job = j)
        => (\E a \in ToSet(toClient[m]) : a.job = j) \/ (m = k /\ j = h)
    BY <1>5, <1>11
  <2>3. (\E a \in ToSet(toClient[m]) : a.job = j) => (\E a \in ToSet(toClient'[m]) : a.job = j)
    BY <1>6
  <2>4. Holds(m) /\ m = k /\ j = h => \E a \in ToSet(toClient'[m]) : a.job = j
    BY <1>5, <1>6
  <2> QED BY <1>9, <2>1, <2>2, <2>3, <2>4 DEF OnWay
<1> QED BY <1>1, <1>13, <1>14 DEF Moved

(* The inference thread takes the oldest job.                               *)
LEMMA StartMoves == ASSUME Carried, StartJob PROVE Moved
<1>1. /\ running = <<>> /\ queue # <<>> /\ running' = <<Head(queue)>> /\ queue' = Tail(queue)
      /\ UNCHANGED <<toServer, toClient, handler, alive, conn>>
  BY DEF StartJob, wireVars, clientVars
<1>2. queue \in Seq(Entry) /\ IsInjective(queue)
  BY DEF Carried, WireTypes, OneCopy
<1>3. /\ Head(queue) \in Entry /\ queue' \in Seq(Entry) /\ IsInjective(queue')
      /\ ToSet(queue) = ToSet(queue') \union {Head(queue)} /\ Head(queue) \notin ToSet(queue')
  BY <1>1, <1>2, TakenFrom
<1>4. running' \in Seq(Entry) /\ Len(running') = 1 /\ ToSet(running') = {Head(queue)} /\ ToSet(running) = {}
  BY <1>1, <1>3 DEF ToSet
<1>5. InService' = InService
  BY <1>3, <1>4 DEF InService
<1>6. Carried'
  BY <1>1, <1>3, <1>4, <1>5 DEF Carried, WireTypes, OneCopy, CanReply, Holds
<1> QED BY <1>1, <1>5, <1>6 DEF Moved, OnWay

(* The entry e leaves the service and is answered with r, if it can be.     *)
LEMMA AnswerMoves ==
  ASSUME Carried, NEW e \in Entry, NEW r \in Answer, r.job = e.job, Reply(e.conn, r),
         UNCHANGED <<toServer, handler, conn>>,
         queue' \in Seq(Entry), IsInjective(queue'), running' \in Seq(Entry), Len(running') <= 1,
         ToSet(queue') \subseteq ToSet(queue), ToSet(running') \subseteq ToSet(running),
         e \in InService, e \notin InService', InService = InService' \union {e}
  PROVE  Moved
<1> DEFINE k == e.conn
<1>1. /\ k \in Connection /\ e.job \in Job
      /\ \A m, j : [conn |-> m, job |-> j] = e <=> m = k /\ j = e.job
  BY DEF Entry
<1>2. \A a \in ToSet(toClient[k]) : a.job # r.job
  BY DEF Carried, OneCopy
<1> HIDE DEF k
<1>3. /\ toClient' \in [Connection -> Seq(Answer)]
      /\ \A m \in Connection : AnsweredOnce(toClient'[m])
      /\ \A m \in Connection : m # k => toClient'[m] = toClient[m]
      /\ ToSet(toClient[k]) \subseteq ToSet(toClient'[k])
      /\ ToSet(toClient'[k]) \subseteq ToSet(toClient[k]) \union {r}
      /\ k \in handler /\ Holds(k) => r \in ToSet(toClient'[k])
      /\ CanReply'
  BY <1>1, <1>2, Replies DEF k
<1>4. \A m \in Connection : \A a \in ToSet(toClient'[m]) : a \in ToSet(toClient[m]) \/ (m = k /\ a = r)
  BY <1>3
<1>5. OneCopy'
  <2>1. ToSet(queue') \intersect ToSet(running') = {}
    BY DEF Carried, OneCopy
  <2>2. ASSUME NEW m \in Connection, NEW j \in ToSet(toServer'[m])
        PROVE  [conn |-> m, job |-> j] \notin InService' /\ \A a \in ToSet(toClient'[m]) : a.job # j
    <3>1. toServer' = toServer /\ InService' \subseteq InService
      BY <1>1
    <3>2. j \in ToSet(toServer[m])
      BY <3>1
    <3>3. [conn |-> m, job |-> j] \notin InService /\ \A a \in ToSet(toClient[m]) : a.job # j
      BY <3>2 DEF Carried, OneCopy
    <3>4. ~(m = k /\ j = e.job)
      BY <1>1, <3>3
    <3>5. ASSUME NEW a \in ToSet(toClient'[m]) PROVE a.job # j
      BY <1>1, <1>4, <3>3, <3>4
    <3> QED BY <3>1, <3>3, <3>5
  <2>3. ASSUME NEW f \in InService', NEW a \in ToSet(toClient'[f.conn]) PROVE a.job # f.job
    <3>1. f \in InService /\ f \in Entry /\ f # e
      BY Entries DEF Carried
    <3>2. f.conn \in Connection /\ (f.conn = k /\ f.job = e.job => f = e)
      BY <1>1, <3>1 DEF Entry
    <3> QED BY <1>4, <2>3, <3>1, <3>2 DEF Carried, OneCopy
  <2>4. \A m \in Connection : IsInjective(toServer'[m])
    BY DEF Carried, OneCopy
  <2> QED BY <1>3, <2>1, <2>2, <2>3, <2>4 DEF OneCopy
<1>6. Carried'
  BY <1>3, <1>5 DEF Carried, WireTypes
<1>7. ASSUME NEW m \in Connection, NEW j \in Job
      PROVE  /\ OnWay(m, j)' => OnWay(m, j)
             /\ OnWay(m, j) /\ Holds(m) /\ m \in handler' => OnWay(m, j)'
  <2>1. [conn |-> m, job |-> j] \in InService <=> [conn |-> m, job |-> j] \in InService' \/ (m = k /\ j = e.job)
    BY <1>1
  <2>2. (\E a \in ToSet(toClient'[m]) : a.job = j)
        => (\E a \in ToSet(toClient[m]) : a.job = j) \/ (m = k /\ j = e.job)
    BY <1>4
  <2>3. (\E a \in ToSet(toClient[m]) : a.job = j) => (\E a \in ToSet(toClient'[m]) : a.job = j)
    BY <1>3
  <2>4. Holds(m) /\ m \in handler /\ m = k /\ j = e.job => \E a \in ToSet(toClient'[m]) : a.job = j
    BY <1>3
  <2> QED BY <2>1, <2>2, <2>3, <2>4 DEF OnWay
<1> QED BY <1>6, <1>7 DEF Moved

(* A job too old is answered, and not run.                                  *)
LEMMA ExpireMoves == ASSUME Carried, ExpireJob PROVE Moved
<1> DEFINE e == Head(queue)
           r == [job |-> e.job, status |-> "expired"]
<1>1. /\ running = <<>> /\ queue # <<>> /\ queue' = Tail(queue) /\ running' = running
      /\ Reply(e.conn, r) /\ UNCHANGED <<toServer, handler, conn>>
  BY DEF ExpireJob, clientVars
<1>2. queue \in Seq(Entry) /\ IsInjective(queue)
  BY DEF Carried, WireTypes, OneCopy
<1>3. /\ e \in Entry /\ queue' \in Seq(Entry) /\ IsInjective(queue')
      /\ ToSet(queue) = ToSet(queue') \union {e} /\ e \notin ToSet(queue')
  BY <1>1, <1>2, TakenFrom
<1>4. ToSet(running) = {} /\ running \in Seq(Entry) /\ Len(running) <= 1
  BY <1>1 DEF ToSet
<1>5. r \in Answer /\ r.job = e.job
  BY <1>3 DEF Answer, Status, Entry
<1> HIDE DEF e, r
<1> QED BY <1>1, <1>3, <1>4, <1>5, AnswerMoves DEF InService

(* A job that has run is answered.                                          *)
LEMMA FinishMoves == ASSUME Carried, FinishJob PROVE Moved
<1> DEFINE e == Head(running)
<1>1. PICK status \in {"ok", "error"} : Reply(e.conn, [job |-> e.job, status |-> status])
  BY DEF FinishJob
<1> DEFINE r == [job |-> e.job, status |-> status]
<1>2. /\ running # <<>> /\ running' = <<>> /\ UNCHANGED <<toServer, handler, conn, queue>>
      /\ Reply(e.conn, r)
  BY <1>1 DEF FinishJob, clientVars
<1>3. running \in Seq(Entry) /\ Len(running) <= 1 /\ queue \in Seq(Entry) /\ IsInjective(queue)
  BY DEF Carried, WireTypes, OneCopy
<1>4. e \in Entry /\ ToSet(running) = {e} /\ ToSet(running') = {} /\ Len(running') = 0
      /\ running' \in Seq(Entry)
  BY <1>2, <1>3 DEF ToSet
<1>5. r \in Answer /\ r.job = e.job
  BY <1>4 DEF Answer, Status, Entry
<1> HIDE DEF e, r
<1>6. e \notin ToSet(queue)
  BY <1>4 DEF Carried, OneCopy
<1> QED BY <1>2, <1>3, <1>4, <1>5, <1>6, AnswerMoves DEF InService

(* A handler that ends leaves its connection dead.                          *)
LEMMA ExitMoves == ASSUME Carried, NEW k \in Connection, HandlerExits(k) PROVE Moved
<1>1. /\ handler' = handler \ {k} /\ alive' = alive \ {k}
      /\ UNCHANGED <<toServer, toClient, queue, running, conn>>
  BY DEF HandlerExits, wireVars, clientVars
<1> QED BY <1>1 DEF Moved, Carried, WireTypes, OneCopy, CanReply, Holds, InService, OnWay

(* A crash leaves every connection dead.                                    *)
LEMMA CrashMoves == ASSUME Carried, Crash PROVE Moved
<1>1. /\ handler' = {} /\ queue' = <<>> /\ running' = <<>>
      /\ toServer' = [k \in Connection |-> <<>>] /\ UNCHANGED <<toClient, conn>>
  BY DEF Crash, clientVars
<1>2. /\ ToSet(queue') = {} /\ ToSet(running') = {} /\ \A k \in Connection : ToSet(toServer'[k]) = {}
      /\ IsInjective(queue') /\ \A k \in Connection : IsInjective(toServer'[k])
      /\ toServer' \in [Connection -> Seq(Job)]
      /\ queue' \in Seq(Entry) /\ running' \in Seq(Entry) /\ Len(running') = 0
  BY <1>1 DEF ToSet, IsInjective
<1>3. Carried'
  BY <1>1, <1>2 DEF Carried, WireTypes, OneCopy, CanReply, InService
<1> QED BY <1>1, <1>2, <1>3 DEF Moved, OnWay, InService

ServiceStep ==
  \/ \E k \in Connection : Handle(k)
  \/ Inference \/ Crash \/ Restart

(* Every step of the service moves jobs and loses none that a live          *)
(* connection waits for.                                                    *)
LEMMA ServiceMoves == ASSUME Carried, ServiceStep PROVE Moved
<1>1. CASE Restart
  <2>1. UNCHANGED <<toServer, toClient, handler, alive, queue, running, conn>>
    BY <1>1 DEF Restart, wireVars, clientVars
  <2> QED BY <2>1 DEF Moved, Carried, WireTypes, OneCopy, CanReply, Holds, InService, OnWay
<1> QED BY <1>1, UndecodableMoves, EnqueueMoves, OverflowMoves, ExitMoves, StartMoves, ExpireMoves,
           FinishMoves, CrashMoves DEF ServiceStep, Handle, Inference
-----------------------------------------------------------------------------
(* The clients.                                                             *)
ClientTypes ==
  /\ fresh \subseteq Job
  /\ outbox \in [Camera -> Seq(Job)] /\ inflight \in [Camera -> SUBSET Job]
  /\ \A c \in Camera : IsFiniteSet(inflight[c])
  /\ results \in [Camera -> SUBSET Answer]
  /\ io \in [Camera -> {"tick", "send", "sending", "recv", "closed"}]
  /\ conn \in [Camera -> Nat] /\ opened \in [Camera -> Nat]

Connections ==
  \A c \in Camera :
    /\ conn[c] <= opened[c] /\ opened[c] <= MaxConnections
    /\ io[c] \in {"send", "sending", "recv"} => conn[c] # 0
    /\ conn[c] = 0 => inflight[c] = {}

(* Jobs leave a client in the order of their numbers.                       *)
InOrder ==
  \A c \in Camera :
    /\ \A p \in DOMAIN outbox[c] : Owner(outbox[c][p]) = c
    /\ \A i \in inflight[c] : Owner(i) = c
    /\ \A p, q \in DOMAIN outbox[c] : p < q => outbox[c][p][2] < outbox[c][q][2]
    /\ \A i \in inflight[c] : \A p \in DOMAIN outbox[c] : i[2] < outbox[c][p][2]
    /\ \A f \in fresh : Owner(f) = c =>
         /\ \A p \in DOMAIN outbox[c] : outbox[c][p][2] < f[2]
         /\ \A i \in inflight[c] : i[2] < f[2]

OrderlyClients == ClientTypes /\ Connections /\ InOrder

Open(c) == ToSet(outbox[c]) \union inflight[c]
Promise(c) == [Contract(c)!Next]_(Contract(c)!vars)

(* A job is its camera and its number.                                      *)
LEMMA JobFacts ==
  ASSUME NEW j \in Job
  PROVE  /\ j = <<j[1], j[2]>> /\ j[1] \in Camera /\ j[2] \in Nat /\ Owner(j) \in Camera
         /\ Owner(j) = j[1]
BY DEF Job, Owner

(* A client's open jobs are its own, each in one place.                     *)
LEMMA OpenJobs ==
  ASSUME OrderlyClients, NEW c \in Camera
  PROVE  /\ ToSet(outbox[c]) \intersect inflight[c] = {}
         /\ IsInjective(outbox[c]) /\ ToSet(outbox[c]) \subseteq JobsOf(c)
         /\ inflight[c] \subseteq JobsOf(c) /\ JobsOf(c) \subseteq Job
         /\ outbox[c] \in Seq(Job) /\ Len(outbox[c]) \in Nat /\ DOMAIN outbox[c] = 1..Len(outbox[c])
<1>1. /\ outbox[c] \in Seq(Job) /\ Len(outbox[c]) \in Nat /\ DOMAIN outbox[c] = 1..Len(outbox[c])
      /\ inflight[c] \subseteq Job
  BY DEF OrderlyClients, ClientTypes
<1>2. \A p \in DOMAIN outbox[c] : outbox[c][p] \in Job /\ outbox[c][p][2] \in Nat
  BY <1>1, JobFacts
<1>3. \A i \in inflight[c] : i[2] \in Nat
  BY <1>1, JobFacts
<1>4. ToSet(outbox[c]) \intersect inflight[c] = {}
  BY <1>2, <1>3 DEF OrderlyClients, InOrder, ToSet
<1>5. IsInjective(outbox[c])
  <2> SUFFICES ASSUME NEW p \in DOMAIN outbox[c], NEW q \in DOMAIN outbox[c], outbox[c][p] = outbox[c][q]
               PROVE  p = q
    BY DEF IsInjective
  <2>1. ~(p < q) /\ ~(q < p)
    BY <1>2 DEF OrderlyClients, InOrder
  <2> QED BY <1>1, <2>1
<1>6. ToSet(outbox[c]) \subseteq JobsOf(c) /\ inflight[c] \subseteq JobsOf(c) /\ JobsOf(c) \subseteq Job
  BY <1>1, <1>2 DEF OrderlyClients, InOrder, ToSet, JobsOf
<1> QED BY <1>1, <1>4, <1>5, <1>6

(* The open jobs are counted by the outbox and the slots.                   *)
LEMMA OpenCount ==
  ASSUME OrderlyClients, NEW c \in Camera
  PROVE  Cardinality(Open(c)) = Len(outbox[c]) + Cardinality(inflight[c])
<1> DEFINE S == ToSet(outbox[c])
           n == Len(outbox[c])
           f == outbox[c]
<1>1. /\ S \intersect inflight[c] = {} /\ IsInjective(f) /\ n \in Nat /\ DOMAIN f = 1..n
      /\ f \in Seq(Job)
  BY OpenJobs
<1>2. f \in [1..n -> S] /\ S = {f[i] : i \in 1..n} /\ \A a, b \in 1..n : f[a] = f[b] => a = b
  BY <1>1 DEF ToSet, IsInjective
<1> HIDE DEF f, S, n
<1>3. f \in Bijection(1..n, S)
  BY <1>2 DEF Bijection, Injection, Surjection, IsInjective
<1>4. ExistsBijection(1..n, S)
  BY <1>3 DEF ExistsBijection
<1>5. IsFiniteSet(S) /\ Cardinality(S) = n
  <2>1. IsFiniteSet(1..n)
    BY <1>1, FS_Interval
  <2> QED BY <1>1, <1>4, <2>1, FS_CountingElements, FS_Bijection
<1>6. IsFiniteSet(inflight[c])
  BY DEF OrderlyClients, ClientTypes
<1>7. Cardinality(S \union inflight[c]) = Cardinality(S) + Cardinality(inflight[c]) - Cardinality(S \intersect inflight[c])
  BY <1>5, <1>6, FS_Union
<1>8. Cardinality(S \intersect inflight[c]) = 0
  BY <1>1, FS_EmptySet
<1>9. Cardinality(inflight[c]) \in Nat
  BY <1>6, FS_CardinalityType
<1> QED BY <1>1, <1>5, <1>7, <1>8, <1>9 DEF Open, S, n

(* What is on its way on the connection that a client holds is in flight,   *)
(* what it is about to send is not on its way yet, and nothing is on its    *)
(* way on a connection that was never opened.                               *)
Newest(c, j) == j \in inflight[c] /\ \A i \in inflight[c] : i[2] <= j[2]

InflightOnly ==
  \A c \in Camera : conn[c] # 0 => \A j \in Job : OnWay(<<c, conn[c]>>, j) => j \in inflight[c]

NotYetSent ==
  \A c \in Camera : io[c] = "sending" =>
    \E j \in Job : Newest(c, j) /\ ~OnWay(<<c, conn[c]>>, j)

NeverOpened ==
  \A k \in Connection : k[2] > opened[k[1]] => k \notin handler /\ \A j \in Job : ~OnWay(k, j)

(* InflightIsUnderway, in these terms.                                      *)
Underway ==
  \A c \in Camera : \A j \in inflight[c] :
    \/ Sending(c, j) \/ j \in Undecodable
    \/ conn[c] # 0 /\ (<<c, conn[c]>> \notin handler \/ OnWay(<<c, conn[c]>>, j))

Shared ==
  /\ Carried /\ OrderlyClients
  /\ InflightOnly /\ NotYetSent /\ NeverOpened /\ Underway

(* A client sends the newest of its jobs in flight.                         *)
LEMMA SendingNewest ==
  ASSUME OrderlyClients, NEW c \in Camera, NEW j, io[c] = "sending"
  PROVE  /\ Newest(c, j) => Sending(c, j)
         /\ \A i : Newest(c, i) /\ Sending(c, j) => i = j
<1>1. \A i \in inflight[c] : i \in Job /\ i[1] = c
  BY DEF OrderlyClients, ClientTypes, InOrder, Owner
<1>2. \A i \in inflight[c] : i = <<c, i[2]>> /\ i[2] \in Nat
  BY <1>1, JobFacts
<1>3. ASSUME NEW i, NEW k, Newest(c, i), Newest(c, k) PROVE i = k
  <2>1. i[2] <= k[2] /\ k[2] <= i[2] /\ i[2] \in Nat /\ k[2] \in Nat
    BY <1>2, <1>3 DEF Newest
  <2> QED BY <1>2, <1>3, <2>1 DEF Newest
<1>4. ASSUME NEW i, Newest(c, i)
      PROVE  (CHOOSE l \in inflight[c] : \A m \in inflight[c] : m[2] <= l[2]) = i
  <2> DEFINE l == CHOOSE l \in inflight[c] : \A m \in inflight[c] : m[2] <= l[2]
  <2>1. Newest(c, l)
    BY <1>4 DEF Newest
  <2> HIDE DEF l
  <2> QED BY <1>3, <1>4, <2>1 DEF l
<1> QED BY <1>4 DEF Sending

(* A connected client has a connection.                                     *)
LEMMA ConnectionOf ==
  ASSUME OrderlyClients, NEW c \in Camera, conn[c] # 0
  PROVE  <<c, conn[c]>> \in Connection
BY BoundsAssumption DEF OrderlyClients, ClientTypes, Connections, Connection

(* A step of the service.                                                   *)
LEMMA ServiceShares ==
  ASSUME Shared, ServiceStep
  PROVE  Shared' /\ UNCHANGED <<fresh, outbox, inflight, results>>
<1>1. Moved
  BY ServiceMoves DEF Shared
<1>2. UNCHANGED <<fresh, outbox, inflight, results, io, conn, opened>>
  BY DEF ServiceStep, Handle, Inference, HandleUndecodable, HandleEnqueue, HandleOverflow, HandlerExits,
         StartJob, ExpireJob, FinishJob, Crash, Restart, pipelineVars, clientVars
<1>3. OrderlyClients'
  BY <1>2 DEF Shared, OrderlyClients, ClientTypes, Connections, InOrder
<1>4. ASSUME NEW c \in Camera, conn[c] # 0
      PROVE  <<c, conn[c]>> \in Connection /\ Holds(<<c, conn[c]>>)
  BY <1>4, ConnectionOf DEF Shared, Holds
<1>5. InflightOnly'
  BY <1>1, <1>2, <1>4 DEF Shared, InflightOnly, Moved
<1>6. NotYetSent'
  <2> SUFFICES ASSUME NEW c \in Camera, io'[c] = "sending"
               PROVE  \E j \in Job : Newest(c, j)' /\ ~OnWay(<<c, conn[c]>>, j)'
    BY <1>2 DEF NotYetSent
  <2>1. PICK j \in Job : Newest(c, j) /\ ~OnWay(<<c, conn[c]>>, j)
    BY <1>2 DEF Shared, NotYetSent
  <2>2. conn[c] # 0
    BY <1>2 DEF Shared, OrderlyClients, Connections
  <2>3. ~OnWay(<<c, conn[c]>>, j)'
    BY <1>1, <1>2, <1>4, <2>1, <2>2 DEF Moved
  <2> QED BY <1>2, <2>1, <2>3 DEF Newest
<1>7. NeverOpened'
  BY <1>1, <1>2 DEF Shared, NeverOpened, Moved
<1>8. Underway'
  <2> SUFFICES ASSUME NEW c \in Camera, NEW j \in inflight[c]
               PROVE  \/ Sending(c, j)' \/ j \in Undecodable
                      \/ conn[c] # 0 /\ (<<c, conn[c]>> \notin handler' \/ OnWay(<<c, conn[c]>>, j)')
    BY <1>2 DEF Underway
  <2>1. Sending(c, j)' <=> Sending(c, j)
    BY <1>2 DEF Sending
  <2>2. j \in Job
    BY DEF Shared, OrderlyClients, ClientTypes
  <2>3. \/ Sending(c, j) \/ j \in Undecodable
        \/ conn[c] # 0 /\ (<<c, conn[c]>> \notin handler \/ OnWay(<<c, conn[c]>>, j))
    BY DEF Shared, Underway
  <2>4. conn[c] # 0 /\ <<c, conn[c]>> \in handler' /\ OnWay(<<c, conn[c]>>, j)
        => OnWay(<<c, conn[c]>>, j)' \/ j \in Undecodable
    BY <1>1, <1>2, <1>4, <2>2 DEF Moved
  <2>5. handler' \subseteq handler
    BY <1>1 DEF Moved
  <2> QED BY <2>1, <2>3, <2>4, <2>5
<1> QED BY <1>1, <1>2, <1>3, <1>5, <1>6, <1>7, <1>8 DEF Shared, Moved
-----------------------------------------------------------------------------
(* Steps of the contract.                                                   *)
LEMMA Unanswered ==
  ASSUME NEW c \in Camera, fresh' = fresh, Open(c)' = Open(c), results'[c] = results[c]
  PROVE  Promise(c)
BY DEF Promise, Contract!vars, Open

(* The contract counts as the service does.                                 *)
LEMMA ContractCounts ==
  ASSUME NEW c, NEW S
  PROVE  Contract(c)!Cardinality(S) = Cardinality(S)
BY DEF Contract!Cardinality, Cardinality

(* Handing over the results is a poll of the contract.                      *)
LEMMA PolledKept ==
  ASSUME NEW c \in Camera, fresh' = fresh, Open(c)' = Open(c), results'[c] = {}
  PROVE  Promise(c)
BY DEF Promise, Contract!Next, Contract!Poll, Open

(* Failing open jobs is answers of the contract.                            *)
LEMMA FailedKept ==
  ASSUME NEW c \in Camera, NEW S \in SUBSET Open(c), fresh' = fresh, Open(c)' = Open(c) \ S,
         results'[c] = results[c] \union {[job |-> j, status |-> "unavailable"] : j \in S}
  PROVE  Promise(c)
<1> DEFINE ended == [j \in S |-> "unavailable"]
<1>1. ended \in [S -> Status]
  BY DEF Status
<1>2. results'[c] = results[c] \union {[job |-> j, status |-> ended[j]] : j \in S}
  OBVIOUS
<1> HIDE DEF ended
<1>3. Contract(c)!Answer(S)
  BY <1>1, <1>2 DEF Contract!Answer, Open
<1> QED BY <1>3 DEF Promise, Contract!Next, Open

(* One answer is an answer of the contract.                                 *)
LEMMA AnsweredKept ==
  ASSUME NEW c \in Camera, NEW r \in Answer, r.job \in Open(c), fresh' = fresh,
         Open(c)' = Open(c) \ {r.job}, results'[c] = results[c] \union {r}
  PROVE  Promise(c)
<1> DEFINE ended == [j \in {r.job} |-> r.status]
<1>1. ended \in [{r.job} -> Status] /\ r = [job |-> r.job, status |-> ended[r.job]]
  BY DEF Answer
<1>2. results'[c] = results[c] \union {[job |-> j, status |-> ended[j]] : j \in {r.job}}
  BY <1>1
<1> HIDE DEF ended
<1>3. Contract(c)!Answer({r.job})
  BY <1>1, <1>2 DEF Contract!Answer, Open
<1> QED BY <1>3 DEF Promise, Contract!Next, Open

-----------------------------------------------------------------------------
(* The steps of the clients.                                                *)
LEMMA WiresKept ==
  ASSUME UNCHANGED <<toServer, toClient, queue, running>>
  PROVE  /\ \A k, j : OnWay(k, j)' <=> OnWay(k, j)
         /\ WireTypes /\ handler' \subseteq Connection => WireTypes'
         /\ OneCopy => OneCopy'
BY DEF OnWay, InService, WireTypes, OneCopy

Same(c) == io'[c] = io[c] /\ conn'[c] = conn[c] /\ opened'[c] = opened[c] /\ inflight'[c] = inflight[c]
           /\ outbox'[c] = outbox[c] /\ results'[c] = results[c]

(* What leaves a client alone is no step of its contract.                   *)
LEMMA OthersKept ==
  ASSUME NEW c \in Camera, fresh' = fresh, Same(c)
  PROVE  Promise(c)
BY Unanswered DEF Same, Open

(* Only where the I/O thread is in its tick changes.                        *)
LEMMA IoShares ==
  ASSUME Shared, NEW c \in Camera, NEW n \in {"tick", "send", "recv"},
         io' = [io EXCEPT ![c] = n], io[c] # "sending", conn[c] # 0,
         UNCHANGED <<fresh, outbox, inflight, results, conn, opened, wireVars, handler, alive, queue, running>>
  PROVE  Shared' /\ \A d \in Camera : Promise(d)
<1>1. /\ \A k, j : OnWay(k, j)' <=> OnWay(k, j)
      /\ Carried'
  BY WiresKept DEF Shared, Carried, WireTypes, CanReply, Holds, wireVars
<1>2. \A d \in Camera : Promise(d)
  BY Unanswered DEF Open
<1>3. OrderlyClients'
  BY DEF Shared, OrderlyClients, ClientTypes, Connections, InOrder
<1>4. \A d \in Camera : \A j : Sending(d, j)' <=> Sending(d, j)
  BY DEF Sending, Shared, OrderlyClients, ClientTypes
<1>5. InflightOnly' /\ NeverOpened'
  BY <1>1 DEF Shared, InflightOnly, NeverOpened
<1>6. NotYetSent'
  BY <1>1 DEF Shared, NotYetSent, Newest, OrderlyClients, ClientTypes
<1>7. Underway'
  BY <1>1, <1>4 DEF Shared, Underway
<1> QED BY <1>1, <1>2, <1>3, <1>5, <1>6, <1>7 DEF Shared

(* A poll takes the results, and nothing else.                              *)
LEMMA PollShares ==
  ASSUME Shared, NEW c \in Camera, Poll(c)
  PROVE  Shared' /\ \A d \in Camera : Promise(d)
<1>1. /\ results' = [results EXCEPT ![c] = {}]
      /\ UNCHANGED <<fresh, outbox, inflight, io, conn, opened, wireVars, handler, alive, queue, running>>
  BY DEF Poll, pipelineVars, serverVars
<1>2. /\ \A k, j : OnWay(k, j)' <=> OnWay(k, j)
      /\ Carried'
  BY <1>1, WiresKept DEF Shared, Carried, WireTypes, CanReply, Holds, wireVars
<1>3. ASSUME NEW d \in Camera PROVE Promise(d)
  <2>1. CASE d = c
    BY <1>1, <2>1, PolledKept DEF Open, Shared, OrderlyClients, ClientTypes
  <2>2. CASE d # c
    BY <1>1, <2>2, Unanswered DEF Open, Shared, OrderlyClients, ClientTypes
  <2> QED BY <2>1, <2>2
<1>4. OrderlyClients'
  BY <1>1 DEF Shared, OrderlyClients, ClientTypes, Connections, InOrder
<1>5. \A d \in Camera : \A j : Sending(d, j)' <=> Sending(d, j)
  BY <1>1 DEF Sending
<1>6. InflightOnly' /\ NeverOpened' /\ NotYetSent' /\ Underway'
  BY <1>1, <1>2, <1>5 DEF Shared, InflightOnly, NeverOpened, NotYetSent, Newest, Underway
<1> QED BY <1>2, <1>3, <1>4, <1>6 DEF Shared

(* An accepted job is queued; one too many is refused.                      *)
LEMMA SubmitShares ==
  ASSUME Shared, NEW j \in Job, Submit(j)
  PROVE  Shared' /\ \A d \in Camera : Promise(d)
<1> DEFINE c == Owner(j)
           full == Len(outbox[c]) + Cardinality(inflight[c]) >= ClientPending
<1>1. /\ NextJob(j) /\ fresh' = fresh \ {j}
      /\ outbox' = IF full THEN outbox ELSE [outbox EXCEPT ![c] = Append(outbox[c], j)]
      /\ UNCHANGED <<inflight, results, io, conn, opened, wireVars, handler, alive, queue, running>>
  BY DEF Submit, serverVars
<1>2. /\ \A k, i : OnWay(k, i)' <=> OnWay(k, i)
      /\ Carried'
  BY <1>1, WiresKept DEF Shared, Carried, WireTypes, CanReply, Holds, wireVars
<1>3. /\ c \in Camera /\ j[2] \in Nat /\ outbox[c] \in Seq(Job) /\ j \in fresh /\ j \in JobsOf(c)
      /\ \A f \in fresh : Owner(f) = c => j[2] <= f[2] /\ f[2] \in Nat
      /\ \A f \in fresh : Owner(f) = c /\ f # j => j[2] < f[2]
  <2>1. c \in Camera /\ j[2] \in Nat /\ outbox[c] \in Seq(Job) /\ j \in fresh /\ j \in JobsOf(c)
    BY <1>1, JobFacts DEF Shared, OrderlyClients, ClientTypes, NextJob, JobsOf
  <2>2. \A f \in fresh : f \in Job
    BY DEF Shared, OrderlyClients, ClientTypes
  <2>3. \A f \in fresh : Owner(f) = c => j[2] <= f[2] /\ f[2] \in Nat /\ f = <<c, f[2]>> /\ j = <<c, j[2]>>
    BY <1>1, <2>2, JobFacts DEF NextJob
  <2>4. \A f \in fresh : Owner(f) = c /\ f # j => j[2] < f[2]
    BY <2>1, <2>3
  <2> QED BY <2>1, <2>3, <2>4
<1> DEFINE s == Append(outbox[c], j)
           n == Len(outbox[c])
<1>4. /\ s \in Seq(Job) /\ ToSet(s) = ToSet(outbox[c]) \union {j} /\ n \in Nat
      /\ DOMAIN s = 1..(n + 1) /\ DOMAIN outbox[c] = 1..n /\ s[n + 1] = j
      /\ \A p \in 1..n : s[p] = outbox[c][p]
  BY <1>3, AddedTo
<1> HIDE DEF s
<1>5. \A d \in Camera : outbox'[d] = IF d = c /\ ~full THEN s ELSE outbox[d]
  BY <1>1 DEF s, Shared, OrderlyClients, ClientTypes
<1>6. ClientTypes' /\ Connections'
  BY <1>1, <1>3, <1>4 DEF s, Shared, OrderlyClients, ClientTypes, Connections
<1>7. InOrder'
  <2> SUFFICES ASSUME NEW d \in Camera
               PROVE  /\ \A p \in DOMAIN outbox'[d] : Owner(outbox'[d][p]) = d
                      /\ \A i \in inflight'[d] : Owner(i) = d
                      /\ \A p, q \in DOMAIN outbox'[d] : p < q => outbox'[d][p][2] < outbox'[d][q][2]
                      /\ \A i \in inflight'[d] : \A p \in DOMAIN outbox'[d] : i[2] < outbox'[d][p][2]
                      /\ \A f \in fresh' : Owner(f) = d =>
                           /\ \A p \in DOMAIN outbox'[d] : outbox'[d][p][2] < f[2]
                           /\ \A i \in inflight'[d] : i[2] < f[2]
    BY DEF InOrder
  <2>1. CASE outbox'[d] = outbox[d]
    BY <1>1, <2>1 DEF Shared, OrderlyClients, InOrder
  <2>2. CASE d = c /\ outbox'[d] = s
    BY <1>1, <1>3, <1>4, <2>2 DEF Shared, OrderlyClients, InOrder
  <2> QED BY <1>5, <2>1, <2>2
<1>8. ASSUME NEW d \in Camera PROVE Promise(d)
  <2>1. CASE d # c
    <3>1. fresh' \intersect JobsOf(d) = fresh \intersect JobsOf(d)
      BY <1>1, <2>1 DEF JobsOf
    <3>2. outbox'[d] = outbox[d] /\ inflight'[d] = inflight[d] /\ results'[d] = results[d]
      BY <1>1, <1>5, <2>1
    <3> QED BY <3>1, <3>2 DEF Promise, Contract!vars
  <2>2. CASE d = c
    <3>1. Cardinality(Open(c)) = n + Cardinality(inflight[c])
      BY <1>3, OpenCount DEF Shared
    <3>2. fresh' \intersect JobsOf(c) = (fresh \intersect JobsOf(c)) \ {j} /\ j \in fresh \intersect JobsOf(c)
      BY <1>1, <1>3
    <3>3. Cardinality(inflight[c]) \in Nat /\ ClientPending \in Nat
      BY <1>3, FS_CardinalityType, BoundsAssumption DEF Shared, OrderlyClients, ClientTypes
    <3>4. CASE full
      <4>1. Cardinality(ToSet(outbox[c]) \union inflight[c]) >= ClientPending
        BY <3>1, <3>4 DEF Open
      <4>2. outbox'[c] = outbox[c] /\ inflight'[c] = inflight[c] /\ results'[c] = results[c]
        BY <1>1, <1>3, <1>5, <3>4
      <4>3. Contract(c)!Refuse(j)
        BY <3>2, <4>1, <4>2, ContractCounts DEF Contract!Refuse
      <4> QED BY <1>3, <2>2, <4>3 DEF Promise, Contract!Next
    <3>5. CASE ~full
      <4>1. Cardinality(ToSet(outbox[c]) \union inflight[c]) < ClientPending
        BY <1>4, <3>1, <3>3, <3>5 DEF Open
      <4>2. ToSet(outbox'[c]) \union inflight'[c] = (ToSet(outbox[c]) \union inflight[c]) \union {j}
        BY <1>1, <1>3, <1>4, <1>5, <3>5
      <4>3. results'[c] = results[c]
        BY <1>1
      <4>4. Contract(c)!Submit(j)
        BY <3>2, <4>1, <4>2, <4>3, ContractCounts DEF Contract!Submit
      <4> QED BY <1>3, <2>2, <4>4 DEF Promise, Contract!Next
    <3> QED BY <3>4, <3>5
  <2> QED BY <2>1, <2>2
<1>9. \A d \in Camera : \A i : Sending(d, i)' <=> Sending(d, i)
  BY <1>1 DEF Sending
<1>10. InflightOnly' /\ NeverOpened' /\ NotYetSent' /\ Underway'
  BY <1>1, <1>2, <1>9 DEF Shared, InflightOnly, NeverOpened, NotYetSent, Newest, Underway
<1> QED BY <1>2, <1>6, <1>7, <1>8, <1>10 DEF Shared, OrderlyClients

(* What fails is answered at once: the client has it in no other place.     *)
Failed(c, S) == results[c] \union {[job |-> j, status |-> "unavailable"] : j \in S}

(* Failing jobs changes the results of one client.                          *)
LEMMA FailedTypes ==
  ASSUME ClientTypes, NEW c \in Camera, NEW S \in SUBSET Job,
         results' = [results EXCEPT ![c] = Failed(c, S)]
  PROVE  /\ results' \in [Camera -> SUBSET Answer]
         /\ results'[c] = Failed(c, S) /\ \A d \in Camera : d # c => results'[d] = results[d]
<1>1. {[job |-> j, status |-> "unavailable"] : j \in S} \subseteq Answer
  BY DEF Answer, Status
<1>2. results \in [Camera -> SUBSET Answer]
  BY DEF ClientTypes
<1>3. Failed(c, S) \in SUBSET Answer
  BY <1>1, <1>2 DEF Failed
<1> QED BY <1>2, <1>3

(* A dropped connection fails every job that was out on it.                 *)
LEMMA DropShares ==
  ASSUME Shared, NEW c \in Camera, NEW n \in {"tick", "closed"},
         conn' = [conn EXCEPT ![c] = 0], inflight' = [inflight EXCEPT ![c] = {}],
         io' = [io EXCEPT ![c] = n], results' = [results EXCEPT ![c] = Failed(c, inflight[c])],
         UNCHANGED <<fresh, outbox, opened, wireVars, handler, alive, queue, running>>
  PROVE  Shared' /\ \A d \in Camera : Promise(d)
<1> USE DEF wireVars
<1>1. /\ conn \in [Camera -> Nat] /\ inflight \in [Camera -> SUBSET Job]
      /\ io \in [Camera -> {"tick", "send", "sending", "recv", "closed"}]
  BY DEF Shared, OrderlyClients, ClientTypes
<1>2. /\ conn'[c] = 0 /\ inflight'[c] = {} /\ io'[c] = n
      /\ \A d \in Camera : d # c => conn'[d] = conn[d] /\ inflight'[d] = inflight[d] /\ io'[d] = io[d]
  BY <1>1
<1>3. /\ results' \in [Camera -> SUBSET Answer]
      /\ results'[c] = Failed(c, inflight[c]) /\ \A d \in Camera : d # c => results'[d] = results[d]
  BY <1>1, FailedTypes DEF Shared, OrderlyClients
<1>4. OrderlyClients'
  <2>1. ClientTypes'
    BY <1>1, <1>2, <1>3, FS_EmptySet DEF Shared, OrderlyClients, ClientTypes
  <2>2. Connections'
    BY <1>1, <1>2 DEF Shared, OrderlyClients, ClientTypes, Connections
  <2>3. InOrder'
    BY <1>2 DEF Shared, OrderlyClients, InOrder
  <2> QED BY <2>1, <2>2, <2>3 DEF OrderlyClients
<1>5. \A k, j : OnWay(k, j)' <=> OnWay(k, j)
  BY WiresKept
<1>6. Carried'
  <2>1. CanReply'
    <3> SUFFICES ASSUME NEW k \in handler, conn'[k[1]] = k[2] PROVE k \in alive
      BY DEF CanReply, Holds
    <3>1. k[1] \in Camera /\ k[2] \in Nat \ {0}
      BY BoundsAssumption DEF Shared, Carried, WireTypes, Connection
    <3>2. k[1] # c
      BY <1>2, <3>1
    <3> QED BY <1>2, <3>1, <3>2 DEF Shared, Carried, CanReply, Holds
  <2> QED BY <2>1, WiresKept DEF Shared, Carried, WireTypes
<1>7. ASSUME NEW d \in Camera PROVE Promise(d)
  <2>1. CASE d = c
    <3>1. Open(c)' = Open(c) \ inflight[c] /\ inflight[c] \subseteq Open(c)
      BY <1>2, OpenJobs DEF Shared, Open
    <3> QED BY <1>3, <2>1, <3>1, FailedKept DEF Failed
  <2>2. CASE d # c
    BY <1>2, <1>3, <2>2, Unanswered DEF Open
  <2> QED BY <2>1, <2>2
<1>8. \A d \in Camera : d # c => \A j : Sending(d, j)' <=> Sending(d, j)
  BY <1>2 DEF Sending
<1>9. InflightOnly' /\ NeverOpened'
  BY <1>2, <1>5 DEF Shared, InflightOnly, NeverOpened
<1>10. NotYetSent'
  BY <1>2, <1>5 DEF Shared, NotYetSent, Newest
<1>11. Underway'
  BY <1>2, <1>5, <1>8 DEF Shared, Underway
<1> QED BY <1>4, <1>6, <1>7, <1>9, <1>10, <1>11 DEF Shared

(* A client that cannot connect fails all its jobs.                         *)
LEMMA NotConnectedShares ==
  ASSUME Shared, NEW c \in Camera, NotConnected(c)
  PROVE  Shared' /\ \A d \in Camera : Promise(d)
<1> USE DEF wireVars
<1>1. /\ conn[c] = 0 /\ inflight' = [inflight EXCEPT ![c] = {}] /\ outbox' = [outbox EXCEPT ![c] = <<>>]
      /\ results' = [results EXCEPT ![c] = Failed(c, inflight[c] \union ToSet(outbox[c]))]
      /\ UNCHANGED <<fresh, io, conn, opened, wireVars, handler, alive, queue, running>>
  BY DEF NotConnected, FailJobs, Failed, pipelineVars, serverVars
<1>2. /\ inflight \in [Camera -> SUBSET Job] /\ outbox \in [Camera -> Seq(Job)] /\ inflight[c] = {}
  BY <1>1 DEF Shared, OrderlyClients, ClientTypes, Connections
<1>3. /\ inflight' = inflight /\ outbox'[c] = <<>> /\ ToSet(outbox'[c]) = {}
      /\ \A d \in Camera : d # c => outbox'[d] = outbox[d]
  BY <1>1, <1>2 DEF ToSet
<1>4. inflight[c] \union ToSet(outbox[c]) \in SUBSET Job /\ Open(c) = inflight[c] \union ToSet(outbox[c])
  BY OpenJobs DEF Shared, Open
<1>5. /\ results' \in [Camera -> SUBSET Answer]
      /\ results'[c] = Failed(c, Open(c)) /\ \A d \in Camera : d # c => results'[d] = results[d]
  BY <1>1, <1>4, FailedTypes DEF Shared, OrderlyClients
<1>6. OrderlyClients'
  <2>1. outbox' \in [Camera -> Seq(Job)]
    BY <1>1, <1>2
  <2>2. ClientTypes'
    BY <1>1, <1>3, <1>5, <2>1 DEF Shared, OrderlyClients, ClientTypes
  <2>3. Connections'
    BY <1>1, <1>3 DEF Shared, OrderlyClients, Connections
  <2>4. InOrder'
    BY <1>1, <1>3 DEF Shared, OrderlyClients, InOrder
  <2> QED BY <2>2, <2>3, <2>4 DEF OrderlyClients
<1>7. \A k, j : OnWay(k, j)' <=> OnWay(k, j)
  BY <1>1, WiresKept
<1>8. Carried'
  BY <1>1, WiresKept DEF Shared, Carried, WireTypes, CanReply, Holds
<1>9. ASSUME NEW d \in Camera PROVE Promise(d)
  <2>1. CASE d = c
    <3>1. Open(c)' = Open(c) \ Open(c)
      BY <1>2, <1>3 DEF Open
    <3> QED BY <1>1, <1>5, <2>1, <3>1, FailedKept DEF Failed
  <2>2. CASE d # c
    BY <1>1, <1>3, <1>5, <2>2, Unanswered DEF Open
  <2> QED BY <2>1, <2>2
<1>10. \A d \in Camera : \A j : Sending(d, j)' <=> Sending(d, j)
  BY <1>1, <1>3 DEF Sending
<1>11. InflightOnly' /\ NeverOpened' /\ NotYetSent' /\ Underway'
  BY <1>1, <1>3, <1>7, <1>10 DEF Shared, InflightOnly, NeverOpened, NotYetSent, Newest, Underway
<1> QED BY <1>6, <1>8, <1>9, <1>11 DEF Shared

(* A new connection carries nothing.                                        *)
LEMMA ConnectedShares ==
  ASSUME Shared, NEW c \in Camera, Connected(c)
  PROVE  Shared' /\ \A d \in Camera : Promise(d)
<1> USE DEF wireVars
<1> DEFINE n == opened[c] + 1
           k == <<c, n>>
<1>1. /\ conn[c] = 0 /\ io[c] = "tick" /\ opened[c] < MaxConnections
      /\ opened' = [opened EXCEPT ![c] = n] /\ conn' = [conn EXCEPT ![c] = n]
      /\ io' = [io EXCEPT ![c] = "send"]
      /\ handler' = handler \union {k} /\ alive' = alive \union {k}
      /\ UNCHANGED <<fresh, outbox, inflight, results, toServer, toClient, queue, running>>
  BY DEF Connected, pipelineVars
<1>2. /\ conn \in [Camera -> Nat] /\ opened \in [Camera -> Nat] /\ inflight[c] = {} /\ opened[c] \in Nat
      /\ io \in [Camera -> {"tick", "send", "sending", "recv", "closed"}]
  BY <1>1 DEF Shared, OrderlyClients, ClientTypes, Connections
<1>3. n \in Nat \ {0} /\ n <= MaxConnections /\ k \in Connection /\ n > opened[c] /\ k[1] = c /\ k[2] = n
  BY <1>1, <1>2, BoundsAssumption DEF Connection
<1>4. k \notin handler /\ \A j \in Job : ~OnWay(k, j)
  BY <1>3 DEF Shared, NeverOpened
<1> HIDE DEF n
<1>5. /\ conn'[c] = n /\ opened'[c] = n /\ io'[c] = "send"
      /\ \A d \in Camera : d # c => conn'[d] = conn[d] /\ opened'[d] = opened[d] /\ io'[d] = io[d]
  BY <1>1, <1>2
<1>6. OrderlyClients'
  <2>1. ClientTypes'
    BY <1>1, <1>2, <1>3 DEF Shared, OrderlyClients, ClientTypes
  <2>2. Connections'
    BY <1>1, <1>3, <1>5 DEF Shared, OrderlyClients, Connections
  <2>3. InOrder'
    BY <1>1 DEF Shared, OrderlyClients, InOrder
  <2> QED BY <2>1, <2>2, <2>3 DEF OrderlyClients
<1>7. \A m, j : OnWay(m, j)' <=> OnWay(m, j)
  BY <1>1, WiresKept
<1>8. Carried'
  <2>1. WireTypes' /\ OneCopy'
    BY <1>1, <1>3, WiresKept DEF Shared, Carried, WireTypes
  <2>2. CanReply'
    <3> SUFFICES ASSUME NEW m \in handler, m # k, conn'[m[1]] = m[2] PROVE m \in alive
      BY <1>1 DEF CanReply, Holds
    <3>1. m \in Connection /\ m[1] \in Camera /\ m = <<m[1], m[2]>>
      BY DEF Shared, Carried, WireTypes, Connection
    <3>2. m[1] # c
      BY <1>5, <3>1
    <3> QED BY <1>5, <3>1, <3>2 DEF Shared, Carried, CanReply, Holds
  <2> QED BY <2>1, <2>2 DEF Carried
<1>9. \A d \in Camera : Promise(d)
  BY <1>1, Unanswered DEF Open
<1>10. \A d \in Camera : d # c => \A j : Sending(d, j)' <=> Sending(d, j)
  BY <1>1, <1>5 DEF Sending
<1>11. InflightOnly'
  <2> SUFFICES ASSUME NEW d \in Camera, conn'[d] # 0, NEW j \in Job, OnWay(<<d, conn'[d]>>, j)
               PROVE  j \in inflight[d]
    BY <1>1, <1>7 DEF InflightOnly
  <2>1. d # c
    BY <1>4, <1>5
  <2> QED BY <1>5, <2>1 DEF Shared, InflightOnly
<1>12. NotYetSent'
  BY <1>1, <1>5, <1>7 DEF Shared, NotYetSent, Newest
<1>13. NeverOpened'
  <2> SUFFICES ASSUME NEW m \in Connection, m[2] > opened'[m[1]]
               PROVE  m \notin handler' /\ \A j \in Job : ~OnWay(m, j)
    BY <1>7 DEF NeverOpened
  <2>1. m[1] \in Camera /\ m[2] \in Nat /\ m # k
    BY <1>3, <1>5 DEF Connection
  <2>2. m[2] > opened[m[1]]
    BY <1>2, <1>3, <1>5, <2>1
  <2> QED BY <1>1, <2>1, <2>2 DEF Shared, NeverOpened
<1>14. Underway'
  <2> SUFFICES ASSUME NEW d \in Camera, NEW j \in inflight[d]
               PROVE  \/ Sending(d, j)' \/ j \in Undecodable
                      \/ conn'[d] # 0 /\ (<<d, conn'[d]>> \notin handler' \/ OnWay(<<d, conn'[d]>>, j))
    BY <1>1, <1>7 DEF Underway
  <2>1. d # c
    BY <1>2
  <2>2. <<d, conn[d]>> # k
    BY <2>1
  <2> QED BY <1>1, <1>5, <1>10, <2>1, <2>2 DEF Shared, Underway
<1> QED BY <1>6, <1>8, <1>9, <1>11, <1>12, <1>13, <1>14 DEF Shared

(* A job leaves the outbox when it takes a slot.                            *)
LEMMA TakeShares ==
  ASSUME Shared, NEW c \in Camera, TakeFromOutbox(c)
  PROVE  Shared' /\ \A d \in Camera : Promise(d)
<1> USE DEF wireVars
<1> DEFINE h == Head(outbox[c])
           s == outbox[c]
<1>1. /\ io[c] = "send" /\ s # <<>>
      /\ inflight' = [inflight EXCEPT ![c] = inflight[c] \union {h}]
      /\ outbox' = [outbox EXCEPT ![c] = Tail(s)]
      /\ io' = [io EXCEPT ![c] = "sending"]
      /\ UNCHANGED <<fresh, results, conn, opened, wireVars, handler, alive, queue, running>>
  BY DEF TakeFromOutbox, pipelineVars, serverVars
<1>2. /\ outbox \in [Camera -> Seq(Job)] /\ inflight \in [Camera -> SUBSET Job]
      /\ io \in [Camera -> {"tick", "send", "sending", "recv", "closed"}]
      /\ IsFiniteSet(inflight[c]) /\ conn[c] # 0
  BY <1>1 DEF Shared, OrderlyClients, ClientTypes, Connections
<1>3. /\ h \in Job /\ h = s[1] /\ Tail(s) \in Seq(Job) /\ Len(s) \in Nat \ {0}
      /\ ToSet(s) = ToSet(Tail(s)) \union {h} /\ h \in ToSet(s)
      /\ DOMAIN s = 1..Len(s) /\ DOMAIN Tail(s) = 1..(Len(s) - 1)
      /\ \A p \in 1..(Len(s) - 1) : Tail(s)[p] = s[p + 1] /\ p + 1 \in 1..Len(s)
  <2>1. s \in Seq(Job)
    BY <1>2
  <2>2. /\ h = s[1] /\ Len(s) \in Nat \ {0}
        /\ DOMAIN s = 1..Len(s) /\ DOMAIN Tail(s) = 1..(Len(s) - 1)
        /\ \A p \in 1..(Len(s) - 1) : Tail(s)[p] = s[p + 1] /\ p + 1 \in 1..Len(s)
    BY <1>1, <2>1
  <2> QED BY <1>1, <2>1, <2>2, TakenFrom
<1>4. /\ inflight'[c] = inflight[c] \union {h} /\ outbox'[c] = Tail(s) /\ io'[c] = "sending"
      /\ \A d \in Camera : d # c => inflight'[d] = inflight[d] /\ outbox'[d] = outbox[d] /\ io'[d] = io[d]
  BY <1>1, <1>2
<1>5. Owner(h) = c /\ 1 \in DOMAIN s /\ \A p \in 1..(Len(s) - 1) : 1 < p + 1
  BY <1>3 DEF Shared, OrderlyClients, InOrder
<1> HIDE DEF h, s
<1>6. /\ \A i \in inflight[c] : i[2] < h[2]
      /\ \A p \in DOMAIN Tail(s) : h[2] < Tail(s)[p][2]
      /\ \A f \in fresh : Owner(f) = c => h[2] < f[2]
  BY <1>3, <1>5 DEF Shared, OrderlyClients, InOrder, s
<1>7. OrderlyClients'
  <2>1. outbox' \in [Camera -> Seq(Job)] /\ inflight' \in [Camera -> SUBSET Job]
        /\ io' \in [Camera -> {"tick", "send", "sending", "recv", "closed"}]
    BY <1>1, <1>2, <1>3
  <2>2. \A d \in Camera : IsFiniteSet(inflight'[d])
    <3>1. IsFiniteSet(inflight[c] \union {h})
      BY <1>2, FS_AddElement
    <3> QED BY <1>4, <3>1 DEF Shared, OrderlyClients, ClientTypes
  <2>3. ClientTypes'
    BY <1>1, <2>1, <2>2 DEF Shared, OrderlyClients, ClientTypes
  <2>4. Connections'
    BY <1>1, <1>2, <1>4 DEF Shared, OrderlyClients, Connections
  <2>5. InOrder'
    <3> SUFFICES ASSUME NEW d \in Camera
                 PROVE  /\ \A p \in DOMAIN outbox'[d] : Owner(outbox'[d][p]) = d
                        /\ \A i \in inflight'[d] : Owner(i) = d
                        /\ \A p, q \in DOMAIN outbox'[d] : p < q => outbox'[d][p][2] < outbox'[d][q][2]
                        /\ \A i \in inflight'[d] : \A p \in DOMAIN outbox'[d] : i[2] < outbox'[d][p][2]
                        /\ \A f \in fresh : Owner(f) = d =>
                             /\ \A p \in DOMAIN outbox'[d] : outbox'[d][p][2] < f[2]
                             /\ \A i \in inflight'[d] : i[2] < f[2]
      BY <1>1 DEF InOrder
    <3>1. CASE d # c
      BY <1>4, <3>1 DEF Shared, OrderlyClients, InOrder
    <3>2. CASE d = c
      <4>1. \A p \in DOMAIN Tail(s) : p + 1 \in DOMAIN outbox[c] /\ Tail(s)[p] = outbox[c][p + 1]
        BY <1>3 DEF s
      <4>2. \A p, q \in DOMAIN Tail(s) : p < q => Tail(s)[p][2] < Tail(s)[q][2]
        BY <1>3, <4>1 DEF Shared, OrderlyClients, InOrder
      <4>3. /\ \A p \in DOMAIN Tail(s) : Owner(Tail(s)[p]) = c
            /\ \A i \in inflight[c] : \A p \in DOMAIN Tail(s) : i[2] < Tail(s)[p][2]
            /\ \A i \in inflight[c] : Owner(i) = c
            /\ \A f \in fresh : Owner(f) = c =>
                 /\ \A p \in DOMAIN Tail(s) : Tail(s)[p][2] < f[2]
                 /\ \A i \in inflight[c] : i[2] < f[2]
        BY <4>1 DEF Shared, OrderlyClients, InOrder
      <4>4. inflight'[d] = inflight[c] \union {h} /\ outbox'[d] = Tail(s)
        BY <1>4, <3>2
      <4>5. \A i \in inflight'[d] : i \in inflight[c] \/ i = h
        BY <4>4
      <4>6. /\ \A i \in inflight'[d] : Owner(i) = c
            /\ \A i \in inflight'[d] : \A p \in DOMAIN Tail(s) : i[2] < Tail(s)[p][2]
            /\ \A f \in fresh : Owner(f) = c => \A i \in inflight'[d] : i[2] < f[2]
        BY <1>5, <1>6, <4>3, <4>5
      <4> QED BY <3>2, <4>2, <4>3, <4>4, <4>6
    <3> QED BY <3>1, <3>2
  <2> QED BY <2>3, <2>4, <2>5 DEF OrderlyClients
<1>8. \A k, j : OnWay(k, j)' <=> OnWay(k, j)
  BY <1>1, WiresKept
<1>9. Carried'
  BY <1>1, WiresKept DEF Shared, Carried, WireTypes, CanReply, Holds
<1>10. \A d \in Camera : Promise(d)
  <2>1. Open(c)' = Open(c)
    BY <1>3, <1>4 DEF Open, s
  <2>2. \A d \in Camera : Open(d)' = Open(d)
    BY <1>4, <2>1 DEF Open
  <2> QED BY <1>1, <2>2, Unanswered
<1>11. InflightOnly' /\ NeverOpened'
  BY <1>1, <1>4, <1>8 DEF Shared, InflightOnly, NeverOpened
<1>12. NotYetSent'
  <2> SUFFICES ASSUME NEW d \in Camera, io'[d] = "sending"
               PROVE  \E j \in Job : /\ j \in inflight'[d] /\ \A i \in inflight'[d] : i[2] <= j[2]
                                     /\ ~OnWay(<<d, conn[d]>>, j)
    BY <1>1, <1>8 DEF NotYetSent, Newest
  <2>1. CASE d # c
    BY <1>4, <2>1 DEF Shared, NotYetSent, Newest
  <2>2. CASE d = c
    <3>1. h \notin inflight[c] /\ h[2] \in Nat
      BY <1>3, <1>6, JobFacts
    <3>2. ~OnWay(<<c, conn[c]>>, h)
      BY <1>2, <1>3, <3>1 DEF Shared, InflightOnly
    <3>3. \A i \in inflight[c] : i \in Job /\ i[2] \in Nat
      BY <1>2, JobFacts
    <3>4. h \in inflight'[c] /\ \A i \in inflight'[c] : i[2] <= h[2]
      BY <1>4, <1>6, <3>1, <3>3
    <3> QED BY <1>3, <2>2, <3>2, <3>4
  <2> QED BY <2>1, <2>2
<1>13. Underway'
  <2> SUFFICES ASSUME NEW d \in Camera, NEW j \in inflight'[d]
               PROVE  \/ Sending(d, j)' \/ j \in Undecodable
                      \/ conn[d] # 0 /\ (<<d, conn[d]>> \notin handler \/ OnWay(<<d, conn[d]>>, j))
    BY <1>1, <1>8 DEF Underway
  <2>1. CASE d # c
    <3>1. Sending(d, j)' <=> Sending(d, j)
      BY <1>4, <2>1 DEF Sending
    <3> QED BY <1>4, <2>1, <3>1 DEF Shared, Underway
  <2>2. CASE d = c /\ j # h
    <3>1. ~Sending(c, j) /\ j \in inflight[c]
      BY <1>1, <1>4, <2>2 DEF Sending
    <3> QED BY <2>2, <3>1 DEF Shared, Underway
  <2>3. CASE d = c /\ j = h
    <3>1. \A i \in inflight'[c] : i[2] <= h[2] /\ (h[2] <= i[2] => i = h)
      <4>1. \A i \in inflight[c] : i \in Job /\ i[2] \in Nat
        BY <1>2, JobFacts
      <4>2. h[2] \in Nat
        BY <1>3, JobFacts
      <4> QED BY <1>4, <1>6, <4>1, <4>2
    <3> DEFINE l == CHOOSE i \in inflight'[c] : \A k \in inflight'[c] : k[2] <= i[2]
    <3>2. l \in inflight'[c] /\ h[2] <= l[2]
      BY <1>4, <3>1
    <3>3. l = h
      BY <3>1, <3>2
    <3> QED BY <1>4, <2>3, <3>3 DEF Sending
  <2> QED BY <2>1, <2>2, <2>3
<1> QED BY <1>7, <1>9, <1>10, <1>11, <1>12, <1>13 DEF Shared

(* A job is sent on the connection it has a slot for, or fails.             *)
LEMMA SendShares ==
  ASSUME Shared, NEW c \in Camera, NEW j \in inflight[c], SendJob(c, j)
  PROVE  Shared' /\ \A d \in Camera : Promise(d)
<1> DEFINE k == <<c, conn[c]>>
           s == Append(toServer[k], j)
<1>1. /\ Sending(c, j) /\ io[c] = "sending"
      /\ toServer' = [toServer EXCEPT ![k] = s]
      /\ io' = [io EXCEPT ![c] = "send"]
      /\ UNCHANGED <<fresh, outbox, inflight, results, conn, opened, toClient, handler, alive, queue, running>>
  BY DEF SendJob, Sending, pipelineVars, serverVars
<1>2. /\ j \in Job /\ conn[c] # 0 /\ k \in Connection /\ k[1] = c /\ k[2] = conn[c]
      /\ conn[c] \in Nat /\ opened[c] \in Nat /\ conn[c] <= opened[c]
      /\ io \in [Camera -> {"tick", "send", "sending", "recv", "closed"}]
  BY <1>1, ConnectionOf DEF Shared, OrderlyClients, ClientTypes, Connections
<1>3. ~OnWay(k, j)
  <2>1. PICK i \in Job : Newest(c, i) /\ ~OnWay(k, i)
    BY <1>1 DEF Shared, NotYetSent
  <2>2. i = j
    BY <1>1, <2>1, SendingNewest DEF Shared
  <2> QED BY <2>1, <2>2
<1>4. /\ toServer \in [Connection -> Seq(Job)] /\ IsInjective(toServer[k])
      /\ j \notin ToSet(toServer[k])
  BY <1>2, <1>3 DEF Shared, Carried, WireTypes, OneCopy, OnWay
<1>5. s \in Seq(Job) /\ ToSet(s) = ToSet(toServer[k]) \union {j} /\ IsInjective(s)
  <2>1. toServer[k] \in Seq(Job)
    BY <1>2, <1>4
  <2> HIDE DEF k
  <2>2. /\ Append(toServer[k], j) \in Seq(Job)
        /\ ToSet(Append(toServer[k], j)) = ToSet(toServer[k]) \union {j}
        /\ IsInjective(Append(toServer[k], j))
    BY <1>2, <1>4, <2>1, AddedTo
  <2> QED BY <2>2
<1> HIDE DEF s, k
<1>6. /\ toServer' \in [Connection -> Seq(Job)]
      /\ \A m \in Connection : toServer'[m] = IF m = k THEN s ELSE toServer[m]
      /\ io'[c] = "send" /\ \A d \in Camera : d # c => io'[d] = io[d]
  BY <1>1, <1>2, <1>4, <1>5
<1>7. InService' = InService
  BY <1>1 DEF InService
<1>8. \A m \in Connection : \A i : OnWay(m, i)' <=> OnWay(m, i) \/ (m = k /\ i = j)
  BY <1>1, <1>5, <1>6, <1>7 DEF OnWay
<1>9. Carried'
  <2>1. WireTypes' /\ CanReply'
    BY <1>1, <1>6 DEF Shared, Carried, WireTypes, CanReply, Holds
  <2>2. \A m \in Connection : IsInjective(toServer'[m]) /\ AnsweredOnce(toClient'[m])
    BY <1>1, <1>5, <1>6 DEF Shared, Carried, OneCopy
  <2>3. IsInjective(queue') /\ ToSet(queue') \intersect ToSet(running') = {}
    BY <1>1 DEF Shared, Carried, OneCopy
  <2>4. ASSUME NEW m \in Connection, NEW i \in ToSet(toServer'[m])
        PROVE  [conn |-> m, job |-> i] \notin InService /\ \A r \in ToSet(toClient[m]) : r.job # i
    <3>1. i \in ToSet(toServer[m]) \/ (m = k /\ i = j)
      BY <1>5, <1>6
    <3> QED BY <1>3, <3>1 DEF Shared, Carried, OneCopy, OnWay
  <2>5. \A e \in InService' : \A r \in ToSet(toClient'[e.conn]) : r.job # e.job
    BY <1>1, <1>7 DEF Shared, Carried, OneCopy
  <2> QED BY <1>1, <1>7, <2>1, <2>2, <2>3, <2>4, <2>5 DEF Carried, OneCopy
<1>10. OrderlyClients'
  BY <1>1, <1>2, <1>6 DEF Shared, OrderlyClients, ClientTypes, Connections, InOrder
<1>11. \A d \in Camera : Promise(d)
  BY <1>1, Unanswered DEF Open
<1>12. \A d \in Camera : d # c => \A i : Sending(d, i)' <=> Sending(d, i)
  BY <1>1, <1>6 DEF Sending
<1>13. ASSUME NEW d \in Camera, conn[d] # 0, NEW i
       PROVE  OnWay(<<d, conn[d]>>, i)' <=> OnWay(<<d, conn[d]>>, i) \/ (d = c /\ i = j)
  <2>1. <<d, conn[d]>> \in Connection
    BY <1>13, ConnectionOf DEF Shared
  <2>2. <<d, conn[d]>> = k <=> d = c
    BY DEF k
  <2> QED BY <1>1, <1>8, <2>1, <2>2
<1>15. InflightOnly'
  <2> SUFFICES ASSUME NEW d \in Camera, conn[d] # 0, NEW i \in Job, OnWay(<<d, conn[d]>>, i)'
               PROVE  i \in inflight[d]
    BY <1>1 DEF InflightOnly
  <2> QED BY <1>13 DEF Shared, InflightOnly
<1>16. NotYetSent'
  <2> SUFFICES ASSUME NEW d \in Camera, io'[d] = "sending"
               PROVE  \E i \in Job : Newest(d, i)' /\ ~OnWay(<<d, conn[d]>>, i)'
    BY <1>1 DEF NotYetSent
  <2>1. d # c /\ io[d] = "sending" /\ conn[d] # 0
    BY <1>6 DEF Shared, OrderlyClients, Connections
  <2>2. PICK i \in Job : Newest(d, i) /\ ~OnWay(<<d, conn[d]>>, i)
    BY <2>1 DEF Shared, NotYetSent
  <2>3. ~OnWay(<<d, conn[d]>>, i)'
    BY <1>13, <2>1, <2>2
  <2>4. Newest(d, i)'
    BY <1>1, <2>2 DEF Newest
  <2> QED BY <2>3, <2>4
<1>17. NeverOpened'
  BY <1>1, <1>2, <1>8 DEF Shared, NeverOpened
<1>18. Underway'
  <2> SUFFICES ASSUME NEW d \in Camera, NEW i \in inflight[d]
               PROVE  \/ Sending(d, i)' \/ i \in Undecodable
                      \/ conn[d] # 0 /\ (<<d, conn[d]>> \notin handler \/ OnWay(<<d, conn[d]>>, i)')
    BY <1>1 DEF Underway
  <2>1. \/ Sending(d, i) \/ i \in Undecodable
        \/ conn[d] # 0 /\ (<<d, conn[d]>> \notin handler \/ OnWay(<<d, conn[d]>>, i))
    BY DEF Shared, Underway
  <2>2. CASE d = c /\ Sending(c, i)
    <3>1. i = j
      BY <1>1, <2>2 DEF Sending
    <3> QED BY <1>2, <1>13, <2>2, <3>1
  <2>3. CASE d # c /\ Sending(d, i)
    BY <1>12, <2>3
  <2>4. CASE ~Sending(d, i)
    BY <1>13, <2>1, <2>4
  <2> QED BY <2>2, <2>3, <2>4
<1> QED BY <1>9, <1>10, <1>11, <1>15, <1>16, <1>17, <1>18 DEF Shared

(* An answer frees the slot of its job.                                     *)
LEMMA ReceiveShares ==
  ASSUME Shared, NEW c \in Camera, Receive(c)
  PROVE  Shared' /\ \A d \in Camera : Promise(d)
<1> DEFINE k == <<c, conn[c]>>
           s == toClient[k]
           r == Head(s)
<1>1. /\ io[c] = "recv" /\ s # <<>>
      /\ inflight' = [inflight EXCEPT ![c] = inflight[c] \ {r.job}]
      /\ results' = [results EXCEPT ![c] = results[c] \union {r}]
      /\ toClient' = [toClient EXCEPT ![k] = Tail(s)]
      /\ io' = [io EXCEPT ![c] = "tick"]
      /\ UNCHANGED <<fresh, outbox, conn, opened, toServer, handler, alive, queue, running>>
  BY DEF Receive, pipelineVars, serverVars
<1>2. /\ conn[c] # 0 /\ k \in Connection /\ k[1] = c /\ k[2] = conn[c]
      /\ conn[c] \in Nat /\ opened[c] \in Nat /\ conn[c] <= opened[c]
      /\ io \in [Camera -> {"tick", "send", "sending", "recv", "closed"}]
      /\ inflight \in [Camera -> SUBSET Job] /\ results \in [Camera -> SUBSET Answer]
      /\ IsFiniteSet(inflight[c])
  BY <1>1, ConnectionOf DEF Shared, OrderlyClients, ClientTypes, Connections
<1>3. toClient \in [Connection -> Seq(Answer)] /\ s \in Seq(Answer) /\ AnsweredOnce(s)
  BY <1>2 DEF Shared, Carried, WireTypes, OneCopy
<1>4. /\ r \in Answer /\ r \in ToSet(s) /\ Tail(s) \in Seq(Answer)
      /\ ToSet(s) = ToSet(Tail(s)) \union {r}
      /\ AnsweredOnce(Tail(s)) /\ \A a \in ToSet(Tail(s)) : a.job # r.job
  BY <1>1, <1>3, TakenFrom, Answered
<1>5. r.job \in Job /\ OnWay(k, r.job)
  BY <1>4 DEF Answer, OnWay
<1>6. r.job \in inflight[c]
  BY <1>2, <1>5 DEF Shared, InflightOnly
<1>7. r.job \notin ToSet(toServer[k]) /\ [conn |-> k, job |-> r.job] \notin InService
  BY <1>2, <1>4 DEF Shared, Carried, OneCopy
<1> HIDE DEF r, s, k
<1>8. /\ inflight'[c] = inflight[c] \ {r.job} /\ results'[c] = results[c] \union {r} /\ io'[c] = "tick"
      /\ \A d \in Camera : d # c => inflight'[d] = inflight[d] /\ results'[d] = results[d] /\ io'[d] = io[d]
      /\ toClient' \in [Connection -> Seq(Answer)]
      /\ \A m \in Connection : toClient'[m] = IF m = k THEN Tail(s) ELSE toClient[m]
  BY <1>1, <1>2, <1>3, <1>4
<1>9. InService' = InService
  BY <1>1 DEF InService
<1>10. \A m \in Connection : \A i : OnWay(m, i)' <=> OnWay(m, i) /\ ~(m = k /\ i = r.job)
  <2> SUFFICES ASSUME NEW m \in Connection, NEW i
               PROVE  OnWay(m, i)' <=> OnWay(m, i) /\ ~(m = k /\ i = r.job)
    OBVIOUS
  <2>1. (\E a \in ToSet(toClient'[m]) : a.job = i)
        <=> (\E a \in ToSet(toClient[m]) : a.job = i) /\ ~(m = k /\ i = r.job)
    BY <1>4, <1>8 DEF s
  <2> QED BY <1>1, <1>7, <1>9, <2>1 DEF OnWay
<1>11. Carried'
  <2>1. WireTypes' /\ CanReply'
    BY <1>1, <1>8 DEF Shared, Carried, WireTypes, CanReply, Holds
  <2>2. \A m \in Connection : IsInjective(toServer'[m]) /\ AnsweredOnce(toClient'[m])
    BY <1>1, <1>4, <1>8 DEF Shared, Carried, OneCopy
  <2>3. IsInjective(queue') /\ ToSet(queue') \intersect ToSet(running') = {}
    BY <1>1 DEF Shared, Carried, OneCopy
  <2>4. \A m \in Connection : ToSet(toClient'[m]) \subseteq ToSet(toClient[m])
    BY <1>4, <1>8 DEF s
  <2>5. \A m \in Connection : \A i \in ToSet(toServer'[m]) :
          [conn |-> m, job |-> i] \notin InService' /\ \A a \in ToSet(toClient'[m]) : a.job # i
    <3> SUFFICES ASSUME NEW m \in Connection, NEW i \in ToSet(toServer'[m])
                 PROVE  [conn |-> m, job |-> i] \notin InService'
                        /\ \A a \in ToSet(toClient'[m]) : a.job # i
      OBVIOUS
    <3>1. i \in ToSet(toServer[m])
      BY <1>1
    <3>2. [conn |-> m, job |-> i] \notin InService /\ \A a \in ToSet(toClient[m]) : a.job # i
      BY <3>1 DEF Shared, Carried, OneCopy
    <3> QED BY <1>9, <2>4, <3>2
  <2>6. ASSUME NEW e \in InService', NEW a \in ToSet(toClient'[e.conn]) PROVE a.job # e.job
    <3>1. e \in InService /\ e.conn \in Connection
      BY <1>9, Entries DEF Shared, Carried, Entry
    <3> QED BY <2>4, <2>6, <3>1 DEF Shared, Carried, OneCopy
  <2> QED BY <2>1, <2>2, <2>3, <2>5, <2>6 DEF Carried, OneCopy
<1>12. OrderlyClients'
  <2>1. inflight' \in [Camera -> SUBSET Job] /\ results' \in [Camera -> SUBSET Answer]
        /\ io' \in [Camera -> {"tick", "send", "sending", "recv", "closed"}]
    BY <1>1, <1>2, <1>4
  <2>2. \A d \in Camera : IsFiniteSet(inflight'[d])
    <3>1. IsFiniteSet(inflight[c] \ {r.job})
      BY <1>2, FS_RemoveElement
    <3> QED BY <1>8, <3>1 DEF Shared, OrderlyClients, ClientTypes
  <2>3. ClientTypes'
    BY <1>1, <2>1, <2>2 DEF Shared, OrderlyClients, ClientTypes
  <2>4. Connections'
    BY <1>1, <1>2, <1>8 DEF Shared, OrderlyClients, Connections
  <2>5. \A d \in Camera : inflight'[d] \subseteq inflight[d]
    BY <1>8
  <2>6. InOrder'
    BY <1>1, <2>5 DEF Shared, OrderlyClients, InOrder
  <2> QED BY <2>3, <2>4, <2>6 DEF OrderlyClients
<1>13. ASSUME NEW d \in Camera PROVE Promise(d)
  <2>1. CASE d = c
    <3>1. Open(c)' = Open(c) \ {r.job} /\ r.job \in Open(c)
      BY <1>1, <1>6, <1>8, OpenJobs DEF Shared, Open
    <3> QED BY <1>1, <1>4, <1>8, <2>1, <3>1, AnsweredKept
  <2>2. CASE d # c
    BY <1>1, <1>8, <2>2, Unanswered DEF Open
  <2> QED BY <2>1, <2>2
<1>14. \A d \in Camera : d # c => \A i : Sending(d, i)' <=> Sending(d, i)
  BY <1>1, <1>8 DEF Sending
<1>15. ASSUME NEW d \in Camera, conn[d] # 0, NEW i
       PROVE  OnWay(<<d, conn[d]>>, i)' <=> OnWay(<<d, conn[d]>>, i) /\ ~(d = c /\ i = r.job)
  <2>1. <<d, conn[d]>> \in Connection
    BY <1>15, ConnectionOf DEF Shared
  <2>2. <<d, conn[d]>> = k <=> d = c
    BY DEF k
  <2> QED BY <1>1, <1>10, <2>1, <2>2
<1>16. InflightOnly'
  <2> SUFFICES ASSUME NEW d \in Camera, conn[d] # 0, NEW i \in Job, OnWay(<<d, conn[d]>>, i)'
               PROVE  i \in inflight'[d]
    BY <1>1 DEF InflightOnly
  <2>1. OnWay(<<d, conn[d]>>, i) /\ ~(d = c /\ i = r.job)
    BY <1>15
  <2> QED BY <1>8, <2>1 DEF Shared, InflightOnly
<1>18. NotYetSent'
  <2> SUFFICES ASSUME NEW d \in Camera, io'[d] = "sending"
               PROVE  \E i \in Job : Newest(d, i)' /\ ~OnWay(<<d, conn[d]>>, i)'
    BY <1>1 DEF NotYetSent
  <2>1. d # c /\ io[d] = "sending" /\ conn[d] # 0
    BY <1>8 DEF Shared, OrderlyClients, Connections
  <2>2. PICK i \in Job : Newest(d, i) /\ ~OnWay(<<d, conn[d]>>, i)
    BY <2>1 DEF Shared, NotYetSent
  <2>3. ~OnWay(<<d, conn[d]>>, i)'
    BY <1>15, <2>1, <2>2
  <2>4. Newest(d, i)'
    BY <1>1, <1>8, <2>1, <2>2 DEF Newest
  <2> QED BY <2>3, <2>4
<1>19. NeverOpened'
  BY <1>1, <1>10 DEF Shared, NeverOpened
<1>20. Underway'
  <2> SUFFICES ASSUME NEW d \in Camera, NEW i \in inflight'[d]
               PROVE  \/ Sending(d, i)' \/ i \in Undecodable
                      \/ conn[d] # 0 /\ (<<d, conn[d]>> \notin handler \/ OnWay(<<d, conn[d]>>, i)')
    BY <1>1 DEF Underway
  <2>1. i \in inflight[d] /\ ~(d = c /\ i = r.job)
    BY <1>8
  <2>2. \/ Sending(d, i) \/ i \in Undecodable
        \/ conn[d] # 0 /\ (<<d, conn[d]>> \notin handler \/ OnWay(<<d, conn[d]>>, i))
    BY <2>1 DEF Shared, Underway
  <2>3. Sending(d, i) => d # c
    BY <1>1 DEF Sending
  <2>4. conn[d] # 0 /\ OnWay(<<d, conn[d]>>, i) => OnWay(<<d, conn[d]>>, i)'
    BY <1>15, <2>1
  <2> QED BY <1>14, <2>2, <2>3, <2>4
<1> QED BY <1>11, <1>12, <1>13, <1>16, <1>18, <1>19, <1>20 DEF Shared

-----------------------------------------------------------------------------
ClientStep ==
  \/ \E j \in Job : Submit(j)
  \/ \E c \in Camera : Poll(c) \/ Io(c) \/ Close(c)

(* Every step of a client keeps the contracts of all.                       *)
LEMMA ClientShares == ASSUME Shared, ClientStep PROVE Shared' /\ \A d \in Camera : Promise(d)
<1>1. ASSUME NEW c \in Camera, StillConnected(c) \/ OutboxSent(c) \/ NothingYet(c)
      PROVE  Shared' /\ \A d \in Camera : Promise(d)
  <2>1. conn[c] # 0 /\ io[c] # "sending"
    BY <1>1 DEF StillConnected, OutboxSent, NothingYet, Shared, OrderlyClients, Connections
  <2>2. \E n \in {"tick", "send", "recv"} : io' = [io EXCEPT ![c] = n]
    BY <1>1 DEF StillConnected, OutboxSent, NothingYet
  <2>3. UNCHANGED <<fresh, outbox, inflight, results, conn, opened, wireVars, handler, alive, queue, running>>
    BY <1>1 DEF StillConnected, OutboxSent, NothingYet, pipelineVars, serverVars
  <2> QED BY <2>1, <2>2, <2>3, IoShares
<1>2. ASSUME NEW c \in Camera, ConnectionLost(c) \/ Close(c) \/ \E j \in inflight[c] : SendFails(c, j)
      PROVE  Shared' /\ \A d \in Camera : Promise(d)
  <2>1. \E n \in {"tick", "closed"} : io' = [io EXCEPT ![c] = n]
    BY <1>2 DEF ConnectionLost, Close, SendFails
  <2>2. /\ conn' = [conn EXCEPT ![c] = 0] /\ inflight' = [inflight EXCEPT ![c] = {}]
        /\ results' = [results EXCEPT ![c] = Failed(c, inflight[c])]
        /\ UNCHANGED <<fresh, outbox, opened, wireVars, handler, alive, queue, running>>
    BY <1>2 DEF ConnectionLost, Close, SendFails, DropConnection, FailJobs, Failed, pipelineVars, serverVars
  <2> QED BY <2>1, <2>2, DropShares
<1> QED BY <1>1, <1>2, SubmitShares, PollShares, ConnectedShares, NotConnectedShares, TakeShares,
           SendShares, ReceiveShares DEF ClientStep, Io

(* Every step keeps the contracts of all.                                   *)
LEMMA StepShares == ASSUME Shared, [Next]_vars PROVE Shared' /\ \A c \in Camera : Promise(c)
<1>1. CASE ClientStep
  BY <1>1, ClientShares
<1>2. CASE ServiceStep
  <2>1. Shared' /\ UNCHANGED <<fresh, outbox, inflight, results>>
    BY <1>2, ServiceShares
  <2>2. \A c \in Camera : Promise(c)
    BY <2>1, Unanswered DEF Open
  <2> QED BY <2>1, <2>2
<1>3. CASE UNCHANGED vars
  <2>1. /\ UNCHANGED <<fresh, outbox, inflight, results, io, conn, opened>>
        /\ UNCHANGED <<toServer, toClient, queue, running, handler, alive>>
    BY <1>3 DEF vars
  <2>2. \A k, j : OnWay(k, j)' <=> OnWay(k, j)
    BY <2>1, WiresKept
  <2>3. Carried'
    BY <2>1, WiresKept DEF Shared, Carried, WireTypes, CanReply, Holds
  <2>4. OrderlyClients'
    BY <2>1 DEF Shared, OrderlyClients, ClientTypes, Connections, InOrder
  <2>5. \A d \in Camera : \A j : Sending(d, j)' <=> Sending(d, j)
    BY <2>1 DEF Sending
  <2>6. InflightOnly' /\ NeverOpened' /\ NotYetSent' /\ Underway'
    BY <2>1, <2>2, <2>5 DEF Shared, InflightOnly, NeverOpened, NotYetSent, Newest, Underway
  <2>7. \A c \in Camera : Promise(c)
    BY <2>1, Unanswered DEF Open
  <2> QED BY <2>3, <2>4, <2>6, <2>7 DEF Shared
<1> QED BY <1>1, <1>2, <1>3 DEF Next, ClientStep, ServiceStep

(* The first state is one of each contract.                                 *)
LEMMA FirstShares == ASSUME Init PROVE Shared /\ \A c \in Camera : Contract(c)!Init
<1>1. /\ fresh \subseteq Job /\ outbox = [c \in Camera |-> <<>>] /\ inflight = [c \in Camera |-> {}]
      /\ results = [c \in Camera |-> {}] /\ conn = [c \in Camera |-> 0] /\ opened = [c \in Camera |-> 0]
      /\ io = [c \in Camera |-> IF JobsOf(c) \intersect fresh = {} THEN "closed" ELSE "tick"]
      /\ toServer = [k \in Connection |-> <<>>] /\ toClient = [k \in Connection |-> <<>>]
      /\ handler = {} /\ alive = {} /\ queue = <<>> /\ running = <<>>
  BY JobsAssumption DEF Init
<1>2. /\ ToSet(queue) = {} /\ ToSet(running) = {}
      /\ \A k \in Connection : ToSet(toServer[k]) = {} /\ ToSet(toClient[k]) = {}
      /\ \A c \in Camera : ToSet(outbox[c]) = {} /\ DOMAIN outbox[c] = {}
      /\ \A k \in Connection : DOMAIN toServer[k] = {} /\ DOMAIN toClient[k] = {}
      /\ DOMAIN queue = {} /\ Len(running) = 0
  BY <1>1 DEF ToSet
<1>3. Carried
  BY <1>1, <1>2 DEF Carried, WireTypes, OneCopy, CanReply, AnsweredOnce, IsInjective, InService
<1>4. \A k \in Connection : \A j \in Job : ~OnWay(k, j)
  BY <1>2 DEF OnWay, InService
<1>5. OrderlyClients
  <2>1. ClientTypes
    BY <1>1, FS_EmptySet DEF ClientTypes
  <2>2. Connections
    BY <1>1, BoundsAssumption DEF Connections
  <2>3. InOrder
    BY <1>1, <1>2 DEF InOrder
  <2> QED BY <2>1, <2>2, <2>3 DEF OrderlyClients
<1>6. InflightOnly /\ NotYetSent /\ NeverOpened /\ Underway
  BY <1>1, <1>4 DEF InflightOnly, NotYetSent, NeverOpened, Underway
<1>7. \A c \in Camera : Contract(c)!Init
  BY <1>1, <1>2 DEF Contract!Init
<1> QED BY <1>3, <1>5, <1>6, <1>7 DEF Shared

(* A job holds its place among those in flight only while it is on its way  *)
(* or its connection is dead (_io_loop and _drop_connection of client.py    *)
(* with the handler threads of server.py): whatever the service loses, no   *)
(* slot of the client is leaked, but for jobs the service cannot decode.    *)
THEOREM InflightIsUnderwayCorrect == Spec => []InflightIsUnderway
<1>1. Init => Shared
  BY FirstShares
<1>2. Shared /\ [Next]_vars => Shared'
  BY StepShares
<1>3. Shared => InflightIsUnderway
  BY DEF Shared, Underway, InflightIsUnderway, OnWay, InService
<1> QED BY <1>1, <1>2, <1>3, PTL DEF Spec

(* The refinement: to its pipeline every client is the contract of the      *)
(* docstring of client.py, step by step, whatever the other clients do,     *)
(* the service loses, or dies over.                                         *)
THEOREM ContractKeptCorrect == Spec => ContractKept
<1>1. Init => Shared /\ \A c \in Camera : Contract(c)!Init
  BY FirstShares
<1>2. Shared /\ [Next]_vars
      => Shared' /\ [\A c \in Camera : [Contract(c)!Next]_(Contract(c)!vars)]_vars
  BY StepShares DEF Promise
<1> QED BY <1>1, <1>2, PTL DEF Spec, ContractKept

-----------------------------------------------------------------------------
(* JobExpiry.                                                              *)

SentJob == 1 .. Len(sent)

Clocks ==
    /\ now \in Nat
    /\ sent \in Seq([at : Nat, by : Sender])
    /\ waiting \subseteq SentJob

(* The camera stops waiting for a job that has not been run only when its  *)
(* deadline has passed, with its connection, or when it ends.              *)
Awaited(j) == j \in waiting \/ Overdue(j) \/ Orphan(j)

OnTheWay ==
    /\ moving \subseteq SentJob
    /\ \A j \in moving : now - sent[j].at <= MaxDelay
    /\ \A j \in moving : Awaited(j)

InBacklog ==
    /\ backlog \in Seq([job : Nat, at : Nat])
    /\ \A k \in DOMAIN backlog :
         /\ backlog[k].job \in SentJob
         /\ backlog[k].at <= now
         /\ backlog[k].at - sent[backlog[k].job].at <= MaxDelay
         /\ Awaited(backlog[k].job)

(* A job is in one place at a time, so that what becomes of the one that   *)
(* leaves the queue says nothing about those that stay.                    *)
OnePlace ==
    /\ \A k \in DOMAIN backlog : backlog[k].job \notin moving
    /\ \A k, l \in DOMAIN backlog : backlog[k].job = backlog[l].job => k = l
    /\ inModel # <<>> =>
         /\ Head(inModel).job \in SentJob \ moving
         /\ \A k \in DOMAIN backlog : backlog[k].job # Head(inModel).job

JobsUnderway == Clocks /\ OnTheWay /\ InBacklog /\ OnePlace

(* The limits are numbers.                                                  *)
LEMMA Limits ==
    /\ MaxJobAge \in Nat /\ JobTimeout \in Nat /\ MaxDelay \in Nat
BY TimesAssumption

(* An element of a sequence is of its type.                                 *)
LEMMA ElementType ==
    ASSUME NEW T, NEW s \in Seq(T), NEW k \in DOMAIN s
    PROVE  s[k] \in T
OBVIOUS

(* The backlog holds jobs with the time they entered.                       *)
LEMMA BacklogEntries ==
    ASSUME InBacklog, NEW k \in DOMAIN backlog
    PROVE  backlog[k].job \in Nat /\ backlog[k].at \in Nat
<1>1. backlog \in Seq([job : Nat, at : Nat])
  BY DEF InBacklog
<1>2. backlog[k] \in [job : Nat, at : Nat]
  BY ONLY <1>1, k \in DOMAIN backlog, ElementType
<1> QED
  BY <1>2

(* The entries that are left when the first one leaves.                    *)
LEMMA TailEntries ==
    ASSUME InBacklog, backlog # <<>>
    PROVE  /\ Tail(backlog) \in Seq([job : Nat, at : Nat])
           /\ DOMAIN Tail(backlog) \subseteq Nat
           /\ \A k \in DOMAIN Tail(backlog) :
                /\ k + 1 \in DOMAIN backlog
                /\ Tail(backlog)[k] = backlog[k + 1]
                /\ k + 1 # 1
           /\ 1 \in DOMAIN backlog /\ Head(backlog) = backlog[1]
<1>1. backlog \in Seq([job : Nat, at : Nat])
  BY DEF InBacklog
<1> QED
  BY <1>1

(* When and by whom a job was sent.                                         *)
LEMMA SentEntries ==
    ASSUME Clocks, NEW j \in SentJob
    PROVE  j \in Nat /\ sent[j].at \in Nat /\ sent[j].by \in Sender
<1>1. sent \in Seq([at : Nat, by : Sender]) /\ j \in DOMAIN sent /\ j \in Nat
  BY DEF Clocks, SentJob
<1>2. sent[j] \in [at : Nat, by : Sender]
  BY ONLY <1>1, ElementType
<1> QED
  BY <1>1, <1>2

(* What no longer is waited for for a reason stays so.                      *)
LEMMA AwaitedStays ==
    ASSUME Clocks, NEW j \in SentJob, Awaited(j), sent'[j] = sent[j],
           now' = now \/ now' = now + 1, cut \subseteq cut', gone \subseteq gone',
           j \in waiting => Awaited(j)'
    PROVE  Awaited(j)'
<1>1. sent[j].at \in Nat /\ now \in Nat /\ JobTimeout \in Nat
  BY SentEntries, Limits DEF Clocks
<1>2. CASE Overdue(j)
  BY <1>1, <1>2 DEF Awaited, Overdue
<1>3. CASE Orphan(j)
  BY <1>3 DEF Awaited, Orphan
<1> QED
  BY <1>2, <1>3 DEF Awaited

(* A step that sends nothing, moves nothing in the service, loses only jobs *)
(* on their way, and stops waiting only for a reason.                       *)
LEMMA Resting ==
    ASSUME JobsUnderway, UNCHANGED <<now, sent, backlog, inModel>>,
           moving' \subseteq moving, waiting' \subseteq waiting,
           cut \subseteq cut', gone \subseteq gone',
           \A j \in waiting : j \in waiting' \/ Overdue(j) \/ Orphan(j)'
    PROVE  JobsUnderway'
<1>1. SentJob' = SentJob /\ Clocks /\ Clocks'
  BY DEF JobsUnderway, Clocks, SentJob
<1>2. ASSUME NEW j \in SentJob, Awaited(j) PROVE Awaited(j)'
  BY <1>1, <1>2, AwaitedStays DEF Awaited, Overdue
<1>3. OnTheWay'
  BY <1>1, <1>2 DEF JobsUnderway, OnTheWay
<1>4. InBacklog'
  BY <1>1, <1>2 DEF JobsUnderway, InBacklog
<1>5. OnePlace'
  BY <1>1 DEF JobsUnderway, OnePlace
<1> QED
  BY <1>1, <1>3, <1>4, <1>5 DEF JobsUnderway

(* A job handed over is waited for.                                         *)
LEMMA HandOverKeeps == ASSUME JobsUnderway, HandOver PROVE JobsUnderway'
<1> DEFINE n == Len(sent) + 1
<1>1. PICK c \in Sender \ gone : sent' = Append(sent, [at |-> now, by |-> c])
  BY DEF HandOver
<1>2. /\ now \in Nat /\ sent \in Seq([at : Nat, by : Sender]) /\ n \in Nat /\ n \notin SentJob
      /\ MaxDelay \in Nat /\ Clocks
  BY Limits DEF JobsUnderway, Clocks, SentJob
<1>3. /\ sent' \in Seq([at : Nat, by : Sender])
      /\ SentJob' = SentJob \cup {n} /\ SentJob \subseteq SentJob'
      /\ sent'[n].at = now /\ \A j \in SentJob : sent'[j] = sent[j]
  BY <1>1, <1>2 DEF SentJob
<1>4. /\ now' = now /\ backlog' = backlog /\ inModel' = inModel /\ cut' = cut /\ gone' = gone
      /\ moving' = moving \cup {n} /\ waiting' = waiting \cup {n}
  BY DEF HandOver, cameraVars
<1> HIDE DEF n
<1>5. Clocks'
  BY <1>2, <1>3, <1>4 DEF Clocks
<1>6. ASSUME NEW j \in SentJob, Awaited(j) PROVE Awaited(j)'
  BY <1>2, <1>3, <1>4, <1>6, AwaitedStays DEF Awaited
<1>7. OnTheWay'
  <2>1. n \in waiting' /\ now' - sent'[n].at <= MaxDelay
    BY <1>2, <1>3, <1>4
  <2> QED
    BY <1>3, <1>4, <1>6, <2>1 DEF JobsUnderway, OnTheWay, Awaited
<1>8. InBacklog'
  BY <1>3, <1>4, <1>6 DEF JobsUnderway, InBacklog
<1>9. OnePlace'
  BY <1>2, <1>3, <1>4 DEF JobsUnderway, OnePlace, InBacklog
<1> QED
  BY <1>5, <1>7, <1>8, <1>9 DEF JobsUnderway

(* A job arrives no later than a delay after it was sent.                   *)
LEMMA ArriveKeeps == ASSUME JobsUnderway, NEW j \in moving, Arrive(j) PROVE JobsUnderway'
<1>1. /\ now \in Nat /\ j \in SentJob /\ sent[j].at \in Nat /\ Clocks
      /\ now - sent[j].at <= MaxDelay /\ Awaited(j) /\ j \in Nat
  BY SentEntries DEF JobsUnderway, Clocks, OnTheWay
<1>2. /\ now' = now /\ sent' = sent /\ inModel' = inModel /\ SentJob' = SentJob
      /\ moving' = moving \ {j} /\ cut' = cut /\ gone' = gone
  BY DEF Arrive, SentJob, cameraVars
<1>3. ASSUME NEW i \in SentJob, Awaited(i), i # j \/ waiting' = waiting,
             waiting' = waiting \/ waiting' = waiting \ {j}
      PROVE  Awaited(i)'
  <2>1. i \in waiting => Awaited(i)'
    BY <1>3 DEF Awaited
  <2> QED
    BY <1>1, <1>2, <1>3, <2>1, AwaitedStays
<1>4. CASE Len(backlog) < MaxBacklog /\ backlog' = Append(backlog, [job |-> j, at |-> now])
           /\ UNCHANGED waiting
  <2> DEFINE e == [job |-> j, at |-> now]
             m == Len(backlog) + 1
  <2>1. e \in [job : Nat, at : Nat] /\ e.job = j /\ e.at = now
    BY <1>1
  <2>2. backlog \in Seq([job : Nat, at : Nat]) /\ backlog' = Append(backlog, e)
    BY <1>4 DEF JobsUnderway, InBacklog
  <2> HIDE DEF e
  <2>3. /\ backlog' \in Seq([job : Nat, at : Nat])
        /\ DOMAIN backlog' = DOMAIN backlog \cup {m} /\ m \notin DOMAIN backlog
        /\ backlog'[m] = e
        /\ \A k \in DOMAIN backlog : backlog'[k] = backlog[k]
    BY <2>1, <2>2
  <2> HIDE DEF m
  <2>4. Clocks' /\ OnTheWay'
    BY <1>2, <1>3, <1>4 DEF JobsUnderway, Clocks, OnTheWay
  <2>5. InBacklog'
    <3> SUFFICES ASSUME NEW k \in DOMAIN backlog'
                 PROVE  /\ backlog'[k].job \in SentJob'
                        /\ backlog'[k].at <= now'
                        /\ backlog'[k].at - sent'[backlog'[k].job].at <= MaxDelay
                        /\ \/ backlog'[k].job \in waiting'
                           \/ now' - sent'[backlog'[k].job].at >= JobTimeout
                           \/ backlog'[k].job \in cut'
                           \/ sent'[backlog'[k].job].by \in gone'
      BY <2>3 DEF InBacklog, Awaited, Overdue, Orphan
    <3>1. CASE k \in DOMAIN backlog
      <4>0. PICK i : i = backlog[k].job
        OBVIOUS
      <4>1. /\ backlog[k].job \in SentJob /\ Awaited(backlog[k].job)
            /\ backlog[k].at <= now /\ backlog[k].at - sent[backlog[k].job].at <= MaxDelay
        BY <3>1 DEF JobsUnderway, InBacklog
      <4>2. /\ i \in SentJob /\ Awaited(i) /\ backlog'[k] = backlog[k] /\ backlog'[k].job = i
            /\ backlog[k].at <= now /\ backlog[k].at - sent[i].at <= MaxDelay
        BY <2>3, <3>1, <4>0, <4>1
      <4>3. Awaited(i)'
        BY <1>3, <1>4, <4>2
      <4>4. i \in waiting' \/ now' - sent'[i].at >= JobTimeout \/ i \in cut' \/ sent'[i].by \in gone'
        BY <4>3 DEF Awaited, Overdue, Orphan
      <4> QED
        BY <1>2, <4>2, <4>4
    <3>2. CASE k = m
      <4>1. backlog'[k].job = j /\ backlog'[k].at = now
        BY <2>1, <2>3, <3>2
      <4>2. Awaited(j)'
        BY <1>1, <1>3, <1>4
      <4>3. backlog'[k].job \in SentJob' /\ backlog'[k].at <= now'
            /\ backlog'[k].at - sent'[backlog'[k].job].at <= MaxDelay
        BY <1>1, <1>2, <4>1
      <4> QED
        BY <4>1, <4>2, <4>3 DEF Awaited, Overdue, Orphan
    <3> QED
      BY <2>3, <3>1, <3>2
  <2>6. OnePlace'
    BY <1>1, <1>2, <2>1, <2>3 DEF JobsUnderway, OnePlace
  <2> QED
    BY <2>4, <2>5, <2>6 DEF JobsUnderway
<1>5. CASE waiting' = waiting \ {j} /\ UNCHANGED backlog
  <2>1. Clocks' /\ OnTheWay'
    BY <1>2, <1>3, <1>5 DEF JobsUnderway, Clocks, OnTheWay
  <2>2. \A k \in DOMAIN backlog : backlog[k].job # j
    BY DEF JobsUnderway, OnePlace
  <2>3. InBacklog' /\ OnePlace'
    BY <1>2, <1>3, <1>5, <2>2 DEF JobsUnderway, InBacklog, OnePlace
  <2> QED
    BY <2>1, <2>3 DEF JobsUnderway
<1> QED
  BY <1>4, <1>5 DEF Arrive

(* Whatever takes the first entry from the queue.                          *)
LEMMA LeavesBacklog ==
    ASSUME JobsUnderway, inModel = <<>>, backlog # <<>>, backlog' = Tail(backlog),
           UNCHANGED <<now, sent, moving, cameraVars>>,
           \/ /\ inModel' = <<[job |-> Head(backlog).job, at |-> now]>>
              /\ UNCHANGED waiting
           \/ inModel' = <<>> /\ waiting' = waiting \ {Head(backlog).job}
    PROVE  JobsUnderway'
<1> DEFINE h == Head(backlog).job
<1>1. SentJob' = SentJob /\ Clocks /\ cut' = cut /\ gone' = gone
  BY DEF SentJob, JobsUnderway, cameraVars
<1>2. h \in SentJob /\ h \notin moving
  BY TailEntries DEF JobsUnderway, InBacklog, OnePlace
<1>3. /\ backlog' \in Seq([job : Nat, at : Nat])
      /\ \A k \in DOMAIN backlog' :
           /\ k + 1 \in DOMAIN backlog /\ backlog'[k] = backlog[k + 1]
           /\ backlog'[k].job # h
  BY TailEntries DEF JobsUnderway, OnePlace
<1>4. \A k, l \in DOMAIN backlog' : k + 1 = l + 1 => k = l
  BY TailEntries DEF JobsUnderway
<1>5. inModel' # <<>> => Head(inModel').job = h
  OBVIOUS
<1>6. waiting' \subseteq waiting /\ waiting \ {h} \subseteq waiting'
  OBVIOUS
<1> HIDE DEF h
<1>7. Clocks'
  BY <1>1, <1>6 DEF Clocks
<1>8. ASSUME NEW j \in SentJob, Awaited(j), j # h PROVE Awaited(j)'
  BY <1>1, <1>6, <1>8, AwaitedStays DEF Awaited
<1>9. OnTheWay'
  BY <1>1, <1>2, <1>8 DEF JobsUnderway, OnTheWay
<1>10. InBacklog'
  BY <1>1, <1>3, <1>8 DEF JobsUnderway, InBacklog
<1>11. OnePlace'
  <2>1. \A k \in DOMAIN backlog' : backlog'[k].job \notin moving'
    BY <1>3 DEF JobsUnderway, OnePlace
  <2>2. ASSUME NEW k \in DOMAIN backlog', NEW l \in DOMAIN backlog',
               backlog'[k].job = backlog'[l].job
        PROVE  k = l
    <3>1. /\ k + 1 \in DOMAIN backlog /\ l + 1 \in DOMAIN backlog
          /\ backlog[k + 1].job = backlog[l + 1].job
      BY <1>3, <2>2
    <3>2. k + 1 = l + 1
      BY <3>1 DEF JobsUnderway, OnePlace
    <3> QED BY <1>4, <3>2
  <2>3. inModel' # <<>> => /\ Head(inModel').job \in (SentJob \ moving)'
                           /\ \A k \in DOMAIN backlog' : backlog'[k].job # Head(inModel').job
    <3>1. moving' = moving
      OBVIOUS
    <3> QED BY <1>1, <1>2, <1>3, <1>5, <3>1
  <2> QED BY <2>1, <2>2, <2>3 DEF OnePlace
<1> QED
  BY <1>7, <1>9, <1>10, <1>11 DEF JobsUnderway

(* A job that has run is nowhere any more.                                  *)
LEMMA FinishKeeps == ASSUME JobsUnderway, Finish PROVE JobsUnderway'
<1> DEFINE h == Head(inModel).job
<1>1. /\ now' = now /\ sent' = sent /\ moving' = moving /\ backlog' = backlog
      /\ inModel' = <<>> /\ waiting' = waiting \ {h} /\ SentJob' = SentJob
      /\ cut' = cut /\ gone' = gone /\ Clocks
  BY DEF Finish, SentJob, cameraVars, JobsUnderway
<1>2. h \notin moving /\ \A k \in DOMAIN backlog : backlog[k].job # h
  BY DEF JobsUnderway, OnePlace, Finish
<1> HIDE DEF h
<1>3. ASSUME NEW j \in SentJob, Awaited(j), j # h PROVE Awaited(j)'
  BY <1>1, <1>3, AwaitedStays DEF Awaited
<1>4. Clocks' /\ OnTheWay'
  BY <1>1, <1>2, <1>3 DEF JobsUnderway, Clocks, OnTheWay
<1>5. InBacklog' /\ OnePlace'
  BY <1>1, <1>2, <1>3 DEF JobsUnderway, InBacklog, OnePlace
<1> QED
  BY <1>4, <1>5 DEF JobsUnderway

(* A job is given up at its deadline, and then overdue.                     *)
LEMMA GiveUpKeeps == ASSUME JobsUnderway, NEW j \in waiting, GiveUp(j) PROVE JobsUnderway'
BY Resting DEF GiveUp, cameraVars

(* A lost connection fails the camera's jobs; some of them are lost too.    *)
LEMMA LinkLostKeeps ==
    ASSUME JobsUnderway, NEW c \in Sender, LinkLost(c)
    PROVE  JobsUnderway'
<1>1. PICK failed \in SUBSET (moving \intersect SentBy(c)) : \E lost \in SUBSET failed :
          /\ moving' = moving \ lost
          /\ cut' = cut \union (waiting \intersect (SentBy(c) \ (moving \ failed)))
          /\ waiting' = waiting \ (SentBy(c) \ (moving \ failed))
          /\ UNCHANGED <<now, sent, backlog, inModel, leaves, gone>>
  BY DEF LinkLost
<1>2. \A j \in waiting : j \in waiting' \/ Orphan(j)'
  BY <1>1 DEF Orphan
<1> QED
  BY <1>1, <1>2, Resting

(* A camera that ends waits for nothing.                                    *)
LEMMA EndsKeeps ==
    ASSUME JobsUnderway, NEW c \in Sender, Ends(c)
    PROVE  JobsUnderway'
<1>1. \A j \in waiting : j \in waiting' \/ Orphan(j)'
  BY DEF Ends, SentBy, Orphan
<1> QED
  BY <1>1, Resting DEF Ends

(* Time passes only while every job on its way has some left, and what is  *)
(* overdue stays so.                                                       *)
LEMMA TickKeeps == ASSUME JobsUnderway, Tick PROVE JobsUnderway'
<1>1. /\ now' = now + 1 /\ sent' = sent /\ moving' = moving /\ backlog' = backlog
      /\ inModel' = inModel /\ waiting' = waiting /\ SentJob' = SentJob
      /\ cut' = cut /\ gone' = gone /\ Clocks
  BY DEF Tick, SentJob, cameraVars, JobsUnderway
<1>2. /\ now \in Nat /\ MaxDelay \in Nat /\ \A i \in SentJob : sent[i].at \in Nat
  BY <1>1, Limits, SentEntries DEF Clocks
<1>3. ASSUME NEW j \in SentJob, Awaited(j) PROVE Awaited(j)'
  BY <1>1, <1>3, AwaitedStays DEF Awaited
<1>4. Clocks'
  BY <1>1, <1>2 DEF Clocks
<1>5. OnTheWay'
  <2>1. \A j \in moving : now - sent[j].at < MaxDelay /\ j \in SentJob
    BY DEF Tick, JobsUnderway, OnTheWay
  <2> QED
    BY <1>1, <1>2, <1>3, <2>1 DEF JobsUnderway, OnTheWay
<1>6. InBacklog'
  <2>1. \A k \in DOMAIN backlog : backlog[k].at <= now + 1
    BY <1>2, BacklogEntries DEF JobsUnderway, InBacklog
  <2> QED
    BY <1>1, <1>3, <2>1 DEF JobsUnderway, InBacklog
<1>7. OnePlace'
  BY <1>1 DEF JobsUnderway, OnePlace
<1> QED
  BY <1>4, <1>5, <1>6, <1>7 DEF JobsUnderway

(* The invariant holds of every state.                                      *)
LEMMA JobsUnderwayCorrect == ExpirySpec => []JobsUnderway
<1>1. ExpiryInit => JobsUnderway
  BY DEF ExpiryInit, JobsUnderway, Clocks, OnTheWay, InBacklog, OnePlace, SentJob
<1>2. JobsUnderway /\ [ExpiryNext]_expiryVars => JobsUnderway'
  <2> SUFFICES ASSUME JobsUnderway, [ExpiryNext]_expiryVars
               PROVE  JobsUnderway'
    OBVIOUS
  <2>1. CASE HandOver
    BY <2>1, HandOverKeeps
  <2>2. CASE Start
    BY <2>2, LeavesBacklog DEF Start
  <2>3. CASE Expire
    BY <2>3, LeavesBacklog DEF Expire
  <2>4. CASE Finish
    BY <2>4, FinishKeeps
  <2>5. CASE Tick
    BY <2>5, TickKeeps
  <2>6. CASE \E j \in moving : Arrive(j)
    BY <2>6, ArriveKeeps
  <2>7. CASE \E j \in waiting : GiveUp(j)
    BY <2>7, GiveUpKeeps
  <2>8. CASE \E c \in Sender : LinkLost(c)
    BY <2>8, LinkLostKeeps
  <2>9. CASE \E c \in Sender : Drain(c)
    BY <2>9, Resting DEF Drain
  <2>10. CASE \E c \in Sender : DrainOver(c) \/ Killed(c)
    BY <2>10, EndsKeeps DEF DrainOver, Killed
  <2>11. CASE UNCHANGED expiryVars
    BY <2>11, Resting DEF expiryVars
  <2> QED
    BY <2>1, <2>2, <2>3, <2>4, <2>5, <2>6, <2>7, <2>8, <2>9, <2>10, <2>11 DEF ExpiryNext
<1> QED
  BY <1>1, <1>2, PTL DEF ExpirySpec

(* With an age limit that, together with the way to the service, is shorter *)
(* than the camera's deadline, the model never begins with a job that was   *)
(* given up at its deadline: whatever the backlog, the load, the runs'      *)
(* length, the drains, the lost connections and the cameras that end.       *)
THEOREM NoWastedRunCorrect == ExpirySpec => NoWastedRun
<1> DEFINE Begins ==
      (/\ inModel = <<>> /\ inModel' # <<>>
       /\ 0 < MaxJobAge /\ MaxDelay + MaxJobAge < JobTimeout)
        => inModel'[1].job \in waiting \/ Orphan(inModel'[1].job)
<1>1. JobsUnderway /\ [ExpiryNext]_expiryVars => [Begins]_expiryVars
  <2> SUFFICES ASSUME JobsUnderway, ExpiryNext, inModel = <<>>, inModel' # <<>>,
                      0 < MaxJobAge, MaxDelay + MaxJobAge < JobTimeout
               PROVE  inModel'[1].job \in waiting \/ Orphan(inModel'[1].job)
    BY DEF expiryVars
  <2>1. Start
    BY DEF ExpiryNext, HandOver, Expire, Finish, Tick, Arrive, GiveUp,
           LinkLost, Drain, DrainOver, Killed, Ends
  <2> DEFINE e == Head(backlog)
  <2>2. inModel'[1].job = e.job
    BY <2>1 DEF Start
  <2>3. backlog # <<>> /\ ~(now - e.at > MaxJobAge)
    BY <2>1 DEF Start, TooOld, Waited
  <2>4. 1 \in DOMAIN backlog /\ e = backlog[1]
    BY <2>3, TailEntries DEF JobsUnderway
  <2>5. /\ e.job \in SentJob /\ e.at \in Nat
        /\ e.at - sent[e.job].at <= MaxDelay
        /\ Awaited(e.job)
    BY <2>4, BacklogEntries DEF JobsUnderway, InBacklog
  <2>6. sent[e.job].at \in Nat /\ now \in Nat
    BY <2>5, SentEntries DEF JobsUnderway, Clocks
  <2> HIDE DEF e
  <2>7. ~Overdue(e.job)
    BY <2>3, <2>5, <2>6, Limits DEF Overdue
  <2> QED
    BY <2>2, <2>5, <2>7 DEF Awaited
<1> QED
  BY <1>1, JobsUnderwayCorrect, PTL DEF ExpirySpec, NoWastedRun
==============================================================================
