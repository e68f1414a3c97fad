----------------------------- MODULE JobContract -----------------------------
(***************************************************************************)
(* The contract of a VLM client, "the only thing the pipeline relies on"   *)
(* (docstring of backend/app/vlm/client.py): a bounded number of jobs is   *)
(* open, each open job is answered at most once, and a poll takes every    *)
(* answer there is.                                                        *)
(***************************************************************************)
EXTENDS Naturals, FiniteSets

CONSTANTS Job,        \* the jobs of one camera; an id is used once
          Status,     \* how a job may end
          Capacity    \* the bound on jobs submitted and not answered

VARIABLES fresh,      \* jobs still to be submitted
          open,       \* jobs submitted and not answered
          results     \* answers nobody has polled

vars == <<fresh, open, results>>

Init ==
  /\ fresh \subseteq Job
  /\ open = {}
  /\ results = {}

Submit(j) ==
  /\ j \in fresh
  /\ Cardinality(open) < Capacity
  /\ fresh' = fresh \ {j}
  /\ open' = open \union {j}
  /\ UNCHANGED results

(* Refused: the job is not queued and never will be. *)
Refuse(j) ==
  /\ j \in fresh
  /\ Cardinality(open) >= Capacity
  /\ fresh' = fresh \ {j}
  /\ UNCHANGED <<open, results>>

(* One answer, or the failure of several jobs at once. *)
Answer(S) ==
  /\ open' = open \ S
  /\ \E status \in [S -> Status] :
       results' = results \union {[job |-> j, status |-> status[j]] : j \in S}
  /\ UNCHANGED fresh

Poll ==
  /\ results' = {}
  /\ UNCHANGED <<fresh, open>>

Next ==
  \/ \E j \in Job : Submit(j) \/ Refuse(j)
  \/ \E S \in SUBSET open : Answer(S)
  \/ Poll

Spec == Init /\ [][Next]_vars
==============================================================================
