------------------------------ MODULE OneResult ------------------------------
(***************************************************************************)
(* What deferred recognition promises about a vehicle, whatever the model  *)
(* service does: a vehicle that is handed over gets exactly one result,    *)
(* and the result never changes afterwards (docstring of                   *)
(* backend/app/workers/deferred.py, "The guarantees this class exists to   *)
(* keep").                                                                 *)
(***************************************************************************)
CONSTANTS Vehicle,   \* the vehicles whose tracks are finalized
          Class      \* the result classes

VARIABLES handed,    \* vehicles handed over for recognition
          result     \* the set of results emitted for each vehicle

vars == <<handed, result>>

Init ==
  /\ handed = {}
  /\ result = [v \in Vehicle |-> {}]

(* Hand a vehicle over; a refusal or a missing plate settles it at once. *)
Hand(v) ==
  /\ v \notin handed
  /\ handed' = handed \union {v}
  /\ \/ UNCHANGED result
     \/ \E c \in Class : result' = [result EXCEPT ![v] = {c}]

(* Settle a vehicle that has no result yet. *)
Settle(v) ==
  /\ v \in handed
  /\ result[v] = {}
  /\ \E c \in Class : result' = [result EXCEPT ![v] = {c}]
  /\ UNCHANGED handed

Next == \E v \in Vehicle : Hand(v) \/ Settle(v)

Spec == Init /\ [][Next]_vars /\ \A v \in Vehicle : WF_vars(Settle(v))

==============================================================================
