---------------------------- MODULE MCVlmService -----------------------------
(* The VLM service for TLC: its clients and threads without a clock        *)
(* (VlmService), and the two clocks of a job (JobExpiry).  A behaviour is  *)
(* of the one or of the other.                                             *)
EXTENDS VlmService, JobExpiry, TLC

CONSTANTS c1, c2

NoneAloneOrTwo == {{}, {c1} \X (1..JobsPerCamera), {c1, c2} \X {1}}
LastJob == {<<c1, JobsPerCamera>>}
OtherJob == {<<c2, 1>>}

VARIABLE part

VlmInit ==
  \/ part = "threads" /\ Init /\ ExpiryInit
  \/ part = "clocks" /\ fresh = {} /\ up = TRUE /\ Init /\ ExpiryInit

VlmNext ==
  \/ part = "threads" /\ Next /\ UNCHANGED <<part, expiryVars>>
  \/ part = "clocks" /\ ExpiryNext /\ UNCHANGED <<part, vars>>

VlmSpec ==
  /\ VlmInit
  /\ [][VlmNext]_<<part, vars, expiryVars>>
  /\ part = "threads" => Fairness
==============================================================================
