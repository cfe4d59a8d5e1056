------------------------ MODULE MCContractGeneration ------------------------
(* Model-checking instance of ContractGeneration.                          *)
EXTENDS ContractGeneration

(* A user who repeats a generation only when its row shows the failure: the*)
(* first request starts it, every other one that goes on has read FAILED.  *)
RepeatsTheFailed ==
  \A r \in Starts :
    start[r] = "new" /\ start'[r] = "startable" =>
      status = "FAILED" \/ \A q \in Starts : start[q] = "new"

(* Redis answers every call, so FAILED is what the worker's markFailed     *)
(* stored.                                                                 *)
RedisAnswers == \A r \in Starts : start'[r] # "rejected"

RetrySpec == Init /\ [][Next /\ RepeatsTheFailed /\ RedisAnswers]_vars
=============================================================================
