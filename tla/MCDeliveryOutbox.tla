-------------------------- MODULE MCDeliveryOutbox --------------------------
(***************************************************************************)
(* Two instances of DeliveryOutbox in one run, told apart by their initial *)
(* states.  Workers overlap on one row while the other is settled already, *)
(* with every attempt, outage and change of consent before them.  Or both  *)
(* rows compete after a failed attempt each, with one outage left and with *)
(* the consent as it is.                                                   *)
(***************************************************************************)
EXTENDS DeliveryOutbox

SomeDelivery == CHOOSE d \in Deliveries : TRUE
Pending(attempts) == [status |-> "PENDING", attempts |-> attempts, lease |-> 0,
                      expired |-> FALSE, token |-> FALSE]
AlreadySent == [Pending(1) EXCEPT !.status = "SENT"]

Overlap ==
  /\ row = [d \in Deliveries |-> IF d = SomeDelivery THEN Pending(0) ELSE AlreadySent]
  /\ queue = SetToSeq(Deliveries)
  /\ consent \in {Deliveries, Deliveries \ {SomeDelivery}}
  /\ changes = 0
  /\ copies = [d \in Deliveries |-> IF d = SomeDelivery THEN 0 ELSE 1]
  /\ outages = 0

Competition ==
  /\ row = [d \in Deliveries |-> Pending(1)]
  /\ queue \in SetToSeqs(Deliveries)
  /\ consent \in SUBSET Deliveries
  /\ changes = MaxConsents
  /\ copies = [d \in Deliveries |-> 0]
  /\ outages = MaxOutages - 1

MCInit ==
  /\ Overlap \/ Competition
  /\ worker = [w \in Workers |-> Resting]
  /\ lost = [d \in Deliveries |-> 0]

MCSpec == MCInit /\ [][Next]_vars /\ Fairness
=============================================================================
