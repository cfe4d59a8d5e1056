--------------------------- MODULE DeliveryOutbox ---------------------------
(***************************************************************************)
(* Delivery of the signed documents to the parties' MAX chats              *)
(* (apps/api/src/artifacts/artifact-delivery.worker.ts).                   *)
(*                                                                         *)
(* Every worker process polls the artifact_deliveries table, leases a row  *)
(* that is due and unleased, does the I/O and settles the row with updates *)
(* guarded by the lease it took.  leaseUntil is unique to a claim, so it   *)
(* is represented by the claim's attempt number.  The clock is two actions:*)
(* a row falls due, and a lease runs out.  Rows fall due in the order of   *)
(* their nextAttemptAt, so `queue' is the order the poll reads them in.    *)
(***************************************************************************)
EXTENDS Integers, SequencesExt

CONSTANTS
  Deliveries,   \* artifact_deliveries rows
  Workers,      \* worker processes, one poll at a time in each
  NoDelivery,
  MaxAttempts,  \* failures before a delivery is given up (12 in the code)
  MaxOutages,   \* bound on crashes and on leases outlived by their holder
  MaxConsents   \* bound on changes of the notification consent

ASSUME OutboxAssumption ==
  /\ IsFiniteSet(Deliveries) /\ NoDelivery \notin Deliveries
  /\ MaxAttempts \in Nat \ {0}
  /\ MaxOutages \in Nat
  /\ MaxConsents \in Nat

Attempts == 0..(MaxAttempts + MaxOutages)

VARIABLES
  row,        \* artifact_deliveries
  queue,      \* rows whose nextAttemptAt has passed, earliest first
  worker,     \* what every worker holds of the row it processes
  consent,    \* deliveries whose user may be sent documents
  changes,    \* changes of consent so far
  copies,     \* messages of each delivery that reached MAX
  lost,       \* and those whose sender failed before it recorded SENT
  outages     \* crashes and outlived leases so far

rows == <<row, queue>>
chats == <<copies, lost>>
vars == <<row, queue, worker, consent, changes, copies, lost, outages>>

Row == [status: {"PENDING", "SENT", "SKIPPED", "FAILED"},
        attempts: Attempts,
        lease: Attempts,    \* the claim it is leased to; 0: leaseUntil is null
        expired: BOOLEAN,   \* leaseUntil has passed
        token: BOOLEAN]     \* uploadToken is stored

(* found: row read; claimed: leased; allowed: consent checked; ready: the  *)
(* upload token is there; sent: MAX answered; failed: in the catch block.  *)
Phases == {"idle", "found", "claimed", "allowed", "ready", "sent", "failed"}

Worker == [phase: Phases,
           job: Deliveries \cup {NoDelivery},
           attempts: Attempts,   \* job.attempts as read, before the claim
           token: BOOLEAN]       \* job.uploadToken as read

Resting == [phase |-> "idle", job |-> NoDelivery, attempts |-> 0, token |-> FALSE]

Init ==
  /\ row = [d \in Deliveries |-> [status |-> "PENDING", attempts |-> 0, lease |-> 0,
                                  expired |-> FALSE, token |-> FALSE]]
  /\ queue \in SetToSeqs(Deliveries)
  /\ worker = [w \in Workers |-> Resting]
  /\ consent \in SUBSET Deliveries
  /\ changes = 0
  /\ copies = [d \in Deliveries |-> 0]
  /\ lost = [d \in Deliveries |-> 0]
  /\ outages = 0

-----------------------------------------------------------------------------

DueUnleased(d) == row[d].status = "PENDING" /\ d \in ToSet(queue) /\ row[d].lease = 0
Due(d) ==
  /\ row[d].status = "PENDING"
  /\ d \in ToSet(queue)
  /\ row[d].lease = 0 \/ row[d].expired

First(i) == Due(queue[i]) /\ \A j \in 1..(i - 1) : ~Due(queue[j])

Advance(w, phase) == worker' = [worker EXCEPT ![w].phase = phase]
Rest(w) == worker' = [worker EXCEPT ![w] = Resting]

(* The first query of a poll: the row that is due for the longest time.    *)
Find(w) ==
  /\ worker[w].phase = "idle"
  /\ \E i \in DOMAIN queue :
       /\ First(i)
       /\ worker' = [worker EXCEPT ![w] = [phase |-> "found", job |-> queue[i],
                       attempts |-> row[queue[i]].attempts, token |-> row[queue[i]].token]]
  /\ UNCHANGED <<rows, consent, changes, chats, outages>>

(* The guarded claim.  It compares with the `now' of the first query, so   *)
(* a row that anybody claimed in between is not due to it.                 *)
ClaimableByStatus(d, attempts) == row[d].status = "PENDING"
Claimable(d, attempts) == Due(d) /\ row[d].attempts = attempts

Claim(w) ==
  LET d == worker[w].job IN
  /\ worker[w].phase = "found"
  /\ IF Claimable(d, worker[w].attempts)
     THEN /\ row' = [row EXCEPT ![d].attempts = @ + 1,
                                ![d].lease = row[d].attempts + 1,
                                ![d].expired = FALSE]
          /\ Advance(w, "claimed")
     ELSE Rest(w) /\ UNCHANGED row
  /\ UNCHANGED <<queue, consent, changes, chats, outages>>

(* The guard of every later write: the lease of this claim, still PENDING. *)
HoldsByStatus(d, attempts) == row[d].status = "PENDING"
Holds(d, attempts) == row[d].status = "PENDING" /\ row[d].lease = attempts + 1

Settle(w, status) ==
  LET d == worker[w].job IN
  row' = IF Holds(d, worker[w].attempts)
         THEN [row EXCEPT ![d].status = status, ![d].lease = 0, ![d].expired = FALSE,
                          ![d].token = FALSE]
         ELSE row

CheckConsent(w) ==
  /\ worker[w].phase = "claimed"
  /\ IF worker[w].job \in consent
     THEN Advance(w, "allowed") /\ UNCHANGED row
     ELSE Settle(w, "SKIPPED") /\ Rest(w)
  /\ UNCHANGED <<queue, consent, changes, chats, outages>>

(* Reuses the stored upload token, or uploads and stores it.               *)
Upload(w) ==
  LET d == worker[w].job IN
  /\ worker[w].phase = "allowed"
  /\ row' = IF ~worker[w].token /\ Holds(d, worker[w].attempts)
            THEN [row EXCEPT ![d].token = TRUE] ELSE row
  /\ Advance(w, "ready")
  /\ UNCHANGED <<queue, consent, changes, chats, outages>>

Reaches(w) == copies' = [copies EXCEPT ![worker[w].job] = @ + 1]

Send(w) ==
  /\ worker[w].phase = "ready"
  /\ Reaches(w)
  /\ Advance(w, "sent")
  /\ UNCHANGED <<rows, consent, changes, lost, outages>>

MarkSentFirst(w) ==
  /\ worker[w].phase \in {"ready", "sent"}
  /\ Settle(w, "SENT")
  /\ Rest(w)
  /\ UNCHANGED <<queue, consent, changes, chats, outages>>

MarkSent(w) ==
  /\ worker[w].phase = "sent"
  /\ Settle(w, "SENT")
  /\ Rest(w)
  /\ UNCHANGED <<queue, consent, changes, chats, outages>>

(* A call after the claim throws.  A message may have reached MAX although *)
(* its answer did not come back, or SENT could not be stored.              *)
Throw(w) ==
  /\ worker[w].phase \in {"claimed", "allowed", "ready", "sent"}
  /\ \/ worker[w].phase # "sent" /\ UNCHANGED chats
     \/ worker[w].phase = "ready" /\ Reaches(w) /\ lost' = [lost EXCEPT ![worker[w].job] = @ + 1]
     \/ worker[w].phase = "sent" /\ UNCHANGED copies /\ lost' = [lost EXCEPT ![worker[w].job] = @ + 1]
  /\ Advance(w, "failed")
  /\ UNCHANGED <<rows, consent, changes, outages>>

(* The catch block: the attempts this worker read decide.                  *)
ExhaustedEarly(attempts) == attempts + 2 >= MaxAttempts
Exhausted(attempts) == attempts + 1 >= MaxAttempts

Reschedule(w) ==
  LET d == worker[w].job IN
  /\ worker[w].phase = "failed"
  /\ IF Holds(d, worker[w].attempts)
     THEN /\ row' = [row EXCEPT ![d].status = IF Exhausted(worker[w].attempts)
                                              THEN "FAILED" ELSE "PENDING",
                                ![d].lease = 0, ![d].expired = FALSE]
          /\ \E i \in DOMAIN queue : queue[i] = d /\ queue' = RemoveAt(queue, i)
     ELSE UNCHANGED rows
  /\ Rest(w)
  /\ UNCHANGED <<consent, changes, chats, outages>>

(* The process dies, or the catch block itself throws.                     *)
Crash(w) ==
  /\ worker[w].phase # "idle"
  /\ outages < MaxOutages
  /\ outages' = outages + 1
  /\ Rest(w)
  /\ UNCHANGED <<rows, consent, changes, chats>>

-----------------------------------------------------------------------------
(* Time and users                                                          *)

FallDue(d) ==
  /\ d \notin ToSet(queue)
  /\ queue' = Append(queue, d)
  /\ UNCHANGED <<row, worker, consent, changes, chats, outages>>

(* The row of w is leased to w.                                            *)
Leased(w) ==
  /\ worker[w].phase \notin {"idle", "found"}
  /\ row[worker[w].job].lease = worker[w].attempts + 1

(* Five minutes exceed the timeouts of one attempt, so a lease that its    *)
(* holder outlives counts as an outage.                                    *)
LeaseRunsOut(d) ==
  /\ row[d].lease # 0
  /\ ~row[d].expired
  /\ IF \E w \in Workers : worker[w].job = d /\ Leased(w)
     THEN outages < MaxOutages /\ outages' = outages + 1
     ELSE UNCHANGED outages
  /\ row' = [row EXCEPT ![d].expired = TRUE]
  /\ UNCHANGED <<queue, worker, consent, changes, chats>>

ChangeConsent(d) ==
  /\ changes < MaxConsents
  /\ changes' = changes + 1
  /\ consent' = IF d \in consent THEN consent \ {d} ELSE consent \cup {d}
  /\ UNCHANGED <<rows, worker, chats, outages>>

-----------------------------------------------------------------------------

Proceed(w) ==
  \/ Claim(w) \/ CheckConsent(w) \/ Upload(w) \/ Send(w) \/ MarkSent(w) \/ Throw(w)
  \/ Reschedule(w)

Next ==
  \/ \E w \in Workers : Find(w) \/ Proceed(w) \/ Crash(w)
  \/ \E d \in Deliveries : FallDue(d) \/ LeaseRunsOut(d) \/ ChangeConsent(d)

(* Every process polls every five seconds, its calls return or time out,   *)
(* and time passes.  No order among the rows is assumed: the query has one.*)
Fairness ==
  /\ \A w \in Workers : WF_vars(Find(w)) /\ WF_vars(Proceed(w))
  /\ \A d \in Deliveries : WF_vars(FallDue(d)) /\ WF_vars(LeaseRunsOut(d))

Spec == Init /\ [][Next]_vars /\ Fairness

-----------------------------------------------------------------------------
(* The type invariant.                                                     *)
TypeOK ==
  /\ row \in [Deliveries -> Row]
  /\ queue \in Seq(Deliveries) /\ IsInjective(queue)
  /\ worker \in [Workers -> Worker]
  /\ consent \in SUBSET Deliveries
  /\ changes \in 0..MaxConsents
  /\ copies \in [Deliveries -> Attempts]
  /\ lost \in [Deliveries -> Attempts]
  /\ outages \in 0..MaxOutages

(* SENT is recorded only for a document that reached MAX.                  *)
SentWasDelivered == \A d \in Deliveries : row[d].status = "SENT" => copies[d] > 0

(* A delivery is given up only after MaxAttempts claims, and a claim beyond*)
(* MaxAttempts is owed to an outage.                                       *)
AttemptsAreSpent ==
  \A d \in Deliveries :
    /\ row[d].status = "FAILED" => row[d].attempts >= MaxAttempts
    /\ row[d].attempts <= MaxAttempts + outages

(* At least once, and more than once only after a lost answer or an outage:*)
(* overlapping workers alone never send a document twice.                  *)
DuplicatesAreExcused == \A d \in Deliveries : copies[d] <= 1 + lost[d] + outages

(* A worker whose lease has run out settles nothing: as long as a lease    *)
(* runs, only its own holder can end it.                                   *)
LeaseIsRespected ==
  [][\A w \in Workers :
       Leased(w) /\ ~row[worker[w].job].expired /\ worker'[w] = worker[w]
         => row'[worker[w].job].lease = row[worker[w].job].lease]_vars

(* Every delivery is eventually sent, skipped or given up, whatever        *)
(* crashes, lost answers, other deliveries and workers it meets.           *)
EventuallySettled == \A d \in Deliveries : <>(row[d].status # "PENDING")
=============================================================================
