------------------------- MODULE ContractGeneration -------------------------
(***************************************************************************)
(* Drafting of a contract in the background (apps/api/src/templates/       *)
(* contract-generation*.ts): the start requests of one generation, its row *)
(* in ai_generations, its BullMQ job and the worker that processes it.     *)
(*                                                                         *)
(* The row is written without a guard on its status; the only exclusion is *)
(* the job id.  Every database or Redis call is a step of its own.  The    *)
(* clarification is over: the row starts in READY_TO_GENERATE.             *)
(***************************************************************************)
EXTENDS Integers

CONSTANTS
  Starts,      \* start requests, each runs at most once
  Attempts,    \* the job's attempts option (3 in the code)
  MaxOutages   \* bound on crashes and database failures

ASSUME GenerationAssumption ==
  /\ Attempts \in Nat \ {0}
  /\ MaxOutages \in Nat

VARIABLES
  status,   \* AiGeneration.status
  draft,    \* structuredDraft is stored
  job,      \* the BullMQ job whose id is the generation's
  start,    \* where every start request is
  worker,   \* where the processing of the job is
  raced,    \* a start marked the row QUEUED while the job was active
  outages

vars == <<status, draft, job, start, worker, raced, outages>>

Status == {"READY_TO_GENERATE", "QUEUED", "GENERATING", "COMPLETED", "FAILED"}

Job == [state: {"none", "waiting", "active", "delayed", "completed", "failed"},
        made: 0..(Attempts - 1),   \* attemptsMade: attempts that failed before
        stalls: 0..2]              \* BullMQ gives up at the second stall

NoJob == [state |-> "none", made |-> 0, stalls |-> 0]
Waiting == [NoJob EXCEPT !.state = "waiting"]

Init ==
  /\ status = "READY_TO_GENERATE"
  /\ draft = FALSE
  /\ job = NoJob
  /\ start = [r \in Starts |-> "new"]
  /\ worker = "idle"
  /\ raced = FALSE
  /\ outages = 0

Outage == outages < MaxOutages /\ outages' = outages + 1

-----------------------------------------------------------------------------
(* A start request                                                         *)

StartStep(r, phase) == start' = [start EXCEPT ![r] = phase]

(* Reads the row; a generation under way or done is answered as it is.  The*)
(* request also ends here when a party's requisites are missing.           *)
ReadGeneration(r) ==
  /\ start[r] = "new"
  /\ \/ status \in {"READY_TO_GENERATE", "FAILED"} /\ StartStep(r, "startable")
     \/ StartStep(r, "done")
  /\ UNCHANGED <<status, draft, job, worker, raced, outages>>

(* An unguarded update that also drops the stored draft.                   *)
MarkQueued(r) ==
  /\ start[r] = "startable"
  /\ status' = "QUEUED"
  /\ draft' = FALSE
  /\ raced' = (raced \/ job.state = "active")
  /\ StartStep(r, "queued")
  /\ UNCHANGED <<job, worker, outages>>

(* enqueue: getJob, getState, remove and add are calls of their own.       *)
GetJob(r) ==
  /\ start[r] = "queued"
  /\ StartStep(r, IF job.state = "none" THEN "adding" ELSE "found")
  /\ UNCHANGED <<status, draft, job, worker, raced, outages>>

ReplaceableCompleted(state) == state = "completed"
Replaceable(state) == state \in {"failed", "completed"}

GetState(r) ==
  /\ start[r] = "found"
  /\ StartStep(r, IF Replaceable(job.state) THEN "removing" ELSE "done")
  /\ UNCHANGED <<status, draft, job, worker, raced, outages>>

(* A job that a worker holds cannot be removed: the call throws.           *)
Remove(r) ==
  /\ start[r] = "removing"
  /\ IF job.state = "active"
     THEN StartStep(r, "rejected") /\ UNCHANGED job
     ELSE StartStep(r, "adding") /\ job' = NoJob
  /\ UNCHANGED <<status, draft, worker, raced, outages>>

(* BullMQ ignores an added job whose id exists.                            *)
Added == IF job.state = "none" THEN Waiting ELSE job

Add(r) ==
  /\ start[r] = "adding"
  /\ job' = Added
  /\ StartStep(r, "done")
  /\ UNCHANGED <<status, draft, worker, raced, outages>>

(* Redis does not answer; an add may have reached it all the same.         *)
RedisFails(r) ==
  /\ start[r] \in {"queued", "found", "removing", "adding"}
  /\ \/ UNCHANGED job
     \/ start[r] = "removing" /\ job.state # "active" /\ job' = NoJob
     \/ start[r] = "adding" /\ job' = Added
  /\ StartStep(r, "rejected")
  /\ UNCHANGED <<status, draft, worker, raced, outages>>

MarkQueueFailed(r) ==
  /\ start[r] = "rejected"
  /\ status' = "FAILED"
  /\ StartStep(r, "done")
  /\ UNCHANGED <<draft, job, worker, raced, outages>>

(* The API process dies, or the database does not answer.                  *)
StartDies(r) ==
  /\ start[r] \notin {"new", "done"}
  /\ Outage
  /\ StartStep(r, "done")
  /\ UNCHANGED <<status, draft, job, worker, raced>>

-----------------------------------------------------------------------------
(* The worker                                                              *)

Take ==
  /\ job.state = "waiting"
  /\ worker = "idle"
  /\ job' = [job EXCEPT !.state = "active"]
  /\ worker' = "taken"
  /\ UNCHANGED <<status, draft, start, raced, outages>>

(* A job redelivered after its draft was stored is not drafted again.      *)
NeverDrafted == FALSE
AlreadyDrafted == status = "COMPLETED"

FindForProcessing ==
  /\ worker = "taken"
  /\ worker' = IF AlreadyDrafted THEN "returned" ELSE "fetched"
  /\ UNCHANGED <<status, draft, job, start, raced, outages>>

MarkGenerating ==
  /\ worker = "fetched"
  /\ status' = "GENERATING"
  /\ worker' = "generating"
  /\ UNCHANGED <<draft, job, start, raced, outages>>

(* The parties are checked again, the provider is called and its draft is  *)
(* checked; any of it may throw.                                           *)
Generate ==
  /\ worker = "generating"
  /\ worker' \in {"generated", "caught"}
  /\ UNCHANGED <<status, draft, job, start, raced, outages>>

MarkCompleted ==
  /\ worker = "generated"
  /\ status' = "COMPLETED"
  /\ draft' = TRUE
  /\ worker' = "returned"
  /\ UNCHANGED <<job, start, raced, outages>>

LastAttemptLate(made) == made >= Attempts
LastAttempt(made) == made + 1 >= Attempts

(* The catch block: only the last attempt is recorded as a failure.        *)
MarkFailed ==
  /\ worker = "caught"
  /\ status' = IF LastAttempt(job.made) THEN "FAILED" ELSE status
  /\ worker' = "thrown"
  /\ UNCHANGED <<draft, job, start, raced, outages>>

(* The database does not answer the worker: a call before the try block or *)
(* in the catch block throws past it; markCompleted is caught.             *)
DatabaseFails ==
  /\ worker \in {"taken", "fetched", "generated", "caught"}
  /\ Outage
  /\ worker' = IF worker = "generated" THEN "caught" ELSE "thrown"
  /\ UNCHANGED <<status, draft, job, start, raced>>

(* BullMQ settles the job when process has returned or thrown.             *)
RetriableForever(made) == TRUE
Retriable(made) == made + 1 < Attempts

Settle ==
  /\ worker \in {"returned", "thrown"}
  /\ job' = IF worker = "returned" THEN [job EXCEPT !.state = "completed"]
            ELSE IF Retriable(job.made)
                 THEN [job EXCEPT !.state = "delayed", !.made = @ + 1]
                 ELSE [job EXCEPT !.state = "failed"]
  /\ worker' = "idle"
  /\ UNCHANGED <<status, draft, start, raced, outages>>

Promote ==
  /\ job.state = "delayed"
  /\ job' = [job EXCEPT !.state = "waiting"]
  /\ UNCHANGED <<status, draft, start, worker, raced, outages>>

WorkerDies ==
  /\ worker # "idle"
  /\ Outage
  /\ worker' = "idle"
  /\ UNCHANGED <<status, draft, job, start, raced>>

(* The stalled check finds an active job nobody renews the lock of.        *)
Stall ==
  /\ job.state = "active"
  /\ worker = "idle"
  /\ job' = [job EXCEPT !.stalls = @ + 1,
                        !.state = IF job.stalls = 0 THEN "waiting" ELSE "failed"]
  /\ UNCHANGED <<status, draft, start, worker, raced, outages>>

-----------------------------------------------------------------------------

Request(r) ==
  \/ MarkQueued(r) \/ GetJob(r) \/ GetState(r) \/ Remove(r) \/ Add(r)
  \/ RedisFails(r) \/ MarkQueueFailed(r)

Work ==
  \/ Take \/ FindForProcessing \/ MarkGenerating \/ Generate \/ MarkCompleted
  \/ MarkFailed \/ Settle

Next ==
  \/ \E r \in Starts : ReadGeneration(r) \/ Request(r) \/ StartDies(r)
  \/ Work \/ Promote \/ Stall
  \/ DatabaseFails \/ WorkerDies

(* A request that began goes on, a worker that lives works, and BullMQ     *)
(* promotes delayed jobs and looks for stalled ones.  Nobody has to start. *)
Fairness ==
  /\ \A r \in Starts : WF_vars(Request(r))
  /\ WF_vars(Work) /\ WF_vars(Promote) /\ WF_vars(Stall)

Spec == Init /\ [][Next]_vars /\ Fairness

-----------------------------------------------------------------------------
(* The type invariant.                                                     *)
TypeOK ==
  /\ status \in Status
  /\ draft \in BOOLEAN
  /\ job \in Job
  /\ start \in [Starts -> {"new", "startable", "queued", "found", "removing",
                           "adding", "rejected", "done"}]
  /\ worker \in {"idle", "taken", "fetched", "generating", "generated", "caught",
                 "returned", "thrown"}
  /\ raced \in BOOLEAN
  /\ outages \in 0..MaxOutages

Quiet == \A r \in Starts : start[r] \in {"new", "done"}
Pending == status \in {"QUEUED", "GENERATING"}
JobLives == job.state \in {"waiting", "active", "delayed"}

(* A generation shown as under way is worked on.  It is not: a start that  *)
(* finds the job active after its last write - a retry of the failure just *)
(* stored, or a second start that read the row before the first - leaves   *)
(* the row QUEUED, and no later start can requeue it (enqueue).            *)
PendingHasJob == Quiet /\ Pending => JobLives

(* What does hold: only such a race or an outage strands a generation,     *)
(* whatever the provider, Redis and overlapping starts do.                 *)
StrandedOnlyByRace == Quiet /\ Pending => JobLives \/ raced \/ outages > 0

(* A redelivered job never reopens a draft that was stored before the      *)
(* worker died: only a start takes a row out of COMPLETED.                 *)
WorkerKeepsCompleted ==
  [][status = "COMPLETED" /\ UNCHANGED start => status' = "COMPLETED"]_vars

(* A queued generation is eventually drafted or reported as failed, so that*)
(* it can be retried, unless it is stranded for the reasons above.         *)
EventuallyDecided ==
  Pending ~> (status \in {"COMPLETED", "FAILED"} \/ raced \/ outages > 0)
=============================================================================
