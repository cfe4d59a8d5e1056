---------------------- MODULE ContractGenerationProofs ----------------------
(***************************************************************************)
(* Proofs about ContractGeneration, for any number of starts, attempts and *)
(* outages.  Without a race and without an outage (Clean), a job whose id  *)
(* is free or settled and a row that is still pending mean that some start *)
(* has yet to add the job: which phase it may be in is what Owed says.     *)
(***************************************************************************)
EXTENDS ContractGeneration, TLAPS

Clean == ~raced /\ outages = 0

(* The phases from which a start still adds the job.  While a settled job  *)
(* keeps the id, a start already in "adding" does not count: its add is    *)
(* ignored.                                                                *)
Adders == IF job.state = "none" THEN {"queued", "adding", "rejected"}
          ELSE {"queued", "found", "removing", "rejected"}

Owed ==
  Clean /\ Pending /\ ~JobLives => \E r \in Starts : start[r] \in Adders

(* An attempt that ended for good left its outcome in the row.             *)
OutcomeStored ==
  /\ Clean /\ worker = "returned" => ~Pending
  /\ Clean /\ worker = "thrown" /\ ~Retriable(job.made) => ~Pending

(* Without an outage a job is active exactly while the worker is busy.     *)
Held ==
  /\ worker # "idle" => job.state = "active"
  /\ outages = 0 /\ job.state = "active" => worker # "idle"

(* The worker holds no stale reading of COMPLETED.                         *)
Undrafted ==
  worker \in {"fetched", "generating", "generated", "caught"} => status # "COMPLETED"

StallsCounted == job.state \in {"waiting", "active", "delayed"} => job.stalls < 2

IInv == TypeOK /\ Held /\ StallsCounted /\ Undrafted /\ OutcomeStored /\ Owed

(* The initial state satisfies the invariant.                              *)
LEMMA InitHolds == Init => IInv
<1> SUFFICES ASSUME Init PROVE IInv
  OBVIOUS
<1>1. NoJob \in Job
  BY GenerationAssumption DEF NoJob, Job
<1>2. TypeOK
  <2>1. status \in Status /\ job \in Job /\ outages \in 0..MaxOutages
    BY <1>1, GenerationAssumption DEF Init, Status
  <2>. QED BY <2>1 DEF Init, TypeOK
<1>3. Held /\ StallsCounted /\ Undrafted /\ OutcomeStored /\ Owed
  BY DEF Init, NoJob, Held, StallsCounted, Undrafted, OutcomeStored, Owed, Pending
<1>. QED BY <1>2, <1>3 DEF IInv

(* Every step keeps the types.  The count of failed attempts stays below   *)
(* the attempts of the job, that of stalls below BullMQ's limit.           *)
LEMMA StepTyped ==
  ASSUME TypeOK, Held, StallsCounted, [Next]_vars
  PROVE  TypeOK' /\ StallsCounted'
<1> USE GenerationAssumption
<1> SUFFICES ASSUME Next PROVE TypeOK' /\ StallsCounted'
  BY DEF vars, TypeOK, StallsCounted
<1>1. ASSUME NEW r \in Starts, ReadGeneration(r) \/ Request(r) \/ StartDies(r)
      PROVE  TypeOK' /\ StallsCounted'
  <2>1. CASE ReadGeneration(r)
    BY <2>1 DEF TypeOK, StallsCounted, Job, Status, ReadGeneration, StartStep
  <2>2. CASE MarkQueued(r)
    BY <2>2 DEF TypeOK, StallsCounted, Job, Status, MarkQueued, StartStep
  <2>3. CASE GetJob(r)
    BY <2>3 DEF TypeOK, StallsCounted, Job, Status, GetJob, StartStep
  <2>4. CASE GetState(r)
    BY <2>4 DEF TypeOK, StallsCounted, Job, Status, GetState, StartStep, Replaceable
  <2>5. CASE Remove(r)
    BY <2>5 DEF TypeOK, StallsCounted, Job, Status, Remove, StartStep, NoJob
  <2>6. CASE Add(r)
    BY <2>6 DEF TypeOK, StallsCounted, Job, Status, Add, StartStep, Added, Waiting, NoJob
  <2>7. CASE RedisFails(r)
    BY <2>7 DEF TypeOK, StallsCounted, Job, Status, RedisFails, StartStep, Added, Waiting, NoJob
  <2>8. CASE MarkQueueFailed(r)
    BY <2>8 DEF TypeOK, StallsCounted, Job, Status, MarkQueueFailed, StartStep
  <2>9. CASE StartDies(r)
    BY <2>9 DEF TypeOK, StallsCounted, Job, Status, StartDies, StartStep, Outage
  <2>. QED BY <1>1, <2>1, <2>2, <2>3, <2>4, <2>5, <2>6, <2>7, <2>8, <2>9 DEF Request
<1>2. CASE Take
  BY <1>2 DEF TypeOK, StallsCounted, Job, Status, Take
<1>3. CASE FindForProcessing
  BY <1>3 DEF TypeOK, StallsCounted, Job, Status, FindForProcessing, AlreadyDrafted
<1>4. CASE MarkGenerating
  BY <1>4 DEF TypeOK, StallsCounted, Job, Status, MarkGenerating
<1>5. CASE Generate
  BY <1>5 DEF TypeOK, StallsCounted, Job, Status, Generate
<1>6. CASE MarkCompleted
  BY <1>6 DEF TypeOK, StallsCounted, Job, Status, MarkCompleted
<1>7. CASE MarkFailed
  BY <1>7 DEF TypeOK, StallsCounted, Job, Status, MarkFailed, LastAttempt
<1>8. CASE Settle
  <2>1. CASE worker = "returned"
    BY <1>8, <2>1 DEF TypeOK, StallsCounted, Job, Settle
  <2>2. CASE worker # "returned" /\ Retriable(job.made)
    <3>1. job.made + 1 \in 0..(Attempts - 1)
      BY <2>2 DEF TypeOK, Job, Retriable
    <3>2. job' = [job EXCEPT !.state = "delayed", !.made = job.made + 1]
      BY <1>8, <2>2 DEF Settle
    <3>. DEFINE made == job.made + 1
    <3>a. made \in 0..(Attempts - 1)
      BY <3>1
    <3>b. job' = [job EXCEPT !.state = "delayed", !.made = made]
      BY <3>2
    <3>. HIDE DEF made
    <3>3. job' \in Job /\ job'.stalls = job.stalls
      BY <3>a, <3>b DEF TypeOK, Job
    <3>4. job.stalls < 2
      BY <1>8 DEF TypeOK, Settle, StallsCounted, Held
    <3>. QED BY <1>8, <3>3, <3>4 DEF TypeOK, StallsCounted, Settle
  <2>3. CASE worker # "returned" /\ ~Retriable(job.made)
    BY <1>8, <2>3 DEF TypeOK, StallsCounted, Job, Settle
  <2>. QED BY <2>1, <2>2, <2>3
<1>9. CASE Promote
  BY <1>9 DEF TypeOK, StallsCounted, Job, Status, Promote
<1>10. CASE Stall
  <2>1. job.stalls + 1 \in 0..2
    BY <1>10 DEF Stall, TypeOK, StallsCounted, Job
  <2>2. job' \in Job /\ StallsCounted'
    <3>1. job' = [job EXCEPT !.stalls = job'.stalls, !.state = job'.state]
      BY <1>10 DEF Stall, TypeOK, Job
    <3>2. /\ job'.stalls \in 0..2
          /\ job'.state \in {"waiting", "failed"}
          /\ job'.state = "waiting" => job'.stalls < 2
      BY <1>10, <2>1 DEF Stall, TypeOK, Job
    <3>3. job' \in Job
      BY <3>1, <3>2 DEF TypeOK, Job
    <3>. QED BY <3>2, <3>3 DEF StallsCounted
  <2>. QED BY <1>10, <2>2 DEF Stall, TypeOK
<1>11. CASE DatabaseFails
  BY <1>11 DEF TypeOK, StallsCounted, Job, Status, DatabaseFails, Outage
<1>12. CASE WorkerDies
  BY <1>12 DEF TypeOK, StallsCounted, Job, Status, WorkerDies, Outage
<1>. QED BY <1>1, <1>2, <1>3, <1>4, <1>5, <1>6, <1>7, <1>8, <1>9, <1>10, <1>11, <1>12 DEF Next, Work

(* The worker and the job stay in step, and what the worker knows of the   *)
(* row stays true: only the worker stores a draft, and only a start that   *)
(* races it changes the outcome it stored.                                 *)
LEMMA StepKnown ==
  ASSUME TypeOK, Held, Undrafted, OutcomeStored, [Next]_vars
  PROVE  Held' /\ Undrafted' /\ OutcomeStored'
<1> USE GenerationAssumption
<1> SUFFICES ASSUME Next PROVE Held' /\ Undrafted' /\ OutcomeStored'
  BY DEF vars, Held, Undrafted, OutcomeStored, Clean, Pending, Retriable
<1>1. ASSUME NEW r \in Starts, ReadGeneration(r) \/ Request(r) \/ StartDies(r)
      PROVE  Held' /\ Undrafted' /\ OutcomeStored'
  <2>1. CASE ReadGeneration(r)
    BY <2>1 DEF TypeOK, Job, Held, Undrafted, OutcomeStored, Clean, Pending, Retriable, ReadGeneration, StartStep
  <2>2. CASE MarkQueued(r)
    BY <2>2 DEF TypeOK, Job, Held, Undrafted, OutcomeStored, Clean, Pending, Retriable, MarkQueued, StartStep
  <2>3. CASE GetJob(r)
    BY <2>3 DEF TypeOK, Job, Held, Undrafted, OutcomeStored, Clean, Pending, Retriable, GetJob, StartStep
  <2>4. CASE GetState(r)
    BY <2>4 DEF TypeOK, Job, Held, Undrafted, OutcomeStored, Clean, Pending, Retriable, GetState, StartStep, Replaceable
  <2>5. CASE Remove(r)
    BY <2>5 DEF TypeOK, Job, Held, Undrafted, OutcomeStored, Clean, Pending, Retriable, Remove, StartStep, NoJob
  <2>6. CASE Add(r)
    BY <2>6 DEF TypeOK, Job, Held, Undrafted, OutcomeStored, Clean, Pending, Retriable, Add, StartStep, Added, Waiting, NoJob
  <2>7. CASE RedisFails(r)
    BY <2>7 DEF TypeOK, Job, Held, Undrafted, OutcomeStored, Clean, Pending, Retriable, RedisFails, StartStep, Added, Waiting, NoJob
  <2>8. CASE MarkQueueFailed(r)
    BY <2>8 DEF TypeOK, Job, Held, Undrafted, OutcomeStored, Clean, Pending, Retriable, MarkQueueFailed, StartStep
  <2>9. CASE StartDies(r)
    BY <2>9 DEF TypeOK, Job, Held, Undrafted, OutcomeStored, Clean, Pending, Retriable, StartDies, StartStep, Outage
  <2>. QED BY <1>1, <2>1, <2>2, <2>3, <2>4, <2>5, <2>6, <2>7, <2>8, <2>9 DEF Request
<1>2. CASE Take
  BY <1>2 DEF TypeOK, Job, Held, Undrafted, OutcomeStored, Clean, Pending, Retriable, Take
<1>3. CASE FindForProcessing
  BY <1>3 DEF TypeOK, Job, Held, Undrafted, OutcomeStored, Clean, Pending, Retriable, FindForProcessing, AlreadyDrafted
<1>4. CASE MarkGenerating
  BY <1>4 DEF TypeOK, Job, Held, Undrafted, OutcomeStored, Clean, Pending, Retriable, MarkGenerating
<1>5. CASE Generate
  BY <1>5 DEF TypeOK, Job, Held, Undrafted, OutcomeStored, Clean, Pending, Retriable, Generate
<1>6. CASE MarkCompleted
  BY <1>6 DEF TypeOK, Job, Held, Undrafted, OutcomeStored, Clean, Pending, Retriable, MarkCompleted
<1>7. CASE MarkFailed
  BY <1>7 DEF TypeOK, Job, Held, Undrafted, OutcomeStored, Clean, Pending, Retriable, MarkFailed, LastAttempt
<1>8. CASE Settle
  BY <1>8 DEF TypeOK, Job, Held, Undrafted, OutcomeStored, Clean, Pending, Retriable, Settle
<1>9. CASE Promote
  BY <1>9 DEF TypeOK, Job, Held, Undrafted, OutcomeStored, Clean, Pending, Retriable, Promote
<1>10. CASE Stall
  BY <1>10 DEF TypeOK, Job, Held, Undrafted, OutcomeStored, Clean, Pending, Retriable, Stall
<1>11. CASE DatabaseFails
  BY <1>11 DEF TypeOK, Job, Held, Undrafted, OutcomeStored, Clean, Pending, Retriable, DatabaseFails, Outage
<1>12. CASE WorkerDies
  BY <1>12 DEF TypeOK, Job, Held, Undrafted, OutcomeStored, Clean, Pending, Retriable, WorkerDies, Outage
<1>. QED BY <1>1, <1>2, <1>3, <1>4, <1>5, <1>6, <1>7, <1>8, <1>9, <1>10, <1>11, <1>12 DEF Next, Work

(* A pending row without a live job keeps a start that will add one.       *)
LEMMA StepOwed ==
  ASSUME TypeOK, Held, OutcomeStored, Owed, [Next]_vars
  PROVE  Owed'
<1> USE GenerationAssumption
<1> SUFFICES ASSUME Next PROVE Owed'
  BY DEF vars, Owed, Clean, Pending, JobLives, Adders
<1>1. ASSUME NEW r \in Starts, ReadGeneration(r) \/ Request(r) \/ StartDies(r)
      PROVE  Owed'
  <2>1. CASE ReadGeneration(r)
    BY <2>1 DEF TypeOK, Job, Held, OutcomeStored, Owed, Clean, Pending, JobLives, Adders, Retriable, ReadGeneration, StartStep
  <2>2. CASE MarkQueued(r)
    BY <2>2 DEF TypeOK, Job, Held, OutcomeStored, Owed, Clean, Pending, JobLives, Adders, Retriable, MarkQueued, StartStep
  <2>3. CASE GetJob(r)
    BY <2>3 DEF TypeOK, Job, Held, OutcomeStored, Owed, Clean, Pending, JobLives, Adders, Retriable, GetJob, StartStep
  <2>4. CASE GetState(r)
    BY <2>4 DEF TypeOK, Job, Held, OutcomeStored, Owed, Clean, Pending, JobLives, Adders, Retriable, GetState, StartStep, Replaceable
  <2>5. CASE Remove(r)
    BY <2>5 DEF TypeOK, Job, Held, OutcomeStored, Owed, Clean, Pending, JobLives, Adders, Retriable, Remove, StartStep, NoJob
  <2>6. CASE Add(r)
    BY <2>6 DEF TypeOK, Job, Held, OutcomeStored, Owed, Clean, Pending, JobLives, Adders, Retriable, Add, StartStep, Added, Waiting, NoJob
  <2>7. CASE RedisFails(r)
    BY <2>7 DEF TypeOK, Job, Held, OutcomeStored, Owed, Clean, Pending, JobLives, Adders, Retriable, RedisFails, StartStep, Added, Waiting, NoJob
  <2>8. CASE MarkQueueFailed(r)
    BY <2>8 DEF TypeOK, Job, Held, OutcomeStored, Owed, Clean, Pending, JobLives, Adders, Retriable, MarkQueueFailed, StartStep
  <2>9. CASE StartDies(r)
    BY <2>9 DEF TypeOK, Job, Held, OutcomeStored, Owed, Clean, Pending, JobLives, Adders, Retriable, StartDies, StartStep, Outage
  <2>. QED BY <1>1, <2>1, <2>2, <2>3, <2>4, <2>5, <2>6, <2>7, <2>8, <2>9 DEF Request
<1>2. CASE Take
  BY <1>2 DEF TypeOK, Job, Held, OutcomeStored, Owed, Clean, Pending, JobLives, Adders, Retriable, Take
<1>3. CASE FindForProcessing
  BY <1>3 DEF TypeOK, Job, Held, OutcomeStored, Owed, Clean, Pending, JobLives, Adders, Retriable, FindForProcessing, AlreadyDrafted
<1>4. CASE MarkGenerating
  BY <1>4 DEF TypeOK, Job, Held, OutcomeStored, Owed, Clean, Pending, JobLives, Adders, Retriable, MarkGenerating
<1>5. CASE Generate
  BY <1>5 DEF TypeOK, Job, Held, OutcomeStored, Owed, Clean, Pending, JobLives, Adders, Retriable, Generate
<1>6. CASE MarkCompleted
  BY <1>6 DEF TypeOK, Job, Held, OutcomeStored, Owed, Clean, Pending, JobLives, Adders, Retriable, MarkCompleted
<1>7. CASE MarkFailed
  BY <1>7 DEF TypeOK, Job, Held, OutcomeStored, Owed, Clean, Pending, JobLives, Adders, Retriable, MarkFailed, LastAttempt
<1>8. CASE Settle
  BY <1>8 DEF TypeOK, Job, Held, OutcomeStored, Owed, Clean, Pending, JobLives, Adders, Retriable, Settle
<1>9. CASE Promote
  BY <1>9 DEF TypeOK, Job, Held, OutcomeStored, Owed, Clean, Pending, JobLives, Adders, Retriable, Promote
<1>10. CASE Stall
  BY <1>10 DEF TypeOK, Job, Held, OutcomeStored, Owed, Clean, Pending, JobLives, Adders, Retriable, Stall
<1>11. CASE DatabaseFails
  BY <1>11 DEF TypeOK, Job, Held, OutcomeStored, Owed, Clean, Pending, JobLives, Adders, Retriable, DatabaseFails, Outage
<1>12. CASE WorkerDies
  BY <1>12 DEF TypeOK, Job, Held, OutcomeStored, Owed, Clean, Pending, JobLives, Adders, Retriable, WorkerDies, Outage
<1>. QED BY <1>1, <1>2, <1>3, <1>4, <1>5, <1>6, <1>7, <1>8, <1>9, <1>10, <1>11, <1>12 DEF Next, Work

-----------------------------------------------------------------------------

(* The inductive invariant of the specification.                           *)
THEOREM Invariance == Spec => []IInv
<1>1. IInv /\ [Next]_vars => IInv'
  BY StepTyped, StepKnown, StepOwed DEF IInv
<1>. QED BY InitHolds, <1>1, PTL DEF Spec

(* Every reachable state is well typed.                                    *)
THEOREM Typing == Spec => []TypeOK
<1>1. IInv => TypeOK
  BY DEF IInv
<1>. QED BY Invariance, <1>1, PTL

(* Overlapping starts, provider failures and Redis failures strand no      *)
(* generation: it takes a start that races the end of the job, or an outage.*)
THEOREM StrandingNeedsRace == Spec => []StrandedOnlyByRace
<1>1. IInv => StrandedOnlyByRace
  BY DEF IInv, TypeOK, Owed, Adders, Clean, StrandedOnlyByRace, Quiet
<1>. QED BY Invariance, <1>1, PTL

(* However often BullMQ redelivers the job, a stored draft is kept.        *)
THEOREM DraftIsKept == Spec => WorkerKeepsCompleted
<1>1. IInv /\ [Next]_vars => [status = "COMPLETED" /\ UNCHANGED start => status' = "COMPLETED"]_vars
  <2> SUFFICES ASSUME IInv, Next, status = "COMPLETED", UNCHANGED start
               PROVE  status' = "COMPLETED"
    BY DEF vars
  <2>1. ASSUME NEW r \in Starts, ReadGeneration(r) \/ Request(r) \/ StartDies(r)
        PROVE  status' = "COMPLETED"
    <3>1. CASE ReadGeneration(r) \/ GetJob(r) \/ GetState(r) \/ Remove(r) \/ Add(r)
                 \/ RedisFails(r) \/ StartDies(r)
      BY <3>1 DEF ReadGeneration, GetJob, GetState, Remove, Add, RedisFails, StartDies
    <3>2. CASE MarkQueued(r) \/ MarkQueueFailed(r)
      BY <3>2 DEF MarkQueued, MarkQueueFailed, StartStep, IInv, TypeOK
    <3>. QED BY <2>1, <3>1, <3>2 DEF Request
  <2>2. CASE MarkGenerating \/ MarkCompleted \/ MarkFailed
    BY <2>2 DEF MarkGenerating, MarkCompleted, MarkFailed, IInv, Undrafted
  <2>3. CASE Take \/ FindForProcessing \/ Generate \/ Settle \/ Promote \/ Stall
               \/ DatabaseFails \/ WorkerDies
    BY <2>3 DEF Take, FindForProcessing, Generate, Settle, Promote, Stall, DatabaseFails,
       WorkerDies
  <2>. QED BY <2>1, <2>2, <2>3 DEF Next, Work
<1>. QED BY Invariance, <1>1, PTL DEF Spec, WorkerKeepsCompleted
=============================================================================
