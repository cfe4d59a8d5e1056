# MAX-Contract in TLA+

TLA+ models, model-checking configurations and TLAPS proofs for MAX-Contract:
two people agree on a contract in a MAX mini app, sign it with one-time codes and
receive the signed documents in their chats. Modelled are the services of the
server (`apps/api`) and how the mini app (`apps/web`) prepares a deal, saves its
draft and lets both parties review and approve the contract.

The models translate the TypeScript handlers, the Prisma schema and the SQL
migrations. Two facts shape all of them. PostgreSQL runs at its default
isolation, READ COMMITTED, and most handlers read a deal *outside* the
transaction that later writes it. And besides HTTP requests there are two kinds
of background work: a BullMQ worker that drafts contracts, and a polling worker
that delivers documents. Whatever can go wrong goes wrong between a read and
the write that relies on it, so every handler is modelled as the steps between
which other requests, crashes and lost answers can slip in.

## The system

| Part | State it keeps | Operations | Modelled by |
|---|---|---|---|
| Deal negotiation (`deals/`) | `deals`, `deal_versions`, `deal_parties`, `deal_invitations`, `deal_approvals` | save draft, start agreement, new version, create / mark sent / revoke / expire invitation, join, approve, reconcile document stage | `DealNegotiation`, `Agreement` |
| Reviewing a contract (`approve-current-deal.ts`, `deal-workspace-screen.tsx`, `profile/`) | what each page shows; `user_profiles`, the frozen snapshot of a version | poll, approve, approve again after a conflict, edit a profile, revise the contract | `ContractReview` |
| Signing and completion (`signing/`, `artifacts/deal-artifacts.service.ts`) | `deal_signatures`, `deal_artifacts`, deal status | issue a code, confirm, read state, ensure PDF, ensure evidence package, complete | `Signing`, `SigningWithOtp`, `Completion` |
| One-time codes (`signing/otp.service.ts`) | challenge, attempts and resend keys in Redis | issue, verify | `Otp`, `SigningWithOtp` |
| Delivery (`artifacts/artifact-delivery.worker.ts`) | `artifact_deliveries` | poll, claim, check consent, upload, send, settle, retry, give up | `DeliveryOutbox` |
| Contract generation (`templates/contract-generation*.ts`) | `ai_generations`, BullMQ job | start / retry, enqueue, process, fail | `ContractGeneration` |
| Clarifications (`templates/ai-clarifications*`, `contract-completeness.ts`) | `ai_generations` before drafting | start, answer | `Clarifications` |
| Files and artifacts (`files/`, `artifacts/`) | `deal_files`, `deal_artifacts`, objects in storage | upload, store the PDF, store the package, clean up | `StoredDocuments` |
| Template administration (`admin/`) | `contract_template_versions`, their requirements | create, edit, publish, archive a version | `TemplateVersions` |
| Sessions (`auth/`) | session in Redis and in PostgreSQL, keys of used launches | authenticate, resolve, revoke | `Sessions` |
| Onboarding, profile, trust | phones, requisites, computed trust checks | verify a phone, update the profile, read the trust status | `Onboarding` |
| Messages (`deals/deal-messages.service.ts`) | `deal_messages` | idempotent send | `DealMessages` |
| Preparing a deal (`CreateDealScreen` of `mini-app-shell.tsx`) | answers, responsible party, session and step of the form; the draft with its contract | change, continue, submit, ask, answer, generate, accept, go back, open again | `DealPreparation` |
| Saving of drafts (`mini-app-shell.tsx`, `updateDraft`) | the form, its last save, the queue of saves; the draft | edit, autosave, step, reload | `DraftAutosave` |
| Deal intake, bot, AI clients, rendering, configuration, health, the other screens | none, or none of their own | formatting, I/O, user interface | not modelled |

How they meet: negotiation ends in `READY_TO_SIGN`, which opens signing;
a new version takes it back. Signing ends in `SIGNED`; any request that then
sees all signatures builds the artifacts and completes the deal, and that one
transaction fills the outbox which the delivery worker empties. Contract
generation produces the text that drafts and versions are made of. `Signing`
contains the two steps of the negotiation it depends on (`NewVersion`,
`AllApproved`); `ContractReview` looks at the approvals of `DealNegotiation` from
the pages that give them; `DeliveryOutbox` starts from rows that `Signing.Complete`
creates; `DealNegotiation` takes generated texts as inputs. `SigningWithOtp`
composes signing with the codes: a confirm request *is* a verification of a code.
The other services touch the deal only through guards that the models take as
inputs (a status, a session, a consent), so each is modelled by itself.

## Modules

**Agreement** is the abstract promise of a negotiation: a draft text changes
until somebody approves it, the first approval seals it, agreement is reached
when every party approved the same sealed text, and a revision or suspension
withdraws all approvals. There are no requests in it.

**DealNegotiation** has two actions per handler. `XRead(r)` performs the reads
and early checks and stores what the handler keeps in the slot `request[r]`;
`XCommit(r)` is its transaction. Between the two, anything may commit. The
optimistic guard `updatedAt = expectedUpdatedAt` is the field `fresh`, cleared
in all other slots by each transaction that writes `updatedAt`; handlers that do
*not* write it (creating an invitation for, or joining, a draft) end quietly.
Guards that the database enforces are modelled as such: the partial unique
index on active invitations, the CHECK that an invitation is not both revoked
and accepted, the trigger that protects a frozen version. `Abort` ends a
request at any point: a false guard, a violated constraint or a crash.
`Init` includes deals that earlier releases left in statuses the code still
handles.

**ContractReview** is what `DealNegotiation` leaves out of an approval: what its
author saw. Each party's page holds a reading of the deal; a reading is two steps
(`PollRow`, `PollRest`), since Prisma fetches the row and its relations by queries
of their own. An approval is a slot of `Calls` that carries the page's version,
stamp and requisites through the checks of the server, its transaction and, after a
conflict, `RefetchRow` and `ApproveAgain` of the page. `EditProfile` changes a
profile without moving the stamp. An approval records with it what its author saw;
`needless` records that a call was given up although the contract reads as before.
The model begins in TERMS_REVIEW with both parties joined, where the text of a
version is not rewritten any more, so the version stands for it, and with complete
profiles.

**Completion** is the abstract promise of the signing: only a version nobody signed
is replaced, its artifacts are made once everybody signed, and the deal is completed
once, with every artifact due to every party. There are no requests, counts or
statuses in it; `DeliveryOutbox` begins where its `Complete` ends.

**Signing** splits `confirm` as READ COMMITTED does: `InsertAndCount` inserts the
signature and counts the visible ones, `Commit` performs the update guarded by
the status alone and publishes the row. The signature's foreign key takes only a
key-share lock on the deal, so two inserts do not wait for one another; two of
the same party do, by the unique index (`InsertBlocked`). `Fail` ends a request
after any step, which stands for errors, rollbacks and crashes alike, and a
later `Load` of a party that has signed is the retry. Of the negotiation it has the
approval and the new version only: the late status writes of `markSent` and `revoke`,
which `StaleSentMark` and `StaleRevoke` show, are left out here, so its properties
are about deals without them. **MCReviewAndSigning** checks
`ContractReview` and `Signing` in one run; they share no state, `stage` is chosen in
the initial state and only that stage moves. **MCSigning** is the instance of
`Signing` alone that the two violations use.

**DeliveryOutbox** gives each worker the phases of one `tick`. `leaseUntil` is
unique to a claim, so the claim's attempt number stands for it. Time is two
actions: `FallDue` (a row's `nextAttemptAt` passes) and `LeaseRunsOut`. Rows fall
due in the order of their `nextAttemptAt`, so `queue` is exactly the order of the
poll's ORDER BY. A lease outlived by its holder is possible but counts as an
outage, since the timeouts of one attempt are shorter than five minutes.
**MCDeliveryOutbox** begins in one of two situations: two workers meet on one row
whose attempts are all ahead, or two rows compete after a failed attempt of each.

**ContractGeneration** has a step per database and Redis call, for the start
requests on one side and the worker on the other. BullMQ is modelled from how
the code uses it: an add with an existing id is ignored, an active job cannot be
removed, a job that threw is retried while attempts are left, a job of a dead
worker is redelivered once and then failed without running the processor. The
lock of a live worker is assumed to be renewed. `raced` records that a start
marked the row QUEUED while the job was active. **MCContractGeneration** restricts
`StrandedRetry` to a user who repeats a generation only when its row shows the
failure (`RepeatsTheFailed`) and to a Redis that answers (`RedisAnswers`).

**Otp** takes every Redis call of `issue` and `verify` as a step; calls that are
sent together (`Promise.all`) travel on one connection and are one step. A code is
the number of the issue that drew it, so two draws are told apart and 0 is
anything a person types that was never drawn. Keys expire at any time. Two ghosts
say what an issue promised: `overlap` marks issues that ran beside one another,
`promised` the code that an issue without overlap answered with.

**SigningWithOtp** replaces the single step `VerifyOtp` of `Signing` by those
calls. The checkers of `Otp` are the requests of `Signing`; `ReadForOtp` and
`IssueOtp` are the two halves of `issueOtp`, between which the deal may move on.
Its steps are steps of both modules, which is what the proofs show.

**Sessions** has one launch presented by several logins. The clock counts half
seconds: the service compares whole seconds, Redis expires keys in between. A
login claims the launch, writes the row and then the key and releases the claim
when something throws; a request reads the key and then the row; a logout writes
both at once and either half may fail.

**StoredDocuments** follows uploads and the two artifacts: the object is put, the
row is committed afterwards, and the object is deleted when the transaction
throws. Each call may take effect although the caller hears that it failed;
`unheard` and `abandoned` record where that happened.

**TemplateVersions** follows READ COMMITTED statement by statement: an edit reads
the version outside of its transaction, deletes the requirements it sees and
inserts its own; a publication archives what it sees published and promotes its
version. The queries that prepare a new version are one step, `CreateRead`: what
they miss of a commit between them is decided by the unique number. The ghosts `late`, `shared` and `mixed` name the overlaps.

**Onboarding** covers verified phones (find, then store in a transaction of several
statements with its own locks), the requisites of the profile and the trust checks
computed from facts read before the transaction that stores them. Of the checks the
phone and the requisites are there, by their status; their source, and the check of
the MAX account, which is the same for everybody who has logged in, are left out.
`crossed` names
users that verified a number which another user was just storing, `muddled`
inquiries beside which another ran.

**Clarifications** starts a session with questions of the AI and of the server's
rules and accepts rounds of answers, each against the state the session was read
in. A question is an id and a topic; what a free text tells is any set of terms. The
loops over the AI's list are stated by the positions they take: position `i` is
taken exactly if what was taken before it leaves room and does not rule it out.

**DealMessages** has the client's ids, the early return for an id that exists, the
unique index that decides between overlapping sends and the read after the
violation.

**DraftAutosave** is the queue of saves of one page (`enqueueDraftSave`), with the
fingerprint of what was saved, the stamp `updatedAt.current` that is read when a
save *runs*, the timer that stops after an error, and the server's optimistic
guard. An explicit step and the button after an error save at once; `submitted` is
the form of a submission that waits for the server, which `openClarificationSession`
saves although the form may have been edited since. Other tabs, a revoked invitation, lost answers and a save that arrives
after its page was reloaded interfere. Promise callbacks run before the next event
of the page: the end of one save and the start of the next are one step.

**DealPreparation** is the page on which a deal is created, from its first step to
the contract the author accepts. A handler that waits for an answer is a slot
`ask[a]` that keeps the form it was called with, its JavaScript closure; the form
may move on meanwhile, and what the handler does then uses parts of both, as in the
code: `openClarificationSession` shows the session over the form of now and saves
it with the answers of then. `dialogue` are the rows of `ai_generations`, first a
session of questions and then, under the same id, a generation. Saving is one step
here, since the order and the failures of saves are the subject of `DraftAutosave`.
A screen opened again may or may not find the session, and what was read of the
generations, in the page's query cache (`Reopen`).
Two ghosts name what the page may mix up: `crossing`, an answer that met a form that
had moved on, and `outdated`, a kept contract that is not of the form's session.

**MCServices** puts these services side by side in one run. They share no state;
`part` is chosen in the initial state and only that part moves. The parts are
`codes` and `signatures` (`SigningWithOtp`), `launches` and `sessions`
(`Sessions`), `documents`, `templates`, `phones` and `trust` (`Onboarding`),
`clarifications`, `messages`, `drafts` and `preparation` (`DealPreparation`).

The module of every component has one type invariant, and all of them are proved. Those of `Signing`
and of the services are also checked, together, as `ServicesTypeOK`. Mutated forms
of an operator (a dropped guard, an off-by-one, a missing reset) stand directly
before the operator they mutate; nothing in the specifications uses them. They
document which mistake each property detects.

## What is checked

| Run | Shows | Bounds |
|---|---|---|
| `DealNegotiation` | `ReadyMeansUnanimous`, `ApprovalsOfCurrentVersion`, `ApprovedTextIsFrozen`, `OneAdmission`, and that the handlers implement `Agreement` | 3 requests in flight, 2 guests, 2 texts, 2 versions, 2 invitations, all legacy statuses |
| `FreshDeal` | `StatusFollowsGraph` for deals of this release with one invitation | as above, 1 invitation |
| `StaleSentMark` | violated: a late sent-mark takes a joined legacy deal back to INVITED | as `DealNegotiation` |
| `StaleRevoke` | violated: with a reissued invitation, a late revoke takes a started agreement back to DRAFT | 2 invitations, no legacy statuses |
| `Signing` | `CompletedIsSigned`, `DeliveriesOfCompletion`, `SignedIsStable`, `ApprovedAsSeen`, and that signing implements `Completion` | 3 confirms in flight, 2 parties, 2 versions; or 2 approvals in flight, 2 pages, 1 change of a profile or of the contract |
| `SignatureWriteSkew` | violated: both parties have signed and the deal stays SIGNED_BY_ONE | as `Signing` |
| `StaleSignature` | violated: a confirm signs a version that is no longer current | as `Signing` |
| `NeedlessRefusal` | violated: an approval that met nothing but the other party's is not repeated | 2 approvals in flight, 2 pages, 1 change |
| `DeliveryOutbox` | `SentWasDelivered`, `AttemptsAreSpent`, `DuplicatesAreExcused`, `LeaseIsRespected`, `EventuallySettled` | 2 workers, 3 attempts; 1 open delivery with 2 outages and 1 change of consent, or 2 with 1 outage after a failed attempt each |
| `ContractGeneration` | `StrandedOnlyByRace`, `WorkerKeepsCompleted`, `EventuallyDecided` | 3 starts, 3 attempts, 2 outages |
| `StrandedRetry` | violated: a retry of the stored failure meets the failed job before it settles and leaves the row QUEUED for ever | 2 starts, the second after it read FAILED; no outage, Redis answers |
| `Services` | `DeliveredCodeWorks`, `SignatureHasCode`, `LogoutEndsSession`, `OneSessionPerLaunch`, `RowsNameObjects`, `OrphansAreExcused`, `PackageHoldsThePdf`, `OneCurrentVersion`, `PublishedTextIsStable`, `RequirementsOfOneEdit`, `PhonesAreOnes`, `AnswerShowsFacts`, `AnswersAreKept`, `NothingAskedTwice`, `MessageIsOnes`, `SaveFailsForAReason`, `SavedIsStored`, `FinishedDraftIsOfItsTerms` | see below |

The bounds are small but not empty. Three requests in flight let two approvals
race a revision, or two joins race a revoke; a fourth would repeat one of them.
Two versions are needed for a stale approval or signature. Two outages let a
worker die and its successor die too, one more than BullMQ forgives. Two
deliveries are needed for one to starve the other; the safety properties of
`DeliveryOutbox` concern one row, which two workers contend for. Two approvals and
two pages let either party's page be behind, and one change is what the two can
disagree about. In the review a page reads the deal again only if it is behind and
waits for no answer, and one fixed party edits a profile: other readings change
nothing, and the parties are alike. Slots, guests and texts are symmetric in the
runs without liveness.

In `Services` every race has two sides: two issues and two verifications of one code
(`MaxTries = 2`), two readers of one session, two administrators, two users and two
phone numbers, two tabs with answers, two sends of a message. Issues of one holder
overlap only when a verification of an earlier code gives the resend interval back;
that takes a third code, which is drawn beside a single verification while no code
has expired. A signature has two codes to rest on, and two confirm requests at once
while there is one code, it has not expired and the deal has its first version, so
that both may verify the same challenge. Three logins let a launch be claimed,
released and claimed again; three object keys let two writers of an artifact meet a
third; three template versions let two publications race while one is published, the
last of them without edits of its own; three questions let the rules' own questions
reach the limit. Two edits, one step and three writes of the draft with one waiting
save let a save be queued behind a conflicting one and be answered after a reload; a
save waits only while a write is left for it, and a form is submitted while the
draft was written at most once and no closed page has a save on its way. The
preparation of a deal has two changes and two sessions: one contract can be
prepared, its terms changed, and another one prepared, with one handler waiting at a
time while the author edits, goes back or opens the draft again; the two sides are
alike, so the first one chosen is fixed. The run has about 1.2 million distinct
states.

`DeliveryOutbox`, `ContractGeneration`, `StrandedRetry`, `NeedlessRefusal` and
`Services` may stop, once every row is settled, nobody starts anything or a bound
is reached: deadlock is not checked there. The other runs check it.

### What the violations mean

* **A signature may be lost to write skew.** `confirm` counts signatures before it
  locks the deal. Two confirms at once both count one, both write
  `SIGNED_BY_ONE`; `requireSignedVersion` then refuses every retry. Locking the
  deal row before the insert removes it.
* **A signature may go to an old version.** The update in `confirm` is guarded by
  the status, not by the version that was loaded. It needs a revision and both
  new approvals during one confirm. `CompletedIsSigned` and its proof show that
  such a deal is nevertheless never completed with a wrong signature.
* **Two unguarded status writes.** `markSent` and `revoke` write a status derived
  from what they read. In a deal of this release with one invitation neither
  does harm (`FreshDeal`).
* **A retry may be swallowed.** The last attempt fails and the worker stores FAILED
  before it throws, that is before BullMQ settles the job. A retry in that window
  reads FAILED, marks the row QUEUED, finds the job active and adds none; then the
  job settles as failed. The row says QUEUED, no job is left, and every later start
  is answered by the row as it is. A second start that read the row before the first
  one marked it can do the same to a job that has just stored its draft.
  `StrandedOnlyByRace` shows that this and outages are the only ways a generation
  is stranded.
* **An approval may be refused for nothing.** When the stamp has moved, the page
  reads the deal again and repeats the call if all but approvals, stamp and presence
  is the same. The other party's first approval also freezes the requisites, and
  `requisites.frozen` is part of the comparison, so the second party, the very case
  the repetition is for, sees an error and has to press again. Only a page that read
  the deal's row before that approval and the rest after it repeats the call. Leaving
  `frozen` out of the comparison removes it; the hash still binds the requisites.

### What the properties excuse

Some guarantees hold only up to a case the code leaves open. The properties name
the case by a ghost variable, so that it is visible and nothing wider is excused.

* `RowsNameObjects`, `OrphansAreExcused`: when a commit succeeds but its answer is
  lost, the catch block deletes the object that the new row names.
* `AttemptsAreSpent`: a worker that dies has spent a claim that only the catch block
  of `tick` could have counted as the last; a row whose workers always die is claimed
  without end. The model bounds the outages and allows one claim beyond the limit
  for each.
* `OneSessionPerLaunch`: a claim's key may expire within the last second in which
  the launch is still accepted.
* `DeliveredCodeWorks`: issues of one holder that overlap may replace or delete one
  another's challenge.
* `PublishedTextIsStable`: an edit that read the version as a draft before it was
  published still changes it.
* `RequirementsOfOneEdit`: two overlapping edits leave the requirements of both.
* `PhonesAreOnes`: two users that verify one number at once may leave one of them
  without a primary phone, or with two.
* `AnswerShowsFacts`: of two inquiries for one user that overlap, the one that read
  older facts may store its checks last (`muddled`); the next inquiry corrects them.
* `SaveFailsForAReason`, `SavedIsStored`: revoking the invitation of a draft moves
  `updatedAt`, and a lost answer leaves the page with an old stamp; every later
  save of the page then conflicts until it is loaded again, and the autosave stops
  after an error until the next explicit step.
* `FinishedDraftIsOfItsTerms`: an answer that arrives after the form has moved on
  attaches the session of the old terms to the new ones, and a draft opened again
  while a newer contract than the kept one is prepared shows the older one. Such a
  draft is refused by `startAgreement` (`DEAL_DRAFT_GENERATION_STALE`); the property
  is that there is no third way to a draft that it refuses.

`DealPreparation` also shows a draft that gets stuck: the server answers a question
session only until its generation is started (`toClarificationStatus`, 409 after
that), and a page opened again at the questions or at the generation, with no
contract recorded yet and no session in the query cache, needs that answer. `LoadDialogue` is not enabled there, and
the page shows an error without a way on. Nothing in the repository promises
otherwise, so no property states it.

### Fairness

`DealNegotiation`, `ContractReview`, `Signing` and the modules of `Services` have safety properties
only and no fairness: people need not act. In `DeliveryOutbox` each worker's poll and each worker's
progress are weakly fair, as is the clock: the timer fires every five seconds
whatever happened before, HTTP calls have timeouts, and the process manager
restarts dead workers. No fairness between rows is assumed; the ORDER BY
provides it. In `ContractGeneration` a request that began goes on, the worker
works and BullMQ promotes delayed and redelivers stalled jobs; no request has
to begin.

## What is proved

The theorems hold for every number of requests, guests, texts, versions,
parties, attempts, outages, writers, administrators, terms and tabs. They rest on
the named assumptions of the modules only: bounds are positive numbers, null
values are not values, the sets of parties and of terms are finite, there is a
user, a phone number and a schema. Each proof is of the same kind: an inductive
invariant, which says what a request that is under way may still rely on, is
established by the initial state and kept by every step; the property follows from
it. `PROJECT.json` lists the theorems worth knowing; the lemmas they rest on stand
beside them, one per action.

| Module | About | Theorems |
|---|---|---|
| `DealNegotiationProofs` | `DealNegotiation` | `Typing`, `ReadinessIsUnanimous`, `NoStaleApproval`, `ApprovalsFreezeText`, `AdmissionIsUnique`, `Refinement`, `OnlyUnguardedWritesLeaveTheGraph`, `NewDealsFollowTheGraph` |
| `SigningProofs` | `Signing`, `Otp`, `SigningWithOtp` | `Typing`, `CompletionIsSigned`, `CompletionDelivers`, `SignedStays`, `CompletionRefinement`; `OtpTyping`, `PromisedCodeWorks`; `RefinesSigning`, `RefinesCodes`, `SignaturesHaveCodes`, `CompletionWithCodes` |
| `ContractGenerationProofs` | `ContractGeneration` | `Typing`, `StrandingNeedsRace`, `DraftIsKept` |
| `DeliveryOutboxProofs` | `DeliveryOutbox` | `OutboxTyping`, `SentMeansDelivered`, `NoAttemptIsLost`, `DuplicatesHaveAnExcuse`, `OnlyTheHolderSettles` |
| `AccountProofs` | `Sessions`, `Onboarding` | `SessionsTyping`, `LogoutEnds`, `OneSession`; `OnboardingTyping`, `PhonesStayOnes`, `AnswersShowFacts` |
| `DocumentProofs` | `TemplateVersions`, `Clarifications`, `StoredDocuments` | `TemplatesTyping`, `TemplateVersionsAreCurrent`, `EditsAreApart`, `PublishedTextStays`; `ClarificationsTyping`, `AnswersStayKept`, `NothingIsAskedTwice`; `DocumentsTyping`, `RowsHaveObjects`, `OrphansHaveAnExcuse`, `PackagesHoldThePdf` |
| `ClientProofs` | `DealMessages`, `DraftAutosave`, `ContractReview`, `DealPreparation` | `AnswersAreOnes`; `ConflictHasAReason`, `ShownAsSavedIsStored`; `ReviewTyping`, `ApprovalsAreOfWhatWasSeen`; `PreparationTyping`, `FinishedDraftStays` |
| `ServicesProofs` | `MCServices` | `ServicesTyping` |

**Negotiation.** `IInv` strengthens the properties by what a request
knows. `ReadsStayTrue`: what a slot holds was true when it was read and the
parts nobody can change still are. `FreshReadsAreCurrent`: while `fresh` is true,
the version, approvals, freeze and text it read are those of the deal; this is
what makes counting *stale* approvals safe, and it needs that every writer of
these columns also writes `updatedAt`. `Admission` ties the invitations to the
counterparty and `FreezeHolds` the frozen snapshots to the stored texts. From
these follow the safety properties and `Refinement`: every step of the handlers is
a step of `Agreement` or a stutter.

The transition graph is followed by all writes but two, for every deal
(`OnlyUnguardedWritesLeaveTheGraph`): the commits of `markSent` and `revoke`, which
compare nothing with what they read. `StatusFollowsGraph` itself is false in
general, as two violations show. `NewDealsFollowTheGraph` proves it where both
hypotheses hold that the violations break, a deal of this release and one
invitation: `NewDeal` says that such a deal is a draft until it is joined, so that
no sent-mark writes a status, and what a late revoke writes is what is there.

**Signing.** The invariant follows the version a request holds through its
phases and relates artifacts and outbox to the status. It shows why a guard on
the status suffices for completion: once somebody signed the current version,
no status from which a version can be replaced comes back. `CompletionRefinement`
puts it together: a commit is a signature of `Completion`, or, if its version is no
longer current or its party signed already, a stutter; the update that counted too
few signatures and the requests that store the artifacts twice show in no promise.

**Codes.** A stored challenge was delivered or is still being sent by the issue
that stored it; an issue that runs alone keeps its promise until the code is
used, expires or is tried out. Every step of `SigningWithOtp` is a step of `Signing`
and of `Otp`, or a stutter, so the theorems of both hold for it.
`SignaturesHaveCodes` adds what neither can say: a signature rests on a code that
was sent to its signer for that version.

**Generation.** Without race and outage, a pending row whose job
is absent or settled has a start that still owes an `add`; which phases count
depends on whether the id is free (`Adders`), because an add is ignored while a
settled job keeps the id. Together with `OutcomeStored` (an attempt that ended
for good left its outcome) this gives `StrandingNeedsRace`. `Undrafted` (a worker
past its check never holds a stale reading of COMPLETED) gives `DraftIsKept`.

**Delivery.** `OutboxInv` numbers the claims of a row and gives each
number to one worker at most (`InOrder`). Claims beyond `MaxAttempts` are counted
against outages, and messages against claims: copies plus claims that have yet to
send never exceed the attempts, and copies plus overdue claims never exceed lost
answers and outages by more than one.

**Sessions and onboarding.** A logout, once a half of it took effect, stays in
effect for every request that begins later (`LogoutLasts`), and a claim outlives the
launch, except for its last second (`ClaimLasts`). A phone number never changes
hands, so that what a verification read of its own user's rows still holds
(`ReadingsHold`); only that the number was *free* may be over, which is the case
`crossed` names. An inquiry that runs alone finds the checks it has passed as it
wants them, also those it did not write (`UnwrittenAgrees`).

**Template versions.** No index says that a template has one published version.
It has because numbers are given out in turn (`NumbersAreInTurn`: a request that
read a number as the next either still finds it free, with no draft beside it, or
loses to the unique index), and because a publication archives what is published
as long as its own version is a draft (`ReplacesThePublished`), which its second
update checks under the lock it holds. `EditsAreNamed` says that nobody edits a
published version except edits that began before, and that a lone edit has every
row of its version in view.

**Clarifications.** A request has read the session as it is or with an earlier
stamp (`TabsAreBehind`), so an update that finds its stamp loses no answer. After
the first round a session asks for terms without an answer only; each further
round therefore settles a term, which bounds the stamp by their number
(`SessionInv`). That the two loops choose neither a repeated nor a known question,
nor more than the limit, follows from what they had taken before each position;
for this the model states the loops as a relation between the AI's list and the
positions taken, which is what a loop that never takes back computes, and which
the provers can reason about without an induction over the list.

**Stored documents.** An object key is drawn once and held by one writer from its
put to its end (`KeysAreDrawn`); until its commit the object is there and no row
names it, and what is about to be deleted is named by an unanswered commit at most
(`HeldIsApart`). A package under way is made of the very PDF whose row is stored,
because that row is written once and before any package begins
(`PackagesNeedThePdf`).

**Messages and drafts.** The row an answer shows is the stored one, also for sends
that overlap. A change request may be stored after the signing; the model has it, and
no property is about it. For the saving of drafts the invariant follows the stamp a save in
flight carries and what the database held under it.

**Review.** Every stamp that a page or a call holds
is an old one or the current one, and a checked call whose stamp is current has seen
the version and the requisites that are there (`ReviewInv`), so that the guard on the
stamp suffices although a profile moves no stamp.

**Preparing a deal.** `PreparationInv` has two layers. The first holds always: each
waiting handler's closure still fits its kind (`AsksAreSound`), and a session that
an answer is about to show is one nobody knows yet (`NewIsUnseen`). The second,
`FormsAgree`, holds until an answer meets a form that has moved on: the form and
the kept draft show the terms of the session they name, a session left on an early
step is never generated from, and the contract kept with the last step is that of
its session (`SourceIsOfTheForm`). `FinishedDraftStays` follows from the last of
these; the others carry it over the steps of the handlers.

**All services.** `ServicesTyping` puts the invariants of all parts together: it
states `ServicesTypeOK` for the specification that the run `Services` checks.

Only model-checked are the two liveness properties, `EventuallySettled` and
`EventuallyDecided`: liveness under fairness is out of the prover's reach. Every
other property of a passing run is stated by a theorem. The violated properties
are false and stay with TLC. The modules have no recursive operators and no
induction over data is needed.

## What is abstracted, and why

* Texts, names, requisites and hashes are model values. Checks of their content
  (completeness, schema, required profile) decide whether a request goes on and
  are left to the choice of input or to `Abort`.
* Audit events and notifications are written and never read by the modelled code.
* `updatedAt` stamps are taken as unique; two writes in one millisecond are not
  told apart by the code and not modelled.
* `sentAt` of an invitation is not kept, so only the sent-mark that changes the
  status appears.
* A party that already approved, or a request for a status that refuses it,
  changes nothing and is not an action.
* Reviews of files cannot be reached: the controller answers Gone
  (`admin/admin-files.controller.ts:59`). The stage recomputed after an upload is
  a subset of `ReconcileDocumentStage`.
* No code writes the statuses CANCELED and CONTRACT_DRAFT.
* In `Signing` alone the code is verified by one step, `VerifyOtp`, which may fail;
  `SigningWithOtp` takes it apart.
* A failing call is a choice wherever the code handles a failure: the bodies of
  answers, error texts and log lines are left out.

## Not modelled

* Recording the consents is one transaction of upserts without a read before it;
  nothing can come between its steps. What the outbox reads of it is a choice there.
* The deal intake and the bot's webhook keep no state: they turn one message into
  one answer. The sending of documents is part of the outbox.
* `requiredForParty` (`files/document-readiness.ts`) returns no requirement, so the
  check for missing documents is constant.
* JSON Schema checks of questionnaires, the processing of Russian wording, prompts,
  the AI clients, PDF and ZIP rendering, formatting of notifications and parsing of
  configuration compute data. The models take their results as choices.
* Party-role changes and previews of a deal change or read data no property of the
  negotiation tells apart.
* The other screens of the mini app, the design review, dictation and OCR are
  layout and device input. They and type declarations (`packages/contracts`, DTOs)
  are most of the source lines; the definitions here stand for the part of the code
  that decides what is stored and when.

## Plan

Done, the most important behaviour first: negotiation, signing, delivery and
generation; then codes and their composition with signing, stored documents,
template versions, sessions, onboarding, messages, clarifications, the saving of
drafts, the preparation of a deal and the review of the contract; proofs of every
safety property that a run checks. Left, in this order:

1. The composer of chat messages in the mini app, on top of `DealMessages`.
2. A bound on the messages of one deal over all its deliveries, from
   `DuplicatesHaveAnExcuse`.
