--------------------------- MODULE ContractReview ---------------------------
(***************************************************************************)
(* What the two parties see of a contract and what they approve (apps/web/ *)
(* lib/api/approve-current-deal.ts and components/deals/deal-workspace-    *)
(* screen.tsx, against workspace and approve of apps/api/src/deals/        *)
(* deal-invitations.service.ts).  Each party's page polls the deal; an     *)
(* approval names the version, the updatedAt stamp and the requisites that *)
(* the page showed, and is sent once more when only the stamp had moved.   *)
(*                                                                         *)
(* A profile may change at any time without moving the stamp.  A read of a *)
(* deal is two steps: its row first, then its version and profiles, which  *)
(* come from queries of their own outside a transaction.                   *)
(*                                                                         *)
(* The model begins with the review, when the text of a version is not     *)
(* rewritten any more, so the version stands for it.  A profile entry is   *)
(* the number of the last change to it.                                    *)
(***************************************************************************)
EXTENDS Integers, FiniteSets

CONSTANTS
  Reviewers,     \* the parties of the deal, both joined
  Calls,         \* slots for approvals that are under way
  MaxAmendments  \* bound: revisions of the contract, changes of profiles

ASSUME ReviewAssumption == MaxAmendments \in Nat /\ Reviewers # {}

VARIABLES
  dealRow,     \* deals: status, and updatedAt as a count
  contract,    \* the current row of deal_versions, with its frozenSnapshot
  approvals,   \* deal_approvals that are APPROVED, and what their authors had seen
  profile,     \* user_profiles of the parties
  page,        \* what each party's page shows
  polling,     \* the first half of a page's read
  approving,   \* approvals under way
  amendments,  \* changes made so far
  needless     \* ghost: an approval was given up although the page showed what is there

reviewVars ==
  <<dealRow, contract, approvals, profile, page, polling, approving, amendments, needless>>

Statuses == {"TERMS_REVIEW", "READY_TO_SIGN"}
Profiles == [Reviewers -> [name: Nat, passport: Nat]]
DealRow == [status: Statuses, stamp: Nat]
Page == [status: Statuses, stamp: Nat, version: Nat, requisites: Profiles, frozen: BOOLEAN,
         names: [Reviewers -> Nat], approved: BOOLEAN]

FirstProfiles == [p \in Reviewers |-> [name |-> 0, passport |-> 0]]
NamesOf(parties) == [p \in Reviewers |-> parties[p].name]
FirstRow == [status |-> "TERMS_REVIEW", stamp |-> 0]
FirstContract == [version |-> 1, names |-> NamesOf(FirstProfiles), frozen |-> FALSE,
                  snapshot |-> FirstProfiles]
FirstPage == [status |-> "TERMS_REVIEW", stamp |-> 0, version |-> 1, requisites |-> FirstProfiles,
              frozen |-> FALSE, names |-> NamesOf(FirstProfiles), approved |-> FALSE]
NoPoll == [on |-> FALSE, row |-> FirstRow]
NoRead == [frozen |-> FALSE, requisites |-> FirstProfiles, count |-> 0]
NoApproval == [phase |-> "idle", party |-> CHOOSE p \in Reviewers : TRUE, seen |-> FirstPage,
               stamp |-> 0, again |-> FALSE, heard |-> FALSE, row |-> FirstRow, read |-> NoRead]

ReviewInit ==
  /\ dealRow = FirstRow
  /\ contract = FirstContract
  /\ approvals = {}
  /\ profile = FirstProfiles
  /\ page = [p \in Reviewers |-> FirstPage]
  /\ polling = [p \in Reviewers |-> NoPoll]
  /\ approving = [c \in Calls |-> NoApproval]
  /\ amendments = 0
  /\ needless = FALSE

-----------------------------------------------------------------------------
(* contractRequisites: the frozen snapshot, else the profiles of now.      *)
Requisites == IF contract.frozen THEN contract.snapshot ELSE profile

(* toWorkspace, with a row that was read before                            *)
Workspace(p, row) ==
  [status |-> row.status, stamp |-> row.stamp, version |-> contract.version,
   requisites |-> Requisites, frozen |-> contract.frozen, names |-> NamesOf(profile),
   approved |-> \E a \in approvals : a.party = p]

(* comparable() of the page: all but the approvals and the stamp           *)
Comparable(w) == [w EXCEPT !.stamp = 0, !.approved = FALSE]

(* What a reader of the contract reads                                     *)
Content(w) == <<w.status, w.version, w.requisites, w.names>>

Moved(status) == [status |-> status, stamp |-> dealRow.stamp + 1]
Amend == amendments < MaxAmendments /\ amendments' = amendments + 1

-----------------------------------------------------------------------------
(* createVersion, by a new generation or by editContract: the approvals of *)
(* the version before it no longer count.                                  *)
ReviseContract ==
  /\ Amend
  /\ dealRow' = Moved("TERMS_REVIEW")
  /\ contract' = [version |-> contract.version + 1, names |-> NamesOf(profile),
                  frozen |-> FALSE, snapshot |-> FirstProfiles]
  /\ approvals' = {}
  /\ UNCHANGED <<profile, page, polling, approving, needless>>

(* updateProfile                                                           *)
EditProfile(p) ==
  /\ Amend
  /\ \/ profile' = [profile EXCEPT ![p].name = amendments']
     \/ profile' = [profile EXCEPT ![p].passport = amendments']
  /\ UNCHANGED <<dealRow, contract, approvals, page, polling, approving, needless>>

-----------------------------------------------------------------------------
(* The workspace query of a page                                           *)
PollRow(p) ==
  /\ ~polling[p].on
  /\ polling' = [polling EXCEPT ![p] = [on |-> TRUE, row |-> dealRow]]
  /\ UNCHANGED <<dealRow, contract, approvals, profile, page, approving, amendments, needless>>

PollRest(p) ==
  /\ polling[p].on
  /\ page' = [page EXCEPT ![p] = Workspace(p, polling[p].row)]
  /\ polling' = [polling EXCEPT ![p] = NoPoll]
  /\ UNCHANGED <<dealRow, contract, approvals, profile, approving, amendments, needless>>

-----------------------------------------------------------------------------
ReviewEnds(c) == approving' = [approving EXCEPT ![c] = NoApproval]
ReviewGoesTo(c, phase) == approving' = [approving EXCEPT ![c].phase = phase]

(* The button, which is disabled while the page waits: approveCurrentDeal. *)
Pressed(p) == \E d \in Calls : approving[d].party = p /\ approving[d].heard

Approve(c, p) ==
  /\ approving[c].phase = "idle"
  /\ page[p].status = "TERMS_REVIEW"
  /\ ~page[p].approved
  /\ ~Pressed(p)
  /\ approving' = [approving EXCEPT ![c] =
       [NoApproval EXCEPT !.phase = "sent", !.party = p, !.seen = page[p],
                          !.stamp = page[p].stamp, !.heard = TRUE]]
  /\ UNCHANGED <<dealRow, contract, approvals, profile, page, polling, amendments, needless>>

(* What approve of the server reads and checks.  The row is compared again *)
(* when the transaction begins, so it is read together with the rest here. *)
VersionDiffers(q) == contract.version # q.seen.version
NamesChanged == ~contract.frozen /\ contract.names # NamesOf(profile)
NamesDiffer(q) == NamesOf(Requisites) # NamesOf(q.seen.requisites)
RequisitesDiffer(q) == Requisites # q.seen.requisites

(* DEAL_VERSION_CONFLICT, the only refusal after which the page tries again*)
Conflict(c) ==
  \/ (approving[c].again \/ ~approving[c].heard) /\ ReviewEnds(c)
  \/ ~approving[c].again /\ approving[c].heard /\ ReviewGoesTo(c, "conflict")

RefuseApproval(c) ==
  LET q == approving[c] IN
  /\ q.phase = "sent"
  /\ \/ VersionDiffers(q) /\ Conflict(c)
     \/ /\ ~VersionDiffers(q)
        /\ \/ dealRow.status # "TERMS_REVIEW"
           \/ NamesChanged
           \/ RequisitesDiffer(q)
           \/ \E a \in approvals : a.party = q.party
        /\ ReviewEnds(c)
  /\ UNCHANGED <<dealRow, contract, approvals, profile, page, polling, amendments, needless>>

CheckApproval(c) ==
  LET q == approving[c] IN
  /\ q.phase = "sent"
  /\ ~VersionDiffers(q)
  /\ dealRow.status = "TERMS_REVIEW"
  /\ ~NamesChanged
  /\ ~RequisitesDiffer(q)
  /\ \A a \in approvals : a.party # q.party
  /\ approving' = [approving EXCEPT ![c].phase = "checked",
       ![c].read = [frozen |-> contract.frozen, requisites |-> Requisites,
                    count |-> Cardinality(approvals)]]
  /\ UNCHANGED <<dealRow, contract, approvals, profile, page, polling, amendments, needless>>

(* The transaction is guarded by the stamp that the page sent.  The first  *)
(* approval freezes what was read for it (createFreeze).                   *)
Guarded(q) == dealRow.status = "TERMS_REVIEW" /\ dealRow.stamp = q.stamp

CommitApproval(c) ==
  LET q == approving[c] IN
  /\ q.phase = "checked"
  /\ Guarded(q)
  /\ q.read.frozen \/ ~contract.frozen
  /\ dealRow' = Moved(IF q.read.count + 1 = Cardinality(Reviewers) THEN "READY_TO_SIGN"
                      ELSE "TERMS_REVIEW")
  /\ approvals' = {a \in approvals : a.party # q.party}
                  \cup {[party |-> q.party, version |-> q.seen.version, saw |-> q.seen.requisites]}
  /\ contract' = IF q.read.frozen THEN contract
                 ELSE [contract EXCEPT !.frozen = TRUE, !.snapshot = q.read.requisites]
  /\ ReviewEnds(c)
  /\ UNCHANGED <<profile, page, polling, amendments, needless>>

RejectApproval(c) ==
  /\ approving[c].phase = "checked"
  /\ ~Guarded(approving[c]) \/ (contract.frozen /\ ~approving[c].read.frozen)
  /\ Conflict(c)
  /\ UNCHANGED <<dealRow, contract, approvals, profile, page, polling, amendments, needless>>

(* The page hears of a conflict, reads the deal again, and approves once   *)
(* more if it had shown what is there.                                     *)
RefetchRow(c) ==
  /\ approving[c].phase = "conflict"
  /\ approving' = [approving EXCEPT ![c].phase = "refetch", ![c].row = dealRow, ![c].read = NoRead]
  /\ UNCHANGED <<dealRow, contract, approvals, profile, page, polling, amendments, needless>>

ApproveAgain(c) ==
  LET q == approving[c]
      latest == Workspace(q.party, q.row) IN
  /\ q.phase = "refetch"
  /\ latest.status = "TERMS_REVIEW"
  /\ Comparable(latest) = Comparable(q.seen)
  /\ approving' = [approving EXCEPT ![c].phase = "sent", ![c].stamp = latest.stamp,
                                    ![c].again = TRUE, ![c].row = FirstRow]
  /\ UNCHANGED <<dealRow, contract, approvals, profile, page, polling, amendments, needless>>

GiveUpApproval(c) ==
  LET q == approving[c]
      latest == Workspace(q.party, q.row) IN
  /\ q.phase = "refetch"
  /\ latest.status # "TERMS_REVIEW" \/ Comparable(latest) # Comparable(q.seen)
  /\ needless' = (needless \/ Content(latest) = Content(q.seen))
  /\ ReviewEnds(c)
  /\ UNCHANGED <<dealRow, contract, approvals, profile, page, polling, amendments>>

(* A timeout or a lost connection: the page stops waiting, the server may  *)
(* still be at work.                                                       *)
LoseApproval(c) ==
  /\ approving[c].heard
  /\ IF approving[c].phase \in {"conflict", "refetch"} THEN ReviewEnds(c)
     ELSE approving' = [approving EXCEPT ![c].heard = FALSE]
  /\ UNCHANGED <<dealRow, contract, approvals, profile, page, polling, amendments, needless>>

ReviewStep(c) ==
  \/ \E p \in Reviewers : Approve(c, p)
  \/ RefuseApproval(c) \/ CheckApproval(c) \/ CommitApproval(c)
  \/ RejectApproval(c) \/ RefetchRow(c) \/ ApproveAgain(c) \/ GiveUpApproval(c) \/ LoseApproval(c)

ReviewNext ==
  \/ ReviseContract
  \/ \E p \in Reviewers : EditProfile(p) \/ PollRow(p) \/ PollRest(p)
  \/ \E c \in Calls : ReviewStep(c)

ReviewSpec == ReviewInit /\ [][ReviewNext]_reviewVars

-----------------------------------------------------------------------------
(* The type invariant.                                                     *)
ReviewTypeOK ==
  /\ dealRow \in DealRow
  /\ contract \in [version: Nat, names: [Reviewers -> Nat], frozen: BOOLEAN,
                   snapshot: Profiles]
  /\ approvals \in SUBSET [party: Reviewers, version: Nat, saw: Profiles]
  /\ profile \in Profiles
  /\ page \in [Reviewers -> Page]
  /\ polling \in [Reviewers -> [on: BOOLEAN, row: DealRow]]
  /\ approving \in [Calls -> [phase: {"idle", "sent", "checked", "conflict", "refetch"},
                              party: Reviewers, seen: Page, stamp: Nat, again: BOOLEAN,
                              heard: BOOLEAN, row: DealRow,
                              read: [frozen: BOOLEAN, requisites: Profiles, count: Nat]]]
  /\ amendments \in 0..MaxAmendments
  /\ needless \in BOOLEAN

(* Every approval that counts is of what its author's page showed: its     *)
(* version is the current one, and the requisites frozen with it are those *)
(* that each approving party had before it, although profiles change       *)
(* without a stamp, the deal is read in pieces and an approval is sent     *)
(* again under a newer stamp.                                              *)
ApprovedAsSeen ==
  \A a \in approvals :
    contract.frozen /\ a.version = contract.version /\ a.saw = contract.snapshot

(* An approval that meets nothing but the other party's approval is sent   *)
(* again and not given up (approve-current-deal.spec.ts).                  *)
OnlyChangesAreRefused == ~needless
=============================================================================
