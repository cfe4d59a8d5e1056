----------------------------- MODULE Onboarding -----------------------------
(***************************************************************************)
(* What a user proves about themselves: verified phone numbers (apps/api/  *)
(* src/onboarding/), the profile (profile/) and the trust checks computed  *)
(* from them (trust/trust.service.ts).                                     *)
(*                                                                         *)
(* Transactions are READ COMMITTED.  Rows a transaction has written are    *)
(* locked and unseen until it commits, so its writes and its commit are    *)
(* one step; what it read before that is kept in the request.              *)
(***************************************************************************)
EXTENDS Integers, FiniteSets

CONSTANTS
  Users,
  PhoneNumbers,   \* numbers in their normal form, +<digits>
  Verifications,  \* slots for phone verifications in flight
  Inquiries       \* slots for requests for the trust status in flight

VARIABLES
  owner,         \* user_phones: who has each number, "nobody" without a row
  primary,       \* numbers whose row is primary
  requisites,    \* users whose profile has everything requisites need
  verification,  \* phone verifications in flight
  trust,         \* user_trust_checks rows that are computed
  inquiry,       \* trust status requests in flight
  crossed,       \* users that verified a number another user was just storing
  muddled        \* inquiries beside which another one ran for the same user

onboardingVars == <<owner, primary, requisites, verification, trust, inquiry, crossed, muddled>>

Nobody == "nobody"

ASSUME OnboardingAssumption == Users # {} /\ Nobody \notin Users /\ PhoneNumbers # {}

CheckTypes == {"PHONE", "REQUISITES_FORMAT"}
CheckStatus == {"none", "PENDING", "CONFIRMED"}

NoVerification == [phase |-> "idle", user |-> CHOOSE u \in Users : TRUE,
                   number |-> CHOOSE n \in PhoneNumbers : TRUE, free |-> FALSE, seen |-> {}]
NoInquiry == [phase |-> "idle", user |-> CHOOSE u \in Users : TRUE,
              want |-> [k \in CheckTypes |-> "PENDING"], writes |-> {}]

OnboardingInit ==
  /\ owner = [n \in PhoneNumbers |-> Nobody]
  /\ primary = {}
  /\ requisites = {}
  /\ verification = [v \in Verifications |-> NoVerification]
  /\ trust = [u \in Users |-> [k \in CheckTypes |-> "none"]]
  /\ inquiry = [t \in Inquiries |-> NoInquiry]
  /\ crossed = {}
  /\ muddled = {}

PhonesOf(u) == {n \in PhoneNumbers : owner[n] = u}

-----------------------------------------------------------------------------
VerificationTo(v, phase) == verification' = [verification EXCEPT ![v].phase = phase]
VerificationEnds(v) == verification' = [verification EXCEPT ![v] = NoVerification]

(* storePhone looks whether the number is another user's ...               *)
MayStoreAlways(u, n) == n \in PhoneNumbers
MayStore(u, n) == owner[n] \in {Nobody, u}

FindPhone(v, u, n) ==
  /\ verification[v].phase = "idle"
  /\ MayStore(u, n)
  /\ verification' = [verification EXCEPT ![v] = [NoVerification EXCEPT !.phase = "found",
       !.user = u, !.number = n, !.free = (owner[n] = Nobody)]]
  /\ UNCHANGED <<owner, primary, requisites, trust, inquiry, crossed, muddled>>

(* ... and demotes the primary rows that this statement has in view; a row *)
(* it waits for is looked at again, a row inserted meanwhile is not.       *)
SeenPrimary(u) == primary \cap PhonesOf(u)

Demote(v) ==
  /\ verification[v].phase = "found"
  /\ verification' = [verification EXCEPT ![v].phase = "demoted",
                                          ![v].seen = SeenPrimary(verification[v].user)]
  /\ UNCHANGED <<owner, primary, requisites, trust, inquiry, crossed, muddled>>

(* The upsert looks for the number alone: a row that another user inserted *)
(* meanwhile is updated as it is.  One primary row per user is an index.   *)
KeptPrimary(v) == primary \ verification[v].seen
Holder(v) == IF owner[verification[v].number] = Nobody THEN verification[v].user
                                                       ELSE owner[verification[v].number]

StorePhone(v) ==
  LET q == verification[v] IN
  /\ q.phase = "demoted"
  /\ KeptPrimary(v) \cap PhonesOf(Holder(v)) \subseteq {q.number}
  /\ owner' = [owner EXCEPT ![q.number] = Holder(v)]
  /\ primary' = KeptPrimary(v) \cup {q.number}
  /\ IF Holder(v) # q.user /\ q.free
     THEN crossed' = crossed \cup {q.user} /\ VerificationTo(v, "crossed")
     ELSE crossed' = crossed \ {q.user} /\ VerificationTo(v, "stored")
  /\ UNCHANGED <<requisites, trust, inquiry, muddled>>

(* The number is another user's, the index is violated, an error or crash; *)
(* or, once stored, the answer of getState.                                *)
EndVerification(v) ==
  /\ verification[v].phase # "idle"
  /\ VerificationEnds(v)
  /\ UNCHANGED <<owner, primary, requisites, trust, inquiry, crossed, muddled>>

(* updateProfile replaces the birth date and the address, which may go.    *)
UpdateProfile(u) ==
  /\ requisites' \in {requisites \cup {u}, requisites \ {u}}
  /\ UNCHANGED <<owner, primary, verification, trust, inquiry, crossed, muddled>>

-----------------------------------------------------------------------------
(* getStatus reads the facts outside the transaction that stores what      *)
(* follows from them.                                                      *)
StatusIf(holds) == IF holds THEN "CONFIRMED" ELSE "PENDING"
DesiredChecks(u) == [k \in CheckTypes |->
  IF k = "PHONE" THEN StatusIf(PhonesOf(u) # {}) ELSE StatusIf(u \in requisites)]

Beside(t, u) == {o \in Inquiries \ {t} : inquiry[o].phase # "idle" /\ inquiry[o].user = u}

ReadFacts(t, u) ==
  /\ inquiry[t].phase = "idle"
  /\ inquiry' = [inquiry EXCEPT ![t] = [NoInquiry EXCEPT !.phase = "PHONE", !.user = u, !.want = DesiredChecks(u)]]
  /\ muddled' = muddled \cup Beside(t, u) \cup (IF Beside(t, u) = {} THEN {} ELSE {t})
  /\ UNCHANGED <<owner, primary, requisites, verification, trust, crossed>>

(* syncComputedCheck: a row that says so already is not written.  Only the *)
(* statuses are kept: a row of another source is written with the status   *)
(* it has, and MAX_ACCOUNT is confirmed for every user who has logged in.  *)
DiffersIfMissing(t, k) == trust[inquiry[t].user][k] = "none"
Differs(t, k) == trust[inquiry[t].user][k] # inquiry[t].want[k]

SyncCheck(t, k, next) ==
  /\ inquiry[t].phase = k
  /\ inquiry' = [inquiry EXCEPT ![t].phase = next, ![t].writes = IF Differs(t, k) THEN @ \cup {k} ELSE @]
  /\ UNCHANGED <<owner, primary, requisites, verification, trust, crossed, muddled>>

SyncChecks(t) ==
  \/ SyncCheck(t, "PHONE", "REQUISITES_FORMAT")
  \/ SyncCheck(t, "REQUISITES_FORMAT", "synced")

(* The rows are read back, those of other requests among them.             *)
AnswerStatus(t) ==
  LET q == inquiry[t] IN
  /\ q.phase = "synced"
  /\ trust' = [trust EXCEPT ![q.user] = [k \in CheckTypes |-> IF k \in q.writes THEN q.want[k] ELSE @[k]]]
  /\ inquiry' = [inquiry EXCEPT ![t].phase = "answered"]
  /\ UNCHANGED <<owner, primary, requisites, verification, crossed, muddled>>

EndInquiry(t) ==
  /\ inquiry[t].phase # "idle"
  /\ inquiry' = [inquiry EXCEPT ![t] = NoInquiry]
  /\ muddled' = muddled \ {t}
  /\ UNCHANGED <<owner, primary, requisites, verification, trust, crossed>>

-----------------------------------------------------------------------------
VerificationStep(v) == Demote(v) \/ StorePhone(v) \/ EndVerification(v)
InquiryStep(t) == SyncChecks(t) \/ AnswerStatus(t) \/ EndInquiry(t)
Of(u) ==
  \/ \E v \in Verifications, n \in PhoneNumbers : FindPhone(v, u, n)
  \/ \E t \in Inquiries : ReadFacts(t, u)
  \/ UpdateProfile(u)

OnboardingNext ==
  \/ \E u \in Users : Of(u)
  \/ \E v \in Verifications : VerificationStep(v)
  \/ \E t \in Inquiries : InquiryStep(t)

OnboardingSpec == OnboardingInit /\ [][OnboardingNext]_onboardingVars

-----------------------------------------------------------------------------
(* The type invariant.                                                     *)
OnboardingTypeOK ==
  /\ owner \in [PhoneNumbers -> Users \cup {Nobody}]
  /\ primary \in SUBSET PhoneNumbers
  /\ requisites \in SUBSET Users
  /\ verification \in [Verifications -> [phase: {"idle", "found", "demoted", "stored", "crossed"}, user: Users,
                                         number: PhoneNumbers, free: BOOLEAN, seen: SUBSET PhoneNumbers]]
  /\ trust \in [Users -> [CheckTypes -> CheckStatus]]
  /\ inquiry \in [Inquiries -> [phase: CheckTypes \cup {"idle", "synced", "answered"}, user: Users,
                                want: [CheckTypes -> CheckStatus], writes: SUBSET CheckTypes]]
  /\ crossed \in SUBSET Users
  /\ muddled \in SUBSET Inquiries

(* A verification that succeeded gave its user the number, and whatever    *)
(* verifications overlap, a user with a number has exactly one primary     *)
(* number.  The exception of both is a user who found a number free while  *)
(* another user was storing it.                                            *)
PhonesAreOnes ==
  /\ \A v \in Verifications : verification[v].phase = "stored" =>
       owner[verification[v].number] = verification[v].user
  /\ \A n \in primary : owner[n] # Nobody
  /\ \A u \in Users \ crossed : PhonesOf(u) # {} => Cardinality(primary \cap PhonesOf(u)) = 1

(* The trust status answers what its request read, also where it left a    *)
(* check as it was; only another inquiry for the same user may interfere.  *)
AnswerShowsFacts ==
  \A t \in Inquiries \ muddled :
    inquiry[t].phase = "answered" => trust[inquiry[t].user] = inquiry[t].want
=============================================================================
