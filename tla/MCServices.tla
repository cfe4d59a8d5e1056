----------------------------- MODULE MCServices -----------------------------
(***************************************************************************)
(* The services around the deal, each on a small instance of its own.      *)
(* They share no state, so one run checks them side by side: `part' is     *)
(* chosen in the initial state and only that part moves.  The bounds that  *)
(* differ from one part to another restrict the steps of a part, never     *)
(* what a step does.                                                       *)
(***************************************************************************)
EXTENDS SigningWithOtp, Sessions, StoredDocuments, TemplateVersions, Onboarding,
        Clarifications, DealMessages, DraftAutosave, DealPreparation

(* The steps below name an issue, a request and a verification.            *)
ASSUME InstanceAssumption == Issuers # {} /\ Requests # {} /\ Verifications # {}

VARIABLE part

Parts == {"codes", "signatures", "launches", "sessions", "documents", "templates",
          "phones", "trust", "clarifications", "messages", "drafts", "preparation"}

allVars == <<part, confirmVars, sessionsVars, documentVars, templateVars, onboardingVars,
             clarificationVars, messageVars, autosaveVars, preparationVars>>

OthersRest ==
  /\ part \notin {"codes", "signatures"} => UNCHANGED confirmVars
  /\ part \notin {"launches", "sessions"} => UNCHANGED sessionsVars
  /\ part # "documents" => UNCHANGED documentVars
  /\ part # "templates" => UNCHANGED templateVars
  /\ part \notin {"phones", "trust"} => UNCHANGED onboardingVars
  /\ part # "clarifications" => UNCHANGED clarificationVars
  /\ part # "messages" => UNCHANGED messageVars
  /\ part # "drafts" => UNCHANGED autosaveVars
  /\ part # "preparation" => UNCHANGED preparationVars
  /\ part' = part

ServicesInit ==
  /\ part \in Parts
  /\ ConfirmInit
  /\ SessionsInit
  /\ DocumentsInit
  /\ TemplatesInit
  /\ OnboardingInit
  /\ ClarificationsInit
  /\ MessagesInit
  /\ DraftsInit
  /\ PreparationInit /\ (part # "preparation" => form.step = "description")

SomeVersion == CHOOSE v \in CodeVersions : TRUE
SomeIssuer == CHOOSE i \in Issuers : TRUE
SomeRequest == CHOOSE r \in Requests : TRUE

(* One holder and one version are enough for races of codes.  Two issues   *)
(* overlap only when a verification of an earlier code gives the interval  *)
(* back, so a third code is drawn beside a single verification.            *)
CodesNext ==
  /\ \/ \E h \in Holders :
          \/ \E i \in Issuers : Claim(i, h, SomeVersion)
          \/ \E c \in Checkers : Fetch(c, h, SomeVersion)
          \/ ResendRunsOut(h) \/ CodeAges(h) \/ ChallengeVanishes(h)
     \/ \E i \in Issuers : IssueStep(i)
     \/ \E c \in Checkers : VerifyStep(c)
  /\ issued' > 2 => aged' = {} /\ \A c \in Checkers \ {SomeRequest} : checker'[c].phase = "idle"
  /\ UNCHANGED <<signingVars, asked>>

(* What a signature rests on: two codes, and two confirm requests at once  *)
(* with the first code, while it counts and the deal has its first version.*)
SignaturesNext ==
  /\ \/ DealChanges
     \/ \E p \in Parties : ReadForOtp(p) \/ IssueOtp(SomeIssuer, p)
     \/ \E r \in Requests : ConfirmStep(r)
     \/ KeysChange
  /\ issued' <= 2
  /\ \A r \in Requests \ {SomeRequest} : request'[r].phase # "idle" => version' = 1 /\ aged' = {} /\ issued' = 1

SomeLogin == CHOOSE l \in Logins : TRUE
LaunchesNext == Tick \/ \E l \in Logins : LoginStep(l)
ReadersNext == LoginStep(SomeLogin) \/ \E q \in Readers : ReaderStep(q)

(* The last version is drafted, published and archived, but not edited.    *)
AdminsNext == TemplatesNext /\ Editing(MaxTemplateVersions)' = {}

SomeUser == CHOOSE u \in Users : TRUE
SomeNumber == CHOOSE n \in PhoneNumbers : TRUE
SomeVerification == CHOOSE v \in Verifications : TRUE

PhonesNext ==
  \E v \in Verifications :
    VerificationStep(v) \/ \E u \in Users, n \in PhoneNumbers : FindPhone(v, u, n)

TrustNext ==
  \/ FindPhone(SomeVerification, SomeUser, SomeNumber)
  \/ VerificationStep(SomeVerification)
  \/ UpdateProfile(SomeUser)
  \/ \E t \in Inquiries : ReadFacts(t, SomeUser) \/ InquiryStep(t)

(* A save waits only while a write is left to store it; a form is submitted*)
(* while the draft was written at most once and no old page has a save out.*)
SavesNext ==
  /\ DraftsNext
  /\ draft'.stamp + Len(waiting') <= MaxWrites
  /\ submitted' # {} => draft'.stamp <= 1 /\ stray' = NoSaving

(* The two sides are alike, so the first one that is chosen is fixed.      *)
PreparesNext ==
  /\ PreparationNext
  /\ form.terms.party = "none" => form'.terms.party # "COUNTERPARTY"

ServicesNext ==
  /\ \/ part = "codes" /\ CodesNext
     \/ part = "signatures" /\ SignaturesNext
     \/ part = "launches" /\ LaunchesNext
     \/ part = "sessions" /\ ReadersNext
     \/ part = "documents" /\ DocumentsNext
     \/ part = "templates" /\ AdminsNext
     \/ part = "phones" /\ PhonesNext
     \/ part = "trust" /\ TrustNext
     \/ part = "clarifications" /\ ClarificationsNext
     \/ part = "messages" /\ MessagesNext
     \/ part = "drafts" /\ SavesNext
     \/ part = "preparation" /\ PreparesNext
  /\ OthersRest

ServicesSpec == ServicesInit /\ [][ServicesNext]_allVars

-----------------------------------------------------------------------------
(* The type invariant of the part that moves; they bound the attempts of a *)
(* code, the rounds of questions and the phases a request may be in.       *)
ServicesTypeOK ==
  /\ part = "signatures" => TypeOK
  /\ part \in {"codes", "signatures"} => OtpTypeOK
  /\ part \in {"launches", "sessions"} => SessionsTypeOK
  /\ part = "documents" => DocumentsTypeOK
  /\ part = "templates" => TemplatesTypeOK
  /\ part \in {"phones", "trust"} => OnboardingTypeOK
  /\ part = "clarifications" => ClarificationsTypeOK
  /\ part = "messages" => MessagesTypeOK
  /\ part = "drafts" => DraftsTypeOK
  /\ part = "preparation" => PreparationTypeOK
=============================================================================
