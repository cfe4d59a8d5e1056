--------------------------- MODULE ServicesProofs ---------------------------
(***************************************************************************)
(* Proofs about the services checked side by side (MCServices): a part     *)
(* that moves keeps its own inductive invariant, whichever part was chosen *)
(* and for every instance, not only for the one that is model-checked.     *)
(***************************************************************************)
EXTENDS MCServices, SigningProofs, AccountProofs, DocumentProofs, ClientProofs

ServicesInv ==
  /\ part \in {"codes", "signatures"} => OtpInv
  /\ part = "signatures" => IInv
  /\ part \in {"launches", "sessions"} => SessionsInv
  /\ part = "documents" => DocumentsInv
  /\ part = "templates" => TemplatesInv
  /\ part \in {"phones", "trust"} => OnboardingInv
  /\ part = "clarifications" => ClarificationsInv
  /\ part = "messages" => MessagesInv
  /\ part = "drafts" => DraftsInv
  /\ part = "preparation" => PreparationInv

-----------------------------------------------------------------------------
(* The steps that the parts restrict are steps of their modules.           *)

LEMMA CodesAreOtp == CodesNext => OtpNext
<1>1. SomeVersion \in CodeVersions
  BY SigningAssumption, CompositionAssumption DEF SomeVersion, Versions
<1> QED
  BY <1>1 DEF CodesNext, OtpNext, KeysOf

LEMMA SignaturesConfirm == SignaturesNext => ConfirmNext
<1>1. SomeRequest \in Requests /\ SomeIssuer \in Issuers
  BY InstanceAssumption DEF SomeRequest, SomeIssuer
<1> QED
  BY <1>1 DEF SignaturesNext, ConfirmNext

LEMMA LaunchesAreSessions == LaunchesNext \/ ReadersNext => SessionsNext
<1>1. SomeLogin \in Logins
  BY SessionsAssumption DEF SomeLogin
<1> QED
  BY <1>1 DEF LaunchesNext, ReadersNext, SessionsNext

LEMMA PhonesAreOnboarding == PhonesNext \/ TrustNext => OnboardingNext
<1>1. SomeUser \in Users /\ SomeNumber \in PhoneNumbers /\ SomeVerification \in Verifications
  BY OnboardingAssumption, InstanceAssumption DEF SomeUser, SomeNumber, SomeVerification
<1> QED
  BY <1>1 DEF PhonesNext, TrustNext, OnboardingNext, Of

-----------------------------------------------------------------------------
LEMMA ServicesInvInit == ServicesInit => ServicesInv
BY InvInit, OtpInvInit, SessionsInvInit, DocumentsInvInit, TemplatesInvInit, OnboardingInvInit,
   ClarificationsInvInit, MessagesInvInit, DraftsInvInit, PreparationStart
   DEF ServicesInit, ConfirmInit, ServicesInv

LEMMA ServicesInvNext == ASSUME ServicesInv, [ServicesNext]_allVars PROVE ServicesInv'
<1>1. part' = part
  BY DEF ServicesNext, OthersRest, allVars
<1>2. part = "codes" => [OtpNext]_otpVars
  BY CodesAreOtp DEF ServicesNext, allVars, confirmVars
<1>3. part = "signatures" => [ConfirmNext]_confirmVars
  BY SignaturesConfirm DEF ServicesNext, allVars
<1>4. part = "signatures" => [Next]_vars /\ [OtpNext]_otpVars
  BY <1>3, SigningStep, CodesStep DEF ServicesInv, IInv
<1>5. part \in {"launches", "sessions"} => [SessionsNext]_sessionsVars
  BY LaunchesAreSessions DEF ServicesNext, allVars
<1>6. part = "documents" => [DocumentsNext]_documentVars
  BY DEF ServicesNext, allVars
<1>7. part = "templates" => [TemplatesNext]_templateVars
  BY DEF ServicesNext, AdminsNext, allVars
<1>8. part \in {"phones", "trust"} => [OnboardingNext]_onboardingVars
  BY PhonesAreOnboarding DEF ServicesNext, allVars
<1>9. part = "clarifications" => [ClarificationsNext]_clarificationVars
  BY DEF ServicesNext, allVars
<1>10. part = "messages" => [MessagesNext]_messageVars
  BY DEF ServicesNext, allVars
<1>11. part = "drafts" => [DraftsNext]_autosaveVars
  BY DEF ServicesNext, SavesNext, allVars
<1>12. part = "preparation" => [PreparationNext]_preparationVars
  BY DEF ServicesNext, PreparesNext, allVars
<1>13. part \in {"codes", "signatures"} => OtpInv'
  BY <1>2, <1>4, OtpInvStep DEF ServicesInv
<1>14. part = "signatures" => IInv'
  BY <1>4, InvStep DEF ServicesInv
<1>15. part \in {"launches", "sessions"} => SessionsInv'
  BY <1>5, SessionsInvNext DEF ServicesInv
<1>16. /\ part = "documents" => DocumentsInv'
       /\ part = "templates" => TemplatesInv'
       /\ part = "clarifications" => ClarificationsInv'
  BY <1>6, <1>7, <1>9, DocumentsInvNext, TemplatesInvNext, ClarificationsInvNext DEF ServicesInv
<1>17. part \in {"phones", "trust"} => OnboardingInv'
  BY <1>8, OnboardingInvNext DEF ServicesInv
<1>18. /\ part = "messages" => MessagesInv'
       /\ part = "drafts" => DraftsInv'
  BY <1>10, <1>11, MessagesInvNext, DraftsInvNext DEF ServicesInv
<1>19. part = "preparation" => PreparationInv'
  BY <1>12, PreparationStep, PreparationStutters DEF ServicesInv
<1> QED
  BY <1>1, <1>13, <1>14, <1>15, <1>16, <1>17, <1>18, <1>19 DEF ServicesInv

(* Whichever service moves, its state keeps its types, and with them the   *)
(* bounds in them: of the attempts at a code, of the rounds of questions,  *)
(* of the stamps and of the keys that are drawn.                           *)
THEOREM ServicesTyping == ServicesSpec => []ServicesTypeOK
<1>1. ServicesInv => ServicesTypeOK
  BY DEF ServicesInv, ServicesTypeOK, IInv, OtpInv, SessionsInv, DocumentsInv, TemplatesInv, OnboardingInv,
         PhonesInv, ClarificationsInv, MessagesInv, DraftsInv, PreparationInv
<1> QED
  BY <1>1, ServicesInvInit, ServicesInvNext, PTL DEF ServicesSpec
=============================================================================
