--------------------------- MODULE SigningWithOtp ---------------------------
(***************************************************************************)
(* Signing composed with the one-time codes it relies on: the step that    *)
(* Signing calls VerifyOtp becomes the Redis calls of otp.verify, and      *)
(* issueOtp (signing.service.ts) asks for codes for the current version.   *)
(* A confirm request and its verification are the same request, so the     *)
(* checkers of Otp are the requests of Signing.                            *)
(***************************************************************************)
EXTENDS Signing, Otp

ASSUME CompositionAssumption ==
  /\ Holders = Parties
  /\ CodeVersions = Versions
  /\ Checkers = Requests

VARIABLE asked  \* <<party, version>> of issue requests that read the deal

signingVars == vars
confirmVars == <<vars, otpVars, asked>>

ConfirmInit == Init /\ OtpInit /\ asked = {}

(* issueOtp: the current version is open for signing and its holder has    *)
(* not signed it.  The deal may move on before the code is asked for, and  *)
(* a request that read it may come to that at any time, or never.          *)
ReadForOtp(p) ==
  /\ status \in SigningOpen
  /\ p \notin SignersOf(version)
  /\ asked' = asked \cup {<<p, version>>}
  /\ UNCHANGED <<signingVars, otpVars>>

IssueOtp(i, p) ==
  /\ \E v \in CodeVersions : <<p, v>> \in asked /\ Claim(i, p, v)
  /\ UNCHANGED <<signingVars, asked>>

BeginVerify(r) ==
  /\ request[r].phase = "loaded"
  /\ Fetch(r, request[r].party, request[r].version)
  /\ UNCHANGED <<signingVars, asked>>

(* No challenge, or one for another version: the request is refused.       *)
NothingToVerify(r) ==
  /\ request[r].phase = "loaded"
  /\ checker[r].phase = "idle"
  /\ challenge[request[r].party].version # request[r].version
  /\ Fail(r)
  /\ UNCHANGED <<otpVars, asked>>

(* A verification that ends without accepting ends its request.            *)
Verifying(r) ==
  /\ DropAged(r) \/ CountTry(r) \/ DropExceeded(r)
  /\ IF checker'[r].phase = "idle" THEN Fail(r) ELSE UNCHANGED signingVars
  /\ UNCHANGED asked

AcceptAndGoOn(r) == Accept(r) /\ VerifyOtp(r) /\ UNCHANGED asked

Dies(r) ==
  /\ Fail(r)
  /\ IF checker[r].phase = "idle" THEN UNCHANGED otpVars ELSE CheckerDies(r)
  /\ UNCHANGED asked

(* The rest of confirm knows nothing of the keys.                          *)
Elsewhere(r) ==
  /\ \/ Load(r) \/ FindExisting(r) \/ InsertAndCount(r) \/ Commit(r) \/ ReadState(r)
     \/ EnsureFinalPdf(r) \/ EnsureEvidencePackage(r) \/ Complete(r)
  /\ UNCHANGED <<otpVars, asked>>

KeysChange ==
  /\ \/ \E i \in Issuers : IssueStep(i)
     \/ \E h \in Holders : ResendRunsOut(h) \/ CodeAges(h) \/ ChallengeVanishes(h)
  /\ UNCHANGED <<signingVars, asked>>

ConfirmStep(r) ==
  \/ BeginVerify(r) \/ NothingToVerify(r) \/ Verifying(r) \/ AcceptAndGoOn(r)
  \/ Dies(r) \/ Elsewhere(r)

DealChanges == (NewVersion \/ AllApproved) /\ UNCHANGED <<otpVars, asked>>

ConfirmNext ==
  \/ DealChanges
  \/ \E p \in Parties : ReadForOtp(p) \/ \E i \in Issuers : IssueOtp(i, p)
  \/ \E r \in Requests : ConfirmStep(r)
  \/ KeysChange

ConfirmSpec == ConfirmInit /\ [][ConfirmNext]_confirmVars

-----------------------------------------------------------------------------
(* Every signature was confirmed by a code that was sent to its signer for *)
(* exactly that version, whatever codes, versions and requests overlap.    *)
SignatureHasCode ==
  \A s \in signatures :
    \E d \in delivered \cap accepted : d.holder = s.party /\ d.version = s.version
=============================================================================
