-------------------------------- MODULE Otp --------------------------------
(***************************************************************************)
(* One-time codes for signing (apps/api/src/signing/otp.service.ts): the   *)
(* challenge, attempts and resend keys that Redis holds per deal and user. *)
(*                                                                         *)
(* A request makes one Redis call at a time and relies on what an earlier  *)
(* call returned; every call is a step.  Calls issued together             *)
(* (Promise.all) travel back to back on one connection and are one step.   *)
(* A code is the number of the issue that drew it: two draws are told      *)
(* apart, and 0 is whatever a person types that was never drawn.           *)
(***************************************************************************)
EXTENDS Integers, FiniteSets

CONSTANTS
  Holders,       \* the users of the deal, each with keys of its own
  CodeVersions,  \* deal versions a code may be asked for
  Issuers,       \* slots for issue requests in flight
  Checkers,      \* slots for verify requests in flight
  MaxTries,      \* OTP_MAX_ATTEMPTS
  MaxCodes       \* bound on issue requests

ASSUME OtpAssumption ==
  /\ Holders # {} /\ CodeVersions # {}
  /\ MaxTries \in Nat \ {0}
  /\ MaxCodes \in Nat

Codes == 1..MaxCodes

VARIABLES
  challenge,  \* the challenge key of each holder
  tries,      \* the attempts key of each holder, 0 when absent
  resend,     \* whether the resend key of each holder exists
  issued,     \* number of codes drawn so far
  issuer,     \* issue requests in flight
  checker,    \* verify requests in flight
  delivered,  \* codes that left for their holder
  accepted,   \* codes that verify accepted, as they were entered
  aged,       \* codes whose expiresAt has passed
  promised,   \* the holder's newest code once its issue returned, else 0
  overlap     \* the newest issue ran at the same time as another request

otpVars == <<challenge, tries, resend, issued, issuer, checker, delivered, accepted,
             aged, promised, overlap>>

NoChallenge == [code |-> 0, version |-> 0, sent |-> FALSE]
Challenge == {NoChallenge} \cup [code: Codes, version: CodeVersions, sent: BOOLEAN]
Code == [code: Codes, holder: Holders, version: CodeVersions]

Issuer == [phase: {"idle", "claimed", "cleared", "stored", "sent"},
           holder: Holders, version: CodeVersions, code: 0..MaxCodes]
Checker == [phase: {"idle", "fetched", "exceeded", "matched"},
            holder: Holders, version: CodeVersions, entered: 0..MaxCodes, seen: Challenge]

IdleIssuer == [phase |-> "idle", code |-> 0, holder |-> CHOOSE h \in Holders : TRUE,
               version |-> CHOOSE v \in CodeVersions : TRUE]
IdleChecker == [phase |-> "idle", entered |-> 0, seen |-> NoChallenge,
                holder |-> CHOOSE h \in Holders : TRUE, version |-> CHOOSE v \in CodeVersions : TRUE]

OtpInit ==
  /\ challenge = [h \in Holders |-> NoChallenge]
  /\ tries = [h \in Holders |-> 0]
  /\ resend = [h \in Holders |-> FALSE]
  /\ issued = 0
  /\ issuer = [i \in Issuers |-> IdleIssuer]
  /\ checker = [c \in Checkers |-> IdleChecker]
  /\ delivered = {}
  /\ accepted = {}
  /\ aged = {}
  /\ promised = [h \in Holders |-> 0]
  /\ overlap = [h \in Holders |-> FALSE]

-----------------------------------------------------------------------------
Issuing(h) == \E i \in Issuers : issuer[i].phase # "idle" /\ issuer[i].holder = h
Checking(h) == \E c \in Checkers : checker[c].phase # "idle" /\ checker[c].holder = h

Put(h, ch) == challenge' = [challenge EXCEPT ![h] = ch]
Drop(h) == Put(h, NoChallenge)
Clear(h) == tries' = [tries EXCEPT ![h] = 0]

IssuerTo(i, phase) == issuer' = [issuer EXCEPT ![i].phase = phase]

(* A slot at rest keeps nothing of the request it served.                  *)
IssuerEnds(i) == issuer' = [issuer EXCEPT ![i] = IdleIssuer]
CheckerRests(c) == checker' = [checker EXCEPT ![c] = IdleChecker]

(* Issue: the resend key admits one request per interval.                  *)
Admitted(h) == ~resend[h]

Claim(i, h, v) ==
  /\ issuer[i].phase = "idle"
  /\ Admitted(h)
  /\ issued < MaxCodes
  /\ issued' = issued + 1
  /\ resend' = [resend EXCEPT ![h] = TRUE]
  /\ issuer' = [issuer EXCEPT ![i] = [phase |-> "claimed", holder |-> h, version |-> v, code |-> issued + 1]]
  /\ promised' = [promised EXCEPT ![h] = 0]
  /\ overlap' = [overlap EXCEPT ![h] = Issuing(h) \/ Checking(h)]
  /\ UNCHANGED <<challenge, tries, checker, delivered, accepted, aged>>

ClearTries(i) ==
  /\ issuer[i].phase = "claimed"
  /\ Clear(issuer[i].holder)
  /\ IssuerTo(i, "cleared")
  /\ UNCHANGED <<challenge, resend, issued, checker, delivered, accepted, aged, promised, overlap>>

(* The challenge is stored before the code leaves, without a channel ...   *)
Store(i) ==
  /\ issuer[i].phase = "cleared"
  /\ Put(issuer[i].holder, [code |-> issuer[i].code, version |-> issuer[i].version, sent |-> FALSE])
  /\ IssuerTo(i, "stored")
  /\ UNCHANGED <<tries, resend, issued, checker, delivered, accepted, aged, promised, overlap>>

Deliver(i) ==
  LET q == issuer[i] IN
  /\ q.phase = "stored"
  /\ delivered' = delivered \cup {[code |-> q.code, holder |-> q.holder, version |-> q.version]}
  /\ IssuerTo(i, "sent")
  /\ UNCHANGED <<challenge, tries, resend, issued, checker, accepted, aged, promised, overlap>>

(* ... and again with its channel, over whatever the key holds by then.    *)
PublishedUnsent(q) == [code |-> q.code, version |-> q.version, sent |-> FALSE]
Published(q) == [code |-> q.code, version |-> q.version, sent |-> TRUE]

Publish(i) ==
  LET q == issuer[i] IN
  /\ q.phase = "sent"
  /\ Put(q.holder, Published(q))
  /\ promised' = [promised EXCEPT ![q.holder] = q.code]
  /\ IssuerEnds(i)
  /\ UNCHANGED <<tries, resend, issued, checker, delivered, accepted, aged, overlap>>

(* The catch block: the send failed, was refused, or timed out although    *)
(* the code left; or the second write failed.                              *)
Undo(i) ==
  /\ issuer[i].phase \in {"stored", "sent"}
  /\ Drop(issuer[i].holder)
  /\ resend' = [resend EXCEPT ![issuer[i].holder] = FALSE]
  /\ IssuerEnds(i)
  /\ UNCHANGED <<tries, issued, checker, delivered, accepted, aged, promised, overlap>>

(* A Redis error before the try block, or the death of the process.        *)
IssuerDies(i) ==
  /\ issuer[i].phase # "idle"
  /\ IssuerEnds(i)
  /\ UNCHANGED <<challenge, tries, resend, issued, checker, delivered, accepted, aged, promised, overlap>>

-----------------------------------------------------------------------------
(* Verify: the challenge is read once; a missing one, or one for another   *)
(* version, ends the request without a change.                             *)
Fetch(c, h, v) ==
  /\ checker[c].phase = "idle"
  /\ challenge[h] # NoChallenge
  /\ challenge[h].version = v
  /\ \E entered \in {0} \cup {d.code : d \in {e \in delivered : e.holder = h}} :
       checker' = [checker EXCEPT ![c] =
         [phase |-> "fetched", holder |-> h, version |-> v, entered |-> entered, seen |-> challenge[h]]]
  /\ overlap' = [overlap EXCEPT ![h] = @ \/ Issuing(h)]
  /\ UNCHANGED <<challenge, tries, resend, issued, issuer, delivered, accepted, aged, promised>>

(* It has expired: the key is deleted, whichever challenge it holds by now. *)
DropAged(c) ==
  /\ checker[c].phase = "fetched"
  /\ checker[c].seen.code \in aged
  /\ Drop(checker[c].holder)
  /\ CheckerRests(c)
  /\ UNCHANGED <<tries, resend, issued, issuer, delivered, accepted, aged, promised, overlap>>

MatchesAnyBlank(q) == q.entered \in {0, q.seen.code}
Matches(q) == q.entered = q.seen.code
OverLimit(n) == n > MaxTries
LastTry(n) == n >= MaxTries

(* INCR, then the limit, then the comparison of the digests, then the      *)
(* channel.  An attempt beyond the limit is not told from the next one.    *)
CountTry(c) ==
  LET q == checker[c]
      n == tries[q.holder] + 1
      to(phase) == checker' = [checker EXCEPT ![c].phase = phase] IN
  /\ q.phase = "fetched"
  /\ q.seen.code \notin aged
  /\ tries' = [tries EXCEPT ![q.holder] = IF n > MaxTries + 1 THEN @ ELSE n]
  /\ \/ (OverLimit(n) \/ (~Matches(q) /\ LastTry(n))) /\ to("exceeded")
     \/ ~OverLimit(n) /\ ~Matches(q) /\ ~LastTry(n) /\ CheckerRests(c)
     \/ ~OverLimit(n) /\ Matches(q) /\ ~q.seen.sent /\ CheckerRests(c)
     \/ ~OverLimit(n) /\ Matches(q) /\ q.seen.sent /\ to("matched")
  /\ UNCHANGED <<challenge, resend, issued, issuer, delivered, accepted, aged, promised, overlap>>

DropExceeded(c) ==
  /\ checker[c].phase = "exceeded"
  /\ Drop(checker[c].holder)
  /\ CheckerRests(c)
  /\ UNCHANGED <<tries, resend, issued, issuer, delivered, accepted, aged, promised, overlap>>

(* The three keys go together, and the caller has its proof.               *)
Accept(c) ==
  LET q == checker[c] IN
  /\ q.phase = "matched"
  /\ Drop(q.holder)
  /\ Clear(q.holder)
  /\ resend' = [resend EXCEPT ![q.holder] = FALSE]
  /\ accepted' = accepted \cup {[code |-> q.entered, holder |-> q.holder, version |-> q.version]}
  /\ CheckerRests(c)
  /\ UNCHANGED <<issued, issuer, delivered, aged, promised, overlap>>

CheckerDies(c) ==
  /\ checker[c].phase # "idle"
  /\ CheckerRests(c)
  /\ UNCHANGED <<challenge, tries, resend, issued, issuer, delivered, accepted, aged, promised, overlap>>

-----------------------------------------------------------------------------
(* Time.  The resend interval is longer than any send may take, so the key *)
(* outlives the request that set it.                                       *)
ResendRunsOut(h) ==
  /\ resend[h]
  /\ ~Issuing(h)
  /\ resend' = [resend EXCEPT ![h] = FALSE]
  /\ UNCHANGED <<challenge, tries, issued, issuer, checker, delivered, accepted, aged, promised, overlap>>

CodeAges(h) ==
  /\ challenge[h] # NoChallenge
  /\ challenge[h].code \notin aged
  /\ aged' = aged \cup {challenge[h].code}
  /\ UNCHANGED <<challenge, tries, resend, issued, issuer, checker, delivered, accepted, promised, overlap>>

ChallengeVanishes(h) ==
  /\ challenge[h].code \in aged
  /\ Drop(h)
  /\ UNCHANGED <<tries, resend, issued, issuer, checker, delivered, accepted, aged, promised, overlap>>

-----------------------------------------------------------------------------
IssueStep(i) ==
  ClearTries(i) \/ Store(i) \/ Deliver(i) \/ Publish(i) \/ Undo(i) \/ IssuerDies(i)

VerifyStep(c) == DropAged(c) \/ CountTry(c) \/ DropExceeded(c) \/ Accept(c) \/ CheckerDies(c)

KeysOf(h) ==
  \/ \E i \in Issuers, v \in CodeVersions : Claim(i, h, v)
  \/ \E c \in Checkers, v \in CodeVersions : Fetch(c, h, v)
  \/ ResendRunsOut(h) \/ CodeAges(h) \/ ChallengeVanishes(h)

OtpNext ==
  \/ \E h \in Holders : KeysOf(h)
  \/ \E i \in Issuers : IssueStep(i)
  \/ \E c \in Checkers : VerifyStep(c)

OtpSpec == OtpInit /\ [][OtpNext]_otpVars

-----------------------------------------------------------------------------
(* The type invariant; the counter stops one above the limit.              *)
OtpTypeOK ==
  /\ challenge \in [Holders -> Challenge]
  /\ tries \in [Holders -> 0..(MaxTries + 1)]
  /\ resend \in [Holders -> BOOLEAN]
  /\ issued \in 0..MaxCodes
  /\ issuer \in [Issuers -> Issuer]
  /\ checker \in [Checkers -> Checker]
  /\ delivered \in SUBSET Code
  /\ accepted \in SUBSET [code: 0..MaxCodes, holder: Holders, version: CodeVersions]
  /\ aged \in SUBSET Codes
  /\ promised \in [Holders -> 0..MaxCodes]
  /\ overlap \in [Holders -> BOOLEAN]

(* A code whose issue answered is the one that verify will accept, unless  *)
(* it was used, expired or had its tries: whatever other verifications     *)
(* overlap and wherever a request dies, it takes another issue, or a       *)
(* verification begun under an earlier code, to lose it.                   *)
DeliveredCodeWorks ==
  \A h \in Holders :
    (/\ promised[h] # 0
     /\ ~overlap[h]
     /\ promised[h] \notin aged \cup {a.code : a \in accepted}
     /\ tries[h] < MaxTries)
    => challenge[h].code = promised[h] /\ challenge[h].sent
=============================================================================
