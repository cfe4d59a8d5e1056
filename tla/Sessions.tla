------------------------------ MODULE Sessions ------------------------------
(***************************************************************************)
(* Sessions and the single use of launch data (apps/api/src/auth/).  A     *)
(* session lives in two stores: its row in PostgreSQL and a key in Redis.  *)
(* Logins write the row and then the key, requests read the key and then   *)
(* the row, and a logout writes both at once, each of which may fail.      *)
(*                                                                         *)
(* All logins present one launch: claims of different launches have keys   *)
(* of their own.  Time counts half seconds, since the clock is read in     *)
(* whole seconds and Redis expires keys at finer times.  Redis keys and    *)
(* row expiry of a session come at the same time, hours later; SessionAges *)
(* stands for it.                                                          *)
(***************************************************************************)
EXTENDS Integers, FiniteSets

CONSTANTS
  Logins,     \* login requests, each with the session it may create
  Readers,    \* slots for authenticated requests
  LaunchEnds  \* the second of MaxInitData's expiresAt; the clock starts at 0

ASSUME SessionsAssumption == LaunchEnds \in Nat /\ Logins # {}

VARIABLES
  halves,    \* the clock, in half seconds
  claim,     \* half second at which the claim's key expires, 0 when absent
  login,     \* phase of each login, and second in which its claim was made
  row,       \* user_sessions row of each login
  key,       \* whether Redis holds the session's key
  reader,    \* authenticated requests in flight
  ended      \* sessions of which a half of a logout took effect

sessionsVars == <<halves, claim, login, row, key, reader, ended>>

Second == halves \div 2
LastHalf == 2 * LaunchEnds + 2
Claimed == claim # 0

(* verified: initData accepted; claimed: single use taken; created: row    *)
(* written; uncached: the key could not be written; failed: the catch      *)
(* block is due; done: the token was handed out; over: it was not.         *)
LoginPhases == {"new", "verified", "claimed", "created", "uncached", "failed", "done", "over"}

Idle == [phase |-> "idle", session |-> CHOOSE l \in Logins : TRUE, late |-> FALSE]
New == [phase |-> "new", ttl |-> 0, at |-> 0]

SessionsInit ==
  /\ halves = 0
  /\ claim = 0
  /\ login = [l \in Logins |-> New]
  /\ row = [l \in Logins |-> "none"]
  /\ key = [l \in Logins |-> FALSE]
  /\ reader = [q \in Readers |-> Idle]
  /\ ended = {}

-----------------------------------------------------------------------------
LoginTo(l, phase) == login' = [login EXCEPT ![l].phase = phase]
LoginOver(l) == login' = [login EXCEPT ![l] = [New EXCEPT !.phase = "over"]]

MaxTtl(a) == IF a > 1 THEN a ELSE 1
ClaimTtl == MaxTtl(LaunchEnds - Second)

(* Initdata is accepted to the end of the second expiresAt; the time to    *)
(* live of the claim is computed from the same reading of the clock.       *)
Verify(l) ==
  /\ login[l].phase = "new"
  /\ Second <= LaunchEnds
  /\ login' = [login EXCEPT ![l] = [phase |-> "verified", ttl |-> ClaimTtl, at |-> 0]]
  /\ UNCHANGED <<halves, claim, row, key, reader, ended>>

(* SET NX; a refused request ends outside the try block.                   *)
RefusedReleasing == claim' = 0
Refused == claim' = claim

ClaimLaunch(l) ==
  /\ login[l].phase = "verified"
  /\ \/ /\ ~Claimed
        /\ claim' = halves + 2 * login[l].ttl
        /\ login' = [login EXCEPT ![l] = [phase |-> "claimed", ttl |-> 0, at |-> Second]]
     \/ /\ Claimed
        /\ Refused
        /\ LoginOver(l)
  /\ UNCHANGED <<halves, row, key, reader, ended>>

(* The account is written and the row inserted, or one of them fails; an   *)
(* insert whose answer is lost leaves a row nobody has the token of.       *)
CreateRow(l) ==
  /\ login[l].phase = "claimed"
  /\ \/ row' = [row EXCEPT ![l] = "active"] /\ LoginTo(l, "created")
     \/ row' = [row EXCEPT ![l] = "active"] /\ LoginTo(l, "failed")
     \/ row' = row /\ LoginTo(l, "failed")
  /\ UNCHANGED <<halves, claim, key, reader, ended>>

(* The key is written and the token handed out (an audit event that cannot *)
(* be stored is only logged); or the command fails or times out, applied   *)
(* or not.                                                                 *)
CacheSession(l) ==
  /\ login[l].phase = "created"
  /\ \/ key' = [key EXCEPT ![l] = TRUE] /\ LoginTo(l, "done")
     \/ key' = [key EXCEPT ![l] = TRUE] /\ LoginTo(l, "uncached")
     \/ key' = key /\ LoginTo(l, "uncached")
  /\ UNCHANGED <<halves, claim, row, reader, ended>>

(* The row of a session without key is revoked if the database answers.    *)
RevokeUncached(l) ==
  /\ login[l].phase = "uncached"
  /\ row' \in {row, [row EXCEPT ![l] = "revoked"]}
  /\ LoginTo(l, "failed")
  /\ UNCHANGED <<halves, claim, key, reader, ended>>

(* The catch block gives the launch back, if Redis answers.                *)
ReleaseClaim(l) ==
  /\ login[l].phase = "failed"
  /\ claim' \in {claim, 0}
  /\ LoginOver(l)
  /\ UNCHANGED <<halves, row, key, reader, ended>>

LoginDies(l) ==
  /\ login[l].phase \in LoginPhases \ {"new", "done", "over"}
  /\ LoginOver(l)
  /\ UNCHANGED <<halves, claim, row, key, reader, ended>>

-----------------------------------------------------------------------------
ReaderTo(q, phase) == reader' = [reader EXCEPT ![q].phase = phase]
ReaderRests(q) == reader' = [reader EXCEPT ![q] = Idle]

(* resolveSession: the key first; without it the request is refused.       *)
FetchKey(q) ==
  /\ reader[q].phase = "idle"
  /\ \E l \in Logins :
       /\ login[l].phase = "done"
       /\ key[l]
       /\ reader' = [reader EXCEPT ![q] = [phase |-> "fetched", session |-> l, late |-> l \in ended]]
  /\ UNCHANGED <<halves, claim, login, row, key, ended>>

ActiveUnlessExpired(l) == row[l] \in {"active", "revoked"}
Active(l) == row[l] = "active"

(* Then the row: it decides, and the key of an inactive session goes.      *)
FindSession(q) ==
  /\ reader[q].phase = "fetched"
  /\ ReaderTo(q, IF Active(reader[q].session) THEN "accepted" ELSE "dropping")
  /\ UNCHANGED <<halves, claim, login, row, key, ended>>

DropKey(q) ==
  /\ reader[q].phase = "dropping"
  /\ key' = [key EXCEPT ![reader[q].session] = FALSE]
  /\ ReaderRests(q)
  /\ UNCHANGED <<halves, claim, login, row, ended>>

(* The two halves of a logout; the request waits for both.                 *)
BeginLogout(q) ==
  /\ reader[q].phase = "accepted"
  /\ ReaderTo(q, "leaving")
  /\ UNCHANGED <<halves, claim, login, row, key, ended>>

LogoutKey(q) ==
  /\ reader[q].phase \in {"leaving", "revoked"}
  /\ key' = [key EXCEPT ![reader[q].session] = FALSE]
  /\ ended' = ended \cup {reader[q].session}
  /\ IF reader[q].phase = "leaving" THEN ReaderTo(q, "keyless") ELSE ReaderRests(q)
  /\ UNCHANGED <<halves, claim, login, row>>

LogoutRow(q) ==
  /\ reader[q].phase \in {"leaving", "keyless"}
  /\ row' = [row EXCEPT ![reader[q].session] = IF @ = "active" THEN "revoked" ELSE @]
  /\ ended' = ended \cup {reader[q].session}
  /\ IF reader[q].phase = "leaving" THEN ReaderTo(q, "revoked") ELSE ReaderRests(q)
  /\ UNCHANGED <<halves, claim, login, key>>

(* The request is over: answered, failed in what was left to do, or dead.  *)
ReaderEnds(q) ==
  /\ reader[q].phase # "idle"
  /\ ReaderRests(q)
  /\ UNCHANGED <<halves, claim, login, row, key, ended>>

-----------------------------------------------------------------------------
Tick ==
  /\ halves < LastHalf
  /\ halves' = halves + 1
  /\ claim' = IF claim > halves' THEN claim ELSE 0
  /\ UNCHANGED <<login, row, key, reader, ended>>

(* Only the age of sessions somebody holds the token of is followed.       *)
SessionAges(l) ==
  /\ login[l].phase = "done"
  /\ row[l] \in {"active", "revoked"}
  /\ row' = [row EXCEPT ![l] = "expired"]
  /\ UNCHANGED <<halves, claim, login, key, reader, ended>>

KeyVanishes(l) ==
  /\ row[l] = "expired"
  /\ key[l]
  /\ key' = [key EXCEPT ![l] = FALSE]
  /\ UNCHANGED <<halves, claim, login, row, reader, ended>>

LoginStep(l) ==
  \/ Verify(l) \/ ClaimLaunch(l) \/ CreateRow(l) \/ CacheSession(l) \/ RevokeUncached(l)
  \/ ReleaseClaim(l) \/ LoginDies(l) \/ SessionAges(l) \/ KeyVanishes(l)

ReaderStep(q) ==
  \/ FetchKey(q) \/ FindSession(q) \/ DropKey(q) \/ BeginLogout(q) \/ LogoutKey(q)
  \/ LogoutRow(q) \/ ReaderEnds(q)

SessionsNext ==
  Tick \/ (\E l \in Logins : LoginStep(l)) \/ (\E q \in Readers : ReaderStep(q))

SessionsSpec == SessionsInit /\ [][SessionsNext]_sessionsVars

-----------------------------------------------------------------------------
(* The type invariant.                                                     *)
SessionsTypeOK ==
  /\ halves \in 0..LastHalf
  /\ claim \in Nat
  /\ login \in [Logins -> [phase: LoginPhases, ttl: Nat, at: Nat]]
  /\ row \in [Logins -> {"none", "active", "revoked", "expired"}]
  /\ key \in [Logins -> BOOLEAN]
  /\ reader \in [Readers -> [phase: {"idle", "fetched", "accepted", "dropping", "leaving", "keyless", "revoked"},
                             session: Logins, late: BOOLEAN]]
  /\ ended \in SUBSET Logins

(* A request that begins after either half of a logout took effect is      *)
(* never accepted, even when the other half failed or never ran.           *)
LogoutEndsSession ==
  \A q \in Readers : reader[q].phase \notin {"idle", "fetched", "dropping"} => ~reader[q].late

(* One launch gives one session, whatever logins overlap, fail, give the   *)
(* launch back or die; only a claim made from the second expiresAt on may  *)
(* find the earlier one gone.                                              *)
OneSessionPerLaunch ==
  Cardinality({l \in Logins : login[l].phase = "done" /\ login[l].at < LaunchEnds}) <= 1
=============================================================================
