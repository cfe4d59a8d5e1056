---------------------------- MODULE AccountProofs ---------------------------
(***************************************************************************)
(* Proofs about the account of a user: Sessions, for any number of logins, *)
(* of requests in flight and any end of the launch data, and Onboarding,   *)
(* for any users, numbers and requests in flight.                          *)
(***************************************************************************)
EXTENDS Sessions, Onboarding, FiniteSetTheorems, TLAPS

-----------------------------------------------------------------------------
(* Sessions.                                                               *)

(* A login that claimed the launch before its last second, and was not     *)
(* refused and has not given the launch back.                              *)
Holding == {"claimed", "created", "uncached", "failed", "done"}
Early == {l \in Logins : login[l].phase \in Holding /\ login[l].at < LaunchEnds}

(* A half of a logout leaves a session that is dead in one of its stores,  *)
(* and nothing puts either back.                                           *)
LogoutLasts ==
  /\ \A l \in ended : login[l].phase = "done" /\ (key[l] => row[l] # "active")
  /\ \A q \in Readers :
       /\ reader[q].phase # "idle" => login[reader[q].session].phase = "done"
       /\ reader[q].phase = "fetched" /\ reader[q].late => row[reader[q].session] # "active"

(* A claim made before the last second lasts until then, since its time to *)
(* live was computed no later than it was made.                            *)
ClaimLasts ==
  /\ \A l \in Logins : login[l].phase \in Holding => 2 * login[l].at <= halves
  /\ \A l \in Logins : login[l].phase = "verified" => halves + 2 * login[l].ttl >= 2 * LaunchEnds
  /\ \A l, m \in Early : l = m
  /\ Early # {} /\ halves < 2 * LaunchEnds => claim >= 2 * LaunchEnds

SessionsInv == SessionsTypeOK /\ LogoutLasts /\ ClaimLasts /\ LogoutEndsSession

Login == [phase: LoginPhases, ttl: Nat, at: Nat]
Reader == [phase: {"idle", "fetched", "accepted", "dropping", "leaving", "keyless", "revoked"},
           session: Logins, late: BOOLEAN]
RowStatus == {"none", "active", "revoked", "expired"}

-----------------------------------------------------------------------------
LEMMA SecondIsHalf ==
  ASSUME halves \in Nat
  PROVE  Second \in Nat /\ 2 * Second <= halves /\ halves <= 2 * Second + 1
BY DEF Second

LEMMA ClaimTtlReaches ==
  ASSUME halves \in Nat
  PROVE  ClaimTtl \in Nat /\ halves + 2 * ClaimTtl >= 2 * LaunchEnds
BY SecondIsHalf, SessionsAssumption DEF ClaimTtl, MaxTtl

LEMMA RestTypes ==
  /\ Idle \in Reader /\ Idle.phase = "idle"
  /\ New \in Login /\ New.phase = "new"
BY SessionsAssumption DEF Idle, Reader, New, Login, LoginPhases

LEMMA SessionsInvInit == SessionsInit => SessionsInv
<1> SUFFICES ASSUME SessionsInit PROVE SessionsInv
  OBVIOUS
<1>1. LastHalf \in Nat /\ 0 \in 0..LastHalf
  BY SessionsAssumption DEF LastHalf
<1>2. SessionsTypeOK
  BY <1>1, RestTypes DEF SessionsInit, SessionsTypeOK, Login, Reader
<1>3. /\ \A l \in Logins : login[l].phase = "new"
      /\ \A q \in Readers : reader[q].phase = "idle"
      /\ ended = {}
  BY RestTypes DEF SessionsInit
<1>4. Early = {}
  BY <1>3 DEF Early, Holding
<1> QED
  BY <1>2, <1>3, <1>4 DEF SessionsInv, LogoutLasts, ClaimLasts, LogoutEndsSession, Holding

-----------------------------------------------------------------------------
(* Steps.  Logins move alone, and no step takes a session that was handed  *)
(* out back.                                                               *)

LEMMA LoginMoves ==
  ASSUME SessionsInv, NEW l \in Logins, NEW q \in Login,
         login' = [login EXCEPT ![l] = q],
         login[l].phase # "done",
         UNCHANGED <<halves, reader, ended>>,
         row' \in [Logins -> RowStatus], key' \in [Logins -> BOOLEAN], claim' \in Nat,
         \A m \in Logins \ {l} : row'[m] = row[m] /\ key'[m] = key[m],
         ClaimLasts'
  PROVE  SessionsInv'
<1>0. SessionsTypeOK /\ login \in [Logins -> Login]
  BY DEF SessionsInv, SessionsTypeOK, Login
<1>1. SessionsTypeOK'
  BY <1>0 DEF SessionsTypeOK, Login, RowStatus
<1>2. \A m \in Logins \ {l} : login'[m] = login[m]
  BY <1>0
<1>3. l \notin ended /\ \A r \in Readers : reader[r].phase # "idle" => reader[r].session # l
  BY DEF SessionsInv, LogoutLasts
<1>4. LogoutLasts'
  <2>1. ended \subseteq Logins /\ \A r \in Readers : reader[r].session \in Logins
    BY <1>0 DEF SessionsTypeOK
  <2> QED
    BY <1>2, <1>3, <2>1 DEF SessionsInv, LogoutLasts
<1>5. LogoutEndsSession'
  BY DEF SessionsInv, LogoutEndsSession
<1> QED
  BY <1>1, <1>4, <1>5 DEF SessionsInv

(* A login that leaves the claim alone and does not come to hold it.       *)
LEMMA ClaimUntouched ==
  ASSUME SessionsInv, NEW l \in Logins, NEW q \in Login,
         login' = [login EXCEPT ![l] = q],
         UNCHANGED <<halves, claim>>,
         q.phase = "verified" => halves + 2 * q.ttl >= 2 * LaunchEnds,
         q.phase \in Holding => login[l].phase \in Holding /\ q.at = login[l].at
  PROVE  ClaimLasts'
<1>1. login'[l] = q /\ \A m \in Logins \ {l} : login'[m] = login[m]
  BY DEF SessionsInv, SessionsTypeOK
<1>2. Early' \subseteq Early
  BY <1>1 DEF Early
<1>3. \A m \in Logins : login'[m].phase = "verified" => halves' + 2 * login'[m].ttl >= 2 * LaunchEnds
  BY <1>1 DEF SessionsInv, ClaimLasts
<1>4. \A m, n \in Early' : m = n
  BY <1>2 DEF SessionsInv, ClaimLasts
<1>5. \A m \in Logins : login'[m].phase \in Holding => 2 * login'[m].at <= halves'
  BY <1>1 DEF SessionsInv, ClaimLasts
<1> QED
  BY <1>2, <1>3, <1>4, <1>5 DEF SessionsInv, ClaimLasts

LEMMA LoginPhaseKeepsInv ==
  ASSUME SessionsInv, NEW l \in Logins, NEW phase \in LoginPhases \ {"new", "verified"},
         LoginTo(l, phase),
         login[l].phase \in Holding \ {"done"},
         UNCHANGED <<halves, claim, reader, ended>>,
         row' \in [Logins -> RowStatus], key' \in [Logins -> BOOLEAN],
         \A m \in Logins \ {l} : row'[m] = row[m] /\ key'[m] = key[m]
  PROVE  SessionsInv'
<1> DEFINE q == [login[l] EXCEPT !.phase = phase]
<1>1. login[l] \in Login /\ claim \in Nat
  BY DEF SessionsInv, SessionsTypeOK, Login
<1>2. q \in Login /\ q.phase = phase /\ q.at = login[l].at
  BY <1>1 DEF Login
<1>3. login' = [login EXCEPT ![l] = q]
  BY DEF LoginTo
<1> HIDE DEF q
<1>4. ClaimLasts'
  BY <1>2, <1>3, ClaimUntouched
<1> QED
  BY <1>1, <1>2, <1>3, <1>4, LoginMoves DEF Holding

LEMMA OverType ==
  ASSUME NEW l \in Logins
  PROVE  [New EXCEPT !.phase = "over"] \in Login /\ [New EXCEPT !.phase = "over"].phase = "over"
BY DEF New, Login, LoginPhases

LEMMA VerifyKeepsInv ==
  ASSUME SessionsInv, NEW l \in Logins, Verify(l) PROVE SessionsInv'
<1> DEFINE q == [phase |-> "verified", ttl |-> ClaimTtl, at |-> 0]
<1>0. SessionsTypeOK /\ halves \in Nat
  BY DEF SessionsInv, SessionsTypeOK
<1>1. q \in Login /\ q.phase = "verified" /\ halves + 2 * q.ttl >= 2 * LaunchEnds
  BY <1>0, ClaimTtlReaches DEF Login, LoginPhases
<1>2. login' = [login EXCEPT ![l] = q]
  BY DEF Verify
<1> HIDE DEF q
<1>3. ClaimLasts'
  BY <1>1, <1>2, ClaimUntouched DEF Verify, Holding
<1> QED
  BY <1>0, <1>1, <1>2, <1>3, LoginMoves DEF Verify, SessionsTypeOK, RowStatus

LEMMA ClaimLaunchKeepsInv ==
  ASSUME SessionsInv, NEW l \in Logins, ClaimLaunch(l) PROVE SessionsInv'
<1>0. SessionsTypeOK /\ halves \in Nat /\ claim \in Nat /\ login[l] \in Login /\ Second \in Nat
  BY SecondIsHalf DEF SessionsInv, SessionsTypeOK, Login
<1>1. CASE ~Claimed /\ claim' = halves + 2 * login[l].ttl
           /\ login' = [login EXCEPT ![l] = [phase |-> "claimed", ttl |-> 0, at |-> Second]]
  <2> DEFINE q == [phase |-> "claimed", ttl |-> 0, at |-> Second]
  <2>1. q \in Login /\ q.phase = "claimed" /\ q.at = Second
    BY <1>0 DEF Login, LoginPhases
  <2>2. login'[l] = q /\ \A m \in Logins \ {l} : login'[m] = login[m]
    BY <1>0, <1>1 DEF SessionsTypeOK
  <2>3. claim' \in Nat /\ claim' >= 2 * LaunchEnds
    BY <1>0, <1>1 DEF SessionsInv, ClaimLasts, ClaimLaunch, Login
  <2>4. halves' = halves
    BY DEF ClaimLaunch
  <2>5. l \notin Early
    BY DEF Early, Holding, ClaimLaunch
  <2>6. Second < LaunchEnds => Early = {}
    <3>1. SUFFICES ASSUME Second < LaunchEnds, Early # {} PROVE FALSE
      OBVIOUS
    <3>2. halves < 2 * LaunchEnds
      BY <1>0, <3>1, SecondIsHalf, SessionsAssumption
    <3>3. claim >= 2 * LaunchEnds
      BY <3>1, <3>2 DEF SessionsInv, ClaimLasts
    <3> QED
      BY <1>0, <1>1, <3>2, <3>3, SessionsAssumption DEF Claimed
  <2>7. ClaimLasts'
    <3>1. \A m, n \in Early' : m = n
      <4>1. CASE Second < LaunchEnds
        BY <2>2, <2>6, <4>1 DEF Early
      <4>2. CASE ~(Second < LaunchEnds)
        <5>1. Early' \subseteq Early
          BY <2>1, <2>2, <4>2 DEF Early
        <5> QED
          BY <5>1 DEF SessionsInv, ClaimLasts
      <4> QED
        BY <4>1, <4>2
    <3>2. \A m \in Logins : login'[m].phase = "verified" => halves' + 2 * login'[m].ttl >= 2 * LaunchEnds
      BY <2>1, <2>2, <2>4 DEF SessionsInv, ClaimLasts
    <3>3. \A m \in Logins : login'[m].phase \in Holding => 2 * login'[m].at <= halves'
      BY <1>0, <2>1, <2>2, <2>4, SecondIsHalf DEF SessionsInv, ClaimLasts
    <3> QED
      BY <2>3, <3>1, <3>2, <3>3 DEF ClaimLasts
  <2> HIDE DEF q
  <2>8. login' = [login EXCEPT ![l] = q]
    BY <1>1 DEF q
  <2> QED
    BY <1>0, <2>1, <2>3, <2>7, <2>8, LoginMoves DEF ClaimLaunch, SessionsTypeOK, RowStatus
<1>2. CASE Refused /\ LoginOver(l)
  <2>1. ClaimLasts'
    BY <1>2, OverType, ClaimUntouched DEF Refused, LoginOver, ClaimLaunch, Holding
  <2> QED
    BY <1>0, <1>2, <2>1, OverType, LoginMoves
       DEF Refused, LoginOver, ClaimLaunch, SessionsTypeOK, RowStatus
<1> QED
  BY <1>1, <1>2 DEF ClaimLaunch

LEMMA ReleaseKeepsInv ==
  ASSUME SessionsInv, NEW l \in Logins, ReleaseClaim(l) PROVE SessionsInv'
<1> DEFINE q == [New EXCEPT !.phase = "over"]
<1>0. SessionsTypeOK /\ halves \in Nat /\ claim \in Nat /\ login[l] \in Login
  BY DEF SessionsInv, SessionsTypeOK, Login
<1>1. q \in Login /\ q.phase = "over" /\ login' = [login EXCEPT ![l] = q]
  BY OverType DEF ReleaseClaim, LoginOver
<1> HIDE DEF q
<1>2. login'[l] = q /\ \A m \in Logins \ {l} : login'[m] = login[m]
  BY <1>0, <1>1 DEF SessionsTypeOK
<1>3. Early' \subseteq Early \ {l}
  BY <1>1, <1>2 DEF Early, Holding
<1>4. ClaimLasts'
  <2>1. \A m, n \in Early' : m = n
    BY <1>3 DEF SessionsInv, ClaimLasts
  <2>2. \A m \in Logins : login'[m].phase = "verified" => halves' + 2 * login'[m].ttl >= 2 * LaunchEnds
    BY <1>1, <1>2 DEF SessionsInv, ClaimLasts, ReleaseClaim
  <2>6. \A m \in Logins : login'[m].phase \in Holding => 2 * login'[m].at <= halves'
    BY <1>1, <1>2 DEF SessionsInv, ClaimLasts, ReleaseClaim, Holding
  <2>3. CASE login[l].at < LaunchEnds
    <3>1. l \in Early
      BY <2>3 DEF Early, Holding, ReleaseClaim
    <3>2. Early' = {}
      BY <1>3, <3>1 DEF SessionsInv, ClaimLasts
    <3> QED
      BY <2>1, <2>2, <2>6, <3>2 DEF ClaimLasts
  <2>4. CASE claim' = claim
    BY <1>3, <2>1, <2>2, <2>4, <2>6 DEF SessionsInv, ClaimLasts, ReleaseClaim
  <2>5. CASE login[l].at >= LaunchEnds /\ claim' = 0
    <3>1. halves >= 2 * LaunchEnds
      BY <1>0, <2>5, SessionsAssumption DEF SessionsInv, ClaimLasts, ReleaseClaim, Holding, Login
    <3> QED
      BY <1>0, <2>1, <2>2, <2>6, <3>1, SessionsAssumption DEF ClaimLasts, ReleaseClaim
  <2> QED
    BY <1>0, <2>3, <2>4, <2>5, SessionsAssumption DEF Login, ReleaseClaim
<1>5. claim' \in Nat /\ row' \in [Logins -> RowStatus] /\ key' \in [Logins -> BOOLEAN]
  BY <1>0 DEF ReleaseClaim, SessionsTypeOK, RowStatus
<1> QED
  BY <1>1, <1>4, <1>5, LoginMoves DEF ReleaseClaim

LEMMA CreateRowKeepsInv ==
  ASSUME SessionsInv, NEW l \in Logins, CreateRow(l) PROVE SessionsInv'
<1>0. row \in [Logins -> RowStatus] /\ key \in [Logins -> BOOLEAN]
  BY DEF SessionsInv, SessionsTypeOK, RowStatus
<1>1. PICK phase \in {"created", "failed"} : LoginTo(l, phase)
  BY DEF CreateRow
<1>3. phase \in LoginPhases \ {"new", "verified"}
  BY DEF LoginPhases
<1>2. row' \in [Logins -> RowStatus] /\ \A m \in Logins \ {l} : row'[m] = row[m]
  BY <1>0 DEF CreateRow, RowStatus
<1> QED
  BY <1>0, <1>1, <1>2, <1>3, LoginPhaseKeepsInv DEF CreateRow, Holding

LEMMA CacheSessionKeepsInv ==
  ASSUME SessionsInv, NEW l \in Logins, CacheSession(l) PROVE SessionsInv'
<1>0. row \in [Logins -> RowStatus] /\ key \in [Logins -> BOOLEAN]
  BY DEF SessionsInv, SessionsTypeOK, RowStatus
<1>1. PICK phase \in {"done", "uncached"} : LoginTo(l, phase)
  BY DEF CacheSession
<1>2. key' \in [Logins -> BOOLEAN] /\ \A m \in Logins \ {l} : key'[m] = key[m]
  BY <1>0 DEF CacheSession
<1> QED
  BY <1>0, <1>1, <1>2, LoginPhaseKeepsInv DEF CacheSession, LoginPhases, Holding

LEMMA RevokeUncachedKeepsInv ==
  ASSUME SessionsInv, NEW l \in Logins, RevokeUncached(l) PROVE SessionsInv'
<1>0. row \in [Logins -> RowStatus] /\ key \in [Logins -> BOOLEAN]
  BY DEF SessionsInv, SessionsTypeOK, RowStatus
<1>1. row' \in [Logins -> RowStatus] /\ \A m \in Logins \ {l} : row'[m] = row[m]
  BY <1>0 DEF RevokeUncached, RowStatus
<1> QED
  BY <1>0, <1>1, LoginPhaseKeepsInv DEF RevokeUncached, LoginPhases, Holding

LEMMA LoginDiesKeepsInv ==
  ASSUME SessionsInv, NEW l \in Logins, LoginDies(l) PROVE SessionsInv'
<1>0. SessionsTypeOK
  BY DEF SessionsInv
<1>1. ClaimLasts'
  BY OverType, ClaimUntouched DEF LoginOver, LoginDies, Holding
<1> QED
  BY <1>0, <1>1, OverType, LoginMoves DEF LoginOver, LoginDies, SessionsTypeOK, RowStatus

(* Steps that leave every login, the clock and the claim where they are.   *)
LEMMA OthersKeepInv ==
  ASSUME SessionsInv, UNCHANGED <<halves, claim, login>>,
         SessionsTypeOK', LogoutLasts', LogoutEndsSession'
  PROVE  SessionsInv'
<1>1. Early' = Early
  BY DEF Early
<1>2. ClaimLasts'
  BY <1>1 DEF SessionsInv, ClaimLasts
<1> QED
  BY <1>2 DEF SessionsInv

LEMMA SessionAgesKeepsInv ==
  ASSUME SessionsInv, NEW l \in Logins, SessionAges(l) PROVE SessionsInv'
<1>1. SessionsTypeOK'
  BY DEF SessionsInv, SessionsTypeOK, SessionAges
<1>2. \A m \in Logins : row'[m] = "active" => row[m] = "active"
  BY DEF SessionsInv, SessionsTypeOK, SessionAges
<1>3. LogoutLasts'
  BY <1>2 DEF SessionsInv, SessionsTypeOK, LogoutLasts, SessionAges
<1> QED
  BY <1>1, <1>3, OthersKeepInv DEF SessionAges, SessionsInv, LogoutEndsSession

LEMMA KeyVanishesKeepsInv ==
  ASSUME SessionsInv, NEW l \in Logins, KeyVanishes(l) PROVE SessionsInv'
<1>1. SessionsTypeOK'
  BY DEF SessionsInv, SessionsTypeOK, KeyVanishes
<1>2. \A m \in Logins : key'[m] => key[m]
  BY DEF SessionsInv, SessionsTypeOK, KeyVanishes
<1>3. LogoutLasts'
  BY <1>2 DEF SessionsInv, SessionsTypeOK, LogoutLasts, KeyVanishes
<1> QED
  BY <1>1, <1>3, OthersKeepInv DEF KeyVanishes, SessionsInv, LogoutEndsSession

LEMMA TickKeepsInv ==
  ASSUME SessionsInv, Tick PROVE SessionsInv'
<1>0. LastHalf \in Nat /\ halves \in Nat /\ claim \in Nat /\ halves' = halves + 1 /\ halves' \in 0..LastHalf
  BY SessionsAssumption DEF LastHalf, SessionsInv, SessionsTypeOK, Tick
<1>1. SessionsTypeOK'
  BY <1>0 DEF SessionsInv, SessionsTypeOK, Tick
<1>2. LogoutLasts' /\ LogoutEndsSession'
  BY DEF SessionsInv, LogoutLasts, LogoutEndsSession, Tick
<1>3. Early' = Early /\ login' = login
  BY DEF Early, Tick
<1>4. \A l \in Logins : login[l].ttl \in Nat /\ login[l].at \in Nat
  BY DEF SessionsInv, SessionsTypeOK
<1>5. Early # {} /\ halves' < 2 * LaunchEnds => claim' >= 2 * LaunchEnds
  BY <1>0, SessionsAssumption DEF SessionsInv, ClaimLasts, Tick
<1>6. \A l \in Logins : login[l].phase = "verified" => halves' + 2 * login[l].ttl >= 2 * LaunchEnds
  BY <1>0, <1>4, SessionsAssumption DEF SessionsInv, ClaimLasts
<1>7. \A l \in Logins : login[l].phase \in Holding => 2 * login[l].at <= halves'
  BY <1>0, <1>4 DEF SessionsInv, ClaimLasts
<1>8. ClaimLasts'
  BY <1>3, <1>5, <1>6, <1>7 DEF SessionsInv, ClaimLasts
<1> QED
  BY <1>1, <1>2, <1>8 DEF SessionsInv

-----------------------------------------------------------------------------
(* Requests that present a session.                                        *)

LEMMA ReaderStepKeepsInv ==
  ASSUME SessionsInv, NEW q \in Readers, ReaderStep(q) PROVE SessionsInv'
<1>0. /\ SessionsTypeOK
      /\ reader \in [Readers -> Reader] /\ reader[q] \in Reader /\ reader[q].session \in Logins
      /\ row \in [Logins -> RowStatus] /\ key \in [Logins -> BOOLEAN] /\ ended \subseteq Logins
  BY DEF SessionsInv, SessionsTypeOK, Reader, RowStatus
<1>L. LogoutLasts /\ LogoutEndsSession
  BY DEF SessionsInv
<1>1. CASE FetchKey(q)
  <2>1. PICK l \in Logins :
          /\ login[l].phase = "done" /\ key[l]
          /\ reader' = [reader EXCEPT ![q] = [phase |-> "fetched", session |-> l, late |-> l \in ended]]
    BY <1>1 DEF FetchKey
  <2> DEFINE v == [phase |-> "fetched", session |-> l, late |-> l \in ended]
  <2>7. (l \in ended) \in BOOLEAN
    OBVIOUS
  <2>2. v \in Reader /\ v.phase = "fetched" /\ v.session = l /\ (v.late <=> l \in ended)
    BY <2>7, Zenon DEF Reader
  <2>3. reader' = [reader EXCEPT ![q] = v]
    BY <2>1
  <2> HIDE DEF v
  <2>4. reader' \in [Readers -> Reader] /\ reader'[q] = v /\ \A r \in Readers \ {q} : reader'[r] = reader[r]
    BY <1>0, <2>2, <2>3
  <2>5. SessionsTypeOK'
    BY <1>0, <1>1, <2>4 DEF SessionsTypeOK, FetchKey, Reader
  <2>6. LogoutLasts' /\ LogoutEndsSession'
    BY <1>1, <1>L, <2>1, <2>2, <2>4 DEF LogoutLasts, LogoutEndsSession, FetchKey
  <2> QED
    BY <1>1, <2>5, <2>6, OthersKeepInv DEF FetchKey
<1>2. CASE FindSession(q)
  <2> DEFINE p == IF Active(reader[q].session) THEN "accepted" ELSE "dropping"
             v == [reader[q] EXCEPT !.phase = p]
  <2>1. v \in Reader /\ v.phase = p /\ v.session = reader[q].session /\ v.late = reader[q].late
    BY <1>0 DEF Reader
  <2>2. reader' = [reader EXCEPT ![q] = v]
    BY <1>2 DEF FindSession, ReaderTo
  <2>3. p = "accepted" => row[reader[q].session] = "active"
    BY DEF Active
  <2>8. p \in {"accepted", "dropping"}
    OBVIOUS
  <2> HIDE DEF v, p
  <2>4. reader' \in [Readers -> Reader] /\ reader'[q] = v /\ \A r \in Readers \ {q} : reader'[r] = reader[r]
    BY <1>0, <2>1, <2>2
  <2>5. SessionsTypeOK'
    BY <1>0, <1>2, <2>4 DEF SessionsTypeOK, FindSession, Reader
  <2>6. LogoutLasts'
    BY <1>2, <1>L, <2>1, <2>4, <2>8 DEF LogoutLasts, FindSession
  <2>7. LogoutEndsSession'
    BY <1>2, <1>L, <2>1, <2>3, <2>4, <2>8 DEF LogoutLasts, LogoutEndsSession, FindSession
  <2> QED
    BY <1>2, <2>5, <2>6, <2>7, OthersKeepInv DEF FindSession
<1>3. ASSUME NEW v \in Reader,
             reader' = [reader EXCEPT ![q] = v],
             reader[q].phase \notin {"idle", "fetched", "dropping"} \/ v.phase = "idle",
             v.phase # "fetched",
             v.phase # "idle" => v.session = reader[q].session /\ v.late = reader[q].late,
             UNCHANGED <<halves, claim, login>>,
             row' \in [Logins -> RowStatus], key' \in [Logins -> BOOLEAN],
             \A l \in Logins : (key'[l] => key[l]) /\ (row'[l] = "active" => row[l] = "active"),
             \/ ended' = ended
             \/ /\ ended' = ended \cup {reader[q].session}
                /\ reader[q].phase # "idle"
                /\ key'[reader[q].session] => row'[reader[q].session] # "active"
      PROVE  SessionsInv'
  <2>1. reader' \in [Readers -> Reader] /\ reader'[q] = v /\ \A r \in Readers \ {q} : reader'[r] = reader[r]
    BY <1>0, <1>3
  <2>2. ended' \subseteq Logins
    <3>1. ended' = ended \/ ended' = ended \cup {reader[q].session}
      BY <1>3
    <3> QED
      BY <1>0, <3>1
  <2>3. SessionsTypeOK'
    BY <1>0, <1>3, <2>1, <2>2 DEF SessionsTypeOK, Reader, RowStatus
  <2>4. \A l \in ended' : login'[l].phase = "done" /\ (key'[l] => row'[l] # "active")
    <3>1. SUFFICES ASSUME NEW l \in ended'
                   PROVE  login[l].phase = "done" /\ (key'[l] => row'[l] # "active")
      BY <1>3
    <3>2. CASE l \in ended
      BY <1>0, <1>3, <1>L, <3>2 DEF LogoutLasts
    <3>3. CASE l \notin ended
      <4>1. l = reader[q].session /\ reader[q].phase # "idle" /\ (key'[l] => row'[l] # "active")
        BY <1>3, <3>3
      <4> QED
        BY <1>L, <4>1 DEF LogoutLasts
    <3> QED
      BY <3>2, <3>3
  <2>5. \A r \in Readers : reader'[r].phase # "idle" =>
            reader[r].phase # "idle" /\ reader'[r].session = reader[r].session
    BY <1>3, <2>1
  <2>6. \A r \in Readers : reader'[r].phase = "fetched" => reader'[r] = reader[r]
    BY <1>3, <2>1
  <2>7. \A r \in Readers : reader[r].session \in Logins
    BY <1>0 DEF Reader
  <2>8. LogoutLasts'
    BY <1>3, <1>L, <2>4, <2>5, <2>6, <2>7 DEF LogoutLasts
  <2>9. LogoutEndsSession'
    BY <1>3, <1>L, <2>1 DEF LogoutEndsSession
  <2> QED
    BY <1>3, <2>3, <2>8, <2>9, OthersKeepInv
<1>4. \A phase \in {"accepted", "dropping", "leaving", "keyless", "revoked"} :
        LET v == [reader[q] EXCEPT !.phase = phase]
        IN  v \in Reader /\ v.phase = phase /\ v.session = reader[q].session /\ v.late = reader[q].late
  BY <1>0 DEF Reader
<1>5. Idle \in Reader /\ Idle.phase = "idle"
  BY RestTypes
<1>6. /\ [key EXCEPT ![reader[q].session] = FALSE] \in [Logins -> BOOLEAN]
      /\ \A l \in Logins : [key EXCEPT ![reader[q].session] = FALSE][l] => key[l]
      /\ ~[key EXCEPT ![reader[q].session] = FALSE][reader[q].session]
  BY <1>0
<1>7. CASE DropKey(q)
  BY <1>0, <1>3, <1>5, <1>6, <1>7 DEF DropKey, ReaderRests
<1>8. CASE BeginLogout(q)
  BY <1>0, <1>3, <1>4, <1>8 DEF BeginLogout, ReaderTo
<1>9. CASE LogoutKey(q)
  <2>1. CASE reader[q].phase = "leaving"
    BY <1>0, <1>3, <1>4, <1>6, <1>9, <2>1 DEF LogoutKey, ReaderTo
  <2>2. CASE reader[q].phase # "leaving"
    BY <1>0, <1>3, <1>5, <1>6, <1>9, <2>2 DEF LogoutKey, ReaderRests
  <2> QED
    BY <2>1, <2>2
<1>10. CASE LogoutRow(q)
  <2>0. /\ row' \in [Logins -> RowStatus] /\ row'[reader[q].session] # "active"
        /\ \A l \in Logins : row'[l] = "active" => row[l] = "active"
    BY <1>0, <1>10 DEF LogoutRow, RowStatus
  <2>1. CASE reader[q].phase = "leaving"
    BY <1>0, <1>3, <1>4, <1>10, <2>0, <2>1 DEF LogoutRow, ReaderTo
  <2>2. CASE reader[q].phase # "leaving"
    BY <1>0, <1>3, <1>5, <1>10, <2>0, <2>2 DEF LogoutRow, ReaderRests
  <2> QED
    BY <2>1, <2>2
<1>11. CASE ReaderEnds(q)
  BY <1>0, <1>3, <1>5, <1>11 DEF ReaderEnds, ReaderRests
<1> QED
  BY <1>1, <1>2, <1>7, <1>8, <1>9, <1>10, <1>11 DEF ReaderStep

-----------------------------------------------------------------------------
LEMMA LoginStepKeepsInv ==
  ASSUME SessionsInv, NEW l \in Logins, LoginStep(l) PROVE SessionsInv'
BY VerifyKeepsInv, ClaimLaunchKeepsInv, CreateRowKeepsInv, CacheSessionKeepsInv, RevokeUncachedKeepsInv,
   ReleaseKeepsInv, LoginDiesKeepsInv, SessionAgesKeepsInv, KeyVanishesKeepsInv DEF LoginStep

LEMMA StutterKeepsInv ==
  ASSUME SessionsInv, UNCHANGED sessionsVars PROVE SessionsInv'
<1>1. SessionsTypeOK' /\ LogoutLasts' /\ LogoutEndsSession'
  BY DEF SessionsInv, SessionsTypeOK, LogoutLasts, LogoutEndsSession, sessionsVars
<1> QED
  BY <1>1, OthersKeepInv DEF sessionsVars

LEMMA SessionsInvNext == SessionsInv /\ [SessionsNext]_sessionsVars => SessionsInv'
BY TickKeepsInv, LoginStepKeepsInv, ReaderStepKeepsInv, StutterKeepsInv DEF SessionsNext

LEMMA SessionsInvariant == SessionsSpec => []SessionsInv
BY SessionsInvNext, SessionsInvInit, PTL DEF SessionsSpec

(* Sessions, keys and requests keep their types, whatever fails.           *)
THEOREM SessionsTyping == SessionsSpec => []SessionsTypeOK
<1>1. SessionsInv => SessionsTypeOK
  BY DEF SessionsInv
<1> QED
  BY <1>1, SessionsInvariant, PTL

(* A request that begins after either half of a logout is never accepted,  *)
(* for any number of sessions and of requests: the row and the key of such *)
(* a session are never both alive again, and a request needs both.         *)
THEOREM LogoutEnds == SessionsSpec => []LogoutEndsSession
<1>1. SessionsInv => LogoutEndsSession
  BY DEF SessionsInv
<1> QED
  BY <1>1, SessionsInvariant, PTL

(* One launch gives one session when it is claimed before its last second, *)
(* for any number of logins: the claim of the first outlives every time at *)
(* which a second could make one, unless the first has given it back.      *)
THEOREM OneSession == SessionsSpec => []OneSessionPerLaunch
<1>1. ASSUME SessionsInv PROVE OneSessionPerLaunch
  <2> DEFINE S == {l \in Logins : login[l].phase = "done" /\ login[l].at < LaunchEnds}
  <2>1. \A l, m \in S : l = m
    BY <1>1 DEF SessionsInv, ClaimLasts, Early, Holding
  <2> HIDE DEF S
  <2>2. Cardinality(S) <= 1
    <3>1. CASE S = {}
      <4>1. Cardinality(S) = 0
        BY <3>1, FS_EmptySet
      <4> QED
        BY <4>1
    <3>2. CASE S # {}
      <4>1. PICK l \in S : S = {l}
        BY <2>1, <3>2
      <4>2. Cardinality(S) = 1
        BY <4>1, FS_Singleton
      <4> QED
        BY <4>2
    <3> QED
      BY <3>1, <3>2
  <2> QED
    BY <2>2 DEF OneSessionPerLaunch, S
<1> QED
  BY <1>1, SessionsInvariant, PTL

-----------------------------------------------------------------------------
(* Onboarding.                                                             *)

(* The slots, as OnboardingTypeOK has them.                                *)
Verification == [phase: {"idle", "found", "demoted", "stored", "crossed"}, user: Users,
                 number: PhoneNumbers, free: BOOLEAN, seen: SUBSET PhoneNumbers]
Inquiry == [phase: CheckTypes \cup {"idle", "synced", "answered"}, user: Users,
            want: [CheckTypes -> CheckStatus], writes: SUBSET CheckTypes]

(* A number never changes hands, so what a verification read of its own    *)
(* user's rows still holds; only that the number was free may be over.     *)
ReadingsHold ==
  \A v \in Verifications :
    LET q == verification[v] IN
    /\ q.phase \in {"found", "demoted"} /\ ~q.free => owner[q.number] = q.user
    /\ q.phase = "demoted" => q.seen \subseteq PhonesOf(q.user)

(* PhonesAreOnes, with the one primary number named.                       *)
OnePrimary ==
  /\ \A v \in Verifications : verification[v].phase = "stored" =>
       owner[verification[v].number] = verification[v].user
  /\ \A n \in primary : owner[n] # Nobody
  /\ \A u \in Users \ crossed : PhonesOf(u) # {} => \E n : primary \cap PhonesOf(u) = {n}

PhonesInv == OnboardingTypeOK /\ ReadingsHold /\ OnePrimary

(* The checks that an inquiry has been through.                            *)
Synced(phase) ==
  CASE phase = "REQUISITES_FORMAT" -> {"PHONE"}
    [] phase \in {"synced", "answered"} -> CheckTypes
    [] OTHER -> {}

(* A check that the inquiry does not write already says what it wants.     *)
UnwrittenAgrees ==
  \A t \in Inquiries \ muddled :
    inquiry[t].phase # "idle" =>
      /\ Beside(t, inquiry[t].user) = {}
      /\ \A k \in Synced(inquiry[t].phase) \ inquiry[t].writes :
           trust[inquiry[t].user][k] = inquiry[t].want[k]

OnboardingInv == PhonesInv /\ UnwrittenAgrees /\ AnswerShowsFacts

-----------------------------------------------------------------------------
LEMMA OnboardingRestTypes ==
  /\ NoVerification \in Verification /\ NoVerification.phase = "idle"
  /\ NoInquiry \in Inquiry /\ NoInquiry.phase = "idle"
<1>1. (CHOOSE u \in Users : TRUE) \in Users /\ (CHOOSE n \in PhoneNumbers : TRUE) \in PhoneNumbers
  BY OnboardingAssumption
<1>2. [k \in CheckTypes |-> "PENDING"] \in [CheckTypes -> CheckStatus]
  BY DEF CheckStatus
<1> QED
  BY <1>1, <1>2 DEF NoVerification, NoInquiry, Verification, Inquiry

LEMMA OnboardingInvInit == OnboardingInit => OnboardingInv
<1> SUFFICES ASSUME OnboardingInit PROVE OnboardingInv
  OBVIOUS
<1>1. OnboardingTypeOK
  <2>1. /\ verification \in [Verifications -> Verification] /\ inquiry \in [Inquiries -> Inquiry]
        /\ trust \in [Users -> [CheckTypes -> CheckStatus]]
    BY OnboardingRestTypes DEF OnboardingInit, CheckStatus
  <2> QED
    BY <2>1 DEF OnboardingInit, OnboardingTypeOK, Verification, Inquiry
<1>2. ReadingsHold /\ UnwrittenAgrees /\ AnswerShowsFacts
  BY OnboardingRestTypes DEF OnboardingInit, ReadingsHold, UnwrittenAgrees, AnswerShowsFacts
<1>3. OnePrimary
  BY OnboardingRestTypes, OnboardingAssumption DEF OnboardingInit, OnePrimary, PhonesOf
<1> QED
  BY <1>1, <1>2, <1>3 DEF OnboardingInv, PhonesInv

LEMMA PrimaryStays ==
  ASSUME OnePrimary, UNCHANGED <<owner, primary, crossed>>,
         \A v \in Verifications : verification'[v].phase = "stored" => verification'[v] = verification[v]
  PROVE  OnePrimary'
<1>1. \A u : PhonesOf(u)' = PhonesOf(u)
  BY DEF PhonesOf
<1> QED
  BY <1>1 DEF OnePrimary

(* Nothing that phones or verifications show changes.                      *)
LEMMA PhonesStay ==
  ASSUME OnePrimary, ReadingsHold, UNCHANGED <<owner, primary, crossed, verification>>
  PROVE  OnePrimary' /\ ReadingsHold'
<1>1. ReadingsHold'
  BY DEF ReadingsHold, PhonesOf
<1> QED
  BY <1>1, PrimaryStays

(* A step of one verification that changes no phone.                       *)
LEMMA VerificationGoesOn ==
  ASSUME OnboardingInv, NEW v \in Verifications, NEW q \in Verification,
         verification' = [verification EXCEPT ![v] = q],
         q.phase \in {"found", "demoted"} /\ ~q.free => owner[q.number] = q.user,
         q.phase = "demoted" => q.seen \subseteq PhonesOf(q.user),
         q.phase # "stored",
         UNCHANGED <<owner, primary, requisites, trust, inquiry, crossed, muddled>>
  PROVE  OnboardingInv'
<1>0. verification \in [Verifications -> Verification]
  BY DEF OnboardingInv, PhonesInv, OnboardingTypeOK, Verification
<1>1. \A w \in Verifications : verification'[w] = IF w = v THEN q ELSE verification[w]
  BY <1>0
<1>2. OnboardingTypeOK'
  <2>1. verification' \in [Verifications -> Verification]
    BY <1>0
  <2> QED
    BY <2>1 DEF OnboardingInv, PhonesInv, OnboardingTypeOK, Verification
<1>3. ReadingsHold'
  BY <1>1 DEF OnboardingInv, PhonesInv, ReadingsHold, PhonesOf
<1>4. OnePrimary'
  BY <1>1, PrimaryStays DEF OnboardingInv, PhonesInv
<1>5. UnwrittenAgrees' /\ AnswerShowsFacts'
  BY DEF OnboardingInv, UnwrittenAgrees, AnswerShowsFacts, Beside
<1> QED
  BY <1>2, <1>3, <1>4, <1>5 DEF OnboardingInv, PhonesInv

LEMMA StorePhoneKeeps ==
  ASSUME OnboardingInv, NEW v \in Verifications, StorePhone(v) PROVE OnboardingInv'
<1> DEFINE q == verification[v]
           n == q.number
           u == q.user
           h == Holder(v)
<1>0. /\ verification \in [Verifications -> Verification] /\ owner \in [PhoneNumbers -> Users \cup {Nobody}]
      /\ primary \in SUBSET PhoneNumbers /\ crossed \in SUBSET Users
  BY DEF OnboardingInv, PhonesInv, OnboardingTypeOK, Verification
<1>1. n \in PhoneNumbers /\ u \in Users /\ q.phase = "demoted" /\ q.seen \subseteq PhonesOf(u)
      /\ (~q.free => owner[n] = u)
  BY <1>0 DEF StorePhone, OnboardingInv, PhonesInv, ReadingsHold, Verification
<1>2. h \in Users /\ owner[n] \in {Nobody, h} /\ (owner[n] = Nobody => h = u)
  BY <1>0, <1>1 DEF Holder
<1>3. /\ owner' = [owner EXCEPT ![n] = h] /\ primary' = (primary \ q.seen) \cup {n}
      /\ (primary \ q.seen) \cap PhonesOf(h) \subseteq {n}
      /\ UNCHANGED <<requisites, trust, inquiry, muddled>>
  BY DEF StorePhone, KeptPrimary
<1>4. \/ h = u /\ crossed' = crossed \ {u} /\ verification' = [verification EXCEPT ![v].phase = "stored"]
      \/ h # u /\ crossed' = crossed \cup {u} /\ verification' = [verification EXCEPT ![v].phase = "crossed"]
  <2>1. CASE h # u /\ q.free
    BY <2>1 DEF StorePhone, VerificationTo
  <2>2. CASE h = u
    BY <2>2 DEF StorePhone, VerificationTo
  <2> QED
    BY <2>1, <2>2, <1>1, <1>2, OnboardingAssumption
<1>5. \A w \in Verifications \ {v} : verification'[w] = verification[w]
  BY <1>0, <1>4
<1>6. /\ verification'[v].number = n /\ verification'[v].user = u /\ verification'[v].phase \in {"stored", "crossed"}
      /\ verification'[v].phase = "stored" => h = u
  BY <1>0, <1>4 DEF Verification
<1>7. verification' \in [Verifications -> Verification]
  BY <1>0, <1>4 DEF Verification
<1> HIDE DEF q, n, u, h
<1>8. OnboardingTypeOK'
  BY <1>0, <1>1, <1>2, <1>3, <1>4, <1>7 DEF OnboardingInv, PhonesInv, OnboardingTypeOK, Verification
<1>9. \A m \in PhoneNumbers : owner[m] # Nobody => owner'[m] = owner[m]
  BY <1>0, <1>2, <1>3
<1>10. \A w \in Users : /\ PhonesOf(w) \subseteq PhonesOf(w)'
                        /\ w # h => PhonesOf(w)' = PhonesOf(w)
  BY <1>0, <1>2, <1>3, OnboardingAssumption DEF PhonesOf
<1>11. \A w \in Users : w = h => PhonesOf(w)' = PhonesOf(w) \cup {n}
  <2>1. \A m \in PhoneNumbers : owner'[m] = h <=> owner[m] = h \/ m = n
    BY <1>0, <1>1, <1>2, <1>3, OnboardingAssumption
  <2> QED
    BY <2>1, <1>1 DEF PhonesOf
<1>12. ReadingsHold'
  <2> SUFFICES ASSUME NEW w \in Verifications, verification'[w].phase \in {"found", "demoted"}
               PROVE  /\ ~verification'[w].free => owner'[verification'[w].number] = verification'[w].user
                      /\ verification'[w].phase = "demoted" => \A m \in verification'[w].seen :
                           m \in PhoneNumbers /\ owner'[m] = verification'[w].user
    BY DEF ReadingsHold, PhonesOf
  <2>1. verification'[w] = verification[w] /\ verification[w] \in Verification
    BY <1>0, <1>5, <1>6
  <2>2. verification[w].number \in PhoneNumbers /\ verification[w].user \in Users
    BY <2>1 DEF Verification
  <2>3. ~verification[w].free => owner[verification[w].number] = verification[w].user
    BY <2>1 DEF OnboardingInv, PhonesInv, ReadingsHold
  <2>4. verification[w].phase = "demoted" => verification[w].seen \subseteq PhonesOf(verification[w].user)
    BY DEF OnboardingInv, PhonesInv, ReadingsHold
  <2> QED
    BY <2>1, <2>2, <2>3, <2>4, <1>9, OnboardingAssumption DEF PhonesOf
<1>13. OnePrimary'
  <2>1. \A w \in Verifications : verification'[w].phase = "stored" => owner'[verification'[w].number] = verification'[w].user
    <3>1. CASE verification'[v].phase = "stored"
      BY <3>1, <1>0, <1>1, <1>3, <1>5, <1>6, <1>9, OnboardingAssumption
         DEF OnboardingInv, PhonesInv, OnePrimary, Verification
    <3>2. CASE verification'[v].phase # "stored"
      BY <3>2, <1>0, <1>5, <1>9, OnboardingAssumption DEF OnboardingInv, PhonesInv, OnePrimary, Verification
    <3> QED
      BY <3>1, <3>2
  <2>2. \A m \in primary' : owner'[m] # Nobody
    BY <1>0, <1>1, <1>2, <1>3, OnboardingAssumption DEF OnboardingInv, PhonesInv, OnePrimary
  <2>3. ASSUME NEW w \in Users \ crossed', PhonesOf(w)' # {}
        PROVE  \E m : primary' \cap PhonesOf(w)' = {m}
    <3>1. CASE w = h
      <4>1. PhonesOf(w)' = PhonesOf(w) \cup {n} /\ (primary \ q.seen) \cap PhonesOf(w) \subseteq {n}
        BY <3>1, <1>3, <1>11
      <4>2. primary' \cap PhonesOf(w)' = {n}
        BY <4>1, <1>3
      <4> QED
        BY <4>2
    <3>2. CASE w # h
      <4>1. w # u /\ w \notin crossed
        BY <3>2, <2>3, <1>4
      <4>2. PhonesOf(w)' = PhonesOf(w) /\ n \notin PhonesOf(w)
        BY <3>2, <1>2, <1>10, OnboardingAssumption DEF PhonesOf
      <4>3. PhonesOf(w) \cap PhonesOf(u) = {}
        BY <4>1 DEF PhonesOf
      <4>4. primary' \cap PhonesOf(w)' = primary \cap PhonesOf(w)
        BY <4>2, <4>3, <1>1, <1>3
      <4>5. \E m : primary \cap PhonesOf(w) = {m}
        BY <4>1, <4>2, <2>3 DEF OnboardingInv, PhonesInv, OnePrimary
      <4> QED
        BY <4>4, <4>5
    <3> QED
      BY <3>1, <3>2
  <2> QED
    BY <2>1, <2>2, <2>3 DEF OnePrimary, PhonesOf
<1>14. UnwrittenAgrees' /\ AnswerShowsFacts'
  BY <1>3 DEF OnboardingInv, UnwrittenAgrees, AnswerShowsFacts, Beside
<1> QED
  BY <1>8, <1>12, <1>13, <1>14 DEF OnboardingInv, PhonesInv

(* An inquiry is alone if it is not muddled: a step in which it goes on,   *)
(* ends or answers disturbs no other unmuddled one.                        *)
LEMMA InquiryGoesOn ==
  ASSUME OnboardingInv, NEW t \in Inquiries, NEW q \in Inquiry,
         inquiry' = [inquiry EXCEPT ![t] = q],
         q.phase # "idle" => q.user = inquiry[t].user /\ inquiry[t].phase # "idle",
         t \notin muddled /\ q.phase # "idle" =>
           \A k \in Synced(q.phase) \ q.writes : trust'[q.user][k] = q.want[k],
         t \notin muddled /\ q.phase = "answered" => trust'[q.user] = q.want,
         trust' \in [Users -> [CheckTypes -> CheckStatus]],
         \A u \in Users \ {inquiry[t].user} : trust'[u] = trust[u],
         trust' = trust \/ q.phase = "answered",
         muddled \ {t} \subseteq muddled', muddled' \subseteq muddled,
         t \in muddled' \/ q.phase = "idle" \/ t \notin muddled,
         UNCHANGED <<owner, primary, requisites, verification, crossed>>
  PROVE  OnboardingInv'
<1>0. inquiry \in [Inquiries -> Inquiry]
  BY DEF OnboardingInv, PhonesInv, OnboardingTypeOK, Inquiry
<1>1. \A o \in Inquiries : inquiry'[o] = IF o = t THEN q ELSE inquiry[o]
  BY <1>0
<1>2. OnboardingTypeOK'
  <2>1. inquiry' \in [Inquiries -> Inquiry]
    BY <1>0
  <2> QED
    BY <2>1 DEF OnboardingInv, PhonesInv, OnboardingTypeOK, Inquiry
<1>3. ReadingsHold' /\ OnePrimary'
  BY PhonesStay DEF OnboardingInv, PhonesInv
<1>4. \A o \in Inquiries \ muddled' : inquiry'[o].phase # "idle" => o \notin muddled /\ inquiry[o].phase # "idle"
  BY <1>1
<1>5. ASSUME NEW o \in Inquiries \ muddled', inquiry'[o].phase # "idle"
      PROVE  \A p \in Inquiries \ {o} : ~(inquiry'[p].phase # "idle" /\ inquiry'[p].user = inquiry'[o].user)
  <2>1. inquiry'[o].user = inquiry[o].user /\ Beside(o, inquiry[o].user) = {}
    BY <1>1, <1>4, <1>5 DEF OnboardingInv, UnwrittenAgrees
  <2> QED
    BY <2>1, <1>1 DEF Beside
<1>6. ASSUME NEW o \in Inquiries \ muddled', inquiry'[o].phase # "idle", o # t
      PROVE  inquiry'[o] = inquiry[o] /\ trust'[inquiry[o].user] = trust[inquiry[o].user]
  <2>1. inquiry'[o] = inquiry[o] /\ inquiry[o].user \in Users
    BY <1>0, <1>1, <1>6 DEF Inquiry
  <2>2. q.phase = "answered" => inquiry[t].user # inquiry[o].user
    BY <2>1, <1>4, <1>6 DEF OnboardingInv, UnwrittenAgrees, Beside
  <2> QED
    BY <2>1, <2>2
<1>7. UnwrittenAgrees'
  <2> SUFFICES ASSUME NEW o \in Inquiries \ muddled', inquiry'[o].phase # "idle"
               PROVE  \A k \in Synced(inquiry'[o].phase) \ inquiry'[o].writes :
                        trust'[inquiry'[o].user][k] = inquiry'[o].want[k]
    BY <1>5 DEF UnwrittenAgrees, Beside, Synced
  <2>1. CASE o = t
    BY <2>1, <1>1, <1>4
  <2>2. CASE o # t
    BY <2>2, <1>4, <1>6 DEF OnboardingInv, UnwrittenAgrees
  <2> QED
    BY <2>1, <2>2
<1>8. AnswerShowsFacts'
  <2> SUFFICES ASSUME NEW o \in Inquiries \ muddled', inquiry'[o].phase = "answered"
               PROVE  trust'[inquiry'[o].user] = inquiry'[o].want
    BY DEF AnswerShowsFacts
  <2>1. CASE o = t
    BY <2>1, <1>1, <1>4
  <2>2. CASE o # t
    BY <2>2, <1>4, <1>6 DEF OnboardingInv, AnswerShowsFacts
  <2> QED
    BY <2>1, <2>2
<1> QED
  BY <1>2, <1>3, <1>7, <1>8 DEF OnboardingInv, PhonesInv

LEMMA ReadFactsKeeps ==
  ASSUME OnboardingInv, NEW u \in Users, NEW t \in Inquiries, ReadFacts(t, u) PROVE OnboardingInv'
<1> DEFINE q == [NoInquiry EXCEPT !.phase = "PHONE", !.user = u, !.want = DesiredChecks(u)]
<1>0. inquiry \in [Inquiries -> Inquiry] /\ muddled \in SUBSET Inquiries
  BY DEF OnboardingInv, PhonesInv, OnboardingTypeOK, Inquiry
<1>1. /\ inquiry' = [inquiry EXCEPT ![t] = q] /\ inquiry[t].phase = "idle"
      /\ muddled' = muddled \cup Beside(t, u) \cup (IF Beside(t, u) = {} THEN {} ELSE {t})
      /\ UNCHANGED <<owner, primary, requisites, verification, trust, crossed>>
  BY DEF ReadFacts
<1>2. q \in Inquiry /\ q.phase = "PHONE" /\ q.user = u
  <2>1. DesiredChecks(u) \in [CheckTypes -> CheckStatus]
    BY DEF DesiredChecks, StatusIf, CheckStatus
  <2>2. \A x \in Inquiry : LET y == [x EXCEPT !.phase = "PHONE", !.user = u, !.want = DesiredChecks(u)] IN
          y \in Inquiry /\ y.phase = "PHONE" /\ y.user = u
    BY <2>1 DEF Inquiry, CheckTypes
  <2> QED
    BY <2>2, OnboardingRestTypes
<1> HIDE DEF q
<1>3. \A o \in Inquiries : inquiry'[o] = IF o = t THEN q ELSE inquiry[o]
  BY <1>0, <1>1
<1>4. OnboardingTypeOK'
  <2>1. inquiry' \in [Inquiries -> Inquiry] /\ muddled' \in SUBSET Inquiries
    BY <1>0, <1>1, <1>2 DEF Beside
  <2> QED
    BY <1>1, <2>1 DEF OnboardingInv, PhonesInv, OnboardingTypeOK, Inquiry
<1>5. ReadingsHold' /\ OnePrimary'
  BY <1>1, PhonesStay DEF OnboardingInv, PhonesInv
<1>6. ASSUME NEW o \in Inquiries \ muddled', o # t, inquiry[o].phase # "idle"
      PROVE  inquiry[o].user # u /\ o \notin muddled
  BY <1>1, <1>6 DEF Beside
<1>7. UnwrittenAgrees'
  <2> SUFFICES ASSUME NEW o \in Inquiries \ muddled', inquiry'[o].phase # "idle"
               PROVE  /\ \A p \in Inquiries \ {o} :
                           ~(inquiry'[p].phase # "idle" /\ inquiry'[p].user = inquiry'[o].user)
                      /\ \A k \in Synced(inquiry'[o].phase) \ inquiry'[o].writes :
                           trust'[inquiry'[o].user][k] = inquiry'[o].want[k]
    BY DEF UnwrittenAgrees, Beside, Synced
  <2>1. CASE o = t
    BY <2>1, <1>1, <1>2, <1>3 DEF Beside, Synced
  <2>2. CASE o # t
    BY <2>2, <1>1, <1>2, <1>3, <1>6 DEF OnboardingInv, UnwrittenAgrees, Beside
  <2> QED
    BY <2>1, <2>2
<1>8. AnswerShowsFacts'
  BY <1>1, <1>2, <1>3 DEF OnboardingInv, AnswerShowsFacts
<1> QED
  BY <1>4, <1>5, <1>7, <1>8 DEF OnboardingInv, PhonesInv

LEMMA SyncCheckKeeps ==
  ASSUME OnboardingInv, NEW t \in Inquiries, SyncChecks(t) PROVE OnboardingInv'
<1>0. inquiry \in [Inquiries -> Inquiry] /\ trust \in [Users -> [CheckTypes -> CheckStatus]]
  BY DEF OnboardingInv, PhonesInv, OnboardingTypeOK, Inquiry
<1>1. PICK k \in CheckTypes, next \in {"REQUISITES_FORMAT", "synced"} :
        SyncCheck(t, k, next) /\ Synced(next) \subseteq Synced(k) \cup {k}
  BY DEF SyncChecks, Synced, CheckTypes
<1> DEFINE w == IF Differs(t, k) THEN inquiry[t].writes \cup {k} ELSE inquiry[t].writes
           q == [inquiry[t] EXCEPT !.phase = next, !.writes = w]
<1>2. /\ inquiry' = [inquiry EXCEPT ![t] = q] /\ inquiry[t].phase = k
      /\ UNCHANGED <<owner, primary, requisites, verification, trust, crossed, muddled>>
  BY <1>0, <1>1 DEF SyncCheck
<1>3. /\ q \in Inquiry /\ q.phase = next /\ q.user = inquiry[t].user /\ q.want = inquiry[t].want
      /\ q.writes = w
  <2>1. w \in SUBSET CheckTypes
    BY <1>0 DEF Inquiry
  <2> HIDE DEF w
  <2> QED
    BY <1>0, <2>1 DEF Inquiry, CheckTypes
<1> HIDE DEF q
<1>4. t \notin muddled => \A c \in Synced(next) \ w : trust[q.user][c] = q.want[c]
  <2> SUFFICES ASSUME t \notin muddled, NEW c \in Synced(next) \ w PROVE trust[q.user][c] = q.want[c]
    OBVIOUS
  <2>1. CASE c = k
    BY <2>1, <1>3 DEF Differs
  <2>2. CASE c # k
    BY <2>2, <1>1, <1>2, <1>3 DEF OnboardingInv, UnwrittenAgrees, CheckTypes
  <2> QED
    BY <2>1, <2>2
<1>5. k # "idle" /\ next # "idle" /\ next # "answered"
  BY DEF CheckTypes
<1> QED
  BY <1>0, <1>2, <1>3, <1>4, <1>5, InquiryGoesOn

LEMMA AnswerKeeps ==
  ASSUME OnboardingInv, NEW t \in Inquiries, AnswerStatus(t) PROVE OnboardingInv'
<1> DEFINE u == inquiry[t].user
           q == [inquiry[t] EXCEPT !.phase = "answered"]
<1>0. inquiry \in [Inquiries -> Inquiry] /\ trust \in [Users -> [CheckTypes -> CheckStatus]]
  BY DEF OnboardingInv, PhonesInv, OnboardingTypeOK, Inquiry
<1>1. /\ inquiry' = [inquiry EXCEPT ![t] = q] /\ inquiry[t].phase = "synced"
      /\ trust' = [trust EXCEPT ![u] = [k \in CheckTypes |->
                     IF k \in inquiry[t].writes THEN inquiry[t].want[k] ELSE trust[u][k]]]
      /\ UNCHANGED <<owner, primary, requisites, verification, crossed, muddled>>
  BY <1>0 DEF AnswerStatus
<1>2. /\ q \in Inquiry /\ q.phase = "answered" /\ q.user = u /\ q.want = inquiry[t].want
      /\ u \in Users /\ q.want \in [CheckTypes -> CheckStatus]
  BY <1>0 DEF Inquiry
<1> HIDE DEF q, u
<1>3. trust'[u] = [k \in CheckTypes |-> IF k \in inquiry[t].writes THEN q.want[k] ELSE trust[u][k]]
  BY <1>0, <1>1, <1>2
<1>4. trust' \in [Users -> [CheckTypes -> CheckStatus]] /\ \A v \in Users \ {u} : trust'[v] = trust[v]
  BY <1>0, <1>1, <1>2
<1>5. t \notin muddled => trust'[u] = q.want
  <2> SUFFICES ASSUME t \notin muddled PROVE trust'[u] = q.want
    OBVIOUS
  <2>1. \A k \in CheckTypes \ inquiry[t].writes : trust[u][k] = q.want[k]
    BY <1>1, <1>2 DEF OnboardingInv, UnwrittenAgrees, Synced, u
  <2> QED
    BY <2>1, <1>2, <1>3
<1> QED
  BY <1>1, <1>2, <1>4, <1>5, InquiryGoesOn DEF u

LEMMA OnboardingInvNext ==
  ASSUME OnboardingInv, [OnboardingNext]_onboardingVars PROVE OnboardingInv'
<1>0. verification \in [Verifications -> Verification]
  BY DEF OnboardingInv, PhonesInv, OnboardingTypeOK, Verification
<1>1. ASSUME NEW u \in Users, NEW v \in Verifications, NEW n \in PhoneNumbers, FindPhone(v, u, n)
      PROVE  OnboardingInv'
  <2> DEFINE q == [NoVerification EXCEPT !.phase = "found", !.user = u, !.number = n, !.free = (owner[n] = Nobody)]
  <2>1. \A x \in Verification, b \in BOOLEAN :
          LET y == [x EXCEPT !.phase = "found", !.user = u, !.number = n, !.free = b] IN
          y \in Verification /\ y.phase = "found" /\ y.user = u /\ y.number = n /\ y.free = b
    BY DEF Verification
  <2>2. q \in Verification /\ q.phase = "found" /\ q.user = u /\ q.number = n /\ q.free = (owner[n] = Nobody)
    BY <2>1, OnboardingRestTypes
  <2>3. /\ verification' = [verification EXCEPT ![v] = q] /\ owner[n] \in {Nobody, u}
        /\ UNCHANGED <<owner, primary, requisites, trust, inquiry, crossed, muddled>>
    BY <1>1 DEF FindPhone, MayStore
  <2> HIDE DEF q
  <2> QED
    BY <2>2, <2>3, VerificationGoesOn
<1>2. ASSUME NEW v \in Verifications, Demote(v) PROVE OnboardingInv'
  <2> DEFINE q == [verification[v] EXCEPT !.phase = "demoted", !.seen = SeenPrimary(verification[v].user)]
  <2>1. /\ q \in Verification /\ q.phase = "demoted" /\ q.user = verification[v].user
        /\ q.number = verification[v].number /\ q.free = verification[v].free /\ q.seen = SeenPrimary(q.user)
    <3>1. SeenPrimary(verification[v].user) \in SUBSET PhoneNumbers
      BY DEF SeenPrimary, PhonesOf
    <3> QED
      BY <1>0, <3>1 DEF Verification
  <2>2. /\ verification' = [verification EXCEPT ![v] = q] /\ verification[v].phase = "found"
        /\ UNCHANGED <<owner, primary, requisites, trust, inquiry, crossed, muddled>>
    BY <1>0, <1>2 DEF Demote
  <2>3. ~q.free => owner[q.number] = q.user
    BY <2>1, <2>2 DEF OnboardingInv, PhonesInv, ReadingsHold
  <2>4. q.seen \subseteq PhonesOf(q.user)
    BY <2>1 DEF SeenPrimary
  <2> HIDE DEF q
  <2> QED
    BY <2>1, <2>2, <2>3, <2>4, VerificationGoesOn
<1>3. ASSUME NEW v \in Verifications, EndVerification(v) PROVE OnboardingInv'
  BY <1>3, OnboardingRestTypes, VerificationGoesOn DEF EndVerification, VerificationEnds
<1>4. ASSUME NEW u \in Users, UpdateProfile(u) PROVE OnboardingInv'
  BY <1>4, PhonesStay DEF UpdateProfile, OnboardingInv, PhonesInv, OnboardingTypeOK,
     UnwrittenAgrees, AnswerShowsFacts, Beside
<1>5. ASSUME NEW t \in Inquiries, EndInquiry(t) PROVE OnboardingInv'
  BY <1>5, OnboardingRestTypes, InquiryGoesOn DEF EndInquiry, OnboardingInv, PhonesInv, OnboardingTypeOK
<1>6. CASE UNCHANGED onboardingVars
  <2>1. UnwrittenAgrees' /\ AnswerShowsFacts' /\ OnboardingTypeOK'
    BY <1>6 DEF onboardingVars, OnboardingInv, PhonesInv, OnboardingTypeOK, UnwrittenAgrees, AnswerShowsFacts, Beside
  <2> QED
    BY <1>6, <2>1, PhonesStay DEF onboardingVars, OnboardingInv, PhonesInv
<1> QED
  BY <1>1, <1>2, <1>3, <1>4, <1>5, <1>6, StorePhoneKeeps, ReadFactsKeeps, SyncCheckKeeps, AnswerKeeps
     DEF OnboardingNext, Of, VerificationStep, InquiryStep

LEMMA OnboardingInvariance == OnboardingSpec => []OnboardingInv
BY OnboardingInvInit, OnboardingInvNext, PTL DEF OnboardingSpec

(* Phones, requisites and trust checks keep their types.                   *)
THEOREM OnboardingTyping == OnboardingSpec => []OnboardingTypeOK
<1>1. OnboardingInv => OnboardingTypeOK
  BY DEF OnboardingInv, PhonesInv
<1> QED
  BY <1>1, OnboardingInvariance, PTL

(* A number that was stored is that of the user who verified it, and one   *)
(* of the numbers of a user is primary, but for a user who found a number  *)
(* free that another user was just storing (`crossed').                    *)
THEOREM PhonesStayOnes == OnboardingSpec => []PhonesAreOnes
<1>1. ASSUME OnboardingInv PROVE PhonesAreOnes
  BY <1>1, FS_Singleton DEF OnboardingInv, PhonesInv, OnePrimary, PhonesAreOnes
<1> QED
  BY <1>1, OnboardingInvariance, PTL

(* The trust status that an inquiry answers with shows the facts it read,  *)
(* unless another inquiry of the same user ran beside it.                  *)
THEOREM AnswersShowFacts == OnboardingSpec => []AnswerShowsFacts
<1>1. OnboardingInv => AnswerShowsFacts
  BY DEF OnboardingInv
<1> QED
  BY <1>1, OnboardingInvariance, PTL
=============================================================================
