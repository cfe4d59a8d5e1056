----------------------------- MODULE Agreement -----------------------------
(***************************************************************************)
(* What the negotiation of a deal promises, without requests, statuses or  *)
(* invitations: a text is agreed only by the approvals of both parties to  *)
(* one sealed version, and a revision starts again from no approvals.      *)
(***************************************************************************)
EXTENDS Integers

CONSTANTS Parties, Texts, NoText

VARIABLES
  version,    \* number of the current version
  text,       \* text of the current version
  sealed,     \* the text of the current version may no longer change
  approvers,  \* parties that approved the current version
  agreed      \* the current version is open for signing

vars == <<version, text, sealed, approvers, agreed>>

Init ==
  /\ version = 1
  /\ text \in Texts \cup {NoText}
  /\ sealed = FALSE
  /\ approvers = {}
  /\ agreed = FALSE

(* The author edits a text that nobody approved.                           *)
Draft ==
  /\ ~sealed
  /\ text' \in Texts \cup {NoText}
  /\ UNCHANGED <<version, sealed, approvers, agreed>>

(* The first approval seals the text; the last one makes it agreed.        *)
Approve(p) ==
  /\ ~agreed
  /\ text # NoText
  /\ approvers' = approvers \cup {p}
  /\ sealed' = TRUE
  /\ agreed' = (approvers' = Parties)
  /\ UNCHANGED <<version, text>>

(* A new version has a new text and no approvals.                          *)
Revise ==
  /\ version' = version + 1
  /\ text' \in Texts
  /\ sealed' = FALSE
  /\ approvers' = {}
  /\ agreed' = FALSE

(* Signing may be closed again without a new version.                      *)
Suspend ==
  /\ agreed
  /\ agreed' = FALSE
  /\ UNCHANGED <<version, text, sealed, approvers>>

Next == Draft \/ (\E p \in Parties : Approve(p)) \/ Revise \/ Suspend

Spec == Init /\ [][Next]_vars
=============================================================================
