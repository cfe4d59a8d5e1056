----------------------------- MODULE Completion -----------------------------
(***************************************************************************)
(* What the signing of a deal promises, without requests, codes, counts or *)
(* statuses: from the first signature on its version stays, its artifacts  *)
(* are made once everybody signed, and it is completed once, with every    *)
(* artifact due to every party.                                            *)
(***************************************************************************)
EXTENDS Integers

CONSTANTS Parties, Kinds

VARIABLES
  version,     \* number of the current version
  signers,     \* parties that signed the current version
  issued,      \* kinds of its artifacts that exist
  completed,   \* the deal is completed
  deliveries   \* what is due to whom

vars == <<version, signers, issued, completed, deliveries>>

Init ==
  /\ version = 1
  /\ signers = {}
  /\ issued = {}
  /\ completed = FALSE
  /\ deliveries = {}

(* Only a version that nobody signed is replaced.                          *)
Revise ==
  /\ signers = {}
  /\ version' = version + 1
  /\ UNCHANGED <<signers, issued, completed, deliveries>>

Sign(p) ==
  /\ p \notin signers
  /\ signers' = signers \cup {p}
  /\ UNCHANGED <<version, issued, completed, deliveries>>

Issue(k) ==
  /\ signers = Parties
  /\ issued' = issued \cup {k}
  /\ UNCHANGED <<version, signers, completed, deliveries>>

Complete ==
  /\ ~completed
  /\ issued = Kinds
  /\ completed' = TRUE
  /\ deliveries' = [artifact: [version: {version}, type: Kinds], party: Parties]
  /\ UNCHANGED <<version, signers, issued>>

Next ==
  \/ Revise
  \/ \E p \in Parties : Sign(p)
  \/ \E k \in Kinds : Issue(k)
  \/ Complete

Spec == Init /\ [][Next]_vars
=============================================================================
