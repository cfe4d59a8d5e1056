------------------------- MODULE MCReviewAndSigning -------------------------
(***************************************************************************)
(* Model-checking instance of ContractReview and Signing: what becomes of  *)
(* the approvals of a version, and of the signatures under it afterwards.  *)
(* The two share no state; `stage' is chosen in the initial state and only *)
(* that stage moves.                                                       *)
(***************************************************************************)
EXTENDS Signing, ContractReview, TLC

VARIABLE stage

Symmetry == Permutations(Requests) \cup Permutations(Parties)

StagedInit ==
  /\ stage \in {"review", "signing"}
  /\ ReviewInit
  /\ Init

(* A page that waits for no answer reads the deal, during the review only  *)
(* if it is behind; its party approves when no read is under way; and the  *)
(* party who edits a profile is any of the two.                            *)
SomeReviewer == CHOOSE p \in Reviewers : TRUE
Behind(p) == dealRow.status = "TERMS_REVIEW" => page[p] # Workspace(p, dealRow)

PagesNext ==
  \/ ReviseContract \/ EditProfile(SomeReviewer)
  \/ \E p \in Reviewers :
       \/ Behind(p) /\ ~Pressed(p) /\ PollRow(p)
       \/ PollRest(p)
  \/ \E c \in Calls :
       /\ ReviewStep(c)
       /\ approving[c].phase = "idle" => ~polling[approving'[c].party].on

StagedNext ==
  /\ \/ stage = "review" /\ PagesNext /\ UNCHANGED vars
     \/ stage = "signing" /\ Next /\ UNCHANGED reviewVars
  /\ stage' = stage

StagedSpec == StagedInit /\ [][StagedNext]_<<stage, reviewVars, vars>>
=============================================================================
