--------------------------- MODULE Clarifications ---------------------------
(***************************************************************************)
(* The clarifying questions asked before a contract is generated           *)
(* (apps/api/src/templates/ai-clarifications.service.ts, its repository,   *)
(* contract-completeness.ts).  A session is started with questions of the  *)
(* AI and of the server's own rules; each round of answers is accepted     *)
(* whole, against the state of the session it was read with.               *)
(*                                                                         *)
(* A question is its id and its topic: wording, labels and the types of    *)
(* answers are left out.  What a free text tells of the terms that rules   *)
(* look for is any set of terms.                                           *)
(***************************************************************************)
EXTENDS Integers, FiniteSets

CONSTANTS
  Terms,         \* ids of the rules of the template, each with a topic of its own
  AiIds,         \* ids the AI makes up
  MaxQuestions,  \* MAX_TOTAL_QUESTIONS
  Tabs           \* slots for answer requests in flight

ASSUME ClarificationsAssumption == MaxQuestions \in Nat \ {0} /\ IsFiniteSet(Terms)

NoTopic == "none"
TermQuestion(t) == [id |-> t, topic |-> t, personal |-> FALSE]
TermQuestions(terms) == {TermQuestion(t) : t \in terms}
AiQuestion == [id: AiIds, topic: Terms \cup {NoTopic}, personal: {FALSE}]
              \cup [id: AiIds, topic: {NoTopic}, personal: {TRUE}]
Question == TermQuestions(Terms) \cup AiQuestion

VARIABLES
  session,  \* the ai_generations row
  tab,      \* answer requests in flight, with the row they read
  told     \* ids of answers that a request was told are stored

clarificationVars == <<session, tab, told>>

Session == [status: {"none", "NEED_MORE_INFO", "READY_TO_GENERATE"}, questions: SUBSET Question,
            answers: SUBSET (Terms \cup AiIds), known: SUBSET Terms, stamp: 0..(Cardinality(Terms) + 1)]
NoSession == [status |-> "none", questions |-> {}, answers |-> {}, known |-> {}, stamp |-> 0]

ClarificationsInit ==
  /\ session = NoSession
  /\ tab = [t \in Tabs |-> NoSession]
  /\ told = {}

IdsOf(questions) == {q.id : q \in questions}
TopicsOf(questions) == {q.topic : q \in questions} \ {NoTopic}

-----------------------------------------------------------------------------
(* assertClarificationOutput: the ids of the AI's questions differ.        *)
AiOutputs == {o \in UNION {[1..n -> Question] : n \in 0..MaxQuestions} :
                \A i, j \in DOMAIN o : o[i].id = o[j].id => i = j}

(* A loop over the AI's questions takes some of them, named by their       *)
(* positions; this is what it has taken when it comes to position i.       *)
TakenBefore(output, positions, i) == {output[j] : j \in {k \in positions : k < i}}

(* sanitizeClarificationOutput: nothing personal and nothing that is known *)
(* or was asked before in the list, by id or topic.                        *)
Known(q, kept, known) ==
  \/ q.personal
  \/ q.id \in IdsOf(kept) \cup known
  \/ q.topic \in TopicsOf(kept) \cup known

Sanitized(output, known, positions) ==
  \A i \in DOMAIN output :
    LET kept == TakenBefore(output, positions, i) IN
    i \in positions <=> Cardinality(kept) < MaxQuestions /\ ~Known(output[i], kept, known)

(* prioritizeRequiredQuestions: the missing terms come first, and the AI's *)
(* questions fill what is left of the limit.                               *)
RepeatsId(q, asked) == q.id \in IdsOf(asked)
Repeats(q, asked) == q.id \in IdsOf(asked) \/ q.topic \in TopicsOf(asked)

Prioritized(output, kept, missing, positions) ==
  \A i \in kept :
    LET asked == TermQuestions(missing) \cup TakenBefore(output, positions, i) IN
    i \in positions <=> Cardinality(asked) < MaxQuestions /\ ~Repeats(output[i], asked)

StatusOf(questions) == IF questions = {} THEN "READY_TO_GENERATE" ELSE "NEED_MORE_INFO"

Start ==
  /\ session.status = "none"
  /\ \E known \in SUBSET Terms, output \in AiOutputs :
       \E kept \in SUBSET DOMAIN output : \E first \in SUBSET kept :
         LET asked == TermQuestions(Terms \ known) \cup {output[i] : i \in first} IN
         /\ Sanitized(output, known, kept)
         /\ Prioritized(output, kept, Terms \ known, first)
         /\ session' = [status |-> StatusOf(asked), questions |-> asked, answers |-> {}, known |-> known, stamp |-> 0]
  /\ UNCHANGED <<tab, told>>

-----------------------------------------------------------------------------
LoadSession(t) ==
  /\ tab[t] = NoSession
  /\ session.status = "NEED_MORE_INFO"
  /\ tab' = [tab EXCEPT ![t] = session]
  /\ UNCHANGED <<session, told>>

(* validateClarificationAnswers: only what was asked, and every term.      *)
AnswersTo(questions) == {a \in SUBSET IdsOf(questions) : IdsOf(questions) \cap Terms \subseteq a}

(* missingContractTerms: an explicit answer to a term settles it whatever  *)
(* it says; other answers may also tell it.  An answer under the name of a *)
(* field of the questionnaire hides that field, and a term may be lost.    *)
MissingUnlessTold(answers, known) == Terms \ known
Missing(answers, known) == Terms \ (answers \cup known)

KnownWith(s, given) == IF given \subseteq Terms THEN {k \in SUBSET Terms : s.known \subseteq k} ELSE SUBSET Terms

UnguardedMatch(s) == session.status = "NEED_MORE_INFO"
Match(s) == session.status = "NEED_MORE_INFO" /\ session.stamp = s.stamp

(* The update is guarded by the status and updatedAt that were read.       *)
Answer(t) ==
  LET s == tab[t] IN
  /\ s # NoSession
  /\ Match(s)
  /\ \E given \in AnswersTo(s.questions) : \E known \in KnownWith(s, given) :
       LET answers == s.answers \cup given
           asked == TermQuestions(Missing(answers, known)) IN
       /\ session' = [status |-> StatusOf(asked), questions |-> asked, answers |-> answers,
                      known |-> known, stamp |-> s.stamp + 1]
       /\ told' = told \cup given
  /\ tab' = [tab EXCEPT ![t] = NoSession]

(* Invalid answers, a session changed in another tab, an error.            *)
AnswerFails(t) ==
  /\ tab[t] # NoSession
  /\ tab' = [tab EXCEPT ![t] = NoSession]
  /\ UNCHANGED <<session, told>>

TabStep(t) == LoadSession(t) \/ Answer(t) \/ AnswerFails(t)

ClarificationsNext == Start \/ \E t \in Tabs : TabStep(t)

ClarificationsSpec == ClarificationsInit /\ [][ClarificationsNext]_clarificationVars

-----------------------------------------------------------------------------
(* The type invariant.  The bound of the stamp is a promise of its own:    *)
(* each round settles the terms it asked for, so there are never more      *)
(* rounds than terms and one.                                              *)
ClarificationsTypeOK ==
  /\ session \in Session
  /\ tab \in [Tabs -> Session]
  /\ told \in SUBSET (Terms \cup AiIds)

(* An answer that a request was told is stored stays in the session,       *)
(* whatever other tabs answer from an older state of it.                   *)
AnswersAreKept == told \subseteq session.answers

(* No round asks what was answered, two questions never share id or topic, *)
(* and the first round has no more of them than the limit, unless the      *)
(* rules alone demand it.                                                  *)
NothingAskedTwice ==
  LET asked == session.questions IN
  /\ IdsOf(asked) \cap session.answers = {}
  /\ \A q, r \in asked : q # r => q.id # r.id /\ (q.topic = r.topic => q.topic = NoTopic)
  /\ Cardinality(asked) <= IF MaxQuestions >= Cardinality(Terms) THEN MaxQuestions ELSE Cardinality(Terms)
=============================================================================
