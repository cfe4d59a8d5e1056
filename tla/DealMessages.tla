---------------------------- MODULE DealMessages ----------------------------
(***************************************************************************)
(* Messages of one author in a deal (apps/api/src/deals/deal-messages      *)
(* .service.ts).  The client names each message and may send it again, and *)
(* again with another text; the unique index on (deal, author, client id)  *)
(* decides between requests that overlap.                                  *)
(***************************************************************************)
EXTENDS Integers

CONSTANTS
  ClientIds,   \* names that the client gives its messages
  Bodies,      \* texts that are left after trimming
  Sends        \* slots for send requests in flight

ASSUME MessagesAssumption == ClientIds # {} /\ Bodies # {}

VARIABLES
  settled,  \* whether the deal was signed, completed or canceled
  message,  \* the row of each client id
  send      \* send requests in flight

messageVars == <<settled, message, send>>

Kind == {"MESSAGE", "CHANGE_REQUEST"}
NoMessage == [body |-> CHOOSE b \in Bodies : TRUE, kind |-> "MESSAGE", stored |-> FALSE]
NoSend == [phase |-> "idle", id |-> CHOOSE i \in ClientIds : TRUE, body |-> CHOOSE b \in Bodies : TRUE,
           kind |-> "MESSAGE", settled |-> FALSE]

MessagesInit ==
  /\ settled = FALSE
  /\ message = [i \in ClientIds |-> NoMessage]
  /\ send = [s \in Sends |-> NoSend]

SendTo(s, phase) == send' = [send EXCEPT ![s].phase = phase]
SendEnds(s) == send' = [send EXCEPT ![s] = NoSend]

(* participant(): the status of the deal is read once, at the start.       *)
ReadDeal(s) ==
  /\ send[s].phase = "idle"
  /\ \E i \in ClientIds, b \in Bodies, k \in Kind :
       send' = [send EXCEPT ![s] = [phase |-> "read", id |-> i, body |-> b, kind |-> k, settled |-> settled]]
  /\ UNCHANGED <<settled, message>>

(* verify(): the row must say what the request says.                       *)
SaysSameText(q) == message[q.id].body = q.body
SaysTheSame(q) == message[q.id].body = q.body /\ message[q.id].kind = q.kind
VerifyRow(s) == IF SaysTheSame(send[s]) THEN SendTo(s, "answered") ELSE SendEnds(s)

(* A change request is refused on a deal that was settled when read.      *)
TooLate(q) == q.kind = "CHANGE_REQUEST" /\ q.settled

FindMessage(s) ==
  LET q == send[s] IN
  /\ q.phase = "read"
  /\ \/ message[q.id].stored /\ VerifyRow(s)
     \/ ~message[q.id].stored /\ TooLate(q) /\ SendEnds(s)
     \/ ~message[q.id].stored /\ ~TooLate(q) /\ SendTo(s, "writing")
  /\ UNCHANGED <<settled, message>>

(* The insert, or the row of the request that was faster.                  *)
StoreMessage(s) ==
  LET q == send[s] IN
  /\ q.phase = "writing"
  /\ ~message[q.id].stored
  /\ message' = [message EXCEPT ![q.id] = [body |-> q.body, kind |-> q.kind, stored |-> TRUE]]
  /\ SendTo(s, "answered")
  /\ UNCHANGED settled

FindRaced(s) ==
  /\ send[s].phase = "writing"
  /\ message[send[s].id].stored
  /\ VerifyRow(s)
  /\ UNCHANGED <<settled, message>>

(* The answer arrives or is lost, or the request ends without one.         *)
SendOver(s) ==
  /\ send[s].phase # "idle"
  /\ SendEnds(s)
  /\ UNCHANGED <<settled, message>>

SettleDeal ==
  /\ settled' = TRUE
  /\ UNCHANGED <<message, send>>

SendStep(s) == ReadDeal(s) \/ FindMessage(s) \/ StoreMessage(s) \/ FindRaced(s) \/ SendOver(s)

MessagesNext == SettleDeal \/ \E s \in Sends : SendStep(s)

MessagesSpec == MessagesInit /\ [][MessagesNext]_messageVars

-----------------------------------------------------------------------------
(* The type invariant.                                                     *)
MessagesTypeOK ==
  /\ settled \in BOOLEAN
  /\ message \in [ClientIds -> [body: Bodies, kind: Kind, stored: BOOLEAN]]
  /\ send \in [Sends -> [phase: {"idle", "read", "writing", "answered"}, id: ClientIds,
                          body: Bodies, kind: Kind, settled: BOOLEAN]]

(* Whoever is answered finds in the row what the request said, however     *)
(* requests with one client id overlap, fail and are sent again with other *)
(* texts.                                                                  *)
MessageIsOnes ==
  \A s \in Sends : send[s].phase = "answered" =>
    LET m == message[send[s].id] IN m.stored /\ m.body = send[s].body /\ m.kind = send[s].kind
=============================================================================
