-------------------------- MODULE InquirySubmission --------------------------
(***************************************************************************)
(* A gleaner contacts the owner of a listing: the submitInquiry server     *)
(* function (api/inquiries.ts) and the durable workflow it starts          *)
(* (workflows/submit-inquiry.workflow.server.ts), which mails the owner    *)
(* and then inserts the inquiry.  The workflow runs on the promise of the  *)
(* runtime, DurableWorkflow, which Kokoto is shown to implement.           *)
(*                                                                         *)
(* One listing.  A request's handler interleaves with the other requests   *)
(* and with the workflows at every await.  The clock counts fractions of a *)
(* UTC day, DayLength of them; a request lasts less than one of them, a    *)
(* workflow may take any time (it waits for a boot if its process dies).   *)
(*                                                                         *)
(* Definitions under "Faulty variant" are used by no action: see Kokoto.   *)
(***************************************************************************)
EXTENDS Naturals, FiniteSets

CONSTANTS
  Request,    \* calls of submitInquiry
  User,       \* the users that may be signed in
  Owner,      \* the one who owns the listing
  NoUser,     \* no session
  Row,        \* ids of workflow rows
  NoRow,
  DayLength,  \* clock units in a UTC day
  MaxClock,   \* bound: the clock stops here
  MaxSends    \* bound: how often the mail step of a row may run

ASSUME InquiryConstants ==
  /\ Owner \in User
  /\ NoUser \notin User
  /\ NoRow \notin Row
  /\ DayLength \in Nat \ {0}
  /\ MaxClock \in Nat
  /\ MaxSends \in Nat

VARIABLES
  \* the database
  accepting,  \* listings.status is `available' or `private'
  state,      \* the workflow rows, as DurableWorkflow has them ...
  stepLog,
  effects,
  key,        \* ... and the idempotency key of each: the gleaner and the day
  inquiries,  \* the inquiries table
  \* the handlers
  pc,         \* how far the handler of a request is, or how it has answered
  who,        \* the session's user
  born,       \* when the request came in
  row,        \* the id in the workflow handle
  clock

dbVars  == <<accepting, state, stepLog, effects, key, inquiries>>
reqVars == <<pc, who, born, row>>
vars    == <<dbVars, reqVars, clock>>

SendOwnerEmailStep == 1
CreateInquiryStep  == 2

Runtime == INSTANCE DurableWorkflow
             WITH WF <- Row, NSteps <- 2, TxSteps <- {CreateInquiryStep}

Active   == {"listed", "fresh", "waiting"}
Rejected == {"AUTH_REQUIRED", "NOT_ALLOWED", "RATE_LIMITED", "EMAIL_FAILED", "failed"}
Answers  == {"ok", "lost"} \cup Rejected
Today    == clock \div DayLength
Key      == [who: User, day: Nat]
NoKey    == [who |-> NoUser, day |-> 0]

TypeOK ==
  /\ Runtime!TypeOK
  /\ accepting \in BOOLEAN
  /\ key \in [Row -> Key \cup {NoKey}]
  /\ inquiries \subseteq [row: Row, who: User, at: Nat]
  /\ pc \in [Request -> {"idle"} \cup Active \cup Answers]
  /\ who \in [Request -> User \cup {NoUser}]
  /\ born \in [Request -> Nat]
  /\ row \in [Request -> Row \cup {NoRow}]
  /\ clock \in Nat

Init ==
  /\ Runtime!Init
  /\ accepting = TRUE
  /\ key = [i \in Row |-> NoKey]
  /\ inquiries = {}
  /\ pc = [r \in Request |-> "idle"]
  /\ who = [r \in Request |-> NoUser]
  /\ born = [r \in Request |-> 0]
  /\ row = [r \in Request |-> NoRow]
  /\ clock = 0

Become(r, p) == pc' = [pc EXCEPT ![r] = p]

-----------------------------------------------------------------------------
(* The handler of submitInquiry.                                           *)

(* getSession, getListingWithOwner and the checks on what they returned.   *)
ReadListing(r, u) ==
  /\ pc[r] = "idle"
  /\ Become(r, IF u = NoUser THEN "AUTH_REQUIRED"
               ELSE IF ~accepting \/ u = Owner THEN "NOT_ALLOWED"
               ELSE "listed")
  /\ who' = [who EXCEPT ![r] = u]
  /\ born' = [born EXCEPT ![r] = clock]
  /\ UNCHANGED <<dbVars, row, clock>>

(* hasRecentInquiry: one within the last 24 hours.                         *)
HasRecent(u) == \E q \in inquiries : q.who = u /\ q.at + DayLength > clock

CheckRecent(r) ==
  /\ pc[r] = "listed"
  /\ Become(r, IF HasRecent(who[r]) THEN "RATE_LIMITED" ELSE "fresh")
  /\ UNCHANGED <<dbVars, who, born, row, clock>>

(* inquiryWorkflowIdempotencyKey, for the one listing.                     *)
KeyOf(r) == [who |-> who[r], day |-> Today]

(* INSERT ... ON CONFLICT(idempotency_key) DO NOTHING, and the id that is  *)
(* then found under the key.                                               *)
Enqueued(r, i) ==
  IF \E j \in Row : key[j] = KeyOf(r)
  THEN key[i] = KeyOf(r) /\ UNCHANGED <<state, stepLog, effects, key>>
  ELSE Runtime!Enqueue(i) /\ key' = [key EXCEPT ![i] = KeyOf(r)]

(* Faulty variant: no unique key, every submit starts a workflow.          *)
SubmitUnkeyed(r) ==
  /\ pc[r] = "fresh"
  /\ \E i \in Row :
       /\ Runtime!Enqueue(i)
       /\ key' = [key EXCEPT ![i] = KeyOf(r)]
       /\ Become(r, "waiting")
       /\ row' = [row EXCEPT ![r] = i]
  /\ UNCHANGED <<accepting, inquiries, who, born, clock>>

Submit(r) ==
  /\ pc[r] = "fresh"
  /\ \E i \in Row :
       /\ Enqueued(r, i)
       /\ Become(r, "waiting")
       /\ row' = [row EXCEPT ![r] = i]
  /\ UNCHANGED <<accepting, inquiries, who, born, clock>>

(* startWorkflow throws after its INSERT: the row is there all the same.   *)
SubmitFails(r) ==
  /\ pc[r] = "fresh"
  /\ \E i \in Row : Enqueued(r, i)
  /\ Become(r, "failed")
  /\ UNCHANGED <<accepting, inquiries, who, born, row, clock>>

(* A query throws, or the user is not found, before anything is written.   *)
CheckFails(r) ==
  /\ pc[r] \in {"listed", "fresh"}
  /\ Become(r, "failed")
  /\ UNCHANGED <<dbVars, who, born, row, clock>>

(* Faulty variant: any end of the workflow counts as its success.          *)
ResultOfAnyEnd(r) ==
  /\ pc[r] = "waiting"
  /\ state[row[r]] \in Runtime!Ends
  /\ Become(r, "ok")
  /\ UNCHANGED <<dbVars, who, born, row, clock>>

(* handle.result finds a finished row ...                                  *)
Result(r) ==
  /\ pc[r] = "waiting"
  /\ state[row[r]] \in Runtime!Ends
  /\ Become(r, IF state[row[r]] = "success" THEN "ok" ELSE "EMAIL_FAILED")
  /\ UNCHANGED <<dbVars, who, born, row, clock>>

(* ... or its 60 seconds are over, or its query throws.                    *)
ResultGivesUp(r) ==
  /\ pc[r] = "waiting"
  /\ Become(r, "EMAIL_FAILED")
  /\ UNCHANGED <<dbVars, who, born, row, clock>>

HandlerStep(r) ==
  \/ CheckRecent(r)
  \/ Submit(r)
  \/ SubmitFails(r)
  \/ CheckFails(r)
  \/ Result(r)
  \/ ResultGivesUp(r)

(* The server process dies, and every handler with it.                     *)
ServerDies ==
  /\ \E r \in Request : pc[r] \in Active
  /\ pc' = [r \in Request |-> IF pc[r] \in Active THEN "lost" ELSE pc[r]]
  /\ UNCHANGED <<dbVars, who, born, row, clock>>

-----------------------------------------------------------------------------
(* The workflow, as the runtime executes it.                               *)

(* The mail is accepted; its step row is not yet there.                    *)
SendOwnerEmail(i) ==
  /\ effects[i][SendOwnerEmailStep] < MaxSends
  /\ Runtime!Perform(i, SendOwnerEmailStep)
  /\ UNCHANGED <<accepting, key, inquiries, reqVars, clock>>

LogOwnerEmail(i) ==
  /\ Runtime!Log(i, SendOwnerEmailStep)
  /\ UNCHANGED <<accepting, key, inquiries, reqVars, clock>>

InsertInquiry(i) ==
  inquiries' = inquiries \cup {[row |-> i, who |-> key[i].who, at |-> clock]}

(* Faulty variant: the inquiry is recorded before the mail is sent.        *)
CreateInquiryFirst(i) ==
  /\ state[i] = "open"
  /\ CreateInquiryStep \notin stepLog[i]
  /\ stepLog' = [stepLog EXCEPT ![i] = @ \cup {CreateInquiryStep}]
  /\ effects' = [effects EXCEPT ![i][CreateInquiryStep] = @ + 1]
  /\ InsertInquiry(i)
  /\ UNCHANGED <<accepting, state, key, reqVars, clock>>

CreateInquiry(i) ==
  /\ Runtime!Commit(i, CreateInquiryStep)
  /\ InsertInquiry(i)
  /\ UNCHANGED <<accepting, key, reqVars, clock>>

(* Nothing in the application cancels a workflow.                          *)
WorkflowEnds(i) ==
  /\ \E outcome \in {"success", "error"} : Runtime!End(i, outcome)
  /\ UNCHANGED <<accepting, key, inquiries, reqVars, clock>>

WorkflowStep(i) ==
  \/ SendOwnerEmail(i)
  \/ LogOwnerEmail(i)
  \/ CreateInquiry(i)
  \/ WorkflowEnds(i)

-----------------------------------------------------------------------------
(* The owner edits the listing's status, or follows the one-click link.    *)
SetStatus ==
  /\ accepting' = ~accepting
  /\ UNCHANGED <<state, stepLog, effects, key, inquiries, reqVars, clock>>

Tick ==
  /\ clock < MaxClock
  /\ \A r \in Request : pc[r] \in Active => born[r] = clock
  /\ clock' = clock + 1
  /\ UNCHANGED <<dbVars, reqVars>>

Next ==
  \/ \E r \in Request : HandlerStep(r) \/ \E u \in User \cup {NoUser} : ReadListing(r, u)
  \/ \E i \in Row : WorkflowStep(i)
  \/ ServerDies
  \/ SetStatus
  \/ Tick

Spec == Init /\ [][Next]_vars

-----------------------------------------------------------------------------
Mailed(i)   == effects[i][SendOwnerEmailStep] > 0
Recorded(i) == \E q \in inquiries : q.row = i

(* A gleaner who is told that the inquiry went out has an inquiry on       *)
(* record, and the owner has been mailed (api/inquiries.ts, "the form sees *)
(* { inquiryId } only after both steps have committed").                   *)
OkMeansDone ==
  \A r \in Request : pc[r] = "ok" =>
    Mailed(row[r]) /\ Recorded(row[r]) /\ key[row[r]].who = who[r]

(* A gleaner who is refused for having "already contacted this owner" did  *)
(* contact the owner: there has been a mail, not just an attempt.          *)
RefusedAfterContact ==
  \A r \in Request : pc[r] = "RATE_LIMITED" =>
    \E i \in Row : key[i].who = who[r] /\ Mailed(i)

(* However many requests race, fail, are lost or are repeated, those of    *)
(* one gleaner and one UTC day lead to at most one inquiry.                *)
OneInquiryPerDay ==
  \A p, q \in inquiries : key[p.row] = key[q.row] => p = q

-----------------------------------------------------------------------------
(* The invariant behind the three.  A workflow row has a key of its own,   *)
(* from the time it is enqueued; its log says what it has done; a request  *)
(* that waits or was answered `ok' waited for a row of its own gleaner.    *)
KeyInv ==
  /\ \A i \in Row : key[i] = NoKey <=> state[i] = "none"
  /\ \A i, j \in Row : key[i] = key[j] /\ key[i] # NoKey => i = j

LogInv ==
  \A i \in Row :
    /\ state[i] = "success" => stepLog[i] = Runtime!Steps
    /\ SendOwnerEmailStep \in stepLog[i] => Mailed(i)
    /\ CreateInquiryStep \in stepLog[i] => Mailed(i) /\ Recorded(i)

InquiryInv ==
  /\ \A q \in inquiries : /\ q.who = key[q.row].who
                          /\ CreateInquiryStep \in stepLog[q.row]
                          /\ state[q.row] # "none"
  /\ \A p, q \in inquiries : p.row = q.row => p = q

HandleInv ==
  \A r \in Request :
    /\ pc[r] \in Active \cup {"ok", "RATE_LIMITED"} => who[r] \in User
    /\ pc[r] \in {"waiting", "ok"} => /\ row[r] \in Row
                                      /\ state[row[r]] # "none"
                                      /\ key[row[r]].who = who[r]

SubmissionInv ==
  TypeOK /\ KeyInv /\ LogInv /\ InquiryInv /\ HandleInv /\ OkMeansDone /\ RefusedAfterContact
=============================================================================
