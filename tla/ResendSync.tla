----------------------------- MODULE ResendSync -----------------------------
(***************************************************************************)
(* A user's contact at Resend: the hooks of auth.server.ts start a durable *)
(* workflow per revision of the user, whose one step looks the contact up  *)
(* and creates or renames it (sync-user-to-resend.workflow.server.ts,      *)
(* resend-contacts.server.ts).  Meanwhile the user may opt out, and switch *)
(* a topic on or off on the notifications page.                            *)
(*                                                                         *)
(* One user: no two users share a contact.  A revision is named by its     *)
(* number, which stands for updated_at in milliseconds and for both names. *)
(* The rows behave as Kokoto's do; the queue lets Concurrency of them run. *)
(* A sync's request that gets no answer took effect before that is noticed,*)
(* or never.  Resend is external: it refuses to create a contact twice, and*)
(* a field that a request leaves out keeps its value.                      *)
(*                                                                         *)
(* The page in view is one; calls of others, of pages that were left while *)
(* their call was under way, or in other tabs, are known by what they ask. *)
(***************************************************************************)
EXTENDS Naturals, FiniteSets

CONSTANTS
  MaxRevs,      \* bound: revisions of the user
  OneWord,      \* revisions whose name has one word: no last name
  Concurrency,  \* of the `resend' queue
  MaxAttempts,  \* dispatches of a row whose step throws
  MaxTries,     \* MAX_STEP_ATTEMPTS
  MaxCrashes,   \* bound: deaths of the process
  Apart,        \* bound: the page is used by users whose syncs meet no trouble
  DefaultOn     \* the topic's default_subscription is opt_in

ASSUME ResendConstants ==
  /\ MaxRevs \in Nat /\ MaxCrashes \in Nat
  /\ OneWord \subseteq 1..MaxRevs
  /\ Concurrency \in Nat \ {0}
  /\ MaxAttempts \in Nat /\ MaxAttempts >= 2
  /\ MaxTries \in Nat \ {0}
  /\ Apart \in BOOLEAN /\ DefaultOn \in BOOLEAN

Rev == 1..MaxRevs

VARIABLES
  rev,       \* the revision in the user table; 0: no user yet
  hooks,     \* revisions whose enqueueResendSync is under way
  \* the workflow rows, by idempotency key
  status, attempts,
  logged,    \* rows whose step has succeeded and is logged
  place,     \* what the worker of a row is about to do; "idle": it has none
  tries,     \* the attempt of upsertWithRetry
  \* at Resend
  firstName, \* the revision the contact's first name is from; 0: no contact
  lastName,  \* the revision its last name is from; 0: none
  optedOut,  \* contact.unsubscribed
  topic,     \* the contact's setting of the topic: "default", "on", "off"
  \* the switch on the notifications page
  shown,     \* `checked', and what the call under way asks for
  pending, failed,
  applied,   \* that call has been carried out
  others,    \* what calls of other pages ask for
  crashes,
  alone,     \* history: revisions enqueued when all before were through
  troubled,  \* history: rows Resend refused or did not answer, that a crash
             \* interrupted, or for which the database failed
  quiet      \* history: no other call since the page was read, or its own
             \* carried out

rowVars     == <<status, attempts, logged, place, tries>>
contactVars == <<firstName, lastName, optedOut, topic>>
pageVars    == <<shown, pending, failed, applied, others, quiet>>
history     == <<alone, troubled>>
syncVars == <<rev, hooks, rowVars, contactVars, pageVars, crashes, history>>

Ended   == {"success", "error"}
Running == {s \in Rev : status[s] = "running"}

(* perQueueInFlight: the workers of this process.                          *)
InFlight == {s \in Rev : place[s] # "idle"}

SyncTypeOK ==
  /\ rev \in 0..MaxRevs
  /\ hooks \subseteq 1..rev
  /\ status \in [Rev -> {"none", "pending", "running"} \cup Ended]
  /\ attempts \in [Rev -> 0..MaxAttempts + MaxCrashes]
  /\ logged \subseteq Rev
  /\ place \in [Rev -> {"idle", "get", "post", "patch", "answer", "finish"}]
  /\ tries \in [Rev -> 0..MaxTries]
  /\ firstName \in 0..MaxRevs /\ lastName \in 0..MaxRevs
  /\ optedOut \in BOOLEAN
  /\ topic \in {"default", "on", "off"}
  /\ shown \in BOOLEAN /\ pending \in BOOLEAN
  /\ failed \in BOOLEAN /\ applied \in BOOLEAN
  /\ others \subseteq BOOLEAN /\ quiet \in BOOLEAN
  /\ crashes \in 0..MaxCrashes
  /\ alone \subseteq Rev /\ troubled \subseteq Rev

SyncInit ==
  /\ rev = 0 /\ hooks = {}
  /\ status = [s \in Rev |-> "none"]
  /\ attempts = [s \in Rev |-> 0]
  /\ place = [s \in Rev |-> "idle"]
  /\ tries = [s \in Rev |-> 0]
  /\ logged = {}
  /\ firstName = 0 /\ lastName = 0 /\ optedOut = FALSE /\ topic = "default"
  /\ shown = DefaultOn /\ pending = FALSE /\ failed = FALSE /\ applied = FALSE
  /\ others = {} /\ quiet = TRUE
  /\ crashes = 0
  /\ alone = {} /\ troubled = {}

-----------------------------------------------------------------------------
(* The hooks.                                                              *)

(* user.create.after and user.update.after.                                *)
SaveUser ==
  /\ rev < MaxRevs
  /\ rev' = rev + 1
  /\ hooks' = hooks \cup {rev + 1}
  /\ UNCHANGED <<rowVars, contactVars, pageVars, crashes, history>>

(* The import or startWorkflow throws before its INSERT.                   *)
EnqueueFails(s) ==
  /\ s \in hooks
  /\ hooks' = hooks \ {s}
  /\ UNCHANGED <<rev, rowVars, contactVars, pageVars, crashes, history>>

Enqueue(s) ==
  /\ s \in hooks
  /\ hooks' = hooks \ {s}
  /\ status' = [status EXCEPT ![s] = "pending"]
  /\ alone' = IF hooks = {s} /\ \A t \in Rev : status[t] \in {"none"} \cup Ended
              THEN alone \cup {s} ELSE alone
  /\ UNCHANGED <<rev, attempts, logged, place, tries, contactVars, pageVars, crashes, troubled>>

-----------------------------------------------------------------------------
(* A worker: the step upsertContact, its row in the log, the row's end.    *)

(* A step that is logged is not run again.                                 *)
Claim(s) ==
  /\ status[s] = "pending"
  /\ Cardinality(InFlight) < Concurrency
  /\ status' = [status EXCEPT ![s] = "running"]
  /\ attempts' = [attempts EXCEPT ![s] = @ + 1]
  /\ place' = [place EXCEPT ![s] = IF s \in logged THEN "finish" ELSE "get"]
  /\ tries' = [tries EXCEPT ![s] = 1]
  /\ UNCHANGED <<rev, hooks, logged, contactVars, pageVars, crashes, history>>

GoesOn(s, p) ==
  /\ place' = [place EXCEPT ![s] = p]
  /\ UNCHANGED <<rev, hooks, status, attempts, tries, pageVars, crashes, history>>

(* Faulty variant: a contact that is there is taken for up to date.        *)
GetFindsEnough(s) ==
  /\ place[s] = "get"
  /\ GoesOn(s, IF firstName = 0 THEN "post" ELSE "answer")
  /\ UNCHANGED <<logged, contactVars>>

(* GET /contacts/{email}                                                   *)
Get(s) ==
  /\ place[s] = "get"
  /\ GoesOn(s, IF firstName = 0 THEN "post" ELSE "patch")
  /\ UNCHANGED <<logged, contactVars>>

(* splitName: the last name that is sent, or what stands in its place.     *)
LastNameOf(s, otherwise) == IF s \in OneWord THEN otherwise ELSE s

(* POST /contacts                                                          *)
Post(s) ==
  /\ place[s] = "post" /\ firstName = 0
  /\ firstName' = s /\ lastName' = LastNameOf(s, 0)
  /\ optedOut' = FALSE /\ topic' = "default"
  /\ GoesOn(s, "answer") /\ UNCHANGED logged

(* Faulty variant: PATCH carries `unsubscribed: false' as POST does.       *)
PatchResubscribes(s) ==
  /\ place[s] = "patch"
  /\ firstName' = s /\ lastName' = LastNameOf(s, lastName)
  /\ optedOut' = FALSE /\ UNCHANGED topic
  /\ GoesOn(s, "answer") /\ UNCHANGED logged

(* PATCH /contacts/{id}: a last name that is undefined is not in the JSON. *)
Patch(s) ==
  /\ place[s] = "patch"
  /\ firstName' = s /\ lastName' = LastNameOf(s, lastName)
  /\ UNCHANGED <<optedOut, topic>>
  /\ GoesOn(s, "answer") /\ UNCHANGED logged

(* The answer arrives, and the step is logged.                             *)
Answer(s) ==
  /\ place[s] = "answer"
  /\ logged' = logged \cup {s}
  /\ GoesOn(s, "finish")
  /\ UNCHANGED contactVars

Leave(s, st) ==
  /\ status' = [status EXCEPT ![s] = st]
  /\ place' = [place EXCEPT ![s] = "idle"]
  /\ tries' = [tries EXCEPT ![s] = 0]
  /\ UNCHANGED <<rev, hooks, attempts, logged, pageVars, crashes, alone>>

Finish(s) ==
  /\ place[s] = "finish"
  /\ Leave(s, "success")
  /\ UNCHANGED <<contactVars, troubled>>

(* Faulty variant: a refused upsert is not retried.                        *)
ThrowForGood(s) == Leave(s, "error")

(* The workflow throws: the row is requeued or ends.                       *)
Throw(s) == Leave(s, IF attempts[s] < MaxAttempts THEN "pending" ELSE "error")

(* The contact was created since the GET: a client error.                  *)
PostConflicts(s) ==
  /\ place[s] = "post" /\ firstName # 0
  /\ Throw(s)
  /\ UNCHANGED <<contactVars, troubled>>

(* Any other client error, or a statement that throws: the check before    *)
(* the step, the row in the log, the row's end.                            *)
Refuse(s) ==
  /\ place[s] # "idle"
  /\ Throw(s)
  /\ troubled' = troubled \cup {s}
  /\ UNCHANGED contactVars

(* Faulty variant: transient errors are retried without counting.          *)
TryAgainUncounted(s) ==
  /\ place' = [place EXCEPT ![s] = "get"]
  /\ UNCHANGED <<rev, hooks, status, attempts, logged, tries, pageVars, crashes, alone>>

(* upsertWithRetry after a transient error, its sleep included.            *)
TryAgain(s) ==
  IF tries[s] < MaxTries
  THEN /\ place' = [place EXCEPT ![s] = "get"]
       /\ tries' = [tries EXCEPT ![s] = @ + 1]
       /\ UNCHANGED <<rev, hooks, status, attempts, logged, pageVars, crashes, alone>>
  ELSE Throw(s)

(* A server error, a 429, or no answer, to any of the requests.            *)
Unreachable(s) ==
  /\ place[s] \in {"get", "post", "patch", "answer"}
  /\ TryAgain(s)
  /\ troubled' = troubled \cup {s}
  /\ UNCHANGED contactVars

(* Loading, requeueing or ending the row throws: the row stays as it is,   *)
(* and its worker is gone.                                                 *)
Abandon(s) ==
  /\ place[s] # "idle"
  /\ Leave(s, "running")
  /\ troubled' = troubled \cup {s}
  /\ UNCHANGED contactVars

(* The process dies.  The next one reclaims the rows whose lease is over by*)
(* its boot, and never again: the others wait for a later boot.  The page's*)
(* call, if one is under way, is left without an answer (TopicCallFails).  *)
Crash ==
  /\ crashes < MaxCrashes
  /\ crashes' = crashes + 1
  /\ hooks' = {}
  /\ \E lapsed \in SUBSET Running :
       status' = [s \in Rev |-> IF s \in lapsed THEN "pending" ELSE status[s]]
  /\ place' = [s \in Rev |-> "idle"]
  /\ tries' = [s \in Rev |-> 0]
  /\ troubled' = troubled \cup Running
  /\ UNCHANGED <<rev, attempts, logged, contactVars, pageVars, alone>>

-----------------------------------------------------------------------------
(* The user's own settings.                                                *)

(* The unsubscribe link in a mail: external.                               *)
OptOut ==
  /\ firstName # 0 /\ ~optedOut
  /\ optedOut' = TRUE
  /\ UNCHANGED <<rev, hooks, rowVars, firstName, lastName, topic, pageVars, crashes, history>>

Effective == IF firstName = 0 \/ topic = "default" THEN DefaultOn ELSE topic = "on"

Setting(on) == IF on THEN "on" ELSE "off"

(* The page's own call, if it is left before that is carried out.          *)
LeftBehind == IF pending /\ ~applied THEN {shown} ELSE {}

(* getNotifications, and a fresh TopicSwitch: a page that is opened or     *)
(* reloaded, also while the call of the one before is under way.  In a tab *)
(* that has been there before, the router first shows the answer it kept.  *)
LoadPage ==
  /\ pending' = FALSE /\ failed' = FALSE /\ applied' = FALSE
  /\ others' = others \cup LeftBehind
  /\ \/ shown' = Effective /\ quiet' = (others' = {})
     \/ shown' \in BOOLEAN /\ quiet' = FALSE
  /\ UNCHANGED <<rev, hooks, rowVars, contactVars, crashes, history>>

(* handleChange up to its await; the switch is disabled while pending.     *)
Toggle ==
  /\ rev > 0 /\ ~pending
  /\ shown' = ~shown
  /\ pending' = TRUE /\ failed' = FALSE /\ applied' = FALSE
  /\ UNCHANGED <<rev, hooks, rowVars, contactVars, others, quiet, crashes, history>>

(* updateContactTopics: 404 without a contact.                             *)
PatchTopic ==
  /\ pending /\ ~applied /\ firstName # 0
  /\ topic' = Setting(shown)
  /\ applied' = TRUE /\ quiet' = (others = {})
  /\ UNCHANGED <<rev, hooks, rowVars, firstName, lastName, optedOut, shown, pending, failed, others,
                 crashes, history>>

TopicCallEnds ==
  /\ pending /\ applied
  /\ pending' = FALSE /\ applied' = FALSE
  /\ UNCHANGED <<rev, hooks, rowVars, contactVars, shown, failed, others, quiet, crashes, history>>

(* No contact, a refusal, or no answer: the call may still be carried out. *)
TopicCallFails ==
  /\ pending
  /\ pending' = FALSE /\ failed' = TRUE /\ applied' = FALSE
  /\ shown' = ~shown
  /\ others' \in {others, others \cup LeftBehind} /\ quiet' = (quiet /\ others' = {})
  /\ UNCHANGED <<rev, hooks, rowVars, contactVars, crashes, history>>

(* Another page of the user, in another tab or about to be left, calls.    *)
OtherCall ==
  /\ rev > 0 /\ quiet' = FALSE
  /\ \E on \in BOOLEAN : others' = others \cup {on}
  /\ UNCHANGED <<rev, hooks, rowVars, contactVars, shown, pending, failed, applied, crashes, history>>

(* It is carried out, ...                                                  *)
OtherPatches(on) ==
  /\ on \in others /\ firstName # 0
  /\ topic' = Setting(on)
  /\ UNCHANGED <<rev, hooks, rowVars, firstName, lastName, optedOut, pageVars, crashes, history>>

(* ... and its answer is of no concern to the page in view.                *)
OtherEnds(on) ==
  /\ on \in others /\ others' = others \ {on}
  /\ UNCHANGED <<rev, hooks, rowVars, contactVars, shown, pending, failed, applied, quiet, crashes, history>>

Upsert(s) == Get(s) \/ Post(s) \/ Patch(s) \/ PostConflicts(s) \/ Answer(s) \/ Finish(s)
Fault(s)  == Refuse(s) \/ Unreachable(s) \/ Abandon(s)

Sync(s)   == Enqueue(s) \/ EnqueueFails(s) \/ Claim(s) \/ Upsert(s)

Page ==
  \/ LoadPage \/ Toggle \/ PatchTopic \/ TopicCallEnds \/ TopicCallFails \/ OtherCall
  \/ \E on \in BOOLEAN : OtherPatches(on) \/ OtherEnds(on)

PageUnused == pageVars = <<DefaultOn, FALSE, FALSE, FALSE, {}, TRUE>> /\ topic = "default"

SyncNext ==
  \/ SaveUser \/ OptOut
  \/ \E s \in Rev : Sync(s)
  \/ (Apart => PageUnused) /\ (Crash \/ \E s \in Rev : Fault(s))
  \/ (Apart => troubled = {} /\ crashes = 0) /\ Page

(* Rows are claimed and requests end, one way or another.                  *)
Fairness ==
  \A s \in Rev : /\ WF_syncVars(Claim(s))
                 /\ WF_syncVars(Upsert(s) \/ Fault(s))

SyncSpec == SyncInit /\ [][SyncNext]_syncVars

FairSpec == SyncSpec /\ Fairness

-----------------------------------------------------------------------------
(* No sync subscribes a user again who has opted out, however lookups,     *)
(* creations, retries and crashes interleave.                              *)
OptOutKept == [][optedOut => optedOut']_optedOut

(* The contact has the names of a revision, as far as it has them: Resend  *)
(* keeps the last name of before when the new name is one word.            *)
ShowsNamesOf(s) == firstName = s /\ (s \notin OneWord => lastName = s)

(* If every earlier sync was through when the last revision was enqueued,  *)
(* the contact carries its names once its row has succeeded, over retries, *)
(* crashes and a step that is not run again.                               *)
LastEditShows ==
  rev \in alone /\ status[rev] = "success" => ShowsNamesOf(rev)

(* Two syncs racing to create the contact never cost a revision its sync:  *)
(* a row fails only if Resend refused or was not reached, the database     *)
(* failed, or a process died while it ran.                                 *)
RaceNeverFatal ==
  \A s \in Rev : status[s] = "error" => s \in troubled

(* Without an error message the switch shows what Resend has, unless the   *)
(* page was read while a call of another was under way, or one began since.*)
(* A call of its own that is carried out after those makes it true again.  *)
SwitchTellsTruth == ~pending /\ ~failed /\ quiet => shown = Effective

(* Every sync ends, however often Resend fails, or is left to a later boot *)
(* by a crash or by a statement that throws.                               *)
SyncEnds ==
  \A s \in Rev : status[s] = "pending" ~> status[s] \in Ended \/ s \in Running \ InFlight

(* What the two sides are told is true: a sync that failed met trouble, a  *)
(* switch without an error shows what Resend has.                          *)
SyncInv == SyncTypeOK /\ RaceNeverFatal /\ SwitchTellsTruth
=============================================================================
