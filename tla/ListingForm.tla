---------------------------- MODULE ListingForm ----------------------------
(***************************************************************************)
(* The form an owner lists produce with (components/ListingForm.tsx) and   *)
(* POST /api/listings, in one tab.  A guest's listing waits in             *)
(* sessionStorage for the sign-in, by a mailed link or its token; then     *)
(* either the token form or, after the link, an effect of the fresh page   *)
(* submits it.                                                             *)
(*                                                                         *)
(* Every mount of the form is a form of its own, with its formState; a     *)
(* handler is a task of its form, from one await to the next, which goes   *)
(* on when the form is unmounted and dies with the document.  A submission *)
(* is a number; its fields are AddressField's business, and one that does  *)
(* not validate changes nothing here.  better-auth and the geocoder are    *)
(* external; a session, once it is there, stays.                           *)
(***************************************************************************)
EXTENDS Naturals, FiniteSets

CONSTANTS
  MaxForms,        \* bound: mounts of the form
  MaxSubmissions,  \* bound: times the form is submitted
  MaxTasks,        \* bound: handlers under way at a time
  MaxClicks        \* bound: links opened in the tab

ASSUME ListingFormConstants ==
  /\ MaxForms \in Nat \ {0} /\ MaxSubmissions \in Nat \ {0}
  /\ MaxTasks \in Nat \ {0} /\ MaxClicks \in Nat

Form       == 1..MaxForms
Submission == 1..MaxSubmissions
Task       == 1..MaxTasks
None       == 0

VARIABLES
  \* the server
  session,     \* the tab's cookie is that of a session
  mailed,      \* a link has been mailed
  created,     \* how many listings each submission created, up to two
  \* the tab
  store,       \* sessionStorage's pendingListing
  param,       \* listing_complete=true in the page's URL
  seen,        \* context().session
  form,        \* the last form mounted
  shown,       \* it is mounted still
  formState,
  tasks,
  submitted,   \* how often the form has been submitted
  clicks,
  autos,       \* history: submissions of the effect
  asked,       \* history: submissions not withdrawn
  unattended   \* history: submissions with a POST made or left without its form,
               \* or with a lost answer

serverVars == <<session, mailed, created>>
pageVars   == <<store, param, seen, form, shown>>
history    == <<clicks, autos, unattended>>
vars == <<serverVars, pageVars, formState, tasks, submitted, asked, history>>

FormStates == {"initial", "awaiting-magic-link", "submitting", "error"}
Stages == {"idle", "geocoding", "sending", "verifying", "call", "ok", "failed"}
Busy   == {"geocoding", "sending", "call", "ok", "failed"}
Idle   == [stage |-> "idle", form |-> None, n |-> None]

TypeOK ==
  /\ session \in BOOLEAN /\ mailed \in BOOLEAN
  /\ created \in [Submission -> 0..2]
  /\ store \in Submission \cup {None} /\ param \in BOOLEAN /\ seen \in BOOLEAN
  /\ form \in Form \cup {None} /\ shown \in BOOLEAN
  /\ formState \in [Form -> FormStates]
  /\ tasks \in [Task -> [stage: Stages, form: Form \cup {None}, n: Submission \cup {None}]]
  /\ \A i \in Task : tasks[i].form <= form /\ (tasks[i].stage \in Busy => tasks[i].n # None)
  /\ submitted \in 0..MaxSubmissions /\ clicks \in 0..MaxClicks /\ autos \in Nat
  /\ asked \subseteq Submission /\ unattended \subseteq Submission

Init ==
  /\ session \in BOOLEAN /\ mailed = FALSE
  /\ created = [n \in Submission |-> 0]
  /\ store = None /\ param = FALSE /\ seen = FALSE
  /\ form = None /\ shown = FALSE
  /\ formState = [f \in Form |-> "initial"]
  /\ tasks = [i \in Task |-> Idle]
  /\ submitted = 0 /\ clicks = 0 /\ autos = 0
  /\ asked = {} /\ unattended = {}

IsIdle(i)    == tasks[i].stage = "idle"
FreeTask(i)  == IsIdle(i) /\ \A j \in Task : j < i => ~IsIdle(j)
Work(stage, f, n) == [stage |-> stage, form |-> f, n |-> n]
End(i)       == tasks' = [tasks EXCEPT ![i] = Idle]
Shows(f, state) == formState' = IF f = None THEN formState ELSE [formState EXCEPT ![f] = state]
IsOpen(f)    == shown /\ f = form

(* POSTs under way, whose form is about to go.                             *)
Abandoned == {tasks[i].n : i \in {j \in Task : tasks[j].stage \in {"call", "ok", "failed"}}}

Sessions == {session, FALSE}

-----------------------------------------------------------------------------
(* Pages.                                                                  *)

ParamCleared(url) == FALSE

(* A form is mounted; its effect submits what is pending.                  *)
Mount(user, url, running) ==
  /\ form < MaxForms
  /\ form' = form + 1 /\ shown' = TRUE
  /\ seen' = user
  /\ IF user /\ url /\ store # None
     THEN /\ param' = ParamCleared(url)
          /\ autos' = autos + 1
          /\ formState' = [formState EXCEPT ![form + 1] = "submitting"]
          /\ \E i \in Task : /\ running[i].stage = "idle"
                             /\ tasks' = [running EXCEPT ![i] = Work("call", form + 1, store)]
     ELSE param' = url /\ tasks' = running /\ UNCHANGED <<autos, formState>>
  /\ UNCHANGED <<serverVars, store, submitted, asked>>

(* A POST on the wire is served although its document is gone.             *)
Unloaded == [i \in Task |-> IF tasks[i].stage = "call"
                            THEN [tasks[i] EXCEPT !.form = None] ELSE Idle]

(* The owner comes to the page by a link, or back to its URL.              *)
Visit ==
  /\ ~shown
  /\ \E user \in Sessions, url \in {param, FALSE} : Mount(user, url, tasks)
  /\ UNCHANGED <<clicks, unattended>>

Leave ==
  /\ shown
  /\ shown' = FALSE /\ seen' \in Sessions
  /\ unattended' = unattended \cup Abandoned
  /\ UNCHANGED <<serverVars, store, param, form, formState, tasks, submitted, asked,
                 clicks, autos>>

Reload ==
  /\ shown
  /\ \E user \in Sessions : Mount(user, param, Unloaded)
  /\ unattended' = unattended \cup Abandoned
  /\ UNCHANGED clicks

(* The mailed link arrives at the server, from Click or another tab.       *)
OpenLink ==
  /\ mailed
  /\ session' = TRUE
  /\ UNCHANGED <<mailed, created, pageVars, formState, tasks, submitted, asked, history>>

(* The link is opened in this tab; its token may have been used or expired.*)
Click ==
  /\ mailed /\ clicks < MaxClicks
  /\ clicks' = clicks + 1
  /\ \E user \in Sessions : Mount(user, TRUE, Unloaded)
  /\ unattended' = unattended \cup Abandoned

-----------------------------------------------------------------------------
(* handleSubmit.                                                           *)

(* With its coordinates the listing is posted, or stored for the sign-in:  *)
(* the storage may be full, the email address may be wrong.                *)
Located(i, f, n) ==
  IF seen
  THEN /\ tasks' = [tasks EXCEPT ![i] = Work("call", f, n)]
       /\ Shows(f, "submitting")
       /\ unattended' = IF IsOpen(f) THEN unattended ELSE unattended \cup {n}
       /\ UNCHANGED store
  ELSE /\ UNCHANGED unattended
       /\ \/ End(i) /\ Shows(f, "initial") /\ UNCHANGED store
          \/ /\ store' \in {store, n}
             /\ tasks' = [tasks EXCEPT ![i] = Work("sending", f, n)]
             /\ Shows(f, "submitting")

Accepts == shown /\ formState[form] \in {"initial", "error"} /\ submitted < MaxSubmissions

(* An address picked from the suggestions has its coordinates.             *)
SubmitPicked ==
  /\ Accepts
  /\ submitted' = submitted + 1 /\ asked' = asked \cup {submitted + 1}
  /\ \E i \in Task : FreeTask(i) /\ Located(i, form, submitted + 1)
  /\ UNCHANGED <<serverVars, param, seen, form, shown, clicks, autos>>

(* One entered by hand is looked up.                                       *)
SubmitManual ==
  /\ Accepts
  /\ submitted' = submitted + 1 /\ asked' = asked \cup {submitted + 1}
  /\ \E i \in Task :
       /\ FreeTask(i)
       /\ tasks' = [tasks EXCEPT ![i] = Work("geocoding", form, submitted + 1)]
  /\ Shows(form, "submitting")
  /\ UNCHANGED <<serverVars, pageVars, history>>

Geocoded(i) ==
  /\ tasks[i].stage = "geocoding"
  /\ Located(i, tasks[i].form, tasks[i].n)
  /\ UNCHANGED <<serverVars, param, seen, form, shown, submitted, asked, clicks, autos>>

(* geocodeAddress throws: nothing found, or no usable answer.              *)
NotGeocoded(i) ==
  /\ tasks[i].stage = "geocoding"
  /\ Shows(tasks[i].form, "error") /\ End(i)
  /\ UNCHANGED <<serverVars, pageVars, submitted, asked, history>>

LinkSent(i) ==
  /\ tasks[i].stage = "sending"
  /\ mailed' = TRUE
  /\ Shows(tasks[i].form, "awaiting-magic-link") /\ End(i)
  /\ UNCHANGED <<session, created, pageVars, submitted, asked, history>>

LinkNotSent(i) ==
  /\ tasks[i].stage = "sending"
  /\ Shows(tasks[i].form, "error") /\ End(i)
  /\ UNCHANGED <<serverVars, pageVars, submitted, asked, history>>

-----------------------------------------------------------------------------
(* MagicLinkWaiting.                                                       *)

(* A submission some handler still has in hand is not withdrawn.           *)
InHand == {tasks[i].n : i \in Task}

(* Faulty variant: the listing stays stored.                               *)
CancelKeeping ==
  /\ shown /\ formState[form] = "awaiting-magic-link"
  /\ Shows(form, "initial")
  /\ asked' = asked \cap InHand
  /\ UNCHANGED <<serverVars, pageVars, tasks, submitted, history>>

(* handleMagicLinkCancel.                                                  *)
Cancel ==
  /\ shown /\ formState[form] = "awaiting-magic-link"
  /\ Shows(form, "initial")
  /\ store' = None
  /\ asked' = asked \cap InHand
  /\ UNCHANGED <<serverVars, param, seen, form, shown, tasks, submitted, history>>

EnterToken ==
  /\ shown /\ formState[form] = "awaiting-magic-link"
  /\ \E i \in Task : /\ FreeTask(i)
                     /\ tasks' = [tasks EXCEPT ![i] = Work("verifying", form, None)]
  /\ UNCHANGED <<serverVars, pageVars, formState, submitted, asked, history>>

NotVerified(i) ==
  /\ tasks[i].stage = "verifying"
  /\ End(i)
  /\ UNCHANGED <<serverVars, pageVars, formState, submitted, asked, history>>

(* Faulty variant: no guard against a submission under way.                *)
ResumesAlways(f) == store # None

(* handleMagicLinkVerified submits what is pending.                        *)
Resumes(f) == formState[f] # "submitting" /\ store # None

Verified(i) ==
  /\ tasks[i].stage = "verifying" /\ mailed
  /\ session' = TRUE
  /\ LET f == tasks[i].form
     IN  IF Resumes(f)
         THEN /\ tasks' = [tasks EXCEPT ![i] = Work("call", f, store)]
              /\ Shows(f, "submitting")
              /\ unattended' = IF IsOpen(f) THEN unattended ELSE unattended \cup {store}
         ELSE End(i) /\ UNCHANGED <<formState, unattended>>
  /\ UNCHANGED <<mailed, created, pageVars, submitted, asked, clicks, autos>>

-----------------------------------------------------------------------------
(* POST /api/listings: without a session or a valid body, or when the      *)
(* database fails, no listing is created; the answer may be lost.          *)
Serve(i) ==
  /\ tasks[i].stage = "call"
  /\ LET n == tasks[i].n
     IN  \/ /\ session
            /\ created' = [created EXCEPT ![n] = IF @ < 2 THEN @ + 1 ELSE @]
            /\ \/ tasks' = [tasks EXCEPT ![i].stage = "ok"] /\ UNCHANGED unattended
               \/ /\ tasks' = [tasks EXCEPT ![i].stage = "failed"]
                  /\ unattended' = unattended \cup {n}
         \/ tasks' = [tasks EXCEPT ![i].stage = "failed"] /\ UNCHANGED <<created, unattended>>
  /\ UNCHANGED <<session, mailed, pageVars, formState, submitted, asked, clicks, autos>>

(* Faulty variant: the pending listing outlives its success.               *)
CreatedKeeping(i) ==
  /\ tasks[i].stage = "ok"
  /\ IF tasks[i].form = None
     THEN UNCHANGED <<pageVars, unattended>> /\ End(i)
     ELSE /\ shown' = FALSE
          /\ unattended' = unattended \cup (Abandoned \ {tasks[i].n})
          /\ seen' \in Sessions
          /\ End(i)
          /\ UNCHANGED <<store, param, form>>
  /\ UNCHANGED <<serverVars, formState, submitted, asked, clicks, autos>>

(* submitListing goes on: the tab goes to the new listing's page, also     *)
(* from another form than the one that submitted it.                       *)
Created(i) ==
  /\ tasks[i].stage = "ok"
  /\ IF tasks[i].form = None
     THEN UNCHANGED <<pageVars, unattended>> /\ End(i)
     ELSE /\ store' = None
          /\ shown' = FALSE
          /\ unattended' = unattended \cup (Abandoned \ {tasks[i].n})
          /\ seen' \in Sessions
          /\ End(i)
          /\ UNCHANGED <<param, form>>
  /\ UNCHANGED <<serverVars, formState, submitted, asked, clicks, autos>>

(* The error is shown; what is pending stays for the next attempt.         *)
Failed(i) ==
  /\ tasks[i].stage = "failed"
  /\ Shows(tasks[i].form, "error") /\ End(i)
  /\ UNCHANGED <<serverVars, pageVars, submitted, asked, history>>

Handler(i) ==
  \/ Geocoded(i) \/ NotGeocoded(i) \/ LinkSent(i) \/ LinkNotSent(i)
  \/ Verified(i) \/ NotVerified(i) \/ Serve(i) \/ Created(i) \/ Failed(i)

Next ==
  \/ Visit \/ Leave \/ Reload \/ OpenLink \/ Click
  \/ SubmitPicked \/ SubmitManual \/ Cancel \/ EnterToken
  \/ \E i \in Task : Handler(i)

Spec == Init /\ [][Next]_vars

-----------------------------------------------------------------------------
(* A form works on one submission at a time, and says so: the button is    *)
(* disabled exactly while a handler of the form is on its way.             *)
OneAtATime ==
  /\ \A i, j \in Task : tasks[i].stage \in Busy /\ tasks[j].stage \in Busy
                        /\ tasks[i].form = tasks[j].form /\ tasks[i].form # None => i = j
  /\ \A i \in Task : tasks[i].stage \in Busy /\ tasks[i].form # None
                     => formState[tasks[i].form] = "submitting"

(* `Submitting...' is shown only while there is something to wait for.     *)
SubmittingIsUnderWay ==
  shown /\ formState[form] = "submitting" =>
    \E i \in Task : tasks[i].form = form /\ tasks[i].stage \in Busy

(* However often tokens are entered and links opened, one submission       *)
(* creates one listing, as long as its form stays open for the answer and  *)
(* the answer is not lost.                                                 *)
OnceEach == \A n \in Submission : n \notin unattended => created[n] <= 1

(* What has been listed is not left to be listed again by the next link,   *)
(* unless its answer is still to come or was lost.                         *)
ListedIsNotPending ==
  store # None /\ created[store] > 0 =>
    \/ store \in unattended
    \/ \E i \in Task : tasks[i].n = store /\ tasks[i].stage = "ok"

(* One opened link submits what was pending at most once.                  *)
AutoSubmitOncePerLink == autos <= clicks

(* `Use different email' withdraws the listing: nothing posts it later,    *)
(* unless a handler already has it in hand.                                *)
CancelWithdrawsListing ==
  [][\A i \in Task : tasks[i].stage # "call" /\ tasks'[i].stage = "call"
                     => tasks'[i].n \in asked']_vars

(* The form, the session storage and the handlers in flight agree on what  *)
(* is being submitted, and by whom.                                        *)
ListingFormInv ==
  /\ TypeOK
  /\ OneAtATime
  /\ SubmittingIsUnderWay
  /\ ListedIsNotPending
  /\ AutoSubmitOncePerLink
=============================================================================
