---------------------------- MODULE InquiryForm ----------------------------
(***************************************************************************)
(* The form a visitor contacts an owner with (components/InquiryForm.tsx), *)
(* and the token form it shows to a guest (MagicLinkWaiting.tsx), in one   *)
(* tab: submitting, signing in by a mailed link or its token, giving a     *)
(* name, and the effect that submits what was pending when the visitor     *)
(* comes back through the link.                                            *)
(*                                                                         *)
(* A handler is a task from one await to the next.  A task goes on when    *)
(* its form is unmounted, and dies with the document.  submitInquiry and   *)
(* its workflow are InquirySubmission; here a call is answered as the      *)
(* theorems about it allow.  better-auth is external; a session, once it   *)
(* is there, stays.                                                        *)
(***************************************************************************)
EXTENDS Naturals, FiniteSets

CONSTANTS
  Listing,
  None,       \* no listing, no note, nothing stored
  MaxTasks,   \* bound: tasks under way at a time
  MaxClicks   \* bound: page loads from a link

ASSUME FormConstants ==
  /\ None \notin Listing
  /\ MaxTasks \in Nat \ {0}
  /\ MaxClicks \in Nat

Task == 1..MaxTasks

VARIABLES
  \* the server
  session,    \* the tab's cookie is that of a session
  hasName,    \* the user's name is not blank
  mailed,     \* listings to which a link has been mailed
  contacted,  \* listings whose owner has been mailed
  \* the tab
  store,      \* sessionStorage's pendingInquiry: its listing and its note
  param,      \* inquiry_complete=true in the URL of a listing's page
  at,         \* the listing whose page is open
  seen,       \* context().session: "out", "blank" or "named"
  formState,
  note,       \* where the text in the field, blank or not, was written
  hasAutoSubmitted,
  tasks,
  clicks,
  autos,      \* history: submissions of the effect
  asked       \* history: listings whose form was submitted and not cancelled

serverVars == <<session, hasName, mailed, contacted>>
pageVars   == <<at, seen, formState, note, hasAutoSubmitted>>
history    == <<clicks, autos, asked>>
vars == <<serverVars, store, param, pageVars, tasks, history>>

Stored == [listing: Listing, note: Listing]
Idle   == [stage |-> "idle", home |-> "gone", listing |-> None, note |-> None]
Stages == {"idle", "sending", "verifying", "refreshing", "naming",
           "call", "ok", "limited", "failed"}

TypeOK ==
  /\ session \in BOOLEAN /\ hasName \in BOOLEAN
  /\ mailed \subseteq Listing
  /\ contacted \subseteq Listing
  /\ store \in Stored \cup {None}
  /\ param \subseteq Listing
  /\ at \in Listing \cup {None}
  /\ seen \in {"out", "blank", "named"}
  /\ formState \in {"initial", "awaiting-magic-link", "awaiting-name", "submitting",
                    "success", "rate-limited", "error"}
  /\ note \in Listing \cup {None}
  /\ hasAutoSubmitted \in BOOLEAN
  /\ tasks \in [Task -> [stage: Stages, home: {"here", "left", "gone"},
                         listing: Listing \cup {None}, note: Listing \cup {None}]]
  /\ \A i \in Task : tasks[i].home = "here" => tasks[i].listing = at
  /\ clicks \in 0..MaxClicks /\ autos \in Nat
  /\ asked \subseteq Listing

Init ==
  /\ session = FALSE /\ hasName \in BOOLEAN
  /\ mailed = {}
  /\ contacted = {}
  /\ store = None /\ param = {}
  /\ at = None /\ seen = "out" /\ formState = "initial" /\ note = None
  /\ hasAutoSubmitted = FALSE
  /\ tasks = [i \in Task |-> Idle]
  /\ clicks = 0 /\ autos = 0 /\ asked = {}

Here(stages) == \E i \in Task : tasks[i].home = "here" /\ tasks[i].stage \in stages
UnderWay == \E i \in Task : tasks[i].home # "gone" /\ tasks[i].listing = at
IsIdle(i) == tasks[i].stage = "idle"
NextTask(i) == IsIdle(i) /\ \A j \in Task : j < i => ~IsIdle(j)
TaskOf(stage, n) == [stage |-> stage, home |-> "here", listing |-> at, note |-> n]
Set(i, task) == tasks' = [tasks EXCEPT ![i] = task]
End(i)       == Set(i, Idle)

Authenticated == seen # "out"

(* getSession, which answers null when it fails.                           *)
Sessions == {IF ~session THEN "out" ELSE IF hasName THEN "named" ELSE "blank", "out"}

-----------------------------------------------------------------------------
(* The effect on the session's user.                                       *)

(* Faulty variant: what is stored is submitted on whichever page is open.  *)
ResumesAnywhere(l, user, done, url) ==
  user # "out" /\ ~done /\ l \in url /\ store # None

Resumes(l, user, done, url) ==
  user # "out" /\ ~done /\ l \in url /\ store # None /\ store.listing = l

Discards(l, user, done, url) ==
  user # "out" /\ ~done /\ l \in url /\ store # None /\ store.listing # l

ParamCleared(l, url) == url \ {l}

AfterAuth(user) == IF user = "blank" THEN "awaiting-name" ELSE "submitting"

(* A form is mounted on l, with that URL and that user.                    *)
Mount(l, user, url, running) ==
  /\ at' = l /\ seen' = user
  /\ UNCHANGED <<serverVars, asked>>
  /\ IF Resumes(l, user, FALSE, url)
     THEN /\ hasAutoSubmitted' = TRUE /\ autos' = autos + 1
          /\ param' = ParamCleared(l, url)
          /\ note' = store.note
          /\ formState' = AfterAuth(user)
          /\ IF user = "blank" THEN tasks' = running
             ELSE \E i \in Task :
                    /\ NextTask(i)
                    /\ tasks' = [running EXCEPT ![i] =
                         [stage |-> "call", home |-> "here",
                          listing |-> l, note |-> store.note]]
          /\ UNCHANGED store
     ELSE /\ hasAutoSubmitted' = FALSE
          /\ param' = url
          /\ note' = l /\ formState' = "initial"
          /\ store' = IF Discards(l, user, FALSE, url) THEN None ELSE store
          /\ tasks' = running /\ UNCHANGED autos

Unmounted == [i \in Task |-> IF tasks[i].home = "here"
                             THEN [tasks[i] EXCEPT !.home = "left"] ELSE tasks[i]]

(* A call on the wire is served although its document is gone.             *)
Unloaded == [i \in Task |-> IF tasks[i].stage = "call"
                            THEN [tasks[i] EXCEPT !.home = "gone"] ELSE Idle]

(* The visitor opens a listing, or goes back to it.                        *)
Visit(l) ==
  /\ at = None
  /\ \E user \in Sessions, url \in {param, param \ {l}} : Mount(l, user, url, tasks)
  /\ UNCHANGED clicks

Leave ==
  /\ at # None
  /\ at' = None /\ note' = None /\ formState' = "initial" /\ hasAutoSubmitted' = FALSE
  /\ tasks' = Unmounted
  /\ UNCHANGED <<serverVars, store, param, seen, history>>

Reload ==
  /\ at # None
  /\ \E user \in Sessions : Mount(at, user, param, Unloaded)
  /\ UNCHANGED clicks

(* A link's token arrives at the server: from Click, just before it, or    *)
(* from a tab that has nothing stored.                                     *)
OpenLink ==
  /\ mailed # {}
  /\ session' = TRUE
  /\ UNCHANGED <<hasName, mailed, contacted, store, param, pageVars, tasks, history>>

(* The link is opened in this tab; its token may have been used or expired.*)
Click(l) ==
  /\ l \in mailed /\ clicks < MaxClicks
  /\ clicks' = clicks + 1
  /\ \E user \in Sessions : Mount(l, user, param \cup {l}, Unloaded)

-----------------------------------------------------------------------------
(* The form.                                                               *)

(* handleSubmit of a signed-in visitor.                                    *)
SubmitSignedIn ==
  /\ at # None /\ formState \in {"initial", "error"} /\ Authenticated
  /\ asked' = asked \cup {at}
  /\ formState' = AfterAuth(seen)
  /\ IF seen = "blank" THEN UNCHANGED tasks
     ELSE \E i \in Task : NextTask(i) /\ Set(i, TaskOf("call", note))
  /\ UNCHANGED <<serverVars, store, param, at, seen, note, hasAutoSubmitted, clicks, autos>>

(* handleSubmit of a guest, up to its await; the storage may be full.      *)
SubmitAsGuest ==
  /\ at # None /\ formState \in {"initial", "error"} /\ ~Authenticated
  /\ asked' = asked \cup {at}
  /\ store' \in {store, [listing |-> at, note |-> note]}
  /\ \E i \in Task : NextTask(i) /\ Set(i, TaskOf("sending", note))
  /\ UNCHANGED <<serverVars, param, pageVars, clicks, autos>>

(* Without an email address nothing is sent.                               *)
SubmitWithoutEmail ==
  /\ at # None /\ formState \in {"initial", "error"} /\ ~Authenticated
  /\ asked' = asked \cup {at}
  /\ store' \in {store, [listing |-> at, note |-> note]}
  /\ UNCHANGED <<serverVars, param, pageVars, tasks, clicks, autos>>

Shows(i, state) == formState' = IF tasks[i].home = "here" THEN state ELSE formState

Mailed(l) == mailed' = mailed \cup {l}

(* signIn.magicLink returns.                                               *)
LinkSent(i) ==
  /\ tasks[i].stage = "sending"
  /\ Mailed(tasks[i].listing)
  /\ Shows(i, "awaiting-magic-link") /\ End(i)
  /\ UNCHANGED <<session, hasName, contacted, store, param, at, seen, note,
                 hasAutoSubmitted, history>>

LinkNotSent(i) ==
  /\ tasks[i].stage = "sending"
  /\ End(i)
  /\ UNCHANGED <<serverVars, store, param, pageVars, history>>

(* `Resend email' of MagicLinkWaiting.                                     *)
ResendEmail ==
  /\ formState = "awaiting-magic-link"
  /\ Mailed(at)
  /\ UNCHANGED <<session, hasName, contacted, store, param, pageVars, tasks, history>>

(* Faulty variant: the inquiry stays stored.                               *)
CancelKeeping ==
  /\ formState = "awaiting-magic-link"
  /\ formState' = "initial"
  /\ asked' = IF UnderWay THEN asked ELSE asked \ {at}
  /\ UNCHANGED <<serverVars, store, param, at, seen, note, hasAutoSubmitted, tasks, clicks, autos>>

(* handleMagicLinkCancel.  A handler that is under way goes on, and the    *)
(* visitor still counts as having asked.                                   *)
Cancel ==
  /\ formState = "awaiting-magic-link"
  /\ formState' = "initial" /\ store' = None
  /\ asked' = IF UnderWay THEN asked ELSE asked \ {at}
  /\ UNCHANGED <<serverVars, param, at, seen, note, hasAutoSubmitted, tasks, clicks, autos>>

(* handleVerifyToken, up to its await.                                     *)
EnterToken ==
  /\ formState = "awaiting-magic-link" /\ ~Here({"verifying", "refreshing"})
  /\ \E i \in Task : NextTask(i) /\ Set(i, TaskOf("verifying", note))
  /\ UNCHANGED <<serverVars, store, param, pageVars, history>>

Verified(i) ==
  /\ tasks[i].stage = "verifying"
  /\ mailed # {}
  /\ session' = TRUE
  /\ Set(i, [tasks[i] EXCEPT !.stage = "refreshing"])
  /\ UNCHANGED <<hasName, mailed, contacted, store, param, pageVars, history>>

NotVerified(i) ==
  /\ tasks[i].stage = "verifying"
  /\ End(i)
  /\ UNCHANGED <<serverVars, store, param, pageVars, history>>

(* handleMagicLinkVerified after router.invalidate, which may have run the *)
(* effect before: both may submit.                                         *)
Refreshed(i) ==
  /\ tasks[i].stage = "refreshing"
  /\ \E user \in Sessions :
       LET here    == tasks[i].home = "here"
           resumes == here /\ Resumes(at, user, hasAutoSubmitted, param)
           text    == IF resumes THEN store.note ELSE tasks[i].note
           own     == IF user = "blank" THEN Idle
                      ELSE [tasks[i] EXCEPT !.stage = "call", !.note = text]
       IN  /\ seen' = user
           /\ Shows(i, AfterAuth(user))
           /\ note' = IF resumes THEN store.note ELSE note
           /\ hasAutoSubmitted' = (hasAutoSubmitted \/ resumes)
           /\ param' = IF resumes THEN ParamCleared(at, param) ELSE param
           /\ autos' = IF resumes THEN autos + 1 ELSE autos
           /\ store' = IF here /\ Discards(at, user, hasAutoSubmitted, param)
                       THEN None ELSE store
           /\ IF resumes /\ user = "named"
              THEN \E j \in Task :
                     NextTask(j) /\ tasks' = [tasks EXCEPT ![i] = own, ![j] = TaskOf("call", text)]
              ELSE Set(i, own)
  /\ UNCHANGED <<serverVars, at, clicks, asked>>

(* The name interstitial: `Update name', a name that is blank or has not   *)
(* changed and `No thanks' included; neither button is ever disabled.      *)
SubmitName ==
  /\ formState = "awaiting-name" /\ Authenticated
  /\ \E i \in Task :
       /\ NextTask(i)
       /\ \/ Set(i, TaskOf("naming", note)) /\ UNCHANGED formState
          \/ Set(i, TaskOf("call", note)) /\ formState' = "submitting"
  /\ UNCHANGED <<serverVars, store, param, at, seen, note, hasAutoSubmitted, history>>

(* updateUser returns; a failure does not stop the inquiry.                *)
NameSaved(i) ==
  /\ tasks[i].stage = "naming"
  /\ hasName' \in {hasName, session \/ hasName}
  /\ Set(i, [tasks[i] EXCEPT !.stage = "call"])
  /\ Shows(i, "submitting")
  /\ UNCHANGED <<session, mailed, contacted, store, param, at, seen, note,
                 hasAutoSubmitted, history>>

-----------------------------------------------------------------------------
(* submitInquiry.                                                          *)

(* Serves: by OkMeansDone and RefusedAfterContact of InquirySubmission; an *)
(* error may hide that the owner was mailed.                               *)
Serve(i) ==
  /\ tasks[i].stage = "call"
  /\ LET l == tasks[i].listing
         answer(a) == Set(i, [tasks[i] EXCEPT !.stage = a])
     IN  \/ session /\ contacted' = contacted \cup {l} /\ answer("ok")
         \/ session /\ l \in contacted /\ answer("limited") /\ UNCHANGED contacted
         \/ session /\ contacted' = contacted \cup {l} /\ answer("failed")
         \/ answer("failed") /\ UNCHANGED contacted
  /\ UNCHANGED <<session, hasName, mailed, store, param, pageVars, history>>

(* Faulty variant: any answer of the server counts as success.             *)
ReturnsBlindly(i) ==
  /\ tasks[i].stage \in {"ok", "limited", "failed"}
  /\ Shows(i, "success") /\ store' = None
  /\ End(i)
  /\ UNCHANGED <<serverVars, param, at, seen, note, hasAutoSubmitted, history>>

(* The answer, or its loss, arrives.                                       *)
Returns(i) ==
  /\ tasks[i].stage \in {"ok", "limited", "failed"}
  /\ Shows(i, CASE tasks[i].stage = "ok" -> "success"
                [] tasks[i].stage = "limited" -> "rate-limited"
                [] OTHER -> "error")
  /\ store' = IF tasks[i].stage = "ok" /\ tasks[i].home # "gone" THEN None ELSE store
  /\ End(i)
  /\ UNCHANGED <<serverVars, param, at, seen, note, hasAutoSubmitted, history>>

Handler(i) ==
  \/ LinkSent(i) \/ LinkNotSent(i) \/ Verified(i) \/ NotVerified(i)
  \/ Refreshed(i) \/ NameSaved(i) \/ Serve(i) \/ Returns(i)

Next ==
  \/ Leave \/ Reload \/ OpenLink
  \/ \E l \in Listing : Visit(l) \/ Click(l)
  \/ SubmitSignedIn \/ SubmitAsGuest \/ SubmitWithoutEmail
  \/ ResendEmail \/ Cancel \/ EnterToken \/ SubmitName
  \/ \E i \in Task : Handler(i)

Spec == Init /\ [][Next]_vars

-----------------------------------------------------------------------------
(* `Request sent!' and `Already contacted' tell the truth about the        *)
(* listing on the page, whichever of several submissions they answer.      *)
EndTellsTruth ==
  formState \in {"success", "rate-limited"} => at \in contacted

(* A note goes to the listing it was written for, also when it was stored  *)
(* on one page and the link leads to another.                              *)
NoteOnItsListing ==
  \A i \in Task : tasks[i].note \in {None, tasks[i].listing}

(* One opened link submits what was stored at most once, over remounts,    *)
(* reloads and ways back.                                                  *)
AutoSubmitOncePerLink == autos <= clicks

(* `Use different email' withdraws the inquiry: neither a link opened      *)
(* later nor anything else submits it, unless it was already on its way.   *)
CancelWithdraws ==
  [][\A i \in Task : tasks[i].stage # "call" /\ tasks'[i].stage = "call"
                     => tasks'[i].listing \in asked']_vars

(* What has been sent is not left to be sent again by the next link.       *)
SentIsNotStored ==
  formState = "success" /\ store # None => store.listing # at

(* The form says `Sending...' only while a call of this page is under way, *)
(* so that, calls being answered or lost, it comes to an end.              *)
SendingIsUnderWay ==
  formState = "submitting" => Here({"call", "ok", "limited", "failed"})

(* The inquiry on the form, in the session storage and in flight stay the  *)
(* same one: it goes to its listing, once per link, is not kept after it   *)
(* went out, and is `Sending...' only then.                                *)
FormInv ==
  /\ TypeOK
  /\ NoteOnItsListing
  /\ AutoSubmitOncePerLink
  /\ SentIsNotStored
  /\ SendingIsUnderWay
=============================================================================
