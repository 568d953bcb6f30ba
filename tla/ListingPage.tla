---------------------------- MODULE ListingPage ----------------------------
(***************************************************************************)
(* The page of one listing (routes/listings.$id.tsx), open in one tab, as  *)
(* its two kinds of viewers use it: a visitor reveals the address          *)
(* (AddressRevealSection and revealListingAddress of api/listings.ts), an  *)
(* owner adds and removes photos (ListingPhotosSection.tsx).  Other tabs   *)
(* and devices change the listing, its photos and the session meanwhile.   *)
(*                                                                         *)
(* A task is a call of the page: the steps of its handler on the server,   *)
(* one database call at a time, and what the page does with the answer.    *)
(* It outlives the page it was made from.  The fields the owner edits are  *)
(* ListingEdit, the handlers behind the photos ListingPhotos.              *)
(***************************************************************************)
EXTENDS Naturals, FiniteSets

CONSTANTS
  Photo,
  None,
  MaxPhotos,  \* MAX_PHOTOS_PER_LISTING
  MaxTasks    \* bound: calls under way at a time

ASSUME PageConstants ==
  /\ None \notin Photo /\ IsFiniteSet(Photo)
  /\ MaxPhotos \in Nat \ {0} /\ MaxTasks \in Nat \ {0}

Task == 1..MaxTasks

VARIABLES
  \* the server
  owns,            \* the tab's user is the listing's owner
  policy,          \* address_release_policy
  session,         \* whose session the tab's cookie is
  photos,
  \* the page
  page,            \* the view the loader chose
  offered,         \* the loaded row's policy
  seen,            \* the photos on the owner's view
  authenticated,   \* context().session
  revealState,
  uploading,
  deletingPhotoId,
  pendingDeleteId,
  timeouts,        \* photos with a deletion counting down
  timeoutId,       \* the one pendingDeleteTimeoutId stands for
  tasks,
  since            \* history: what has been so since a reveal began

serverVars == <<owns, policy, session, photos>>
loaded     == <<page, offered, seen, authenticated>>
controls   == <<uploading, deletingPhotoId, pendingDeleteId, timeouts, timeoutId>>
vars == <<serverVars, loaded, revealState, controls, tasks, since>>

Policies == {"on_owner_approval", "on_verified_request"}
Viewers  == {"nobody", "unverified", "verified", "owner"}
Facts    == {"policy", "verified", "recorded", "unwritable"}
Sessions == IF owns THEN {"nobody", "owner"} ELSE {"nobody", "unverified", "verified"}
Outcomes == {"revealed", "unauthenticated", "email_unverified", "failed"}
Idle     == [call |-> "none", stage |-> "idle", here |-> FALSE, who |-> "nobody", photo |-> None]
InTask   == [call: {"none", "reveal", "upload", "delete"},
             stage: {"idle", "session", "listing", "photos", "record", "call", "done",
                     "refreshing"} \cup Outcomes,
             here: BOOLEAN, who: Viewers, photo: Photo \cup {None}]

TypeOK ==
  /\ owns \in BOOLEAN /\ policy \in Policies /\ session \in Sessions
  /\ photos \subseteq Photo
  /\ page \in {"away", "public", "owner"} /\ offered \in Policies
  /\ seen \subseteq Photo /\ authenticated \in BOOLEAN
  /\ revealState \in {"hidden", "loading", "gated", "revealed", "error"}
  /\ uploading \in BOOLEAN
  /\ {deletingPhotoId, pendingDeleteId, timeoutId} \subseteq Photo \cup {None}
  /\ timeouts \subseteq Photo
  /\ page # "owner" => timeouts = {}
  /\ tasks \in [Task -> InTask]
  /\ since \in [Task -> SUBSET Facts]

Init ==
  /\ owns \in BOOLEAN /\ policy \in Policies /\ session \in Sessions
  /\ photos \in SUBSET Photo /\ Cardinality(photos) <= MaxPhotos
  /\ page = "away" /\ offered = "on_owner_approval" /\ seen = {} /\ authenticated = FALSE
  /\ revealState = "hidden"
  /\ uploading = FALSE /\ deletingPhotoId = None /\ pendingDeleteId = None
  /\ timeouts = {} /\ timeoutId = None
  /\ tasks = [i \in Task |-> Idle]
  /\ since = [i \in Task |-> {}]

FreeTask(i) == tasks[i].stage = "idle" /\ \A j \in Task : j < i => tasks[j].stage # "idle"
At(i, call, stage) == tasks[i].call = call /\ tasks[i].stage = stage
Goes(i, stage) == tasks' = [tasks EXCEPT ![i].stage = stage]
End(i)         == tasks' = [tasks EXCEPT ![i] = Idle]

(* What a handler that reads now may find.                                 *)
Allows(rule, user) ==
  (IF rule = "on_verified_request" THEN {"policy"} ELSE {}) \cup
  (IF user \in {"verified", "owner"} THEN {"verified"} ELSE {})

Begin(call, stage, p, facts) ==
  \E i \in Task :
    /\ FreeTask(i)
    /\ tasks' = [tasks EXCEPT ![i] = [call |-> call, stage |-> stage, here |-> TRUE,
                                      who |-> "nobody", photo |-> p]]
    /\ since' = [since EXCEPT ![i] = facts]

-----------------------------------------------------------------------------
(* Other tabs and devices: the policy matters to members, the photos to the*)
(* owner, whose page has controls for them.                                *)

Elsewhere ==
  /\ UNCHANGED owns
  /\ \/ ~owns /\ policy' \in Policies /\ UNCHANGED <<session, photos>>
     \/ session' \in Sessions /\ UNCHANGED <<policy, photos>>
     \/ /\ owns
        /\ \E p \in Photo : \/ photos' = photos \ {p}
                            \/ Cardinality(photos) < MaxPhotos /\ photos' = photos \cup {p}
        /\ UNCHANGED <<policy, session>>
  /\ since' = [i \in Task |-> IF tasks[i].call = "reveal"
                                THEN since[i] \cup Allows(policy', session') ELSE {}]
  /\ UNCHANGED <<loaded, revealState, controls, tasks>>

-----------------------------------------------------------------------------
(* The page.                                                               *)

(* getListingForViewer: owners see the full row, others the public one.    *)
Load ==
  /\ page' = IF session = "owner" THEN "owner" ELSE "public"
  /\ offered' = policy /\ seen' = IF session = "owner" THEN photos ELSE {}
  /\ authenticated' = (session # "nobody")

(* Both sections are unmounted: onCleanup of the photos.                   *)
SectionsGone ==
  /\ revealState' = "hidden"
  /\ uploading' = FALSE /\ deletingPhotoId' = None /\ pendingDeleteId' = None
  /\ timeouts' = {} /\ timeoutId' = None

Left == [i \in Task |-> [tasks[i] EXCEPT !.here = FALSE]]

Visit ==
  /\ page = "away" /\ Load
  /\ UNCHANGED <<serverVars, revealState, controls, tasks, since>>

Away ==
  /\ page' = "away" /\ SectionsGone
  /\ offered' = "on_owner_approval" /\ seen' = {} /\ authenticated' = FALSE

Leave ==
  /\ page # "away" /\ Away
  /\ tasks' = Left
  /\ UNCHANGED <<serverVars, since>>

-----------------------------------------------------------------------------
(* AddressRevealSection and revealListingAddress.                          *)

reveal ==
  /\ page = "public" /\ offered = "on_verified_request" /\ authenticated
  /\ revealState = "hidden" /\ revealState' = "loading"
  /\ Begin("reveal", "session", None, Allows(policy, session))
  /\ UNCHANGED <<serverVars, loaded, controls>>

ReadSession(i) ==
  /\ At(i, "reveal", "session")
  /\ tasks' = [tasks EXCEPT ![i].who = session, ![i].stage = "listing"]
  /\ UNCHANGED <<serverVars, loaded, revealState, controls, since>>

(* Faulty variant: the policy is not looked at again.                      *)
DecisionByPage(rule, user) ==
  CASE user = "nobody"     -> "unauthenticated"
    [] user = "unverified" -> "email_unverified"
    [] OTHER               -> "photos"

Decision(rule, user) ==
  CASE rule # "on_verified_request" /\ user # "owner" -> "failed"
    [] user = "nobody"     -> "unauthenticated"
    [] user = "unverified" -> "email_unverified"
    [] OTHER               -> "photos"

(* getListingWithOwner, and what follows from the row; it may be gone.     *)
ReadListing(i) ==
  /\ At(i, "reveal", "listing")
  /\ \/ Goes(i, Decision(policy, tasks[i].who))
     \/ Goes(i, "failed")
  /\ UNCHANGED <<serverVars, loaded, revealState, controls, since>>

(* An owner's own look, which the page does not offer, is not recorded.    *)
AfterPhotos(user) == IF user = "owner" THEN "revealed" ELSE "record"

(* toPublicListing may find no location.                                   *)
ReadPhotos(i) ==
  /\ At(i, "reveal", "photos")
  /\ \/ Goes(i, AfterPhotos(tasks[i].who))
     \/ Goes(i, "failed")
  /\ UNCHANGED <<serverVars, loaded, revealState, controls, since>>

(* recordAddressReveal; the member is not kept waiting by its failure.     *)
Record(i) ==
  /\ At(i, "reveal", "record")
  /\ Goes(i, "revealed")
  /\ \E fact \in {"recorded", "unwritable"} : since' = [since EXCEPT ![i] = @ \cup {fact}]
  /\ UNCHANGED <<serverVars, loaded, revealState, controls>>

RevealStateOf(outcome) ==
  CASE outcome = "revealed"         -> "revealed"
    [] outcome = "email_unverified" -> "gated"
    [] OTHER                        -> "error"

(* The answer arrives or is lost.  Without a session the visitor is sent   *)
(* to /login, also from the page they have gone to meanwhile.              *)
Revealed(i) ==
  /\ tasks[i].call = "reveal" /\ tasks[i].stage \in Outcomes
  /\ \/ /\ tasks[i].stage = "unauthenticated"
        /\ Away /\ tasks' = [Left EXCEPT ![i] = Idle]
     \/ /\ revealState' \in IF tasks[i].here THEN {RevealStateOf(tasks[i].stage), "error"}
                            ELSE {revealState}
        /\ End(i)
        /\ UNCHANGED <<loaded, controls>>
  /\ since' = [since EXCEPT ![i] = {}]
  /\ UNCHANGED serverVars

-----------------------------------------------------------------------------
(* ListingPhotosSection.                                                   *)

controlsDisabled == uploading \/ deletingPhotoId # None \/ pendingDeleteId # None

upload ==
  /\ page = "owner" /\ ~controlsDisabled /\ Cardinality(seen) < MaxPhotos
  /\ uploading' = TRUE
  /\ Begin("upload", "call", None, {})
  /\ UNCHANGED <<serverVars, loaded, revealState, deletingPhotoId, pendingDeleteId, timeouts,
                 timeoutId>>

startPendingDelete(p) ==
  /\ page = "owner" /\ p \in seen /\ ~controlsDisabled
  /\ pendingDeleteId' = p /\ timeouts' = timeouts \cup {p} /\ timeoutId' = p
  /\ UNCHANGED <<serverVars, loaded, revealState, uploading, deletingPhotoId, tasks, since>>

(* Faulty variant: only the notice goes away.                              *)
CancelNoticeOnly ==
  /\ page = "owner" /\ pendingDeleteId \in seen
  /\ pendingDeleteId' = None
  /\ UNCHANGED <<serverVars, loaded, revealState, uploading, deletingPhotoId, timeouts,
                 timeoutId, tasks, since>>

(* Its button is part of the photo's frame.                                *)
cancelPendingDelete ==
  /\ page = "owner" /\ pendingDeleteId \in seen
  /\ pendingDeleteId' = None
  /\ timeouts' = timeouts \ {timeoutId} /\ timeoutId' = None
  /\ UNCHANGED <<serverVars, loaded, revealState, uploading, deletingPhotoId, tasks, since>>

(* The five seconds are over: removePhoto.                                 *)
CountdownEnds(p) ==
  /\ p \in timeouts
  /\ timeouts' = timeouts \ {p} /\ timeoutId' = None
  /\ pendingDeleteId' = None /\ deletingPhotoId' = p
  /\ Begin("delete", "call", p, {})
  /\ UNCHANGED <<serverVars, loaded, revealState, uploading>>

(* addPhotoToListing and deletePhoto.                                      *)
PhotoCallServed(i) ==
  /\ tasks[i].call \in {"upload", "delete"} /\ tasks[i].stage = "call"
  /\ \/ /\ tasks[i].call = "upload" /\ Cardinality(photos) < MaxPhotos
        /\ \E p \in Photo \ photos : photos' = photos \cup {p}
        /\ Goes(i, "done")
     \/ /\ tasks[i].call = "delete" /\ tasks[i].photo \in photos
        /\ photos' = photos \ {tasks[i].photo}
        /\ Goes(i, "done")
     \/ UNCHANGED photos /\ Goes(i, "failed")
  /\ UNCHANGED <<owns, policy, session, loaded, revealState, controls, since>>

(* Faulty variant: after a failure the controls stay as they are.          *)
ReleasedOnSuccess(i) ==
  IF tasks[i].here /\ tasks[i].stage # "failed"
  THEN /\ uploading' = (uploading /\ tasks[i].call # "upload")
       /\ deletingPhotoId' = IF tasks[i].call = "delete" THEN None ELSE deletingPhotoId
  ELSE UNCHANGED <<uploading, deletingPhotoId>>

(* The `finally' of upload and removePhoto.                                *)
Released(i) ==
  IF tasks[i].here
  THEN /\ uploading' = (uploading /\ tasks[i].call # "upload")
       /\ deletingPhotoId' = IF tasks[i].call = "delete" THEN None ELSE deletingPhotoId
  ELSE UNCHANGED <<uploading, deletingPhotoId>>

(* The call failed, or its answer was lost.                                *)
PhotoCallFailed(i) ==
  /\ tasks[i].call \in {"upload", "delete"} /\ tasks[i].stage \in {"done", "failed"}
  /\ Released(i) /\ End(i)
  /\ UNCHANGED <<serverVars, loaded, revealState, pendingDeleteId, timeouts, timeoutId, since>>

PhotoCallDone(i) ==
  /\ tasks[i].call \in {"upload", "delete"} /\ tasks[i].stage = "done"
  /\ Goes(i, "refreshing")
  /\ UNCHANGED <<serverVars, loaded, revealState, controls, since>>

(* router.invalidate has loaded the page anew; an owner whose session is   *)
(* over sees the public view, another section.                             *)
Refreshed(i) ==
  /\ tasks[i].stage = "refreshing"
  /\ IF page = "away" THEN UNCHANGED <<loaded, revealState, controls>> /\ End(i)
     ELSE /\ Load
          /\ IF page' = page
             THEN /\ Released(i) /\ End(i)
                  /\ UNCHANGED <<revealState, pendingDeleteId, timeouts, timeoutId>>
             ELSE SectionsGone /\ tasks' = [Left EXCEPT ![i] = Idle]
  /\ UNCHANGED <<serverVars, since>>

Handler(i) ==
  \/ ReadSession(i) \/ ReadListing(i) \/ ReadPhotos(i) \/ Record(i) \/ Revealed(i)
  \/ PhotoCallServed(i) \/ PhotoCallFailed(i) \/ PhotoCallDone(i) \/ Refreshed(i)

Next ==
  \/ Elsewhere \/ Visit \/ Leave
  \/ reveal \/ upload \/ cancelPendingDelete
  \/ \E p \in Photo : startPendingDelete(p) \/ CountdownEnds(p)
  \/ \E i \in Task : Handler(i)

(* Calls are answered or fail, and timers fire.                            *)
Fairness ==
  /\ \A i \in Task : WF_vars(Handler(i))
  /\ \A p \in Photo : WF_vars(CountdownEnds(p))

Spec == Init /\ [][Next]_vars /\ Fairness

-----------------------------------------------------------------------------
(* An address is released to a viewer only if, while the call was under    *)
(* way, the listing released it to verified members and the viewer was     *)
(* one: an older page and a session that has ended release nothing.        *)
ReleasedWhileAllowed ==
  \A i \in Task : tasks[i].call = "reveal" /\ tasks[i].stage \in {"photos", "record", "revealed"}
    => "verified" \in since[i] /\ (tasks[i].who # "owner" => "policy" \in since[i])

(* A member who is shown the address has left a record of it, unless       *)
(* writing the record failed.                                              *)
RevealIsRecorded ==
  \A i \in Task : At(i, "reveal", "revealed") /\ tasks[i].who # "owner"
    => since[i] \cap {"recorded", "unwritable"} # {}

(* Only the photo whose countdown is on the screen is deleted when it      *)
(* ends: none after `Cancel', none after the owner has left the page.      *)
OnlyCountedDownDeleted ==
  [][\A i \in Task : tasks[i].call # "delete" /\ tasks'[i].call = "delete"
                     => page = "owner" /\ tasks'[i].photo = pendingDeleteId]_vars

(* One upload or deletion at a time, and at most one countdown, the one    *)
(* `Cancel' stops.                                                         *)
OneChangeAtATime ==
  /\ Cardinality({c \in {"upload", "delete", "pending"} :
       \/ c = "upload" /\ uploading
       \/ c = "delete" /\ deletingPhotoId # None
       \/ c = "pending" /\ pendingDeleteId # None}) <= 1
  /\ timeouts = {pendingDeleteId} \ {None} /\ timeoutId = pendingDeleteId

(* `Revealing address...' does not stay for ever.                          *)
RevealEnds == revealState = "loading" ~> revealState # "loading"

(* The owner gets the controls back, however a change ends.                *)
ControlsComeBack == controlsDisabled ~> ~controlsDisabled

(* What the page may not do while others change the listing behind it.     *)
PageInv ==
  /\ TypeOK
  /\ ReleasedWhileAllowed
  /\ RevealIsRecorded
  /\ OneChangeAtATime

(* No call leaves the page waiting.                                        *)
NothingHangs == RevealEnds /\ ControlsComeBack
=============================================================================
