---------------------------- MODULE ListingEdit ----------------------------
(***************************************************************************)
(* The owner edits a listing in place: the controls of the listing page    *)
(* (routes/listings.$id.tsx), each of which saves its own field after a    *)
(* pause, the updateListing handler with its If-Unmodified-Since check     *)
(* (api/listings.ts, data/queries.server.ts), and the signed one-click     *)
(* link that marks the listing as unavailable without that check           *)
(* (routes/api/listings.$id.unavailable.ts).                               *)
(*                                                                         *)
(* The same listing may be open in several pages.  Requests and answers    *)
(* travel in any order and may be lost.  The clock counts the seconds in   *)
(* which updated_at is stored.                                             *)
(***************************************************************************)
EXTENDS Naturals, FiniteSets

CONSTANTS
  Page,         \* pages (tabs, devices) that the owner has the listing open in
  Choice,       \* fields behind radio buttons: status, addressReleasePolicy
  Switch,       \* fields behind a checkbox: acceptsDropOffs
  Text,         \* fields behind an input: name, harvestWindow, variety, ...
  Required,     \* the texts that must not be empty: name, harvestWindow
  Rewritten,    \* the texts whose display is set again when saved: name
  Value,        \* values of a field
  Blank,        \* the empty text
  Unavailable,  \* the value the link writes ...
  Status,       \* ... and the field it writes it to
  NoTimer,
  LinkLife,     \* SIGNATURE_MAX_AGE_MS, in seconds; the link is of second 0
  MaxClock,     \* bound: the clock stops here
  MaxEdits,     \* bound: changes that the owner makes
  MaxRequests   \* bound: calls of updateListing

Field == Choice \cup Switch \cup Text

ASSUME EditConstants ==
  /\ Required \subseteq Text /\ Rewritten \subseteq Text
  /\ Status \in Choice
  /\ Switch \cap (Choice \cup Text) = {}
  /\ {Blank, Unavailable} \subseteq Value
  /\ NoTimer \notin Value
  /\ LinkLife \in Nat /\ MaxClock \in Nat /\ MaxEdits \in Nat /\ MaxRequests \in Nat

VARIABLES
  \* the row
  listing,    \* its fields
  updatedAt,
  \* each page
  open,       \* "no", "yes", or "left"
  live,       \* liveUpdatedAt, in seconds
  saved,      \* the value a control takes for saved ...
  display,    \* ... the one it shows ...
  timer,      \* ... the one its pending timer will save ...
  failed,     \* ... and whether it shows an error
  \* the network: calls of updateListing, and their answers
  calls,
  clock,
  edits,
  requests,   \* calls made so far
  \* history, read by no guard
  overtaken,  \* pages that missed a write of a later second
  hasty       \* controls changed or saved again while a save was under way

row      == <<listing, updatedAt>>
controls == <<saved, display, timer, failed>>
counts   == <<edits, requests>>
history  == <<overtaken, hasty>>
editVars == <<row, open, live, controls, calls, clock, counts, history>>

(* A call: `at' is clientUpdatedAt, and then the answer's updatedAt.       *)
Call == [id: Nat, page: Page, field: Field, value: Value, at: Nat,
         state: {"sent", "updated", "conflict", "error"}]

EditTypeOK ==
  /\ listing \in [Field -> Value]
  /\ updatedAt \in Nat
  /\ open \in [Page -> {"no", "yes", "left"}]
  /\ live \in [Page -> Nat]
  /\ saved \in [Page -> [Field -> Value]]
  /\ display \in [Page -> [Field -> Value]]
  /\ timer \in [Page -> [Field -> Value \cup {NoTimer}]]
  /\ failed \in [Page -> [Field -> BOOLEAN]]
  /\ calls \subseteq Call
  /\ clock \in Nat
  /\ edits \in Nat /\ requests \in Nat
  /\ overtaken \in [Page -> BOOLEAN]
  /\ hasty \in [Page -> [Field -> BOOLEAN]]

EditInit ==
  /\ listing \in [Field -> Value \ {Blank, Unavailable}]
  /\ updatedAt = 0
  /\ open = [p \in Page |-> "no"]
  /\ live = [p \in Page |-> 0]
  /\ saved = [p \in Page |-> listing]
  /\ display = [p \in Page |-> listing]
  /\ timer = [p \in Page |-> [f \in Field |-> NoTimer]]
  /\ failed = [p \in Page |-> [f \in Field |-> FALSE]]
  /\ calls = {}
  /\ clock = 0
  /\ edits = 0 /\ requests = 0
  /\ overtaken = [p \in Page |-> FALSE]
  /\ hasty = [p \in Page |-> [f \in Field |-> FALSE]]

-----------------------------------------------------------------------------
(* The page.                                                               *)

(* The loader reads the row and the page is mounted with it.               *)
Open(p) ==
  /\ open[p] = "no"
  /\ open' = [open EXCEPT ![p] = "yes"]
  /\ live' = [live EXCEPT ![p] = updatedAt]
  /\ saved' = [saved EXCEPT ![p] = listing]
  /\ display' = [display EXCEPT ![p] = listing]
  /\ UNCHANGED <<row, timer, failed, calls, clock, counts, history>>

Saving(p, f) == \E c \in calls : c.page = p /\ c.field = f

(* clientUpdatedAt is read when the call is made.                          *)
Send(p, fields, v) ==
  /\ requests < MaxRequests
  /\ requests' = requests + 1
  /\ calls' = calls \cup {[id |-> requests, page |-> p, field |-> f, value |-> v[f],
                           at |-> live[p], state |-> "sent"] : f \in fields}

(* The owner changes what a control shows.                                 *)
Show(p, f, v) ==
  /\ open[p] = "yes" /\ v # display[p][f]
  /\ edits < MaxEdits
  /\ edits' = edits + 1
  /\ display' = [display EXCEPT ![p][f] = v]
  /\ hasty' = [hasty EXCEPT ![p][f] = @ \/ Saving(p, f)]

(* selectStatus and select clear the error, onInput does not; each starts  *)
(* the timer anew.                                                         *)
Change(p, f, v) ==
  /\ f \in Choice \cup Text
  /\ Show(p, f, v)
  /\ timer' = [timer EXCEPT ![p][f] = v]
  /\ failed' = [failed EXCEPT ![p][f] = @ /\ f \in Text]
  /\ UNCHANGED <<row, open, live, saved, calls, clock, requests, overtaken>>

(* toggle saves at once, unless the value is the one taken for saved.      *)
Toggle(p, f, v) ==
  /\ f \in Switch
  /\ Show(p, f, v)
  /\ \/ v = saved[p][f] /\ UNCHANGED <<failed, calls, requests>>
     \/ /\ v # saved[p][f]
        /\ failed' = [failed EXCEPT ![p][f] = FALSE]
        /\ Send(p, {f}, [g \in {f} |-> v])
  /\ UNCHANGED <<row, open, live, saved, timer, clock, overtaken>>

Invalid(f, v) == f \in Required /\ v = Blank

(* saveName and saveHarvest of an empty text.                              *)
RejectBlank(p, f, v) ==
  /\ Invalid(f, v)
  /\ failed' = [failed EXCEPT ![p][f] = TRUE]
  /\ display' = [display EXCEPT ![p][f] = saved[p][f]]
  /\ UNCHANGED <<calls, requests, hasty>>

(* commitStatus, commit, and the save functions of the texts.              *)
Save(p, f, v) ==
  /\ timer' = [timer EXCEPT ![p][f] = NoTimer]
  /\ \/ RejectBlank(p, f, v)
     \/ /\ ~Invalid(f, v) /\ v = saved[p][f]
        /\ UNCHANGED <<display, failed, calls, requests, hasty>>
     \/ /\ ~Invalid(f, v) /\ v # saved[p][f]
        /\ Send(p, {f}, [g \in {f} |-> v])
        /\ hasty' = [hasty EXCEPT ![p][f] = @ \/ Saving(p, f)]
        /\ UNCHANGED <<display, failed>>
  /\ UNCHANGED <<row, open, live, saved, clock, edits, overtaken>>

TimerFires(p, f) ==
  /\ open[p] = "yes" /\ timer[p][f] # NoTimer
  /\ Save(p, f, timer[p][f])

(* onBlur saves at once what is shown.                                     *)
Blur(p, f) ==
  /\ open[p] = "yes" /\ f \in Text
  /\ Save(p, f, display[p][f])

(* onCleanup: every control but a switch saves what is not saved yet.      *)
Leave(p) ==
  /\ open[p] = "yes"
  /\ open' = [open EXCEPT ![p] = "left"]
  /\ timer' = [timer EXCEPT ![p] = [f \in Field |-> NoTimer]]
  /\ LET dirty == {f \in Choice \cup Text : display[p][f] # saved[p][f]
                                              /\ ~Invalid(f, display[p][f])}
     IN  IF dirty = {} THEN UNCHANGED <<calls, requests>>
         ELSE Send(p, dirty, display[p])
  /\ UNCHANGED <<row, live, saved, display, failed, clock, edits, history>>

-----------------------------------------------------------------------------
(* The server.                                                             *)

Answer(c, state, at) ==
  calls' = (calls \ {c}) \cup {[c EXCEPT !.state = state, !.at = at]}

(* Everything a page holds is of an earlier second.                        *)
Behind(p) == live[p] < clock /\ \A c \in calls : c.page = p => c.at < clock

(* A write, by one of the pages or by the link, as the others see it.      *)
WrittenBy(writers) ==
  /\ updatedAt' = clock
  /\ overtaken' = [p \in Page |-> overtaken[p]
                     \/ (p \notin writers /\ open[p] # "no" /\ Behind(p))]

(* Faulty variant: a row that has not changed since is written.            *)
NotNewer(c) == c.at <= updatedAt

(* updated_at = clientUpdatedAt.                                           *)
Unmodified(c) == c.at = updatedAt

(* updateListingById.                                                      *)
Update(c) ==
  /\ c \in calls /\ c.state = "sent"
  /\ Unmodified(c)
  /\ listing' = [listing EXCEPT ![c.field] = c.value]
  /\ WrittenBy({c.page})
  /\ Answer(c, "updated", clock)
  /\ UNCHANGED <<open, live, controls, clock, counts, hasty>>

Conflict(c) ==
  /\ c \in calls /\ c.state = "sent"
  /\ ~Unmodified(c)
  /\ Answer(c, "conflict", c.at)
  /\ UNCHANGED <<row, open, live, controls, clock, counts, history>>

(* The session has expired, the database throws, or a message is lost.     *)
Fail(c) ==
  /\ c \in calls /\ c.state \in {"sent", "updated"}
  /\ Answer(c, "error", c.at)
  /\ UNCHANGED <<row, open, live, controls, clock, counts, history>>

(* GET /api/listings/:id/unavailable with a valid signature that is not    *)
(* too old; markListingUnavailable compares no version.                    *)
ClickLink ==
  /\ clock <= LinkLife
  /\ listing' = [listing EXCEPT ![Status] = Unavailable]
  /\ WrittenBy({})
  /\ UNCHANGED <<open, live, controls, calls, clock, counts, hasty>>

-----------------------------------------------------------------------------
(* The page, when the answer arrives.                                      *)

(* Faulty variant: the value is not noted as saved.                        *)
ReceiveUpdatedUnsaved(c) ==
  /\ c \in calls /\ c.state = "updated"
  /\ calls' = calls \ {c}
  /\ live' = [live EXCEPT ![c.page] = c.at]
  /\ UNCHANGED <<row, open, controls, clock, counts, history>>

ReceiveUpdated(c) ==
  /\ c \in calls /\ c.state = "updated"
  /\ calls' = calls \ {c}
  /\ saved' = [saved EXCEPT ![c.page][c.field] = c.value]
  /\ live' = [live EXCEPT ![c.page] = c.at]
  /\ display' = IF c.field \in Rewritten THEN [display EXCEPT ![c.page][c.field] = c.value]
                ELSE display
  /\ failed' = [failed EXCEPT ![c.page][c.field] = @ /\ c.field \notin Text]
  /\ UNCHANGED <<row, open, timer, clock, counts, history>>

ReceiveError(c) ==
  /\ c \in calls /\ c.state \in {"conflict", "error"}
  /\ calls' = calls \ {c}
  /\ failed' = [failed EXCEPT ![c.page][c.field] = TRUE]
  /\ display' = [display EXCEPT ![c.page][c.field] = saved[c.page][c.field]]
  /\ UNCHANGED <<row, open, live, saved, timer, clock, counts, history>>

Tick ==
  /\ clock < MaxClock
  /\ clock' = clock + 1
  /\ UNCHANGED <<row, open, live, controls, calls, counts, history>>

EditNext ==
  \/ \E p \in Page : Open(p) \/ Leave(p)
  \/ \E p \in Page, f \in Field, v \in Value : Change(p, f, v) \/ Toggle(p, f, v)
  \/ \E p \in Page, f \in Field : TimerFires(p, f) \/ Blur(p, f)
  \/ \E c \in calls : Update(c) \/ Conflict(c) \/ Fail(c)
                        \/ ReceiveUpdated(c) \/ ReceiveError(c)
  \/ ClickLink
  \/ Tick

EditSpec == EditInit /\ [][EditNext]_editVars

-----------------------------------------------------------------------------
(* A page that missed a write of a later second than any it knows of, be   *)
(* it another page's or the link's, never writes again: updateListingById  *)
(* answers its calls with a conflict, however they and their answers are   *)
(* reordered.                                                              *)
OvertakenNeverWrites ==
  [][\A c \in calls' \ calls : c.state = "updated" => ~overtaken[c.page]]_editVars

(* Unless the owner changes a control while its save is under way, it ends *)
(* up showing what it has saved, or an error.                              *)
PatientOwnerSeesSaved ==
  \A p \in Page, f \in Field :
    open[p] = "yes" /\ timer[p][f] = NoTimer /\ ~Saving(p, f)
    /\ ~failed[p][f] /\ ~hasty[p][f]
      => display[p][f] = saved[p][f]
=============================================================================
