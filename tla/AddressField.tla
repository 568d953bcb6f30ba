---------------------------- MODULE AddressField ----------------------------
(***************************************************************************)
(* The address field of the listing form: AddressAutosuggest.tsx and what  *)
(* ListingForm.tsx keeps of it while it comes and goes.  Suggestions are   *)
(* fetched behind the user's back, after a quiet period; the position of   *)
(* the device may fill the field in; manual entry and the magic-link form  *)
(* unmount it.                                                             *)
(*                                                                         *)
(* A place is a suggestion and stands for its label; what the user types   *)
(* is a text of Text, or Empty, which stands for any text too short to be  *)
(* searched.  The bias changes the ranking of answers only.                *)
(***************************************************************************)
EXTENDS Naturals

CONSTANTS
  Place,
  Text,
  Empty,
  Nothing,
  MaxRequests  \* bound: requests on the wire at a time

ASSUME FieldConstants ==
  /\ Empty \notin Place \cup Text /\ Nothing \notin Place \cup Text \cup {Empty}
  /\ Nothing \notin Nat
  /\ Place \cap Text = {}
  /\ MaxRequests \in Nat \ {0}

Request == 1..MaxRequests

VARIABLES
  \* ListingForm
  formShown,          \* it does not wait for a magic link
  manualEntry,
  selectedAddress,
  addressInteracted,
  \* the mounted AddressAutosuggest
  query,
  suggestions,        \* the text for which suggestions are cached
  open,
  status,
  userInteracted,
  focused,
  lookup,             \* initLocationBias: waits for the position, for an address
  debounceTimer,      \* the text to be searched when it fires
  newest,             \* the request whose seq is requestSeq
  requests,           \* the text each request on the wire searches
  touched             \* history: the user has focused, edited or picked

formVars  == <<formShown, manualEntry, selectedAddress, addressInteracted>>
fieldVars == <<query, suggestions, open, status, userInteracted, focused, lookup,
               debounceTimer, newest>>
addressVars == <<formVars, fieldVars, requests, touched>>

mounted == formShown /\ ~manualEntry

AddressTypeOK ==
  /\ formShown \in BOOLEAN /\ manualEntry \in BOOLEAN
  /\ selectedAddress \in Place \cup {Nothing}
  /\ addressInteracted \in BOOLEAN
  /\ query \in Place \cup Text \cup {Empty}
  /\ suggestions \in Text \cup {Nothing}
  /\ open \in BOOLEAN
  /\ status \in {"idle", "loading", "empty", "error", "prepopulated"}
  /\ userInteracted \in BOOLEAN /\ focused \in BOOLEAN
  /\ lookup \in {"none", "position", "address"}
  /\ debounceTimer \in Text \cup {Nothing}
  /\ newest \in Request \cup {Nothing}
  /\ requests \in [Request -> Text \cup {Nothing}]
  /\ newest # Nothing => requests[newest] # Nothing
  /\ ~mounted => ~focused /\ lookup = "none" /\ debounceTimer = Nothing /\ newest = Nothing
  /\ touched \in BOOLEAN

(* addressFieldsToSuggestion and the label a selection is shown by.        *)
LabelOf(selection) == IF selection = Nothing THEN Empty ELSE selection

AddressInit ==
  /\ formShown = TRUE /\ manualEntry = FALSE
  /\ selectedAddress \in Place \cup {Nothing}
  /\ addressInteracted = FALSE
  /\ query = LabelOf(selectedAddress)
  /\ suggestions = Nothing /\ open = FALSE /\ status = "idle"
  /\ userInteracted = FALSE /\ focused = FALSE /\ lookup = "position"
  /\ debounceTimer = Nothing /\ newest = Nothing
  /\ requests = [i \in Request |-> Nothing]
  /\ touched = FALSE

(* A field is mounted: nothing typed in an earlier one is left.            *)
Mounted ==
  /\ query' = LabelOf(selectedAddress)
  /\ suggestions' = Nothing /\ open' = FALSE /\ status' = "idle"
  /\ userInteracted' = FALSE /\ focused' = FALSE /\ lookup' = "position"
  /\ debounceTimer' = Nothing /\ newest' = Nothing

(* onCleanup: the lookup is aborted, and so is what is pending.            *)
Unmounted ==
  /\ focused' = FALSE /\ lookup' = "none"
  /\ debounceTimer' = Nothing /\ newest' = Nothing
  /\ UNCHANGED <<query, suggestions, open, status, userInteracted>>

cancelPending == debounceTimer' = Nothing /\ newest' = Nothing

closeListbox == open' = FALSE

(* Faulty variant: the parent is not told that the field is the user's.    *)
MarkOnlyHere ==
  /\ userInteracted' = TRUE
  /\ touched' = TRUE
  /\ UNCHANGED addressInteracted

markInteracted ==
  /\ userInteracted' = TRUE
  /\ addressInteracted' = (addressInteracted \/ ~userInteracted)
  /\ touched' = TRUE

-----------------------------------------------------------------------------
(* The device's position.                                                  *)

LocationDenied ==
  /\ lookup = "position"
  /\ lookup' = "none"
  /\ UNCHANGED <<formVars, query, suggestions, open, status, userInteracted, focused,
                 debounceTimer, newest, requests, touched>>

LocationGranted ==
  /\ lookup = "position"
  /\ lookup' = IF addressInteracted \/ userInteracted \/ query # Empty
                  \/ selectedAddress # Nothing
               THEN "none" ELSE "address"
  /\ UNCHANGED <<formVars, query, suggestions, open, status, userInteracted, focused,
                 debounceTimer, newest, requests, touched>>

LookupFailed ==
  /\ lookup = "address"
  /\ lookup' = "none"
  /\ UNCHANGED <<formVars, query, suggestions, open, status, userInteracted, focused,
                 debounceTimer, newest, requests, touched>>

(* The address at the position has arrived: the user's own input wins.     *)
prepopulateFrom(p) ==
  /\ lookup = "address"
  /\ lookup' = "none"
  /\ IF userInteracted \/ query # Empty
     THEN UNCHANGED <<query, status, selectedAddress>>
     ELSE query' = p /\ status' = "prepopulated" /\ selectedAddress' = p
  /\ UNCHANGED <<formShown, manualEntry, addressInteracted, suggestions, open,
                 userInteracted, focused, debounceTimer, newest, requests, touched>>

-----------------------------------------------------------------------------
(* The user in the field.                                                  *)

Focus ==
  /\ mounted /\ ~focused
  /\ focused' = TRUE
  /\ markInteracted
  /\ UNCHANGED <<formShown, manualEntry, selectedAddress, query, suggestions, open,
                 status, lookup, debounceTimer, newest, requests>>

(* Faulty variant: what is pending is not cancelled.                       *)
BlurUncancelled ==
  /\ focused /\ focused' = FALSE
  /\ suggestions' = Nothing /\ closeListbox
  /\ UNCHANGED <<formVars, query, status, userInteracted, lookup, debounceTimer, newest,
                 requests, touched>>

handleBlur ==
  /\ focused /\ focused' = FALSE
  /\ cancelPending
  /\ suggestions' = Nothing
  /\ closeListbox
  /\ UNCHANGED <<formVars, query, status, userInteracted, lookup, requests, touched>>

(* Faulty variant: the selection survives the edit.                        *)
InputKeeping(text) ==
  /\ focused
  /\ markInteracted
  /\ query' = text
  /\ newest' = Nothing /\ debounceTimer' = (IF text = Empty THEN Nothing ELSE text)
  /\ suggestions' = (IF text = Empty THEN Nothing ELSE suggestions)
  /\ open' = (open /\ text # Empty)
  /\ status' = "idle"
  /\ UNCHANGED <<formShown, manualEntry, selectedAddress, focused, lookup, requests>>

handleInput(text) ==
  /\ focused
  /\ markInteracted
  /\ query' = text
  /\ selectedAddress' = Nothing
  /\ newest' = Nothing
  /\ IF text = Empty
     THEN debounceTimer' = Nothing /\ suggestions' = Nothing /\ closeListbox /\ status' = "idle"
     ELSE /\ debounceTimer' = text
          /\ status' = IF status = "prepopulated" THEN "idle" ELSE status
          /\ UNCHANGED <<suggestions, open>>
  /\ UNCHANGED <<formShown, manualEntry, focused, lookup, requests>>

select(p) ==
  /\ open
  /\ markInteracted
  /\ cancelPending
  /\ query' = p
  /\ suggestions' = Nothing
  /\ closeListbox
  /\ status' = "idle"
  /\ selectedAddress' = p
  /\ UNCHANGED <<formShown, manualEntry, focused, lookup, requests>>

(* handleKeyDown: Escape, and ArrowDown on a closed listbox.               *)
Escape ==
  /\ open /\ focused
  /\ closeListbox
  /\ UNCHANGED <<formVars, query, suggestions, status, userInteracted, focused, lookup,
                 debounceTimer, newest, requests, touched>>

ArrowDown ==
  /\ ~open /\ focused /\ suggestions # Nothing
  /\ open' = TRUE
  /\ UNCHANGED <<formVars, query, suggestions, status, userInteracted, focused, lookup,
                 debounceTimer, newest, requests, touched>>

-----------------------------------------------------------------------------
(* runFetch, up to its await: an older request is aborted, which it may    *)
(* have outrun.                                                            *)
runFetch ==
  /\ debounceTimer # Nothing
  /\ \E i \in Request :
       /\ requests[i] = Nothing
       /\ requests' = [requests EXCEPT ![i] = debounceTimer]
       /\ newest' = i
  /\ debounceTimer' = Nothing
  /\ status' = "loading"
  /\ UNCHANGED <<formVars, query, suggestions, open, userInteracted, focused, lookup, touched>>

IsNewest(i) == newest = i

(* fetchPhotonSuggestions: features a listing cannot use are skipped.      *)
Outcomes == {"found", "empty", "error"}

(* The answer to request i, or its failure.                                *)
Answered(i) ==
  /\ requests[i] # Nothing
  /\ requests' = [requests EXCEPT ![i] = Nothing]
  /\ IF IsNewest(i)
     THEN \E outcome \in Outcomes :
            /\ newest' = Nothing
            /\ suggestions' = IF outcome = "found" THEN requests[i] ELSE Nothing
            /\ open' = (outcome = "found")
            /\ status' = IF outcome = "found" THEN "idle" ELSE outcome
     ELSE UNCHANGED <<suggestions, open, status, newest>>
  /\ UNCHANGED <<formVars, query, userInteracted, focused, lookup, debounceTimer, touched>>

-----------------------------------------------------------------------------
(* The form around the field.                                              *)

EnterManually ==
  /\ mounted
  /\ manualEntry' = TRUE /\ Unmounted
  /\ UNCHANGED <<formShown, selectedAddress, addressInteracted, requests, touched>>

SearchInstead ==
  /\ formShown /\ manualEntry
  /\ manualEntry' = FALSE /\ Mounted
  /\ UNCHANGED <<formShown, selectedAddress, addressInteracted, requests, touched>>

(* A guest's submission leaves the form for MagicLinkWaiting; `Use         *)
(* different email' brings it back.                                        *)
AwaitMagicLink ==
  /\ formShown /\ (manualEntry \/ selectedAddress # Nothing)
  /\ formShown' = FALSE /\ Unmounted
  /\ UNCHANGED <<manualEntry, selectedAddress, addressInteracted, requests, touched>>

CancelMagicLink ==
  /\ ~formShown
  /\ formShown' = TRUE
  /\ IF manualEntry THEN UNCHANGED fieldVars ELSE Mounted
  /\ UNCHANGED <<manualEntry, selectedAddress, addressInteracted, requests, touched>>

AddressNext ==
  \/ LocationDenied \/ LocationGranted \/ LookupFailed
  \/ \E p \in Place : prepopulateFrom(p) \/ select(p)
  \/ Focus \/ handleBlur \/ Escape \/ ArrowDown
  \/ \E text \in Text \cup {Empty} : handleInput(text)
  \/ runFetch
  \/ \E i \in Request : Answered(i)
  \/ EnterManually \/ SearchInstead \/ AwaitMagicLink \/ CancelMagicLink

AddressSpec == AddressInit /\ [][AddressNext]_addressVars

-----------------------------------------------------------------------------
(* The coordinates a submission takes belong to the address the field      *)
(* shows, over edits, prepopulation and remounts.                          *)
SelectionIsShown ==
  mounted /\ selectedAddress # Nothing => query = selectedAddress

(* Suggestions of an older text than the visible one are kept only while   *)
(* newer ones are on their way.                                            *)
ResultsAreCurrent ==
  mounted /\ suggestions # Nothing /\ debounceTimer = Nothing /\ newest = Nothing
    => suggestions = query

(* The listbox opens only under a user who is still looking for an         *)
(* address: no late answer opens it after blur or selection.               *)
OpenWhileSearching ==
  mounted /\ open => focused /\ selectedAddress = Nothing /\ suggestions # Nothing

(* Once the user has touched the field, in this mount or an earlier one,   *)
(* the device's position fills nothing in.                                 *)
TheirsOnceTouched ==
  [][touched /\ status' = "prepopulated" => status = "prepopulated"]_addressVars

(* `Filled in from your current location' stands beside an address that is *)
(* selected, never beside suggestions of another; that it comes back never *)
(* once the field is the user's says TheirsOnceTouched.                    *)
NoticeIsTrue ==
  status = "prepopulated" /\ mounted => selectedAddress # Nothing /\ suggestions = Nothing

(* What the field offers and waits for: it belongs to the visible text and *)
(* to a user still looking, whatever is aborted, late or remounted.        *)
SearchInv == AddressTypeOK /\ ResultsAreCurrent /\ OpenWhileSearching /\ NoticeIsTrue
=============================================================================
