------------------------- MODULE ListingPageProofs -------------------------
(***************************************************************************)
(* Proofs about ListingPage.                                               *)
(*                                                                         *)
(* What a reveal answers rests on what its handler read steps ago, and all *)
(* of it may have changed since.  Seen says, for each stage of a handler,  *)
(* which of the facts that allow the answer it has come across by then;    *)
(* that facts are only ever added while it runs, and always hold what is   *)
(* so now, makes it inductive.  The controls need only that the three      *)
(* changes to the photos exclude each other.                               *)
(***************************************************************************)
EXTENDS ListingPage, FiniteSetTheorems, TLAPS

(* What the handler of a reveal has seen: all that holds now, and what its *)
(* step and the viewer it read rest on.                                    *)
Seen(t, facts) ==
  t.call = "reveal" =>
    /\ Allows(policy, session) \subseteq facts
    /\ t.stage # "session" /\ t.who \in {"verified", "owner"} => "verified" \in facts
    /\ t.stage \in {"photos", "record", "revealed"} =>
         "verified" \in facts /\ (t.who # "owner" => "policy" \in facts)
    /\ t.stage = "revealed" /\ t.who # "owner" => facts \cap {"recorded", "unwritable"} # {}

SeenInv == \A i \in Task : Seen(tasks[i], since[i])

(* The three changes exclude each other, and one countdown runs.           *)
Exclusive ==
  /\ uploading => deletingPhotoId = None /\ pendingDeleteId = None
  /\ deletingPhotoId # None => pendingDeleteId = None
  /\ timeouts = {pendingDeleteId} \ {None} /\ timeoutId = pendingDeleteId

IInv == TypeOK /\ SeenInv /\ Exclusive

-----------------------------------------------------------------------------
LEMMA SessionsAreViewers == ASSUME owns \in BOOLEAN PROVE Sessions \subseteq Viewers
  BY DEF Sessions, Viewers

LEMMA InitInv == Init => IInv
  <1> SUFFICES ASSUME Init PROVE IInv OBVIOUS
  <1>1. Idle \in InTask BY DEF Idle, InTask, Viewers
  <1>2. tasks \in [Task -> InTask] /\ \A i \in Task : tasks[i].call # "reveal"
    BY <1>1 DEF Init, Idle
  <1>3. TypeOK BY <1>2, PageConstants DEF Init, TypeOK, Policies
  <1> QED BY <1>2, <1>3, PageConstants DEF Init, IInv, SeenInv, Seen, Exclusive

(* While policy and session stay, a task says for itself that it is sound. *)
LEMMA OneTask ==
  ASSUME IInv, UNCHANGED <<policy, session>>, NEW i \in Task,
         \A j \in Task \ {i} : tasks'[j] = tasks[j] /\ since'[j] = since[j],
         Seen(tasks'[i], since'[i])
  PROVE  SeenInv'
  <1>1. Allows(policy, session)' = Allows(policy, session) BY DEF Allows
  <1> QED BY <1>1 DEF IInv, SeenInv, Seen

(* A new call takes the place of no other.                                 *)
LEMMA BeginOne ==
  ASSUME IInv, NEW c \in {"reveal", "upload", "delete"}, NEW st \in {"session", "call"},
         NEW p \in Photo \cup {None}, NEW facts \in SUBSET Facts, Begin(c, st, p, facts),
         c = "reveal" => st = "session" /\ Allows(policy, session) \subseteq facts,
         UNCHANGED <<policy, session>>
  PROVE  /\ tasks' \in [Task -> InTask] /\ since' \in [Task -> SUBSET Facts]
         /\ SeenInv'
  <1> DEFINE t == [call |-> c, stage |-> st, here |-> TRUE, who |-> "nobody", photo |-> p]
  <1>1. PICK i \in Task : /\ tasks' = [tasks EXCEPT ![i] = t]
                          /\ since' = [since EXCEPT ![i] = facts]
    BY DEF Begin
  <1>2. t \in InTask /\ t.call = c /\ t.stage = st /\ t.who = "nobody" BY DEF InTask, Viewers
  <1> HIDE DEF t
  <1>3. /\ tasks' \in [Task -> InTask] /\ since' \in [Task -> SUBSET Facts]
        /\ tasks'[i] = t /\ since'[i] = facts
        /\ \A j \in Task \ {i} : tasks'[j] = tasks[j] /\ since'[j] = since[j]
    BY <1>1, <1>2 DEF IInv, TypeOK
  <1>4. Seen(t, facts) BY <1>2 DEF Seen
  <1> QED BY <1>3, <1>4, OneTask

(* A task that goes on, and one that ends.                                 *)
LEMMA GoesOne ==
  ASSUME IInv, NEW i \in Task, NEW st, Goes(i, st),
         st \in {"listing", "photos", "record", "call", "done", "refreshing"} \cup Outcomes
  PROVE  /\ tasks' \in [Task -> InTask]
         /\ tasks'[i].call = tasks[i].call /\ tasks'[i].stage = st
         /\ tasks'[i].who = tasks[i].who /\ tasks'[i].photo = tasks[i].photo
         /\ \A j \in Task \ {i} : tasks'[j] = tasks[j]
  <1>1. tasks \in [Task -> InTask] BY DEF IInv, TypeOK
  <1>2. tasks' = [tasks EXCEPT ![i] = [tasks[i] EXCEPT !.stage = st]] BY <1>1 DEF Goes
  <1>3. [tasks[i] EXCEPT !.stage = st] \in InTask BY <1>1 DEF InTask, Outcomes
  <1> QED BY <1>1, <1>2, <1>3 DEF InTask

LEMMA EndOne ==
  ASSUME IInv, NEW i \in Task, End(i)
  PROVE  /\ tasks' \in [Task -> InTask] /\ tasks'[i].call = "none"
         /\ \A j \in Task \ {i} : tasks'[j] = tasks[j]
  <1>1. Idle \in InTask /\ Idle.call = "none" BY DEF Idle, InTask, Viewers
  <1> QED BY <1>1 DEF End, IInv, TypeOK

(* Leaving the page changes nothing in what the calls have done.           *)
LEMMA LeftKeeps ==
  ASSUME IInv, UNCHANGED <<policy, session>>, NEW i \in Task,
         tasks' \in {Left, [Left EXCEPT ![i] = Idle]},
         since' \in {since, [since EXCEPT ![i] = {}]},
         since' # since => tasks' # Left
  PROVE  tasks' \in [Task -> InTask] /\ since' \in [Task -> SUBSET Facts] /\ SeenInv'
  <1>1. Idle \in InTask /\ Idle.call = "none" BY DEF Idle, InTask, Viewers
  <1>2. tasks \in [Task -> InTask] /\ since \in [Task -> SUBSET Facts] BY DEF IInv, TypeOK
  <1>3. /\ Left \in [Task -> InTask]
        /\ \A j \in Task : /\ Left[j].call = tasks[j].call /\ Left[j].stage = tasks[j].stage
                           /\ Left[j].who = tasks[j].who
    <2>1. ASSUME NEW j \in Task
          PROVE  LET t == [tasks[j] EXCEPT !.here = FALSE]
                 IN  /\ t \in InTask /\ t.call = tasks[j].call
                     /\ t.stage = tasks[j].stage /\ t.who = tasks[j].who
      <3>1. tasks[j] \in InTask BY <1>2
      <3> QED BY <3>1 DEF InTask
    <2> QED BY <2>1 DEF Left
  <1>4. Allows(policy, session)' = Allows(policy, session) BY DEF Allows
  <1>5. CASE tasks' = Left
    BY <1>2, <1>3, <1>4, <1>5 DEF IInv, SeenInv, Seen
  <1>6. CASE tasks' = [Left EXCEPT ![i] = Idle]
    <2>1. /\ tasks' \in [Task -> InTask] /\ tasks'[i].call = "none"
          /\ \A j \in Task \ {i} : tasks'[j] = Left[j] /\ since'[j] = since[j]
          /\ since' \in [Task -> SUBSET Facts]
      BY <1>1, <1>2, <1>3, <1>6
    <2> QED BY <2>1, <1>3, <1>4 DEF IInv, SeenInv, Seen
  <1> QED BY <1>5, <1>6

LEMMA AwayInv ==
  ASSUME IInv, Away, UNCHANGED serverVars,
         tasks' \in [Task -> InTask], since' \in [Task -> SUBSET Facts]
  PROVE  TypeOK' /\ Exclusive'
  BY DEF IInv, Away, SectionsGone, serverVars, Exclusive, TypeOK, Policies, Sessions

-----------------------------------------------------------------------------
LEMMA ElsewhereInv == ASSUME IInv, Elsewhere PROVE IInv'
  <1>1. /\ tasks' = tasks /\ since' \in [Task -> SUBSET Facts]
        /\ \A i \in Task : tasks[i].call = "reveal"
                             => since'[i] = since[i] \cup Allows(policy', session')
    BY DEF Elsewhere, IInv, TypeOK, Allows, Facts
  <1>2. TypeOK'
    BY <1>1, PageConstants DEF Elsewhere, IInv, TypeOK, loaded, controls, Sessions, Policies
  <1>3. SeenInv' BY <1>1 DEF IInv, SeenInv, Seen, Allows
  <1>4. Exclusive' BY DEF Elsewhere, IInv, Exclusive, controls
  <1> QED BY <1>2, <1>3, <1>4 DEF IInv

LEMMA VisitorInv == ASSUME IInv, Visit \/ Leave \/ reveal PROVE IInv'
  <1> USE DEF IInv
  <1>1. CASE Visit
    <2>1. TypeOK' BY <1>1 DEF Visit, Load, serverVars, controls, TypeOK, Sessions, Policies
    <2> QED
      BY <1>1, <2>1 DEF Visit, Load, serverVars, controls, SeenInv, Seen, Exclusive, Allows
  <1>2. CASE Leave
    <2>1. tasks' = Left /\ UNCHANGED since /\ UNCHANGED serverVars /\ Away BY <1>2 DEF Leave
    <2>2. 1 \in Task BY PageConstants DEF Task
    <2>3. tasks' \in [Task -> InTask] /\ since' \in [Task -> SUBSET Facts] /\ SeenInv'
      BY <2>1, <2>2, LeftKeeps DEF serverVars
    <2> QED BY <2>1, <2>3, AwayInv
  <1>3. CASE reveal
    <2>1. Allows(policy, session) \in SUBSET Facts BY DEF Allows, Facts
    <2>2. tasks' \in [Task -> InTask] /\ since' \in [Task -> SUBSET Facts] /\ SeenInv'
      BY <1>3, <2>1, BeginOne DEF reveal, serverVars
    <2>3. TypeOK'
      BY <1>3, <2>2 DEF reveal, serverVars, loaded, controls, TypeOK, Sessions, Policies
    <2>4. Exclusive' BY <1>3 DEF reveal, controls, Exclusive
    <2> QED BY <2>2, <2>3, <2>4
  <1> QED BY <1>1, <1>2, <1>3

LEMMA OwnerInv ==
  ASSUME IInv,
         upload \/ cancelPendingDelete \/ \E p \in Photo : startPendingDelete(p) \/ CountdownEnds(p)
  PROVE  IInv'
  <1> USE PageConstants DEF IInv
  <1>1. CASE upload
    <2>1. tasks' \in [Task -> InTask] /\ since' \in [Task -> SUBSET Facts] /\ SeenInv'
      BY <1>1, BeginOne DEF upload, serverVars
    <2>2. TypeOK'
      BY <1>1, <2>1 DEF upload, serverVars, loaded, TypeOK, Sessions, Policies
    <2>3. Exclusive' BY <1>1 DEF upload, controlsDisabled, Exclusive
    <2> QED BY <2>1, <2>2, <2>3
  <1>2. CASE cancelPendingDelete
    <2>1. TypeOK'
      BY <1>2 DEF cancelPendingDelete, serverVars, loaded, TypeOK, Sessions, Policies
    <2>2. Exclusive' BY <1>2 DEF cancelPendingDelete, Exclusive
    <2> QED BY <1>2, <2>1, <2>2 DEF cancelPendingDelete, serverVars, SeenInv, Seen, Allows
  <1>3. ASSUME NEW p \in Photo, startPendingDelete(p) PROVE IInv'
    <2>1. TypeOK'
      BY <1>3 DEF startPendingDelete, serverVars, loaded, TypeOK, Sessions, Policies
    <2>2. Exclusive' BY <1>3 DEF startPendingDelete, controlsDisabled, Exclusive
    <2> QED BY <1>3, <2>1, <2>2 DEF startPendingDelete, serverVars, SeenInv, Seen, Allows
  <1>4. ASSUME NEW p \in Photo, CountdownEnds(p) PROVE IInv'
    <2>1. tasks' \in [Task -> InTask] /\ since' \in [Task -> SUBSET Facts] /\ SeenInv'
      BY <1>4, BeginOne DEF CountdownEnds, serverVars
    <2>2. TypeOK'
      BY <1>4, <2>1 DEF CountdownEnds, serverVars, loaded, TypeOK, Sessions, Policies
    <2>3. Exclusive' BY <1>4 DEF CountdownEnds, Exclusive
    <2> QED BY <2>1, <2>2, <2>3
  <1> QED BY <1>1, <1>2, <1>3, <1>4

(* The server's part of a reveal.                                          *)
LEMMA RevealCallInv ==
  ASSUME IInv, NEW i \in Task, ReadSession(i) \/ ReadListing(i) \/ ReadPhotos(i) \/ Record(i)
  PROVE  IInv'
  <1> USE DEF IInv
  <1>1. /\ tasks[i] \in InTask /\ Seen(tasks[i], since[i])
        /\ tasks \in [Task -> InTask] /\ since \in [Task -> SUBSET Facts]
    BY DEF TypeOK, SeenInv
  <1>2. /\ tasks[i].call = "reveal"
        /\ UNCHANGED <<serverVars, loaded, revealState, controls>>
    BY DEF ReadSession, ReadListing, ReadPhotos, Record, At
  <1>3. /\ tasks' \in [Task -> InTask] /\ since' \in [Task -> SUBSET Facts]
        /\ \A j \in Task \ {i} : tasks'[j] = tasks[j] /\ since'[j] = since[j]
        /\ Seen(tasks'[i], since'[i])
    <2>1. CASE ReadSession(i)
      <3>1. session \in Viewers BY SessionsAreViewers DEF TypeOK
      <3>2. /\ tasks' = [tasks EXCEPT ![i] = [tasks[i] EXCEPT !.who = session, !.stage = "listing"]]
            /\ since' = since
        BY <1>1, <2>1 DEF ReadSession
      <3>3. [tasks[i] EXCEPT !.who = session, !.stage = "listing"] \in InTask
        BY <1>1, <3>1 DEF InTask
      <3>4. tasks'[i].call = "reveal" /\ tasks'[i].stage = "listing" /\ tasks'[i].who = session
        BY <1>1, <1>2, <3>2 DEF InTask
      <3> QED BY <1>1, <1>2, <3>2, <3>3, <3>4 DEF Seen, Allows
    <2>2. CASE ReadListing(i)
      <3>1. PICK st \in {"failed", Decision(policy, tasks[i].who)} : Goes(i, st) /\ since' = since
        BY <2>2 DEF ReadListing
      <3>2. \/ st \in {"failed", "unauthenticated", "email_unverified"}
            \/ /\ st = "photos" /\ tasks[i].who \in {"verified", "owner"}
               /\ tasks[i].who = "owner" \/ policy = "on_verified_request"
        BY <1>1, <3>1 DEF Decision, InTask, Viewers
      <3>3. st \in {"photos"} \cup Outcomes BY <3>2 DEF Outcomes
      <3>4. tasks[i].stage = "listing" BY <2>2 DEF ReadListing, At
      <3> QED BY <1>1, <1>2, <3>1, <3>2, <3>3, <3>4, GoesOne DEF Seen, Allows
    <2>3. CASE ReadPhotos(i)
      <3>1. PICK st \in {"failed", AfterPhotos(tasks[i].who)} : Goes(i, st) /\ since' = since
        BY <2>3 DEF ReadPhotos
      <3>2. st \in {"failed", "record"} \/ (st = "revealed" /\ tasks[i].who = "owner")
        BY <3>1 DEF AfterPhotos
      <3>3. st \in {"record"} \cup Outcomes BY <3>2 DEF Outcomes
      <3>4. tasks[i].stage = "photos" BY <2>3 DEF ReadPhotos, At
      <3> QED BY <1>1, <1>2, <3>1, <3>2, <3>3, <3>4, GoesOne DEF Seen
    <2>4. CASE Record(i)
      <3>1. PICK fact \in {"recorded", "unwritable"} :
              Goes(i, "revealed") /\ since' = [since EXCEPT ![i] = @ \cup {fact}]
        BY <2>4 DEF Record
      <3>2. /\ since' \in [Task -> SUBSET Facts] /\ since'[i] = since[i] \cup {fact}
            /\ \A j \in Task \ {i} : since'[j] = since[j]
        BY <1>1, <3>1 DEF Facts
      <3>3. tasks[i].stage = "record" BY <2>4 DEF Record, At
      <3> QED BY <1>1, <1>2, <3>1, <3>2, <3>3, GoesOne DEF Seen, Outcomes
    <2> QED BY <2>1, <2>2, <2>3, <2>4
  <1>4. TypeOK' BY <1>2, <1>3 DEF TypeOK, serverVars, loaded, controls, Sessions, Policies
  <1>5. SeenInv' BY <1>2, <1>3, OneTask DEF serverVars
  <1>6. Exclusive' BY <1>2 DEF controls, Exclusive
  <1> QED BY <1>4, <1>5, <1>6

(* The answer of a reveal.                                                 *)
LEMMA RevealedInv == ASSUME IInv, NEW i \in Task, Revealed(i) PROVE IInv'
  <1> USE DEF IInv
  <1>1. UNCHANGED <<serverVars, policy, session>> /\ since' = [since EXCEPT ![i] = {}]
    BY DEF Revealed, serverVars
  <1>2. ASSUME Away, tasks' = [Left EXCEPT ![i] = Idle] PROVE IInv'
    <2>1. since' # since => tasks' # Left
      <3>1. tasks[i] \in InTask /\ Left[i] = [tasks[i] EXCEPT !.here = FALSE]
        BY DEF TypeOK, Left
      <3>2. Left[i].call = "reveal" BY <3>1 DEF Revealed, InTask
      <3> QED BY <1>2, <3>2 DEF Left, Idle
    <2>2. tasks' \in [Task -> InTask] /\ since' \in [Task -> SUBSET Facts] /\ SeenInv'
      BY <1>1, <1>2, <2>1, LeftKeeps
    <2> QED BY <1>1, <1>2, <2>2, AwayInv
  <1>3. CASE End(i) /\ UNCHANGED <<loaded, controls>>
    <2>1. since' \in [Task -> SUBSET Facts] /\ \A j \in Task \ {i} : since'[j] = since[j]
      BY <1>1 DEF TypeOK
    <2>2. SeenInv' BY <1>1, <1>3, <2>1, EndOne, OneTask DEF Seen
    <2>3. revealState' \in {revealState, "hidden", "revealed", "gated", "error"}
      <3>1. RevealStateOf(tasks[i].stage) \in {"revealed", "gated", "error"}
        BY Zenon DEF RevealStateOf
      <3>2. CASE revealState' \in IF tasks[i].here
                                  THEN {RevealStateOf(tasks[i].stage), "error"}
                                  ELSE {revealState}
        BY <3>1, <3>2
      <3>3. revealState' = "hidden" \/ revealState' \in IF tasks[i].here
                                  THEN {RevealStateOf(tasks[i].stage), "error"}
                                  ELSE {revealState}
        BY DEF Revealed, Away, SectionsGone
      <3> QED BY <3>2, <3>3
    <2>4. TypeOK'
      BY <1>1, <1>3, <2>1, <2>3, EndOne
      DEF serverVars, loaded, controls, TypeOK, Sessions, Policies
    <2> QED BY <1>3, <2>2, <2>4 DEF controls, Exclusive
  <1> QED BY <1>2, <1>3 DEF Revealed

(* The calls of the photos' section.                                       *)
LEMMA PhotoCallInv ==
  ASSUME IInv, NEW i \in Task, PhotoCallServed(i) \/ PhotoCallFailed(i) \/ PhotoCallDone(i)
  PROVE  IInv'
  <1> USE DEF IInv
  <1>1. /\ tasks[i].call \in {"upload", "delete"}
        /\ UNCHANGED <<owns, policy, session, loaded, revealState, since>>
        /\ photos' \subseteq Photo
    BY DEF PhotoCallServed, PhotoCallFailed, PhotoCallDone, serverVars, TypeOK
  <1>2. /\ tasks' \in [Task -> InTask] /\ tasks'[i].call # "reveal"
        /\ \A j \in Task \ {i} : tasks'[j] = tasks[j]
    <2>1. \/ \E st \in {"done", "failed", "refreshing"} : Goes(i, st)
          \/ End(i)
      BY DEF PhotoCallServed, PhotoCallFailed, PhotoCallDone
    <2> QED BY <1>1, <2>1, GoesOne, EndOne DEF Outcomes
  <1>3. SeenInv' BY <1>1, <1>2, OneTask DEF Seen
  <1>4. /\ UNCHANGED <<pendingDeleteId, timeouts, timeoutId>>
        /\ uploading' \in BOOLEAN /\ (uploading' => uploading)
        /\ deletingPhotoId' \in {deletingPhotoId, None}
    <2>1. CASE PhotoCallServed(i) \/ PhotoCallDone(i)
      BY <2>1 DEF PhotoCallServed, PhotoCallDone, controls, TypeOK
    <2>2. CASE PhotoCallFailed(i)
      <3>1. UNCHANGED <<pendingDeleteId, timeouts, timeoutId>> BY <2>2 DEF PhotoCallFailed
      <3>2. CASE ~tasks[i].here BY <2>2, <3>2 DEF PhotoCallFailed, Released, TypeOK
      <3>3. CASE tasks[i].here
        BY <2>2, <3>1, <3>3 DEF PhotoCallFailed, Released, TypeOK
      <3> QED BY <3>1, <3>2, <3>3, <2>2 DEF PhotoCallFailed
    <2> QED BY <2>1, <2>2
  <1>5. TypeOK' BY <1>1, <1>2, <1>4 DEF loaded, TypeOK, Sessions, Policies
  <1>6. Exclusive' BY <1>4 DEF Exclusive, TypeOK
  <1> QED BY <1>3, <1>5, <1>6

(* The page loaded anew.                                                   *)
LEMMA RefreshedInv == ASSUME IInv, NEW i \in Task, Refreshed(i) PROVE IInv'
  <1> USE DEF IInv
  <1>1. UNCHANGED <<serverVars, policy, session, since>> BY DEF Refreshed, serverVars
  <1>2. CASE page = "away"
    <2>1. End(i) /\ UNCHANGED <<loaded, revealState, controls>> BY <1>2 DEF Refreshed
    <2>2. SeenInv' BY <1>1, <2>1, EndOne, OneTask DEF Seen
    <2>3. TypeOK'
      BY <1>1, <2>1, EndOne DEF serverVars, loaded, controls, TypeOK, Sessions, Policies
    <2> QED BY <2>1, <2>2, <2>3 DEF controls, Exclusive
  <1>3. CASE page # "away" /\ page' = page
    <2>1. /\ Load /\ Released(i) /\ End(i)
          /\ UNCHANGED <<revealState, pendingDeleteId, timeouts, timeoutId>>
      BY <1>3 DEF Refreshed
    <2>2. SeenInv' BY <1>1, <2>1, EndOne, OneTask DEF Seen
    <2>3. /\ uploading' \in BOOLEAN /\ (uploading' => uploading)
          /\ deletingPhotoId' \in {deletingPhotoId, None}
      BY <2>1 DEF Released, TypeOK
    <2>4. TypeOK'
      BY <1>1, <1>3, <2>1, <2>3, EndOne DEF Load, serverVars, TypeOK, Sessions, Policies
    <2>5. Exclusive' BY <2>1, <2>3 DEF Exclusive, TypeOK
    <2> QED BY <2>2, <2>4, <2>5
  <1>4. CASE page # "away" /\ page' # page
    <2>1. Load /\ SectionsGone /\ tasks' = [Left EXCEPT ![i] = Idle] BY <1>4 DEF Refreshed
    <2>2. tasks' \in [Task -> InTask] /\ since' \in [Task -> SUBSET Facts] /\ SeenInv'
      BY <1>1, <2>1, LeftKeeps
    <2>3. TypeOK'
      BY <1>1, <2>1, <2>2 DEF Load, SectionsGone, serverVars, TypeOK, Sessions, Policies
    <2> QED BY <2>1, <2>2, <2>3 DEF SectionsGone, Exclusive
  <1> QED BY <1>2, <1>3, <1>4

LEMMA NextInv == IInv /\ [Next]_vars => IInv'
  <1> SUFFICES ASSUME IInv, [Next]_vars PROVE IInv' OBVIOUS
  <1>1. CASE Next
    BY <1>1, ElsewhereInv, VisitorInv, OwnerInv, RevealCallInv, RevealedInv, PhotoCallInv,
       RefreshedInv DEF Next, Handler
  <1>2. CASE UNCHANGED vars
    BY <1>2 DEF vars, serverVars, loaded, controls, IInv, TypeOK, Sessions, SeenInv, Seen,
                Allows, Exclusive
  <1> QED BY <1>1, <1>2

(* What every reveal has seen is enough for what it answers, and the       *)
(* changes to the photos exclude each other.                               *)
THEOREM InductiveInvariant == Spec => []IInv
  BY InitInv, NextInv, PTL DEF Spec

-----------------------------------------------------------------------------
LEMMA ExclusiveIsOne == Exclusive => OneChangeAtATime
  <1> SUFFICES ASSUME Exclusive PROVE OneChangeAtATime OBVIOUS
  <1> DEFINE busy == {c \in {"upload", "delete", "pending"} :
                        \/ c = "upload" /\ uploading
                        \/ c = "delete" /\ deletingPhotoId # None
                        \/ c = "pending" /\ pendingDeleteId # None}
  <1>1. busy = {} \/ \E c \in {"upload", "delete", "pending"} : busy = {c}
    BY DEF Exclusive
  <1>2. Cardinality(busy) <= 1
    <2>1. CASE busy = {} BY <2>1, FS_EmptySet
    <2>2. ASSUME NEW c, busy = {c} PROVE Cardinality(busy) <= 1
      BY <2>2, FS_Singleton
    <2> QED BY <1>1, <2>1, <2>2
  <1> QED BY <1>2 DEF Exclusive, OneChangeAtATime

(* An address is released only if the policy and the member allowed it at  *)
(* some moment of the call, and only with a record of it unless the record *)
(* could not be written; one change to the photos is under way at a time.  *)
THEOREM PageInvHolds == Spec => []PageInv
  <1>1. IInv => PageInv
    <2>1. IInv => ReleasedWhileAllowed /\ RevealIsRecorded
      BY DEF IInv, SeenInv, Seen, ReleasedWhileAllowed, RevealIsRecorded, At
    <2> QED BY <2>1, ExclusiveIsOne DEF IInv, PageInv
  <1> QED BY <1>1, InductiveInvariant, PTL

LEMMA DeletesCountedDown ==
  ASSUME IInv, Next, NEW i \in Task, tasks[i].call # "delete", tasks'[i].call = "delete"
  PROVE  page = "owner" /\ tasks'[i].photo = pendingDeleteId
  <1> USE DEF IInv
  <1>1. tasks \in [Task -> InTask] BY DEF TypeOK
  <1>2. ASSUME NEW p \in Photo, CountdownEnds(p)
        PROVE  page = "owner" /\ tasks'[i].photo = pendingDeleteId
    <2>1. page = "owner" /\ p = pendingDeleteId BY <1>2 DEF CountdownEnds, TypeOK, Exclusive
    <2>2. PICK j \in Task :
            tasks' = [tasks EXCEPT ![j] = [call |-> "delete", stage |-> "call", here |-> TRUE,
                                           who |-> "nobody", photo |-> p]]
      BY <1>2 DEF CountdownEnds, Begin
    <2>3. i = j BY <1>1, <2>2
    <2> QED BY <1>1, <2>1, <2>2, <2>3
  <1>3. ASSUME NEW c \in {"reveal", "upload"}, NEW st, NEW facts, Begin(c, st, None, facts)
        PROVE  FALSE
    BY <1>1, <1>3 DEF Begin
  <1>4. ASSUME NEW j \in Task, NEW st, Goes(j, st) PROVE FALSE
    <2>1. tasks'[i] \in {tasks[i], [tasks[i] EXCEPT !.stage = st]} BY <1>1, <1>4 DEF Goes
    <2>2. tasks[i] \in InTask BY <1>1
    <2> QED BY <2>1, <2>2 DEF InTask
  <1>5. ASSUME NEW j \in Task, End(j) PROVE FALSE BY <1>1, <1>5 DEF End, Idle
  <1>6. ASSUME NEW j \in Task, tasks' \in {Left, [Left EXCEPT ![j] = Idle]} PROVE FALSE
    <2>1. tasks[i] \in InTask /\ Left[i] = [tasks[i] EXCEPT !.here = FALSE]
      BY <1>1 DEF Left
    <2>2. Left[i].call # "delete" BY <2>1 DEF InTask
    <2>3. tasks'[i] \in {Left[i], Idle} BY <1>6 DEF Left
    <2> QED BY <2>2, <2>3 DEF Idle
  <1>7. ASSUME NEW j \in Task, ReadSession(j) PROVE FALSE
    <2>1. tasks[j].call = "reveal" /\ tasks[j] \in InTask BY <1>1, <1>7 DEF ReadSession, At
    <2>2. tasks'[i] = tasks[i] \/ i = j BY <1>1, <1>7 DEF ReadSession
    <2>3. tasks'[j].call = tasks[j].call BY <1>1, <1>7, <2>1 DEF ReadSession, InTask
    <2> QED BY <2>1, <2>2, <2>3
  <1>8. tasks' # tasks OBVIOUS
  <1>9. 1 \in Task BY PageConstants DEF Task
  <1>10. CASE Elsewhere \/ Visit \/ Leave \/ reveal \/ upload \/ cancelPendingDelete
    BY <1>10, <1>3, <1>6, <1>8, <1>9 DEF Elsewhere, Visit, Leave, reveal, upload, cancelPendingDelete
  <1>11. ASSUME NEW p \in Photo, startPendingDelete(p) PROVE FALSE
    BY <1>11, <1>8 DEF startPendingDelete
  <1>12. ASSUME NEW j \in Task, Handler(j) PROVE FALSE
    BY <1>12, <1>4, <1>5, <1>6, <1>7
    DEF Handler, ReadListing, ReadPhotos, Record, Revealed, PhotoCallServed, PhotoCallFailed,
        PhotoCallDone, Refreshed
  <1> QED BY <1>2, <1>10, <1>11, <1>12 DEF Next

(* Only the photo whose countdown is on the screen is deleted.             *)
THEOREM DeletesOnlyCountedDown == Spec => OnlyCountedDownDeleted
  <1>1. IInv /\ [Next]_vars
        => [\A i \in Task : tasks[i].call # "delete" /\ tasks'[i].call = "delete"
                           => page = "owner" /\ tasks'[i].photo = pendingDeleteId]_vars
    BY DeletesCountedDown
  <1> QED BY <1>1, InductiveInvariant, PTL DEF Spec, OnlyCountedDownDeleted
=============================================================================
