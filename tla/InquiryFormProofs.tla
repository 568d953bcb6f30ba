------------------------- MODULE InquiryFormProofs -------------------------
(***************************************************************************)
(* Proofs about InquiryForm, for any listings and numbers of tasks and     *)
(* links.                                                                  *)
(*                                                                         *)
(* The form, the session storage and every task carry an inquiry of their  *)
(* own.  What relates them is kept task by task (Sound), as tasks outlive  *)
(* the page they are of; that what is stored is of a listing that was      *)
(* asked for (StoreSound), and so is what the form waits for (AskedFor);   *)
(* and that a submission of the effect uses up a mark in a URL, of which a *)
(* link leaves one (MarksAreClicks).                                       *)
(***************************************************************************)
EXTENDS InquiryForm, FiniteSetTheorems, TLAPS

Answered == {"ok", "limited", "failed"}

(* A task's inquiry is one of its listing; it was asked for, and is still, *)
(* unless the document it is of is gone with all but the call itself.      *)
Sound(t) ==
  /\ t.note \in {None, t.listing}
  /\ t.stage # "idle" => t.listing \in Listing
  /\ t.stage \in {"ok", "limited"} => t.listing \in contacted
  /\ t.home = "here" => t.listing = at /\ at \in Listing
  /\ t.home # "gone" => t.listing \in asked
  /\ t.home = "gone" => t.stage \in {"idle", "call"} \cup Answered

TasksSound == \A i \in Task : Sound(tasks[i])

StoreSound == store # None => store.note = store.listing /\ store.listing \in asked

AskedFor ==
  formState \in {"awaiting-magic-link", "awaiting-name", "submitting"} => at \in asked

MarksAreClicks == IsFiniteSet(param) /\ autos + Cardinality(param) <= clicks

(* A form that says `Request sent!' has nothing stored to be sent again.   *)
SuccessClears == formState = "success" => store = None

IInv ==
  /\ TypeOK /\ note = at
  /\ TasksSound /\ StoreSound /\ AskedFor
  /\ MarksAreClicks /\ SuccessClears
  /\ EndTellsTruth /\ SendingIsUnderWay

-----------------------------------------------------------------------------
InTask == [stage: Stages, home: {"here", "left", "gone"},
           listing: Listing \cup {None}, note: Listing \cup {None}]

Users == {"out", "blank", "named"}

LEMMA TaskTypes == TypeOK => tasks \in [Task -> InTask]
  BY DEF TypeOK, InTask

LEMMA SessionsAreUsers == Sessions \subseteq Users
  BY DEF Sessions, Users

LEMMA IdleSound == Idle \in InTask /\ Sound(Idle) /\ Sound(Idle)'
  BY DEF Idle, InTask, Stages, Sound

LEMMA InitInv == Init => IInv
  <1> SUFFICES ASSUME Init PROVE IInv OBVIOUS
  <1>1. \A i \in Task : tasks[i] = Idle BY DEF Init
  <1>2. tasks \in [Task -> InTask] /\ TasksSound /\ \A i \in Task : tasks[i].home = "gone"
    BY <1>1, IdleSound DEF Init, TasksSound, Idle
  <1>3. TypeOK
    <2>1. clicks \in 0..MaxClicks
      <3>1. clicks = 0 /\ MaxClicks \in Nat BY FormConstants DEF Init
      <3> QED BY <3>1
    <2> QED BY <1>2, <2>1 DEF Init, TypeOK, InTask
  <1>4. MarksAreClicks BY FS_EmptySet DEF Init, MarksAreClicks
  <1> QED
    BY <1>2, <1>3, <1>4 DEF Init, IInv, StoreSound, AskedFor, SuccessClears, EndTellsTruth,
       SendingIsUnderWay

(* One task changes; what was contacted and asked for may grow.            *)
LEMMA OneTask ==
  ASSUME IInv, at' = at, contacted \subseteq contacted', asked \subseteq asked',
         NEW i \in Task, \A j \in Task \ {i} : tasks'[j] = tasks[j], Sound(tasks[i])'
  PROVE  TasksSound'
  BY DEF IInv, TasksSound, Sound

LEMMA SetOne ==
  ASSUME IInv, NEW i \in Task, NEW t \in InTask, Set(i, t)
  PROVE  /\ tasks' \in [Task -> InTask] /\ tasks'[i] = t
         /\ \A j \in Task \ {i} : tasks'[j] = tasks[j]
  BY TaskTypes DEF IInv, Set

(* A task that starts on the open page has the page's inquiry.             *)
LEMMA TaskOfSound ==
  ASSUME IInv, at \in Listing, NEW stage \in {"sending", "verifying", "naming", "call"}
  PROVE  LET t == TaskOf(stage, note)
         IN  t \in InTask /\ t.stage = stage /\ t.home = "here" /\ t.listing = at /\ t.note = at
  BY DEF IInv, TaskOf, InTask, Stages

(* `Sending...' stays true while no task of the page ends its submission.  *)
LEMMA StillSending ==
  ASSUME IInv, formState' = "submitting" => formState = "submitting",
         \A j \in Task : tasks[j].home = "here" /\ tasks[j].stage \in {"call"} \cup Answered
                        => tasks'[j].home = "here" /\ tasks'[j].stage \in {"call"} \cup Answered
  PROVE  SendingIsUnderWay'
  BY DEF IInv, SendingIsUnderWay, Here, Answered

-----------------------------------------------------------------------------
(* A page is opened, with tasks that are of no open page.                  *)
LEMMA MountInv ==
  ASSUME IInv, NEW l \in Listing, NEW user \in Users, NEW url \in SUBSET Listing,
         NEW running \in [Task -> InTask], Mount(l, user, url, running),
         \A i \in Task : running[i].home # "here" /\ Sound(running[i]),
         IsFiniteSet(url), autos + Cardinality(url) <= clicks', clicks' \in 0..MaxClicks
  PROVE  IInv'
  <1> USE DEF IInv
  <1>1. /\ at' = l /\ seen' = user
        /\ UNCHANGED <<session, hasName, mailed, contacted, asked>>
    BY DEF Mount, serverVars
  <1>2. CASE Resumes(l, user, FALSE, url)
    <2>1. /\ store # None /\ store.listing = l /\ store.note = l /\ l \in asked /\ l \in url
      BY <1>2 DEF Resumes, StoreSound
    <2>2. /\ hasAutoSubmitted' = TRUE /\ autos' = autos + 1 /\ param' = url \ {l}
          /\ note' = l /\ formState' = AfterAuth(user) /\ store' = store
      BY <1>2, <2>1 DEF Mount, ParamCleared
    <2>3. MarksAreClicks' /\ param' \subseteq Listing /\ autos' \in Nat
      <3>1. IsFiniteSet(url \ {l}) /\ Cardinality(url \ {l}) = Cardinality(url) - 1
            /\ Cardinality(url) \in Nat
        BY <2>1, FS_RemoveElement, FS_CardinalityType
      <3> QED BY <2>2, <3>1 DEF MarksAreClicks, TypeOK
    <2>4. /\ tasks' \in [Task -> InTask] /\ TasksSound'
          /\ \A i \in Task : tasks'[i].home = "here" => tasks'[i].listing = l
          /\ formState' = "submitting" => Here({"call"})'
          /\ formState' \in {"awaiting-name", "submitting"}
      <3>1. CASE user = "blank"
        <4>1. tasks' = running /\ formState' = "awaiting-name"
          BY <1>2, <2>2, <3>1 DEF Mount, AfterAuth
        <4> QED BY <1>1, <4>1 DEF TasksSound, Sound
      <3>2. CASE user # "blank"
        <4> DEFINE t == [stage |-> "call", home |-> "here", listing |-> l, note |-> l]
        <4>1. PICK i \in Task : tasks' = [running EXCEPT ![i] = t]
          BY <1>2, <2>1, <3>2 DEF Mount
        <4>2. t \in InTask /\ t.stage = "call" /\ t.home = "here" /\ t.listing = l /\ t.note = l
          BY DEF InTask, Stages
        <4> HIDE DEF t
        <4>3. /\ tasks' \in [Task -> InTask] /\ tasks'[i] = t
              /\ \A j \in Task \ {i} : tasks'[j] = running[j]
          BY <4>1, <4>2
        <4>4. formState' = "submitting" BY <2>2, <3>2 DEF AfterAuth
        <4>5. TasksSound' BY <1>1, <2>1, <4>2, <4>3 DEF TasksSound, Sound
        <4>6. Here({"call"})' BY <4>2, <4>3 DEF Here
        <4> QED BY <4>2, <4>3, <4>4, <4>5, <4>6
      <3> QED BY <3>1, <3>2
    <2>5. TypeOK' BY <1>1, <2>2, <2>3, <2>4 DEF TypeOK, InTask, Users
    <2>6. StoreSound' /\ AskedFor' /\ SuccessClears' /\ EndTellsTruth'
      BY <1>1, <2>1, <2>2, <2>4 DEF StoreSound, AskedFor, SuccessClears, EndTellsTruth
    <2>7. SendingIsUnderWay' BY <2>4 DEF SendingIsUnderWay, Here
    <2> QED BY <1>1, <2>2, <2>3, <2>4, <2>5, <2>6, <2>7
  <1>3. CASE ~Resumes(l, user, FALSE, url)
    <2>1. /\ hasAutoSubmitted' = FALSE /\ autos' = autos /\ param' = url
          /\ note' = l /\ formState' = "initial" /\ store' \in {store, None}
          /\ tasks' = running
      BY <1>3 DEF Mount
    <2>2. TasksSound' BY <1>1, <2>1 DEF TasksSound, Sound
    <2>3. TypeOK' BY <1>1, <2>1 DEF TypeOK, InTask, Users
    <2>4. MarksAreClicks' BY <2>1 DEF MarksAreClicks
    <2> QED
      BY <1>1, <2>1, <2>2, <2>3, <2>4 DEF StoreSound, AskedFor, SuccessClears, EndTellsTruth,
         SendingIsUnderWay
  <1> QED BY <1>2, <1>3

(* Of the tasks of a document that is gone, the calls are left.            *)
LEMMA UnloadedSound ==
  ASSUME IInv
  PROVE  /\ Unloaded \in [Task -> InTask]
         /\ \A i \in Task : Unloaded[i].home # "here" /\ Sound(Unloaded[i])
  <1>1. ASSUME NEW i \in Task
        PROVE  /\ Unloaded[i] \in InTask /\ Unloaded[i].home # "here" /\ Sound(Unloaded[i])
    <2>1. tasks[i] \in InTask /\ Sound(tasks[i]) BY TaskTypes DEF IInv, TasksSound
    <2>2. CASE tasks[i].stage = "call"
      <3>1. Unloaded[i] = [tasks[i] EXCEPT !.home = "gone"] BY <2>2 DEF Unloaded
      <3>2. /\ Unloaded[i] \in InTask /\ Unloaded[i].home = "gone" /\ Unloaded[i].stage = "call"
            /\ Unloaded[i].listing = tasks[i].listing /\ Unloaded[i].note = tasks[i].note
        BY <2>1, <2>2, <3>1 DEF InTask
      <3> QED BY <2>1, <2>2, <3>2 DEF Sound
    <2>3. CASE tasks[i].stage # "call"
      BY <2>3, IdleSound DEF Unloaded, Idle
    <2> QED BY <2>2, <2>3
  <1> QED BY <1>1 DEF Unloaded

LEMMA PagesInv ==
  ASSUME IInv, Reload \/ \E l \in Listing : Visit(l) \/ Click(l)
  PROVE  IInv'
  <1> USE DEF IInv
  <1>1. /\ IsFiniteSet(param) /\ param \subseteq Listing /\ Cardinality(param) \in Nat
        /\ autos + Cardinality(param) <= clicks /\ clicks \in 0..MaxClicks /\ autos \in Nat
    BY FS_CardinalityType DEF MarksAreClicks, TypeOK
  <1>2. ASSUME NEW l \in Listing, Visit(l) PROVE IInv'
    <2>1. PICK user \in Sessions, url \in {param, param \ {l}} : Mount(l, user, url, tasks)
      BY <1>2 DEF Visit
    <2>2. at = None /\ clicks' = clicks BY <1>2 DEF Visit
    <2>3. \A i \in Task : tasks[i].home # "here" /\ Sound(tasks[i])
      BY <2>2, FormConstants DEF TasksSound, Sound
    <2>4. IsFiniteSet(url) /\ autos + Cardinality(url) <= clicks
      <3>1. /\ IsFiniteSet(param \ {l}) /\ Cardinality(param \ {l}) \in Nat
            /\ Cardinality(param \ {l}) <= Cardinality(param)
        BY <1>1, FS_Subset, FS_CardinalityType
      <3> QED BY <1>1, <3>1
    <2>5. user \in Users /\ url \in SUBSET Listing BY <1>1, SessionsAreUsers
    <2>6. tasks \in [Task -> InTask] BY TaskTypes
    <2> QED BY <1>1, <2>1, <2>2, <2>3, <2>4, <2>5, <2>6, MountInv
  <1>3. ASSUME NEW l \in Listing, Click(l) PROVE IInv'
    <2>1. PICK user \in Sessions : Mount(l, user, param \cup {l}, Unloaded)
      BY <1>3 DEF Click
    <2>2. /\ IsFiniteSet(param \cup {l})
          /\ autos + Cardinality(param \cup {l}) <= clicks' /\ clicks' \in 0..MaxClicks
      <3>1. /\ IsFiniteSet(param \cup {l}) /\ Cardinality(param \cup {l}) \in Nat
            /\ Cardinality(param \cup {l}) <= Cardinality(param) + 1
        <4>1. IsFiniteSet(param \cup {l}) BY <1>1, FS_AddElement
        <4>2. Cardinality(param \cup {l}) \in {Cardinality(param), Cardinality(param) + 1}
          BY <1>1, FS_AddElement
        <4> QED BY <1>1, <4>1, <4>2
      <3>2. clicks' = clicks + 1 /\ clicks < MaxClicks /\ MaxClicks \in Nat
        BY <1>3, FormConstants DEF Click
      <3> QED BY <1>1, <3>1, <3>2
    <2>3. user \in Users /\ param \cup {l} \in SUBSET Listing BY <1>1, SessionsAreUsers
    <2> QED BY <2>1, <2>2, <2>3, UnloadedSound, MountInv
  <1>4. CASE Reload
    <2>1. PICK user \in Sessions : Mount(at, user, param, Unloaded)
      BY <1>4 DEF Reload
    <2>2. at \in Listing /\ clicks' = clicks BY <1>4 DEF Reload, TypeOK
    <2>3. user \in Users /\ param \in SUBSET Listing BY <1>1, SessionsAreUsers
    <2> QED BY <1>1, <2>1, <2>2, <2>3, UnloadedSound, MountInv
  <1> QED BY <1>2, <1>3, <1>4

LEMMA LeaveInv == ASSUME IInv, Leave PROVE IInv'
  <1> USE DEF IInv
  <1>1. /\ at' = None /\ note' = None /\ formState' = "initial" /\ hasAutoSubmitted' = FALSE
        /\ tasks' = Unmounted
        /\ UNCHANGED <<session, hasName, mailed, contacted, store, param, seen, clicks, autos, asked>>
    BY DEF Leave, serverVars, history
  <1>2. ASSUME NEW i \in Task
        PROVE  /\ Unmounted[i] \in InTask /\ Unmounted[i].home # "here" /\ Sound(Unmounted[i])
    <2>1. tasks[i] \in InTask /\ Sound(tasks[i]) BY TaskTypes DEF TasksSound
    <2>2. CASE tasks[i].home = "here"
      <3>1. Unmounted[i] = [tasks[i] EXCEPT !.home = "left"] BY <2>2 DEF Unmounted
      <3>2. /\ Unmounted[i] \in InTask /\ Unmounted[i].home = "left"
            /\ Unmounted[i].stage = tasks[i].stage
            /\ Unmounted[i].listing = tasks[i].listing /\ Unmounted[i].note = tasks[i].note
        BY <2>1, <3>1 DEF InTask
      <3> QED BY <2>1, <2>2, <3>2 DEF Sound
    <2>3. CASE tasks[i].home # "here" BY <2>1, <2>3 DEF Unmounted
    <2> QED BY <2>2, <2>3
  <1>3. tasks' \in [Task -> InTask] /\ \A i \in Task : tasks'[i].home # "here"
    BY <1>1, <1>2 DEF Unmounted
  <1>4. TasksSound' BY <1>1, <1>2 DEF TasksSound, Sound
  <1>5. TypeOK' BY <1>1, <1>3 DEF TypeOK, InTask
  <1> QED
    BY <1>1, <1>4, <1>5 DEF StoreSound, AskedFor, MarksAreClicks, SuccessClears, EndTellsTruth,
       SendingIsUnderWay

-----------------------------------------------------------------------------
(* A task starts, goes on or ends on the page that is open.                *)
LEMMA Starts ==
  ASSUME IInv, at \in Listing, at' = at, contacted' = contacted,
         asked \subseteq asked', at \in asked', NEW i \in Task, NextTask(i),
         NEW stage \in {"sending", "verifying", "naming", "call"}, Set(i, TaskOf(stage, note))
  PROVE  /\ tasks' \in [Task -> InTask] /\ TasksSound'
         /\ tasks'[i].home = "here" /\ tasks'[i].stage = stage
         /\ \A j \in Task : tasks[j].stage # "idle" => tasks'[j] = tasks[j]
  <1>1. PICK t \in InTask : /\ t = TaskOf(stage, note)
                            /\ t.stage = stage /\ t.home = "here"
                            /\ t.listing = at /\ t.note = at
    BY TaskOfSound
  <1>2. /\ tasks' \in [Task -> InTask] /\ tasks'[i] = t
        /\ \A j \in Task \ {i} : tasks'[j] = tasks[j]
    BY <1>1, SetOne
  <1>3. Sound(tasks[i])' BY <1>1, <1>2 DEF Sound
  <1> QED BY <1>1, <1>2, <1>3, OneTask DEF NextTask, IsIdle

LEMMA GoesOn ==
  ASSUME IInv, at' = at, contacted \subseteq contacted', asked' = asked, NEW i \in Task,
         NEW stage \in Stages \ {"idle"}, Set(i, [tasks[i] EXCEPT !.stage = stage]),
         tasks[i].stage # "idle",
         stage \in {"ok", "limited"} => tasks[i].listing \in contacted',
         tasks[i].home = "gone" => stage \in {"call"} \cup Answered
  PROVE  /\ tasks' \in [Task -> InTask] /\ TasksSound'
         /\ tasks'[i].stage = stage /\ tasks'[i].home = tasks[i].home
         /\ \A j \in Task \ {i} : tasks'[j] = tasks[j]
  <1>1. tasks[i] \in InTask /\ Sound(tasks[i]) BY TaskTypes DEF IInv, TasksSound
  <1>2. PICK t \in InTask : /\ t = [tasks[i] EXCEPT !.stage = stage]
                            /\ t.stage = stage /\ t.home = tasks[i].home
                            /\ t.listing = tasks[i].listing /\ t.note = tasks[i].note
    BY <1>1 DEF InTask
  <1>3. /\ tasks' \in [Task -> InTask] /\ tasks'[i] = t
        /\ \A j \in Task \ {i} : tasks'[j] = tasks[j]
    BY <1>2, SetOne
  <1>4. Sound(tasks[i])' BY <1>1, <1>2, <1>3 DEF Sound
  <1> QED BY <1>2, <1>3, <1>4, OneTask

LEMMA Ends ==
  ASSUME IInv, at' = at, contacted \subseteq contacted', asked' = asked,
         NEW i \in Task, End(i)
  PROVE  /\ tasks' \in [Task -> InTask] /\ TasksSound'
         /\ tasks'[i].stage = "idle" /\ tasks'[i].home = "gone"
         /\ \A j \in Task \ {i} : tasks'[j] = tasks[j]
  <1>1. Idle \in InTask /\ Idle.stage = "idle" /\ Idle.home = "gone" /\ Idle.note = None
    BY IdleSound DEF Idle
  <1>2. /\ tasks' \in [Task -> InTask] /\ tasks'[i] = Idle
        /\ \A j \in Task \ {i} : tasks'[j] = tasks[j]
    BY <1>1, SetOne DEF End
  <1>3. Sound(tasks[i])' BY <1>1, <1>2 DEF Sound
  <1> QED BY <1>1, <1>2, <1>3, OneTask

-----------------------------------------------------------------------------
(* What the visitor does with the form.                                    *)
LEMMA SubmitInv ==
  ASSUME IInv, SubmitSignedIn \/ SubmitAsGuest \/ SubmitWithoutEmail
  PROVE  IInv'
  <1> USE DEF IInv
  <1>1. /\ at # None /\ at \in Listing /\ formState \in {"initial", "error"}
        /\ asked' = asked \cup {at} /\ asked' \subseteq Listing
        /\ UNCHANGED <<session, hasName, mailed, contacted, param, at, seen, note,
                       hasAutoSubmitted, clicks, autos>>
    BY DEF SubmitSignedIn, SubmitAsGuest, SubmitWithoutEmail, serverVars, pageVars, TypeOK
  <1>2. MarksAreClicks' BY <1>1 DEF MarksAreClicks
  <1>3. /\ formState' \in {"awaiting-name", "submitting", formState}
        /\ formState' = "submitting" => SubmitSignedIn /\ seen # "blank"
        /\ store' \in {store, [listing |-> at, note |-> note]}
    BY <1>1 DEF SubmitSignedIn, SubmitAsGuest, SubmitWithoutEmail, AfterAuth, pageVars
  <1>4. /\ tasks' \in [Task -> InTask] /\ TasksSound'
        /\ formState' = "submitting" => Here({"call"})'
    <2>1. CASE UNCHANGED tasks /\ formState' # "submitting"
      BY <1>1, <2>1, TaskTypes DEF TasksSound, Sound
    <2>2. ASSUME NEW i \in Task, NEW stage \in {"sending", "call"}, NextTask(i),
                 Set(i, TaskOf(stage, note)), formState' = "submitting" => stage = "call"
          PROVE  /\ tasks' \in [Task -> InTask] /\ TasksSound'
                 /\ formState' = "submitting" => Here({"call"})'
      BY <1>1, <2>2, Starts DEF Here
    <2>3. CASE SubmitSignedIn /\ seen = "blank"
      BY <2>1, <2>3 DEF SubmitSignedIn, AfterAuth
    <2>4. CASE SubmitSignedIn /\ seen # "blank"
      BY <2>2, <2>4 DEF SubmitSignedIn
    <2>5. CASE SubmitAsGuest
      BY <1>1, <2>2, <2>5 DEF SubmitAsGuest, pageVars
    <2>6. CASE SubmitWithoutEmail
      BY <1>1, <2>1, <2>6 DEF SubmitWithoutEmail, pageVars
    <2> QED BY <2>3, <2>4, <2>5, <2>6
  <1>5. store' \in Stored \cup {None} /\ StoreSound'
    BY <1>1, <1>3 DEF TypeOK, Stored, StoreSound
  <1>6. TypeOK' BY <1>1, <1>3, <1>4, <1>5 DEF TypeOK, InTask, TasksSound, Sound
  <1>7. AskedFor' /\ SuccessClears' /\ EndTellsTruth'
    BY <1>1, <1>3 DEF AskedFor, SuccessClears, EndTellsTruth
  <1>8. SendingIsUnderWay' BY <1>4 DEF SendingIsUnderWay, Here
  <1> QED BY <1>1, <1>2, <1>4, <1>5, <1>6, <1>7, <1>8

LEMMA WaitingInv ==
  ASSUME IInv, OpenLink \/ ResendEmail \/ Cancel
  PROVE  IInv'
  <1> USE DEF IInv
  <1>1. /\ UNCHANGED <<hasName, contacted, param, at, seen, note, hasAutoSubmitted, tasks,
                       clicks, autos>>
        /\ session' \in BOOLEAN /\ mailed' \subseteq Listing
    BY DEF OpenLink, ResendEmail, Cancel, serverVars, pageVars, history, Mailed, AskedFor, TypeOK
  <1>2. MarksAreClicks' BY <1>1 DEF MarksAreClicks
  <1>3. CASE Cancel
    <2>1. /\ formState' = "initial" /\ store' = None
          /\ asked' = IF UnderWay THEN asked ELSE asked \ {at}
      BY <1>3 DEF Cancel
    <2>2. TasksSound' BY <1>1, <2>1 DEF TasksSound, Sound, UnderWay
    <2>3. TypeOK' BY <1>1, <2>1 DEF TypeOK
    <2> QED
      BY <1>1, <1>2, <2>1, <2>2, <2>3 DEF StoreSound, AskedFor, SuccessClears, EndTellsTruth,
         SendingIsUnderWay
  <1>4. CASE OpenLink \/ ResendEmail
    <2>1. UNCHANGED <<formState, store, asked>>
      BY <1>4 DEF OpenLink, ResendEmail, pageVars, history
    <2>2. TasksSound' BY <1>1, <2>1 DEF TasksSound, Sound
    <2>3. TypeOK' BY <1>1, <2>1 DEF TypeOK
    <2> QED
      BY <1>1, <1>2, <2>1, <2>2, <2>3 DEF StoreSound, AskedFor, SuccessClears, EndTellsTruth,
         SendingIsUnderWay, Here
  <1> QED BY <1>3, <1>4

LEMMA TokenAndNameInv ==
  ASSUME IInv, EnterToken \/ SubmitName
  PROVE  IInv'
  <1> USE DEF IInv
  <1>1. /\ at \in asked /\ at \in Listing
        /\ formState \in {"awaiting-magic-link", "awaiting-name"}
        /\ UNCHANGED <<session, hasName, mailed, contacted, store, param, at, seen, note,
                       hasAutoSubmitted, clicks, autos, asked>>
    BY DEF EnterToken, SubmitName, serverVars, pageVars, history, AskedFor, TypeOK
  <1>2. PICK i \in Task, stage \in {"verifying", "naming", "call"} :
          /\ NextTask(i) /\ Set(i, TaskOf(stage, note))
          /\ formState' = formState \/ (formState' = "submitting" /\ stage = "call")
    BY DEF EnterToken, SubmitName, pageVars
  <1>3. /\ tasks' \in [Task -> InTask] /\ TasksSound'
        /\ tasks'[i].home = "here" /\ tasks'[i].stage = stage
    BY <1>1, <1>2, Starts
  <1>4. TypeOK' BY <1>1, <1>2, <1>3 DEF TypeOK, InTask, TasksSound, Sound
  <1>5. SendingIsUnderWay' BY <1>1, <1>2, <1>3 DEF SendingIsUnderWay, Here
  <1> QED
    BY <1>1, <1>2, <1>3, <1>4, <1>5 DEF StoreSound, AskedFor, SuccessClears, EndTellsTruth,
       MarksAreClicks

-----------------------------------------------------------------------------
(* Signing in: the mail, the token.                                        *)
LEMMA SignInInv ==
  ASSUME IInv, NEW i \in Task,
         LinkSent(i) \/ LinkNotSent(i) \/ Verified(i) \/ NotVerified(i)
  PROVE  IInv'
  <1> USE DEF IInv
  <1>1. tasks[i] \in InTask /\ Sound(tasks[i]) BY TaskTypes DEF TasksSound
  <1>2. /\ tasks[i].stage \in {"sending", "verifying"}
        /\ tasks[i].home # "gone" /\ tasks[i].listing \in asked
    BY <1>1 DEF LinkSent, LinkNotSent, Verified, NotVerified, Sound, Answered
  <1>3. /\ UNCHANGED <<hasName, contacted, store, param, at, seen, note, hasAutoSubmitted,
                       clicks, autos, asked>>
        /\ session' \in BOOLEAN /\ mailed' \subseteq Listing
    BY <1>2 DEF LinkSent, LinkNotSent, Verified, NotVerified, serverVars, pageVars, history,
       Mailed, TypeOK
  <1>4. /\ tasks' \in [Task -> InTask] /\ TasksSound'
        /\ \A j \in Task \ {i} : tasks'[j] = tasks[j]
    <2>1. CASE Verified(i)
      BY <1>2, <1>3, <2>1, GoesOn DEF Verified, Stages
    <2>2. CASE ~Verified(i)
      <3>1. End(i) BY <2>2 DEF LinkSent, LinkNotSent, NotVerified
      <3> QED BY <1>3, <3>1, Ends
    <2> QED BY <2>1, <2>2
  <1>5. \/ formState' = formState
        \/ tasks[i].home = "here" /\ formState' = "awaiting-magic-link"
    BY DEF LinkSent, LinkNotSent, Verified, NotVerified, Shows, pageVars
  <1>6. TypeOK' BY <1>3, <1>4, <1>5 DEF TypeOK, InTask, TasksSound, Sound
  <1>7. AskedFor' BY <1>1, <1>2, <1>3, <1>5 DEF AskedFor, Sound
  <1>8. SendingIsUnderWay' BY <1>2, <1>4, <1>5, StillSending DEF Answered
  <1> QED
    BY <1>3, <1>4, <1>5, <1>6, <1>7, <1>8 DEF StoreSound, SuccessClears, EndTellsTruth,
       MarksAreClicks

(* The session is known: what was entered is submitted, and what was       *)
(* stored too, when the URL is still marked.                               *)
LEMMA RefreshedInv == ASSUME IInv, NEW i \in Task, Refreshed(i) PROVE IInv'
  <1> USE DEF IInv
  <1> DEFINE here == tasks[i].home = "here"
  <1>1. tasks[i] \in InTask /\ Sound(tasks[i]) BY TaskTypes DEF TasksSound
  <1>2. /\ tasks[i].stage = "refreshing" /\ tasks[i].home \in {"here", "left"}
        /\ tasks[i].listing \in asked /\ tasks[i].listing \in Listing
    BY <1>1 DEF Refreshed, Sound, Answered, InTask
  <1>3. UNCHANGED <<session, hasName, mailed, contacted, at, clicks, asked>>
    BY DEF Refreshed, serverVars
  <1>4. PICK user \in Users :
          LET resumes == here /\ Resumes(at, user, hasAutoSubmitted, param)
              text    == IF resumes THEN store.note ELSE tasks[i].note
              own     == IF user = "blank" THEN Idle
                         ELSE [tasks[i] EXCEPT !.stage = "call", !.note = text]
          IN  /\ seen' = user
              /\ Shows(i, AfterAuth(user))
              /\ note' = IF resumes THEN store.note ELSE note
              /\ hasAutoSubmitted' = (hasAutoSubmitted \/ resumes)
              /\ param' = IF resumes THEN ParamCleared(at, param) ELSE param
              /\ autos' = IF resumes THEN autos + 1 ELSE autos
              /\ store' = IF here /\ Discards(at, user, hasAutoSubmitted, param)
                          THEN None ELSE store
              /\ IF resumes /\ user = "named"
                 THEN \E j \in Task :
                        NextTask(j) /\ tasks' = [tasks EXCEPT ![i] = own, ![j] = TaskOf("call", text)]
                 ELSE Set(i, own)
    BY SessionsAreUsers DEF Refreshed
  <1> DEFINE resumes == here /\ Resumes(at, user, hasAutoSubmitted, param)
             text    == IF resumes THEN store.note ELSE tasks[i].note
             own     == IF user = "blank" THEN Idle
                        ELSE [tasks[i] EXCEPT !.stage = "call", !.note = text]
  <1>5. resumes => /\ store # None /\ store.note = at /\ at \in param /\ at \in Listing
                   /\ tasks[i].listing = at
    BY <1>1 DEF Resumes, StoreSound, TypeOK, Sound
  <1>6. note' = at' /\ store' \in {store, None} /\ hasAutoSubmitted' \in BOOLEAN
    BY <1>3, <1>4, <1>5 DEF TypeOK
  <1>7. /\ formState' = IF here THEN AfterAuth(user) ELSE formState
        /\ AfterAuth(user) \in {"awaiting-name", "submitting"}
        /\ AfterAuth(user) = "submitting" => user # "blank"
    BY <1>4 DEF Shows, AfterAuth
  <1>8. MarksAreClicks' /\ param' \subseteq Listing /\ autos' \in Nat
    <2>1. CASE resumes
      <3>1. /\ IsFiniteSet(param \ {at}) /\ Cardinality(param \ {at}) = Cardinality(param) - 1
            /\ Cardinality(param) \in Nat
        BY <1>5, <2>1, FS_RemoveElement, FS_CardinalityType DEF MarksAreClicks
      <3>2. param' = param \ {at} /\ autos' = autos + 1 BY <1>4, <2>1 DEF ParamCleared
      <3> QED BY <1>3, <3>1, <3>2 DEF MarksAreClicks, TypeOK
    <2>2. CASE ~resumes
      <3>1. param' = param /\ autos' = autos BY <1>4, <2>2
      <3> QED BY <1>3, <3>1 DEF MarksAreClicks, TypeOK
    <2> QED BY <2>1, <2>2
  <1>9. text \in {None, tasks[i].listing} BY <1>1, <1>5 DEF Sound
  <1>10. PICK t \in InTask :
           /\ t = own /\ t.note \in {None, t.listing}
           /\ user = "blank" => t = Idle
           /\ user # "blank" => /\ t.stage = "call" /\ t.home = tasks[i].home
                                /\ t.listing = tasks[i].listing
    <2>1. CASE user = "blank"
      BY <2>1, IdleSound DEF Sound
    <2>2. CASE user # "blank"
      <3> DEFINE u == [stage |-> "call", home |-> tasks[i].home,
                       listing |-> tasks[i].listing, note |-> text]
      <3>1. own = u BY <1>1, <2>2 DEF InTask
      <3>2. u \in InTask /\ u.note \in {None, u.listing} BY <1>1, <1>9 DEF InTask, Stages
      <3> QED BY <2>2, <3>1, <3>2
    <2> QED BY <2>1, <2>2
  <1>11. /\ tasks' \in [Task -> InTask] /\ TasksSound' /\ tasks'[i] = t
         /\ \A j \in Task \ {i} : tasks[j].stage # "idle" => tasks'[j] = tasks[j]
    <2>1. Sound(t)' BY <1>1, <1>2, <1>3, <1>10, IdleSound DEF Sound
    <2>2. CASE resumes /\ user = "named"
      <3>1. PICK j \in Task :
              NextTask(j) /\ tasks' = [tasks EXCEPT ![i] = t, ![j] = TaskOf("call", at)]
        BY <1>4, <1>5, <1>10, <2>2
      <3>2. PICK u \in InTask : /\ u = TaskOf("call", at) /\ u.stage = "call"
                                /\ u.home = "here" /\ u.listing = at /\ u.note = at
        BY <1>5, <2>2, TaskOfSound
      <3>3. j # i /\ tasks[j].stage = "idle" BY <1>2, <3>1 DEF NextTask, IsIdle
      <3>4. /\ tasks' \in [Task -> InTask] /\ tasks'[i] = t /\ tasks'[j] = u
            /\ \A k \in Task \ {i, j} : tasks'[k] = tasks[k]
        BY <3>1, <3>2, <3>3, TaskTypes
      <3>5. Sound(u)' BY <1>2, <1>3, <1>5, <2>2, <3>2 DEF Sound
      <3>6. \A k \in Task : Sound(tasks[k])' BY <1>3, <2>1, <3>4, <3>5 DEF TasksSound, Sound
      <3> QED BY <3>3, <3>4, <3>6 DEF TasksSound
    <2>3. CASE ~(resumes /\ user = "named")
      <3>1. Set(i, t) BY <1>4, <1>10, <2>3
      <3>2. /\ tasks' \in [Task -> InTask] /\ tasks'[i] = t
            /\ \A j \in Task \ {i} : tasks'[j] = tasks[j]
        BY <3>1, SetOne
      <3>3. Sound(tasks[i])' BY <2>1, <3>2 DEF Sound
      <3> QED BY <1>3, <3>2, <3>3, OneTask
    <2> QED BY <2>2, <2>3
  <1>12. TypeOK'
    BY <1>3, <1>4, <1>6, <1>7, <1>8, <1>11 DEF TypeOK, InTask, Users, TasksSound, Sound
  <1>13. /\ StoreSound' BY <1>3, <1>6 DEF StoreSound
  <1>14. AskedFor' BY <1>1, <1>2, <1>3, <1>7 DEF AskedFor, Sound
  <1>15. SuccessClears' /\ EndTellsTruth'
    BY <1>3, <1>6, <1>7 DEF SuccessClears, EndTellsTruth
  <1>16. SendingIsUnderWay'
    <2>1. CASE here BY <1>7, <1>10, <1>11, <2>1 DEF SendingIsUnderWay, Here
    <2>2. CASE ~here
      <3>1. \A j \in Task : tasks[j].home = "here" /\ tasks[j].stage \in {"call"} \cup Answered
                          => tasks'[j].home = "here" /\ tasks'[j].stage \in {"call"} \cup Answered
        BY <1>11, <2>2 DEF Answered
      <3> QED BY <1>7, <2>2, <3>1, StillSending
    <2> QED BY <2>1, <2>2
  <1> QED BY <1>6, <1>8, <1>11, <1>12, <1>13, <1>14, <1>15, <1>16

LEMMA NameSavedInv == ASSUME IInv, NEW i \in Task, NameSaved(i) PROVE IInv'
  <1> USE DEF IInv
  <1>1. tasks[i] \in InTask /\ Sound(tasks[i]) BY TaskTypes DEF TasksSound
  <1>2. tasks[i].stage = "naming" /\ tasks[i].home # "gone" /\ tasks[i].listing \in asked
    BY <1>1 DEF NameSaved, Sound, Answered
  <1>3. /\ UNCHANGED <<session, mailed, contacted, store, param, at, seen, note,
                       hasAutoSubmitted, clicks, autos, asked>>
        /\ hasName' \in BOOLEAN
        /\ formState' = IF tasks[i].home = "here" THEN "submitting" ELSE formState
    BY DEF NameSaved, history, Shows, TypeOK
  <1>4. /\ tasks' \in [Task -> InTask] /\ TasksSound'
        /\ tasks'[i].stage = "call" /\ tasks'[i].home = tasks[i].home
        /\ \A j \in Task \ {i} : tasks'[j] = tasks[j]
    BY <1>2, <1>3, GoesOn DEF NameSaved, Stages
  <1>5. TypeOK' BY <1>3, <1>4 DEF TypeOK, InTask, TasksSound, Sound
  <1>6. AskedFor' BY <1>1, <1>2, <1>3 DEF AskedFor, Sound
  <1>7. SendingIsUnderWay'
    <2>1. CASE tasks[i].home = "here" BY <1>3, <1>4, <2>1 DEF SendingIsUnderWay, Here
    <2>2. CASE tasks[i].home # "here" BY <1>3, <1>4, <2>2, StillSending
    <2> QED BY <2>1, <2>2
  <1> QED
    BY <1>3, <1>4, <1>5, <1>6, <1>7 DEF StoreSound, SuccessClears, EndTellsTruth, MarksAreClicks

-----------------------------------------------------------------------------
(* The call and its answer.                                                *)
LEMMA ServeInv == ASSUME IInv, NEW i \in Task, Serve(i) PROVE IInv'
  <1> USE DEF IInv
  <1>1. tasks[i] \in InTask /\ Sound(tasks[i]) BY TaskTypes DEF TasksSound
  <1>2. /\ tasks[i].stage = "call" /\ tasks[i].listing \in Listing
        /\ UNCHANGED <<session, hasName, mailed, store, param, at, seen, formState, note,
                       hasAutoSubmitted, clicks, autos, asked>>
    BY <1>1 DEF Serve, pageVars, history, Sound
  <1>3. PICK a \in Answered :
          /\ Set(i, [tasks[i] EXCEPT !.stage = a])
          /\ contacted' \in {contacted, contacted \cup {tasks[i].listing}}
          /\ a \in {"ok", "limited"} => tasks[i].listing \in contacted'
    BY DEF Serve, Answered
  <1>4. /\ tasks' \in [Task -> InTask] /\ TasksSound'
        /\ tasks'[i].stage = a /\ tasks'[i].home = tasks[i].home
        /\ \A j \in Task \ {i} : tasks'[j] = tasks[j]
    BY <1>2, <1>3, GoesOn DEF Stages, Answered
  <1>5. TypeOK' BY <1>2, <1>3, <1>4 DEF TypeOK, InTask, TasksSound, Sound
  <1>6. EndTellsTruth' BY <1>2, <1>3 DEF EndTellsTruth
  <1>7. SendingIsUnderWay' BY <1>2, <1>4, StillSending
  <1> QED
    BY <1>2, <1>4, <1>5, <1>6, <1>7 DEF StoreSound, AskedFor, SuccessClears, MarksAreClicks

LEMMA ReturnsInv == ASSUME IInv, NEW i \in Task, Returns(i) PROVE IInv'
  <1> USE DEF IInv
  <1>1. tasks[i] \in InTask /\ Sound(tasks[i]) BY TaskTypes DEF TasksSound
  <1>2. /\ tasks[i].stage \in Answered
        /\ UNCHANGED <<session, hasName, mailed, contacted, param, at, seen, note,
                       hasAutoSubmitted, clicks, autos, asked>>
        /\ store' = IF tasks[i].stage = "ok" /\ tasks[i].home # "gone" THEN None ELSE store
    BY DEF Returns, Answered, serverVars, history
  <1>3. /\ tasks' \in [Task -> InTask] /\ TasksSound'
        /\ \A j \in Task \ {i} : tasks'[j] = tasks[j]
    BY <1>2, Ends DEF Returns
  <1>4. CASE tasks[i].home = "here"
    <2>1. tasks[i].listing = at BY <1>1, <1>4 DEF Sound
    <2>2. \/ tasks[i].stage = "ok" /\ formState' = "success"
          \/ tasks[i].stage = "limited" /\ formState' = "rate-limited"
          \/ tasks[i].stage = "failed" /\ formState' = "error"
      BY <1>2, <1>4 DEF Returns, Shows, Answered
    <2>3. TypeOK' BY <1>2, <1>3, <2>2 DEF TypeOK, InTask, TasksSound, Sound
    <2>4. EndTellsTruth' BY <1>1, <1>2, <2>1, <2>2 DEF EndTellsTruth, Sound
    <2>5. SuccessClears' BY <1>2, <1>4, <2>2 DEF SuccessClears
    <2> QED
      BY <1>2, <1>3, <2>2, <2>3, <2>4, <2>5 DEF StoreSound, AskedFor, MarksAreClicks,
         SendingIsUnderWay
  <1>5. CASE tasks[i].home # "here"
    <2>1. formState' = formState BY <1>5 DEF Returns, Shows
    <2>2. TypeOK' BY <1>2, <1>3, <2>1 DEF TypeOK, InTask, TasksSound, Sound
    <2>3. SendingIsUnderWay' BY <1>2, <1>3, <1>5, <2>1, StillSending
    <2> QED
      BY <1>2, <1>3, <2>1, <2>2, <2>3 DEF StoreSound, AskedFor, MarksAreClicks, SuccessClears,
         EndTellsTruth
  <1> QED BY <1>4, <1>5

LEMMA NextInv == IInv /\ [Next]_vars => IInv'
  <1> SUFFICES ASSUME IInv, [Next]_vars PROVE IInv' OBVIOUS
  <1>1. CASE Next
    BY <1>1, PagesInv, LeaveInv, SubmitInv, WaitingInv, TokenAndNameInv, SignInInv, RefreshedInv,
       NameSavedInv, ServeInv, ReturnsInv DEF Next, Handler
  <1>2. CASE UNCHANGED vars
    BY <1>2 DEF vars, serverVars, pageVars, history, IInv, TypeOK, TasksSound, Sound, StoreSound,
       AskedFor, MarksAreClicks, SuccessClears, EndTellsTruth, SendingIsUnderWay, Here
  <1> QED BY <1>1, <1>2

(* What the form, the storage and the tasks carry stays consistent.        *)
THEOREM InductiveInvariant == Spec => []IInv
  BY InitInv, NextInv, PTL DEF Spec

-----------------------------------------------------------------------------
(* `Request sent!' and `Already contacted' tell the truth about the        *)
(* listing on the page, whichever of several submissions they answer.      *)
THEOREM EndIsTrue == Spec => []EndTellsTruth
  <1>1. IInv => EndTellsTruth BY DEF IInv
  <1> QED BY <1>1, InductiveInvariant, PTL

(* A note goes to the listing it was written for, a link submits at most   *)
(* once, and nothing that was sent waits to be sent again.                 *)
THEOREM FormIsSound == Spec => []FormInv
  <1>1. IInv => FormInv
    <2> SUFFICES ASSUME IInv PROVE FormInv OBVIOUS
    <2>1. NoteOnItsListing BY DEF IInv, TasksSound, Sound, NoteOnItsListing
    <2>2. AutoSubmitOncePerLink
      BY FS_CardinalityType DEF IInv, TypeOK, MarksAreClicks, AutoSubmitOncePerLink
    <2>3. SentIsNotStored BY DEF IInv, SuccessClears, SentIsNotStored
    <2> QED BY <2>1, <2>2, <2>3 DEF IInv, FormInv
  <1> QED BY <1>1, InductiveInvariant, PTL

(* A call of a document that is gone was made before it went.              *)
LEMMA GoneCallsAreOld ==
  ASSUME IInv, Next, NEW k \in Task, tasks'[k].stage = "call", tasks'[k].home = "gone"
  PROVE  tasks[k].stage = "call"
  <1> USE DEF IInv
  <1>1. tasks \in [Task -> InTask] BY TaskTypes
  <1>2. SUFFICES ASSUME tasks'[k] # tasks[k] PROVE tasks[k].stage = "call"
    OBVIOUS
  <1>3. ASSUME NEW i \in Task, NEW t, Set(i, t) PROVE i = k /\ tasks'[k] = t
    BY <1>1, <1>2, <1>3 DEF Set
  <1>4. ASSUME NEW i \in Task, End(i) PROVE FALSE
    BY <1>3, <1>4 DEF End, Idle
  <1>5. ASSUME NEW i \in Task, NEW stage, NEW n, Set(i, TaskOf(stage, n)) PROVE FALSE
    BY <1>3, <1>5 DEF TaskOf
  <1>6. Sound(tasks[k]) /\ tasks[k] \in InTask BY <1>1 DEF TasksSound
  <1>7. ASSUME NEW l, NEW user, NEW url, NEW running \in [Task -> InTask],
               Mount(l, user, url, running)
        PROVE  tasks'[k] = running[k]
    <2>1. CASE tasks' = running BY <2>1
    <2>2. ASSUME NEW i \in Task, tasks' = [running EXCEPT ![i] =
                   [stage |-> "call", home |-> "here", listing |-> l, note |-> store.note]]
          PROVE  tasks'[k] = running[k]
      BY <2>2
    <2> QED BY <1>7, <2>1, <2>2 DEF Mount
  <1>8. CASE Reload \/ \E l \in Listing : Click(l)
    <2>1. tasks'[k] = Unloaded[k] BY <1>7, <1>8, UnloadedSound DEF Reload, Click
    <2> QED BY <2>1 DEF Unloaded, Idle
  <1>9. ASSUME NEW l \in Listing, Visit(l) PROVE FALSE
    BY <1>1, <1>2, <1>7, <1>9 DEF Visit
  <1>10. CASE Leave
    <2>1. tasks'[k] = Unmounted[k] BY <1>10 DEF Leave
    <2> QED BY <1>2, <1>6, <2>1 DEF Unmounted, InTask
  <1>11. CASE \/ OpenLink \/ SubmitSignedIn \/ SubmitAsGuest \/ SubmitWithoutEmail
              \/ ResendEmail \/ Cancel \/ EnterToken \/ SubmitName
    BY <1>2, <1>5, <1>11 DEF OpenLink, SubmitSignedIn, SubmitAsGuest, SubmitWithoutEmail,
       ResendEmail, Cancel, EnterToken, SubmitName
  <1>12. ASSUME NEW i \in Task,
                LinkSent(i) \/ LinkNotSent(i) \/ NotVerified(i) \/ Returns(i)
         PROVE  FALSE
    BY <1>4, <1>12 DEF LinkSent, LinkNotSent, NotVerified, Returns
  <1>13. ASSUME NEW i \in Task, Verified(i) \/ NameSaved(i) PROVE FALSE
    <2>1. /\ i = k /\ tasks[k].stage \in {"verifying", "naming"}
          /\ \E st \in Stages : tasks'[k] = [tasks[k] EXCEPT !.stage = st]
      BY <1>3, <1>13 DEF Verified, NameSaved, Stages
    <2> QED BY <1>6, <2>1 DEF Sound, Answered, InTask
  <1>14. ASSUME NEW i \in Task, Serve(i) PROVE tasks[k].stage = "call"
    BY <1>3, <1>14 DEF Serve
  <1>15. ASSUME NEW i \in Task, Refreshed(i) PROVE FALSE
    <2>1. tasks[i].stage = "refreshing" /\ tasks[i] \in InTask /\ tasks[i].home # "gone"
      BY <1>1, <1>15 DEF Refreshed, TasksSound, Sound, Answered
    <2>2. PICK text, own :
            /\ own \in {Idle, [tasks[i] EXCEPT !.stage = "call", !.note = text]}
            /\ \/ Set(i, own)
               \/ \E j \in Task : tasks' = [tasks EXCEPT ![i] = own, ![j] = TaskOf("call", text)]
      BY <1>15 DEF Refreshed
    <2>3. own.home = "gone" => own.stage # "call"
      <3>1. [tasks[i] EXCEPT !.stage = "call", !.note = text].home = tasks[i].home
        <4>1. tasks[i] \in InTask BY <2>1
        <4> QED BY <4>1 DEF InTask
      <3>2. Idle.stage = "idle" BY DEF Idle
      <3> QED BY <2>1, <2>2, <3>1, <3>2
    <2>4. tasks'[k] \in {tasks[k], own, TaskOf("call", text)}
      BY <1>1, <2>2 DEF Set
    <2> QED BY <1>2, <2>3, <2>4 DEF TaskOf
  <1> QED
    BY <1>8, <1>9, <1>10, <1>11, <1>12, <1>13, <1>14, <1>15 DEF Next, Handler

(* `Use different email' withdraws the inquiry: nothing submits a listing  *)
(* the visitor does not ask for any more.                                  *)
THEOREM CancelIsFinal == Spec => CancelWithdraws
  <1>1. IInv /\ IInv' /\ [Next]_vars
        => [\A i \in Task : tasks[i].stage # "call" /\ tasks'[i].stage = "call"
                           => tasks'[i].listing \in asked']_vars
    <2>1. ASSUME IInv, IInv', Next, NEW i \in Task,
                 tasks[i].stage # "call", tasks'[i].stage = "call"
          PROVE  tasks'[i].listing \in asked'
      <3>1. tasks'[i].home # "gone" BY <2>1, GoneCallsAreOld
      <3> QED BY <2>1, <3>1 DEF IInv, TasksSound, Sound
    <2> QED BY <2>1
  <1> QED BY <1>1, InductiveInvariant, PTL DEF Spec, CancelWithdraws
=============================================================================
