------------------------- MODULE ListingFormProofs --------------------------
(***************************************************************************)
(* Proofs about ListingForm, for any numbers of forms, submissions,        *)
(* handlers and links.                                                     *)
(*                                                                         *)
(* That a submission whose form stays open creates one listing rests on    *)
(* where its POST can be (Attended): on the open form, where a second      *)
(* handler finds the form busy; its number is new before (Fresh), and one  *)
(* that is being geocoded is in no other hand (GeoAlone).                  *)
(*                                                                         *)
(* AddressField, where the address is entered, comes after it.             *)
(***************************************************************************)
EXTENDS ListingForm, AddressField, TLAPS

Posting == {"call", "ok", "failed"}

(* The form that is open, and those still to come.                         *)
FormsInv ==
  /\ shown => form # None
  /\ \A f \in Form : f > form => formState[f] = "initial"
  /\ \A i \in Task : tasks[i].stage \in {"geocoding", "sending", "verifying"}
                     => tasks[i].form # None

(* A link leaves one mark in the URL, and a submission of the effect uses  *)
(* it up.                                                                  *)
MarksAreClicks == autos + (IF param THEN 1 ELSE 0) <= clicks

AskedFor ==
  /\ store # None => store \in asked
  /\ \A i \in Task : tasks[i].stage = "geocoding" => tasks[i].n \in asked

(* The submissions to come.                                                *)
Fresh ==
  \A n \in Submission : n > submitted =>
    created[n] = 0 /\ store # n /\ \A i \in Task : tasks[i].n # n

GeoAlone ==
  \A i \in Task : tasks[i].stage = "geocoding" =>
    /\ created[tasks[i].n] = 0 /\ store # tasks[i].n
    /\ \A j \in Task : tasks[j].n = tasks[i].n => j = i

(* A submission of which no POST was abandoned and no answer lost.         *)
Attended(n) ==
  /\ \A i \in Task : tasks[i].n = n /\ tasks[i].stage \in Posting
                     => shown /\ tasks[i].form = form
  /\ \A i \in Task : tasks[i].n = n /\ tasks[i].stage \in {"call", "failed"} => created[n] = 0
  /\ created[n] <= 1
  /\ created[n] = 1 /\ store = n => \E i \in Task : tasks[i].n = n /\ tasks[i].stage = "ok"

AttendedInv == \A n \in Submission : n \notin unattended => Attended(n)

IInv ==
  /\ TypeOK /\ OneAtATime /\ SubmittingIsUnderWay
  /\ FormsInv /\ MarksAreClicks /\ AskedFor
  /\ Fresh /\ GeoAlone /\ AttendedInv

-----------------------------------------------------------------------------
InTask == [stage: Stages, form: Form \cup {None}, n: Submission \cup {None}]

LEMMA Types ==
  ASSUME TypeOK
  PROVE  /\ tasks \in [Task -> InTask] /\ created \in [Submission -> 0..2]
         /\ form \in Nat /\ form <= MaxForms /\ submitted \in Nat /\ clicks \in Nat
         /\ MaxForms \in Nat /\ MaxSubmissions \in Nat /\ MaxClicks \in Nat
  BY ListingFormConstants DEF TypeOK, InTask, Form, None

LEMMA BusyStages ==
  /\ Busy \subseteq Stages /\ Posting \subseteq Busy
  /\ "idle" \notin Busy /\ "verifying" \notin Busy
  BY DEF Busy, Stages, Posting

LEMMA IdleTyped == Idle \in InTask /\ Idle.stage = "idle" /\ Idle.form = None /\ Idle.n = None
  BY DEF Idle, InTask, Stages

LEMMA WorkTyped ==
  ASSUME NEW stage \in Stages, NEW f \in Form \cup {None}, NEW n \in Submission \cup {None}
  PROVE  /\ Work(stage, f, n) \in InTask /\ Work(stage, f, n).stage = stage
         /\ Work(stage, f, n).form = f /\ Work(stage, f, n).n = n
  BY DEF Work, InTask

LEMMA SetOne ==
  ASSUME TypeOK, NEW i \in Task, NEW t \in InTask, tasks' = [tasks EXCEPT ![i] = t]
  PROVE  /\ tasks' \in [Task -> InTask] /\ tasks'[i] = t
         /\ \A j \in Task \ {i} : tasks'[j] = tasks[j]
  BY Types

LEMMA InitInv == Init => IInv
  <1> SUFFICES ASSUME Init PROVE IInv OBVIOUS
  <1>1. \A i \in Task : tasks[i] \in InTask /\ tasks[i].stage = "idle" /\ tasks[i].form = None
                        /\ tasks[i].n = None
    BY IdleTyped DEF Init
  <1>2. TypeOK
    <2>1. 0 \in 0..MaxSubmissions /\ 0 \in 0..MaxClicks BY ListingFormConstants
    <2>2. tasks \in [Task -> InTask] BY <1>1 DEF Init
    <2>3. \A i \in Task : tasks[i].form <= form /\ (tasks[i].stage \in Busy => tasks[i].n # None)
      BY <1>1, BusyStages DEF Init, None
    <2>4. created \in [Submission -> 0..2] /\ formState \in [Form -> FormStates]
      BY DEF Init, FormStates
    <2> QED BY <2>1, <2>2, <2>3, <2>4 DEF Init, TypeOK, InTask
  <1>3. MarksAreClicks BY DEF Init, MarksAreClicks
  <1>4. OneAtATime /\ SubmittingIsUnderWay /\ FormsInv
    BY <1>1, BusyStages DEF Init, OneAtATime, SubmittingIsUnderWay, FormsInv
  <1>5. None \notin Submission BY DEF Submission, None
  <1>6. AskedFor /\ Fresh /\ GeoAlone
    BY <1>1, <1>5 DEF Init, AskedFor, Fresh, GeoAlone
  <1>7. AttendedInv BY <1>1, <1>5, BusyStages DEF Init, AttendedInv, Attended, Posting
  <1> QED BY <1>2, <1>3, <1>4, <1>6, <1>7 DEF IInv

-----------------------------------------------------------------------------
(* A handler of form f takes a submission in hand, or goes on with it.     *)
Begins(i, f, n, stage) ==
  /\ f <= form
  /\ tasks' = [tasks EXCEPT ![i] = Work(stage, f, n)]
  /\ \/ tasks[i].stage \in {"idle", "verifying"}
     \/ tasks[i].stage = "geocoding" /\ tasks[i].form = f
  /\ \A j \in Task \ {i} : /\ tasks[j].stage \in Busy => tasks[j].form # f
                           /\ tasks[j].stage = "geocoding" => tasks[j].n # n
  /\ formState' = [formState EXCEPT ![f] = "submitting"]
  /\ store' = store \/ (store' = n /\ stage = "sending")
  /\ created[n] = 0 \/ store = n
  /\ stage = "geocoding" => n > submitted
  /\ unattended' = IF stage = "call" /\ ~IsOpen(f) THEN unattended \cup {n} ELSE unattended
  /\ session' \in BOOLEAN
  /\ UNCHANGED <<mailed, created, param, seen, form, shown, clicks, autos>>
  /\ submitted' \in 0..MaxSubmissions /\ submitted <= submitted' /\ n <= submitted'
  /\ asked \subseteq asked' /\ n \in asked' /\ asked' \subseteq Submission

LEMMA BeginsInv ==
  ASSUME IInv, NEW i \in Task, NEW f \in Form, NEW n \in Submission,
         NEW stage \in {"geocoding", "sending", "call"}, Begins(i, f, n, stage)
  PROVE  IInv'
  <1> USE DEF IInv, Begins
  <1>1. PICK t \in InTask : t = Work(stage, f, n) /\ t.stage = stage /\ t.form = f /\ t.n = n
    BY WorkTyped DEF Stages
  <1>2. /\ tasks' \in [Task -> InTask] /\ tasks'[i] = t
        /\ \A j \in Task \ {i} : tasks'[j] = tasks[j]
    BY <1>1, SetOne
  <1>3. n # None /\ f # None BY DEF Submission, Form, None
  <1>4. TypeOK'
    <2>1. \A j \in Task : tasks'[j].form <= form' /\ (tasks'[j].stage \in Busy => tasks'[j].n # None)
      BY <1>1, <1>2, <1>3 DEF TypeOK
    <2>2. formState' \in [Form -> FormStates] BY DEF TypeOK, FormStates
    <2>3. store' \in Submission \cup {None} /\ unattended' \subseteq Submission BY DEF TypeOK
    <2> QED BY <1>2, <2>1, <2>2, <2>3 DEF TypeOK, InTask
  <1>5. OneAtATime'
    <2>1. /\ formState'[f] = "submitting"
          /\ \A g \in Form \ {f} : formState'[g] = formState[g]
      BY DEF TypeOK
    <2>2. \A j \in Task : tasks[j].form \in Form \cup {None} BY Types DEF InTask
    <2> QED BY <1>1, <1>2, <2>1, <2>2 DEF OneAtATime
  <1>6. SubmittingIsUnderWay'
    <2>1. stage \in Busy BY DEF Busy
    <2>2. CASE form = f BY <1>1, <1>2, <2>1, <2>2 DEF SubmittingIsUnderWay
    <2>3. CASE form # f
      BY <1>2, <2>3, BusyStages DEF SubmittingIsUnderWay, TypeOK, FormsInv
    <2> QED BY <2>2, <2>3
  <1>7. FormsInv'
    <2>1. \A g \in Form : g > form => g # f BY Types DEF Form
    <2> QED BY <1>1, <1>2, <1>3, <2>1 DEF FormsInv, TypeOK
  <1>8. MarksAreClicks' /\ AskedFor' BY <1>1, <1>2, <1>3 DEF MarksAreClicks, AskedFor
  <1>9. Fresh'
    <2> SUFFICES ASSUME NEW m \in Submission, m > submitted'
                 PROVE  created'[m] = 0 /\ store' # m /\ \A j \in Task : tasks'[j].n # m
      BY DEF Fresh
    <2>1. m > submitted /\ m # n BY Types DEF Submission
    <2> QED BY <1>1, <1>2, <2>1 DEF Fresh
  <1>10. GeoAlone'
    <2> SUFFICES ASSUME NEW j \in Task, tasks'[j].stage = "geocoding"
                 PROVE  /\ created'[tasks'[j].n] = 0 /\ store' # tasks'[j].n
                        /\ \A k \in Task : tasks'[k].n = tasks'[j].n => k = j
      BY DEF GeoAlone
    <2>1. CASE j = i BY <1>1, <1>2, <2>1 DEF Fresh
    <2>2. CASE j # i BY <1>1, <1>2, <2>2 DEF GeoAlone
    <2> QED BY <2>1, <2>2
  <1>11. AttendedInv'
    <2> SUFFICES ASSUME NEW m \in Submission, m \notin unattended' PROVE Attended(m)'
      BY DEF AttendedInv
    <2>1. m \notin unattended /\ Attended(m) BY DEF AttendedInv
    <2>2. \A j \in Task : tasks[j].stage = "ok" => j # i OBVIOUS
    <2>3. CASE m # n BY <1>1, <1>2, <2>1, <2>2, <2>3 DEF Attended
    <2>4. CASE m = n /\ stage # "call"
      BY <1>1, <1>2, <2>1, <2>2, <2>4 DEF Attended, Posting
    <2>5. CASE m = n /\ stage = "call"
      <3>1. shown /\ f = form BY <2>5 DEF IsOpen
      <3>2. \A j \in Task \ {i} : ~(tasks[j].n = n /\ tasks[j].stage \in Posting)
        BY <2>1, <2>5, <3>1, BusyStages DEF Attended
      <3>3. created[n] = 0
        <4>1. created[n] \in 0..2 BY Types
        <4>2. ~(created[n] = 1 /\ store = n)
          BY <2>1, <2>2, <2>5, <3>2 DEF Attended, Posting
        <4> QED BY <2>1, <2>5, <4>1, <4>2 DEF Attended
      <3> QED BY <1>1, <1>2, <2>1, <2>5, <3>1, <3>2, <3>3 DEF Attended, Posting
    <2> QED BY <2>3, <2>4, <2>5
  <1> QED BY <1>4, <1>5, <1>6, <1>7, <1>8, <1>9, <1>10, <1>11

(* A handler ends, its form no longer says `Submitting...'.                *)
LEMMA EndsInv ==
  ASSUME IInv, NEW i \in Task, End(i), NEW state \in FormStates \ {"submitting"},
         tasks[i].stage \in {"geocoding", "sending", "failed"},
         Shows(tasks[i].form, state), mailed' \in BOOLEAN,
         UNCHANGED <<session, created, store, param, seen, form, shown, submitted, asked,
                     clicks, autos, unattended>>
  PROVE  IInv'
  <1> USE DEF IInv
  <1>1. /\ tasks' \in [Task -> InTask]
        /\ tasks'[i].stage = "idle" /\ tasks'[i].form = None /\ tasks'[i].n = None
        /\ \A j \in Task \ {i} : tasks'[j] = tasks[j]
    BY IdleTyped, SetOne DEF End
  <1>2. tasks[i].stage \in Busy /\ tasks[i].form \in Form \cup {None} BY Types DEF Busy, InTask
  <1>3. /\ formState' \in [Form -> FormStates]
        /\ \A g \in Form : g # tasks[i].form => formState'[g] = formState[g]
        /\ tasks[i].form \in Form => formState'[tasks[i].form] = state
    BY <1>2 DEF Shows, TypeOK, None, Form
  <1>4. TypeOK'
    <2>1. \A j \in Task : tasks'[j].form <= form' /\ (tasks'[j].stage \in Busy => tasks'[j].n # None)
      BY <1>1, BusyStages, Types DEF TypeOK, None
    <2> QED BY <1>1, <1>3, <2>1 DEF TypeOK, InTask
  <1>5. OneAtATime'
    <2>1. \A j \in Task : tasks[j].form \in Form \cup {None} BY Types DEF InTask
    <2> QED BY <1>1, <1>2, <1>3, <2>1, BusyStages DEF OneAtATime
  <1>6. SubmittingIsUnderWay'
    <2> SUFFICES ASSUME shown, formState'[form] = "submitting"
                 PROVE  \E j \in Task : tasks'[j].form = form /\ tasks'[j].stage \in Busy
      BY DEF SubmittingIsUnderWay
    <2>1. form \in Form /\ tasks[i].form # form BY <1>3 DEF FormsInv, TypeOK
    <2> QED BY <1>1, <1>3, <2>1 DEF SubmittingIsUnderWay
  <1>7. FormsInv'
    <2>1. \A g \in Form : g > form => g # tasks[i].form BY Types DEF TypeOK, Form
    <2> QED BY <1>1, <1>3, <2>1 DEF FormsInv
  <1>8. None \notin Submission BY DEF Submission, None
  <1>9. MarksAreClicks' /\ AskedFor' /\ Fresh' /\ GeoAlone'
    BY <1>1, <1>8, Types DEF MarksAreClicks, AskedFor, Fresh, GeoAlone, TypeOK, Busy
  <1>10. AttendedInv' BY <1>1, <1>8 DEF AttendedInv, Attended, Posting
  <1> QED BY <1>4, <1>5, <1>6, <1>7, <1>9, <1>10

(* A token is being verified, or no longer.                                *)
LEMMA TokenInv ==
  ASSUME IInv, NEW i \in Task, NEW t \in InTask, tasks' = [tasks EXCEPT ![i] = t],
         tasks[i].stage \in {"idle", "verifying"}, t.n = None, t.form <= form,
         t.stage = "idle" \/ (t.stage = "verifying" /\ t.form # None),
         session' \in BOOLEAN,
         UNCHANGED <<mailed, created, store, param, seen, form, shown, formState, submitted,
                     asked, clicks, autos, unattended>>
  PROVE  IInv'
  <1> USE DEF IInv
  <1>1. /\ tasks' \in [Task -> InTask] /\ tasks'[i] = t
        /\ \A j \in Task \ {i} : tasks'[j] = tasks[j]
    BY SetOne
  <1>2. tasks[i].stage \notin Busy /\ t.stage \notin Busy BY BusyStages
  <1>3. None \notin Submission BY DEF Submission, None
  <1>4. TypeOK'
    <2>1. \A j \in Task : tasks'[j].form <= form' /\ (tasks'[j].stage \in Busy => tasks'[j].n # None)
      BY <1>1, <1>2 DEF TypeOK
    <2> QED BY <1>1, <2>1 DEF TypeOK, InTask
  <1>5. OneAtATime' /\ SubmittingIsUnderWay' /\ FormsInv'
    BY <1>1, <1>2 DEF OneAtATime, SubmittingIsUnderWay, FormsInv
  <1>6. MarksAreClicks' /\ AskedFor' /\ Fresh' BY <1>1, <1>3 DEF MarksAreClicks, AskedFor, Fresh
  <1>7. GeoAlone' BY <1>1, <1>3 DEF GeoAlone, TypeOK, Busy
  <1>8. AttendedInv' BY <1>1, <1>3 DEF AttendedInv, Attended, Posting
  <1> QED BY <1>4, <1>5, <1>6, <1>7, <1>8

-----------------------------------------------------------------------------
(* handleSubmit.                                                           *)

(* A form that accepts has no other submission under way.                  *)
LEMMA Accepting ==
  ASSUME IInv, Accepts
  PROVE  /\ form \in Form /\ submitted + 1 \in Submission
         /\ submitted + 1 \in 0..MaxSubmissions /\ submitted \in Nat
         /\ created[submitted + 1] = 0 /\ store # submitted + 1
         /\ \A j \in Task : /\ tasks[j].stage \in Busy => tasks[j].form # form
                            /\ tasks[j].n # submitted + 1
  <1> USE DEF IInv
  <1>1. form \in Form /\ form # None BY DEF Accepts, FormsInv, TypeOK
  <1>2. submitted + 1 \in Submission /\ submitted + 1 \in 0..MaxSubmissions /\ submitted \in Nat
    BY Types DEF Accepts, Submission
  <1>3. submitted + 1 > submitted BY <1>2
  <1> QED BY <1>1, <1>2, <1>3 DEF Accepts, OneAtATime, Fresh

LEMMA SubmitPickedInv == ASSUME IInv, SubmitPicked PROVE IInv'
  <1> USE DEF IInv
  <1> DEFINE n == submitted + 1
  <1>1. /\ Accepts /\ submitted' = n /\ asked' = asked \cup {n}
        /\ UNCHANGED <<session, mailed, created, param, seen, form, shown, clicks, autos>>
    BY DEF SubmitPicked, serverVars
  <1>2. PICK i \in Task : FreeTask(i) /\ Located(i, form, n) BY DEF SubmitPicked
  <1>3. tasks[i].stage = "idle" BY <1>2 DEF FreeTask, IsIdle
  <1>4. /\ form \in Form /\ n \in Submission /\ submitted' \in 0..MaxSubmissions
        /\ submitted <= submitted' /\ n <= submitted' /\ form <= form
        /\ created[n] = 0 /\ store # n
        /\ \A j \in Task : (tasks[j].stage \in Busy => tasks[j].form # form) /\ tasks[j].n # n
    BY <1>1, Accepting, Types
  <1>5. /\ asked \subseteq asked' /\ n \in asked' /\ asked' \subseteq Submission
        /\ form # None /\ IsOpen(form) /\ session' \in BOOLEAN
    BY <1>1, <1>4 DEF TypeOK, Form, None, IsOpen, Accepts
  <1> HIDE DEF n
  <1>6. ASSUME NEW stage \in {"sending", "call"}, tasks' = [tasks EXCEPT ![i] = Work(stage, form, n)],
               Shows(form, "submitting"), unattended' = unattended,
               store' = store \/ (store' = n /\ stage = "sending")
        PROVE  IInv'
    <2>1. formState' = [formState EXCEPT ![form] = "submitting"] BY <1>5, <1>6 DEF Shows
    <2>2. unattended' = IF stage = "call" /\ ~IsOpen(form) THEN unattended \cup {n} ELSE unattended
      BY <1>5, <1>6
    <2>3. Begins(i, form, n, stage) BY <1>1, <1>3, <1>4, <1>5, <1>6, <2>1, <2>2 DEF Begins
    <2> HIDE DEF IInv
    <2> QED BY <1>4, <2>3, BeginsInv
  <1>7. CASE /\ End(i) /\ Shows(form, "initial") /\ store' = store /\ unattended' = unattended
    <2>1. /\ tasks' \in [Task -> InTask]
          /\ tasks'[i].stage = "idle" /\ tasks'[i].form = None /\ tasks'[i].n = None
          /\ \A j \in Task \ {i} : tasks'[j] = tasks[j]
      BY <1>7, IdleTyped, SetOne DEF End
    <2>2. /\ formState' \in [Form -> FormStates] /\ formState'[form] = "initial"
          /\ \A g \in Form \ {form} : formState'[g] = formState[g]
      BY <1>4, <1>5, <1>7 DEF Shows, TypeOK, FormStates
    <2>3. None \notin Submission BY DEF Submission, None
    <2>4. TypeOK'
      <3>1. \A j \in Task : tasks'[j].form <= form' /\ (tasks'[j].stage \in Busy => tasks'[j].n # None)
        BY <1>1, <2>1, BusyStages, Types DEF TypeOK, None
      <3> QED BY <1>1, <1>4, <1>5, <1>7, <2>1, <2>2, <3>1 DEF TypeOK, InTask
    <2>5. \A j \in Task : tasks[j].form \in Form \cup {None} BY Types DEF InTask
    <2>6. OneAtATime' /\ SubmittingIsUnderWay' /\ FormsInv'
      BY <1>1, <1>4, <2>1, <2>2, <2>5, BusyStages DEF OneAtATime, SubmittingIsUnderWay, FormsInv
    <2>7. Fresh'
      <3> SUFFICES ASSUME NEW m \in Submission, m > submitted'
                   PROVE  created'[m] = 0 /\ store' # m /\ \A j \in Task : tasks'[j].n # m
        BY DEF Fresh
      <3>1. m > submitted BY <1>1, <1>4, Types DEF Submission
      <3> QED BY <1>1, <1>7, <2>1, <2>3, <3>1 DEF Fresh
    <2>8. MarksAreClicks' /\ AskedFor' BY <1>1, <1>7, <2>1 DEF MarksAreClicks, AskedFor
    <2>9. GeoAlone' BY <1>1, <1>7, <2>1, <2>3 DEF GeoAlone, TypeOK, Busy
    <2>10. AttendedInv' BY <1>1, <1>3, <1>7, <2>1, <2>3 DEF AttendedInv, Attended, Posting
    <2> QED BY <2>4, <2>6, <2>7, <2>8, <2>9, <2>10
  <1>8. \/ /\ tasks' = [tasks EXCEPT ![i] = Work("call", form, n)] /\ Shows(form, "submitting")
           /\ unattended' = unattended /\ store' = store
        \/ /\ tasks' = [tasks EXCEPT ![i] = Work("sending", form, n)] /\ Shows(form, "submitting")
           /\ unattended' = unattended /\ store' \in {store, n}
        \/ /\ End(i) /\ Shows(form, "initial") /\ store' = store /\ unattended' = unattended
    BY <1>2, <1>5 DEF Located
  <1> QED BY <1>6, <1>7, <1>8

LEMMA SubmitManualInv == ASSUME IInv, SubmitManual PROVE IInv'
  <1> USE DEF IInv
  <1> DEFINE n == submitted + 1
  <1>1. /\ Accepts /\ submitted' = n /\ asked' = asked \cup {n} /\ Shows(form, "submitting")
        /\ UNCHANGED <<session, mailed, created, store, param, seen, form, shown, clicks, autos,
                       unattended>>
    BY DEF SubmitManual, serverVars, pageVars, history
  <1>2. PICK i \in Task : /\ tasks[i].stage = "idle"
                          /\ tasks' = [tasks EXCEPT ![i] = Work("geocoding", form, n)]
    BY DEF SubmitManual, FreeTask, IsIdle
  <1>3. /\ form \in Form /\ n \in Submission /\ submitted' \in 0..MaxSubmissions
        /\ submitted <= submitted' /\ n <= submitted' /\ form <= form /\ n > submitted
        /\ created[n] = 0
        /\ \A j \in Task : (tasks[j].stage \in Busy => tasks[j].form # form) /\ tasks[j].n # n
    BY <1>1, Accepting, Types
  <1>4. /\ asked \subseteq asked' /\ n \in asked' /\ asked' \subseteq Submission
        /\ session' \in BOOLEAN
        /\ formState' = [formState EXCEPT ![form] = "submitting"]
    BY <1>1, <1>3 DEF TypeOK, Form, None, Shows
  <1> HIDE DEF n
  <1>5. Begins(i, form, n, "geocoding") BY <1>1, <1>2, <1>3, <1>4 DEF Begins
  <1> HIDE DEF IInv
  <1> QED BY <1>3, <1>5, BeginsInv

LEMMA GeocodedInv == ASSUME IInv, NEW i \in Task, Geocoded(i) PROVE IInv'
  <1> USE DEF IInv
  <1> DEFINE f == tasks[i].form
             n == tasks[i].n
  <1>1. /\ tasks[i].stage = "geocoding" /\ Located(i, f, n)
        /\ UNCHANGED <<session, mailed, created, param, seen, form, shown, submitted, asked,
                       clicks, autos>>
    BY DEF Geocoded, serverVars
  <1>2. tasks[i].stage \in Busy BY <1>1 DEF Busy
  <1>3. f \in Form /\ f <= form /\ n \in Submission /\ n \in asked /\ f # None
    BY <1>1, <1>2, Types DEF InTask, FormsInv, AskedFor, TypeOK
  <1>4. /\ created[n] = 0 /\ store # n
        /\ \A j \in Task \ {i} : tasks[j].n # n /\ (tasks[j].stage \in Busy => tasks[j].form # f)
    BY <1>1, <1>2, <1>3 DEF GeoAlone, OneAtATime
  <1>5. n <= submitted BY <1>3, Types DEF Fresh, Submission
  <1>6. /\ submitted' \in 0..MaxSubmissions /\ submitted <= submitted' /\ n <= submitted'
        /\ asked \subseteq asked' /\ n \in asked' /\ asked' \subseteq Submission
        /\ session' \in BOOLEAN
    BY <1>1, <1>3, <1>5, Types DEF TypeOK
  <1>7. tasks[i].stage = "geocoding" /\ tasks[i].form = f BY <1>1
  <1>8. CASE End(i) /\ Shows(f, "initial") /\ store' = store /\ unattended' = unattended
    <2>1. "initial" \in FormStates \ {"submitting"} BY DEF FormStates
    <2> QED BY <1>1, <1>8, <2>1, EndsInv DEF TypeOK
  <1> HIDE DEF f, n
  <1>9. CASE /\ tasks' = [tasks EXCEPT ![i] = Work("call", f, n)] /\ Shows(f, "submitting")
             /\ unattended' = IF IsOpen(f) THEN unattended ELSE unattended \cup {n}
             /\ store' = store
    <2>1. formState' = [formState EXCEPT ![f] = "submitting"] BY <1>3, <1>9 DEF Shows
    <2>2. Begins(i, f, n, "call") BY <1>1, <1>3, <1>4, <1>6, <1>7, <1>9, <2>1 DEF Begins
    <2> HIDE DEF IInv
    <2> QED BY <1>3, <2>2, BeginsInv
  <1>10. CASE /\ tasks' = [tasks EXCEPT ![i] = Work("sending", f, n)] /\ Shows(f, "submitting")
              /\ unattended' = unattended /\ store' \in {store, n}
    <2>1. formState' = [formState EXCEPT ![f] = "submitting"] BY <1>3, <1>10 DEF Shows
    <2>2. Begins(i, f, n, "sending") BY <1>1, <1>3, <1>4, <1>6, <1>7, <1>10, <2>1 DEF Begins
    <2> HIDE DEF IInv
    <2> QED BY <1>3, <2>2, BeginsInv
  <1> QED BY <1>1, <1>8, <1>9, <1>10 DEF Located

LEMMA EndingsInv ==
  ASSUME IInv, NEW i \in Task, NotGeocoded(i) \/ LinkSent(i) \/ LinkNotSent(i) \/ Failed(i)
  PROVE  IInv'
  <1>1. {"error", "awaiting-magic-link"} \subseteq FormStates \ {"submitting"} BY DEF FormStates
  <1>2. /\ End(i) /\ tasks[i].stage \in {"geocoding", "sending", "failed"}
        /\ \/ Shows(tasks[i].form, "error")
           \/ Shows(tasks[i].form, "awaiting-magic-link")
        /\ mailed' \in BOOLEAN
        /\ UNCHANGED <<session, created, store, param, seen, form, shown, submitted, asked,
                       clicks, autos, unattended>>
    BY DEF NotGeocoded, LinkSent, LinkNotSent, Failed, serverVars, pageVars, history, IInv, TypeOK
  <1> QED BY <1>1, <1>2, EndsInv

-----------------------------------------------------------------------------
(* MagicLinkWaiting.                                                       *)
LEMMA CancelInv == ASSUME IInv, Cancel PROVE IInv'
  <1> USE DEF IInv
  <1>1. /\ shown /\ formState[form] = "awaiting-magic-link" /\ Shows(form, "initial")
        /\ store' = None /\ asked' = asked \cap InHand
        /\ UNCHANGED <<session, mailed, created, param, seen, form, shown, tasks, submitted,
                       clicks, autos, unattended>>
    BY DEF Cancel, serverVars, history
  <1>2. form \in Form BY <1>1 DEF FormsInv, TypeOK
  <1>3. /\ formState' \in [Form -> FormStates] /\ formState'[form] = "initial"
        /\ \A g \in Form \ {form} : formState'[g] = formState[g]
    BY <1>1, <1>2 DEF Shows, TypeOK, FormStates, Form, None
  <1>4. \A i \in Task : tasks[i].stage \in Busy => tasks[i].form # form
    BY <1>1, <1>2 DEF OneAtATime, FormsInv
  <1>5. None \notin Submission BY DEF Submission, None
  <1>6. TypeOK' BY <1>1, <1>3 DEF TypeOK
  <1>7. OneAtATime' /\ SubmittingIsUnderWay' /\ FormsInv' /\ MarksAreClicks'
    <2>1. \A i \in Task : tasks[i].form \in Form \cup {None} BY Types DEF InTask
    <2> QED
      BY <1>1, <1>2, <1>3, <1>4, <2>1 DEF OneAtATime, SubmittingIsUnderWay, FormsInv, MarksAreClicks
  <1>8. AskedFor' BY <1>1 DEF AskedFor, InHand
  <1>9. Fresh' BY <1>1, <1>5 DEF Fresh
  <1>10. GeoAlone'
    <2>1. \A i \in Task : tasks[i].stage = "geocoding" => tasks[i].n # None BY DEF TypeOK, Busy
    <2> QED BY <1>1, <2>1 DEF GeoAlone
  <1>11. AttendedInv' BY <1>1, <1>5 DEF AttendedInv, Attended
  <1> QED BY <1>6, <1>7, <1>8, <1>9, <1>10, <1>11

LEMMA EnterTokenInv == ASSUME IInv, EnterToken PROVE IInv'
  <1> USE DEF IInv
  <1>1. /\ shown
        /\ UNCHANGED <<session, mailed, created, store, param, seen, form, shown, formState,
                       submitted, asked, clicks, autos, unattended>>
    BY DEF EnterToken, serverVars, pageVars, history
  <1>2. PICK i \in Task : /\ tasks[i].stage = "idle"
                          /\ tasks' = [tasks EXCEPT ![i] = Work("verifying", form, None)]
    BY DEF EnterToken, FreeTask, IsIdle
  <1>3. form \in Form \cup {None} /\ form # None /\ form <= form
    BY <1>1, Types DEF FormsInv, TypeOK
  <1>4. PICK t \in InTask : /\ t = Work("verifying", form, None)
                            /\ t.stage = "verifying" /\ t.form = form /\ t.n = None
    BY <1>3, WorkTyped DEF Stages
  <1>5. session' \in BOOLEAN BY <1>1 DEF TypeOK
  <1> QED BY <1>1, <1>2, <1>3, <1>4, <1>5, TokenInv

(* A token that ends, with or without a session.                           *)
LEMMA TokenEnds ==
  ASSUME IInv, NEW i \in Task, tasks[i].stage = "verifying", End(i), session' \in BOOLEAN,
         UNCHANGED <<mailed, created, store, param, seen, form, shown, formState, submitted,
                     asked, clicks, autos, unattended>>
  PROVE  IInv'
  <1>1. PICK t \in InTask : /\ t = Idle /\ t.stage = "idle" /\ t.form = None /\ t.n = None
    BY IdleTyped
  <1>2. t.form <= form BY <1>1, Types DEF IInv, None
  <1>3. tasks' = [tasks EXCEPT ![i] = t] BY <1>1 DEF End
  <1> QED BY <1>1, <1>2, <1>3, TokenInv

LEMMA NotVerifiedInv == ASSUME IInv, NEW i \in Task, NotVerified(i) PROVE IInv'
  BY TokenEnds DEF NotVerified, serverVars, pageVars, history, IInv, TypeOK

LEMMA VerifiedInv == ASSUME IInv, NEW i \in Task, Verified(i) PROVE IInv'
  <1> USE DEF IInv
  <1> DEFINE f == tasks[i].form
  <1>1. /\ tasks[i].stage = "verifying" /\ session' \in BOOLEAN
        /\ UNCHANGED <<mailed, created, store, param, seen, form, shown, submitted, asked,
                       clicks, autos>>
    BY DEF Verified, pageVars
  <1>2. CASE Resumes(f)
    <2>1. /\ tasks' = [tasks EXCEPT ![i] = Work("call", f, store)] /\ Shows(f, "submitting")
          /\ unattended' = IF IsOpen(f) THEN unattended ELSE unattended \cup {store}
      BY <1>2 DEF Verified
    <2>2. f \in Form /\ f <= form /\ f # None
      BY <1>1, Types DEF InTask, FormsInv, TypeOK
    <2>3. formState[f] # "submitting" /\ store # None BY <1>2 DEF Resumes
    <2>4. store \in Submission /\ store \in asked BY <2>3 DEF TypeOK, AskedFor
    <2>5. store <= submitted BY <2>4, Types DEF Fresh, Submission
    <2>6. \A j \in Task \ {i} : /\ tasks[j].stage \in Busy => tasks[j].form # f
                                /\ tasks[j].stage = "geocoding" => tasks[j].n # store
      BY <2>2, <2>3 DEF OneAtATime, GeoAlone
    <2>7. /\ submitted' \in 0..MaxSubmissions /\ submitted <= submitted' /\ store <= submitted'
          /\ asked \subseteq asked' /\ store \in asked' /\ asked' \subseteq Submission
      BY <1>1, <2>4, <2>5, Types DEF TypeOK
    <2> HIDE DEF f
    <2>8. formState' = [formState EXCEPT ![f] = "submitting"] BY <2>1, <2>2 DEF Shows
    <2>9. Begins(i, f, store, "call") BY <1>1, <2>1, <2>2, <2>4, <2>6, <2>7, <2>8 DEF Begins
    <2> HIDE DEF IInv
    <2> QED BY <2>2, <2>4, <2>9, BeginsInv
  <1>3. CASE ~Resumes(f)
    <2>1. End(i) /\ formState' = formState /\ unattended' = unattended BY <1>3 DEF Verified
    <2> QED BY <1>1, <2>1, TokenEnds
  <1> QED BY <1>2, <1>3

-----------------------------------------------------------------------------
(* POST /api/listings and its answer.                                      *)

(* A call that is answered is of the same form and submission.             *)
LEMMA Answers ==
  ASSUME IInv, NEW i \in Task, tasks[i].stage = "call", NEW stage \in {"ok", "failed"},
         tasks' = [tasks EXCEPT ![i].stage = stage]
  PROVE  /\ tasks' \in [Task -> InTask]
         /\ tasks'[i].stage = stage /\ tasks'[i].form = tasks[i].form /\ tasks'[i].n = tasks[i].n
         /\ \A j \in Task \ {i} : tasks'[j] = tasks[j]
  <1>1. tasks[i] \in InTask /\ tasks \in [Task -> InTask] BY Types DEF IInv
  <1>2. PICK t \in InTask : /\ t = [tasks[i] EXCEPT !.stage = stage]
                            /\ t.stage = stage /\ t.form = tasks[i].form /\ t.n = tasks[i].n
    <2>1. [tasks[i] EXCEPT !.stage = stage] \in InTask BY <1>1 DEF InTask, Stages
    <2>2. [tasks[i] EXCEPT !.stage = stage].form = tasks[i].form BY <1>1 DEF InTask
    <2>3. [tasks[i] EXCEPT !.stage = stage].n = tasks[i].n BY <1>1 DEF InTask
    <2>4. [tasks[i] EXCEPT !.stage = stage].stage = stage BY <1>1 DEF InTask
    <2> QED BY <2>1, <2>2, <2>3, <2>4
  <1>3. tasks' = [tasks EXCEPT ![i] = t] BY <1>1, <1>2
  <1> QED BY <1>1, <1>2, <1>3

LEMMA ServeInv == ASSUME IInv, NEW i \in Task, Serve(i) PROVE IInv'
  <1> USE DEF IInv
  <1> DEFINE n == tasks[i].n
  <1>1. /\ tasks[i].stage = "call"
        /\ UNCHANGED <<session, mailed, store, param, seen, form, shown, formState, submitted,
                       asked, clicks, autos>>
    BY DEF Serve, pageVars
  <1>2. n \in Submission /\ created[n] \in 0..2 /\ n # None /\ tasks[i].stage \in Busy
    BY <1>1, Types DEF InTask, Busy, TypeOK
  <1>3. PICK stage \in {"ok", "failed"} :
          /\ tasks' = [tasks EXCEPT ![i].stage = stage]
          /\ \/ /\ created' = [created EXCEPT ![n] = IF @ < 2 THEN @ + 1 ELSE @]
                /\ unattended' = IF stage = "ok" THEN unattended ELSE unattended \cup {n}
             \/ stage = "failed" /\ created' = created /\ unattended' = unattended
    BY DEF Serve
  <1>4. /\ tasks' \in [Task -> InTask] /\ tasks'[i].stage = stage
        /\ tasks'[i].form = tasks[i].form /\ tasks'[i].n = n
        /\ \A j \in Task \ {i} : tasks'[j] = tasks[j]
    <2> HIDE DEF IInv
    <2> QED BY <1>1, <1>3, Answers
  <1> HIDE DEF n
  <1>5. created' \in [Submission -> 0..2] /\ \A m \in Submission \ {n} : created'[m] = created[m]
    <2>1. (IF created[n] < 2 THEN created[n] + 1 ELSE created[n]) \in 0..2 BY <1>2
    <2> QED BY <1>2, <1>3, <2>1, Types
  <1>6. stage \in Busy BY DEF Busy
  <1>7. TypeOK'
    <2>1. \A j \in Task : tasks'[j].form <= form' /\ (tasks'[j].stage \in Busy => tasks'[j].n # None)
      BY <1>1, <1>2, <1>4 DEF TypeOK
    <2> QED BY <1>1, <1>2, <1>3, <1>4, <1>5, <2>1 DEF TypeOK, InTask
  <1>8. OneAtATime' /\ FormsInv' /\ MarksAreClicks' /\ AskedFor'
    BY <1>1, <1>2, <1>4, <1>6 DEF OneAtATime, FormsInv, MarksAreClicks, AskedFor
  <1>9. SubmittingIsUnderWay'
    <2> SUFFICES ASSUME shown, formState[form] = "submitting"
                 PROVE  \E j \in Task : tasks'[j].form = form /\ tasks'[j].stage \in Busy
      BY <1>1 DEF SubmittingIsUnderWay
    <2> QED BY <1>4, <1>6 DEF SubmittingIsUnderWay
  <1>10. Fresh' BY <1>1, <1>2, <1>4, <1>5 DEF Fresh, n
  <1>11. GeoAlone'
    <2> SUFFICES ASSUME NEW j \in Task, tasks'[j].stage = "geocoding"
                 PROVE  /\ created'[tasks'[j].n] = 0 /\ store' # tasks'[j].n
                        /\ \A k \in Task : tasks'[k].n = tasks'[j].n => k = j
      BY DEF GeoAlone
    <2>1. j # i /\ tasks[j].stage = "geocoding" /\ tasks'[j] = tasks[j] BY <1>4
    <2>2. tasks[j].n # n BY <2>1 DEF GeoAlone, n
    <2>3. tasks[j].n \in Submission BY <2>1, Types DEF TypeOK, InTask, Busy
    <2> QED BY <1>1, <1>4, <1>5, <2>1, <2>2, <2>3 DEF GeoAlone
  <1>12. AttendedInv'
    <2> SUFFICES ASSUME NEW m \in Submission, m \notin unattended' PROVE Attended(m)'
      BY DEF AttendedInv
    <2>1. m \notin unattended /\ Attended(m) BY <1>3 DEF AttendedInv
    <2>2. CASE m # n
      BY <1>1, <1>4, <1>5, <2>1, <2>2 DEF Attended, n
    <2>3. CASE m = n
      <3>1. shown /\ tasks[i].form = form /\ form # None
        BY <1>1, <2>1, <2>3 DEF Attended, Posting, FormsInv, n
      <3>2. \A j \in Task \ {i} : ~(tasks[j].n = n /\ tasks[j].stage \in Posting)
        BY <1>2, <2>1, <2>3, <3>1, BusyStages DEF Attended, OneAtATime
      <3>3. created[n] = 0 BY <1>1, <2>1, <2>3 DEF Attended, n
      <3>4. created'[n] = IF stage = "ok" THEN 1 ELSE 0
        BY <1>2, <1>3, <2>3, <3>3, Types
      <3> QED BY <1>1, <1>4, <2>3, <3>1, <3>2, <3>4 DEF Attended, Posting
    <2> QED BY <2>2, <2>3
  <1> QED BY <1>7, <1>8, <1>9, <1>10, <1>11, <1>12

LEMMA CreatedInv == ASSUME IInv, NEW i \in Task, Created(i) PROVE IInv'
  <1> USE DEF IInv
  <1> DEFINE n == tasks[i].n
  <1>1. /\ tasks[i].stage = "ok" /\ End(i)
        /\ UNCHANGED <<session, mailed, created, param, form, formState, submitted, asked,
                       clicks, autos>>
    BY DEF Created, serverVars, pageVars
  <1>2. n \in Submission /\ n # None /\ tasks[i].stage \in Busy /\ tasks[i].stage \in Posting
    BY <1>1, Types DEF InTask, Busy, TypeOK, Posting
  <1>3. \/ /\ tasks[i].form = None
           /\ UNCHANGED <<store, seen, shown, unattended>>
        \/ /\ tasks[i].form # None /\ store' = None /\ shown' = FALSE /\ seen' \in Sessions
           /\ unattended' = unattended \cup (Abandoned \ {n})
    BY DEF Created, pageVars
  <1>4. /\ tasks' \in [Task -> InTask]
        /\ tasks'[i].stage = "idle" /\ tasks'[i].form = None /\ tasks'[i].n = None
        /\ \A j \in Task \ {i} : tasks'[j] = tasks[j]
    BY <1>1, IdleTyped, SetOne DEF End
  <1>5. store' \in {store, None} /\ seen' \in BOOLEAN /\ shown' \in BOOLEAN /\ (shown' => shown)
    <2>1. Sessions \subseteq BOOLEAN BY DEF TypeOK, Sessions
    <2>2. seen \in BOOLEAN /\ shown \in BOOLEAN BY DEF TypeOK
    <2>3. store' \in {store, None} BY <1>3
    <2>4. seen' \in BOOLEAN BY <1>3, <2>1, <2>2, Zenon
    <2>5. shown' \in BOOLEAN BY <1>3, <2>2, Zenon
    <2>6. shown' => shown BY <1>3, Zenon
    <2> QED BY <2>3, <2>4, <2>5, <2>6
  <1>6. None \notin Submission BY DEF Submission, None
  <1>7. TypeOK'
    <2>1. \A j \in Task : tasks'[j].form <= form' /\ (tasks'[j].stage \in Busy => tasks'[j].n # None)
      BY <1>1, <1>4, BusyStages, Types DEF TypeOK, None
    <2>2. Abandoned \ {n} \subseteq Submission
      BY Types DEF Abandoned, InTask, TypeOK, Busy
    <2>3. unattended' \subseteq Submission BY <1>3, <2>2 DEF TypeOK
    <2> QED BY <1>1, <1>4, <1>5, <2>1, <2>3 DEF TypeOK, InTask
  <1>8. OneAtATime' /\ FormsInv' /\ MarksAreClicks' /\ AskedFor'
    BY <1>1, <1>4, <1>5, BusyStages DEF OneAtATime, FormsInv, MarksAreClicks, AskedFor
  <1>9. SubmittingIsUnderWay'
    <2> SUFFICES ASSUME shown', formState[form] = "submitting"
                 PROVE  \E j \in Task : tasks'[j].form = form /\ tasks'[j].stage \in Busy
      BY <1>1 DEF SubmittingIsUnderWay
    <2>1. shown /\ tasks[i].form = None /\ form # None BY <1>3, <1>5 DEF FormsInv
    <2> QED BY <1>4, <2>1 DEF SubmittingIsUnderWay
  <1>10. Fresh' BY <1>1, <1>4, <1>5, <1>6 DEF Fresh
  <1>11. GeoAlone'
    <2>1. \A j \in Task : tasks[j].stage = "geocoding" => tasks[j].n # None BY DEF TypeOK, Busy
    <2> QED BY <1>1, <1>4, <1>5, <2>1 DEF GeoAlone
  <1>12. AttendedInv'
    <2> SUFFICES ASSUME NEW m \in Submission, m \notin unattended' PROVE Attended(m)'
      BY DEF AttendedInv
    <2>1. m \notin unattended /\ Attended(m) BY <1>3 DEF AttendedInv
    <2>2. CASE tasks[i].form = None
      <3>1. m # n BY <1>2, <2>1, <2>2 DEF Attended, FormsInv
      <3>2. UNCHANGED <<store, shown>> BY <1>3, <2>2
      <3> QED BY <1>1, <1>4, <2>1, <3>1, <3>2 DEF Attended, Posting
    <2>3. CASE tasks[i].form # None
      <3>1. \A j \in Task \ {i} : ~(tasks[j].n = m /\ tasks[j].stage \in Posting)
        <4> SUFFICES ASSUME NEW j \in Task \ {i}, tasks[j].n = m, tasks[j].stage \in Posting
                     PROVE  FALSE
          OBVIOUS
        <4>1. m \in Abandoned BY DEF Abandoned, Posting
        <4>2. m = n BY <1>3, <2>3, <4>1
        <4>3. tasks[i].form = form /\ tasks[j].form = form /\ tasks[j].stage \in Busy
          BY <1>2, <2>1, <4>2, BusyStages DEF Attended
        <4> QED BY <1>2, <2>3, <4>3 DEF OneAtATime
      <3>2. store' = None BY <1>3, <2>3
      <3> QED BY <1>1, <1>4, <1>6, <2>1, <3>1, <3>2 DEF Attended, Posting
    <2> QED BY <2>2, <2>3
  <1> QED BY <1>7, <1>8, <1>9, <1>10, <1>11, <1>12

-----------------------------------------------------------------------------
(* Pages.                                                                  *)
LEMMA AbandonedPosts ==
  ASSUME IInv
  PROVE  /\ Abandoned \subseteq Submission
         /\ \A i \in Task : tasks[i].stage \in Posting => tasks[i].n \in Abandoned
  BY Types DEF IInv, Abandoned, Posting, InTask, TypeOK, Busy

LEMMA LeaveInv == ASSUME IInv, Leave PROVE IInv'
  <1> USE DEF IInv
  <1>1. /\ shown' = FALSE /\ seen' \in BOOLEAN /\ unattended' = unattended \cup Abandoned
        /\ UNCHANGED <<session, mailed, created, store, param, form, formState, tasks,
                       submitted, asked, clicks, autos>>
    BY DEF Leave, serverVars, TypeOK, Sessions
  <1>2. TypeOK' BY <1>1, AbandonedPosts DEF TypeOK
  <1>3. OneAtATime' /\ SubmittingIsUnderWay' /\ FormsInv' /\ MarksAreClicks' /\ AskedFor'
    BY <1>1 DEF OneAtATime, SubmittingIsUnderWay, FormsInv, MarksAreClicks, AskedFor
  <1>4. Fresh' /\ GeoAlone' BY <1>1 DEF Fresh, GeoAlone
  <1>5. AttendedInv'
    BY <1>1, AbandonedPosts DEF AttendedInv, Attended, Posting
  <1> QED BY <1>2, <1>3, <1>4, <1>5

(* What is left of a handler when its page goes: all, its call, or nothing.*)
Left(r, t) ==
  \/ r = t
  \/ r.stage = "idle" /\ r.form = None /\ r.n = None
  \/ t.stage = "call" /\ r.stage = "call" /\ r.form = None /\ r.n = t.n

LEMMA UnloadedLeft ==
  ASSUME IInv
  PROVE  Unloaded \in [Task -> InTask] /\ \A i \in Task : Left(Unloaded[i], tasks[i])
  <1>1. ASSUME NEW i \in Task PROVE Unloaded[i] \in InTask /\ Left(Unloaded[i], tasks[i])
    <2>1. tasks[i] \in InTask BY Types DEF IInv
    <2>2. CASE tasks[i].stage = "call"
      <3>1. Unloaded[i] = [tasks[i] EXCEPT !.form = None] BY <2>2 DEF Unloaded
      <3>2. [tasks[i] EXCEPT !.form = None] \in InTask BY <2>1 DEF InTask
      <3>3. [tasks[i] EXCEPT !.form = None].stage = tasks[i].stage BY <2>1 DEF InTask
      <3>4. [tasks[i] EXCEPT !.form = None].n = tasks[i].n BY <2>1 DEF InTask
      <3>5. [tasks[i] EXCEPT !.form = None].form = None BY <2>1 DEF InTask
      <3> QED BY <2>2, <3>1, <3>2, <3>3, <3>4, <3>5 DEF Left
    <2>3. CASE tasks[i].stage # "call" BY <2>3, IdleTyped DEF Unloaded, Left
    <2> QED BY <2>2, <2>3
  <1> QED BY <1>1 DEF Unloaded

(* A form is mounted; no POST is of a submission still attended.           *)
LEMMA MountInv ==
  ASSUME IInv, NEW user \in BOOLEAN, NEW url \in BOOLEAN, NEW running \in [Task -> InTask],
         Mount(user, url, running), \A i \in Task : Left(running[i], tasks[i]),
         \A i \in Task : tasks[i].stage \in Posting => tasks[i].n \in unattended',
         unattended \subseteq unattended', unattended' \subseteq Submission,
         autos + (IF url THEN 1 ELSE 0) <= clicks', clicks' \in 0..MaxClicks
  PROVE  IInv'
  <1> USE DEF IInv
  <1>1. /\ form < MaxForms /\ form' = form + 1 /\ shown' = TRUE /\ seen' = user
        /\ UNCHANGED <<session, mailed, created, store, submitted, asked>>
    BY DEF Mount, serverVars
  <1>2. form' \in Form /\ form \in Nat /\ form' > form /\ form' # None /\ form' \in Nat
    BY <1>1, Types DEF Form, None
  <1>3. \A i \in Task :
          /\ running[i].form <= form /\ running[i].form # form'
          /\ running[i].form \in Form \cup {None} /\ running[i].form \in Nat
          /\ running[i].stage \in Busy => running[i].n # None
          /\ running[i].stage # "idle" => running[i].stage = tasks[i].stage /\ running[i].n = tasks[i].n
          /\ running[i].form # None => running[i] = tasks[i]
          /\ running[i].n \in {tasks[i].n, None}
          /\ running[i].stage \in {"geocoding", "sending", "verifying"} => running[i] = tasks[i]
    <2> TAKE i \in Task
    <2>1. running[i] \in InTask /\ tasks[i] \in InTask /\ Left(running[i], tasks[i]) BY Types
    <2>2. running[i].form \in Form \cup {None} BY <2>1 DEF InTask
    <2>3. running[i].form \in Nat BY <2>2 DEF Form, None
    <2>4. running[i].form <= form BY <1>2, <2>1, <2>3 DEF Left, TypeOK, None
    <2>5. running[i].form # form' BY <1>2, <2>3, <2>4
    <2>6. running[i].stage \in Busy => running[i].n # None
      BY <2>1, BusyStages DEF Left, TypeOK, Busy
    <2> QED BY <2>1, <2>2, <2>3, <2>4, <2>5, <2>6 DEF Left
  <1>4. \A n \in Submission : n \notin unattended' =>
          /\ \A i \in Task : ~(running[i].n = n /\ running[i].stage \in Posting)
          /\ created[n] <= 1 /\ (store = n => created[n] = 0)
    <2> TAKE n \in Submission
    <2> HAVE n \notin unattended'
    <2>1. Attended(n) BY DEF AttendedInv
    <2>2. \A i \in Task : ~(tasks[i].n = n /\ tasks[i].stage \in Posting) OBVIOUS
    <2>3. \A i \in Task : ~(running[i].n = n /\ running[i].stage \in Posting)
      BY <1>3, <2>2 DEF Posting
    <2>4. created[n] \in 0..2 BY Types
    <2> QED BY <2>1, <2>2, <2>3, <2>4 DEF Attended, Posting
  <1>5. None \notin Submission BY DEF Submission, None
  <1>6. \A i \in Task : running[i].stage = "geocoding" =>
          /\ running[i].n \in Submission /\ running[i].n \in asked /\ running[i].form # None
          /\ created[running[i].n] = 0 /\ store # running[i].n
          /\ \A j \in Task : running[j].n = running[i].n => j = i
    <2> TAKE i \in Task
    <2> HAVE running[i].stage = "geocoding"
    <2>1. running[i] = tasks[i] /\ tasks[i].stage = "geocoding" /\ tasks[i].n # None
          /\ tasks[i].n \in Submission
      BY <1>3, Types DEF Busy, InTask
    <2> QED BY <1>3, <2>1 DEF GeoAlone, AskedFor, FormsInv
  <1>7. CASE user /\ url /\ store # None
    <2>1. /\ param' = FALSE /\ autos' = autos + 1
          /\ formState' = [formState EXCEPT ![form'] = "submitting"]
      BY <1>1, <1>7 DEF Mount, ParamCleared
    <2>2. PICK k \in Task : /\ running[k].stage = "idle"
                            /\ tasks' = [running EXCEPT ![k] = Work("call", form', store)]
      BY <1>1, <1>7 DEF Mount
    <2>3. store \in Submission /\ store \in asked BY <1>7 DEF TypeOK, AskedFor
    <2>4. PICK t \in InTask : t = Work("call", form', store) /\ t.stage = "call"
                              /\ t.form = form' /\ t.n = store
      BY <1>2, <2>3, WorkTyped DEF Stages
    <2>5. /\ tasks' \in [Task -> InTask] /\ tasks'[k] = t
          /\ \A j \in Task \ {k} : tasks'[j] = running[j]
      BY <2>2, <2>4
    <2>6. /\ formState' \in [Form -> FormStates] /\ formState'[form'] = "submitting"
          /\ \A g \in Form \ {form'} : formState'[g] = formState[g]
      BY <1>2, <2>1 DEF TypeOK, FormStates
    <2>7. TypeOK'
      <3>1. \A j \in Task : tasks'[j].form <= form' /\ (tasks'[j].stage \in Busy => tasks'[j].n # None)
        BY <1>2, <1>3, <1>7, <2>4, <2>5
      <3>2. autos' \in Nat BY <2>1 DEF TypeOK
      <3> QED BY <1>1, <1>2, <2>1, <2>5, <2>6, <3>1, <3>2 DEF TypeOK, InTask
    <2>8. OneAtATime'
      BY <1>2, <1>3, <2>4, <2>5, <2>6, BusyStages DEF OneAtATime
    <2>9. SubmittingIsUnderWay' BY <2>4, <2>5 DEF SubmittingIsUnderWay, Busy
    <2>10. FormsInv'
      <3>1. \A g \in Form : g > form' => g > form /\ g # form' BY <1>2 DEF Form
      <3>2. \A j \in Task : tasks'[j].stage \in {"geocoding", "sending", "verifying"}
                            => tasks'[j].form # None
        BY <1>3, <2>4, <2>5 DEF FormsInv
      <3> QED BY <1>2, <2>6, <3>1, <3>2 DEF FormsInv
    <2>11. MarksAreClicks' BY <1>7, <2>1 DEF MarksAreClicks
    <2>12. AskedFor' BY <1>1, <1>6, <2>3, <2>4, <2>5 DEF AskedFor
    <2>13. Fresh' BY <1>1, <1>3, <1>5, <2>4, <2>5 DEF Fresh
    <2>14. GeoAlone'
      <3> SUFFICES ASSUME NEW j \in Task, tasks'[j].stage = "geocoding"
                   PROVE  /\ created'[tasks'[j].n] = 0 /\ store' # tasks'[j].n
                          /\ \A i \in Task : tasks'[i].n = tasks'[j].n => i = j
        BY DEF GeoAlone
      <3>1. j # k /\ tasks'[j] = running[j] BY <2>4, <2>5
      <3> QED BY <1>1, <1>6, <2>4, <2>5, <3>1
    <2>15. AttendedInv'
      <3> SUFFICES ASSUME NEW n \in Submission, n \notin unattended' PROVE Attended(n)'
        BY DEF AttendedInv
      <3> QED BY <1>1, <1>4, <2>4, <2>5 DEF Attended, Posting
    <2> QED BY <2>7, <2>8, <2>9, <2>10, <2>11, <2>12, <2>13, <2>14, <2>15
  <1>8. CASE ~(user /\ url /\ store # None)
    <2>1. /\ param' = url /\ tasks' = running /\ autos' = autos /\ formState' = formState
      BY <1>8 DEF Mount
    <2>2. formState[form'] = "initial" BY <1>2 DEF FormsInv
    <2>3. TypeOK'
      <3>1. \A j \in Task : tasks'[j].form <= form' /\ (tasks'[j].stage \in Busy => tasks'[j].n # None)
        BY <1>2, <1>3, <2>1
      <3> QED BY <1>1, <1>2, <2>1, <3>1 DEF TypeOK, InTask
    <2>4. OneAtATime' /\ SubmittingIsUnderWay'
      BY <1>3, <2>1, <2>2 DEF OneAtATime, SubmittingIsUnderWay
    <2>5. FormsInv'
      <3>1. \A g \in Form : g > form' => g > form BY <1>2 DEF Form
      <3> QED BY <1>2, <1>3, <2>1, <3>1 DEF FormsInv
    <2>6. MarksAreClicks' BY <2>1 DEF MarksAreClicks
    <2>7. AskedFor' BY <1>1, <1>6, <2>1 DEF AskedFor
    <2>8. Fresh' BY <1>1, <1>3, <1>5, <2>1 DEF Fresh
    <2>9. GeoAlone' BY <1>1, <1>6, <2>1 DEF GeoAlone
    <2>10. AttendedInv'
      <3> SUFFICES ASSUME NEW n \in Submission, n \notin unattended' PROVE Attended(n)'
        BY DEF AttendedInv
      <3> QED BY <1>1, <1>4, <2>1 DEF Attended, Posting
    <2> QED BY <2>3, <2>4, <2>5, <2>6, <2>7, <2>8, <2>9, <2>10
  <1> QED BY <1>7, <1>8

LEMMA PagesInv == ASSUME IInv, Visit \/ Reload \/ Click PROVE IInv'
  <1>1. /\ Sessions \subseteq BOOLEAN /\ param \in BOOLEAN /\ autos \in Nat
        /\ autos + (IF param THEN 1 ELSE 0) <= clicks /\ clicks \in 0..MaxClicks
        /\ unattended \subseteq Submission /\ unattended \cup Abandoned \subseteq Submission
    BY AbandonedPosts DEF IInv, TypeOK, Sessions, MarksAreClicks
  <1>2. CASE Visit
    <2>1. PICK user \in Sessions, url \in {param, FALSE} : Mount(user, url, tasks)
      BY <1>2 DEF Visit
    <2>2. ~shown /\ clicks' = clicks /\ unattended' = unattended BY <1>2 DEF Visit
    <2>3. user \in BOOLEAN /\ url \in BOOLEAN BY <1>1
    <2>4. autos + (IF url THEN 1 ELSE 0) <= clicks' /\ clicks' \in 0..MaxClicks
      <3>1. url => param BY <2>1
      <3>2. (IF url THEN 1 ELSE 0) <= (IF param THEN 1 ELSE 0) BY <3>1
      <3> QED BY <1>1, <2>2, <3>2
    <2>5. \A i \in Task : tasks[i].stage \in Posting => tasks[i].n \in unattended'
      BY <2>2, AbandonedPosts DEF IInv, AttendedInv, Attended
    <2>6. tasks \in [Task -> InTask] /\ \A i \in Task : Left(tasks[i], tasks[i])
      BY Types DEF IInv, Left
    <2> QED BY <1>1, <2>1, <2>2, <2>3, <2>4, <2>5, <2>6, MountInv
  <1>3. CASE Reload
    <2>1. PICK user \in Sessions : Mount(user, param, Unloaded) BY <1>3 DEF Reload
    <2>2. clicks' = clicks /\ unattended' = unattended \cup Abandoned BY <1>3 DEF Reload
    <2>3. user \in BOOLEAN BY <1>1
    <2>4. autos + (IF param THEN 1 ELSE 0) <= clicks' /\ clicks' \in 0..MaxClicks
      BY <1>1, <2>2
    <2>5. \A i \in Task : tasks[i].stage \in Posting => tasks[i].n \in unattended'
      BY <2>2, AbandonedPosts
    <2> QED BY <1>1, <2>1, <2>2, <2>3, <2>4, <2>5, UnloadedLeft, MountInv
  <1>4. CASE Click
    <2>1. PICK user \in Sessions : Mount(user, TRUE, Unloaded) BY <1>4 DEF Click
    <2>2. clicks' = clicks + 1 /\ clicks < MaxClicks /\ unattended' = unattended \cup Abandoned
      BY <1>4 DEF Click
    <2>3. user \in BOOLEAN BY <1>1
    <2>4. clicks' \in 0..MaxClicks /\ autos + (IF TRUE THEN 1 ELSE 0) <= clicks'
      BY <1>1, <2>2, ListingFormConstants
    <2>5. \A i \in Task : tasks[i].stage \in Posting => tasks[i].n \in unattended'
      BY <2>2, AbandonedPosts
    <2> QED BY <1>1, <2>1, <2>2, <2>3, <2>4, <2>5, UnloadedLeft, MountInv
  <1> QED BY <1>2, <1>3, <1>4

LEMMA OpenLinkInv == ASSUME IInv, OpenLink PROVE IInv'
  BY DEF OpenLink, IInv, TypeOK, OneAtATime, SubmittingIsUnderWay, FormsInv, MarksAreClicks,
     AskedFor, Fresh, GeoAlone, AttendedInv, Attended, pageVars, history

LEMMA NextInv == IInv /\ [Next]_vars => IInv'
  <1> SUFFICES ASSUME IInv, [Next]_vars PROVE IInv' OBVIOUS
  <1>1. CASE Next
    BY <1>1, PagesInv, LeaveInv, OpenLinkInv, SubmitPickedInv, SubmitManualInv, CancelInv,
       EnterTokenInv, GeocodedInv, EndingsInv, VerifiedInv, NotVerifiedInv, ServeInv, CreatedInv
       DEF Next, Handler
  <1>2. CASE UNCHANGED vars
    BY <1>2 DEF vars, serverVars, pageVars, history, IInv, TypeOK, OneAtATime,
       SubmittingIsUnderWay, FormsInv, MarksAreClicks, AskedFor, Fresh, GeoAlone, AttendedInv,
       Attended
  <1> QED BY <1>1, <1>2

(* The forms, the session storage and the handlers keep to one account of  *)
(* what is being submitted.                                                *)
THEOREM InductiveInvariant == Spec => []IInv
  BY InitInv, NextInv, PTL DEF Spec

-----------------------------------------------------------------------------
(* However often tokens are entered and links opened, a submission whose   *)
(* form stays open for its answer creates one listing.                     *)
THEOREM ListedOnce == Spec => []OnceEach
  <1>1. IInv => OnceEach BY DEF IInv, AttendedInv, Attended, OnceEach
  <1> QED BY <1>1, InductiveInvariant, PTL

(* The form, the session storage and the handlers in flight agree on what  *)
(* is being submitted, and by whom.                                        *)
THEOREM FormIsSound == Spec => []ListingFormInv
  <1>1. IInv => ListingFormInv
    <2> SUFFICES ASSUME IInv PROVE ListingFormInv OBVIOUS
    <2>1. ListedIsNotPending
      <3> SUFFICES ASSUME store # None, created[store] > 0, store \notin unattended
                   PROVE  \E i \in Task : tasks[i].n = store /\ tasks[i].stage = "ok"
        BY DEF ListedIsNotPending
      <3>1. store \in Submission /\ created[store] \in 0..2 BY Types DEF IInv, TypeOK
      <3> QED BY <3>1 DEF IInv, AttendedInv, Attended
    <2>2. AutoSubmitOncePerLink BY Types DEF IInv, MarksAreClicks, AutoSubmitOncePerLink, TypeOK
    <2> QED BY <2>1, <2>2 DEF IInv, ListingFormInv
  <1> QED BY <1>1, InductiveInvariant, PTL

(* A submission is posted by a form that has just been sent, from what was *)
(* geocoded for it, or from the session storage.                           *)
LEMMA CallsAreOfHand ==
  ASSUME IInv, Next, NEW k \in Task, tasks[k].stage # "call", tasks'[k].stage = "call"
  PROVE  \/ tasks'[k].n = submitted + 1 /\ asked' = asked \cup {submitted + 1}
         \/ tasks[k].stage = "geocoding" /\ tasks'[k].n = tasks[k].n /\ asked' = asked
         \/ store # None /\ tasks'[k].n = store /\ asked' = asked
  <1> USE DEF IInv
  <1>1. tasks \in [Task -> InTask] /\ tasks[k] \in InTask BY Types
  <1>2. ASSUME NEW i \in Task, NEW t, tasks' = [tasks EXCEPT ![i] = t]
        PROVE  i = k /\ t.stage = "call" /\ tasks'[k] = t
    BY <1>1, <1>2
  <1>3. ASSUME NEW i \in Task, End(i) PROVE FALSE
    BY <1>2, <1>3, IdleTyped DEF End
  <1>4. ASSUME NEW i \in Task, NEW stage, NEW f, NEW n,
               tasks' = [tasks EXCEPT ![i] = Work(stage, f, n)]
        PROVE  i = k /\ stage = "call" /\ tasks'[k].n = n
    BY <1>2, <1>4 DEF Work
  <1>5. ASSUME NEW i \in Task, NEW f, NEW n, Located(i, f, n)
        PROVE  i = k /\ tasks'[k].n = n
    BY <1>3, <1>4, <1>5 DEF Located
  <1>6. ASSUME NEW user, NEW url, NEW running \in [Task -> InTask], Mount(user, url, running)
        PROVE  \/ tasks'[k] = running[k]
               \/ store # None /\ tasks'[k].n = store /\ asked' = asked
    BY <1>6 DEF Mount, Work
  <1>7. CASE Visit \/ Reload \/ Click
    <2>1. Unloaded[k].stage # "call" BY IdleTyped DEF Unloaded
    <2>2. Unloaded \in [Task -> InTask] BY UnloadedLeft
    <2> QED BY <1>1, <1>6, <1>7, <2>1, <2>2 DEF Visit, Reload, Click
  <1>8. CASE SubmitPicked BY <1>5, <1>8 DEF SubmitPicked
  <1>9. CASE SubmitManual BY <1>4, <1>9 DEF SubmitManual
  <1>10. CASE EnterToken
    <2>1. PICK i \in Task : tasks' = [tasks EXCEPT ![i] = Work("verifying", form, None)]
      BY <1>10 DEF EnterToken
    <2>2. "verifying" = "call" BY <1>4, <2>1, Zenon
    <2> QED BY <2>2
  <1>11. CASE Leave \/ OpenLink \/ Cancel BY <1>11 DEF Leave, OpenLink, Cancel
  <1>12. ASSUME NEW i \in Task, Geocoded(i)
         PROVE  tasks[k].stage = "geocoding" /\ tasks'[k].n = tasks[k].n /\ asked' = asked
    BY <1>5, <1>12 DEF Geocoded
  <1>13. ASSUME NEW i \in Task, Verified(i)
         PROVE  store # None /\ tasks'[k].n = store /\ asked' = asked
    BY <1>3, <1>4, <1>13 DEF Verified, Resumes
  <1>14. ASSUME NEW i \in Task,
                \/ NotGeocoded(i) \/ LinkSent(i) \/ LinkNotSent(i)
                \/ NotVerified(i) \/ Created(i) \/ Failed(i)
         PROVE  FALSE
    BY <1>3, <1>14 DEF NotGeocoded, LinkSent, LinkNotSent, NotVerified, Created, Failed
  <1>15. ASSUME NEW i \in Task, Serve(i) PROVE FALSE
    <2>1. tasks[i].stage = "call" /\ \E stage \in {"ok", "failed"} :
            tasks' = [tasks EXCEPT ![i].stage = stage]
      BY <1>15 DEF Serve
    <2> HIDE DEF IInv
    <2>2. tasks'[i].stage \in {"ok", "failed"} /\ \A j \in Task \ {i} : tasks'[j] = tasks[j]
      BY <2>1, Answers
    <2> QED BY <2>2
  <1> QED
    BY <1>7, <1>8, <1>9, <1>10, <1>11, <1>12, <1>13, <1>14, <1>15 DEF Next, Handler

(* `Use different email' withdraws the listing: what is posted later was   *)
(* asked for, and not withdrawn.                                           *)
THEOREM CancelIsFinal == Spec => CancelWithdrawsListing
  <1>1. IInv /\ [Next]_vars
        => [\A i \in Task : tasks[i].stage # "call" /\ tasks'[i].stage = "call"
                           => tasks'[i].n \in asked']_vars
    <2>1. ASSUME IInv, Next, NEW i \in Task, tasks[i].stage # "call", tasks'[i].stage = "call"
          PROVE  tasks'[i].n \in asked'
      <3>1. store # None => store \in asked BY <2>1 DEF IInv, AskedFor
      <3>2. tasks[i].stage = "geocoding" => tasks[i].n \in asked BY <2>1 DEF IInv, AskedFor
      <3> QED BY <2>1, <3>1, <3>2, CallsAreOfHand
    <2> QED BY <2>1
  <1> QED BY <1>1, InductiveInvariant, PTL DEF Spec, CancelWithdrawsListing

-----------------------------------------------------------------------------
(* AddressField, for any places, texts and numbers of requests.  The field *)
(* is the user's from the first focus on (Theirs), has nothing pending     *)
(* before (Untouched), and what it waits for is a search of the visible    *)
(* text (Pending), which ends with a selection (Shown).                    *)

(* What is pending searches the visible text, for a user in the field.     *)
Pending ==
  /\ debounceTimer # Nothing => newest = Nothing /\ debounceTimer = query /\ focused
  /\ newest # Nothing => requests[newest] = query /\ focused

(* A field nobody has touched searches nothing and offers nothing.         *)
Untouched ==
  ~userInteracted =>
    /\ ~focused /\ ~open
    /\ suggestions = Nothing /\ debounceTimer = Nothing /\ newest = Nothing

(* The form knows of every touch, and a lookup does not outlast one unseen.*)
Theirs ==
  /\ touched => addressInteracted
  /\ userInteracted => touched
  /\ lookup = "address" /\ touched => userInteracted

(* A selection is shown, and ends the search.                              *)
Shown ==
  mounted /\ selectedAddress # Nothing =>
    /\ query = selectedAddress
    /\ suggestions = Nothing /\ ~open /\ debounceTimer = Nothing /\ newest = Nothing

AddressIInv ==
  /\ AddressTypeOK /\ Pending /\ Untouched /\ Theirs /\ Shown
  /\ OpenWhileSearching /\ ResultsAreCurrent /\ NoticeIsTrue

-----------------------------------------------------------------------------
LEMMA AddressInitInv == AddressInit => AddressIInv
  BY FieldConstants DEF AddressInit, AddressIInv, AddressTypeOK, Pending, Untouched, Theirs, Shown,
    OpenWhileSearching, ResultsAreCurrent, NoticeIsTrue, LabelOf, mounted, Request

(* The device's position and the form around the field.                    *)
LEMMA SurroundingsInv ==
  ASSUME AddressIInv,
         \/ LocationDenied \/ LocationGranted \/ LookupFailed
         \/ EnterManually \/ SearchInstead \/ AwaitMagicLink \/ CancelMagicLink
  PROVE  AddressIInv'
  <1> USE FieldConstants DEF AddressIInv, AddressTypeOK, Pending, Untouched, Theirs, Shown,
        OpenWhileSearching, ResultsAreCurrent, NoticeIsTrue, LabelOf, mounted, formVars, fieldVars,
        Mounted, Unmounted
  <1>1. CASE LocationDenied BY <1>1 DEF LocationDenied
  <1>2. CASE LocationGranted BY <1>2 DEF LocationGranted
  <1>3. CASE LookupFailed BY <1>3 DEF LookupFailed
  <1>4. CASE EnterManually BY <1>4 DEF EnterManually
  <1>5. CASE SearchInstead BY <1>5 DEF SearchInstead
  <1>6. CASE AwaitMagicLink BY <1>6 DEF AwaitMagicLink
  <1>7. CASE CancelMagicLink BY <1>7 DEF CancelMagicLink
  <1> QED BY <1>1, <1>2, <1>3, <1>4, <1>5, <1>6, <1>7

(* What fills the field in, or takes from it.                              *)
LEMMA FieldInv ==
  ASSUME AddressIInv,
         \/ \E p \in Place : prepopulateFrom(p) \/ select(p)
         \/ Focus \/ handleBlur \/ Escape \/ ArrowDown
         \/ \E text \in Text \cup {Empty} : handleInput(text)
  PROVE  AddressIInv'
  <1> USE FieldConstants DEF AddressIInv, AddressTypeOK, Pending, Untouched, Theirs, Shown,
        OpenWhileSearching, ResultsAreCurrent, NoticeIsTrue, mounted, formVars,
        markInteracted, cancelPending, closeListbox
  <1>1. ASSUME NEW p \in Place, prepopulateFrom(p) PROVE AddressIInv'
    BY <1>1 DEF prepopulateFrom
  <1>2. ASSUME NEW p \in Place, select(p) PROVE AddressIInv'
    BY <1>2 DEF select
  <1>3. CASE Focus BY <1>3 DEF Focus
  <1>4. CASE handleBlur BY <1>4 DEF handleBlur
  <1>5. CASE Escape BY <1>5 DEF Escape
  <1>6. CASE ArrowDown BY <1>6 DEF ArrowDown
  <1>7. ASSUME NEW text \in Text \cup {Empty}, handleInput(text) PROVE AddressIInv'
    <2>1. CASE text = Empty BY <1>7, <2>1 DEF handleInput
    <2>2. CASE text # Empty BY <1>7, <2>2 DEF handleInput
    <2> QED BY <2>1, <2>2
  <1> QED BY <1>1, <1>2, <1>3, <1>4, <1>5, <1>6, <1>7

(* Requests and their answers, in whatever order they come.                *)
LEMMA FetchInv ==
  ASSUME AddressIInv, runFetch \/ \E i \in Request : Answered(i)
  PROVE  AddressIInv'
  <1> USE FieldConstants DEF AddressIInv, AddressTypeOK, Pending, Untouched, Theirs, Shown,
        OpenWhileSearching, ResultsAreCurrent, NoticeIsTrue, mounted, formVars
  <1>1. CASE runFetch
    <2>1. PICK i \in Request : /\ requests[i] = Nothing
                               /\ requests' = [requests EXCEPT ![i] = debounceTimer]
                               /\ newest' = i
      BY <1>1 DEF runFetch
    <2>2. requests'[i] = debounceTimer /\ requests' \in [Request -> Text \cup {Nothing}]
      BY <1>1, <2>1 DEF runFetch
    <2>3. /\ debounceTimer = query /\ debounceTimer \in Text /\ focused /\ userInteracted
          /\ formShown /\ ~manualEntry /\ i # Nothing /\ debounceTimer # Nothing
      BY <1>1, <2>1 DEF runFetch, Request
    <2>4. /\ requests'[newest'] = query' /\ newest' # Nothing /\ newest' \in Request
          /\ debounceTimer' = Nothing /\ mounted'
          /\ UNCHANGED <<formVars, query, suggestions, open, userInteracted, focused, lookup,
                         touched>>
          /\ status' = "loading"
      BY <1>1, <2>1, <2>2, <2>3 DEF runFetch
    <2>5. AddressTypeOK' BY <2>2, <2>3, <2>4
    <2> QED BY <2>3, <2>4, <2>5
  <1>2. ASSUME NEW i \in Request, Answered(i) PROVE AddressIInv'
    <2>1. /\ requests' = [requests EXCEPT ![i] = Nothing]
          /\ requests' \in [Request -> Text \cup {Nothing}]
          /\ requests[i] # Nothing /\ requests[i] \in Text
      BY <1>2 DEF Answered
    <2>2. CASE newest = i
      <3>1. newest # Nothing /\ mounted /\ focused /\ userInteracted /\ requests[i] = query
        BY <2>2 DEF Request
      <3>2. selectedAddress = Nothing /\ debounceTimer = Nothing
        BY <3>1
      <3>3. PICK outcome \in Outcomes :
              /\ newest' = Nothing
              /\ suggestions' = IF outcome = "found" THEN requests[i] ELSE Nothing
              /\ open' = (outcome = "found")
              /\ status' = IF outcome = "found" THEN "idle" ELSE outcome
        BY <1>2, <2>2 DEF Answered, IsNewest
      <3>4. /\ UNCHANGED <<formVars, query, userInteracted, focused, lookup, debounceTimer,
                           touched>>
            /\ mounted' = mounted
        BY <1>2 DEF Answered
      <3>5. CASE outcome = "found"
        BY <2>1, <3>1, <3>2, <3>3, <3>4, <3>5
      <3>6. CASE outcome # "found"
        BY <2>1, <3>1, <3>2, <3>3, <3>4, <3>6 DEF Outcomes
      <3> QED BY <3>5, <3>6
    <2>3. CASE newest # i
      <3>1. newest # Nothing => requests'[newest] = requests[newest]
        BY <2>1, <2>3
      <3> QED BY <1>2, <2>1, <2>3, <3>1 DEF Answered, IsNewest
    <2> QED BY <2>2, <2>3
  <1> QED BY <1>1, <1>2

LEMMA AddressNextInv == AddressIInv /\ [AddressNext]_addressVars => AddressIInv'
  <1> SUFFICES ASSUME AddressIInv, [AddressNext]_addressVars PROVE AddressIInv' OBVIOUS
  <1>1. CASE AddressNext BY <1>1, SurroundingsInv, FieldInv, FetchInv DEF AddressNext
  <1>2. CASE UNCHANGED addressVars
    BY <1>2
    DEF addressVars, formVars, fieldVars, AddressIInv, AddressTypeOK, Pending, Untouched, Theirs,
        Shown, OpenWhileSearching, ResultsAreCurrent, NoticeIsTrue, mounted
  <1> QED BY <1>1, <1>2

(* The inductive invariant of the address field: what is pending, what is  *)
(* shown and whose the text is.                                            *)
THEOREM AddressInductiveInvariant == AddressSpec => []AddressIInv
  BY AddressInitInv, AddressNextInv, PTL DEF AddressSpec

-----------------------------------------------------------------------------
(* The variables keep their types, and an unmounted field waits for nothing.*)
THEOREM AddressTypeCorrect == AddressSpec => []AddressTypeOK
  <1>1. AddressIInv => AddressTypeOK BY DEF AddressIInv
  <1> QED BY <1>1, AddressInductiveInvariant, PTL

(* The coordinates the form submits are those of the visible address.      *)
THEOREM SubmitsWhatIsShown == AddressSpec => []SelectionIsShown
  <1>1. AddressIInv => SelectionIsShown BY DEF AddressIInv, Shown, SelectionIsShown
  <1> QED BY <1>1, AddressInductiveInvariant, PTL

(* No late answer leaves suggestions of another text, opens the listbox    *)
(* after blur or selection, or contradicts the notice.                     *)
THEOREM SearchIsSound == AddressSpec => []SearchInv
  <1>1. AddressIInv => SearchInv BY DEF AddressIInv, SearchInv
  <1> QED BY <1>1, AddressInductiveInvariant, PTL

(* A position that arrives after the user has touched the field, also in   *)
(* an earlier mount of it, fills nothing in.                               *)
THEOREM UserWins == AddressSpec => TheirsOnceTouched
  <1>1. AddressIInv /\ [AddressNext]_addressVars
          => (touched /\ status' = "prepopulated" => status = "prepopulated")
    <2> SUFFICES ASSUME AddressIInv, [AddressNext]_addressVars, touched, status' = "prepopulated"
                 PROVE  status = "prepopulated"
      OBVIOUS
    <2>1. ASSUME NEW p \in Place, prepopulateFrom(p) PROVE status = "prepopulated"
      BY <2>1 DEF prepopulateFrom, AddressIInv, Theirs
    <2>2. ASSUME NEW text \in Text \cup {Empty}, handleInput(text) PROVE status = "prepopulated"
      BY <2>2 DEF handleInput
    <2>3. ASSUME NEW i \in Request, Answered(i) PROVE status = "prepopulated"
      BY <2>3 DEF Answered, Outcomes
    <2>4. ASSUME NEW p \in Place, select(p) PROVE status = "prepopulated"
      BY <2>4 DEF select
    <2>5. CASE \/ LocationDenied \/ LocationGranted \/ LookupFailed
               \/ Focus \/ handleBlur \/ Escape \/ ArrowDown
      BY <2>5 DEF LocationDenied, LocationGranted, LookupFailed, Focus, handleBlur, Escape,
        ArrowDown
    <2>6. CASE \/ runFetch \/ EnterManually \/ SearchInstead \/ AwaitMagicLink
               \/ CancelMagicLink
      BY <2>6 DEF runFetch, EnterManually, SearchInstead, AwaitMagicLink, CancelMagicLink,
        Mounted, Unmounted, fieldVars
    <2>7. CASE UNCHANGED addressVars BY <2>7 DEF addressVars, fieldVars
    <2> QED BY <2>1, <2>2, <2>3, <2>4, <2>5, <2>6, <2>7 DEF AddressNext
  <1> QED BY <1>1, AddressInductiveInvariant, PTL DEF AddressSpec, TheirsOnceTouched
=============================================================================
