---------------------- MODULE InquirySubmissionProofs -----------------------
(***************************************************************************)
(* Proofs about the two workflows the server starts for a user:            *)
(* InquirySubmission, for any number of requests, gleaners and workflow    *)
(* rows and any length of the day, and then ResendSync.                    *)
(***************************************************************************)
EXTENDS InquirySubmission, ResendSync, TLAPS

(* The steps of the workflow.                                              *)
LEMMA TheSteps == Runtime!Steps = {SendOwnerEmailStep, CreateInquiryStep}
  BY DEF Runtime!Steps, SendOwnerEmailStep, CreateInquiryStep

(* The key that a request of a signed-in user computes is a proper one.    *)
LEMMA KeyOfIsKey ==
  ASSUME TypeOK, NEW r \in Request, who[r] \in User
  PROVE  KeyOf(r) \in Key /\ KeyOf(r).who = who[r] /\ KeyOf(r) # NoKey
  <1>1. Today \in Nat
    BY InquiryConstants, SMT DEF TypeOK, Today
  <1> QED BY <1>1, InquiryConstants DEF KeyOf, Key, NoKey

(* What INSERT ... ON CONFLICT DO NOTHING leaves behind: a row under the   *)
(* key, open or finished, and every other row as it was.                   *)
LEMMA EnqueuedRow ==
  ASSUME TypeOK, KeyInv, NEW r \in Request, who[r] \in User,
         NEW i \in Row, Enqueued(r, i)
  PROVE  /\ Runtime!TypeOK' /\ key' \in [Row -> Key \cup {NoKey}]
         /\ KeyInv'
         /\ UNCHANGED <<stepLog, effects>>
         /\ key'[i] = KeyOf(r) /\ state'[i] # "none"
         /\ \A j \in Row : /\ state[j] # "none" => state'[j] = state[j]
                           /\ state'[j] = "success" => state[j] = "success"
                           /\ key[j] # NoKey => key'[j] = key[j]
  <1> USE KeyOfIsKey
  <1>1. CASE \E j \in Row : key[j] = KeyOf(r)
    <2>1. key[i] = KeyOf(r) /\ UNCHANGED <<state, stepLog, effects, key>>
      BY <1>1 DEF Enqueued
    <2> QED BY <2>1 DEF TypeOK, Runtime!TypeOK, KeyInv
  <1>2. CASE ~ \E j \in Row : key[j] = KeyOf(r)
    <2>1. /\ state[i] = "none" /\ UNCHANGED <<stepLog, effects>>
          /\ state' = [state EXCEPT ![i] = "open"]
          /\ key' = [key EXCEPT ![i] = KeyOf(r)]
      BY <1>2 DEF Enqueued, Runtime!Enqueue
    <2>2. /\ key'[i] = KeyOf(r) /\ state'[i] = "open"
          /\ \A j \in Row \ {i} : key'[j] = key[j] /\ state'[j] = state[j]
          /\ key[i] = NoKey
      BY <2>1 DEF TypeOK, Runtime!TypeOK, KeyInv
    <2>3. Runtime!TypeOK' /\ key' \in [Row -> Key \cup {NoKey}]
      BY <2>1 DEF TypeOK, Runtime!TypeOK
    <2>4. KeyInv'
      BY <1>2, <2>1, <2>2 DEF KeyInv
    <2> QED BY <2>1, <2>2, <2>3, <2>4
  <1> QED BY <1>1, <1>2

-----------------------------------------------------------------------------
(* The tables only grow: nothing a request or a workflow does takes back a *)
(* mail, an inquiry or a row.                                              *)
Kept(i) ==
  /\ Mailed(i) => Mailed(i)'
  /\ Recorded(i) => Recorded(i)'
  /\ state[i] # "none" => state'[i] # "none"
  /\ key[i] # NoKey => key'[i] = key[i]

(* A handler that writes nothing leaves the tables in order.               *)
LEMMA TablesUnchanged ==
  ASSUME KeyInv, LogInv, InquiryInv, UNCHANGED <<state, stepLog, effects, key, inquiries>>
  PROVE  KeyInv' /\ LogInv' /\ InquiryInv' /\ \A i \in Row : Kept(i)
  BY DEF KeyInv, LogInv, InquiryInv, Kept, Mailed, Recorded

(* Each step of the workflow keeps the tables in order.                    *)
LEMMA TablesInWorkflow ==
  ASSUME TypeOK, KeyInv, LogInv, InquiryInv, NEW i \in Row, WorkflowStep(i)
  PROVE  /\ TypeOK' /\ KeyInv' /\ LogInv' /\ InquiryInv'
         /\ \A j \in Row : Kept(j)
  <1> USE TheSteps DEF SendOwnerEmailStep, CreateInquiryStep
  <1>e. \A j \in Row : effects[j] \in [{1, 2} -> Nat]
    BY DEF TypeOK, Runtime!TypeOK
  <1>f. effects \in [Row -> [{1, 2} -> Nat]]
    BY DEF TypeOK, Runtime!TypeOK
  <1>1. CASE SendOwnerEmail(i)
    <2>1. /\ effects' = [effects EXCEPT ![i][1] = @ + 1]
          /\ UNCHANGED <<accepting, state, stepLog, key, inquiries, pc, who, born, row, clock>>
      BY <1>1 DEF SendOwnerEmail, Runtime!Perform, Runtime!Occurs, reqVars
    <2>e. /\ effects' = [effects EXCEPT ![i] = effects'[i]]
          /\ effects'[i] = [effects[i] EXCEPT ![1] = effects[i][1] + 1]
      BY <2>1, <1>f
    <2>2. effects' \in [Row -> [Runtime!Steps -> Nat]]
      <3>1. effects'[i] \in [{1, 2} -> Nat]
        BY <2>e, <1>e
      <3> QED BY <2>e, <3>1, <1>f
    <2>3. \A j \in Row : effects[j][1] > 0 => effects'[j][1] > 0
      BY <2>e, <1>e, <1>f
    <2>4. TypeOK'
      BY <2>1, <2>2 DEF TypeOK, Runtime!TypeOK
    <2>5. \A j \in Row : Kept(j)
      BY <2>1, <2>3 DEF Kept, Mailed, Recorded
    <2>6. KeyInv' /\ LogInv' /\ InquiryInv'
      BY <2>1, <2>3 DEF KeyInv, LogInv, InquiryInv, Mailed, Recorded
    <2> QED BY <2>4, <2>5, <2>6
  <1>2. CASE LogOwnerEmail(i)
    <2>1. /\ state[i] = "open" /\ effects[i][1] > 0
          /\ stepLog' = [stepLog EXCEPT ![i] = @ \cup {1}]
          /\ UNCHANGED <<accepting, state, effects, key, inquiries, pc, who, born, row, clock>>
      BY <1>2 DEF LogOwnerEmail, Runtime!Log, Runtime!Logged, Runtime!IsNext, reqVars
    <2>2. /\ stepLog'[i] = stepLog[i] \cup {1}
          /\ \A j \in Row \ {i} : stepLog'[j] = stepLog[j]
      BY <2>1 DEF TypeOK, Runtime!TypeOK
    <2>3. TypeOK'
      BY <2>1 DEF TypeOK, Runtime!TypeOK
    <2>4. \A j \in Row : Kept(j)
      BY <2>1 DEF Kept, Mailed, Recorded
    <2>5. KeyInv' /\ InquiryInv'
      BY <2>1, <2>2 DEF KeyInv, InquiryInv, TypeOK
    <2>6. LogInv'
      BY <2>1, <2>2 DEF LogInv, Mailed, Recorded
    <2> QED BY <2>3, <2>4, <2>5, <2>6
  <1>3. CASE CreateInquiry(i)
    <2> DEFINE q == [row |-> i, who |-> key[i].who, at |-> clock]
    <2>1. /\ state[i] = "open" /\ 1 .. 2 - 1 \subseteq stepLog[i] /\ 2 \notin stepLog[i]
          /\ effects' = [effects EXCEPT ![i][2] = @ + 1]
          /\ stepLog' = [stepLog EXCEPT ![i] = @ \cup {2}]
          /\ inquiries' = inquiries \cup {q}
          /\ UNCHANGED <<accepting, state, key, pc, who, born, row, clock>>
      BY <1>3 DEF CreateInquiry, InsertInquiry, Runtime!Commit, Runtime!IsNext,
                  Runtime!Occurs, Runtime!Logged, reqVars
    <2>2. /\ stepLog'[i] = stepLog[i] \cup {2}
          /\ \A j \in Row \ {i} : stepLog'[j] = stepLog[j]
      BY <2>1 DEF TypeOK, Runtime!TypeOK
    <2>e. /\ effects' = [effects EXCEPT ![i] = effects'[i]]
          /\ effects'[i] = [effects[i] EXCEPT ![2] = effects[i][2] + 1]
      BY <2>1, <1>f
    <2>f. \A j \in Row : effects'[j][1] = effects[j][1]
      BY <2>e, <1>e, <1>f
    <2>3. q \in [row: Row, who: User, at: Nat] /\ q.row = i /\ q.who = key[i].who
      BY <2>1 DEF TypeOK, KeyInv, Key, NoKey
    <2>4. effects' \in [Row -> [Runtime!Steps -> Nat]]
      <3>1. effects'[i] \in [{1, 2} -> Nat]
        BY <2>e, <1>e
      <3> QED BY <2>e, <3>1, <1>f
    <2>5. TypeOK'
      BY <2>1, <2>3, <2>4 DEF TypeOK, Runtime!TypeOK
    <2>6. \A j \in Row : Kept(j)
      BY <2>1, <2>f DEF Kept, Mailed, Recorded
    <2>7. KeyInv'
      BY <2>1 DEF KeyInv
    <2>8. LogInv'
      <3>1. Recorded(i)' /\ Mailed(i)'
        <4>1. Recorded(i)'
          BY <2>1, <2>3 DEF Recorded
        <4>2. 1 \in stepLog[i]
          BY <2>1
        <4>3. Mailed(i)'
          BY <4>2, <2>f DEF LogInv, Mailed
        <4> QED BY <4>1, <4>3
      <3> QED BY <2>1, <2>2, <2>f, <3>1 DEF LogInv, Mailed, Recorded
    <2>9. InquiryInv'
      <3>1. \A p \in inquiries : p.row # i /\ p.row \in Row
        BY <2>1 DEF InquiryInv, TypeOK
      <3> QED BY <2>1, <2>2, <2>3, <3>1 DEF InquiryInv
    <2> QED BY <2>5, <2>6, <2>7, <2>8, <2>9
  <1>4. CASE WorkflowEnds(i)
    <2>1. PICK outcome \in {"success", "error"} :
            /\ state[i] = "open" /\ (outcome = "success" => stepLog[i] = Runtime!Steps)
            /\ state' = [state EXCEPT ![i] = outcome]
            /\ UNCHANGED <<accepting, stepLog, effects, key, inquiries, pc, who, born, row, clock>>
      BY <1>4 DEF WorkflowEnds, Runtime!End, reqVars
    <2>2. /\ state'[i] = outcome
          /\ \A j \in Row \ {i} : state'[j] = state[j]
      BY <2>1 DEF TypeOK, Runtime!TypeOK
    <2>3. TypeOK'
      BY <2>1 DEF TypeOK, Runtime!TypeOK, Runtime!Ends
    <2>4. \A j \in Row : Kept(j)
      BY <2>1, <2>2 DEF Kept, Mailed, Recorded
    <2>5. KeyInv' /\ LogInv' /\ InquiryInv'
      BY <2>1, <2>2 DEF KeyInv, LogInv, InquiryInv, Mailed, Recorded, TypeOK
    <2> QED BY <2>3, <2>4, <2>5
  <1> QED BY <1>1, <1>2, <1>3, <1>4 DEF WorkflowStep

-----------------------------------------------------------------------------
(* What the invariant says of one request.                                 *)
RequestOK(r) ==
  /\ pc[r] \in Active \cup {"ok", "RATE_LIMITED"} => who[r] \in User
  /\ pc[r] \in {"waiting", "ok"} => /\ row[r] \in Row
                                    /\ state[row[r]] # "none"
                                    /\ key[row[r]].who = who[r]
  /\ pc[r] = "ok" => Mailed(row[r]) /\ Recorded(row[r]) /\ key[row[r]].who = who[r]
  /\ pc[r] = "RATE_LIMITED" => \E i \in Row : key[i].who = who[r] /\ Mailed(i)

(* The three invariants on requests say exactly that of every one.         *)
LEMMA RequestsOK ==
  (HandleInv /\ OkMeansDone /\ RefusedAfterContact) <=> \A r \in Request : RequestOK(r)
  BY DEF HandleInv, OkMeansDone, RefusedAfterContact, RequestOK

(* The same after a step.                                                  *)
LEMMA RequestsOKNext ==
  ASSUME \A r \in Request : RequestOK(r)'
  PROVE  (HandleInv /\ OkMeansDone /\ RefusedAfterContact)'
  BY DEF HandleInv, OkMeansDone, RefusedAfterContact, RequestOK

(* What holds of a request goes on to hold while it does not move, ...     *)
LEMMA RequestStays ==
  ASSUME TypeOK, KeyInv, NEW r \in Request, RequestOK(r), \A i \in Row : Kept(i),
         pc'[r] = pc[r], who'[r] = who[r], row'[r] = row[r]
  PROVE  RequestOK(r)'
  <1>1. \A i \in Row : key[i].who \in User => key'[i] = key[i]
    BY InquiryConstants DEF Kept, NoKey
  <1>2. \A i \in Row : /\ Mailed(i) => Mailed(i)'
                       /\ Recorded(i) => Recorded(i)'
                       /\ state[i] # "none" => state'[i] # "none"
    BY DEF Kept
  <1>3. pc[r] \in {"waiting", "ok"} =>
          row[r] \in Row /\ key'[row[r]] = key[row[r]] /\ state'[row[r]] # "none"
    BY <1>1, <1>2 DEF RequestOK, Active
  <1>4. pc[r] = "ok" => Mailed(row[r]) /\ Recorded(row[r])
    BY DEF RequestOK
  <1>5. pc[r] = "ok" => effects'[row[r]][1] > 0 /\ \E q \in inquiries' : q.row = row[r]
    BY <1>2, <1>3, <1>4 DEF Mailed, Recorded, SendOwnerEmailStep
  <1>6. pc[r] = "RATE_LIMITED" => \E i \in Row : key'[i].who = who[r] /\ Mailed(i)'
    BY <1>1, <1>2 DEF RequestOK
  <1> QED BY <1>3, <1>5, <1>6 DEF RequestOK, Mailed, Recorded, SendOwnerEmailStep

(* ... and there is little to say of one that has ended without success.   *)
LEMMA RequestEnded ==
  ASSUME NEW r \in Request, pc'[r] \in Answers \ {"ok", "RATE_LIMITED"}
  PROVE  RequestOK(r)'
  BY SMTT(20) DEF RequestOK, Answers, Active, Rejected

-----------------------------------------------------------------------------
(* A step that moves request r and no other, and keeps the tables.         *)
LEMMA OneRequestMoves ==
  ASSUME SubmissionInv, NEW r \in Request, \A i \in Row : Kept(i),
         \A o \in Request \ {r} : pc'[o] = pc[o] /\ who'[o] = who[o] /\ row'[o] = row[o],
         RequestOK(r)'
  PROVE  (HandleInv /\ OkMeansDone /\ RefusedAfterContact)'
  <1>1. \A o \in Request : RequestOK(o)
    BY RequestsOK DEF SubmissionInv
  <1>2. \A o \in Request \ {r} : RequestOK(o)'
    BY <1>1, RequestStays DEF SubmissionInv
  <1>3. \A o \in Request : RequestOK(o)'
    BY <1>2
  <1> QED BY <1>3, RequestsOKNext

(* Submit enqueues a row, or finds the one under its key.                  *)
LEMMA SubmitKeeps ==
  ASSUME SubmissionInv, NEW r \in Request, Submit(r) \/ SubmitFails(r)
  PROVE  SubmissionInv'
  <1> USE DEF SubmissionInv
  <1>1. pc[r] = "fresh" /\ who[r] \in User
    BY DEF Submit, SubmitFails, HandleInv, Active
  <1>2. PICK i \in Row :
          /\ Enqueued(r, i)
          /\ \/ pc' = [pc EXCEPT ![r] = "waiting"] /\ row' = [row EXCEPT ![r] = i]
             \/ pc' = [pc EXCEPT ![r] = "failed"] /\ row' = row
    BY DEF Submit, SubmitFails, Become
  <1>3. UNCHANGED <<accepting, inquiries, who, born, clock>>
    BY DEF Submit, SubmitFails
  <1>4. /\ Runtime!TypeOK' /\ key' \in [Row -> Key \cup {NoKey}]
        /\ KeyInv'
        /\ UNCHANGED <<stepLog, effects>>
        /\ key'[i] = KeyOf(r) /\ state'[i] # "none"
        /\ \A j \in Row : /\ state[j] # "none" => state'[j] = state[j]
                          /\ state'[j] = "success" => state[j] = "success"
                          /\ key[j] # NoKey => key'[j] = key[j]
    BY <1>1, <1>2, EnqueuedRow
  <1>5. TypeOK'
    BY <1>2, <1>3, <1>4 DEF TypeOK, Active, Answers, Rejected
  <1>6. \A j \in Row : Kept(j)
    BY <1>3, <1>4 DEF Kept, Mailed, Recorded
  <1>7. LogInv'
    BY <1>3, <1>4 DEF LogInv, Mailed, Recorded
  <1>8. InquiryInv'
    BY <1>3, <1>4 DEF InquiryInv, KeyInv, TypeOK
  <1>9. RequestOK(r)'
    <2>1. CASE pc' = [pc EXCEPT ![r] = "failed"]
      <3>1. pc'[r] = "failed"
        BY <2>1 DEF TypeOK
      <3> QED BY <3>1, RequestEnded DEF Answers, Rejected
    <2>2. CASE pc' = [pc EXCEPT ![r] = "waiting"] /\ row' = [row EXCEPT ![r] = i]
      <3>1. pc'[r] = "waiting" /\ row'[r] = i
        BY <2>2 DEF TypeOK
      <3>2. key'[i].who = who'[r] /\ who'[r] \in User
        BY <1>1, <1>3, <1>4, KeyOfIsKey
      <3> QED BY <1>4, <3>1, <3>2 DEF RequestOK
    <2> QED BY <1>2, <2>1, <2>2
  <1>10. \A o \in Request \ {r} : pc'[o] = pc[o] /\ who'[o] = who[o] /\ row'[o] = row[o]
    BY <1>2, <1>3 DEF TypeOK
  <1>11. (HandleInv /\ OkMeansDone /\ RefusedAfterContact)'
    BY <1>6, <1>9, <1>10, OneRequestMoves
  <1> QED BY <1>4, <1>5, <1>7, <1>8, <1>11

(* The steps of a handler that write nothing to the tables.                *)
LEMMA AnswerKeeps ==
  ASSUME SubmissionInv, NEW r \in Request,
         \/ CheckRecent(r) \/ CheckFails(r) \/ Result(r) \/ ResultGivesUp(r)
         \/ \E u \in User \cup {NoUser} : ReadListing(r, u)
  PROVE  SubmissionInv'
  <1> USE DEF SubmissionInv
  <1>1. /\ UNCHANGED <<accepting, state, stepLog, effects, key, inquiries, row, clock>>
        /\ \E p \in Active \cup Answers : pc' = [pc EXCEPT ![r] = p]
        /\ \A o \in Request \ {r} : pc'[o] = pc[o] /\ who'[o] = who[o] /\ row'[o] = row[o]
    BY DEF CheckRecent, CheckFails, Result, ResultGivesUp, ReadListing, Become, dbVars,
           Active, Answers, Rejected, TypeOK
  <1>2. KeyInv' /\ LogInv' /\ InquiryInv' /\ \A i \in Row : Kept(i)
    BY <1>1, TablesUnchanged
  <1>3. who' \in [Request -> User \cup {NoUser}] /\ born' \in [Request -> Nat]
    BY DEF CheckRecent, CheckFails, Result, ResultGivesUp, ReadListing, TypeOK
  <1>4. TypeOK'
    BY <1>1, <1>3 DEF TypeOK, Runtime!TypeOK
  <1>5. RequestOK(r)'
    <2>1. CASE CheckFails(r)
      <3>1. pc'[r] = "failed"
        BY <2>1 DEF CheckFails, Become, TypeOK
      <3> QED BY <3>1, RequestEnded DEF Answers, Rejected
    <2>2. CASE ResultGivesUp(r)
      <3>1. pc'[r] = "EMAIL_FAILED"
        BY <2>2 DEF ResultGivesUp, Become, TypeOK
      <3> QED BY <3>1, RequestEnded DEF Answers, Rejected
    <2>3. CASE Result(r)
      <3>1. /\ pc[r] = "waiting" /\ UNCHANGED <<who, row>>
            /\ pc'[r] = IF state[row[r]] = "success" THEN "ok" ELSE "EMAIL_FAILED"
        BY <2>3 DEF Result, Become, TypeOK
      <3>2. CASE state[row[r]] = "success"
        <4>1. /\ row[r] \in Row /\ key[row[r]].who = who[r] /\ who[r] \in User
              /\ state[row[r]] # "none"
          BY <3>1 DEF HandleInv, Active
        <4>2. Mailed(row[r]) /\ Recorded(row[r])
          BY <3>2, <4>1, TheSteps DEF LogInv
        <4> QED BY <1>1, <3>1, <3>2, <4>1, <4>2 DEF RequestOK, Mailed, Recorded
      <3>3. CASE state[row[r]] # "success"
        BY <3>1, <3>3, RequestEnded DEF Answers, Rejected
      <3> QED BY <3>2, <3>3
    <2>4. CASE CheckRecent(r)
      <3>1. /\ pc[r] = "listed" /\ UNCHANGED <<who, row>>
            /\ pc'[r] = IF HasRecent(who[r]) THEN "RATE_LIMITED" ELSE "fresh"
        BY <2>4 DEF CheckRecent, Become, TypeOK
      <3>2. who[r] \in User
        BY <3>1 DEF HandleInv, Active
      <3>3. HasRecent(who[r]) => \E i \in Row : key[i].who = who[r] /\ Mailed(i)
        BY DEF HasRecent, InquiryInv, LogInv, TypeOK
      <3> QED BY <1>1, <3>1, <3>2, <3>3 DEF RequestOK, Mailed
    <2>5. CASE \E u \in User \cup {NoUser} : ReadListing(r, u)
      <3>1. PICK u \in User \cup {NoUser} : ReadListing(r, u)
        BY <2>5
      <3>2. /\ who'[r] = u
            /\ pc'[r] = IF u = NoUser THEN "AUTH_REQUIRED"
                        ELSE IF ~accepting \/ u = Owner THEN "NOT_ALLOWED"
                        ELSE "listed"
        BY <3>1 DEF ReadListing, Become, TypeOK
      <3>3. CASE pc'[r] = "listed"
        BY <3>2, <3>3 DEF RequestOK
      <3>4. CASE pc'[r] \in {"AUTH_REQUIRED", "NOT_ALLOWED"}
        BY <3>4, RequestEnded DEF Answers, Rejected
      <3> QED BY <3>2, <3>3, <3>4
    <2> QED BY <2>1, <2>2, <2>3, <2>4, <2>5
  <1>6. (HandleInv /\ OkMeansDone /\ RefusedAfterContact)'
    BY <1>1, <1>2, <1>5, OneRequestMoves
  <1> QED BY <1>2, <1>4, <1>6

-----------------------------------------------------------------------------
(* The inductive invariant of the submission: what the keys, the logs of   *)
(* the workflows, the inquiries and the handlers say agrees at all times.  *)
THEOREM InductiveInvariant == Spec => []SubmissionInv
  <1>1. Init => SubmissionInv
    <2> SUFFICES ASSUME Init PROVE SubmissionInv
      OBVIOUS
    <2>1. TypeOK
      BY DEF Init, TypeOK, Runtime!Init, Runtime!TypeOK
    <2>2. KeyInv /\ LogInv /\ InquiryInv
      BY TheSteps DEF Init, Runtime!Init, KeyInv, LogInv, InquiryInv
    <2>3. \A r \in Request : pc[r] = "idle"
      BY DEF Init
    <2>4. HandleInv /\ OkMeansDone /\ RefusedAfterContact
      BY <2>3 DEF HandleInv, OkMeansDone, RefusedAfterContact, Active
    <2> QED BY <2>1, <2>2, <2>4 DEF SubmissionInv
  <1>2. SubmissionInv /\ [Next]_vars => SubmissionInv'
    <2> SUFFICES ASSUME SubmissionInv, [Next]_vars PROVE SubmissionInv'
      OBVIOUS
    <2>0. ASSUME UNCHANGED <<state, stepLog, effects, key, inquiries, who, row>>, TypeOK',
                 \A r \in Request : pc'[r] = pc[r] \/ pc'[r] = "lost"
          PROVE  SubmissionInv'
      <3>1. KeyInv' /\ LogInv' /\ InquiryInv' /\ \A i \in Row : Kept(i)
        BY <2>0, TablesUnchanged DEF SubmissionInv
      <3>2. \A r \in Request : RequestOK(r)
        BY RequestsOK DEF SubmissionInv
      <3>3. ASSUME NEW r \in Request PROVE RequestOK(r)'
        <4>1. CASE pc'[r] = pc[r]
          BY <2>0, <3>1, <3>2, <4>1, RequestStays DEF SubmissionInv
        <4>2. CASE pc'[r] = "lost"
          BY <4>2, RequestEnded DEF Answers, Rejected
        <4> QED BY <2>0, <4>1, <4>2
      <3>4. (HandleInv /\ OkMeansDone /\ RefusedAfterContact)'
        BY <3>3, RequestsOKNext
      <3> QED BY <2>0, <3>1, <3>4 DEF SubmissionInv
    <2>1. ASSUME NEW r \in Request, HandlerStep(r) PROVE SubmissionInv'
      BY <2>1, SubmitKeeps, AnswerKeeps DEF HandlerStep
    <2>2. ASSUME NEW r \in Request, NEW u \in User \cup {NoUser}, ReadListing(r, u)
          PROVE  SubmissionInv'
      BY <2>2, AnswerKeeps
    <2>3. ASSUME NEW i \in Row, WorkflowStep(i) PROVE SubmissionInv'
      <3>1. TypeOK' /\ KeyInv' /\ LogInv' /\ InquiryInv' /\ \A j \in Row : Kept(j)
        BY <2>3, TablesInWorkflow DEF SubmissionInv
      <3>2. UNCHANGED <<pc, who, row>>
        BY <2>3 DEF WorkflowStep, SendOwnerEmail, LogOwnerEmail, CreateInquiry, WorkflowEnds, reqVars
      <3>3. \A r \in Request : RequestOK(r)
        BY RequestsOK DEF SubmissionInv
      <3>4. \A r \in Request : RequestOK(r)'
        BY <3>1, <3>2, <3>3, RequestStays DEF SubmissionInv
      <3>5. (HandleInv /\ OkMeansDone /\ RefusedAfterContact)'
        BY <3>4, RequestsOKNext
      <3> QED BY <3>1, <3>5 DEF SubmissionInv
    <2>4. CASE ServerDies
      <3>1. TypeOK'
        BY <2>4 DEF ServerDies, SubmissionInv, TypeOK, Runtime!TypeOK, dbVars, Answers
      <3> QED BY <2>0, <2>4, <3>1 DEF ServerDies, dbVars
    <2>5. CASE SetStatus
      <3>1. TypeOK'
        BY <2>5 DEF SetStatus, SubmissionInv, TypeOK, Runtime!TypeOK, reqVars
      <3> QED BY <2>0, <2>5, <3>1 DEF SetStatus, reqVars
    <2>6. CASE Tick
      <3>1. TypeOK'
        BY <2>6 DEF Tick, SubmissionInv, TypeOK, Runtime!TypeOK, dbVars, reqVars
      <3> QED BY <2>0, <2>6, <3>1 DEF Tick, dbVars, reqVars
    <2>7. CASE UNCHANGED vars
      <3>1. TypeOK'
        BY <2>7 DEF vars, SubmissionInv, TypeOK, Runtime!TypeOK, dbVars, reqVars
      <3> QED BY <2>0, <2>7, <3>1 DEF vars, dbVars, reqVars
    <2> QED BY <2>1, <2>2, <2>3, <2>4, <2>5, <2>6, <2>7 DEF Next
  <1> QED BY <1>1, <1>2, PTL DEF Spec

(* Every variable has its type, whatever the requests do.                  *)
THEOREM TypeCorrect == Spec => []TypeOK
  <1>1. SubmissionInv => TypeOK
    BY DEF SubmissionInv
  <1> QED BY <1>1, InductiveInvariant, PTL

(* Told that it went out, the inquiry is on record and the owner mailed.   *)
THEOREM ToldTheTruth == Spec => []OkMeansDone
  <1>1. SubmissionInv => OkMeansDone
    BY DEF SubmissionInv
  <1> QED BY <1>1, InductiveInvariant, PTL

(* Nobody is refused for a contact that was only attempted.                *)
THEOREM RefusedForAReason == Spec => []RefusedAfterContact
  <1>1. SubmissionInv => RefusedAfterContact
    BY DEF SubmissionInv
  <1> QED BY <1>1, InductiveInvariant, PTL

(* One gleaner, one UTC day: at most one inquiry, under every interleaving *)
(* of the requests, their failures and the restarts of the server.         *)
THEOREM AtMostOneADay == Spec => []OneInquiryPerDay
  <1>1. SubmissionInv => OneInquiryPerDay
    <2> SUFFICES ASSUME SubmissionInv, NEW p \in inquiries, NEW q \in inquiries,
                        key[p.row] = key[q.row]
                 PROVE  p = q
      BY DEF OneInquiryPerDay
    <2>1. p.row \in Row /\ q.row \in Row
      BY DEF SubmissionInv, TypeOK
    <2>2. key[p.row] # NoKey
      BY <2>1 DEF SubmissionInv, KeyInv, InquiryInv
    <2>3. p.row = q.row
      BY <2>1, <2>2 DEF SubmissionInv, KeyInv
    <2> QED BY <2>3 DEF SubmissionInv, InquiryInv
  <1> QED BY <1>1, InductiveInvariant, PTL

-----------------------------------------------------------------------------
(* ResendSync, for any number of revisions, attempts, retries and crashes  *)
(* and any concurrency of the queue.                                       *)

(* A row claims its next attempt within its bounds: crashes come on top of *)
(* max_attempts.  A worker has its row running, and ends it once its step  *)
(* is logged.                                                              *)
AttemptInv ==
  \A s \in Rev :
    /\ attempts[s] <= MaxAttempts + crashes
    /\ status[s] = "pending" => attempts[s] < MaxAttempts + crashes
    /\ place[s] # "idle" => status[s] = "running"
    /\ place[s] = "idle" => tries[s] = 0
    /\ status[s] = "none" => attempts[s] = 0 /\ s \notin logged
    /\ place[s] = "finish" \/ status[s] = "success" => s \in logged
    /\ s \in hooks => status[s] = "none"
    /\ status[s] # "none" => s <= rev

(* Without trouble of its own a row loses the race for the creation once:  *)
(* its second attempt finds the contact.  Nor does its worker leave it.    *)
RaceInv ==
  \A s \in Rev :
    s \notin troubled =>
      /\ status[s] # "error"
      /\ status[s] = "pending" => attempts[s] = 0 \/ (attempts[s] = 1 /\ firstName # 0)
      /\ status[s] = "running" =>
           /\ place[s] # "idle"
           /\ attempts[s] = 1 \/ (attempts[s] = 2 /\ firstName # 0 /\ place[s] # "post")

(* A revision enqueued after all before it were through has Resend to      *)
(* itself until the next is enqueued: what its step wrote stays, also if   *)
(* its row is claimed again.                                               *)
AloneInv ==
  /\ alone \subseteq 1..rev
  /\ rev \in alone =>
       /\ hooks = {} /\ status[rev] # "none"
       /\ \A s \in Rev \ {rev} : status[s] \in {"none"} \cup Ended
       /\ place[rev] = "answer" \/ rev \in logged => ShowsNamesOf(rev)

(* Once the call of the page is carried out with no other under way, the   *)
(* topic is what the switch shows.                                         *)
SwitchInv ==
  /\ firstName = 0 => topic = "default"
  /\ quiet => others = {}
  /\ quiet /\ pending /\ applied => firstName # 0 /\ topic = Setting(shown)
  /\ SwitchTellsTruth

SyncIInv == SyncTypeOK /\ AttemptInv /\ RaceInv /\ AloneInv /\ SwitchInv

LEMMA SyncInitInv == SyncInit => SyncIInv
  <1> SUFFICES ASSUME SyncInit PROVE SyncIInv OBVIOUS
  <1>1. SyncTypeOK
    <2>1. 0 \in 0..MaxRevs /\ 0 \in 0..MaxCrashes /\ 0 \in 0..MaxTries
          /\ 0 \in 0..MaxAttempts + MaxCrashes
      BY ResendConstants
    <2>2. /\ status \in [Rev -> {"none", "pending", "running"} \cup Ended]
          /\ attempts \in [Rev -> 0..MaxAttempts + MaxCrashes]
          /\ place \in [Rev -> {"idle", "get", "post", "patch", "answer", "finish"}]
          /\ tries \in [Rev -> 0..MaxTries]
      BY <2>1 DEF SyncInit
    <2> QED BY <2>1, <2>2, ResendConstants DEF SyncInit, SyncTypeOK
  <1>2. AttemptInv BY ResendConstants DEF SyncInit, AttemptInv, Rev
  <1>3. RaceInv /\ AloneInv /\ SwitchInv
    BY DEF SyncInit, RaceInv, AloneInv, SwitchInv, SwitchTellsTruth, Effective
  <1> QED BY <1>1, <1>2, <1>3 DEF SyncIInv

-----------------------------------------------------------------------------
LEMMA HookStep ==
  ASSUME SyncIInv, SaveUser \/ \E s \in Rev : EnqueueFails(s) \/ Enqueue(s)
  PROVE  SyncIInv'
  <1> USE DEF SyncIInv, SyncTypeOK
  <1>1. CASE SaveUser
    <2>1. SyncTypeOK' BY <1>1, ResendConstants DEF SaveUser, rowVars, contactVars, pageVars, history
    <2>2. rev' \in Rev /\ status[rev'] = "none"
      BY <1>1, ResendConstants DEF SaveUser, AttemptInv, Rev
    <2>3. AttemptInv'
      BY <1>1, <2>2 DEF SaveUser, rowVars, AttemptInv, Rev
    <2>4. RaceInv' BY <1>1 DEF SaveUser, rowVars, contactVars, history, RaceInv
    <2>5. AloneInv' BY <1>1 DEF SaveUser, history, AloneInv
    <2>6. SwitchInv'
      BY <1>1 DEF SaveUser, contactVars, pageVars, SwitchInv, SwitchTellsTruth, Effective
    <2> QED BY <2>1, <2>3, <2>4, <2>5, <2>6
  <1>2. ASSUME NEW s \in Rev, EnqueueFails(s) PROVE SyncIInv'
    <2>1. SyncTypeOK' BY <1>2 DEF EnqueueFails, rowVars, contactVars, pageVars, history
    <2>2. AttemptInv' /\ RaceInv' /\ AloneInv'
      BY <1>2 DEF EnqueueFails, rowVars, contactVars, history, AttemptInv, RaceInv, AloneInv
    <2>3. SwitchInv'
      BY <1>2 DEF EnqueueFails, contactVars, pageVars, SwitchInv, SwitchTellsTruth, Effective
    <2> QED BY <2>1, <2>2, <2>3
  <1>3. ASSUME NEW s \in Rev, Enqueue(s) PROVE SyncIInv'
    <2>1. SyncTypeOK' BY <1>3 DEF Enqueue, contactVars, pageVars
    <2>2. /\ s \in hooks /\ s <= rev /\ status[s] = "none" /\ attempts[s] = 0
          /\ place[s] = "idle" /\ s \notin logged
      BY <1>3 DEF Enqueue, AttemptInv, Rev
    <2>3. AttemptInv' BY <1>3, <2>2, ResendConstants DEF Enqueue, AttemptInv, Rev
    <2>4. RaceInv' BY <1>3, <2>2 DEF Enqueue, contactVars, RaceInv
    <2>5. AloneInv'
      <3>1. rev \notin alone BY <2>2 DEF AloneInv
      <3>2. CASE alone' = alone BY <1>3, <3>1, <3>2 DEF Enqueue, AloneInv
      <3>3. CASE alone' # alone
        <4>1. /\ hooks = {s} /\ alone' = alone \cup {s} /\ hooks' = {}
              /\ \A t \in Rev : status[t] \in {"none"} \cup Ended
          BY <1>3, <3>3 DEF Enqueue
        <4>2. status'[s] = "pending" /\ UNCHANGED <<place, logged, rev>>
              /\ \A t \in Rev \ {s} : status'[t] = status[t]
          BY <1>3 DEF Enqueue
        <4> QED BY <2>2, <3>1, <4>1, <4>2 DEF AloneInv, Ended
      <3> QED BY <3>2, <3>3
    <2>6. SwitchInv'
      BY <1>3 DEF Enqueue, contactVars, pageVars, SwitchInv, SwitchTellsTruth, Effective
    <2> QED BY <2>1, <2>3, <2>4, <2>5, <2>6
  <1> QED BY <1>1, <1>2, <1>3

(* What a row's own steps leave alone.                                     *)
LEMMA RowsOwn ==
  ASSUME SyncIInv, NEW s \in Rev, Claim(s) \/ Upsert(s) \/ Fault(s)
  PROVE  /\ rev' = rev /\ hooks' = hooks /\ crashes' = crashes /\ alone' = alone
         /\ UNCHANGED pageVars
         /\ status[s] \in {"pending", "running"}
         /\ \A t \in Rev \ {s} : /\ status'[t] = status[t] /\ attempts'[t] = attempts[t]
                                 /\ place'[t] = place[t] /\ tries'[t] = tries[t]
         /\ logged \subseteq logged' /\ logged' \subseteq logged \cup {s}
         /\ troubled \subseteq troubled' /\ troubled' \subseteq troubled \cup {s}
         /\ firstName # 0 => firstName' # 0
  <1> USE DEF SyncIInv, SyncTypeOK
  <1>1. CASE Claim(s) BY <1>1 DEF Claim, contactVars, history
  <1>2. CASE Get(s) \/ Post(s) \/ Patch(s)
    <2>1. s # 0 BY DEF Rev
    <2>2. status[s] = "running" BY <1>2 DEF Get, Post, Patch, AttemptInv
    <2>3. /\ \E p \in {"post", "patch", "answer"} : GoesOn(s, p)
          /\ firstName' \in {firstName, s} /\ logged' = logged
      BY <1>2 DEF Get, Post, Patch, contactVars
    <2> QED BY <2>1, <2>2, <2>3 DEF GoesOn, history
  <1>3. CASE Answer(s) BY <1>3 DEF Answer, GoesOn, contactVars, history, AttemptInv
  <1>4. CASE PostConflicts(s) \/ Finish(s)
    BY <1>4 DEF PostConflicts, Finish, Throw, Leave, contactVars, AttemptInv
  <1>5. CASE Refuse(s) \/ Abandon(s)
    BY <1>5 DEF Refuse, Abandon, Throw, Leave, contactVars, AttemptInv
  <1>6. CASE Unreachable(s)
    <2>1. CASE Throw(s) BY <1>6, <2>1 DEF Unreachable, Throw, Leave, contactVars, AttemptInv
    <2>2. CASE ~Throw(s) BY <1>6, <2>2 DEF Unreachable, TryAgain, contactVars, AttemptInv
    <2> QED BY <2>1, <2>2
  <1> QED BY <1>1, <1>2, <1>3, <1>4, <1>5, <1>6 DEF Upsert, Fault

(* One step of one row: what becomes of that row.                          *)
RowNow(s) ==
  /\ status'[s] \in {"pending", "running"} \cup Ended
  /\ attempts'[s] \in 0..MaxAttempts + MaxCrashes
  /\ attempts'[s] <= MaxAttempts + crashes
  /\ status'[s] = "pending" => attempts'[s] < MaxAttempts + crashes
  /\ place'[s] \in {"idle", "get", "post", "patch", "answer", "finish"}
  /\ place'[s] # "idle" => status'[s] = "running"
  /\ tries'[s] \in 0..MaxTries
  /\ place'[s] = "idle" => tries'[s] = 0
  /\ place'[s] = "finish" \/ status'[s] = "success" => s \in logged'
  /\ s \notin troubled' =>
       /\ status'[s] # "error"
       /\ status'[s] = "pending" => attempts'[s] = 0 \/ (attempts'[s] = 1 /\ firstName' # 0)
       /\ status'[s] = "running" =>
            /\ place'[s] # "idle"
            /\ attempts'[s] = 1 \/ (attempts'[s] = 2 /\ firstName' # 0 /\ place'[s] # "post")
  /\ \/ ShowsNamesOf(s)'
     \/ /\ UNCHANGED contactVars
        /\ place'[s] = "answer" \/ s \in logged' => place[s] = "answer" \/ s \in logged

LEMMA RowStep ==
  ASSUME SyncIInv, NEW s \in Rev, Claim(s) \/ Upsert(s) \/ Fault(s)
  PROVE  RowNow(s)
  <1> USE ResendConstants DEF SyncIInv, SyncTypeOK, AttemptInv, RaceInv, Ended
  <1>1. CASE Claim(s)
    BY <1>1 DEF Claim, contactVars, history, RowNow
  <1>2. CASE Get(s) BY <1>2 DEF Get, GoesOn, contactVars, history, RowNow
  <1>3. CASE Post(s)
    BY <1>3 DEF Post, GoesOn, LastNameOf, ShowsNamesOf, history, RowNow, Rev
  <1>4. CASE Patch(s)
    BY <1>4 DEF Patch, GoesOn, LastNameOf, ShowsNamesOf, history, RowNow, Rev
  <1>5. CASE PostConflicts(s) BY <1>5 DEF PostConflicts, Throw, Leave, contactVars, RowNow
  <1>6. CASE Answer(s) BY <1>6 DEF Answer, GoesOn, contactVars, history, RowNow
  <1>7. CASE Finish(s) BY <1>7 DEF Finish, Leave, contactVars, RowNow
  <1>8. CASE Refuse(s) BY <1>8 DEF Refuse, Throw, Leave, contactVars, RowNow
  <1>9. CASE Unreachable(s)
    BY <1>9 DEF Unreachable, TryAgain, Throw, Leave, contactVars, RowNow
  <1>10. CASE Abandon(s) BY <1>10 DEF Abandon, Leave, contactVars, RowNow
  <1> QED BY <1>1, <1>2, <1>3, <1>4, <1>5, <1>6, <1>7, <1>8, <1>9, <1>10 DEF Upsert, Fault

LEMMA RowKeeps ==
  ASSUME SyncIInv, NEW s \in Rev, Claim(s) \/ Upsert(s) \/ Fault(s)
  PROVE  SyncIInv'
  <1>1. RowNow(s) BY RowStep
  <1>2. /\ rev' = rev /\ hooks' = hooks /\ crashes' = crashes /\ alone' = alone
        /\ UNCHANGED pageVars
        /\ status[s] \in {"pending", "running"}
        /\ \A t \in Rev \ {s} : /\ status'[t] = status[t] /\ attempts'[t] = attempts[t]
                                /\ place'[t] = place[t] /\ tries'[t] = tries[t]
        /\ logged \subseteq logged' /\ logged' \subseteq logged \cup {s}
        /\ troubled \subseteq troubled' /\ troubled' \subseteq troubled \cup {s}
        /\ firstName # 0 => firstName' # 0
    BY RowsOwn
  <1>3. /\ status' \in [Rev -> {"none", "pending", "running"} \cup Ended]
        /\ attempts' \in [Rev -> 0..MaxAttempts + MaxCrashes]
        /\ place' \in [Rev -> {"idle", "get", "post", "patch", "answer", "finish"}]
        /\ tries' \in [Rev -> 0..MaxTries]
    <2>1. CASE Claim(s)
      BY <1>1, <2>1 DEF RowNow, Claim, contactVars, history, SyncIInv, SyncTypeOK
    <2>2. CASE Get(s) \/ Post(s) \/ Patch(s)
      BY <1>1, <2>2 DEF RowNow, Get, Post, Patch, GoesOn, contactVars, history, SyncIInv, SyncTypeOK
    <2>3. CASE PostConflicts(s) \/ Finish(s) \/ Refuse(s) \/ Abandon(s)
      BY <1>1, <2>3, ResendConstants
        DEF RowNow, PostConflicts, Finish, Refuse, Abandon, Throw, Leave, contactVars, SyncIInv, SyncTypeOK
    <2>4. CASE Unreachable(s) /\ Throw(s)
      BY <1>1, <2>4, ResendConstants DEF RowNow, Throw, Leave, SyncIInv, SyncTypeOK
    <2>5. CASE Unreachable(s) /\ ~Throw(s)
      BY <1>1, <2>5 DEF RowNow, Unreachable, TryAgain, SyncIInv, SyncTypeOK
    <2>6. CASE Answer(s)
      BY <1>1, <2>6 DEF RowNow, Answer, GoesOn, SyncIInv, SyncTypeOK
    <2> QED BY <2>1, <2>2, <2>3, <2>4, <2>5, <2>6 DEF Upsert, Fault
  <1>4. /\ firstName' \in 0..MaxRevs /\ lastName' \in 0..MaxRevs
        /\ optedOut' \in BOOLEAN /\ topic' \in {"default", "on", "off"}
        /\ firstName = 0 => topic' = "default"
        /\ firstName # 0 => topic' = topic
    <2> USE DEF SyncIInv, SyncTypeOK
    <2>0. s \in 0..MaxRevs /\ s # 0 /\ 0 \in 0..MaxRevs BY ResendConstants DEF Rev
    <2>1. CASE Post(s) BY <2>0, <2>1 DEF Post, LastNameOf
    <2>2. CASE Patch(s) BY <2>0, <2>2 DEF Patch, LastNameOf, SwitchInv
    <2>3. CASE UNCHANGED contactVars
      BY <2>3 DEF contactVars, SyncIInv, SyncTypeOK, SwitchInv
    <2> QED BY <2>1, <2>2, <2>3
      DEF Upsert, Fault, Claim, Get, PostConflicts, Answer, Finish, Refuse, Unreachable, Abandon
  <1>5. SyncTypeOK'
    BY <1>2, <1>3, <1>4, ResendConstants DEF SyncIInv, SyncTypeOK, pageVars
  <1>6. AttemptInv' BY <1>1, <1>2 DEF SyncIInv, AttemptInv, RowNow, Ended, SyncTypeOK
  <1>7. RaceInv' BY <1>1, <1>2 DEF SyncIInv, RaceInv, RowNow
  <1>8. AloneInv'
    <2> SUFFICES ASSUME rev \in alone
                 PROVE  /\ hooks' = {} /\ status'[rev] # "none"
                        /\ \A t \in Rev \ {rev} : status'[t] \in {"none"} \cup Ended
                        /\ place'[rev] = "answer" \/ rev \in logged' => ShowsNamesOf(rev)'
      BY <1>2 DEF SyncIInv, AloneInv
    <2>1. s = rev BY <1>2 DEF SyncIInv, AloneInv, Ended
    <2> QED BY <1>1, <1>2, <2>1
      DEF SyncIInv, AloneInv, RowNow, Ended, ShowsNamesOf, contactVars
  <1>9. SwitchInv'
    BY <1>2, <1>4 DEF SyncIInv, SwitchInv, SwitchTellsTruth, Effective, Setting, pageVars
  <1> QED BY <1>5, <1>6, <1>7, <1>8, <1>9 DEF SyncIInv

LEMMA CrashStep ==
  ASSUME SyncIInv, Crash
  PROVE  SyncIInv'
  <1> USE DEF SyncIInv, SyncTypeOK, Crash
  <1>1. SyncTypeOK'
    <2>1. /\ crashes' \in 0..MaxCrashes /\ 0 \in 0..MaxTries BY ResendConstants
    <2>2. /\ status' \in [Rev -> {"none", "pending", "running"} \cup Ended]
          /\ place' \in [Rev -> {"idle", "get", "post", "patch", "answer", "finish"}]
          /\ tries' \in [Rev -> 0..MaxTries]
      BY <2>1 DEF Running
    <2> QED BY <2>1, <2>2 DEF contactVars, pageVars, Running
  <1>2. AttemptInv' BY ResendConstants DEF AttemptInv, Running, Rev, Ended
  <1>3. RaceInv' BY DEF RaceInv, Running, contactVars
  <1>4. AloneInv' BY DEF AloneInv, ShowsNamesOf, Running, Ended, contactVars, Rev
  <1>5. SwitchInv' BY DEF SwitchInv, SwitchTellsTruth, Effective, contactVars, pageVars
  <1> QED BY <1>1, <1>2, <1>3, <1>4, <1>5

(* The page's steps and the opt-out leave rows and names alone.            *)
LEMMA UserStep ==
  ASSUME SyncIInv, OptOut \/ Page
  PROVE  SyncIInv'
  <1> USE DEF SyncIInv, SyncTypeOK
  <1>1. UNCHANGED <<rev, hooks, rowVars, firstName, lastName, crashes, history>>
    BY DEF Page, OptOut, LoadPage, Toggle, PatchTopic, TopicCallEnds, TopicCallFails, OtherCall,
      OtherPatches, OtherEnds, contactVars
  <1>2. SyncTypeOK'
    <2>1. /\ optedOut' \in BOOLEAN /\ topic' \in {"default", "on", "off"}
          /\ shown' \in BOOLEAN /\ pending' \in BOOLEAN /\ failed' \in BOOLEAN
          /\ applied' \in BOOLEAN /\ others' \subseteq BOOLEAN /\ quiet' \in BOOLEAN
      BY ResendConstants DEF Page, OptOut, LoadPage, Toggle, PatchTopic, TopicCallEnds, TopicCallFails,
        OtherCall, OtherPatches, OtherEnds, contactVars, pageVars, Effective, Setting, LeftBehind
    <2> QED BY <1>1, <2>1 DEF rowVars, history
  <1>3. AttemptInv' /\ RaceInv' /\ AloneInv'
    BY <1>1 DEF rowVars, history, AttemptInv, RaceInv, AloneInv, ShowsNamesOf
  <1>4. SwitchInv'
    <2> USE DEF SwitchInv, SwitchTellsTruth, Effective, Setting
    <2>1. CASE OptOut BY <2>1 DEF OptOut, pageVars
    <2>2. CASE LoadPage BY <2>2 DEF LoadPage, contactVars
    <2>3. CASE Toggle BY <2>3 DEF Toggle, contactVars
    <2>4. CASE PatchTopic BY <2>4 DEF PatchTopic
    <2>5. CASE TopicCallEnds BY <2>5 DEF TopicCallEnds, contactVars
    <2>6. CASE TopicCallFails BY <2>6 DEF TopicCallFails, contactVars
    <2>7. CASE OtherCall BY <2>7 DEF OtherCall, contactVars
    <2>8. ASSUME NEW on \in BOOLEAN, OtherPatches(on) PROVE SwitchInv'
      BY <2>8 DEF OtherPatches, pageVars
    <2>9. ASSUME NEW on \in BOOLEAN, OtherEnds(on) PROVE SwitchInv'
      BY <2>9 DEF OtherEnds, contactVars
    <2> QED BY <2>1, <2>2, <2>3, <2>4, <2>5, <2>6, <2>7, <2>8, <2>9 DEF Page
  <1> QED BY <1>2, <1>3, <1>4

LEMMA SyncNextInv == SyncIInv /\ [SyncNext]_syncVars => SyncIInv'
  <1>1. SyncIInv /\ SyncNext => SyncIInv'
    BY HookStep, RowKeeps, CrashStep, UserStep DEF SyncNext, Sync
  <1>2. SyncIInv /\ UNCHANGED syncVars => SyncIInv'
    BY DEF syncVars, rowVars, contactVars, pageVars, history, SyncIInv, SyncTypeOK, AttemptInv, RaceInv,
      AloneInv, ShowsNamesOf, SwitchInv, SwitchTellsTruth, Effective, Setting
  <1> QED BY <1>1, <1>2

(* The inductive invariant of the syncs: their attempts, the race for the  *)
(* creation, who has Resend to itself, and the switch on the page.         *)
THEOREM SyncInductiveInvariant == SyncSpec => []SyncIInv
  BY SyncInitInv, SyncNextInv, PTL DEF SyncSpec

-----------------------------------------------------------------------------
(* A sync that failed met trouble of its own, never just the race for the  *)
(* creation.  A switch without an error shows what Resend has, unless the  *)
(* page was read, or used, while a call of another page was under way:     *)
(* a call of its own that is carried out after those makes it true again.  *)
THEOREM SyncsAreTruthful == SyncSpec => []SyncInv
  <1>1. SyncIInv => SyncInv BY DEF SyncIInv, RaceInv, RaceNeverFatal, SwitchInv, SyncInv
  <1> QED BY <1>1, SyncInductiveInvariant, PTL

(* Without a race the contact carries the last edit's names, except that a *)
(* name of one word leaves the last name of before.                        *)
THEOREM LastEditWins == SyncSpec => []LastEditShows
  <1>1. SyncIInv => LastEditShows
    <2> SUFFICES ASSUME SyncIInv, rev \in alone, status[rev] = "success"
                 PROVE  ShowsNamesOf(rev)
      BY DEF LastEditShows
    <2>1. rev \in Rev BY DEF SyncIInv, SyncTypeOK
    <2>2. rev \in logged BY <2>1 DEF SyncIInv, AttemptInv
    <2> QED BY <2>2 DEF SyncIInv, AloneInv
  <1> QED BY <1>1, SyncInductiveInvariant, PTL

(* No sync takes an opt-out back: only a creation subscribes, and there is *)
(* nothing to create where somebody has opted out.                         *)
THEOREM OptOutStands == SyncSpec => OptOutKept
  <1> DEFINE There == optedOut => firstName # 0
  <1>1. SyncInit => There BY DEF SyncInit
  <1>2. There /\ [SyncNext]_syncVars => There' /\ [optedOut => optedOut']_optedOut
    <2> SUFFICES ASSUME There, [SyncNext]_syncVars
                 PROVE  There' /\ [optedOut => optedOut']_optedOut
      OBVIOUS
    <2>1. ASSUME NEW s \in Rev, Post(s) \/ Patch(s)
          PROVE  There' /\ [optedOut => optedOut']_optedOut
      BY <2>1 DEF Post, Patch, Rev
    <2>2. ASSUME NEW s \in Rev, Sync(s) \/ Fault(s), ~Post(s), ~Patch(s)
          PROVE  UNCHANGED <<firstName, optedOut>>
      BY <2>2 DEF Sync, Enqueue, EnqueueFails, Claim, Upsert, Fault, Get, PostConflicts, Answer,
        Finish, Refuse, Unreachable, Abandon, contactVars
    <2>3. ASSUME Page PROVE UNCHANGED <<firstName, optedOut>>
      BY <2>3 DEF Page, LoadPage, Toggle, PatchTopic, TopicCallEnds, TopicCallFails, OtherCall,
        OtherPatches, OtherEnds, contactVars
    <2> QED BY <2>1, <2>2, <2>3 DEF SyncNext, syncVars, SaveUser, Crash, OptOut, contactVars
  <1> QED BY <1>1, <1>2, PTL DEF SyncSpec, OptOutKept
=============================================================================
