--------------------------- MODULE ListingProofs ----------------------------
(***************************************************************************)
(* Proofs about the two parts of the server that write to a listing:       *)
(* ListingPhotos, for any uploads, listings, limits and number of crashes, *)
(* and then ListingEdit.                                                   *)
(***************************************************************************)
EXTENDS ListingPhotos, ListingEdit, FiniteSetTheorems, WellFoundedInduction, TLAPS

(* ListingPhotos: three invariants that do not depend on each other: where *)
(* the objects of a photo are at each point of its handlers (ObjectInv),   *)
(* the rows of a listing (PlaceInv), and the chain of promises (ChainInv). *)

Before == {"idle", "received", "verified", "staged", "queued", "raw"}
Past   == {"stored", "undoBoth", "unlink"} \cup Ended

(* Nothing is stored before the lock; a row has both objects, its handler  *)
(* is through and nobody has deleted the photo.                            *)
ObjectInv ==
  /\ \A r \in rows : /\ r.photo \in raw \cap pub
                     /\ deletion[r.photo] = "none"
                     /\ pc[r.photo] \in {"unlink"} \cup Ended
  /\ \A u \in Upload :
       /\ pc[u] \in Before => u \notin raw \cup pub
       /\ pc[u] = "pub" => u \in raw \ pub
       /\ pc[u] = "undoRaw" /\ u \in pub => u \in givenUp
       /\ pc[u] = "stored" => u \in raw \cap pub
       /\ pc[u] \notin {"unlink"} \cup Ended => deletion[u] = "none"
  /\ NoSilentOrphans

PlaceInv == IsFiniteSet(rows) /\ (\E b \in Nat : \A r \in rows : r.order <= b)
              /\ PlacesKept

Waiting == {u \in Upload : pc[u] \in Unsettled}

(* The queue holds the unsettled promises, each chained to the one before  *)
(* it; the head is chained to a settled one, as the next to come will be   *)
(* if the queue is empty.  Only the head runs.                             *)
ChainInv ==
  /\ \A i \in 1..Len(queue) : queue[i] \in Waiting
  /\ \A u \in Waiting : \E i \in 1..Len(queue) : queue[i] = u
  /\ \A i, j \in 1..Len(queue) : queue[i] = queue[j] => i = j
  /\ \A i \in 2..Len(queue) : after[queue[i]] = queue[i-1]
  /\ queue # <<>> =>
       /\ after[queue[1]] # NoUpload => pc[after[queue[1]]] \in Past
       /\ queueTail = queue[Len(queue)]
  /\ queue = <<>> /\ queueTail # NoUpload => pc[queueTail] \in Past
  /\ \A u \in Upload : pc[u] \in Locked => queue # <<>> /\ u = queue[1]
  /\ IsFiniteSet(Waiting) /\ DepthCounts

IInv == TypeOK /\ ObjectInv /\ PlaceInv /\ ChainInv

-----------------------------------------------------------------------------
(* Numbers with a bound have a greatest.                                   *)
LEMMA HasGreatest ==
  ASSUME NEW S \in SUBSET Nat, S # {}, NEW b \in Nat, \A n \in S : n <= b
  PROVE  \E m \in S : \A n \in S : n <= m
  <1> DEFINE U == {n \in Nat : \A s \in S : s <= n}
  <1>1. U \subseteq Nat /\ U # {} OBVIOUS
  <1> HIDE DEF U
  <1>2. PICK m \in U : \A n \in U : <<n, m>> \notin OpToRel(<, Nat)
    BY <1>1, WFMin, NatLessThanWellFounded, Zenon
  <1>3. \A n \in U : <<n, m>> \in Nat \X Nat BY <1>1
  <1>4. \A n \in U : ~(<<n, m>>[1] < <<n, m>>[2])
    BY <1>2, <1>3, Zenon DEF OpToRel
  <1>5. m \in Nat /\ (\A s \in S : s <= m) BY DEF U
  <1>6. m # 0 => m - 1 \notin U BY <1>4, <1>5
  <1>7. m \in S
    <2> SUFFICES ASSUME m \notin S PROVE FALSE OBVIOUS
    <2>1. PICK s \in S : TRUE OBVIOUS
    <2>2. m # 0 BY <1>5, <2>1
    <2>3. m - 1 \in Nat /\ \A t \in S : t <= m - 1 BY <2>2, <1>5
    <2> QED BY <2>2, <2>3, <1>6 DEF U
  <1> QED BY <1>5, <1>7

(* The next order of a listing is above those it has.                      *)
LEMMA NextOrderIsNext ==
  ASSUME TypeOK, NEW l \in Listing, NEW b \in Nat, \A r \in rows : r.order <= b
  PROVE  NextOrder(l) \in Nat /\ \A r \in PhotosOf(l) : r.order < NextOrder(l)
  <1> DEFINE S == {r.order : r \in PhotosOf(l)}
  <1>1. \A r \in rows : r.order \in Nat BY DEF TypeOK, Row
  <1>2. PhotosOf(l) \subseteq rows BY DEF PhotosOf
  <1>3. CASE PhotosOf(l) = {} BY <1>3 DEF NextOrder
  <1>4. CASE PhotosOf(l) # {}
    <2>1. S \in SUBSET Nat /\ S # {} /\ (\A n \in S : n <= b) BY <1>1, <1>2, <1>4
    <2>2. \E m \in S : \A n \in S : n <= m BY <2>1, HasGreatest
    <2>3. \E m \in S : \A r \in PhotosOf(l) : r.order <= m BY <2>2
    <2> DEFINE top == CHOOSE m \in S : \A r \in PhotosOf(l) : r.order <= m
    <2>4. top \in S /\ \A r \in PhotosOf(l) : r.order <= top BY <2>3
    <2>5. NextOrder(l) = 1 + top BY <1>4 DEF NextOrder
    <2>6. top \in Nat BY <2>1, <2>4
    <2> HIDE DEF top
    <2> QED BY <2>4, <2>5, <2>6, <1>1, <1>2
  <1> QED BY <1>3, <1>4

LEMMA InitInv == Init => IInv
  <1> SUFFICES ASSUME Init PROVE IInv OBVIOUS
  <1>1. TypeOK BY DEF Init, TypeOK
  <1>2. ObjectInv BY DEF Init, ObjectInv, NoSilentOrphans, Before, Ended
  <1>3. PlaceInv
    <2>1. \A l \in Listing : PhotosOf(l) = {} BY DEF Init, PhotosOf
    <2>2. rows = {} BY DEF Init
    <2>3. PhotosLimited BY <2>1, FS_EmptySet, PhotoConstants DEF PhotosLimited
    <2>4. OrdersDistinct BY <2>2 DEF OrdersDistinct
    <2> QED BY <2>2, <2>3, <2>4, FS_EmptySet DEF PlaceInv, PlacesKept
  <1>4. Waiting = {} BY DEF Init, Waiting, Unsettled, Locked
  <1>5. ChainInv
    <2>1. DepthCounts BY <1>4, FS_EmptySet, PhotoConstants DEF Init, DepthCounts, Waiting
    <2>2. queue = <<>> /\ Len(queue) = 0 BY DEF Init
    <2>3. \A u \in Upload : pc[u] \notin Locked BY DEF Init, Locked
    <2>4. queueTail = NoUpload BY DEF Init
    <2> QED BY <1>4, <2>1, <2>2, <2>3, <2>4, FS_EmptySet DEF ChainInv
  <1> QED BY <1>1, <1>2, <1>3, <1>5 DEF IInv

-----------------------------------------------------------------------------
LEMMA TypeStep == IInv /\ [Next]_vars => TypeOK'
  <1> SUFFICES ASSUME IInv, [Next]_vars PROVE TypeOK' OBVIOUS
  <1> USE DEF IInv, TypeOK
  <1>1. ASSUME NEW u \in Upload, Receive(u) \/ VerifyOwner(u) \/ Stage(u) \/ Reject(u)
        PROVE  TypeOK'
    BY <1>1 DEF Receive, VerifyOwner, Stage, Reject, Goes, durable, lock, Running, Ended,
      Unsettled, Locked
  <1>2. ASSUME NEW u \in Upload, Enqueue(u) PROVE TypeOK'
    <2>1. queue' \in Seq(Upload) BY <1>2 DEF Enqueue
    <2>2. queueDepth' \in Nat BY <1>2 DEF Enqueue
    <2> QED BY <1>2, <2>1, <2>2 DEF Enqueue, Goes, durable, Running, Ended, Unsettled, Locked
  <1>3. ASSUME NEW u \in Upload, Acquire(u) \/ StoreRaw(u) \/ PubFails(u) \/ InsertFails(u)
        PROVE  TypeOK'
    BY <1>3 DEF Acquire, StoreRaw, PubFails, InsertFails, Goes, durable, lock, Running, Ended,
      Unsettled, Locked
  <1>4. ASSUME NEW u \in Upload, RawFails(u) \/ StorePub(u) \/ UndoRaw(u)
        PROVE  TypeOK'
    <2>1. Release /\ pc[u] \in Locked BY <1>4 DEF RawFails, StorePub, UndoRaw, Goes, Locked
    <2>2. u \in Waiting BY <2>1 DEF Waiting, Unsettled
    <2>3. queue # <<>> BY <2>2 DEF ChainInv
    <2>4. queue' \in Seq(Upload) BY <2>1, <2>3 DEF Release
    <2>5. queueDepth' \in Nat
      <3>1. IsFiniteSet(Waiting) /\ queueDepth = Cardinality(Waiting)
        BY DEF ChainInv, DepthCounts, Waiting
      <3>2. queueDepth # 0 BY <2>2, <3>1, FS_EmptySet
      <3> QED BY <2>1, <3>2 DEF Release
    <2> QED BY <1>4, <2>4, <2>5 DEF RawFails, StorePub, UndoRaw, Release, Goes, Running,
      Ended, Unsettled, Locked
  <1>5. ASSUME NEW u \in Upload, InsertRow(u) PROVE TypeOK'
    <2>1. target[u] \in Listing OBVIOUS
    <2>2. NextOrder(target[u]) \in Nat BY <2>1, NextOrderIsNext DEF PlaceInv
    <2>3. rows' \subseteq Row BY <1>5, <2>1, <2>2 DEF InsertRow, Row
    <2> QED BY <1>5, <2>3 DEF InsertRow, Goes, lock, Running, Ended, Unsettled, Locked
  <1>6. ASSUME NEW u \in Upload, UndoBoth(u) PROVE TypeOK'
    BY <1>6 DEF UndoBoth, DeleteObjects, Goes, lock, Running, Ended, Unsettled, Locked
  <1>7. ASSUME NEW u \in Upload, Unlink(u) PROVE TypeOK'
    BY <1>7 DEF Unlink, Goes, lock, Running, Ended, Unsettled, Locked
  <1>8. ASSUME NEW p \in Upload, DeleteRow(p) PROVE TypeOK'
    BY <1>8 DEF DeleteRow, lock
  <1>9. ASSUME NEW p \in Upload, RemoveStored(p) PROVE TypeOK'
    BY <1>9 DEF RemoveStored, DeleteObjects, lock
  <1>10. CASE Crash
    BY <1>10 DEF Crash, durable, Running, Ended, Unsettled, Locked
  <1>11. CASE UNCHANGED vars BY <1>11 DEF vars, durable, lock
  <1> QED BY <1>1, <1>2, <1>3, <1>4, <1>5, <1>6, <1>7, <1>8, <1>9, <1>10, <1>11
    DEF Next, Handle

-----------------------------------------------------------------------------
(* Objects.  What holds of a photo depends on its own state alone.         *)
Objects(p) ==
  LET hasRow == \E r \in rows : r.photo = p
      through == pc[p] \in {"unlink"} \cup Ended
  IN /\ hasRow => p \in raw \cap pub /\ deletion[p] = "none" /\ through
     /\ pc[p] \in Before => p \notin raw \cup pub
     /\ pc[p] = "pub" => p \in raw \ pub
     /\ pc[p] = "undoRaw" /\ p \in pub => p \in givenUp
     /\ pc[p] = "stored" => p \in raw \cap pub
     /\ ~through => deletion[p] = "none"
     /\ p \in raw \cup pub =>
          \/ hasRow \/ p \in givenUp
          \/ pc[p] \in {"pub", "undoRaw", "stored", "undoBoth", "lost"}
          \/ deletion[p] \in {"rowGone", "lost"}

LEMMA ObjectsOfEach ==
  ASSUME TypeOK PROVE ObjectInv <=> \A p \in Upload : Objects(p)
  <1>1. \A r \in rows : r.photo \in Upload BY DEF TypeOK, Row
  <1>2. raw \cup pub \subseteq Upload BY DEF TypeOK
  <1> QED BY <1>1, <1>2 DEF ObjectInv, Objects, NoSilentOrphans

(* A step leaves alone the photos whose state it does not touch.           *)
LEMMA OthersKept ==
  ASSUME NEW p, Objects(p),
         pc'[p] = pc[p] \/ (pc[p] \in Running /\ pc'[p] = "lost"),
         (p \in raw') <=> (p \in raw), (p \in pub') <=> (p \in pub),
         p \in givenUp => p \in givenUp',
         deletion'[p] = deletion[p] \/ (deletion[p] = "rowGone" /\ deletion'[p] = "lost"),
         (\E r \in rows' : r.photo = p) <=> (\E r \in rows : r.photo = p)
  PROVE  Objects(p)'
  BY DEF Objects, Before, Ended, Running, Unsettled, Locked

LEMMA ObjectStep == IInv /\ [Next]_vars => ObjectInv'
  <1> SUFFICES ASSUME IInv, [Next]_vars PROVE ObjectInv' OBVIOUS
  <1>1. TypeOK' BY TypeStep
  <1>2. \A p \in Upload : Objects(p) BY ObjectsOfEach DEF IInv
  <1>3. (\A p \in Upload : Objects(p)') => ObjectInv'
    <2>1. \A r \in rows' : r.photo \in Upload BY <1>1 DEF TypeOK, Row
    <2>2. raw' \cup pub' \subseteq Upload BY <1>1 DEF TypeOK
    <2> QED BY <2>1, <2>2 DEF ObjectInv, Objects, NoSilentOrphans
  <1> SUFFICES ASSUME NEW p \in Upload PROVE Objects(p)' BY <1>3
  <1>4. Objects(p) BY <1>2
  <1> USE DEF TypeOK, IInv
  <1>5. ASSUME NEW u \in Upload, Handle(u) \/ Receive(u), p # u PROVE Objects(p)'
    <2>1. pc'[p] = pc[p]
      BY <1>5 DEF Handle, Receive, VerifyOwner, Stage, Reject, Enqueue, Acquire, StoreRaw,
        RawFails, StorePub, PubFails, UndoRaw, InsertRow, InsertFails, UndoBoth, Unlink, Goes
    <2>2. (p \in raw') <=> (p \in raw)
      BY <1>5 DEF Handle, Receive, VerifyOwner, Stage, Reject, Enqueue, Acquire, StoreRaw,
        RawFails, StorePub, PubFails, UndoRaw, InsertRow, InsertFails, UndoBoth, Unlink,
        DeleteObjects, durable
    <2>3. (p \in pub') <=> (p \in pub)
      BY <1>5 DEF Handle, Receive, VerifyOwner, Stage, Reject, Enqueue, Acquire, StoreRaw,
        RawFails, StorePub, PubFails, UndoRaw, InsertRow, InsertFails, UndoBoth, Unlink,
        DeleteObjects, durable
    <2>4. p \in givenUp => p \in givenUp'
      BY <1>5 DEF Handle, Receive, VerifyOwner, Stage, Reject, Enqueue, Acquire, StoreRaw,
        RawFails, StorePub, PubFails, UndoRaw, InsertRow, InsertFails, UndoBoth, Unlink,
        DeleteObjects
    <2>5. deletion' = deletion
      BY <1>5 DEF Handle, Receive, VerifyOwner, Stage, Reject, Enqueue, Acquire, StoreRaw,
        RawFails, StorePub, PubFails, UndoRaw, InsertRow, InsertFails, UndoBoth, Unlink
    <2>6. (\E r \in rows' : r.photo = p) <=> (\E r \in rows : r.photo = p)
      <3>1. CASE InsertRow(u)
        <4>1. PICK n : rows' = rows \cup {[photo |-> u, listing |-> target[u], order |-> n]}
          BY <3>1 DEF InsertRow
        <4> QED BY <4>1, <1>5
      <3>2. CASE ~InsertRow(u)
        <4>1. rows' = rows
          BY <1>5, <3>2 DEF Handle, Receive, VerifyOwner, Stage, Reject, Enqueue, Acquire,
            StoreRaw, RawFails, StorePub, PubFails, UndoRaw, InsertFails, UndoBoth, Unlink,
            durable
        <4> QED BY <4>1
      <3> QED BY <3>1, <3>2
    <2> QED BY <1>4, <2>1, <2>2, <2>3, <2>4, <2>5, <2>6, OthersKept
  <1>6. ASSUME Handle(p) \/ Receive(p) PROVE Objects(p)'
    <2>1. CASE Receive(p) \/ VerifyOwner(p) \/ Stage(p) \/ Reject(p) \/ Enqueue(p) \/ Acquire(p)
      BY <1>4, <2>1 DEF Receive, VerifyOwner, Stage, Reject, Enqueue, Acquire, Goes, Objects,
        Before, Ended, durable
    <2>2. CASE StoreRaw(p) \/ RawFails(p)
      BY <1>4, <2>2 DEF StoreRaw, RawFails, Goes, Objects, Before, Ended
    <2>3. CASE StorePub(p) \/ PubFails(p)
      BY <1>4, <2>3 DEF StorePub, PubFails, Goes, Objects, Before, Ended
    <2>4. CASE UndoRaw(p) \/ InsertFails(p)
      BY <1>4, <2>4 DEF UndoRaw, InsertFails, Goes, Objects, Before, Ended, durable
    <2>5. CASE InsertRow(p)
      <3> DEFINE new == [photo |-> p, listing |-> target[p], order |-> NextOrder(target[p])]
      <3>1. new \in rows' /\ new.photo = p BY <2>5 DEF InsertRow
      <3> HIDE DEF new
      <3>2. \E r \in rows' : r.photo = p BY <3>1
      <3> QED BY <1>4, <2>5, <3>2 DEF InsertRow, Goes, Objects, Before, Ended
    <2>6. CASE UndoBoth(p)
      BY <1>4, <2>6 DEF UndoBoth, DeleteObjects, Goes, Objects, Before, Ended
    <2>7. CASE Unlink(p)
      BY <1>4, <2>7 DEF Unlink, Goes, Objects, Before, Ended
    <2> QED BY <1>6, <2>1, <2>2, <2>3, <2>4, <2>5, <2>6, <2>7 DEF Handle
  <1>7. ASSUME NEW q \in Upload, DeleteRow(q) PROVE Objects(p)'
    <2>1. CASE p = q
      <3>1. ~\E r \in rows' : r.photo = p BY <1>7, <2>1 DEF DeleteRow
      <3>2. \E r \in rows : r.photo = p BY <1>7, <2>1 DEF DeleteRow
      <3> QED BY <1>4, <1>7, <2>1, <3>1, <3>2 DEF DeleteRow, Objects, Before, Ended
    <2>2. CASE p # q
      <3>1. (\E r \in rows' : r.photo = p) <=> (\E r \in rows : r.photo = p)
        BY <1>7, <2>2 DEF DeleteRow
      <3> QED BY <1>4, <1>7, <2>2, <3>1, OthersKept DEF DeleteRow
    <2> QED BY <2>1, <2>2
  <1>8. ASSUME NEW q \in Upload, RemoveStored(q) PROVE Objects(p)'
    <2>1. CASE p = q
      BY <1>4, <1>8, <2>1 DEF RemoveStored, DeleteObjects, Objects, Before, Ended
    <2>2. CASE p # q
      BY <1>4, <1>8, <2>2, OthersKept DEF RemoveStored, DeleteObjects
    <2> QED BY <2>1, <2>2
  <1>9. CASE Crash
    BY <1>4, <1>9, OthersKept DEF Crash, durable
  <1>10. CASE UNCHANGED vars
    BY <1>4, <1>10, OthersKept DEF vars, durable
  <1> QED BY <1>5, <1>6, <1>7, <1>8, <1>9, <1>10 DEF Next

-----------------------------------------------------------------------------
(* Rows.                                                                   *)
LEMMA PlaceStep == IInv /\ [Next]_vars => PlaceInv'
  <1> SUFFICES ASSUME IInv, [Next]_vars PROVE PlaceInv' OBVIOUS
  <1> USE DEF IInv
  <1>1. ASSUME NEW u \in Upload, InsertRow(u) PROVE PlaceInv'
    <2> DEFINE l == target[u]
               n == NextOrder(l)
               new == [photo |-> u, listing |-> l, order |-> n]
    <2>1. l \in Listing BY DEF TypeOK
    <2>2. PICK b \in Nat : \A r \in rows : r.order <= b BY DEF PlaceInv
    <2>3. n \in Nat /\ \A r \in PhotosOf(l) : r.order < n BY <2>1, <2>2, NextOrderIsNext
    <2>4. rows' = rows \cup {new} BY <1>1 DEF InsertRow
    <2>5. IsFiniteSet(rows') BY <2>4, FS_AddElement DEF PlaceInv
    <2>6. \A r \in rows : r.order \in Nat BY DEF TypeOK, Row
    <2>7. \E c \in Nat : \A r \in rows' : r.order <= c
      <3> DEFINE c == b + n
      <3>1. c \in Nat BY <2>3
      <3>2. \A r \in rows' : r.order <= c BY <2>2, <2>3, <2>4, <2>6
      <3> QED BY <3>1, <3>2
    <2>8. PhotosLimited'
      <3> SUFFICES ASSUME NEW k \in Listing PROVE Cardinality(PhotosOf(k)') <= MaxPhotos
        BY DEF PhotosLimited
      <3>1. CASE k = l
        <4>1. PhotosOf(k)' = PhotosOf(l) \cup {new} BY <2>4, <3>1 DEF PhotosOf
        <4>2. IsFiniteSet(PhotosOf(l)) BY FS_Subset DEF PlaceInv, PhotosOf
        <4>3. Cardinality(PhotosOf(l)) < MaxPhotos BY <1>1 DEF InsertRow, HasRoom
        <4>4. Cardinality(PhotosOf(l)) \in Nat BY <4>2, FS_CardinalityType
        <4> HIDE DEF new
        <4>5. Cardinality(PhotosOf(l) \cup {new})
                \in {Cardinality(PhotosOf(l)), Cardinality(PhotosOf(l)) + 1}
          BY <4>2, FS_AddElement
        <4> DEFINE before == Cardinality(PhotosOf(l))
                   now == Cardinality(PhotosOf(k)')
        <4>6. before \in Nat /\ before < MaxPhotos /\ now \in {before, before + 1}
          BY <4>1, <4>3, <4>4, <4>5
        <4> HIDE DEF before, now
        <4>7. now <= MaxPhotos BY <4>6, PhotoConstants
        <4> QED BY <4>7 DEF now
      <3>2. CASE k # l
        <4>1. PhotosOf(k)' = PhotosOf(k) BY <2>4, <3>2 DEF PhotosOf
        <4> QED BY <4>1 DEF PlaceInv, PlacesKept, PhotosLimited
      <3> QED BY <3>1, <3>2
    <2>9. OrdersDistinct'
      <3>1. \A r \in rows : r.listing = l => r.order < n BY <2>3 DEF PhotosOf
      <3>2. \A r \in rows : r.listing = l => r.order # n BY <3>1, <2>3, <2>6
      <3>3. new.listing = l /\ new.order = n OBVIOUS
      <3> HIDE DEF new, n, l
      <3> QED BY <3>2, <3>3, <2>4 DEF OrdersDistinct, PlaceInv, PlacesKept
    <2> QED BY <2>5, <2>7, <2>8, <2>9 DEF PlaceInv, PlacesKept
  <1>2. CASE rows' \subseteq rows
    <2>1. IsFiniteSet(rows') BY <1>2, FS_Subset DEF PlaceInv
    <2>2. \A l \in Listing : Cardinality(PhotosOf(l)') <= MaxPhotos
      <3> SUFFICES ASSUME NEW l \in Listing PROVE Cardinality(PhotosOf(l)') <= MaxPhotos
        OBVIOUS
      <3>1. PhotosOf(l)' \in SUBSET PhotosOf(l) BY <1>2 DEF PhotosOf
      <3>2. IsFiniteSet(PhotosOf(l)) BY FS_Subset DEF PlaceInv, PhotosOf
      <3>3. /\ IsFiniteSet(PhotosOf(l)')
            /\ Cardinality(PhotosOf(l)') <= Cardinality(PhotosOf(l))
        BY <3>1, <3>2, FS_Subset
      <3>4. Cardinality(PhotosOf(l)) <= MaxPhotos BY DEF PlaceInv, PlacesKept, PhotosLimited
      <3>5. Cardinality(PhotosOf(l)) \in Nat /\ Cardinality(PhotosOf(l)') \in Nat
        BY <3>2, <3>3, FS_CardinalityType
      <3> QED BY <3>3, <3>4, <3>5, PhotoConstants
    <2>3. \E b \in Nat : \A r \in rows' : r.order <= b BY <1>2 DEF PlaceInv
    <2>4. OrdersDistinct' BY <1>2 DEF PlaceInv, PlacesKept, OrdersDistinct
    <2> QED BY <2>1, <2>2, <2>3, <2>4 DEF PlaceInv, PlacesKept, PhotosLimited
  <1>3. rows' \subseteq rows \/ \E u \in Upload : InsertRow(u)
    BY DEF Next, Handle, Receive, VerifyOwner, Stage, Reject, Enqueue, Acquire, StoreRaw,
      RawFails, StorePub, PubFails, UndoRaw, InsertFails, UndoBoth, Unlink, DeleteRow,
      RemoveStored, Crash, vars, durable
  <1> QED BY <1>1, <1>2, <1>3

-----------------------------------------------------------------------------
(* The lock.  Uploads that move before, within or after it leave the chain *)
(* alone.                                                                  *)
LEMMA ChainKept ==
  ASSUME TypeOK, ChainInv, UNCHANGED lock,
         \A v \in Upload : pc'[v] \in Unsettled <=> pc[v] \in Unsettled,
         \A v \in Upload : pc[v] \in Past => pc'[v] \in Past,
         \A v \in Upload : pc'[v] \in Locked => queue # <<>> /\ v = queue[1]
  PROVE  ChainInv'
  <1>1. after' = after /\ queueTail' = queueTail /\ queueDepth' = queueDepth /\ queue' = queue
    BY DEF lock
  <1>2. Waiting' = Waiting BY DEF Waiting
  <1>3. DepthCounts' BY <1>1, <1>2 DEF DepthCounts, ChainInv, Waiting
  <1>4. queue # <<>> => Len(queue) # 0 /\ queue[1] \in Upload BY DEF TypeOK
  <1>5. queue # <<>> /\ after[queue[1]] # NoUpload => pc'[after[queue[1]]] \in Past
    BY <1>4 DEF ChainInv, TypeOK
  <1>6. queue = <<>> /\ queueTail # NoUpload => pc'[queueTail] \in Past
    BY DEF ChainInv, TypeOK
  <1> QED BY <1>1, <1>2, <1>3, <1>5, <1>6 DEF ChainInv

LEMMA Enqueued ==
  ASSUME TypeOK, ChainInv, NEW u \in Upload, Enqueue(u)
  PROVE  ChainInv'
  <1> DEFINE n == Len(queue)
  <1>1. n \in Nat /\ queue' = Append(queue, u) /\ Len(queue') = n + 1 /\ queue' # <<>>
    BY DEF Enqueue, TypeOK
  <1>2. queue'[n + 1] = u /\ \A i \in 1..n : queue'[i] = queue[i]
    BY DEF Enqueue, TypeOK
  <1>3. pc' = [pc EXCEPT ![u] = "queued"] /\ pc[u] = "staged" BY DEF Enqueue, Goes
  <1>4. Waiting' = Waiting \cup {u} BY <1>3 DEF Waiting, Unsettled, TypeOK
  <1>5. u \notin Waiting /\ pc[u] \notin Past /\ pc[u] \notin Locked
    BY <1>3 DEF Waiting, Unsettled, Locked, Past, Ended
  <1>6. /\ after' = [after EXCEPT ![u] = queueTail] /\ queueTail' = u
        /\ queueDepth' = queueDepth + 1 /\ queueDepth < MaxQueueDepth
    BY DEF Enqueue
  <1>7. \A i \in 1..n : queue[i] \in Waiting /\ queue[i] # u /\ queue[i] \in Upload
    BY <1>5 DEF ChainInv, Waiting
  <1> HIDE DEF n
  <1>8. \A i \in 1..Len(queue') : queue'[i] \in Waiting'
    BY <1>1, <1>2, <1>4, <1>7
  <1>9. \A v \in Waiting' : \E i \in 1..Len(queue') : queue'[i] = v
    <2> SUFFICES ASSUME NEW v \in Waiting' PROVE \E i \in 1..Len(queue') : queue'[i] = v
      OBVIOUS
    <2>1. CASE v = u BY <2>1, <1>1, <1>2
    <2>2. CASE v # u
      <3>1. PICK i \in 1..n : queue[i] = v BY <2>2, <1>4 DEF ChainInv, n
      <3> QED BY <3>1, <1>1, <1>2
    <2> QED BY <2>1, <2>2
  <1>10. \A i, j \in 1..Len(queue') : queue'[i] = queue'[j] => i = j
    <2>1. \A i, j \in 1..n : queue[i] = queue[j] => i = j BY DEF ChainInv, n
    <2> QED BY <2>1, <1>1, <1>2, <1>7
  <1>11. \A i \in 2..Len(queue') : after'[queue'[i]] = queue'[i-1]
    <2> SUFFICES ASSUME NEW i \in 2..(n + 1) PROVE after'[queue'[i]] = queue'[i-1]
      BY <1>1
    <2>1. CASE i = n + 1
      <3>1. queue # <<>> BY <2>1, <1>1 DEF n
      <3>2. queueTail = queue[n] /\ n # 0 BY <3>1, <1>1, <2>1 DEF ChainInv, n
      <3> QED BY <2>1, <3>2, <1>1, <1>2, <1>6 DEF TypeOK
    <2>2. CASE i # n + 1
      <3>1. i \in 2..n /\ i \in 1..n /\ i - 1 \in 1..n BY <2>2, <1>1
      <3>2. after[queue[i]] = queue[i-1] BY <3>1 DEF ChainInv, n
      <3> QED BY <3>1, <3>2, <1>2, <1>6, <1>7 DEF TypeOK
    <2> QED BY <2>1, <2>2
  <1>12. after'[queue'[1]] # NoUpload => pc'[after'[queue'[1]]] \in Past
    <2>1. CASE n = 0
      <3>1. queue = <<>> BY <2>1 DEF n, TypeOK
      <3>2. queue'[1] = u /\ after'[u] = queueTail BY <2>1, <1>2, <1>6 DEF TypeOK
      <3>3. queueTail # NoUpload => pc[queueTail] \in Past /\ queueTail # u
        BY <3>1, <1>5 DEF ChainInv
      <3> QED BY <3>2, <3>3, <1>3 DEF TypeOK
    <2>2. CASE n # 0
      <3>1. queue # <<>> /\ 1 \in 1..n BY <2>2, <1>1 DEF n
      <3>2. queue'[1] = queue[1] /\ after'[queue[1]] = after[queue[1]]
        BY <3>1, <1>2, <1>6, <1>7 DEF TypeOK
      <3>3. after[queue[1]] # NoUpload => pc[after[queue[1]]] \in Past
        BY <3>1 DEF ChainInv
      <3> QED BY <3>1, <3>2, <3>3, <1>3, <1>5, <1>7 DEF TypeOK
    <2> QED BY <2>1, <2>2
  <1>13. queueTail' = queue'[Len(queue')] BY <1>1, <1>2, <1>6
  <1>14. \A v \in Upload : pc'[v] \in Locked => v = queue'[1]
    <2> SUFFICES ASSUME NEW v \in Upload, pc'[v] \in Locked PROVE v = queue'[1]
      OBVIOUS
    <2>1. v # u /\ pc[v] \in Locked BY <1>3 DEF Locked, TypeOK
    <2>2. queue # <<>> /\ v = queue[1] BY <2>1 DEF ChainInv
    <2>3. 1 \in 1..n BY <2>2, <1>1 DEF n, TypeOK
    <2> QED BY <2>2, <2>3, <1>2
  <1>15. IsFiniteSet(Waiting') /\ DepthCounts'
    <2>1. /\ IsFiniteSet(Waiting) /\ queueDepth = Cardinality(Waiting)
          /\ queueDepth <= MaxQueueDepth
      BY DEF ChainInv, DepthCounts, Waiting
    <2>2. IsFiniteSet(Waiting') /\ Cardinality(Waiting') = Cardinality(Waiting) + 1
      BY <2>1, <1>4, <1>5, FS_AddElement
    <2>3. queueDepth' <= MaxQueueDepth BY <1>6, PhotoConstants DEF TypeOK
    <2> QED BY <2>1, <2>2, <2>3, <1>6 DEF DepthCounts, Waiting
  <1> QED BY <1>1, <1>8, <1>9, <1>10, <1>11, <1>12, <1>13, <1>14, <1>15 DEF ChainInv

LEMMA Released ==
  ASSUME TypeOK, ChainInv, NEW u \in Upload, RawFails(u) \/ StorePub(u) \/ UndoRaw(u)
  PROVE  ChainInv'
  <1> DEFINE n == Len(queue)
  <1>1. pc[u] \in Locked /\ Release BY DEF RawFails, StorePub, UndoRaw, Goes, Locked
  <1>2. PICK to \in {"unlink", "stored"} : pc' = [pc EXCEPT ![u] = to]
    BY DEF RawFails, StorePub, UndoRaw, Goes
  <1>3. queue # <<>> /\ u = queue[1] BY <1>1 DEF ChainInv
  <1>4. n \in Nat /\ n # 0 BY <1>3 DEF TypeOK
  <1>5. /\ queue' = Tail(queue) /\ Len(queue') = n - 1
        /\ \A i \in 1..(n - 1) : queue'[i] = queue[i + 1]
    BY <1>1, <1>3, <1>4 DEF Release, TypeOK
  <1>6. /\ after' = after /\ queueTail' = queueTail /\ queueDepth' = queueDepth - 1
    BY <1>1 DEF Release
  <1>7. Waiting' = Waiting \ {u} BY <1>2 DEF Waiting, Unsettled, Locked, TypeOK
  <1>8. pc'[u] \in Past /\ \A v \in Upload \ {u} : pc'[v] = pc[v]
    BY <1>2 DEF Past, TypeOK
  <1>9. \A i, j \in 1..n : queue[i] = queue[j] => i = j BY DEF ChainInv
  <1>10. \A i \in 1..n : queue[i] \in Waiting BY DEF ChainInv
  <1>11. u \in Waiting BY <1>1 DEF Waiting, Unsettled
  <1>12. queueTail = queue[n] BY <1>3 DEF ChainInv
  <1>13. \A v \in Waiting : \E i \in 1..n : queue[i] = v BY DEF ChainInv
  <1>14. \A i \in 2..n : after[queue[i]] = queue[i-1] BY DEF ChainInv
  <1> HIDE DEF n
  <1>15. \A i \in 1..Len(queue') : queue'[i] \in Waiting'
    <2> SUFFICES ASSUME NEW i \in 1..(n - 1) PROVE queue'[i] \in Waiting' BY <1>5
    <2>1. i + 1 \in 1..n /\ 1 \in 1..n /\ i + 1 # 1 BY <1>4
    <2>2. queue[i + 1] \in Waiting /\ queue[i + 1] # u BY <2>1, <1>3, <1>9, <1>10
    <2> QED BY <2>2, <1>5, <1>7
  <1>16. \A v \in Waiting' : \E i \in 1..Len(queue') : queue'[i] = v
    <2> SUFFICES ASSUME NEW v \in Waiting' PROVE \E i \in 1..(n - 1) : queue'[i] = v
      BY <1>5
    <2>1. PICK j \in 1..n : queue[j] = v BY <1>7, <1>13
    <2>2. j # 1 BY <2>1, <1>3, <1>7
    <2>3. j - 1 \in 1..(n - 1) /\ (j - 1) + 1 = j BY <2>2, <1>4
    <2> QED BY <2>1, <2>3, <1>5
  <1>17. \A i, j \in 1..Len(queue') : queue'[i] = queue'[j] => i = j
    <2> SUFFICES ASSUME NEW i \in 1..(n - 1), NEW j \in 1..(n - 1), queue'[i] = queue'[j]
                 PROVE  i = j
      BY <1>5
    <2>1. i + 1 \in 1..n /\ j + 1 \in 1..n BY <1>4
    <2>2. i + 1 = j + 1 BY <2>1, <1>5, <1>9
    <2> QED BY <2>2
  <1>18. \A i \in 2..Len(queue') : after'[queue'[i]] = queue'[i-1]
    <2> SUFFICES ASSUME NEW i \in 2..(n - 1) PROVE after'[queue'[i]] = queue'[i-1]
      BY <1>5
    <2>1. i \in 1..(n - 1) /\ i - 1 \in 1..(n - 1) /\ i + 1 \in 2..n BY <1>4
    <2>2. queue'[i] = queue[i + 1] /\ queue'[i-1] = queue[(i - 1) + 1] BY <2>1, <1>5
    <2>3. (i - 1) + 1 = i /\ (i + 1) - 1 = i OBVIOUS
    <2>4. after[queue[i + 1]] = queue[i] BY <2>1, <2>3, <1>14
    <2> QED BY <2>2, <2>3, <2>4, <1>6
  <1>19. queue' # <<>> => /\ pc'[after'[queue'[1]]] \in Past
                         /\ queueTail' = queue'[Len(queue')]
    <2> SUFFICES ASSUME queue' # <<>>
                 PROVE  pc'[after'[queue'[1]]] \in Past /\ queueTail' = queue'[Len(queue')]
      OBVIOUS
    <2>1. n # 1
      <3> SUFFICES ASSUME n = 1 PROVE FALSE OBVIOUS
      <3>1. queue' \in Seq(Upload) BY <1>3, <1>5 DEF TypeOK
      <3>2. Len(queue') = 0 BY <1>5
      <3> QED BY <3>1, <3>2
    <2>2. 1 \in 1..(n - 1) /\ n - 1 \in 1..(n - 1) /\ 2 \in 2..n BY <2>1, <1>4
    <2>3. queue'[1] = queue[1 + 1] /\ queue'[n - 1] = queue[(n - 1) + 1] BY <2>2, <1>5
    <2>4. 1 + 1 = 2 /\ (n - 1) + 1 = n /\ 2 - 1 = 1 BY <1>4
    <2>5. after[queue[2]] = queue[1] BY <2>2, <2>4, <1>14
    <2> QED BY <2>3, <2>4, <2>5, <1>3, <1>5, <1>6, <1>8, <1>12
  <1>20. queue' = <<>> => pc'[queueTail'] \in Past
    <2> SUFFICES ASSUME queue' = <<>> PROVE pc'[queueTail'] \in Past OBVIOUS
    <2>1. Len(queue') = 0 OBVIOUS
    <2>2. n = 1 BY <2>1, <1>4, <1>5
    <2> QED BY <2>2, <1>3, <1>6, <1>8, <1>12
  <1>21. \A v \in Upload : pc'[v] \notin Locked
    BY <1>2, <1>3, <1>8 DEF ChainInv, Locked, Past, Ended
  <1>22. IsFiniteSet(Waiting') /\ DepthCounts'
    <2>1. /\ IsFiniteSet(Waiting) /\ queueDepth = Cardinality(Waiting)
          /\ queueDepth <= MaxQueueDepth
      BY DEF ChainInv, DepthCounts, Waiting
    <2>2. IsFiniteSet(Waiting') /\ Cardinality(Waiting') = Cardinality(Waiting) - 1
      BY <2>1, <1>7, <1>11, FS_RemoveElement
    <2>3. queueDepth' <= MaxQueueDepth BY <2>1, <1>6, PhotoConstants DEF TypeOK
    <2> QED BY <2>1, <2>2, <2>3, <1>6 DEF DepthCounts, Waiting
  <1> QED BY <1>15, <1>16, <1>17, <1>18, <1>19, <1>20, <1>21, <1>22 DEF ChainInv

(* Of the uploads that wait only the head may run.                         *)
LEMMA HeadRuns ==
  ASSUME TypeOK, ChainInv, NEW u \in Waiting
  PROVE  queue # <<>> /\ (MayRun(u) <=> u = queue[1])
  <1>1. PICK i \in 1..Len(queue) : queue[i] = u BY DEF ChainInv
  <1>2. queue # <<>> BY <1>1
  <1>3. ASSUME MayRun(u), i # 1 PROVE FALSE
    <2>1. i \in 2..Len(queue) /\ i - 1 \in 1..Len(queue) BY <1>1, <1>3 DEF TypeOK
    <2>2. after[u] = queue[i-1] /\ queue[i-1] \in Waiting BY <1>1, <2>1 DEF ChainInv
    <2> QED BY <1>3, <2>2, PhotoConstants DEF MayRun, Waiting
  <1>4. ASSUME u = queue[1] PROVE MayRun(u)
    BY <1>2, <1>4 DEF ChainInv, MayRun, Past, Ended, Unsettled, Locked
  <1> QED BY <1>1, <1>2, <1>3, <1>4

LEMMA ChainStep == IInv /\ [Next]_vars => ChainInv'
  <1> SUFFICES ASSUME IInv, [Next]_vars PROVE ChainInv' OBVIOUS
  <1> USE DEF IInv
  <1>1. ASSUME NEW u \in Upload, Enqueue(u) PROVE ChainInv' BY <1>1, Enqueued
  <1>2. ASSUME NEW u \in Upload, RawFails(u) \/ StorePub(u) \/ UndoRaw(u) PROVE ChainInv'
    BY <1>2, Released
  <1>3. ASSUME NEW u \in Upload, Acquire(u) PROVE ChainInv'
    <2>1. UNCHANGED lock /\ MayRun(u) /\ pc[u] = "queued" /\ pc' = [pc EXCEPT ![u] = "raw"]
      BY <1>3 DEF Acquire, Goes
    <2>2. u \in Waiting BY <2>1 DEF Waiting, Unsettled
    <2>3. queue # <<>> /\ u = queue[1] BY <2>1, <2>2, HeadRuns
    <2>4. \A v \in Upload : /\ pc'[v] \in Unsettled <=> pc[v] \in Unsettled
                            /\ pc[v] \in Past => pc'[v] \in Past
      BY <2>1 DEF Unsettled, Locked, Past, Ended, TypeOK
    <2>5. \A v \in Upload : pc'[v] \in Locked => queue # <<>> /\ v = queue[1]
      BY <2>1, <2>3 DEF ChainInv, TypeOK
    <2> QED BY <2>1, <2>4, <2>5, ChainKept
  <1>4. ASSUME NEW u \in Upload,
               \/ Receive(u) \/ VerifyOwner(u) \/ Stage(u) \/ Reject(u) \/ StoreRaw(u)
               \/ PubFails(u) \/ InsertRow(u) \/ InsertFails(u) \/ UndoBoth(u) \/ Unlink(u)
        PROVE  ChainInv'
    <2>1. UNCHANGED lock
      BY <1>4 DEF Receive, VerifyOwner, Stage, Reject, StoreRaw, PubFails, InsertRow,
        InsertFails, UndoBoth, Unlink
    <2>2. PICK to : /\ pc' = [pc EXCEPT ![u] = to]
                    /\ to \in Unsettled <=> pc[u] \in Unsettled
                    /\ pc[u] \in Past => to \in Past
                    /\ to \in Locked => pc[u] \in Locked
      BY <1>4 DEF Receive, VerifyOwner, Stage, Reject, StoreRaw, PubFails, InsertRow,
        InsertFails, UndoBoth, Unlink, Goes, Unsettled, Locked, Past, Ended
    <2>3. \A v \in Upload : /\ pc'[v] \in Unsettled <=> pc[v] \in Unsettled
                            /\ pc[v] \in Past => pc'[v] \in Past
                            /\ pc'[v] \in Locked => pc[v] \in Locked
      BY <2>2 DEF TypeOK
    <2>4. \A v \in Upload : pc'[v] \in Locked => queue # <<>> /\ v = queue[1]
      BY <2>3 DEF ChainInv
    <2> QED BY <2>1, <2>3, <2>4, ChainKept
  <1>5. CASE UNCHANGED <<pc, lock>>
    BY <1>5, ChainKept DEF ChainInv
  <1>6. CASE Crash
    <2>1. queue' = <<>> /\ Len(queue') = 0 /\ queueTail' = NoUpload /\ queueDepth' = 0
      BY <1>6 DEF Crash
    <2>2. \A v \in Upload : pc'[v] \notin Unsettled
      BY <1>6 DEF Crash, Running, Unsettled, Locked
    <2>3. Waiting' = {} BY <2>2 DEF Waiting
    <2>4. DepthCounts'
      BY <2>1, <2>3, FS_EmptySet, PhotoConstants DEF DepthCounts, Waiting
    <2>5. \A v \in Upload : pc'[v] \notin Locked BY <2>2 DEF Unsettled
    <2> QED BY <2>1, <2>3, <2>4, <2>5, FS_EmptySet DEF ChainInv
  <1>7. ASSUME NEW p \in Upload, DeleteRow(p) \/ RemoveStored(p) PROVE UNCHANGED <<pc, lock>>
    BY <1>7 DEF DeleteRow, RemoveStored
  <1>8. UNCHANGED vars => UNCHANGED <<pc, lock>> BY DEF vars
  <1> QED BY <1>1, <1>2, <1>3, <1>4, <1>5, <1>6, <1>7, <1>8 DEF Next, Handle

-----------------------------------------------------------------------------
(* The inductive invariant: where objects, rows and the lock stand.        *)
THEOREM InductiveInvariant == Spec => []IInv
  <1>1. IInv /\ [Next]_vars => IInv'
    BY TypeStep, ObjectStep, PlaceStep, ChainStep DEF IInv
  <1> QED BY <1>1, InitInv, PTL DEF Spec

(* A photo on a listing has its original and its public copy, whatever     *)
(* storage calls fail and whenever the server dies.                        *)
THEOREM NoBrokenPhotos == Spec => []RowsHaveObjects
  <1>1. IInv => RowsHaveObjects BY DEF IInv, ObjectInv, RowsHaveObjects
  <1> QED BY <1>1, InductiveInvariant, PTL

(* An object without a row is being dealt with, was given up on with a     *)
(* report, or was left by a crash.                                         *)
THEOREM OrphansAreKnown == Spec => []NoSilentOrphans
  <1>1. IInv => NoSilentOrphans BY DEF IInv, ObjectInv
  <1> QED BY <1>1, InductiveInvariant, PTL

(* The transaction keeps the limit and distinct places of a listing.       *)
THEOREM PlacesAreKept == Spec => []PlacesKept
  <1>1. IInv => PlacesKept BY DEF IInv, PlaceInv
  <1> QED BY <1>1, InductiveInvariant, PTL

(* withUploadLock runs one upload at a time, counts exactly and never      *)
(* ties itself up.                                                         *)
THEOREM LockWorks == Spec => []QueueInv
  <1>1. IInv => OneAtATime BY DEF IInv, ChainInv, OneAtATime
  <1>2. IInv => LockNeverStuck
    <2> SUFFICES ASSUME IInv, NEW u \in Upload, pc[u] \in Unsettled
                 PROVE  \E v \in Upload : pc[v] \in Unsettled /\ MayRun(v)
      BY DEF LockNeverStuck
    <2> USE DEF IInv
    <2>1. u \in Waiting BY DEF Waiting
    <2>2. queue # <<>> BY <2>1, HeadRuns
    <2>3. 1 \in 1..Len(queue) BY <2>2 DEF TypeOK
    <2>4. queue[1] \in Waiting BY <2>3 DEF ChainInv
    <2>5. MayRun(queue[1]) BY <2>4, HeadRuns
    <2> QED BY <2>4, <2>5 DEF Waiting
  <1>3. IInv => QueueInv BY <1>1, <1>2 DEF IInv, ChainInv, QueueInv
  <1> QED BY <1>3, InductiveInvariant, PTL

-----------------------------------------------------------------------------
(* ListingEdit, for any pages, fields, values, clock and number of edits   *)
(* and calls.  A page that has been overtaken stays behind updated_at with *)
(* all it holds (OvertakenInv), because nothing but a successful call of   *)
(* its own brings it a newer second.  The control of a patient owner shows *)
(* what its one timer or its one call carries (ControlInv).                *)

OvertakenInv ==
  /\ updatedAt <= clock
  /\ \A p \in Page : overtaken[p] =>
       /\ open[p] # "no"
       /\ live[p] < updatedAt
       /\ \A c \in calls : c.page = p => c.at < updatedAt

(* Nothing is sent that the server would have to refuse.                   *)
CallsInv == \A c \in calls : ~Invalid(c.field, c.value)

(* A page that is not open yet has nothing under way.                      *)
UnopenedInv ==
  \A p \in Page : open[p] = "no" =>
    /\ \A f \in Field : timer[p][f] = NoTimer
    /\ \A c \in calls : c.page # p

Of(c, p, f) == c.page = p /\ c.field = f

Control(p, f) ==
  open[p] = "yes" /\ ~hasty[p][f] =>
    /\ timer[p][f] # NoTimer => display[p][f] = timer[p][f] /\ ~Saving(p, f)
    /\ \A c \in calls : Of(c, p, f) => display[p][f] = c.value
    /\ \A c, d \in calls : Of(c, p, f) /\ Of(d, p, f) => c = d
    /\ timer[p][f] = NoTimer /\ ~Saving(p, f) /\ ~failed[p][f]
         => display[p][f] = saved[p][f]

ControlInv == \A p \in Page, f \in Field : Control(p, f)

(* A switch saves at once.                                                 *)
SwitchInv == \A p \in Page, f \in Switch : timer[p][f] = NoTimer

EditIInv == EditTypeOK /\ SwitchInv /\ OvertakenInv /\ CallsInv /\ UnopenedInv /\ ControlInv

-----------------------------------------------------------------------------
(* One control of one page is changed, and no other.                       *)
LEMMA OneControl ==
  ASSUME NEW S, NEW F, NEW V, NEW g \in [S -> [F -> V]],
         NEW p \in S, NEW f \in F, NEW v \in V
  PROVE  /\ [g EXCEPT ![p][f] = v] \in [S -> [F -> V]]
         /\ \A q \in S, h \in F :
              [g EXCEPT ![p][f] = v][q][h] = IF q = p /\ h = f THEN v ELSE g[q][h]
  <1>1. [g EXCEPT ![p][f] = v] = [g EXCEPT ![p] = [g[p] EXCEPT ![f] = v]]
    OBVIOUS
  <1>2. [g[p] EXCEPT ![f] = v] \in [F -> V]
    OBVIOUS
  <1> QED BY <1>1, <1>2

(* What a step of the page alone leaves as it is.                          *)
LEMMA RowSideStays ==
  ASSUME EditIInv, UNCHANGED <<row, calls, clock, overtaken, live>>,
         \A p \in Page : open[p] # "no" => open'[p] # "no"
  PROVE  OvertakenInv' /\ CallsInv'
  BY DEF EditIInv, OvertakenInv, CallsInv, Invalid, row

(* A new call carries what its page knows, and so is behind if the page is.*)
LEMMA SendKeeps ==
  ASSUME EditIInv, NEW p \in Page, NEW fields \in SUBSET Field, NEW v,
         \A f \in fields : v[f] \in Value /\ ~Invalid(f, v[f]),
         Send(p, fields, v), UNCHANGED <<row, clock, overtaken, live>>,
         open[p] = "yes",
         \A q \in Page : open[q] # "no" => open'[q] # "no"
  PROVE  /\ calls' \subseteq Call /\ requests' \in Nat
         /\ OvertakenInv' /\ CallsInv'
  <1>1. \A c \in calls' : \/ c \in calls
                          \/ \E f \in fields :
                               c = [id |-> requests, page |-> p, field |-> f, value |-> v[f],
                                    at |-> live[p], state |-> "sent"]
    BY DEF Send
  <1>2. calls' \subseteq Call /\ requests' \in Nat
    BY <1>1 DEF Send, EditIInv, EditTypeOK, Call
  <1>3. \A c \in calls' \ calls : c.page = p /\ c.at = live[p] /\ ~Invalid(c.field, c.value)
    BY <1>1
  <1>4. CallsInv'
    BY <1>3 DEF EditIInv, CallsInv, Invalid
  <1>5. OvertakenInv'
    BY <1>3 DEF EditIInv, OvertakenInv, row
  <1> QED BY <1>2, <1>4, <1>5

LEMMA EditInitInv == EditInit => EditIInv
  BY EditConstants
  DEF EditInit, EditIInv, EditTypeOK, OvertakenInv, CallsInv, UnopenedInv, SwitchInv, ControlInv,
    Control, Saving, Of, Field

-----------------------------------------------------------------------------
(* A control that a step does not touch.                                   *)
LEMMA Elsewhere ==
  ASSUME EditIInv, NEW q \in Page, NEW g \in Field,
         open'[q] = "yes" => open[q] = "yes",
         timer'[q][g] = timer[q][g], display'[q][g] = display[q][g],
         saved'[q][g] = saved[q][g], failed'[q][g] = failed[q][g],
         hasty'[q][g] = hasty[q][g],
         \A c \in calls' : Of(c, q, g) => c \in calls,
         \A c \in calls : Of(c, q, g) => c \in calls'
  PROVE  Control(q, g)'
  BY DEF EditIInv, ControlInv, Control, Saving, Of

(* A save of one control makes one call.                                   *)
LEMMA OneCall ==
  ASSUME NEW p \in Page, NEW f \in Field, NEW v, Send(p, {f}, [g \in {f} |-> v])
  PROVE  \E d : Of(d, p, f) /\ d.value = v /\ calls' = calls \cup {d}
  <1> DEFINE d == [id |-> requests, page |-> p, field |-> f, value |-> v,
                   at |-> live[p], state |-> "sent"]
  <1>1. d.page = p /\ d.field = f /\ d.value = v OBVIOUS
  <1>2. calls' = calls \cup {d} BY DEF Send
  <1> QED BY <1>1, <1>2 DEF Of

LEMMA ChangeInv ==
  ASSUME EditIInv, NEW p \in Page, NEW f \in Field, NEW v \in Value, Change(p, f, v)
  PROVE  EditIInv'
  <1>1. /\ display' \in [Page -> [Field -> Value]]
        /\ \A q \in Page, g \in Field :
             display'[q][g] = IF q = p /\ g = f THEN v ELSE display[q][g]
    BY DEF Change, Show, EditIInv, EditTypeOK
  <1>2. /\ timer' \in [Page -> [Field -> Value \cup {NoTimer}]]
        /\ \A q \in Page, g \in Field :
             timer'[q][g] = IF q = p /\ g = f THEN v ELSE timer[q][g]
    BY DEF Change, EditIInv, EditTypeOK
  <1>3. /\ failed' \in [Page -> [Field -> BOOLEAN]]
        /\ \A q \in Page, g \in Field :
             failed'[q][g] = IF q = p /\ g = f THEN failed[p][f] /\ f \in Text ELSE failed[q][g]
    BY DEF Change, EditIInv, EditTypeOK
  <1>4. /\ hasty' \in [Page -> [Field -> BOOLEAN]]
        /\ \A q \in Page, g \in Field :
             hasty'[q][g] = IF q = p /\ g = f THEN hasty[p][f] \/ Saving(p, f) ELSE hasty[q][g]
    <2>1. (hasty[p][f] \/ Saving(p, f)) \in BOOLEAN OBVIOUS
    <2> QED BY <2>1 DEF Change, Show, EditIInv, EditTypeOK
  <1>5. /\ open[p] = "yes" /\ edits' \in Nat /\ v # NoTimer
        /\ UNCHANGED <<row, open, live, saved, calls, clock, requests, overtaken>>
    BY EditConstants DEF Change, Show, EditIInv, EditTypeOK
  <1>6. EditTypeOK' BY <1>1, <1>2, <1>3, <1>4, <1>5 DEF EditIInv, EditTypeOK, row
  <1>7. OvertakenInv' /\ CallsInv' BY <1>5, RowSideStays
  <1>8. UnopenedInv' BY <1>2, <1>5 DEF EditIInv, UnopenedInv
  <1>9. ASSUME NEW q \in Page, NEW g \in Field PROVE Control(q, g)'
    <2>1. CASE q = p /\ g = f
      BY <1>1, <1>2, <1>4, <1>5, <2>1 DEF Control, Saving, Of
    <2>2. CASE ~(q = p /\ g = f)
      BY <1>1, <1>2, <1>3, <1>4, <1>5, <2>2, Elsewhere
    <2> QED BY <2>1, <2>2
  <1>10. SwitchInv'
    BY <1>2, EditConstants DEF Change, EditIInv, SwitchInv, Field
  <1> QED BY <1>6, <1>7, <1>8, <1>9, <1>10 DEF EditIInv, ControlInv

LEMMA ToggleInv ==
  ASSUME EditIInv, NEW p \in Page, NEW f \in Field, NEW v \in Value, Toggle(p, f, v)
  PROVE  EditIInv'
  <1>1. /\ display' \in [Page -> [Field -> Value]]
        /\ \A q \in Page, g \in Field :
             display'[q][g] = IF q = p /\ g = f THEN v ELSE display[q][g]
    BY DEF Toggle, Show, EditIInv, EditTypeOK
  <1>2. /\ hasty' \in [Page -> [Field -> BOOLEAN]]
        /\ \A q \in Page, g \in Field :
             hasty'[q][g] = IF q = p /\ g = f THEN hasty[p][f] \/ Saving(p, f) ELSE hasty[q][g]
    <2>1. (hasty[p][f] \/ Saving(p, f)) \in BOOLEAN OBVIOUS
    <2> QED BY <2>1 DEF Toggle, Show, EditIInv, EditTypeOK
  <1>3. /\ open[p] = "yes" /\ edits' \in Nat /\ f \in Switch
        /\ UNCHANGED <<row, open, live, saved, timer, clock, overtaken>>
    BY DEF Toggle, Show, EditIInv, EditTypeOK
  <1>4. CASE v = saved[p][f] /\ UNCHANGED <<failed, calls, requests>>
    <2>1. EditTypeOK' BY <1>1, <1>2, <1>3, <1>4 DEF EditIInv, EditTypeOK, row
    <2>2. OvertakenInv' /\ CallsInv' BY <1>3, <1>4, RowSideStays
    <2>3. UnopenedInv' BY <1>3, <1>4 DEF EditIInv, UnopenedInv
    <2>4. ASSUME NEW q \in Page, NEW g \in Field PROVE Control(q, g)'
      <3>1. CASE q = p /\ g = f
        BY <1>1, <1>2, <1>3, <1>4, <3>1, SMT DEF Control, Saving, Of, EditIInv, SwitchInv
      <3>2. CASE ~(q = p /\ g = f)
        BY <1>1, <1>2, <1>3, <1>4, <3>2, Elsewhere
      <3> QED BY <3>1, <3>2
    <2> QED BY <1>3, <2>1, <2>2, <2>3, <2>4 DEF EditIInv, ControlInv, SwitchInv
  <1>5. CASE /\ v # saved[p][f]
             /\ failed' = [failed EXCEPT ![p][f] = FALSE]
             /\ Send(p, {f}, [g \in {f} |-> v])
    <2>1. /\ failed' \in [Page -> [Field -> BOOLEAN]]
          /\ \A q \in Page, g \in Field :
               failed'[q][g] = IF q = p /\ g = f THEN FALSE ELSE failed[q][g]
      BY <1>5 DEF EditIInv, EditTypeOK
    <2>2. ~Invalid(f, v) BY <1>3, EditConstants DEF Invalid
    <2>3. /\ calls' \subseteq Call /\ requests' \in Nat
          /\ OvertakenInv' /\ CallsInv'
      BY <1>3, <1>5, <2>2, SendKeeps
    <2>4. EditTypeOK' BY <1>1, <1>2, <1>3, <2>1, <2>3 DEF EditIInv, EditTypeOK, row
    <2>5. \E d : Of(d, p, f) /\ d.value = v /\ calls' = calls \cup {d}
      BY <1>5, OneCall
    <2>6. UnopenedInv' BY <1>3, <2>5 DEF EditIInv, UnopenedInv, Of
    <2>7. ASSUME NEW q \in Page, NEW g \in Field PROVE Control(q, g)'
      <3>1. CASE q = p /\ g = f
        BY <1>1, <1>2, <1>3, <2>5, <3>1, SMT DEF Control, Saving, Of, EditIInv, SwitchInv
      <3>2. CASE ~(q = p /\ g = f)
        <4>1. \A c \in calls' : Of(c, q, g) => c \in calls
          BY <2>5, <3>2 DEF Of
        <4>2. \A c \in calls : Of(c, q, g) => c \in calls'
          BY <2>5
        <4> QED BY <1>1, <1>2, <1>3, <2>1, <3>2, <4>1, <4>2, Elsewhere
      <3> QED BY <3>1, <3>2
    <2> QED BY <1>3, <2>3, <2>4, <2>6, <2>7 DEF EditIInv, ControlInv, SwitchInv
  <1> QED BY <1>4, <1>5 DEF Toggle

LEMMA SaveInv ==
  ASSUME EditIInv, NEW p \in Page, NEW f \in Field, NEW v \in Value, Save(p, f, v),
         open[p] = "yes", ~hasty[p][f] => v = display[p][f]
  PROVE  EditIInv'
  <1>1. /\ timer' \in [Page -> [Field -> Value \cup {NoTimer}]]
        /\ \A q \in Page, g \in Field :
             timer'[q][g] = IF q = p /\ g = f THEN NoTimer ELSE timer[q][g]
    BY DEF Save, EditIInv, EditTypeOK
  <1>2. UNCHANGED <<row, open, live, saved, clock, edits, overtaken>>
    BY DEF Save
  <1>3. SwitchInv' BY <1>1 DEF EditIInv, SwitchInv, Field
  <1>4. CASE RejectBlank(p, f, v)
    <2>1. /\ failed' \in [Page -> [Field -> BOOLEAN]]
          /\ \A q \in Page, g \in Field :
               failed'[q][g] = IF q = p /\ g = f THEN TRUE ELSE failed[q][g]
      BY <1>4 DEF RejectBlank, EditIInv, EditTypeOK
    <2>2. /\ display' \in [Page -> [Field -> Value]]
          /\ \A q \in Page, g \in Field :
               display'[q][g] = IF q = p /\ g = f THEN saved[p][f] ELSE display[q][g]
      BY <1>4 DEF RejectBlank, EditIInv, EditTypeOK
    <2>3. UNCHANGED <<calls, requests, hasty>> /\ Invalid(f, v)
      BY <1>4 DEF RejectBlank
    <2>4. EditTypeOK' BY <1>1, <1>2, <2>1, <2>2, <2>3 DEF EditIInv, EditTypeOK, row
    <2>5. OvertakenInv' /\ CallsInv' BY <1>2, <2>3, RowSideStays
    <2>6. UnopenedInv' BY <1>1, <1>2, <2>3 DEF EditIInv, UnopenedInv
    <2>7. ASSUME NEW q \in Page, NEW g \in Field PROVE Control(q, g)'
      <3>1. CASE q = p /\ g = f
        <4>1. ~hasty[p][f] => \A c \in calls : ~Of(c, p, f)
          BY <2>3 DEF EditIInv, CallsInv, ControlInv, Control, Of
        <4> QED BY <1>1, <1>2, <2>1, <2>2, <2>3, <3>1, <4>1 DEF Control, Saving, Of
      <3>2. CASE ~(q = p /\ g = f)
        BY <1>1, <1>2, <2>1, <2>2, <2>3, <3>2, Elsewhere
      <3> QED BY <3>1, <3>2
    <2> QED BY <1>3, <2>4, <2>5, <2>6, <2>7 DEF EditIInv, ControlInv
  <1>5. CASE v = saved[p][f] /\ UNCHANGED <<display, failed, calls, requests, hasty>>
    <2>1. EditTypeOK' BY <1>1, <1>2, <1>5 DEF EditIInv, EditTypeOK, row
    <2>2. OvertakenInv' /\ CallsInv' BY <1>2, <1>5, RowSideStays
    <2>3. UnopenedInv' BY <1>1, <1>2, <1>5 DEF EditIInv, UnopenedInv
    <2>4. ASSUME NEW q \in Page, NEW g \in Field PROVE Control(q, g)'
      <3>1. CASE q = p /\ g = f
        BY <1>1, <1>2, <1>5, <3>1 DEF EditIInv, ControlInv, Control, Saving, Of
      <3>2. CASE ~(q = p /\ g = f)
        BY <1>1, <1>2, <1>5, <3>2, Elsewhere
      <3> QED BY <3>1, <3>2
    <2> QED BY <1>3, <2>1, <2>2, <2>3, <2>4 DEF EditIInv, ControlInv
  <1>6. CASE /\ ~Invalid(f, v)
             /\ Send(p, {f}, [g \in {f} |-> v])
             /\ hasty' = [hasty EXCEPT ![p][f] = @ \/ Saving(p, f)]
             /\ UNCHANGED <<display, failed>>
    <2>1. /\ hasty' \in [Page -> [Field -> BOOLEAN]]
          /\ \A q \in Page, g \in Field :
               hasty'[q][g] = IF q = p /\ g = f THEN hasty[p][f] \/ Saving(p, f)
                              ELSE hasty[q][g]
      <3>1. (hasty[p][f] \/ Saving(p, f)) \in BOOLEAN OBVIOUS
      <3> QED BY <1>6, <3>1 DEF EditIInv, EditTypeOK
    <2>2. /\ calls' \subseteq Call /\ requests' \in Nat
          /\ OvertakenInv' /\ CallsInv'
      BY <1>2, <1>6, SendKeeps
    <2>3. EditTypeOK' BY <1>1, <1>2, <1>6, <2>1, <2>2 DEF EditIInv, EditTypeOK, row
    <2>4. \E d : Of(d, p, f) /\ d.value = v /\ calls' = calls \cup {d}
      BY <1>6, OneCall
    <2>5. UnopenedInv' BY <1>1, <1>2, <2>4 DEF EditIInv, UnopenedInv, Of
    <2>6. ASSUME NEW q \in Page, NEW g \in Field PROVE Control(q, g)'
      <3>1. CASE q = p /\ g = f
        BY <1>1, <1>2, <1>6, <2>1, <2>4, <3>1 DEF Control, Saving, Of
      <3>2. CASE ~(q = p /\ g = f)
        <4>1. \A c \in calls' : Of(c, q, g) => c \in calls
          BY <2>4, <3>2 DEF Of
        <4>2. \A c \in calls : Of(c, q, g) => c \in calls'
          BY <2>4
        <4> QED BY <1>1, <1>2, <1>6, <2>1, <3>2, <4>1, <4>2, Elsewhere
      <3> QED BY <3>1, <3>2
    <2> QED BY <1>3, <2>2, <2>3, <2>5, <2>6 DEF EditIInv, ControlInv
  <1> QED BY <1>4, <1>5, <1>6 DEF Save

LEMMA SavingsInv ==
  ASSUME EditIInv, NEW p \in Page, NEW f \in Field, TimerFires(p, f) \/ Blur(p, f)
  PROVE  EditIInv'
  <1>1. CASE TimerFires(p, f)
    <2>1. open[p] = "yes" /\ timer[p][f] \in Value /\ Save(p, f, timer[p][f])
      BY <1>1 DEF TimerFires, EditIInv, EditTypeOK
    <2>2. ~hasty[p][f] => timer[p][f] = display[p][f]
      BY <1>1 DEF TimerFires, EditIInv, ControlInv, Control
    <2> QED BY <2>1, <2>2, SaveInv
  <1>2. CASE Blur(p, f)
    <2>1. open[p] = "yes" /\ display[p][f] \in Value /\ Save(p, f, display[p][f])
      BY <1>2 DEF Blur, EditIInv, EditTypeOK
    <2> QED BY <2>1, SaveInv
  <1> QED BY <1>1, <1>2

LEMMA OpenInv ==
  ASSUME EditIInv, NEW p \in Page, Open(p)
  PROVE  EditIInv'
  <1>1. EditTypeOK' /\ SwitchInv' /\ CallsInv'
    BY DEF Open, EditIInv, EditTypeOK, row, SwitchInv, CallsInv, history, counts, Invalid
  <1>2. OvertakenInv'
    BY DEF Open, EditIInv, EditTypeOK, row, OvertakenInv, history
  <1>3. UnopenedInv'
    BY DEF Open, EditIInv, EditTypeOK, UnopenedInv
  <1>4. ASSUME NEW q \in Page, NEW g \in Field PROVE Control(q, g)'
    <2>1. CASE q = p
      BY <2>1 DEF Open, EditIInv, EditTypeOK, UnopenedInv, Control, Saving, Of
    <2>2. CASE q # p
      <3>1. /\ open'[q] = open[q] /\ timer' = timer /\ failed' = failed /\ hasty' = hasty
            /\ display'[q] = display[q] /\ saved'[q] = saved[q] /\ calls' = calls
        BY <2>2 DEF Open, EditIInv, EditTypeOK, history
      <3> QED BY <3>1, Elsewhere
    <2> QED BY <2>1, <2>2
  <1> QED BY <1>1, <1>2, <1>3, <1>4 DEF EditIInv, ControlInv

LEMMA LeaveInv ==
  ASSUME EditIInv, NEW p \in Page, Leave(p)
  PROVE  EditIInv'
  <1> DEFINE dirty == {f \in Choice \cup Text : display[p][f] # saved[p][f]
                                                  /\ ~Invalid(f, display[p][f])}
  <1>1. /\ open[p] = "yes"
        /\ open' = [open EXCEPT ![p] = "left"]
        /\ timer' = [timer EXCEPT ![p] = [f \in Field |-> NoTimer]]
        /\ UNCHANGED <<row, live, saved, display, failed, clock, edits, history>>
        /\ UNCHANGED <<calls, requests>> \/ Send(p, dirty, display[p])
    BY DEF Leave
  <1>2. /\ open' \in [Page -> {"no", "yes", "left"}]
        /\ open'[p] = "left" /\ \A q \in Page : q # p => open'[q] = open[q]
    BY <1>1 DEF EditIInv, EditTypeOK
  <1>3. /\ timer' \in [Page -> [Field -> Value \cup {NoTimer}]]
        /\ \A f \in Field : timer'[p][f] = NoTimer
        /\ \A q \in Page : q # p => timer'[q] = timer[q]
    BY <1>1 DEF EditIInv, EditTypeOK
  <1>4. /\ calls' \subseteq Call /\ requests' \in Nat
        /\ OvertakenInv' /\ CallsInv'
    <2>1. CASE UNCHANGED <<calls, requests>>
      BY <1>1, <1>2, <2>1, RowSideStays DEF history, EditIInv, EditTypeOK
    <2>2. CASE Send(p, dirty, display[p])
      <3>1. dirty \in SUBSET Field BY DEF Field
      <3>2. \A f \in dirty : display[p][f] \in Value /\ ~Invalid(f, display[p][f])
        BY <3>1 DEF EditIInv, EditTypeOK
      <3> HIDE DEF dirty
      <3> QED BY <1>1, <1>2, <2>2, <3>1, <3>2, SendKeeps DEF history
    <2> QED BY <1>1, <2>1, <2>2
  <1>5. \A c \in calls' : c \in calls \/ c.page = p
    BY <1>1 DEF Send
  <1>6. calls \subseteq calls'
    BY <1>1 DEF Send
  <1> HIDE DEF dirty
  <1>7. EditTypeOK' BY <1>1, <1>2, <1>3, <1>4 DEF EditIInv, EditTypeOK, row, history
  <1>8. SwitchInv' BY <1>3 DEF EditIInv, SwitchInv, Field
  <1>9. UnopenedInv' BY <1>2, <1>3, <1>5 DEF EditIInv, UnopenedInv
  <1>10. ASSUME NEW q \in Page, NEW g \in Field PROVE Control(q, g)'
    <2>1. CASE q = p BY <1>2, <2>1 DEF Control
    <2>2. CASE q # p
      BY <1>1, <1>2, <1>3, <1>5, <1>6, <2>2, Elsewhere DEF history, Of
    <2> QED BY <2>1, <2>2
  <1> QED BY <1>4, <1>7, <1>8, <1>9, <1>10 DEF EditIInv, ControlInv

-----------------------------------------------------------------------------
(* An answer takes the place of its call.                                  *)
LEMMA AnswerIsCall ==
  ASSUME EditIInv, NEW c \in calls, NEW state \in {"updated", "conflict", "error"},
         NEW at \in Nat, Answer(c, state, at)
  PROVE  \E d \in Call : /\ calls' = (calls \ {c}) \cup {d}
                         /\ d.page = c.page /\ d.field = c.field /\ d.value = c.value
                         /\ d.at = at /\ d.state = state
  <1> DEFINE d == [c EXCEPT !.state = state, !.at = at]
  <1>1. c \in Call BY DEF EditIInv, EditTypeOK
  <1>2. d \in Call BY <1>1 DEF Call
  <1>3. /\ d.page = c.page /\ d.field = c.field /\ d.value = c.value
        /\ d.at = at /\ d.state = state
    BY <1>1 DEF Call
  <1>4. calls' = (calls \ {c}) \cup {d} BY DEF Answer
  <1> QED BY <1>2, <1>3, <1>4

(* To the controls, a call and its answer are the same.                    *)
LEMMA AnswerKeepsControls ==
  ASSUME EditIInv, NEW c \in calls, NEW d, calls' = (calls \ {c}) \cup {d},
         d.page = c.page, d.field = c.field, d.value = c.value,
         UNCHANGED <<open, controls, hasty>>
  PROVE  CallsInv' /\ UnopenedInv' /\ SwitchInv' /\ ControlInv'
  <1>1. CallsInv' BY DEF EditIInv, CallsInv, Invalid
  <1>2. UnopenedInv' BY DEF EditIInv, UnopenedInv, controls
  <1>3. SwitchInv' BY DEF EditIInv, SwitchInv, controls
  <1>4. ASSUME NEW q \in Page, NEW g \in Field PROVE Control(q, g)'
    <2>1. CASE Of(c, q, g)
      BY <2>1 DEF EditIInv, ControlInv, Control, Saving, Of, controls
    <2>2. CASE ~Of(c, q, g)
      BY <2>2, Elsewhere DEF Of, controls
    <2> QED BY <2>1, <2>2
  <1> QED BY <1>1, <1>2, <1>3, <1>4 DEF ControlInv

LEMMA UpdateInv ==
  ASSUME EditIInv, NEW c \in calls, Update(c)
  PROVE  EditIInv'
  <1>1. PICK d \in Call : /\ calls' = (calls \ {c}) \cup {d}
                          /\ d.page = c.page /\ d.field = c.field /\ d.value = c.value
                          /\ d.at = clock
    BY AnswerIsCall DEF Update, EditIInv, EditTypeOK
  <1>2. /\ c.at = updatedAt /\ updatedAt' = clock
        /\ overtaken' \in [Page -> BOOLEAN]
        /\ \A p \in Page : overtaken'[p] =>
             overtaken[p] \/ (p # c.page /\ open[p] # "no" /\ Behind(p))
        /\ UNCHANGED <<open, live, controls, clock, counts, hasty>>
    BY DEF Update, Unmodified, WrittenBy, EditIInv, EditTypeOK
  <1>3. EditTypeOK'
    <2>1. c.field \in Field /\ c.value \in Value BY DEF EditIInv, EditTypeOK, Call
    <2>2. listing' \in [Field -> Value] BY <2>1 DEF Update, EditIInv, EditTypeOK
    <2> QED BY <1>1, <1>2, <2>2 DEF EditIInv, EditTypeOK, controls, counts
  <1>4. OvertakenInv'
    <2>1. ASSUME NEW p \in Page, overtaken'[p]
          PROVE  /\ open'[p] # "no" /\ live'[p] < updatedAt'
                 /\ \A e \in calls' : e.page = p => e.at < updatedAt'
      <3>1. CASE overtaken[p]
        <4>1. p # c.page BY <1>2, <3>1 DEF EditIInv, OvertakenInv, EditTypeOK
        <4>2. /\ updatedAt <= clock /\ open[p] # "no" /\ live[p] < updatedAt
              /\ \A e \in calls : e.page = p => e.at < updatedAt
          BY <3>1 DEF EditIInv, OvertakenInv
        <4>3. \A e \in calls' : e.page = p => e \in calls
          BY <1>1, <4>1
        <4>4. /\ updatedAt \in Nat /\ clock \in Nat /\ live[p] \in Nat
              /\ \A e \in calls : e.at \in Nat
          BY DEF EditIInv, EditTypeOK, Call
        <4> QED BY <1>2, <4>2, <4>3, <4>4
      <3>2. CASE p # c.page /\ open[p] # "no" /\ Behind(p)
        BY <1>1, <1>2, <3>2 DEF Behind
      <3> QED BY <1>2, <2>1, <3>1, <3>2
    <2> QED BY <1>2, <2>1 DEF OvertakenInv, EditIInv, EditTypeOK
  <1> QED BY <1>1, <1>2, <1>3, <1>4, AnswerKeepsControls DEF EditIInv

LEMMA RefusalInv ==
  ASSUME EditIInv, NEW c \in calls, Conflict(c) \/ Fail(c)
  PROVE  EditIInv'
  <1>1. c.at \in Nat BY DEF EditIInv, EditTypeOK, Call
  <1>2. PICK d \in Call : /\ calls' = (calls \ {c}) \cup {d}
                          /\ d.page = c.page /\ d.field = c.field /\ d.value = c.value
                          /\ d.at = c.at
    BY <1>1, AnswerIsCall DEF Conflict, Fail
  <1>3. UNCHANGED <<row, open, live, controls, clock, counts, history>>
    BY DEF Conflict, Fail
  <1>4. EditTypeOK' BY <1>2, <1>3 DEF EditIInv, EditTypeOK, row, controls, counts, history
  <1>5. OvertakenInv' BY <1>2, <1>3 DEF EditIInv, OvertakenInv, row, history
  <1> QED BY <1>2, <1>3, <1>4, <1>5, AnswerKeepsControls DEF EditIInv, history

LEMMA ClickInv ==
  ASSUME EditIInv, ClickLink
  PROVE  EditIInv'
  <1>1. /\ updatedAt' = clock
        /\ overtaken' \in [Page -> BOOLEAN]
        /\ \A p \in Page : overtaken'[p] => overtaken[p] \/ (open[p] # "no" /\ Behind(p))
        /\ UNCHANGED <<open, live, controls, calls, clock, counts, hasty>>
    BY DEF ClickLink, WrittenBy, EditIInv, EditTypeOK
  <1>2. listing' \in [Field -> Value]
    BY EditConstants DEF ClickLink, EditIInv, EditTypeOK, Field
  <1>3. EditTypeOK' BY <1>1, <1>2 DEF EditIInv, EditTypeOK, controls, counts
  <1>4. OvertakenInv'
    <2>1. ASSUME NEW p \in Page, overtaken'[p]
          PROVE  /\ open'[p] # "no" /\ live'[p] < updatedAt'
                 /\ \A e \in calls' : e.page = p => e.at < updatedAt'
      <3>1. CASE overtaken[p]
        BY <1>1, <3>1 DEF EditIInv, OvertakenInv, EditTypeOK, Call
      <3>2. CASE open[p] # "no" /\ Behind(p)
        BY <1>1, <3>2 DEF Behind
      <3> QED BY <1>1, <2>1, <3>1, <3>2
    <2> QED BY <1>1, <2>1 DEF OvertakenInv, EditIInv, EditTypeOK
  <1>5. CallsInv' /\ UnopenedInv' /\ SwitchInv'
    BY <1>1 DEF EditIInv, CallsInv, Invalid, UnopenedInv, SwitchInv, controls
  <1>6. ASSUME NEW q \in Page, NEW g \in Field PROVE Control(q, g)'
    BY <1>1, Elsewhere DEF controls
  <1> QED BY <1>3, <1>4, <1>5, <1>6 DEF EditIInv, ControlInv

-----------------------------------------------------------------------------
(* A call that is gone is neither under way nor holds anyone back.         *)
LEMMA CallGone ==
  ASSUME EditIInv, NEW c \in calls, calls' = calls \ {c},
         UNCHANGED <<row, open, timer, clock, history>>,
         live' = live \/ live' = [live EXCEPT ![c.page] = c.at]
  PROVE  /\ CallsInv' /\ UnopenedInv' /\ SwitchInv' /\ OvertakenInv'
         /\ live' \in [Page -> Nat] /\ calls' \subseteq Call
         /\ c.page \in Page /\ c.field \in Field /\ c.value \in Value
  <1>1. c.page \in Page /\ c.field \in Field /\ c.value \in Value /\ c.at \in Nat
    BY DEF EditIInv, EditTypeOK, Call
  <1>2. live' \in [Page -> Nat] /\ calls' \subseteq Call
    BY <1>1 DEF EditIInv, EditTypeOK
  <1>3. CallsInv' /\ UnopenedInv' /\ SwitchInv'
    BY DEF EditIInv, CallsInv, Invalid, UnopenedInv, SwitchInv
  <1>4. OvertakenInv'
    <2>1. \A p \in Page : live'[p] = live[p] \/ (p = c.page /\ live'[p] = c.at)
      BY <1>1 DEF EditIInv, EditTypeOK
    <2> QED BY <1>1, <2>1 DEF EditIInv, OvertakenInv, row, history
  <1> QED BY <1>1, <1>2, <1>3, <1>4

LEMMA ReceiveUpdatedInv ==
  ASSUME EditIInv, NEW c \in calls, ReceiveUpdated(c)
  PROVE  EditIInv'
  <1>1. /\ calls' = calls \ {c} /\ live' = [live EXCEPT ![c.page] = c.at]
        /\ UNCHANGED <<row, open, timer, clock, counts, history>>
    BY DEF ReceiveUpdated
  <1>2. /\ CallsInv' /\ UnopenedInv' /\ SwitchInv' /\ OvertakenInv'
        /\ live' \in [Page -> Nat] /\ calls' \subseteq Call
        /\ c.page \in Page /\ c.field \in Field /\ c.value \in Value
    BY <1>1, CallGone
  <1>3. /\ saved' \in [Page -> [Field -> Value]]
        /\ \A q \in Page, g \in Field :
             saved'[q][g] = IF Of(c, q, g) THEN c.value ELSE saved[q][g]
    BY <1>2 DEF ReceiveUpdated, EditIInv, EditTypeOK, Of
  <1>4. /\ display' \in [Page -> [Field -> Value]]
        /\ \A q \in Page, g \in Field :
             display'[q][g] = display[q][g] \/ (Of(c, q, g) /\ display'[q][g] = c.value)
    <2>1. CASE display' = display BY <2>1 DEF EditIInv, EditTypeOK
    <2>2. CASE display' = [display EXCEPT ![c.page][c.field] = c.value]
      BY <1>2, <2>2 DEF EditIInv, EditTypeOK, Of
    <2> QED BY <2>1, <2>2 DEF ReceiveUpdated
  <1>5. /\ failed' \in [Page -> [Field -> BOOLEAN]]
        /\ \A q \in Page, g \in Field : ~Of(c, q, g) => failed'[q][g] = failed[q][g]
    BY <1>2 DEF ReceiveUpdated, EditIInv, EditTypeOK, Of
  <1>6. EditTypeOK' BY <1>1, <1>2, <1>3, <1>4, <1>5 DEF EditIInv, EditTypeOK, row, counts, history
  <1>7. ASSUME NEW q \in Page, NEW g \in Field PROVE Control(q, g)'
    <2>1. CASE Of(c, q, g)
      BY <1>1, <1>3, <1>4, <2>1 DEF EditIInv, ControlInv, Control, Saving, Of, history
    <2>2. CASE ~Of(c, q, g)
      BY <1>1, <1>3, <1>4, <1>5, <2>2, Elsewhere DEF history, Of
    <2> QED BY <2>1, <2>2
  <1> QED BY <1>2, <1>6, <1>7 DEF EditIInv, ControlInv

LEMMA ReceiveErrorInv ==
  ASSUME EditIInv, NEW c \in calls, ReceiveError(c)
  PROVE  EditIInv'
  <1>1. /\ calls' = calls \ {c}
        /\ UNCHANGED <<row, open, live, saved, timer, clock, counts, history>>
    BY DEF ReceiveError
  <1>2. /\ CallsInv' /\ UnopenedInv' /\ SwitchInv' /\ OvertakenInv'
        /\ live' \in [Page -> Nat] /\ calls' \subseteq Call
        /\ c.page \in Page /\ c.field \in Field /\ c.value \in Value
    BY <1>1, CallGone
  <1>3. /\ failed' \in [Page -> [Field -> BOOLEAN]]
        /\ \A q \in Page, g \in Field :
             failed'[q][g] = IF Of(c, q, g) THEN TRUE ELSE failed[q][g]
    BY <1>2 DEF ReceiveError, EditIInv, EditTypeOK, Of
  <1>4. /\ display' \in [Page -> [Field -> Value]]
        /\ \A q \in Page, g \in Field :
             display'[q][g] = IF Of(c, q, g) THEN saved[q][g] ELSE display[q][g]
    BY <1>2 DEF ReceiveError, EditIInv, EditTypeOK, Of
  <1>5. EditTypeOK' BY <1>1, <1>2, <1>3, <1>4 DEF EditIInv, EditTypeOK, row, counts, history
  <1>6. ASSUME NEW q \in Page, NEW g \in Field PROVE Control(q, g)'
    <2>1. CASE Of(c, q, g)
      BY <1>1, <1>3, <1>4, <2>1 DEF EditIInv, ControlInv, Control, Saving, Of, history
    <2>2. CASE ~Of(c, q, g)
      <3>1. /\ display'[q][g] = display[q][g] /\ failed'[q][g] = failed[q][g]
            /\ UNCHANGED <<open, saved, timer, hasty>>
        BY <1>1, <1>3, <1>4, <2>2 DEF history
      <3>2. \A e \in calls : Of(e, q, g) => e \in calls'
        BY <1>1, <2>2
      <3> QED BY <1>1, <3>1, <3>2, Elsewhere
    <2> QED BY <2>1, <2>2
  <1> QED BY <1>2, <1>5, <1>6 DEF EditIInv, ControlInv

LEMMA TickInv ==
  ASSUME EditIInv, Tick \/ UNCHANGED editVars
  PROVE  EditIInv'
  <1>1. /\ clock' \in Nat /\ clock <= clock'
        /\ UNCHANGED <<row, open, live, controls, calls, counts, history>>
    BY DEF Tick, editVars, EditIInv, EditTypeOK
  <1>2. EditTypeOK' BY <1>1 DEF EditIInv, EditTypeOK, row, controls, counts, history
  <1>3. OvertakenInv' BY <1>1 DEF EditIInv, OvertakenInv, EditTypeOK, row, history
  <1>4. CallsInv' /\ UnopenedInv' /\ SwitchInv'
    BY <1>1 DEF EditIInv, CallsInv, Invalid, UnopenedInv, SwitchInv, controls
  <1>5. ASSUME NEW q \in Page, NEW g \in Field PROVE Control(q, g)'
    BY <1>1, Elsewhere DEF controls, history
  <1> QED BY <1>2, <1>3, <1>4, <1>5 DEF EditIInv, ControlInv

LEMMA EditNextInv == EditIInv /\ [EditNext]_editVars => EditIInv'
  <1> SUFFICES ASSUME EditIInv, [EditNext]_editVars PROVE EditIInv' OBVIOUS
  <1> QED
    BY OpenInv, LeaveInv, ChangeInv, ToggleInv, SavingsInv, UpdateInv, RefusalInv, ClickInv,
       ReceiveUpdatedInv, ReceiveErrorInv, TickInv
    DEF EditNext

(* The inductive invariant of the edits: pages that were overtaken, calls  *)
(* on the wire and the controls with what they have under way.             *)
THEOREM EditInductiveInvariant == EditSpec => []EditIInv
  BY EditInitInv, EditNextInv, PTL DEF EditSpec

-----------------------------------------------------------------------------
(* The row, the controls and the calls keep their types.                   *)
THEOREM EditTypeCorrect == EditSpec => []EditTypeOK
  <1>1. EditIInv => EditTypeOK BY DEF EditIInv
  <1> QED BY <1>1, EditInductiveInvariant, PTL

(* A patient owner sees what is saved, or an error.                        *)
THEOREM PatienceRewarded == EditSpec => []PatientOwnerSeesSaved
  <1>1. EditIInv => PatientOwnerSeesSaved
    BY DEF EditIInv, ControlInv, Control, PatientOwnerSeesSaved
  <1> QED BY <1>1, EditInductiveInvariant, PTL

(* No write of a page that has missed a write of a later second: the check *)
(* of updateListingById refuses it, however calls and answers are          *)
(* reordered or lost.                                                      *)
THEOREM NoLostWrite == EditSpec => OvertakenNeverWrites
  <1>1. EditIInv /\ [EditNext]_editVars =>
          \A c \in calls' \ calls : c.state = "updated" => ~overtaken[c.page]
    <2> SUFFICES ASSUME EditIInv, [EditNext]_editVars, NEW e \in calls' \ calls, e.state = "updated",
                        overtaken[e.page]
                 PROVE  FALSE
      OBVIOUS
    <2>1. ASSUME NEW c \in calls, Update(c) PROVE FALSE
      <3>1. PICK d \in Call : calls' = (calls \ {c}) \cup {d} /\ d.page = c.page
        BY <2>1, AnswerIsCall DEF Update, EditIInv, EditTypeOK
      <3>2. c.at = updatedAt /\ c.page = e.page /\ updatedAt \in Nat /\ c.page \in Page
        BY <2>1, <3>1 DEF Update, Unmodified, EditIInv, EditTypeOK, Call
      <3> QED BY <3>2 DEF EditIInv, OvertakenInv
    <2>2. ASSUME NEW c \in calls, Conflict(c) \/ Fail(c) PROVE FALSE
      <3>1. c.at \in Nat BY DEF EditIInv, EditTypeOK, Call
      <3>2. \E state \in {"conflict", "error"} : Answer(c, state, c.at)
        BY <2>2 DEF Conflict, Fail
      <3>3. PICK d \in Call : calls' = (calls \ {c}) \cup {d} /\ d.state \in {"conflict", "error"}
        BY <3>1, <3>2, AnswerIsCall
      <3> QED BY <3>3
    <2>3. ASSUME NEW p \in Page, NEW fields, NEW v, Send(p, fields, v) PROVE FALSE
      BY <2>3 DEF Send
    <2>4. CASE calls' \subseteq calls BY <2>4
    <2>5. ASSUME NEW p \in Page, NEW f \in Field, NEW v, Save(p, f, v) PROVE FALSE
      BY <2>3, <2>4, <2>5 DEF Save, RejectBlank
    <2>6. ASSUME NEW p \in Page, Open(p) \/ Leave(p) PROVE FALSE
      BY <2>3, <2>4, <2>6 DEF Open, Leave
    <2>7. ASSUME NEW p \in Page, NEW f \in Field, NEW v \in Value,
                 Change(p, f, v) \/ Toggle(p, f, v)
          PROVE  FALSE
      BY <2>3, <2>4, <2>7 DEF Change, Toggle
    <2>8. ASSUME NEW p \in Page, NEW f \in Field, TimerFires(p, f) \/ Blur(p, f) PROVE FALSE
      BY <2>5, <2>8 DEF TimerFires, Blur
    <2>9. CASE \/ \E c \in calls : ReceiveUpdated(c) \/ ReceiveError(c)
               \/ ClickLink \/ Tick \/ UNCHANGED editVars
      BY <2>4, <2>9 DEF ReceiveUpdated, ReceiveError, ClickLink, Tick, editVars
    <2> QED BY <2>1, <2>2, <2>6, <2>7, <2>8, <2>9 DEF EditNext
  <1> QED BY <1>1, EditInductiveInvariant, PTL DEF EditSpec, OvertakenNeverWrites
=============================================================================
