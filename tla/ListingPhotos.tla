--------------------------- MODULE ListingPhotos ---------------------------
(***************************************************************************)
(* The photos of listings on the server: the upload and delete handlers    *)
(* (api/listing-photos.ts), the process-wide upload lock                   *)
(* (lib/listing-photo-upload.server.ts), the listing_photos table          *)
(* (data/queries.server.ts) and the object store (lib/storage.server.ts).  *)
(*                                                                         *)
(* A photo has the id of the upload that makes it (a fresh UUID).  One     *)
(* action is the code between two awaits.  Any storage or database call    *)
(* may throw; an upload to the store that throws may have stored something *)
(* all the same (a lost reply; a truncated local file).  The database is a *)
(* file: a transaction that throws has not happened.                       *)
(***************************************************************************)
EXTENDS Naturals, Sequences, FiniteSets

CONSTANTS
  Upload,         \* calls of addPhotoToListing, and the photos they make
  NoUpload,
  Listing,
  MaxPhotos,      \* MAX_PHOTOS_PER_LISTING
  MaxQueueDepth,  \* MAX_UPLOAD_QUEUE_DEPTH
  MaxCrashes      \* bound: how often the server may die

ASSUME PhotoConstants ==
  /\ NoUpload \notin Upload
  /\ MaxPhotos \in Nat
  /\ MaxQueueDepth \in Nat \ {0}
  /\ MaxCrashes \in Nat

VARIABLES
  \* durable
  rows,        \* the listing_photos table
  raw,         \* photos with an object under raw/ ...
  pub,         \* ... and under pub/
  temp,        \* staged temp files, by the upload that wrote them
  \* the server process
  pc,          \* how far the handler of an upload is
  target,      \* the listing an upload is for
  after,       \* the upload whose promise it was chained to
  queueTail,   \* the upload whose promise is the tail of the chain
  queueDepth,
  deletion,    \* how far deletePhoto is with a photo
  crashes,
  \* history, read by no guard
  queue,       \* unsettled promises of the chain, in order
  givenUp     \* photos with an object the code gave up on: sent to Sentry,
               \* or left by a storage call that threw

durable == <<rows, raw, pub, temp>>
lock    == <<after, queueTail, queueDepth, queue>>
vars    == <<durable, pc, target, lock, deletion, crashes, givenUp>>

Locked    == {"raw", "pub", "undoRaw"}          \* inside uploadListingPhotoLocked
Unsettled == {"queued"} \cup Locked             \* the chained promise is pending
Running   == {"received", "verified", "staged", "stored", "undoBoth", "unlink"}
                \cup Unsettled
Ended     == {"answered", "lost"}

Row == [photo: Upload, listing: Listing, order: Nat]

TypeOK ==
  /\ rows \subseteq Row
  /\ raw \subseteq Upload /\ pub \subseteq Upload /\ temp \subseteq Upload
  /\ pc \in [Upload -> {"idle"} \cup Running \cup Ended]
  /\ target \in [Upload -> Listing]
  /\ after \in [Upload -> Upload \cup {NoUpload}]
  /\ queueTail \in Upload \cup {NoUpload}
  /\ queueDepth \in Nat
  /\ deletion \in [Upload -> {"none", "rowGone", "done", "lost"}]
  /\ crashes \in Nat
  /\ queue \in Seq(Upload)
  /\ givenUp \subseteq Upload

Init ==
  /\ rows = {} /\ raw = {} /\ pub = {} /\ temp = {}
  /\ pc = [u \in Upload |-> "idle"]
  /\ target \in [Upload -> Listing]
  /\ after = [u \in Upload |-> NoUpload]
  /\ queueTail = NoUpload
  /\ queueDepth = 0
  /\ deletion = [u \in Upload |-> "none"]
  /\ crashes = 0
  /\ queue = <<>>
  /\ givenUp = {}

Goes(u, from, to) == pc[u] = from /\ pc' = [pc EXCEPT ![u] = to]

-----------------------------------------------------------------------------
(* The handler of addPhotoToListing, up to the lock.                       *)

(* getSession, the form fields, assertPhotoUploadCapacity, size and type.  *)
Receive(u) ==
  /\ \/ Goes(u, "idle", "answered")
     \/ queueDepth < MaxQueueDepth /\ Goes(u, "idle", "received")
  /\ UNCHANGED <<durable, target, lock, deletion, crashes, givenUp>>

(* getListingById and the comparison with its owner.                       *)
VerifyOwner(u) ==
  /\ \E to \in {"verified", "answered"} : Goes(u, "received", to)
  /\ UNCHANGED <<durable, target, lock, deletion, crashes, givenUp>>

(* stageUploadStream.  It stands before the try block: if it throws, what  *)
(* it has written stays.                                                   *)
Stage(u) ==
  /\ \E to \in {"staged", "answered"} : Goes(u, "verified", to)
  /\ temp' = temp \cup {u}
  /\ UNCHANGED <<rows, raw, pub, target, lock, deletion, crashes, givenUp>>

(* detectMimeFromTempFile rejects the file, or withUploadLock refuses.     *)
Reject(u) ==
  /\ Goes(u, "staged", "unlink")
  /\ UNCHANGED <<durable, target, lock, deletion, crashes, givenUp>>

(* Faulty variant: the tail stays where it was.                            *)
EnqueueOffTail(u) ==
  /\ queueDepth < MaxQueueDepth
  /\ Goes(u, "staged", "queued")
  /\ after' = [after EXCEPT ![u] = queueTail]
  /\ queueTail' = queueTail
  /\ queueDepth' = queueDepth + 1
  /\ queue' = Append(queue, u)
  /\ UNCHANGED <<durable, target, deletion, crashes, givenUp>>

(* withUploadLock: queueTail.then(run, run), which becomes the tail.       *)
Enqueue(u) ==
  /\ queueDepth < MaxQueueDepth
  /\ Goes(u, "staged", "queued")
  /\ after' = [after EXCEPT ![u] = queueTail]
  /\ queueTail' = u
  /\ queueDepth' = queueDepth + 1
  /\ queue' = Append(queue, u)
  /\ UNCHANGED <<durable, target, deletion, crashes, givenUp>>

-----------------------------------------------------------------------------
(* uploadListingPhotoLocked.                                               *)

(* The promise it is chained to has settled, either way.                   *)
MayRun(u) == after[u] # NoUpload => pc[after[u]] \notin Unsettled

Acquire(u) ==
  /\ MayRun(u)
  /\ Goes(u, "queued", "raw")
  /\ UNCHANGED <<durable, target, lock, deletion, crashes, givenUp>>

(* The promise settles: finally(() => queueDepth--).                       *)
Release ==
  /\ queueDepth' = queueDepth - 1
  /\ queue' = Tail(queue)
  /\ UNCHANGED <<after, queueTail>>

(* storage.upload('raw', ...).                                             *)
StoreRaw(u) ==
  /\ Goes(u, "raw", "pub")
  /\ raw' = raw \cup {u}
  /\ UNCHANGED <<rows, pub, temp, target, lock, deletion, crashes, givenUp>>

RawFails(u) ==
  /\ Goes(u, "raw", "unlink")
  /\ Release
  /\ \/ UNCHANGED <<raw, givenUp>>
     \/ raw' = raw \cup {u} /\ givenUp' = givenUp \cup {u}
  /\ UNCHANGED <<rows, pub, temp, target, deletion, crashes>>

(* The transform, and storage.upload('pub', ...).                          *)
StorePub(u) ==
  /\ Goes(u, "pub", "stored")
  /\ Release
  /\ pub' = pub \cup {u}
  /\ UNCHANGED <<rows, raw, temp, target, deletion, crashes, givenUp>>

(* Faulty variant: the error is caught and forgotten.                      *)
PubErrorSwallowed(u) ==
  /\ Goes(u, "pub", "stored")
  /\ Release
  /\ UNCHANGED <<durable, target, deletion, crashes, givenUp>>

(* Faulty variant: no catch block.                                         *)
PubFailsUncleaned(u) ==
  /\ Goes(u, "pub", "unlink")
  /\ Release
  /\ UNCHANGED <<durable, target, deletion, crashes, givenUp>>

PubFails(u) ==
  /\ Goes(u, "pub", "undoRaw")
  /\ \/ UNCHANGED <<pub, givenUp>>
     \/ pub' = pub \cup {u} /\ givenUp' = givenUp \cup {u}
  /\ UNCHANGED <<rows, raw, temp, target, lock, deletion, crashes>>

(* Best effort; then the error is thrown on.                               *)
UndoRaw(u) ==
  /\ Goes(u, "undoRaw", "unlink")
  /\ Release
  /\ \/ raw' = raw \ {u} /\ UNCHANGED givenUp
     \/ givenUp' = givenUp \cup {u} /\ UNCHANGED raw
  /\ UNCHANGED <<rows, pub, temp, target, deletion, crashes>>

-----------------------------------------------------------------------------
(* The handler, after the lock.                                            *)

PhotosOf(l) == {r \in rows : r.listing = l}

(* Faulty variant: the number of photos as the next order.                 *)
OrderByCount(l) == Cardinality(PhotosOf(l))

(* COALESCE(MAX(order), -1) + 1.                                           *)
NextOrder(l) ==
  IF PhotosOf(l) = {} THEN 0
  ELSE 1 + CHOOSE m \in {r.order : r \in PhotosOf(l)} :
             \A r \in PhotosOf(l) : r.order <= m

HasRoom(l) == Cardinality(PhotosOf(l)) < MaxPhotos

(* addPhotoToListing of data/queries: one transaction.                     *)
InsertRow(u) ==
  /\ HasRoom(target[u])
  /\ Goes(u, "stored", "unlink")
  /\ rows' = rows \cup {[photo |-> u, listing |-> target[u],
                         order |-> NextOrder(target[u])]}
  /\ UNCHANGED <<raw, pub, temp, target, lock, deletion, crashes, givenUp>>

(* The transaction throws, or returns null because the listing is full.    *)
InsertFails(u) ==
  /\ Goes(u, "stored", "undoBoth")
  /\ UNCHANGED <<durable, target, lock, deletion, crashes, givenUp>>

(* Both objects are deleted at the same time; either deletion may fail.    *)
DeleteObjects(u) ==
  \E failed \in SUBSET {"raw", "pub"} :
    /\ raw' = IF "raw" \in failed THEN raw ELSE raw \ {u}
    /\ pub' = IF "pub" \in failed THEN pub ELSE pub \ {u}
    /\ givenUp' = IF failed = {} THEN givenUp ELSE givenUp \cup {u}

UndoBoth(u) ==
  /\ Goes(u, "undoBoth", "unlink")
  /\ DeleteObjects(u)
  /\ UNCHANGED <<rows, temp, target, lock, deletion, crashes>>

(* unlinkUploadStaging in the finally block: it never throws.              *)
Unlink(u) ==
  /\ Goes(u, "unlink", "answered")
  /\ temp' \in {temp, temp \ {u}}
  /\ UNCHANGED <<rows, raw, pub, target, lock, deletion, crashes, givenUp>>

-----------------------------------------------------------------------------
(* deletePhoto, by the listing's owner; of several calls for one photo     *)
(* only one finds the row.                                                 *)

DeleteRow(p) ==
  /\ \E r \in rows : r.photo = p
  /\ rows' = {r \in rows : r.photo # p}
  /\ deletion' = [deletion EXCEPT ![p] = "rowGone"]
  /\ UNCHANGED <<raw, pub, temp, pc, target, lock, crashes, givenUp>>

RemoveStored(p) ==
  /\ deletion[p] = "rowGone"
  /\ deletion' = [deletion EXCEPT ![p] = "done"]
  /\ DeleteObjects(p)
  /\ UNCHANGED <<rows, temp, pc, target, lock, crashes>>

-----------------------------------------------------------------------------
(* The process dies: handlers, lock and counter are gone.                  *)
Crash ==
  /\ crashes < MaxCrashes
  /\ crashes' = crashes + 1
  /\ pc' = [u \in Upload |-> IF pc[u] \in Running THEN "lost" ELSE pc[u]]
  /\ deletion' = [p \in Upload |->
                    IF deletion[p] = "rowGone" THEN "lost" ELSE deletion[p]]
  /\ after' = [u \in Upload |-> NoUpload]
  /\ queueTail' = NoUpload
  /\ queueDepth' = 0
  /\ queue' = <<>>
  /\ UNCHANGED <<durable, target, givenUp>>

Handle(u) ==
  \/ VerifyOwner(u) \/ Stage(u) \/ Reject(u) \/ Enqueue(u)
  \/ Acquire(u) \/ StoreRaw(u) \/ RawFails(u) \/ StorePub(u) \/ PubFails(u)
  \/ UndoRaw(u) \/ InsertRow(u) \/ InsertFails(u) \/ UndoBoth(u) \/ Unlink(u)

Next ==
  \/ \E u \in Upload : Receive(u) \/ Handle(u)
  \/ \E p \in Upload : DeleteRow(p) \/ RemoveStored(p)
  \/ Crash

Spec == Init /\ [][Next]_vars

-----------------------------------------------------------------------------
(* Every photo on a listing has its original and its public copy, whatever *)
(* fails and whenever the server dies.                                     *)
RowsHaveObjects == \A r \in rows : r.photo \in raw \cap pub

(* The limit of photos per listing holds although each upload checks it    *)
(* for itself, and no two photos of a listing have the same order.         *)
PhotosLimited == \A l \in Listing : Cardinality(PhotosOf(l)) <= MaxPhotos
OrdersDistinct ==
  \A r, s \in rows : r.listing = s.listing /\ r.order = s.order => r = s

(* queueDepth counts the uploads that run or wait, after any failure.      *)
DepthCounts ==
  /\ queueDepth = Cardinality({u \in Upload : pc[u] \in Unsettled})
  /\ queueDepth <= MaxQueueDepth

(* The chain of promises never ties itself up: while an upload runs or      *)
(* waits there is one whose turn it is, so that every upload gets its turn *)
(* as long as the calls of the one before it settle.                       *)
LockNeverStuck ==
  (\E u \in Upload : pc[u] \in Unsettled)
    => \E u \in Upload : pc[u] \in Unsettled /\ MayRun(u)

(* Only one upload holds buffers at a time ("ensures only one              *)
(* uploadListingPhoto runs at a time across the process").                 *)
OneAtATime ==
  \A u, v \in Upload : pc[u] \in Locked /\ pc[v] \in Locked => u = v

(* An object that no row names belongs to a handler that has yet to deal   *)
(* with it, was given up on, or was left by a crash.                       *)
NoSilentOrphans ==
  \A p \in raw \cup pub :
    \/ \E r \in rows : r.photo = p
    \/ pc[p] \in {"pub", "undoRaw", "stored", "undoBoth", "lost"}
    \/ deletion[p] \in {"rowGone", "lost"}
    \/ p \in givenUp

(* addPhotoToListing's transaction keeps the places of a listing, although *)
(* its limit and the order of the last photo are also read outside of it.  *)
PlacesKept == PhotosLimited /\ OrdersDistinct

(* withUploadLock, over rejections, throws and crashes: the depth is that  *)
(* of the queue, the queue moves one at a time, and it moves.              *)
QueueInv == TypeOK /\ DepthCounts /\ OneAtATime /\ LockNeverStuck
=============================================================================
