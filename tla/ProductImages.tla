--------------------------- MODULE ProductImages ---------------------------
(***************************************************************************)
(* Product images: rows in the database and files in the object storage,   *)
(* which no transaction spans (apps/products/services.py, tasks.py, the    *)
(* image inline of admin.py). A worker is one running request or thumbnail *)
(* task. A transaction that touches the storage is split where it does; a  *)
(* row it has locked is held until it commits.                             *)
(***************************************************************************)
EXTENDS Naturals, FiniteSets

CONSTANTS
  Products,
  Images,    \* image rows; a row also stands for the names of its files
  Old,       \* rows that exist from the start, with a thumbnail of the old layout
  Workers,
  NoImage    \* the row does not exist

ASSUME OldAssumption == Old \subseteq Images

\* thumb is the thumbnail the row names: the flat name of the old layout, or
\* its own, by-image-id/<id>/thumbnail.webp.
ImageRow == [product : Products, primary : BOOLEAN, thumb : {"none", "flat", "own"}]

ASSUME NoImageAssumption == NoImage \notin ImageRow

Names == {"original", "flat", "own"} \X Images

VARIABLES
  listed,   \* the products that exist
  row,      \* [Images -> ImageRow or NoImage]
  file,     \* [Names -> "absent" | "good" | "bad"]: the storage
  queued,   \* [Images -> BOOLEAN]: a generate_product_image_thumbnail is in the broker
  worker,   \* [Workers -> what it is about to do]
  lost      \* history: names of files that a crash or a storage error left

vars == <<listed, row, file, queued, worker, lost>>

Idle == [at |-> "idle"]

WorkerStates ==
  {Idle}
    \cup [at : {"upload"}, image : Images, product : Products, primary : BOOLEAN,
          demoted : SUBSET Images, replaced : SUBSET Images]
    \cup [at : {"render", "saved", "cleanup"}, image : Images]
    \cup [at : {"discard", "delete"}, names : SUBSET Names]

Rows == {i \in Images : row[i] # NoImage}

\* The files that image rows name.
Original(i) == <<"original", i>>
Thumbnail(i) == <<row[i].thumb, i>>

NamedBy(i) == {Original(i)} \cup (IF row[i].thumb = "none" THEN {} ELSE {Thumbnail(i)})

Referenced == UNION {NamedBy(i) : i \in Rows}

\* Locks: a thumbnail task holds its row, a form or upload the rows it demotes
\* and deletes and, for a primary image, the product.
Holds(w) ==
  CASE worker[w].at = "upload" -> worker[w].demoted \cup worker[w].replaced
    [] worker[w].at \in {"render", "saved"} -> {worker[w].image}
    [] OTHER -> {}

Free(i) == \A w \in Workers : i \notin Holds(w)

\* Mutant of ProductFree: nobody locks the product.
ProductNeverLocked(p, others) == TRUE

ProductFree(p, others) ==
  \A w \in others :
    ~(worker[w].at = "upload" /\ worker[w].product = p /\ worker[w].primary)

Primaries(p) == {i \in Rows : row[i].product = p /\ row[i].primary}

\* Files a worker has yet to enter in a row or to remove.
InHand(w) ==
  CASE worker[w].at = "upload" -> {Original(worker[w].image)}
    [] worker[w].at \in {"saved", "cleanup"} -> {<<"own", worker[w].image>>}
    [] worker[w].at \in {"discard", "delete"} -> worker[w].names
    [] OTHER -> {}

\* Nobody remembers an image: its model value may stand for a new one (uuids and
\* ids are never used twice).
Forgotten(i) ==
  /\ row[i] = NoImage
  /\ ~queued[i]
  /\ \A kind \in {"original", "flat", "own"} : file[<<kind, i>>] = "absent"
  /\ \A w \in Workers :
       /\ \A n \in InHand(w) : n[2] # i
       /\ worker[w].at = "render" => worker[w].image # i

Goes(w, state) == worker' = [worker EXCEPT ![w] = state]

\* What follows a commit: the callbacks that delete files, if there are any.
Discards(w, names) == Goes(w, IF names = {} THEN Idle ELSE [at |-> "discard", names |-> names])

Init ==
  /\ listed = Products
  /\ \E p \in Products :
       row = [i \in Images |->
                IF i \in Old THEN [product |-> p, primary |-> FALSE, thumb |-> "flat"] ELSE NoImage]
  /\ \E broken \in SUBSET Old :
       file = [n \in Names |->
                 CASE n[2] \notin Old \/ n[1] = "own" -> "absent"
                   [] n[1] = "flat" /\ n[2] \in broken -> "bad"
                   [] OTHER -> "good"]
  /\ queued = [i \in Images |-> i \in Old]
  /\ worker = [w \in Workers |-> Idle]
  /\ lost = {}

-----------------------------------------------------------------------------
(* Uploads: the API, and the form of the admin, which may delete an image    *)
(* and add one in its place in the same transaction                          *)

\* _create_product_image_service up to the INSERT: rows are locked, primaries
\* demoted, the file is written. A product that vanished is noticed here only
\* if it had to be locked.
StoreOriginal(w, i, p, primary, replaced) ==
  /\ worker[w] = Idle
  /\ Forgotten(i)
  /\ \A r \in replaced : r \in Rows /\ row[r].product = p /\ Free(r)
  /\ LET demoted == IF primary THEN Primaries(p) \ replaced ELSE {}
     IN  /\ primary => p \in listed /\ ProductFree(p, Workers \ {w}) /\ \A d \in demoted : Free(d)
         /\ Goes(w, [at |-> "upload", image |-> i, product |-> p, primary |-> primary,
                     demoted |-> demoted, replaced |-> replaced])
  /\ file' = [file EXCEPT ![Original(i)] = "good"]
  /\ lost' = {n \in lost : n[2] # i}
  /\ UNCHANGED <<listed, row, queued>>

\* The rows as the upload's transaction leaves them.
RowsAfter(up) ==
  [i \in Images |->
     CASE i = up.image -> [product |-> up.product, primary |-> up.primary, thumb |-> "none"]
       [] i \in up.replaced -> NoImage
       [] i \in up.demoted -> [row[i] EXCEPT !.primary = FALSE]
       [] OTHER -> row[i]]

\* The INSERT and the commit. Afterwards replaced files are deleted and the task
\* is queued, unless the broker is down (_enqueue_thumbnail).
CommitUpload(w) ==
  LET up == worker[w]
      left == UNION {NamedBy(r) : r \in up.replaced}
  IN  /\ up.at = "upload"
      /\ up.product \in listed
      /\ ProductFree(up.product, Workers \ {w})
      /\ row' = RowsAfter(up)
      /\ \/ /\ \E published \in BOOLEAN : queued' = [queued EXCEPT ![up.image] = published]
            /\ Discards(w, left)
            /\ UNCHANGED lost
         \* committed, but the connection broke: no callback runs, and the service
         \* takes it for a failure
         \/ /\ Discards(w, {Original(up.image)})
            /\ lost' = lost \cup left
            /\ UNCHANGED queued
      /\ UNCHANGED <<listed, file>>

\* The transaction failed: the product is gone, or any database error.
\* cleanup_product_image_original_after_rollback takes the file back.
RefuseUpload(w) ==
  /\ worker[w].at = "upload"
  /\ Discards(w, {Original(worker[w].image)})
  /\ UNCHANGED <<listed, row, file, queued, lost>>

\* update_product_image_service
UpdateImage(i, primary) ==
  /\ i \in Rows
  /\ LET p == row[i].product
         demoted == IF primary THEN Primaries(p) \ {i} ELSE {}
     IN  /\ ProductFree(p, Workers)
         /\ \A r \in demoted \cup {i} : Free(r)
         /\ row' = [r \in Images |->
              CASE r = i -> [row[i] EXCEPT !.primary = primary]
                [] r \in demoted -> [row[r] EXCEPT !.primary = FALSE]
                [] OTHER -> row[r]]
  /\ UNCHANGED <<listed, file, queued, worker, lost>>

-----------------------------------------------------------------------------
(* Deletions *)

\* Mutant of Remove: the thumbnail is not among the files.
RemoveForgettingThumbnails(w, gone) ==
  /\ \A i \in gone : Free(i)
  /\ row' = [i \in Images |-> IF i \in gone THEN NoImage ELSE row[i]]
  /\ Discards(w, {Original(i) : i \in gone})
  /\ UNCHANGED <<file, queued, lost>>

\* Rows are locked and read again before their names are collected.
Remove(w, gone) ==
  /\ \A i \in gone : Free(i)
  /\ row' = [i \in Images |-> IF i \in gone THEN NoImage ELSE row[i]]
  /\ Discards(w, UNION {NamedBy(i) : i \in gone})
  /\ UNCHANGED <<file, queued, lost>>

\* delete_product_image_service
DeleteImage(w, i) ==
  /\ worker[w] = Idle
  /\ i \in Rows
  /\ Remove(w, {i})
  /\ UNCHANGED listed

\* delete_products_service, for a product no order names.
DeleteProduct(w, p) ==
  /\ worker[w] = Idle
  /\ p \in listed
  /\ ProductFree(p, Workers \ {w})
  /\ Remove(w, {i \in Rows : row[i].product = p})
  /\ listed' = listed \ {p}

\* Mutant of Unused: whatever was collected is deleted.
UnusedAnyway(names) == names

Unused(names) == names \ Referenced

\* The reference check of _delete_files and of the other cleanups, outside any
\* transaction. If it fails the files stay.
CheckReferences(w) ==
  LET names == worker[w].names
  IN  /\ worker[w].at = "discard"
      /\ \/ /\ Goes(w, IF Unused(names) = {} THEN Idle ELSE [at |-> "delete", names |-> Unused(names)])
            /\ UNCHANGED lost
         \/ /\ Goes(w, Idle)
            /\ lost' = lost \cup names
      /\ UNCHANGED <<listed, row, file, queued>>

\* Each deletion may fail on its own.
DeleteFiles(w) ==
  /\ worker[w].at = "delete"
  /\ \E failed \in SUBSET worker[w].names :
       /\ file' = [n \in Names |-> IF n \in worker[w].names \ failed THEN "absent" ELSE file[n]]
       /\ lost' = lost \cup failed
  /\ Goes(w, Idle)
  /\ UNCHANGED <<listed, row, queued>>

-----------------------------------------------------------------------------
(* generate_product_image_thumbnail *)

\* Mutant of ThumbnailIsValid: every delivery renders again.
NeverValid(i) == FALSE

\* _stored_thumbnail_is_valid, of the name the row holds.
ThumbnailIsValid(i) == row[i].thumb # "none" /\ file[Thumbnail(i)] = "good"

\* A delivery: the row is locked and looked at. It may be delivered again.
TakeTask(w, i) ==
  /\ worker[w] = Idle
  /\ queued[i]
  /\ i \in Rows => Free(i)
  /\ \E again \in BOOLEAN : queued' = [queued EXCEPT ![i] = again]
  /\ IF i \in Rows /\ ~ThumbnailIsValid(i)
     THEN Goes(w, [at |-> "render", image |-> i])
     ELSE UNCHANGED worker
  /\ UNCHANGED <<listed, row, file, lost>>

\* A failed attempt is retried (autoretry_for, three times) or given up.
Retry(i) == \E again \in BOOLEAN : queued' = [queued EXCEPT ![i] = @ \/ again]

\* Whatever has the image's own name is deleted and the thumbnail is saved.
SaveThumbnail(w) ==
  LET i == worker[w].image
  IN  /\ worker[w].at = "render"
      /\ file' = [file EXCEPT ![<<"own", i>>] = "good"]
      /\ lost' = lost \ {<<"own", i>>}
      /\ Goes(w, [at |-> "saved", image |-> i])
      /\ UNCHANGED <<listed, row, queued>>

\* The original cannot be read, or the storage fails: before the deletion, after
\* it, or with a part written. The service does not know a name to clean up.
RenderFails(w) ==
  LET i == worker[w].image
  IN  /\ worker[w].at = "render"
      /\ \E left \in {"absent", "bad", file[<<"own", i>>]} :
           file' = [file EXCEPT ![<<"own", i>>] = left]
      /\ lost' = lost \cup {<<"own", i>>}
      /\ Goes(w, Idle)
      /\ Retry(i)
      /\ UNCHANGED <<listed, row>>

ThumbnailNamed(i) == [row[i] EXCEPT !.thumb = "own"]

\* The commit; a thumbnail that was not valid is discarded after it.
CommitThumbnail(w) ==
  LET i == worker[w].image
  IN  /\ worker[w].at = "saved"
      /\ row' = [row EXCEPT ![i] = ThumbnailNamed(i)]
      /\ \/ /\ Discards(w, NamedBy(i) \ {Original(i)})
            /\ UNCHANGED lost
         \* committed, but taken for a failure: no callback runs
         \/ /\ Goes(w, [at |-> "cleanup", image |-> i])
            /\ lost' = lost \cup (NamedBy(i) \ {Original(i)})
      /\ UNCHANGED <<listed, file, queued>>

\* The transaction fails as a whole: the cleanup comes after it, without its lock.
ThumbnailRolledBack(w) ==
  /\ worker[w].at = "saved"
  /\ Goes(w, [at |-> "cleanup", image |-> worker[w].image])
  /\ UNCHANGED <<listed, row, file, queued, lost>>

\* The file is deleted unless a row names it, or that fails as well.
Withdraw(i) ==
  LET n == <<"own", i>>
  IN  \/ /\ file' = IF Unused({n}) = {} THEN file ELSE [file EXCEPT ![n] = "absent"]
         /\ UNCHANGED lost
      \/ /\ lost' = lost \cup {n}
         /\ UNCHANGED file

\* The inner block fails: the cleanup is part of the transaction.
ThumbnailNotRecorded(w) ==
  /\ worker[w].at = "saved"
  /\ Withdraw(worker[w].image)
  /\ Goes(w, Idle)
  /\ Retry(worker[w].image)
  /\ UNCHANGED <<listed, row>>

\* _delete_thumbnail_after_transaction_failure, which locks the row again.
CleanUpThumbnail(w) ==
  /\ worker[w].at = "cleanup"
  /\ worker[w].image \in Rows => Free(worker[w].image)
  /\ Withdraw(worker[w].image)
  /\ Goes(w, Idle)
  /\ Retry(worker[w].image)
  /\ UNCHANGED <<listed, row>>

-----------------------------------------------------------------------------
\* A process dies: its transaction rolls back, what it had in hand is left, and
\* the message of a task comes back.
WorkerLost(w) ==
  /\ worker[w] # Idle
  /\ lost' = lost \cup InHand(w)
  /\ Goes(w, Idle)
  /\ IF worker[w].at \in {"render", "saved", "cleanup"}
     THEN Retry(worker[w].image)
     ELSE UNCHANGED queued
  /\ UNCHANGED <<listed, row, file>>

\* External: a stored thumbnail is damaged.
ThumbnailDamaged(i) ==
  /\ i \in Rows
  /\ ThumbnailIsValid(i)
  /\ file' = [file EXCEPT ![Thumbnail(i)] = "bad"]
  /\ UNCHANGED <<listed, row, queued, worker, lost>>

Next ==
  \/ \E w \in Workers :
       \/ \E i \in Images, p \in Products, primary \in BOOLEAN,
             replaced \in {S \in SUBSET Images : Cardinality(S) <= 1} :
            StoreOriginal(w, i, p, primary, replaced)
       \/ CommitUpload(w)
       \/ RefuseUpload(w)
       \/ \E i \in Images : DeleteImage(w, i)
       \/ \E p \in Products : DeleteProduct(w, p)
       \/ CheckReferences(w)
       \/ DeleteFiles(w)
       \/ \E i \in Images : TakeTask(w, i)
       \/ SaveThumbnail(w)
       \/ RenderFails(w)
       \/ CommitThumbnail(w)
       \/ ThumbnailRolledBack(w)
       \/ ThumbnailNotRecorded(w)
       \/ CleanUpThumbnail(w)
       \/ WorkerLost(w)
  \/ \E i \in Images, primary \in BOOLEAN : UpdateImage(i, primary)
  \/ \E i \in Images : ThumbnailDamaged(i)

Spec == Init /\ [][Next]_vars

-----------------------------------------------------------------------------
(* Properties *)

TypeOK ==
  /\ listed \subseteq Products
  /\ row \in [Images -> ImageRow \cup {NoImage}]
  /\ file \in [Names -> {"absent", "good", "bad"}]
  /\ queued \in [Images -> BOOLEAN]
  /\ worker \in [Workers -> WorkerStates]
  /\ lost \subseteq Names

\* one_primary_image_per_product never has to refuse a write: whatever uploads,
\* forms and updates run at once, the product's lock keeps them apart.
OnePrimaryPerProduct == \A p \in Products : Cardinality(Primaries(p)) <= 1

RowsConsistent == TypeOK /\ OnePrimaryPerProduct

\* No cleanup takes the file of an image that the shop shows: not that of an
\* upload whose commit was taken for a failure, nor one collected earlier.
OriginalsStay == \A i \in Rows : file[Original(i)] # "absent"

\* docs/architecture.md: "row locking and validation of any referenced thumbnail
\* make Celery redelivery idempotent". No redelivery, retry or late cleanup
\* removes or renames a good thumbnail of an image that stays.
ThumbnailsStay ==
  [][\A i \in Rows :
       row[i].thumb # "none" /\ file[Thumbnail(i)] = "good" /\ row'[i] # NoImage =>
         row'[i].thumb = row[i].thumb /\ file'[Thumbnail(i)] # "absent"]_vars

\* "keeping storage cleanup consistent with concurrent thumbnail work": a stored
\* file that no row names is in the hands of a worker, or a crash or an error
\* that was logged left it.
NoFileLeftBehind ==
  \A n \in Names \ (Referenced \cup lost) :
    file[n] # "absent" => \E w \in Workers : n \in InHand(w)
=============================================================================
