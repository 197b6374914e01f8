--------------------------- MODULE CatalogProofs ---------------------------
(***************************************************************************)
(* Theorems about the catalogue: the rows and files of product images      *)
(* (ProductImages, first half) and the pages cached from the catalogue     *)
(* (CatalogCache, second half). The two share no state: a page shows what  *)
(* the database held when it was queried.                                  *)
(***************************************************************************)
EXTENDS ProductImages, CatalogCache, FiniteSetTheorems, TLAPS

-----------------------------------------------------------------------------
(* The invariant of product images                                         *)

\* No product has two primary images.
OnlyPrimary == \A p \in Products : \A i, j \in Primaries(p) : i = j

\* Rows are locked while they exist, by one worker each.
LocksHold ==
  /\ \A w \in Workers : Holds(w) \subseteq Rows
  /\ \A v, w \in Workers : v # w => Holds(v) \cap Holds(w) = {}

\* An upload's image is nobody else's, its file is there, and the primary rows it
\* found are still the only ones.
UploadReady(w) ==
  worker[w].at = "upload" =>
    /\ row[worker[w].image] = NoImage
    /\ file[Original(worker[w].image)] # "absent"
    /\ \A v \in Workers \ {w} : \A n \in InHand(v) : n[2] # worker[w].image
    /\ worker[w].demoted \cap worker[w].replaced = {}
    /\ worker[w].primary =>
         Primaries(worker[w].product) \subseteq worker[w].demoted \cup worker[w].replaced

\* No row will ever name n again: rows never go back to the flat name, and the
\* other names belong to rows that are gone.
NeverNamedAgain(n) ==
  n[2] \in Rows => n[1] = "flat" /\ row[n[2]].thumb # "flat"

\* Until the references are checked a cleanup may hold the name of a thumbnail in
\* use; from then on what it holds will never be named again.
CleanupSound(w) ==
  /\ worker[w].at = "discard" =>
       \A n \in worker[w].names : n[1] = "own" /\ n[2] \in Rows => row[n[2]].thumb = "own"
  /\ worker[w].at = "delete" => \A n \in worker[w].names : NeverNamedAgain(n)

\* A task replaces no thumbnail that is valid, but for the one it has just saved.
TaskSound(w) ==
  /\ worker[w].at = "render" => ~ThumbnailIsValid(worker[w].image)
  /\ worker[w].at = "saved" /\ ThumbnailIsValid(worker[w].image) =>
       row[worker[w].image].thumb = "own"

WorkersSound == \A w \in Workers : UploadReady(w) /\ CleanupSound(w) /\ TaskSound(w)

ImageInvariant ==
  /\ TypeOK
  /\ OnlyPrimary
  /\ LocksHold
  /\ WorkersSound
  /\ OriginalsStay
  /\ NoFileLeftBehind

-----------------------------------------------------------------------------
LEMMA WorkerFacts ==
  ASSUME TypeOK, NEW w \in Workers
  PROVE  /\ worker[w].at \in {"idle", "upload", "render", "saved", "cleanup", "discard", "delete"}
         /\ worker[w] = Idle <=> worker[w].at = "idle"
         /\ worker[w].at = "upload" =>
              /\ worker[w].image \in Images /\ worker[w].product \in Products
              /\ worker[w].primary \in BOOLEAN
              /\ worker[w].demoted \subseteq Images /\ worker[w].replaced \subseteq Images
         /\ worker[w].at \in {"render", "saved", "cleanup"} => worker[w].image \in Images
         /\ worker[w].at \in {"discard", "delete"} => worker[w].names \subseteq Names
  <1>1. worker[w] \in WorkerStates
    BY DEF TypeOK
  <1> QED
    BY <1>1 DEF WorkerStates, Idle

LEMMA RowFacts ==
  ASSUME TypeOK
  PROVE  /\ Rows \subseteq Images
         /\ \A i \in Rows : row[i] \in ImageRow
         /\ \A i \in Rows : row[i].thumb \in {"none", "flat", "own"}
         /\ \A i \in Images : i \notin Rows <=> row[i] = NoImage
  BY NoImageAssumption DEF TypeOK, Rows, ImageRow

LEMMA NameFacts ==
  /\ \A i \in Images : Original(i) \in Names /\ <<"own", i>> \in Names /\ <<"flat", i>> \in Names
  /\ \A n \in Names : n = <<n[1], n[2]>> /\ n[1] \in {"original", "flat", "own"} /\ n[2] \in Images
  BY DEF Names, Original

\* What the names of a row are.
LEMMA NamedFacts ==
  ASSUME TypeOK
  PROVE  /\ \A i \in Rows : \A n \in NamedBy(i) :
              /\ n \in Names /\ n[2] = i
              /\ n[1] = "original" \/ n[1] = row[i].thumb
         /\ \A i \in Rows : Original(i) \in NamedBy(i)
         /\ \A i \in Rows : row[i].thumb # "none" => Thumbnail(i) \in NamedBy(i)
         /\ \A n \in Names : n \in Referenced <=>
              n[2] \in Rows /\ (n[1] = "original" \/ n[1] = row[n[2]].thumb)
  <1>1. /\ \A i \in Rows : \A n \in NamedBy(i) :
              /\ n \in Names /\ n[2] = i
              /\ n[1] = "original" \/ n[1] = row[i].thumb
        /\ \A i \in Rows : Original(i) \in NamedBy(i)
        /\ \A i \in Rows : row[i].thumb # "none" => Thumbnail(i) \in NamedBy(i)
    BY RowFacts, NameFacts DEF NamedBy, Original, Thumbnail, Names
  <1>2. ASSUME NEW n \in Names
        PROVE  n \in Referenced <=> n[2] \in Rows /\ (n[1] = "original" \/ n[1] = row[n[2]].thumb)
    <2>1. n \in Referenced => n[2] \in Rows /\ (n[1] = "original" \/ n[1] = row[n[2]].thumb)
      BY <1>1 DEF Referenced
    <2>2. ASSUME n[2] \in Rows, n[1] = "original" \/ n[1] = row[n[2]].thumb
          PROVE  n \in NamedBy(n[2])
      BY <2>2, NameFacts, RowFacts DEF NamedBy, Original, Thumbnail
    <2> QED
      BY <2>1, <2>2 DEF Referenced
  <1> QED
    BY <1>1, <1>2

\* What a worker has in hand.
LEMMA HandFacts ==
  ASSUME TypeOK, NEW w \in Workers
  PROVE  /\ InHand(w) \subseteq Names
         /\ worker[w].at = "upload" => InHand(w) = {Original(worker[w].image)}
         /\ worker[w].at \in {"saved", "cleanup"} => InHand(w) = {<<"own", worker[w].image>>}
         /\ worker[w].at \in {"discard", "delete"} => InHand(w) = worker[w].names
         /\ worker[w].at \in {"idle", "render"} => InHand(w) = {}
         /\ worker[w].at = "upload" => Holds(w) = worker[w].demoted \cup worker[w].replaced
         /\ worker[w].at \in {"render", "saved"} => Holds(w) = {worker[w].image}
         /\ worker[w].at \in {"idle", "cleanup", "discard", "delete"} => Holds(w) = {}
  BY WorkerFacts, NameFacts DEF InHand, Holds

LEMMA GoesOn ==
  ASSUME TypeOK, NEW w \in Workers, NEW s, Goes(w, s)
  PROVE  worker'[w] = s /\ \A v \in Workers \ {w} : worker'[v] = worker[v]
  BY DEF Goes, TypeOK

LEMMA DiscardsOn ==
  ASSUME TypeOK, NEW w \in Workers, NEW names, names \subseteq Names, Discards(w, names)
  PROVE  /\ Goes(w, IF names = {} THEN Idle ELSE [at |-> "discard", names |-> names])
         /\ InHand(w)' = names
         /\ Holds(w)' = {}
         /\ worker'[w] \in WorkerStates
         /\ names = {} => worker'[w] = Idle
         /\ names # {} => worker'[w].at = "discard" /\ worker'[w].names = names
         /\ \A v \in Workers \ {w} : worker'[v] = worker[v]
  <1>1. Goes(w, IF names = {} THEN Idle ELSE [at |-> "discard", names |-> names])
    BY DEF Discards
  <1>2. /\ worker'[w] = IF names = {} THEN Idle ELSE [at |-> "discard", names |-> names]
        /\ \A v \in Workers \ {w} : worker'[v] = worker[v]
    BY <1>1, GoesOn
  <1>3. CASE names = {}
    BY <1>1, <1>2, <1>3 DEF InHand, Holds, Idle, WorkerStates
  <1>4. CASE names # {}
    BY <1>1, <1>2, <1>4 DEF InHand, Holds, WorkerStates
  <1> QED
    BY <1>3, <1>4

-----------------------------------------------------------------------------
(* What a step must not do to the workers that do not take it              *)

\* Their locks are respected, and the images and files they have in hand stay
\* theirs.
Undisturbed(others) ==
  /\ \A v \in others : worker'[v] = worker[v]
  /\ \A v \in others : \A i \in Holds(v) : row'[i] = row[i]
  /\ \A i \in Rows' \ Rows : \A v \in others : \A n \in InHand(v) : n[2] # i
  /\ \A i \in Rows' \cap Rows : row'[i].thumb \in {row[i].thumb, "own"}
  /\ \A v \in others : \A i \in Holds(v), kind \in {"flat", "own"} :
       file'[<<kind, i>>] = "good" => file[<<kind, i>>] = "good"
  /\ \A v \in others :
       worker[v].at = "upload" =>
         /\ file'[Original(worker[v].image)] # "absent"
         /\ worker[v].primary =>
              Primaries(worker[v].product)' \subseteq Primaries(worker[v].product)
         /\ \A u \in Workers \ others : \A n \in InHand(u)' : n[2] # worker[v].image

LEMMA OthersSound ==
  ASSUME ImageInvariant, TypeOK', NEW others \in SUBSET Workers, Undisturbed(others)
  PROVE  /\ \A v \in others : (UploadReady(v) /\ CleanupSound(v) /\ TaskSound(v))'
         /\ \A v \in others : Holds(v)' = Holds(v) /\ InHand(v)' = InHand(v)
         /\ \A v \in others : Holds(v) \subseteq Rows'
  <1>1. ASSUME NEW v \in others
        PROVE  /\ worker'[v] = worker[v]
               /\ Holds(v)' = Holds(v) /\ InHand(v)' = InHand(v)
               /\ v \in Workers
    BY <1>1 DEF Undisturbed, Holds, InHand, Original
  <1>2. ASSUME NEW v \in others
        PROVE  Holds(v) \subseteq Rows'
    <2>1. Holds(v) \subseteq Rows
      BY <1>1 DEF ImageInvariant, LocksHold
    <2>2. \A i \in Holds(v) : row'[i] = row[i]
      BY DEF Undisturbed
    <2> QED
      BY <2>1, <2>2 DEF Rows
  <1>3. ASSUME NEW v \in others
        PROVE  UploadReady(v)'
    <2>1. SUFFICES ASSUME worker[v].at = "upload"
                   PROVE  UploadReady(v)'
      BY <1>1 DEF UploadReady
    <2>2. UploadReady(v)
      BY <1>1 DEF ImageInvariant, WorkersSound
    <2>3. row'[worker[v].image] = NoImage
      <3>1. worker[v].image \in Images /\ worker[v].image \notin Rows
        BY <1>1, <2>1, <2>2, WorkerFacts DEF UploadReady, ImageInvariant, Rows
      <3>2. InHand(v) = {Original(worker[v].image)}
        BY <1>1, <2>1, HandFacts DEF ImageInvariant
      <3>3. worker[v].image \notin Rows'
        BY <3>1, <3>2 DEF Undisturbed, Original
      <3> QED
        BY <3>1, <3>3 DEF Rows
    <2>4. file'[Original(worker[v].image)] # "absent"
      BY <2>1 DEF Undisturbed
    <2>5. ASSUME NEW u \in Workers \ {v}, NEW n \in InHand(u)'
          PROVE  n[2] # worker[v].image
      <3>1. CASE u \in others
        BY <1>1, <2>1, <2>2, <2>5, <3>1 DEF UploadReady
      <3>2. CASE u \notin others
        BY <2>1, <2>5, <3>2 DEF Undisturbed
      <3> QED
        BY <3>1, <3>2
    <2>6. worker[v].primary =>
            Primaries(worker[v].product)' \subseteq worker[v].demoted \cup worker[v].replaced
      BY <2>1, <2>2 DEF Undisturbed, UploadReady
    <2>7. worker[v].demoted \cap worker[v].replaced = {}
      BY <2>1, <2>2 DEF UploadReady
    <2> QED
      BY <1>1, <2>3, <2>4, <2>5, <2>6, <2>7 DEF UploadReady, Original, Primaries
  <1>4. ASSUME NEW v \in others
        PROVE  CleanupSound(v)'
    <2>1. CleanupSound(v)
      BY <1>1 DEF ImageInvariant, WorkersSound
    <2>2. ASSUME NEW n \in InHand(v), n[2] \in Rows'
          PROVE  n[2] \in Rows /\ row'[n[2]].thumb \in {row[n[2]].thumb, "own"}
      BY <2>2 DEF Undisturbed
    <2>3. worker[v].at \in {"discard", "delete"} => InHand(v) = worker[v].names
      BY <1>1, HandFacts DEF ImageInvariant
    <2> QED
      BY <1>1, <2>1, <2>2, <2>3 DEF CleanupSound, NeverNamedAgain
  <1>5. ASSUME NEW v \in others
        PROVE  TaskSound(v)'
    <2>1. SUFFICES ASSUME worker[v].at \in {"render", "saved"}
                   PROVE  TaskSound(v)'
      BY <1>1 DEF TaskSound
    <2>2. worker[v].image \in Holds(v) /\ worker[v].image \in Rows
      BY <1>1, <2>1, HandFacts DEF ImageInvariant, LocksHold
    <2>3. row'[worker[v].image] = row[worker[v].image]
      BY <2>2 DEF Undisturbed
    <2>4. row[worker[v].image].thumb \in {"none", "flat", "own"}
      BY <2>2, RowFacts DEF ImageInvariant
    <2>5. ThumbnailIsValid(worker[v].image)' => ThumbnailIsValid(worker[v].image)
      <3>1. \A kind \in {"flat", "own"} :
              file'[<<kind, worker[v].image>>] = "good" => file[<<kind, worker[v].image>>] = "good"
        BY <2>2 DEF Undisturbed
      <3> QED
        BY <1>1, <2>3, <2>4, <3>1 DEF ThumbnailIsValid, Thumbnail
    <2> QED
      BY <1>1, <2>1, <2>3, <2>5 DEF TaskSound, ImageInvariant, WorkersSound
  <1> QED
    BY <1>1, <1>2, <1>3, <1>4, <1>5

\* The same, put together for the step of one worker.
LEMMA WorkerStepSound ==
  ASSUME ImageInvariant, TypeOK', NEW w \in Workers, Undisturbed(Workers \ {w}),
         (UploadReady(w) /\ CleanupSound(w) /\ TaskSound(w))',
         Holds(w)' \subseteq Rows',
         \A v \in Workers \ {w} : Holds(w)' \cap Holds(v) = {}
  PROVE  LocksHold' /\ WorkersSound'
  <1>1. \A v \in Workers \ {w} :
          /\ (UploadReady(v) /\ CleanupSound(v) /\ TaskSound(v))'
          /\ Holds(v)' = Holds(v) /\ Holds(v) \subseteq Rows'
    BY OthersSound
  <1>2. WorkersSound'
    BY <1>1 DEF WorkersSound
  <1>3. LocksHold'
    BY <1>1 DEF LocksHold, ImageInvariant
  <1> QED
    BY <1>2, <1>3

\* A step that leaves the rows alone disturbs nobody if it leaves their files.
LEMMA RowsUntouched ==
  ASSUME ImageInvariant, NEW w \in Workers, row' = row,
         \A v \in Workers \ {w} : worker'[v] = worker[v],
         \A v \in Workers \ {w} : \A i \in Holds(v), kind \in {"flat", "own"} :
           file'[<<kind, i>>] = "good" => file[<<kind, i>>] = "good",
         \A n \in Names : file'[n] = "absent" =>
           file[n] = "absent" \/ n \in InHand(w) \/ n[1] # "original",
         \A v \in Workers \ {w} : worker[v].at = "upload" =>
           \A n \in InHand(w)' : n[2] # worker[v].image
  PROVE  Undisturbed(Workers \ {w}) /\ Rows' = Rows /\ OnlyPrimary'
         /\ \A p \in Products : Primaries(p)' = Primaries(p)
  <1>1. Rows' = Rows /\ \A p : Primaries(p)' = Primaries(p)
    BY DEF Rows, Primaries
  <1>2. ASSUME NEW v \in Workers \ {w}, worker[v].at = "upload"
        PROVE  file'[Original(worker[v].image)] # "absent"
    <2>1. UploadReady(v) /\ worker[v].image \in Images
      BY <1>2, WorkerFacts DEF ImageInvariant, WorkersSound
    <2>2. /\ Original(worker[v].image) \in Names
          /\ Original(worker[v].image)[1] = "original"
          /\ Original(worker[v].image)[2] = worker[v].image
      BY <2>1, NameFacts DEF Original
    <2> QED
      BY <1>2, <2>1, <2>2 DEF UploadReady
  <1>3. OnlyPrimary'
    BY <1>1 DEF OnlyPrimary, ImageInvariant
  <1> QED
    BY <1>1, <1>2, <1>3 DEF Undisturbed

\* A stored file stays accounted for if the step leaves the other workers alone
\* and answers for what it takes from a row, from the books or from its hands.
LEMMA FilesAccounted ==
  ASSUME ImageInvariant, NEW w \in Workers,
         \A v \in Workers \ {w} : InHand(v)' = InHand(v),
         \A n \in Names : file'[n] # "absent" /\ n \notin lost' /\ n \notin Referenced' =>
           \/ n \in InHand(w)'
           \/ file[n] # "absent" /\ n \notin lost /\ n \notin Referenced /\ n \notin InHand(w)
  PROVE  NoFileLeftBehind'
  BY DEF ImageInvariant, NoFileLeftBehind, Names

\* The step of ThumbnailsStay.
KeepsThumbnails ==
  \A i \in Rows :
    row[i].thumb # "none" /\ file[Thumbnail(i)] = "good" /\ row'[i] # NoImage =>
      row'[i].thumb = row[i].thumb /\ file'[Thumbnail(i)] # "absent"

LEMMA SameRowsSameNames ==
  ASSUME row' = row
  PROVE  Referenced' = Referenced /\ Rows' = Rows
  BY DEF Referenced, Rows, NamedBy, Original, Thumbnail

-----------------------------------------------------------------------------
(* Types                                                                   *)

LEMMA WorkerTyped ==
  ASSUME TypeOK, NEW w \in Workers, NEW s \in WorkerStates, Goes(w, s)
  PROVE  worker' \in [Workers -> WorkerStates]
  BY DEF TypeOK, Goes

LEMMA DiscardsTyped ==
  ASSUME TypeOK, NEW w \in Workers, NEW names, names \subseteq Names, Discards(w, names)
  PROVE  worker' \in [Workers -> WorkerStates]
  <1>1. (IF names = {} THEN Idle ELSE [at |-> "discard", names |-> names]) \in WorkerStates
    BY DEF WorkerStates
  <1> QED
    BY <1>1, WorkerTyped, DiscardsOn

LEMMA TaskTyped ==
  /\ \A i \in Images : [at |-> "render", image |-> i] \in WorkerStates
  /\ \A i \in Images : [at |-> "saved", image |-> i] \in WorkerStates
  /\ \A i \in Images : [at |-> "cleanup", image |-> i] \in WorkerStates
  /\ Idle \in WorkerStates
  BY DEF WorkerStates

LEMMA NamedTyped ==
  ASSUME TypeOK, NEW S \in SUBSET Rows
  PROVE  UNION {NamedBy(i) : i \in S} \subseteq Names
  BY NamedFacts

LEMMA RetryTyped ==
  ASSUME TypeOK, NEW i \in Images, Retry(i)
  PROVE  queued' \in [Images -> BOOLEAN]
  BY DEF Retry, TypeOK

LEMMA WithdrawTyped ==
  ASSUME TypeOK, NEW i \in Images, Withdraw(i)
  PROVE  file' \in [Names -> {"absent", "good", "bad"}] /\ lost' \subseteq Names
  BY NameFacts DEF Withdraw, TypeOK

LEMMA TypesKept ==
  ASSUME TypeOK, LocksHold, [Next]_vars
  PROVE  TypeOK'
  <1> USE DEF TypeOK
  <1>1. ASSUME NEW w \in Workers, NEW i \in Images, NEW p \in Products, NEW primary \in BOOLEAN,
               NEW replaced \in SUBSET Images, StoreOriginal(w, i, p, primary, replaced)
        PROVE  TypeOK'
    <2> DEFINE demoted == IF primary THEN Primaries(p) \ replaced ELSE {}
               up == [at |-> "upload", image |-> i, product |-> p, primary |-> primary,
                      demoted |-> demoted, replaced |-> replaced]
    <2>1. demoted \subseteq Images
      BY DEF Primaries, Rows
    <2>2. up \in WorkerStates
      BY <2>1 DEF WorkerStates
    <2>3. worker' \in [Workers -> WorkerStates]
      BY <1>1, <2>2, WorkerTyped DEF StoreOriginal
    <2>4. file' \in [Names -> {"absent", "good", "bad"}]
      BY <1>1 DEF StoreOriginal
    <2> QED
      BY <1>1, <2>3, <2>4 DEF StoreOriginal
  <1>2. ASSUME NEW w \in Workers, CommitUpload(w)
        PROVE  TypeOK'
    <2>1. /\ worker[w].image \in Images /\ worker[w].product \in Products
          /\ worker[w].primary \in BOOLEAN
          /\ worker[w].replaced \subseteq Rows /\ worker[w].demoted \subseteq Rows
      BY <1>2, WorkerFacts, HandFacts DEF CommitUpload, LocksHold
    <2>2. row' \in [Images -> ImageRow \cup {NoImage}]
      <3>1. \A i \in worker[w].demoted : [row[i] EXCEPT !.primary = FALSE] \in ImageRow
        BY <2>1, RowFacts DEF ImageRow
      <3>2. [product |-> worker[w].product, primary |-> worker[w].primary, thumb |-> "none"] \in ImageRow
        BY <2>1 DEF ImageRow
      <3> QED
        BY <1>2, <3>1, <3>2 DEF CommitUpload, RowsAfter
    <2>3. UNION {NamedBy(r) : r \in worker[w].replaced} \subseteq Names
      BY <2>1, NamedTyped
    <2>4. {Original(worker[w].image)} \subseteq Names
      BY <2>1, NameFacts
    <2>5. worker' \in [Workers -> WorkerStates]
      BY <1>2, <2>3, <2>4, DiscardsTyped DEF CommitUpload
    <2>6. queued' \in [Images -> BOOLEAN] /\ lost' \subseteq Names
      BY <1>2, <2>1, <2>3 DEF CommitUpload
    <2> QED
      BY <1>2, <2>2, <2>5, <2>6 DEF CommitUpload
  <1>3. ASSUME NEW w \in Workers, RefuseUpload(w)
        PROVE  TypeOK'
    <2>1. {Original(worker[w].image)} \subseteq Names
      BY <1>3, WorkerFacts, NameFacts DEF RefuseUpload
    <2> QED
      BY <1>3, <2>1, DiscardsTyped DEF RefuseUpload
  <1>4. ASSUME NEW w \in Workers, NEW gone \in SUBSET Rows, Remove(w, gone), listed' \subseteq listed
        PROVE  TypeOK'
    BY <1>4, NamedTyped, DiscardsTyped DEF Remove
  <1>5. ASSUME NEW w \in Workers, CheckReferences(w)
        PROVE  TypeOK'
    <2>1. worker[w].names \subseteq Names
      BY <1>5, WorkerFacts DEF CheckReferences
    <2>2. [at |-> "delete", names |-> Unused(worker[w].names)] \in WorkerStates
      BY <2>1 DEF WorkerStates, Unused
    <2>3. PICK s \in WorkerStates : Goes(w, s)
      BY <1>5, <2>2, TaskTyped DEF CheckReferences
    <2> QED
      BY <1>5, <2>1, <2>3, WorkerTyped DEF CheckReferences
  <1>6. ASSUME NEW w \in Workers, DeleteFiles(w)
        PROVE  TypeOK'
    <2>1. worker[w].names \subseteq Names
      BY <1>6, WorkerFacts DEF DeleteFiles
    <2> QED
      BY <1>6, <2>1, TaskTyped, WorkerTyped DEF DeleteFiles
  <1>7. ASSUME NEW w \in Workers, NEW i \in Images, TakeTask(w, i)
        PROVE  TypeOK'
    <2>1. worker' \in [Workers -> WorkerStates]
      BY <1>7, TaskTyped, WorkerTyped DEF TakeTask
    <2> QED
      BY <1>7, <2>1 DEF TakeTask
  <1>8. ASSUME NEW w \in Workers, SaveThumbnail(w)
        PROVE  TypeOK'
    <2>1. worker[w].image \in Images
      BY <1>8, WorkerFacts DEF SaveThumbnail
    <2> QED
      BY <1>8, <2>1, TaskTyped, WorkerTyped DEF SaveThumbnail
  <1>9. ASSUME NEW w \in Workers, RenderFails(w)
        PROVE  TypeOK'
    <2>1. worker[w].image \in Images
      BY <1>9, WorkerFacts DEF RenderFails
    <2>2. file' \in [Names -> {"absent", "good", "bad"}] /\ lost' \subseteq Names
      <3>1. <<"own", worker[w].image>> \in Names
        BY <2>1, NameFacts
      <3>2. PICK left \in {"absent", "bad", file[<<"own", worker[w].image>>]} :
              file' = [file EXCEPT ![<<"own", worker[w].image>>] = left]
        BY <1>9 DEF RenderFails
      <3> QED
        BY <1>9, <3>1, <3>2 DEF RenderFails
    <2> QED
      BY <1>9, <2>1, <2>2, TaskTyped, WorkerTyped, RetryTyped DEF RenderFails
  <1>10. ASSUME NEW w \in Workers, CommitThumbnail(w)
         PROVE  TypeOK'
    <2>1. worker[w].image \in Rows
      BY <1>10, HandFacts DEF CommitThumbnail, LocksHold
    <2>2. ThumbnailNamed(worker[w].image) \in ImageRow
      BY <2>1, RowFacts DEF ThumbnailNamed, ImageRow
    <2>3. row' \in [Images -> ImageRow \cup {NoImage}]
      BY <1>10, <2>2 DEF CommitThumbnail
    <2>4. NamedBy(worker[w].image) \ {Original(worker[w].image)} \subseteq Names
      BY <2>1, NamedFacts
    <2>5. worker[w].image \in Images
      BY <2>1, RowFacts
    <2>6. worker' \in [Workers -> WorkerStates] /\ lost' \subseteq Names
      BY <1>10, <2>4, <2>5, TaskTyped, WorkerTyped, DiscardsTyped DEF CommitThumbnail
    <2> QED
      BY <1>10, <2>3, <2>6 DEF CommitThumbnail
  <1>11. ASSUME NEW w \in Workers, ThumbnailRolledBack(w)
         PROVE  TypeOK'
    BY <1>11, WorkerFacts, TaskTyped, WorkerTyped DEF ThumbnailRolledBack
  <1>12. ASSUME NEW w \in Workers, ThumbnailNotRecorded(w) \/ CleanUpThumbnail(w)
         PROVE  TypeOK'
    <2>1. worker[w].image \in Images
      BY <1>12, WorkerFacts DEF ThumbnailNotRecorded, CleanUpThumbnail
    <2> QED
      BY <1>12, <2>1, TaskTyped, WorkerTyped, RetryTyped, WithdrawTyped
      DEF ThumbnailNotRecorded, CleanUpThumbnail
  <1>13. ASSUME NEW w \in Workers, WorkerLost(w)
         PROVE  TypeOK'
    <2>1. queued' \in [Images -> BOOLEAN]
      BY <1>13, WorkerFacts, RetryTyped DEF WorkerLost
    <2>2. lost' \subseteq Names
      BY <1>13, HandFacts DEF WorkerLost
    <2> QED
      BY <1>13, <2>1, <2>2, TaskTyped, WorkerTyped DEF WorkerLost
  <1>14. ASSUME NEW i \in Images, NEW primary \in BOOLEAN, UpdateImage(i, primary)
         PROVE  TypeOK'
    <2> DEFINE demoted == IF primary THEN Primaries(row[i].product) \ {i} ELSE {}
    <2>1. i \in Rows /\ demoted \subseteq Rows
      BY <1>14 DEF UpdateImage, Primaries
    <2>2. /\ [row[i] EXCEPT !.primary = primary] \in ImageRow
          /\ \A r \in demoted : [row[r] EXCEPT !.primary = FALSE] \in ImageRow
      BY <2>1, RowFacts DEF ImageRow
    <2>3. row' \in [Images -> ImageRow \cup {NoImage}]
      BY <1>14, <2>2 DEF UpdateImage
    <2> QED
      BY <1>14, <2>3 DEF UpdateImage
  <1>15. ASSUME NEW i \in Images, ThumbnailDamaged(i)
         PROVE  TypeOK'
    BY <1>15 DEF ThumbnailDamaged
  <1>16. CASE UNCHANGED vars
    BY <1>16 DEF vars, WorkerStates
  <1>17. ASSUME NEW w \in Workers, NEW i \in Images, DeleteImage(w, i)
         PROVE  TypeOK'
    BY <1>17, <1>4 DEF DeleteImage
  <1>18. ASSUME NEW w \in Workers, NEW p \in Products, DeleteProduct(w, p)
         PROVE  TypeOK'
    BY <1>18, <1>4 DEF DeleteProduct
  <1> QED
    BY <1>1, <1>2, <1>3, <1>5, <1>6, <1>7, <1>8, <1>9, <1>10, <1>11, <1>12, <1>13, <1>14,
       <1>15, <1>16, <1>17, <1>18
    DEF Next

-----------------------------------------------------------------------------
(* The steps that leave the rows as they are                               *)

\* All that a step has to bring about.
StepSound ==
  /\ (OnlyPrimary /\ LocksHold /\ WorkersSound /\ OriginalsStay /\ NoFileLeftBehind)'
  /\ KeepsThumbnails

\* Nothing is lost to the shop while the files that rows name stay; a thumbnail
\* that was no good may go.
LEMMA ReferencedFilesStay ==
  ASSUME ImageInvariant, row' = row,
         \A n \in Referenced : file'[n] = "absent" =>
           file[n] = "absent" \/ (n[1] # "original" /\ file[n] # "good")
  PROVE  OriginalsStay' /\ KeepsThumbnails
  <1>1. \A i \in Rows : Original(i) \in Referenced
    BY NamedFacts DEF ImageInvariant, Referenced
  <1>2. \A i \in Rows : row[i].thumb # "none" => Thumbnail(i) \in Referenced
    BY NamedFacts DEF ImageInvariant, Referenced
  <1>3. OriginalsStay'
    <2>1. \A i \in Rows : file'[Original(i)] # "absent"
      BY <1>1 DEF ImageInvariant, OriginalsStay, Original
    <2> QED
      BY <2>1, SameRowsSameNames DEF OriginalsStay, Original
  <1>4. KeepsThumbnails
    BY <1>2 DEF KeepsThumbnails
  <1> QED
    BY <1>3, <1>4

LEMMA StoreOriginalSound ==
  ASSUME ImageInvariant, TypeOK', NEW w \in Workers, NEW i \in Images, NEW p \in Products,
         NEW primary \in BOOLEAN, NEW replaced \in SUBSET Images,
         StoreOriginal(w, i, p, primary, replaced)
  PROVE  StepSound
  <1> DEFINE demoted == IF primary THEN Primaries(p) \ replaced ELSE {}
             up == [at |-> "upload", image |-> i, product |-> p, primary |-> primary,
                    demoted |-> demoted, replaced |-> replaced]
  <1>1. /\ worker'[w] = up
        /\ \A v \in Workers \ {w} : worker'[v] = worker[v]
        /\ worker[w] = Idle
        /\ row' = row
        /\ file' = [file EXCEPT ![Original(i)] = "good"]
        /\ lost' = {n \in lost : n[2] # i}
        /\ Forgotten(i)
    BY GoesOn DEF StoreOriginal, ImageInvariant
  <1>2. Holds(w)' = demoted \cup replaced /\ InHand(w)' = {Original(i)}
    BY <1>1 DEF Holds, InHand, Original
  <1>3. InHand(w) = {} /\ Holds(w) = {}
    BY <1>1, HandFacts DEF ImageInvariant, Idle
  <1>4. /\ Original(i) \in Names
        /\ \A n \in Names : file'[n] = IF n = Original(i) THEN "good" ELSE file[n]
    BY <1>1, NameFacts DEF ImageInvariant, TypeOK
  <1>5. \A v \in Workers \ {w} : \A n \in InHand(v) : n[2] # i
    BY <1>1 DEF Forgotten
  <1>6. ASSUME NEW v \in Workers \ {w}, worker[v].at = "upload"
        PROVE  \A n \in InHand(w)' : n[2] # worker[v].image
    <2>1. InHand(v) = {Original(worker[v].image)}
      BY <1>6, HandFacts DEF ImageInvariant
    <2> QED
      BY <1>2, <1>5, <2>1 DEF Original
  <1>7. ASSUME NEW v \in Workers \ {w}, NEW j \in Holds(v), NEW kind \in {"flat", "own"}
        PROVE  file'[<<kind, j>>] = file[<<kind, j>>]
    <2>1. <<kind, j>> \in Names /\ <<kind, j>> # Original(i)
      BY NameFacts, RowFacts DEF ImageInvariant, LocksHold, Original
    <2> QED
      BY <1>4, <2>1
  <1>8. Undisturbed(Workers \ {w}) /\ Rows' = Rows /\ OnlyPrimary' /\ Primaries(p)' = Primaries(p)
    BY <1>1, <1>4, <1>6, <1>7, RowsUntouched
  <1>9. UploadReady(w)' /\ CleanupSound(w)' /\ TaskSound(w)'
    <2>1. row'[i] = NoImage /\ file'[Original(i)] = "good"
      BY <1>1, <1>4 DEF Forgotten
    <2>2. \A v \in Workers \ {w} : InHand(v)' = InHand(v)
      BY <1>1 DEF InHand, Original
    <2>3. primary => Primaries(p)' \subseteq demoted \cup replaced
      BY <1>8
    <2>4. demoted \cap replaced = {}
      OBVIOUS
    <2> QED
      BY <1>1, <1>5, <2>1, <2>2, <2>3, <2>4 DEF UploadReady, CleanupSound, TaskSound, Original, Primaries
  <1>10. Holds(w)' \subseteq Rows' /\ \A v \in Workers \ {w} : Holds(w)' \cap Holds(v) = {}
    <2>1. demoted \cup replaced \subseteq Rows /\ \A r \in demoted \cup replaced : Free(r)
      BY DEF StoreOriginal, Primaries
    <2> QED
      BY <1>2, <1>8, <2>1 DEF Free
  <1>11. LocksHold' /\ WorkersSound'
    BY <1>8, <1>9, <1>10, WorkerStepSound
  <1>12. OriginalsStay' /\ KeepsThumbnails
    BY <1>1, <1>4, NamedFacts, ReferencedFilesStay DEF ImageInvariant
  <1>13. NoFileLeftBehind'
    <2>1. \A v \in Workers \ {w} : InHand(v)' = InHand(v)
      BY <1>1 DEF InHand, Original
    <2>2. ASSUME NEW n \in Names, file'[n] # "absent", n \notin lost', n \notin Referenced',
                 n \notin InHand(w)'
          PROVE  file[n] # "absent" /\ n \notin lost /\ n \notin Referenced
      <3>1. n # Original(i) /\ file[n] # "absent"
        BY <1>2, <1>4, <2>2
      <3>2. n[2] # i
        BY <1>1, <3>1, NameFacts DEF Forgotten
      <3> QED
        BY <1>1, <2>2, <3>1, <3>2, SameRowsSameNames
    <2> QED
      BY <1>3, <2>1, <2>2, FilesAccounted
  <1> QED
    BY <1>8, <1>11, <1>12, <1>13 DEF StepSound

\* A worker that puts down or hands on what it has, or takes up a cleanup.
LEMMA HandedOn ==
  ASSUME ImageInvariant, TypeOK', NEW w \in Workers, row' = row, file' = file,
         \A v \in Workers \ {w} : worker'[v] = worker[v],
         Holds(w)' \subseteq Holds(w), lost \subseteq lost',
         InHand(w)' \subseteq InHand(w),
         \A n \in InHand(w) : n \in lost' \/ n \in Referenced \/ n \in InHand(w)',
         (UploadReady(w) /\ CleanupSound(w) /\ TaskSound(w))'
  PROVE  StepSound
  <1>1. ASSUME NEW v \in Workers \ {w}, worker[v].at = "upload"
        PROVE  \A n \in InHand(w)' : n[2] # worker[v].image
    BY <1>1 DEF ImageInvariant, WorkersSound, UploadReady
  <1>2. Undisturbed(Workers \ {w}) /\ Rows' = Rows /\ OnlyPrimary'
    BY <1>1, RowsUntouched
  <1>3. Holds(w)' \subseteq Rows' /\ \A v \in Workers \ {w} : Holds(w)' \cap Holds(v) = {}
    BY <1>2 DEF ImageInvariant, LocksHold
  <1>4. LocksHold' /\ WorkersSound'
    BY <1>2, <1>3, WorkerStepSound
  <1>5. OriginalsStay' /\ KeepsThumbnails
    BY ReferencedFilesStay
  <1>6. NoFileLeftBehind'
    <2>1. \A v \in Workers \ {w} : InHand(v)' = InHand(v)
      BY DEF InHand, Original
    <2>2. Referenced' = Referenced
      BY SameRowsSameNames
    <2> QED
      BY <2>1, <2>2, FilesAccounted
  <1> QED
    BY <1>2, <1>4, <1>5, <1>6 DEF StepSound

LEMMA RefuseUploadSound ==
  ASSUME ImageInvariant, TypeOK', NEW w \in Workers, RefuseUpload(w)
  PROVE  StepSound
  <1> DEFINE names == {Original(worker[w].image)}
  <1>1. names \subseteq Names /\ InHand(w) = names
    BY WorkerFacts, NameFacts, HandFacts DEF RefuseUpload, ImageInvariant
  <1>2. /\ InHand(w)' = names /\ Holds(w)' = {}
        /\ worker'[w].at = "discard" /\ worker'[w].names = names
        /\ \A v \in Workers \ {w} : worker'[v] = worker[v]
    <2>1. TypeOK /\ Discards(w, names) /\ names # {}
      BY DEF RefuseUpload, ImageInvariant
    <2> HIDE DEF names
    <2> QED
      BY <1>1, <2>1, DiscardsOn
  <1>3. (UploadReady(w) /\ CleanupSound(w) /\ TaskSound(w))'
    BY <1>2 DEF UploadReady, CleanupSound, TaskSound, Original
  <1>4. row' = row /\ file' = file /\ lost' = lost
    BY DEF RefuseUpload
  <1> QED
    BY <1>1, <1>2, <1>3, <1>4, HandedOn

LEMMA CheckReferencesSound ==
  ASSUME ImageInvariant, TypeOK', NEW w \in Workers, CheckReferences(w)
  PROVE  StepSound
  <1> DEFINE names == worker[w].names
  <1>1. names \subseteq Names /\ InHand(w) = names /\ worker[w].at = "discard" /\ TypeOK
    BY WorkerFacts, HandFacts DEF CheckReferences, ImageInvariant
  <1>2. row' = row /\ file' = file /\ lost \subseteq lost'
    BY DEF CheckReferences
  <1>3. CASE Goes(w, [at |-> "delete", names |-> Unused(names)])
    <2>1. /\ worker'[w] = [at |-> "delete", names |-> Unused(names)]
          /\ \A v \in Workers \ {w} : worker'[v] = worker[v]
      BY <1>1, <1>3, GoesOn
    <2>2. InHand(w)' = Unused(names) /\ Holds(w)' = {}
      BY <2>1 DEF InHand, Holds
    <2>3. \A n \in Unused(names) : NeverNamedAgain(n)
      <3>1. \A n \in names : n[1] = "own" /\ n[2] \in Rows => row[n[2]].thumb = "own"
        BY <1>1 DEF ImageInvariant, WorkersSound, CleanupSound
      <3> QED
        BY <1>1, <3>1, NamedFacts, NameFacts DEF Unused, NeverNamedAgain
    <2>4. (UploadReady(w) /\ CleanupSound(w) /\ TaskSound(w))'
      BY <1>2, <2>1, <2>3 DEF UploadReady, CleanupSound, TaskSound, NeverNamedAgain, Rows
    <2> QED
      BY <1>1, <1>2, <2>1, <2>2, <2>4, HandedOn DEF Unused
  <1>4. CASE Goes(w, Idle) /\ (Unused(names) = {} \/ names \subseteq lost')
    <2>1. worker'[w] = Idle /\ \A v \in Workers \ {w} : worker'[v] = worker[v]
      BY <1>1, <1>4, GoesOn
    <2>2. InHand(w)' = {} /\ Holds(w)' = {}
      BY <2>1 DEF InHand, Holds, Idle
    <2>3. (UploadReady(w) /\ CleanupSound(w) /\ TaskSound(w))'
      BY <2>1 DEF UploadReady, CleanupSound, TaskSound, Idle
    <2> QED
      BY <1>1, <1>2, <1>4, <2>1, <2>2, <2>3, HandedOn DEF Unused
  <1> QED
    BY <1>3, <1>4 DEF CheckReferences

LEMMA WorkerLostSound ==
  ASSUME ImageInvariant, TypeOK', NEW w \in Workers, WorkerLost(w)
  PROVE  StepSound
  <1>1. worker'[w] = Idle /\ \A v \in Workers \ {w} : worker'[v] = worker[v]
    BY GoesOn DEF WorkerLost, ImageInvariant
  <1>2. InHand(w)' = {} /\ Holds(w)' = {}
    BY <1>1 DEF InHand, Holds, Idle
  <1>3. (UploadReady(w) /\ CleanupSound(w) /\ TaskSound(w))'
    BY <1>1 DEF UploadReady, CleanupSound, TaskSound, Idle
  <1>4. row' = row /\ file' = file /\ lost' = lost \cup InHand(w)
    BY DEF WorkerLost
  <1> QED
    BY <1>1, <1>2, <1>3, <1>4, HandedOn

LEMMA ThumbnailRolledBackSound ==
  ASSUME ImageInvariant, TypeOK', NEW w \in Workers, ThumbnailRolledBack(w)
  PROVE  StepSound
  <1>1. /\ worker'[w] = [at |-> "cleanup", image |-> worker[w].image]
        /\ \A v \in Workers \ {w} : worker'[v] = worker[v]
    BY GoesOn DEF ThumbnailRolledBack, ImageInvariant
  <1>2. InHand(w)' = InHand(w) /\ Holds(w)' = {}
    BY <1>1, HandFacts DEF ThumbnailRolledBack, ImageInvariant, InHand, Holds
  <1>3. (UploadReady(w) /\ CleanupSound(w) /\ TaskSound(w))'
    BY <1>1 DEF UploadReady, CleanupSound, TaskSound
  <1>4. row' = row /\ file' = file /\ lost' = lost
    BY DEF ThumbnailRolledBack
  <1> QED
    BY <1>1, <1>2, <1>3, <1>4, HandedOn

LEMMA TakeTaskSound ==
  ASSUME ImageInvariant, TypeOK', NEW w \in Workers, NEW i \in Images, TakeTask(w, i)
  PROVE  StepSound
  <1>1. worker[w] = Idle /\ row' = row /\ file' = file /\ lost' = lost /\ TypeOK
    BY DEF TakeTask, ImageInvariant
  <1>2. InHand(w) = {} /\ Holds(w) = {}
    BY <1>1, HandFacts DEF Idle
  <1>3. CASE i \in Rows /\ ~ThumbnailIsValid(i)
    <2>1. /\ worker'[w] = [at |-> "render", image |-> i]
          /\ \A v \in Workers \ {w} : worker'[v] = worker[v]
      BY <1>1, <1>3, GoesOn DEF TakeTask
    <2>2. InHand(w)' = {} /\ Holds(w)' = {i}
      BY <2>1 DEF InHand, Holds
    <2>3. Undisturbed(Workers \ {w}) /\ Rows' = Rows /\ OnlyPrimary'
      BY <1>1, <2>1, <2>2, RowsUntouched
    <2>4. (UploadReady(w) /\ CleanupSound(w) /\ TaskSound(w))'
      BY <1>1, <1>3, <2>1 DEF UploadReady, CleanupSound, TaskSound, ThumbnailIsValid, Thumbnail
    <2>5. Holds(w)' \subseteq Rows' /\ \A v \in Workers \ {w} : Holds(w)' \cap Holds(v) = {}
      BY <1>3, <2>2, <2>3 DEF TakeTask, Free
    <2>6. LocksHold' /\ WorkersSound'
      BY <2>3, <2>4, <2>5, WorkerStepSound
    <2>7. OriginalsStay' /\ KeepsThumbnails
      BY <1>1, ReferencedFilesStay
    <2>8. NoFileLeftBehind'
      <3>1. \A v \in Workers \ {w} : InHand(v)' = InHand(v)
        BY <2>1 DEF InHand, Original
      <3> QED
        BY <1>1, <1>2, <3>1, SameRowsSameNames, FilesAccounted
    <2> QED
      BY <2>3, <2>6, <2>7, <2>8 DEF StepSound
  <1>4. CASE ~(i \in Rows /\ ~ThumbnailIsValid(i))
    <2>1. worker' = worker
      BY <1>4 DEF TakeTask
    <2>2. InHand(w)' = {} /\ Holds(w)' = {}
      BY <1>1, <2>1 DEF InHand, Holds, Idle
    <2>3. (UploadReady(w) /\ CleanupSound(w) /\ TaskSound(w))'
      BY <1>1, <2>1 DEF UploadReady, CleanupSound, TaskSound, Idle
    <2> QED
      BY <1>1, <1>2, <2>1, <2>2, <2>3, HandedOn
  <1> QED
    BY <1>3, <1>4

\* A worker that is done, whatever it did to the files it may touch.
LEMMA DoneSound ==
  ASSUME ImageInvariant, TypeOK', NEW w \in Workers, row' = row, Goes(w, Idle),
         \A v \in Workers \ {w} : \A i \in Holds(v), kind \in {"flat", "own"} :
           file'[<<kind, i>>] = "good" => file[<<kind, i>>] = "good",
         \A n \in Names : file'[n] = "absent" =>
           file[n] = "absent" \/ n \in InHand(w) \/ n[1] # "original",
         \A n \in Referenced : file'[n] = "absent" =>
           file[n] = "absent" \/ (n[1] # "original" /\ file[n] # "good"),
         \A n \in Names : file'[n] # "absent" /\ n \notin lost' /\ n \notin Referenced =>
           file[n] # "absent" /\ n \notin lost /\ n \notin InHand(w)
  PROVE  StepSound
  <1>1. worker'[w] = Idle /\ \A v \in Workers \ {w} : worker'[v] = worker[v]
    BY GoesOn DEF ImageInvariant
  <1>2. InHand(w)' = {} /\ Holds(w)' = {}
    BY <1>1 DEF InHand, Holds, Idle
  <1>3. Undisturbed(Workers \ {w}) /\ Rows' = Rows /\ OnlyPrimary'
    BY <1>1, <1>2, RowsUntouched
  <1>4. (UploadReady(w) /\ CleanupSound(w) /\ TaskSound(w))'
    BY <1>1 DEF UploadReady, CleanupSound, TaskSound, Idle
  <1>5. LocksHold' /\ WorkersSound'
    BY <1>2, <1>3, <1>4, WorkerStepSound
  <1>6. OriginalsStay' /\ KeepsThumbnails
    BY ReferencedFilesStay
  <1>7. NoFileLeftBehind'
    <2>1. \A v \in Workers \ {w} : InHand(v)' = InHand(v)
      BY <1>1 DEF InHand, Original
    <2> QED
      BY <2>1, SameRowsSameNames, FilesAccounted
  <1> QED
    BY <1>3, <1>5, <1>6, <1>7 DEF StepSound

LEMMA DeleteFilesSound ==
  ASSUME ImageInvariant, TypeOK', NEW w \in Workers, DeleteFiles(w)
  PROVE  StepSound
  <1>1. /\ worker[w].at = "delete" /\ InHand(w) = worker[w].names /\ InHand(w) \subseteq Names
        /\ row' = row /\ Goes(w, Idle)
    BY HandFacts DEF DeleteFiles, ImageInvariant
  <1>2. PICK failed \in SUBSET InHand(w) :
          /\ file' = [n \in Names |-> IF n \in InHand(w) \ failed THEN "absent" ELSE file[n]]
          /\ lost' = lost \cup failed
    BY <1>1 DEF DeleteFiles
  <1>3. \A n \in InHand(w) : n \notin Referenced
    <2>1. \A n \in InHand(w) : NeverNamedAgain(n)
      BY <1>1 DEF ImageInvariant, WorkersSound, CleanupSound
    <2> QED
      BY <1>1, <2>1, NamedFacts DEF NeverNamedAgain, ImageInvariant
  <1>4. \A n \in Referenced : n \in Names /\ file'[n] = file[n]
    BY <1>2, <1>3, NamedFacts DEF ImageInvariant, Referenced
  <1>5. ASSUME NEW n \in Names
        PROVE  /\ file'[n] = "absent" \/ file'[n] = file[n]
               /\ file'[n] = "absent" => file[n] = "absent" \/ n \in InHand(w)
               /\ file'[n] # "absent" /\ n \notin lost' =>
                    file[n] # "absent" /\ n \notin lost /\ n \notin InHand(w)
    BY <1>2
  <1>6. \A v \in Workers : \A i \in Holds(v), kind \in {"flat", "own"} : <<kind, i>> \in Names
    BY RowFacts, NameFacts DEF ImageInvariant, LocksHold
  <1> QED
    BY <1>1, <1>4, <1>5, <1>6, DoneSound

LEMMA RenderFailsSound ==
  ASSUME ImageInvariant, TypeOK', NEW w \in Workers, RenderFails(w)
  PROVE  StepSound
  <1> DEFINE i == worker[w].image
             own == <<"own", i>>
  <1>1. /\ i \in Rows /\ i \in Holds(w) /\ InHand(w) = {} /\ own \in Names
        /\ ~ThumbnailIsValid(i)
        /\ row' = row /\ Goes(w, Idle) /\ lost' = lost \cup {own}
    BY WorkerFacts, HandFacts, NameFacts
    DEF RenderFails, ImageInvariant, LocksHold, WorkersSound, TaskSound
  <1>2. PICK left \in {"absent", "bad", file[own]} : file' = [file EXCEPT ![own] = left]
    BY DEF RenderFails
  <1>3. /\ \A n \in Names : n # own => file'[n] = file[n]
        /\ file'[own] \in {"absent", "bad", file[own]}
    BY <1>1, <1>2 DEF ImageInvariant, TypeOK
  <1>4. own \in Referenced => file[own] # "good"
    <2>1. own \in Referenced => row[i].thumb = "own"
      BY <1>1, NamedFacts DEF ImageInvariant
    <2> QED
      BY <1>1, <2>1 DEF ThumbnailIsValid, Thumbnail
  <1>5. own[1] # "original" /\ own \in lost'
    BY <1>1
  <1>6. \A n \in Referenced : n \in Names
    BY NamedFacts DEF ImageInvariant, Referenced
  <1>7. \A v \in Workers \ {w} : \A j \in Holds(v), kind \in {"flat", "own"} :
          file'[<<kind, j>>] = "good" => file[<<kind, j>>] = "good"
    <2>1. \A v \in Workers : \A j \in Holds(v), kind \in {"flat", "own"} : <<kind, j>> \in Names
      BY RowFacts, NameFacts DEF ImageInvariant, LocksHold
    <2> QED
      BY <1>3, <2>1
  <1> HIDE DEF own
  <1> QED
    BY <1>1, <1>3, <1>4, <1>5, <1>6, <1>7, DoneSound

\* Withdrawing takes a file only if no row names it.
LEMMA WithdrawSound ==
  ASSUME ImageInvariant, TypeOK', NEW w \in Workers, NEW i \in Images,
         row' = row, Goes(w, Idle), InHand(w) = {<<"own", i>>}, Withdraw(i)
  PROVE  StepSound
  <1> DEFINE own == <<"own", i>>
  <1>1. own \in Names /\ own[1] # "original"
    BY NameFacts
  <1>2. /\ \A n \in Names : file'[n] = file[n] \/ (n = own /\ file'[n] = "absent" /\ own \notin Referenced)
        /\ \A n : n \in lost' <=> n \in lost \/ (n = own /\ own \in lost')
        /\ own \in Referenced \/ own \in lost' \/ file'[own] = "absent"
    <2>1. Withdraw(i)
      OBVIOUS
    <2>2. CASE file' = file /\ lost' = lost \cup {own}
      BY <2>2, Zenon
    <2>3. CASE Unused({own}) = {} /\ file' = file /\ lost' = lost
      <3>1. own \in Referenced
        BY <2>3 DEF Unused
      <3> HIDE DEF own
      <3> QED
        BY <2>3, <3>1
    <2>4. CASE Unused({own}) # {} /\ file' = [file EXCEPT ![own] = "absent"] /\ lost' = lost
      <3>1. own \notin Referenced
        BY <2>4 DEF Unused
      <3> HIDE DEF own
      <3> QED
        BY <1>1, <2>4, <3>1 DEF ImageInvariant, TypeOK
    <2> QED
      BY <2>1, <2>2, <2>3, <2>4 DEF Withdraw
  <1>3. \A n \in Referenced : n \in Names
    BY NamedFacts DEF ImageInvariant, Referenced
  <1>4. \A v \in Workers \ {w} : \A j \in Holds(v), kind \in {"flat", "own"} :
          file'[<<kind, j>>] = "good" => file[<<kind, j>>] = "good"
    <2>1. \A v \in Workers : \A j \in Holds(v), kind \in {"flat", "own"} : <<kind, j>> \in Names
      BY RowFacts, NameFacts DEF ImageInvariant, LocksHold
    <2> QED
      BY <1>2, <2>1
  <1>5. InHand(w) = {own}
    OBVIOUS
  <1> HIDE DEF own
  <1> QED
    BY <1>1, <1>2, <1>3, <1>4, <1>5, DoneSound

LEMMA ThumbnailWithdrawnSound ==
  ASSUME ImageInvariant, TypeOK', NEW w \in Workers,
         ThumbnailNotRecorded(w) \/ CleanUpThumbnail(w)
  PROVE  StepSound
  <1>1. /\ worker[w].image \in Images /\ InHand(w) = {<<"own", worker[w].image>>}
        /\ row' = row /\ Goes(w, Idle) /\ Withdraw(worker[w].image)
    BY WorkerFacts, HandFacts DEF ThumbnailNotRecorded, CleanUpThumbnail, ImageInvariant
  <1> QED
    BY <1>1, WithdrawSound

LEMMA SaveThumbnailSound ==
  ASSUME ImageInvariant, TypeOK', NEW w \in Workers, SaveThumbnail(w)
  PROVE  StepSound
  <1> DEFINE i == worker[w].image
             own == <<"own", i>>
  <1>1. /\ i \in Rows /\ i \in Images /\ Holds(w) = {i} /\ InHand(w) = {} /\ own \in Names
        /\ ~ThumbnailIsValid(i)
        /\ row' = row /\ lost' = lost \ {own}
    BY WorkerFacts, HandFacts, NameFacts
    DEF SaveThumbnail, ImageInvariant, LocksHold, WorkersSound, TaskSound
  <1>2. /\ worker'[w] = [at |-> "saved", image |-> i]
        /\ \A v \in Workers \ {w} : worker'[v] = worker[v]
    BY GoesOn DEF SaveThumbnail, ImageInvariant
  <1>3. InHand(w)' = {own} /\ Holds(w)' = {i}
    BY <1>2 DEF InHand, Holds
  <1>4. \A n \in Names : file'[n] = IF n = own THEN "good" ELSE file[n]
    BY <1>1 DEF SaveThumbnail, ImageInvariant, TypeOK
  <1>5. \A v \in Workers \ {w} : \A j \in Holds(v), kind \in {"flat", "own"} :
          file'[<<kind, j>>] = "good" => file[<<kind, j>>] = "good"
    <2>1. \A v \in Workers : \A j \in Holds(v), kind \in {"flat", "own"} : <<kind, j>> \in Names
      BY RowFacts, NameFacts DEF ImageInvariant, LocksHold
    <2>2. \A v \in Workers \ {w} : i \notin Holds(v)
      BY <1>1 DEF ImageInvariant, LocksHold
    <2> QED
      BY <1>4, <2>1, <2>2
  <1>6. \A v \in Workers \ {w} : worker[v].at = "upload" =>
          \A n \in InHand(w)' : n[2] # worker[v].image
    BY <1>1, <1>3 DEF ImageInvariant, WorkersSound, UploadReady, Rows
  <1>7. Undisturbed(Workers \ {w}) /\ Rows' = Rows /\ OnlyPrimary'
    BY <1>1, <1>2, <1>4, <1>5, <1>6, RowsUntouched
  <1>8. (UploadReady(w) /\ CleanupSound(w) /\ TaskSound(w))'
    <2>1. row[i].thumb = "flat" => file'[<<"flat", i>>] = file[<<"flat", i>>]
      BY <1>1, <1>4, NameFacts
    <2>2. row[i].thumb \in {"none", "flat", "own"}
      BY <1>1, RowFacts DEF ImageInvariant
    <2>3. row[i].thumb # "own" => ~(row'[i].thumb # "none" /\ file'[<<row'[i].thumb, i>>] = "good")
      BY <1>1, <2>1, <2>2 DEF ThumbnailIsValid, Thumbnail
    <2> QED
      BY <1>1, <1>2, <2>3 DEF UploadReady, CleanupSound, TaskSound, ThumbnailIsValid, Thumbnail
  <1>9. Holds(w)' \subseteq Rows' /\ \A v \in Workers \ {w} : Holds(w)' \cap Holds(v) = {}
    BY <1>1, <1>3, <1>7 DEF ImageInvariant, LocksHold
  <1>10. LocksHold' /\ WorkersSound'
    BY <1>7, <1>8, <1>9, WorkerStepSound
  <1>11. OriginalsStay' /\ KeepsThumbnails
    BY <1>1, <1>4, NamedFacts, ReferencedFilesStay DEF ImageInvariant, Referenced
  <1>12. NoFileLeftBehind'
    <2>1. \A v \in Workers \ {w} : InHand(v)' = InHand(v)
      BY <1>2 DEF InHand, Original
    <2> QED
      BY <1>1, <1>3, <1>4, <2>1, SameRowsSameNames, FilesAccounted
  <1> QED
    BY <1>7, <1>10, <1>11, <1>12 DEF StepSound

-----------------------------------------------------------------------------
(* The steps that change rows, and those of no worker                      *)

LEMMA EverybodySound ==
  ASSUME ImageInvariant, TypeOK', Undisturbed(Workers)
  PROVE  LocksHold' /\ WorkersSound'
  BY OthersSound DEF ImageInvariant, LocksHold, WorkersSound

LEMMA ThumbnailDamagedSound ==
  ASSUME ImageInvariant, TypeOK', NEW i \in Images, ThumbnailDamaged(i)
  PROVE  StepSound
  <1>1. /\ i \in Rows /\ Thumbnail(i) \in Names /\ Thumbnail(i)[1] # "original"
        /\ row[i].thumb # "none" /\ Thumbnail(i) \in Referenced
        /\ row' = row /\ worker' = worker /\ lost' = lost
    BY RowFacts, NamedFacts, NameFacts
    DEF ThumbnailDamaged, ThumbnailIsValid, ImageInvariant, Thumbnail, Referenced
  <1>2. \A n \in Names : file'[n] = IF n = Thumbnail(i) THEN "bad" ELSE file[n]
    BY <1>1 DEF ThumbnailDamaged, ImageInvariant, TypeOK
  <1>3. Rows' = Rows /\ Referenced' = Referenced /\ \A p : Primaries(p)' = Primaries(p)
    BY <1>1, SameRowsSameNames DEF Rows, Primaries
  <1>4. OriginalsStay' /\ KeepsThumbnails
    <2>1. \A n \in Referenced : n \in Names
      BY NamedFacts DEF ImageInvariant, Referenced
    <2> QED
      BY <1>1, <1>2, <2>1, ReferencedFilesStay
  <1>5. Undisturbed(Workers)
    <2>1. \A v \in Workers : \A j \in Holds(v), kind \in {"flat", "own"} : <<kind, j>> \in Names
      BY RowFacts, NameFacts DEF ImageInvariant, LocksHold
    <2>2. ASSUME NEW v \in Workers, worker[v].at = "upload"
          PROVE  file'[Original(worker[v].image)] # "absent"
      <3>1. Original(worker[v].image) \in Names
        BY <2>2, WorkerFacts, NameFacts DEF ImageInvariant
      <3> QED
        BY <1>2, <2>2, <3>1 DEF ImageInvariant, WorkersSound, UploadReady
    <2> QED
      BY <1>1, <1>2, <1>3, <2>1, <2>2 DEF Undisturbed
  <1>6. OnlyPrimary'
    BY <1>3 DEF ImageInvariant, OnlyPrimary
  <1>7. NoFileLeftBehind'
    <2>1. \A v \in Workers : InHand(v)' = InHand(v)
      BY <1>1 DEF InHand, Original
    <2> QED
      BY <1>1, <1>2, <1>3, <2>1 DEF ImageInvariant, NoFileLeftBehind, Names
  <1> QED
    BY <1>4, <1>5, <1>6, <1>7, EverybodySound DEF StepSound

LEMMA UpdateImageSound ==
  ASSUME ImageInvariant, TypeOK', NEW i \in Images, NEW primary \in BOOLEAN,
         UpdateImage(i, primary)
  PROVE  StepSound
  <1> DEFINE p == row[i].product
             demoted == IF primary THEN Primaries(p) \ {i} ELSE {}
  <1>1. /\ i \in Rows /\ p \in Products /\ demoted \subseteq Rows /\ i \notin demoted
        /\ \A v \in Workers : i \notin Holds(v)
        /\ \A v \in Workers : \A r \in demoted : r \notin Holds(v)
        /\ file' = file /\ worker' = worker /\ lost' = lost
    BY RowFacts DEF UpdateImage, ImageInvariant, Primaries, ImageRow, Free
  <1>2. \A r \in Images : row'[r] =
          CASE r = i -> [row[i] EXCEPT !.primary = primary]
            [] r \in demoted -> [row[r] EXCEPT !.primary = FALSE]
            [] OTHER -> row[r]
    BY DEF UpdateImage
  <1>3. \A r \in Rows : row'[r] \in ImageRow
    <2>1. \A r \in Rows : row[r] \in ImageRow
      BY RowFacts DEF ImageInvariant
    <2>2. [row[i] EXCEPT !.primary = primary] \in ImageRow
      BY <1>1, <2>1 DEF ImageRow
    <2>3. \A r \in demoted : [row[r] EXCEPT !.primary = FALSE] \in ImageRow
      BY <1>1, <2>1 DEF ImageRow
    <2>4. Rows \subseteq Images
      BY DEF Rows
    <2> HIDE DEF demoted
    <2> QED
      BY <1>1, <1>2, <2>1, <2>2, <2>3, <2>4
  <1>4. Rows' = Rows
    <2>1. \A r \in Images : r \notin Rows => row'[r] = NoImage
      BY <1>1, <1>2 DEF Rows
    <2>2. \A r \in Rows : row'[r] # NoImage
      BY <1>3, NoImageAssumption
    <2> QED
      BY <2>1, <2>2 DEF Rows
  <1>5. \A r \in Rows :
          /\ row'[r].thumb = row[r].thumb /\ row'[r].product = row[r].product
          /\ row'[r].primary <=> IF r = i THEN primary ELSE row[r].primary /\ r \notin demoted
    <2>1. ASSUME NEW r \in Rows
          PROVE  row[r] \in ImageRow /\ r \in Images
      BY RowFacts DEF ImageInvariant
    <2> HIDE DEF demoted
    <2>2. row'[i] = [row[i] EXCEPT !.primary = primary]
      BY <1>1, <1>2, <2>1
    <2>3. \A r \in Rows : r \in demoted => row'[r] = [row[r] EXCEPT !.primary = FALSE]
      BY <1>1, <1>2, <2>1
    <2>4. \A r \in Rows : r # i /\ r \notin demoted => row'[r] = row[r]
      BY <1>2, <2>1
    <2>5. ASSUME NEW r \in Rows, NEW b \in BOOLEAN
          PROVE  /\ [row[r] EXCEPT !.primary = b].product = row[r].product
                 /\ [row[r] EXCEPT !.primary = b].thumb = row[r].thumb
                 /\ [row[r] EXCEPT !.primary = b].primary = b
      BY <2>1 DEF ImageRow
    <2>6. ASSUME NEW r \in Rows
          PROVE  /\ row'[r].thumb = row[r].thumb /\ row'[r].product = row[r].product
                 /\ row'[r].primary <=> IF r = i THEN primary ELSE row[r].primary /\ r \notin demoted
      <3>1. CASE r = i
        <4>1. /\ row'[i].product = row[i].product /\ row'[i].thumb = row[i].thumb
              /\ row'[i].primary = primary
          BY <1>1, <2>2, <2>5
        <4> QED
          BY <3>1, <4>1
      <3>2. CASE r \in demoted
        BY <1>1, <2>3, <2>5, <3>2
      <3>3. CASE r # i /\ r \notin demoted
        BY <2>4, <3>3
      <3> QED
        BY <3>1, <3>2, <3>3
    <2> QED
      BY <2>6
  <1>6. Referenced' = Referenced
    BY <1>4, <1>5 DEF Referenced, NamedBy, Original, Thumbnail
  <1>7. OnlyPrimary'
    <2>1. ASSUME NEW q \in Products, NEW j \in Primaries(q)', NEW k \in Primaries(q)'
          PROVE  j = k
      <3>1. /\ j \in Rows /\ row[j].product = q /\ row'[j].primary
            /\ k \in Rows /\ row[k].product = q /\ row'[k].primary
        BY <1>4, <1>5 DEF Primaries
      <3>2. CASE j # i /\ k # i
        BY <1>5, <2>1, <3>1, <3>2 DEF ImageInvariant, OnlyPrimary, Primaries
      <3>3. CASE j = i /\ k # i
        BY <1>5, <3>1, <3>3 DEF Primaries
      <3>4. CASE j # i /\ k = i
        BY <1>5, <3>1, <3>4 DEF Primaries
      <3> QED
        BY <3>2, <3>3, <3>4
    <2> QED
      BY <2>1 DEF OnlyPrimary
  <1>8. Undisturbed(Workers)
    <2>1. \A v \in Workers : \A j \in Holds(v) : row'[j] = row[j]
      <3>1. \A v \in Workers : \A j \in Holds(v) : j \in Images /\ j # i /\ j \notin demoted
        BY <1>1, RowFacts DEF ImageInvariant, LocksHold
      <3> HIDE DEF demoted
      <3> QED
        BY <1>2, <3>1
    <2>2. ASSUME NEW v \in Workers, worker[v].at = "upload"
          PROVE  /\ file'[Original(worker[v].image)] # "absent"
                 /\ worker[v].primary =>
                      Primaries(worker[v].product)' \subseteq Primaries(worker[v].product)
      <3>1. file'[Original(worker[v].image)] # "absent"
        BY <1>1, <2>2 DEF ImageInvariant, WorkersSound, UploadReady
      <3>2. worker[v].primary => worker[v].product # p
        BY <2>2 DEF UpdateImage, ProductFree
      <3>3. worker[v].primary =>
              Primaries(worker[v].product)' \subseteq Primaries(worker[v].product)
        BY <1>1, <1>4, <1>5, <3>2 DEF Primaries
      <3> QED
        BY <3>1, <3>3
    <2> QED
      BY <1>1, <1>4, <1>5, <2>1, <2>2 DEF Undisturbed
  <1>9. OriginalsStay' /\ KeepsThumbnails
    <2>1. OriginalsStay'
      BY <1>1, <1>4 DEF ImageInvariant, OriginalsStay, Original
    <2>2. KeepsThumbnails
      BY <1>1, <1>5 DEF KeepsThumbnails
    <2> QED
      BY <2>1, <2>2
  <1>10. NoFileLeftBehind'
    <2>1. \A v \in Workers : InHand(v)' = InHand(v)
      BY <1>1 DEF InHand, Original
    <2> QED
      BY <1>1, <1>6, <2>1 DEF ImageInvariant, NoFileLeftBehind, Names
  <1> QED
    BY <1>7, <1>8, <1>9, <1>10, EverybodySound DEF StepSound

\* The names collected from the rows that a step deletes.
LEMMA NamesOfRows ==
  ASSUME TypeOK, NEW gone \in SUBSET Rows
  PROVE  LET names == UNION {NamedBy(i) : i \in gone}
         IN  /\ \A n \in Names : n \in names <=>
                  n[2] \in gone /\ (n[1] = "original" \/ n[1] = row[n[2]].thumb)
             /\ \A n \in names : n[2] \in gone
             /\ \A i \in gone : NamedBy(i) \subseteq names
             /\ names \subseteq Names
  <1> DEFINE names == UNION {NamedBy(i) : i \in gone}
  <1>1. \A i \in gone : \A n \in NamedBy(i) :
          n \in Names /\ n[2] = i /\ (n[1] = "original" \/ n[1] = row[i].thumb)
    BY NamedFacts
  <1>2. \A n \in names : n \in Names /\ n[2] \in gone /\ n \in NamedBy(n[2])
    BY <1>1
  <1>3. ASSUME NEW n \in Names, n[2] \in gone, n[1] = "original" \/ n[1] = row[n[2]].thumb
        PROVE  n \in NamedBy(n[2])
    BY <1>3, NameFacts, RowFacts DEF NamedBy, Original, Thumbnail
  <1> QED
    BY <1>1, <1>2, <1>3

LEMMA RemoveSound ==
  ASSUME ImageInvariant, TypeOK', NEW w \in Workers, NEW gone \in SUBSET Rows,
         worker[w] = Idle, Remove(w, gone)
  PROVE  StepSound
  <1> DEFINE names == UNION {NamedBy(i) : i \in gone}
  <1>1. /\ \A n \in Names : n \in names <=>
             n[2] \in gone /\ (n[1] = "original" \/ n[1] = row[n[2]].thumb)
        /\ \A n \in names : n[2] \in gone
        /\ \A i \in gone : NamedBy(i) \subseteq names
        /\ names \subseteq Names
    BY NamesOfRows DEF ImageInvariant
  <1>2. /\ InHand(w)' = names /\ Holds(w)' = {}
        /\ names = {} => worker'[w] = Idle
        /\ names # {} => worker'[w].at = "discard" /\ worker'[w].names = names
        /\ \A v \in Workers \ {w} : worker'[v] = worker[v]
    <2>1. TypeOK /\ Discards(w, names)
      BY DEF Remove, ImageInvariant
    <2> HIDE DEF names
    <2> QED
      BY <1>1, <2>1, DiscardsOn
  <1>3. InHand(w) = {}
    BY HandFacts DEF ImageInvariant, Idle
  <1>4. /\ Rows' = Rows \ gone
        /\ \A i \in Rows' : row'[i] = row[i]
        /\ \A i \in gone : row'[i] = NoImage
        /\ file' = file /\ lost' = lost
        /\ \A v \in Workers : \A i \in Holds(v) : i \notin gone
    BY DEF Remove, Rows, Free
  <1> HIDE DEF names
  <1>5. Undisturbed(Workers \ {w})
    <2>1. \A v \in Workers : Holds(v) \subseteq Rows
      BY DEF ImageInvariant, LocksHold
    <2>2. \A v \in Workers \ {w} : \A i \in Holds(v) : row'[i] = row[i]
      BY <1>4, <2>1
    <2>3. ASSUME NEW v \in Workers \ {w}, worker[v].at = "upload"
          PROVE  /\ file'[Original(worker[v].image)] # "absent"
                 /\ worker[v].image \notin Rows
      BY <1>4, <2>3 DEF ImageInvariant, WorkersSound, UploadReady, Rows
    <2>4. \A q : Primaries(q)' \subseteq Primaries(q)
      BY <1>4 DEF Primaries
    <2> QED
      BY <1>1, <1>2, <1>4, <2>2, <2>3, <2>4 DEF Undisturbed
  <1>6. (UploadReady(w) /\ CleanupSound(w) /\ TaskSound(w))'
    BY <1>1, <1>2, <1>4 DEF UploadReady, CleanupSound, TaskSound, Idle
  <1>7. LocksHold' /\ WorkersSound'
    BY <1>2, <1>5, <1>6, WorkerStepSound
  <1>8. OnlyPrimary'
    BY <1>4 DEF ImageInvariant, OnlyPrimary, Primaries
  <1>9. OriginalsStay' /\ KeepsThumbnails
    <2>1. OriginalsStay'
      BY <1>4 DEF ImageInvariant, OriginalsStay, Original
    <2>2. KeepsThumbnails
      BY <1>4 DEF KeepsThumbnails, Rows
    <2> QED
      BY <2>1, <2>2
  <1>10. NoFileLeftBehind'
    <2>1. \A v \in Workers \ {w} : InHand(v)' = InHand(v)
      BY <1>2 DEF InHand, Original
    <2>2. \A n \in Names : n \in Referenced => n \in Referenced' \/ n \in names
      <3>1. \A i \in Rows' : NamedBy(i)' = NamedBy(i)
        BY <1>4 DEF NamedBy, Original, Thumbnail
      <3> QED
        BY <1>1, <1>4, <3>1 DEF Referenced
    <2> QED
      BY <1>2, <1>3, <1>4, <2>1, <2>2, FilesAccounted
  <1> QED
    BY <1>7, <1>8, <1>9, <1>10 DEF StepSound

LEMMA CommitThumbnailSound ==
  ASSUME ImageInvariant, TypeOK', NEW w \in Workers, CommitThumbnail(w)
  PROVE  StepSound
  <1>0. PICK i \in Images : i = worker[w].image
    BY WorkerFacts DEF CommitThumbnail, ImageInvariant
  <1> DEFINE own == <<"own", i>>
             former == NamedBy(i) \ {Original(i)}
  <1>1. /\ worker[w].at = "saved" /\ i \in Rows /\ i \in Images /\ Holds(w) = {i}
        /\ InHand(w) = {own} /\ own \in Names
        /\ row[i].thumb \in {"none", "flat", "own"}
    BY <1>0, HandFacts, NameFacts, RowFacts DEF CommitThumbnail, ImageInvariant, LocksHold
  <1>2. ThumbnailIsValid(i) => row[i].thumb = "own"
    BY <1>0, <1>1 DEF ImageInvariant, WorkersSound, TaskSound
  <1>3. /\ file' = file
        /\ row'[i] = ThumbnailNamed(i)
        /\ \A j \in Images : j # i => row'[j] = row[j]
    BY <1>0, <1>1 DEF CommitThumbnail, ImageInvariant, TypeOK
  <1>4. /\ row'[i] \in ImageRow /\ row'[i] # NoImage
        /\ row'[i].thumb = "own"
        /\ row'[i].product = row[i].product /\ row'[i].primary = row[i].primary
    <2>1. row[i] \in ImageRow
      BY <1>1, RowFacts DEF ImageInvariant
    <2>2. ThumbnailNamed(i) \in ImageRow
      BY <2>1 DEF ThumbnailNamed, ImageRow
    <2> QED
      BY <1>3, <2>1, <2>2, NoImageAssumption DEF ThumbnailNamed, ImageRow
  <1>5. /\ Rows' = Rows
        /\ \A j \in Rows : j # i => row'[j] = row[j]
        /\ \A q : Primaries(q)' = Primaries(q)
    <2>1. Rows' = Rows
      BY <1>1, <1>3, <1>4 DEF Rows
    <2>2. \A j \in Rows : j # i => row'[j] = row[j]
      BY <1>3 DEF Rows
    <2> QED
      BY <1>4, <2>1, <2>2 DEF Primaries
  <1>6. /\ former \subseteq Names
        /\ \A n \in former : n[2] = i /\ n[1] = row[i].thumb
        /\ row[i].thumb # "none" => Thumbnail(i) \in former
    <2>1. \A n \in NamedBy(i) :
            n \in Names /\ n[2] = i /\ (n[1] = "original" \/ n[1] = row[i].thumb)
      BY <1>1, NamedFacts DEF ImageInvariant
    <2>2. \A n \in former : n # <<"original", i>>
      BY DEF Original
    <2>3. \A n \in former : n[1] # "original"
      BY <2>1, <2>2, NameFacts
    <2>4. row[i].thumb # "none" => Thumbnail(i) \in NamedBy(i)
      BY <1>1, NamedFacts DEF ImageInvariant
    <2>5. row[i].thumb # "original"
      BY <1>1
    <2> QED
      BY <2>1, <2>3, <2>4, <2>5 DEF Thumbnail, Original
  <1>7. \A v \in Workers \ {w} : worker'[v] = worker[v]
    BY <1>0, <1>6, GoesOn, DiscardsOn DEF CommitThumbnail, ImageInvariant
  <1>8. /\ Holds(w)' = {}
        /\ InHand(w)' \subseteq former \cup {own}
        /\ former \subseteq InHand(w)' \/ former \subseteq lost'
        /\ lost \subseteq lost'
        /\ (UploadReady(w) /\ CleanupSound(w) /\ TaskSound(w))'
    <2>1. CASE Discards(w, former) /\ lost' = lost
      <3> HIDE DEF former
      <3>1. /\ InHand(w)' = former /\ Holds(w)' = {}
            /\ former = {} => worker'[w] = Idle
            /\ former # {} => worker'[w].at = "discard" /\ worker'[w].names = former
        BY <1>6, <2>1, DiscardsOn DEF ImageInvariant
      <3>2. (UploadReady(w) /\ CleanupSound(w) /\ TaskSound(w))'
        BY <1>4, <1>6, <3>1 DEF UploadReady, CleanupSound, TaskSound, Idle
      <3> QED
        BY <2>1, <3>1, <3>2
    <2>2. CASE Goes(w, [at |-> "cleanup", image |-> i]) /\ lost' = lost \cup former
      <3>1. worker'[w] = [at |-> "cleanup", image |-> i]
        BY <2>2, GoesOn DEF ImageInvariant
      <3>2. InHand(w)' = {own} /\ Holds(w)' = {}
        BY <3>1 DEF InHand, Holds
      <3>3. (UploadReady(w) /\ CleanupSound(w) /\ TaskSound(w))'
        BY <3>1 DEF UploadReady, CleanupSound, TaskSound
      <3> HIDE DEF former
      <3> QED
        BY <2>2, <3>2, <3>3
    <2> QED
      BY <1>0, <2>1, <2>2 DEF CommitThumbnail
  <1> HIDE DEF former
  <1>9. Undisturbed(Workers \ {w})
    <2>1. \A v \in Workers \ {w} : \A j \in Holds(v) : row'[j] = row[j]
      BY <1>1, <1>5 DEF ImageInvariant, LocksHold
    <2>2. ASSUME NEW v \in Workers \ {w}, worker[v].at = "upload"
          PROVE  /\ file'[Original(worker[v].image)] # "absent"
                 /\ \A n \in InHand(w)' : n[2] # worker[v].image
      <3>1. worker[v].image \notin Rows
        BY <2>2 DEF ImageInvariant, WorkersSound, UploadReady, Rows
      <3>2. \A n \in InHand(w)' : n[2] = i
        BY <1>6, <1>8
      <3> QED
        BY <1>1, <1>3, <2>2, <3>1, <3>2 DEF ImageInvariant, WorkersSound, UploadReady
    <2> QED
      BY <1>3, <1>4, <1>5, <1>7, <2>1, <2>2 DEF Undisturbed
  <1>10. LocksHold' /\ WorkersSound'
    BY <1>8, <1>9, WorkerStepSound
  <1>11. OnlyPrimary'
    BY <1>5 DEF ImageInvariant, OnlyPrimary
  <1>12. OriginalsStay' /\ KeepsThumbnails
    <2>1. OriginalsStay'
      BY <1>3, <1>5 DEF ImageInvariant, OriginalsStay, Original
    <2>2. KeepsThumbnails
      BY <1>2, <1>3, <1>4, <1>5 DEF KeepsThumbnails, ThumbnailIsValid
    <2> QED
      BY <2>1, <2>2
  <1>13. NoFileLeftBehind'
    <2>1. \A v \in Workers \ {w} : InHand(v)' = InHand(v)
      BY <1>7 DEF InHand, Original
    <2>2. \A n \in Names : n \in Referenced => n \in Referenced' \/ n \in former
      <3>1. \A j \in Rows : j # i => NamedBy(j)' = NamedBy(j)
        BY <1>5 DEF NamedBy, Original, Thumbnail
      <3>2. <<"original", i>> \in NamedBy(i)'
        BY DEF NamedBy, Original
      <3>3. \A n \in NamedBy(i) : n \in former \/ n = <<"original", i>>
        BY DEF former, Original
      <3>4. ASSUME NEW j \in Rows, NEW n \in NamedBy(j)
            PROVE  n \in former \/ n \in Referenced'
        <4>1. CASE j = i
          BY <1>1, <1>5, <3>2, <3>3, <4>1 DEF Referenced
        <4>2. CASE j # i
          BY <1>5, <3>1, <4>2 DEF Referenced
        <4> QED
          BY <4>1, <4>2
      <3> QED
        BY <3>4 DEF Referenced
    <2>3. own \in Referenced'
      BY <1>1, <1>4, <1>5 DEF Referenced, NamedBy, Thumbnail
    <2> HIDE DEF own
    <2> QED
      BY <1>1, <1>3, <1>8, <2>1, <2>2, <2>3, FilesAccounted
  <1> QED
    BY <1>10, <1>11, <1>12, <1>13 DEF StepSound

LEMMA CommitUploadSound ==
  ASSUME ImageInvariant, TypeOK', NEW w \in Workers, CommitUpload(w)
  PROVE  StepSound
  <1>0. PICK i \in Images, p \in Products, demoted \in SUBSET Images, replaced \in SUBSET Images :
          /\ i = worker[w].image /\ p = worker[w].product
          /\ demoted = worker[w].demoted /\ replaced = worker[w].replaced
    BY WorkerFacts DEF CommitUpload, ImageInvariant
  <1>1. PICK primary \in BOOLEAN : primary = worker[w].primary
    BY WorkerFacts DEF CommitUpload, ImageInvariant
  <1> DEFINE left == UNION {NamedBy(r) : r \in replaced}
  <1>2. /\ worker[w].at = "upload" /\ i \notin Rows
        /\ Holds(w) = demoted \cup replaced /\ demoted \subseteq Rows /\ replaced \subseteq Rows
        /\ InHand(w) = {Original(i)}
        /\ \A v \in Workers \ {w} : \A n \in InHand(v) : n[2] # i
        /\ file[Original(i)] # "absent"
        /\ primary => Primaries(p) \subseteq demoted \cup replaced
        /\ file' = file
    BY <1>0, <1>1, HandFacts
    DEF CommitUpload, ImageInvariant, LocksHold, WorkersSound, UploadReady, Rows
  <1>3. /\ \A n \in left : n[2] \in replaced
        /\ \A r \in replaced : NamedBy(r) \subseteq left
        /\ left \subseteq Names
    BY <1>2, NamesOfRows DEF ImageInvariant
  <1>4. /\ row'[i] = [product |-> p, primary |-> primary, thumb |-> "none"]
        /\ \A r \in replaced : row'[r] = NoImage
        /\ \A r \in demoted \ replaced : row'[r] = [row[r] EXCEPT !.primary = FALSE]
        /\ \A r \in Images : r # i /\ r \notin demoted \cup replaced => row'[r] = row[r]
    <2> DEFINE new == [product |-> p, primary |-> primary, thumb |-> "none"]
    <2>0. new = [product |-> worker[w].product, primary |-> worker[w].primary, thumb |-> "none"]
      BY <1>0, <1>1
    <2> HIDE DEF new
    <2>1. \A j \in Images :
            row'[j] = CASE j = i -> new
                        [] j \in replaced -> NoImage
                        [] j \in demoted -> [row[j] EXCEPT !.primary = FALSE]
                        [] OTHER -> row[j]
      BY <1>0, <2>0 DEF CommitUpload, RowsAfter
    <2>2. i \notin demoted \cup replaced /\ demoted \cap replaced = {}
      BY <1>0, <1>2 DEF ImageInvariant, WorkersSound, UploadReady
    <2>3. \A r \in demoted \ replaced : row'[r] = [row[r] EXCEPT !.primary = FALSE]
      BY <2>1, <2>2
    <2>4. \A r \in Images : r # i /\ r \notin demoted \cup replaced => row'[r] = row[r]
      BY <2>1
    <2>5. row'[i] = new
      BY <2>1, <2>2
    <2>6. \A r \in replaced : row'[r] = NoImage
      BY <2>1, <2>2
    <2> QED
      BY <2>3, <2>4, <2>5, <2>6 DEF new
  <1>5. \A r \in Rows \ replaced :
          /\ row'[r] \in ImageRow
          /\ row'[r].thumb = row[r].thumb /\ row'[r].product = row[r].product
          /\ row'[r].primary <=> row[r].primary /\ r \notin demoted
    <2>1. ASSUME NEW r \in Rows
          PROVE  row[r] \in ImageRow /\ r \in Images /\ r # i
      BY <1>2, RowFacts DEF ImageInvariant
    <2>2. ASSUME NEW r \in demoted \ replaced
          PROVE  /\ row'[r] \in ImageRow
                 /\ row'[r].thumb = row[r].thumb /\ row'[r].product = row[r].product
                 /\ row'[r].primary = FALSE
      <3>1. row[r] \in ImageRow /\ row'[r] = [row[r] EXCEPT !.primary = FALSE]
        BY <1>2, <1>4, <2>1
      <3>2. [row[r] EXCEPT !.primary = FALSE] \in ImageRow
        BY <3>1 DEF ImageRow
      <3> QED
        BY <3>1, <3>2 DEF ImageRow
    <2>3. ASSUME NEW r \in Rows \ replaced, r \notin demoted
          PROVE  row'[r] = row[r]
      BY <1>4, <2>1, <2>3
    <2> QED
      BY <2>1, <2>2, <2>3
  <1>6. /\ row'[i] \in ImageRow /\ row'[i].product = p /\ row'[i].thumb = "none"
        /\ row'[i].primary = primary
    BY <1>4 DEF ImageRow
  <1>7. /\ Rows' = (Rows \ replaced) \cup {i}
        /\ \A q : \A j \in Primaries(q)' : j # i =>
             j \in Primaries(q) /\ j \notin demoted \cup replaced
        /\ \A q : i \in Primaries(q)' => q = p /\ primary
    <2>1. Rows' = (Rows \ replaced) \cup {i}
      <3>1. \A r \in Images : r \in Rows' <=> row'[r] # NoImage
        BY DEF Rows
      <3>2. Rows \subseteq Images /\ Rows' \subseteq Images
        BY DEF Rows
      <3>3. \A r \in Images \ Rows : r # i => row'[r] = NoImage
        BY <1>2, <1>4 DEF Rows
      <3>4. \A r \in (Rows \ replaced) \cup {i} : row'[r] # NoImage
        BY <1>5, <1>6, NoImageAssumption
      <3> QED
        BY <1>4, <3>1, <3>2, <3>3, <3>4
    <2> QED
      BY <1>5, <1>6, <2>1 DEF Primaries
  <1>8. /\ Holds(w)' = {}
        /\ \A v \in Workers \ {w} : worker'[v] = worker[v]
        /\ \A n \in InHand(w)' : n[2] \in replaced \/ n[2] = i
        /\ left \subseteq InHand(w)' \/ left \subseteq lost'
        /\ lost \subseteq lost'
        /\ (UploadReady(w) /\ CleanupSound(w) /\ TaskSound(w))'
    <2>1. PICK names \in SUBSET Names :
            /\ Discards(w, names) /\ lost \subseteq lost'
            /\ names = left \/ (names = {Original(i)} /\ left \subseteq lost')
      <3>1. {Original(i)} \subseteq Names
        BY NameFacts
      <3> QED
        BY <1>0, <1>3, <3>1 DEF CommitUpload
    <2>2. /\ InHand(w)' = names /\ Holds(w)' = {}
          /\ names = {} => worker'[w] = Idle
          /\ names # {} => worker'[w].at = "discard" /\ worker'[w].names = names
          /\ \A v \in Workers \ {w} : worker'[v] = worker[v]
      BY <2>1, DiscardsOn DEF ImageInvariant
    <2> HIDE DEF left
    <2>3. \A n \in names : (n[2] \in replaced /\ n[2] \notin Rows') \/ (n[2] = i /\ n[1] = "original")
      BY <1>2, <1>3, <1>7, <2>1 DEF Original
    <2>4. (UploadReady(w) /\ CleanupSound(w) /\ TaskSound(w))'
      BY <2>2, <2>3 DEF UploadReady, CleanupSound, TaskSound, Idle
    <2> QED
      BY <2>1, <2>2, <2>3, <2>4
  <1> HIDE DEF left
  <1>9. Undisturbed(Workers \ {w})
    <2>1. ASSUME NEW v \in Workers \ {w}, NEW j \in Holds(v)
          PROVE  row'[j] = row[j]
      BY <1>2, <1>4, RowFacts DEF ImageInvariant, LocksHold
    <2>2. ASSUME NEW v \in Workers \ {w}, worker[v].at = "upload"
          PROVE  /\ file'[Original(worker[v].image)] # "absent"
                 /\ worker[v].primary =>
                      Primaries(worker[v].product)' \subseteq Primaries(worker[v].product)
                 /\ \A n \in InHand(w)' : n[2] # worker[v].image
      <3>1. file[Original(worker[v].image)] # "absent" /\ worker[v].image \notin Rows
        BY <2>2 DEF ImageInvariant, WorkersSound, UploadReady, Rows
      <3>2. worker[v].image # i
        <4>1. InHand(v) = {Original(worker[v].image)}
          BY <2>2, HandFacts DEF ImageInvariant
        <4> QED
          BY <1>2, <4>1 DEF Original
      <3>3. worker[v].primary => worker[v].product # p
        BY <1>0, <2>2 DEF CommitUpload, ProductFree
      <3>4. worker[v].primary =>
              Primaries(worker[v].product)' \subseteq Primaries(worker[v].product)
        <4>1. worker'[v] = worker[v]
          BY <1>8
        <4> QED
          BY <1>7, <3>3, <4>1 DEF Primaries
      <3> QED
        BY <1>2, <1>8, <3>1, <3>2, <3>4
    <2>3. \A j \in Rows' \cap Rows : row'[j].thumb = row[j].thumb
      BY <1>2, <1>5, <1>7
    <2> QED
      BY <1>2, <1>7, <1>8, <2>1, <2>2, <2>3 DEF Undisturbed
  <1>10. LocksHold' /\ WorkersSound'
    BY <1>8, <1>9, WorkerStepSound
  <1>11. OnlyPrimary'
    <2>1. ASSUME NEW q \in Products, NEW j \in Primaries(q)', NEW k \in Primaries(q)'
          PROVE  j = k
      <3>1. CASE j # i /\ k # i
        BY <1>7, <2>1, <3>1 DEF ImageInvariant, OnlyPrimary
      <3>2. CASE j = i /\ k # i
        BY <1>2, <1>7, <2>1, <3>2
      <3>3. CASE j # i /\ k = i
        BY <1>2, <1>7, <2>1, <3>3
      <3> QED
        BY <3>1, <3>2, <3>3
    <2> QED
      BY <2>1 DEF OnlyPrimary
  <1>12. OriginalsStay' /\ KeepsThumbnails
    <2>1. OriginalsStay'
      BY <1>2, <1>7 DEF ImageInvariant, OriginalsStay, Original
    <2>2. KeepsThumbnails
      BY <1>2, <1>4, <1>5 DEF KeepsThumbnails
    <2> QED
      BY <2>1, <2>2
  <1>13. NoFileLeftBehind'
    <2>1. \A v \in Workers \ {w} : InHand(v)' = InHand(v)
      BY <1>8 DEF InHand, Original
    <2>2. \A n \in Names : n \in Referenced => n \in Referenced' \/ n \in left
      <3>1. \A j \in Rows \ replaced : NamedBy(j)' = NamedBy(j)
        BY <1>5 DEF NamedBy, Original, Thumbnail
      <3> QED
        BY <1>3, <1>7, <3>1 DEF Referenced
    <2>3. Original(i) \in Referenced'
      BY <1>7 DEF Referenced, NamedBy, Original
    <2> QED
      BY <1>2, <1>8, <2>1, <2>2, <2>3, FilesAccounted
  <1> QED
    BY <1>10, <1>11, <1>12, <1>13 DEF StepSound

-----------------------------------------------------------------------------
(* Theorems                                                                *)

\* Every step keeps the invariant and the thumbnails.
LEMMA ImageStepSound ==
  ASSUME ImageInvariant, [Next]_vars
  PROVE  ImageInvariant' /\ (Next => KeepsThumbnails)
  <1>1. TypeOK'
    BY TypesKept DEF ImageInvariant
  <1>2. ASSUME Next
        PROVE  StepSound
    <2>1. ASSUME NEW w \in Workers, NEW i \in Images, DeleteImage(w, i)
          PROVE  StepSound
      BY <1>1, <2>1, RemoveSound DEF DeleteImage
    <2>2. ASSUME NEW w \in Workers, NEW p \in Products, DeleteProduct(w, p)
          PROVE  StepSound
      BY <1>1, <2>2, RemoveSound DEF DeleteProduct
    <2> QED
      BY <1>1, <1>2, <2>1, <2>2, StoreOriginalSound, CommitUploadSound, RefuseUploadSound,
         CheckReferencesSound, DeleteFilesSound, TakeTaskSound, SaveThumbnailSound,
         RenderFailsSound, CommitThumbnailSound, ThumbnailRolledBackSound,
         ThumbnailWithdrawnSound, WorkerLostSound, UpdateImageSound, ThumbnailDamagedSound
      DEF Next
  <1>3. ASSUME UNCHANGED vars
        PROVE  ImageInvariant'
    <2>1. /\ row' = row /\ file' = file /\ worker' = worker /\ lost' = lost
          /\ Rows' = Rows /\ Referenced' = Referenced
          /\ \A p : Primaries(p)' = Primaries(p)
      BY <1>3, SameRowsSameNames DEF vars, Primaries, Rows
    <2>2. \A v \in Workers : InHand(v)' = InHand(v)
      BY <2>1 DEF InHand, Original
    <2>3. Undisturbed(Workers)
      BY <2>1, <2>2 DEF Undisturbed, ImageInvariant, WorkersSound, UploadReady
    <2>4. OnlyPrimary'
      BY <2>1 DEF ImageInvariant, OnlyPrimary
    <2>5. OriginalsStay'
      BY <2>1 DEF ImageInvariant, OriginalsStay, Original
    <2>6. NoFileLeftBehind'
      BY <2>1, <2>2 DEF ImageInvariant, NoFileLeftBehind, Names
    <2> QED
      BY <1>1, <2>3, <2>4, <2>5, <2>6, EverybodySound DEF ImageInvariant
  <1> QED
    BY <1>1, <1>2, <1>3 DEF StepSound, ImageInvariant

LEMMA ImageInitSound == Init => ImageInvariant
  <1> SUFFICES ASSUME Init
               PROVE  ImageInvariant
    OBVIOUS
  <1>1. PICK p \in Products :
          row = [i \in Images |->
                   IF i \in Old THEN [product |-> p, primary |-> FALSE, thumb |-> "flat"] ELSE NoImage]
    BY DEF Init
  <1>2. PICK broken \in SUBSET Old :
          file = [n \in Names |->
                    CASE n[2] \notin Old \/ n[1] = "own" -> "absent"
                      [] n[1] = "flat" /\ n[2] \in broken -> "bad"
                      [] OTHER -> "good"]
    BY DEF Init
  <1>3. [product |-> p, primary |-> FALSE, thumb |-> "flat"] \in ImageRow
    BY DEF ImageRow
  <1>4. /\ Rows = Old
        /\ \A i \in Old : row[i].thumb = "flat" /\ row[i].primary = FALSE
    BY <1>1, <1>3, OldAssumption, NoImageAssumption DEF Rows
  <1>5. \A n \in Names :
          /\ file[n] \in {"absent", "good", "bad"}
          /\ file[n] # "absent" => n[2] \in Old /\ n[1] # "own"
          /\ n[2] \in Old /\ n[1] = "original" => file[n] = "good"
    BY <1>2
  <1>6. \A w \in Workers : worker[w] = Idle /\ Holds(w) = {} /\ InHand(w) = {}
    BY DEF Init, Idle, Holds, InHand
  <1>7. TypeOK
    <2>1. row \in [Images -> ImageRow \cup {NoImage}]
      BY <1>1, <1>3
    <2>2. file \in [Names -> {"absent", "good", "bad"}]
      BY <1>2
    <2>3. worker \in [Workers -> WorkerStates]
      BY TaskTyped DEF Init
    <2>4. queued \in [Images -> BOOLEAN]
      BY DEF Init
    <2> QED
      BY <2>1, <2>2, <2>3, <2>4 DEF TypeOK, Init
  <1>8. OnlyPrimary
    BY <1>4 DEF OnlyPrimary, Primaries
  <1>9. LocksHold
    BY <1>6 DEF LocksHold
  <1>10. WorkersSound
    BY <1>6 DEF WorkersSound, UploadReady, CleanupSound, TaskSound, Idle
  <1>11. OriginalsStay
    BY <1>4, <1>5, OldAssumption, NameFacts DEF OriginalsStay, Original
  <1>12. NoFileLeftBehind
    <2>1. \A n \in Names : file[n] # "absent" => n \in Referenced
      BY <1>4, <1>5, <1>7, NamedFacts, NameFacts
    <2> QED
      BY <2>1 DEF NoFileLeftBehind
  <1> QED
    BY <1>7, <1>8, <1>9, <1>10, <1>11, <1>12 DEF ImageInvariant

LEMMA ImageInvariance == Spec => []ImageInvariant
  <1>1. ImageInvariant /\ [Next]_vars => ImageInvariant'
    BY ImageStepSound
  <1> QED
    BY <1>1, ImageInitSound, PTL DEF Spec

\* Whatever uploads, forms, updates and tasks run at once, the rows keep their
\* domains and no product gets a second primary image: the unique index of the
\* database has nothing to refuse.
THEOREM ImageRowsStayConsistent == Spec => []RowsConsistent
  <1>1. ImageInvariant => RowsConsistent
    <2> SUFFICES ASSUME ImageInvariant, NEW p \in Products
                 PROVE  Cardinality(Primaries(p)) <= 1
      BY DEF ImageInvariant, RowsConsistent, OnePrimaryPerProduct
    <2>1. CASE Primaries(p) = {}
      BY <2>1, FS_EmptySet
    <2>2. CASE Primaries(p) # {}
      <3>1. PICK i \in Primaries(p) : Primaries(p) = {i}
        BY <2>2 DEF ImageInvariant, OnlyPrimary
      <3>2. Cardinality({i}) = 1
        BY FS_Singleton
      <3> QED
        BY <3>1, <3>2
    <2> QED
      BY <2>1, <2>2
  <1> QED
    BY <1>1, ImageInvariance, PTL

\* No cleanup, however late, takes the original of an image that has a row.
THEOREM OriginalsAreKept == Spec => []OriginalsStay
  <1>1. ImageInvariant => OriginalsStay
    BY DEF ImageInvariant
  <1> QED
    BY <1>1, ImageInvariance, PTL

\* A stored file that no row names is in the hands of a worker that will remove
\* it, or among those that a crash or a storage error left behind.
THEOREM NoFileIsForgotten == Spec => []NoFileLeftBehind
  <1>1. ImageInvariant => NoFileLeftBehind
    BY DEF ImageInvariant
  <1> QED
    BY <1>1, ImageInvariance, PTL

\* No delivery, retry or cleanup removes or renames a good thumbnail of an image
\* that stays.
THEOREM ThumbnailsAreKept == Spec => ThumbnailsStay
  <1>1. ImageInvariant /\ [Next]_vars => [KeepsThumbnails]_vars
    BY ImageStepSound
  <1>2. ImageInvariant /\ [Next]_vars =>
          [\A i \in Rows :
             row[i].thumb # "none" /\ file[Thumbnail(i)] = "good" /\ row'[i] # NoImage =>
               row'[i].thumb = row[i].thumb /\ file'[Thumbnail(i)] # "absent"]_vars
    BY <1>1 DEF KeepsThumbnails
  <1> QED
    BY <1>2, ImageInvariance, PTL DEF Spec, ThumbnailsStay

-----------------------------------------------------------------------------
(* The catalogue cache: its invariant                                      *)

\* Every advance of the version belongs to a commit of its own.
VersionsSuffice ==
  version # Nothing => version + Cardinality(pending) <= db + 1

Versioned(s) == s.at \in {"versioned", "missed", "queried"}

\* A version that is still to come has no page, and the page of the current one
\* is at least as new as the advance to it.
PagesSound ==
  \A v \in Versions :
    page[v] # Nothing =>
      /\ version # Nothing /\ v <= version
      /\ v = version => page[v] >= settled

\* What a request may hold: no version that is still to come; nothing older than
\* its floor, and what is queried under the current version is at least as new as
\* the advance to it.
RequestSound(s) ==
  /\ s # NoRequest => s.floor <= settled
  /\ Versioned(s) =>
       /\ version # Nothing /\ s.version <= version
       /\ page[s.version] # Nothing => page[s.version] >= s.floor
  /\ s.at = "queried" /\ s.version = version => s.data >= settled
  /\ s.at \in {"queried", "answered"} => s.data >= s.floor

\* Requests under one version began before it was left, so what one of them stores
\* is new enough for the others, however late it is stored.
StoresFor(s, t) ==
  s.at = "queried" /\ Versioned(t) /\ s.version = t.version => s.data >= t.floor

FloorOfVersion ==
  /\ PagesSound
  /\ \A r \in Readers : RequestSound(reader[r])
  /\ \A q, r \in Readers : StoresFor(reader[q], reader[r])

CacheInvariant ==
  /\ CacheTypeOK
  /\ VersionsSuffice
  /\ lapses = 0 /\ ~undone => FloorOfVersion

-----------------------------------------------------------------------------
(* Types                                                                   *)

LEMMA RequestFacts ==
  ASSUME NEW s \in Requests
  PROVE  /\ s = NoRequest <=> s.at = "idle"
         /\ s # NoRequest => s.floor \in Commits
         /\ Versioned(s) => s.version \in Versions
         /\ s.at \in {"queried", "answered"} => s.data \in Commits
         /\ s.at \in {"idle", "unversioned", "versioned", "missed", "queried", "answered"}
  BY DEF Requests, NoRequest, Versioned

LEMMA PendingFinite ==
  ASSUME CacheTypeOK
  PROVE  /\ IsFiniteSet(pending) /\ Cardinality(pending) \in Nat
         /\ Cardinality(pending) <= db
         /\ db \in Nat
  <1>1. db \in Nat
    BY CacheAssumption DEF CacheTypeOK, Commits
  <1>2. IsFiniteSet(1..db) /\ Cardinality(1..db) = db
    BY <1>1, FS_Interval
  <1>3. IsFiniteSet(pending) /\ Cardinality(pending) <= Cardinality(1..db)
    BY <1>2, FS_Subset DEF CacheTypeOK
  <1> QED BY <1>1, <1>2, <1>3, FS_CardinalityType

\* A request that moves keeps its variable's domain.
LEMMA RequestTyped ==
  ASSUME CacheTypeOK, NEW r \in Readers, NEW s \in Requests, Proceeds(r, s)
  PROVE  reader' \in [Readers -> Requests]
  BY DEF CacheTypeOK, Proceeds

LEMMA RequestsTyped ==
  ASSUME CacheTypeOK, NEW r \in Readers,
         \/ GetVersion(r) \/ SetFirstVersion(r) \/ GetPage(r) \/ QueryDatabase(r)
         \/ StorePage(r) \/ Respond(r) \/ GetVersionFails(r)
         \/ SetFirstVersionFails(r) \/ GetPageFails(r) \/ Dies(r)
  PROVE  reader' \in [Readers -> Requests]
  <1> DEFINE s == reader[r]
  <1>0. s \in Requests /\ settled \in Commits /\ db \in Commits
    BY CacheAssumption DEF CacheTypeOK, Commits
  <1>00. 1 \in Versions /\ NoRequest \in Requests
    BY CacheAssumption DEF Versions, Requests
  <1>1. CASE GetVersion(r)
    <2>1. version = Nothing => [at |-> "unversioned", floor |-> settled] \in Requests
      BY <1>0 DEF Requests
    <2>2. version # Nothing =>
            [at |-> "versioned", floor |-> settled, version |-> version] \in Requests
      BY <1>0 DEF Requests, CacheTypeOK
    <2> QED BY <1>1, <2>1, <2>2, RequestTyped DEF GetVersion
  <1>2. CASE SetFirstVersion(r) \/ SetFirstVersionFails(r)
    <2>1. s.floor \in Commits
      BY <1>0, <1>2, RequestFacts DEF SetFirstVersion, SetFirstVersionFails, At, NoRequest
    <2>2. [at |-> "versioned", floor |-> s.floor, version |-> 1] \in Requests
      BY <2>1, <1>00 DEF Requests
    <2> QED BY <1>2, <2>2, RequestTyped DEF SetFirstVersion, SetFirstVersionFails
  <1>3. CASE GetPage(r)
    <2>1. s.floor \in Commits /\ s.version \in Versions
      BY <1>0, <1>3, RequestFacts DEF GetPage, At, NoRequest, Versioned
    <2>2. page[s.version] # Nothing => page[s.version] \in Commits
      BY <2>1, CacheAssumption DEF CacheTypeOK, Commits
    <2>3. [s EXCEPT !.at = "missed"] \in Requests
      BY <1>0, <1>3 DEF GetPage, At, Requests, NoRequest
    <2>4. page[s.version] # Nothing =>
            [at |-> "answered", floor |-> s.floor, data |-> page[s.version]] \in Requests
      BY <2>1, <2>2 DEF Requests
    <2> QED BY <1>3, <2>3, <2>4, RequestTyped DEF GetPage
  <1>4. CASE QueryDatabase(r)
    <2>1. s.floor \in Commits /\ s.version \in Versions
      BY <1>0, <1>4, RequestFacts DEF QueryDatabase, At, NoRequest, Versioned
    <2>2. [at |-> "queried", floor |-> s.floor, version |-> s.version, data |-> db] \in Requests
      BY <2>1, <1>0 DEF Requests
    <2> QED BY <1>4, <2>2, RequestTyped DEF QueryDatabase
  <1>5. CASE StorePage(r)
    <2>1. s.floor \in Commits /\ s.data \in Commits
      BY <1>0, <1>5, RequestFacts DEF StorePage, At, NoRequest, Versioned
    <2>2. [at |-> "answered", floor |-> s.floor, data |-> s.data] \in Requests
      BY <2>1 DEF Requests
    <2> QED BY <1>5, <2>2, RequestTyped DEF StorePage
  <1>6. CASE Respond(r) \/ Dies(r)
    BY <1>6, <1>00, RequestTyped DEF Respond, Dies
  <1>7. CASE GetVersionFails(r)
    <2>1. [at |-> "unversioned", floor |-> settled] \in Requests
      BY <1>0 DEF Requests
    <2> QED BY <1>7, <2>1, RequestTyped DEF GetVersionFails
  <1>8. CASE GetPageFails(r)
    <2>1. [s EXCEPT !.at = "missed"] \in Requests
      BY <1>0, <1>8 DEF GetPageFails, At, Requests, NoRequest
    <2> QED BY <1>8, <2>1, RequestTyped DEF GetPageFails
  <1> QED BY <1>1, <1>2, <1>3, <1>4, <1>5, <1>6, <1>7, <1>8

\* The domains, and that there are versions enough, hold of every state.
LEMMA CacheTypesKept ==
  ASSUME CacheTypeOK, VersionsSuffice, [CacheNext]_cacheVars
  PROVE  CacheTypeOK' /\ VersionsSuffice'
  <1> USE CacheAssumption
  <1>0. /\ IsFiniteSet(pending) /\ Cardinality(pending) \in Nat
        /\ Cardinality(pending) <= db /\ db \in Nat
    BY PendingFinite
  <1>1. CASE UNCHANGED cacheVars
    BY <1>1 DEF CacheTypeOK, VersionsSuffice, cacheVars, cacheHistory
  <1>2. CASE Commit
    <2>1. db + 1 \notin pending
      BY <1>0 DEF CacheTypeOK
    <2>2. Cardinality(pending') = Cardinality(pending) + 1
      BY <1>0, <1>2, <2>1, FS_AddElement DEF Commit
    <2>3. db' \in Commits /\ pending' \subseteq 1..db' /\ 0..db \subseteq 0..db'
      BY <1>0, <1>2 DEF Commit, CacheTypeOK, Commits
    <2>4. VersionsSuffice'
      BY <1>0, <1>2, <2>2 DEF Commit, VersionsSuffice, CacheTypeOK, Versions
    <2>5. added' \subseteq pending'
      BY <1>2 DEF Commit, CacheTypeOK
    <2> QED BY <1>2, <2>3, <2>4, <2>5 DEF Commit, CacheTypeOK, cacheHistory
  <1>3. CASE \E n \in Commits : Increment(n)
    <2>1. PICK n \in Commits : Increment(n)
      BY <1>3
    <2>2. n \in pending /\ pending' = pending \ {n} /\ added' = added \ {n}
      BY <2>1 DEF Increment, CacheTypeOK
    <2>3. IsFiniteSet(pending') /\ Cardinality(pending') = Cardinality(pending) - 1
      BY <1>0, <2>2, FS_RemoveElement
    <2>4. Cardinality(pending') \in Nat /\ db <= MaxWrites /\ db' = db
      BY <2>1, <2>3, FS_CardinalityType DEF Increment, CacheTypeOK, Commits
    <2>5. version' \in Versions \cup {Nothing} /\ VersionsSuffice'
      <3>1. CASE version = Nothing
        BY <2>1, <3>1 DEF Increment, VersionsSuffice
      <3>2. CASE version # Nothing
        <4>1. version \in Nat /\ version' = version + 1
          BY <2>1, <3>2 DEF Increment, CacheTypeOK, Versions
        <4>2. version + Cardinality(pending) <= db + 1
          BY <3>2 DEF VersionsSuffice
        <4> QED BY <1>0, <2>3, <2>4, <4>1, <4>2 DEF VersionsSuffice, Versions
      <3> QED BY <3>1, <3>2
    <2>6. pending' \subseteq 1..db' /\ added' \subseteq pending' /\ settled' \in 0..db'
      BY <1>0, <2>1, <2>2 DEF Increment, CacheTypeOK
    <2> QED BY <2>1, <2>5, <2>6 DEF Increment, CacheTypeOK
  <1>4. CASE \E n \in Commits : InvalidationLost(n)
    <2>1. PICK n \in Commits : InvalidationLost(n)
      BY <1>4
    <2>2. Cardinality(pending') = Cardinality(pending) - 1
      BY <1>0, <2>1, FS_RemoveElement DEF InvalidationLost
    <2>3. VersionsSuffice'
      BY <1>0, <2>1, <2>2 DEF InvalidationLost, VersionsSuffice, CacheTypeOK, Versions
    <2>4. /\ pending' \subseteq 1..db' /\ added' \subseteq pending'
          /\ lapses' \in 0..MaxLapses
      BY <2>1 DEF InvalidationLost, CacheTypeOK
    <2> QED BY <2>1, <2>3, <2>4 DEF InvalidationLost, CacheTypeOK
  <1>5. CASE VersionExpires
    <2>1. lapses' \in 0..MaxLapses
      BY <1>5 DEF VersionExpires, CacheTypeOK
    <2> QED BY <1>5, <2>1 DEF VersionExpires, CacheTypeOK, VersionsSuffice
  <1>6. CASE \E v \in Versions : PageExpires(v)
    BY <1>6 DEF PageExpires, CacheTypeOK, VersionsSuffice, cacheHistory
  <1>7. ASSUME NEW r \in Readers,
               \/ GetVersion(r) \/ SetFirstVersion(r) \/ GetPage(r) \/ QueryDatabase(r)
               \/ StorePage(r) \/ Respond(r) \/ GetVersionFails(r)
               \/ SetFirstVersionFails(r) \/ GetPageFails(r) \/ Dies(r)
        PROVE  CacheTypeOK' /\ VersionsSuffice'
    <2>1. reader' \in [Readers -> Requests]
      BY <1>7, RequestsTyped
    <2>2. CASE SetFirstVersion(r)
      <3>1. /\ version' = 1 /\ 1 \in Versions /\ undone' \in BOOLEAN
            /\ UNCHANGED <<db, pending, added, page, settled, lapses>>
        BY <2>2 DEF CacheTypeOK, SetFirstVersion, Versions
      <3>2. VersionsSuffice'
        BY <1>0, <3>1 DEF VersionsSuffice
      <3> QED BY <2>1, <3>1, <3>2 DEF CacheTypeOK
    <2>3. CASE StorePage(r)
      <3>1. reader[r].data \in Commits
        BY <2>3, RequestFacts DEF StorePage, At, CacheTypeOK
      <3>2. page' \in [Versions -> Commits \cup {Nothing}]
        BY <2>3, <3>1 DEF StorePage, CacheTypeOK
      <3> QED
        BY <2>1, <2>3, <3>2 DEF StorePage, CacheTypeOK, VersionsSuffice, cacheHistory
    <2>4. CASE GetVersionFails(r) \/ SetFirstVersionFails(r) \/ GetPageFails(r)
      <3>1. lapses' \in 0..MaxLapses
        BY <2>4 DEF GetVersionFails, SetFirstVersionFails, GetPageFails, CacheTypeOK
      <3> QED
        BY <2>1, <2>4, <3>1
        DEF GetVersionFails, SetFirstVersionFails, GetPageFails, CacheTypeOK, VersionsSuffice
    <2> QED
      BY <1>7, <2>1, <2>2, <2>3, <2>4
      DEF GetVersion, GetPage, QueryDatabase, Respond, Dies, CacheTypeOK,
          VersionsSuffice, cacheHistory
  <1>8. CASE \E n \in Commits : AddVersion(n) \/ AddVersionFails(n)
    <2>1. PICK n \in Commits : AddVersion(n) \/ AddVersionFails(n)
      BY <1>8
    <2>2. added' \subseteq pending' /\ pending' = pending /\ db' = db
      BY <2>1 DEF AddVersion, AddVersionFails, CacheTypeOK
    <2>3. version' = version \/ version' = 0
      BY <2>1 DEF AddVersion, AddVersionFails
    <2>4. version' \in Versions \cup {Nothing}
      BY <2>3 DEF CacheTypeOK, Versions
    <2>5. VersionsSuffice'
      BY <1>0, <2>2, <2>3 DEF VersionsSuffice
    <2>6. lapses' \in 0..MaxLapses
      BY <2>1 DEF AddVersion, AddVersionFails, CacheTypeOK, cacheHistory
    <2> QED
      BY <2>1, <2>2, <2>4, <2>5, <2>6
      DEF AddVersion, AddVersionFails, CacheTypeOK, cacheHistory
  <1> QED BY <1>1, <1>2, <1>3, <1>4, <1>5, <1>6, <1>7, <1>8 DEF CacheNext

-----------------------------------------------------------------------------
(* While nothing is lost and no version is set back                        *)

\* A request that moves to a sound state, while the version and the pages stay.
LEMMA RequestMoves ==
  ASSUME FloorOfVersion, CacheTypeOK, NEW r \in Readers, NEW s \in Requests,
         Proceeds(r, s), UNCHANGED <<version, page, settled>>,
         RequestSound(s),
         \A q \in Readers : StoresFor(s, reader[q]) /\ StoresFor(reader[q], s)
  PROVE  FloorOfVersion'
  <1>1. /\ reader'[r] = s
        /\ \A q \in Readers : q # r => reader'[q] = reader[q]
    BY DEF Proceeds, CacheTypeOK
  <1>2. \A q \in Readers : RequestSound(reader'[q])
    BY <1>1 DEF FloorOfVersion
  <1>3. \A q \in Readers : RequestSound(reader[q])'
    BY <1>2 DEF RequestSound
  <1>4. \A p, q \in Readers : StoresFor(reader'[p], reader'[q])
    <2> SUFFICES ASSUME NEW p \in Readers, NEW q \in Readers
                 PROVE  StoresFor(reader'[p], reader'[q])
      OBVIOUS
    <2>1. CASE p = r /\ q = r
      <3>1. s.at = "queried" => s.data >= s.floor
        BY DEF RequestSound
      <3> QED BY <1>1, <2>1, <3>1 DEF StoresFor
    <2>2. CASE p = r /\ q # r
      BY <1>1, <2>2
    <2>3. CASE p # r /\ q = r
      BY <1>1, <2>3
    <2>4. CASE p # r /\ q # r
      BY <1>1, <2>4 DEF FloorOfVersion
    <2> QED BY <2>1, <2>2, <2>3, <2>4
  <1>5. \A p, q \in Readers : StoresFor(reader[p], reader[q])'
    BY <1>4 DEF StoresFor
  <1> QED BY <1>3, <1>5 DEF FloorOfVersion, PagesSound

\* A request that found no version makes the first one, which has no page yet, or
\* finds that another has made it.
LEMMA FirstVersionSound ==
  ASSUME FloorOfVersion, CacheTypeOK, NEW r \in Readers, SetFirstVersion(r), ~undone'
  PROVE  FloorOfVersion'
  <1> USE CacheAssumption
  <1> DEFINE s == reader[r]
             new == [at |-> "versioned", floor |-> s.floor, version |-> 1]
  <1>1. /\ version \in {Nothing, 0, 1} /\ version' = 1
        /\ UNCHANGED <<page, settled>> /\ settled \in Nat /\ 1 \in Versions
    <2>1. ~(undone \/ version \notin {Nothing, 0, 1})
      BY DEF SetFirstVersion
    <2>2. version \in {Nothing, 0, 1}
      BY <2>1
    <2>3. version' = 1 /\ UNCHANGED <<page, settled>>
      BY DEF SetFirstVersion
    <2>4. settled \in Nat /\ 1 \in Versions
      BY DEF CacheTypeOK, Versions
    <2> QED BY <2>2, <2>3, <2>4
  <1>2. s \in Requests /\ s # NoRequest /\ s.floor \in Nat /\ s.floor <= settled
    <2>1. s \in Requests /\ s # NoRequest
      BY DEF SetFirstVersion, At, NoRequest, CacheTypeOK
    <2> QED BY <2>1, RequestFacts DEF FloorOfVersion, RequestSound, Commits
  <1>3. /\ reader'[r] = new
        /\ \A q \in Readers : q # r => reader'[q] = reader[q]
    BY DEF SetFirstVersion, Proceeds, CacheTypeOK
  <1>4. /\ new.at = "versioned" /\ new.floor = s.floor /\ new.version = 1
        /\ new # NoRequest /\ Versioned(new)
    BY DEF NoRequest, Versioned
  <1> HIDE DEF new
  <1>5. ASSUME NEW v \in Versions, page[v] # Nothing
        PROVE  version # Nothing /\ v <= 1 /\ (v = 1 => version = 1 /\ page[v] >= settled)
    <2>1. version # Nothing /\ v <= version /\ (v = version => page[v] >= settled)
      BY <1>5 DEF FloorOfVersion, PagesSound
    <2> QED BY <1>1, <2>1 DEF Versions
  <1>6. PagesSound'
    BY <1>1, <1>5 DEF PagesSound
  <1>7. page[1] # Nothing => page[1] \in Nat /\ page[1] >= s.floor
    <2>1. page[1] # Nothing => page[1] \in Nat /\ page[1] >= settled
      BY <1>1, <1>5 DEF CacheTypeOK, Commits
    <2> QED BY <1>1, <1>2, <2>1
  <1>8. \A q \in Readers : /\ reader[q] \in Requests /\ RequestSound(reader[q])
                           /\ Versioned(reader[q]) => reader[q].version \in Nat
    BY RequestFacts DEF CacheTypeOK, FloorOfVersion, Versions
  <1>9. ASSUME NEW q \in Readers, Versioned(reader[q])
        PROVE  /\ version # Nothing /\ reader[q].version <= 1
               /\ reader[q].version = 1 => version = 1
    <2>1. version # Nothing /\ reader[q].version <= version
      BY <1>8, <1>9 DEF RequestSound
    <2> QED BY <1>1, <1>8, <1>9, <2>1
  <1>10. ASSUME NEW q \in Readers PROVE RequestSound(reader[q])'
    <2>1. CASE q = r
      <3>1. version' # Nothing /\ 1 <= version'
        BY <1>1
      <3> QED BY <1>1, <1>2, <1>3, <1>4, <1>7, <2>1, <3>1 DEF RequestSound
    <2>2. CASE q # r
      <3>1. reader'[q] = reader[q] /\ RequestSound(reader[q])
        BY <1>3, <1>8, <2>2
      <3>2. Versioned(reader[q]) => version' # Nothing /\ reader[q].version <= version'
        BY <1>1, <1>9
      <3>3. reader[q].at = "queried" /\ reader[q].version = version' =>
              reader[q].data >= settled
        BY <1>1, <1>9, <3>1 DEF RequestSound, Versioned
      <3> QED BY <1>1, <3>1, <3>2, <3>3 DEF RequestSound
    <2> QED BY <2>1, <2>2
  <1>11. ASSUME NEW p \in Readers, NEW q \in Readers PROVE StoresFor(reader[p], reader[q])'
    <2>1. CASE p = r
      BY <1>3, <1>4, <2>1 DEF StoresFor
    <2>2. CASE p # r /\ q # r
      BY <1>3, <2>2 DEF StoresFor, FloorOfVersion
    <2>3. CASE p # r /\ q = r
      <3> SUFFICES ASSUME reader[p].at = "queried", reader[p].version = 1
                   PROVE  reader[p].data >= s.floor
        BY <1>3, <1>4, <2>3 DEF StoresFor
      <3>1. version = 1
        BY <1>9 DEF Versioned
      <3>2. reader[p].data >= settled /\ reader[p].data \in Nat
        BY <1>8, <3>1, RequestFacts DEF RequestSound, Commits
      <3> QED BY <1>1, <1>2, <3>2
    <2> QED BY <2>1, <2>2, <2>3
  <1> QED BY <1>6, <1>10, <1>11 DEF FloorOfVersion

LEMMA FloorInvariant ==
  ASSUME CacheTypeOK, CacheTypeOK', FloorOfVersion,
         lapses = 0, lapses' = 0, ~undone', CacheNext
  PROVE  FloorOfVersion'
  <1> USE CacheAssumption
  <1>0. db \in Nat /\ settled \in Nat /\ settled <= db
    BY DEF CacheTypeOK, Commits
  <1>00. \A r \in Readers :
           /\ reader[r] \in Requests /\ RequestSound(reader[r])
           /\ reader[r] # NoRequest => reader[r].floor \in Nat
           /\ Versioned(reader[r]) => reader[r].version \in Versions /\ reader[r].version \in Nat
           /\ reader[r].at \in {"queried", "answered"} => reader[r].data \in Nat
    BY RequestFacts DEF CacheTypeOK, FloorOfVersion, Versions, Commits
  <1>000. version # Nothing => version \in Versions /\ version \in Nat
    BY DEF CacheTypeOK, Versions
  <1>1. CASE Commit
    <2>1. UNCHANGED <<version, page, reader, settled>>
      BY <1>1 DEF Commit, cacheHistory
    <2> QED BY <2>1 DEF FloorOfVersion, PagesSound, RequestSound, StoresFor
  <1>2. CASE \E n \in Commits : Increment(n)
    <2>1. /\ page' = page /\ reader' = reader
          /\ \/ version # Nothing /\ version' = version + 1 /\ settled' = db
             \/ UNCHANGED <<version, settled>>
      BY <1>2 DEF Increment
    <2>2. CASE UNCHANGED <<version, settled>>
      BY <2>1, <2>2 DEF FloorOfVersion, PagesSound, RequestSound, StoresFor
    <2>3. CASE version # Nothing /\ version' = version + 1 /\ settled' = db
      <3>1. version \in Nat /\ version' # Nothing
        BY <1>000, <2>3
      <3>2. PagesSound'
        <4>1. ASSUME NEW v \in Versions, page[v] # Nothing
              PROVE  v <= version' /\ v # version'
          <5>1. v <= version /\ v \in Nat
            BY <4>1 DEF FloorOfVersion, PagesSound, Versions
          <5> QED BY <2>3, <3>1, <5>1
        <4> QED BY <2>1, <3>1, <4>1 DEF PagesSound
      <3>3. ASSUME NEW r \in Readers PROVE RequestSound(reader[r])'
        <4>1. /\ RequestSound(reader[r])
              /\ reader[r] # NoRequest => reader[r].floor \in Nat
              /\ Versioned(reader[r]) => reader[r].version \in Nat
          BY <1>00
        <4>2. Versioned(reader[r]) =>
                reader[r].version <= version' /\ reader[r].version # version'
          BY <2>3, <3>1, <4>1 DEF RequestSound
        <4>3. reader[r] # NoRequest => reader[r].floor <= settled'
          BY <1>0, <2>3, <4>1 DEF RequestSound
        <4>4. reader[r].at = "queried" => Versioned(reader[r])
          BY DEF Versioned
        <4> QED BY <2>1, <3>1, <4>1, <4>2, <4>3, <4>4 DEF RequestSound
      <3> QED BY <2>1, <3>2, <3>3 DEF FloorOfVersion, StoresFor
    <2> QED BY <2>1, <2>2, <2>3
  <1>3. CASE \E v \in Versions : PageExpires(v)
    <2>1. PICK v \in Versions : PageExpires(v)
      BY <1>3
    <2>2. /\ \A u \in Versions : page'[u] = page[u] \/ page'[u] = Nothing
          /\ UNCHANGED <<version, reader, settled>>
      BY <2>1 DEF PageExpires, CacheTypeOK, cacheHistory
    <2>3. PagesSound'
      BY <2>2 DEF FloorOfVersion, PagesSound
    <2>4. ASSUME NEW r \in Readers PROVE RequestSound(reader[r])'
      BY <1>00, <2>2 DEF RequestSound
    <2> QED BY <2>2, <2>3, <2>4 DEF FloorOfVersion, StoresFor
  <1>4. ASSUME NEW r \in Readers,
               \/ GetVersion(r) \/ SetFirstVersion(r) \/ GetPage(r) \/ QueryDatabase(r)
               \/ StorePage(r) \/ Respond(r) \/ Dies(r)
        PROVE  FloorOfVersion'
    <2> DEFINE s == reader[r]
    <2>0. s \in Requests /\ RequestSound(s)
      BY <1>00
    <2>00. /\ s # NoRequest => s.floor \in Nat
           /\ Versioned(s) => s.version \in Versions /\ s.version \in Nat
           /\ s.at \in {"queried", "answered"} => s.data \in Nat
      BY <1>00
    <2>1. CASE GetVersion(r)
      <3>0. UNCHANGED <<version, page, settled>>
        BY <2>1 DEF GetVersion, cacheHistory
      <3>1. CASE version = Nothing
        <4> DEFINE new == [at |-> "unversioned", floor |-> settled]
        <4>1. Proceeds(r, new)
          BY <2>1, <3>1 DEF GetVersion
        <4>2. new \in Requests
          BY <1>0 DEF Requests, CacheTypeOK, Commits
        <4>3. RequestSound(new)
          BY <1>0 DEF RequestSound, Versioned
        <4>4. \A q \in Readers : StoresFor(new, reader[q]) /\ StoresFor(reader[q], new)
          BY DEF StoresFor, Versioned
        <4> HIDE DEF new
        <4> QED BY <3>0, <4>1, <4>2, <4>3, <4>4, RequestMoves
      <3>2. CASE version # Nothing
        <4> DEFINE new == [at |-> "versioned", floor |-> settled, version |-> version]
        <4>1. Proceeds(r, new)
          BY <2>1, <3>2 DEF GetVersion
        <4>2. new \in Requests
          BY <1>0, <1>000, <3>2 DEF Requests, CacheTypeOK, Commits
        <4>3. RequestSound(new)
          BY <1>0, <1>000, <3>2 DEF RequestSound, FloorOfVersion, PagesSound
        <4>4. \A q \in Readers : StoresFor(new, reader[q]) /\ StoresFor(reader[q], new)
          BY <1>00 DEF StoresFor, RequestSound
        <4> HIDE DEF new
        <4> QED BY <3>0, <4>1, <4>2, <4>3, <4>4, RequestMoves
      <3> QED BY <3>1, <3>2
    <2>2. CASE SetFirstVersion(r)
      BY <2>2, FirstVersionSound
    <2>3. CASE GetPage(r)
      <3>1. s.at = "versioned" /\ s # NoRequest /\ UNCHANGED <<version, page, settled>>
        BY <2>3 DEF GetPage, At, NoRequest, cacheHistory
      <3>2. CASE page[s.version] = Nothing
        <4> DEFINE new == [s EXCEPT !.at = "missed"]
        <4>1. Proceeds(r, new)
          BY <2>3, <3>2 DEF GetPage
        <4>2. /\ new \in Requests
              /\ new.at = "missed" /\ new.floor = s.floor /\ new.version = s.version
          BY <2>0, <3>1 DEF Requests, NoRequest
        <4> HIDE DEF new
        <4>3. RequestSound(new)
          BY <2>0, <3>1, <4>2 DEF RequestSound, Versioned, NoRequest
        <4>4. \A q \in Readers : StoresFor(new, reader[q]) /\ StoresFor(reader[q], new)
          BY <3>1, <4>2 DEF StoresFor, FloorOfVersion, Versioned
        <4> QED BY <3>1, <4>1, <4>2, <4>3, <4>4, RequestMoves
      <3>3. CASE page[s.version] # Nothing
        <4> DEFINE new == [at |-> "answered", floor |-> s.floor, data |-> page[s.version]]
        <4>1. Proceeds(r, new)
          BY <2>3, <3>3 DEF GetPage
        <4>2. new \in Requests
          BY <2>0, <3>1, <3>3, RequestFacts DEF Requests, CacheTypeOK, Versioned
        <4>3. RequestSound(new)
          BY <2>0, <3>1, <3>3 DEF RequestSound, Versioned
        <4>4. \A q \in Readers : StoresFor(new, reader[q]) /\ StoresFor(reader[q], new)
          BY DEF StoresFor, Versioned
        <4> HIDE DEF new
        <4> QED BY <3>1, <4>1, <4>2, <4>3, <4>4, RequestMoves
      <3> QED BY <3>2, <3>3
    <2>4. CASE QueryDatabase(r)
      <3> DEFINE new == [at |-> "queried", floor |-> s.floor,
                         version |-> s.version, data |-> db]
      <3>1. /\ s.at = "missed" /\ s # NoRequest /\ Proceeds(r, new)
            /\ UNCHANGED <<version, page, settled>>
        BY <2>4 DEF QueryDatabase, At, NoRequest, cacheHistory
      <3>2. new \in Requests
        BY <2>0, <3>1, RequestFacts DEF Requests, CacheTypeOK, Versioned
      <3>3. RequestSound(new)
        BY <1>0, <2>0, <2>00, <3>1 DEF RequestSound, Versioned
      <3>4. ASSUME NEW q \in Readers
            PROVE  StoresFor(new, reader[q]) /\ StoresFor(reader[q], new)
        <4>1. Versioned(reader[q]) => reader[q].floor \in Nat /\ reader[q].floor <= settled
          BY <1>00 DEF Versioned, NoRequest, RequestSound
        <4>2. Versioned(reader[q]) => db >= reader[q].floor
          BY <1>0, <4>1
        <4> QED BY <3>1, <4>2 DEF StoresFor, FloorOfVersion, Versioned
      <3> HIDE DEF new
      <3> QED BY <3>1, <3>2, <3>3, <3>4, RequestMoves
    <2>5. CASE Respond(r) \/ Dies(r)
      <3>1. Proceeds(r, NoRequest) /\ UNCHANGED <<version, page, settled>>
        BY <2>5 DEF Respond, Dies, cacheHistory
      <3>2. NoRequest \in Requests /\ RequestSound(NoRequest)
        BY DEF Requests, RequestSound, Versioned, NoRequest
      <3>3. \A q \in Readers : StoresFor(NoRequest, reader[q]) /\ StoresFor(reader[q], NoRequest)
        BY DEF StoresFor, Versioned, NoRequest
      <3> QED BY <3>1, <3>2, <3>3, RequestMoves
    <2>6. CASE StorePage(r)
      <3> DEFINE new == [at |-> "answered", floor |-> s.floor, data |-> s.data]
      <3>1. /\ s.at = "queried" /\ s # NoRequest /\ UNCHANGED <<version, settled>>
            /\ Proceeds(r, new) /\ page' = [page EXCEPT ![s.version] = s.data]
        BY <2>6 DEF StorePage, At, NoRequest, cacheHistory
      <3>2. /\ s.version \in Versions /\ s.data \in Nat /\ s.floor \in Nat
            /\ version # Nothing /\ s.version <= version /\ s.data >= s.floor
            /\ s.version = version => s.data >= settled
        BY <2>0, <2>00, <3>1 DEF RequestSound, Versioned
      <3>3. /\ page'[s.version] = s.data
            /\ \A v \in Versions : v # s.version => page'[v] = page[v]
            /\ reader'[r] = new
            /\ \A q \in Readers : q # r => reader'[q] = reader[q]
        BY <3>1, <3>2 DEF CacheTypeOK, Proceeds
      <3>4. PagesSound'
        BY <3>1, <3>2, <3>3 DEF FloorOfVersion, PagesSound
      <3>5. /\ new.at = "answered" /\ new # NoRequest
            /\ new.floor = s.floor /\ new.data = s.data
        BY DEF NoRequest
      <3>6. ASSUME NEW q \in Readers, q # r PROVE RequestSound(reader[q])'
        <4>1. RequestSound(reader[q]) /\ StoresFor(s, reader[q])
          BY DEF FloorOfVersion
        <4>2. Versioned(reader[q]) => reader[q].version \in Versions
          BY <1>00
        <4>3. Versioned(reader[q]) /\ reader[q].version = s.version => s.data >= reader[q].floor
          BY <3>1, <4>1 DEF StoresFor
        <4> QED BY <3>1, <3>3, <3>6, <4>1, <4>2, <4>3 DEF RequestSound
      <3>7. \A q \in Readers : RequestSound(reader[q])'
        <4>1. s.floor <= settled'
          BY <2>0, <3>1 DEF RequestSound
        <4>2. RequestSound(reader[r])'
          BY <3>2, <3>3, <3>5, <4>1 DEF RequestSound, Versioned
        <4> QED BY <3>6, <4>2
      <3>8. ~Versioned(new) /\ new.at # "queried"
        BY DEF Versioned
      <3> HIDE DEF new
      <3>9. \A p, q \in Readers : StoresFor(reader'[p], reader'[q])
        BY <3>3, <3>8 DEF StoresFor, FloorOfVersion
      <3>10. \A p, q \in Readers : StoresFor(reader[p], reader[q])'
        BY <3>9 DEF StoresFor
      <3> QED BY <3>4, <3>7, <3>10 DEF FloorOfVersion
    <2> QED BY <1>4, <2>1, <2>2, <2>3, <2>4, <2>5, <2>6
  <1>5. ~VersionExpires /\ ~\E n \in Commits : AddVersionFails(n) \/ InvalidationLost(n)
    BY DEF VersionExpires, AddVersionFails, InvalidationLost
  <1>6. \A r \in Readers : ~GetVersionFails(r) /\ ~SetFirstVersionFails(r) /\ ~GetPageFails(r)
    BY DEF GetVersionFails, SetFirstVersionFails, GetPageFails
  <1>7. CASE \E n \in Commits : AddVersion(n)
    <2>1. /\ UNCHANGED <<page, reader, settled>>
          /\ version # Nothing => version' = version
      BY <1>7 DEF AddVersion, cacheHistory
    <2>2. CASE version # Nothing
      BY <2>1, <2>2 DEF FloorOfVersion, PagesSound, RequestSound, StoresFor
    <2>3. CASE version = Nothing
      <3>1. \A v \in Versions : page[v] = Nothing
        BY <2>3 DEF FloorOfVersion, PagesSound
      <3>2. \A r \in Readers : ~Versioned(reader[r])
        BY <1>00, <2>3 DEF RequestSound
      <3>3. \A r \in Readers : RequestSound(reader[r])'
        BY <1>00, <2>1, <3>2 DEF RequestSound, Versioned
      <3> QED BY <2>1, <3>1, <3>2, <3>3 DEF FloorOfVersion, PagesSound, StoresFor
    <2> QED BY <2>2, <2>3
  <1> QED BY <1>1, <1>2, <1>3, <1>4, <1>5, <1>6, <1>7 DEF CacheNext

-----------------------------------------------------------------------------
LEMMA CacheInitSound == CacheInit => CacheInvariant
  <1> SUFFICES ASSUME CacheInit PROVE CacheInvariant
    OBVIOUS
  <1> USE CacheAssumption DEF CacheInit
  <1>1. 0 \in Commits /\ NoRequest \in Requests
    BY DEF Versions, Commits, Requests
  <1>2. CacheTypeOK
    <2>1. version \in Versions \cup {Nothing} /\ undone \in BOOLEAN
      OBVIOUS
    <2>2. page \in [Versions -> Commits \cup {Nothing}] /\ reader \in [Readers -> Requests]
      BY <1>1
    <2> QED BY <1>1, <2>1, <2>2 DEF CacheTypeOK
  <1>3. VersionsSuffice
    BY FS_EmptySet DEF VersionsSuffice
  <1>4. RequestSound(NoRequest) /\ NoRequest.at = "idle"
    BY DEF RequestSound, Versioned, NoRequest
  <1>5. FloorOfVersion
    BY <1>4 DEF FloorOfVersion, PagesSound, StoresFor
  <1> QED BY <1>2, <1>3, <1>5 DEF CacheInvariant

LEMMA LapsesStay ==
  ASSUME CacheTypeOK, [CacheNext]_cacheVars, lapses' = 0, ~undone'
  PROVE  lapses = 0 /\ ~undone
  <1>0. lapses \in Nat
    BY CacheAssumption DEF CacheTypeOK
  <1>1. CASE Commit \/ VersionExpires \/ UNCHANGED cacheVars
    BY <1>0, <1>1 DEF Commit, VersionExpires, cacheVars, cacheHistory
  <1>2. ASSUME NEW n \in Commits,
               AddVersion(n) \/ Increment(n) \/ AddVersionFails(n) \/ InvalidationLost(n)
        PROVE  lapses = 0 /\ ~undone
    BY <1>0, <1>2
    DEF AddVersion, Increment, AddVersionFails, InvalidationLost, cacheHistory
  <1>3. ASSUME NEW v \in Versions, PageExpires(v) PROVE lapses = 0 /\ ~undone
    BY <1>3 DEF PageExpires, cacheHistory
  <1>4. ASSUME NEW r \in Readers,
               \/ GetVersion(r) \/ SetFirstVersion(r) \/ GetPage(r) \/ QueryDatabase(r)
               \/ StorePage(r) \/ Respond(r) \/ GetVersionFails(r)
               \/ SetFirstVersionFails(r) \/ GetPageFails(r) \/ Dies(r)
        PROVE  lapses = 0 /\ ~undone
    <2>1. CASE SetFirstVersion(r)
      <3>1. ~(undone \/ version \notin {Nothing, 0, 1}) /\ lapses' = lapses
        BY <2>1 DEF SetFirstVersion
      <3> QED BY <3>1
    <2>2. CASE ~SetFirstVersion(r)
      BY <1>0, <1>4, <2>2
      DEF GetVersion, GetPage, QueryDatabase, StorePage, Respond,
          GetVersionFails, SetFirstVersionFails, GetPageFails, Dies, cacheHistory
    <2> QED BY <2>1, <2>2
  <1> QED BY <1>1, <1>2, <1>3, <1>4 DEF CacheNext

LEMMA CacheInvariance == CacheSpec => []CacheInvariant
  <1>1. CacheInvariant /\ [CacheNext]_cacheVars => CacheInvariant'
    <2> SUFFICES ASSUME CacheInvariant, [CacheNext]_cacheVars PROVE CacheInvariant'
      OBVIOUS
    <2>1. CacheTypeOK' /\ VersionsSuffice'
      BY CacheTypesKept DEF CacheInvariant
    <2>2. ASSUME lapses' = 0, ~undone' PROVE FloorOfVersion'
      <3>1. lapses = 0 /\ ~undone /\ FloorOfVersion
        BY <2>2, LapsesStay DEF CacheInvariant
      <3>2. CASE CacheNext
        BY <2>1, <2>2, <3>1, <3>2, FloorInvariant DEF CacheInvariant
      <3>3. CASE UNCHANGED cacheVars
        BY <3>1, <3>3 DEF cacheVars, cacheHistory, FloorOfVersion, PagesSound, RequestSound
      <3> QED BY <3>2, <3>3
    <2> QED BY <2>1, <2>2 DEF CacheInvariant
  <1> QED BY CacheInitSound, <1>1, PTL DEF CacheSpec

\* Every variable keeps its domain, though version keys are lost and made again by
\* requests and hooks, or left at 0 by a hook that did not end: no hook advances the
\* version past one for each commit.
THEOREM CacheTypeCorrect == CacheFairSpec => []CacheTypeOK
  <1>1. CacheInvariant => CacheTypeOK
    BY DEF CacheInvariant
  <1> QED BY CacheInvariance, <1>1, PTL DEF CacheFairSpec

\* From an empty cache, a request is served every commit whose invalidation had run
\* when the request began, while no version key was lost, no cache command failed
\* and no late first version took the place of a higher one.
THEOREM InvalidatedPagesAreNotServed == CacheFairSpec => []FreshAfterInvalidation
  <1>1. CacheInvariant => FreshAfterInvalidation
    BY DEF CacheInvariant, FreshAfterInvalidation, FloorOfVersion, RequestSound, At
  <1> QED BY CacheInvariance, <1>1, PTL DEF CacheFairSpec
=============================================================================
