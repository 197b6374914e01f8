---------------------------- MODULE CatalogCache ----------------------------
(***************************************************************************)
(* The cached pages of the public catalogue (products/cache.py): one list  *)
(* or detail page under each version of the namespace, requests that read  *)
(* through the cache, and writers whose on_commit hook advances the        *)
(* version.                                                                *)
(*                                                                         *)
(* The contents of a page are the number of the last commit that all the   *)
(* queries behind it have seen. Every cache command is a step of its own,  *)
(* the two of incr too, and may fail: the exception is swallowed, a get    *)
(* finds nothing, a set, add or incr does nothing and the next command     *)
(* follows. The cache starts empty, as it does after a deploy that changes *)
(* CATALOG_CACHE_SCHEMA. Staff requests bypass it.                         *)
(* CatalogProofs extends this module and ProductImages: what both have     *)
(* bears the prefix Cache here.                                            *)
(***************************************************************************)
EXTENDS Integers, FiniteSets

CONSTANTS
  Readers,     \* requests of anonymous visitors and of customers
  MaxWrites,   \* bound: commits that change the catalogue
  MaxLapses,   \* bound: times the version key is lost, and commands that fail
  Nothing

ASSUME CacheAssumption == MaxWrites \in Nat /\ MaxLapses \in Nat /\ Nothing \notin Nat

VARIABLES
  db,        \* the number of commits that changed the catalogue
  pending,   \* the commits whose hook has not ended
  added,     \* those of them whose hook is between its add and its incr
  version,   \* products:fragrance-v2:version
  page,      \* the page under each version
  reader,    \* what each request does
  \* History, for the properties only:
  settled,   \* the number of commits when the version last advanced
  undone,    \* a late first version took the place of a higher one
  lapses

cacheHistory == <<settled, undone, lapses>>
cacheVars == <<db, pending, added, version, page, reader, cacheHistory>>

Commits == 0..MaxWrites
Versions == 0..(MaxWrites + 1)

NoRequest == [at |-> "idle"]
\* floor is the value of settled when the request began.
Requests ==
  {NoRequest}
    \cup [at : {"unversioned"}, floor : Commits]
    \cup [at : {"versioned", "missed"}, floor : Commits, version : Versions]
    \cup [at : {"queried"}, floor : Commits, version : Versions, data : Commits]
    \cup [at : {"answered"}, floor : Commits, data : Commits]

CacheInit ==
  /\ db = 0
  /\ pending = {}
  /\ added = {}
  /\ version = Nothing
  /\ page = [v \in Versions |-> Nothing]
  /\ reader = [r \in Readers |-> NoRequest]
  /\ settled = 0
  /\ undone = FALSE
  /\ lapses = 0

At(r, step) == reader[r].at = step
Proceeds(r, state) == reader' = [reader EXCEPT ![r] = state]

-----------------------------------------------------------------------------
(* ProductListCreateAPIView.get and ProductDetailAPIView.get               *)

\* get_catalog_cache_version: a version that is not found, or whose get fails,
\* is set to 1 by the next command.
GetVersion(r) ==
  /\ reader[r] = NoRequest
  /\ IF version = Nothing
     THEN Proceeds(r, [at |-> "unversioned", floor |-> settled])
     ELSE Proceeds(r, [at |-> "versioned", floor |-> settled, version |-> version])
  /\ UNCHANGED <<db, pending, added, version, page, cacheHistory>>

\* Whatever version was made meanwhile is written over.
SetFirstVersion(r) ==
  /\ At(r, "unversioned")
  /\ version' = 1
  /\ undone' = (undone \/ version \notin {Nothing, 0, 1})
  /\ Proceeds(r, [at |-> "versioned", floor |-> reader[r].floor, version |-> 1])
  /\ UNCHANGED <<db, pending, added, page, settled, lapses>>

GetPage(r) ==
  /\ At(r, "versioned")
  /\ LET cached == page[reader[r].version]
     IN  IF cached = Nothing
         THEN Proceeds(r, [reader[r] EXCEPT !.at = "missed"])
         ELSE Proceeds(r, [at |-> "answered", floor |-> reader[r].floor, data |-> cached])
  /\ UNCHANGED <<db, pending, added, version, page, cacheHistory>>

\* The selectors and the serializer, which may take any time before the set.
QueryDatabase(r) ==
  /\ At(r, "missed")
  /\ Proceeds(r, [at |-> "queried", floor |-> reader[r].floor,
              version |-> reader[r].version, data |-> db])
  /\ UNCHANGED <<db, pending, added, version, page, cacheHistory>>

\* Mutant of StorePage: the key is made again when the page is stored.
StorePageUnderCurrent(r) ==
  /\ At(r, "queried")
  /\ version # Nothing
  /\ page' = [page EXCEPT ![version] = reader[r].data]
  /\ Proceeds(r, [at |-> "answered", floor |-> reader[r].floor, data |-> reader[r].data])
  /\ UNCHANGED <<db, pending, added, version, cacheHistory>>

\* The page is stored under the version that was read first, not the current one.
StorePage(r) ==
  /\ At(r, "queried")
  /\ page' = [page EXCEPT ![reader[r].version] = reader[r].data]
  /\ Proceeds(r, [at |-> "answered", floor |-> reader[r].floor, data |-> reader[r].data])
  /\ UNCHANGED <<db, pending, added, version, cacheHistory>>

Respond(r) ==
  /\ At(r, "answered")
  /\ Proceeds(r, NoRequest)
  /\ UNCHANGED <<db, pending, added, version, page, cacheHistory>>

-----------------------------------------------------------------------------
(* products/signals.py                                                     *)

\* A save or a delete of a product, an image, a category, a brand or a note is
\* committed. The hook is still to run.
Commit ==
  /\ db < MaxWrites
  /\ db' = db + 1
  /\ pending' = pending \cup {db + 1}
  /\ UNCHANGED <<added, version, page, reader, cacheHistory>>

\* RedisCacheService.incr: first it adds a version 0, if there is none ...
AddVersion(n) ==
  /\ n \in pending \ added
  /\ version' = IF version = Nothing THEN 0 ELSE version
  /\ added' = added \cup {n}
  /\ UNCHANGED <<db, pending, page, reader, cacheHistory>>

\* Mutant of Increment: it is sent once more when no answer came.
IncrementRepeated(n) ==
  /\ n \in added
  /\ version # Nothing
  /\ version' = version + 2
  /\ settled' = db
  /\ pending' = pending \ {n}
  /\ added' = added \ {n}
  /\ UNCHANGED <<db, page, reader, undone, lapses>>

\* ... then it increments the version there is, whose time to live stays what it
\* was. Without one it raises, which is swallowed.
Increment(n) ==
  /\ n \in added
  /\ \/ version # Nothing /\ version' = version + 1 /\ settled' = db
     \/ version = Nothing /\ UNCHANGED <<version, settled>>
  /\ pending' = pending \ {n}
  /\ added' = added \ {n}
  /\ UNCHANGED <<db, page, reader, undone, lapses>>

-----------------------------------------------------------------------------
(* Time and failures                                                       *)

\* Mutant of PageExpires: a page has no time to live while its version is in use.
PageOfOldVersionExpires(v) ==
  /\ page[v] # Nothing
  /\ v # version
  /\ page' = [page EXCEPT ![v] = Nothing]
  /\ UNCHANGED <<db, pending, added, version, reader, cacheHistory>>

\* 60 seconds after a list page is stored, 5 minutes after a detail page.
PageExpires(v) ==
  /\ page[v] # Nothing
  /\ page' = [page EXCEPT ![v] = Nothing]
  /\ UNCHANGED <<db, pending, added, version, reader, cacheHistory>>

\* The version key is gone 7 days after it was set, used or not. The pages that
\* were stored in the last minutes are still there.
VersionExpires ==
  /\ lapses < MaxLapses
  /\ version # Nothing
  /\ version' = Nothing
  /\ lapses' = lapses + 1
  /\ UNCHANGED <<db, pending, added, page, reader, settled, undone>>

\* The get of the version fails: to the request there is none.
GetVersionFails(r) ==
  /\ lapses < MaxLapses
  /\ reader[r] = NoRequest
  /\ Proceeds(r, [at |-> "unversioned", floor |-> settled])
  /\ lapses' = lapses + 1
  /\ UNCHANGED <<db, pending, added, version, page, settled, undone>>

\* The set of the first version fails; the request uses the number all the same.
SetFirstVersionFails(r) ==
  /\ lapses < MaxLapses
  /\ At(r, "unversioned")
  /\ Proceeds(r, [at |-> "versioned", floor |-> reader[r].floor, version |-> 1])
  /\ lapses' = lapses + 1
  /\ UNCHANGED <<db, pending, added, version, page, settled, undone>>

\* The get of a page fails.
GetPageFails(r) ==
  /\ lapses < MaxLapses
  /\ At(r, "versioned")
  /\ Proceeds(r, [reader[r] EXCEPT !.at = "missed"])
  /\ lapses' = lapses + 1
  /\ UNCHANGED <<db, pending, added, version, page, settled, undone>>

\* The add fails; the incr is sent all the same.
AddVersionFails(n) ==
  /\ lapses < MaxLapses
  /\ n \in pending \ added
  /\ added' = added \cup {n}
  /\ lapses' = lapses + 1
  /\ UNCHANGED <<db, pending, version, page, reader, settled, undone>>

\* The incr fails, or the process dies between the commit and the end of its
\* hook: a version 0 that the add made stays.
InvalidationLost(n) ==
  /\ lapses < MaxLapses
  /\ n \in pending
  /\ pending' = pending \ {n}
  /\ added' = added \ {n}
  /\ lapses' = lapses + 1
  /\ UNCHANGED <<db, version, page, reader, settled, undone>>

\* A request dies, wherever it is, or its page cannot be stored.
Dies(r) ==
  /\ reader[r] # NoRequest
  /\ Proceeds(r, NoRequest)
  /\ UNCHANGED <<db, pending, added, version, page, cacheHistory>>

-----------------------------------------------------------------------------
CacheNext ==
  \/ Commit
  \/ VersionExpires
  \/ \E n \in Commits :
       AddVersion(n) \/ Increment(n) \/ AddVersionFails(n) \/ InvalidationLost(n)
  \/ \E v \in Versions : PageExpires(v)
  \/ \E r \in Readers :
       \/ GetVersion(r) \/ SetFirstVersion(r) \/ GetPage(r) \/ QueryDatabase(r)
       \/ StorePage(r) \/ Respond(r) \/ GetVersionFails(r)
       \/ SetFirstVersionFails(r) \/ GetPageFails(r) \/ Dies(r)

CacheSpec == CacheInit /\ [][CacheNext]_cacheVars

\* A page ends with its time to live and a request that was begun goes on; nobody
\* has to begin one.
CacheFairSpec ==
  /\ CacheSpec
  /\ \A v \in Versions : WF_cacheVars(PageExpires(v))
  /\ \A r \in Readers :
       WF_cacheVars(\/ SetFirstVersion(r) \/ GetPage(r) \/ QueryDatabase(r)
               \/ StorePage(r) \/ Respond(r))

-----------------------------------------------------------------------------
(* What is checked                                                         *)

\* Every request is served the result of each commit that was invalidated before
\* the request began, and of those before it, though pages are stored after the
\* version they are under was left, and the first requests and the first hook
\* make the version together. The code keeps this up to two things: the version
\* key is lost or a command fails, or a request that found no version sets it to
\* 1 when it is past 1 already. Then pages of the old number are served again.
FreshAfterInvalidation ==
  \A r \in Readers :
    At(r, "answered") /\ lapses = 0 /\ ~undone => reader[r].data >= reader[r].floor

\* Whatever was lost and however the numbers were used again, no page outlives
\* its minutes: when the writing stops, in the end every page is the current one.
StalePagesDieOut ==
  <>[](\A v \in Versions : page[v] \in {Nothing, db})

CacheTypeOK ==
  /\ db \in Commits
  /\ pending \subseteq 1..db /\ added \subseteq pending
  /\ version \in Versions \cup {Nothing}
  /\ page \in [Versions -> Commits \cup {Nothing}]
  /\ reader \in [Readers -> Requests]
  /\ settled \in 0..db
  /\ undone \in BOOLEAN
  /\ lapses \in 0..MaxLapses
=============================================================================
