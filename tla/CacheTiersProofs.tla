-------------------------- MODULE CacheTiersProofs --------------------------
(***************************************************************************)
(* Proofs about the two tiers of the cache, for any requests, any finite   *)
(* set of keys, any weights and any number of purges and agings.           *)
(*                                                                         *)
(* ExactPurgeSticks.  The mark of an exact purge is only ever on the disk  *)
(* copy of the key being purged, between the two halves of the purge.  The *)
(* byte count has no part in this, and IndInv says nothing of it.          *)
(*                                                                         *)
(* MemoryAccounted.  On top of IndInv, a request that is about to insert   *)
(* an object carries one, so that every insert adds its weight once; the   *)
(* weight of a set of objects is a count of bytes, so the weights of       *)
(* disjoint sets add up.                                                   *)
(***************************************************************************)
EXTENDS CacheTiers, FiniteSetTheorems, TLAPS

Copies == Objects \cup {None}

(* Who carries or keeps an object, and what kind of object.                *)
Kept ==
    /\ objects \in [Keys -> Copies] /\ disk \in [Keys -> Copies]
    /\ copy \in [Requests -> Copies]

Places == {"idle", "memory", "disk", "promote", "trim", "fetch", "store",
           "prune", "write", "late", "done"}

(* A request under way has its key.                                        *)
UnderWay ==
    /\ pc \in [Requests -> Places]
    /\ wants \in [Requests -> Keys \cup {None}]
    /\ \A r \in Requests : pc[r] \notin {"idle", "done"} => wants[r] \in Keys

Clean(c) == c # None => c.mark # "exact"

(* Where the mark of an exact purge can be.                                *)
MarksInPlace ==
    /\ \A k \in Keys : Clean(objects[k])
    /\ \A r \in Requests : Clean(copy[r])
    /\ \A k \in Keys : ~Clean(disk[k]) =>
           purge # None /\ purge.kind = "exact" /\ purge.key = k

PurgeKept == purge \in {None} \cup [kind : PurgeKinds, key : Keys]

IndInv == Kept /\ UnderWay /\ MarksInPlace /\ PurgeKept /\ ExactPurgeSticks

-----------------------------------------------------------------------------
(* What changes without touching an object keeps the marks in place.       *)
LEMMA Ends ==
    ASSUME Kept, UnderWay, MarksInPlace, NEW r \in Requests, End(r)
    PROVE  /\ copy' \in [Requests -> Copies] /\ UnderWay'
           /\ \A q \in Requests : Clean(copy'[q])
  BY DEF Kept, UnderWay, MarksInPlace, End, Clean, Copies, Places

LEMMA Goes ==
    ASSUME UnderWay, NEW r \in Requests, NEW place \in Places, Goto(r, place),
           pc[r] \notin {"idle", "done"}
    PROVE  UnderWay'
  BY DEF UnderWay, Goto

(* A request meets an object of its key: a clean one, or one being purged. *)
LEMMA Meets ==
    ASSUME ExactPurgeSticks, NEW k, NEW c, Clean(c) \/ Purging(k), c # None,
           Meet(k, c)
    PROVE  ExactPurgeSticks'
  BY DEF ExactPurgeSticks, Meet, Clean

LEMMA Takes ==
    ASSUME IndInv, NEW r \in Requests, NEW k, NEW c \in Objects,
           Clean(c) \/ Purging(k), c # None, Take(r, k, c)
    PROVE  /\ ExactPurgeSticks'
           /\ copy' \in [Requests -> Copies]
           /\ \A q \in Requests : Clean(copy'[q])
<1>1. ExactPurgeSticks'
  BY Meets DEF IndInv, Take
<1>2. [c EXCEPT !.mark = "raced"] \in Objects
  BY DEF Objects
<1>3. [c EXCEPT !.mark = "raced"].mark # "exact"
  BY DEF Objects
<1> DEFINE taken == IF Purging(k) THEN [c EXCEPT !.mark = "raced"] ELSE c
<1>4. taken \in Copies /\ Clean(taken)
  BY <1>2, <1>3 DEF Clean, Copies
<1> HIDE DEF taken
<1>5. copy' = [copy EXCEPT ![r] = taken]
  BY DEF Take, taken
<1> QED BY <1>1, <1>4, <1>5 DEF IndInv, Kept, MarksInPlace

(* A pass that found an object.                                            *)
LEMMA Finds ==
    ASSUME IndInv, NEW r \in Requests, NEW c \in Objects, c # None,
           Clean(c) \/ Purging(wants[r]), pc[r] \notin {"idle", "done"},
           Found(r, c)
    PROVE  /\ ExactPurgeSticks' /\ UnderWay'
           /\ copy' \in [Requests -> Copies]
           /\ \A q \in Requests : Clean(copy'[q])
<1>1. CASE Take(r, wants[r], c) /\ pc' = [pc EXCEPT ![r] = "fetch"] /\ wants' = wants
  <2>1. UnderWay'
    BY <1>1 DEF IndInv, UnderWay, Places
  <2> QED BY <1>1, <2>1, Takes
<1>2. CASE Meet(wants[r], c) /\ End(r)
  BY <1>2, Meets, Ends DEF IndInv
<1> QED BY <1>1, <1>2 DEF Found

(* What the origin answered is a new object, without a mark.               *)
LEMMA Answers ==
    ASSUME NEW r \in Requests, Answered(r)
    PROVE  \E c \in Objects : c.mark = "none" /\ copy' = [copy EXCEPT ![r] = c]
<1>1. PICK w \in Weights : copy' = [copy EXCEPT ![r] = NewObject(w)]
  BY DEF Answered
<1>2. NewObject(w) \in Objects /\ NewObject(w).mark = "none"
  BY DEF NewObject, Objects, Ages
<1> QED BY <1>1, <1>2

LEMMA AnswerIsClean ==
    ASSUME IndInv, NEW r \in Requests, Answered(r)
    PROVE  copy' \in [Requests -> Copies] /\ \A q \in Requests : Clean(copy'[q])
<1>1. PICK c \in Objects : c.mark = "none" /\ copy' = [copy EXCEPT ![r] = c]
  BY Answers
<1> QED BY <1>1 DEF IndInv, Kept, MarksInPlace, Copies, Clean

(* A pass that found nothing.                                              *)
LEMMA Misses ==
    ASSUME IndInv, NEW r \in Requests, NEW bad, pc[r] \notin {"idle", "done"},
           Missing(r, bad)
    PROVE  /\ UnderWay' /\ copy' \in [Requests -> Copies]
           /\ \A q \in Requests : Clean(copy'[q])
<1>1. CASE End(r)
  BY <1>1, Ends DEF IndInv
<1>2. CASE Goto(r, "memory") /\ UNCHANGED copy
  BY <1>2, Goes DEF IndInv, Kept, MarksInPlace, Places
<1>3. CASE Goto(r, "fetch") /\ UNCHANGED copy
  BY <1>3, Goes DEF IndInv, Kept, MarksInPlace, Places
<1>4. CASE Answered(r) /\ Goto(r, "store")
  BY <1>4, Goes, AnswerIsClean DEF IndInv, Places
<1> QED BY <1>1, <1>2, <1>3, <1>4 DEF Missing

-----------------------------------------------------------------------------
LEMMA InitInv == Init => IndInv
<1> SUFFICES ASSUME Init PROVE IndInv
  OBVIOUS
<1>1. \A w \in Weights : NewObject(w) \in Objects /\ NewObject(w).mark # "exact"
  BY DEF NewObject, Objects, Ages
<1> QED BY <1>1
  DEF Init, IndInv, Kept, UnderWay, MarksInPlace, PurgeKept, ExactPurgeSticks, Clean, Copies,
      Places

(* The lookup.                                                             *)
LEMMA MemoryIsLooked ==
    ASSUME IndInv, NEW r \in Requests, MemoryLook(r) PROVE IndInv'
<1> DEFINE k == wants[r]  c == objects[k]
<1>1. k \in Keys /\ c \in Copies /\ Clean(c) /\ pc[r] \notin {"idle", "done"}
  BY DEF IndInv, Kept, UnderWay, MarksInPlace, MemoryLook
<1>2. disk' = disk /\ purge' = purge
  BY DEF MemoryLook, admin
<1>3. CASE Suits(c, seek[r])
  <2>1. c \in Objects /\ c # None /\ Found(r, c) /\ objects' = objects
    BY <1>1, <1>3 DEF Suits, Copies, MemoryLook, memory
  <2> QED BY <1>1, <1>2, <2>1, Finds DEF IndInv, Kept, MarksInPlace, PurgeKept
<1>4. CASE ~Suits(c, seek[r])
  <2>1. Goto(r, "disk") /\ copy' = copy /\ resurfaced' = resurfaced
        /\ (ForgetObjects({k}) \/ objects' = objects)
    BY <1>4 DEF MemoryLook, memory
  <2>2. objects' \in [Keys -> Copies] /\ \A j \in Keys : Clean(objects'[j])
    BY <2>1 DEF IndInv, Kept, MarksInPlace, ForgetObjects, Clean, Copies
  <2>3. UnderWay'
    BY <1>1, <2>1, Goes DEF IndInv, Places
  <2> QED BY <1>2, <2>1, <2>2, <2>3
    DEF IndInv, Kept, MarksInPlace, PurgeKept, ExactPurgeSticks
<1> QED BY <1>3, <1>4

LEMMA DiskIsLooked ==
    ASSUME IndInv, NEW r \in Requests, DiskLook(r) PROVE IndInv'
<1> DEFINE k == wants[r]
           c == IF disk[k] # None /\ disk[k].age = "dead" THEN None ELSE disk[k]
<1>1. k \in Keys /\ c \in Copies /\ pc[r] \notin {"idle", "done"}
      /\ (Clean(c) \/ Purging(k))
  BY DEF IndInv, Kept, UnderWay, MarksInPlace, DiskLook, Copies, Purging, Clean
<1>2. objects' = objects /\ purge' = purge /\ disk' = [disk EXCEPT ![k] = c]
  BY DEF DiskLook, memory, admin
<1>3. disk' \in [Keys -> Copies]
      /\ \A j \in Keys : ~Clean(disk'[j]) =>
             purge' # None /\ purge'.kind = "exact" /\ purge'.key = j
  BY <1>1, <1>2 DEF IndInv, Kept, MarksInPlace, Clean, Copies
<1> SUFFICES /\ ExactPurgeSticks' /\ UnderWay'
             /\ copy' \in [Requests -> Copies]
             /\ \A q \in Requests : Clean(copy'[q])
  BY <1>2, <1>3 DEF IndInv, Kept, MarksInPlace, PurgeKept
<1>4. CASE Missing(r, FALSE) /\ UNCHANGED resurfaced
  BY <1>1, <1>4, Misses DEF IndInv, ExactPurgeSticks
<1>5. CASE Suits(c, seek[r]) /\ Found(r, c)
  <2>1. c \in Objects /\ c # None
    BY <1>1, <1>5 DEF Suits, Copies
  <2> QED BY <1>1, <1>5, <2>1, Finds
<1>6. CASE Suits(c, seek[r]) /\ Take(r, k, c) /\ Goto(r, "promote")
  <2>1. c \in Objects /\ c # None
    BY <1>1, <1>6 DEF Suits, Copies
  <2>2. UnderWay'
    BY <1>1, <1>6, Goes DEF IndInv, Places
  <2> QED BY <1>1, <1>6, <2>1, <2>2, Takes
<1> QED BY <1>4, <1>5, <1>6 DEF DiskLook

(* An object enters memory, or is pruned from it.                          *)
LEMMA ObjectEnters ==
    ASSUME IndInv, NEW r \in Requests, Promote(r) \/ StoreInMemory(r) PROVE IndInv'
<1>1. objects' = [objects EXCEPT ![wants[r]] = copy[r]] /\ disk' = disk
      /\ purge' = purge /\ resurfaced' = resurfaced
      /\ pc[r] \notin {"idle", "done"}
  BY DEF Promote, StoreInMemory, Insert, admin
<1>2. objects' \in [Keys -> Copies] /\ \A k \in Keys : Clean(objects'[k])
  BY <1>1 DEF IndInv, Kept, UnderWay, MarksInPlace
<1>3. \/ End(r)
      \/ Goto(r, "trim") /\ copy' = [copy EXCEPT ![r] = None]
      \/ (Goto(r, "prune") \/ Goto(r, "write")) /\ copy' = copy
  BY DEF Promote, StoreInMemory
<1>4. /\ UnderWay' /\ copy' \in [Requests -> Copies]
      /\ \A q \in Requests : Clean(copy'[q])
  <2>1. CASE End(r)
    BY <2>1, Ends DEF IndInv
  <2>2. CASE Goto(r, "trim") /\ copy' = [copy EXCEPT ![r] = None]
    BY <1>1, <2>2, Goes DEF IndInv, Kept, MarksInPlace, Places, Copies, Clean
  <2>3. CASE (Goto(r, "prune") \/ Goto(r, "write")) /\ copy' = copy
    BY <1>1, <2>3, Goes DEF IndInv, Kept, MarksInPlace, Places
  <2> QED BY <1>3, <2>1, <2>2, <2>3
<1> QED BY <1>1, <1>2, <1>4 DEF IndInv, Kept, MarksInPlace, PurgeKept, ExactPurgeSticks

LEMMA MemoryIsPruned ==
    ASSUME IndInv, NEW r \in Requests, PruneMemory(r) PROVE IndInv'
<1>1. disk' = disk /\ purge' = purge /\ resurfaced' = resurfaced
      /\ pc[r] \notin {"idle", "done"}
  BY DEF PruneMemory, admin
<1>2. objects' \in [Keys -> Copies] /\ \A k \in Keys : Clean(objects'[k])
  <2>1. PICK out \in Prunable : ForgetObjects(out)
    BY DEF PruneMemory
  <2> QED BY <2>1 DEF IndInv, Kept, MarksInPlace, ForgetObjects, Clean, Copies
<1>3. End(r) \/ (Goto(r, "write") /\ copy' = copy)
  BY DEF PruneMemory
<1>4. /\ UnderWay' /\ copy' \in [Requests -> Copies]
      /\ \A q \in Requests : Clean(copy'[q])
  BY <1>1, <1>3, Goes, Ends DEF IndInv, Kept, MarksInPlace, Places
<1> QED BY <1>1, <1>2, <1>4 DEF IndInv, Kept, MarksInPlace, PurgeKept, ExactPurgeSticks

(* The origin, and the write to disk.                                      *)
LEMMA OriginAnswers ==
    ASSUME IndInv, NEW r \in Requests, FetchSucceeds(r) PROVE IndInv'
<1>1. objects' = objects /\ disk' = disk /\ purge' = purge
      /\ resurfaced' = resurfaced /\ Goto(r, "store") /\ pc[r] = "fetch"
  BY DEF FetchSucceeds, memory, admin
<1>2. copy' \in [Requests -> Copies] /\ \A q \in Requests : Clean(copy'[q])
  <2>1. CASE Answered(r)
    BY <2>1, AnswerIsClean
  <2>2. CASE copy[r] # None /\ copy' = [copy EXCEPT ![r].age = "fresh"]
    <3>1. copy[r] \in Objects /\ copy[r].mark # "exact"
      BY <2>2 DEF IndInv, Kept, MarksInPlace, Copies, Clean
    <3>2. [copy[r] EXCEPT !.age = "fresh"] \in Objects
          /\ [copy[r] EXCEPT !.age = "fresh"].mark # "exact"
      BY <3>1 DEF Objects, Ages
    <3>3. copy' = [copy EXCEPT ![r] = [copy[r] EXCEPT !.age = "fresh"]]
      BY <2>2
    <3> QED BY <3>2, <3>3 DEF IndInv, Kept, MarksInPlace, Copies, Clean
  <2> QED BY <2>1, <2>2 DEF FetchSucceeds
<1>3. UnderWay'
  BY <1>1, Goes DEF IndInv, Places
<1> QED BY <1>1, <1>2, <1>3 DEF IndInv, Kept, MarksInPlace, PurgeKept, ExactPurgeSticks

(* Steps that leave both tiers and every mark alone.                       *)
LEMMA RequestMoves ==
    ASSUME IndInv, NEW r \in Requests,
           \/ DiskRefuses(r) \/ PromoteSkips(r) \/ FetchUncacheable(r)
           \/ FetchFails(r) \/ Cancel(r) \/ \E k \in Keys : Arrive(r, k)
    PROVE  IndInv'
<1>1. objects' = objects /\ disk' = disk /\ purge' = purge /\ resurfaced' = resurfaced
  BY DEF DiskRefuses, PromoteSkips, FetchUncacheable, FetchFails, Cancel, Arrive, memory, admin
<1> SUFFICES /\ UnderWay' /\ copy' \in [Requests -> Copies]
             /\ \A q \in Requests : Clean(copy'[q])
  BY <1>1 DEF IndInv, Kept, MarksInPlace, PurgeKept, ExactPurgeSticks
<1>2. CASE DiskRefuses(r)
  BY <1>2, Misses DEF DiskRefuses
<1>3. CASE End(r)
  BY <1>3, Ends DEF IndInv
<1>4. CASE FetchFails(r) /\ ~End(r)
  <2>1. Goto(r, "memory") /\ copy' = [copy EXCEPT ![r] = None] /\ pc[r] = "fetch"
    BY <1>4 DEF FetchFails
  <2>2. UnderWay'
    BY <2>1, Goes DEF IndInv, Places
  <2> QED BY <2>1, <2>2 DEF IndInv, Kept, MarksInPlace, Copies, Clean
<1>5. CASE Cancel(r) /\ ~End(r)
  <2>1. Goto(r, "late") /\ copy' = copy /\ pc[r] = "write"
    BY <1>5 DEF Cancel
  <2> QED BY <2>1, Goes DEF IndInv, Kept, MarksInPlace, Places
<1>6. CASE \E k \in Keys : Arrive(r, k)
  <2>1. PICK k \in Keys : Arrive(r, k)
    BY <1>6
  <2>2. copy' = copy /\ wants' = [wants EXCEPT ![r] = k]
        /\ \E place \in {"memory", "fetch"} : pc' = [pc EXCEPT ![r] = place]
    BY <2>1 DEF Arrive
  <2> QED BY <2>2 DEF IndInv, Kept, MarksInPlace, UnderWay, Places
<1> QED BY <1>2, <1>3, <1>4, <1>5, <1>6 DEF FetchUncacheable, PromoteSkips

LEMMA DiskIsWritten ==
    ASSUME IndInv, NEW r \in Requests, WriteDisk(r) PROVE IndInv'
<1> DEFINE k == wants[r]
<1>1. k \in Keys /\ End(r) /\ objects' = objects /\ purge' = purge
      /\ resurfaced' = resurfaced
  BY DEF WriteDisk, memory, admin, IndInv, UnderWay
<1>2. PICK now \in {copy[r], disk[k], None}, evicted \in SUBSET (Keys \ {k}) :
          disk' = [j \in Keys |-> CASE j = k -> now
                                    [] j \in evicted -> None
                                    [] OTHER -> disk[j]]
  BY DEF WriteDisk
<1>3. \A j \in Keys : disk'[j] \in {disk[j], None} \/ (j = k /\ disk'[j] = copy[r])
  BY <1>2
<1>4. disk' \in [Keys -> Copies]
  BY <1>1, <1>2 DEF IndInv, Kept, Copies
<1>5. \A j \in Keys : ~Clean(disk'[j]) => ~Clean(disk[j])
  BY <1>3 DEF IndInv, MarksInPlace, Clean
<1>6. /\ UnderWay' /\ copy' \in [Requests -> Copies]
      /\ \A q \in Requests : Clean(copy'[q])
  BY <1>1, Ends DEF IndInv
<1> QED BY <1>1, <1>4, <1>5, <1>6
  DEF IndInv, Kept, MarksInPlace, PurgeKept, ExactPurgeSticks

(* Time.                                                                   *)
LEMMA OlderObject ==
    ASSUME NEW c \in Objects, NEW age \in Older(c.age)
    PROVE  LET d == [c EXCEPT !.age = age] IN d \in Objects /\ d.mark = c.mark
  BY DEF Objects, Ages, Older

LEMMA TimePasses ==
    ASSUME IndInv, NEW k \in Keys, ObjectAges(k) PROVE IndInv'
<1>1. pc' = pc /\ wants' = wants /\ copy' = copy /\ purge' = purge
      /\ resurfaced' = resurfaced
  BY DEF ObjectAges, requests, admin
<1>2. ASSUME objects[k] # None, disk' = disk, NEW age \in Older(objects[k].age),
             objects' = [objects EXCEPT ![k].age = age]
      PROVE  IndInv'
  <2>1. objects[k] \in Objects
    BY <1>2 DEF IndInv, Kept, Copies
  <2>2. objects' = [objects EXCEPT ![k] = [objects[k] EXCEPT !.age = age]]
    BY <1>2
  <2> DEFINE d == [objects[k] EXCEPT !.age = age]
  <2>3. d \in Objects /\ d.mark = objects[k].mark
    BY <1>2, <2>1, OlderObject
  <2> HIDE DEF d
  <2>4. objects' = [objects EXCEPT ![k] = d] /\ Clean(objects[k])
    BY <2>2 DEF d, IndInv, MarksInPlace
  <2>5. objects' \in [Keys -> Copies] /\ \A j \in Keys : Clean(objects'[j])
    BY <1>2, <2>3, <2>4 DEF IndInv, Kept, MarksInPlace, Copies, Clean
  <2> QED BY <1>1, <1>2, <2>5
    DEF IndInv, Kept, UnderWay, MarksInPlace, PurgeKept, ExactPurgeSticks
<1>3. ASSUME disk[k] # None, objects' = objects, NEW age \in Older(disk[k].age),
             disk' = [disk EXCEPT ![k].age = age]
      PROVE  IndInv'
  <2>1. disk[k] \in Objects
    BY <1>3 DEF IndInv, Kept, Copies
  <2>2. disk' = [disk EXCEPT ![k] = [disk[k] EXCEPT !.age = age]]
    BY <1>3
  <2>3. disk' \in [Keys -> Copies] /\ \A j \in Keys : ~Clean(disk'[j]) => ~Clean(disk[j])
    BY <1>3, <2>1, <2>2, OlderObject DEF IndInv, Kept, Copies, Clean
  <2> QED BY <1>1, <1>3, <2>3
    DEF IndInv, Kept, UnderWay, MarksInPlace, PurgeKept, ExactPurgeSticks
<1> QED BY <1>2, <1>3 DEF ObjectAges

(* The two halves of a purge.                                              *)
LEMMA MarkedObject ==
    ASSUME NEW kind \in PurgeKinds, NEW c \in Copies
    PROVE  /\ Marked(kind, c) \in Copies
           /\ c = None => Marked(kind, c) = None
           /\ Clean(c) /\ kind # "exact" => Clean(Marked(kind, c))
  BY DEF Marked, Marks, PurgeKinds, Copies, Objects, Clean

LEMMA PurgeBegins ==
    ASSUME IndInv, NEW kind \in PurgeKinds, NEW k \in Keys, PurgeMemory(kind, k)
    PROVE  IndInv'
<1>1. purge = None /\ purge' = [kind |-> kind, key |-> k] /\ pc' = pc
      /\ wants' = wants /\ resurfaced' = resurfaced
  BY DEF PurgeMemory
<1>2. objects[k] \in Copies /\ disk[k] \in Copies /\ Clean(objects[k])
  BY DEF IndInv, Kept, MarksInPlace
<1>3. \A j \in Keys : Clean(disk[j])
  BY <1>1 DEF IndInv, MarksInPlace
<1>4. disk' \in [Keys -> Copies] /\ \A j \in Keys : j # k => Clean(disk'[j])
  <2>1. disk' = [disk EXCEPT ![k] = Marked(kind, disk[k])]
    BY DEF PurgeMemory
  <2> QED BY <1>2, <1>3, <2>1, MarkedObject DEF IndInv, Kept
<1>5. ~Clean(disk'[k]) => kind = "exact"
  <2>1. disk'[k] = Marked(kind, disk[k])
    BY DEF PurgeMemory, IndInv, Kept
  <2> QED BY <1>2, <1>3, <2>1, MarkedObject
<1>6. copy' \in [Requests -> Copies] /\ \A q \in Requests : Clean(copy'[q])
  <2>1. \A r \in Requests : copy[r] # None =>
            [copy[r] EXCEPT !.mark = "raced"] \in Objects
            /\ [copy[r] EXCEPT !.mark = "raced"].mark # "exact"
    BY DEF IndInv, Kept, Copies, Objects
  <2>2. copy' = [r \in Requests |->
                    IF copy[r] # None /\ wants[r] = k /\ Marks(kind)
                    THEN [copy[r] EXCEPT !.mark = "raced"] ELSE copy[r]]
    BY DEF PurgeMemory
  <2> QED BY <2>1, <2>2 DEF IndInv, Kept, MarksInPlace, Copies, Clean
<1>7. objects' \in [Keys -> Copies] /\ \A j \in Keys : Clean(objects'[j])
  <2>1. CASE ForgetObjects({k})
    BY <2>1 DEF IndInv, Kept, MarksInPlace, ForgetObjects, Clean, Copies
  <2>2. CASE objects[k] # None /\ objects' = [objects EXCEPT ![k].age = "updating"]
    <3>1. objects[k] \in Objects /\ objects[k].mark # "exact"
      BY <1>2, <2>2 DEF Copies, Clean
    <3>2. [objects[k] EXCEPT !.age = "updating"] \in Objects
          /\ [objects[k] EXCEPT !.age = "updating"].mark # "exact"
      BY <3>1 DEF Objects, Ages
    <3>3. objects' = [objects EXCEPT ![k] = [objects[k] EXCEPT !.age = "updating"]]
      BY <2>2
    <3> QED BY <3>2, <3>3 DEF IndInv, Kept, MarksInPlace, Clean, Copies
  <2>3. CASE (kind # "exact" \/ objects[k] = None)
             /\ objects' = [objects EXCEPT ![k] = Marked(kind, @)]
    <3>1. Marked(kind, objects[k]) \in Copies /\ Clean(Marked(kind, objects[k]))
      BY <1>2, <2>3, MarkedObject DEF Clean
    <3>2. objects' = [objects EXCEPT ![k] = Marked(kind, objects[k])]
      BY <2>3
    <3> QED BY <3>1, <3>2 DEF IndInv, Kept, MarksInPlace
  <2> QED BY <2>1, <2>2, <2>3 DEF PurgeMemory, PurgeReaches
<1>8. purge' # None /\ purge'.key = k /\ purge'.kind = kind
  <2>1. [kind |-> kind, key |-> k] \in [kind : PurgeKinds, key : Keys]
    OBVIOUS
  <2> QED BY <1>1, <2>1, TiersAssumption
<1>9. MarksInPlace' /\ PurgeKept'
  <2>1. \A j \in Keys : ~Clean(disk'[j]) =>
            purge' # None /\ purge'.kind = "exact" /\ purge'.key = j
    BY <1>4, <1>5, <1>8
  <2>2. MarksInPlace'
    BY <1>6, <1>7, <2>1 DEF MarksInPlace, Clean
  <2>3. PurgeKept'
    BY <1>1 DEF PurgeKept
  <2> QED BY <2>2, <2>3
<1> QED BY <1>1, <1>4, <1>6, <1>7, <1>9
  DEF IndInv, Kept, UnderWay, ExactPurgeSticks

LEMMA PurgeEnds ==
    ASSUME IndInv, PurgeDisk PROVE IndInv'
<1>1. purge' = None /\ purge # None /\ objects' = objects /\ copy' = copy
      /\ pc' = pc /\ wants' = wants /\ resurfaced' = resurfaced
  BY DEF PurgeDisk, memory, requests
<1>2. disk' \in [Keys -> Copies]
  BY DEF PurgeDisk, IndInv, Kept, Copies
<1>3. \A j \in Keys : Clean(disk'[j])
  <2>1. CASE purge.kind = "expired" /\ disk' = disk
    BY <2>1 DEF IndInv, MarksInPlace
  <2>2. CASE disk' = [disk EXCEPT ![purge.key] = None]
    BY <2>2 DEF IndInv, Kept, MarksInPlace, Clean
  <2> QED BY <2>1, <2>2 DEF PurgeDisk
<1> QED BY <1>1, <1>2, <1>3
  DEF IndInv, Kept, UnderWay, MarksInPlace, PurgeKept, ExactPurgeSticks

-----------------------------------------------------------------------------
LEMMA StepInv == IndInv /\ [Next]_vars => IndInv'
<1> SUFFICES ASSUME IndInv, [Next]_vars PROVE IndInv'
  OBVIOUS
<1>1. CASE \E r \in Requests : Step(r) \/ Cancel(r)
  BY <1>1, MemoryIsLooked, DiskIsLooked, ObjectEnters, MemoryIsPruned, OriginAnswers,
     RequestMoves, DiskIsWritten DEF Step
<1>2. CASE \E r \in Requests, k \in Keys : Arrive(r, k)
  BY <1>2, RequestMoves
<1>3. CASE \E k \in Keys : ObjectAges(k)
  BY <1>3, TimePasses
<1>4. CASE \E kind \in PurgeKinds, k \in Keys : PurgeMemory(kind, k)
  BY <1>4, PurgeBegins
<1>5. CASE PurgeDisk
  BY <1>5, PurgeEnds
<1>6. CASE UNCHANGED vars
  BY <1>6 DEF vars, IndInv, Kept, UnderWay, MarksInPlace, PurgeKept, ExactPurgeSticks
<1> QED BY <1>1, <1>2, <1>3, <1>4, <1>5, <1>6 DEF Next

(* What an exact purge found in either tier (purge_native_memory_state_    *)
(* primary, purge_primary) is never read after it: not served, not         *)
(* revalidated, not promoted, unless a request was reading it meanwhile.   *)
THEOREM ExactPurgeAlwaysSticks == Spec => []ExactPurgeSticks
<1>1. IndInv => ExactPurgeSticks
  BY DEF IndInv
<1> QED BY <1>1, InitInv, StepInv, PTL DEF Spec
-----------------------------------------------------------------------------
(***************************************************************************)
(* The weight of what memory holds                                         *)
(***************************************************************************)

(* The bytes of the objects that o gives the keys ks, counted by WeightOf. *)
BytesIn(o, ks) == {b \in ks \X (1..MaxObject) : b[2] <= o[b[1]].weight}

LEMMA WeightIs == \A ks : WeightOf(ks) = Cardinality(BytesIn(objects, ks))
  BY DEF WeightOf, BytesIn

LEMMA BytesAreFinite ==
    ASSUME NEW o, NEW ks \in SUBSET Keys
    PROVE  IsFiniteSet(BytesIn(o, ks)) /\ Cardinality(BytesIn(o, ks)) \in Nat
<1>1. IsFiniteSet(ks)
  BY KeysFinite, FS_Subset
<1>2. IsFiniteSet(1..MaxObject)
  <2>1. MaxObject \in Int /\ 1 \in Int
    BY TiersAssumption
  <2> QED
    BY <2>1, FS_Interval
<1>3. IsFiniteSet(ks \X (1..MaxObject))
  BY <1>1, <1>2, FS_Product
<1>4. IsFiniteSet(BytesIn(o, ks))
  BY <1>3, FS_Subset DEF BytesIn
<1> QED
  BY <1>4, FS_CardinalityType

(* Disjoint sets of keys weigh what each of them weighs.                   *)
LEMMA WeightsAdd ==
    ASSUME NEW o, NEW A \in SUBSET Keys, NEW B \in SUBSET Keys, A \cap B = {}
    PROVE  Cardinality(BytesIn(o, A \cup B)) =
               Cardinality(BytesIn(o, A)) + Cardinality(BytesIn(o, B))
<1> DEFINE a == BytesIn(o, A)  b == BytesIn(o, B)
<1>1. BytesIn(o, A \cup B) = a \cup b
  BY DEF BytesIn
<1>2. a \cap b = {}
  BY DEF BytesIn
<1>3. IsFiniteSet(a) /\ IsFiniteSet(b) /\ Cardinality(a) \in Nat /\ Cardinality(b) \in Nat
  BY BytesAreFinite
<1> HIDE DEF a, b
<1>4. Cardinality(a \cup b) = Cardinality(a) + Cardinality(b) - Cardinality(a \cap b)
  BY <1>3, FS_Union
<1>5. Cardinality(a \cup b) = Cardinality(a) + Cardinality(b)
  <2>1. Cardinality(a \cap b) = 0
    BY <1>2, FS_EmptySet
  <2> QED
    BY <1>3, <1>4, <2>1
<1> QED
  BY <1>1, <1>5 DEF a, b

LEMMA WeightOfOne ==
    ASSUME NEW o, NEW k \in Keys, o[k].weight \in 1..MaxObject
    PROVE  Cardinality(BytesIn(o, {k})) = o[k].weight
<1> DEFINE w == o[k].weight
           f == [i \in 1..w |-> <<k, i>>]
<1>1. w \in Nat /\ w <= MaxObject /\ MaxObject \in Nat
  BY TiersAssumption
<1>2. \A i \in 1..w : i \in 1..MaxObject
  BY <1>1
<1>3. \A b \in BytesIn(o, {k}) : b[1] = k /\ b[2] \in 1..w /\ b = <<k, b[2]>>
  BY <1>1 DEF BytesIn
<1>4. \A i \in 1..w : <<k, i>> \in BytesIn(o, {k})
  BY <1>1, <1>2 DEF BytesIn
<1> HIDE DEF w
<1>5. f \in Bijection(1..w, BytesIn(o, {k}))
  <2>1. f \in [1..w -> BytesIn(o, {k})]
    BY <1>4
  <2>2. \A i, j \in 1..w : f[i] = f[j] => i = j
    OBVIOUS
  <2>3. \A b \in BytesIn(o, {k}) : \E i \in 1..w : f[i] = b
    BY <1>3
  <2> HIDE DEF f
  <2> QED
    BY <2>1, <2>2, <2>3 DEF Bijection, Injection, Surjection, IsInjective
<1>6. ExistsBijection(1..w, BytesIn(o, {k}))
  BY <1>5 DEF ExistsBijection
<1> QED
  BY <1>1, <1>6, FS_CountingElements DEF w

(* Objects that weigh the same, in the same places.                        *)
LEMMA WeightsStay ==
    ASSUME NEW o, NEW p, NEW ks, \A k \in ks : o[k].weight = p[k].weight
    PROVE  Cardinality(BytesIn(o, ks)) = Cardinality(BytesIn(p, ks))
  BY DEF BytesIn
-----------------------------------------------------------------------------
(***************************************************************************)
(* What else a request keeps                                               *)
(***************************************************************************)

Seeks == {"fresh", "updating", "revalidate", "error"}

(* A request has a key exactly while it is under way, and an object where  *)
(* it is about to store, to write or to promote one.                       *)
Carried ==
    /\ seek \in [Requests -> Seeks]
    /\ failed \subseteq Requests /\ refreshing \subseteq Requests
    /\ \A r \in Requests :
           /\ pc[r] \in {"idle", "done"} => wants[r] = None
           /\ pc[r] \in {"promote", "store", "prune", "write", "late"} =>
                  copy[r] # None

LEMMA EndsCarried ==
    ASSUME IndInv, Carried, NEW r \in Requests, End(r)
    PROVE  Carried'
<1>1. seek' \in [Requests -> Seeks] /\ failed' \subseteq Requests
      /\ refreshing' \subseteq Requests
  BY DEF Carried, End, Seeks
<1>2. ASSUME NEW q \in Requests
      PROVE  /\ pc'[q] \in {"idle", "done"} => wants'[q] = None
             /\ pc'[q] \in {"promote", "store", "prune", "write", "late"} =>
                    copy'[q] # None
  <2>1. CASE q = r
    BY <2>1 DEF End, IndInv, UnderWay, Kept
  <2>2. CASE q # r
    BY <2>2 DEF End, Carried, IndInv, UnderWay, Kept
  <2> QED
    BY <2>1, <2>2
<1> QED
  BY <1>1, <1>2 DEF Carried

(* A request goes on, and what it carries at its new place is an object.   *)
LEMMA GoesCarried ==
    ASSUME IndInv, Carried, NEW r \in Requests, NEW place \in Places,
           pc' = [pc EXCEPT ![r] = place], place \notin {"idle", "done"},
           \A q \in Requests \ {r} : wants'[q] = wants[q] /\ copy'[q] = copy[q],
           place \in {"promote", "store", "prune", "write", "late"} => copy'[r] # None,
           seek' \in [Requests -> Seeks], failed' \subseteq Requests,
           refreshing' \subseteq Requests
    PROVE  Carried'
<1>1. ASSUME NEW q \in Requests
      PROVE  /\ pc'[q] \in {"idle", "done"} => wants'[q] = None
             /\ pc'[q] \in {"promote", "store", "prune", "write", "late"} =>
                    copy'[q] # None
  <2>1. CASE q = r
    BY <2>1 DEF IndInv, UnderWay
  <2>2. CASE q # r
    BY <2>2 DEF Carried, IndInv, UnderWay
  <2> QED
    BY <2>1, <2>2
<1> QED
  BY <1>1 DEF Carried

LEMMA TakenIsObject ==
    ASSUME IndInv, NEW r \in Requests, NEW k, NEW c \in Objects, Take(r, k, c)
    PROVE  copy'[r] # None /\ \A q \in Requests \ {r} : copy'[q] = copy[q]
<1>1. [c EXCEPT !.mark = "raced"] \in Objects
  BY DEF Objects
<1> DEFINE taken == IF Purging(k) THEN [c EXCEPT !.mark = "raced"] ELSE c
<1>2. taken \in Objects
  BY <1>1
<1>3. taken # None
  BY <1>2, NoneIsNoObject
<1> HIDE DEF taken
<1>4. copy' = [copy EXCEPT ![r] = taken]
  BY DEF Take, taken
<1> QED
  BY <1>3, <1>4 DEF IndInv, Kept

LEMMA FindsCarried ==
    ASSUME IndInv, Carried, NEW r \in Requests, NEW c \in Objects, Found(r, c)
    PROVE  Carried'
<1>1. CASE Take(r, wants[r], c) /\ pc' = [pc EXCEPT ![r] = "fetch"]
           /\ wants' = wants /\ seek' = [seek EXCEPT ![r] = "fresh"]
           /\ failed' = failed \ {r}
           /\ refreshing' \in {refreshing, refreshing \cup {r}}
  <2>1. \A q \in Requests \ {r} : wants'[q] = wants[q] /\ copy'[q] = copy[q]
    BY <1>1, TakenIsObject
  <2>2. seek' \in [Requests -> Seeks] /\ failed' \subseteq Requests
        /\ refreshing' \subseteq Requests
    BY <1>1 DEF Carried, Seeks
  <2>3. "fetch" \in Places
    BY DEF Places
  <2> QED
    BY <1>1, <2>1, <2>2, <2>3, GoesCarried
<1>2. CASE End(r)
  BY <1>2, EndsCarried
<1> QED
  BY <1>1, <1>2 DEF Found

LEMMA MissesCarried ==
    ASSUME IndInv, Carried, NEW r \in Requests, NEW bad, Missing(r, bad)
    PROVE  Carried'
<1>1. ASSUME NEW place \in {"memory", "fetch"}, NEW want \in Seeks,
             Goto(r, place), seek' = [seek EXCEPT ![r] = want],
             failed' \in {failed, failed \cup {r}}, UNCHANGED copy
      PROVE  Carried'
  <2>1. seek' \in [Requests -> Seeks] /\ failed' \subseteq Requests
        /\ refreshing' \subseteq Requests
    BY <1>1 DEF Carried, Goto
  <2>2. place \in Places /\ place \notin {"idle", "done", "promote", "store", "prune", "write", "late"}
    BY DEF Places
  <2> QED
    BY <1>1, <2>1, <2>2, GoesCarried DEF Goto
<1>2. CASE End(r)
  BY <1>2, EndsCarried
<1>3. {"fresh", "updating", "revalidate"} \subseteq Seeks
  BY DEF Seeks
<1>4. CASE /\ Answered(r) /\ Goto(r, "store")
           /\ seek' = [seek EXCEPT ![r] = "fresh"] /\ UNCHANGED failed
  <2>1. copy'[r] # None /\ \A q \in Requests \ {r} : copy'[q] = copy[q]
    BY <1>4, Answers, NoneIsNoObject DEF IndInv, Kept
  <2>2. seek' \in [Requests -> Seeks] /\ "store" \in Places
    BY <1>4 DEF Carried, Seeks, Places
  <2> QED
    BY <1>4, <2>1, <2>2, GoesCarried DEF Goto, Carried
<1> QED
  BY <1>1, <1>2, <1>3, <1>4 DEF Missing

LEMMA InitCarried == Init => Carried
  BY DEF Init, Carried, Seeks

(* A look into a tier.                                                     *)
LEMMA LookCarried ==
    ASSUME IndInv, Carried, NEW r \in Requests,
           MemoryLook(r) \/ DiskLook(r) \/ DiskRefuses(r)
    PROVE  Carried'
<1>1. CASE MemoryLook(r)
  <2> DEFINE c == objects[wants[r]]
  <2>1. wants[r] \in Keys /\ c \in Copies
    BY <1>1 DEF IndInv, Kept, UnderWay, MemoryLook
  <2>2. CASE Suits(c, seek[r])
    <3>1. c \in Objects /\ Found(r, c)
      BY <1>1, <2>1, <2>2 DEF Suits, Copies, MemoryLook
    <3> QED
      BY <3>1, FindsCarried
  <2>3. CASE ~Suits(c, seek[r])
    <3>1. Goto(r, "disk") /\ UNCHANGED <<seek, copy, failed>>
      BY <1>1, <2>3 DEF MemoryLook
    <3>2. "disk" \in Places
      BY DEF Places
    <3> QED
      BY <3>1, <3>2, GoesCarried DEF Goto, Carried
  <2> QED
    BY <2>2, <2>3
<1>2. CASE DiskLook(r)
  <2> DEFINE k == wants[r]
             c == IF disk[k] # None /\ disk[k].age = "dead" THEN None ELSE disk[k]
  <2>1. k \in Keys /\ c \in Copies
    BY <1>2 DEF IndInv, Kept, UnderWay, DiskLook, Copies
  <2>2. CASE Missing(r, FALSE)
    BY <2>2, MissesCarried
  <2>3. CASE Suits(c, seek[r]) /\ Found(r, c)
    <3>1. c \in Objects
      BY <2>1, <2>3 DEF Suits, Copies
    <3> QED
      BY <2>3, <3>1, FindsCarried
  <2>4. CASE Suits(c, seek[r]) /\ Take(r, k, c) /\ Goto(r, "promote")
             /\ failed' = failed \ {r} /\ UNCHANGED seek
    <3>1. c \in Objects
      BY <2>1, <2>4 DEF Suits, Copies
    <3>2. copy'[r] # None /\ \A q \in Requests \ {r} : copy'[q] = copy[q]
      BY <2>4, <3>1, TakenIsObject
    <3>3. "promote" \in Places
      BY DEF Places
    <3> QED
      BY <2>4, <3>2, <3>3, GoesCarried DEF Goto, Carried
  <2> QED
    BY <1>2, <2>2, <2>3, <2>4 DEF DiskLook
<1>3. CASE DiskRefuses(r)
  BY <1>3, MissesCarried DEF DiskRefuses
<1> QED
  BY <1>1, <1>2, <1>3

LEMMA StoreCarried ==
    ASSUME IndInv, Carried, NEW r \in Requests,
           \/ Promote(r) \/ PromoteSkips(r) \/ StoreInMemory(r) \/ PruneMemory(r)
           \/ WriteDisk(r)
    PROVE  Carried'
<1>1. CASE End(r)
  BY <1>1, EndsCarried
<1>2. CASE ~End(r)
  <2>1. PICK place \in {"trim", "prune", "write"} :
            /\ Goto(r, place) /\ UNCHANGED <<seek, failed>>
            /\ place # "trim" => pc[r] \in {"store", "prune"} /\ UNCHANGED copy
            /\ place = "trim" => copy' = [copy EXCEPT ![r] = None]
    BY <1>2 DEF Promote, PromoteSkips, StoreInMemory, PruneMemory, WriteDisk
  <2>2. place \in Places /\ place \notin {"idle", "done"}
    BY DEF Places
  <2>3. place \in {"promote", "store", "prune", "write", "late"} => copy'[r] # None
    BY <2>1 DEF Carried
  <2>4. \A q \in Requests \ {r} : copy'[q] = copy[q]
    BY <2>1 DEF IndInv, Kept
  <2> QED
    BY <2>1, <2>2, <2>3, <2>4, GoesCarried DEF Goto, Carried
<1> QED
  BY <1>1, <1>2

LEMMA FetchCarried ==
    ASSUME IndInv, Carried, NEW r \in Requests,
           FetchSucceeds(r) \/ FetchUncacheable(r) \/ FetchFails(r) \/ Cancel(r)
    PROVE  Carried'
<1>1. CASE End(r)
  BY <1>1, EndsCarried
<1>2. CASE FetchSucceeds(r)
  <2>1. Goto(r, "store") /\ UNCHANGED <<seek, failed>>
    BY <1>2 DEF FetchSucceeds
  <2>2. PICK c \in Objects : copy' = [copy EXCEPT ![r] = c]
    <3>1. CASE Answered(r)
      BY <3>1, Answers
    <3>2. CASE copy[r] # None /\ copy' = [copy EXCEPT ![r].age = "fresh"]
      <4>1. copy[r] \in Objects
        BY <3>2 DEF IndInv, Kept, Copies
      <4>2. [copy[r] EXCEPT !.age = "fresh"] \in Objects
        BY <4>1 DEF Objects, Ages
      <4>3. copy' = [copy EXCEPT ![r] = [copy[r] EXCEPT !.age = "fresh"]]
        BY <3>2
      <4> QED
        BY <4>2, <4>3
    <3> QED
      BY <1>2, <3>1, <3>2 DEF FetchSucceeds
  <2>3. copy'[r] # None /\ \A q \in Requests \ {r} : copy'[q] = copy[q]
    BY <2>2, NoneIsNoObject DEF IndInv, Kept
  <2>4. "store" \in Places
    BY DEF Places
  <2> QED
    BY <2>1, <2>3, <2>4, GoesCarried DEF Goto, Carried
<1>3. CASE FetchFails(r) /\ ~End(r)
  <2>1. Goto(r, "memory") /\ seek' = [seek EXCEPT ![r] = "error"]
        /\ copy' = [copy EXCEPT ![r] = None] /\ UNCHANGED failed
    BY <1>3 DEF FetchFails
  <2>2. seek' \in [Requests -> Seeks]
    BY <2>1 DEF Carried, Seeks
  <2>3. "memory" \in Places
    BY DEF Places
  <2>4. \A q \in Requests \ {r} : copy'[q] = copy[q]
    BY <2>1 DEF IndInv, Kept
  <2> QED
    BY <2>1, <2>2, <2>3, <2>4, GoesCarried DEF Goto, Carried
<1>4. CASE Cancel(r) /\ ~End(r)
  <2>1. Goto(r, "late") /\ UNCHANGED <<seek, copy, failed>> /\ pc[r] = "write"
    BY <1>4 DEF Cancel
  <2>2. "late" \in Places /\ copy'[r] # None
    BY <2>1 DEF Places, Carried
  <2> QED
    BY <2>1, <2>2, GoesCarried DEF Goto, Carried
<1> QED
  BY <1>1, <1>2, <1>3, <1>4 DEF FetchUncacheable

LEMMA ArriveCarried ==
    ASSUME IndInv, Carried, NEW r \in Requests, NEW k \in Keys, Arrive(r, k)
    PROVE  Carried'
<1>1. PICK place \in {"memory", "fetch"} : pc' = [pc EXCEPT ![r] = place]
  BY DEF Arrive
<1>2. wants' = [wants EXCEPT ![r] = k] /\ UNCHANGED <<seek, copy, failed, refreshing>>
  BY DEF Arrive
<1>3. place \in Places
      /\ place \notin {"idle", "done", "promote", "store", "prune", "write", "late"}
  BY DEF Places
<1>4. \A q \in Requests \ {r} : wants'[q] = wants[q] /\ copy'[q] = copy[q]
  BY <1>2 DEF IndInv, UnderWay
<1> QED
  BY <1>1, <1>2, <1>3, <1>4, GoesCarried DEF Carried

LEMMA StepCarried == IndInv /\ Carried /\ [Next]_vars => Carried'
<1> SUFFICES ASSUME IndInv, Carried, [Next]_vars PROVE Carried'
  OBVIOUS
<1>1. CASE \E r \in Requests : Step(r) \/ Cancel(r)
  BY <1>1, LookCarried, StoreCarried, FetchCarried DEF Step
<1>2. CASE \E r \in Requests, k \in Keys : Arrive(r, k)
  BY <1>2, ArriveCarried
<1>3. CASE UNCHANGED <<pc, wants, seek, copy, failed, refreshing>>
  BY <1>3 DEF Carried
<1>4. CASE \E kind \in PurgeKinds, k \in Keys : PurgeMemory(kind, k)
  <2>1. PICK kind \in PurgeKinds, k \in Keys : PurgeMemory(kind, k)
    BY <1>4
  <2>2. UNCHANGED <<pc, wants, seek, failed, refreshing>>
    BY <2>1 DEF PurgeMemory
  <2>3. ASSUME NEW r \in Requests, copy[r] # None PROVE copy'[r] # None
    <3>1. copy[r] \in Objects
      BY <2>3 DEF IndInv, Kept, Copies
    <3>2. [copy[r] EXCEPT !.mark = "raced"] \in Objects
      BY <3>1 DEF Objects
    <3>3. copy'[r] \in {copy[r], [copy[r] EXCEPT !.mark = "raced"]}
      BY <2>1 DEF PurgeMemory
    <3> QED
      BY <2>3, <3>2, <3>3, NoneIsNoObject
  <2> QED
    BY <2>2, <2>3 DEF Carried
<1>5. (\E k \in Keys : ObjectAges(k)) \/ PurgeDisk \/ UNCHANGED vars =>
          UNCHANGED <<pc, wants, seek, copy, failed, refreshing>>
  BY DEF ObjectAges, PurgeDisk, requests, vars
<1> QED
  BY <1>1, <1>2, <1>3, <1>4, <1>5 DEF Next
-----------------------------------------------------------------------------
(***************************************************************************)
(* The byte count                                                          *)
(***************************************************************************)

Pruning(r) == pc[r] \in {"prune", "trim"}

LEMMA MemoryIsKeys ==
    ASSUME IndInv
    PROVE  InMemory \in SUBSET Keys /\ \A k \in InMemory : objects[k] \in Objects
  BY DEF InMemory, IndInv, Kept, Copies

LEMMA WeightOfObject ==
    ASSUME NEW c \in Objects PROVE c.weight \in 1..MaxObject /\ c.weight \in Nat
  BY TiersAssumption DEF Objects

(* Objects leave memory, and the count goes down by what they weigh.       *)
LEMMA ForgettingAccounts ==
    ASSUME IndInv, MemoryAccounted, NEW ks, ForgetObjects(ks)
    PROVE  /\ InMemory' = InMemory \ ks
           /\ bytes' = WeightOf(InMemory \ ks) /\ bytes' = WeightOf(InMemory)'
           /\ bytes \in Nat /\ bytes' \in Nat /\ bytes' <= bytes
           /\ indexed' \subseteq InMemory'
<1> DEFINE A == InMemory \ ks
           B == ks \cap InMemory
<1>1. InMemory' = A
  BY DEF InMemory, ForgetObjects
<1>2. A \in SUBSET Keys /\ B \in SUBSET Keys /\ A \cap B = {} /\ InMemory = A \cup B
  BY MemoryIsKeys
<1>3. /\ bytes = Cardinality(BytesIn(objects, A \cup B))
      /\ bytes' = bytes - Cardinality(BytesIn(objects, B))
  BY <1>2, WeightIs DEF MemoryAccounted, ForgetObjects
<1>4. /\ Cardinality(BytesIn(objects, A)) \in Nat
      /\ Cardinality(BytesIn(objects, B)) \in Nat
  BY <1>2, BytesAreFinite
<1>5. bytes = Cardinality(BytesIn(objects, A)) + Cardinality(BytesIn(objects, B))
  BY <1>2, <1>3, WeightsAdd
<1>6. bytes' = Cardinality(BytesIn(objects, A)) /\ bytes \in Nat /\ bytes' \in Nat
      /\ bytes' <= bytes
  BY <1>3, <1>4, <1>5
<1>7. \A k \in A : objects'[k].weight = objects[k].weight
  BY <1>2 DEF ForgetObjects
<1>8. Cardinality(BytesIn(objects, A)) = Cardinality(BytesIn(objects', A))
  <2> HIDE DEF A
  <2> QED
    BY <1>7, WeightsStay
<1>9. WeightOf(InMemory)' = Cardinality(BytesIn(objects', A))
  BY <1>1 DEF WeightOf, BytesIn
<1>10. indexed' \subseteq InMemory'
  BY <1>1 DEF MemoryAccounted, ForgetObjects
<1> QED
  BY <1>1, <1>6, <1>8, <1>9, <1>10, WeightIs

(* An object enters memory, and the count changes by the difference.       *)
LEMMA InsertingAccounts ==
    ASSUME IndInv, MemoryAccounted, NEW k \in Keys, NEW c \in Objects, Insert(k, c)
    PROVE  InMemory' = InMemory \cup {k} /\ bytes' = WeightOf(InMemory)'
<1> DEFINE A == InMemory \ {k}
           B == {k} \cap InMemory
<1>1. objects' = [objects EXCEPT ![k] = c] /\ objects \in [Keys -> Copies] /\ c # None
  BY NoneIsNoObject DEF Insert, IndInv, Kept
<1>2. InMemory' = A \cup {k} /\ InMemory' = InMemory \cup {k}
  BY <1>1 DEF InMemory
<1>3. /\ A \in SUBSET Keys /\ B \in SUBSET Keys /\ A \cap B = {} /\ InMemory = A \cup B
      /\ {k} \in SUBSET Keys /\ A \cap {k} = {}
  BY MemoryIsKeys
<1>4. /\ bytes = Cardinality(BytesIn(objects, A \cup B))
      /\ bytes' = bytes - Cardinality(BytesIn(objects, B)) + c.weight
  BY <1>3, WeightIs DEF MemoryAccounted, Insert
<1>5. /\ Cardinality(BytesIn(objects, A)) \in Nat
      /\ Cardinality(BytesIn(objects, B)) \in Nat
      /\ c.weight \in Nat
  BY <1>3, BytesAreFinite, WeightOfObject
<1>6. bytes = Cardinality(BytesIn(objects, A)) + Cardinality(BytesIn(objects, B))
  BY <1>3, <1>4, WeightsAdd
<1>7. bytes' = Cardinality(BytesIn(objects, A)) + c.weight
  BY <1>4, <1>5, <1>6
<1>8. \A j \in A : objects'[j].weight = objects[j].weight
  BY <1>1, <1>3
<1>9. Cardinality(BytesIn(objects, A)) = Cardinality(BytesIn(objects', A))
  <2> HIDE DEF A
  <2> QED
    BY <1>8, WeightsStay
<1>10. Cardinality(BytesIn(objects', {k})) = c.weight
  <2>1. objects'[k] = c
    BY <1>1
  <2> QED
    BY <2>1, WeightOfObject, WeightOfOne
<1>11. WeightOf(InMemory)' = Cardinality(BytesIn(objects', A \cup {k}))
  BY <1>2 DEF WeightOf, BytesIn
<1>12. Cardinality(BytesIn(objects', A \cup {k})) =
           Cardinality(BytesIn(objects', A)) + Cardinality(BytesIn(objects', {k}))
  BY <1>3, WeightsAdd
<1> QED
  BY <1>2, <1>7, <1>9, <1>10, <1>11, <1>12

(* An object in memory is exchanged for one of the same weight.            *)
LEMMA RelabellingAccounts ==
    ASSUME IndInv, MemoryAccounted, NEW k \in Keys, NEW c \in Copies,
           objects' = [objects EXCEPT ![k] = c], UNCHANGED <<indexed, bytes>>,
           c = None <=> objects[k] = None,
           c # None => c.weight = objects[k].weight
    PROVE  InMemory' = InMemory /\ bytes' = WeightOf(InMemory)'
<1>1. objects \in [Keys -> Copies]
  BY DEF IndInv, Kept
<1>2. InMemory' = InMemory
  BY <1>1 DEF InMemory
<1>3. \A j \in InMemory : objects'[j].weight = objects[j].weight
  BY <1>1 DEF InMemory
<1>4. Cardinality(BytesIn(objects, InMemory)) = Cardinality(BytesIn(objects', InMemory))
  BY <1>3, WeightsStay
<1>5. WeightOf(InMemory)' = Cardinality(BytesIn(objects', InMemory))
  BY <1>2 DEF WeightOf, BytesIn
<1> QED
  BY <1>2, <1>4, <1>5, WeightIs DEF MemoryAccounted

(* While the count does not grow, it is enough that nobody who is to prune *)
(* turns away.                                                             *)
LEMMA PrunersStay ==
    ASSUME MemoryAccounted, bytes \in Int, bytes' \in Int, bytes' <= bytes,
           \A r \in Requests : Pruning(r) => Pruning(r)',
           bytes' = WeightOf(InMemory)', indexed' \subseteq InMemory'
    PROVE  MemoryAccounted'
<1>1. ASSUME bytes' > MaxBytes PROVE \E r \in Requests : Pruning(r)'
  <2>1. bytes > MaxBytes
    BY <1>1, TiersAssumption
  <2>2. PICK r \in Requests : Pruning(r)
    BY <2>1 DEF MemoryAccounted, Pruning
  <2> QED
    BY <2>2
<1> QED
  BY <1>1 DEF MemoryAccounted, Pruning

LEMMA BytesAreNatural ==
    ASSUME IndInv, MemoryAccounted PROVE bytes \in Nat
<1>1. InMemory \in SUBSET Keys
  BY MemoryIsKeys
<1>2. bytes = Cardinality(BytesIn(objects, InMemory))
  BY WeightIs DEF MemoryAccounted
<1> QED
  BY <1>1, <1>2, BytesAreFinite

(* A step that leaves memory alone.                                        *)
LEMMA MemoryUntouched ==
    ASSUME IndInv, MemoryAccounted, UNCHANGED memory,
           \A r \in Requests : Pruning(r) => Pruning(r)'
    PROVE  MemoryAccounted'
<1>1. objects' = objects /\ indexed' = indexed /\ bytes' = bytes
  BY DEF memory
<1>2. InMemory' = InMemory /\ WeightOf(InMemory)' = WeightOf(InMemory)
  BY <1>1 DEF InMemory, WeightOf
<1>3. bytes \in Nat
  BY BytesAreNatural
<1> QED
  BY <1>1, <1>2, <1>3, PrunersStay DEF MemoryAccounted

(* A request not at a prune moves; the ones at a prune stay there.         *)
LEMMA OneMoves ==
    ASSUME IndInv, NEW r \in Requests, ~Pruning(r),
           \E place \in Places : pc' = [pc EXCEPT ![r] = place]
    PROVE  \A q \in Requests : Pruning(q) => Pruning(q)'
  BY DEF IndInv, UnderWay, Pruning

LEMMA AccountsUnpruned ==
    ASSUME IndInv, MemoryAccounted, NEW r \in Requests,
           \/ DiskLook(r) \/ DiskRefuses(r) \/ PromoteSkips(r) \/ WriteDisk(r) \/ Cancel(r)
           \/ FetchSucceeds(r) \/ FetchUncacheable(r) \/ FetchFails(r)
           \/ \E k \in Keys : Arrive(r, k)
    PROVE  MemoryAccounted'
<1>1. UNCHANGED memory
  BY DEF DiskLook, DiskRefuses, PromoteSkips, WriteDisk, Cancel, FetchSucceeds, FetchUncacheable,
         FetchFails, Arrive
<1>2. ~Pruning(r)
  BY DEF DiskLook, DiskRefuses, PromoteSkips, WriteDisk, Cancel, FetchSucceeds, FetchUncacheable,
         FetchFails, Arrive, Pruning
<1>3. \E place \in Places : pc' = [pc EXCEPT ![r] = place]
  <2>1. \/ End(r) \/ Goto(r, "memory") \/ Goto(r, "fetch") \/ Goto(r, "store")
        \/ Goto(r, "promote") \/ Goto(r, "late")
        \/ pc' = [pc EXCEPT ![r] = "fetch"] \/ pc' = [pc EXCEPT ![r] = "memory"]
    BY DEF DiskLook, DiskRefuses, PromoteSkips, WriteDisk, Cancel, FetchSucceeds, FetchUncacheable,
           FetchFails, Arrive, Missing, Found
  <2> QED
    BY <2>1 DEF End, Goto, Places
<1> QED
  BY <1>1, <1>2, <1>3, OneMoves, MemoryUntouched

LEMMA AccountsLooked ==
    ASSUME IndInv, MemoryAccounted, NEW r \in Requests, MemoryLook(r)
    PROVE  MemoryAccounted'
<1>1. ~Pruning(r) /\ (UNCHANGED memory \/ ForgetObjects({wants[r]}))
  BY DEF MemoryLook, Pruning
<1>2. \E place \in Places : pc' = [pc EXCEPT ![r] = place]
  BY DEF MemoryLook, Found, End, Goto, Places
<1>3. CASE UNCHANGED memory
  BY <1>1, <1>2, <1>3, OneMoves, MemoryUntouched
<1>4. CASE ForgetObjects({wants[r]})
  <2>1. \A q \in Requests : Pruning(q) => Pruning(q)'
    BY <1>1, <1>2, OneMoves
  <2>2. bytes \in Nat /\ bytes' \in Nat /\ bytes' <= bytes /\ bytes' = WeightOf(InMemory)'
        /\ indexed' \subseteq InMemory'
    BY <1>4, ForgettingAccounts
  <2> QED
    BY <2>1, <2>2, PrunersStay
<1> QED
  BY <1>1, <1>3, <1>4

(* An insert that takes the count over the limit leaves a prune to come.   *)
LEMMA AccountsInserted ==
    ASSUME IndInv, Carried, MemoryAccounted, NEW r \in Requests,
           Promote(r) \/ StoreInMemory(r)
    PROVE  MemoryAccounted'
<1>1. wants[r] \in Keys /\ Insert(wants[r], copy[r])
  BY DEF Promote, StoreInMemory, IndInv, UnderWay
<1>2. copy[r] \in Objects
  BY DEF Promote, StoreInMemory, Carried, IndInv, Kept, Copies
<1>3. InMemory' = InMemory \cup {wants[r]} /\ bytes' = WeightOf(InMemory)'
  BY <1>1, <1>2, InsertingAccounts
<1>4. indexed' \subseteq InMemory'
  BY <1>3 DEF MemoryAccounted, Promote, StoreInMemory
<1>5. bytes' > MaxBytes => Pruning(r)'
  BY DEF Promote, StoreInMemory, Goto, Pruning, IndInv, UnderWay
<1> QED
  BY <1>3, <1>4, <1>5 DEF MemoryAccounted, Pruning

(* A prune brings the count within the limit.                              *)
LEMMA AccountsPruned ==
    ASSUME IndInv, MemoryAccounted, NEW r \in Requests, PruneMemory(r)
    PROVE  MemoryAccounted'
<1>1. PICK out \in Prunable : ForgetObjects(out)
  BY DEF PruneMemory
<1>2. ~(WeightOf(InMemory \ out) > MaxBytes)
  <2> DEFINE dead == {k \in InMemory : objects[k].age = "dead"}
  <2>1. PICK o \in SUBSET (InMemory \ dead) :
            out = dead \cup o /\ ~(WeightOf((InMemory \ dead) \ o) > MaxBytes)
    BY DEF Prunable
  <2>2. InMemory \ out = (InMemory \ dead) \ o
    BY <2>1
  <2> QED
    BY <2>1, <2>2
<1>3. bytes' = WeightOf(InMemory \ out) /\ bytes' = WeightOf(InMemory)'
      /\ indexed' \subseteq InMemory'
  BY <1>1, ForgettingAccounts
<1> QED
  BY <1>2, <1>3 DEF MemoryAccounted

LEMMA AccountsAged ==
    ASSUME IndInv, MemoryAccounted, NEW k \in Keys, ObjectAges(k)
    PROVE  MemoryAccounted'
<1>1. UNCHANGED <<pc, indexed, bytes>> /\ bytes \in Nat
  BY BytesAreNatural DEF ObjectAges, requests
<1>2. \A r \in Requests : Pruning(r) => Pruning(r)'
  BY <1>1 DEF Pruning
<1>3. CASE objects' = objects
  BY <1>1, <1>2, <1>3, MemoryUntouched DEF memory
<1>4. ASSUME objects[k] # None, NEW age \in Older(objects[k].age),
             objects' = [objects EXCEPT ![k].age = age]
      PROVE  MemoryAccounted'
  <2> DEFINE c == [objects[k] EXCEPT !.age = age]
  <2>1. objects[k] \in Objects
    BY <1>4 DEF IndInv, Kept, Copies
  <2>2. c \in Objects /\ c.weight = objects[k].weight
    BY <1>4, <2>1, OlderObject DEF Objects
  <2>3. c \in Copies /\ c # None
    BY <2>2, NoneIsNoObject DEF Copies
  <2>4. objects' = [objects EXCEPT ![k] = c]
    BY <1>4
  <2> HIDE DEF c
  <2>5. InMemory' = InMemory /\ bytes' = WeightOf(InMemory)'
    BY <1>1, <1>4, <2>2, <2>3, <2>4, RelabellingAccounts
  <2> QED
    BY <1>1, <1>2, <2>5, PrunersStay DEF MemoryAccounted
<1> QED
  BY <1>3, <1>4 DEF ObjectAges

LEMMA MarkedWeighsTheSame ==
    ASSUME NEW kind \in PurgeKinds, NEW c \in Copies
    PROVE  /\ Marked(kind, c) = None <=> c = None
           /\ Marked(kind, c) # None => Marked(kind, c).weight = c.weight
<1>1. CASE c = None
  BY <1>1 DEF Marked
<1>2. CASE c # None
  <2>1. c \in Objects
    BY <1>2 DEF Copies
  <2>2. Marked(kind, c) \in Objects /\ Marked(kind, c).weight = c.weight
    BY <2>1 DEF Marked, Marks, Objects, PurgeKinds
  <2> QED
    BY <1>2, <2>2, NoneIsNoObject
<1> QED
  BY <1>1, <1>2

LEMMA AccountsPurged ==
    ASSUME IndInv, MemoryAccounted, NEW kind \in PurgeKinds, NEW k \in Keys,
           PurgeMemory(kind, k)
    PROVE  MemoryAccounted'
<1>1. \A r \in Requests : Pruning(r) => Pruning(r)'
  BY DEF PurgeMemory, Pruning
<1>2. objects[k] \in Copies /\ bytes \in Nat
  BY BytesAreNatural DEF IndInv, Kept
<1>3. CASE ForgetObjects({k})
  <2>1. bytes \in Nat /\ bytes' \in Nat /\ bytes' <= bytes /\ bytes' = WeightOf(InMemory)'
        /\ indexed' \subseteq InMemory'
    BY <1>3, ForgettingAccounts
  <2> QED
    BY <1>1, <2>1, PrunersStay
<1>4. ASSUME NEW c \in Copies, objects' = [objects EXCEPT ![k] = c],
             UNCHANGED <<indexed, bytes>>, c = None <=> objects[k] = None,
             c # None => c.weight = objects[k].weight
      PROVE  MemoryAccounted'
  <2>1. InMemory' = InMemory /\ bytes' = WeightOf(InMemory)'
    BY <1>4, RelabellingAccounts
  <2> QED
    BY <1>1, <1>2, <1>4, <2>1, PrunersStay DEF MemoryAccounted
<1>5. CASE objects[k] # None /\ objects' = [objects EXCEPT ![k].age = "updating"]
           /\ UNCHANGED <<indexed, bytes>>
  <2> DEFINE c == [objects[k] EXCEPT !.age = "updating"]
  <2>1. objects[k] \in Objects
    BY <1>2, <1>5 DEF Copies
  <2>2. c \in Objects /\ c.weight = objects[k].weight
    BY <2>1 DEF Objects, Ages
  <2>3. c \in Copies /\ c # None
    BY <2>2, NoneIsNoObject DEF Copies
  <2>4. objects' = [objects EXCEPT ![k] = c]
    BY <1>5
  <2> HIDE DEF c
  <2> QED
    BY <1>4, <1>5, <2>2, <2>3, <2>4
<1>6. CASE objects' = [objects EXCEPT ![k] = Marked(kind, @)]
           /\ UNCHANGED <<indexed, bytes>>
  <2> DEFINE c == Marked(kind, objects[k])
  <2>1. c \in Copies /\ (c = None <=> objects[k] = None)
        /\ (c # None => c.weight = objects[k].weight)
    BY <1>2, MarkedObject, MarkedWeighsTheSame
  <2>2. objects' = [objects EXCEPT ![k] = c]
    BY <1>6
  <2> HIDE DEF c
  <2> QED
    BY <1>4, <1>6, <2>1, <2>2
<1> QED
  BY <1>3, <1>5, <1>6 DEF PurgeMemory, PurgeReaches

LEMMA StepAccounted == IndInv /\ Carried /\ MemoryAccounted /\ [Next]_vars => MemoryAccounted'
<1> SUFFICES ASSUME IndInv, Carried, MemoryAccounted, [Next]_vars PROVE MemoryAccounted'
  OBVIOUS
<1>1. CASE \E r \in Requests : Step(r) \/ Cancel(r)
  BY <1>1, AccountsUnpruned, AccountsLooked, AccountsInserted, AccountsPruned DEF Step
<1>2. CASE \E r \in Requests, k \in Keys : Arrive(r, k)
  BY <1>2, AccountsUnpruned
<1>3. CASE \E k \in Keys : ObjectAges(k)
  BY <1>3, AccountsAged
<1>4. CASE \E kind \in PurgeKinds, k \in Keys : PurgeMemory(kind, k)
  BY <1>4, AccountsPurged
<1>5. CASE PurgeDisk \/ UNCHANGED vars
  BY <1>5, MemoryUntouched DEF PurgeDisk, requests, vars, memory, Pruning
<1> QED
  BY <1>1, <1>2, <1>3, <1>4, <1>5 DEF Next

LEMMA InitAccounted == Init => MemoryAccounted
<1> SUFFICES ASSUME Init PROVE MemoryAccounted
  OBVIOUS
<1>1. InMemory = {} /\ bytes = 0 /\ indexed = {}
  BY DEF Init, InMemory
<1>2. BytesIn(objects, {}) = {}
  BY DEF BytesIn
<1>3. WeightOf(InMemory) = 0
  BY <1>1, <1>2, WeightIs, FS_EmptySet
<1> QED
  BY <1>1, <1>3, TiersAssumption DEF MemoryAccounted

(* The byte count that decides about pruning is the weight of the objects  *)
(* held, whatever inserts, removals, agings, purges and prunes come        *)
(* between two sections of the lock; it is over the limit only while a     *)
(* request is on its way to prune (promote_disk_entry, store_inner,        *)
(* prune_native_memory_cache).                                             *)
THEOREM MemoryAlwaysAccounted == Spec => []MemoryAccounted
<1> DEFINE All == IndInv /\ Carried /\ MemoryAccounted
<1>1. Init => All
  BY InitInv, InitCarried, InitAccounted
<1>2. All /\ [Next]_vars => All'
  BY StepInv, StepCarried, StepAccounted
<1>3. All => MemoryAccounted
  OBVIOUS
<1> HIDE DEF All
<1> QED
  BY <1>1, <1>2, <1>3, PTL DEF Spec

(* The counts that bound the model, and what has been read after a purge.  *)
Bounded ==
    /\ purges \in 0..MaxPurges /\ agings \in 0..MaxAgings
    /\ resurfaced \subseteq {"exact", "indexed"}

LEMMA StepBounded == Bounded /\ [Next]_vars => Bounded'
<1> SUFFICES ASSUME Bounded, [Next]_vars PROVE Bounded'
  OBVIOUS
<1>1. purges' = purges \/ (purges < MaxPurges /\ purges' = purges + 1)
  BY DEF Next, Step, MemoryLook, DiskLook, DiskRefuses, Promote, PromoteSkips, FetchSucceeds,
         FetchUncacheable, FetchFails, StoreInMemory, PruneMemory, WriteDisk, Cancel,
         Arrive, ObjectAges, PurgeMemory, PurgeDisk, admin, vars
<1>2. agings' = agings \/ (agings < MaxAgings /\ agings' = agings + 1)
  BY DEF Next, Step, MemoryLook, DiskLook, DiskRefuses, Promote, PromoteSkips, FetchSucceeds,
         FetchUncacheable, FetchFails, StoreInMemory, PruneMemory, WriteDisk, Cancel,
         Arrive, ObjectAges, PurgeMemory, PurgeDisk, vars
<1>3. resurfaced' = resurfaced \/ \E k, c : Meet(k, c)
  BY DEF Next, Step, MemoryLook, DiskLook, DiskRefuses, Promote, PromoteSkips, FetchSucceeds,
         FetchUncacheable, FetchFails, StoreInMemory, PruneMemory, WriteDisk, Cancel,
         Arrive, ObjectAges, PurgeMemory, PurgeDisk, Found, Take, vars
<1>4. resurfaced' \subseteq {"exact", "indexed"}
  BY <1>3 DEF Meet, Bounded
<1>5. purges' \in 0..MaxPurges /\ agings' \in 0..MaxAgings
  BY <1>1, <1>2, TiersAssumption DEF Bounded
<1> QED
  BY <1>4, <1>5 DEF Bounded

(* Every variable keeps its type; a request that is about to promote, to   *)
(* store or to write an object has one.                                    *)
THEOREM TypeCorrect == Spec => []TypeOK
<1> DEFINE All == IndInv /\ Carried /\ MemoryAccounted /\ Bounded
<1>1. Init => Bounded
  BY TiersAssumption DEF Init, Bounded
<1>2. Init => All
  BY <1>1, InitInv, InitCarried, InitAccounted
<1>3. All /\ [Next]_vars => All'
  BY StepInv, StepCarried, StepAccounted, StepBounded
<1>4. All => TypeOK
  <2> SUFFICES ASSUME All PROVE TypeOK
    OBVIOUS
  <2>1. bytes \in Nat /\ indexed \subseteq Keys
    BY BytesAreNatural, MemoryIsKeys DEF MemoryAccounted
  <2>2. \A r \in Requests : wants[r] = None => pc[r] \in {"idle", "done"}
    BY TiersAssumption DEF IndInv, UnderWay
  <2> QED
    BY <2>1, <2>2 DEF TypeOK, IndInv, Kept, Copies, UnderWay, Places, PurgeKept, Carried,
       Seeks, Bounded
<1> HIDE DEF All
<1> QED
  BY <1>2, <1>3, <1>4, PTL DEF Spec
=============================================================================
