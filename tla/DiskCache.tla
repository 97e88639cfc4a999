------------------------------ MODULE DiskCache ------------------------------
(***************************************************************************)
(* What the disk tier of the HTTP cache promises, whatever its backend.    *)
(*                                                                         *)
(* Objects are numbered in the order in which their writes began; offers   *)
(* tells for each number the key it was written for.  A key holds at most  *)
(* one object, and only an object written for that key, each younger than  *)
(* the one before.  Any object may be dropped at any moment: it is a       *)
(* cache.  From time to time the contents are saved, and a restart brings  *)
(* back, for a key that was saved, nothing or an object no older than the  *)
(* saved one, and nothing at all for a key that was not.                   *)
(***************************************************************************)
EXTENDS Naturals, Sequences

CONSTANTS Keys, None

VARIABLES
    offers,    \* the keys objects were written for, in order
    contents,  \* the object a key holds, or None
    copy,      \* the contents on their way to the disk
    saved      \* the contents last saved

vars == <<offers, contents, copy, saved>>

Nothing == [k \in Keys |-> None]

Init ==
    /\ offers = <<>>
    /\ contents = Nothing /\ copy = Nothing /\ saved = Nothing

(* An object is being written; nothing can be read of it yet.              *)
Offer(k) ==
    /\ offers' = Append(offers, k)
    /\ UNCHANGED <<contents, copy, saved>>

(* A written object becomes the one its key holds.                         *)
Settle(k, i) ==
    /\ offers[i] = k
    /\ contents[k] # None => contents[k] < i
    /\ contents' = [contents EXCEPT ![k] = i]
    /\ UNCHANGED <<offers, copy, saved>>

(* Replaced, purged, evicted, or unreadable.                               *)
Drop(k) ==
    /\ contents' = [contents EXCEPT ![k] = None]
    /\ UNCHANGED <<offers, copy, saved>>

(* The contents are copied, to be saved.                                   *)
Snapshot == copy' = contents /\ UNCHANGED <<offers, contents, saved>>

(* The copy replaces what was saved, or is given up.                       *)
Save ==
    /\ saved' \in {copy, saved} /\ copy' = Nothing
    /\ UNCHANGED <<offers, contents>>

(* Only a restart brings objects back, and none older than the saved one.  *)
Restart ==
    /\ contents' \in [Keys -> {None} \cup DOMAIN offers]
    /\ \A k \in Keys : contents'[k] # None =>
           /\ offers[contents'[k]] = k
           /\ saved[k] # None /\ contents'[k] >= saved[k]
    /\ UNCHANGED <<offers, copy, saved>>

(* The process ends, after saving its contents or without.                 *)
Stop ==
    /\ contents' = Nothing /\ copy' = Nothing
    /\ saved' \in {contents, saved}
    /\ UNCHANGED offers

Next ==
    \/ \E k \in Keys : Offer(k) \/ Drop(k)
    \/ \E k \in Keys : \E i \in DOMAIN offers : Settle(k, i)
    \/ Snapshot \/ Save \/ Restart \/ Stop

Spec == Init /\ [][Next]_vars
==============================================================================
