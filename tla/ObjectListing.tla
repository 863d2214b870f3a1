--------------------------- MODULE ObjectListing ---------------------------
(***************************************************************************)
(* Listing the objects of a bucket page by page (list_objects of           *)
(* laoflchdb_object_store_service/src/lib.rs on top of list_keys of        *)
(* laoflchdb_kv_rocksdb_engine/src/lib.rs), while other requests store and *)
(* delete objects between two pages.  A client asks for the first page     *)
(* without a marker and for the next ones with the next_marker it was      *)
(* given, for as long as it is told that the listing is truncated.  This   *)
(* is how the image service lists the images, newest first, and how        *)
(* clients of gRPC, REST and S3 walk a bucket.  An S3 client gets          *)
(* next_marker percent-encoded, sends it back as it got it, and s3.rs      *)
(* decodes what the client's library encodes: the marker stays encoded.    *)
(*                                                                         *)
(* Object keys are numbers in the order of RocksDB.  Those with the prefix *)
(* asked for are contiguous, and Folder gives the common prefix up to the  *)
(* delimiter that a key has after the prefix, if any.  One call holds the  *)
(* engine's mutex from start to end, so a page is one step.                *)
(***************************************************************************)
EXTENDS Integers, FiniteSets, SequencesExt

CONSTANTS
    LastKey,      \* the object keys are 1 .. LastKey
    Prefixed,     \* the keys with the prefix of the request
    Folder,       \* Folder[k]: the common prefix of key k, or NoFolder
    NoFolder,     \* the key has no delimiter after the prefix
    Encoded,      \* Encoded[k]: the last key at or before the text of k
                  \* percent-encoded, which is k when encoding changes nothing
    MaxKeys,      \* max_keys of the request
    MaxChanges    \* bound on the changes other requests make

Keys == 1 .. LastKey
NoMarker == 0

ASSUME ListingAssumption ==
    /\ LastKey \in Nat /\ Prefixed \subseteq Keys
    /\ MaxKeys \in Nat \ {0} /\ MaxChanges \in Nat

VARIABLES
    request,   \* the listing asked for: front (by which protocol), reverse
               \* (from the last key to the first), and delimiter (whether
               \* the request has one)
    stored,    \* the keys of the bucket
    marker,    \* the marker of the next page, or NoMarker
    listed,    \* the objects listed so far
    folders,   \* the common prefixes listed so far
    done,      \* the client was told that the listing is complete
    kept,      \* history: the keys that have been there since the start
    lost,      \* history: an object was deleted while it was the marker of a
               \* walk backwards
    misread,   \* history: a marker came back with another meaning
    changes    \* changes made by others so far

listVars ==
    <<request, stored, marker, listed, folders, done, kept, lost, misread, changes>>

(* list_objects_handler_inner of s3.rs never asks for the reverse. *)
Requests ==
    {r \in [front : {"grpc", "s3"}, reverse : BOOLEAN, delimiter : BOOLEAN] :
        r.front = "s3" => ~r.reverse}

ListInit ==
    /\ request \in Requests
    /\ stored \in SUBSET Keys
    /\ kept = stored /\ lost = FALSE /\ misread = FALSE
    /\ marker = NoMarker /\ listed = <<>> /\ folders = {} /\ done = FALSE
    /\ changes = 0

Least(S) == CHOOSE k \in S : \A l \in S : k <= l
Greatest(S) == CHOOSE k \in S : \A l \in S : l <= k

Listable == stored \cap Prefixed

(* As if list_keys did not step over the marker. *)
AheadAgain == {k \in Listable : k >= marker}

(* list_keys forwards: after the marker, which need not be there any more; *)
(* from the first key with the prefix if the marker comes before it.       *)
Ahead == {k \in Listable : k > marker}

(* list_keys backwards: seek finds the first key at or after the marker.   *)
(* If that is the marker the walk starts before it, if it is another key   *)
(* the walk starts there, and if there is none it is at its end.           *)
Behind ==
    LET after == {k \in stored : k >= marker}
    IN  CASE marker = NoMarker -> Listable
          [] marker # NoMarker /\ after = {} -> {}
          [] marker # NoMarker /\ after # {} ->
               LET at == Least(after)
               IN  IF at = marker THEN {k \in Listable : k < marker}
                   ELSE IF at \in Prefixed THEN {k \in Listable : k <= at} ELSE {}

(* The keys of a page, in the order of the walk. *)
Reached(k, S, backwards) == {l \in S : IF backwards THEN l >= k ELSE l <= k}
InOrder(S, backwards) ==
    [i \in 1 .. Cardinality(S) |-> CHOOSE k \in S : Cardinality(Reached(k, S, backwards)) = i]
ListKeys ==
    LET all == InOrder(IF request.reverse THEN Behind ELSE Ahead, request.reverse)
    IN  SubSeq(all, 1, IF Len(all) < MaxKeys THEN Len(all) ELSE MaxKeys)

InFolder(k) == request.delimiter /\ Folder[k] # NoFolder

(* The first key of a page under a common prefix stands for it; the others *)
(* under the same one are listed as objects.                               *)
Folded(page, i) ==
    InFolder(page[i]) /\ \A j \in 1 .. i - 1 : Folder[page[j]] # Folder[page[i]]

PageObjects(page) ==
    LET places == InOrder({i \in DOMAIN page : ~Folded(page, i)}, FALSE)
    IN  [n \in DOMAIN places |-> page[places[n]]]
PageFolders(page) == {Folder[page[i]] : i \in {j \in DOMAIN page : Folded(page, j)}}

(* The marker as the next request has it. *)
NextMarker(k) == IF request.front = "s3" THEN Encoded[k] ELSE k

(* As if the empty page after the last one were not taken for the end. *)
TruncatedEndless(objects) == objects # <<>> \/ marker # NoMarker

(* As if the last full page were taken for the end. *)
TruncatedStrict(objects) == Len(objects) > MaxKeys

(* list_objects tells from the length of a page whether there is another. *)
Truncated(objects) == Len(objects) >= MaxKeys

(* list_objects: a page, and whether there is another.  A walk whose       *)
(* marker changed its meaning may go on for ever: it is cut short when it  *)
(* has listed more than there are keys (a bound).  The quantifiers over    *)
(* one value let TLC compute the page once.                                *)
Page ==
    /\ ~done
    /\ misread => Len(listed) <= LastKey
    /\ \E page \in {ListKeys} : \E objects \in {PageObjects(page)} :
       LET next == IF ~Truncated(objects) THEN NoMarker
                   ELSE IF objects = <<>> THEN marker ELSE NextMarker(Last(objects))
       IN  /\ listed' = listed \o objects
           /\ folders' = folders \cup PageFolders(page)
           /\ marker' = next
           /\ done' = ~Truncated(objects)
           /\ misread' = (misread \/ (Truncated(objects) /\ objects # <<>> /\ next # Last(objects)))
    /\ UNCHANGED <<request, stored, kept, lost, changes>>

(* Other requests, between two pages. *)
Put(k) ==
    /\ changes < MaxChanges /\ k \notin stored
    /\ stored' = stored \cup {k}
    /\ changes' = changes + 1
    /\ UNCHANGED <<request, marker, listed, folders, done, kept, lost, misread>>

Delete(k) ==
    /\ changes < MaxChanges /\ k \in stored
    /\ stored' = stored \ {k} /\ kept' = kept \ {k}
    /\ lost' = (lost \/ (request.reverse /\ k = marker))
    /\ changes' = changes + 1
    /\ UNCHANGED <<request, marker, listed, folders, done, misread>>

Others == ~done /\ \E k \in Keys : Put(k) \/ Delete(k)

ListNext == Page \/ Others

(* The client asks for the next page as long as there is one. *)
ListSpec == ListInit /\ [][ListNext]_listVars /\ WF_listVars(Page)

-----------------------------------------------------------------------------
(* Each object with the prefix that was there all the time is among the    *)
(* objects listed or under a common prefix listed.                         *)
AllSeen ==
    \A k \in kept \cap Prefixed :
        k \in Range(listed) \/ (request.delimiter /\ Folder[k] \in folders)

(* No object is listed twice, on one page or on two, with or without a     *)
(* delimiter.                                                              *)
ListsOnce == IsInjective(listed)

(* When the client is told that it has seen everything (is_truncated is    *)
(* FALSE), it has, whatever was stored and deleted between its pages:      *)
(* forwards even the object the marker names; backwards any other.  With a *)
(* delimiter this is not so (EverythingListed below).                      *)
ListsAll == done /\ ~request.delimiter => AllSeen

(* WalkExact.  A walk lists each object once and misses none, unless,      *)
(* backwards, the object the marker names was deleted, or, through S3, the *)
(* marker changed its meaning.                                             *)
WalkExact == ~lost /\ ~misread => ListsOnce /\ ListsAll

(* WalkEnds.  The client, going on as long as it is told to, comes to the  *)
(* end, in both directions, unless its marker changed its meaning.         *)
WalkEnds == <>(done \/ misread)

-----------------------------------------------------------------------------
(* What the documents say and the code does not keep.                      *)

(* EverythingListed (gRPC_API.md:1286-1287: is_truncated tells whether     *)
(* max_keys was reached, next_marker is where the next page starts).  A    *)
(* listing that ends has listed everything, in either direction and with a *)
(* delimiter.  Refuted by a walk backwards whose marker is deleted when no *)
(* key comes after it, and by a delimiter: max_keys keys of which one is   *)
(* folded make a page with fewer objects, which list_objects takes for the *)
(* last.                                                                   *)
EverythingListed == done => AllSeen

(* FoldersHide (design.md:1331).  With a delimiter, the keys under a       *)
(* common prefix are listed as that prefix and not as objects.  Refuted by *)
(* two keys of one folder on a page: the second is listed as an object.    *)
FoldersHide == \A k \in Range(listed) : ~InFolder(k)

(* MarkersContinue (S3_API.md:120: a listing goes on from NextMarker).     *)
(* Refuted by keys with a slash: encoded, they come before themselves, so  *)
(* that one page is listed again and again.                                *)
MarkersContinue == lost \/ ListsOnce
=============================================================================
