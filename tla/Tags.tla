-------------------------------- MODULE Tags --------------------------------
(***************************************************************************)
(* The tags of images (laoflchdb_image_service/src/lib.rs) and of face     *)
(* classes (laoflchdb_face_service/src/lib.rs).  Both services keep them   *)
(* in the text index: one index "tags" that they share, with a document    *)
(* per tag, and one pair of indexes each: image_tag and image_tag_map,     *)
(* face_class_tag and face_class_tag_map, with the count of a tag and with *)
(* the tags of an image or class.  A document is replaced by looking for   *)
(* it, deleting it and adding it; each call to the index takes and gives   *)
(* back the lock of the index service, and nothing is held between two     *)
(* calls, so each of them is a step.  Items are the images and the face    *)
(* classes.                                                                *)
(***************************************************************************)
EXTENDS Subsequences, SequencesExt

CONSTANTS
    TagClients,  \* the clients that make requests
    TagIds,      \* tag ids (generate_image_key never gives one twice)
    Images,      \* image ids
    Classes,     \* face class ids
    Missing,     \* no document
    PageSize,    \* PAGE of delete_image_tag and page of list_documents (100)
    MaxRequests  \* bound on the requests made

ASSUME TagsAssumption ==
    /\ PageSize \in Nat \ {0} /\ MaxRequests \in Nat
    /\ Images \cap Classes = {} /\ IsFiniteSet(Images) /\ IsFiniteSet(Classes)
    /\ Missing \notin TagIds \cup Images \cup Classes \cup Nat

Sides == {"image", "class"}
Items(s) == IF s = "image" THEN Images ELSE Classes

VARIABLES
    tags,      \* index "tags": the tags that have a document
    counts,    \* counts[s][t]: image_count or class_count of t, or Missing
    maps,      \* maps[s]: documents [item, ids] in the order of a scan
    requests,  \* requests[c]: what the request of c still has to do
    made,      \* the tag ids handed out
    removed,   \* history: <<s, t>> when a delete of t was asked of side s
    gone,      \* history: <<s, t>> after a delete of t on side s that nobody
               \* disturbed and that did not move documents it had to scan
    loose,     \* history: the tags of requests that were disturbed or dropped
    asked      \* requests made so far

tagVars == <<tags, counts, maps, requests, made, removed, gone, loose, asked>>

NoRequest == [op |-> "none"]
Running(c) == requests[c] # NoRequest

-----------------------------------------------------------------------------
(* What the reads return.                                                  *)

Place(s, i) == {p \in DOMAIN maps[s] : maps[s][p].item = i}
IdsOf(s, i) == UNION {maps[s][p].ids : p \in Place(s, i)}
Count(s, t) == IF counts[s][t] = Missing THEN 0 ELSE counts[s][t]

ListImageTags == [t \in tags |-> Count("image", t)]
ListFaceClassTags == [t \in tags |-> Count("class", t)]

(* The tags of an item that still have a document, with their counts. *)
GetImageTags(i) == [t \in IdsOf("image", i) \cap tags |-> Count("image", t)]
GetFaceClassTags(i) == [t \in IdsOf("class", i) \cap tags |-> Count("class", t)]

SearchImagesByTag(t) == {i \in Images : t \in IdsOf("image", i)}
ClassesWithTag(t) == {i \in Classes : t \in IdsOf("class", i)}

Tagged(s, t) == IF s = "image" THEN SearchImagesByTag(t) ELSE ClassesWithTag(t)

(* As if the row beyond the page were counted to it. *)
ScanOver(s, offset) ==
    LET rest == SubSeq(maps[s], offset + 1, Len(maps[s]))
    IN  [docs |-> SubSeq(rest, 1, IF Len(rest) < PageSize THEN Len(rest) ELSE PageSize),
         more |-> Len(rest) > PageSize + 1]

(* A page of scan_documents: the documents, and whether there are more. *)
ScanDocuments(s, offset) ==
    LET rest == SubSeq(maps[s], offset + 1, Len(maps[s]))
    IN  [docs |-> SubSeq(rest, 1, IF Len(rest) < PageSize THEN Len(rest) ELSE PageSize),
         more |-> Len(rest) > PageSize]

-----------------------------------------------------------------------------
(* The documents, in some order, of items with the tags h; their counts. *)
Documents(h, I) ==
    {[p \in DOMAIN order |-> [item |-> order[p], ids |-> h[order[p]]]] :
        order \in SetToSeqs({i \in I : h[i] # {}})}
Tally(h, I) ==
    [t \in TagIds |-> LET n == Cardinality({i \in I : t \in h[i]})
                      IN  IF n = 0 THEN Missing ELSE n]

(* What requests before these may have left. *)
TagInit ==
    /\ tags \in SUBSET TagIds /\ made = tags
    /\ \E f \in [Images -> SUBSET tags], g \in [Classes -> SUBSET tags] :
          /\ maps \in [image : Documents(f, Images), class : Documents(g, Classes)]
          /\ counts = [image |-> Tally(f, Images), class |-> Tally(g, Classes)]
    /\ requests = [c \in TagClients |-> NoRequest]
    /\ removed = {} /\ gone = {} /\ loose = {} /\ asked = 0

-----------------------------------------------------------------------------
(* Two requests that may disturb each other: of one tag, on one side or    *)
(* when one of them writes or deletes its document; of one item; or on one *)
(* side when one of them goes through many items or tags.                  *)
Sweeps(r) == r.op \in {"delete", "drop class"}
Disturb(q, r) ==
    \/ q.tag = r.tag /\ (q.side = r.side \/ {q.op, r.op} \cap {"update", "delete"} # {})
    \/ q.side = r.side /\ q.item = r.item /\ q.item # Missing
    \/ q.side = r.side /\ (Sweeps(q) \/ Sweeps(r))
    \/ {q.op, r.op} = {"update", "drop class"}

(* step: what is done next, to document doc; ids: the tags to be written   *)
(* or, when a class is dropped, those whose count is still to be lowered;  *)
(* seen: the tags of the documents read; n: the count read; offset, todo,  *)
(* more: the scan of delete_image_tag and of list_documents; moved: the    *)
(* scan rewrote a document and went on; clash: see Disturb.                *)
Request(s, op, t, i, step, doc) ==
    [side |-> s, op |-> op, tag |-> t, item |-> i, step |-> step, doc |-> doc,
     ids |-> {}, seen |-> {}, n |-> 0, offset |-> 0, todo |-> <<>>, more |-> FALSE,
     moved |-> FALSE, clash |-> FALSE]

Ask(c, r) ==
    /\ ~Running(c) /\ asked < MaxRequests
    /\ LET others == {d \in TagClients : Running(d) /\ Disturb(requests[d], r)}
       IN  requests' = [d \in TagClients |->
                           IF d = c THEN [r EXCEPT !.clash = (others # {})]
                           ELSE IF d \in others THEN [requests[d] EXCEPT !.clash = TRUE]
                           ELSE requests[d]]
    /\ asked' = asked + 1
    /\ UNCHANGED <<tags, counts, maps, gone, loose>>

(* Clients name tags they were given. *)
Fresh(t) == t \notin made /\ made' = made \cup {t} /\ UNCHANGED removed
Doomed(s, t) == t \in made /\ removed' = removed \cup {<<s, t>>} /\ UNCHANGED made
Given(t) == t \in made /\ UNCHANGED <<made, removed>>

CreateImageTag(c, t) == Fresh(t) /\ Ask(c, Request("image", "create", t, Missing, "look", "tag"))
UpdateImageTag(c, t) == Given(t) /\ Ask(c, Request("image", "update", t, Missing, "tag", "tag"))
DeleteImageTag(c, t) ==
    Doomed("image", t) /\ Ask(c, Request("image", "delete", t, Missing, "look", "tag"))
AddImageTag(c, t, i) == Given(t) /\ Ask(c, Request("image", "add", t, i, "tag", "map"))
RemoveImageTag(c, t, i) == Given(t) /\ Ask(c, Request("image", "remove", t, i, "ids", "map"))

CreateFaceClassTag(c, t) == Fresh(t) /\ Ask(c, Request("class", "create", t, Missing, "look", "tag"))
UpdateFaceClassTag(c, t) == Given(t) /\ Ask(c, Request("class", "update", t, Missing, "tag", "tag"))
DeleteFaceClassTag(c, t) ==
    Doomed("class", t) /\ Ask(c, Request("class", "delete", t, Missing, "look", "tag"))
AddFaceClassTag(c, t, i) == Given(t) /\ Ask(c, Request("class", "add", t, i, "tag", "map"))
RemoveFaceClassTag(c, t, i) == Given(t) /\ Ask(c, Request("class", "remove", t, i, "ids", "map"))

(* The part of delete_face_class that is about tags. *)
DropClassTags(c, i) ==
    UNCHANGED <<made, removed>> /\ Ask(c, Request("class", "drop class", Missing, i, "ids", "map"))

-----------------------------------------------------------------------------
(* The request of c goes on as r. *)
Goes(c, r) ==
    /\ requests' = [requests EXCEPT ![c] = r]
    /\ UNCHANGED <<gone, loose, made, removed, asked>>

Touched(r) == {r.tag} \cup r.seen

(* It ends: refused, failed or finished. *)
Ends(c, finished) ==
    LET r == requests[c]
    IN  /\ requests' = [requests EXCEPT ![c] = NoRequest]
        /\ loose' = IF r.clash THEN loose \cup Touched(r) ELSE loose
        /\ gone' = IF finished /\ r.op = "delete" /\ ~r.clash /\ ~r.moved
                   THEN gone \cup {<<r.side, r.tag>>} ELSE gone
        /\ UNCHANGED <<made, removed, asked>>

(* The client has gone, or the process is killed: nothing more is done. *)
Abandon(c) ==
    /\ Running(c)
    /\ requests' = [requests EXCEPT ![c] = NoRequest]
    /\ loose' = loose \cup Touched(requests[c])
    /\ UNCHANGED <<tags, counts, maps, made, removed, gone, asked>>

At(c, step) == Running(c) /\ requests[c].step = step
Reads == UNCHANGED <<tags, counts, maps>>

(* add and update: the tag must have a document. *)
ReadTagDocument(c) ==
    LET r == requests[c]
    IN  /\ At(c, "tag") /\ Reads
        /\ IF r.tag \notin tags THEN Ends(c, TRUE)
           ELSE Goes(c, [r EXCEPT !.step = IF r.op = "add" THEN "ids" ELSE "look"])

(* add and remove end when there is nothing to change. *)
NothingToDo(r, ids) ==
    \/ r.op = "add" /\ r.tag \in ids
    \/ r.op = "remove" /\ r.tag \notin ids
    \/ r.op = "drop class" /\ ids = {}

ReadImageTagIds(c) ==
    LET r == requests[c]  ids == IdsOf(r.side, r.item)
        new == CASE r.op = "add" -> ids \cup {r.tag}
                 [] r.op = "remove" -> ids \ {r.tag}
                 [] r.op = "drop class" -> ids
    IN  /\ At(c, "ids") /\ Reads
        /\ IF NothingToDo(r, ids) THEN Ends(c, TRUE)
           ELSE Goes(c, [r EXCEPT !.ids = new, !.seen = ids,
                                  !.step = IF r.op = "drop class" THEN "drop" ELSE "look"])

Exists(r) ==
    \/ r.doc = "tag" /\ r.tag \in tags
    \/ r.doc = "count" /\ counts[r.side][r.tag] # Missing
    \/ r.doc = "map" /\ Place(r.side, r.item) # {}

(* A document is replaced: looked for, deleted if it is there, and added.  *)
LookForDocument(c) ==
    /\ At(c, "look") /\ Reads
    /\ Goes(c, [requests[c] EXCEPT !.step = IF Exists(requests[c]) THEN "drop" ELSE "put"])

DeleteDocument(c) ==
    LET r == requests[c]
    IN  /\ At(c, "drop")
        /\ tags' = IF r.doc = "tag" THEN tags \ {r.tag} ELSE tags
        /\ counts' = IF r.doc = "count" THEN [counts EXCEPT ![r.side][r.tag] = Missing] ELSE counts
        /\ maps' = IF r.doc = "map"
                   THEN [maps EXCEPT ![r.side] = AtPlaces(@, DOMAIN @ \ Place(r.side, r.item))]
                   ELSE maps
        /\ Goes(c, [r EXCEPT !.step = "put"])

(* Deletions write nothing, nor is a document written without tags. *)
Writes(r) ==
    \/ r.doc \in {"tag", "count"} /\ r.op # "delete"
    \/ r.doc = "map" /\ r.op # "drop class" /\ r.ids # {}

(* What follows the documents of a page or a list, todo, in turn.  Those   *)
(* with the tag are rewritten as they were when they were read.            *)
Carriers(r) == AtPlaces(r.todo, {n \in DOMAIN r.todo : r.tag \in r.todo[n].ids})
GoesOn(c, r) ==
    LET docs == Carriers(r)
    IN  IF docs # <<>>
        THEN Goes(c, [r EXCEPT !.step = "look", !.doc = "map", !.item = Head(docs).item,
                               !.ids = Head(docs).ids \ {r.tag}, !.seen = @ \cup Head(docs).ids,
                               !.todo = Tail(docs), !.moved = @ \/ r.more])
        ELSE IF r.more THEN Goes(c, [r EXCEPT !.step = "scan"]) ELSE Ends(c, TRUE)

(* delete_face_class lowers the counts one after another. *)
LowersNext(c, r) ==
    IF r.ids = {} THEN Ends(c, TRUE)
    ELSE \E t \in r.ids : Goes(c, [r EXCEPT !.step = "check", !.tag = t, !.ids = @ \ {t}])

(* As if the count were adjusted only when the item had a document before. *)
FollowsCounted(c, r) ==
    \/ r.op \in {"create", "update"} /\ Ends(c, TRUE)
    \/ r.op = "delete" /\ r.doc = "tag" /\ Goes(c, [r EXCEPT !.step = "look", !.doc = "count"])
    \/ r.op = "delete" /\ r.doc = "count" /\ Goes(c, [r EXCEPT !.step = "scan"])
    \/ r.op = "delete" /\ r.doc = "map" /\ GoesOn(c, r)
    \/ r.op \in {"add", "remove"} /\ r.doc = "map" /\ r.seen # {} /\ Goes(c, [r EXCEPT !.step = "check"])
    \/ r.op \in {"add", "remove"} /\ (r.doc = "count" \/ r.seen = {}) /\ Ends(c, TRUE)
    \/ r.op = "drop class" /\ LowersNext(c, r)

(* What follows a document that has been replaced or deleted. *)
Follows(c, r) ==
    \/ r.op \in {"create", "update"} /\ Ends(c, TRUE)
    \/ r.op = "delete" /\ r.doc = "tag" /\ Goes(c, [r EXCEPT !.step = "look", !.doc = "count"])
    \/ r.op = "delete" /\ r.doc = "count" /\ Goes(c, [r EXCEPT !.step = "scan"])
    \/ r.op = "delete" /\ r.doc = "map" /\ GoesOn(c, r)
    \/ r.op \in {"add", "remove"} /\ r.doc = "map" /\ Goes(c, [r EXCEPT !.step = "check"])
    \/ r.op \in {"add", "remove"} /\ r.doc = "count" /\ Ends(c, TRUE)
    \/ r.op = "drop class" /\ LowersNext(c, r)

(* add_document refuses an id that is there. *)
AddDocument(c) ==
    LET r == requests[c]
    IN  /\ At(c, "put")
        /\ \/ Writes(r) /\ Exists(r) /\ Reads /\ Ends(c, FALSE)
           \/ ~Writes(r) /\ Reads /\ Follows(c, r)
           \/ /\ Writes(r) /\ ~Exists(r) /\ Follows(c, r)
              /\ tags' = IF r.doc = "tag" THEN tags \cup {r.tag} ELSE tags
              /\ counts' = IF r.doc = "count" THEN [counts EXCEPT ![r.side][r.tag] = r.n] ELSE counts
              /\ maps' = IF r.doc = "map"
                         THEN [maps EXCEPT ![r.side] = Append(@, [item |-> r.item, ids |-> r.ids])]
                         ELSE maps

(* adjust_tag_image_count: the tag must have a document; delete_face_class *)
(* notes the error and goes on.                                            *)
CheckTag(c) ==
    LET r == requests[c]
    IN  /\ At(c, "check") /\ Reads
        /\ \/ r.tag \in tags /\ Goes(c, [r EXCEPT !.step = "count"])
           \/ r.tag \notin tags /\ r.op = "drop class" /\ LowersNext(c, r)
           \/ r.tag \notin tags /\ r.op # "drop class" /\ Ends(c, FALSE)

ReadTagCount(c) ==
    LET r == requests[c]  now == Count(r.side, r.tag)
        new == IF r.op = "add" THEN now + 1 ELSE IF now > 0 THEN now - 1 ELSE 0
    IN  /\ At(c, "count") /\ Reads
        /\ Goes(c, [r EXCEPT !.step = "look", !.doc = "count", !.n = new])

(* delete_image_tag rewrites the documents of a page before it asks for    *)
(* the next; list_documents gathers all pages first.                       *)
ScanPage(c) ==
    LET r == requests[c]  page == ScanDocuments(r.side, r.offset)
    IN  /\ At(c, "scan") /\ Reads
        /\ IF r.side = "class"
           THEN LET all == [r EXCEPT !.todo = @ \o page.docs, !.offset = @ + Len(page.docs)]
                IN  IF page.more THEN Goes(c, all) ELSE GoesOn(c, all)
           ELSE GoesOn(c, [r EXCEPT !.todo = page.docs, !.offset = @ + PageSize, !.more = page.more])

-----------------------------------------------------------------------------
TagRequests(c) ==
    \/ \E t \in TagIds : CreateImageTag(c, t) \/ UpdateImageTag(c, t) \/ DeleteImageTag(c, t)
    \/ \E t \in TagIds, i \in Images : AddImageTag(c, t, i) \/ RemoveImageTag(c, t, i)
    \/ \E t \in TagIds : CreateFaceClassTag(c, t) \/ UpdateFaceClassTag(c, t) \/ DeleteFaceClassTag(c, t)
    \/ \E t \in TagIds, i \in Classes : AddFaceClassTag(c, t, i) \/ RemoveFaceClassTag(c, t, i)
    \/ \E i \in Classes : DropClassTags(c, i)

TagSteps(c) ==
    \/ ReadTagDocument(c) \/ ReadImageTagIds(c)
    \/ LookForDocument(c) \/ DeleteDocument(c) \/ AddDocument(c)
    \/ CheckTag(c) \/ ReadTagCount(c) \/ ScanPage(c)

TagNext == \E c \in TagClients : TagRequests(c) \/ TagSteps(c) \/ Abandon(c)

TagSpec == TagInit /\ [][TagNext]_tagVars

-----------------------------------------------------------------------------
(* A tag nobody asked to delete, of no request that is under way, was      *)
(* disturbed or was dropped.                                               *)
AtRest(t) ==
    /\ t \in made \ loose /\ \A s \in Sides : <<s, t>> \notin removed
    /\ \A c \in TagClients : Running(c) => t \notin Touched(requests[c])

(* TagsWhole.  A tag at rest exists, and each read that shows it, listing  *)
(* tags or listing those of an image or a class, shows as its count the    *)
(* number of images or classes that a search by the tag returns, although  *)
(* the tags of an item and the counts are replaced in turn, by many steps. *)
(* And after a deletion that nobody disturbed and that did not rewrite     *)
(* documents of one page before it asked for the next, the tag is on none  *)
(* of the items of that side and has neither document nor count.           *)
TagsWhole ==
    /\ \A t \in {u \in TagIds : AtRest(u)} :
          /\ t \in tags
          /\ ListImageTags[t] = Cardinality(SearchImagesByTag(t))
          /\ ListFaceClassTags[t] = Cardinality(ClassesWithTag(t))
          /\ \A i \in SearchImagesByTag(t) :
                GetImageTags(i)[t] = Cardinality(SearchImagesByTag(t))
          /\ \A i \in ClassesWithTag(t) : GetFaceClassTags(i)[t] = Cardinality(ClassesWithTag(t))
    /\ \A p \in gone :
          p[2] \notin tags /\ counts[p[1]][p[2]] = Missing /\ Tagged(p[1], p[2]) = {}

(* ImagesUntagged (gRPC_API.md:1705: deleting a tag removes it from all    *)
(* images).  Refuted when the images fill more than a page: rewriting      *)
(* moves documents from the first page, so that the next page begins       *)
(* behind documents that were never looked at.                             *)
ImagesUntagged ==
    \A t \in TagIds \ loose :
        <<"image", t>> \in removed /\ (\A c \in TagClients : ~Running(c)) => SearchImagesByTag(t) = {}
=============================================================================
