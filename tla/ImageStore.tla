----------------------------- MODULE ImageStore -----------------------------
(***************************************************************************)
(* Storing, indexing and deleting images                                   *)
(* (laoflchdb_image_service/src/lib.rs).  An image is several objects of a *)
(* bucket, the original, a thumbnail of each size and a metadata object,   *)
(* and a vector in the embedding index "image", which all buckets share:   *)
(* one in RocksDB and one in the graph that searches walk, which a rebuild *)
(* or a restart makes from RocksDB again (EmbeddingIndex says how; it is   *)
(* one step here).                                                         *)
(* A request reads and writes them one after another through the object    *)
(* store and the embedding service and holds nothing in between: each call *)
(* is a step, and a request may end between any two, when a call fails or  *)
(* the client goes away or the process is killed.                          *)
(*                                                                         *)
(* Pictures stand for the bytes and models for the embedding models: two   *)
(* vectors are duplicates (distance below image_duplicate_distance) when   *)
(* they are of one picture and one model.  Keys are the numeric ones; one  *)
(* that is not cannot be indexed (InsertRefused).                          *)
(***************************************************************************)
EXTENDS Integers, FiniteSets

CONSTANTS
    Clients,     \* the clients of the image service
    Buckets,     \* the buckets
    ImageKeys,   \* image keys
    Pictures,    \* contents of images
    Models,      \* embedding models
    Sizes,       \* THUMBNAIL_SIZES
    None,        \* no object, no vector, no key
    MaxStored,   \* bound on the images there are at first
    MaxJobs,     \* bound on the requests made
    MaxFaults    \* bound on failures and broken requests

ASSUME ImageAssumption ==
    /\ MaxStored \in Nat /\ MaxJobs \in Nat /\ MaxFaults \in Nat
    /\ None \notin ImageKeys \cup Pictures \cup Models
    /\ None \notin [pic : Pictures, model : Models]
    /\ None \notin [pic : Pictures, indexed : BOOLEAN, model : Models \cup {None}]

VARIABLES
    originals,  \* originals[b][k]: the picture stored, or None
    thumbs,     \* thumbs[b][k][s]: the picture the thumbnail is of, or None
    metas,      \* metas[b][k]: [pic, indexed, model], or None
    vectors,    \* vectors[k]: the vector in the graph, [pic, model], or None
    stored,     \* stored[k]: the vector in RocksDB, or None
    jobs,       \* jobs[c]: the request of c
    keysMade,   \* the keys used so far
    unsure,     \* history: keys of which requests overlapped, broke off or
                \* passed over a failing call, of images indexed elsewhere,
                \* and of an image in one bucket when the vector that it
                \* shares was deleted or replaced for another bucket
    excused,    \* history: keys indexed although, or without looking whether,
                \* their picture is indexed already, kept in the index
                \* by a failure, or stored with a vector that the graph
                \* did not take
    jobsAsked,  \* requests made so far
    faults      \* failures so far

imageVars == <<originals, thumbs, metas, vectors, stored, jobs, keysMade, unsure,
               excused, jobsAsked, faults>>
store == <<originals, thumbs, metas, vectors, stored>>

NoJob == [op |-> "none"]
Working(c) == jobs[c] # NoJob

-----------------------------------------------------------------------------
(* What the reads return.                                                  *)
GetImage(b, k) == originals[b][k]
GetThumbnail(b, k, s) == IF metas[b][k] = None THEN None ELSE thumbs[b][k][s]
ListImages(b) == {k \in ImageKeys : metas[b][k] # None}

(* search_similar_images walks the graph; hits without metadata in the     *)
(* bucket are left out.                                                    *)
SearchSimilarImages(b, v) == {k \in ImageKeys : vectors[k] = v} \cap ListImages(b)

(* classify_images clusters the images listed that have a vector in        *)
(* RocksDB.                                                                *)
ClassifyObjects(b) == {k \in ListImages(b) : stored[k] # None}

(* check_existing_image_with_embedding: in whatever bucket. *)
CheckExisting(p, m) == {k \in ImageKeys : vectors[k] = [pic |-> p, model |-> m]}

-----------------------------------------------------------------------------
Whole(p) == [s \in Sizes |-> p]
NoThumbs == [s \in Sizes |-> None]
Meta(p, indexed, m) == [pic |-> p, indexed |-> indexed, model |-> m]

(* Images that earlier requests stored, indexed or not. *)
Earlier == {None} \cup {Meta(p, FALSE, None) : p \in Pictures}
                  \cup {Meta(p, TRUE, m) : p \in Pictures, m \in Models}
ImageInit ==
    /\ \E f \in [ImageKeys -> Earlier], home \in [ImageKeys -> Buckets] :
          LET here(b, k) == f[k] # None /\ home[k] = b
          IN  /\ metas = [b \in Buckets |-> [k \in ImageKeys |-> IF here(b, k) THEN f[k] ELSE None]]
              /\ originals = [b \in Buckets |-> [k \in ImageKeys |->
                                 IF here(b, k) THEN f[k].pic ELSE None]]
              /\ thumbs = [b \in Buckets |-> [k \in ImageKeys |->
                                 IF here(b, k) THEN Whole(f[k].pic) ELSE NoThumbs]]
              /\ vectors = [k \in ImageKeys |->
                               IF f[k] # None /\ f[k].indexed
                               THEN [pic |-> f[k].pic, model |-> f[k].model] ELSE None]
              /\ stored = vectors
              /\ keysMade = {k \in ImageKeys : f[k] # None}
              /\ Cardinality(keysMade) <= MaxStored
    /\ \A k, l \in ImageKeys : k # l /\ vectors[k] # None => vectors[k] # vectors[l]
    /\ jobs = [c \in Clients |-> NoJob]
    /\ unsure = {} /\ excused = {} /\ jobsAsked = 0 /\ faults = 0

-----------------------------------------------------------------------------
(* A request: action is the duplicate_action of an upload, the index_name  *)
(* of index_image; victims: the duplicates it deletes, of which todo are   *)
(* left; key: the image it is at; thumbsLeft: thumbnails still to write or *)
(* delete; meta: the metadata it has read.                                 *)
Job(b, op, k, p, m, action, step) ==
    [bucket |-> b, op |-> op, key |-> k, asked |-> k, pic |-> p, model |-> m,
     action |-> action, step |-> step, auto |-> step = "check", victims |-> {}, todo |-> {},
     thumbsLeft |-> {}, meta |-> None, clash |-> FALSE, twin |-> FALSE]

(* The keys whose objects or vector a request may read or write. *)
KeysOf(r) == ({r.key, r.asked} \cup r.victims) \ {None}

(* The request of c is now r.  Requests of one key disturb each other, and *)
(* uploads of one picture and model may miss each other's vector.          *)
Becomes(c, r) ==
    LET busy == {d \in Clients \ {c} : Working(d)}
        near == {d \in busy : KeysOf(jobs[d]) \cap KeysOf(r) # {}}
        twins == {d \in busy : r.op = "upload" /\ jobs[d].op = "upload"
                                /\ jobs[d].pic = r.pic /\ jobs[d].model = r.model}
    IN  jobs' = [d \in Clients |->
           IF d = c THEN [r EXCEPT !.clash = @ \/ near # {}, !.twin = @ \/ twins # {}]
           ELSE IF d \in busy
           THEN [jobs[d] EXCEPT !.clash = @ \/ d \in near, !.twin = @ \/ d \in twins]
           ELSE NoJob]

Quiet == UNCHANGED <<unsure, excused, jobsAsked, faults>>
Proceeds(c, r) == Becomes(c, r) /\ UNCHANGED keysMade /\ Quiet

(* An undisturbed deletion that knew the thumbnails leaves nothing in its  *)
(* bucket.                                                                 *)
Cleared(r) ==
    /\ r.op = "delete" /\ r.meta # None
    /\ \A b \in Buckets \ {r.bucket} :
          /\ originals[b][r.key] = None /\ thumbs[b][r.key] = NoThumbs
          /\ metas[b][r.key] = None
Finishes(c) ==
    LET r == jobs[c]
    IN  /\ jobs' = [jobs EXCEPT ![c] = NoJob]
        /\ unsure' = IF r.clash THEN unsure \cup KeysOf(r)
                     ELSE IF Cleared(r) THEN unsure \ {r.key} ELSE unsure
        /\ UNCHANGED <<keysMade, excused, jobsAsked, faults>>

(* The upload goes on to store its picture: under the client's key, or     *)
(* under a new one (generate_image_key) if it has none or found duplicates.*)
Named(c, r) ==
    LET begun(k) == [r EXCEPT !.key = k, !.step = "original", !.thumbsLeft = Sizes]
    IN  IF r.victims = {} /\ r.asked # None
        THEN Becomes(c, begun(r.asked)) /\ UNCHANGED keysMade
        ELSE \E k \in ImageKeys \ keysMade : Becomes(c, begun(k)) /\ keysMade' = keysMade \cup {k}

-----------------------------------------------------------------------------
Idle(c) == ~Working(c) /\ jobsAsked < MaxJobs
Asked == jobsAsked' = jobsAsked + 1 /\ UNCHANGED <<store, unsure, excused, faults>>

(* upload_image, from its start to the first call that matters: the        *)
(* embedding is not asked for, or cannot be made, or is made.              *)
UploadImage(c, b, k, p, m, action) ==
    /\ Idle(c) /\ Asked
    /\ \/ Becomes(c, Job(b, "upload", k, p, m, action, "check"))
          /\ keysMade' = keysMade \cup ({k} \ {None})
       \/ /\ k \notin {None} /\ keysMade' = keysMade \cup {k}
          /\ Becomes(c, [Job(b, "upload", k, p, m, action, "original") EXCEPT !.thumbsLeft = Sizes])
       \/ k = None /\ Named(c, Job(b, "upload", k, p, m, action, "original"))

(* upload_image_stream: the chunks are put together; the action is empty.  *)
UploadImageStream(c, b, k, p, m) == UploadImage(c, b, k, p, m, "ask")

(* index_name is "image" unless the client names another. *)
IndexNames == {"image", "other"}
IndexImage(c, b, k, m, index) ==
    /\ Idle(c) /\ Asked /\ UNCHANGED keysMade
    /\ Becomes(c, Job(b, "index", k, None, m, index, "read meta"))

UpdateImageMetadata(c, b, k) ==
    /\ Idle(c) /\ Asked /\ UNCHANGED keysMade
    /\ Becomes(c, Job(b, "update", k, None, None, "ask", "read meta"))

DeleteImage(c, b, k) ==
    /\ Idle(c) /\ Asked /\ UNCHANGED keysMade
    /\ Becomes(c, Job(b, "delete", k, None, None, "ask", "read meta"))

-----------------------------------------------------------------------------
Doing(c, step) == Working(c) /\ jobs[c].step = step

(* As if the vectors of duplicates were left alone. *)
FirstDropObject == "drop original"

(* upload_image deletes a duplicate, its vector first. *)
FirstDrop == "drop vector"
NextVictims(r) ==
    {[r EXCEPT !.key = k, !.todo = @ \ {k}, !.step = FirstDrop, !.thumbsLeft = {}] : k \in r.todo}

CheckDuplicates(c) ==
    LET r == jobs[c]  found == CheckExisting(r.pic, r.model)
        known == [r EXCEPT !.victims = found]
    IN  /\ Doing(c, "check") /\ UNCHANGED store
        /\ CASE found = {} \/ r.action = "new" -> Named(c, known) /\ Quiet
             [] found # {} /\ r.action = "overwrite" ->
                    \E n \in NextVictims([known EXCEPT !.todo = found]) : Proceeds(c, n)
             [] found # {} /\ r.action \in {"skip", "ask"} -> Finishes(c)

PutOriginal(c) ==
    LET r == jobs[c]
    IN  /\ Doing(c, "original")
        /\ originals' = [originals EXCEPT ![r.bucket][r.key] = r.pic]
        /\ Proceeds(c, [r EXCEPT !.step = "thumbnails"])
        /\ UNCHANGED <<thumbs, metas, vectors, stored>>

PutThumbnail(c) ==
    LET r == jobs[c]
    IN  /\ Doing(c, "thumbnails")
        /\ \E s \in r.thumbsLeft :
              LET left == r.thumbsLeft \ {s}
              IN  /\ thumbs' = [thumbs EXCEPT ![r.bucket][r.key][s] = r.pic]
                  /\ Proceeds(c, [r EXCEPT !.thumbsLeft = left,
                                           !.step = IF left = {} THEN "meta" ELSE @])
        /\ UNCHANGED <<originals, metas, vectors, stored>>

PutMetadata(c) ==
    LET r == jobs[c]  meta == Meta(r.pic, FALSE, None)
    IN  /\ Doing(c, "meta")
        /\ metas' = [metas EXCEPT ![r.bucket][r.key] = meta]
        /\ IF r.auto THEN Proceeds(c, [r EXCEPT !.meta = meta, !.step = "insert"]) ELSE Finishes(c)
        /\ UNCHANGED <<originals, thumbs, vectors, stored>>

(* Vectors of a request: an upload that found no duplicate and met no      *)
(* upload of the same picture keeps them unique.                           *)
Excuse(r) ==
    excused' = IF r.op = "index" \/ r.twin \/ r.action = "new" THEN excused \cup {r.key} ELSE excused

(* What index_image does when the key has a vector; as if it took it for   *)
(* up to date.                                                             *)
AlreadyIndexed == "mark"
AlreadyExists == "drop vector"

(* insert_embedding is called, of the index "image". *)
Inserting(c) ==
    /\ Doing(c, "insert") \/ Doing(c, "insert again")
    /\ ~(jobs[c].op = "index" /\ jobs[c].action = "other")
VectorOf(r) == [pic |-> r.pic, model |-> r.model]

InsertVector(c) ==
    LET r == jobs[c]
    IN  /\ Inserting(c) /\ vectors[r.key] = None
        /\ vectors' = [vectors EXCEPT ![r.key] = VectorOf(r)]
        /\ stored' = [stored EXCEPT ![r.key] = VectorOf(r)]
        /\ Becomes(c, [r EXCEPT !.step = "mark"])
        /\ Excuse(r)
        /\ UNCHANGED <<originals, thumbs, metas, keysMade, unsure, jobsAsked, faults>>

(* Images of other buckets that have the key share its vector. *)
Shared(r) == {r.key : b \in {d \in Buckets \ {r.bucket} : metas[d][r.key] # None}}

(* The graph refuses a key it has, when RocksDB has the new vector already.*)
(* upload_image only warns, while index_image deletes the vector and       *)
(* inserts it again.                                                       *)
RefuseVector(c) ==
    LET r == jobs[c]
        again == r.op = "index" /\ r.step = "insert"
    IN  /\ Inserting(c) /\ vectors[r.key] # None
        /\ stored' = [stored EXCEPT ![r.key] = VectorOf(r)]
        /\ excused' = excused \cup {r.key}
        /\ \/ /\ again /\ Becomes(c, [r EXCEPT !.step = AlreadyExists])
              /\ UNCHANGED unsure
           \/ /\ ~again /\ jobs' = [jobs EXCEPT ![c] = NoJob]
              /\ unsure' = unsure \cup Shared(r) \cup (IF r.clash THEN KeysOf(r) ELSE {})
        /\ UNCHANGED <<originals, thumbs, metas, vectors, keysMade, jobsAsked, faults>>

(* index_image puts the vector into another index, where it may replace    *)
(* one: nothing is left to tell that "image" has none.                     *)
InsertElsewhere(c) ==
    LET r == jobs[c]
    IN  /\ Doing(c, "insert") /\ r.op = "index" /\ r.action = "other" /\ UNCHANGED store
        /\ Proceeds(c, [r EXCEPT !.step = "mark", !.clash = TRUE])

(* is_indexed is set once the vector is there. *)
MarkIndexed(c) ==
    LET r == jobs[c]
    IN  /\ Doing(c, "mark")
        /\ metas' = [metas EXCEPT ![r.bucket][r.key] = Meta(r.meta.pic, TRUE, r.model)]
        /\ Finishes(c)
        /\ UNCHANGED <<originals, thumbs, vectors, stored>>

(* get_metadata_from_store, before what each request does with it. *)
ReadMetadata(c) ==
    LET r == jobs[c]  meta == metas[r.bucket][r.key]
        read == [r EXCEPT !.meta = meta, !.thumbsLeft = IF meta = None THEN {} ELSE Sizes]
    IN  /\ Doing(c, "read meta") /\ UNCHANGED store
        /\ CASE r.op = "delete" -> Proceeds(c, [read EXCEPT !.step = "drop vector"])
             [] r.op = "upload" -> Proceeds(c, [read EXCEPT !.step =
                                       IF meta = None THEN "drop meta" ELSE "drop thumbnails"])
             [] r.op \in {"index", "update"} /\ meta = None -> Finishes(c)
             [] r.op = "index" /\ meta # None -> Proceeds(c, [read EXCEPT !.step = "read original"])
             [] r.op = "update" /\ meta # None -> Proceeds(c, [read EXCEPT !.step = "save"])

ReadOriginal(c) ==
    LET r == jobs[c]  pic == originals[r.bucket][r.key]
    IN  /\ Doing(c, "read original") /\ UNCHANGED store
        /\ IF pic = None THEN Finishes(c)
           ELSE Proceeds(c, [r EXCEPT !.pic = pic, !.step = "insert"])

(* update_image_metadata writes back what it read, with other names. *)
SaveMetadata(c) ==
    LET r == jobs[c]
    IN  /\ Doing(c, "save")
        /\ metas' = [metas EXCEPT ![r.bucket][r.key] = r.meta]
        /\ Finishes(c)
        /\ UNCHANGED <<originals, thumbs, vectors, stored>>

-----------------------------------------------------------------------------
(* Deleting an image.  What comes after a step, whether the call did what  *)
(* it was asked or failed: the results of these calls are not looked at.   *)
AfterVector(r) ==
    [r EXCEPT !.step = IF r.op = "index" THEN "insert again" ELSE "drop original"]
AfterOriginal(r) ==
    [r EXCEPT !.step = CASE r.op = "upload" -> "read meta"
                         [] r.op = "delete" /\ r.thumbsLeft # {} -> "drop thumbnails"
                         [] r.op = "delete" /\ r.thumbsLeft = {} -> "drop meta"]
AfterThumbnail(r, s) ==
    LET left == r.thumbsLeft \ {s}
    IN  [r EXCEPT !.thumbsLeft = left, !.step = IF left = {} THEN "drop meta" ELSE @]

(* delete_image is done; upload_image goes on to the next duplicate, or to *)
(* storing its own picture.                                                *)
AfterMetadata(c, r) ==
    CASE r.op = "delete" -> Finishes(c)
      [] r.op = "upload" /\ r.todo # {} -> \E n \in NextVictims(r) : Proceeds(c, n)
      [] r.op = "upload" /\ r.todo = {} -> Named(c, r) /\ Quiet

(* The vector of a key is shared by the buckets. *)
DropVector(c) ==
    LET r == jobs[c]
    IN  /\ Doing(c, "drop vector")
        /\ vectors' = [vectors EXCEPT ![r.key] = None]
        /\ stored' = [stored EXCEPT ![r.key] = None]
        /\ Becomes(c, AfterVector(r))
        /\ unsure' = unsure \cup Shared(r)
        /\ UNCHANGED <<originals, thumbs, metas, keysMade, excused, jobsAsked, faults>>

DropOriginal(c) ==
    LET r == jobs[c]
    IN  /\ Doing(c, "drop original")
        /\ originals' = [originals EXCEPT ![r.bucket][r.key] = None]
        /\ Proceeds(c, AfterOriginal(r))
        /\ UNCHANGED <<thumbs, metas, vectors, stored>>

DropThumbnail(c) ==
    LET r == jobs[c]
    IN  /\ Doing(c, "drop thumbnails")
        /\ \E s \in r.thumbsLeft :
              /\ thumbs' = [thumbs EXCEPT ![r.bucket][r.key][s] = None]
              /\ Proceeds(c, AfterThumbnail(r, s))
        /\ UNCHANGED <<originals, metas, vectors, stored>>

DropMetadata(c) ==
    LET r == jobs[c]
    IN  /\ Doing(c, "drop meta")
        /\ metas' = [metas EXCEPT ![r.bucket][r.key] = None]
        /\ AfterMetadata(c, r)
        /\ UNCHANGED <<originals, thumbs, vectors, stored>>

-----------------------------------------------------------------------------
Fault == faults < MaxFaults /\ faults' = faults + 1

(* A call that fails or stops half way may have put the vector of r into   *)
(* RocksDB and not into the graph.                                         *)
HalfInserted(r) ==
    \/ UNCHANGED <<stored, excused>>
    \/ /\ stored' = [stored EXCEPT ![r.key] = VectorOf(r)]
       /\ excused' = excused \cup {r.key}

(* A call fails whose failure ends the request, the client goes away or    *)
(* the process is killed.                                                  *)
BreakOff(c) ==
    /\ Working(c) /\ Fault
    /\ jobs' = [jobs EXCEPT ![c] = NoJob]
    /\ unsure' = unsure \cup KeysOf(jobs[c])
    /\ IF Inserting(c) THEN HalfInserted(jobs[c]) ELSE UNCHANGED <<stored, excused>>
    /\ UNCHANGED <<originals, thumbs, metas, vectors, keysMade, jobsAsked>>

(* An upload whose vector is not inserted is stored all the same. *)
InsertFails(c) ==
    LET r == jobs[c]
    IN  /\ Doing(c, "insert") /\ r.op = "upload" /\ Fault
        /\ jobs' = [jobs EXCEPT ![c] = NoJob]
        /\ unsure' = unsure \cup Shared(r) \cup (IF r.clash THEN KeysOf(r) ELSE {})
        /\ HalfInserted(r)
        /\ UNCHANGED <<originals, thumbs, metas, vectors, keysMade, jobsAsked>>

(* A call fails whose failure is passed over; a duplicate whose metadata   *)
(* cannot be read keeps its thumbnails.                                    *)
PassOver(c) ==
    LET r == [jobs[c] EXCEPT !.clash = TRUE]
    IN  /\ Working(c) /\ Fault /\ UNCHANGED <<store, unsure, jobsAsked>>
        /\ excused' = IF Doing(c, "drop vector") THEN excused \cup {r.key} ELSE excused
        /\ \/ /\ UNCHANGED keysMade
              /\ \/ Doing(c, "drop vector") /\ r.op # "index" /\ Becomes(c, AfterVector(r))
                 \/ Doing(c, "drop vector") /\ r.op = "index" /\ Becomes(c, [r EXCEPT !.step = "mark"])
                 \/ Doing(c, "drop original") /\ Becomes(c, AfterOriginal(r))
                 \/ /\ Doing(c, "read meta") /\ r.op = "upload"
                    /\ Becomes(c, [r EXCEPT !.step = "drop meta", !.thumbsLeft = {}])
                 \/ /\ Doing(c, "drop thumbnails")
                    /\ \E s \in r.thumbsLeft : Becomes(c, AfterThumbnail(r, s))
                 \/ Doing(c, "drop meta") /\ r.todo # {} /\ \E n \in NextVictims(r) : Becomes(c, n)
           \/ Doing(c, "drop meta") /\ r.op = "upload" /\ r.todo = {} /\ Named(c, r)

(* delete_embedding answers success although RocksDB has kept the vector.  *)
KeptStored(c) ==
    LET r == [jobs[c] EXCEPT !.clash = TRUE]
    IN  /\ Doing(c, "drop vector") /\ Fault
        /\ vectors' = [vectors EXCEPT ![r.key] = None]
        /\ Becomes(c, AfterVector(r))
        /\ excused' = excused \cup {r.key}
        /\ UNCHANGED <<originals, thumbs, metas, stored, keysMade, unsure, jobsAsked>>

(* rebuild_index, or a start whose files of the graph cannot be read. *)
Rebuilt ==
    /\ vectors' = stored
    /\ UNCHANGED <<originals, thumbs, metas, stored, jobs, keysMade, unsure, excused,
                   jobsAsked, faults>>

-----------------------------------------------------------------------------
ImageRequests(c) ==
    \E b \in Buckets :
        \/ \E k \in ImageKeys \cup {None}, p \in Pictures, m \in Models :
              \/ \E action \in {"overwrite", "new", "skip"} : UploadImage(c, b, k, p, m, action)
              \/ UploadImageStream(c, b, k, p, m)
        \/ \E k \in keysMade, m \in Models, index \in IndexNames : IndexImage(c, b, k, m, index)
        \/ \E k \in keysMade : UpdateImageMetadata(c, b, k) \/ DeleteImage(c, b, k)

ImageSteps(c) ==
    \/ CheckDuplicates(c) \/ PutOriginal(c) \/ PutThumbnail(c) \/ PutMetadata(c)
    \/ InsertVector(c) \/ RefuseVector(c) \/ InsertElsewhere(c) \/ MarkIndexed(c)
    \/ ReadMetadata(c) \/ ReadOriginal(c) \/ SaveMetadata(c)
    \/ DropVector(c) \/ DropOriginal(c) \/ DropThumbnail(c) \/ DropMetadata(c)

ImageFaults(c) == BreakOff(c) \/ PassOver(c) \/ InsertFails(c) \/ KeptStored(c)

ImageNext ==
    \/ \E c \in Clients : ImageRequests(c) \/ ImageSteps(c) \/ ImageFaults(c)
    \/ Rebuilt

ImageSpec == ImageInit /\ [][ImageNext]_imageVars

-----------------------------------------------------------------------------
(* A key that no request is at and that was not made unsure since it was   *)
(* last deleted.                                                           *)
Sure(k) == k \notin unsure /\ \A c \in Clients : Working(c) => k \notin KeysOf(jobs[c])

(* ImageWhole.  An image of such a key is listed exactly if its bytes can  *)
(* be got; its thumbnails are of the same picture, and are gone with it;   *)
(* if it says that it is indexed, a search by its own picture and the      *)
(* model it names finds it, before and after a rebuild; and neither the    *)
(* graph nor RocksDB has a vector without an image.                        *)
ImageWhole ==
    \A k \in {l \in ImageKeys : Sure(l)} :
        /\ \A b \in Buckets :
              /\ k \in ListImages(b) <=> GetImage(b, k) # None
              /\ thumbs[b][k] = Whole(GetImage(b, k))
              /\ \A s \in Sizes : GetThumbnail(b, k, s) = GetImage(b, k)
              /\ k \in ListImages(b) /\ metas[b][k].indexed =>
                    LET own == [pic |-> GetImage(b, k), model |-> metas[b][k].model]
                    IN  k \in SearchSimilarImages(b, own) /\ k \in ClassifyObjects(b)
        /\ vectors[k] # None \/ stored[k] # None => \E b \in Buckets : k \in ListImages(b)

(* NoDuplicates.  A picture is indexed twice with one model only if the    *)
(* client chose "new", two uploads of it overlapped, index_image was       *)
(* called, which does not look for duplicates, a vector could not be       *)
(* deleted and the request went on, or a vector came into RocksDB that the *)
(* graph had refused or not taken.  The last needs no failure: with p1     *)
(* indexed as k1, an upload of p2 as k1 is refused by the graph and leaves *)
(* p2's vector in RocksDB, an upload of p2 without a key finds no          *)
(* duplicate and indexes it as k2, and after a rebuild both have it.       *)
NoDuplicates ==
    \A k, l \in ImageKeys \ excused : k # l /\ vectors[k] # None => vectors[k] # vectors[l]

(* IndexedFound (gRPC_API.md:1432, is_indexed: a vector index is there).   *)
(* Refuted by index_image with another index_name, which says nothing of   *)
(* "image", and by an upload with "overwrite" into one bucket that finds   *)
(* its duplicate in another: the vector is deleted, the image stays there  *)
(* and still says that it is indexed.                                      *)
IndexedFound ==
    (\A c \in Clients : ~Working(c)) /\ faults = 0 =>
        \A b \in Buckets, k \in ImageKeys :
            k \in ListImages(b) /\ metas[b][k].indexed => vectors[k] # None
=============================================================================
