---------------------------- MODULE FaceClasses ----------------------------
(***************************************************************************)
(* Faces and face classes (laoflchdb_face_service/src/lib.rs).  A face has *)
(* a vector in the embedding index "face" and perhaps a picture in the     *)
(* bucket "faces"; a class has a document in the text index "face_class",  *)
(* with the keys of its faces, and its medoid, the vector of the face      *)
(* nearest to all others, in the embedding index "face_class".  Every      *)
(* change of a class replaces the medoid (delete, insert) and then the     *)
(* document (delete, add): four calls, between which the service holds     *)
(* nothing, a request may break off and others read and write.  The tags   *)
(* of classes are in the module Tags.                                      *)
(*                                                                         *)
(* Vectors are numbers, their distance is the distance of the numbers, and *)
(* two are of the same face when they are equal (face_duplicate_distance). *)
(***************************************************************************)
EXTENDS Integers, FiniteSets, SequencesExt, FiniteSetsExt, Subsequences

CONSTANTS
    FaceClients,   \* the clients of the face service
    FaceIds,       \* ids of faces (generate_face_key gives each once)
    Vectors,       \* feature vectors
    ClassIds,      \* ids of classes (generate_face_key)
    Nil,           \* no vector, no document
    MaxCalls,      \* bound on the requests made
    MaxBreaks      \* bound on failures and broken requests

ClassDocuments ==
    [keys : Seq(FaceIds), key : FaceIds \cup {Nil}, medoid : Vectors \cup {Nil}]

ASSUME FaceAssumption ==
    /\ Vectors \subseteq Nat
    /\ Nil \notin Vectors /\ Nil \notin FaceIds /\ Nil \notin ClassIds
    /\ Nil \notin ClassDocuments
    /\ MaxCalls \in Nat /\ MaxBreaks \in Nat

VARIABLES
    faces,      \* index "face": faces[f] is the vector of f, or Nil
    shots,      \* the faces with a picture in the bucket "faces"
    idsUsed,    \* the ids of faces and classes handed out
    medoids,    \* index "face_class": the medoid of a class, or Nil
    documents,  \* the document of a class: [keys, key, medoid], or Nil
    calls,      \* calls[c]: the request of c
    doubtful,   \* history: classes of which requests overlapped or broke off
                \* since they were last written as a whole
    repeated,   \* history: faces indexed by overlapping requests, or after
                \* the search for them failed
    unseen,     \* history: faces whose picture was not asked for or not saved
    callsMade,  \* requests made so far
    breaks      \* failures so far

faceVars == <<faces, shots, idsUsed, medoids, documents, calls, doubtful, repeated, unseen,
              callsMade, breaks>>

NoCall == [op |-> "none"]
Calling(c) == calls[c] # NoCall

-----------------------------------------------------------------------------
Distance(v, w) == IF v < w THEN w - v ELSE v - w

(* The keys that have a vector, in their order. *)
Known(keys, vs) == AtPlaces(keys, {i \in DOMAIN keys : vs[keys[i]] # Nil})

(* The distances of the i-th vector to the others: as many pairs as they    *)
(* add up to.                                                              *)
Distances(values, i) ==
    UNION {{j} \X (1 .. Distance(values[i], values[j])) : j \in DOMAIN values}

(* The first key whose distances to the others add up to the least.        *)
(* The code compares averages over one number of others.                   *)
MedoidPlace(values) ==
    Min({i \in DOMAIN values : \A j \in DOMAIN values :
            Cardinality(Distances(values, i)) <= Cardinality(Distances(values, j))})
MedoidKey(keys, vs) == keys[MedoidPlace([i \in DOMAIN keys |-> vs[keys[i]]])]

Document(keys, vs) ==
    LET key == MedoidKey(Known(keys, vs), vs)
    IN  [keys |-> keys, key |-> key, medoid |-> vs[key]]

EmptyDocument == [keys |-> <<>>, key |-> Nil, medoid |-> Nil]

FaceInit ==
    /\ faces \in [FaceIds -> Vectors \cup {Nil}]
    /\ \A f, g \in FaceIds : f # g /\ faces[f] # Nil => faces[f] # faces[g]
    /\ shots = {f \in FaceIds : faces[f] # Nil}
    /\ medoids = [k \in ClassIds |-> Nil] /\ documents = [k \in ClassIds |-> Nil]
    /\ idsUsed = shots
    /\ calls = [c \in FaceClients |-> NoCall]
    /\ doubtful = {} /\ repeated = {} /\ unseen = {} /\ callsMade = 0 /\ breaks = 0

-----------------------------------------------------------------------------
(* A request about class k or about the face vector v.                     *)
Call(op, k, step) ==
    [op |-> op, class |-> k, face |-> Nil, vector |-> Nil, keys |-> <<>>, new |-> Nil,
     save |-> FALSE, index |-> FALSE, step |-> step, clash |-> FALSE]

Clash(q, r) == \/ q.class # Nil /\ q.class = r.class
               \/ q.vector # Nil /\ q.vector = r.vector

Asking(c, r) ==
    /\ ~Calling(c) /\ callsMade < MaxCalls /\ callsMade' = callsMade + 1
    /\ LET others == {d \in FaceClients : Calling(d) /\ Clash(calls[d], r)}
       IN  calls' = [d \in FaceClients |->
                        IF d = c THEN [r EXCEPT !.clash = others # {}]
                        ELSE IF d \in others THEN [calls[d] EXCEPT !.clash = TRUE]
                        ELSE calls[d]]
    /\ UNCHANGED <<faces, shots, medoids, documents, doubtful, repeated, unseen, breaks>>

(* extract_face_features, for one face of the picture. *)
ExtractFace(c, v, save, index) ==
    /\ save \/ index
    /\ Asking(c, [Call("extract", Nil, "search") EXCEPT !.vector = v, !.save = save, !.index = index])
    /\ UNCHANGED idsUsed

(* create_face_class: a class without faces, or of two or more keys, of    *)
(* which nobody checks that they differ.                                   *)
CreateFaceClass(c, k, keys) ==
    /\ k \notin idsUsed /\ Len(keys) # 1
    /\ idsUsed' = idsUsed \cup {k}
    /\ Asking(c, [Call("create", k, IF keys = <<>> THEN "add" ELSE "vectors")
                    EXCEPT !.keys = keys, !.new = EmptyDocument])

SaveFaceToClass(c, k, f) ==
    Asking(c, [Call("save", k, "read") EXCEPT !.face = f]) /\ UNCHANGED idsUsed
RemoveFaceFromClass(c, k, f) ==
    Asking(c, [Call("remove", k, "read") EXCEPT !.face = f]) /\ UNCHANGED idsUsed
RecomputeFaceClassMedoid(c, k) == Asking(c, Call("recompute", k, "read")) /\ UNCHANGED idsUsed
DeleteFaceClass(c, k) == Asking(c, Call("delete", k, "drop medoid")) /\ UNCHANGED idsUsed

(* Somebody deletes the vector of a face in the embedding service. *)
ForgetFace(f) ==
    /\ faces[f] # Nil /\ breaks < MaxBreaks /\ breaks' = breaks + 1
    /\ faces' = [faces EXCEPT ![f] = Nil]
    /\ UNCHANGED <<shots, idsUsed, medoids, documents, calls, doubtful, repeated, unseen, callsMade>>

-----------------------------------------------------------------------------
OnTo(c, r) == calls' = [calls EXCEPT ![c] = r] /\ UNCHANGED <<doubtful, callsMade, breaks>>

(* The request ends: refused before it wrote anything, or having written   *)
(* the class as a whole.                                                   *)
Answered(c, whole) ==
    LET r == calls[c]  k == {r.class} \ {Nil}
    IN  /\ calls' = [calls EXCEPT ![c] = NoCall]
        /\ doubtful' = IF r.clash THEN doubtful \cup k
                       ELSE IF whole THEN doubtful \ k ELSE doubtful
        /\ UNCHANGED <<callsMade, breaks>>

Step(c, step) == Calling(c) /\ calls[c].step = step
SameFaces == UNCHANGED <<faces, shots, idsUsed, repeated, unseen>>
SameClasses == UNCHANGED <<medoids, documents>>

(* The request is refused: the face is in the class already, is not in it, *)
(* or removing it would leave none.                                        *)
Refused(keys, r) ==
    \/ r.op = "save" /\ Contains(keys, r.face)
    \/ r.op = "remove" /\ (~Contains(keys, r.face) \/ Range(keys) = {r.face})

(* The keys the class is to have. *)
NewKeys(keys, r) ==
    CASE r.op = "save" -> Append(keys, r.face)
      [] r.op = "remove" -> AtPlaces(keys, {i \in DOMAIN keys : keys[i] # r.face})
      [] r.op = "recompute" -> keys

ReadClass(c) ==
    LET r == calls[c]  doc == documents[r.class]
    IN  /\ Step(c, "read") /\ SameFaces /\ SameClasses
        /\ IF doc = Nil \/ Refused(doc.keys, r) THEN Answered(c, FALSE)
           ELSE OnTo(c, [r EXCEPT !.keys = NewKeys(doc.keys, r), !.step = "vectors"])

(* list_embeddings: the vectors as they are now.  A new class takes only   *)
(* the keys that have one and needs two, others need one.                  *)
ListVectors(c) ==
    LET r == calls[c]  known == Known(r.keys, faces)
        few == Len(known) < IF r.op = "create" THEN 2 ELSE 1
        keys == IF r.op = "create" THEN known ELSE r.keys
    IN  /\ Step(c, "vectors") /\ SameFaces /\ SameClasses
        /\ IF few THEN Answered(c, FALSE)
           ELSE OnTo(c, [r EXCEPT !.new = Document(keys, faces),
                                  !.step = IF r.op = "create" THEN "insert" ELSE "drop medoid"])

(* As if the old medoid were taken for replaced once it is deleted. *)
AfterDropMedoidNothing(r) == "drop"

(* The new medoid goes in before the document is replaced. *)
AfterDropMedoid(r) == IF r.op = "delete" THEN "drop" ELSE "insert"

DropMedoid(c) ==
    LET r == calls[c]
    IN  /\ Step(c, "drop medoid") /\ SameFaces
        /\ medoids' = [medoids EXCEPT ![r.class] = Nil]
        /\ OnTo(c, [r EXCEPT !.step = AfterDropMedoid(r)])
        /\ UNCHANGED documents

(* An id that has a medoid is refused. *)
InsertMedoid(c) ==
    LET r == calls[c]
    IN  /\ Step(c, "insert") /\ SameFaces /\ UNCHANGED documents
        /\ IF medoids[r.class] # Nil THEN UNCHANGED medoids /\ Answered(c, FALSE)
           ELSE /\ medoids' = [medoids EXCEPT ![r.class] = r.new.medoid]
                /\ OnTo(c, [r EXCEPT !.step = IF r.op = "create" THEN "add" ELSE "drop"])

DropDocument(c) ==
    LET r == calls[c]
    IN  /\ Step(c, "drop") /\ SameFaces /\ UNCHANGED medoids
        /\ documents' = [documents EXCEPT ![r.class] = Nil]
        /\ IF r.op = "delete" THEN Answered(c, TRUE) ELSE OnTo(c, [r EXCEPT !.step = "add"])

(* add_document refuses an id that is there. *)
AddClassDocument(c) ==
    LET r == calls[c]
    IN  /\ Step(c, "add") /\ SameFaces /\ UNCHANGED medoids
        /\ IF documents[r.class] # Nil THEN UNCHANGED documents /\ Answered(c, FALSE)
           ELSE documents' = [documents EXCEPT ![r.class] = r.new] /\ Answered(c, TRUE)

-----------------------------------------------------------------------------
(* extract_face_features. *)

(* As if faces were not looked for. *)
SameFaceNever(v) == {}

(* search_face_embedding: the nearest face, if it is the same. *)
SameFace(v) == {f \in FaceIds : faces[f] = v}

(* A face that is known already is neither saved nor indexed. *)
SearchFace(c) ==
    LET r == calls[c]
    IN  /\ Step(c, "search") /\ SameClasses /\ UNCHANGED <<faces, shots, repeated, unseen>>
        /\ IF SameFace(r.vector) # {} THEN UNCHANGED idsUsed /\ Answered(c, TRUE)
           ELSE \E f \in FaceIds \ idsUsed :
                   /\ idsUsed' = idsUsed \cup {f}
                   /\ OnTo(c, [r EXCEPT !.face = f, !.step = IF r.save THEN "save" ELSE "index"])

(* The picture goes first; without one the face is indexed all the same.   *)
SaveAligned(c) ==
    LET r == calls[c]
    IN  /\ Step(c, "save") /\ SameClasses /\ UNCHANGED <<faces, idsUsed, repeated, unseen>>
        /\ shots' = shots \cup {r.face}
        /\ IF r.index THEN OnTo(c, [r EXCEPT !.step = "index"]) ELSE Answered(c, TRUE)

IndexFace(c) ==
    LET r == calls[c]
    IN  /\ Step(c, "index") /\ SameClasses /\ UNCHANGED <<shots, idsUsed>>
        /\ faces' = [faces EXCEPT ![r.face] = r.vector]
        /\ repeated' = IF r.clash THEN repeated \cup {r.face} ELSE repeated
        /\ unseen' = IF r.save THEN unseen ELSE unseen \cup {r.face}
        /\ Answered(c, TRUE)

-----------------------------------------------------------------------------
Broken == breaks < MaxBreaks /\ breaks' = breaks + 1 /\ UNCHANGED callsMade

(* A call fails, the client goes away or the process is killed.            *)
GiveUp(c) ==
    /\ Calling(c) /\ Broken /\ SameFaces /\ SameClasses
    /\ calls' = [calls EXCEPT ![c] = NoCall]
    /\ doubtful' = doubtful \cup ({calls[c].class} \ {Nil})

(* A call fails and the request goes on: deleting the old document, which  *)
(* makes adding the new one fail; deleting a class, which notes the error; *)
(* saving the picture of a face; looking for it.                           *)
GoOn(c) ==
    LET r == [calls[c] EXCEPT !.clash = TRUE]
    IN  /\ Calling(c) /\ Broken /\ SameClasses /\ UNCHANGED <<faces, shots>>
        /\ \/ /\ r.step = "drop" /\ r.op # "delete"
              /\ calls' = [calls EXCEPT ![c] = [r EXCEPT !.step = "add"]]
              /\ UNCHANGED <<doubtful, idsUsed, repeated, unseen>>
           \/ /\ r.step = "drop medoid" /\ r.op = "delete"
              /\ calls' = [calls EXCEPT ![c] = [r EXCEPT !.step = "drop"]]
              /\ UNCHANGED <<doubtful, idsUsed, repeated, unseen>>
           \/ /\ r.step = "save"
              /\ calls' = [calls EXCEPT ![c] = IF r.index THEN [calls[c] EXCEPT !.step = "index"] ELSE NoCall]
              /\ unseen' = unseen \cup {r.face}
              /\ UNCHANGED <<doubtful, idsUsed, repeated>>
           \/ /\ r.step = "search"
              /\ \E f \in FaceIds \ idsUsed :
                    /\ idsUsed' = idsUsed \cup {f}
                    /\ calls' = [calls EXCEPT ![c] =
                          [r EXCEPT !.face = f, !.step = IF r.save THEN "save" ELSE "index"]]
              /\ UNCHANGED <<doubtful, repeated, unseen>>

-----------------------------------------------------------------------------
(* Clients name faces they were given. *)
GivenFaces == {f \in FaceIds \cap idsUsed :
                  \A d \in FaceClients : Calling(d) /\ calls[d].op = "extract" => calls[d].face # f}

FaceRequests(c) ==
    \/ \E v \in Vectors, save, index \in BOOLEAN : ExtractFace(c, v, save, index)
    \/ \E k \in ClassIds :
          \/ \E n \in {0, 2, 3} : \E keys \in [1 .. n -> GivenFaces] :
                CreateFaceClass(c, k, keys)
          \/ \E f \in GivenFaces : SaveFaceToClass(c, k, f) \/ RemoveFaceFromClass(c, k, f)
          \/ RecomputeFaceClassMedoid(c, k) \/ DeleteFaceClass(c, k)

FaceSteps(c) ==
    \/ ReadClass(c) \/ ListVectors(c) \/ DropMedoid(c) \/ InsertMedoid(c)
    \/ DropDocument(c) \/ AddClassDocument(c)
    \/ SearchFace(c) \/ SaveAligned(c) \/ IndexFace(c)

FaceNext ==
    \/ \E c \in FaceClients : FaceRequests(c) \/ FaceSteps(c) \/ GiveUp(c) \/ GoOn(c)
    \/ \E f \in FaceIds : ForgetFace(f)

FaceSpec == FaceInit /\ [][FaceNext]_faceVars

-----------------------------------------------------------------------------
Undisturbed(k) ==
    /\ k \notin doubtful
    /\ \A c \in FaceClients : Calling(c) => calls[c].class # k

(* ClassWhole.  A class of which no two requests overlapped and none broke *)
(* off, or one was carried through since: its document and its medoid are  *)
(* there together, unless it has no faces; the medoid in the index is the  *)
(* one the document names, of one of the keys; and while all keys have     *)
(* vectors, it is the vector nearest to the others.  A face named twice in *)
(* create_face_class is listed, counted and measured twice: see KeysOnce.  *)
ClassWhole ==
    \A k \in {l \in ClassIds : Undisturbed(l)} :
        LET doc == documents[k]
        IN  /\ doc = Nil => medoids[k] = Nil
            /\ doc # Nil =>
                  /\ medoids[k] = doc.medoid /\ (doc.keys = <<>> <=> doc.medoid = Nil)
                  /\ doc.keys # <<>> => Contains(doc.keys, doc.key)
                  /\ doc.keys # <<>> /\ (\A f \in Range(doc.keys) : faces[f] # Nil) =>
                        faces[MedoidKey(doc.keys, faces)] = doc.medoid

(* Not so, however quiet the class: a class lists each of its faces once.  *)
(* save_face_to_class refuses a face the class has (2073-2080), but        *)
(* create_face_class takes its keys as they come (1657, 1698-1704).        *)
KeysOnce ==
    \A k \in {l \in ClassIds : Undisturbed(l)} :
        documents[k] # Nil => IsInjective(documents[k].keys)

(* FacesOnce.  Two faces are indexed with one vector only if the requests  *)
(* overlapped or a search failed, and each face indexed by a request that  *)
(* saves pictures has its picture, unless saving it failed.                *)
FacesOnce ==
    /\ \A f, g \in FaceIds \ repeated : f # g /\ faces[f] # Nil => faces[f] # faces[g]
    /\ \A f \in FaceIds \ unseen : faces[f] # Nil => f \in shots
=============================================================================
