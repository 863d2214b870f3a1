---------------------------- MODULE Media_proofs ----------------------------
(***************************************************************************)
(* Proofs about the media services, for any clients, keys, pictures,       *)
(* vectors and bounds: extractions that did not meet index a face once,    *)
(* a class that nobody disturbed has its document and its medoid together, *)
(* an image that nothing made doubtful is listed, kept and found as a      *)
(* whole, and an upload that overwrites or skips indexes a picture once.   *)
(***************************************************************************)
EXTENDS ImageStore, FaceClasses, FiniteSetTheorems, WellFoundedInduction, TLAPS

--------------------------------------------------------------------------------
(* Faces.                                                                   *)

CallFields ==
  {"op", "class", "face", "vector", "keys", "new", "save", "index", "step", "clash"}
Extracting(r) == r.op = "extract"
Chosen(r) == Extracting(r) /\ r.step \in {"save", "index"}

\* An extraction has chosen its face once it saves or indexes it, and has its
\* picture, or a reason for none, when it indexes it.
CallOK(r) ==
  /\ r = [x \in CallFields |-> r[x]]
  /\ Extracting(r) => r.vector \in Vectors
  /\ ~Extracting(r) => r.vector = Nil
  /\ Extracting(r) <=> r.step \in {"search", "save", "index"}
  /\ Chosen(r) => r.face \in FaceIds /\ r.face \in idsUsed /\ faces[r.face] = Nil
  /\ Chosen(r) /\ r.step = "index" /\ r.save => r.face \in shots \cup unseen

\* Nobody has a face of the vector an extraction is about to index, unless it met
\* another, and two that meet both know.
FaceInv ==
  /\ faces \in [FaceIds -> Vectors \cup {Nil}]
  /\ DOMAIN calls = FaceClients /\ calls = [c \in FaceClients |-> calls[c]]
  /\ \A f \in FaceIds : faces[f] # Nil => f \in idsUsed
  /\ \A c \in FaceClients : Calling(c) =>
        /\ CallOK(calls[c])
        /\ Chosen(calls[c]) /\ ~calls[c].clash =>
              \A f \in FaceIds : faces[f] # calls[c].vector
  /\ \A c, d \in FaceClients : c # d /\ Calling(c) /\ Calling(d) =>
        /\ Chosen(calls[c]) /\ Chosen(calls[d]) => calls[c].face # calls[d].face
        /\ Extracting(calls[c]) /\ Extracting(calls[d]) /\ calls[c].vector = calls[d].vector =>
              calls[c].clash
  /\ FacesOnce

LEMMA FaceInitInv == FaceInit => FaceInv
  <1> SUFFICES ASSUME FaceInit PROVE FaceInv
    OBVIOUS
  <1>1. /\ faces \in [FaceIds -> Vectors \cup {Nil}]
        /\ \A f, g \in FaceIds : f # g /\ faces[f] # Nil => faces[f] # faces[g]
        /\ shots = {f \in FaceIds : faces[f] # Nil} /\ idsUsed = shots
        /\ calls = [c \in FaceClients |-> NoCall] /\ unseen = {}
    BY DEF FaceInit
  <1>2. FacesOnce
    BY <1>1 DEF FacesOnce
  <1>3. \A c \in FaceClients : ~Calling(c)
    BY <1>1 DEF Calling
  <1> QED
    BY <1>1, <1>2, <1>3 DEF FaceInv

\* A step of one call that is not about an indexed face.
OnItsOwn(c) ==
  /\ faces' = faces /\ repeated \subseteq repeated' /\ unseen \subseteq unseen'
  /\ shots \subseteq shots' /\ idsUsed \subseteq idsUsed'

\* The call goes on, or ends, and the others stay as they are.
LEMMA CallEnds ==
  ASSUME FaceInv, NEW c \in FaceClients, Calling(c), OnItsOwn(c),
         calls' = [calls EXCEPT ![c] = NoCall]
  PROVE  FaceInv'
  <1>1. \A d \in FaceClients : calls'[d] = IF d = c THEN NoCall ELSE calls[d]
    BY DEF FaceInv
  <1>2. \A d \in FaceClients : Calling(d)' => d # c /\ Calling(d) /\ calls'[d] = calls[d]
    BY <1>1 DEF Calling
  <1>3. FacesOnce'
    BY DEF FaceInv, FacesOnce, OnItsOwn
  <1>4. \A d \in FaceClients : Calling(d) /\ d # c => CallOK(calls[d])'
    BY <1>1 DEF FaceInv, CallOK, Chosen, Extracting, OnItsOwn
  <1> QED
    BY <1>1, <1>2, <1>3, <1>4 DEF FaceInv, OnItsOwn, Chosen, Extracting

LEMMA CallGoesOn ==
  ASSUME FaceInv, NEW c \in FaceClients, Calling(c), OnItsOwn(c),
         NEW r, calls' = [calls EXCEPT ![c] = r],
         CallOK(r)', Extracting(r) <=> Extracting(calls[c]), r.vector = calls[c].vector,
         calls[c].clash => r.clash,
         Chosen(r) => /\ ~r.clash => \A f \in FaceIds : faces[f] # r.vector
                      /\ \A d \in FaceClients \ {c} :
                           Calling(d) /\ Chosen(calls[d]) => calls[d].face # r.face
  PROVE  FaceInv'
  <1>1. \A d \in FaceClients : calls'[d] = IF d = c THEN r ELSE calls[d]
    BY DEF FaceInv
  <1>2. \A d \in FaceClients : d # c /\ Calling(d)' => Calling(d) /\ calls'[d] = calls[d]
    BY <1>1 DEF Calling
  <1>3. FacesOnce'
    BY DEF FaceInv, FacesOnce, OnItsOwn
  <1>4. \A d \in FaceClients : Calling(d) /\ d # c => CallOK(calls[d])'
    BY <1>1 DEF FaceInv, CallOK, Chosen, Extracting, OnItsOwn
  <1>5. \A d \in FaceClients : Calling(d)' =>
          /\ CallOK(calls[d])'
          /\ (Chosen(calls[d]) /\ ~calls[d].clash =>
                \A f \in FaceIds : faces[f] # calls[d].vector)'
    BY <1>1, <1>2, <1>4 DEF FaceInv, OnItsOwn, Chosen, Extracting
  <1>6. \A d, e \in FaceClients : d # e /\ Calling(d)' /\ Calling(e)' =>
          /\ Chosen(calls'[d]) /\ Chosen(calls'[e]) => calls'[d].face # calls'[e].face
          /\ Extracting(calls'[d]) /\ Extracting(calls'[e])
             /\ calls'[d].vector = calls'[e].vector => calls'[d].clash
    BY <1>1, <1>2 DEF FaceInv
  <1> QED
    BY <1>1, <1>3, <1>5, <1>6 DEF FaceInv, OnItsOwn, Chosen, Extracting

LEMMA AskingInv ==
  ASSUME FaceInv, NEW c \in FaceClients, NEW r, Asking(c, r), CallOK(r),
         ~Chosen(r), idsUsed \subseteq idsUsed'
  PROVE  FaceInv'
  <1> PICK others : others = {d \in FaceClients : Calling(d) /\ Clash(calls[d], r)}
    OBVIOUS
  <1> PICK q : q = [r EXCEPT !.clash = others # {}]
    OBVIOUS
  <1>1. /\ calls' = [d \in FaceClients |-> IF d = c THEN q
                                           ELSE IF d \in others THEN [calls[d] EXCEPT !.clash = TRUE]
                                           ELSE calls[d]]
        /\ UNCHANGED <<faces, shots, repeated, unseen>> /\ ~Calling(c)
    BY DEF Asking
  <1>2. /\ \A x \in CallFields \ {"clash"} : q[x] = r[x]
        /\ q = [x \in CallFields |-> q[x]] /\ q.clash = (others # {})
    BY DEF CallOK, CallFields
  <1>3. ~Chosen(q) /\ (Extracting(q) <=> Extracting(r)) /\ q.vector = r.vector
    BY <1>2 DEF Chosen, Extracting, CallFields
  <1>4. CallOK(q)'
    BY <1>1, <1>2, <1>3 DEF CallOK, Chosen, Extracting, CallFields
  <1>5. \A d \in FaceClients \ {c} : Calling(d)' => Calling(d)
    BY <1>1 DEF Calling
  <1>6. ASSUME NEW d \in FaceClients \ {c}, Calling(d)
        PROVE  /\ \A x \in CallFields \ {"clash"} : calls'[d][x] = calls[d][x]
               /\ calls'[d] = [x \in CallFields |-> calls'[d][x]]
               /\ calls[d].clash \/ d \in others => calls'[d].clash
    <2>1. calls[d] = [x \in CallFields |-> calls[d][x]] /\ "clash" \in CallFields
      BY <1>6 DEF FaceInv, CallOK, CallFields
    <2>2. CASE d \in others
      <3>1. calls'[d] = [calls[d] EXCEPT !.clash = TRUE]
        BY <1>1, <2>2
      <3> PICK u, v : u = calls[d] /\ v = calls'[d]
        OBVIOUS
      <3>2. /\ v = [x \in CallFields |-> v[x]] /\ \A x \in CallFields \ {"clash"} : v[x] = u[x]
            /\ v.clash = TRUE
        BY <2>1, <3>1
      <3> QED
        BY <3>2
    <2>3. CASE d \notin others
      BY <1>1, <2>1, <2>3
    <2> QED
      BY <2>2, <2>3
  <1>7. ASSUME NEW d \in FaceClients \ {c}, Calling(d)
        PROVE  /\ Chosen(calls'[d]) <=> Chosen(calls[d])
               /\ Extracting(calls'[d]) <=> Extracting(calls[d])
               /\ calls'[d].vector = calls[d].vector /\ calls'[d].face = calls[d].face
               /\ CallOK(calls[d])'
    <2>1. {"op", "step", "vector", "face", "save"} \subseteq CallFields \ {"clash"}
      BY DEF CallFields
    <2> PICK u, v : u = calls[d] /\ v = calls'[d]
      OBVIOUS
    <2>2. \A x \in {"op", "step", "vector", "face", "save"} : v[x] = u[x]
      BY <1>6, <1>7, <2>1
    <2>3. v = [x \in CallFields |-> v[x]] /\ CallOK(u)
      BY <1>6, <1>7 DEF FaceInv
    <2>4. (Chosen(v) <=> Chosen(u)) /\ (Extracting(v) <=> Extracting(u))
      BY <2>2 DEF Chosen, Extracting
    <2>5. v.vector = u.vector /\ v.face = u.face /\ CallOK(v)'
      BY <1>1, <2>2, <2>3, <2>4 DEF CallOK, Chosen, Extracting
    <2>6. CallOK(calls[d])'
      BY <2>5 DEF CallOK, Chosen, Extracting
    <2> QED
      BY <2>4, <2>5, <2>6
  <1>8. \A d \in FaceClients \ {c} : Calling(d) => (Clash(calls[d], r) => d \in others)
    OBVIOUS
  <1>9. calls'[c] = q /\ \A d \in others : d \in FaceClients \ {c} /\ Calling(d)
    BY <1>1
  <1>10. calls' = [d \in FaceClients |-> calls'[d]]
    BY <1>1
  <1>11. \A d \in FaceClients \ {c} : Calling(d) /\ Extracting(r) /\ Extracting(calls[d])
             /\ calls[d].vector = r.vector => d \in others
    BY <1>8, FaceAssumption DEF Clash, FaceInv, CallOK
  <1>12. \A d \in FaceClients : Calling(d)' =>
          /\ CallOK(calls[d])'
          /\ (Chosen(calls[d]) /\ ~calls[d].clash =>
                \A f \in FaceIds : faces[f] # calls[d].vector)'
    <2> SUFFICES ASSUME NEW d \in FaceClients, Calling(d)'
                 PROVE  /\ CallOK(calls[d])'
                        /\ Chosen(calls'[d]) /\ ~calls'[d].clash =>
                              \A f \in FaceIds : faces[f] # calls'[d].vector
      BY <1>1 DEF Chosen, Extracting
    <2>1. CASE d = c
      <3>1. CallOK(calls[d])'
        BY <1>4, <1>9, <2>1 DEF CallOK, Chosen, Extracting
      <3> QED
        BY <1>3, <1>9, <2>1, <3>1
    <2>2. CASE d # c
      <3>1. Calling(d) /\ d \in FaceClients \ {c}
        BY <1>5, <2>2
      <3>2. calls[d].clash => calls'[d].clash
        BY <1>6, <3>1
      <3>3. /\ Chosen(calls'[d]) <=> Chosen(calls[d])
            /\ calls'[d].vector = calls[d].vector /\ CallOK(calls[d])'
        BY <1>7, <3>1
      <3>4. Chosen(calls[d]) /\ ~calls[d].clash => \A f \in FaceIds : faces[f] # calls[d].vector
        BY <3>1 DEF FaceInv
      <3> QED
        BY <3>2, <3>3, <3>4
    <2> QED
      BY <2>1, <2>2
  <1>a. ASSUME NEW d \in FaceClients \ {c}, Calling(d),
               Extracting(q), Extracting(calls[d]), calls[d].vector = q.vector
        PROVE  q.clash /\ calls'[d].clash
    <2>1. d \in others
      BY <1>3, <1>11, <1>a
    <2> QED
      BY <1>2, <1>6, <1>a, <2>1
  <1>13. \A d, e \in FaceClients : d # e /\ Calling(d)' /\ Calling(e)' =>
          /\ Chosen(calls'[d]) /\ Chosen(calls'[e]) => calls'[d].face # calls'[e].face
          /\ Extracting(calls'[d]) /\ Extracting(calls'[e])
             /\ calls'[d].vector = calls'[e].vector => calls'[d].clash
    <2> SUFFICES ASSUME NEW d \in FaceClients, NEW e \in FaceClients, d # e,
                        Calling(d)', Calling(e)'
                 PROVE  /\ Chosen(calls'[d]) /\ Chosen(calls'[e]) => calls'[d].face # calls'[e].face
                        /\ Extracting(calls'[d]) /\ Extracting(calls'[e])
                           /\ calls'[d].vector = calls'[e].vector => calls'[d].clash
      OBVIOUS
    <2>1. CASE d = c
      BY <1>3, <1>5, <1>7, <1>9, <1>a, <2>1
    <2>2. CASE e = c
      BY <1>3, <1>5, <1>7, <1>9, <1>a, <2>2
    <2>3. CASE d # c /\ e # c
      <3>1. Calling(d) /\ d \in FaceClients \ {c} /\ Calling(e) /\ e \in FaceClients \ {c}
        BY <1>5, <2>3
      <3>2. calls[d].clash => calls'[d].clash
        BY <1>6, <3>1
      <3>3. /\ Chosen(calls[d]) /\ Chosen(calls[e]) => calls[d].face # calls[e].face
            /\ Extracting(calls[d]) /\ Extracting(calls[e])
               /\ calls[d].vector = calls[e].vector => calls[d].clash
        BY <3>1 DEF FaceInv
      <3>4. /\ Chosen(calls'[d]) <=> Chosen(calls[d])
            /\ Extracting(calls'[d]) <=> Extracting(calls[d])
            /\ calls'[d].vector = calls[d].vector /\ calls'[d].face = calls[d].face
        BY <1>7, <3>1
      <3>5. /\ Chosen(calls'[e]) <=> Chosen(calls[e])
            /\ Extracting(calls'[e]) <=> Extracting(calls[e])
            /\ calls'[e].vector = calls[e].vector /\ calls'[e].face = calls[e].face
        BY <1>7, <3>1
      <3> QED
        BY <3>2, <3>3, <3>4, <3>5
    <2> QED
      BY <2>1, <2>2, <2>3
  <1>14. FacesOnce'
    BY <1>1 DEF FaceInv, FacesOnce
  <1> QED
    BY <1>1, <1>10, <1>12, <1>13, <1>14 DEF FaceInv, Chosen, Extracting
LEMMA RequestsInv ==
  ASSUME FaceInv, NEW c \in FaceClients, FaceRequests(c)
  PROVE  FaceInv'
  <1> USE DEF CallOK, Chosen, Extracting, Call, CallFields
  <1>1. ASSUME NEW v \in Vectors, NEW save \in BOOLEAN, NEW index \in BOOLEAN,
               ExtractFace(c, v, save, index)
        PROVE  FaceInv'
    <2> PICK r : r = [Call("extract", Nil, "search") EXCEPT !.vector = v, !.save = save,
                                                           !.index = index]
      OBVIOUS
    <2>1. CallOK(r) /\ ~Chosen(r)
      OBVIOUS
    <2> QED
      BY <1>1, <2>1, AskingInv DEF ExtractFace
  <1>2. ASSUME NEW k \in ClassIds, NEW keys, CreateFaceClass(c, k, keys)
        PROVE  FaceInv'
    <2> PICK r : r = [Call("create", k, IF keys = <<>> THEN "add" ELSE "vectors")
                        EXCEPT !.keys = keys, !.new = EmptyDocument]
      OBVIOUS
    <2>1. CallOK(r) /\ ~Chosen(r)
      OBVIOUS
    <2> QED
      BY <1>2, <2>1, AskingInv DEF CreateFaceClass
  <1>3. ASSUME NEW k \in ClassIds, NEW f, SaveFaceToClass(c, k, f)
        PROVE  FaceInv'
    <2> PICK r : r = [Call("save", k, "read") EXCEPT !.face = f]
      OBVIOUS
    <2>1. CallOK(r) /\ ~Chosen(r)
      OBVIOUS
    <2> QED
      BY <1>3, <2>1, AskingInv DEF SaveFaceToClass
  <1>4. ASSUME NEW k \in ClassIds, NEW f, RemoveFaceFromClass(c, k, f)
        PROVE  FaceInv'
    <2> PICK r : r = [Call("remove", k, "read") EXCEPT !.face = f]
      OBVIOUS
    <2>1. CallOK(r) /\ ~Chosen(r)
      OBVIOUS
    <2> QED
      BY <1>4, <2>1, AskingInv DEF RemoveFaceFromClass
  <1>5. ASSUME NEW k \in ClassIds, RecomputeFaceClassMedoid(c, k)
        PROVE  FaceInv'
    <2> PICK r : r = Call("recompute", k, "read")
      OBVIOUS
    <2>1. CallOK(r) /\ ~Chosen(r)
      OBVIOUS
    <2> QED
      BY <1>5, <2>1, AskingInv DEF RecomputeFaceClassMedoid
  <1>6. ASSUME NEW k \in ClassIds, DeleteFaceClass(c, k)
        PROVE  FaceInv'
    <2> PICK r : r = Call("delete", k, "drop medoid")
      OBVIOUS
    <2>1. CallOK(r) /\ ~Chosen(r)
      OBVIOUS
    <2> QED
      BY <1>6, <2>1, AskingInv DEF DeleteFaceClass
  <1> QED
    BY <1>1, <1>2, <1>3, <1>4, <1>5, <1>6 DEF FaceRequests

\* A call about a class.
LEMMA ClassGoesOn ==
  ASSUME FaceInv, NEW c \in FaceClients, Calling(c), SameFaces,
         calls[c].step \notin {"search", "save", "index"},
         NEW r, calls' = [calls EXCEPT ![c] = r], r = [x \in CallFields |-> r[x]],
         r.op = calls[c].op, r.vector = calls[c].vector,
         r.step \notin {"search", "save", "index"}, calls[c].clash => r.clash
  PROVE  FaceInv'
  <1>1. CallOK(calls[c])
    BY DEF FaceInv
  <1>2. ~Extracting(r) /\ ~Extracting(calls[c]) /\ ~Chosen(r)
    BY <1>1 DEF CallOK, Extracting, Chosen
  <1>3. CallOK(r)'
    BY <1>1, <1>2 DEF CallOK, Extracting, Chosen
  <1>4. OnItsOwn(c)
    BY DEF OnItsOwn, SameFaces
  <1> QED
    BY <1>2, <1>3, <1>4, CallGoesOn

LEMMA ClassSteps ==
  ASSUME FaceInv, NEW c \in FaceClients,
         \/ ReadClass(c) \/ ListVectors(c) \/ DropMedoid(c) \/ InsertMedoid(c)
         \/ DropDocument(c) \/ AddClassDocument(c)
  PROVE  FaceInv'
  <1> PICK q : q = calls[c]
    OBVIOUS
  <1>1. Calling(c) /\ SameFaces /\ q.step \notin {"search", "save", "index"}
    BY DEF ReadClass, ListVectors, DropMedoid, InsertMedoid, DropDocument, AddClassDocument, Step
  <1>2. q = [x \in CallFields |-> q[x]]
    BY <1>1 DEF FaceInv, CallOK
  <1>3. CASE calls' = [calls EXCEPT ![c] = NoCall]
    BY <1>1, <1>3, CallEnds DEF OnItsOwn, SameFaces
  <1>4. ASSUME NEW r, calls' = [calls EXCEPT ![c] = r], r = [x \in CallFields |-> r[x]],
               r.op = q.op, r.vector = q.vector, r.clash = q.clash,
               r.step \in {"vectors", "drop medoid", "drop", "insert", "add"}
        PROVE  FaceInv'
    BY <1>1, <1>4, ClassGoesOn
  <1>5. CASE ReadClass(c)
    <2> PICK r : r = [q EXCEPT !.keys = NewKeys(documents[q.class].keys, q), !.step = "vectors"]
      OBVIOUS
    <2>1. /\ r = [x \in CallFields |-> r[x]] /\ r.op = q.op /\ r.vector = q.vector
          /\ r.clash = q.clash /\ r.step = "vectors"
      BY <1>2 DEF CallFields
    <2>2. calls' = [calls EXCEPT ![c] = NoCall] \/ calls' = [calls EXCEPT ![c] = r]
      BY <1>5 DEF ReadClass, Answered, OnTo
    <2> QED
      BY <1>3, <1>4, <2>1, <2>2
  <1>6. CASE ListVectors(c)
    <2> PICK r : r = [q EXCEPT !.new = Document(IF q.op = "create" THEN Known(q.keys, faces)
                                                ELSE q.keys, faces),
                               !.step = IF q.op = "create" THEN "insert" ELSE "drop medoid"]
      OBVIOUS
    <2>1. /\ r = [x \in CallFields |-> r[x]] /\ r.op = q.op /\ r.vector = q.vector
          /\ r.clash = q.clash /\ r.step \in {"insert", "drop medoid"}
      BY <1>2 DEF CallFields
    <2>2. calls' = [calls EXCEPT ![c] = NoCall] \/ calls' = [calls EXCEPT ![c] = r]
      BY <1>6 DEF ListVectors, Answered, OnTo
    <2> QED
      BY <1>3, <1>4, <2>1, <2>2
  <1>7. ASSUME NEW step \in {"drop", "insert", "add"},
               calls' = [calls EXCEPT ![c] = [q EXCEPT !.step = step]]
        PROVE  FaceInv'
    <2> PICK r : r = [q EXCEPT !.step = step]
      OBVIOUS
    <2>1. /\ r = [x \in CallFields |-> r[x]] /\ r.op = q.op /\ r.vector = q.vector
          /\ r.clash = q.clash /\ r.step = step
      BY <1>2 DEF CallFields
    <2> QED
      BY <1>4, <1>7, <2>1
  <1>8. CASE DropMedoid(c)
    BY <1>7, <1>8 DEF DropMedoid, AfterDropMedoid, OnTo
  <1>9. CASE InsertMedoid(c)
    BY <1>3, <1>7, <1>9 DEF InsertMedoid, Answered, OnTo
  <1>10. CASE DropDocument(c)
    BY <1>3, <1>7, <1>10 DEF DropDocument, Answered, OnTo
  <1>11. CASE AddClassDocument(c)
    BY <1>3, <1>11 DEF AddClassDocument, Answered
  <1> QED
    BY <1>5, <1>6, <1>8, <1>9, <1>10, <1>11

\* An extraction that found no face of its vector chooses an id for a new one.
LEMMA ChoosesFace ==
  ASSUME FaceInv, NEW c \in FaceClients, Step(c, "search"),
         NEW f \in FaceIds \ idsUsed, idsUsed' = idsUsed \cup {f},
         UNCHANGED <<faces, shots, repeated, unseen>>,
         NEW r, calls' = [calls EXCEPT ![c] = r], r = [x \in CallFields |-> r[x]],
         r.op = calls[c].op, r.vector = calls[c].vector, r.face = f,
         r.step = "save" \/ (r.step = "index" /\ ~r.save), calls[c].clash => r.clash,
         r.clash \/ SameFace(r.vector) = {}
  PROVE  FaceInv'
  <1>1. CallOK(calls[c]) /\ Calling(c)
    BY DEF FaceInv, Step
  <1>2. Extracting(r) /\ Extracting(calls[c])
    BY <1>1 DEF CallOK, Extracting, Step
  <1>3. faces[f] = Nil
    BY DEF FaceInv
  <1>4. CallOK(r)'
    BY <1>1, <1>2, <1>3 DEF CallOK, Extracting, Chosen
  <1>5. ~r.clash => \A g \in FaceIds : faces[g] # r.vector
    BY DEF SameFace
  <1>6. \A d \in FaceClients \ {c} : Calling(d) /\ Chosen(calls[d]) => calls[d].face # r.face
    BY DEF FaceInv, CallOK
  <1>7. OnItsOwn(c)
    BY DEF OnItsOwn
  <1> QED
    BY <1>1, <1>2, <1>4, <1>5, <1>6, <1>7, CallGoesOn

LEMMA SearchFaceInv ==
  ASSUME FaceInv, NEW c \in FaceClients, SearchFace(c)
  PROVE  FaceInv'
  <1>1. Calling(c) /\ Step(c, "search") /\ UNCHANGED <<faces, shots, repeated, unseen>>
    BY DEF SearchFace, Step
  <1>2. CASE SameFace(calls[c].vector) # {}
    BY <1>1, <1>2, CallEnds DEF SearchFace, Answered, OnItsOwn
  <1>3. CASE SameFace(calls[c].vector) = {}
    <2>1. PICK f \in FaceIds \ idsUsed :
             /\ idsUsed' = idsUsed \cup {f}
             /\ calls' = [calls EXCEPT ![c] = [calls[c] EXCEPT !.face = f,
                             !.step = IF calls[c].save THEN "save" ELSE "index"]]
      BY <1>3 DEF SearchFace, OnTo
    <2>2. calls[c] = [x \in CallFields |-> calls[c][x]]
      BY <1>1 DEF FaceInv, CallOK
    <2> PICK q, r : q = calls[c] /\ r = [q EXCEPT !.face = f, !.step = IF q.save THEN "save" ELSE "index"]
      OBVIOUS
    <2>3. /\ r = [x \in CallFields |-> r[x]] /\ r.op = q.op /\ r.vector = q.vector
          /\ r.face = f /\ (r.step = "save" \/ (r.step = "index" /\ ~r.save))
          /\ r.clash = q.clash
      BY <2>2 DEF CallFields
    <2>4. calls' = [calls EXCEPT ![c] = r] /\ SameFace(r.vector) = {}
      BY <1>3, <2>1, <2>3
    <2> QED
      <3>1. /\ Step(c, "search") /\ UNCHANGED <<faces, shots, repeated, unseen>>
            /\ idsUsed' = idsUsed \cup {f} /\ calls' = [calls EXCEPT ![c] = r]
            /\ r = [x \in CallFields |-> r[x]]
            /\ r.op = calls[c].op /\ r.vector = calls[c].vector /\ r.face = f
            /\ r.step = "save" \/ (r.step = "index" /\ ~r.save)
            /\ calls[c].clash => r.clash
            /\ r.clash \/ SameFace(r.vector) = {}
        BY <1>1, <2>1, <2>3, <2>4
      <3> QED
        BY <3>1, ChoosesFace
  <1> QED
    BY <1>2, <1>3

\* The picture of a face is saved, or goes missing, and the face is indexed next.
LEMMA IndexesNext ==
  ASSUME FaceInv, NEW c \in FaceClients, Step(c, "save"), faces' = faces,
         shots \subseteq shots', unseen \subseteq unseen', calls[c].face \in shots' \cup unseen',
         UNCHANGED <<idsUsed, repeated>>, calls' = [calls EXCEPT ![c].step = "index"]
  PROVE  FaceInv'
  <1>1. CallOK(calls[c]) /\ Calling(c)
    BY DEF FaceInv, Step
  <1> PICK q, r : q = calls[c] /\ r = [q EXCEPT !.step = "index"]
    OBVIOUS
  <1>2. /\ r = [x \in CallFields |-> r[x]] /\ r.op = q.op /\ r.vector = q.vector
        /\ r.save = q.save /\ r.face = q.face /\ r.step = "index" /\ r.clash = q.clash
    BY <1>1 DEF CallOK, CallFields
  <1>3. Extracting(q) /\ Chosen(q) /\ Extracting(r)
    BY <1>1, <1>2 DEF CallOK, Extracting, Chosen, Step
  <1>4. CallOK(r)'
    BY <1>1, <1>2, <1>3 DEF CallOK, Extracting, Chosen
  <1>5. /\ ~r.clash => \A f \in FaceIds : faces[f] # r.vector
        /\ \A d \in FaceClients \ {c} : Calling(d) /\ Chosen(calls[d]) => calls[d].face # r.face
    <2>1. Chosen(q) /\ ~q.clash => \A f \in FaceIds : faces[f] # q.vector
      BY <1>1 DEF FaceInv
    <2>2. \A d \in FaceClients \ {c} : Calling(d) /\ Chosen(calls[d]) => calls[d].face # q.face
      BY <1>1, <1>3 DEF FaceInv
    <2> QED
      BY <1>2, <1>3, <2>1, <2>2
  <1>6. OnItsOwn(c) /\ calls' = [calls EXCEPT ![c] = r]
    BY DEF OnItsOwn
  <1> QED
    BY <1>1, <1>2, <1>3, <1>4, <1>5, <1>6, CallGoesOn

LEMMA SaveAlignedInv ==
  ASSUME FaceInv, NEW c \in FaceClients, SaveAligned(c)
  PROVE  FaceInv'
  <1>1. Calling(c) /\ Step(c, "save") /\ UNCHANGED <<faces, idsUsed, repeated, unseen>>
        /\ shots' = shots \cup {calls[c].face}
    BY DEF SaveAligned, Step
  <1>2. CASE calls[c].index
    BY <1>1, <1>2, IndexesNext DEF SaveAligned, OnTo
  <1>3. CASE ~calls[c].index
    BY <1>1, <1>3, CallEnds DEF SaveAligned, Answered, OnItsOwn
  <1> QED
    BY <1>2, <1>3

LEMMA IndexFaceInv ==
  ASSUME FaceInv, NEW c \in FaceClients, IndexFace(c)
  PROVE  FaceInv'
  <1> PICK r : r = calls[c]
    OBVIOUS
  <1>1. /\ Calling(c) /\ r.step = "index" /\ UNCHANGED <<shots, idsUsed>>
        /\ faces' = [faces EXCEPT ![r.face] = r.vector]
        /\ repeated' = IF r.clash THEN repeated \cup {r.face} ELSE repeated
        /\ unseen' = IF r.save THEN unseen ELSE unseen \cup {r.face}
        /\ calls' = [calls EXCEPT ![c] = NoCall]
    BY DEF IndexFace, Step, Answered
  <1>2. /\ CallOK(r) /\ Chosen(r) /\ Extracting(r) /\ r.face \in FaceIds /\ r.vector \in Vectors
        /\ r.face \in idsUsed /\ (r.save => r.face \in shots \cup unseen)
        /\ ~r.clash => \A f \in FaceIds : faces[f] # r.vector
    BY <1>1 DEF FaceInv, CallOK, Chosen, Extracting
  <1>3. \A f \in FaceIds : faces'[f] = IF f = r.face THEN r.vector ELSE faces[f]
    BY <1>1, <1>2 DEF FaceInv
  <1>4. \A d \in FaceClients : Calling(d)' => d # c /\ Calling(d) /\ calls'[d] = calls[d]
    BY <1>1 DEF FaceInv, Calling
  <1>5. FacesOnce'
    <2>1. \A f, g \in FaceIds \ repeated' : f # g /\ faces'[f] # Nil => faces'[f] # faces'[g]
      BY <1>1, <1>2, <1>3 DEF FaceInv, FacesOnce
    <2>2. \A f \in FaceIds \ unseen' : faces'[f] # Nil => f \in shots'
      BY <1>1, <1>2, <1>3 DEF FaceInv, FacesOnce
    <2> QED
      BY <2>1, <2>2 DEF FacesOnce
  <1>6. ASSUME NEW d \in FaceClients, Calling(d)'
        PROVE  /\ CallOK(calls[d])'
               /\ Chosen(calls'[d]) /\ ~calls'[d].clash =>
                     \A f \in FaceIds : faces'[f] # calls'[d].vector
    <2> PICK q : q = calls[d]
      OBVIOUS
    <2>1. /\ d # c /\ Calling(d) /\ calls'[d] = q /\ CallOK(q)
          /\ Chosen(q) /\ ~q.clash => \A f \in FaceIds : faces[f] # q.vector
          /\ Chosen(q) => q.face # r.face
          /\ Extracting(q) /\ q.vector = r.vector => q.clash
      BY <1>1, <1>2, <1>4, <1>6 DEF FaceInv
    <2>2. CallOK(calls[d])'
      BY <1>1, <1>3, <2>1 DEF CallOK, Chosen, Extracting
    <2> QED
      BY <1>3, <2>1, <2>2 DEF Chosen
  <1>7. faces' \in [FaceIds -> Vectors \cup {Nil}]
    BY <1>1, <1>2 DEF FaceInv
  <1>8. \A f \in FaceIds : faces'[f] # Nil => f \in idsUsed'
    BY <1>1, <1>2, <1>3 DEF FaceInv
  <1>9. \A d, e \in FaceClients : d # e /\ Calling(d)' /\ Calling(e)' =>
          /\ Chosen(calls'[d]) /\ Chosen(calls'[e]) => calls'[d].face # calls'[e].face
          /\ Extracting(calls'[d]) /\ Extracting(calls'[e])
             /\ calls'[d].vector = calls'[e].vector => calls'[d].clash
    BY <1>4 DEF FaceInv
  <1>10. DOMAIN calls' = FaceClients /\ calls' = [d \in FaceClients |-> calls'[d]]
    BY <1>1 DEF FaceInv
  <1> QED
    BY <1>5, <1>6, <1>7, <1>8, <1>9, <1>10 DEF FaceInv, Chosen, Extracting

LEMMA GoOnInv ==
  ASSUME FaceInv, NEW c \in FaceClients, GoOn(c)
  PROVE  FaceInv'
  <1> PICK q : q = calls[c]
    OBVIOUS
  <1> PICK r : r = [q EXCEPT !.clash = TRUE]
    OBVIOUS
  <1>1. Calling(c) /\ UNCHANGED <<faces, shots>> /\ CallOK(q)
    BY DEF GoOn, FaceInv
  <1>2. /\ r = [x \in CallFields |-> r[x]] /\ r.clash = TRUE
        /\ r.op = q.op /\ r.vector = q.vector /\ r.step = q.step /\ r.save = q.save
        /\ r.index = q.index /\ r.face = q.face
    BY <1>1 DEF CallOK, CallFields
  <1>3. ASSUME NEW step \in {"add", "drop"}, calls' = [calls EXCEPT ![c] = [r EXCEPT !.step = step]],
               r.step \in {"drop", "drop medoid"}, UNCHANGED <<idsUsed, repeated, unseen>>
        PROVE  FaceInv'
    <2> PICK s : s = [r EXCEPT !.step = step]
      OBVIOUS
    <2>1. /\ s = [x \in CallFields |-> s[x]] /\ s.clash = TRUE /\ s.op = q.op
          /\ s.vector = q.vector /\ s.step = step
      BY <1>2 DEF CallFields
    <2> QED
      BY <1>1, <1>2, <1>3, <2>1, ClassGoesOn DEF SameFaces
  <1>4. CASE r.step = "save" /\ unseen' = unseen \cup {r.face} /\ UNCHANGED <<idsUsed, repeated>>
             /\ calls' = [calls EXCEPT ![c] = IF r.index THEN [q EXCEPT !.step = "index"] ELSE NoCall]
    <2>1. CASE r.index
      <3>1. Step(c, "save") /\ calls' = [calls EXCEPT ![c].step = "index"]
        BY <1>1, <1>2, <1>4, <2>1 DEF Step
      <3> QED
        BY <1>1, <1>2, <1>4, <3>1, IndexesNext
    <2>2. CASE ~r.index
      BY <1>1, <1>4, <2>2, CallEnds DEF OnItsOwn
    <2> QED
      BY <2>1, <2>2
  <1>5. ASSUME r.step = "search", UNCHANGED <<repeated, unseen>>,
               NEW f \in FaceIds \ idsUsed, idsUsed' = idsUsed \cup {f},
               calls' = [calls EXCEPT ![c] = [r EXCEPT !.face = f,
                            !.step = IF r.save THEN "save" ELSE "index"]]
        PROVE  FaceInv'
    <2> PICK s : s = [r EXCEPT !.face = f, !.step = IF r.save THEN "save" ELSE "index"]
      OBVIOUS
    <2>1. /\ s = [x \in CallFields |-> s[x]] /\ s.clash = TRUE /\ s.op = q.op
          /\ s.vector = q.vector /\ s.face = f
          /\ s.step = "save" \/ (s.step = "index" /\ ~s.save)
      BY <1>2 DEF CallFields
    <2>2. Step(c, "search")
      BY <1>1, <1>2, <1>5 DEF Step
    <2>3. calls' = [calls EXCEPT ![c] = s] /\ (calls[c].clash => s.clash)
      BY <1>5, <2>1
    <2> QED
      <3>1. /\ Step(c, "search") /\ UNCHANGED <<faces, shots, repeated, unseen>>
            /\ idsUsed' = idsUsed \cup {f} /\ calls' = [calls EXCEPT ![c] = s]
            /\ s = [x \in CallFields |-> s[x]]
            /\ s.op = calls[c].op /\ s.vector = calls[c].vector /\ s.face = f
            /\ s.step = "save" \/ (s.step = "index" /\ ~s.save)
            /\ calls[c].clash => s.clash
            /\ s.clash \/ SameFace(s.vector) = {}
        BY <1>1, <1>5, <2>1, <2>2, <2>3
      <3> QED
        BY <3>1, ChoosesFace
  <1> QED
    BY <1>2, <1>3, <1>4, <1>5 DEF GoOn

LEMMA ForgetFaceInv ==
  ASSUME FaceInv, NEW f \in FaceIds, ForgetFace(f)
  PROVE  FaceInv'
  <1>1. /\ faces' = [faces EXCEPT ![f] = Nil]
        /\ UNCHANGED <<shots, idsUsed, calls, repeated, unseen>>
    BY DEF ForgetFace
  <1>2. \A g \in FaceIds : faces'[g] = IF g = f THEN Nil ELSE faces[g]
    BY <1>1 DEF FaceInv
  <1>3. FacesOnce'
    BY <1>1, <1>2 DEF FaceInv, FacesOnce
  <1>4. \A c \in FaceClients : Calling(c)' =>
          /\ CallOK(calls[c])'
          /\ (Chosen(calls[c]) /\ ~calls[c].clash =>
                \A g \in FaceIds : faces[g] # calls[c].vector)'
    <2> SUFFICES ASSUME NEW c \in FaceClients, Calling(c)'
                 PROVE  /\ CallOK(calls[c])'
                        /\ Chosen(calls[c]) /\ ~calls[c].clash =>
                              \A g \in FaceIds : faces'[g] # calls[c].vector
      BY <1>1 DEF Chosen, Extracting
    <2> PICK q : q = calls[c]
      OBVIOUS
    <2>1. /\ CallOK(q) /\ calls'[c] = q
          /\ Chosen(q) /\ ~q.clash => \A g \in FaceIds : faces[g] # q.vector
      BY <1>1 DEF FaceInv, Calling
    <2>2. CallOK(calls[c])'
      BY <1>1, <1>2, <2>1 DEF CallOK, Chosen, Extracting
    <2>3. Chosen(q) => q.vector # Nil
      BY <2>1, FaceAssumption DEF CallOK, Chosen
    <2> QED
      BY <1>2, <2>1, <2>2, <2>3
  <1> QED
    BY <1>1, <1>2, <1>3, <1>4 DEF FaceInv, Calling, Chosen, Extracting

LEMMA FaceInvStep ==
  ASSUME FaceInv, [FaceNext]_faceVars
  PROVE  FaceInv'
  <1>1. CASE UNCHANGED faceVars
    BY <1>1 DEF FaceInv, faceVars, CallOK, Calling, Chosen, Extracting, FacesOnce
  <1>2. ASSUME NEW c \in FaceClients, GiveUp(c)
        PROVE  FaceInv'
    BY <1>2, CallEnds DEF GiveUp, SameFaces, OnItsOwn
  <1>3. ASSUME NEW c \in FaceClients, FaceSteps(c)
        PROVE  FaceInv'
    BY <1>3, ClassSteps, SearchFaceInv, SaveAlignedInv, IndexFaceInv DEF FaceSteps
  <1> QED
    BY <1>1, <1>2, <1>3, RequestsInv, GoOnInv, ForgetFaceInv DEF FaceNext

\* Two faces are indexed with one vector, or one without the picture asked for, only
\* if requests met or a call failed, for any clients, faces and vectors
\* (extract_face_features).
THEOREM FacesIndexedOnce == FaceSpec => []FacesOnce
  <1>1. FaceInv => FacesOnce
    BY DEF FaceInv
  <1> QED
    BY <1>1, FaceInitInv, FaceInvStep, PTL DEF FaceSpec

--------------------------------------------------------------------------------
(* What filtering leaves.                                                   *)

\* The places that are left, from the first to the last.
LEMMA PlacesInOrder ==
  ASSUME NEW S, S \subseteq Int, IsFiniteSet(S)
  PROVE  LET n == Cardinality(S)
             nth == [m \in 1 .. n |-> CHOOSE x \in S : Cardinality({j \in S : j <= x}) = m]
         IN  /\ n \in Nat /\ \A m \in 1 .. n : nth[m] \in S
             /\ \A m \in 1 .. n : Cardinality({j \in S : j <= nth[m]}) = m
             /\ \A i, j \in 1 .. n : i < j => nth[i] < nth[j]
             /\ \A x \in S : \E i \in 1 .. n : nth[i] = x
  <1> DEFINE n == Cardinality(S)
             R(x) == {j \in S : j <= x}
             rank == [x \in S |-> Cardinality(R(x))]
             nth == [m \in 1 .. n |-> CHOOSE x \in S : Cardinality({j \in S : j <= x}) = m]
  <1>1. n \in Nat
    BY FS_CardinalityType
  <1>2. \A x \in S : IsFiniteSet(R(x)) /\ Cardinality(R(x)) \in Nat
    <2> TAKE x \in S
    <2>1. R(x) \in SUBSET S
      OBVIOUS
    <2>2. IsFiniteSet(R(x))
      BY ONLY <2>1, FS_Subset, IsFiniteSet(S)
    <2> QED
      BY <2>2, FS_CardinalityType
  <1>3. ASSUME NEW x \in S
        PROVE  rank[x] \in 1 .. n
    <2>1. R(x) \in SUBSET S /\ x \in R(x)
      OBVIOUS
    <2>2. Cardinality(R(x)) <= n
      BY ONLY <2>1, FS_Subset, IsFiniteSet(S)
    <2>3. Cardinality(R(x)) # 0
      BY ONLY <1>2, <2>1, FS_EmptySet, x \in S
    <2> QED
      BY <1>1, <1>2, <2>2, <2>3
  <1>4. ASSUME NEW x \in S, NEW y \in S, x < y
        PROVE  rank[x] < rank[y]
    <2> PICK A, B : A = {j \in S : j <= x} /\ B = {j \in S : j <= y}
      OBVIOUS
    <2>1. A \in SUBSET B /\ A # B
      <3>1. x \in Int /\ y \in Int /\ \A l \in A : l \in S /\ l \in Int /\ l <= x
        OBVIOUS
      <3>2. \A l \in A : l \in B
        BY ONLY <1>4, <3>1, B = {j \in S : j <= y}
      <3>3. y \in B /\ y \notin A
        BY ONLY <1>4, <3>1, A = {j \in S : j <= x}, B = {j \in S : j <= y}, y \in S
      <3> QED
        BY ONLY <3>2, <3>3
    <2>2. IsFiniteSet(B)
      BY <1>2
    <2>3. Cardinality(A) <= Cardinality(B) /\ Cardinality(A) # Cardinality(B)
      BY ONLY <2>1, <2>2, FS_Subset
    <2> QED
      BY <1>2, <2>3
  <1>5. \A x, y \in S : x = y \/ x < y \/ y < x
    OBVIOUS
  <1> HIDE DEF R
  <1>6. rank \in Injection(S, 1 .. n)
    <2>1. rank \in [S -> 1 .. n]
      BY <1>3
    <2>2. \A x, y \in S : rank[x] = rank[y] => x = y
      BY <1>3, <1>4, <1>5
    <2> QED
      BY <2>1, <2>2 DEF Injection, IsInjective
  <1>7. \A i \in 1 .. n : \E x \in S : rank[x] = i
    <2>1. IsFiniteSet(1 .. n) /\ Cardinality(1 .. n) = n
      BY <1>1, FS_Interval
    <2>2. rank \in Surjection(S, 1 .. n)
      BY ONLY <1>6, <2>1, FS_Injection
    <2> QED
      BY ONLY <2>2 DEF Surjection
  <1>8. \A i \in 1 .. n : \E x \in S : Cardinality({j \in S : j <= x}) = i
    BY <1>7 DEF R
  <1>9. \A x \in S : rank[x] = Cardinality({j \in S : j <= x})
    BY DEF R
  <1> HIDE DEF rank, n
  <1>a. \A i \in 1 .. n : nth[i] \in S /\ Cardinality({j \in S : j <= nth[i]}) = i
    BY ONLY <1>8
  <1> HIDE DEF nth
  <1>10. \A i \in 1 .. n : nth[i] \in S /\ rank[nth[i]] = i
    BY ONLY <1>9, <1>a
  <1>11. \A i, j \in 1 .. n : i < j => nth[i] < nth[j]
    <2> TAKE i, j \in 1 .. n
    <2> HAVE i < j
    <2>1. nth[i] \in S /\ nth[j] \in S /\ rank[nth[i]] = i /\ rank[nth[j]] = j
      BY <1>10
    <2> QED
      BY ONLY <1>1, <1>4, <1>5, <2>1, i < j, i \in 1 .. n, j \in 1 .. n
  <1>12. \A x \in S : \E i \in 1 .. n : nth[i] = x
    <2> TAKE x \in S
    <2>1. rank[x] \in 1 .. n
      BY <1>3
    <2>2. nth[rank[x]] \in S /\ rank[nth[rank[x]]] = rank[x]
      BY <1>10, <2>1
    <2>3. nth[rank[x]] = x
      BY ONLY <1>1, <1>3, <1>4, <1>5, <2>2, x \in S
    <2> QED
      BY <2>1, <2>3
  <1>13. \A m \in 1 .. n : Cardinality({j \in S : j <= nth[m]}) = m
    BY ONLY <1>9, <1>10
  <1> QED
    BY <1>1, <1>10, <1>11, <1>12, <1>13 DEF n, nth

LEMMA Filtered ==
  ASSUME NEW T, NEW s \in Seq(T), NEW places, places \subseteq DOMAIN s
  PROVE  LET left == AtPlaces(s, places)
         IN  /\ left \in Seq(T) /\ Range(left) = {s[i] : i \in places}
             /\ Len(left) = Cardinality(places)
             /\ left = <<>> <=> places = {}
             /\ IsInjective(s) => IsInjective(left)
             /\ places = DOMAIN s => left = s
  <1> DEFINE n == Cardinality(places)
             nth == [m \in 1 .. n |-> CHOOSE x \in places : Cardinality({j \in places : j <= x}) = m]
             left == AtPlaces(s, places)
  <1>1. places \subseteq Int /\ IsFiniteSet(places) /\ DOMAIN s = 1 .. Len(s) /\ Len(s) \in Nat
    <2>1. IsFiniteSet(1 .. Len(s)) /\ DOMAIN s = 1 .. Len(s) /\ Len(s) \in Nat
      BY FS_Interval
    <2> QED
      BY <2>1, FS_Subset
  <1>2. /\ n \in Nat /\ \A m \in 1 .. n : nth[m] \in places
        /\ \A m \in 1 .. n : Cardinality({j \in places : j <= nth[m]}) = m
        /\ \A i, j \in 1 .. n : i < j => nth[i] < nth[j]
        /\ \A x \in places : \E i \in 1 .. n : nth[i] = x
    BY ONLY <1>1, PlacesInOrder
  <1>3. left = [m \in 1 .. n |-> s[nth[m]]]
    BY DEF AtPlaces
  <1> HIDE DEF nth, left
  <1>4. left \in Seq(T) /\ Len(left) = n /\ DOMAIN left = 1 .. n
    BY <1>1, <1>2, <1>3
  <1>5. Range(left) = {s[i] : i \in places}
    <2>1. \A m \in 1 .. n : left[m] = s[nth[m]]
      BY <1>3
    <2>2. Range(left) = {left[m] : m \in 1 .. n}
      BY <1>4 DEF Range
    <2>3. \A y \in {left[m] : m \in 1 .. n} : y \in {s[i] : i \in places}
      BY ONLY <1>2, <2>1
    <2>4. ASSUME NEW x \in places
          PROVE  s[x] \in {left[m] : m \in 1 .. n}
      <3>1. PICK m \in 1 .. n : nth[m] = x
        BY <1>2
      <3> QED
        BY ONLY <2>1, <3>1
    <2> QED
      BY ONLY <2>2, <2>3, <2>4
  <1>6. n = 0 <=> places = {}
    BY <1>1, FS_EmptySet
  <1>7. ASSUME IsInjective(s)
        PROVE  IsInjective(left)
    BY <1>1, <1>2, <1>3, <1>4, <1>7 DEF IsInjective
  <1>8. ASSUME places = DOMAIN s
        PROVE  left = s
    <2>1. \A m \in 1 .. n : nth[m] = m
      <3> TAKE m \in 1 .. n
      <3>1. nth[m] \in 1 .. Len(s) /\ {j \in places : j <= nth[m]} = 1 .. nth[m]
        BY <1>1, <1>2, <1>8
      <3>2. Cardinality(1 .. nth[m]) = nth[m]
        BY <3>1, FS_Interval
      <3> QED
        BY <1>2, <3>1, <3>2
    <2>2. n = Len(s)
      BY <1>1, <1>8, FS_Interval
    <2> QED
      BY <1>1, <1>3, <2>1, <2>2
  <1> QED
    BY <1>4, <1>5, <1>6, <1>7, <1>8 DEF left

--------------------------------------------------------------------------------
(* The medoid.                                                              *)

\* A set of numbers that is not empty has a least one.
LEMMA LeastNumber ==
  ASSUME NEW S \in SUBSET Nat, S # {}
  PROVE  \E m \in S : \A k \in S : m <= k
  <1> PICK top \in S : TRUE
    OBVIOUS
  <1> DEFINE Upto(m) == {k \in 0..top : k <= m}
             R == StrictSubsetOrdering(0..top)
             T == {u \in SUBSET (0..top) : \E m \in S : m <= top /\ u = Upto(m)}
  <1>1. IsWellFoundedOn(R, SUBSET (0..top))
    <2>1. IsFiniteSet(0..top)
      BY FS_Interval, 0 \in Int, top \in Int
    <2>2. FiniteSubsetsOf(0..top) = SUBSET (0..top)
      BY <2>1, FS_FiniteSubsetsOfFinite
    <2> QED
      BY <2>2, FS_StrictSubsetOrderingWellFounded
  <1>2. Upto(top) \in T
    OBVIOUS
  <1>3. \E u \in T : \A v \in T : ~(<<v, u>> \in R)
    <2> HIDE DEF R, T
    <2>1. T \subseteq SUBSET (0..top) /\ T # {}
      BY <1>2 DEF T
    <2> QED
      BY <1>1, <2>1, WFMin
  <1>4. PICK m \in S : m <= top /\ Upto(m) \in T /\ \A v \in T : ~(<<v, Upto(m)>> \in R)
    BY <1>3
  <1>5. ASSUME NEW k \in S, k < m
        PROVE  FALSE
    <2>1. Upto(k) \in T
      BY <1>4, <1>5
    <2>2. Upto(k) \subseteq Upto(m) /\ m \in Upto(m) /\ m \notin Upto(k)
      BY <1>4, <1>5
    <2>3. <<Upto(k), Upto(m)>> \in R
      BY <2>2 DEF StrictSubsetOrdering
    <2> QED
      BY <1>4, <2>1, <2>3
  <1> QED
    BY <1>5

LEMMA MedoidPlaceIn ==
  ASSUME NEW values \in Seq(Vectors), values # <<>>
  PROVE  MedoidPlace(values) \in DOMAIN values
  <1> DEFINE D == DOMAIN values
             total(i) == Cardinality(Distances(values, i))
             best == {i \in D : \A j \in D : total(i) <= total(j)}
  <1>1. D = 1 .. Len(values) /\ Len(values) \in Nat /\ Len(values) >= 1
    OBVIOUS
  <1>2. \A i \in D : total(i) \in Nat
    <2> TAKE i \in D
    <2> DEFINE pairs == [j \in D |-> {j} \X (1 .. Distance(values[i], values[j]))]
               family == {pairs[j] : j \in D}
    <2>1. \A j \in D : Distance(values[i], values[j]) \in Int
      <3> TAKE j \in D
      <3>1. values[i] \in Nat /\ values[j] \in Nat
        <4>1. values[i] \in Vectors /\ values[j] \in Vectors
          OBVIOUS
        <4>2. Vectors \subseteq Nat
          BY FaceAssumption
        <4> QED
          BY ONLY <4>1, <4>2
      <3> QED
        BY ONLY <3>1 DEF Distance
    <2>2. IsFiniteSet(D)
      BY <1>1, FS_Interval
    <2>3. \A j \in D : IsFiniteSet(pairs[j])
      <3> TAKE j \in D
      <3> PICK d : d = Distance(values[i], values[j])
        OBVIOUS
      <3>1. IsFiniteSet({j}) /\ IsFiniteSet(1 .. d)
        <4>1. 1 \in Int /\ d \in Int
          BY <2>1
        <4> QED
          BY ONLY <4>1, FS_Singleton, FS_Interval
      <3>2. IsFiniteSet({j} \X (1 .. d))
        BY ONLY <3>1, FS_Product
      <3> QED
        BY <3>2
    <2> HIDE DEF pairs
    <2>4. IsFiniteSet(family)
      <3>1. pairs \in Surjection(D, family)
        <4>1. pairs = [j \in D |-> pairs[j]]
          BY DEF pairs
        <4> QED
          BY <4>1 DEF Surjection
      <3> QED
        BY ONLY <2>2, <3>1, FS_Surjection
    <2>5. IsFiniteSet(UNION family)
      BY <2>3, <2>4, FS_UNION
    <2>6. Distances(values, i) = UNION family
      BY DEF Distances, pairs
    <2> QED
      BY <2>5, <2>6, FS_CardinalityType
  <1>3. best # {}
    <2> HIDE DEF total
    <2> DEFINE totals == {total(i) : i \in D}
    <2>1. totals \in SUBSET Nat /\ totals # {}
      BY <1>1, <1>2
    <2>2. PICK m \in totals : \A t \in totals : m <= t
      BY ONLY <2>1, LeastNumber
    <2> QED
      BY <2>2
  <1>4. best \in SUBSET Nat
    BY <1>1
  <1>5. MedoidPlace(values) = Min(best)
    BY DEF MedoidPlace
  <1> HIDE DEF best
  <1>6. Min(best) \in best
    BY ONLY <1>3, <1>4, LeastNumber DEF Min
  <1> QED
    BY <1>5, <1>6 DEF best

\* A document's key is one of its keys that have vectors.
LEMMA DocumentIs ==
  ASSUME NEW keys \in Seq(FaceIds), faces \in [FaceIds -> Vectors \cup {Nil}],
         Known(keys, faces) # <<>>
  PROVE  LET doc == Document(keys, faces)
         IN  /\ doc \in ClassDocuments /\ doc.keys = keys /\ doc.medoid # Nil
             /\ keys # <<>> /\ Contains(keys, doc.key)
             /\ (\A f \in Range(keys) : faces[f] # Nil) =>
                   faces[MedoidKey(keys, faces)] = doc.medoid
  <1> DEFINE at == {i \in DOMAIN keys : faces[keys[i]] # Nil}
             known == Known(keys, faces)
             values == [i \in DOMAIN known |-> faces[known[i]]]
             key == MedoidKey(known, faces)
             doc == Document(keys, faces)
  <1>1. /\ known \in Seq(FaceIds) /\ Range(known) = {keys[i] : i \in at} /\ at # {}
        /\ at = DOMAIN keys => known = keys
    BY Filtered DEF Known
  <1> HIDE DEF known
  <1>2. \A i \in DOMAIN known : faces[known[i]] \in Vectors
    <2> TAKE i \in DOMAIN known
    <2>1. known[i] \in {keys[j] : j \in at}
      BY <1>1 DEF Range
    <2>2. PICK j \in DOMAIN keys : faces[keys[j]] # Nil /\ known[i] = keys[j]
      BY ONLY <2>1
    <2>3. keys[j] \in FaceIds
      OBVIOUS
    <2> QED
      BY <2>2, <2>3
  <1>3. values \in Seq(Vectors) /\ values # <<>> /\ DOMAIN values = DOMAIN known
    <2>1. known # <<>> /\ known \in Seq(FaceIds)
      BY <1>1 DEF known
    <2>2. DOMAIN known = 1 .. Len(known) /\ Len(known) \in Nat /\ Len(known) # 0
      BY ONLY <2>1
    <2>3. Len(values) = Len(known) /\ values \in Seq(Vectors)
      BY <1>2, <2>2
    <2> QED
      BY <2>2, <2>3
  <1>4. MedoidPlace(values) \in DOMAIN known
    BY ONLY <1>3, MedoidPlaceIn
  <1>5. key = known[MedoidPlace(values)]
    BY DEF MedoidKey
  <1>6. key \in Range(known) /\ faces[key] \in Vectors
    BY <1>2, <1>4, <1>5 DEF Range
  <1> HIDE DEF key, values
  <1>7. doc = [keys |-> keys, key |-> key, medoid |-> faces[key]]
    BY DEF Document, key, known
  <1>8. \E i \in DOMAIN keys : keys[i] = key /\ key \in FaceIds
    BY <1>1, <1>6
  <1>9. Contains(keys, key) /\ keys # <<>>
    BY <1>8 DEF Contains
  <1>10. ASSUME \A f \in Range(keys) : faces[f] # Nil
         PROVE  faces[MedoidKey(keys, faces)] = doc.medoid
    <2>1. at = DOMAIN keys
      BY <1>10 DEF Range
    <2> QED
      BY <1>1, <1>7, <2>1 DEF key
  <1> QED
    BY <1>6, <1>7, <1>8, <1>9, <1>10, FaceAssumption DEF ClassDocuments

--------------------------------------------------------------------------------
(* Classes.                                                                 *)

\* A document, or the draft of one, names faces that were given, and while they
\* all have vectors, its medoid is the nearest of them.
GoodDocument(doc) ==
  /\ doc \in ClassDocuments /\ Range(doc.keys) \subseteq GivenFaces
  /\ doc.keys = <<>> <=> doc.medoid = Nil
  /\ doc.keys # <<>> =>
       /\ Contains(doc.keys, doc.key)
       /\ (\A f \in Range(doc.keys) : faces[f] # Nil) =>
             faces[MedoidKey(doc.keys, faces)] = doc.medoid

WholeClass(k) ==
  medoids[k] = IF documents[k] = Nil THEN Nil ELSE documents[k].medoid

\* A call about a class: what it was asked, and what it has drafted.
Rewrites(r) == r.op \in {"save", "remove", "recompute"}
ClassCall(r) ==
  /\ r.op \in {"create", "save", "remove", "recompute", "delete"}
  /\ r.class \in ClassIds
  /\ r.op = "delete" => r.step \in {"drop medoid", "drop"}
  /\ r.op = "create" => r.step \in {"vectors", "insert", "add"}
  /\ Rewrites(r) => r.step \in {"read", "vectors", "drop medoid", "insert", "drop", "add"}
  /\ r.keys \in Seq(FaceIds) /\ Range(r.keys) \subseteq GivenFaces
  /\ r.op = "save" => r.face \in GivenFaces
  /\ r.op # "delete" /\ r.step \in {"drop medoid", "insert", "drop", "add"} => GoodDocument(r.new)
  /\ r.op # "delete" /\ r.step # "read" => r.class \in idsUsed

\* How far an undisturbed call is with its class: it has written nothing yet,
\* dropped the medoid, inserted the new one, or dropped the document as well.
Untouched(r) ==
  \/ Rewrites(r) /\ r.step \in {"read", "vectors", "drop medoid"}
  \/ r.op = "delete" /\ r.step = "drop medoid"
Medoidless(r) ==
  \/ Rewrites(r) /\ r.step = "insert"
  \/ r.op = "delete" /\ r.step = "drop"
AtClass(r) ==
  /\ r.op = "create" /\ r.step \in {"vectors", "insert"} =>
        documents[r.class] = Nil /\ medoids[r.class] = Nil
  /\ Untouched(r) /\ r.class \notin doubtful => WholeClass(r.class)
  /\ Medoidless(r) => medoids[r.class] = Nil
  /\ Rewrites(r) /\ r.step = "drop" => medoids[r.class] = r.new.medoid
  /\ r.step = "add" => documents[r.class] = Nil /\ medoids[r.class] = r.new.medoid

ClassOK(k) ==
  /\ documents[k] # Nil => GoodDocument(documents[k])
  /\ documents[k] # Nil \/ medoids[k] # Nil => k \in idsUsed
  /\ Undisturbed(k) => WholeClass(k)
OneClassCall(r) ==
  /\ ~Extracting(r) => ClassCall(r) /\ (~r.clash => AtClass(r))
  /\ Extracting(r) => r.class = Nil /\ (r.step = "search" => r.face = Nil)

\* Calls about one class know of each other.
ClassInv ==
  /\ documents = [k \in ClassIds |-> documents[k]]
  /\ medoids \in [ClassIds -> Vectors \cup {Nil}]
  /\ \A k \in ClassIds : ClassOK(k)
  /\ \A c \in FaceClients : Calling(c) => OneClassCall(calls[c])
  /\ \A c, d \in FaceClients : c # d /\ Calling(c) /\ Calling(d) /\ ~Extracting(calls[c])
       /\ calls[c].class = calls[d].class => calls[c].clash /\ calls[d].clash

\* The faces that were given stay given, and may lose their vectors.
Steady ==
  /\ GivenFaces \subseteq GivenFaces' /\ idsUsed \subseteq idsUsed'
  /\ \A f \in GivenFaces : faces'[f] = faces[f] \/ faces'[f] = Nil

LEMMA GivenStay ==
  ASSUME idsUsed \subseteq idsUsed',
         \A d \in FaceClients : Calling(d)' /\ calls'[d].op = "extract" =>
            calls'[d].face \notin GivenFaces
  PROVE  GivenFaces \subseteq GivenFaces'
  <1>1. \A f \in GivenFaces : f \in FaceIds \cap idsUsed'
    BY DEF GivenFaces
  <1>2. ASSUME NEW f \in GivenFaces, NEW d \in FaceClients, Calling(d)', calls'[d].op = "extract"
        PROVE  calls'[d].face # f
    BY <1>2
  <1> QED
    BY <1>1, <1>2 DEF GivenFaces

LEMMA DocumentStays ==
  ASSUME FaceInv, Steady, NEW doc, GoodDocument(doc)
  PROVE  GoodDocument(doc)'
  <1> PICK keys : keys = doc.keys
    OBVIOUS
  <1>1. /\ doc \in ClassDocuments /\ Range(keys) \subseteq GivenFaces
        /\ keys = <<>> <=> doc.medoid = Nil
        /\ keys # <<>> =>
             /\ Contains(keys, doc.key)
             /\ (\A f \in Range(keys) : faces[f] # Nil) =>
                   faces[MedoidKey(keys, faces)] = doc.medoid
    BY DEF GoodDocument
  <1>2. keys \in Seq(FaceIds)
    BY <1>1 DEF ClassDocuments
  <1>3. ASSUME keys # <<>>, \A f \in Range(keys) : faces'[f] # Nil
        PROVE  faces'[MedoidKey(keys, faces')] = doc.medoid
    <2>1. \A f \in Range(keys) : faces'[f] = faces[f]
      BY <1>1, <1>3 DEF Steady
    <2>2. \A i \in DOMAIN keys : keys[i] \in Range(keys) /\ faces'[keys[i]] = faces[keys[i]]
      BY <2>1 DEF Range
    <2> PICK values : values = [i \in DOMAIN keys |-> faces[keys[i]]]
      OBVIOUS
    <2>3. values = [i \in DOMAIN keys |-> faces'[keys[i]]]
      BY <2>2
    <2>4. MedoidKey(keys, faces') = keys[MedoidPlace(values)]
          /\ MedoidKey(keys, faces) = keys[MedoidPlace(values)]
      BY <2>3 DEF MedoidKey
    <2>5. \A i \in DOMAIN keys : values[i] \in Vectors
      <3> TAKE i \in DOMAIN keys
      <3>1. keys[i] \in FaceIds /\ faces[keys[i]] # Nil
        BY <1>2, <1>3, <2>2
      <3> QED
        BY <3>1 DEF FaceInv
    <2>6. values \in Seq(Vectors) /\ values # <<>> /\ DOMAIN values = DOMAIN keys
      <3>1. DOMAIN keys = 1 .. Len(keys) /\ Len(keys) \in Nat /\ Len(keys) # 0
        BY <1>2, <1>3
      <3>2. Len(values) = Len(keys) /\ values \in Seq(Vectors)
        BY <2>5, <3>1
      <3> QED
        BY <1>3, <3>1, <3>2
    <2>7. MedoidPlace(values) \in DOMAIN keys
      BY ONLY <2>6, MedoidPlaceIn
    <2>8. faces[MedoidKey(keys, faces)] = doc.medoid
      BY <1>1, <1>3, <2>1
    <2> QED
      BY <2>2, <2>4, <2>7, <2>8
  <1> QED
    BY <1>1, <1>3 DEF GoodDocument, Steady

LEMMA CallStays ==
  ASSUME FaceInv, Steady, NEW r, ClassCall(r)
  PROVE  ClassCall(r)'
  <1>1. GivenFaces \subseteq GivenFaces' /\ idsUsed \subseteq idsUsed'
    BY DEF Steady
  <1>2. GoodDocument(r.new) => GoodDocument(r.new)'
    BY DocumentStays
  <1> QED
    BY <1>1, <1>2 DEF ClassCall, Rewrites

\* A step of an extraction, or one that takes a face's vector away.
LEMMA NoClassChanges ==
  ASSUME FaceInv, ClassInv, Steady, UNCHANGED <<medoids, documents, doubtful>>,
         \A d \in FaceClients : Calling(d) /\ ~Extracting(calls[d]) => calls'[d] = calls[d],
         \A d \in FaceClients : Calling(d)' => Calling(d)
            /\ \/ calls'[d] = calls[d]
               \/ /\ Extracting(calls[d]) /\ Extracting(calls'[d])
                  /\ calls'[d].class = Nil /\ calls'[d].step # "search"
  PROVE  ClassInv'
  <1>1. ASSUME NEW k \in ClassIds, Undisturbed(k)'
        PROVE  Undisturbed(k)
    <2>1. ASSUME NEW d \in FaceClients, Calling(d)
          PROVE  calls[d].class # k
      <3>1. CASE Extracting(calls[d])
        BY <2>1, <3>1, FaceAssumption DEF ClassInv, OneClassCall
      <3>2. CASE ~Extracting(calls[d])
        <4>1. calls'[d] = calls[d] /\ Calling(d)'
          BY <2>1, <3>2 DEF Calling
        <4> QED
          BY <1>1, <4>1 DEF Undisturbed
      <3> QED
        BY <3>1, <3>2
    <2> QED
      BY <1>1, <2>1 DEF Undisturbed
  <1>2. ASSUME NEW k \in ClassIds
        PROVE  ClassOK(k)'
    <2>1. ClassOK(k)
      BY DEF ClassInv
    <2>2. documents[k] # Nil => GoodDocument(documents[k])'
      BY <2>1, DocumentStays DEF ClassOK
    <2>3. documents'[k] # Nil => GoodDocument(documents[k])'
      BY <2>2 DEF GoodDocument
    <2> QED
      BY <1>1, <2>1, <2>3 DEF ClassOK, Steady, WholeClass
  <1>3. ASSUME NEW d \in FaceClients, Calling(d)', NEW r, r = calls'[d]
        PROVE  OneClassCall(r)'
    <2>1. Calling(d) /\ OneClassCall(calls[d])
      BY <1>3 DEF ClassInv
    <2>2. CASE r = calls[d]
      <3>1. /\ ~Extracting(r) => ClassCall(r) /\ (~r.clash => AtClass(r))
            /\ Extracting(r) => r.class = Nil /\ (r.step = "search" => r.face = Nil)
        BY ONLY <2>1, <2>2 DEF OneClassCall
      <3>2. AtClass(r) => AtClass(r)'
        BY DEF AtClass, WholeClass, Untouched, Medoidless, Rewrites
      <3>3. ClassCall(r) => ClassCall(r)'
        BY CallStays
      <3> QED
        BY ONLY <3>1, <3>2, <3>3 DEF OneClassCall, Extracting
    <2>3. CASE r # calls[d]
      <3>1. Extracting(r) /\ r.class = Nil /\ r.step # "search"
        BY <1>3, <2>3
      <3> QED
        BY ONLY <3>1 DEF OneClassCall, Extracting
    <2> QED
      BY <2>2, <2>3
  <1>4. ASSUME NEW d \in FaceClients, NEW e \in FaceClients, d # e, Calling(d)', Calling(e)',
               ~Extracting(calls'[d]), calls'[d].class = calls'[e].class
        PROVE  calls'[d].clash /\ calls'[e].clash
    <2>1. calls'[d] = calls[d] /\ Calling(d) /\ Calling(e)
      BY <1>4
    <2>2. calls[d].class \in ClassIds
      BY <1>4, <2>1 DEF ClassInv, OneClassCall, ClassCall
    <2>3. calls'[e] = calls[e]
      BY <1>4, <2>1, <2>2, FaceAssumption
    <2> QED
      BY <1>4, <2>1, <2>3 DEF ClassInv
  <1>5. \A d \in FaceClients : Calling(d)' => OneClassCall(calls[d])'
    <2> TAKE d \in FaceClients
    <2> HAVE Calling(d)'
    <2> PICK q : q = calls'[d]
      OBVIOUS
    <2>1. OneClassCall(q)'
      BY <1>3
    <2> QED
      BY ONLY <2>1, q = calls'[d] DEF OneClassCall, ClassCall, AtClass, WholeClass, GoodDocument, Extracting,
         Untouched, Medoidless, Rewrites
  <1>6. documents' = [k \in ClassIds |-> documents'[k]] /\ medoids' \in [ClassIds -> Vectors \cup {Nil}]
    BY DEF ClassInv
  <1> QED
    BY <1>2, <1>4, <1>5, <1>6 DEF ClassInv, Extracting

\* A call about a class changes its class alone, and goes on or ends.
ClassMove(c) ==
  LET k == calls[c].class
  IN  /\ Calling(c) /\ ~Extracting(calls[c]) /\ SameFaces
      /\ documents' = [l \in ClassIds |-> documents'[l]]
      /\ medoids' \in [ClassIds -> Vectors \cup {Nil}]
      /\ \A l \in ClassIds \ {k} : documents'[l] = documents[l] /\ medoids'[l] = medoids[l]
                                   /\ (l \in doubtful' <=> l \in doubtful)
      /\ documents'[k] # Nil => GoodDocument(documents'[k])
      /\ documents'[k] # Nil \/ medoids'[k] # Nil => k \in idsUsed

LEMMA ClassMoves ==
  ASSUME FaceInv, ClassInv, NEW c \in FaceClients, ClassMove(c), NEW k, k = calls[c].class,
         NEW r, calls' = [calls EXCEPT ![c] = r],
         r # NoCall => /\ ~Extracting(r) /\ r.class = k /\ ClassCall(r)
                       /\ calls[c].clash => r.clash
                       /\ ~r.clash => AtClass(r)',
         r = NoCall => /\ calls[c].clash => k \in doubtful'
                       /\ k \notin doubtful' => WholeClass(k)'
  PROVE  ClassInv'
  <1>1. /\ Calling(c) /\ ~Extracting(calls[c]) /\ UNCHANGED <<faces, idsUsed>>
        /\ documents' = [l \in ClassIds |-> documents'[l]]
        /\ medoids' \in [ClassIds -> Vectors \cup {Nil}]
        /\ \A l \in ClassIds \ {k} : documents'[l] = documents[l] /\ medoids'[l] = medoids[l]
                                     /\ (l \in doubtful' <=> l \in doubtful)
        /\ documents'[k] # Nil => GoodDocument(documents'[k])
        /\ documents'[k] # Nil \/ medoids'[k] # Nil => k \in idsUsed
        /\ k \in ClassIds
    BY DEF ClassMove, SameFaces, ClassInv, OneClassCall, ClassCall
  <1>2. \A d \in FaceClients : calls'[d] = IF d = c THEN r ELSE calls[d]
    BY DEF FaceInv
  <1>3. \A d \in FaceClients \ {c} : (Calling(d)' <=> Calling(d)) /\ calls'[d] = calls[d]
    BY <1>2 DEF Calling
  <1>4. Calling(c)' <=> r # NoCall
    BY <1>2 DEF Calling
  <1>5. Steady
    <2>1. \A d \in FaceClients : Calling(d)' /\ calls'[d].op = "extract" =>
            calls'[d].face \notin GivenFaces
      BY <1>2, <1>3, <1>4 DEF GivenFaces, Extracting
    <2> QED
      BY <1>1, <2>1, GivenStay DEF Steady
  <1>6. ASSUME NEW l \in ClassIds, l # k
        PROVE  ClassOK(l)'
    <2>1. ClassOK(l) /\ documents'[l] = documents[l] /\ medoids'[l] = medoids[l]
      BY <1>1, <1>6 DEF ClassInv
    <2>2. Undisturbed(l)' => Undisturbed(l)
      BY <1>1, <1>3, <1>6 DEF Undisturbed
    <2>3. documents[l] # Nil => GoodDocument(documents[l])'
      <3> PICK doc : doc = documents[l]
        OBVIOUS
      <3>1. doc # Nil => GoodDocument(doc)'
        BY <1>5, <2>1, DocumentStays DEF ClassOK
      <3> QED
        BY ONLY <3>1, <2>1, doc = documents[l] DEF GoodDocument
    <2> QED
      BY <1>1, <2>1, <2>2, <2>3 DEF ClassOK, WholeClass
  <1>7. ClassOK(k)'
    <2>1. documents'[k] # Nil => GoodDocument(documents[k])'
      <3> PICK doc : doc = documents'[k]
        OBVIOUS
      <3>1. doc # Nil => GoodDocument(doc)'
        BY <1>1, <1>5, DocumentStays
      <3> QED
        BY ONLY <3>1, doc = documents'[k] DEF GoodDocument
    <2>2. Undisturbed(k)' => r = NoCall /\ k \notin doubtful'
      BY <1>2, <1>4 DEF Undisturbed
    <2>3. Undisturbed(k)' => WholeClass(k)'
      BY <2>2
    <2> QED
      BY <1>1, <2>1, <2>3 DEF ClassOK
  <1>8. ASSUME NEW d \in FaceClients, d # c, Calling(d), NEW q, q = calls[d]
        PROVE  OneClassCall(q)'
    <2>1. /\ ~Extracting(q) => ClassCall(q) /\ (~q.clash => AtClass(q))
          /\ Extracting(q) => q.class = Nil /\ (q.step = "search" => q.face = Nil)
          /\ q = calls'[d]
      BY <1>3, <1>8 DEF ClassInv, OneClassCall
    <2>2. ~Extracting(q) /\ ~q.clash => q.class # k
      BY <1>1, <1>8 DEF ClassInv
    <2>3. ClassCall(q) => ClassCall(q)' /\ q.class \in ClassIds
      BY <1>5, CallStays DEF ClassCall
    <2>4. AtClass(q) /\ q.class \in ClassIds /\ q.class # k => AtClass(q)'
      BY <1>1 DEF AtClass, WholeClass, Untouched, Medoidless, Rewrites
    <2> QED
      BY ONLY <2>1, <2>2, <2>3, <2>4 DEF OneClassCall, Extracting
  <1>9. ASSUME r # NoCall
        PROVE  OneClassCall(r)'
    <2>1. ClassCall(r)'
      BY <1>5, <1>9, CallStays
    <2> QED
      BY <1>9, <2>1 DEF OneClassCall, Extracting
  <1>10. \A d \in FaceClients : Calling(d)' => OneClassCall(calls[d])'
    <2> TAKE d \in FaceClients
    <2> HAVE Calling(d)'
    <2> PICK q : q = calls'[d]
      OBVIOUS
    <2>1. OneClassCall(q)'
      <3>1. CASE d = c
        <4>1. q = r /\ OneClassCall(r)'
          BY <1>2, <1>4, <1>9, <3>1
        <4> QED
          BY <4>1
      <3>2. CASE d # c
        <4>1. Calling(d) /\ q = calls[d]
          BY <1>3, <3>2
        <4> QED
          BY <1>8, <3>2, <4>1
      <3> QED
        BY <3>1, <3>2
    <2> QED
      BY ONLY <2>1, q = calls'[d] DEF OneClassCall, ClassCall, AtClass, WholeClass, GoodDocument, Extracting,
         Untouched, Medoidless, Rewrites
  <1>11. ASSUME NEW d \in FaceClients, NEW e \in FaceClients, d # e, Calling(d)', Calling(e)',
                ~Extracting(calls'[d]), calls'[d].class = calls'[e].class
         PROVE  calls'[d].clash /\ calls'[e].clash
    <2>1. Calling(d) /\ Calling(e) /\ calls'[d].class = calls[d].class
          /\ calls'[e].class = calls[e].class /\ ~Extracting(calls[d])
      BY <1>1, <1>2, <1>3, <1>4, <1>11
    <2>2. calls[d].clash /\ calls[e].clash
      BY <1>11, <2>1 DEF ClassInv
    <2> QED
      BY <1>2, <1>4, <1>11, <2>2
  <1>12. \A l \in ClassIds : ClassOK(l)'
    BY <1>6, <1>7
  <1> QED
    BY <1>1, <1>10, <1>11, <1>12 DEF ClassInv, Extracting

\* A request that comes in changes no other, but for what it knows of others.
LEMMA AskedOthers ==
  ASSUME FaceInv, NEW c \in FaceClients, NEW r, Asking(c, r), NEW d \in FaceClients \ {c}
  PROVE  /\ Calling(d)' => Calling(d)
         /\ Calling(d) => /\ \A x \in CallFields \ {"clash"} : calls'[d][x] = calls[d][x]
                          /\ calls[d].clash => calls'[d].clash
                          /\ Clash(calls[d], r) => calls'[d].clash
  <1> PICK others : others = {e \in FaceClients : Calling(e) /\ Clash(calls[e], r)}
    OBVIOUS
  <1>1. calls'[d] = IF d \in others THEN [calls[d] EXCEPT !.clash = TRUE] ELSE calls[d]
    BY DEF Asking
  <1>2. Calling(d)' => Calling(d)
    BY <1>1 DEF Calling
  <1>3. ASSUME Calling(d)
        PROVE  /\ \A x \in CallFields \ {"clash"} : calls'[d][x] = calls[d][x]
               /\ calls[d].clash \/ d \in others => calls'[d].clash
    <2>1. calls[d] = [x \in CallFields |-> calls[d][x]] /\ "clash" \in CallFields
      BY <1>3 DEF FaceInv, CallOK, CallFields
    <2>2. CASE d \in others
      <3> PICK u, v : u = calls[d] /\ v = calls'[d]
        OBVIOUS
      <3>1. v = [u EXCEPT !.clash = TRUE]
        BY <1>1, <2>2
      <3>2. /\ \A x \in CallFields \ {"clash"} : v[x] = u[x]
            /\ v.clash = TRUE
        BY <2>1, <3>1
      <3> QED
        BY <3>2
    <2>3. CASE d \notin others
      BY <1>1, <2>3
    <2> QED
      BY <2>2, <2>3
  <1>4. Calling(d) /\ Clash(calls[d], r) => d \in others
    OBVIOUS
  <1> QED
    BY <1>2, <1>3, <1>4

LEMMA AskedGiven ==
  ASSUME FaceInv, ClassInv, NEW c \in FaceClients, NEW r, Asking(c, r), CallOK(r),
         idsUsed \subseteq idsUsed', Extracting(r) => r.face = Nil
  PROVE  Steady
  <1>1. calls'[c].op = r.op /\ calls'[c].face = r.face /\ UNCHANGED faces
    <2> PICK others : others = {e \in FaceClients : Calling(e) /\ Clash(calls[e], r)}
      OBVIOUS
    <2> PICK q : q = [r EXCEPT !.clash = others # {}]
      OBVIOUS
    <2>1. calls'[c] = q /\ UNCHANGED faces
      BY DEF Asking
    <2>2. r = [x \in CallFields |-> r[x]]
      BY DEF CallOK
    <2>3. q.op = r.op /\ q.face = r.face
      BY <2>2 DEF CallFields
    <2> QED
      BY <2>1, <2>3
  <1>2. ASSUME NEW d \in FaceClients, Calling(d)', calls'[d].op = "extract"
        PROVE  calls'[d].face \notin GivenFaces
    <2>1. CASE d = c
      BY <1>1, <1>2, <2>1, FaceAssumption DEF Extracting, GivenFaces
    <2>2. CASE d # c
      <3>1. Calling(d) /\ calls'[d].op = calls[d].op /\ calls'[d].face = calls[d].face
        BY <1>2, <2>2, AskedOthers DEF CallFields
      <3> QED
        BY <1>2, <3>1 DEF GivenFaces
    <2> QED
      BY <2>1, <2>2
  <1> QED
    BY <1>1, <1>2, GivenStay DEF Steady

LEMMA AskedClasses ==
  ASSUME FaceInv, ClassInv, Steady, NEW c \in FaceClients, NEW r, Asking(c, r), CallOK(r),
         Extracting(r) => r.class = Nil /\ r.face = Nil,
         ~Extracting(r) => /\ ClassCall(r)'
                           /\ (r.class \notin doubtful => WholeClass(r.class)) => AtClass(r)
  PROVE  ClassInv'
  <1> PICK others : others = {d \in FaceClients : Calling(d) /\ Clash(calls[d], r)}
    OBVIOUS
  <1> PICK q : q = [r EXCEPT !.clash = others # {}]
    OBVIOUS
  <1>1. /\ calls'[c] = q /\ UNCHANGED <<medoids, documents, doubtful>> /\ ~Calling(c)
    BY DEF Asking
  <1>2. \A x \in CallFields \ {"clash"} : q[x] = r[x]
    BY DEF CallOK, CallFields
  <1>3. others = {} \/ q.clash
    BY DEF CallOK, CallFields
  <1>4. /\ q.op = r.op /\ q.class = r.class /\ q.step = r.step /\ q.new = r.new
        /\ q.keys = r.keys /\ q.face = r.face
    BY <1>2 DEF CallFields
  <1>5. ASSUME NEW d \in FaceClients \ {c}, Calling(d)
        PROVE  /\ \A x \in CallFields \ {"clash"} : calls'[d][x] = calls[d][x]
               /\ calls[d].clash => calls'[d].clash
               /\ Clash(calls[d], r) => calls'[d].clash
               /\ Calling(d)'
    <2>1. /\ \A x \in CallFields \ {"clash"} : calls'[d][x] = calls[d][x]
          /\ calls[d].clash => calls'[d].clash
          /\ Clash(calls[d], r) => calls'[d].clash
      BY <1>5, AskedOthers
    <2>2. calls'[d].op = calls[d].op /\ calls[d].op # "none"
      BY <1>5, <2>1 DEF CallFields, ClassInv, OneClassCall, Extracting, ClassCall
    <2>3. Calling(d)'
      BY <2>2 DEF Calling, NoCall
    <2> QED
      BY <2>1, <2>3
  <1>6. ASSUME NEW k \in ClassIds, Undisturbed(k)'
        PROVE  Undisturbed(k)
    <2>1. ASSUME NEW d \in FaceClients, Calling(d)
          PROVE  calls[d].class # k
      <3>1. d # c
        BY <1>1, <2>1
      <3>2. Calling(d)' /\ calls'[d].class = calls[d].class
        BY <1>5, <2>1, <3>1 DEF CallFields
      <3> QED
        BY <1>6, <3>2 DEF Undisturbed
    <2> QED
      BY <1>1, <1>6, <2>1 DEF Undisturbed
  <1>7. ASSUME NEW k \in ClassIds
        PROVE  ClassOK(k)'
    <2>1. ClassOK(k)
      BY DEF ClassInv
    <2>3. documents'[k] # Nil => GoodDocument(documents[k])'
      <3> PICK doc : doc = documents[k]
        OBVIOUS
      <3>1. doc # Nil => GoodDocument(doc)'
        BY <2>1, DocumentStays DEF ClassOK
      <3>2. documents' = documents
        BY <1>1
      <3> QED
        BY ONLY <3>1, <3>2, doc = documents[k] DEF GoodDocument
    <2> QED
      BY <1>1, <1>6, <2>1, <2>3 DEF ClassOK, Steady, WholeClass
  <1>8. ASSUME NEW d \in FaceClients, NEW e \in FaceClients \ {c}, d # e, Calling(d)', Calling(e)',
               ~Extracting(calls'[d]) \/ ~Extracting(calls'[e]), calls'[d].class = calls'[e].class
        PROVE  calls'[d].clash /\ calls'[e].clash
    <2>1. Calling(e) /\ calls'[e].class = calls[e].class /\ calls'[e].op = calls[e].op
      BY <1>5, <1>8, AskedOthers DEF CallFields
    <2>2. CASE d = c
      <3>1. q.class = calls[e].class /\ (~Extracting(r) \/ ~Extracting(calls[e]))
        BY <1>1, <1>4, <1>8, <2>1, <2>2 DEF Extracting
      <3>2. r.class # Nil
        <4>1. CASE ~Extracting(r)
          BY <4>1, FaceAssumption DEF ClassCall
        <4>2. CASE ~Extracting(calls[e])
          <5>1. calls[e].class \in ClassIds
            BY <2>1, <4>2 DEF ClassInv, OneClassCall, ClassCall
          <5>2. Nil \notin ClassIds
            BY FaceAssumption
          <5> QED
            BY ONLY <1>4, <3>1, <5>1, <5>2
        <4> QED
          BY <3>1, <4>1, <4>2
      <3>3. Clash(calls[e], r)
        BY <1>4, <3>1, <3>2 DEF Clash
      <3>4. e \in others
        BY <2>1, <3>3
      <3> QED
        BY <1>1, <1>3, <1>5, <2>1, <2>2, <3>3, <3>4
    <2>3. CASE d # c
      <3>1. Calling(d) /\ calls'[d].class = calls[d].class /\ calls'[d].op = calls[d].op
        BY <1>5, <1>8, <2>3, AskedOthers DEF CallFields
      <3>2. calls[d].clash /\ calls[e].clash
        BY <1>8, <2>1, <3>1 DEF ClassInv, Extracting
      <3> QED
        BY <1>5, <2>1, <2>3, <3>1, <3>2
    <2> QED
      BY <2>2, <2>3
  <1>9. ASSUME NEW d \in FaceClients, NEW e \in FaceClients, d # e, Calling(d)', Calling(e)',
               ~Extracting(calls'[d]), calls'[d].class = calls'[e].class
        PROVE  calls'[d].clash /\ calls'[e].clash
    <2>1. CASE e # c
      BY <1>8, <1>9, <2>1
    <2>2. CASE d # c
      BY <1>8, <1>9, <2>2
    <2> QED
      BY <1>9, <2>1, <2>2
  <1>10. ASSUME NEW d \in FaceClients, Calling(d)', d # c, NEW p, p = calls'[d]
         PROVE  OneClassCall(p)'
    <2> PICK u : u = calls[d]
      OBVIOUS
    <2>1. Calling(d) /\ (\A x \in CallFields \ {"clash"} : p[x] = u[x]) /\ (u.clash => p.clash)
      BY <1>5, <1>10, AskedOthers
    <2>2. /\ p.op = u.op /\ p.class = u.class /\ p.step = u.step /\ p.new = u.new
          /\ p.keys = u.keys /\ p.face = u.face
      BY <2>1 DEF CallFields
    <2>3. OneClassCall(u)
      BY <2>1 DEF ClassInv
    <2>4. ClassCall(u) => ClassCall(u)'
      BY CallStays
    <2>5. ClassCall(u)' => ClassCall(p)'
      BY ONLY <2>2 DEF ClassCall, Rewrites, GoodDocument
    <2>6. AtClass(u) => AtClass(p)'
      BY <1>1, <2>2 DEF AtClass, WholeClass, Untouched, Medoidless, Rewrites
    <2>7. Extracting(p) <=> Extracting(u)
      BY <2>2 DEF Extracting
    <2>8. u.clash => p.clash
      BY <2>1
    <2> QED
      BY ONLY <2>2, <2>3, <2>4, <2>5, <2>6, <2>7, <2>8 DEF OneClassCall, Extracting
  <1>11. OneClassCall(q)'
    <2>1. ~q.clash /\ ~Extracting(r) => (r.class \notin doubtful => WholeClass(r.class))
      <3> SUFFICES ASSUME ~q.clash, ~Extracting(r), r.class \notin doubtful
                   PROVE  WholeClass(r.class)
        OBVIOUS
      <3>1. r.class \in ClassIds /\ r.class # Nil
        BY FaceAssumption DEF ClassCall
      <3>2. \A d \in FaceClients : Calling(d) => calls[d].class # r.class
        BY <1>3, <3>1 DEF Clash
      <3>3. Undisturbed(r.class)
        BY <3>2 DEF Undisturbed
      <3> QED
        BY <3>1, <3>3 DEF ClassInv, ClassOK
    <2>2. AtClass(r) => AtClass(q)'
      BY <1>1, <1>4 DEF AtClass, WholeClass, Untouched, Medoidless, Rewrites
    <2>3. ClassCall(r)' => ClassCall(q)'
      BY ONLY <1>4 DEF ClassCall, Rewrites, GoodDocument
    <2>4. Extracting(q) <=> Extracting(r)
      BY <1>4 DEF Extracting
    <2>5. /\ Extracting(r) => r.class = Nil /\ r.face = Nil
          /\ ~Extracting(r) => /\ ClassCall(r)'
                               /\ (r.class \notin doubtful => WholeClass(r.class)) => AtClass(r)
      OBVIOUS
    <2> QED
      BY ONLY <1>4, <2>1, <2>2, <2>3, <2>4, <2>5 DEF OneClassCall, Extracting
  <1>12. \A d \in FaceClients : Calling(d)' => OneClassCall(calls[d])'
    <2> TAKE d \in FaceClients
    <2> HAVE Calling(d)'
    <2> PICK p : p = calls'[d]
      OBVIOUS
    <2>1. OneClassCall(p)'
      <3>1. CASE d = c
        <4>1. p = q
          BY <1>1, <3>1
        <4> QED
          BY <1>11, <4>1
      <3>2. CASE d # c
        BY <1>10, <3>2
      <3> QED
        BY <3>1, <3>2
    <2> QED
      BY ONLY <2>1, p = calls'[d] DEF OneClassCall, ClassCall, AtClass, WholeClass, GoodDocument,
         Extracting, Untouched, Medoidless, Rewrites
  <1>13. documents' = [k \in ClassIds |-> documents'[k]] /\ medoids' \in [ClassIds -> Vectors \cup {Nil}]
    BY <1>1 DEF ClassInv
  <1> QED
    BY <1>7, <1>9, <1>12, <1>13 DEF ClassInv, Extracting

\* What is asked, as it stands before the call meets its class.
LEMMA ClassRequests ==
  ASSUME FaceInv, ClassInv, NEW c \in FaceClients, FaceRequests(c)
  PROVE  ClassInv'
  <1> USE DEF CallOK, Chosen, Extracting, Call, CallFields
  <1>1. ASSUME NEW v \in Vectors, NEW save \in BOOLEAN, NEW index \in BOOLEAN,
               ExtractFace(c, v, save, index)
        PROVE  ClassInv'
    <2> PICK r : r = [Call("extract", Nil, "search") EXCEPT !.vector = v, !.save = save,
                                                           !.index = index]
      OBVIOUS
    <2>1. CallOK(r) /\ r.op = "extract" /\ r.class = Nil /\ r.face = Nil
      OBVIOUS
    <2>2. Asking(c, r) /\ idsUsed' = idsUsed
      BY <1>1 DEF ExtractFace
    <2>3. Steady
      BY <2>1, <2>2, AskedGiven
    <2> QED
      BY ONLY FaceInv, ClassInv, c \in FaceClients, <2>1, <2>2, <2>3, AskedClasses DEF Extracting
  <1>2. ASSUME NEW k \in ClassIds, NEW n \in {0, 2, 3}, NEW keys \in [1 .. n -> GivenFaces],
               CreateFaceClass(c, k, keys)
        PROVE  ClassInv'
    <2> PICK r : r = [Call("create", k, IF keys = <<>> THEN "add" ELSE "vectors")
                        EXCEPT !.keys = keys, !.new = EmptyDocument]
      OBVIOUS
    <2>1. /\ CallOK(r) /\ r.op = "create" /\ r.class = k /\ r.keys = keys /\ r.new = EmptyDocument
          /\ r.step = IF keys = <<>> THEN "add" ELSE "vectors"
      OBVIOUS
    <2>2. Asking(c, r) /\ idsUsed' = idsUsed \cup {k} /\ k \notin idsUsed
      BY <1>2 DEF CreateFaceClass
    <2>3. Steady
      BY <2>1, <2>2, AskedGiven
    <2>4. keys \in Seq(FaceIds) /\ Range(keys) \subseteq GivenFaces'
      <3>1. GivenFaces \subseteq FaceIds /\ GivenFaces \subseteq GivenFaces'
        BY <2>3 DEF GivenFaces, Steady
      <3> QED
        BY <1>2, <3>1 DEF Range
    <2>5. GoodDocument(EmptyDocument)'
      <3> PICK doc : doc = EmptyDocument
        OBVIOUS
      <3>1. doc.keys = <<>> /\ doc.medoid = Nil /\ doc \in ClassDocuments
        BY DEF EmptyDocument, ClassDocuments
      <3>2. Range(doc.keys) = {}
        BY <3>1 DEF Range
      <3>3. GoodDocument(doc)'
        BY <3>1, <3>2 DEF GoodDocument
      <3> QED
        BY <3>3 DEF GoodDocument, EmptyDocument
    <2>6. ClassCall(r)'
      <3>1. GoodDocument(r.new)'
        BY <2>1, <2>5 DEF GoodDocument
      <3>2. k \in idsUsed' /\ r.keys = keys
        BY <1>2, <2>1, <2>2
      <3> QED
        BY ONLY <2>1, <2>4, <3>1, <3>2, k \in ClassIds DEF ClassCall, Rewrites
    <2>7. documents[k] = Nil /\ medoids[k] = Nil
      BY <2>2 DEF ClassInv, ClassOK
    <2>8. AtClass(r)
      <3>1. r.new.medoid = Nil
        BY <2>1 DEF EmptyDocument
      <3> QED
        BY ONLY <2>1, <2>7, <3>1 DEF AtClass, Untouched, Medoidless, Rewrites
    <2> QED
      BY ONLY FaceInv, ClassInv, c \in FaceClients, <2>1, <2>2, <2>3, <2>6, <2>8, AskedClasses
         DEF Extracting
  <1>3. ASSUME NEW k \in ClassIds, NEW r, Asking(c, r), idsUsed' = idsUsed, CallOK(r),
               r.class = k, r.keys = <<>>,
               \/ Rewrites(r) /\ r.step = "read" /\ (r.op = "save" => r.face \in GivenFaces)
               \/ r.op = "delete" /\ r.step = "drop medoid"
        PROVE  ClassInv'
    <2>1. ~Extracting(r) /\ r.op # "create" /\ r.op \in {"save", "remove", "recompute", "delete"}
      BY <1>3 DEF Rewrites
    <2>2. Steady
      BY <1>3, <2>1, AskedGiven
    <2>3. ClassCall(r)'
      <3>1. r.keys \in Seq(FaceIds) /\ Range(r.keys) = {}
        <4>1. r.keys = <<>>
          BY <1>3
        <4> QED
          BY ONLY <4>1 DEF Range
      <3>2. GivenFaces \subseteq GivenFaces'
        BY <2>2 DEF Steady
      <3> QED
        <4>1. /\ r.class \in ClassIds /\ r.step \in {"read", "drop medoid"}
              /\ r.op = "delete" <=> r.step = "drop medoid"
              /\ r.op = "save" => r.face \in GivenFaces
          BY <1>3 DEF Rewrites
        <4> QED
          BY ONLY <2>1, <3>1, <3>2, <4>1 DEF ClassCall, Rewrites
    <2>4. (r.class \notin doubtful => WholeClass(r.class)) => AtClass(r)
      BY <1>3, <2>1 DEF AtClass, Untouched, Medoidless, Rewrites
    <2> QED
      BY ONLY FaceInv, ClassInv, c \in FaceClients, <1>3, <2>1, <2>2, <2>3, <2>4, AskedClasses
         DEF Extracting
  <1>4. ASSUME NEW k \in ClassIds, NEW f \in GivenFaces, SaveFaceToClass(c, k, f)
        PROVE  ClassInv'
    <2> PICK r : r = [Call("save", k, "read") EXCEPT !.face = f]
      OBVIOUS
    <2>1. CallOK(r) /\ Rewrites(r) /\ r.step = "read" /\ r.face = f /\ r.class = k /\ r.keys = <<>>
      BY DEF Rewrites
    <2>2. Asking(c, r) /\ idsUsed' = idsUsed
      BY <1>4 DEF SaveFaceToClass
    <2> QED
      BY <1>3, <2>1, <2>2
  <1>5. ASSUME NEW k \in ClassIds, NEW f \in GivenFaces, RemoveFaceFromClass(c, k, f)
        PROVE  ClassInv'
    <2> PICK r : r = [Call("remove", k, "read") EXCEPT !.face = f]
      OBVIOUS
    <2>1. CallOK(r) /\ Rewrites(r) /\ r.step = "read" /\ r.face = f /\ r.class = k /\ r.keys = <<>>
      BY DEF Rewrites
    <2>2. Asking(c, r) /\ idsUsed' = idsUsed
      BY <1>5 DEF RemoveFaceFromClass
    <2> QED
      BY <1>3, <2>1, <2>2
  <1>6. ASSUME NEW k \in ClassIds, RecomputeFaceClassMedoid(c, k)
        PROVE  ClassInv'
    <2> PICK r : r = Call("recompute", k, "read")
      OBVIOUS
    <2>1. CallOK(r) /\ Rewrites(r) /\ r.op # "save" /\ r.step = "read" /\ r.class = k /\ r.keys = <<>>
      BY DEF Rewrites
    <2>2. Asking(c, r) /\ idsUsed' = idsUsed
      BY <1>6 DEF RecomputeFaceClassMedoid
    <2> QED
      BY <1>3, <2>1, <2>2
  <1>7. ASSUME NEW k \in ClassIds, DeleteFaceClass(c, k)
        PROVE  ClassInv'
    <2> PICK r : r = Call("delete", k, "drop medoid")
      OBVIOUS
    <2>1. CallOK(r) /\ r.op = "delete" /\ r.step = "drop medoid" /\ r.class = k /\ r.keys = <<>>
      OBVIOUS
    <2>2. Asking(c, r) /\ idsUsed' = idsUsed
      BY <1>7 DEF DeleteFaceClass
    <2> QED
      BY <1>3, <2>1, <2>2
  <1> QED
    BY <1>1, <1>2, <1>4, <1>5, <1>6, <1>7 DEF FaceRequests

\* A request ends.
LEMMA ClassAnswered ==
  ASSUME FaceInv, ClassInv, NEW c \in FaceClients, ClassMove(c),
         NEW k, k = calls[c].class, NEW whole \in BOOLEAN,
         calls' = [calls EXCEPT ![c] = NoCall],
         doubtful' = IF calls[c].clash THEN doubtful \cup ({k} \ {Nil})
                     ELSE IF whole THEN doubtful \ ({k} \ {Nil}) ELSE doubtful,
         ~calls[c].clash /\ (whole \/ k \notin doubtful) => WholeClass(k)'
  PROVE  ClassInv'
  <1>1. k # Nil
    BY FaceAssumption DEF ClassMove, ClassInv, OneClassCall, ClassCall
  <1>2. /\ calls[c].clash => k \in doubtful'
        /\ k \notin doubtful' => ~calls[c].clash /\ (whole \/ k \notin doubtful)
    BY <1>1
  <1> QED
    BY <1>2, ClassMoves

\* A call about a class is at one of its steps, and its class where it left it.
LEMMA ClassCallIs ==
  ASSUME FaceInv, ClassInv, NEW c \in FaceClients, NEW step, Step(c, step),
         step \notin {"search", "save", "index"}
  PROVE  /\ Calling(c) /\ CallOK(calls[c]) /\ ~Extracting(calls[c]) /\ ClassCall(calls[c])
         /\ ~calls[c].clash => AtClass(calls[c])
         /\ calls[c].step = step /\ calls[c].class \in ClassIds /\ ClassOK(calls[c].class)
  <1>1. Calling(c) /\ calls[c].step = step /\ CallOK(calls[c])
    BY DEF Step, FaceInv
  <1>2. ~Extracting(calls[c])
    BY <1>1 DEF CallOK
  <1> QED
    BY <1>1, <1>2 DEF ClassInv, OneClassCall, ClassCall

LEMMA ReadClassInv ==
  ASSUME FaceInv, ClassInv, NEW c \in FaceClients, ReadClass(c)
  PROVE  ClassInv'
  <1> PICK r : r = calls[c]
    OBVIOUS
  <1> PICK k, doc : k = r.class /\ doc = documents[k]
    OBVIOUS
  <1>1. Step(c, "read") /\ SameFaces /\ UNCHANGED <<medoids, documents>>
    BY DEF ReadClass, SameClasses
  <1>2. /\ Calling(c) /\ CallOK(r) /\ ~Extracting(r) /\ ClassCall(r) /\ (~r.clash => AtClass(r))
        /\ r.step = "read" /\ k \in ClassIds /\ ClassOK(k)
    BY <1>1, ClassCallIs
  <1>3. Rewrites(r)
    BY <1>2 DEF ClassCall, Rewrites
  <1>4. ~r.clash /\ k \notin doubtful => WholeClass(k)
    BY <1>2, <1>3 DEF AtClass, Untouched
  <1>5. (doubtful' = doubtful \/ \A l \in ClassIds \ {k} : l \in doubtful' <=> l \in doubtful)
        => ClassMove(c)
    BY <1>1, <1>2 DEF ClassMove, ClassInv, ClassOK
  <1>6. CASE doc = Nil \/ Refused(doc.keys, r)
    <2>1. /\ calls' = [calls EXCEPT ![c] = NoCall]
          /\ doubtful' = IF r.clash THEN doubtful \cup ({k} \ {Nil}) ELSE doubtful
      BY <1>6 DEF ReadClass, Answered
    <2>2. ClassMove(c)
      BY <1>5, <2>1
    <2>3. WholeClass(k) => WholeClass(k)'
      BY <1>1 DEF WholeClass
    <2> QED
      BY ONLY FaceInv, ClassInv, c \in FaceClients, r = calls[c], k = r.class,
         <1>4, <2>1, <2>2, <2>3, ClassAnswered, FALSE \in BOOLEAN
  <1>7. CASE doc # Nil /\ ~Refused(doc.keys, r)
    <2> PICK keys : keys = NewKeys(doc.keys, r)
      OBVIOUS
    <2> PICK q : q = [r EXCEPT !.keys = keys, !.step = "vectors"]
      OBVIOUS
    <2>1. calls' = [calls EXCEPT ![c] = q] /\ doubtful' = doubtful
      BY <1>7 DEF ReadClass, OnTo
    <2>2. /\ q.op = r.op /\ q.class = k /\ q.keys = keys /\ q.step = "vectors"
          /\ q.face = r.face /\ q.clash = r.clash /\ q.new = r.new
      BY <1>2 DEF CallOK, CallFields
    <2>3. GoodDocument(doc) /\ k \in idsUsed
      BY <1>2, <1>7 DEF ClassOK
    <2> PICK old : old = doc.keys
      OBVIOUS
    <2>4. old \in Seq(FaceIds) /\ Range(old) \subseteq GivenFaces
      BY <2>3 DEF GoodDocument, ClassDocuments
    <2>5. keys \in Seq(FaceIds) /\ Range(keys) \subseteq GivenFaces
      <3>1. CASE r.op = "save"
        <4>1. keys = Append(old, r.face)
          BY <3>1 DEF NewKeys
        <4>2. r.face \in GivenFaces /\ r.face \in FaceIds
          BY <1>2, <3>1 DEF ClassCall, GivenFaces
        <4>4. /\ keys \in Seq(FaceIds) /\ Len(keys) = Len(old) + 1 /\ DOMAIN keys = 1 .. Len(old) + 1
              /\ keys[Len(old) + 1] = r.face /\ DOMAIN old = 1 .. Len(old) /\ Len(old) \in Nat
              /\ \A i \in 1 .. Len(old) : keys[i] = old[i]
          BY ONLY <2>4, <4>1, <4>2
        <4>5. \A i \in DOMAIN keys : i = Len(old) + 1 \/ i \in DOMAIN old
          BY ONLY <4>4
        <4>6. Range(keys) \subseteq GivenFaces
          BY ONLY <2>4, <4>2, <4>4, <4>5 DEF Range
        <4> QED
          BY <4>4, <4>6
      <3>2. CASE r.op = "remove"
        <4> PICK places : places = {i \in DOMAIN old : old[i] # r.face}
          OBVIOUS
        <4>1. keys = AtPlaces(old, places)
          BY <3>2 DEF NewKeys
        <4>2. keys \in Seq(FaceIds) /\ Range(keys) = {old[i] : i \in places}
          BY <2>4, <4>1, Filtered
        <4>3. {old[i] : i \in places} \subseteq Range(old)
          BY DEF Range
        <4> QED
          BY <2>4, <4>2, <4>3
      <3>3. CASE r.op = "recompute"
        BY <2>4, <3>3 DEF NewKeys
      <3> QED
        BY <1>3, <3>1, <3>2, <3>3 DEF Rewrites
    <2>6. ClassCall(q)
      BY ONLY <1>2, <1>3, <2>2, <2>3, <2>5 DEF ClassCall, Rewrites
    <2>7. ~q.clash => AtClass(q)'
      <3>1. ~q.clash /\ k \notin doubtful' => WholeClass(k)'
        BY <1>1, <1>4, <2>1, <2>2 DEF WholeClass
      <3> QED
        BY ONLY <1>3, <2>2, <3>1 DEF AtClass, Untouched, Medoidless, Rewrites, WholeClass
    <2>8. ClassMove(c) /\ ~Extracting(q) /\ q # NoCall
      <3>1. q.op # "none" /\ q.op # "extract"
        BY <1>3, <2>2 DEF Rewrites
      <3> QED
        BY <1>5, <2>1, <3>1 DEF Extracting, NoCall
    <2> QED
      BY ONLY FaceInv, ClassInv, c \in FaceClients, r = calls[c], k = r.class,
         <2>1, <2>2, <2>6, <2>7, <2>8, ClassMoves
  <1> QED
    BY <1>6, <1>7

\* A call about a class that has read it goes on.
LEMMA ClassCallOn ==
  ASSUME NEW r, ClassCall(r), r.step # "read", NEW q,
         q.op = r.op, q.class = r.class, q.keys = r.keys, q.face = r.face,
         r.op # "delete" => GoodDocument(q.new),
         \/ r.op = "delete" /\ q.step = "drop"
         \/ r.op = "create" /\ q.step \in {"insert", "add"}
         \/ Rewrites(r) /\ q.step \in {"drop medoid", "insert", "drop", "add"}
  PROVE  ClassCall(q)
  BY DEF ClassCall, Rewrites

LEMMA ListVectorsInv ==
  ASSUME FaceInv, ClassInv, NEW c \in FaceClients, ListVectors(c)
  PROVE  ClassInv'
  <1> PICK r : r = calls[c]
    OBVIOUS
  <1> PICK k, known : k = r.class /\ known = Known(r.keys, faces)
    OBVIOUS
  <1> PICK keys : keys = IF r.op = "create" THEN known ELSE r.keys
    OBVIOUS
  <1>1. Step(c, "vectors") /\ SameFaces /\ UNCHANGED <<medoids, documents>>
    BY DEF ListVectors, SameClasses
  <1>2. /\ Calling(c) /\ CallOK(r) /\ ~Extracting(r) /\ ClassCall(r) /\ (~r.clash => AtClass(r))
        /\ r.step = "vectors" /\ k \in ClassIds /\ ClassOK(k)
    BY <1>1, ClassCallIs
  <1>3. r.op = "create" \/ (Rewrites(r) /\ r.op # "create")
    BY <1>2 DEF ClassCall, Rewrites
  <1>4. ~r.clash /\ k \notin doubtful => WholeClass(k)
    BY <1>2, <1>3 DEF AtClass, Untouched, WholeClass
  <1>5. doubtful' = doubtful \/ (\A l \in ClassIds \ {k} : l \in doubtful' <=> l \in doubtful)
        => ClassMove(c)
    BY <1>1, <1>2 DEF ClassMove, ClassInv, ClassOK
  <1>6. CASE Len(known) < IF r.op = "create" THEN 2 ELSE 1
    <2>1. /\ calls' = [calls EXCEPT ![c] = NoCall]
          /\ doubtful' = IF r.clash THEN doubtful \cup ({k} \ {Nil}) ELSE doubtful
      BY <1>6 DEF ListVectors, Answered
    <2>2. ClassMove(c)
      BY <1>5, <2>1
    <2>3. WholeClass(k) => WholeClass(k)'
      BY <1>1 DEF WholeClass
    <2> QED
      BY ONLY FaceInv, ClassInv, c \in FaceClients, r = calls[c], k = r.class,
         <1>4, <2>1, <2>2, <2>3, ClassAnswered, FALSE \in BOOLEAN
  <1>7. CASE ~(Len(known) < IF r.op = "create" THEN 2 ELSE 1)
    <2> PICK doc : doc = Document(keys, faces)
      OBVIOUS
    <2> PICK step : step = IF r.op = "create" THEN "insert" ELSE "drop medoid"
      OBVIOUS
    <2> PICK q : q = [r EXCEPT !.new = doc, !.step = step]
      OBVIOUS
    <2>1. calls' = [calls EXCEPT ![c] = q] /\ doubtful' = doubtful
      BY <1>7 DEF ListVectors, OnTo
    <2>2. /\ q.op = r.op /\ q.class = k /\ q.keys = r.keys /\ q.step = step
          /\ q.face = r.face /\ q.clash = r.clash /\ q.new = doc
      BY <1>2 DEF CallOK, CallFields
    <2> PICK old : old = r.keys
      OBVIOUS
    <2>3. old \in Seq(FaceIds) /\ Range(old) \subseteq GivenFaces
      BY <1>2 DEF ClassCall
    <2> PICK places : places = {i \in DOMAIN old : faces[old[i]] # Nil}
      OBVIOUS
    <2>4. /\ known \in Seq(FaceIds) /\ Range(known) = {old[i] : i \in places}
          /\ known = AtPlaces(old, places)
      <3>1. known = AtPlaces(old, places)
        BY DEF Known
      <3>2. places \subseteq DOMAIN old
        OBVIOUS
      <3> QED
        BY ONLY <2>3, <3>1, <3>2, Filtered
    <2>5. Range(known) \subseteq GivenFaces /\ \A f \in Range(known) : faces[f] # Nil
      <3>1. \A i \in places : i \in DOMAIN old /\ faces[old[i]] # Nil /\ old[i] \in Range(old)
        BY DEF Range
      <3> QED
        BY <2>3, <2>4, <3>1
    <2>6. keys \in Seq(FaceIds) /\ Range(keys) \subseteq GivenFaces
      BY <2>3, <2>4, <2>5
    <2>7. known # <<>>
      <3>1. Len(known) # 0
        BY ONLY <1>7
      <3> QED
        BY ONLY <3>1
    <2>8. Known(known, faces) = known
      <3>1. {i \in DOMAIN known : faces[known[i]] # Nil} = DOMAIN known
        BY <2>5 DEF Range
      <3>2. AtPlaces(known, DOMAIN known) = known
        BY ONLY <2>4, Filtered
      <3> QED
        BY <3>1, <3>2 DEF Known
    <2>9. Known(keys, faces) # <<>> /\ faces \in [FaceIds -> Vectors \cup {Nil}]
      BY <2>7, <2>8 DEF FaceInv
    <2>10. /\ doc \in ClassDocuments /\ doc.keys = keys /\ doc.medoid # Nil
           /\ keys # <<>> /\ Contains(keys, doc.key)
           /\ (\A f \in Range(keys) : faces[f] # Nil) =>
                 faces[MedoidKey(keys, faces)] = doc.medoid
      BY ONLY <2>6, <2>9, doc = Document(keys, faces), DocumentIs
    <2>11. GoodDocument(doc)
      BY ONLY <2>6, <2>10 DEF GoodDocument
    <2>12. ClassCall(q)
      <3>1. step \in {"insert", "drop medoid"} /\ (r.op = "create" <=> step = "insert")
        OBVIOUS
      <3> QED
        <4>1. ClassCall(r) /\ r.step = "vectors"
          BY <1>2
        <4> QED
          <5>1. q.op = r.op /\ q.class = r.class /\ q.keys = r.keys /\ q.face = r.face
            BY <2>2
          <5>2. GoodDocument(q.new)
            BY <2>2, <2>11
          <5>3. \/ r.op = "create" /\ q.step \in {"insert", "add"}
                \/ Rewrites(r) /\ q.step \in {"drop medoid", "insert", "drop", "add"}
            BY ONLY <1>3, <2>2, <3>1
          <5> QED
            BY ONLY <4>1, <5>1, <5>2, <5>3, ClassCallOn
    <2>13. ~q.clash => AtClass(q)'
      <3>1. ~q.clash /\ k \notin doubtful' => WholeClass(k)'
        BY <1>1, <1>4, <2>1, <2>2 DEF WholeClass
      <3>2. ~q.clash /\ r.op = "create" => documents'[k] = Nil /\ medoids'[k] = Nil
        BY <1>1, <1>2, <2>2 DEF AtClass
      <3>3. r.op = "create" => step = "insert"
        OBVIOUS
      <3>4. r.op # "create" => step = "drop medoid"
        OBVIOUS
      <3> QED
        BY ONLY <1>3, <2>2, <3>1, <3>2, <3>3, <3>4 DEF AtClass, Untouched, Medoidless, Rewrites,
           WholeClass
    <2>14. ClassMove(c) /\ ~Extracting(q) /\ q # NoCall
      <3>1. q.op # "none" /\ q.op # "extract"
        BY <1>3, <2>2 DEF Rewrites
      <3> QED
        BY <1>5, <2>1, <3>1 DEF Extracting, NoCall
    <2> QED
      BY ONLY FaceInv, ClassInv, c \in FaceClients, r = calls[c], k = r.class,
         <2>1, <2>2, <2>12, <2>13, <2>14, ClassMoves
  <1> QED
    BY <1>6, <1>7

LEMMA DropMedoidInv ==
  ASSUME FaceInv, ClassInv, NEW c \in FaceClients, DropMedoid(c)
  PROVE  ClassInv'
  <1> PICK r : r = calls[c]
    OBVIOUS
  <1> PICK k, step : k = r.class /\ step = AfterDropMedoid(r)
    OBVIOUS
  <1> PICK q : q = [r EXCEPT !.step = step]
    OBVIOUS
  <1>1. /\ Step(c, "drop medoid") /\ SameFaces /\ UNCHANGED <<documents, doubtful>>
        /\ medoids' = [medoids EXCEPT ![k] = Nil] /\ calls' = [calls EXCEPT ![c] = q]
    BY DEF DropMedoid, OnTo
  <1>2. /\ Calling(c) /\ CallOK(r) /\ ~Extracting(r) /\ ClassCall(r) /\ (~r.clash => AtClass(r))
        /\ r.step = "drop medoid" /\ k \in ClassIds /\ ClassOK(k)
    BY <1>1, ClassCallIs
  <1>3. /\ q.op = r.op /\ q.class = k /\ q.keys = r.keys /\ q.step = step
        /\ q.face = r.face /\ q.clash = r.clash /\ q.new = r.new
    BY <1>2 DEF CallOK, CallFields
  <1>4. \/ Rewrites(r) /\ r.op # "delete" /\ r.op # "create" /\ step = "insert"
        \/ r.op = "delete" /\ step = "drop"
    BY <1>2 DEF ClassCall, Rewrites, AfterDropMedoid
  <1>5. \A l \in ClassIds : medoids'[l] = IF l = k THEN Nil ELSE medoids[l]
    BY <1>1 DEF ClassInv
  <1>6. ClassMove(c)
    BY <1>1, <1>2, <1>5 DEF ClassMove, ClassInv, ClassOK
  <1>7. ClassCall(q)
    <2>1. r.op # "delete" => GoodDocument(r.new)
      BY <1>2 DEF ClassCall
    <2> QED
      BY <1>2, <1>3, <1>4, <2>1, ClassCallOn
  <1>8. AtClass(q)'
    <2>1. medoids'[k] = Nil
      BY <1>2, <1>5
    <2> QED
      BY ONLY <1>3, <1>4, <2>1 DEF AtClass, Untouched, Medoidless, Rewrites
  <1>9. ~Extracting(q) /\ q # NoCall
    <2>1. q.op # "none" /\ q.op # "extract"
      BY <1>3, <1>4 DEF Rewrites
    <2> QED
      BY <2>1 DEF Extracting, NoCall
  <1> QED
    BY ONLY FaceInv, ClassInv, c \in FaceClients, r = calls[c], k = r.class,
       <1>1, <1>3, <1>6, <1>7, <1>8, <1>9, ClassMoves

LEMMA InsertMedoidInv ==
  ASSUME FaceInv, ClassInv, NEW c \in FaceClients, InsertMedoid(c)
  PROVE  ClassInv'
  <1> PICK r : r = calls[c]
    OBVIOUS
  <1> PICK k, step : k = r.class /\ step = IF r.op = "create" THEN "add" ELSE "drop"
    OBVIOUS
  <1>1. Step(c, "insert") /\ SameFaces /\ UNCHANGED documents
    BY DEF InsertMedoid
  <1>2. /\ Calling(c) /\ CallOK(r) /\ ~Extracting(r) /\ ClassCall(r) /\ (~r.clash => AtClass(r))
        /\ r.step = "insert" /\ k \in ClassIds /\ ClassOK(k)
    BY <1>1, ClassCallIs
  <1>3. \/ Rewrites(r) /\ r.op # "delete" /\ r.op # "create" /\ step = "drop"
        \/ r.op = "create" /\ step = "add"
    BY <1>2 DEF ClassCall, Rewrites
  <1>4. ~r.clash => medoids[k] = Nil
    BY <1>2, <1>3 DEF AtClass, Medoidless
  <1>5. r.op = "create" /\ ~r.clash => documents[k] = Nil
    BY <1>2 DEF AtClass
  <1>6. CASE medoids[k] # Nil
    <2>1. /\ calls' = [calls EXCEPT ![c] = NoCall] /\ UNCHANGED medoids
          /\ doubtful' = IF r.clash THEN doubtful \cup ({k} \ {Nil}) ELSE doubtful
      BY <1>6 DEF InsertMedoid, Answered
    <2>2. ClassMove(c)
      BY <1>1, <1>2, <2>1 DEF ClassMove, ClassInv, ClassOK
    <2> QED
      BY ONLY FaceInv, ClassInv, c \in FaceClients, r = calls[c], k = r.class,
         <1>4, <1>6, <2>1, <2>2, ClassAnswered, FALSE \in BOOLEAN
  <1>7. CASE medoids[k] = Nil
    <2> PICK q : q = [r EXCEPT !.step = step]
      OBVIOUS
    <2>1. /\ medoids' = [medoids EXCEPT ![k] = r.new.medoid]
          /\ calls' = [calls EXCEPT ![c] = q] /\ doubtful' = doubtful
      BY <1>7 DEF InsertMedoid, OnTo
    <2>2. /\ q.op = r.op /\ q.class = k /\ q.keys = r.keys /\ q.step = step
          /\ q.face = r.face /\ q.clash = r.clash /\ q.new = r.new
      BY <1>2 DEF CallOK, CallFields
    <2>3. GoodDocument(r.new) /\ k \in idsUsed
      BY <1>2, <1>3 DEF ClassCall
    <2>4. r.new.medoid \in Vectors \cup {Nil}
      BY <2>3 DEF GoodDocument, ClassDocuments
    <2>5. \A l \in ClassIds : medoids'[l] = IF l = k THEN r.new.medoid ELSE medoids[l]
      BY <2>1 DEF ClassInv
    <2>6. ClassMove(c)
      <3>1. medoids' \in [ClassIds -> Vectors \cup {Nil}]
        BY <2>1, <2>4 DEF ClassInv
      <3> QED
        BY <1>1, <1>2, <2>1, <2>3, <2>5, <3>1 DEF ClassMove, ClassInv, ClassOK
    <2>7. ClassCall(q)
      BY <1>2, <1>3, <2>2, <2>3, ClassCallOn
    <2>8. ~q.clash => AtClass(q)'
      <3>1. medoids'[k] = q.new.medoid
        BY <1>2, <2>2, <2>5
      <3>2. r.op = "create" /\ ~q.clash => documents'[k] = Nil
        BY <1>1, <1>5, <2>2
      <3> QED
        BY ONLY <1>3, <2>2, <3>1, <3>2 DEF AtClass, Untouched, Medoidless, Rewrites
    <2>9. ~Extracting(q) /\ q # NoCall
      <3>1. q.op # "none" /\ q.op # "extract"
        BY <1>3, <2>2 DEF Rewrites
      <3> QED
        BY <3>1 DEF Extracting, NoCall
    <2> QED
      BY ONLY FaceInv, ClassInv, c \in FaceClients, r = calls[c], k = r.class,
         <2>1, <2>2, <2>6, <2>7, <2>8, <2>9, ClassMoves
  <1> QED
    BY <1>6, <1>7

LEMMA DropDocumentInv ==
  ASSUME FaceInv, ClassInv, NEW c \in FaceClients, DropDocument(c)
  PROVE  ClassInv'
  <1> PICK r : r = calls[c]
    OBVIOUS
  <1> PICK k : k = r.class
    OBVIOUS
  <1>1. /\ Step(c, "drop") /\ SameFaces /\ UNCHANGED medoids
        /\ documents' = [documents EXCEPT ![k] = Nil]
    BY DEF DropDocument
  <1>2. /\ Calling(c) /\ CallOK(r) /\ ~Extracting(r) /\ ClassCall(r) /\ (~r.clash => AtClass(r))
        /\ r.step = "drop" /\ k \in ClassIds /\ ClassOK(k)
    BY <1>1, ClassCallIs
  <1>3. \A l \in ClassIds : documents'[l] = IF l = k THEN Nil ELSE documents[l]
    BY <1>1 DEF ClassInv
  <1>4. (\A l \in ClassIds \ {k} : l \in doubtful' <=> l \in doubtful) => ClassMove(c)
    <2>1. documents' = [l \in ClassIds |-> documents'[l]]
      BY <1>1 DEF ClassInv
    <2> QED
      BY <1>1, <1>2, <1>3, <2>1 DEF ClassMove, ClassInv, ClassOK
  <1>5. CASE r.op = "delete"
    <2>1. /\ calls' = [calls EXCEPT ![c] = NoCall]
          /\ doubtful' = IF r.clash THEN doubtful \cup ({k} \ {Nil}) ELSE doubtful \ ({k} \ {Nil})
      BY <1>5 DEF DropDocument, Answered
    <2>2. ClassMove(c)
      BY <1>4, <2>1
    <2>3. ~r.clash => WholeClass(k)'
      BY <1>1, <1>2, <1>3, <1>5 DEF AtClass, Medoidless, WholeClass
    <2> QED
      BY ONLY FaceInv, ClassInv, c \in FaceClients, r = calls[c], k = r.class,
         <2>1, <2>2, <2>3, ClassAnswered, TRUE \in BOOLEAN
  <1>6. CASE r.op # "delete"
    <2> PICK q : q = [r EXCEPT !.step = "add"]
      OBVIOUS
    <2>1. calls' = [calls EXCEPT ![c] = q] /\ doubtful' = doubtful
      BY <1>6 DEF DropDocument, OnTo
    <2>2. /\ q.op = r.op /\ q.class = k /\ q.keys = r.keys /\ q.step = "add"
          /\ q.face = r.face /\ q.clash = r.clash /\ q.new = r.new
      BY <1>2 DEF CallOK, CallFields
    <2>3. Rewrites(r) /\ r.op # "create"
      BY <1>2, <1>6 DEF ClassCall, Rewrites
    <2>4. ClassMove(c)
      BY <1>4, <2>1
    <2>5. ClassCall(q)
      <3>1. GoodDocument(r.new)
        BY <1>2, <1>6 DEF ClassCall
      <3> QED
        BY <1>2, <2>2, <2>3, <3>1, ClassCallOn DEF Rewrites
    <2>6. ~q.clash => AtClass(q)'
      <3>1. documents'[k] = Nil /\ (~q.clash => medoids'[k] = q.new.medoid)
        BY <1>1, <1>2, <1>3, <2>2, <2>3 DEF AtClass
      <3> QED
        BY ONLY <2>2, <2>3, <3>1 DEF AtClass, Untouched, Medoidless, Rewrites
    <2>7. ~Extracting(q) /\ q # NoCall
      <3>1. q.op # "none" /\ q.op # "extract"
        BY <2>2, <2>3 DEF Rewrites
      <3> QED
        BY <3>1 DEF Extracting, NoCall
    <2> QED
      BY ONLY FaceInv, ClassInv, c \in FaceClients, r = calls[c], k = r.class,
         <2>1, <2>2, <2>4, <2>5, <2>6, <2>7, ClassMoves
  <1> QED
    BY <1>5, <1>6

LEMMA AddClassDocumentInv ==
  ASSUME FaceInv, ClassInv, NEW c \in FaceClients, AddClassDocument(c)
  PROVE  ClassInv'
  <1> PICK r : r = calls[c]
    OBVIOUS
  <1> PICK k : k = r.class
    OBVIOUS
  <1>1. Step(c, "add") /\ SameFaces /\ UNCHANGED medoids
    BY DEF AddClassDocument
  <1>2. /\ Calling(c) /\ CallOK(r) /\ ~Extracting(r) /\ ClassCall(r) /\ (~r.clash => AtClass(r))
        /\ r.step = "add" /\ k \in ClassIds /\ ClassOK(k)
    BY <1>1, ClassCallIs
  <1>3. ~r.clash => documents[k] = Nil /\ medoids[k] = r.new.medoid
    BY <1>2 DEF AtClass
  <1>4. GoodDocument(r.new) /\ k \in idsUsed
    BY <1>2 DEF ClassCall
  <1>5. CASE documents[k] # Nil
    <2>1. /\ calls' = [calls EXCEPT ![c] = NoCall] /\ UNCHANGED documents
          /\ doubtful' = IF r.clash THEN doubtful \cup ({k} \ {Nil}) ELSE doubtful
      BY <1>5 DEF AddClassDocument, Answered
    <2>2. ClassMove(c)
      BY <1>1, <1>2, <2>1 DEF ClassMove, ClassInv, ClassOK
    <2> QED
      BY ONLY FaceInv, ClassInv, c \in FaceClients, r = calls[c], k = r.class,
         <1>3, <1>5, <2>1, <2>2, ClassAnswered, FALSE \in BOOLEAN
  <1>6. CASE documents[k] = Nil
    <2>1. /\ calls' = [calls EXCEPT ![c] = NoCall]
          /\ documents' = [documents EXCEPT ![k] = r.new]
          /\ doubtful' = IF r.clash THEN doubtful \cup ({k} \ {Nil}) ELSE doubtful \ ({k} \ {Nil})
      BY <1>6 DEF AddClassDocument, Answered
    <2>2. \A l \in ClassIds : documents'[l] = IF l = k THEN r.new ELSE documents[l]
      BY <2>1 DEF ClassInv
    <2>3. ClassMove(c)
      <3>1. documents' = [l \in ClassIds |-> documents'[l]]
        BY <2>1 DEF ClassInv
      <3> QED
        BY <1>1, <1>2, <1>4, <2>1, <2>2, <3>1 DEF ClassMove, ClassInv, ClassOK
    <2>4. ~r.clash => WholeClass(k)'
      <3>1. r.new # Nil
        BY <1>4, FaceAssumption DEF GoodDocument
      <3> QED
        BY <1>1, <1>2, <1>3, <2>2, <3>1 DEF WholeClass
    <2> QED
      BY ONLY FaceInv, ClassInv, c \in FaceClients, r = calls[c], k = r.class,
         <2>1, <2>3, <2>4, ClassAnswered, TRUE \in BOOLEAN
  <1> QED
    BY <1>5, <1>6

\* A step of an extraction, which is about no class.
LEMMA ExtractionInv ==
  ASSUME FaceInv, ClassInv, NEW c \in FaceClients, Calling(c), Extracting(calls[c]),
         UNCHANGED <<medoids, documents, doubtful>>, idsUsed \subseteq idsUsed',
         NEW r, calls' = [calls EXCEPT ![c] = r],
         r # NoCall => /\ Extracting(r) /\ r.class = Nil /\ r.step # "search"
                       /\ r.face = calls[c].face \/ r.face \notin idsUsed,
         \A f \in GivenFaces : faces'[f] = faces[f]
  PROVE  ClassInv'
  <1>1. \A d \in FaceClients : calls'[d] = IF d = c THEN r ELSE calls[d]
    BY DEF FaceInv
  <1>2. ASSUME NEW d \in FaceClients, Calling(d)', calls'[d].op = "extract"
        PROVE  calls'[d].face \notin GivenFaces
    <2>1. CASE d = c
      BY <1>1, <1>2, <2>1 DEF GivenFaces, Calling, Extracting
    <2>2. CASE d # c
      BY <1>1, <1>2, <2>2 DEF GivenFaces, Calling
    <2> QED
      BY <2>1, <2>2
  <1>3. Steady
    BY <1>2, GivenStay DEF Steady
  <1>4. \A d \in FaceClients : Calling(d) /\ ~Extracting(calls[d]) => calls'[d] = calls[d]
    BY <1>1
  <1>5. ASSUME NEW d \in FaceClients, Calling(d)'
        PROVE  /\ Calling(d)
               /\ \/ calls'[d] = calls[d]
                  \/ /\ Extracting(calls[d]) /\ Extracting(calls'[d])
                     /\ calls'[d].class = Nil /\ calls'[d].step # "search"
    BY <1>1, <1>5 DEF Calling
  <1> QED
    BY <1>3, <1>4, <1>5, NoClassChanges

LEMMA ExtractionSteps ==
  ASSUME FaceInv, ClassInv, NEW c \in FaceClients, SearchFace(c) \/ SaveAligned(c) \/ IndexFace(c)
  PROVE  ClassInv'
  <1> PICK r : r = calls[c]
    OBVIOUS
  <1>1. /\ Calling(c) /\ CallOK(r) /\ r.step \in {"search", "save", "index"}
        /\ UNCHANGED <<medoids, documents>>
    BY DEF SearchFace, SaveAligned, IndexFace, Step, SameClasses, FaceInv
  <1>2. Extracting(r) /\ r.class = Nil /\ r.op = "extract"
    <2>1. Extracting(r)
      BY <1>1 DEF CallOK
    <2> QED
      BY <1>1, <2>1 DEF ClassInv, OneClassCall, Extracting
  <1>3. ASSUME Answered(c, TRUE), idsUsed' = idsUsed, \A f \in GivenFaces : faces'[f] = faces[f]
        PROVE  ClassInv'
    <2>1. calls' = [calls EXCEPT ![c] = NoCall] /\ doubtful' = doubtful
      BY <1>2, <1>3 DEF Answered
    <2> QED
      BY <1>1, <1>2, <1>3, <2>1, ExtractionInv
  <1>4. CASE SearchFace(c)
    <2>1. CASE SameFace(r.vector) # {}
      BY <1>3, <1>4, <2>1 DEF SearchFace
    <2>2. CASE SameFace(r.vector) = {}
      <3>1. PICK f \in FaceIds \ idsUsed :
               /\ idsUsed' = idsUsed \cup {f}
               /\ OnTo(c, [r EXCEPT !.face = f, !.step = IF r.save THEN "save" ELSE "index"])
        BY <1>4, <2>2 DEF SearchFace
      <3> PICK q : q = [r EXCEPT !.face = f, !.step = IF r.save THEN "save" ELSE "index"]
        OBVIOUS
      <3>2. q.op = r.op /\ q.class = r.class /\ q.face = f /\ q.step \in {"save", "index"}
        BY <1>1 DEF CallOK, CallFields
      <3>3. calls' = [calls EXCEPT ![c] = q] /\ doubtful' = doubtful /\ UNCHANGED faces
        BY <1>4, <3>1 DEF OnTo, SearchFace
      <3>4. Extracting(q) /\ q.class = Nil /\ q.step # "search" /\ q.face \notin idsUsed
        BY <1>2, <3>2 DEF Extracting
      <3> QED
        BY <1>1, <1>2, <3>1, <3>3, <3>4, ExtractionInv
    <2> QED
      BY <2>1, <2>2
  <1>5. CASE SaveAligned(c)
    <2>1. CASE r.index
      <3> PICK q : q = [r EXCEPT !.step = "index"]
        OBVIOUS
      <3>1. q.op = r.op /\ q.class = r.class /\ q.face = r.face /\ q.step = "index"
        BY <1>1 DEF CallOK, CallFields
      <3>2. calls' = [calls EXCEPT ![c] = q] /\ doubtful' = doubtful /\ UNCHANGED <<faces, idsUsed>>
        BY <1>5, <2>1 DEF OnTo, SaveAligned
      <3>3. Extracting(q) /\ q.class = Nil /\ q.step # "search"
        BY <1>2, <3>1 DEF Extracting
      <3> QED
        BY <1>1, <1>2, <3>1, <3>2, <3>3, ExtractionInv
    <2>2. CASE ~r.index
      BY <1>3, <1>5, <2>2 DEF SaveAligned
    <2> QED
      BY <2>1, <2>2
  <1>6. CASE IndexFace(c)
    <2>1. Answered(c, TRUE) /\ idsUsed' = idsUsed /\ faces' = [faces EXCEPT ![r.face] = r.vector]
      BY <1>6 DEF IndexFace
    <2>2. \A f \in GivenFaces : f # r.face /\ f \in FaceIds
      BY <1>1, <1>2 DEF GivenFaces
    <2>3. \A f \in GivenFaces : faces'[f] = faces[f]
      BY <2>1, <2>2 DEF FaceInv
    <2> QED
      BY <1>3, <2>1, <2>3
  <1> QED
    BY <1>4, <1>5, <1>6

LEMMA GivesUp ==
  ASSUME FaceInv, ClassInv, NEW c \in FaceClients, GiveUp(c)
  PROVE  ClassInv'
  <1> PICK k : k = calls[c].class
    OBVIOUS
  <1>1. /\ Calling(c) /\ SameFaces /\ UNCHANGED <<medoids, documents>>
        /\ calls' = [calls EXCEPT ![c] = NoCall] /\ doubtful' = doubtful \cup ({k} \ {Nil})
    BY DEF GiveUp, SameClasses
  <1>2. CASE Extracting(calls[c])
    <2>1. doubtful' = doubtful
      BY <1>1, <1>2 DEF ClassInv, OneClassCall
    <2> QED
      BY <1>1, <1>2, <2>1, ExtractionInv DEF SameFaces
  <1>3. CASE ~Extracting(calls[c])
    <2>1. k \in ClassIds /\ k # Nil
      BY <1>1, <1>3, FaceAssumption DEF ClassInv, OneClassCall, ClassCall
    <2>2. ClassMove(c)
      BY <1>1, <1>3, <2>1 DEF ClassMove, ClassInv, ClassOK
    <2>3. k \in doubtful'
      BY <1>1, <2>1
    <2> QED
      BY ONLY FaceInv, ClassInv, c \in FaceClients, k = calls[c].class, <1>1, <2>2, <2>3, ClassMoves
  <1> QED
    BY <1>2, <1>3

LEMMA GoesOnFailing ==
  ASSUME FaceInv, ClassInv, NEW c \in FaceClients, GoOn(c)
  PROVE  ClassInv'
  <1> PICK p : p = calls[c]
    OBVIOUS
  <1> PICK r, k : r = [p EXCEPT !.clash = TRUE] /\ k = p.class
    OBVIOUS
  <1>1. Calling(c) /\ UNCHANGED <<faces, shots, medoids, documents>> /\ CallOK(p)
        /\ OneClassCall(p)
    BY DEF GoOn, FaceInv, SameClasses, ClassInv
  <1>2. /\ r = [x \in CallFields |-> r[x]] /\ r.clash = TRUE
        /\ \A x \in CallFields \ {"clash"} : r[x] = p[x]
    BY <1>1 DEF CallOK, CallFields
  <1>3. /\ r.op = p.op /\ r.class = k /\ r.keys = p.keys /\ r.face = p.face /\ r.new = p.new
        /\ r.step = p.step
    BY <1>2 DEF CallFields
  <1>4. ASSUME NEW step, \/ r.step = "drop" /\ r.op # "delete" /\ step = "add"
                         \/ r.step = "drop medoid" /\ r.op = "delete" /\ step = "drop",
               calls' = [calls EXCEPT ![c] = [r EXCEPT !.step = step]],
               UNCHANGED <<doubtful, idsUsed, repeated, unseen>>
        PROVE  ClassInv'
    <2> PICK q : q = [r EXCEPT !.step = step]
      OBVIOUS
    <2>1. /\ q.op = p.op /\ q.class = k /\ q.keys = p.keys /\ q.face = p.face /\ q.new = p.new
          /\ q.step = step
      BY <1>2, <1>3 DEF CallFields
    <2>a. q.clash
      BY <1>2 DEF CallFields
    <2>2. ~Extracting(p)
      BY <1>1, <1>3, <1>4 DEF CallOK
    <2>3. ClassCall(p)
      <3>1. OneClassCall(p)
        BY <1>1
      <3> QED
        BY ONLY <2>2, <3>1 DEF OneClassCall
    <2>4. \/ p.step = "drop" /\ p.op # "delete" /\ step = "add"
          \/ p.step = "drop medoid" /\ p.op = "delete" /\ step = "drop"
      BY ONLY <1>3, <1>4
    <2>5. \/ p.op = "delete" /\ step = "drop"
          \/ Rewrites(p) /\ step = "add" /\ GoodDocument(p.new)
      BY ONLY <2>3, <2>4 DEF ClassCall, Rewrites
    <2>6. ClassCall(q)
      <3>1. p.step # "read"
        BY ONLY <2>4
      <3>2. p.op # "delete" => GoodDocument(q.new)
        <4>1. q.new = p.new
          BY <2>1
        <4> QED
          BY ONLY <2>5, <4>1
      <3>3. \/ p.op = "delete" /\ q.step = "drop"
            \/ Rewrites(p) /\ q.step = "add"
        BY ONLY <2>1, <2>5
      <3>4. q.op = p.op /\ q.class = p.class /\ q.keys = p.keys /\ q.face = p.face
        BY <2>1
      <3> QED
        BY ONLY <2>3, <3>1, <3>2, <3>3, <3>4, ClassCallOn
    <2>7. ClassMove(c)
      <3>1. k \in ClassIds
        BY <2>3 DEF ClassCall
      <3> QED
        <4>1. \A l \in ClassIds : ClassOK(l)
          BY DEF ClassInv
        <4>2. /\ documents = [l \in ClassIds |-> documents[l]]
              /\ medoids \in [ClassIds -> Vectors \cup {Nil}]
          BY DEF ClassInv
        <4>3. Calling(c) /\ UNCHANGED <<faces, shots, idsUsed, repeated, unseen, medoids, documents, doubtful>>
          BY <1>1, <1>4
        <4> QED
          BY ONLY <2>2, <3>1, <4>1, <4>2, <4>3, p = calls[c], k = p.class
             DEF ClassMove, SameFaces, ClassOK
    <2>8. ~Extracting(q) /\ q # NoCall
      <3>1. q.op # "none" /\ q.op # "extract"
        BY <2>1, <2>5 DEF Rewrites
      <3> QED
        BY <3>1 DEF Extracting, NoCall
    <2>9. calls' = [calls EXCEPT ![c] = q] /\ q.clash
      BY <1>4, <2>a
    <2> QED
      BY ONLY FaceInv, ClassInv, c \in FaceClients, p = calls[c], k = p.class,
         <2>1, <2>6, <2>7, <2>8, <2>9, ClassMoves
  <1>5. CASE r.step = "save" /\ UNCHANGED <<doubtful, idsUsed, repeated>>
             /\ calls' = [calls EXCEPT ![c] = IF r.index THEN [p EXCEPT !.step = "index"] ELSE NoCall]
    <2>1. Extracting(p) /\ p.class = Nil
      BY <1>1, <1>3, <1>5 DEF CallOK, OneClassCall
    <2>2. CASE r.index
      <3> PICK q : q = [p EXCEPT !.step = "index"]
        OBVIOUS
      <3>1. q.op = p.op /\ q.class = p.class /\ q.face = p.face /\ q.step = "index"
        BY <1>1 DEF CallOK, CallFields
      <3>2. calls' = [calls EXCEPT ![c] = q]
        BY <1>5, <2>2
      <3>3. Extracting(q) /\ q.class = Nil /\ q.step # "search"
        BY <2>1, <3>1 DEF Extracting
      <3>4. /\ Calling(c) /\ UNCHANGED <<medoids, documents, doubtful>> /\ idsUsed' = idsUsed
            /\ \A f \in GivenFaces : faces'[f] = faces[f]
        BY <1>1, <1>5
      <3> QED
        BY ONLY FaceInv, ClassInv, c \in FaceClients, p = calls[c], <2>1, <3>1, <3>2, <3>3, <3>4,
           ExtractionInv
    <2>3. CASE ~r.index
      BY <1>1, <1>5, <2>1, <2>3, ExtractionInv
    <2> QED
      BY <2>2, <2>3
  <1>6. ASSUME r.step = "search", UNCHANGED <<doubtful, repeated, unseen>>,
               NEW f \in FaceIds \ idsUsed, idsUsed' = idsUsed \cup {f},
               calls' = [calls EXCEPT ![c] = [r EXCEPT !.face = f,
                            !.step = IF r.save THEN "save" ELSE "index"]]
        PROVE  ClassInv'
    <2> PICK q : q = [r EXCEPT !.face = f, !.step = IF r.save THEN "save" ELSE "index"]
      OBVIOUS
    <2>1. q.op = p.op /\ q.class = p.class /\ q.face = f /\ q.step \in {"save", "index"}
      BY <1>2, <1>3 DEF CallFields
    <2>2. Extracting(p) /\ p.class = Nil
      BY <1>1, <1>3, <1>6 DEF CallOK, OneClassCall
    <2>3. calls' = [calls EXCEPT ![c] = q]
      BY <1>6
    <2>4. Extracting(q) /\ q.class = Nil /\ q.step # "search" /\ q.face \notin idsUsed
      BY <2>1, <2>2 DEF Extracting
    <2> QED
      BY <1>1, <1>6, <2>2, <2>3, <2>4, ExtractionInv
  <1> QED
    BY <1>4, <1>5, <1>6 DEF GoOn

LEMMA ForgetsFace ==
  ASSUME FaceInv, ClassInv, NEW f \in FaceIds, ForgetFace(f)
  PROVE  ClassInv'
  <1>1. /\ faces' = [faces EXCEPT ![f] = Nil]
        /\ UNCHANGED <<idsUsed, medoids, documents, calls, doubtful>>
    BY DEF ForgetFace
  <1>2. Steady
    <2>1. GivenFaces' = GivenFaces
      BY <1>1 DEF GivenFaces, Calling
    <2>2. \A g \in GivenFaces : faces'[g] = faces[g] \/ faces'[g] = Nil
      BY <1>1 DEF FaceInv, GivenFaces
    <2> QED
      BY <1>1, <2>1, <2>2 DEF Steady
  <1>3. \A d \in FaceClients : calls'[d] = calls[d] /\ (Calling(d)' <=> Calling(d))
    BY <1>1 DEF Calling
  <1> QED
    BY <1>1, <1>2, <1>3, NoClassChanges

LEMMA ClassInitInv == FaceInit => ClassInv
  <1> SUFFICES ASSUME FaceInit PROVE ClassInv
    OBVIOUS
  <1>1. /\ medoids = [k \in ClassIds |-> Nil] /\ documents = [k \in ClassIds |-> Nil]
        /\ calls = [c \in FaceClients |-> NoCall]
    BY DEF FaceInit
  <1>2. \A c \in FaceClients : ~Calling(c)
    BY <1>1 DEF Calling
  <1>3. \A k \in ClassIds : documents[k] = Nil /\ medoids[k] = Nil
    BY <1>1
  <1>4. \A k \in ClassIds : ClassOK(k)
    BY <1>3 DEF ClassOK, WholeClass
  <1> QED
    BY <1>1, <1>2, <1>4 DEF ClassInv

LEMMA ClassInvStep ==
  ASSUME FaceInv, ClassInv, [FaceNext]_faceVars
  PROVE  ClassInv'
  <1>1. CASE UNCHANGED faceVars
    <2>1. \A d \in FaceClients : calls'[d] = calls[d] /\ (Calling(d)' <=> Calling(d))
      BY <1>1 DEF faceVars, Calling
    <2>2. Steady
      BY <1>1 DEF faceVars, Steady, GivenFaces, Calling
    <2> QED
      BY <1>1, <2>1, <2>2, NoClassChanges DEF faceVars
  <1>2. ASSUME NEW c \in FaceClients, FaceSteps(c)
        PROVE  ClassInv'
    BY <1>2, ReadClassInv, ListVectorsInv, DropMedoidInv, InsertMedoidInv, DropDocumentInv,
       AddClassDocumentInv, ExtractionSteps DEF FaceSteps
  <1> QED
    BY <1>1, <1>2, ClassRequests, GivesUp, GoesOnFailing, ForgetsFace DEF FaceNext

LEMMA WholeClasses == ClassInv => ClassWhole
  <1> SUFFICES ASSUME ClassInv, NEW k \in ClassIds, Undisturbed(k)
               PROVE  LET doc == documents[k]
                      IN  /\ doc = Nil => medoids[k] = Nil
                          /\ doc # Nil =>
                                /\ medoids[k] = doc.medoid /\ (doc.keys = <<>> <=> doc.medoid = Nil)
                                /\ doc.keys # <<>> => Contains(doc.keys, doc.key)
                                /\ doc.keys # <<>> /\ (\A f \in Range(doc.keys) : faces[f] # Nil) =>
                                      faces[MedoidKey(doc.keys, faces)] = doc.medoid
    BY DEF ClassWhole
  <1>1. WholeClass(k) /\ (documents[k] # Nil => GoodDocument(documents[k]))
    BY DEF ClassInv, ClassOK
  <1> QED
    BY ONLY <1>1 DEF WholeClass, GoodDocument

\* A class of which no two requests overlapped and none broke off since it was last
\* written has its document and its medoid together, and the
\* medoid is the vector nearest to the others while all have one, for any clients,
\* faces, classes and vectors (save_face_to_class, remove_face_from_class).
THEOREM ClassesStayWhole == FaceSpec => []ClassWhole
  <1>1. FaceInit => FaceInv /\ ClassInv
    BY FaceInitInv, ClassInitInv
  <1>2. FaceInv /\ ClassInv /\ [FaceNext]_faceVars => FaceInv' /\ ClassInv'
    BY FaceInvStep, ClassInvStep
  <1> QED
    BY <1>1, <1>2, WholeClasses, PTL DEF FaceSpec

--------------------------------------------------------------------------------
(* Images.                                                                  *)

JobFields ==
  {"bucket", "op", "key", "asked", "pic", "model", "action", "step", "auto", "victims", "todo",
   "thumbsLeft", "meta", "clash", "twin"}
Storing == {"original", "thumbnails", "meta", "insert", "mark"}
Dropping == {"drop vector", "drop original", "drop thumbnails", "drop meta"}
StepsOf(op) ==
  CASE op = "upload" -> {"check", "read meta"} \cup Storing \cup Dropping
    [] op = "index" -> {"read meta", "read original", "insert", "drop vector", "insert again", "mark"}
    [] op = "update" -> {"read meta", "save"}
    [] op = "delete" -> {"read meta"} \cup Dropping

Metas == {x \in [pic : Pictures, indexed : BOOLEAN, model : Models \cup {None}] :
             x.indexed => x.model \in Models}
Found == [pic : Pictures, model : Models]

StoreTypes ==
  /\ originals \in [Buckets -> [ImageKeys -> Pictures \cup {None}]]
  /\ thumbs \in [Buckets -> [ImageKeys -> [Sizes -> Pictures \cup {None}]]]
  /\ metas \in [Buckets -> [ImageKeys -> Metas \cup {None}]]
  /\ vectors \in [ImageKeys -> Found \cup {None}]
  /\ stored \in [ImageKeys -> Found \cup {None}]

\* What a request is at, and which requests have looked for duplicates.
Shape(r) ==
  /\ r = [x \in JobFields |-> r[x]]
  /\ r.op \in {"upload", "index", "update", "delete"} /\ r.step \in StepsOf(r.op)
  /\ r.clash \in BOOLEAN /\ r.twin \in BOOLEAN
  /\ r.bucket \in Buckets /\ r.victims \subseteq ImageKeys /\ r.todo \subseteq r.victims
  /\ r.step # "check" => r.key \in ImageKeys
  /\ r.asked \in ImageKeys \cup {None}
  /\ r.meta \in Metas \cup {None}
  /\ r.step \in {"read original", "insert", "insert again", "mark", "save"} => r.meta # None
  /\ r.op = "index" /\ r.step = "drop vector" => r.meta # None
  /\ r.step = "original" => r.thumbsLeft = Sizes
  /\ r.thumbsLeft \subseteq Sizes /\ (r.step \in {"meta", "drop meta"} => r.thumbsLeft = {})
  /\ r.op # "upload" => r.victims = {}
  /\ r.op = "upload" => r.pic \in Pictures
  /\ r.op = "upload" /\ r.step = "check" =>
        /\ r.auto /\ r.victims = {} /\ r.key = r.asked
        /\ r.action \in {"overwrite", "new", "skip", "ask"}
  /\ r.op = "upload" /\ r.step \in {"insert", "mark"} => r.auto
  /\ r.op = "index" /\ r.step \notin {"read meta", "read original"} => r.pic \in Pictures
  /\ r.op \in {"upload", "index"} => r.model \in Models
  /\ r.op = "upload" /\ r.step \in Storing => r.todo = {}
  /\ r.op = "upload" /\ r.step \in Dropping \cup {"read meta"} =>
        r.key \in r.victims \ r.todo /\ r.auto /\ r.action = "overwrite"

LEMMA StepsAre ==
  /\ StepsOf("upload") = {"check", "read meta"} \cup Storing \cup Dropping
  /\ StepsOf("index") =
        {"read meta", "read original", "insert", "drop vector", "insert again", "mark"}
  /\ StepsOf("update") = {"read meta", "save"}
  /\ StepsOf("delete") = {"read meta"} \cup Dropping
  BY DEF StepsOf

\* The key a request is working on.
At(r) == IF r.step = "check" THEN None ELSE r.key

Bare(b, k) ==
  /\ metas[b][k] # None <=> originals[b][k] # None
  /\ thumbs[b][k] = Whole(originals[b][k])
Kept(b, k) ==
  /\ Bare(b, k)
  /\ metas[b][k] # None /\ metas[b][k].indexed =>
        /\ vectors[k] = [pic |-> originals[b][k], model |-> metas[b][k].model]
        /\ stored[k] = vectors[k]
Unindexed(k) == vectors[k] = None /\ stored[k] = None

Listed(k) == \E b \in Buckets : metas[b][k] # None
Sound(k) == (\A b \in Buckets : Kept(b, k)) /\ (Unindexed(k) \/ Listed(k))

Gone(b, k) == metas[b][k] = None /\ originals[b][k] = None /\ thumbs[b][k] = NoThumbs
\* Nothing of an image but in bucket b.
Alone(b, k) == Unindexed(k) /\ \A c \in Buckets \ {b} : Gone(c, k)

\* The image a request works on, which nobody disturbed.
AtWork(r) ==
  LET b == r.bucket  k == r.key
      first == r.op \in {"index", "update", "delete"}
      put == originals[b][k] = r.pic /\ thumbs[b][k] = Whole(r.pic)
      read == r.meta # None /\ metas[b][k] = r.meta
  IN  /\ r.step = "original" => Sound(k)
      /\ r.step = "read meta" /\ first => Sound(k)
      /\ r.step \in {"thumbnails", "meta"} =>
            /\ \A c \in Buckets \ {b} : Kept(c, k)
            /\ Unindexed(k) \/ Listed(k)
            /\ originals[b][k] = r.pic /\ \A s \in Sizes \ r.thumbsLeft : thumbs[b][k][s] = r.pic
      /\ r.step = "insert" => Sound(k) /\ put /\ read
      /\ r.step = "insert" /\ r.op = "upload" => ~r.meta.indexed
      /\ r.step = "save" => Sound(k) /\ read
      /\ r.step = "read original" => Sound(k) /\ read
      /\ r.step = "drop vector" => \A c \in Buckets : Bare(c, k)
      /\ r.step = "drop vector" /\ r.op = "index" => put /\ read
      /\ r.step = "insert again" => Alone(b, k) /\ put /\ read
      /\ r.step = "mark" =>
            /\ \A c \in Buckets \ {b} : Kept(c, k)
            /\ put /\ read
            /\ vectors[k] = [pic |-> r.pic, model |-> r.model] /\ stored[k] = vectors[k]
      /\ r.step = "drop original" =>
            /\ Alone(b, k) /\ (metas[b][k] # None <=> originals[b][k] # None)
            /\ thumbs[b][k] = Whole(originals[b][k])
      /\ r.step = "read meta" /\ ~first =>
            /\ Alone(b, k) /\ originals[b][k] = None
            /\ metas[b][k] = None => thumbs[b][k] = NoThumbs
      /\ r.step \in {"drop thumbnails", "drop meta"} =>
            /\ Alone(b, k) /\ originals[b][k] = None
            /\ \A s \in Sizes \ r.thumbsLeft : thumbs[b][k][s] = None

\* What a deletion that nobody disturbed has done, whatever it found.
Deleted(r) ==
  LET b == r.bucket  k == r.key
  IN  r.op = "delete" /\ r.step # "read meta" =>
      /\ metas[b][k] = r.meta
      /\ r.meta = None => r.thumbsLeft = {}
      /\ r.meta # None => \A s \in Sizes \ r.thumbsLeft : thumbs[b][k][s] = None
      /\ r.step # "drop vector" => Unindexed(k)
      /\ r.step \in {"drop thumbnails", "drop meta"} => originals[b][k] = None

Empty(k) == Unindexed(k) /\ \A b \in Buckets : Gone(b, k)

ImageInv ==
  /\ StoreTypes
  /\ jobs = [c \in Clients |-> jobs[c]]
  /\ unsure \subseteq keysMade /\ keysMade \subseteq ImageKeys
  /\ \A k \in ImageKeys \ keysMade : Empty(k)
  /\ \A c \in Clients : Working(c) => Shape(jobs[c]) /\ KeysOf(jobs[c]) \subseteq keysMade
  /\ \A c, d \in Clients : c # d /\ Working(c) /\ Working(d) =>
        KeysOf(jobs[c]) \cap KeysOf(jobs[d]) = {} \/ jobs[c].clash
  /\ \A c \in Clients : Working(c) /\ ~jobs[c].clash =>
        /\ jobs[c].step # "check" /\ jobs[c].key \notin unsure => AtWork(jobs[c])
        /\ Deleted(jobs[c])
  /\ \A k \in ImageKeys \ unsure :
        (\A c \in Clients : Working(c) /\ k \in KeysOf(jobs[c]) =>
            ~jobs[c].clash /\ k # At(jobs[c])) => Sound(k)

SameKey(k) ==
  /\ vectors'[k] = vectors[k] /\ stored'[k] = stored[k]
  /\ \A b \in Buckets : originals'[b][k] = originals[b][k] /\ thumbs'[b][k] = thumbs[b][k]
                        /\ metas'[b][k] = metas[b][k]

\* What is said of a key is said of what is stored under it.
LEMMA SameSound ==
  ASSUME NEW k, SameKey(k)
  PROVE  (Sound(k) <=> Sound(k)') /\ (Empty(k) <=> Empty(k)')
  BY DEF SameKey, Sound, Kept, Bare, Unindexed, Listed, Empty, Gone

LEMMA SameWork ==
  ASSUME NEW r, SameKey(r.key), r.bucket \in Buckets
  PROVE  (AtWork(r) <=> AtWork(r)') /\ (Deleted(r) <=> Deleted(r)')
  <1>1. Sound(r.key) <=> Sound(r.key)'
    BY SameSound
  <1>2. \A b \in Buckets : Kept(b, r.key) <=> Kept(b, r.key)'
    BY DEF SameKey, Kept, Bare
  <1>3. Alone(r.bucket, r.key) <=> Alone(r.bucket, r.key)'
    BY DEF SameKey, Alone, Unindexed, Gone
  <1>4. Listed(r.key) <=> Listed(r.key)'
    BY DEF SameKey, Listed
  <1>5. (\A b \in Buckets : Bare(b, r.key) <=> Bare(b, r.key)') /\ (Unindexed(r.key) <=> Unindexed(r.key)')
    BY DEF SameKey, Bare, Unindexed
  <1>6. /\ vectors'[r.key] = vectors[r.key] /\ stored'[r.key] = stored[r.key]
        /\ originals'[r.bucket][r.key] = originals[r.bucket][r.key]
        /\ thumbs'[r.bucket][r.key] = thumbs[r.bucket][r.key]
        /\ metas'[r.bucket][r.key] = metas[r.bucket][r.key]
    BY DEF SameKey
  <1>7. AtWork(r) <=> AtWork(r)'
    BY ONLY <1>1, <1>2, <1>3, <1>4, <1>5, <1>6 DEF AtWork, Whole
  <1>8. Deleted(r) <=> Deleted(r)'
    BY ONLY <1>5, <1>6 DEF Deleted
  <1> QED
    BY <1>7, <1>8

\* Jobs that differ only in what they know of others.
Like(s, r) ==
  /\ s = [x \in JobFields |-> s[x]] /\ s.clash \in BOOLEAN /\ s.twin \in BOOLEAN
  /\ \A x \in JobFields \ {"clash", "twin"} : s[x] = r[x]

LEMMA LikeFields ==
  ASSUME NEW s, NEW r, Like(s, r)
  PROVE  /\ s.bucket = r.bucket /\ s.op = r.op /\ s.key = r.key /\ s.asked = r.asked
         /\ s.pic = r.pic /\ s.model = r.model /\ s.action = r.action /\ s.step = r.step
         /\ s.auto = r.auto /\ s.victims = r.victims /\ s.todo = r.todo
         /\ s.thumbsLeft = r.thumbsLeft /\ s.meta = r.meta
  BY DEF Like, JobFields

LEMMA LikeSame ==
  ASSUME NEW s, NEW r, Like(s, r)
  PROVE  /\ Shape(r) => Shape(s)
         /\ KeysOf(s) = KeysOf(r) /\ At(s) = At(r)
         /\ (AtWork(s) <=> AtWork(r)) /\ (AtWork(s) <=> AtWork(r))'
         /\ (Deleted(s) <=> Deleted(r)) /\ (Deleted(s) <=> Deleted(r))'
  <1>0. /\ s.bucket = r.bucket /\ s.op = r.op /\ s.key = r.key /\ s.asked = r.asked
        /\ s.pic = r.pic /\ s.model = r.model /\ s.action = r.action /\ s.step = r.step
        /\ s.auto = r.auto /\ s.victims = r.victims /\ s.todo = r.todo
        /\ s.thumbsLeft = r.thumbsLeft /\ s.meta = r.meta
    BY LikeFields
  <1>1. Shape(r) => Shape(s)
    <2>1. s = [x \in JobFields |-> s[x]] /\ s.clash \in BOOLEAN /\ s.twin \in BOOLEAN
      BY DEF Like
    <2> QED
      BY <1>0, <2>1, Zenon DEF Shape
  <1>2. KeysOf(s) = KeysOf(r) /\ At(s) = At(r)
    BY <1>0 DEF KeysOf, At
  <1>3. AtWork(s) <=> AtWork(r)
    BY <1>0, Zenon DEF AtWork
  <1>4. (AtWork(s) <=> AtWork(r))'
    BY <1>0, Zenon DEF AtWork
  <1>5. (Deleted(s) <=> Deleted(r)) /\ (Deleted(s) <=> Deleted(r))'
    BY <1>0, Zenon DEF Deleted
  <1> QED
    BY <1>1, <1>2, <1>3, <1>4, <1>5

Twins(s, r) == s.op = "upload" /\ r.op = "upload" /\ s.pic = r.pic /\ s.model = r.model

Plain(r) ==
  /\ r = [x \in JobFields |-> r[x]] /\ r.op \in {"upload", "index", "update", "delete"}
  /\ r.clash \in BOOLEAN /\ r.twin \in BOOLEAN

LEMMA ShapePlain ==
  ASSUME NEW r, Shape(r)
  PROVE  Plain(r)
  BY Zenon DEF Shape, Plain

LEMMA BecomesJobs ==
  ASSUME ImageInv, NEW c \in Clients, NEW q, Becomes(c, q), Plain(q)
  PROVE  /\ jobs' = [d \in Clients |-> jobs'[d]]
         /\ Working(c)' /\ Like(jobs'[c], q) /\ (q.clash => jobs'[c].clash)
         /\ q.twin => jobs'[c].twin
         /\ \A d \in Clients \ {c} :
              /\ Working(d)' <=> Working(d)
              /\ Working(d) =>
                   /\ Like(jobs'[d], jobs[d]) /\ (jobs[d].clash => jobs'[d].clash)
                   /\ jobs[d].twin => jobs'[d].twin
                   /\ KeysOf(jobs[d]) \cap KeysOf(q) # {} => jobs'[d].clash /\ jobs'[c].clash
                   /\ Twins(jobs[d], q) => jobs'[d].twin /\ jobs'[c].twin
  <1> PICK busy : busy = {d \in Clients \ {c} : Working(d)}
    OBVIOUS
  <1> PICK near : near = {d \in busy : KeysOf(jobs[d]) \cap KeysOf(q) # {}}
    OBVIOUS
  <1> PICK twins : twins = {d \in busy : Twins(q, jobs[d])}
    OBVIOUS
  <1>1. jobs' = [d \in Clients |->
           IF d = c THEN [q EXCEPT !.clash = @ \/ near # {}, !.twin = @ \/ twins # {}]
           ELSE IF d \in busy
           THEN [jobs[d] EXCEPT !.clash = @ \/ d \in near, !.twin = @ \/ d \in twins]
           ELSE NoJob]
    BY DEF Becomes, Twins
  <1>2. ASSUME NEW r, Plain(r), NEW u \in BOOLEAN, NEW v \in BOOLEAN, NEW s,
               s = [r EXCEPT !.clash = @ \/ u, !.twin = @ \/ v]
        PROVE  /\ Like(s, r) /\ s # NoJob
               /\ (r.clash \/ u => s.clash) /\ (r.twin \/ v => s.twin)
    <2>1. r = [x \in JobFields |-> r[x]] /\ {"clash", "twin", "op"} \subseteq JobFields
      BY <1>2 DEF Plain, JobFields
    <2>2. /\ s = [x \in JobFields |-> s[x]]
          /\ \A x \in JobFields \ {"clash", "twin"} : s[x] = r[x]
      BY <1>2, <2>1
    <2>3. s.clash = (r.clash \/ u) /\ s.twin = (r.twin \/ v)
      BY <1>2, <2>1
    <2>4. s.clash \in BOOLEAN /\ s.twin \in BOOLEAN
      BY <1>2, <2>3, Zenon
    <2>5. s.op = r.op /\ r.op # "none"
      BY <1>2, <2>2 DEF JobFields, Plain
    <2>6. s # NoJob
      BY <2>5 DEF NoJob
    <2>7. (r.clash \/ u => s.clash) /\ (r.twin \/ v => s.twin)
      BY <2>3, Zenon
    <2> QED
      BY <2>2, <2>4, <2>6, <2>7 DEF Like
  <1>3. /\ Like(jobs'[c], q) /\ jobs'[c] # NoJob
        /\ (q.clash \/ near # {} => jobs'[c].clash) /\ (q.twin \/ twins # {} => jobs'[c].twin)
    <2> PICK s, u, v : s = jobs'[c] /\ u = (near # {}) /\ v = (twins # {})
      OBVIOUS
    <2>1. u \in BOOLEAN /\ v \in BOOLEAN
      BY Zenon
    <2>2. s = [q EXCEPT !.clash = @ \/ near # {}, !.twin = @ \/ twins # {}]
      BY <1>1
    <2>3. s = [q EXCEPT !.clash = @ \/ u, !.twin = @ \/ v]
      BY <2>2, Zenon
    <2>4. /\ Like(s, q) /\ s # NoJob
          /\ (q.clash \/ u => s.clash) /\ (q.twin \/ v => s.twin)
      BY <1>2, <2>1, <2>3
    <2> QED
      BY <2>4, Zenon
  <1>4. ASSUME NEW d \in Clients \ {c}, Working(d)
        PROVE  /\ Like(jobs'[d], jobs[d]) /\ jobs'[d] # NoJob
               /\ jobs[d].clash \/ d \in near => jobs'[d].clash
               /\ jobs[d].twin \/ d \in twins => jobs'[d].twin
    <2> PICK s, r, u, v : s = jobs'[d] /\ r = jobs[d] /\ u = (d \in near) /\ v = (d \in twins)
      OBVIOUS
    <2>1. u \in BOOLEAN /\ v \in BOOLEAN
      <3>1. (d \in near) \in BOOLEAN /\ (d \in twins) \in BOOLEAN
        OBVIOUS
      <3> QED
        BY <3>1, Zenon
    <2>2. s = [r EXCEPT !.clash = @ \/ d \in near, !.twin = @ \/ d \in twins] /\ Plain(r)
      BY <1>1, <1>4, ShapePlain DEF ImageInv
    <2>3. s = [r EXCEPT !.clash = @ \/ u, !.twin = @ \/ v]
      BY <2>2, Zenon
    <2>4. /\ Like(s, r) /\ s # NoJob
          /\ (r.clash \/ u => s.clash) /\ (r.twin \/ v => s.twin)
      BY <1>2, <2>1, <2>2, <2>3
    <2> QED
      BY <2>4, Zenon
  <1>5. \A d \in Clients \ {c} : ~Working(d) => jobs'[d] = NoJob
    BY <1>1
  <1>6. \A d \in Clients \ {c} : (Working(d)' <=> Working(d))
    BY <1>4, <1>5 DEF Working
  <1>7. Working(c)' /\ jobs' = [d \in Clients |-> jobs'[d]]
    BY <1>1, <1>3 DEF Working
  <1>8. \A d \in Clients \ {c} : Working(d) =>
          /\ KeysOf(jobs[d]) \cap KeysOf(q) # {} => d \in near /\ near # {}
          /\ Twins(jobs[d], q) => d \in twins /\ twins # {}
    BY DEF Twins
  <1> QED
    BY <1>3, <1>4, <1>6, <1>7, <1>8

\* No other request is at work on a key of r.
Apart(c, r) ==
  \A d \in Clients \ {c} : Working(d) => KeysOf(jobs[d]) \cap KeysOf(r) = {}

\* What a request that nobody disturbed knows.
Held(r) ==
  /\ r.step # "check" /\ r.key \notin unsure => AtWork(r)
  /\ Deleted(r)
  /\ \A k \in KeysOf(r) \ unsure : k # At(r) => Sound(k)

LEMMA Holds ==
  ASSUME ImageInv, NEW c \in Clients, Working(c), ~jobs[c].clash
  PROVE  Held(jobs[c]) /\ Apart(c, jobs[c])
  <1>1. Apart(c, jobs[c])
    BY DEF ImageInv, Apart
  <1>2. \A k \in KeysOf(jobs[c]) \ unsure : k # At(jobs[c]) => Sound(k)
    <2> TAKE k \in KeysOf(jobs[c]) \ unsure
    <2> HAVE k # At(jobs[c])
    <2>1. k \in ImageKeys \ unsure
      BY DEF ImageInv
    <2>2. \A d \in Clients : Working(d) /\ k \in KeysOf(jobs[d]) => d = c
      BY <1>1 DEF Apart
    <2> QED
      BY <2>1, <2>2 DEF ImageInv
  <1> QED
    BY <1>1, <1>2 DEF Held, ImageInv

\* What nobody is at work on is in order.
LEMMA Unheld ==
  ASSUME ImageInv, NEW c \in Clients, ~Working(c), NEW q, Apart(c, q)
  PROVE  \A k \in KeysOf(q) \cap ImageKeys : k \notin unsure => Sound(k)
  <1> TAKE k \in KeysOf(q) \cap ImageKeys
  <1>1. \A d \in Clients : Working(d) => k \notin KeysOf(jobs[d])
    BY DEF Apart
  <1> QED
    BY <1>1 DEF ImageInv

LEMMA KeyOfJob ==
  ASSUME NEW r, Shape(r), r.step # "check"
  PROVE  r.key \in KeysOf(r) /\ r.key \in ImageKeys /\ r.bucket \in Buckets /\ At(r) = r.key
  BY ImageAssumption DEF Shape, KeysOf, At

\* A request begins or goes on, and changes only what is stored under its keys.
LEMMA GoesOn ==
  ASSUME ImageInv, NEW c \in Clients, NEW q, Becomes(c, q), Shape(q), StoreTypes',
         Working(c) => KeysOf(jobs[c]) \subseteq KeysOf(q) /\ (jobs[c].clash => q.clash),
         \A k \in ImageKeys \ KeysOf(q) : SameKey(k),
         unsure \subseteq unsure', unsure' \subseteq keysMade', unsure' \subseteq unsure \cup KeysOf(q),
         keysMade \subseteq keysMade', keysMade' \subseteq ImageKeys, KeysOf(q) \subseteq keysMade',
         ~q.clash /\ Apart(c, q) => Held(q)'
  PROVE  ImageInv'
  <1>1. /\ jobs' = [d \in Clients |-> jobs'[d]]
        /\ Working(c)' /\ Like(jobs'[c], q) /\ (q.clash => jobs'[c].clash)
        /\ \A d \in Clients \ {c} :
             /\ Working(d)' <=> Working(d)
             /\ Working(d) =>
                  /\ Like(jobs'[d], jobs[d]) /\ (jobs[d].clash => jobs'[d].clash)
                  /\ KeysOf(jobs[d]) \cap KeysOf(q) # {} => jobs'[d].clash /\ jobs'[c].clash
    BY ShapePlain, BecomesJobs
  <1>2. /\ Shape(jobs'[c]) /\ KeysOf(jobs'[c]) = KeysOf(q) /\ At(jobs'[c]) = At(q)
        /\ jobs'[c].step = q.step /\ jobs'[c].key = q.key
        /\ (AtWork(jobs[c])' <=> AtWork(q)') /\ (Deleted(jobs[c])' <=> Deleted(q)')
    <2> PICK s : s = jobs'[c]
      OBVIOUS
    <2>1. /\ Shape(s) /\ KeysOf(s) = KeysOf(q) /\ At(s) = At(q) /\ s.step = q.step /\ s.key = q.key
          /\ (AtWork(s) <=> AtWork(q))' /\ (Deleted(s) <=> Deleted(q))'
      BY <1>1, LikeSame, LikeFields
    <2> QED
      BY <2>1
  <1>3. ASSUME NEW d \in Clients \ {c}, Working(d)
        PROVE  /\ Shape(jobs'[d]) /\ KeysOf(jobs'[d]) = KeysOf(jobs[d]) /\ At(jobs'[d]) = At(jobs[d])
               /\ jobs'[d].step = jobs[d].step /\ jobs'[d].key = jobs[d].key
               /\ ~jobs'[d].clash =>
                    /\ ~jobs[d].clash /\ KeysOf(jobs[d]) \cap KeysOf(q) = {}
                    /\ jobs[d].step # "check" /\ jobs[d].key \notin unsure' => AtWork(jobs[d])'
                    /\ Deleted(jobs[d])'
    <2> PICK s, r : s = jobs'[d] /\ r = jobs[d]
      OBVIOUS
    <2>1. Like(s, r) /\ Shape(r)
      BY <1>1, <1>3 DEF ImageInv
    <2>2. /\ Shape(s) /\ KeysOf(s) = KeysOf(r) /\ At(s) = At(r) /\ s.step = r.step /\ s.key = r.key
          /\ (AtWork(s) <=> AtWork(r))' /\ (Deleted(s) <=> Deleted(r))'
      BY <2>1, LikeSame, LikeFields
    <2>3. ~s.clash => ~r.clash /\ KeysOf(r) \cap KeysOf(q) = {}
      BY <1>1, <1>3
    <2>4. ASSUME ~s.clash
          PROVE  (r.step # "check" /\ r.key \notin unsure' => AtWork(r)') /\ Deleted(r)'
      <3>1. ~r.clash /\ Deleted(r) /\ (r.step # "check" /\ r.key \notin unsure => AtWork(r))
        BY <1>3, <2>3, <2>4 DEF ImageInv
      <3>2. CASE r.step = "check"
        BY <2>1, <3>2 DEF Deleted, Shape, StepsOf, Dropping
      <3>3. CASE r.step # "check"
        <4>1. r.key \in KeysOf(r) /\ r.key \in ImageKeys /\ r.bucket \in Buckets
          BY <2>1, <3>3, KeyOfJob
        <4>2. SameKey(r.key)
          BY <2>3, <2>4, <4>1
        <4>3. (AtWork(r) <=> AtWork(r)') /\ (Deleted(r) <=> Deleted(r)')
          BY <4>1, <4>2, SameWork
        <4> QED
          BY <3>1, <4>3
      <3> QED
        BY <3>2, <3>3
    <2> QED
      BY <2>2, <2>3, <2>4
  <1>4. \A k \in ImageKeys \ keysMade' : Empty(k)'
    <2> TAKE k \in ImageKeys \ keysMade'
    <2>1. SameKey(k) /\ Empty(k)
      BY DEF ImageInv
    <2> QED
      BY <2>1, SameSound
  <1>5. \A d \in Clients : Working(d)' => Shape(jobs'[d]) /\ KeysOf(jobs'[d]) \subseteq keysMade'
    BY <1>1, <1>2, <1>3 DEF ImageInv
  <1>6. \A d, e \in Clients : d # e /\ Working(d)' /\ Working(e)' =>
          KeysOf(jobs'[d]) \cap KeysOf(jobs'[e]) = {} \/ jobs'[d].clash
    <2> TAKE d, e \in Clients
    <2> HAVE d # e /\ Working(d)' /\ Working(e)'
    <2>1. CASE d = c
      <3>1. e \in Clients \ {c} /\ Working(e)
        BY <1>1, <2>1
      <3> QED
        BY <1>1, <1>2, <1>3, <2>1, <3>1
    <2>2. CASE e = c
      <3>1. d \in Clients \ {c} /\ Working(d)
        BY <1>1, <2>2
      <3> QED
        BY <1>1, <1>2, <1>3, <2>2, <3>1
    <2>3. CASE d # c /\ e # c
      <3>1. d \in Clients \ {c} /\ e \in Clients \ {c} /\ Working(d) /\ Working(e)
        BY <1>1, <2>3
      <3>2. KeysOf(jobs[d]) \cap KeysOf(jobs[e]) = {} \/ jobs[d].clash
        BY <3>1 DEF ImageInv
      <3> QED
        BY <1>1, <1>3, <3>1, <3>2
    <2> QED
      BY <2>1, <2>2, <2>3
  <1>7. ~jobs'[c].clash => ~q.clash /\ Apart(c, q)
    BY <1>1 DEF Apart
  <1>8. \A d \in Clients : Working(d)' /\ ~jobs'[d].clash =>
          /\ jobs'[d].step # "check" /\ jobs'[d].key \notin unsure' => AtWork(jobs[d])'
          /\ Deleted(jobs[d])'
    <2> TAKE d \in Clients
    <2> HAVE Working(d)' /\ ~jobs'[d].clash
    <2>1. CASE d = c
      <3>1. Held(q)'
        BY <1>7, <2>1
      <3> QED
        BY <1>2, <2>1, <3>1 DEF Held
    <2>2. CASE d # c
      BY <1>1, <1>3, <2>2
    <2> QED
      BY <2>1, <2>2
  <1>9. \A k \in ImageKeys \ unsure' :
          (\A d \in Clients : Working(d)' /\ k \in KeysOf(jobs'[d]) =>
              ~jobs'[d].clash /\ k # At(jobs'[d])) => Sound(k)'
    <2> SUFFICES ASSUME NEW k \in ImageKeys \ unsure',
                        \A d \in Clients : Working(d)' /\ k \in KeysOf(jobs'[d]) =>
                          ~jobs'[d].clash /\ k # At(jobs'[d])
                 PROVE  Sound(k)'
      OBVIOUS
    <2>1. CASE k \in KeysOf(q)
      <3>1. ~jobs'[c].clash /\ k # At(q)
        BY <1>1, <1>2, <2>1
      <3> QED
        BY <1>7, <2>1, <3>1 DEF Held
    <2>2. CASE k \notin KeysOf(q)
      <3>1. SameKey(k)
        BY <2>2
      <3>2. \A d \in Clients : Working(d) /\ k \in KeysOf(jobs[d]) =>
               ~jobs[d].clash /\ k # At(jobs[d])
        <4> TAKE d \in Clients
        <4> HAVE Working(d) /\ k \in KeysOf(jobs[d])
        <4>1. d # c
          BY <2>2
        <4>2. Working(d)' /\ k \in KeysOf(jobs'[d]) /\ (jobs[d].clash => jobs'[d].clash)
              /\ At(jobs'[d]) = At(jobs[d])
          BY <1>1, <1>3, <4>1
        <4> QED
          BY <4>2
      <3>3. Sound(k)
        BY <3>2 DEF ImageInv
      <3> QED
        BY <3>1, <3>3, SameSound
    <2> QED
      BY <2>1, <2>2
  <1> QED
    BY <1>1, <1>4, <1>5, <1>6, <1>8, <1>9 DEF ImageInv

\* A request ends; what it leaves in disorder is unsure.
LEMMA EndsInv ==
  ASSUME ImageInv, NEW c \in Clients, Working(c), StoreTypes',
         jobs' = [jobs EXCEPT ![c] = NoJob],
         \A k \in ImageKeys \ KeysOf(jobs[c]) : SameKey(k),
         keysMade' = keysMade, unsure' \subseteq keysMade,
         unsure \ KeysOf(jobs[c]) \subseteq unsure',
         jobs[c].clash => KeysOf(jobs[c]) \subseteq unsure',
         ~jobs[c].clash => \A k \in KeysOf(jobs[c]) \ unsure' : Sound(k)'
  PROVE  ImageInv'
  <1>1. /\ jobs' = [d \in Clients |-> jobs'[d]]
        /\ \A d \in Clients : Working(d)' <=> Working(d) /\ d # c
        /\ \A d \in Clients \ {c} : jobs'[d] = jobs[d]
    BY DEF ImageInv, Working
  <1>2. ASSUME NEW d \in Clients \ {c}, Working(d), ~jobs[d].clash
        PROVE  /\ jobs[d].step # "check" /\ jobs[d].key \notin unsure' => AtWork(jobs[d])'
               /\ Deleted(jobs[d])'
    <2> PICK r : r = jobs[d]
      OBVIOUS
    <2>1. Shape(r) /\ KeysOf(r) \cap KeysOf(jobs[c]) = {}
      BY <1>2 DEF ImageInv
    <2>2. ~r.clash /\ Deleted(r) /\ (r.step # "check" /\ r.key \notin unsure => AtWork(r))
      BY <1>2 DEF ImageInv
    <2>3. (r.step # "check" /\ r.key \notin unsure' => AtWork(r)') /\ Deleted(r)'
      <3>2. CASE r.step = "check"
        BY <2>1, <3>2 DEF Deleted, Shape, StepsOf, Dropping
      <3>3. CASE r.step # "check"
        <4>1. r.key \in KeysOf(r) /\ r.key \in ImageKeys /\ r.bucket \in Buckets
          BY <2>1, <3>3, KeyOfJob
        <4>2. SameKey(r.key) /\ (r.key \notin unsure' => r.key \notin unsure)
          BY <2>1, <4>1
        <4>3. (AtWork(r) <=> AtWork(r)') /\ (Deleted(r) <=> Deleted(r)')
          BY <4>1, <4>2, SameWork
        <4> QED
          BY <2>2, <4>2, <4>3
      <3> QED
        BY <3>2, <3>3
    <2>4. (AtWork(r)' <=> AtWork(jobs[d])') /\ (Deleted(r)' <=> Deleted(jobs[d])')
      BY <1>1
    <2> QED
      BY <2>3, <2>4
  <1>3. \A k \in ImageKeys \ keysMade' : Empty(k)'
    <2> TAKE k \in ImageKeys \ keysMade'
    <2>1. SameKey(k) /\ Empty(k)
      BY DEF ImageInv
    <2> QED
      BY <2>1, SameSound
  <1>4. \A d \in Clients : Working(d)' => Shape(jobs'[d]) /\ KeysOf(jobs'[d]) \subseteq keysMade'
    BY <1>1 DEF ImageInv
  <1>5. \A d, e \in Clients : d # e /\ Working(d)' /\ Working(e)' =>
          KeysOf(jobs'[d]) \cap KeysOf(jobs'[e]) = {} \/ jobs'[d].clash
    BY <1>1 DEF ImageInv
  <1>6. \A d \in Clients : Working(d)' /\ ~jobs'[d].clash =>
          /\ jobs'[d].step # "check" /\ jobs'[d].key \notin unsure' => AtWork(jobs[d])'
          /\ Deleted(jobs[d])'
    BY <1>1, <1>2
  <1>7. \A k \in ImageKeys \ unsure' :
          (\A d \in Clients : Working(d)' /\ k \in KeysOf(jobs'[d]) =>
              ~jobs'[d].clash /\ k # At(jobs'[d])) => Sound(k)'
    <2> SUFFICES ASSUME NEW k \in ImageKeys \ unsure',
                        \A d \in Clients : Working(d)' /\ k \in KeysOf(jobs'[d]) =>
                          ~jobs'[d].clash /\ k # At(jobs'[d])
                 PROVE  Sound(k)'
      OBVIOUS
    <2>1. CASE k \in KeysOf(jobs[c])
      BY <2>1
    <2>2. CASE k \notin KeysOf(jobs[c])
      <3>1. SameKey(k) /\ k \notin unsure
        BY <2>2
      <3>2. \A d \in Clients : Working(d) /\ k \in KeysOf(jobs[d]) =>
               ~jobs[d].clash /\ k # At(jobs[d])
        BY <1>1, <2>2
      <3>3. Sound(k)
        BY <3>1, <3>2 DEF ImageInv
      <3> QED
        BY <3>1, <3>3, SameSound
    <2> QED
      BY <2>1, <2>2
  <1> QED
    BY <1>1, <1>3, <1>4, <1>5, <1>6, <1>7 DEF ImageInv

\* A request is answered; it has changed the key it was at, if any.
LEMMA FinishedInv ==
  ASSUME ImageInv, NEW c \in Clients, Working(c), StoreTypes',
         jobs' = [jobs EXCEPT ![c] = NoJob], keysMade' = keysMade,
         unsure' = IF jobs[c].clash THEN unsure \cup KeysOf(jobs[c]) ELSE unsure,
         jobs[c].step # "check", NEW key, key = jobs[c].key,
         \A k \in ImageKeys \ {key} : SameKey(k),
         ~jobs[c].clash /\ key \notin unsure => Sound(key)'
  PROVE  ImageInv'
  <1> PICK r : r = jobs[c]
    OBVIOUS
  <1>1. Shape(r) /\ KeysOf(r) \subseteq keysMade /\ keysMade \subseteq ImageKeys /\ unsure \subseteq keysMade
    BY DEF ImageInv
  <1>2. r.key \in KeysOf(r) /\ At(r) = r.key
    BY <1>1, KeyOfJob
  <1>3. /\ jobs' = [jobs EXCEPT ![c] = NoJob] /\ keysMade' = keysMade
        /\ unsure' = IF r.clash THEN unsure \cup KeysOf(r) ELSE unsure
    OBVIOUS
  <1>4. ASSUME ~r.clash, NEW k \in KeysOf(r) \ unsure' PROVE Sound(k)'
    <2>1. CASE k = r.key
      BY <1>3, <1>4, <2>1
    <2>2. CASE k # r.key
      <3>1. Held(r)
        BY <1>4, Holds
      <3>2. Sound(k)
        BY <1>2, <1>3, <1>4, <2>2, <3>1 DEF Held
      <3> QED
        BY <1>1, <1>4, <2>2, <3>2, SameSound
    <2> QED
      BY <2>1, <2>2
  <1>5. /\ unsure' \subseteq keysMade /\ unsure \ KeysOf(jobs[c]) \subseteq unsure'
        /\ jobs[c].clash => KeysOf(jobs[c]) \subseteq unsure'
    BY <1>1, <1>3
  <1>6. \A k \in ImageKeys \ KeysOf(jobs[c]) : SameKey(k)
    BY <1>2
  <1> QED
    BY <1>3, <1>4, <1>5, <1>6, EndsInv

\* A request goes on with the image it is at.
LEMMA ContinuesInv ==
  ASSUME ImageInv, NEW c \in Clients, Working(c), NEW r, r = jobs[c], r.step # "check",
         NEW q, Becomes(c, q), Shape(q), KeysOf(q) = KeysOf(r), q.key = r.key, q.step # "check",
         r.clash => q.clash, StoreTypes', \A k \in ImageKeys \ {r.key} : SameKey(k),
         keysMade' = keysMade, unsure \subseteq unsure', unsure' \subseteq unsure \cup {r.key},
         ~q.clash /\ Held(r) /\ r.key \notin unsure' => AtWork(q)',
         ~q.clash /\ Held(r) => Deleted(q)'
  PROVE  ImageInv'
  <1>1. /\ Shape(r) /\ KeysOf(r) \subseteq keysMade /\ keysMade \subseteq ImageKeys
        /\ unsure \subseteq keysMade
    BY DEF ImageInv
  <1>2. r.key \in KeysOf(r) /\ At(r) = r.key /\ At(q) = r.key
    BY <1>1, KeyOfJob
  <1>3. ASSUME ~q.clash PROVE Held(q)'
    <2>1. Held(r)
      BY <1>3, Holds
    <2>2. \A k \in KeysOf(q) \ unsure' : k # At(q) => Sound(k)'
      <3> TAKE k \in KeysOf(q) \ unsure'
      <3> HAVE k # At(q)
      <3>1. Sound(k) /\ SameKey(k)
        BY <1>1, <1>2, <2>1 DEF Held
      <3> QED
        BY <3>1, SameSound
    <2> QED
      BY <1>3, <2>1, <2>2 DEF Held
  <1>4. \A k \in ImageKeys \ KeysOf(q) : SameKey(k)
    BY <1>2
  <1>5. /\ unsure' \subseteq keysMade' /\ unsure' \subseteq unsure \cup KeysOf(q)
        /\ keysMade \subseteq keysMade' /\ keysMade' \subseteq ImageKeys /\ KeysOf(q) \subseteq keysMade'
    BY <1>1, <1>2
  <1>6. Working(c) => KeysOf(jobs[c]) \subseteq KeysOf(q) /\ (jobs[c].clash => q.clash)
    OBVIOUS
  <1> QED
    BY <1>3, <1>4, <1>5, <1>6, GoesOn

\* An upload that is about to store its picture, or to delete a duplicate, and the
\* keys it has.
Own(r) == ({r.asked} \cup r.victims) \ {None}
Ready(c, r) ==
  /\ r = [x \in JobFields |-> r[x]] /\ r.op = "upload"
  /\ r.clash \in BOOLEAN /\ r.twin \in BOOLEAN /\ r.bucket \in Buckets
  /\ r.pic \in Pictures /\ r.model \in Models /\ r.meta \in Metas \cup {None}
  /\ r.asked \in ImageKeys \cup {None}
  /\ r.victims \subseteq ImageKeys /\ r.todo \subseteq r.victims
  /\ Own(r) \subseteq keysMade
  /\ Working(c) => KeysOf(jobs[c]) \subseteq Own(r) /\ (jobs[c].clash => r.clash)
OwnSound(c, r) ==
  ~r.clash /\ (\A d \in Clients \ {c} : Working(d) => KeysOf(jobs[d]) \cap Own(r) = {}) =>
    \A k \in Own(r) \ unsure' : Sound(k)'

LEMMA NamedInv ==
  ASSUME ImageInv, NEW c \in Clients, NEW r, Ready(c, r), r.todo = {}, OwnSound(c, r), Named(c, r),
         StoreTypes', \A k \in ImageKeys \ Own(r) : SameKey(k), unsure' = unsure
  PROVE  ImageInv'
  <1>1. unsure \subseteq keysMade /\ keysMade \subseteq ImageKeys /\ None \notin ImageKeys
    BY ImageAssumption DEF ImageInv
  <1>2. PICK k : /\ k \in ImageKeys /\ (k \in Own(r) \/ k \in ImageKeys \ keysMade)
                 /\ keysMade' = keysMade \cup {k}
                 /\ Becomes(c, [r EXCEPT !.key = k, !.step = "original", !.thumbsLeft = Sizes])
    <2>1. CASE r.victims = {} /\ r.asked # None
      <3>1. Becomes(c, [r EXCEPT !.key = r.asked, !.step = "original", !.thumbsLeft = Sizes])
            /\ keysMade' = keysMade
        BY <2>1 DEF Named
      <3>2. r.asked \in Own(r) /\ r.asked \in keysMade
        BY <2>1 DEF Own, Ready
      <3> QED
        BY <1>1, <3>1, <3>2
    <2>2. CASE ~(r.victims = {} /\ r.asked # None)
      BY <2>2 DEF Named
    <2> QED
      BY <2>1, <2>2
  <1> PICK q : q = [r EXCEPT !.key = k, !.step = "original", !.thumbsLeft = Sizes]
    OBVIOUS
  <1>3. r = [x \in JobFields |-> r[x]]
    BY DEF Ready
  <1>4. /\ q = [x \in JobFields |-> q[x]] /\ q.key = k /\ q.step = "original" /\ q.thumbsLeft = Sizes
        /\ \A x \in JobFields \ {"key", "step", "thumbsLeft"} : q[x] = r[x]
    BY <1>3 DEF JobFields
  <1>5. /\ q.op = r.op /\ q.pic = r.pic /\ q.model = r.model /\ q.bucket = r.bucket
        /\ q.meta = r.meta /\ q.asked = r.asked /\ q.victims = r.victims /\ q.todo = r.todo
        /\ q.clash = r.clash /\ q.twin = r.twin
    BY <1>4 DEF JobFields
  <1>6. Shape(q)
    <2>1. q.clash \in BOOLEAN /\ q.twin \in BOOLEAN
      BY <1>5, Zenon DEF Ready
    <2>2. /\ q.victims \subseteq ImageKeys /\ q.todo = {} /\ q.bucket \in Buckets /\ q.key \in ImageKeys
          /\ q.asked \in ImageKeys \cup {None} /\ q.meta \in Metas \cup {None}
          /\ q.op = "upload" /\ q.pic \in Pictures /\ q.model \in Models
      BY <1>2, <1>4, <1>5 DEF Ready
    <2>3. q.step \in StepsOf(q.op)
      BY <1>4, <2>2 DEF StepsOf, Storing
    <2> QED
      BY ONLY <1>4, <2>1, <2>2, <2>3 DEF Shape, Storing, Dropping
  <1>7. KeysOf(q) = Own(r) \cup {k} /\ At(q) = k
    BY <1>1, <1>2, <1>4, <1>5 DEF KeysOf, Own, At
  <1>8. ASSUME ~q.clash, Apart(c, q) PROVE Held(q)'
    <2>1. \A l \in Own(r) \ unsure' : Sound(l)'
      BY <1>5, <1>7, <1>8 DEF OwnSound, Apart
    <2>2. ASSUME k \notin keysMade PROVE Sound(k)'
      <3>1. SameKey(k) /\ Empty(k)
        BY <1>2, <2>2 DEF ImageInv, Ready
      <3>2. Empty(k)'
        BY <3>1, SameSound
      <3> QED
        BY <3>2 DEF Empty, Gone, Sound, Kept, Bare, NoThumbs, Whole
    <2>3. \A l \in KeysOf(q) \ unsure' : Sound(l)'
      BY <1>2, <1>7, <2>1, <2>2
    <2>4. k \notin unsure' => AtWork(q)'
      BY <1>4, <1>5, <1>7, <2>3 DEF AtWork, Ready
    <2>5. Deleted(q)'
      BY <1>5 DEF Deleted, Ready
    <2> QED
      BY <1>4, <2>3, <2>4, <2>5 DEF Held
  <1>9. /\ unsure' \subseteq keysMade' /\ unsure \subseteq unsure' /\ unsure' \subseteq unsure \cup KeysOf(q)
        /\ keysMade \subseteq keysMade' /\ keysMade' \subseteq ImageKeys /\ KeysOf(q) \subseteq keysMade'
    BY <1>1, <1>2, <1>7 DEF Ready
  <1>10. /\ Working(c) => KeysOf(jobs[c]) \subseteq KeysOf(q) /\ (jobs[c].clash => q.clash)
         /\ \A l \in ImageKeys \ KeysOf(q) : SameKey(l)
    <2>1. Working(c) => (jobs[c].clash => q.clash)
      BY <1>5, Zenon DEF Ready
    <2> QED
      BY <1>7, <2>1 DEF Ready
  <1> QED
    BY <1>2, <1>6, <1>8, <1>9, <1>10, GoesOn

LEMMA NextVictimInv ==
  ASSUME ImageInv, NEW c \in Clients, NEW r, Ready(c, r), r.auto, r.action = "overwrite",
         OwnSound(c, r), NEW q \in NextVictims(r), Becomes(c, q),
         StoreTypes', \A k \in ImageKeys \ Own(r) : SameKey(k),
         unsure' = unsure, keysMade' = keysMade
  PROVE  ImageInv'
  <1>1. unsure \subseteq keysMade /\ keysMade \subseteq ImageKeys /\ None \notin ImageKeys
    BY ImageAssumption DEF ImageInv
  <1>2. PICK k \in r.todo : q = [r EXCEPT !.key = k, !.todo = @ \ {k}, !.step = "drop vector",
                                          !.thumbsLeft = {}]
    BY DEF NextVictims, FirstDrop
  <1>3. r = [x \in JobFields |-> r[x]]
    BY DEF Ready
  <1>4. /\ q = [x \in JobFields |-> q[x]] /\ q.key = k /\ q.step = "drop vector" /\ q.thumbsLeft = {}
        /\ q.todo = r.todo \ {k}
        /\ \A x \in JobFields \ {"key", "step", "todo", "thumbsLeft"} : q[x] = r[x]
    BY <1>2, <1>3 DEF JobFields
  <1>5. /\ q.op = r.op /\ q.pic = r.pic /\ q.model = r.model /\ q.bucket = r.bucket
        /\ q.meta = r.meta /\ q.asked = r.asked /\ q.victims = r.victims
        /\ q.clash = r.clash /\ q.twin = r.twin /\ q.auto = r.auto /\ q.action = r.action
    BY <1>4 DEF JobFields
  <1>6. q.victims \subseteq ImageKeys /\ k \in q.victims /\ k \in ImageKeys /\ k \in Own(r)
    BY <1>1, <1>2, <1>5 DEF Ready, Own
  <1>7. Shape(q)
    <2>1. q.clash \in BOOLEAN /\ q.twin \in BOOLEAN /\ q.auto
      BY <1>5, Zenon DEF Ready
    <2> QED
      BY <1>4, <1>5, <1>6, <2>1 DEF Shape, Ready, StepsOf, Storing, Dropping
  <1>8. KeysOf(q) = Own(r) /\ At(q) = k
    BY <1>1, <1>4, <1>5, <1>6 DEF KeysOf, Own, At
  <1>9. ASSUME ~q.clash, Apart(c, q) PROVE Held(q)'
    <2>1. \A l \in KeysOf(q) \ unsure' : Sound(l)'
      BY <1>5, <1>8, <1>9 DEF OwnSound, Apart
    <2>2. ASSUME k \notin unsure' PROVE AtWork(q)'
      <3>1. Sound(k)'
        BY <1>6, <1>8, <2>1, <2>2
      <3>2. \A d \in Buckets : Bare(d, k)'
        BY <3>1 DEF Sound, Kept
      <3>3. q.op = "upload"
        BY <1>5 DEF Ready
      <3> QED
        BY ONLY <1>4, <3>2, <3>3 DEF AtWork
    <2>3. Deleted(q)'
      BY <1>5 DEF Deleted, Ready
    <2> QED
      BY <1>4, <2>1, <2>2, <2>3 DEF Held
  <1>10. /\ unsure' \subseteq keysMade' /\ unsure \subseteq unsure' /\ unsure' \subseteq unsure \cup KeysOf(q)
         /\ keysMade \subseteq keysMade' /\ keysMade' \subseteq ImageKeys /\ KeysOf(q) \subseteq keysMade'
    BY <1>1, <1>8 DEF Ready
  <1>11. /\ Working(c) => KeysOf(jobs[c]) \subseteq KeysOf(q) /\ (jobs[c].clash => q.clash)
         /\ \A l \in ImageKeys \ KeysOf(q) : SameKey(l)
    <2>1. Working(c) => (jobs[c].clash => q.clash)
      BY <1>5, Zenon DEF Ready
    <2> QED
      BY <1>8, <2>1 DEF Ready
  <1> QED
    BY <1>7, <1>9, <1>10, <1>11, GoesOn

LEMMA StoreKept ==
  ASSUME ImageInv, UNCHANGED store
  PROVE  StoreTypes' /\ \A k \in ImageKeys : SameKey(k)
  BY DEF ImageInv, store, StoreTypes, SameKey

LEMMA JobShape ==
  ASSUME NEW b, NEW op, NEW k, NEW p, NEW m, NEW action, NEW step, NEW q,
         q = Job(b, op, k, p, m, action, step)
  PROVE  /\ q = [x \in JobFields |-> q[x]] /\ q.bucket = b /\ q.op = op /\ q.key = k /\ q.asked = k
         /\ q.pic = p /\ q.model = m /\ q.action = action /\ q.step = step /\ q.victims = {}
         /\ q.todo = {} /\ q.thumbsLeft = {} /\ q.meta = None
         /\ ~q.clash /\ q.clash \in BOOLEAN /\ q.twin \in BOOLEAN /\ (step = "check" => q.auto)
  <1>1. /\ q = [x \in JobFields |-> q[x]] /\ q.bucket = b /\ q.op = op /\ q.key = k /\ q.asked = k
        /\ q.pic = p /\ q.model = m /\ q.action = action /\ q.step = step /\ q.victims = {}
        /\ q.todo = {} /\ q.thumbsLeft = {} /\ q.meta = None
    BY DEF Job, JobFields
  <1>2. q.clash = FALSE /\ q.twin = FALSE /\ q.auto = (step = "check")
    BY DEF Job
  <1>3. ~q.clash /\ q.clash \in BOOLEAN /\ q.twin \in BOOLEAN /\ (step = "check" => q.auto)
    BY <1>2, Zenon
  <1> QED
    BY <1>1, <1>3

\* A new request.
LEMMA BeginsInv ==
  ASSUME ImageInv, NEW c \in Clients, ~Working(c), Asked, NEW q, Becomes(c, q), Shape(q),
         KeysOf(q) \subseteq ImageKeys, keysMade' = keysMade \cup KeysOf(q),
         q.step \in {"check", "original"} \/ (q.op # "upload" /\ q.step = "read meta")
  PROVE  ImageInv'
  <1>1. unsure' = unsure /\ UNCHANGED store /\ unsure \subseteq keysMade /\ keysMade \subseteq ImageKeys
    BY DEF Asked, ImageInv
  <1>2. StoreTypes' /\ \A k \in ImageKeys : SameKey(k)
    BY <1>1, StoreKept
  <1>3. ASSUME Apart(c, q) PROVE Held(q)'
    <2>1. \A k \in KeysOf(q) \ unsure' : Sound(k)'
      <3> TAKE k \in KeysOf(q) \ unsure'
      <3>1. Sound(k)
        BY <1>1, <1>3, Unheld
      <3> QED
        BY <1>2, <3>1, SameSound
    <2>2. q.step # "check" => q.key \in KeysOf(q)
      BY KeyOfJob
    <2>3. q.step # "check" /\ q.key \notin unsure' => AtWork(q)'
      <3>1. q.op \in {"upload", "index", "update", "delete"}
        BY DEF Shape
      <3> QED
        BY <2>1, <2>2, <3>1 DEF AtWork
    <2>4. Deleted(q)'
      BY DEF Deleted, Shape, StepsOf, Dropping
    <2> QED
      BY <2>1, <2>3, <2>4 DEF Held
  <1>4. /\ unsure' \subseteq keysMade' /\ unsure \subseteq unsure' /\ unsure' \subseteq unsure \cup KeysOf(q)
        /\ keysMade \subseteq keysMade' /\ keysMade' \subseteq ImageKeys /\ KeysOf(q) \subseteq keysMade'
    BY <1>1
  <1> QED
    BY <1>2, <1>3, <1>4, GoesOn

LEMMA UploadImageInv ==
  ASSUME ImageInv, NEW c \in Clients, NEW b \in Buckets, NEW k \in ImageKeys \cup {None},
         NEW p \in Pictures, NEW m \in Models, NEW action \in {"overwrite", "new", "skip", "ask"},
         UploadImage(c, b, k, p, m, action)
  PROVE  ImageInv'
  <1>1. ~Working(c) /\ Asked /\ None \notin ImageKeys /\ keysMade \subseteq ImageKeys
    BY ImageAssumption DEF UploadImage, Idle, ImageInv
  <1>2. CASE /\ Becomes(c, Job(b, "upload", k, p, m, action, "check"))
             /\ keysMade' = keysMade \cup ({k} \ {None})
    <2> PICK q : q = Job(b, "upload", k, p, m, action, "check")
      OBVIOUS
    <2>1. /\ q = [x \in JobFields |-> q[x]] /\ q.bucket = b /\ q.op = "upload" /\ q.key = k /\ q.asked = k
          /\ q.pic = p /\ q.model = m /\ q.action = action /\ q.step = "check" /\ q.victims = {}
          /\ q.todo = {} /\ q.thumbsLeft = {} /\ q.meta = None
          /\ q.clash \in BOOLEAN /\ q.twin \in BOOLEAN /\ q.auto
      BY JobShape
    <2>2. Shape(q)
      BY ONLY <2>1, action \in {"overwrite", "new", "skip", "ask"}, b \in Buckets, k \in ImageKeys \cup {None}, p \in Pictures, m \in Models
      DEF Shape, StepsOf, Storing, Dropping
    <2>3. KeysOf(q) = {k} \ {None}
      BY <2>1 DEF KeysOf
    <2>4. /\ ~Working(c) /\ Asked /\ Becomes(c, q) /\ Shape(q)
          /\ KeysOf(q) \subseteq ImageKeys /\ keysMade' = keysMade \cup KeysOf(q)
          /\ q.step \in {"check", "original"} \/ (q.op # "upload" /\ q.step = "read meta")
      BY <1>1, <1>2, <2>1, <2>2, <2>3
    <2> QED
      BY <2>4, BeginsInv
  <1>3. CASE /\ k \notin {None} /\ keysMade' = keysMade \cup {k}
             /\ Becomes(c, [Job(b, "upload", k, p, m, action, "original") EXCEPT !.thumbsLeft = Sizes])
    <2> PICK r, q : /\ r = Job(b, "upload", k, p, m, action, "original")
                    /\ q = [r EXCEPT !.thumbsLeft = Sizes]
      OBVIOUS
    <2>1. /\ r = [x \in JobFields |-> r[x]] /\ r.bucket = b /\ r.op = "upload" /\ r.key = k /\ r.asked = k
          /\ r.pic = p /\ r.model = m /\ r.action = action /\ r.step = "original" /\ r.victims = {}
          /\ r.todo = {} /\ r.meta = None
          /\ r.clash \in BOOLEAN /\ r.twin \in BOOLEAN
      BY JobShape
    <2>2. /\ q = [x \in JobFields |-> q[x]] /\ q.thumbsLeft = Sizes
          /\ \A x \in JobFields \ {"thumbsLeft"} : q[x] = r[x]
      BY <2>1 DEF JobFields
    <2>3. /\ q.bucket = b /\ q.op = "upload" /\ q.key = k /\ q.asked = k
          /\ q.pic = p /\ q.model = m /\ q.step = "original" /\ q.victims = {}
          /\ q.todo = {} /\ q.meta = None /\ q.clash = r.clash /\ q.twin = r.twin
      BY <2>1, <2>2 DEF JobFields
    <2>4. q.clash \in BOOLEAN /\ q.twin \in BOOLEAN
      BY <2>1, <2>3, Zenon
    <2>5. Shape(q)
      <3>1. k \in ImageKeys
        BY <1>3
      <3> QED
        BY ONLY <2>2, <2>3, <2>4, <3>1, b \in Buckets, p \in Pictures, m \in Models
        DEF Shape, StepsOf, Storing, Dropping
    <2>6. KeysOf(q) = {k}
      BY <1>3, <2>3 DEF KeysOf
    <2>7. /\ ~Working(c) /\ Asked /\ Becomes(c, q) /\ Shape(q)
          /\ KeysOf(q) \subseteq ImageKeys /\ keysMade' = keysMade \cup KeysOf(q)
          /\ q.step \in {"check", "original"} \/ (q.op # "upload" /\ q.step = "read meta")
      BY <1>1, <1>3, <2>3, <2>5, <2>6
    <2> QED
      BY <2>7, BeginsInv
  <1>4. CASE k = None /\ Named(c, Job(b, "upload", k, p, m, action, "original"))
    <2> PICK r : r = Job(b, "upload", k, p, m, action, "original")
      OBVIOUS
    <2>1. /\ r = [x \in JobFields |-> r[x]] /\ r.bucket = b /\ r.op = "upload" /\ r.asked = k
          /\ r.pic = p /\ r.model = m /\ r.victims = {} /\ r.todo = {} /\ r.meta = None
          /\ r.clash \in BOOLEAN /\ r.twin \in BOOLEAN
      BY JobShape
    <2>2. Own(r) = {}
      BY <1>4, <2>1 DEF Own
    <2>3. Ready(c, r)
      BY <1>1, <2>1, <2>2 DEF Ready
    <2>4. StoreTypes' /\ (\A l \in ImageKeys : SameKey(l)) /\ unsure' = unsure
      BY <1>1, StoreKept DEF Asked
    <2>5. OwnSound(c, r)
      BY <2>2 DEF OwnSound
    <2> QED
      BY <1>4, <2>1, <2>3, <2>4, <2>5, NamedInv
  <1> QED
    BY <1>2, <1>3, <1>4 DEF UploadImage

LEMMA OtherRequestsInv ==
  ASSUME ImageInv, NEW c \in Clients, NEW b \in Buckets, NEW k \in keysMade,
         \/ \E m \in Models, index \in IndexNames : IndexImage(c, b, k, m, index)
         \/ UpdateImageMetadata(c, b, k)
         \/ DeleteImage(c, b, k)
  PROVE  ImageInv'
  <1>1. /\ ~Working(c) /\ Asked /\ keysMade' = keysMade
    BY DEF IndexImage, UpdateImageMetadata, DeleteImage, Idle
  <1>2. PICK op \in {"index", "update", "delete"}, n \in Models \cup {None},
             action \in {"ask"} \cup IndexNames :
          /\ op = "index" => n \in Models
          /\ Becomes(c, Job(b, op, k, None, n, action, "read meta"))
    BY DEF IndexImage, UpdateImageMetadata, DeleteImage
  <1> PICK q : q = Job(b, op, k, None, n, action, "read meta")
    OBVIOUS
  <1>3. /\ q = [x \in JobFields |-> q[x]] /\ q.bucket = b /\ q.op = op /\ q.key = k /\ q.asked = k
        /\ q.pic = None /\ q.model = n /\ q.action = action /\ q.step = "read meta" /\ q.victims = {}
        /\ q.todo = {} /\ q.thumbsLeft = {} /\ q.meta = None
        /\ q.clash \in BOOLEAN /\ q.twin \in BOOLEAN
    <2> PICK p, step : p = None /\ step = "read meta"
      OBVIOUS
    <2>1. q = Job(b, op, k, p, n, action, step)
      OBVIOUS
    <2>2. /\ q = [x \in JobFields |-> q[x]] /\ q.bucket = b /\ q.op = op /\ q.key = k /\ q.asked = k
          /\ q.pic = p /\ q.model = n /\ q.action = action /\ q.step = step /\ q.victims = {}
          /\ q.todo = {} /\ q.thumbsLeft = {} /\ q.meta = None
          /\ ~q.clash /\ q.clash \in BOOLEAN /\ q.twin \in BOOLEAN /\ (step = "check" => q.auto)
      BY ONLY <2>1, JobShape
    <2> QED
      BY ONLY <2>2, p = None, step = "read meta"
  <1>4. k \in ImageKeys /\ k # None /\ keysMade \subseteq ImageKeys
    BY ImageAssumption DEF ImageInv
  <1>5. Shape(q)
    BY ONLY <1>2, <1>3, <1>4, b \in Buckets DEF Shape, StepsOf, Storing, Dropping
  <1>6. KeysOf(q) = {k}
    BY <1>3, <1>4 DEF KeysOf
  <1>7. /\ KeysOf(q) \subseteq ImageKeys /\ keysMade' = keysMade \cup KeysOf(q) /\ Becomes(c, q)
        /\ q.op # "upload"
    BY <1>1, <1>2, <1>3, <1>4, <1>6
  <1> QED
    BY <1>1, <1>3, <1>5, <1>7, BeginsInv

\* The request q is r, one step further with the image it is at.
Changes(q, r) ==
  /\ q = [x \in JobFields |-> q[x]]
  /\ \A x \in JobFields \ {"step", "thumbsLeft", "meta", "pic"} : q[x] = r[x]

LEMMA ChangedFields ==
  ASSUME NEW r, NEW q, Changes(q, r)
  PROVE  /\ q.bucket = r.bucket /\ q.op = r.op /\ q.key = r.key /\ q.asked = r.asked
         /\ q.model = r.model /\ q.action = r.action /\ q.auto = r.auto
         /\ q.victims = r.victims /\ q.todo = r.todo /\ q.clash = r.clash /\ q.twin = r.twin
         /\ KeysOf(q) = KeysOf(r)
  BY DEF Changes, JobFields, KeysOf

\* q is at a step that may come after that of r, and has what it needs for it.
Follows(q, r) ==
  /\ q.step \in StepsOf(r.op) /\ q.step \notin {"check", "original"}
  /\ r.op = "upload" => (q.step \in Storing <=> r.step \in Storing)
  /\ r.op = "upload" => q.pic = r.pic
  /\ r.op = "index" /\ q.step \notin {"read meta", "read original"} => q.pic \in Pictures
  /\ r.op = "upload" /\ q.step \in {"insert", "mark"} => r.auto
  /\ q.meta \in Metas \cup {None}
  /\ q.step \in {"read original", "insert", "insert again", "mark", "save"} => q.meta # None
  /\ r.op = "index" /\ q.step = "drop vector" => q.meta # None
  /\ q.thumbsLeft \subseteq Sizes /\ (q.step \in {"meta", "drop meta"} => q.thumbsLeft = {})

LEMMA ChangedShape ==
  ASSUME NEW r, NEW q, Changes(q, r), Shape(r), r.step # "check", Follows(q, r)
  PROVE  Shape(q)
  <1>1. /\ q.bucket = r.bucket /\ q.op = r.op /\ q.key = r.key /\ q.asked = r.asked
        /\ q.model = r.model /\ q.action = r.action /\ q.auto = r.auto
        /\ q.victims = r.victims /\ q.todo = r.todo /\ q.clash = r.clash /\ q.twin = r.twin
    BY ChangedFields
  <1>2. q.clash \in BOOLEAN /\ q.twin \in BOOLEAN
    BY <1>1, Zenon DEF Shape
  <1>3. r.op = "upload" /\ q.step \in Dropping \cup {"read meta"} =>
           r.key \in r.victims \ r.todo /\ r.auto /\ r.action = "overwrite"
    BY DEF Shape, StepsOf, Storing, Dropping, Follows
  <1>4. q.op = "upload" /\ q.step \in Dropping \cup {"read meta"} =>
           q.key \in q.victims \ q.todo /\ q.auto /\ q.action = "overwrite"
    BY <1>1, <1>3, Zenon
  <1>5. q.op = "upload" /\ q.step \in {"insert", "mark"} => q.auto
    BY <1>1, Zenon DEF Follows
  <1>6. q = [x \in JobFields |-> q[x]]
    BY DEF Changes
  <1>7. /\ q.op \in {"upload", "index", "update", "delete"} /\ q.step \in StepsOf(q.op)
        /\ q.bucket \in Buckets /\ q.victims \subseteq ImageKeys /\ q.todo \subseteq q.victims
        /\ q.key \in ImageKeys /\ q.asked \in ImageKeys \cup {None}
        /\ q.op # "upload" => q.victims = {}
        /\ q.op = "upload" => q.pic \in Pictures
        /\ q.op \in {"upload", "index"} => q.model \in Models
        /\ q.op = "upload" /\ q.step \in Storing => q.todo = {}
    BY <1>1 DEF Shape, Follows
  <1>8. /\ q.op = "index" /\ q.step \notin {"read meta", "read original"} => q.pic \in Pictures
        /\ q.op = "index" /\ q.step = "drop vector" => q.meta # None
    BY <1>1 DEF Follows
  <1> QED
    BY <1>2, <1>4, <1>5, <1>6, <1>7, <1>8 DEF Shape, Follows

\* Bucket b alone is written.
SameElse(b, k) ==
  \A d \in Buckets \ {b} : /\ originals'[d][k] = originals[d][k] /\ thumbs'[d][k] = thumbs[d][k]
                           /\ metas'[d][k] = metas[d][k]

LEMMA ElseKept ==
  ASSUME NEW b, NEW k, SameElse(b, k)
  PROVE  /\ \A d \in Buckets \ {b} : (Gone(d, k) <=> Gone(d, k)') /\ (metas'[d][k] = metas[d][k])
         /\ \A d \in Buckets \ {b} : (Bare(d, k) <=> Bare(d, k)')
         /\ vectors'[k] = vectors[k] /\ stored'[k] = stored[k] =>
               /\ \A d \in Buckets \ {b} : (Kept(d, k) <=> Kept(d, k)')
               /\ Unindexed(k) <=> Unindexed(k)'
               /\ Alone(b, k) <=> Alone(b, k)'
  BY DEF SameElse, Gone, Kept, Bare, Alone, Unindexed

LEMMA OriginalPut ==
  ASSUME StoreTypes, NEW b \in Buckets, NEW k \in ImageKeys, NEW v \in Pictures \cup {None},
         originals' = [originals EXCEPT ![b][k] = v], UNCHANGED <<thumbs, metas, vectors, stored>>
  PROVE  /\ StoreTypes' /\ SameElse(b, k) /\ \A l \in ImageKeys \ {k} : SameKey(l)
         /\ originals'[b][k] = v
  BY DEF StoreTypes, SameElse, SameKey

LEMMA MetaPut ==
  ASSUME StoreTypes, NEW b \in Buckets, NEW k \in ImageKeys, NEW v \in Metas \cup {None},
         metas' = [metas EXCEPT ![b][k] = v], UNCHANGED <<originals, thumbs, vectors, stored>>
  PROVE  /\ StoreTypes' /\ SameElse(b, k) /\ \A l \in ImageKeys \ {k} : SameKey(l)
         /\ metas'[b][k] = v
  BY DEF StoreTypes, SameElse, SameKey

LEMMA VectorPut ==
  ASSUME StoreTypes, NEW k \in ImageKeys, NEW v \in Found \cup {None},
         vectors' = vectors \/ vectors' = [vectors EXCEPT ![k] = v],
         stored' = stored \/ stored' = [stored EXCEPT ![k] = v],
         UNCHANGED <<originals, thumbs, metas>>
  PROVE  /\ StoreTypes' /\ (\A b \in Buckets : SameElse(b, k))
         /\ \A l \in ImageKeys \ {k} : SameKey(l)
         /\ vectors' = [vectors EXCEPT ![k] = v] => vectors'[k] = v
         /\ stored' = [stored EXCEPT ![k] = v] => stored'[k] = v
  BY DEF StoreTypes, SameElse, SameKey

LEMMA Stepping ==
  ASSUME ImageInv, NEW c \in Clients, Working(c), NEW r, r = jobs[c], r.step # "check"
  PROVE  /\ Shape(r) /\ r = [x \in JobFields |-> r[x]] /\ StoreTypes
         /\ r.key \in ImageKeys /\ r.bucket \in Buckets /\ r.key \in KeysOf(r)
  <1>1. Shape(r) /\ StoreTypes
    BY DEF ImageInv
  <1> QED
    BY <1>1, KeyOfJob DEF Shape

LEMMA PutOriginalInv ==
  ASSUME ImageInv, NEW c \in Clients, PutOriginal(c)
  PROVE  ImageInv'
  <1> PICK r, q : r = jobs[c] /\ q = [r EXCEPT !.step = "thumbnails"]
    OBVIOUS
  <1>1. /\ Working(c) /\ r.step = "original" /\ Becomes(c, q) /\ keysMade' = keysMade /\ unsure' = unsure
        /\ originals' = [originals EXCEPT ![r.bucket][r.key] = r.pic]
        /\ UNCHANGED <<thumbs, metas, vectors, stored>>
    BY DEF PutOriginal, Doing, Proceeds, Quiet
  <1>2. /\ Shape(r) /\ r = [x \in JobFields |-> r[x]] /\ StoreTypes
        /\ r.key \in ImageKeys /\ r.bucket \in Buckets
    BY <1>1, Stepping
  <1>3. /\ Changes(q, r) /\ q.step = "thumbnails" /\ q.thumbsLeft = r.thumbsLeft /\ q.meta = r.meta
        /\ q.pic = r.pic
    BY <1>2 DEF Changes, JobFields
  <1>4. r.op = "upload" /\ r.pic \in Pictures \cup {None} /\ r.thumbsLeft = Sizes
    BY <1>1, <1>2 DEF Shape, StepsOf, Storing, Dropping
  <1>5. Shape(q)
    <2>1. Follows(q, r)
      BY <1>1, <1>2, <1>3, <1>4 DEF Follows, Shape, StepsOf, Storing, Dropping
    <2> QED
      BY <1>1, <1>2, <1>3, <2>1, ChangedShape
  <1>6. /\ q.bucket = r.bucket /\ q.op = r.op /\ q.key = r.key /\ KeysOf(q) = KeysOf(r)
        /\ q.clash = r.clash
    BY <1>3, ChangedFields
  <1>7. /\ StoreTypes' /\ SameElse(r.bucket, r.key) /\ \A l \in ImageKeys \ {r.key} : SameKey(l)
        /\ originals'[r.bucket][r.key] = r.pic
    <2> PICK b, k, v : b = r.bucket /\ k = r.key /\ v = r.pic
      OBVIOUS
    <2>1. /\ StoreTypes /\ b \in Buckets /\ k \in ImageKeys /\ v \in Pictures \cup {None}
          /\ originals' = [originals EXCEPT ![b][k] = v] /\ UNCHANGED <<thumbs, metas, vectors, stored>>
      BY <1>1, <1>2, <1>4
    <2>2. /\ StoreTypes' /\ SameElse(b, k) /\ \A l \in ImageKeys \ {k} : SameKey(l)
          /\ originals'[b][k] = v
      BY ONLY <2>1, OriginalPut
    <2> QED
      BY <2>2
  <1>8. ASSUME Held(r), r.key \notin unsure' PROVE AtWork(q)'
    <2>1. Sound(r.key)
      BY <1>1, <1>8 DEF Held, AtWork
    <2>2. \A d \in Buckets \ {r.bucket} : Kept(d, r.key)'
      BY <1>1, <1>7, <2>1, ElseKept DEF Sound
    <2>3. Unindexed(r.key)' \/ Listed(r.key)'
      BY <1>1, <2>1 DEF Sound, Listed, Unindexed
    <2> QED
      BY <1>3, <1>4, <1>6, <1>7, <2>2, <2>3 DEF AtWork
  <1>9. Deleted(q)'
    BY <1>4, <1>6 DEF Deleted
  <1>10. /\ q.step # "check" /\ r.step # "check" /\ (r.clash => q.clash)
         /\ unsure \subseteq unsure' /\ unsure' \subseteq unsure \cup {r.key}
    BY <1>1, <1>3, <1>6
  <1> QED
    BY <1>1, <1>5, <1>6, <1>7, <1>8, <1>9, <1>10, ContinuesInv

LEMMA PutThumbnailInv ==
  ASSUME ImageInv, NEW c \in Clients, PutThumbnail(c)
  PROVE  ImageInv'
  <1> PICK r, b, k, v : r = jobs[c] /\ b = r.bucket /\ k = r.key /\ v = r.pic
    OBVIOUS
  <1>1. /\ Working(c) /\ r.step = "thumbnails" /\ keysMade' = keysMade /\ unsure' = unsure
        /\ UNCHANGED <<originals, metas, vectors, stored>>
    BY DEF PutThumbnail, Doing, Proceeds, Quiet
  <1>2. PICK s \in r.thumbsLeft :
          /\ thumbs' = [thumbs EXCEPT ![b][k][s] = v]
          /\ Becomes(c, [r EXCEPT !.thumbsLeft = r.thumbsLeft \ {s},
                                  !.step = IF r.thumbsLeft \ {s} = {} THEN "meta" ELSE @])
    BY DEF PutThumbnail, Proceeds
  <1> PICK q : q = [r EXCEPT !.thumbsLeft = r.thumbsLeft \ {s},
                             !.step = IF r.thumbsLeft \ {s} = {} THEN "meta" ELSE @]
    OBVIOUS
  <1>3. /\ Shape(r) /\ r = [x \in JobFields |-> r[x]] /\ StoreTypes
        /\ k \in ImageKeys /\ b \in Buckets
    BY <1>1, Stepping
  <1>4. /\ Changes(q, r) /\ q.thumbsLeft = r.thumbsLeft \ {s} /\ q.meta = r.meta /\ q.pic = v
        /\ q.step = IF q.thumbsLeft = {} THEN "meta" ELSE "thumbnails"
    BY <1>1, <1>3 DEF Changes, JobFields
  <1>5. r.op = "upload" /\ v \in Pictures \cup {None} /\ s \in Sizes
    BY <1>1, <1>3 DEF Shape, StepsOf, Storing, Dropping
  <1>6. Shape(q)
    <2>1. /\ q.step \in Storing /\ r.step \in Storing /\ q.step \in StepsOf(r.op)
          /\ q.step \in {"thumbnails", "meta"}
      BY <1>1, <1>4, <1>5 DEF StepsOf, Storing
    <2>2. /\ q.thumbsLeft \subseteq Sizes /\ (q.step = "meta" => q.thumbsLeft = {})
          /\ q.meta \in Metas \cup {None}
      <3>1. r.thumbsLeft \subseteq Sizes /\ r.meta \in Metas \cup {None}
        BY <1>3 DEF Shape
      <3> QED
        BY ONLY <1>4, <3>1
    <2>3. Follows(q, r)
      BY ONLY <1>4, <1>5, <2>1, <2>2, v = r.pic DEF Follows
    <2>4. Changes(q, r) /\ r.step # "check"
      BY <1>1, <1>4
    <2> QED
      BY <1>3, <2>3, <2>4, ChangedShape
  <1>7. /\ q.bucket = b /\ q.op = r.op /\ q.key = k /\ KeysOf(q) = KeysOf(r) /\ q.clash = r.clash
    BY <1>4, ChangedFields
  <1>8. /\ StoreTypes' /\ SameElse(b, k) /\ \A l \in ImageKeys \ {k} : SameKey(l)
        /\ thumbs'[b][k][s] = v /\ \A z \in Sizes \ {s} : thumbs'[b][k][z] = thumbs[b][k][z]
    <2>1. /\ thumbs' = [thumbs EXCEPT ![b][k][s] = v] /\ UNCHANGED <<originals, metas, vectors, stored>>
          /\ StoreTypes /\ b \in Buckets /\ k \in ImageKeys /\ v \in Pictures \cup {None}
          /\ s \in Sizes
      BY <1>1, <1>2, <1>3, <1>5
    <2> QED
      BY ONLY <2>1 DEF StoreTypes, SameElse, SameKey
  <1>9. ASSUME Held(r), r.key \notin unsure' PROVE AtWork(q)'
    <2>1. /\ \A d \in Buckets \ {b} : Kept(d, k)
          /\ Unindexed(k) \/ Listed(k)
          /\ originals[b][k] = v /\ \A z \in Sizes \ r.thumbsLeft : thumbs[b][k][z] = v
      BY <1>1, <1>9 DEF Held, AtWork
    <2>2. \A d \in Buckets \ {b} : Kept(d, k)'
      BY <1>1, <1>8, <2>1, ElseKept
    <2>3. Unindexed(k)' \/ Listed(k)'
      BY <1>1, <2>1 DEF Listed, Unindexed
    <2>4. originals'[b][k] = v /\ \A z \in Sizes \ q.thumbsLeft : thumbs'[b][k][z] = v
      BY <1>1, <1>4, <1>8, <2>1
    <2>5. q.step \in {"thumbnails", "meta"}
      BY <1>4
    <2> QED
      BY ONLY <1>4, <1>5, <1>7, <2>2, <2>3, <2>4, <2>5 DEF AtWork
  <1>10. Deleted(q)'
    BY <1>5, <1>7 DEF Deleted
  <1>11. /\ q.step # "check" /\ r.step # "check" /\ (r.clash => q.clash) /\ Becomes(c, q)
         /\ unsure \subseteq unsure' /\ unsure' \subseteq unsure \cup {r.key}
    BY <1>1, <1>2, <1>4, <1>7
  <1> QED
    BY ONLY ImageInv, c \in Clients, r = jobs[c], k = r.key,
       <1>1, <1>6, <1>7, <1>8, <1>9, <1>10, <1>11, ContinuesInv

LEMMA PutMetadataInv ==
  ASSUME ImageInv, NEW c \in Clients, PutMetadata(c)
  PROVE  ImageInv'
  <1> PICK r, b, k, v : r = jobs[c] /\ b = r.bucket /\ k = r.key /\ v = Meta(r.pic, FALSE, None)
    OBVIOUS
  <1>1. /\ Working(c) /\ r.step = "meta" /\ metas' = [metas EXCEPT ![b][k] = v]
        /\ UNCHANGED <<originals, thumbs, vectors, stored>>
        /\ IF r.auto THEN Proceeds(c, [r EXCEPT !.meta = v, !.step = "insert"]) ELSE Finishes(c)
    BY DEF PutMetadata, Doing
  <1>2. /\ Shape(r) /\ r = [x \in JobFields |-> r[x]] /\ StoreTypes
        /\ k \in ImageKeys /\ b \in Buckets
    BY <1>1, Stepping
  <1>3. r.op = "upload" /\ r.pic \in Pictures /\ r.pic # None /\ r.thumbsLeft = {}
    BY <1>1, <1>2, ImageAssumption DEF Shape, StepsOf, Storing, Dropping
  <1>4. v \in Metas /\ v # None /\ ~v.indexed
    <2>1. v \in [pic : Pictures, indexed : BOOLEAN, model : Models \cup {None}] /\ v.indexed = FALSE
      BY <1>3 DEF Meta
    <2>2. v # None
      BY <2>1, ImageAssumption
    <2>3. ~v.indexed
      BY <2>1, Zenon
    <2>4. v \in Metas
      BY <2>1, <2>3 DEF Metas
    <2> QED
      BY <2>2, <2>3, <2>4
  <1>5. /\ StoreTypes' /\ SameElse(b, k) /\ \A l \in ImageKeys \ {k} : SameKey(l)
        /\ metas'[b][k] = v
    <2>1. /\ metas' = [metas EXCEPT ![b][k] = v] /\ UNCHANGED <<originals, thumbs, vectors, stored>>
          /\ StoreTypes /\ b \in Buckets /\ k \in ImageKeys /\ v \in Metas \cup {None}
      BY <1>1, <1>2, <1>4
    <2> QED
      BY ONLY <2>1, MetaPut
  <1>6. ASSUME Held(r), k \notin unsure
        PROVE  Sound(k)' /\ originals'[b][k] = r.pic /\ thumbs'[b][k] = Whole(r.pic)
    <2>1. /\ \A d \in Buckets \ {b} : Kept(d, k)
          /\ originals[b][k] = r.pic /\ \A s \in Sizes : thumbs[b][k][s] = r.pic
      BY <1>1, <1>3, <1>6 DEF Held, AtWork
    <2>2. \A d \in Buckets \ {b} : Kept(d, k)'
      BY <1>1, <1>5, <2>1, ElseKept
    <2>3. thumbs[b][k] = Whole(r.pic)
      <3>1. thumbs[b][k] \in [Sizes -> Pictures \cup {None}]
        <4>1. thumbs \in [Buckets -> [ImageKeys -> [Sizes -> Pictures \cup {None}]]]
          BY <1>2 DEF StoreTypes
        <4> QED
          BY ONLY <1>2, <4>1
      <3> QED
        BY <2>1, <3>1 DEF Whole
    <2>4. /\ metas'[b][k] # None /\ originals'[b][k] # None /\ thumbs'[b][k] = Whole(originals'[b][k])
          /\ ~metas'[b][k].indexed
      BY <1>1, <1>3, <1>4, <1>5, <2>1, <2>3
    <2>5. Sound(k)'
      <3>1. Kept(b, k)' /\ Listed(k)'
        BY <1>2, <2>4 DEF Kept, Bare, Listed
      <3> QED
        BY <2>2, <3>1 DEF Sound
    <2> QED
      BY <1>1, <2>1, <2>3, <2>5
  <1>7. CASE r.auto
    <2> PICK q : q = [r EXCEPT !.meta = v, !.step = "insert"]
      OBVIOUS
    <2>1. Becomes(c, q) /\ keysMade' = keysMade /\ unsure' = unsure
      BY <1>1, <1>7 DEF Proceeds, Quiet
    <2>2. /\ Changes(q, r) /\ q.thumbsLeft = r.thumbsLeft /\ q.meta = v /\ q.pic = r.pic
          /\ q.step = "insert"
      BY <1>2 DEF Changes, JobFields
    <2>3. Shape(q)
      <3>1. r.step # "check" /\ q.step \in StepsOf(r.op) /\ (q.step \in Storing <=> r.step \in Storing)
        BY <1>1, <1>3, <2>2 DEF StepsOf, Storing
      <3>2. r.thumbsLeft \subseteq Sizes
        BY <1>3
      <3>3. Follows(q, r)
        BY ONLY <1>3, <1>4, <1>7, <2>2, <3>1, <3>2 DEF Follows
      <3> QED
        BY <1>1, <1>2, <2>2, <3>3, ChangedShape
    <2>4. /\ q.bucket = b /\ q.op = r.op /\ q.key = k /\ KeysOf(q) = KeysOf(r) /\ q.clash = r.clash
      BY <2>2, ChangedFields
    <2>5. ASSUME Held(r), r.key \notin unsure' PROVE AtWork(q)'
      <3>1. Sound(k)' /\ originals'[b][k] = r.pic /\ thumbs'[b][k] = Whole(r.pic)
        BY <1>6, <2>1, <2>5
      <3>2. ~q.meta.indexed /\ q.meta # None
        BY <1>4, <2>2, Zenon
      <3> QED
        BY ONLY <1>3, <1>5, <2>2, <2>4, <3>1, <3>2 DEF AtWork, Whole
    <2>6. Deleted(q)'
      BY <1>3, <2>4 DEF Deleted
    <2>7. /\ q.step # "check" /\ r.step # "check" /\ (r.clash => q.clash)
          /\ unsure \subseteq unsure' /\ unsure' \subseteq unsure \cup {r.key}
      BY <1>1, <2>1, <2>2, <2>4
    <2> QED
      BY <1>1, <1>5, <2>1, <2>3, <2>4, <2>5, <2>6, <2>7, ContinuesInv
  <1>8. CASE ~r.auto
    <2>1. Finishes(c)
      BY <1>1, <1>8
    <2>2. /\ jobs' = [jobs EXCEPT ![c] = NoJob] /\ keysMade' = keysMade
          /\ unsure' = IF r.clash THEN unsure \cup KeysOf(r) ELSE unsure
      BY <1>3, <2>1 DEF Finishes, Cleared
    <2>3. ~r.clash /\ k \notin unsure => Sound(k)'
      BY <1>1, <1>6, Holds
    <2> QED
      BY <1>1, <1>5, <2>2, <2>3, FinishedInv
  <1> QED
    BY <1>7, <1>8

\* A request that a failing call, or another index, has made doubtful.
Disturbs(r, j) ==
  /\ Like(r, j) /\ Shape(r) /\ KeysOf(r) = KeysOf(j) /\ r.key = j.key /\ r.step = j.step
  /\ r.op = j.op /\ r.pic = j.pic /\ r.meta = j.meta /\ r.thumbsLeft = j.thumbsLeft
  /\ r = [x \in JobFields |-> r[x]]

LEMMA Disturbed ==
  ASSUME ImageInv, NEW c \in Clients, Working(c), NEW j, j = jobs[c],
         NEW r, r = [j EXCEPT !.clash = TRUE]
  PROVE  Disturbs(r, j) /\ r.clash
  <1>1. Shape(j)
    BY DEF ImageInv
  <1>2. Like(r, j) /\ r.clash
    <2>1. j = [x \in JobFields |-> j[x]] /\ j.twin \in BOOLEAN
      BY <1>1, Zenon DEF Shape
    <2>2. /\ r = [x \in JobFields |-> r[x]] /\ r.clash = TRUE
          /\ \A x \in JobFields \ {"clash"} : r[x] = j[x]
      BY <2>1 DEF JobFields
    <2>3. r.twin = j.twin
      BY <2>2 DEF JobFields
    <2>4. r.clash /\ r.clash \in BOOLEAN /\ r.twin \in BOOLEAN
      BY <2>1, <2>2, <2>3, Zenon
    <2> QED
      BY ONLY <2>2, <2>4 DEF Like
  <1>3. /\ r.key = j.key /\ r.step = j.step /\ r.op = j.op /\ r.pic = j.pic /\ r.meta = j.meta
        /\ r.thumbsLeft = j.thumbsLeft
    BY ONLY <1>2, LikeFields
  <1>4. Shape(r) /\ KeysOf(r) = KeysOf(j)
    BY ONLY <1>1, <1>2, LikeSame
  <1>5. r = [x \in JobFields |-> r[x]]
    BY ONLY <1>2 DEF Like
  <1>6. Disturbs(r, j)
    BY ONLY <1>2, <1>3, <1>4, <1>5 DEF Disturbs
  <1> QED
    BY ONLY <1>2, <1>6

\* A disturbed request goes on with the image it is at.
LEMMA PassedInv ==
  ASSUME ImageInv, NEW c \in Clients, Working(c), NEW r, Shape(r), KeysOf(r) = KeysOf(jobs[c]),
         r.key = jobs[c].key, r.step = jobs[c].step, r.clash, r.step # "check",
         NEW q, Changes(q, r), Follows(q, r), Becomes(c, q),
         StoreTypes', \A l \in ImageKeys \ {r.key} : SameKey(l), keysMade' = keysMade, unsure' = unsure
  PROVE  ImageInv'
  <1> PICK j : j = jobs[c]
    OBVIOUS
  <1>1. Shape(q)
    BY ChangedShape
  <1>2. q.key = j.key /\ KeysOf(q) = KeysOf(j) /\ q.clash = r.clash
    BY ChangedFields
  <1>3. q.clash
    BY <1>2, Zenon
  <1>4. q.step # "check" /\ j.step # "check"
    BY DEF Follows
  <1> QED
    BY <1>1, <1>2, <1>3, <1>4, ContinuesInv

\* Without a vector, no image says that it has one.
LEMMA NotIndexed ==
  ASSUME StoreTypes, NEW d \in Buckets, NEW k \in ImageKeys, Kept(d, k), vectors[k] = None,
         metas[d][k] # None
  PROVE  ~metas[d][k].indexed
  <1> SUFFICES ASSUME metas[d][k].indexed PROVE FALSE
    OBVIOUS
  <1> PICK x, p : x = metas[d][k] /\ p = originals[d][k]
    OBVIOUS
  <1>1. x \in Metas /\ p \in Pictures \cup {None} /\ p # None /\ None = [pic |-> p, model |-> x.model]
    BY DEF StoreTypes, Kept, Bare
  <1>2. x.model \in Models
    BY <1>1 DEF Metas
  <1>3. None \in [pic : Pictures, model : Models]
    BY <1>1, <1>2
  <1> QED
    BY <1>3, ImageAssumption

\* A request goes on to a step that may follow.
LEMMA StepInv ==
  ASSUME ImageInv, NEW c \in Clients, Working(c), NEW r, r = jobs[c], r.step # "check",
         NEW q, Changes(q, r), Follows(q, r), Becomes(c, q),
         StoreTypes', \A l \in ImageKeys \ {r.key} : SameKey(l),
         keysMade' = keysMade, unsure \subseteq unsure', unsure' \subseteq unsure \cup {r.key},
         Held(r) /\ r.key \notin unsure' => AtWork(q)',
         Held(r) => Deleted(q)'
  PROVE  ImageInv'
  <1>1. Shape(r)
    BY Stepping
  <1>2. Shape(q)
    BY <1>1, ChangedShape
  <1>3. q.key = r.key /\ KeysOf(q) = KeysOf(r) /\ (r.clash => q.clash)
    BY ChangedFields
  <1>4. q.step # "check"
    BY DEF Follows
  <1> QED
    BY <1>2, <1>3, <1>4, ContinuesInv

\* What a request that inserts a vector is.
LEMMA AtInsertion ==
  ASSUME ImageInv, NEW c \in Clients, Working(c), NEW r, r = jobs[c],
         r.step \in {"insert", "insert again"}
  PROVE  /\ Shape(r) /\ r = [x \in JobFields |-> r[x]] /\ StoreTypes
         /\ r.key \in ImageKeys /\ r.bucket \in Buckets
         /\ r.op \in {"upload", "index"} /\ (r.op = "upload" => r.auto /\ r.step = "insert")
         /\ r.pic \in Pictures /\ r.model \in Models /\ r.meta # None /\ r.meta \in Metas \cup {None}
         /\ r.thumbsLeft \subseteq Sizes /\ VectorOf(r) \in Found
  <1>1. /\ Shape(r) /\ r = [x \in JobFields |-> r[x]] /\ StoreTypes
        /\ r.key \in ImageKeys /\ r.bucket \in Buckets
    BY Stepping
  <1>2. /\ r.op \in {"upload", "index"} /\ (r.op = "upload" => r.auto /\ r.step = "insert")
        /\ r.pic \in Pictures /\ r.model \in Models /\ r.meta # None /\ r.meta \in Metas \cup {None}
        /\ r.thumbsLeft \subseteq Sizes
    BY <1>1 DEF Shape, StepsOf, Storing, Dropping
  <1>3. VectorOf(r) \in Found
    BY <1>2 DEF VectorOf, Found
  <1> QED
    BY <1>1, <1>2, <1>3

LEMMA InsertVectorInv ==
  ASSUME ImageInv, NEW c \in Clients, InsertVector(c)
  PROVE  ImageInv'
  <1> PICK r, b, k, v : r = jobs[c] /\ b = r.bucket /\ k = r.key /\ v = VectorOf(r)
    OBVIOUS
  <1>1. /\ Working(c) /\ r.step \in {"insert", "insert again"}
    BY DEF InsertVector, Inserting, Doing
  <1>2. /\ Shape(r) /\ r = [x \in JobFields |-> r[x]] /\ StoreTypes
        /\ k \in ImageKeys /\ b \in Buckets
        /\ r.op \in {"upload", "index"} /\ (r.op = "upload" => r.auto /\ r.step = "insert")
        /\ r.pic \in Pictures /\ r.model \in Models /\ r.meta # None /\ r.meta \in Metas \cup {None}
        /\ r.thumbsLeft \subseteq Sizes /\ v \in Found
    BY <1>1, AtInsertion
  <1> PICK q : q = [r EXCEPT !.step = "mark"]
    OBVIOUS
  <1>3. /\ vectors[k] = None /\ vectors' = [vectors EXCEPT ![k] = v]
        /\ stored' = [stored EXCEPT ![k] = v] /\ Becomes(c, q)
        /\ UNCHANGED <<originals, thumbs, metas, keysMade, unsure>>
    BY DEF InsertVector
  <1>4. /\ Changes(q, r) /\ q.thumbsLeft = r.thumbsLeft /\ q.meta = r.meta /\ q.pic = r.pic
        /\ q.step = "mark"
    BY <1>2 DEF Changes, JobFields
  <1>5. /\ r.step # "check" /\ Follows(q, r)
    <2>1. /\ r.step # "check" /\ q.step \in StepsOf(r.op)
          /\ r.op = "upload" => (q.step \in Storing <=> r.step \in Storing)
      BY <1>1, <1>2, <1>4, StepsAre DEF Storing
    <2> QED
      BY ONLY <1>2, <1>4, <2>1 DEF Follows
  <1>6. /\ q.bucket = b /\ q.op = r.op /\ q.key = k /\ q.model = r.model
    <2>1. Changes(q, r)
      BY <1>4
    <2>2. q.bucket = r.bucket /\ q.op = r.op /\ q.key = r.key /\ q.model = r.model
      BY ONLY <2>1, ChangedFields
    <2> QED
      BY <2>2
  <1>7. /\ StoreTypes' /\ SameElse(b, k) /\ \A l \in ImageKeys \ {k} : SameKey(l)
        /\ vectors'[k] = v /\ stored'[k] = v
    <2>1. /\ vectors' = [vectors EXCEPT ![k] = v] /\ stored' = [stored EXCEPT ![k] = v]
          /\ UNCHANGED <<originals, thumbs, metas>>
          /\ StoreTypes /\ k \in ImageKeys /\ v \in Found \cup {None} /\ b \in Buckets
      BY <1>2, <1>3
    <2> QED
      BY ONLY <2>1, VectorPut
  <1>8. ASSUME Held(r), r.key \notin unsure' PROVE AtWork(q)'
    <2>1. /\ \A d \in Buckets \ {b} : Kept(d, k)
          /\ originals[b][k] = r.pic /\ thumbs[b][k] = Whole(r.pic) /\ metas[b][k] = r.meta
      <3>1. AtWork(r)
        BY <1>1, <1>3, <1>8 DEF Held
      <3>2. CASE r.step = "insert"
        <4>1. Sound(k) /\ originals[b][k] = r.pic /\ thumbs[b][k] = Whole(r.pic) /\ metas[b][k] = r.meta
          BY <3>1, <3>2 DEF AtWork
        <4> QED
          BY <4>1 DEF Sound
      <3>3. CASE r.step = "insert again"
        <4>1. Alone(b, k) /\ originals[b][k] = r.pic /\ thumbs[b][k] = Whole(r.pic) /\ metas[b][k] = r.meta
          BY <3>1, <3>3 DEF AtWork
        <4>2. \A d \in Buckets \ {b} : Kept(d, k)
          BY <4>1 DEF Alone, Gone, Kept, Bare, Whole, NoThumbs
        <4> QED
          BY <4>1, <4>2
      <3> QED
        BY <1>1, <3>2, <3>3
    <2>2. \A d \in Buckets \ {b} : Kept(d, k)'
      <3> TAKE d \in Buckets \ {b}
      <3>1. metas[d][k] # None => ~metas[d][k].indexed
        BY <1>2, <1>3, <2>1, NotIndexed
      <3> QED
        BY <1>3, <2>1, <3>1 DEF Kept, Bare
    <2>3. vectors'[k] = [pic |-> q.pic, model |-> q.model] /\ stored'[k] = vectors'[k]
      BY <1>4, <1>6, <1>7 DEF VectorOf
    <2>4. originals'[b][k] = q.pic /\ thumbs'[b][k] = Whole(q.pic) /\ metas'[b][k] = q.meta
      BY <1>3, <1>4, <2>1 DEF Whole
    <2> QED
      BY ONLY <1>2, <1>4, <1>6, <2>2, <2>3, <2>4 DEF AtWork, Whole
  <1>9. Deleted(q)'
    BY <1>2, <1>6 DEF Deleted
  <1>10. keysMade' = keysMade /\ unsure \subseteq unsure' /\ unsure' \subseteq unsure \cup {r.key}
    BY <1>3
  <1> QED
    BY <1>1, <1>3, <1>4, <1>5, <1>7, <1>8, <1>9, <1>10, StepInv

\* A request is answered, and what shares a vector with its key made doubtful.
LEMMA EndsShared ==
  ASSUME ImageInv, NEW c \in Clients, Working(c), NEW r, r = jobs[c], r.step # "check", StoreTypes',
         jobs' = [jobs EXCEPT ![c] = NoJob], keysMade' = keysMade,
         unsure' = unsure \cup Shared(r) \cup (IF r.clash THEN KeysOf(r) ELSE {}),
         \A k \in ImageKeys \ {r.key} : SameKey(k),
         ~r.clash /\ r.key \notin unsure' => Sound(r.key)'
  PROVE  ImageInv'
  <1>1. Shape(r) /\ KeysOf(r) \subseteq keysMade /\ keysMade \subseteq ImageKeys /\ unsure \subseteq keysMade
    BY DEF ImageInv
  <1>2. r.key \in KeysOf(r) /\ At(r) = r.key
    BY <1>1, KeyOfJob
  <1>3. Shared(r) \subseteq {r.key}
    BY DEF Shared
  <1>4. ASSUME ~r.clash, NEW k \in KeysOf(r) \ unsure' PROVE Sound(k)'
    <2>1. CASE k = r.key
      BY <1>4, <2>1
    <2>2. CASE k # r.key
      <3>1. Held(r)
        BY <1>4, Holds
      <3>2. Sound(k)
        BY <1>2, <1>4, <2>2, <3>1 DEF Held
      <3> QED
        BY <1>1, <1>4, <2>2, <3>2, SameSound
    <2> QED
      BY <2>1, <2>2
  <1>5. /\ unsure' \subseteq keysMade /\ unsure \ KeysOf(r) \subseteq unsure'
        /\ r.clash => KeysOf(r) \subseteq unsure'
    BY <1>1, <1>2, <1>3
  <1>6. \A k \in ImageKeys \ KeysOf(r) : SameKey(k)
    BY <1>2
  <1> QED
    BY <1>4, <1>5, <1>6, EndsInv

\* A vector that only RocksDB takes harms no image that shares it with nobody.
LEMMA StoredAside ==
  ASSUME StoreTypes, NEW r, Shape(r), AtWork(r), r.op = "upload", r.step = "insert",
         r.key \notin Shared(r), r.key \in ImageKeys,
         UNCHANGED <<originals, thumbs, metas>>
  PROVE  Sound(r.key)'
  <1> PICK b, k : b = r.bucket /\ k = r.key
    OBVIOUS
  <1>1. /\ Sound(k) /\ ~r.meta.indexed /\ r.meta # None /\ metas[b][k] = r.meta /\ b \in Buckets
    BY DEF AtWork, Shape
  <1>2. \A d \in Buckets \ {b} : metas[d][k] = None
    BY DEF Shared
  <1>3. \A d \in Buckets : Kept(d, k)'
    <2> TAKE d \in Buckets
    <2>1. Bare(d, k) /\ (metas[d][k] # None => ~metas[d][k].indexed)
      BY <1>1, <1>2 DEF Sound, Kept
    <2> QED
      BY <2>1 DEF Kept, Bare
  <1>4. Listed(k)'
    BY <1>1 DEF Listed
  <1> QED
    BY <1>3, <1>4 DEF Sound

LEMMA RefuseVectorInv ==
  ASSUME ImageInv, NEW c \in Clients, RefuseVector(c)
  PROVE  ImageInv'
  <1> PICK r, b, k, v : r = jobs[c] /\ b = r.bucket /\ k = r.key /\ v = VectorOf(r)
    OBVIOUS
  <1>1. /\ Working(c) /\ r.step \in {"insert", "insert again"} /\ vectors[k] # None
        /\ stored' = [stored EXCEPT ![k] = v] /\ UNCHANGED <<originals, thumbs, metas, vectors, keysMade>>
    BY DEF RefuseVector, Inserting, Doing
  <1>2. /\ Shape(r) /\ r = [x \in JobFields |-> r[x]] /\ StoreTypes
        /\ k \in ImageKeys /\ b \in Buckets
        /\ r.op \in {"upload", "index"} /\ (r.op = "upload" => r.auto /\ r.step = "insert")
        /\ r.pic \in Pictures /\ r.model \in Models /\ r.meta # None /\ r.meta \in Metas \cup {None}
        /\ r.thumbsLeft \subseteq Sizes /\ v \in Found
    BY <1>1, AtInsertion
  <1>3. /\ StoreTypes' /\ SameElse(b, k) /\ \A l \in ImageKeys \ {k} : SameKey(l)
    <2>1. /\ vectors' = vectors /\ stored' = [stored EXCEPT ![k] = v]
          /\ UNCHANGED <<originals, thumbs, metas>>
          /\ StoreTypes /\ k \in ImageKeys /\ v \in Found \cup {None} /\ b \in Buckets
      BY <1>1, <1>2
    <2> QED
      BY ONLY <2>1, VectorPut
  <1>4. CASE r.op = "index" /\ r.step = "insert"
    <2> PICK q : q = [r EXCEPT !.step = "drop vector"]
      OBVIOUS
    <2>1. Becomes(c, q) /\ unsure' = unsure
      BY <1>4 DEF RefuseVector, AlreadyExists
    <2>2. /\ Changes(q, r) /\ q.thumbsLeft = r.thumbsLeft /\ q.meta = r.meta /\ q.pic = r.pic
          /\ q.step = "drop vector"
      BY <1>2 DEF Changes, JobFields
    <2>3. r.step # "check" /\ Follows(q, r)
      <3>1. r.step # "check" /\ q.step \in StepsOf(r.op)
        BY <1>1, <1>4, <2>2, StepsAre
      <3> QED
        BY ONLY <1>2, <1>4, <2>2, <3>1 DEF Follows
    <2>4. q.bucket = b /\ q.op = r.op /\ q.key = k
      <3>1. Changes(q, r)
        BY <2>2
      <3>2. q.bucket = r.bucket /\ q.op = r.op /\ q.key = r.key
        BY ONLY <3>1, ChangedFields
      <3> QED
        BY <3>2
    <2>5. ASSUME Held(r), r.key \notin unsure' PROVE AtWork(q)'
      <3>1. Sound(k) /\ originals[b][k] = r.pic /\ thumbs[b][k] = Whole(r.pic) /\ metas[b][k] = r.meta
        BY <1>4, <2>1, <2>5 DEF Held, AtWork
      <3>2. \A d \in Buckets : Bare(d, k)'
        BY <1>1, <3>1 DEF Sound, Kept, Bare
      <3>3. originals'[b][k] = r.pic /\ thumbs'[b][k] = Whole(r.pic) /\ metas'[b][k] = r.meta
        BY <1>1, <3>1 DEF Whole
      <3> QED
        BY ONLY <1>2, <1>4, <2>2, <2>4, <3>2, <3>3 DEF AtWork, Whole
    <2>6. Deleted(q)'
      BY <1>2, <2>4 DEF Deleted
    <2>7. keysMade' = keysMade /\ unsure \subseteq unsure' /\ unsure' \subseteq unsure \cup {r.key}
      BY <1>1, <2>1
    <2> QED
      BY <1>1, <1>3, <2>1, <2>2, <2>3, <2>5, <2>6, <2>7, StepInv
  <1>5. CASE ~(r.op = "index" /\ r.step = "insert")
    <2>1. /\ jobs' = [jobs EXCEPT ![c] = NoJob] /\ keysMade' = keysMade
          /\ unsure' = unsure \cup Shared(r) \cup (IF r.clash THEN KeysOf(r) ELSE {})
      BY <1>5 DEF RefuseVector
    <2>2. ASSUME ~r.clash, k \notin unsure' PROVE Sound(k)'
      <3>1. AtWork(r) /\ k \notin Shared(r)
        BY <1>1, <2>1, <2>2, Holds DEF Held
      <3>2. r.step = "insert" /\ r.op = "upload"
        BY <1>1, <1>2, <1>5, <3>1 DEF AtWork, Alone, Unindexed
      <3> QED
        BY <1>1, <1>2, <3>1, <3>2, StoredAside
    <2> QED
      BY <1>1, <1>3, <2>1, <2>2, EndsShared
  <1> QED
    BY <1>4, <1>5

LEMMA InsertElsewhereInv ==
  ASSUME ImageInv, NEW c \in Clients, InsertElsewhere(c)
  PROVE  ImageInv'
  <1> PICK r, q : r = jobs[c] /\ q = [r EXCEPT !.step = "mark", !.clash = TRUE]
    OBVIOUS
  <1>1. /\ Working(c) /\ r.step = "insert" /\ r.op = "index" /\ UNCHANGED store /\ Becomes(c, q)
        /\ keysMade' = keysMade /\ unsure' = unsure
    BY DEF InsertElsewhere, Doing, Proceeds, Quiet
  <1>2. /\ Shape(r) /\ r = [x \in JobFields |-> r[x]]
        /\ r.key \in ImageKeys /\ r.bucket \in Buckets
        /\ r.pic \in Pictures /\ r.model \in Models /\ r.meta # None /\ r.meta \in Metas \cup {None}
        /\ r.thumbsLeft \subseteq Sizes
    BY <1>1, AtInsertion
  <1> PICK s : s = [r EXCEPT !.clash = TRUE]
    OBVIOUS
  <1>3. /\ Shape(s) /\ KeysOf(s) = KeysOf(r) /\ s.key = r.key /\ s.step = r.step /\ s.op = r.op
        /\ s.pic = r.pic /\ s.meta = r.meta /\ s.thumbsLeft = r.thumbsLeft /\ s.clash
        /\ s = [x \in JobFields |-> s[x]]
    <2>1. ImageInv /\ c \in Clients /\ Working(c) /\ r = jobs[c] /\ s = [r EXCEPT !.clash = TRUE]
      BY <1>1
    <2>2. Disturbs(s, r) /\ s.clash
      BY ONLY <2>1, Disturbed
    <2> QED
      BY ONLY <2>2 DEF Disturbs
  <1>4. /\ Changes(q, s) /\ q.step = "mark" /\ q.thumbsLeft = s.thumbsLeft /\ q.meta = s.meta
        /\ q.pic = s.pic
    <2>1. q = [s EXCEPT !.step = "mark"]
      BY <1>2 DEF JobFields
    <2> QED
      BY ONLY <1>3, <2>1 DEF Changes, JobFields
  <1>5. q.step \in StepsOf("index") /\ s.step # "check"
    BY <1>1, <1>3, <1>4, StepsAre
  <1>6. Follows(q, s)
    BY ONLY <1>1, <1>2, <1>3, <1>4, <1>5 DEF Follows
  <1>7. StoreTypes' /\ \A l \in ImageKeys : SameKey(l)
    BY <1>1, StoreKept
  <1> QED
    BY <1>1, <1>3, <1>4, <1>5, <1>6, <1>7, PassedInv

LEMMA MarkIndexedInv ==
  ASSUME ImageInv, NEW c \in Clients, MarkIndexed(c)
  PROVE  ImageInv'
  <1> PICK r, b, k, v : r = jobs[c] /\ b = r.bucket /\ k = r.key /\ v = Meta(r.meta.pic, TRUE, r.model)
    OBVIOUS
  <1>1. /\ Working(c) /\ r.step = "mark" /\ metas' = [metas EXCEPT ![b][k] = v]
        /\ UNCHANGED <<originals, thumbs, vectors, stored>> /\ Finishes(c)
    BY DEF MarkIndexed, Doing
  <1>2. /\ Shape(r) /\ StoreTypes /\ k \in ImageKeys /\ b \in Buckets
    BY <1>1, Stepping
  <1>3. /\ r.op \in {"upload", "index"} /\ r.pic \in Pictures /\ r.model \in Models
        /\ r.meta \in Metas
    BY <1>1, <1>2 DEF Shape, StepsOf, Storing, Dropping
  <1>4. /\ v \in [pic : Pictures, indexed : BOOLEAN, model : Models \cup {None}]
        /\ v.model = r.model
    BY <1>3 DEF Meta, Metas
  <1>5. v \in Metas /\ v # None
    BY <1>3, <1>4, ImageAssumption DEF Metas
  <1>6. /\ StoreTypes' /\ SameElse(b, k) /\ \A l \in ImageKeys \ {k} : SameKey(l)
        /\ metas'[b][k] = v
    <2>1. /\ metas' = [metas EXCEPT ![b][k] = v] /\ UNCHANGED <<originals, thumbs, vectors, stored>>
          /\ StoreTypes /\ b \in Buckets /\ k \in ImageKeys /\ v \in Metas \cup {None}
      BY <1>1, <1>2, <1>5
    <2> QED
      BY ONLY <2>1, MetaPut
  <1>7. ASSUME ~r.clash, k \notin unsure PROVE Sound(k)'
    <2>1. /\ \A d \in Buckets \ {b} : Kept(d, k)
          /\ originals[b][k] = r.pic /\ thumbs[b][k] = Whole(r.pic)
          /\ vectors[k] = [pic |-> r.pic, model |-> r.model] /\ stored[k] = vectors[k]
      BY <1>1, <1>7, Holds DEF Held, AtWork
    <2>2. \A d \in Buckets \ {b} : Kept(d, k)'
      BY <1>1, <1>6, <2>1, ElseKept
    <2>3. originals'[b][k] = r.pic /\ thumbs'[b][k] = Whole(r.pic) /\ r.pic # None
      BY <1>1, <1>3, <2>1, ImageAssumption
    <2>4. vectors'[k] = [pic |-> r.pic, model |-> v.model] /\ stored'[k] = vectors'[k]
      BY <1>1, <1>4, <2>1
    <2>5. Kept(b, k)' /\ Listed(k)'
      BY ONLY <1>2, <1>5, <1>6, <2>3, <2>4 DEF Kept, Bare, Listed, Whole
    <2> QED
      BY <2>2, <2>5 DEF Sound
  <1>8. /\ jobs' = [jobs EXCEPT ![c] = NoJob] /\ keysMade' = keysMade
        /\ unsure' = IF r.clash THEN unsure \cup KeysOf(r) ELSE unsure
    BY <1>1, <1>3 DEF Finishes, Cleared
  <1> QED
    BY <1>1, <1>6, <1>7, <1>8, FinishedInv

LEMMA SaveMetadataInv ==
  ASSUME ImageInv, NEW c \in Clients, SaveMetadata(c)
  PROVE  ImageInv'
  <1> PICK r, b, k, v : r = jobs[c] /\ b = r.bucket /\ k = r.key /\ v = r.meta
    OBVIOUS
  <1>1. /\ Working(c) /\ r.step = "save" /\ metas' = [metas EXCEPT ![b][k] = v]
        /\ UNCHANGED <<originals, thumbs, vectors, stored>> /\ Finishes(c)
    BY DEF SaveMetadata, Doing
  <1>2. /\ Shape(r) /\ StoreTypes /\ k \in ImageKeys /\ b \in Buckets
    BY <1>1, Stepping
  <1>3. r.op = "update" /\ v \in Metas \cup {None}
    BY <1>1, <1>2 DEF Shape, StepsOf, Storing, Dropping
  <1>4. /\ StoreTypes' /\ SameElse(b, k) /\ \A l \in ImageKeys \ {k} : SameKey(l)
        /\ metas'[b][k] = v
    <2>1. /\ metas' = [metas EXCEPT ![b][k] = v] /\ UNCHANGED <<originals, thumbs, vectors, stored>>
          /\ StoreTypes /\ b \in Buckets /\ k \in ImageKeys /\ v \in Metas \cup {None}
      BY <1>1, <1>2, <1>3
    <2> QED
      BY ONLY <2>1, MetaPut
  <1>5. ASSUME ~r.clash, k \notin unsure PROVE Sound(k)'
    <2>1. Sound(k) /\ metas[b][k] = v
      BY <1>1, <1>5, Holds DEF Held, AtWork
    <2>2. SameKey(k)
      BY <1>1, <1>4, <2>1 DEF SameElse, SameKey
    <2> QED
      BY <2>1, <2>2, SameSound
  <1>6. /\ jobs' = [jobs EXCEPT ![c] = NoJob] /\ keysMade' = keysMade
        /\ unsure' = IF r.clash THEN unsure \cup KeysOf(r) ELSE unsure
    BY <1>1, <1>3 DEF Finishes, Cleared
  <1> QED
    BY <1>1, <1>4, <1>5, <1>6, FinishedInv

LEMMA ReadOriginalInv ==
  ASSUME ImageInv, NEW c \in Clients, ReadOriginal(c)
  PROVE  ImageInv'
  <1> PICK r, b, k, v : r = jobs[c] /\ b = r.bucket /\ k = r.key /\ v = originals[b][k]
    OBVIOUS
  <1>1. /\ Working(c) /\ r.step = "read original" /\ UNCHANGED store
    BY DEF ReadOriginal, Doing
  <1>2. /\ Shape(r) /\ r = [x \in JobFields |-> r[x]] /\ StoreTypes /\ k \in ImageKeys /\ b \in Buckets
    BY <1>1, Stepping
  <1>3. /\ r.op = "index" /\ r.meta \in Metas \cup {None} /\ r.meta # None /\ r.thumbsLeft \subseteq Sizes
    BY <1>1, <1>2 DEF Shape, StepsOf, Storing, Dropping
  <1>4. v \in Pictures \cup {None}
    BY <1>2 DEF StoreTypes
  <1>5. StoreTypes' /\ \A l \in ImageKeys : SameKey(l)
    BY <1>1, StoreKept
  <1>6. ASSUME Held(r), k \notin unsure PROVE Sound(k)' /\ Kept(b, k)' /\ metas'[b][k] = r.meta
    <2>1. Sound(k) /\ metas[b][k] = r.meta
      BY <1>1, <1>6 DEF Held, AtWork
    <2>2. Sound(k)' /\ metas'[b][k] = r.meta
      BY <1>2, <1>5, <2>1, SameSound DEF SameKey
    <2> QED
      BY <1>2, <2>2 DEF Sound
  <1>7. CASE v = None
    <2>1. Finishes(c)
      BY <1>7 DEF ReadOriginal
    <2>2. /\ jobs' = [jobs EXCEPT ![c] = NoJob] /\ keysMade' = keysMade
          /\ unsure' = IF r.clash THEN unsure \cup KeysOf(r) ELSE unsure
      BY <1>3, <2>1 DEF Finishes, Cleared
    <2>3. ~r.clash /\ k \notin unsure => Sound(k)'
      BY <1>1, <1>6, Holds
    <2> QED
      BY <1>1, <1>5, <2>2, <2>3, FinishedInv
  <1>8. CASE v # None
    <2> PICK q : q = [r EXCEPT !.pic = v, !.step = "insert"]
      OBVIOUS
    <2>1. Becomes(c, q) /\ keysMade' = keysMade /\ unsure' = unsure
      BY <1>8 DEF ReadOriginal, Proceeds, Quiet
    <2>2. /\ Changes(q, r) /\ q.thumbsLeft = r.thumbsLeft /\ q.meta = r.meta /\ q.pic = v
          /\ q.step = "insert"
      BY <1>2 DEF Changes, JobFields
    <2>3. Follows(q, r)
      BY ONLY <1>3, <1>4, <1>8, <2>2, StepsAre DEF Follows
    <2>4. q.bucket = b /\ q.op = r.op /\ q.key = k
      BY <2>2, ChangedFields
    <2>5. ASSUME Held(r), r.key \notin unsure' PROVE AtWork(q)'
      <3>1. Sound(k)' /\ Kept(b, k)' /\ metas'[b][k] = r.meta
        BY <1>6, <2>1, <2>5
      <3>2. originals'[b][k] = v /\ thumbs'[b][k] = Whole(v)
        BY <1>2, <1>5, <3>1, <1>8 DEF SameKey, Kept, Bare, Whole
      <3> QED
        BY ONLY <1>3, <2>2, <2>4, <3>1, <3>2 DEF AtWork, Whole
    <2>6. Deleted(q)'
      BY <1>3, <2>4 DEF Deleted
    <2> QED
      BY <1>1, <1>5, <2>1, <2>2, <2>3, <2>5, <2>6, StepInv
  <1> QED
    BY <1>7, <1>8

LEMMA ReadMetadataInv ==
  ASSUME ImageInv, NEW c \in Clients, ReadMetadata(c)
  PROVE  ImageInv'
  <1> PICK r, b, k, v, left :
        /\ r = jobs[c] /\ b = r.bucket /\ k = r.key /\ v = metas[b][k]
        /\ left = IF v = None THEN {} ELSE Sizes
    OBVIOUS
  <1>1. /\ Working(c) /\ r.step = "read meta" /\ UNCHANGED store
    BY DEF ReadMetadata, Doing
  <1>2. /\ Shape(r) /\ r = [x \in JobFields |-> r[x]] /\ StoreTypes /\ k \in ImageKeys /\ b \in Buckets
    BY <1>1, Stepping
  <1>3. r.op \in {"upload", "index", "update", "delete"} /\ (r.op = "upload" => r.pic \in Pictures)
    BY <1>1, <1>2 DEF Shape
  <1>4. v \in Metas \cup {None} /\ left \subseteq Sizes
    BY <1>2 DEF StoreTypes
  <1>5. StoreTypes' /\ \A l \in ImageKeys : SameKey(l)
    BY <1>1, StoreKept
  <1>6. metas'[b][k] = v /\ originals'[b][k] = originals[b][k] /\ thumbs'[b][k] = thumbs[b][k]
        /\ vectors'[k] = vectors[k] /\ stored'[k] = stored[k]
    BY <1>2, <1>5 DEF SameKey
  <1>7. ASSUME Held(r), k \notin unsure, r.op # "upload" PROVE Sound(k)'
    <2>1. Sound(k)
      BY <1>1, <1>3, <1>7 DEF Held, AtWork
    <2> QED
      BY <1>2, <1>5, <2>1, SameSound
  <1>8. CASE r.op \in {"index", "update"} /\ v = None
    <2>1. Finishes(c)
      BY <1>8 DEF ReadMetadata
    <2>2. /\ jobs' = [jobs EXCEPT ![c] = NoJob] /\ keysMade' = keysMade
          /\ unsure' = IF r.clash THEN unsure \cup KeysOf(r) ELSE unsure
      BY <1>8, <2>1 DEF Finishes, Cleared
    <2>3. ~r.clash /\ k \notin unsure => Sound(k)'
      BY <1>1, <1>7, <1>8, Holds
    <2> QED
      BY <1>1, <1>5, <2>2, <2>3, FinishedInv
  <1>9. CASE ~(r.op \in {"index", "update"} /\ v = None)
    <2> PICK read : read = [r EXCEPT !.meta = v, !.thumbsLeft = left]
      OBVIOUS
    <2>1. PICK step :
            /\ Proceeds(c, [read EXCEPT !.step = step])
            /\ r.op = "delete" => step = "drop vector"
            /\ r.op = "upload" => step = IF v = None THEN "drop meta" ELSE "drop thumbnails"
            /\ r.op = "index" => step = "read original"
            /\ r.op = "update" => step = "save"
      BY <1>3, <1>9 DEF ReadMetadata
    <2> PICK q : q = [read EXCEPT !.step = step]
      OBVIOUS
    <2>2. Becomes(c, q) /\ keysMade' = keysMade /\ unsure' = unsure
      BY <2>1 DEF Proceeds, Quiet
    <2>3. /\ Changes(q, r) /\ q.thumbsLeft = left /\ q.meta = v /\ q.pic = r.pic /\ q.step = step
      BY <1>2 DEF Changes, JobFields
    <2>4. /\ step \in {"drop vector", "drop meta", "drop thumbnails", "read original", "save"}
          /\ step \in StepsOf(r.op)
          /\ step \in {"read original", "save"} => r.op # "upload" /\ v # None
          /\ step = "drop vector" => r.op = "delete"
          /\ step \in {"drop meta", "drop thumbnails"} => r.op = "upload"
          /\ step = "drop meta" => left = {}
      BY <1>3, <1>9, <2>1, StepsAre DEF Dropping
    <2>5. Follows(q, r)
      <3>1. /\ q.step \in StepsOf(r.op) /\ q.step \notin {"check", "original"}
            /\ q.step \notin Storing /\ r.step \notin Storing
            /\ q.step \in {"drop vector", "drop meta", "drop thumbnails", "read original", "save"}
        BY ONLY <1>1, <2>3, <2>4 DEF Storing
      <3>2. /\ q.step \in {"read original", "save"} => q.meta # None
            /\ q.step = "drop meta" => q.thumbsLeft = {}
            /\ r.op = "index" => q.step = "read original"
        BY ONLY <2>1, <2>3, <2>4
      <3>3. q.meta \in Metas \cup {None} /\ q.thumbsLeft \subseteq Sizes /\ q.pic = r.pic
        BY ONLY <1>4, <2>3
      <3> QED
        BY ONLY <3>1, <3>2, <3>3 DEF Follows, Storing
    <2>6. q.bucket = b /\ q.op = r.op /\ q.key = k
      <3>1. Changes(q, r)
        BY <2>3
      <3>2. q.bucket = r.bucket /\ q.op = r.op /\ q.key = r.key
        BY ONLY <3>1, ChangedFields
      <3> QED
        BY <3>2
    <2>7. ASSUME Held(r), r.key \notin unsure' PROVE AtWork(q)'
      <3>1. CASE r.op = "upload"
        <4>1. Alone(b, k) /\ originals[b][k] = None /\ (v = None => thumbs[b][k] = NoThumbs)
          <5>1. AtWork(r) /\ r.step = "read meta" /\ r.op = "upload"
            BY <1>1, <2>2, <2>7, <3>1 DEF Held
          <5> QED
            BY ONLY <5>1, b = r.bucket, k = r.key, v = metas[b][k] DEF AtWork
        <4>2. Alone(b, k)'
          <5>1. SameKey(k)
            BY <1>2, <1>5
          <5>2. SameElse(b, k) /\ vectors'[k] = vectors[k] /\ stored'[k] = stored[k]
            BY ONLY <5>1 DEF SameKey, SameElse
          <5> QED
            BY ONLY <4>1, <5>2, ElseKept
        <4>3. \A s \in Sizes \ left : thumbs'[b][k][s] = None
          BY <1>6, <4>1 DEF NoThumbs
        <4> QED
          BY ONLY <1>6, <2>3, <2>4, <2>6, <3>1, <4>1, <4>2, <4>3 DEF AtWork, Whole
      <3>2. CASE r.op # "upload"
        <4>1. Sound(k)'
          BY <1>7, <2>2, <2>7, <3>2
        <4>2. \A d \in Buckets : Bare(d, k)'
          BY <4>1 DEF Sound, Kept
        <4> QED
          BY ONLY <1>6, <2>3, <2>4, <2>6, <3>2, <4>1, <4>2 DEF AtWork, Whole
      <3> QED
        BY <3>1, <3>2
    <2>8. Deleted(q)'
      BY ONLY <1>6, <2>1, <2>3, <2>4, <2>6, left = IF v = None THEN {} ELSE Sizes DEF Deleted
    <2> QED
      BY <1>1, <1>5, <2>2, <2>3, <2>5, <2>7, <2>8, StepInv
  <1> QED
    BY <1>8, <1>9

LEMMA DropVectorInv ==
  ASSUME ImageInv, NEW c \in Clients, DropVector(c)
  PROVE  ImageInv'
  <1> PICK r, b, k, v, q :
        r = jobs[c] /\ b = r.bucket /\ k = r.key /\ v = None /\ q = AfterVector(r)
    OBVIOUS
  <1>1. /\ Working(c) /\ r.step = "drop vector" /\ vectors' = [vectors EXCEPT ![k] = v]
        /\ stored' = [stored EXCEPT ![k] = v]
        /\ Becomes(c, q) /\ UNCHANGED <<originals, thumbs, metas, keysMade>>
        /\ unsure' = unsure \cup Shared(r)
    BY DEF DropVector, Doing
  <1>2. /\ Shape(r) /\ r = [x \in JobFields |-> r[x]] /\ StoreTypes /\ k \in ImageKeys /\ b \in Buckets
    BY <1>1, Stepping
  <1>3. /\ r.op \in {"upload", "index", "delete"} /\ (r.op = "index" => r.pic \in Pictures)
        /\ r.op = "index" => r.meta # None
        /\ r.meta \in Metas \cup {None} /\ r.thumbsLeft \subseteq Sizes
    BY <1>1, <1>2 DEF Shape, StepsOf, Storing, Dropping
  <1>4. /\ Changes(q, r) /\ q.thumbsLeft = r.thumbsLeft /\ q.meta = r.meta /\ q.pic = r.pic
        /\ q.step = IF r.op = "index" THEN "insert again" ELSE "drop original"
    BY <1>2 DEF Changes, JobFields, AfterVector
  <1>5. /\ q.step \in StepsOf(r.op) /\ q.step \in {"insert again", "drop original"}
    BY <1>3, <1>4, StepsAre DEF Dropping
  <1>6. Follows(q, r)
    BY ONLY <1>1, <1>3, <1>4, <1>5 DEF Follows, Storing
  <1>7. q.bucket = b /\ q.op = r.op /\ q.key = k
    <2>1. Changes(q, r)
      BY <1>4
    <2>2. q.bucket = r.bucket /\ q.op = r.op /\ q.key = r.key
      BY ONLY <2>1, ChangedFields
    <2> QED
      BY <2>2
  <1>8. /\ StoreTypes' /\ SameElse(b, k) /\ \A l \in ImageKeys \ {k} : SameKey(l)
        /\ Unindexed(k)'
    <2>1. /\ vectors' = [vectors EXCEPT ![k] = v] /\ stored' = [stored EXCEPT ![k] = v]
          /\ UNCHANGED <<originals, thumbs, metas>>
          /\ StoreTypes /\ k \in ImageKeys /\ v \in Found \cup {None} /\ b \in Buckets
      BY <1>1, <1>2
    <2>2. /\ StoreTypes' /\ SameElse(b, k) /\ \A l \in ImageKeys \ {k} : SameKey(l)
          /\ vectors'[k] = v /\ stored'[k] = v
      BY ONLY <2>1, VectorPut
    <2>3. Unindexed(k)'
      BY <2>2 DEF Unindexed
    <2> QED
      BY <2>2, <2>3
  <1>9. ASSUME Held(r), r.key \notin unsure' PROVE AtWork(q)'
    <2>1. \A d \in Buckets \ {b} : metas[d][k] = None
      BY <1>1, <1>9 DEF Shared
    <2>2. AtWork(r)
      BY <1>1, <1>9 DEF Held
    <2>3. \A d \in Buckets : Bare(d, k)
      BY <1>1, <2>2 DEF AtWork
    <2>4. \A d \in Buckets \ {b} : Gone(d, k)
      BY <2>1, <2>3 DEF Bare, Gone, Whole, NoThumbs
    <2>5. Alone(b, k)'
      BY <1>1, <1>8, <2>4 DEF Alone, Gone
    <2>6. Bare(b, k) /\ metas'[b][k] = metas[b][k] /\ originals'[b][k] = originals[b][k]
          /\ thumbs'[b][k] = thumbs[b][k]
      BY <1>1, <1>2, <2>3
    <2>7. (metas'[b][k] # None <=> originals'[b][k] # None) /\ thumbs'[b][k] = Whole(originals'[b][k])
      BY <2>6 DEF Bare
    <2>8. r.op = "index" =>
            originals'[b][k] = r.pic /\ thumbs'[b][k] = Whole(r.pic) /\ metas'[b][k] = r.meta
      BY <1>1, <2>2, <2>6 DEF AtWork
    <2> QED
      BY ONLY <1>3, <1>4, <1>5, <1>7, <2>5, <2>7, <2>8 DEF AtWork, Whole
  <1>10. ASSUME Held(r) PROVE Deleted(q)'
    <2>1. Deleted(r) /\ metas'[b][k] = metas[b][k] /\ thumbs'[b][k] = thumbs[b][k]
      BY <1>1, <1>10 DEF Held
    <2> QED
      BY ONLY <1>1, <1>4, <1>5, <1>7, <1>8, <2>1, b = r.bucket, k = r.key, v = None DEF Deleted
  <1>11. unsure \subseteq unsure' /\ unsure' \subseteq unsure \cup {r.key} /\ keysMade' = keysMade
         /\ r.step # "check"
    BY <1>1 DEF Shared
  <1> QED
    BY <1>1, <1>4, <1>6, <1>8, <1>9, <1>10, <1>11, StepInv

LEMMA DropOriginalInv ==
  ASSUME ImageInv, NEW c \in Clients, DropOriginal(c)
  PROVE  ImageInv'
  <1> PICK r, b, k, v, q :
        r = jobs[c] /\ b = r.bucket /\ k = r.key /\ v = None /\ q = AfterOriginal(r)
    OBVIOUS
  <1>1. /\ Working(c) /\ r.step = "drop original" /\ originals' = [originals EXCEPT ![b][k] = v]
        /\ Becomes(c, q) /\ UNCHANGED <<thumbs, metas, vectors, stored>> /\ keysMade' = keysMade
        /\ unsure' = unsure
    BY DEF DropOriginal, Doing, Proceeds, Quiet
  <1>2. /\ Shape(r) /\ r = [x \in JobFields |-> r[x]] /\ StoreTypes /\ k \in ImageKeys /\ b \in Buckets
    BY <1>1, Stepping
  <1>3. /\ r.op \in {"upload", "delete"}
        /\ r.meta \in Metas \cup {None} /\ r.thumbsLeft \subseteq Sizes
    BY <1>1, <1>2 DEF Shape, StepsOf, Storing, Dropping
  <1>4. /\ Changes(q, r) /\ q.thumbsLeft = r.thumbsLeft /\ q.meta = r.meta /\ q.pic = r.pic
        /\ r.op = "upload" => q.step = "read meta"
        /\ r.op = "delete" /\ r.thumbsLeft # {} => q.step = "drop thumbnails"
        /\ r.op = "delete" /\ r.thumbsLeft = {} => q.step = "drop meta"
    <2> PICK step : step = CASE r.op = "upload" -> "read meta"
                             [] r.op = "delete" /\ r.thumbsLeft # {} -> "drop thumbnails"
                             [] r.op = "delete" /\ r.thumbsLeft = {} -> "drop meta"
      OBVIOUS
    <2>1. q = [r EXCEPT !.step = step]
      BY DEF AfterOriginal
    <2>2. /\ Changes(q, r) /\ q.thumbsLeft = r.thumbsLeft /\ q.meta = r.meta /\ q.pic = r.pic
          /\ q.step = step
      BY ONLY <1>2, <2>1 DEF Changes, JobFields
    <2> QED
      BY <1>3, <2>2
  <1>5. /\ q.step \in StepsOf(r.op) /\ q.step \in {"read meta", "drop thumbnails", "drop meta"}
    BY <1>3, <1>4, StepsAre DEF Dropping
  <1>6. Follows(q, r)
    BY ONLY <1>1, <1>3, <1>4, <1>5 DEF Follows, Storing
  <1>7. q.bucket = b /\ q.op = r.op /\ q.key = k
    <2>1. Changes(q, r)
      BY <1>4
    <2>2. q.bucket = r.bucket /\ q.op = r.op /\ q.key = r.key
      BY ONLY <2>1, ChangedFields
    <2> QED
      BY <2>2
  <1>8. /\ StoreTypes' /\ SameElse(b, k) /\ \A l \in ImageKeys \ {k} : SameKey(l)
        /\ originals'[b][k] = v
    <2>1. /\ originals' = [originals EXCEPT ![b][k] = v] /\ UNCHANGED <<thumbs, metas, vectors, stored>>
          /\ StoreTypes /\ k \in ImageKeys /\ v \in Pictures \cup {None} /\ b \in Buckets
      BY <1>1, <1>2
    <2> QED
      BY ONLY <2>1, OriginalPut
  <1>9. /\ metas'[b][k] = metas[b][k] /\ thumbs'[b][k] = thumbs[b][k]
        /\ Unindexed(k)' <=> Unindexed(k)
    BY <1>1 DEF Unindexed
  <1>10. ASSUME Held(r) PROVE Deleted(q)'
    <2>1. Deleted(r)
      BY <1>10 DEF Held
    <2> QED
      BY ONLY <1>1, <1>3, <1>4, <1>5, <1>7, <1>8, <1>9, <2>1, b = r.bucket, k = r.key, v = None
      DEF Deleted
  <1>11. ASSUME Held(r), r.key \notin unsure' PROVE AtWork(q)'
    <2>1. Alone(b, k) /\ (metas[b][k] # None <=> originals[b][k] # None)
          /\ thumbs[b][k] = Whole(originals[b][k])
      BY <1>1, <1>11 DEF Held, AtWork
    <2>2. Alone(b, k)'
      BY <1>1, <1>8, <2>1, ElseKept
    <2>3. metas'[b][k] = None => thumbs'[b][k] = NoThumbs
      BY <1>9, <2>1 DEF Whole, NoThumbs
    <2>4. r.op = "delete" => \A s \in Sizes \ r.thumbsLeft : thumbs'[b][k][s] = None
      <3> SUFFICES ASSUME r.op = "delete" PROVE \A s \in Sizes \ r.thumbsLeft : thumbs'[b][k][s] = None
        OBVIOUS
      <3>1. /\ metas[b][k] = r.meta
            /\ r.meta # None => \A s \in Sizes \ r.thumbsLeft : thumbs[b][k][s] = None
        BY <1>1, <1>11 DEF Held, Deleted
      <3>2. r.meta = None => \A s \in Sizes : thumbs'[b][k][s] = None
        BY <1>9, <2>3, <3>1 DEF NoThumbs
      <3> QED
        BY <1>9, <3>1, <3>2
    <2> QED
      BY ONLY <1>3, <1>4, <1>5, <1>7, <1>8, <2>2, <2>3, <2>4, v = None DEF AtWork, Whole
  <1>12. unsure \subseteq unsure' /\ unsure' \subseteq unsure \cup {r.key} /\ r.step # "check"
    BY <1>1
  <1> QED
    BY <1>1, <1>4, <1>6, <1>8, <1>10, <1>11, <1>12, StepInv

LEMMA DropThumbnailInv ==
  ASSUME ImageInv, NEW c \in Clients, DropThumbnail(c)
  PROVE  ImageInv'
  <1> PICK r, b, k, v : r = jobs[c] /\ b = r.bucket /\ k = r.key /\ v = None
    OBVIOUS
  <1>1. /\ Working(c) /\ r.step = "drop thumbnails" /\ keysMade' = keysMade /\ unsure' = unsure
        /\ UNCHANGED <<originals, metas, vectors, stored>>
    BY DEF DropThumbnail, Doing, Proceeds, Quiet
  <1>2. PICK s \in r.thumbsLeft :
          thumbs' = [thumbs EXCEPT ![b][k][s] = v] /\ Becomes(c, AfterThumbnail(r, s))
    BY DEF DropThumbnail, Proceeds
  <1> PICK q : q = AfterThumbnail(r, s)
    OBVIOUS
  <1>3. /\ Shape(r) /\ r = [x \in JobFields |-> r[x]] /\ StoreTypes
        /\ k \in ImageKeys /\ b \in Buckets
    BY <1>1, Stepping
  <1>4. /\ Changes(q, r) /\ q.thumbsLeft = r.thumbsLeft \ {s} /\ q.meta = r.meta /\ q.pic = r.pic
        /\ q.step = IF q.thumbsLeft = {} THEN "drop meta" ELSE "drop thumbnails"
    BY <1>1, <1>3 DEF Changes, JobFields, AfterThumbnail
  <1>5. /\ r.op \in {"upload", "delete"} /\ s \in Sizes
        /\ r.meta \in Metas \cup {None} /\ r.thumbsLeft \subseteq Sizes
    BY <1>1, <1>2, <1>3 DEF Shape, StepsOf, Storing, Dropping
  <1>6. /\ q.step \in StepsOf(r.op) /\ q.step \in {"drop thumbnails", "drop meta"}
    BY <1>4, <1>5, StepsAre DEF Dropping
  <1>7. Follows(q, r)
    BY ONLY <1>1, <1>4, <1>5, <1>6 DEF Follows, Storing
  <1>8. q.bucket = b /\ q.op = r.op /\ q.key = k
    <2>1. Changes(q, r)
      BY <1>4
    <2>2. q.bucket = r.bucket /\ q.op = r.op /\ q.key = r.key
      BY ONLY <2>1, ChangedFields
    <2> QED
      BY <2>2
  <1>9. /\ StoreTypes' /\ SameElse(b, k) /\ \A l \in ImageKeys \ {k} : SameKey(l)
        /\ thumbs'[b][k][s] = v /\ \A z \in Sizes \ {s} : thumbs'[b][k][z] = thumbs[b][k][z]
    <2>1. /\ thumbs' = [thumbs EXCEPT ![b][k][s] = v] /\ UNCHANGED <<originals, metas, vectors, stored>>
          /\ StoreTypes /\ b \in Buckets /\ k \in ImageKeys /\ v \in Pictures \cup {None}
          /\ s \in Sizes
      BY <1>1, <1>2, <1>3, <1>5
    <2> QED
      BY ONLY <2>1 DEF StoreTypes, SameElse, SameKey
  <1>10. ASSUME Held(r), r.key \notin unsure' PROVE AtWork(q)'
    <2>1. Alone(b, k) /\ originals[b][k] = None /\ \A z \in Sizes \ r.thumbsLeft : thumbs[b][k][z] = None
      BY <1>1, <1>10 DEF Held, AtWork
    <2>2. Alone(b, k)'
      BY <1>1, <1>9, <2>1, ElseKept
    <2>3. originals'[b][k] = None /\ \A z \in Sizes \ q.thumbsLeft : thumbs'[b][k][z] = None
      <3>1. originals' = originals
        BY <1>1
      <3> QED
        BY ONLY <1>4, <1>9, <2>1, <3>1, v = None
    <2> QED
      BY ONLY <1>4, <1>6, <1>8, <2>2, <2>3 DEF AtWork
  <1>11. ASSUME Held(r) PROVE Deleted(q)'
    <2>1. Deleted(r) /\ r.thumbsLeft # {} /\ metas'[b][k] = metas[b][k]
          /\ originals'[b][k] = originals[b][k] /\ (Unindexed(k)' <=> Unindexed(k))
      BY <1>1, <1>2, <1>11 DEF Held, Unindexed
    <2>2. r.op = "delete" =>
            /\ r.meta = metas'[b][k] /\ r.meta # None /\ Unindexed(k)' /\ originals'[b][k] = None
            /\ \A z \in Sizes \ r.thumbsLeft : thumbs[b][k][z] = None
      BY ONLY <1>1, <2>1, b = r.bucket, k = r.key DEF Deleted
    <2>3. r.op = "delete" => \A z \in Sizes \ q.thumbsLeft : thumbs'[b][k][z] = None
      BY ONLY <1>4, <1>9, <2>2, v = None
    <2> QED
      BY ONLY <1>4, <1>6, <1>8, <2>2, <2>3 DEF Deleted
  <1>12. Becomes(c, q) /\ unsure \subseteq unsure' /\ unsure' \subseteq unsure \cup {r.key}
         /\ r.step # "check"
    BY <1>1, <1>2
  <1> QED
    BY <1>1, <1>4, <1>7, <1>9, <1>10, <1>11, <1>12, StepInv

\* What an upload is when it has a duplicate to delete.
LEMMA VictimReady ==
  ASSUME ImageInv, NEW c \in Clients, Working(c), NEW r, Shape(r), r.op = "upload",
         KeysOf(r) = KeysOf(jobs[c]), jobs[c].clash => r.clash,
         r.step \in Dropping \cup {"read meta"}
  PROVE  /\ Ready(c, r) /\ KeysOf(r) = Own(r)
         /\ r.auto /\ r.action = "overwrite"
  <1>1. KeysOf(r) \subseteq keysMade
    BY DEF ImageInv
  <1>2. r.key \in r.victims /\ r.auto /\ r.action = "overwrite"
    BY Zenon DEF Shape
  <1>3. KeysOf(r) = Own(r)
    BY <1>2 DEF KeysOf, Own
  <1>4. r.clash \in BOOLEAN /\ r.twin \in BOOLEAN
    BY Zenon DEF Shape
  <1>5. Working(c) => KeysOf(jobs[c]) \subseteq Own(r) /\ (jobs[c].clash => r.clash)
    BY <1>3
  <1>6. Ready(c, r)
    BY <1>1, <1>3, <1>4, <1>5 DEF Ready, Shape
  <1> QED
    BY <1>2, <1>3, <1>6

LEMMA DropMetadataInv ==
  ASSUME ImageInv, NEW c \in Clients, DropMetadata(c)
  PROVE  ImageInv'
  <1> PICK r, b, k, v : r = jobs[c] /\ b = r.bucket /\ k = r.key /\ v = None
    OBVIOUS
  <1>1. /\ Working(c) /\ r.step = "drop meta" /\ metas' = [metas EXCEPT ![b][k] = v]
        /\ UNCHANGED <<originals, thumbs, vectors, stored>> /\ AfterMetadata(c, r)
    BY DEF DropMetadata, Doing
  <1>2. /\ Shape(r) /\ StoreTypes /\ k \in ImageKeys /\ b \in Buckets /\ k \in KeysOf(r)
    BY <1>1, Stepping
  <1>3. r.op \in {"upload", "delete"} /\ r.thumbsLeft = {}
    BY <1>1, <1>2 DEF Shape, StepsOf, Storing, Dropping
  <1>4. /\ StoreTypes' /\ SameElse(b, k) /\ \A l \in ImageKeys \ {k} : SameKey(l)
        /\ metas'[b][k] = v
    <2>1. /\ metas' = [metas EXCEPT ![b][k] = v] /\ UNCHANGED <<originals, thumbs, vectors, stored>>
          /\ StoreTypes /\ b \in Buckets /\ k \in ImageKeys /\ v \in Metas \cup {None}
      BY <1>1, <1>2
    <2> QED
      BY ONLY <2>1, MetaPut
  <1>5. ASSUME Alone(b, k), originals[b][k] = None, \A s \in Sizes : thumbs[b][k][s] = None
        PROVE  Sound(k)'
    <2>1. Alone(b, k)'
      BY <1>1, <1>4, <1>5, ElseKept
    <2>2. thumbs[b][k] = NoThumbs
      BY <1>2, <1>5 DEF StoreTypes, NoThumbs
    <2>3. Gone(b, k)'
      BY <1>1, <1>4, <1>5, <2>2 DEF Gone
    <2> QED
      BY ONLY <1>2, <2>1, <2>3 DEF Alone, Gone, Sound, Kept, Bare, Whole, NoThumbs
  <1>6. ASSUME Held(r), k \notin unsure PROVE Sound(k)'
    <2>1. Alone(b, k) /\ originals[b][k] = None /\ \A s \in Sizes : thumbs[b][k][s] = None
      BY <1>1, <1>3, <1>6 DEF Held, AtWork
    <2> QED
      BY <1>5, <2>1
  <1>7. ASSUME Held(r), NEW l \in KeysOf(r) \ unsure PROVE Sound(l)'
    <2>1. CASE l = k
      BY <1>6, <1>7, <2>1
    <2>2. CASE l # k
      <3>1. At(r) = k /\ l \in ImageKeys
        BY <1>1, <1>2, KeyOfJob DEF ImageInv
      <3>2. Sound(l) /\ SameKey(l)
        BY <1>4, <1>7, <2>2, <3>1 DEF Held
      <3> QED
        BY <3>2, SameSound
    <2> QED
      BY <2>1, <2>2
  <1>8. CASE r.op = "delete"
    <2>1. Finishes(c)
      BY <1>1, <1>8 DEF AfterMetadata
    <2>2. /\ jobs' = [jobs EXCEPT ![c] = NoJob] /\ keysMade' = keysMade
          /\ unsure' = IF r.clash THEN unsure \cup KeysOf(r)
                       ELSE IF Cleared(r) THEN unsure \ {k} ELSE unsure
      BY <2>1 DEF Finishes
    <2>3. KeysOf(r) \subseteq keysMade /\ unsure \subseteq keysMade /\ keysMade \subseteq ImageKeys
      BY <1>1 DEF ImageInv
    <2>4. ASSUME Held(r), Cleared(r) PROVE Sound(k)'
      <3>1. /\ r.meta # None
            /\ \A d \in Buckets \ {b} :
                 originals[d][k] = None /\ thumbs[d][k] = NoThumbs /\ metas[d][k] = None
        BY <2>4 DEF Cleared
      <3>2. /\ Unindexed(k) /\ originals[b][k] = None
            /\ \A s \in Sizes : thumbs[b][k][s] = None
        BY <1>1, <1>3, <1>8, <2>4, <3>1 DEF Held, Deleted
      <3>3. Alone(b, k)
        BY <3>1, <3>2 DEF Alone, Gone
      <3> QED
        BY <1>5, <3>2, <3>3
    <2>5. ~r.clash => \A l \in KeysOf(r) \ unsure' : Sound(l)'
      <3> SUFFICES ASSUME ~r.clash, NEW l \in KeysOf(r) \ unsure' PROVE Sound(l)'
        OBVIOUS
      <3>1. Held(r)
        BY <1>1, Holds
      <3>2. l \notin unsure \/ (l = k /\ Cleared(r))
        BY <2>2
      <3> QED
        BY <1>7, <2>4, <3>1, <3>2
    <2>6. /\ unsure' \subseteq keysMade /\ unsure \ KeysOf(r) \subseteq unsure'
          /\ r.clash => KeysOf(r) \subseteq unsure'
      BY <1>2, <2>2, <2>3
    <2>7. \A l \in ImageKeys \ KeysOf(r) : SameKey(l)
      BY <1>2, <1>4
    <2> QED
      BY <1>1, <1>4, <2>2, <2>5, <2>6, <2>7, EndsInv
  <1>9. CASE r.op = "upload"
    <2>1. /\ Ready(c, r) /\ KeysOf(r) = Own(r) /\ r.auto /\ r.action = "overwrite"
      BY <1>1, <1>2, <1>9, VictimReady DEF Dropping
    <2>2. unsure' = unsure
      BY <1>1, <1>9 DEF AfterMetadata, Proceeds, Quiet
    <2>3. OwnSound(c, r)
      <3> SUFFICES ASSUME ~r.clash PROVE \A l \in Own(r) \ unsure' : Sound(l)'
        BY DEF OwnSound
      <3>1. Held(r)
        BY <1>1, Holds
      <3> QED
        BY <1>7, <2>1, <2>2, <3>1
    <2>4. \A l \in ImageKeys \ Own(r) : SameKey(l)
      BY <1>2, <1>4, <2>1
    <2>5. CASE r.todo # {}
      <3>1. PICK q \in NextVictims(r) : Becomes(c, q) /\ keysMade' = keysMade
        BY <1>1, <1>9, <2>5 DEF AfterMetadata, Proceeds
      <3> QED
        BY <1>4, <2>1, <2>2, <2>3, <2>4, <3>1, NextVictimInv
    <2>6. CASE r.todo = {}
      <3>1. Named(c, r)
        BY <1>1, <1>9, <2>6 DEF AfterMetadata
      <3> QED
        BY <1>4, <2>1, <2>2, <2>3, <2>4, <2>6, <3>1, NamedInv
    <2> QED
      BY <2>5, <2>6
  <1> QED
    BY <1>3, <1>8, <1>9

LEMMA InsertFailsInv ==
  ASSUME ImageInv, NEW c \in Clients, InsertFails(c)
  PROVE  ImageInv'
  <1> PICK r, k, v : r = jobs[c] /\ k = r.key /\ v = VectorOf(r)
    OBVIOUS
  <1>1. /\ Working(c) /\ r.step = "insert" /\ r.op = "upload"
        /\ jobs' = [jobs EXCEPT ![c] = NoJob] /\ keysMade' = keysMade
        /\ UNCHANGED <<originals, thumbs, metas, vectors>>
        /\ stored' = stored \/ stored' = [stored EXCEPT ![k] = v]
        /\ unsure' = unsure \cup Shared(r) \cup (IF r.clash THEN KeysOf(r) ELSE {})
    BY DEF InsertFails, HalfInserted, Doing
  <1>2. Shape(r) /\ StoreTypes /\ k \in ImageKeys /\ v \in Found
    BY <1>1, AtInsertion
  <1>3. StoreTypes' /\ \A l \in ImageKeys \ {k} : SameKey(l)
    <2>1. /\ vectors' = vectors /\ (stored' = stored \/ stored' = [stored EXCEPT ![k] = v])
          /\ UNCHANGED <<originals, thumbs, metas>>
          /\ StoreTypes /\ k \in ImageKeys /\ v \in Found \cup {None}
      BY <1>1, <1>2
    <2> QED
      BY ONLY <2>1, VectorPut
  <1>4. ASSUME ~r.clash, k \notin unsure' PROVE Sound(k)'
    <2>1. AtWork(r) /\ k \notin Shared(r)
      BY <1>1, <1>4, Holds DEF Held
    <2> QED
      BY <1>1, <1>2, <2>1, StoredAside
  <1> QED
    BY <1>1, <1>3, <1>4, EndsShared

LEMMA BreakOffInv ==
  ASSUME ImageInv, NEW c \in Clients, BreakOff(c)
  PROVE  ImageInv'
  <1> PICK r : r = jobs[c]
    OBVIOUS
  <1>1. /\ Working(c) /\ jobs' = [jobs EXCEPT ![c] = NoJob]
        /\ unsure' = unsure \cup KeysOf(r) /\ keysMade' = keysMade
        /\ UNCHANGED <<originals, thumbs, metas, vectors>>
    BY DEF BreakOff
  <1>2. KeysOf(r) \subseteq keysMade /\ unsure \subseteq keysMade
    BY <1>1 DEF ImageInv
  <1>3. StoreTypes' /\ \A l \in ImageKeys \ KeysOf(r) : SameKey(l)
    <2>1. CASE stored' = stored
      <3>1. UNCHANGED store
        BY <1>1, <2>1 DEF store
      <3> QED
        BY <3>1, StoreKept
    <2>2. CASE Inserting(c) /\ stored' = [stored EXCEPT ![r.key] = VectorOf(r)]
      <3> PICK k, v : k = r.key /\ v = VectorOf(r)
        OBVIOUS
      <3>1. r.step \in {"insert", "insert again"}
        BY <2>2 DEF Inserting, Doing
      <3>2. Shape(r) /\ StoreTypes /\ k \in ImageKeys /\ v \in Found \cup {None} /\ k \in KeysOf(r)
        BY <1>1, <3>1, AtInsertion, KeyOfJob
      <3>3. /\ vectors' = vectors /\ stored' = [stored EXCEPT ![k] = v]
            /\ UNCHANGED <<originals, thumbs, metas>>
        BY <1>1, <2>2
      <3>4. StoreTypes' /\ \A l \in ImageKeys \ {k} : SameKey(l)
        BY ONLY <3>2, <3>3, VectorPut
      <3> QED
        BY <3>2, <3>4
    <2> QED
      BY <2>1, <2>2 DEF BreakOff, HalfInserted
  <1>4. /\ unsure' \subseteq keysMade /\ unsure \ KeysOf(r) \subseteq unsure'
        /\ KeysOf(r) \subseteq unsure'
    BY <1>1, <1>2
  <1> QED
    BY <1>1, <1>3, <1>4, EndsInv

\* An upload that has looked for duplicates.
LEMMA FoundReady ==
  ASSUME ImageInv, NEW c \in Clients, Working(c), NEW r, r = jobs[c], r.step = "check",
         NEW found, found \subseteq keysMade, UNCHANGED store, unsure' = unsure,
         NEW q, q = [x \in JobFields |-> q[x]], q.victims = found, q.todo \subseteq found,
         \A x \in JobFields \ {"victims", "todo"} : q[x] = r[x]
  PROVE  /\ Ready(c, q) /\ OwnSound(c, q) /\ q.auto /\ q.asked = r.asked /\ q.action = r.action
         /\ \A k \in ImageKeys : SameKey(k)
         /\ StoreTypes'
  <1>1. Shape(r) /\ KeysOf(r) \subseteq keysMade /\ keysMade \subseteq ImageKeys
    BY DEF ImageInv
  <1>2. /\ r.op = "upload" /\ r.auto /\ r.victims = {} /\ r.key = r.asked /\ r.pic \in Pictures
        /\ r.model \in Models
    <2>1. r.op = "upload"
      BY <1>1 DEF Shape, StepsOf, Storing, Dropping
    <2> QED
      BY <1>1, <2>1 DEF Shape
  <1>3. /\ q.bucket = r.bucket /\ q.op = r.op /\ q.asked = r.asked
        /\ q.pic = r.pic /\ q.model = r.model /\ q.action = r.action /\ q.auto = r.auto
        /\ q.meta = r.meta /\ q.clash = r.clash /\ q.twin = r.twin
    BY DEF JobFields
  <1>4. KeysOf(r) = {r.asked} \ {None} /\ Own(q) = ({r.asked} \cup found) \ {None}
    BY <1>2, <1>3 DEF KeysOf, Own
  <1>5. q.clash \in BOOLEAN /\ q.twin \in BOOLEAN
    BY <1>1, <1>3, Zenon DEF Shape
  <1>6. Working(c) => KeysOf(jobs[c]) \subseteq Own(q) /\ (jobs[c].clash => q.clash)
    BY <1>3, <1>4
  <1>7. Ready(c, q)
    <2>1. /\ q.op = "upload" /\ q.bucket \in Buckets /\ q.pic \in Pictures /\ q.model \in Models
          /\ q.meta \in Metas \cup {None} /\ q.asked \in ImageKeys \cup {None}
      BY <1>1, <1>2, <1>3 DEF Shape
    <2>2. /\ q.victims \subseteq ImageKeys /\ q.todo \subseteq q.victims /\ Own(q) \subseteq keysMade
      BY <1>1, <1>4
    <2> QED
      BY <1>5, <1>6, <2>1, <2>2 DEF Ready
  <1>8. StoreTypes' /\ \A k \in ImageKeys : SameKey(k)
    BY StoreKept
  <1>9. OwnSound(c, q)
    <2> SUFFICES ASSUME ~q.clash, NEW k \in Own(q) \ unsure',
                        \A d \in Clients \ {c} : Working(d) => KeysOf(jobs[d]) \cap Own(q) = {}
                 PROVE  Sound(k)'
      BY DEF OwnSound
    <2>1. k \in ImageKeys \ unsure
      BY <1>1, <1>7 DEF Ready
    <2>2. k # None /\ At(r) = None
      BY <1>4 DEF At
    <2>3. ~r.clash
      BY <1>3, Zenon
    <2>4. \A d \in Clients : Working(d) /\ k \in KeysOf(jobs[d]) =>
            ~jobs[d].clash /\ k # At(jobs[d])
      BY <2>2, <2>3
    <2>5. Sound(k)
      BY <2>1, <2>4 DEF ImageInv
    <2> QED
      BY <1>8, <2>1, <2>5, SameSound
  <1>10. q.auto
    BY <1>2, <1>3, Zenon
  <1> QED
    BY <1>3, <1>7, <1>8, <1>9, <1>10

LEMMA CheckDuplicatesInv ==
  ASSUME ImageInv, NEW c \in Clients, CheckDuplicates(c)
  PROVE  ImageInv'
  <1> PICK r, found : r = jobs[c] /\ found = CheckExisting(r.pic, r.model)
    OBVIOUS
  <1>1. Working(c) /\ r.step = "check" /\ UNCHANGED store
    BY DEF CheckDuplicates, Doing
  <1>2. Shape(r) /\ KeysOf(r) \subseteq keysMade /\ unsure \subseteq keysMade /\ keysMade \subseteq ImageKeys
    BY <1>1 DEF ImageInv
  <1>3. /\ r = [x \in JobFields |-> r[x]] /\ r.op = "upload" /\ r.pic \in Pictures /\ r.model \in Models
        /\ r.todo = {} /\ r.action \in {"overwrite", "new", "skip", "ask"}
    <2>1. r.op = "upload"
      BY <1>1, <1>2 DEF Shape, StepsOf, Storing, Dropping
    <2> QED
      BY <1>1, <1>2, <2>1 DEF Shape
  <1>4. found \subseteq keysMade
    <2> SUFFICES ASSUME NEW k \in found PROVE k \in keysMade
      OBVIOUS
    <2>1. k \in ImageKeys /\ vectors[k] \in [pic : Pictures, model : Models]
      BY <1>3 DEF CheckExisting
    <2>2. vectors[k] # None
      BY <2>1, ImageAssumption
    <2> QED
      BY <2>1, <2>2 DEF ImageInv, Empty, Unindexed
  <1> PICK q : q = [r EXCEPT !.victims = found]
    OBVIOUS
  <1>5. /\ q = [x \in JobFields |-> q[x]] /\ q.victims = found /\ q.todo = {}
        /\ \A x \in JobFields \ {"victims"} : q[x] = r[x]
    BY <1>3 DEF JobFields
  <1>6. CASE found = {} \/ r.action = "new"
    <2>1. Named(c, q) /\ unsure' = unsure
      BY <1>6 DEF CheckDuplicates, Quiet
    <2>2. /\ ImageInv /\ c \in Clients /\ Working(c) /\ r = jobs[c] /\ r.step = "check"
          /\ found \subseteq keysMade /\ UNCHANGED store /\ unsure' = unsure
          /\ q = [x \in JobFields |-> q[x]] /\ q.victims = found /\ q.todo \subseteq found
          /\ \A x \in JobFields \ {"victims", "todo"} : q[x] = r[x]
      BY <1>1, <1>4, <1>5, <2>1
    <2>3. Ready(c, q) /\ OwnSound(c, q) /\ StoreTypes' /\ \A k \in ImageKeys : SameKey(k)
      BY ONLY <2>2, FoundReady
    <2> QED
      BY <1>5, <2>1, <2>3, NamedInv
  <1>7. CASE found # {} /\ r.action = "overwrite"
    <2> PICK s : s = [q EXCEPT !.todo = found]
      OBVIOUS
    <2>1. PICK n \in NextVictims(s) : Proceeds(c, n)
      BY <1>7 DEF CheckDuplicates
    <2>2. Becomes(c, n) /\ keysMade' = keysMade /\ unsure' = unsure
      BY <2>1 DEF Proceeds, Quiet
    <2>3. /\ ImageInv /\ c \in Clients /\ Working(c) /\ r = jobs[c] /\ r.step = "check"
          /\ found \subseteq keysMade /\ UNCHANGED store /\ unsure' = unsure
          /\ s = [x \in JobFields |-> s[x]] /\ s.victims = found /\ s.todo \subseteq found
          /\ \A x \in JobFields \ {"victims", "todo"} : s[x] = r[x]
      BY <1>1, <1>4, <1>5, <2>2 DEF JobFields
    <2>4. /\ Ready(c, s) /\ OwnSound(c, s) /\ StoreTypes' /\ s.auto /\ s.action = r.action
          /\ \A k \in ImageKeys : SameKey(k)
      BY ONLY <2>3, FoundReady
    <2> QED
      BY <1>7, <2>1, <2>2, <2>4, NextVictimInv
  <1>8. CASE found # {} /\ r.action \in {"skip", "ask"}
    <2>1. Finishes(c)
      BY <1>8 DEF CheckDuplicates
    <2>2. /\ jobs' = [jobs EXCEPT ![c] = NoJob] /\ keysMade' = keysMade
          /\ unsure' = IF r.clash THEN unsure \cup KeysOf(r) ELSE unsure
      BY <1>3, <2>1 DEF Finishes, Cleared
    <2>3. StoreTypes' /\ \A l \in ImageKeys : SameKey(l)
      BY <1>1, StoreKept
    <2>4. ASSUME ~r.clash, NEW k \in KeysOf(r) \ unsure' PROVE Sound(k)'
      <3>1. k # At(r) /\ k \in ImageKeys /\ k \notin unsure
        BY <1>1, <1>2, <2>2, <2>4 DEF KeysOf, At
      <3>2. Sound(k)
        BY <1>1, <2>4, <3>1, Holds DEF Held
      <3> QED
        BY <2>3, <3>1, <3>2, SameSound
    <2>5. /\ unsure' \subseteq keysMade /\ unsure \ KeysOf(r) \subseteq unsure'
          /\ r.clash => KeysOf(r) \subseteq unsure'
      BY <1>2, <2>2
    <2> QED
      BY <1>1, <2>2, <2>3, <2>4, <2>5, EndsInv
  <1> QED
    BY <1>3, <1>6, <1>7, <1>8

\* A call failed and the request goes on: from then on nothing is known of its keys.
LEMMA PassOverInv ==
  ASSUME ImageInv, NEW c \in Clients, PassOver(c)
  PROVE  ImageInv'
  <1> PICK j, r : j = jobs[c] /\ r = [j EXCEPT !.clash = TRUE]
    OBVIOUS
  <1>1. /\ Working(c) /\ UNCHANGED store /\ unsure' = unsure
    BY DEF PassOver
  <1>2. StoreTypes' /\ \A l \in ImageKeys : SameKey(l)
    BY <1>1, StoreKept
  <1>3. Disturbs(r, j) /\ r.clash
    <2>1. ImageInv /\ c \in Clients /\ Working(c) /\ j = jobs[c] /\ r = [j EXCEPT !.clash = TRUE]
      BY <1>1
    <2> QED
      BY ONLY <2>1, Disturbed
  <1>4. /\ Shape(r) /\ KeysOf(r) = KeysOf(j) /\ r.key = j.key /\ r.step = j.step
        /\ r.op = j.op /\ r = [x \in JobFields |-> r[x]] /\ Like(r, j)
    BY ONLY <1>3 DEF Disturbs
  <1>5. /\ r.meta \in Metas \cup {None} /\ r.thumbsLeft \subseteq Sizes
    BY <1>4 DEF Shape
  <1>6. ASSUME r.step \in Dropping \cup {"read meta"}, NEW q, Changes(q, r), Follows(q, r),
               Becomes(c, q), keysMade' = keysMade
        PROVE  ImageInv'
    BY <1>1, <1>2, <1>3, <1>4, <1>6, PassedInv DEF Dropping
  <1>7. ASSUME NEW q, NEW step, q = [r EXCEPT !.step = step]
        PROVE  /\ Changes(q, r) /\ q.step = step /\ q.thumbsLeft = r.thumbsLeft
               /\ q.meta = r.meta /\ q.pic = r.pic
    BY ONLY <1>4, <1>7 DEF Changes, JobFields
  <1>8. CASE Doing(c, "drop vector")
    <2>1. /\ r.step = "drop vector" /\ r.op \in {"upload", "index", "delete"}
          /\ r.op = "index" => r.pic \in Pictures /\ r.meta # None
      <3>1. r.step = "drop vector" /\ Shape(r)
        BY ONLY <1>4, <1>8, j = jobs[c] DEF Doing
      <3> QED
        BY ONLY <3>1 DEF Shape, StepsOf, Storing, Dropping
    <2>2. PICK step : /\ step = IF r.op = "index" THEN "mark" ELSE "drop original"
                      /\ Becomes(c, [r EXCEPT !.step = step]) /\ keysMade' = keysMade
      BY <1>4, <1>8, <2>1 DEF PassOver, Doing, AfterVector
    <2> PICK q : q = [r EXCEPT !.step = step]
      OBVIOUS
    <2>3. /\ Changes(q, r) /\ q.step = step /\ q.thumbsLeft = r.thumbsLeft
          /\ q.meta = r.meta /\ q.pic = r.pic
      BY ONLY <1>7, q = [r EXCEPT !.step = step]
    <2>4. step \in StepsOf(r.op) /\ step \in {"mark", "drop original"}
      BY <2>1, <2>2, StepsAre DEF Dropping
    <2>5. Follows(q, r)
      BY ONLY <1>5, <2>1, <2>2, <2>3, <2>4 DEF Follows, Storing
    <2> QED
      BY <1>6, <2>1, <2>2, <2>3, <2>5 DEF Dropping
  <1>9. CASE Doing(c, "drop original")
    <2>1. r.step = "drop original" /\ r.op \in {"upload", "delete"}
      <3>1. r.step = "drop original" /\ Shape(r)
        BY ONLY <1>4, <1>9, j = jobs[c] DEF Doing
      <3> QED
        BY ONLY <3>1 DEF Shape, StepsOf, Storing, Dropping
    <2> PICK step : step = CASE r.op = "upload" -> "read meta"
                             [] r.op = "delete" /\ r.thumbsLeft # {} -> "drop thumbnails"
                             [] r.op = "delete" /\ r.thumbsLeft = {} -> "drop meta"
      OBVIOUS
    <2>2. Becomes(c, [r EXCEPT !.step = step]) /\ keysMade' = keysMade
      BY <1>4, <1>9, <2>1 DEF PassOver, Doing, AfterOriginal
    <2> PICK q : q = [r EXCEPT !.step = step]
      OBVIOUS
    <2>3. step \in {"read meta", "drop thumbnails", "drop meta"} /\ step \in StepsOf(r.op)
          /\ (step = "drop meta" => r.thumbsLeft = {})
      BY <2>1, StepsAre DEF Dropping
    <2>4. /\ Changes(q, r) /\ q.step = step /\ q.thumbsLeft = r.thumbsLeft
          /\ q.meta = r.meta /\ q.pic = r.pic
      BY ONLY <1>7, q = [r EXCEPT !.step = step]
    <2>5. Follows(q, r)
      BY ONLY <1>5, <2>1, <2>3, <2>4 DEF Follows, Storing
    <2> QED
      BY <1>6, <2>1, <2>2, <2>4, <2>5 DEF Dropping
  <1>10. CASE Doing(c, "drop thumbnails")
    <2>1. r.step = "drop thumbnails" /\ r.op \in {"upload", "delete"}
      <3>1. r.step = "drop thumbnails" /\ Shape(r)
        BY ONLY <1>4, <1>10, j = jobs[c] DEF Doing
      <3> QED
        BY ONLY <3>1 DEF Shape, StepsOf, Storing, Dropping
    <2>2. PICK s \in r.thumbsLeft : Becomes(c, AfterThumbnail(r, s)) /\ keysMade' = keysMade
      BY <1>4, <1>10, <2>1 DEF PassOver, Doing
    <2> PICK q : q = AfterThumbnail(r, s)
      OBVIOUS
    <2>3. /\ Changes(q, r) /\ q.thumbsLeft = r.thumbsLeft \ {s} /\ q.meta = r.meta /\ q.pic = r.pic
          /\ q.step = IF q.thumbsLeft = {} THEN "drop meta" ELSE "drop thumbnails"
      BY ONLY <1>4, <2>1, q = AfterThumbnail(r, s) DEF Changes, JobFields, AfterThumbnail
    <2>4. q.step \in StepsOf(r.op) /\ q.step \in {"drop thumbnails", "drop meta"}
      BY <2>1, <2>3, StepsAre DEF Dropping
    <2>5. Follows(q, r)
      BY ONLY <1>5, <2>1, <2>3, <2>4 DEF Follows, Storing
    <2> QED
      BY <1>6, <2>1, <2>2, <2>3, <2>5 DEF Dropping
  <1>11. CASE Doing(c, "drop meta")
    <2>1. r.step = "drop meta" /\ (r.op # "upload" => r.todo = {})
      <3>1. r.step = "drop meta" /\ Shape(r)
        BY ONLY <1>4, <1>11, j = jobs[c] DEF Doing
      <3> QED
        BY ONLY <3>1 DEF Shape
    <2>2. /\ r.op = "upload"
          /\ \/ r.todo # {} /\ keysMade' = keysMade /\ \E n \in NextVictims(r) : Becomes(c, n)
             \/ r.todo = {} /\ Named(c, r)
      BY <1>4, <2>1 DEF PassOver, Doing
    <2>3. Ready(c, r) /\ r.auto /\ r.action = "overwrite"
      BY <1>1, <1>3, <1>4, <2>1, <2>2, VictimReady DEF Dropping
    <2>4. OwnSound(c, r)
      BY <1>3, Zenon DEF OwnSound
    <2>5. StoreTypes' /\ \A l \in ImageKeys : SameKey(l)
      BY <1>1, StoreKept
    <2>6. CASE r.todo # {}
      <3>1. PICK n \in NextVictims(r) : Becomes(c, n) /\ keysMade' = keysMade
        BY <2>2, <2>6
      <3> QED
        BY <1>1, <2>3, <2>4, <2>5, <3>1, NextVictimInv
    <2>7. CASE r.todo = {}
      BY <1>1, <2>2, <2>3, <2>4, <2>5, <2>7, NamedInv
    <2> QED
      BY <2>6, <2>7
  <1>12. CASE Doing(c, "read meta")
    <2>1. r.step = "read meta"
      BY ONLY <1>4, <1>12, j = jobs[c] DEF Doing
    <2> PICK q : q = [r EXCEPT !.step = "drop meta", !.thumbsLeft = {}]
      OBVIOUS
    <2>2. r.op = "upload" /\ Becomes(c, q) /\ keysMade' = keysMade
      BY <1>4, <1>12, <2>1 DEF PassOver, Doing
    <2>3. /\ Changes(q, r) /\ q.step = "drop meta" /\ q.thumbsLeft = {} /\ q.meta = r.meta
          /\ q.pic = r.pic
      BY ONLY <1>4, q = [r EXCEPT !.step = "drop meta", !.thumbsLeft = {}] DEF Changes, JobFields
    <2>4. "drop meta" \in StepsOf("upload") /\ "drop meta" \notin Storing /\ "read meta" \notin Storing
      BY StepsAre DEF Dropping, Storing
    <2>5. Follows(q, r)
      BY ONLY <1>5, <2>1, <2>2, <2>3, <2>4 DEF Follows
    <2> QED
      BY <1>6, <2>1, <2>2, <2>3, <2>5
  <1> QED
    BY <1>8, <1>9, <1>10, <1>11, <1>12 DEF PassOver

LEMMA KeptStoredInv ==
  ASSUME ImageInv, NEW c \in Clients, KeptStored(c)
  PROVE  ImageInv'
  <1> PICK j, r, k, v, q :
        j = jobs[c] /\ r = [j EXCEPT !.clash = TRUE] /\ k = r.key /\ v = None /\ q = AfterVector(r)
    OBVIOUS
  <1>1. /\ Working(c) /\ j.step = "drop vector" /\ vectors' = [vectors EXCEPT ![k] = v]
        /\ Becomes(c, q) /\ UNCHANGED <<originals, thumbs, metas, stored, keysMade, unsure>>
    BY DEF KeptStored, Doing
  <1>2. /\ Shape(r) /\ KeysOf(r) = KeysOf(j) /\ r.key = j.key /\ r.step = j.step
        /\ r.op = j.op /\ r = [x \in JobFields |-> r[x]] /\ r.clash
    <2>1. ImageInv /\ c \in Clients /\ Working(c) /\ j = jobs[c] /\ r = [j EXCEPT !.clash = TRUE]
      BY <1>1
    <2>2. Disturbs(r, j) /\ r.clash
      BY ONLY <2>1, Disturbed
    <2> QED
      BY ONLY <2>2 DEF Disturbs
  <1>3. k \in ImageKeys /\ StoreTypes
    <2>1. ImageInv /\ c \in Clients /\ Working(c) /\ j = jobs[c] /\ j.step # "check"
      BY <1>1
    <2>2. j.key \in ImageKeys /\ StoreTypes
      BY ONLY <2>1, Stepping
    <2>3. k = j.key
      BY ONLY <1>2, k = r.key
    <2> QED
      BY ONLY <2>2, <2>3
  <1>4. /\ r.op \in {"upload", "index", "delete"} /\ (r.op = "index" => r.pic \in Pictures)
        /\ r.op = "index" => r.meta # None
        /\ r.meta \in Metas \cup {None} /\ r.thumbsLeft \subseteq Sizes
    <2>1. Shape(r) /\ r.step = "drop vector"
      BY ONLY <1>1, <1>2
    <2> QED
      BY ONLY <2>1 DEF Shape, StepsOf, Storing, Dropping
  <1>5. /\ Changes(q, r) /\ q.thumbsLeft = r.thumbsLeft /\ q.meta = r.meta /\ q.pic = r.pic
        /\ q.step = IF r.op = "index" THEN "insert again" ELSE "drop original"
    <2>1. r = [x \in JobFields |-> r[x]] /\ q = AfterVector(r)
      BY <1>2
    <2> QED
      BY ONLY <2>1 DEF Changes, JobFields, AfterVector
  <1>6. q.step \in StepsOf(r.op) /\ q.step \in {"insert again", "drop original"}
    BY <1>4, <1>5, StepsAre DEF Dropping
  <1>7. Follows(q, r)
    BY ONLY <1>1, <1>2, <1>4, <1>5, <1>6 DEF Follows, Storing
  <1>8. StoreTypes' /\ \A l \in ImageKeys \ {k} : SameKey(l)
    <2>1. /\ vectors' = [vectors EXCEPT ![k] = v] /\ stored' = stored
          /\ UNCHANGED <<originals, thumbs, metas>>
          /\ StoreTypes /\ k \in ImageKeys /\ v \in Found \cup {None}
      BY <1>1, <1>3
    <2> QED
      BY ONLY <2>1, VectorPut
  <1>9. /\ ImageInv /\ c \in Clients /\ Working(c) /\ Shape(r) /\ KeysOf(r) = KeysOf(jobs[c])
        /\ r.key = jobs[c].key /\ r.step = jobs[c].step /\ r.step # "check"
        /\ \A l \in ImageKeys \ {r.key} : SameKey(l)
        /\ Becomes(c, q) /\ keysMade' = keysMade /\ unsure' = unsure
    BY <1>1, <1>2, <1>8
  <1>10. r.clash /\ Changes(q, r) /\ Follows(q, r) /\ StoreTypes'
    BY <1>2, <1>5, <1>7, <1>8
  <1> QED
    BY ONLY <1>9, <1>10, PassedInv

\* A rebuild of the graph loses nothing that is known of an image.
LEMMA RebuiltKey ==
  ASSUME Rebuilt, NEW k
  PROVE  /\ Sound(k) => Sound(k)'
         /\ \A b \in Buckets : (Bare(b, k) <=> Bare(b, k)') /\ (Kept(b, k) => Kept(b, k)')
         /\ \A b : Alone(b, k) => Alone(b, k)'
         /\ Empty(k) => Empty(k)'
         /\ Unindexed(k) => Unindexed(k)'
         /\ Listed(k) <=> Listed(k)'
  <1>1. /\ vectors' = stored /\ UNCHANGED <<originals, thumbs, metas, stored>>
    BY DEF Rebuilt
  <1>2. (Unindexed(k) => Unindexed(k)') /\ (Listed(k) <=> Listed(k)')
    BY <1>1 DEF Unindexed, Listed
  <1>3. \A b \in Buckets : (Bare(b, k) <=> Bare(b, k)') /\ (Kept(b, k) => Kept(b, k)')
    BY <1>1 DEF Bare, Kept
  <1>4. \A b : Gone(b, k) <=> Gone(b, k)'
    BY <1>1 DEF Gone
  <1> QED
    BY <1>2, <1>3, <1>4 DEF Sound, Alone, Empty

LEMMA RebuiltInv ==
  ASSUME ImageInv, Rebuilt
  PROVE  ImageInv'
  <1>1. /\ vectors' = stored /\ UNCHANGED <<originals, thumbs, metas, stored, jobs, keysMade, unsure>>
    BY DEF Rebuilt
  <1>2. StoreTypes'
    BY <1>1 DEF ImageInv, StoreTypes
  <1>3. ASSUME NEW r, Shape(r)
        PROVE  (AtWork(r) => AtWork(r)') /\ (Deleted(r) => Deleted(r)')
    <2> PICK b, k : b = r.bucket /\ k = r.key
      OBVIOUS
    <2>1. b \in Buckets
      BY <1>3 DEF Shape
    <2>2. /\ Sound(k) => Sound(k)'
          /\ \A d \in Buckets : (Bare(d, k) <=> Bare(d, k)') /\ (Kept(d, k) => Kept(d, k)')
          /\ Alone(b, k) => Alone(b, k)'
          /\ Unindexed(k) => Unindexed(k)'
          /\ Listed(k) <=> Listed(k)'
      BY RebuiltKey
    <2>3. Deleted(r) => Deleted(r)'
      BY <1>1, <2>2 DEF Deleted
    <2>4. AtWork(r) => AtWork(r)'
      BY <1>1, <2>1, <2>2 DEF AtWork
    <2> QED
      BY <2>3, <2>4
  <1>4. \A k \in ImageKeys : (Sound(k) => Sound(k)') /\ (Empty(k) => Empty(k)')
    BY RebuiltKey
  <1>5. \A c \in Clients : jobs'[c] = jobs[c] /\ (Working(c)' <=> Working(c))
    BY <1>1 DEF Working
  <1>6. ASSUME NEW c \in Clients, Working(c), ~jobs[c].clash
        PROVE  /\ jobs[c].step # "check" /\ jobs[c].key \notin unsure => AtWork(jobs[c])'
               /\ Deleted(jobs[c])'
    <2> PICK r : r = jobs[c]
      OBVIOUS
    <2>1. /\ Shape(r) /\ (r.step # "check" /\ r.key \notin unsure => AtWork(r)) /\ Deleted(r)
      BY <1>6 DEF ImageInv
    <2>2. (AtWork(r)' <=> AtWork(jobs[c])') /\ (Deleted(r)' <=> Deleted(jobs[c])')
      BY <1>1
    <2> QED
      BY <1>3, <2>1, <2>2
  <1> QED
    BY <1>1, <1>2, <1>4, <1>5, <1>6 DEF ImageInv

LEMMA ImageInitInv ==
  ASSUME ImageInit
  PROVE  ImageInv
  <1>1. PICK f \in [ImageKeys -> Earlier], home \in [ImageKeys -> Buckets] :
          LET here(b, k) == f[k] # None /\ home[k] = b
          IN  /\ metas = [b \in Buckets |-> [k \in ImageKeys |-> IF here(b, k) THEN f[k] ELSE None]]
              /\ originals = [b \in Buckets |-> [k \in ImageKeys |->
                                 IF here(b, k) THEN f[k].pic ELSE None]]
              /\ thumbs = [b \in Buckets |-> [k \in ImageKeys |->
                                 IF here(b, k) THEN Whole(f[k].pic) ELSE NoThumbs]]
              /\ vectors = [k \in ImageKeys |->
                               IF f[k] # None /\ f[k].indexed
                               THEN [pic |-> f[k].pic, model |-> f[k].model] ELSE None]
              /\ stored = vectors
              /\ keysMade = {k \in ImageKeys : f[k] # None}
    BY DEF ImageInit
  <1>2. /\ jobs = [c \in Clients |-> NoJob] /\ unsure = {}
    BY DEF ImageInit
  <1>3. \A k \in ImageKeys : f[k] # None => f[k] \in Metas /\ f[k].pic \in Pictures
    <2> SUFFICES ASSUME NEW x \in Earlier, x # None PROVE x \in Metas /\ x.pic \in Pictures
      OBVIOUS
    <2>1. CASE \E p \in Pictures : x = [pic |-> p, indexed |-> FALSE, model |-> None]
      BY <2>1 DEF Metas
    <2>2. CASE \E p \in Pictures, m \in Models : x = [pic |-> p, indexed |-> TRUE, model |-> m]
      BY <2>2 DEF Metas
    <2>3. \/ \E p \in Pictures : x = [pic |-> p, indexed |-> FALSE, model |-> None]
          \/ \E p \in Pictures, m \in Models : x = [pic |-> p, indexed |-> TRUE, model |-> m]
      BY ONLY x \in Earlier, x # None DEF Earlier, Meta
    <2> QED
      BY ONLY <2>1, <2>2, <2>3
  <1>4. \A x \in Metas : x.indexed => [pic |-> x.pic, model |-> x.model] \in Found
    BY DEF Metas, Found
  <1>5. None \notin Pictures
    BY ImageAssumption
  <1>6. ASSUME NEW b \in Buckets, NEW k \in ImageKeys, f[k] # None, home[k] = b
        PROVE  /\ metas[b][k] = f[k] /\ originals[b][k] = f[k].pic
               /\ thumbs[b][k] = Whole(f[k].pic)
    BY <1>1, <1>6
  <1>7. ASSUME NEW b \in Buckets, NEW k \in ImageKeys, ~(f[k] # None /\ home[k] = b)
        PROVE  metas[b][k] = None /\ originals[b][k] = None /\ thumbs[b][k] = NoThumbs
    BY <1>1, <1>7
  <1>8. \A k \in ImageKeys :
          /\ f[k] # None /\ f[k].indexed => vectors[k] = [pic |-> f[k].pic, model |-> f[k].model]
          /\ ~(f[k] # None /\ f[k].indexed) => Unindexed(k)
          /\ stored[k] = vectors[k]
    BY <1>1 DEF Unindexed
  <1>9. StoreTypes
    <2>1. metas \in [Buckets -> [ImageKeys -> Metas \cup {None}]]
      BY <1>1, <1>3
    <2>2. originals \in [Buckets -> [ImageKeys -> Pictures \cup {None}]]
      BY <1>1, <1>3
    <2>3. thumbs \in [Buckets -> [ImageKeys -> [Sizes -> Pictures \cup {None}]]]
      <3>1. NoThumbs \in [Sizes -> Pictures \cup {None}]
            /\ \A p \in Pictures : Whole(p) \in [Sizes -> Pictures \cup {None}]
        BY DEF NoThumbs, Whole
      <3> QED
        BY <1>1, <1>3, <3>1
    <2>4. vectors \in [ImageKeys -> Found \cup {None}] /\ stored = vectors
      BY <1>1, <1>3, <1>4
    <2> QED
      BY <2>1, <2>2, <2>3, <2>4 DEF StoreTypes
  <1>10. \A k \in ImageKeys : Sound(k)
    <2> TAKE k \in ImageKeys
    <2>1. ASSUME NEW b \in Buckets PROVE Kept(b, k)
      <3>1. CASE f[k] # None /\ home[k] = b
        BY <1>3, <1>5, <1>6, <1>8, <3>1 DEF Kept, Bare
      <3>2. CASE ~(f[k] # None /\ home[k] = b)
        BY <1>7, <3>2 DEF Kept, Bare, Whole, NoThumbs
      <3> QED
        BY <3>1, <3>2
    <2>2. Unindexed(k) \/ Listed(k)
      <3> SUFFICES ASSUME ~Unindexed(k) PROVE Listed(k)
        OBVIOUS
      <3>1. f[k] # None /\ home[k] \in Buckets
        BY <1>8
      <3>2. metas[home[k]][k] = f[k]
        BY <1>6, <3>1
      <3> QED
        BY ONLY <3>1, <3>2 DEF Listed
    <2> QED
      BY <2>1, <2>2 DEF Sound
  <1>11. \A k \in ImageKeys \ keysMade : Empty(k)
    <2> TAKE k \in ImageKeys \ keysMade
    <2>1. f[k] = None
      BY <1>1
    <2> QED
      BY <1>7, <1>8, <2>1 DEF Empty, Gone
  <1>12. /\ keysMade \subseteq ImageKeys /\ unsure \subseteq keysMade
         /\ jobs = [c \in Clients |-> jobs[c]] /\ \A c \in Clients : ~Working(c)
    BY <1>1, <1>2 DEF Working
  <1> QED
    BY <1>9, <1>10, <1>11, <1>12 DEF ImageInv

LEMMA ImageNextInv ==
  ASSUME ImageInv, [ImageNext]_imageVars
  PROVE  ImageInv'
  <1>1. CASE UNCHANGED imageVars
    <2>1. \A k : SameKey(k)
      BY <1>1 DEF imageVars, SameKey
    <2>2. \A c \in Clients : /\ jobs'[c] = jobs[c] /\ (Working(c)' <=> Working(c))
      BY <1>1 DEF imageVars, Working
    <2>3. \A k \in ImageKeys : (Sound(k)' <=> Sound(k)) /\ (Empty(k)' <=> Empty(k))
      BY <2>1, SameSound
    <2>4. ASSUME NEW c \in Clients, Working(c), ~jobs[c].clash
          PROVE  /\ jobs[c].step # "check" /\ jobs[c].key \notin unsure => AtWork(jobs[c])'
                 /\ Deleted(jobs[c])'
      <3> PICK r : r = jobs[c]
        OBVIOUS
      <3>1. /\ Shape(r) /\ r.bucket \in Buckets /\ SameKey(r.key)
            /\ r.step # "check" /\ r.key \notin unsure => AtWork(r)
            /\ Deleted(r)
        BY <2>1, <2>4 DEF ImageInv, Shape
      <3>2. (AtWork(r) <=> AtWork(r)') /\ (Deleted(r) <=> Deleted(r)')
        BY ONLY <3>1, SameWork
      <3>3. (AtWork(r)' <=> AtWork(jobs[c])') /\ (Deleted(r)' <=> Deleted(jobs[c])')
        BY <2>2
      <3> QED
        BY <3>1, <3>2, <3>3
    <2>5. StoreTypes'
      BY <1>1 DEF imageVars, StoreTypes, ImageInv
    <2>6. jobs' = jobs /\ unsure' = unsure /\ keysMade' = keysMade
      BY <1>1 DEF imageVars
    <2> QED
      BY <2>2, <2>3, <2>4, <2>5, <2>6 DEF ImageInv
  <1>2. CASE Rebuilt
    BY <1>2, RebuiltInv
  <1>3. CASE \E c \in Clients : ImageRequests(c) \/ ImageSteps(c) \/ ImageFaults(c)
    <2>1. PICK c \in Clients : ImageRequests(c) \/ ImageSteps(c) \/ ImageFaults(c)
      BY <1>3
    <2>2. CASE ImageRequests(c)
      <3>1. PICK b \in Buckets :
              \/ \E k \in ImageKeys \cup {None}, p \in Pictures, m \in Models :
                    \/ \E action \in {"overwrite", "new", "skip"} : UploadImage(c, b, k, p, m, action)
                    \/ UploadImage(c, b, k, p, m, "ask")
              \/ \E k \in keysMade, m \in Models, index \in IndexNames : IndexImage(c, b, k, m, index)
              \/ \E k \in keysMade : UpdateImageMetadata(c, b, k) \/ DeleteImage(c, b, k)
        BY <2>2 DEF ImageRequests, UploadImageStream
      <3>2. CASE \E k \in ImageKeys \cup {None}, p \in Pictures, m \in Models,
                    action \in {"overwrite", "new", "skip", "ask"} : UploadImage(c, b, k, p, m, action)
        BY <3>2, UploadImageInv
      <3>3. CASE \E k \in keysMade, m \in Models, index \in IndexNames : IndexImage(c, b, k, m, index)
        BY <3>3, OtherRequestsInv
      <3>4. CASE \E k \in keysMade : UpdateImageMetadata(c, b, k) \/ DeleteImage(c, b, k)
        BY <3>4, OtherRequestsInv
      <3> QED
        BY <3>1, <3>2, <3>3, <3>4
    <2>3. CASE ImageSteps(c)
      BY <2>3, CheckDuplicatesInv, PutOriginalInv, PutThumbnailInv, PutMetadataInv, InsertVectorInv,
         RefuseVectorInv, InsertElsewhereInv, MarkIndexedInv, ReadMetadataInv, ReadOriginalInv, SaveMetadataInv, DropVectorInv,
         DropOriginalInv, DropThumbnailInv, DropMetadataInv DEF ImageSteps
    <2>4. CASE ImageFaults(c)
      BY <2>4, BreakOffInv, PassOverInv, InsertFailsInv, KeptStoredInv DEF ImageFaults
    <2> QED
      BY <2>1, <2>2, <2>3, <2>4
  <1> QED
    BY <1>1, <1>2, <1>3 DEF ImageNext

LEMMA ImageInvWhole ==
  ASSUME ImageInv
  PROVE  ImageWhole
  <1> SUFFICES ASSUME NEW k \in ImageKeys, Sure(k)
               PROVE
        /\ \A b \in Buckets :
              /\ k \in ListImages(b) <=> GetImage(b, k) # None
              /\ thumbs[b][k] = Whole(GetImage(b, k))
              /\ \A s \in Sizes : GetThumbnail(b, k, s) = GetImage(b, k)
              /\ k \in ListImages(b) /\ metas[b][k].indexed =>
                    LET own == [pic |-> GetImage(b, k), model |-> metas[b][k].model]
                    IN  k \in SearchSimilarImages(b, own) /\ k \in ClassifyObjects(b)
        /\ vectors[k] # None \/ stored[k] # None => \E b \in Buckets : k \in ListImages(b)
    BY DEF ImageWhole
  <1>1. Sound(k)
    BY DEF Sure, ImageInv
  <1>2. \A b \in Buckets : k \in ListImages(b) <=> metas[b][k] # None
    BY DEF ListImages
  <1>3. ASSUME NEW b \in Buckets
        PROVE  /\ k \in ListImages(b) <=> GetImage(b, k) # None
               /\ thumbs[b][k] = Whole(GetImage(b, k))
               /\ \A s \in Sizes : GetThumbnail(b, k, s) = GetImage(b, k)
               /\ k \in ListImages(b) /\ metas[b][k].indexed =>
                     LET own == [pic |-> GetImage(b, k), model |-> metas[b][k].model]
                     IN  k \in SearchSimilarImages(b, own) /\ k \in ClassifyObjects(b)
    <2>1. Kept(b, k)
      BY <1>1 DEF Sound
    <2>2. /\ k \in ListImages(b) <=> GetImage(b, k) # None
          /\ thumbs[b][k] = Whole(GetImage(b, k))
      BY <1>2, <2>1 DEF Kept, Bare, GetImage
    <2>3. \A s \in Sizes : GetThumbnail(b, k, s) = GetImage(b, k)
      BY <1>2, <2>2 DEF GetThumbnail, Whole, GetImage
    <2>4. ASSUME k \in ListImages(b), metas[b][k].indexed
          PROVE  /\ k \in SearchSimilarImages(b, [pic |-> GetImage(b, k), model |-> metas[b][k].model])
                 /\ k \in ClassifyObjects(b)
      <3>1. metas[b][k] \in Metas /\ originals[b][k] \in Pictures
        BY <1>2, <2>1, <2>4 DEF ImageInv, StoreTypes, Kept, Bare
      <3>2. /\ vectors[k] = [pic |-> originals[b][k], model |-> metas[b][k].model]
            /\ stored[k] = vectors[k]
        BY <1>2, <2>1, <2>4 DEF Kept
      <3>3. vectors[k] # None
        <4>1. vectors[k] \in [pic : Pictures, model : Models]
          BY <2>4, <3>1, <3>2 DEF Metas
        <4> QED
          BY <4>1, ImageAssumption
      <3> QED
        BY <2>4, <3>2, <3>3 DEF SearchSimilarImages, ClassifyObjects, GetImage
    <2> QED
      BY <2>2, <2>3, <2>4
  <1>4. vectors[k] # None \/ stored[k] # None => \E b \in Buckets : k \in ListImages(b)
    BY <1>1, <1>2 DEF Sound, Listed, Unindexed
  <1> QED
    BY <1>3, <1>4

\* ImageWhole: an image that no request is at, and that none made unsure since it was
\* last deleted, is listed exactly if it can be got, has its thumbnails, and is found
\* by its own picture if it says that it is indexed, whatever is rebuilt.
THEOREM ImagesWhole == ImageSpec => []ImageWhole
  <1>1. ImageInit => ImageInv
    BY ImageInitInv
  <1>2. ImageInv /\ [ImageNext]_imageVars => ImageInv'
    BY ImageNextInv
  <1>3. ImageInv => ImageWhole
    BY ImageInvWhole
  <1> QED
    BY <1>1, <1>2, <1>3, PTL DEF ImageSpec

--------------------------------------------------------------------------------
(* Pictures that are indexed once.                                         *)

\* Nobody has the vector that an upload is about to insert, but the duplicates it is
\* about to delete.
Unmatched(r) ==
  r.op = "upload" /\ r.auto /\ r.step # "check" /\ ~r.twin /\ r.action # "new" =>
    \A k \in ImageKeys \ excused :
      vectors[k] = [pic |-> r.pic, model |-> r.model] =>
        k \in r.todo \/ (k = r.key /\ r.step \in {"drop vector", "mark"})

TwinInv ==
  /\ ImageInv /\ NoDuplicates
  /\ \A c \in Clients : Working(c) => Unmatched(jobs[c])
  /\ \A c, d \in Clients : c # d /\ Working(c) /\ Working(d) /\ Twins(jobs[c], jobs[d]) =>
        jobs[c].twin

\* What changes of the vectors: at most one of them, to nothing, or to that of a request
\* when nobody else has it.
Inserts(q, k) ==
  /\ vectors'[k] = [pic |-> q.pic, model |-> q.model]
  /\ k \notin excused' =>
       /\ q.op = "upload"
       /\ \A l \in ImageKeys \ excused' : l # k => vectors[l] # [pic |-> q.pic, model |-> q.model]

LEMMA TwinGoesOn ==
  ASSUME TwinInv, ImageInv', NEW c \in Clients, NEW q, Plain(q), Becomes(c, q),
         excused \subseteq excused', NEW key,
         \A k \in ImageKeys \ {key} : vectors'[k] = vectors[k],
         key \in ImageKeys => vectors'[key] \in {vectors[key], None} \/ Inserts(q, key),
         ~q.twin => Unmatched(q)'
  PROVE  TwinInv'
  <1>1. /\ Working(c)' /\ Like(jobs'[c], q)
        /\ q.twin => jobs'[c].twin
        /\ \A d \in Clients \ {c} :
             /\ Working(d)' <=> Working(d)
             /\ Working(d) =>
                  /\ Like(jobs'[d], jobs[d])
                  /\ jobs[d].twin => jobs'[d].twin
                  /\ Twins(jobs[d], q) => jobs'[d].twin /\ jobs'[c].twin
    BY BecomesJobs DEF TwinInv
  <1>2. Unmatched(jobs[c])'
    <2> PICK s : s = jobs'[c]
      OBVIOUS
    <2>1. Like(s, q) /\ (q.twin => s.twin)
      BY <1>1
    <2>2. /\ s.op = q.op /\ s.key = q.key /\ s.pic = q.pic /\ s.model = q.model
          /\ s.action = q.action /\ s.step = q.step /\ s.auto = q.auto /\ s.todo = q.todo
      BY ONLY <2>1, LikeFields
    <2>3. Unmatched(s)'
      BY <2>1, <2>2, Zenon DEF Unmatched
    <2> QED
      BY <2>3 DEF Unmatched
  <1>3. ASSUME NEW d \in Clients \ {c}, Working(d) PROVE Unmatched(jobs[d])'
    <2> PICK s, r : s = jobs'[d] /\ r = jobs[d]
      OBVIOUS
    <2>1. Like(s, r) /\ (r.twin => s.twin) /\ (Twins(r, q) => s.twin) /\ Unmatched(r)
      BY <1>1, <1>3 DEF TwinInv
    <2>2. /\ s.op = r.op /\ s.key = r.key /\ s.pic = r.pic /\ s.model = r.model
          /\ s.action = r.action /\ s.step = r.step /\ s.auto = r.auto /\ s.todo = r.todo
      BY ONLY <2>1, LikeFields
    <2>3. ASSUME s.op = "upload", s.auto, s.step # "check", ~s.twin, s.action # "new",
                 NEW k \in ImageKeys \ excused', vectors'[k] = [pic |-> s.pic, model |-> s.model]
          PROVE  k \in s.todo \/ (k = s.key /\ s.step \in {"drop vector", "mark"})
      <3>1. r.op = "upload" /\ r.auto /\ r.step # "check" /\ ~r.twin /\ r.action # "new"
        <4>1. r.auto /\ ~r.twin
          BY <2>1, <2>2, <2>3, Zenon
        <4> QED
          BY <2>2, <2>3, <4>1
      <3>2. vectors'[k] # None
        <4>1. r.pic \in Pictures /\ r.model \in Models
          BY <1>3, <3>1 DEF TwinInv, ImageInv, Shape
        <4>2. vectors'[k] \in [pic : Pictures, model : Models]
          BY <2>2, <2>3, <4>1
        <4> QED
          BY <4>2, ImageAssumption
      <3>3. CASE vectors'[k] = vectors[k]
        <4>1. k \in r.todo \/ (k = r.key /\ r.step \in {"drop vector", "mark"})
          BY <2>1, <2>2, <2>3, <3>1, <3>3 DEF Unmatched
        <4> QED
          BY <2>2, <4>1
      <3>4. CASE k = key /\ Inserts(q, key)
        <4>1. q.op = "upload" /\ [pic |-> q.pic, model |-> q.model] = [pic |-> s.pic, model |-> s.model]
          BY <2>3, <3>4 DEF Inserts
        <4>2. q.pic = s.pic /\ q.model = s.model
          BY ONLY <4>1
        <4>3. Twins(r, q)
          BY <2>2, <3>1, <4>1, <4>2 DEF Twins
        <4> QED
          BY <2>1, <2>3, <4>3
      <3> QED
        BY <3>2, <3>3, <3>4
    <2>4. Unmatched(s)'
      BY <2>3 DEF Unmatched
    <2> QED
      BY <2>4 DEF Unmatched
  <1>4. \A d \in Clients : Working(d)' => Unmatched(jobs[d])'
    BY <1>1, <1>2, <1>3
  <1>5. ASSUME NEW d \in Clients, NEW e \in Clients, d # e, Working(d)', Working(e)',
               Twins(jobs'[d], jobs'[e])
        PROVE  jobs'[d].twin
    <2>1. ASSUME NEW s, NEW r, Like(s, r), NEW x
          PROVE  (Twins(s, x) <=> Twins(r, x)) /\ (Twins(x, s) <=> Twins(x, r))
      <3>1. s.op = r.op /\ s.pic = r.pic /\ s.model = r.model
        BY <2>1, LikeFields
      <3> QED
        BY <3>1 DEF Twins
    <2>2. CASE d = c
      <3>1. Working(e) /\ Like(jobs'[e], jobs[e]) /\ Like(jobs'[c], q)
        BY <1>1, <1>5, <2>2
      <3>2. Twins(q, jobs[e])
        BY <1>5, <2>1, <2>2, <3>1
      <3>3. Twins(jobs[e], q)
        BY <3>2 DEF Twins
      <3> QED
        BY <1>1, <1>5, <2>2, <3>1, <3>3
    <2>3. CASE e = c
      <3>1. Working(d) /\ Like(jobs'[d], jobs[d]) /\ Like(jobs'[c], q)
        BY <1>1, <1>5, <2>3
      <3>2. Twins(jobs[d], q)
        BY <1>5, <2>1, <2>3, <3>1
      <3> QED
        BY <1>1, <1>5, <2>3, <3>1, <3>2
    <2>4. CASE d # c /\ e # c
      <3>1. /\ Working(d) /\ Like(jobs'[d], jobs[d]) /\ (jobs[d].twin => jobs'[d].twin)
            /\ Working(e) /\ Like(jobs'[e], jobs[e])
        BY <1>1, <1>5, <2>4
      <3>2. Twins(jobs[d], jobs[e])
        BY <1>5, <2>1, <3>1
      <3>3. jobs[d].twin
        BY <1>5, <3>1, <3>2 DEF TwinInv
      <3> QED
        BY <3>1, <3>3
    <2> QED
      BY <2>2, <2>3, <2>4
  <1>6. NoDuplicates'
    <2> SUFFICES ASSUME NEW k \in ImageKeys \ excused', NEW l \in ImageKeys \ excused',
                        k # l, vectors'[k] # None, vectors'[k] = vectors'[l]
                 PROVE  FALSE
      BY DEF NoDuplicates
    <2>1. ASSUME vectors'[k] = vectors[k], vectors'[l] = vectors[l] PROVE FALSE
      BY <2>1 DEF TwinInv, NoDuplicates
    <2>2. ASSUME k = key, Inserts(q, k) PROVE FALSE
      BY <2>2 DEF Inserts
    <2>3. ASSUME l = key, Inserts(q, l) PROVE FALSE
      BY <2>3 DEF Inserts
    <2> QED
      BY <2>1, <2>2, <2>3
  <1> QED
    BY <1>4, <1>5, <1>6 DEF TwinInv

LEMMA TwinEnds ==
  ASSUME TwinInv, ImageInv', NEW c \in Clients, Working(c), jobs' = [jobs EXCEPT ![c] = NoJob],
         vectors' = vectors, excused \subseteq excused'
  PROVE  TwinInv'
  <1>1. /\ \A d \in Clients : Working(d)' <=> Working(d) /\ d # c
        /\ \A d \in Clients \ {c} : jobs'[d] = jobs[d]
    BY DEF TwinInv, ImageInv, Working
  <1>2. ASSUME NEW d \in Clients \ {c}, Working(d) PROVE Unmatched(jobs[d])'
    <2> PICK r : r = jobs[d]
      OBVIOUS
    <2>1. Unmatched(r)
      BY <1>2 DEF TwinInv
    <2>2. Unmatched(r)'
      BY <2>1 DEF Unmatched
    <2> QED
      BY <1>1, <2>2 DEF Unmatched
  <1>3. NoDuplicates'
    BY DEF NoDuplicates, TwinInv
  <1>4. \A d, e \in Clients : d # e /\ Working(d)' /\ Working(e)' /\ Twins(jobs'[d], jobs'[e]) =>
          jobs'[d].twin
    BY <1>1 DEF TwinInv
  <1> QED
    BY <1>1, <1>2, <1>3, <1>4 DEF TwinInv

\* No vector changes.
LEMMA TwinKeeps ==
  ASSUME TwinInv, ImageInv', NEW c \in Clients, NEW q, Plain(q), Becomes(c, q),
         excused \subseteq excused', vectors' = vectors, ~q.twin => Unmatched(q)
  PROVE  TwinInv'
  <1>1. ~q.twin => Unmatched(q)'
    BY DEF Unmatched
  <1>2. \A k \in ImageKeys : vectors'[k] = vectors[k]
    OBVIOUS
  <1> QED
    BY <1>1, <1>2, TwinGoesOn

\* A request goes on with the image it is at, and no vector changes.
LEMMA TwinSteps ==
  ASSUME TwinInv, ImageInv', NEW c \in Clients, NEW r, Plain(r), Unmatched(r),
         NEW q, Changes(q, r), Becomes(c, q), r.op = "upload" => q.pic = r.pic,
         r.step \notin {"check", "drop vector", "mark"} \/ r.op # "upload",
         excused \subseteq excused', vectors' = vectors
  PROVE  TwinInv'
  <1>1. /\ q.op = r.op /\ q.key = r.key /\ q.model = r.model /\ q.action = r.action
        /\ q.auto = r.auto /\ q.todo = r.todo /\ q.clash = r.clash /\ q.twin = r.twin
    BY ChangedFields
  <1>2. Plain(q)
    <2>1. q.clash \in BOOLEAN /\ q.twin \in BOOLEAN
      BY <1>1, Zenon DEF Plain
    <2> QED
      BY <1>1, <2>1 DEF Plain, Changes
  <1>3. ASSUME ~q.twin PROVE Unmatched(q)
    <2>1. (q.auto => r.auto) /\ ~r.twin
      BY <1>1, <1>3, Zenon
    <2> QED
      BY <1>1, <2>1 DEF Unmatched
  <1> QED
    BY <1>2, <1>3, TwinKeeps

\* An upload goes on to store its picture.
LEMMA TwinNamed ==
  ASSUME TwinInv, ImageInv', NEW c \in Clients, NEW r, Plain(r), Named(c, r),
         r.auto /\ ~r.twin /\ r.action # "new" =>
            \A k \in ImageKeys \ excused' : vectors[k] # [pic |-> r.pic, model |-> r.model],
         excused \subseteq excused', vectors' = vectors
  PROVE  TwinInv'
  <1>1. PICK k : Becomes(c, [r EXCEPT !.key = k, !.step = "original", !.thumbsLeft = Sizes])
    BY DEF Named
  <1> PICK q : q = [r EXCEPT !.key = k, !.step = "original", !.thumbsLeft = Sizes]
    OBVIOUS
  <1>2. /\ q = [x \in JobFields |-> q[x]] /\ q.op = r.op /\ q.pic = r.pic /\ q.model = r.model
        /\ q.action = r.action /\ q.auto = r.auto /\ q.twin = r.twin /\ q.clash = r.clash
    BY ONLY Plain(r), q = [r EXCEPT !.key = k, !.step = "original", !.thumbsLeft = Sizes]
    DEF Plain, JobFields
  <1>3. Plain(q)
    <2>1. q.clash \in BOOLEAN /\ q.twin \in BOOLEAN
      BY <1>2, Zenon DEF Plain
    <2> QED
      BY <1>2, <2>1 DEF Plain
  <1>4. ASSUME ~q.twin PROVE Unmatched(q)'
    <2>1. (q.auto => r.auto) /\ ~r.twin
      BY <1>2, <1>4, Zenon
    <2> QED
      BY <1>2, <2>1 DEF Unmatched
  <1>5. \A l \in ImageKeys : vectors'[l] = vectors[l]
    OBVIOUS
  <1> QED
    BY <1>1, <1>3, <1>4, <1>5, TwinGoesOn

\* An upload goes on to delete a duplicate.
LEMMA TwinVictim ==
  ASSUME TwinInv, ImageInv', NEW c \in Clients, NEW r, Plain(r), NEW q \in NextVictims(r),
         Becomes(c, q),
         r.auto /\ ~r.twin /\ r.action # "new" =>
            \A k \in ImageKeys \ excused' :
               vectors[k] = [pic |-> r.pic, model |-> r.model] => k \in r.todo,
         excused \subseteq excused', vectors' = vectors
  PROVE  TwinInv'
  <1>1. PICK k \in r.todo : q = [r EXCEPT !.key = k, !.todo = @ \ {k}, !.step = "drop vector",
                                          !.thumbsLeft = {}]
    BY DEF NextVictims, FirstDrop
  <1>2. /\ q = [x \in JobFields |-> q[x]] /\ q.op = r.op /\ q.pic = r.pic /\ q.model = r.model
        /\ q.action = r.action /\ q.auto = r.auto /\ q.twin = r.twin /\ q.clash = r.clash
        /\ q.key = k /\ q.todo = r.todo \ {k} /\ q.step = "drop vector"
    BY ONLY Plain(r), <1>1 DEF Plain, JobFields
  <1>3. Plain(q)
    <2>1. q.clash \in BOOLEAN /\ q.twin \in BOOLEAN
      BY <1>2, Zenon DEF Plain
    <2> QED
      BY <1>2, <2>1 DEF Plain
  <1>4. ASSUME ~q.twin PROVE Unmatched(q)'
    <2>1. (q.auto => r.auto) /\ ~r.twin
      BY <1>2, <1>4, Zenon
    <2> QED
      BY <1>2, <2>1 DEF Unmatched
  <1>5. \A l \in ImageKeys : vectors'[l] = vectors[l]
    OBVIOUS
  <1> QED
    BY <1>1, <1>3, <1>4, <1>5, TwinGoesOn

LEMMA TwinWorker ==
  ASSUME TwinInv, NEW c \in Clients, Working(c), NEW r, r = jobs[c]
  PROVE  /\ Shape(r) /\ Plain(r) /\ r = [x \in JobFields |-> r[x]] /\ Unmatched(r)
         /\ StoreTypes /\ r.bucket \in Buckets
  <1>1. Shape(r) /\ Unmatched(r) /\ StoreTypes
    BY DEF TwinInv, ImageInv
  <1>2. Plain(r)
    BY <1>1, ShapePlain
  <1> QED
    BY <1>1, <1>2 DEF Plain, Shape

LEMMA TwinFinishes ==
  ASSUME TwinInv, ImageInv', NEW c \in Clients, Working(c), Finishes(c), vectors' = vectors
  PROVE  TwinInv'
  BY TwinEnds DEF Finishes

\* The steps of a request that touch no vector.
LEMMA TwinStores ==
  ASSUME TwinInv, ImageInv', NEW c \in Clients,
         \/ PutOriginal(c) \/ PutThumbnail(c) \/ PutMetadata(c) \/ MarkIndexed(c)
         \/ ReadMetadata(c) \/ ReadOriginal(c) \/ SaveMetadata(c)
         \/ DropOriginal(c) \/ DropThumbnail(c)
  PROVE  TwinInv'
  <1> PICK r : r = jobs[c]
    OBVIOUS
  <1>1. Working(c) /\ vectors' = vectors
    BY DEF PutOriginal, PutThumbnail, PutMetadata, MarkIndexed, ReadMetadata, ReadOriginal,
       SaveMetadata, DropOriginal, DropThumbnail, Doing, store
  <1>2. /\ Shape(r) /\ Plain(r) /\ r = [x \in JobFields |-> r[x]] /\ Unmatched(r)
    BY <1>1, TwinWorker
  <1>3. ASSUME NEW q, Changes(q, r), Proceeds(c, q), r.op = "upload" => q.pic = r.pic,
               r.step \notin {"check", "drop vector", "mark"}
        PROVE  TwinInv'
    BY <1>1, <1>2, <1>3, TwinSteps DEF Proceeds, Quiet
  <1>4. CASE PutOriginal(c)
    <2> PICK q : q = [r EXCEPT !.step = "thumbnails"]
      OBVIOUS
    <2>1. Changes(q, r) /\ q.pic = r.pic
      BY ONLY <1>2, q = [r EXCEPT !.step = "thumbnails"] DEF Changes, JobFields
    <2>2. Proceeds(c, q) /\ r.step = "original"
      BY <1>4 DEF PutOriginal, Doing
    <2> QED
      BY <1>3, <2>1, <2>2
  <1>5. CASE PutThumbnail(c)
    <2>1. PICK left, step : Proceeds(c, [r EXCEPT !.thumbsLeft = left, !.step = step])
      BY <1>5 DEF PutThumbnail
    <2> PICK q : q = [r EXCEPT !.thumbsLeft = left, !.step = step]
      OBVIOUS
    <2>2. Changes(q, r) /\ q.pic = r.pic
      BY ONLY <1>2, q = [r EXCEPT !.thumbsLeft = left, !.step = step] DEF Changes, JobFields
    <2>3. r.step = "thumbnails"
      BY <1>5 DEF PutThumbnail, Doing
    <2> QED
      BY <1>3, <2>1, <2>2, <2>3
  <1>6. CASE PutMetadata(c)
    <2> PICK meta : meta = Meta(r.pic, FALSE, None)
      OBVIOUS
    <2> PICK q : q = [r EXCEPT !.meta = meta, !.step = "insert"]
      OBVIOUS
    <2>1. Changes(q, r) /\ q.pic = r.pic
      BY ONLY <1>2, q = [r EXCEPT !.meta = meta, !.step = "insert"] DEF Changes, JobFields
    <2>2. (Proceeds(c, q) \/ Finishes(c)) /\ r.step = "meta"
      BY <1>6 DEF PutMetadata, Doing
    <2> QED
      BY <1>1, <1>3, <2>1, <2>2, TwinFinishes
  <1>7. CASE MarkIndexed(c) \/ SaveMetadata(c)
    BY <1>1, <1>7, TwinFinishes DEF MarkIndexed, SaveMetadata
  <1>8. CASE ReadMetadata(c)
    <2> PICK meta, left : /\ meta = metas[r.bucket][r.key]
                          /\ left = IF meta = None THEN {} ELSE Sizes
      OBVIOUS
    <2> PICK s : s = [r EXCEPT !.meta = meta, !.thumbsLeft = left]
      OBVIOUS
    <2>1. r.step = "read meta" /\ r.op \in {"upload", "index", "update", "delete"}
      BY <1>2, <1>8 DEF ReadMetadata, Doing, Shape
    <2>2. Finishes(c) \/ \E step : Proceeds(c, [s EXCEPT !.step = step])
      BY <1>8, <2>1 DEF ReadMetadata
    <2>3. CASE \E step : Proceeds(c, [s EXCEPT !.step = step])
      <3>1. PICK step : Proceeds(c, [s EXCEPT !.step = step])
        BY <2>3
      <3> PICK q : q = [s EXCEPT !.step = step]
        OBVIOUS
      <3>2. Changes(q, r) /\ q.pic = r.pic
        BY ONLY <1>2, s = [r EXCEPT !.meta = meta, !.thumbsLeft = left], q = [s EXCEPT !.step = step]
        DEF Changes, JobFields
      <3> QED
        BY <1>3, <2>1, <3>1, <3>2
    <2> QED
      BY <1>1, <2>2, <2>3, TwinFinishes
  <1>9. CASE ReadOriginal(c)
    <2> PICK pic : pic = originals[r.bucket][r.key]
      OBVIOUS
    <2> PICK q : q = [r EXCEPT !.pic = pic, !.step = "insert"]
      OBVIOUS
    <2>1. Changes(q, r)
      BY ONLY <1>2, q = [r EXCEPT !.pic = pic, !.step = "insert"] DEF Changes, JobFields
    <2>2. (Proceeds(c, q) \/ Finishes(c)) /\ r.step = "read original"
      BY <1>9 DEF ReadOriginal, Doing
    <2>3. r.op # "upload"
      BY ONLY <1>2, <2>2 DEF Shape, StepsOf, Storing, Dropping
    <2> QED
      BY <1>1, <1>3, <2>1, <2>2, <2>3, TwinFinishes
  <1>10. CASE DropOriginal(c)
    <2>1. PICK step : Proceeds(c, [r EXCEPT !.step = step])
      BY <1>10 DEF DropOriginal, AfterOriginal
    <2> PICK q : q = [r EXCEPT !.step = step]
      OBVIOUS
    <2>2. Changes(q, r) /\ q.pic = r.pic
      BY ONLY <1>2, q = [r EXCEPT !.step = step] DEF Changes, JobFields
    <2>3. r.step = "drop original"
      BY <1>10 DEF DropOriginal, Doing
    <2> QED
      BY <1>3, <2>1, <2>2, <2>3
  <1>11. CASE DropThumbnail(c)
    <2>1. PICK left, step : Proceeds(c, [r EXCEPT !.thumbsLeft = left, !.step = step])
      BY <1>11 DEF DropThumbnail, AfterThumbnail
    <2> PICK q : q = [r EXCEPT !.thumbsLeft = left, !.step = step]
      OBVIOUS
    <2>2. Changes(q, r) /\ q.pic = r.pic
      BY ONLY <1>2, q = [r EXCEPT !.thumbsLeft = left, !.step = step] DEF Changes, JobFields
    <2>3. r.step = "drop thumbnails"
      BY <1>11 DEF DropThumbnail, Doing
    <2> QED
      BY <1>3, <2>1, <2>2, <2>3
  <1> QED
    BY <1>4, <1>5, <1>6, <1>7, <1>8, <1>9, <1>10, <1>11

LEMMA TwinInsert ==
  ASSUME TwinInv, ImageInv', NEW c \in Clients, InsertVector(c)
  PROVE  TwinInv'
  <1> PICK r, k : r = jobs[c] /\ k = r.key
    OBVIOUS
  <1>1. Working(c) /\ r.step \in {"insert", "insert again"}
    BY DEF InsertVector, Inserting, Doing
  <1>2. /\ Shape(r) /\ Plain(r) /\ r = [x \in JobFields |-> r[x]] /\ Unmatched(r)
        /\ StoreTypes
    BY <1>1, TwinWorker
  <1>3. /\ r.op \in {"upload", "index"} /\ r.pic \in Pictures /\ r.model \in Models
        /\ r.op = "upload" => r.auto /\ r.todo = {}
    BY ONLY <1>1, <1>2 DEF Shape, StepsOf, Storing, Dropping
  <1> PICK q : q = [r EXCEPT !.step = "mark"]
    OBVIOUS
  <1>4. /\ vectors' = [vectors EXCEPT ![k] = [pic |-> r.pic, model |-> r.model]] /\ Becomes(c, q)
        /\ Excuse(r)
    BY DEF InsertVector, VectorOf
  <1>5. /\ Changes(q, r) /\ q.pic = r.pic /\ q.step = "mark"
    BY ONLY <1>2, q = [r EXCEPT !.step = "mark"] DEF Changes, JobFields
  <1>6. /\ q.op = r.op /\ q.key = k /\ q.model = r.model /\ q.action = r.action
        /\ q.auto = r.auto /\ q.todo = r.todo /\ q.clash = r.clash /\ q.twin = r.twin
    BY <1>5, ChangedFields
  <1>7. Plain(q)
    <2>1. q.clash \in BOOLEAN /\ q.twin \in BOOLEAN
      BY <1>2, <1>6, Zenon DEF Plain
    <2> QED
      BY <1>2, <1>5, <1>6, <2>1 DEF Plain, Changes
  <1>8. /\ \A l \in ImageKeys \ {k} : vectors'[l] = vectors[l]
        /\ k \in ImageKeys => vectors'[k] = [pic |-> r.pic, model |-> r.model]
    BY <1>2, <1>4 DEF StoreTypes
  <1>9. /\ excused \subseteq excused'
        /\ k \notin excused' => r.op = "upload" /\ ~r.twin /\ r.action # "new"
    BY <1>3, <1>4 DEF Excuse
  <1>10. r.op = "upload" /\ ~r.twin /\ r.action # "new" =>
            \A l \in ImageKeys \ excused : vectors[l] # [pic |-> r.pic, model |-> r.model]
    BY <1>1, <1>3, <1>2 DEF Unmatched
  <1>11. k \in ImageKeys => Inserts(q, k)
    BY <1>5, <1>6, <1>8, <1>9, <1>10 DEF Inserts
  <1>12. ASSUME ~q.twin PROVE Unmatched(q)'
    <2>1. ~r.twin
      BY <1>6, <1>12, Zenon
    <2> QED
      BY <1>5, <1>6, <1>8, <1>9, <1>10, <2>1 DEF Unmatched
  <1> QED
    BY <1>4, <1>7, <1>8, <1>9, <1>11, <1>12, TwinGoesOn

\* The graph is left alone: RocksDB alone has the vector, or another index.
LEMMA TwinRefused ==
  ASSUME TwinInv, ImageInv', NEW c \in Clients, RefuseVector(c) \/ InsertElsewhere(c)
  PROVE  TwinInv'
  <1> PICK r : r = jobs[c]
    OBVIOUS
  <1>1. /\ Working(c) /\ r.step \in {"insert", "insert again"} /\ vectors' = vectors
        /\ excused \subseteq excused'
    BY DEF RefuseVector, InsertElsewhere, Inserting, Doing, Proceeds, Quiet, store
  <1>2. /\ Shape(r) /\ Plain(r) /\ r = [x \in JobFields |-> r[x]] /\ Unmatched(r)
    BY <1>1, TwinWorker
  <1>3. CASE RefuseVector(c) /\ jobs' = [jobs EXCEPT ![c] = NoJob]
    BY <1>1, <1>3, TwinEnds
  <1>4. CASE RefuseVector(c) /\ Becomes(c, [r EXCEPT !.step = "drop vector"])
    <2> PICK q : q = [r EXCEPT !.step = "drop vector"]
      OBVIOUS
    <2>1. Changes(q, r) /\ q.pic = r.pic
      BY ONLY <1>2, q = [r EXCEPT !.step = "drop vector"] DEF Changes, JobFields
    <2>2. r.step \notin {"check", "drop vector", "mark"}
      BY <1>1
    <2> QED
      BY <1>1, <1>2, <1>4, <2>1, <2>2, TwinSteps
  <1>5. CASE InsertElsewhere(c)
    <2> PICK q : q = [r EXCEPT !.step = "mark", !.clash = TRUE]
      OBVIOUS
    <2>1. Becomes(c, q) /\ r.op = "index"
      BY <1>5 DEF InsertElsewhere, Proceeds
    <2>2. /\ q = [x \in JobFields |-> q[x]] /\ q.op = r.op /\ q.twin = r.twin /\ q.clash = TRUE
      BY ONLY <1>2, q = [r EXCEPT !.step = "mark", !.clash = TRUE] DEF JobFields
    <2>3. q.clash \in BOOLEAN /\ q.twin \in BOOLEAN
      BY <1>2, <2>2, Zenon DEF Plain
    <2>4. Plain(q)
      BY ONLY <1>2, <2>2, <2>3 DEF Plain
    <2>5. Unmatched(q)
      BY ONLY <2>1, <2>2 DEF Unmatched
    <2> QED
      BY <1>1, <2>1, <2>4, <2>5, TwinKeeps
  <1> QED
    BY <1>3, <1>4, <1>5 DEF RefuseVector, AlreadyExists

\* A vector leaves the graph, on behalf of the request r.
LEMMA TwinVectorGone ==
  ASSUME TwinInv, ImageInv', NEW c \in Clients, NEW r, Plain(r), Unmatched(r),
         r.step = "drop vector", r.op = "upload" => r.pic \in Pictures /\ r.model \in Models,
         NEW q, q = AfterVector(r), Becomes(c, q), NEW k, k = r.key,
         vectors' = [vectors EXCEPT ![k] = None], excused \subseteq excused'
  PROVE  TwinInv'
  <1>1. r = [x \in JobFields |-> r[x]] /\ vectors \in [ImageKeys -> Found \cup {None}]
    BY DEF Plain, TwinInv, ImageInv, StoreTypes
  <1>3. Changes(q, r) /\ q.pic = r.pic
    BY ONLY <1>1, q = AfterVector(r) DEF Changes, JobFields, AfterVector
  <1>4. /\ q.op = r.op /\ q.key = k /\ q.model = r.model /\ q.action = r.action
        /\ q.auto = r.auto /\ q.todo = r.todo /\ q.clash = r.clash /\ q.twin = r.twin
    <2>1. Changes(q, r)
      BY <1>3
    <2>2. /\ q.op = r.op /\ q.key = r.key /\ q.model = r.model /\ q.action = r.action
          /\ q.auto = r.auto /\ q.todo = r.todo /\ q.clash = r.clash /\ q.twin = r.twin
      BY ONLY <2>1, ChangedFields
    <2> QED
      BY ONLY <2>2, k = r.key
  <1>5. Plain(q)
    <2>1. q.clash \in BOOLEAN /\ q.twin \in BOOLEAN
      BY <1>4, Zenon DEF Plain
    <2> QED
      BY <1>3, <1>4, <2>1 DEF Plain, Changes
  <1>6. \A l \in ImageKeys : vectors'[l] = IF l = k THEN None ELSE vectors[l]
    BY <1>1
  <1>7. ASSUME ~q.twin PROVE Unmatched(q)'
    <2>1. ~r.twin /\ (q.auto => r.auto)
      BY <1>4, <1>7, Zenon
    <2>2. ASSUME q.op = "upload", q.auto, q.action # "new", NEW l \in ImageKeys \ excused',
                 vectors'[l] = [pic |-> q.pic, model |-> q.model]
          PROVE  l \in q.todo
      <3>1. q.pic \in Pictures /\ q.model \in Models
        <4>1. q.pic = r.pic /\ q.op = r.op /\ q.model = r.model
          BY ONLY <1>3, <1>4
        <4>2. r.op = "upload" => r.pic \in Pictures /\ r.model \in Models
          OBVIOUS
        <4> QED
          BY ONLY <2>2, <4>1, <4>2
      <3>2. vectors'[l] \in [pic : Pictures, model : Models]
        <4>1. [pic |-> q.pic, model |-> q.model] \in [pic : Pictures, model : Models]
          BY ONLY <3>1
        <4> QED
          BY ONLY <2>2, <4>1, Zenon
      <3>3. l # k /\ vectors[l] = [pic |-> r.pic, model |-> r.model]
        <4>1. vectors'[l] # None
          BY ONLY <3>2, ImageAssumption
        <4>2. l \in ImageKeys /\ q.pic = r.pic /\ q.model = r.model
          BY ONLY <1>3, <1>4, <2>2
        <4> QED
          BY ONLY <1>6, <2>2, <4>1, <4>2
      <3> QED
        <4>1. /\ r.op = "upload" /\ r.auto /\ r.step # "check" /\ ~r.twin /\ r.action # "new"
              /\ l \in ImageKeys \ excused
          BY ONLY <1>4, <2>1, <2>2, r.step = "drop vector", excused \subseteq excused'
        <4>2. l \in r.todo
          BY ONLY <3>3, <4>1, k = r.key, Unmatched(r) DEF Unmatched
        <4> QED
          BY ONLY <1>4, <4>2
    <2> QED
      BY <2>2 DEF Unmatched
  <1>8. /\ excused \subseteq excused' /\ \A l \in ImageKeys \ {k} : vectors'[l] = vectors[l]
        /\ k \in ImageKeys => vectors'[k] \in {vectors[k], None}
    BY <1>6
  <1> QED
    BY <1>5, <1>7, <1>8, TwinGoesOn

LEMMA TwinDropVector ==
  ASSUME TwinInv, ImageInv', NEW c \in Clients, DropVector(c)
  PROVE  TwinInv'
  <1> PICK r, k, q : r = jobs[c] /\ k = r.key /\ q = AfterVector(r)
    OBVIOUS
  <1>1. /\ Working(c) /\ r.step = "drop vector" /\ vectors' = [vectors EXCEPT ![k] = None]
        /\ Becomes(c, q) /\ excused \subseteq excused'
    BY DEF DropVector, Doing
  <1>2. Shape(r) /\ Plain(r) /\ Unmatched(r)
    BY <1>1, TwinWorker
  <1>3. r.op = "upload" => r.pic \in Pictures /\ r.model \in Models
    BY ONLY <1>2 DEF Shape
  <1> QED
    BY <1>1, <1>2, <1>3, TwinVectorGone

LEMMA TwinDropMetadata ==
  ASSUME TwinInv, ImageInv', NEW c \in Clients, DropMetadata(c)
  PROVE  TwinInv'
  <1> PICK r : r = jobs[c]
    OBVIOUS
  <1>1. Working(c) /\ vectors' = vectors /\ r.step = "drop meta" /\ AfterMetadata(c, r)
    BY DEF DropMetadata, Doing
  <1>2. /\ Shape(r) /\ Plain(r) /\ r = [x \in JobFields |-> r[x]] /\ Unmatched(r)
    BY <1>1, TwinWorker
  <1>3. r.op \in {"upload", "delete"}
    BY ONLY <1>1, <1>2 DEF Shape, StepsOf, Storing, Dropping
  <1>4. r.op = "upload" /\ r.auto /\ ~r.twin /\ r.action # "new" =>
          \A k \in ImageKeys \ excused :
             vectors[k] = [pic |-> r.pic, model |-> r.model] => k \in r.todo
    BY <1>1, <1>2 DEF Unmatched
  <1>5. CASE r.op = "delete"
    BY <1>1, <1>5, TwinFinishes DEF AfterMetadata
  <1>6. CASE r.op = "upload" /\ r.todo # {}
    <2>1. PICK q \in NextVictims(r) : Becomes(c, q) /\ excused' = excused
      BY <1>1, <1>6 DEF AfterMetadata, Proceeds, Quiet
    <2> QED
      BY <1>1, <1>2, <1>4, <1>6, <2>1, TwinVictim
  <1>7. CASE r.op = "upload" /\ r.todo = {}
    <2>1. Named(c, r) /\ excused' = excused
      BY <1>1, <1>7 DEF AfterMetadata, Quiet
    <2> QED
      BY <1>1, <1>2, <1>4, <1>7, <2>1, TwinNamed
  <1> QED
    BY <1>3, <1>5, <1>6, <1>7

LEMMA TwinCheck ==
  ASSUME TwinInv, ImageInv', NEW c \in Clients, CheckDuplicates(c)
  PROVE  TwinInv'
  <1> PICK r, found : r = jobs[c] /\ found = CheckExisting(r.pic, r.model)
    OBVIOUS
  <1>1. Working(c) /\ r.step = "check" /\ vectors' = vectors
    BY DEF CheckDuplicates, Doing, store
  <1>2. /\ Shape(r) /\ Plain(r) /\ r = [x \in JobFields |-> r[x]]
    BY <1>1, TwinWorker
  <1>3. /\ r.op = "upload" /\ r.action \in {"overwrite", "new", "skip", "ask"}
    <2>1. r.op = "upload"
      BY ONLY <1>1, <1>2 DEF Shape, StepsOf, Storing, Dropping
    <2> QED
      BY ONLY <1>1, <1>2, <2>1 DEF Shape
  <1>4. \A k \in ImageKeys : vectors[k] = [pic |-> r.pic, model |-> r.model] => k \in found
    BY DEF CheckExisting
  <1> PICK s : s = [r EXCEPT !.victims = found]
    OBVIOUS
  <1>5. /\ s = [x \in JobFields |-> s[x]]
        /\ s.op = r.op /\ s.pic = r.pic /\ s.model = r.model /\ s.action = r.action
        /\ s.clash = r.clash /\ s.twin = r.twin
    BY ONLY <1>2, s = [r EXCEPT !.victims = found] DEF JobFields
  <1>6. Plain(s)
    <2>1. s.clash \in BOOLEAN /\ s.twin \in BOOLEAN
      BY <1>2, <1>5, Zenon DEF Plain
    <2> QED
      BY <1>2, <1>5, <2>1 DEF Plain
  <1>7. CASE found = {} \/ r.action = "new"
    <2>1. Named(c, s) /\ excused' = excused
      BY <1>7 DEF CheckDuplicates, Quiet
    <2>2. s.action # "new" => \A k \in ImageKeys : vectors[k] # [pic |-> s.pic, model |-> s.model]
      BY <1>4, <1>5, <1>7
    <2> QED
      BY <1>1, <1>6, <2>1, <2>2, TwinNamed
  <1>8. CASE found # {} /\ r.action = "overwrite"
    <2> PICK v : v = [s EXCEPT !.todo = found]
      OBVIOUS
    <2>1. PICK q \in NextVictims(v) : Proceeds(c, q)
      BY <1>8 DEF CheckDuplicates
    <2>2. Becomes(c, q) /\ excused' = excused
      BY <2>1 DEF Proceeds, Quiet
    <2>3. /\ v = [x \in JobFields |-> v[x]] /\ v.todo = found
          /\ v.op = s.op /\ v.pic = s.pic /\ v.model = s.model /\ v.clash = s.clash /\ v.twin = s.twin
      BY ONLY <1>5, v = [s EXCEPT !.todo = found] DEF JobFields
    <2>4. Plain(v)
      <3>1. v.clash \in BOOLEAN /\ v.twin \in BOOLEAN
        BY <1>6, <2>3, Zenon DEF Plain
      <3> QED
        BY <1>6, <2>3, <3>1 DEF Plain
    <2>5. \A k \in ImageKeys : vectors[k] = [pic |-> v.pic, model |-> v.model] => k \in v.todo
      BY <1>4, <1>5, <2>3
    <2> QED
      BY <1>1, <2>1, <2>2, <2>4, <2>5, TwinVictim
  <1>9. CASE found # {} /\ r.action \in {"skip", "ask"}
    <2>1. Finishes(c)
      BY <1>9 DEF CheckDuplicates
    <2> QED
      BY <1>1, <2>1, TwinFinishes
  <1> QED
    BY <1>3, <1>7, <1>8, <1>9

\* What a request is when it begins.
Begun(c, r, step) ==
  \/ Becomes(c, r) /\ (step = "check" \/ r.op # "upload")
  \/ step = "original" /\ Becomes(c, [r EXCEPT !.thumbsLeft = Sizes])
  \/ step = "original" /\ Named(c, r)

LEMMA TwinRequests ==
  ASSUME TwinInv, ImageInv', NEW c \in Clients, ImageRequests(c)
  PROVE  TwinInv'
  <1>1. \/ \E b \in Buckets : \E k, p, m, action : UploadImage(c, b, k, p, m, action)
        \/ \E b \in Buckets : \E k, m, index : IndexImage(c, b, k, m, index)
        \/ \E b \in Buckets : \E k : UpdateImageMetadata(c, b, k) \/ DeleteImage(c, b, k)
    BY ONLY ImageRequests(c) DEF ImageRequests, UploadImageStream
  <1>2. vectors' = vectors /\ excused' = excused
    <2>1. Asked
      BY ONLY <1>1 DEF UploadImage, IndexImage, UpdateImageMetadata, DeleteImage
    <2> QED
      BY ONLY <2>1 DEF Asked, store
  <1>3. ASSUME NEW b, NEW op \in {"upload", "index", "update", "delete"}, NEW k, NEW p, NEW m,
               NEW action, NEW step, NEW r, r = Job(b, op, k, p, m, action, step)
        PROVE  Plain(r) /\ (step # "check" => ~r.auto) /\ r.op = op /\ r.step = step
    <2>1. /\ r = [x \in JobFields |-> r[x]] /\ r.op = op /\ r.step = step
          /\ r.clash \in BOOLEAN /\ r.twin \in BOOLEAN
      BY ONLY <1>3, JobShape
    <2>2. r.auto = (step = "check")
      BY ONLY <1>3 DEF Job
    <2>3. step # "check" => ~r.auto
      BY ONLY <2>2, Zenon
    <2> QED
      BY <1>3, <2>1, <2>3 DEF Plain
  <1>4. PICK op \in {"upload", "index", "update", "delete"} :
          \E b, k, p, m, action, step : Begun(c, Job(b, op, k, p, m, action, step), step)
    <2> DEFINE Ops == {"upload", "index", "update", "delete"}
    <2> DEFINE Asks == \E op \in Ops : \E b, k, p, m, action, step :
                         Begun(c, Job(b, op, k, p, m, action, step), step)
    <2>0. /\ "upload" \in Ops /\ "index" \in Ops
          /\ "update" \in Ops /\ "delete" \in Ops
      OBVIOUS
    <2> HIDE DEF Ops
    <2>1. ASSUME NEW b, NEW k, NEW p, NEW m, NEW action, UploadImage(c, b, k, p, m, action)
          PROVE  \/ Begun(c, Job(b, "upload", k, p, m, action, "check"), "check")
                 \/ Begun(c, Job(b, "upload", k, p, m, action, "original"), "original")
      BY ONLY <2>1 DEF UploadImage, Begun
    <2>2. ASSUME NEW b, NEW k, NEW m, NEW index, IndexImage(c, b, k, m, index)
          PROVE  Begun(c, Job(b, "index", k, None, m, index, "read meta"), "read meta")
      <3>1. Job(b, "index", k, None, m, index, "read meta").op = "index"
        BY DEF Job
      <3> QED
        BY ONLY <2>2, <3>1 DEF IndexImage, Begun
    <2>3. ASSUME NEW b, NEW k, UpdateImageMetadata(c, b, k)
          PROVE  Begun(c, Job(b, "update", k, None, None, "ask", "read meta"), "read meta")
      <3>1. Job(b, "update", k, None, None, "ask", "read meta").op = "update"
        BY DEF Job
      <3> QED
        BY ONLY <2>3, <3>1 DEF UpdateImageMetadata, Begun
    <2>4. ASSUME NEW b, NEW k, DeleteImage(c, b, k)
          PROVE  Begun(c, Job(b, "delete", k, None, None, "ask", "read meta"), "read meta")
      <3>1. Job(b, "delete", k, None, None, "ask", "read meta").op = "delete"
        BY DEF Job
      <3> QED
        BY ONLY <2>4, <3>1 DEF DeleteImage, Begun
    <2>4a. ASSUME NEW b, NEW op \in Ops, NEW k, NEW p, NEW m, NEW action, NEW step,
                 Begun(c, Job(b, op, k, p, m, action, step), step)
          PROVE  Asks
      <3>1. \E b_1, k_1, p_1, m_1, action_1, step_1 :
              Begun(c, Job(b_1, op, k_1, p_1, m_1, action_1, step_1), step_1)
        <4> WITNESS b, k, p, m, action, step
        <4> QED
          BY ONLY <2>4a
      <3> QED
        BY ONLY <3>1, op \in Ops, Zenon
    <2> HIDE DEF Asks
    <2>5. (\E b \in Buckets : \E k, p, m, action : UploadImage(c, b, k, p, m, action)) => Asks
      <3>1. ASSUME NEW b, NEW k, NEW p, NEW m, NEW action, UploadImage(c, b, k, p, m, action)
            PROVE  Asks
        <4>1. CASE Begun(c, Job(b, "upload", k, p, m, action, "check"), "check")
          BY ONLY <2>0, <2>4a, <4>1, Zenon
        <4>2. CASE Begun(c, Job(b, "upload", k, p, m, action, "original"), "original")
          BY ONLY <2>0, <2>4a, <4>2, Zenon
        <4> QED
          BY ONLY <2>1, <3>1, <4>1, <4>2, Zenon
      <3> QED
        BY ONLY <3>1, Zenon
    <2>6. (\E b \in Buckets : \E k, m, index : IndexImage(c, b, k, m, index)) => Asks
      BY ONLY <2>0, <2>2, <2>4a, Zenon
    <2>7. (\E b \in Buckets : \E k : UpdateImageMetadata(c, b, k) \/ DeleteImage(c, b, k)) => Asks
      BY ONLY <2>0, <2>3, <2>4, <2>4a, Zenon
    <2>8. Asks
      BY ONLY <1>1, <2>5, <2>6, <2>7, Zenon
    <2> QED
      BY ONLY <2>8, Zenon DEF Ops, Asks
  <1>4a. PICK b, k, p, m, action, step : Begun(c, Job(b, op, k, p, m, action, step), step)
    BY <1>4
  <1> PICK r : r = Job(b, op, k, p, m, action, step)
    OBVIOUS
  <1>5. /\ Plain(r) /\ (step # "check" => ~r.auto) /\ r.op = op /\ r.step = step
        /\ Begun(c, r, step)
    BY <1>3, <1>4a
  <1>6. CASE Becomes(c, r) /\ (step = "check" \/ r.op # "upload")
    <2>1. Unmatched(r)
      BY <1>5, <1>6 DEF Unmatched
    <2> QED
      BY <1>2, <1>5, <1>6, <2>1, TwinKeeps
  <1>7. CASE step = "original" /\ Becomes(c, [r EXCEPT !.thumbsLeft = Sizes])
    <2> PICK q : q = [r EXCEPT !.thumbsLeft = Sizes]
      OBVIOUS
    <2>1. /\ q = [x \in JobFields |-> q[x]] /\ q.op = r.op /\ q.auto = r.auto
          /\ q.clash = r.clash /\ q.twin = r.twin
      BY ONLY <1>5, q = [r EXCEPT !.thumbsLeft = Sizes] DEF Plain, JobFields
    <2>2. q.clash \in BOOLEAN /\ q.twin \in BOOLEAN /\ ~q.auto
      BY <1>5, <1>7, <2>1, Zenon DEF Plain
    <2>3. Plain(q) /\ Unmatched(q)
      BY <1>5, <2>1, <2>2 DEF Plain, Unmatched
    <2> QED
      BY <1>2, <1>7, <2>3, TwinKeeps
  <1>8. CASE step = "original" /\ Named(c, r)
    BY <1>2, <1>5, <1>8, TwinNamed
  <1> QED
    BY <1>5, <1>6, <1>7, <1>8 DEF Begun

LEMMA TwinFaults ==
  ASSUME TwinInv, ImageInv', NEW c \in Clients, ImageFaults(c)
  PROVE  TwinInv'
  <1>1. CASE BreakOff(c) \/ InsertFails(c)
    <2>1. /\ Working(c) /\ jobs' = [jobs EXCEPT ![c] = NoJob] /\ vectors' = vectors
          /\ excused \subseteq excused'
      BY <1>1 DEF BreakOff, InsertFails, HalfInserted, Doing
    <2> QED
      BY <2>1, TwinEnds
  <1>2. CASE PassOver(c)
    <2> PICK j, r : j = jobs[c] /\ r = [j EXCEPT !.clash = TRUE]
      OBVIOUS
    <2>1. Working(c) /\ vectors' = vectors
      BY <1>2 DEF PassOver, store
    <2>2. Shape(j) /\ Plain(j) /\ Unmatched(j)
      BY <2>1, TwinWorker
    <2>3. /\ r = [x \in JobFields |-> r[x]] /\ r.op = j.op /\ r.key = j.key /\ r.pic = j.pic
          /\ r.model = j.model /\ r.action = j.action /\ r.step = j.step /\ r.auto = j.auto
          /\ r.todo = j.todo /\ r.twin = j.twin /\ r.clash = TRUE
      BY ONLY <2>2, r = [j EXCEPT !.clash = TRUE] DEF Plain, JobFields
    <2>4. Plain(r)
      <3>1. r.clash \in BOOLEAN /\ r.twin \in BOOLEAN
        BY <2>2, <2>3, Zenon DEF Plain
      <3> QED
        BY ONLY <2>2, <2>3, <3>1 DEF Plain
    <2>5. Unmatched(r)
      BY ONLY <2>2, <2>3, Zenon DEF Unmatched
    <2>6. \/ r.step = "drop vector"
          \/ r.step \in {"drop original", "read meta", "drop thumbnails", "drop meta"}
      BY ONLY <1>2, <2>3, j = jobs[c] DEF PassOver, Doing
    <2>7. /\ excused \subseteq excused'
          /\ r.step = "drop vector" => excused' = excused \cup {r.key}
      BY ONLY <1>2, <2>3, j = jobs[c], r = [j EXCEPT !.clash = TRUE] DEF PassOver, Doing
    <2>8. \/ Named(c, r) /\ r.todo = {} /\ r.step = "drop meta" /\ r.op = "upload"
          \/ \E q \in NextVictims(r) : Becomes(c, q) /\ r.todo # {} /\ r.step = "drop meta"
          \/ \E left, step : Becomes(c, [r EXCEPT !.thumbsLeft = left, !.step = step])
          \/ \E left, step : Becomes(c, [r EXCEPT !.step = step, !.thumbsLeft = left])
          \/ \E step : Becomes(c, [r EXCEPT !.step = step])
      BY ONLY <1>2, <2>3, j = jobs[c], r = [j EXCEPT !.clash = TRUE]
      DEF PassOver, Doing, AfterVector, AfterOriginal, AfterThumbnail
    <2>9. r.op = "upload" /\ r.auto /\ ~r.twin /\ r.action # "new" /\ r.step # "check"
            /\ r.step # "drop vector" /\ r.step # "mark" =>
            \A k \in ImageKeys \ excused' :
               vectors[k] = [pic |-> r.pic, model |-> r.model] => k \in r.todo
      BY ONLY <2>5, <2>7 DEF Unmatched
    <2>10. ASSUME NEW q, Changes(q, r), q.pic = r.pic, Becomes(c, q)
           PROVE  TwinInv'
      <3>1. CASE r.step # "drop vector"
        <4>1. r.step \notin {"check", "drop vector", "mark"}
          BY <2>6, <3>1
        <4> QED
          BY <2>1, <2>4, <2>5, <2>7, <2>10, <4>1, TwinSteps
      <3>2. CASE r.step = "drop vector"
        <4>1. Changes(q, r)
          BY <2>10
        <4>2. /\ q.op = r.op /\ q.key = r.key /\ q.model = r.model /\ q.action = r.action
              /\ q.auto = r.auto /\ q.todo = r.todo /\ q.clash = r.clash /\ q.twin = r.twin
          BY ONLY <4>1, ChangedFields
        <4>3. Plain(q)
          <5>1. q.clash \in BOOLEAN /\ q.twin \in BOOLEAN
            BY <2>4, <4>2, Zenon DEF Plain
          <5> QED
            BY <2>4, <4>1, <4>2, <5>1 DEF Plain, Changes
        <4>4. ASSUME ~q.twin PROVE Unmatched(q)'
          <5>1. ~r.twin /\ (q.auto => r.auto)
            BY <4>2, <4>4, Zenon
          <5> QED
            BY ONLY <2>1, <2>5, <2>7, <2>10, <3>2, <4>2, <5>1 DEF Unmatched
        <4>5. \A k \in ImageKeys : vectors'[k] = vectors[k]
          BY <2>1
        <4> QED
          BY <2>7, <2>10, <4>3, <4>4, <4>5, TwinGoesOn
      <3> QED
        BY <3>1, <3>2
    <2>11. CASE Named(c, r) /\ r.todo = {} /\ r.step = "drop meta" /\ r.op = "upload"
      BY <2>1, <2>4, <2>7, <2>9, <2>11, TwinNamed
    <2>12. CASE \E q \in NextVictims(r) : Becomes(c, q) /\ r.todo # {} /\ r.step = "drop meta"
      <3>1. PICK q \in NextVictims(r) : Becomes(c, q)
        BY <2>12
      <3>2. r.op = "upload"
        BY <2>2, <2>3, <2>12 DEF Shape
      <3> QED
        BY <2>1, <2>4, <2>7, <2>9, <2>12, <3>1, <3>2, TwinVictim
    <2>13. CASE \E left, step : Becomes(c, [r EXCEPT !.thumbsLeft = left, !.step = step])
      <3>1. PICK left, step : Becomes(c, [r EXCEPT !.thumbsLeft = left, !.step = step])
        BY <2>13
      <3> PICK q : q = [r EXCEPT !.thumbsLeft = left, !.step = step]
        OBVIOUS
      <3>2. Changes(q, r) /\ q.pic = r.pic
        BY ONLY <2>3, q = [r EXCEPT !.thumbsLeft = left, !.step = step] DEF Changes, JobFields
      <3> QED
        BY <2>10, <3>1, <3>2
    <2>14. CASE \E step : Becomes(c, [r EXCEPT !.step = step])
      <3>1. PICK step : Becomes(c, [r EXCEPT !.step = step])
        BY <2>14
      <3> PICK q : q = [r EXCEPT !.step = step]
        OBVIOUS
      <3>2. Changes(q, r) /\ q.pic = r.pic
        BY ONLY <2>3, q = [r EXCEPT !.step = step] DEF Changes, JobFields
      <3> QED
        BY <2>10, <3>1, <3>2
    <2>15. CASE \E left, step : Becomes(c, [r EXCEPT !.step = step, !.thumbsLeft = left])
      <3>1. PICK left, step : Becomes(c, [r EXCEPT !.step = step, !.thumbsLeft = left])
        BY <2>15
      <3> PICK q : q = [r EXCEPT !.step = step, !.thumbsLeft = left]
        OBVIOUS
      <3>2. Changes(q, r) /\ q.pic = r.pic
        BY ONLY <2>3, q = [r EXCEPT !.step = step, !.thumbsLeft = left] DEF Changes, JobFields
      <3> QED
        BY <2>10, <3>1, <3>2
    <2> QED
      BY <2>8, <2>11, <2>12, <2>13, <2>14, <2>15
  <1>3. CASE KeptStored(c)
    <2> PICK j, r : j = jobs[c] /\ r = [j EXCEPT !.clash = TRUE]
      OBVIOUS
    <2> PICK k, q : k = r.key /\ q = AfterVector(r)
      OBVIOUS
    <2>1. /\ Working(c) /\ j.step = "drop vector" /\ vectors' = [vectors EXCEPT ![k] = None]
          /\ Becomes(c, q) /\ excused \subseteq excused'
      BY <1>3 DEF KeptStored, Doing
    <2>2. Shape(j) /\ Plain(j) /\ Unmatched(j)
      BY <2>1, TwinWorker
    <2>3. /\ r = [x \in JobFields |-> r[x]] /\ r.op = j.op /\ r.key = j.key /\ r.pic = j.pic
          /\ r.model = j.model /\ r.action = j.action /\ r.step = j.step /\ r.auto = j.auto
          /\ r.todo = j.todo /\ r.twin = j.twin /\ r.clash = TRUE
      BY ONLY <2>2, r = [j EXCEPT !.clash = TRUE] DEF Plain, JobFields
    <2>4. Plain(r)
      <3>1. r.clash \in BOOLEAN /\ r.twin \in BOOLEAN
        BY <2>2, <2>3, Zenon DEF Plain
      <3> QED
        BY ONLY <2>2, <2>3, <3>1 DEF Plain
    <2>5. Unmatched(r)
      BY ONLY <2>2, <2>3, Zenon DEF Unmatched
    <2>6. r.op = "upload" => r.pic \in Pictures /\ r.model \in Models
      BY ONLY <2>2, <2>3 DEF Shape
    <2> QED
      BY <2>1, <2>3, <2>4, <2>5, <2>6, TwinVectorGone
  <1> QED
    BY <1>1, <1>2, <1>3 DEF ImageFaults

\* RocksDB has the vectors that the graph has, but for keys that are excused.
StoredInv == \A k \in ImageKeys \ excused : stored[k] = vectors[k]

\* What a step does to the vectors, and to what is excused.
Alike == UNCHANGED <<vectors, stored>> /\ excused \subseteq excused'
Both(k, v) ==
  /\ vectors' = [vectors EXCEPT ![k] = v] /\ stored' = [stored EXCEPT ![k] = v]
  /\ excused \subseteq excused'
Apiece(k, v) ==
  /\ vectors' = vectors \/ vectors' = [vectors EXCEPT ![k] = v]
  /\ stored' = stored \/ stored' = [stored EXCEPT ![k] = v]
  /\ excused' = excused \cup {k}

\* The steps that leave the vectors alone.
LEMMA StepsAlike ==
  ASSUME ImageInv, NEW c \in Clients,
         \/ CheckDuplicates(c) \/ PutOriginal(c) \/ PutThumbnail(c) \/ PutMetadata(c)
         \/ InsertElsewhere(c) \/ MarkIndexed(c) \/ ReadMetadata(c) \/ ReadOriginal(c)
         \/ SaveMetadata(c) \/ DropOriginal(c) \/ DropThumbnail(c) \/ DropMetadata(c)
         \/ PassOver(c)
  PROVE  Alike
  <1>1. UNCHANGED <<vectors, stored>>
    BY DEF CheckDuplicates, PutOriginal, PutThumbnail, PutMetadata, InsertElsewhere, MarkIndexed,
       ReadMetadata, ReadOriginal, SaveMetadata, DropOriginal, DropThumbnail, DropMetadata,
       PassOver, store
  <1>2. ASSUME Finishes(c) \/ Quiet PROVE excused' = excused
    BY <1>2 DEF Finishes, Quiet
  <1>3. CASE \/ PutOriginal(c) \/ PutThumbnail(c) \/ PutMetadata(c) \/ InsertElsewhere(c)
             \/ MarkIndexed(c) \/ ReadOriginal(c) \/ SaveMetadata(c) \/ DropOriginal(c)
             \/ DropThumbnail(c)
    <2>1. Finishes(c) \/ Quiet
      BY <1>3, Zenon DEF PutOriginal, PutThumbnail, PutMetadata, InsertElsewhere, MarkIndexed,
         ReadOriginal, SaveMetadata, DropOriginal, DropThumbnail, Proceeds
    <2> QED
      BY <1>1, <1>2, <2>1 DEF Alike
  <1>4. CASE CheckDuplicates(c) \/ ReadMetadata(c) \/ DropMetadata(c)
    <2> PICK r : r = jobs[c]
      OBVIOUS
    <2>1. Working(c) /\ r.step \in {"check", "read meta", "drop meta"}
      BY <1>4 DEF CheckDuplicates, ReadMetadata, DropMetadata, Doing
    <2>2. Shape(r)
      BY <2>1 DEF ImageInv
    <2>3. /\ r.op \in {"upload", "index", "update", "delete"}
          /\ r.step = "check" =>
                r.op = "upload" /\ r.action \in {"overwrite", "new", "skip", "ask"}
          /\ r.step = "drop meta" => r.op \in {"upload", "delete"}
      BY ONLY <2>1, <2>2 DEF Shape, StepsOf, Storing, Dropping
    <2>4. Finishes(c) \/ Quiet
      <3>1. CASE CheckDuplicates(c)
        BY <2>3, <3>1 DEF CheckDuplicates, Doing, Proceeds
      <3>2. CASE ReadMetadata(c)
        BY <2>3, <3>2 DEF ReadMetadata, Doing, Proceeds
      <3>3. CASE DropMetadata(c)
        BY <2>3, <3>3 DEF DropMetadata, AfterMetadata, Doing, Proceeds
      <3> QED
        BY <1>4, <3>1, <3>2, <3>3
    <2> QED
      BY <1>1, <1>2, <2>4 DEF Alike
  <1>5. CASE PassOver(c)
    <2>1. excused \subseteq excused'
      BY <1>5 DEF PassOver
    <2> QED
      BY <1>1, <2>1 DEF Alike
  <1> QED
    BY <1>3, <1>4, <1>5

LEMMA VectorSteps ==
  ASSUME ImageInv, [ImageNext]_imageVars
  PROVE  Alike \/ (\E k, v : Both(k, v)) \/ (\E k, v : Apiece(k, v)) \/ Rebuilt
  <1>1. CASE UNCHANGED imageVars
    BY <1>1 DEF imageVars, Alike
  <1>2. ASSUME NEW c \in Clients, ImageRequests(c) PROVE Alike
    <2>1. Asked
      BY <1>2 DEF ImageRequests, UploadImageStream, UploadImage, IndexImage, UpdateImageMetadata,
         DeleteImage
    <2> QED
      BY <2>1 DEF Asked, store, Alike
  <1>3. ASSUME NEW c \in Clients, InsertVector(c) \/ DropVector(c)
        PROVE  \E k, v : Both(k, v)
    <2> PICK r : r = jobs[c]
      OBVIOUS
    <2>1. InsertVector(c) => Both(r.key, VectorOf(r))
      BY DEF InsertVector, Excuse, Both
    <2>2. DropVector(c) => Both(r.key, None)
      BY DEF DropVector, Both
    <2> QED
      BY <1>3, <2>1, <2>2
  <1>4. ASSUME NEW c \in Clients, RefuseVector(c) \/ KeptStored(c)
        PROVE  \E k, v : Apiece(k, v)
    <2> PICK r, s : r = jobs[c] /\ s = [jobs[c] EXCEPT !.clash = TRUE]
      OBVIOUS
    <2>1. RefuseVector(c) => Apiece(r.key, VectorOf(r))
      BY DEF RefuseVector, Apiece
    <2>2. KeptStored(c) => Apiece(s.key, None)
      BY DEF KeptStored, Apiece
    <2> QED
      BY <1>4, <2>1, <2>2
  <1>5. ASSUME NEW c \in Clients, BreakOff(c) \/ InsertFails(c)
        PROVE  Alike \/ \E k, v : Apiece(k, v)
    <2> PICK r : r = jobs[c]
      OBVIOUS
    <2>1. vectors' = vectors /\ (UNCHANGED <<stored, excused>> \/ HalfInserted(r))
      BY <1>5 DEF BreakOff, InsertFails
    <2>2. Alike \/ Apiece(r.key, VectorOf(r))
      BY <2>1 DEF HalfInserted, Alike, Apiece
    <2> QED
      BY <2>2
  <1> QED
    BY <1>1, <1>2, <1>3, <1>4, <1>5, StepsAlike DEF ImageNext, ImageSteps, ImageFaults

LEMMA StoredStep ==
  ASSUME ImageInv, StoredInv, [ImageNext]_imageVars
  PROVE  StoredInv'
  <1>1. vectors \in [ImageKeys -> Found \cup {None}] /\ stored \in [ImageKeys -> Found \cup {None}]
    BY DEF ImageInv, StoreTypes
  <1>2. CASE Alike
    BY <1>2 DEF Alike, StoredInv
  <1>3. CASE \E k, v : Both(k, v)
    BY <1>1, <1>3 DEF Both, StoredInv
  <1>4. CASE \E k, v : Apiece(k, v)
    BY <1>1, <1>4 DEF Apiece, StoredInv
  <1>5. CASE Rebuilt
    BY <1>5 DEF Rebuilt, StoredInv
  <1> QED
    BY <1>2, <1>3, <1>4, <1>5, VectorSteps

\* A rebuild changes no vector of a key that is not excused.
LEMMA TwinRebuilt ==
  ASSUME TwinInv, ImageInv', StoredInv, Rebuilt
  PROVE  TwinInv'
  <1>1. /\ \A k \in ImageKeys \ excused : vectors'[k] = vectors[k]
        /\ excused' = excused /\ jobs' = jobs
    BY DEF Rebuilt, StoredInv
  <1>2. \A c \in Clients : jobs'[c] = jobs[c] /\ (Working(c)' <=> Working(c))
    BY <1>1 DEF Working
  <1>3. NoDuplicates'
    BY <1>1 DEF NoDuplicates, TwinInv
  <1>4. ASSUME NEW c \in Clients, Working(c) PROVE Unmatched(jobs[c])'
    <2> PICK r : r = jobs[c]
      OBVIOUS
    <2>1. Unmatched(r)
      BY <1>4 DEF TwinInv
    <2>2. Unmatched(r)'
      BY ONLY <1>1, <2>1 DEF Unmatched
    <2> QED
      BY <1>2, <2>2 DEF Unmatched
  <1>5. \A c, d \in Clients : c # d /\ Working(c)' /\ Working(d)' /\ Twins(jobs'[c], jobs'[d]) =>
          jobs'[c].twin
    BY <1>2 DEF TwinInv
  <1> QED
    BY <1>2, <1>3, <1>4, <1>5 DEF TwinInv

LEMMA TwinInitInv ==
  ASSUME ImageInit
  PROVE  TwinInv /\ StoredInv
  <1>1. ImageInv
    BY ImageInitInv
  <1>2. \A c \in Clients : ~Working(c)
    BY DEF ImageInit, Working
  <1>3. NoDuplicates
    BY DEF ImageInit, NoDuplicates
  <1>4. StoredInv
    BY DEF ImageInit, StoredInv
  <1> QED
    BY <1>1, <1>2, <1>3, <1>4 DEF TwinInv

LEMMA TwinNext ==
  ASSUME TwinInv, StoredInv, [ImageNext]_imageVars
  PROVE  TwinInv' /\ StoredInv'
  <1>0. StoredInv'
    BY StoredStep DEF TwinInv
  <1> SUFFICES TwinInv'
    BY <1>0
  <1>1. ImageInv'
    BY ImageNextInv DEF TwinInv
  <1>2. CASE UNCHANGED imageVars
    <2>1. \A c \in Clients : jobs'[c] = jobs[c] /\ (Working(c)' <=> Working(c))
      BY <1>2 DEF imageVars, Working
    <2>2. NoDuplicates' /\ vectors' = vectors /\ excused' = excused
      BY <1>2 DEF imageVars, NoDuplicates, TwinInv
    <2>3. ASSUME NEW c \in Clients, Working(c) PROVE Unmatched(jobs[c])'
      <3> PICK r : r = jobs[c]
        OBVIOUS
      <3>1. Unmatched(r)
        BY <2>3 DEF TwinInv
      <3>2. Unmatched(r)'
        BY ONLY <2>2, <3>1 DEF Unmatched
      <3> QED
        BY <2>1, <3>2 DEF Unmatched
    <2>4. \A c, d \in Clients : c # d /\ Working(c)' /\ Working(d)' /\ Twins(jobs'[c], jobs'[d]) =>
            jobs'[c].twin
      BY <2>1 DEF TwinInv
    <2> QED
      BY <1>1, <2>1, <2>2, <2>3, <2>4 DEF TwinInv
  <1>3. CASE ImageNext
    <2>1. CASE Rebuilt
      BY <1>1, <2>1, TwinRebuilt
    <2>2. CASE ~Rebuilt
      <3>1. PICK c \in Clients : ImageRequests(c) \/ ImageSteps(c) \/ ImageFaults(c)
        BY <1>3, <2>2, Zenon DEF ImageNext
      <3>2. CASE ImageSteps(c)
        <4>1. \/ CheckDuplicates(c) \/ InsertVector(c) \/ (RefuseVector(c) \/ InsertElsewhere(c))
              \/ DropVector(c) \/ DropMetadata(c)
              \/ (\/ PutOriginal(c) \/ PutThumbnail(c) \/ PutMetadata(c) \/ MarkIndexed(c)
                  \/ ReadMetadata(c) \/ ReadOriginal(c) \/ SaveMetadata(c)
                  \/ DropOriginal(c) \/ DropThumbnail(c))
          BY ONLY <3>2, Zenon DEF ImageSteps
        <4>2. CASE \/ PutOriginal(c) \/ PutThumbnail(c) \/ PutMetadata(c) \/ MarkIndexed(c)
                   \/ ReadMetadata(c) \/ ReadOriginal(c) \/ SaveMetadata(c)
                   \/ DropOriginal(c) \/ DropThumbnail(c)
          BY <1>1, <4>2, TwinStores
        <4>3. CASE RefuseVector(c) \/ InsertElsewhere(c)
          BY <1>1, <4>3, TwinRefused
        <4> QED
          BY <1>1, <4>1, <4>2, <4>3, TwinCheck, TwinInsert, TwinDropVector, TwinDropMetadata, Zenon
      <3> QED
        BY <1>1, <3>1, <3>2, TwinRequests, TwinFaults, Zenon
    <2> QED
      BY <2>1, <2>2
  <1> QED
    BY <1>0, <1>2, <1>3

\* NoDuplicates (upload_image): two images are found by the same picture and model only
\* if a client asked for a copy ("new"), two uploads of it were under way at once,
\* index_image was called, a deletion of a vector failed and the upload went on, or a
\* vector came into RocksDB that the graph had refused or not taken.  All the others
\* stay apart, also when the graph is made from RocksDB again.
THEOREM PicturesIndexedOnce == ImageSpec => []NoDuplicates
  <1>1. TwinInv => NoDuplicates
    BY DEF TwinInv
  <1> QED
    BY <1>1, TwinInitInv, TwinNext, PTL DEF ImageSpec
=============================================================================
