---------------------------- MODULE Fronts_proofs ----------------------------
(***************************************************************************)
(* Proofs about what clients see of the storage, for any clients, buckets, *)
(* objects, requests, rules and bounds: objects and buckets stay whole,    *)
(* and so do the downloads that are put together from ranges of an object; *)
(* a walk through a bucket lists each object once and misses none;         *)
(* who is served by the access layer, and how rows are read back.          *)
(***************************************************************************)
EXTENDS ObjectStore, ObjectListing, ObjectFronts, Access, FiniteSetTheorems, SequenceTheorems, TLAPS

--------------------------------------------------------------------------------
(* Objects.  Between the two writes of an object, and between those of a    *)
(* bucket, the request holds the mutex: the invariant says which request    *)
(* that is and how far it is, and that everything else is as if nothing     *)
(* were going on.                                                           *)

(* The requests halfway through a pair of writes are the mutex's holder. *)
LockHeld == \A c \in Workers : pc[c] \in Holding <=> lock = c

(* What the first of the two writes has left. *)
Midway == \A c \in Workers :
    /\ pc[c] = "name" => b(c) \in cfs
    /\ pc[c] = "unname" => b(c) \notin cfs
    /\ pc[c] = "header" => b(c) \in cfs /\ data[b(c)][k(c)] = req[c].etag
    /\ pc[c] = "unheader" => b(c) \in cfs /\ data[b(c)][k(c)] = 0

(* Apart from what a request is halfway through, all is in order. *)
HeadersBut == \A s \in Slots \ torn :
    \/ data[s[1]][s[2]] = header[s[1]][s[2]]
    \/ \E c \in Workers : OnObject(c, s)
NamesBut == \A x \in Buckets \ (half \cup {Default}) :
    \/ x \in cfs <=> x \in named
    \/ \E c \in Workers : OnBucket(c, x)

IInv == TypeOK /\ LockHeld /\ Midway /\ HeadersBut /\ NamesBut /\ NothingWithoutBucket
-----------------------------------------------------------------------------
LEMMA InitInv == Init => IInv
  BY ConstantsAssumption
  DEF Init, IInv, TypeOK, RequestsOK, OnKey, Places, Holding, LockHeld, Midway, HeadersBut, NamesBut,
      NothingWithoutBucket, Nothing, Slots

(* The bucket and the key a request is working on. *)
LEMMA RequestTypes ==
  ASSUME TypeOK, NEW c \in Workers, pc[c] # "idle"
  PROVE  /\ req[c] \in Request /\ b(c) \in Buckets /\ req[c].objects \in Seq(Objects)
         /\ OnKey(c) => k(c) \in Objects /\ <<b(c), k(c)>> \in Slots
         /\ OnKey(c) => Tail(req[c].objects) \in Seq(Objects)
  <1>1. req[c] \in Request /\ b(c) \in Buckets /\ req[c].objects \in Seq(Objects)
    BY DEF TypeOK, RequestsOK, Request, b
  <1>2. OnKey(c) => req[c].objects # <<>>
    BY DEF TypeOK, RequestsOK
  <1>3. OnKey(c) => k(c) \in Objects /\ Tail(req[c].objects) \in Seq(Objects)
    BY <1>1, <1>2, HeadTailProperties DEF k
  <1> QED
    BY <1>1, <1>3 DEF Slots

(* Requests that arrive. *)
LEMMA AskTypes ==
  ASSUME TypeOK, NEW c \in Workers, NEW op \in {"create", "drop", "put", "copy", "delete", "deleteAll"},
         NEW x \in Buckets, NEW q \in Seq(Objects), NEW s \in Slots \cup {<<>>},
         NEW place \in {"ensure", "dropCheck", "delete", "read"}, 
         place \in {"delete", "read"} \/ op \notin {"create", "drop"} => q # <<>>,
         place = "ensure" /\ q = <<>> => op = "create",
         Enters(c, op, x, q, s, place)
  PROVE  TypeOK' /\ UNCHANGED <<object_vars, lock, history>>
         /\ pc[c] = "idle" /\ pc' = [pc EXCEPT ![c] = place]
  <1> DEFINE r == [op |-> op, bucket |-> x, objects |-> q, from |-> s, etag |-> 0]
  <1>1. r.op \in Ops /\ r \in Request
    BY DEF Enters, Begin, Request
  <1>2. /\ pc[c] = "idle" /\ pc' = [pc EXCEPT ![c] = place]
        /\ req' = [req EXCEPT ![c] = r] /\ answer' = [answer EXCEPT ![c] = "none"]
        /\ UNCHANGED <<object_vars, lock, puts, history>>
    BY DEF Enters, Begin, Goto
  <1>3. \A d \in Workers : /\ pc'[d] # "idle" => req'[d] \in Request
                           /\ OnKey(d)' => req'[d].objects # <<>>
    <2> TAKE d \in Workers
    <2>1. CASE d = c
      <3> HIDE DEF r
      <3>1. req'[d] = r /\ pc'[d] = place
        BY <1>2, <2>1 DEF TypeOK, RequestsOK
      <3>2. r.objects = q /\ r.op = op
        BY DEF r
      <3> QED
        BY <1>1, <3>1, <3>2 DEF OnKey
    <2>2. CASE d # c
      BY <1>2, <2>2 DEF TypeOK, RequestsOK, OnKey
    <2> QED
      BY <2>1, <2>2
  <1>4. place \in Places
    BY DEF Places
  <1> HIDE DEF r
  <1> QED
    BY <1>1, <1>2, <1>3, <1>4 DEF TypeOK, RequestsOK, object_vars, history

(* The ways a request goes on. *)
LEMMA AnswerTypes ==
  ASSUME TypeOK, NEW c \in Workers, NEW a \in {"ok", "failed"}, Answer(c, a)
  PROVE  RequestsOK' /\ pc' = [pc EXCEPT ![c] = "idle"] /\ req' = [req EXCEPT ![c] = Nothing]
  <1>1. \A d \in Workers : /\ pc'[d] # "idle" => req'[d] \in Request
                           /\ OnKey(d)' => req'[d].objects # <<>>
    BY DEF Answer, Goto, TypeOK, RequestsOK, OnKey
  <1> QED
    BY <1>1 DEF Answer, Goto, TypeOK, RequestsOK, Places

LEMMA ProceedTypes ==
  ASSUME TypeOK, NEW c \in Workers, pc[c] # "idle", NEW place \in Places, Proceed(c, place),
         OnKey(c)' => OnKey(c)
  PROVE  RequestsOK' /\ pc' = [pc EXCEPT ![c] = place] /\ req' = req
  <1>1. \A d \in Workers : /\ pc'[d] # "idle" => req'[d] \in Request
                           /\ OnKey(d)' => req'[d].objects # <<>>
    BY DEF Proceed, Goto, TypeOK, RequestsOK, OnKey
  <1> QED
    BY <1>1 DEF Proceed, Goto, TypeOK, RequestsOK, Places

LEMMA NextKeyTypes ==
  ASSUME TypeOK, NEW c \in Workers, pc[c] \in {"delete", "unheader"},
         NEW a \in {"ok", "failed"}, NextKey(c, a)
  PROVE  /\ RequestsOK'
         /\ \E p \in {"idle", "delete"} : pc' = [pc EXCEPT ![c] = p]
         /\ \A d \in Workers \ {c} : req'[d] = req[d]
  <1>0. req[c] \in Request /\ Tail(req[c].objects) \in Seq(Objects) /\ pc[c] # "idle"
    BY RequestTypes DEF OnKey
  <1>1. CASE Tail(req[c].objects) = <<>>
    <2>1. Answer(c, a)
      BY <1>1 DEF NextKey
    <2> QED
      BY <2>1, AnswerTypes DEF TypeOK, RequestsOK
  <1>2. CASE Tail(req[c].objects) # <<>>
    <2> DEFINE r == [req[c] EXCEPT !.objects = Tail(req[c].objects)]
    <2>1. /\ pc' = [pc EXCEPT ![c] = "delete"] /\ UNCHANGED answer
          /\ req' = [req EXCEPT ![c] = r]
      BY <1>2 DEF NextKey, Goto
    <2>2. r \in Request /\ r.objects # <<>>
      BY <1>0, <1>2 DEF Request
    <2> HIDE DEF r
    <2>3. \A d \in Workers : /\ pc'[d] # "idle" => req'[d] \in Request
                             /\ OnKey(d)' => req'[d].objects # <<>>
      BY <2>1, <2>2 DEF TypeOK, RequestsOK, OnKey
    <2> QED
      BY <2>1, <2>2, <2>3 DEF TypeOK, RequestsOK, Places
  <1> QED
    BY <1>1, <1>2

LEMMA EnsuredTypes ==
  ASSUME TypeOK, NEW c \in Workers, pc[c] \in {"ensure", "name"}, Ensured(c)
  PROVE  /\ RequestsOK'
         /\ \E p \in {"idle", "data"} : pc' = [pc EXCEPT ![c] = p]
         /\ \A d \in Workers \ {c} : req'[d] = req[d]
  <1>1. CASE req[c].op = "create"
    BY <1>1, AnswerTypes DEF Ensured, TypeOK, RequestsOK
  <1>2. CASE req[c].op # "create"
    <2>1. OnKey(c) /\ pc[c] # "idle" /\ "data" \in Places
      BY <1>2 DEF OnKey, Places
    <2> QED
      BY <1>2, <2>1, ProceedTypes DEF Ensured
  <1> QED
    BY <1>1, <1>2

(* A step that writes nothing, by a request that does not hold the mutex   *)
(* before or after.                                                        *)
Quiet(c) ==
    /\ UNCHANGED <<object_vars, lock, history>>
    /\ pc[c] \notin Holding
    /\ \E p \in Places \ Holding : pc' = [pc EXCEPT ![c] = p]
    /\ \A d \in Workers \ {c} : req'[d] = req[d]

LEMMA QuietInv ==
  ASSUME IInv, NEW c \in Workers, Quiet(c), TypeOK'
  PROVE  IInv'
  <1>1. \A d \in Workers : /\ pc[d] \in Holding <=> pc'[d] \in Holding
                           /\ pc[d] \in Holding => pc'[d] = pc[d] /\ req'[d] = req[d]
    BY DEF Quiet, IInv, TypeOK, RequestsOK
  <1>2. UNCHANGED <<cfs, named, data, header, lock, torn, half>>
    BY DEF Quiet, object_vars, history
  <1>3. LockHeld'
    BY <1>1, <1>2 DEF IInv, LockHeld
  <1>4. Midway'
    BY <1>1, <1>2 DEF IInv, Midway, b, k, Holding
  <1>5. HeadersBut'
    BY <1>1, <1>2 DEF IInv, HeadersBut, OnObject, b, k, Holding
  <1>6. NamesBut'
    BY <1>1, <1>2 DEF IInv, NamesBut, OnBucket, b, Holding
  <1> QED
    BY <1>2, <1>3, <1>4, <1>5, <1>6 DEF IInv, NothingWithoutBucket

LEMMA QuietSteps ==
  ASSUME IInv, NEW c \in Workers,
         \/ BucketRequest(c) \/ ObjectRequest(c) \/ ManyRequest(c) \/ CopyRequest(c)
         \/ Cancel(c) \/ CheckBucket(c) \/ CreateRefused(c) \/ ReadSource(c)
         \/ DeleteRefused(c) \/ DropCheck(c) \/ DropRefused(c)
  PROVE  TypeOK' /\ Quiet(c)
  <1> USE DEF Holding, Places
  <1> SUFFICES RequestsOK' /\ Quiet(c) /\ puts' = puts
    BY DEF IInv, TypeOK, Quiet, object_vars, history, RequestsOK
  <1>0. TypeOK
    BY DEF IInv
  <1>a. ASSUME NEW op \in {"create", "drop", "put", "copy", "delete", "deleteAll"},
               NEW x \in Buckets, NEW q \in Seq(Objects), NEW s \in Slots \cup {<<>>},
               NEW place \in {"ensure", "dropCheck", "delete", "read"},
               place \in {"delete", "read"} \/ op \notin {"create", "drop"} => q # <<>>,
               place = "ensure" /\ q = <<>> => op = "create",
               Enters(c, op, x, q, s, place)
        PROVE  RequestsOK' /\ Quiet(c) /\ puts' = puts
    <2>1. TypeOK' /\ UNCHANGED <<object_vars, lock, history>>
          /\ pc[c] = "idle" /\ pc' = [pc EXCEPT ![c] = place]
      BY <1>0, <1>a, AskTypes
    <2>2. puts' = puts /\ \A d \in Workers \ {c} : req'[d] = req[d]
      BY <1>0, <1>a DEF Enters, Begin, TypeOK, RequestsOK
    <2> QED
      BY <2>1, <2>2 DEF Quiet, TypeOK
  <1>1. CASE BucketRequest(c)
    <2> <<>> \in Seq(Objects)
      OBVIOUS
    <2> QED
      BY <1>1, <1>a DEF BucketRequest
  <1>2. CASE ObjectRequest(c)
    <2> PICK x \in Buckets, o \in Objects : \/ Enters(c, "put", x, <<o>>, <<>>, "ensure")
                                          \/ Enters(c, "delete", x, <<o>>, <<>>, "delete")
      BY <1>2 DEF ObjectRequest
    <2> <<o>> \in Seq(Objects) /\ <<o>> # <<>>
      OBVIOUS
    <2> QED
      BY <1>a
  <1>3. CASE ManyRequest(c)
    <2> PICK x \in Buckets, o, p \in Objects : Enters(c, "deleteAll", x, <<o, p>>, <<>>, "delete")
      BY <1>3 DEF ManyRequest
    <2> <<o, p>> \in Seq(Objects) /\ <<o, p>> # <<>>
      OBVIOUS
    <2> QED
      BY <1>a
  <1>4. CASE CopyRequest(c)
    <2> PICK x \in Buckets, o \in Objects, s \in Slots : Enters(c, "copy", x, <<o>>, s, "read")
      BY <1>4 DEF CopyRequest
    <2> <<o>> \in Seq(Objects) /\ <<o>> # <<>>
      OBVIOUS
    <2> QED
      BY <1>a
  <1>5. CASE Cancel(c)
    <2>1. \A d \in Workers : /\ pc'[d] # "idle" => req'[d] \in Request
                             /\ OnKey(d)' => req'[d].objects # <<>>
      BY <1>0, <1>5 DEF Cancel, Goto, TypeOK, RequestsOK, OnKey
    <2> QED
      BY <1>0, <1>5, <2>1 DEF Cancel, Goto, TypeOK, RequestsOK, Quiet
  <1>6. CASE CheckBucket(c)
    <2>1. CASE b(c) \in cfs
      BY <1>0, <1>6, <2>1, EnsuredTypes DEF CheckBucket, Quiet
    <2>2. CASE b(c) \notin cfs
      <3>1. Proceed(c, "create") /\ (OnKey(c)' => OnKey(c))
        BY <1>0, <1>6, <2>2 DEF CheckBucket, Proceed, Goto, OnKey, TypeOK, RequestsOK
      <3> QED
        BY <1>0, <1>6, <3>1, ProceedTypes DEF CheckBucket, Quiet
    <2> QED
      BY <2>1, <2>2
  <1>7. CASE CreateRefused(c)
    BY <1>0, <1>7, AnswerTypes DEF CreateRefused, Quiet, TypeOK, RequestsOK
  <1>8. CASE ReadSource(c)
    <2>1. CASE Proceed(c, "ensure")
      <3>1. OnKey(c)' => OnKey(c)
        BY <1>8 DEF ReadSource, OnKey
      <3> QED
        BY <1>0, <1>8, <2>1, <3>1, ProceedTypes DEF ReadSource, Quiet
    <2>2. CASE Answer(c, "failed")
      BY <1>0, <1>8, <2>2, AnswerTypes DEF ReadSource, Quiet, TypeOK, RequestsOK
    <2> QED
      BY <1>8, <2>1, <2>2 DEF ReadSource
  <1>9. CASE DeleteRefused(c)
    <2>1. \E a \in {"ok", "failed"} : NextKey(c, a)
      BY <1>9 DEF DeleteRefused
    <2> QED
      BY <1>0, <1>9, <2>1, NextKeyTypes DEF DeleteRefused, Quiet
  <1>10. CASE DropCheck(c)
    <2>1. CASE Proceed(c, "drop")
      <3>1. OnKey(c)' => OnKey(c)
        BY <1>0, <1>10, <2>1 DEF Proceed, Goto, OnKey, TypeOK, RequestsOK
      <3> QED
        BY <1>0, <1>10, <2>1, <3>1, ProceedTypes DEF DropCheck, Quiet
    <2>2. CASE Answer(c, "ok")
      BY <1>0, <1>10, <2>2, AnswerTypes DEF DropCheck, Quiet, TypeOK, RequestsOK
    <2> QED
      BY <1>10, <2>1, <2>2 DEF DropCheck
  <1>11. CASE DropRefused(c)
    BY <1>0, <1>11, AnswerTypes DEF DropRefused, Quiet, TypeOK, RequestsOK
  <1> QED
    BY <1>1, <1>2, <1>3, <1>4, <1>5, <1>6, <1>7, <1>8, <1>9, <1>10, <1>11

(* A request takes the free mutex, or gives it back. *)
Takes(c, place) ==
    /\ Free /\ lock' = c /\ pc' = [pc EXCEPT ![c] = place]
    /\ \A d \in Workers \ {c} : req'[d] = req[d]
Gives(c) ==
    /\ pc[c] \in Holding /\ lock' = Nobody
    /\ \E p \in Places \ Holding : pc' = [pc EXCEPT ![c] = p]
    /\ \A d \in Workers \ {c} : req'[d] = req[d]

LEMMA TakesAlone ==
  ASSUME IInv, NEW c \in Workers, NEW place \in Holding, Takes(c, place)
  PROVE  /\ LockHeld' /\ pc'[c] = place
         /\ \A d \in Workers : pc[d] \notin Holding
         /\ \A d \in Workers \ {c} : pc'[d] \notin Holding
  BY ConstantsAssumption DEF IInv, TypeOK, RequestsOK, LockHeld, Takes, Free

LEMMA GivesAlone ==
  ASSUME IInv, NEW c \in Workers, Gives(c)
  PROVE  /\ LockHeld' /\ lock = c
         /\ \A d \in Workers \ {c} : pc[d] \notin Holding
         /\ \A d \in Workers : pc'[d] \notin Holding
  BY ConstantsAssumption DEF IInv, TypeOK, RequestsOK, LockHeld, Gives

LEMMA CreateCfInv == ASSUME IInv, NEW c \in Workers, CreateCf(c) PROVE IInv'
  <1>1. pc[c] = "create" /\ TypeOK
    BY DEF CreateCf, IInv
  <1>2. RequestsOK' /\ pc' = [pc EXCEPT ![c] = "name"] /\ req' = req
    <2>1. Proceed(c, "name") /\ "name" \in Places
      BY DEF CreateCf, Places, Holding
    <2>2. OnKey(c)' => OnKey(c)
      BY <1>1, <2>1 DEF Proceed, Goto, OnKey, TypeOK, RequestsOK
    <2> QED
      BY <1>1, <2>1, <2>2, ProceedTypes
  <1>3. Takes(c, "name") /\ "name" \in Holding
    BY <1>2 DEF CreateCf, Takes, Holding
  <1>4. b(c) \in Buckets
    BY <1>1, RequestTypes
  <1>5. TypeOK'
    BY <1>2, <1>4 DEF IInv, TypeOK, CreateCf, history
  <1>6. Midway'
    BY <1>2, <1>3, TakesAlone DEF CreateCf, Midway, b, k, Holding
  <1>7. HeadersBut'
    BY <1>3, TakesAlone DEF IInv, CreateCf, history, HeadersBut, OnObject, Holding
  <1>8. NamesBut'
    <2>1. \A x \in Buckets \ (half \cup {Default}) : x \in cfs <=> x \in named
      BY <1>3, TakesAlone DEF IInv, NamesBut, OnBucket, Holding
    <2>2. OnBucket(c, b(c))'
      BY <1>2, <1>3, TakesAlone DEF OnBucket, b
    <2>3. b(c)' = b(c)
      BY <1>2 DEF b
    <2> QED
      BY <2>1, <2>2, <2>3 DEF CreateCf, history, NamesBut
  <1>9. NothingWithoutBucket'
    BY DEF CreateCf, IInv, NothingWithoutBucket
  <1> QED
    BY <1>3, <1>5, <1>6, <1>7, <1>8, <1>9, TakesAlone DEF IInv

LEMMA NameBucketInv == ASSUME IInv, NEW c \in Workers, NameBucket(c) PROVE IInv'
  <1>1. pc[c] = "name" /\ TypeOK
    BY DEF NameBucket, IInv
  <1>2. /\ RequestsOK'
        /\ \E p \in {"idle", "data"} : pc' = [pc EXCEPT ![c] = p]
        /\ \A d \in Workers \ {c} : req'[d] = req[d]
    BY <1>1, EnsuredTypes DEF NameBucket
  <1>3. Gives(c)
    BY <1>1, <1>2 DEF NameBucket, Gives, Holding, Places
  <1>4. b(c) \in Buckets /\ b(c) \in cfs
    BY <1>1, RequestTypes DEF IInv, Midway
  <1>5. TypeOK'
    BY <1>2, <1>4 DEF IInv, TypeOK, NameBucket
  <1>6. Midway'
    BY <1>3, GivesAlone DEF Midway, Holding
  <1>7. HeadersBut'
    BY <1>1, <1>3, GivesAlone DEF IInv, NameBucket, HeadersBut, OnObject, Holding
  <1>8. NamesBut'
    <2>1. \A x \in Buckets \ (half \cup {Default}) : (x \in cfs <=> x \in named) \/ x = b(c)
      BY <1>3, GivesAlone DEF IInv, NamesBut, OnBucket, Holding
    <2> QED
      BY <1>4, <2>1 DEF NameBucket, NamesBut
  <1>9. NothingWithoutBucket'
    BY DEF NameBucket, IInv, NothingWithoutBucket
  <1> QED
    BY <1>3, <1>5, <1>6, <1>7, <1>8, <1>9, GivesAlone DEF IInv

(* The first of the two writes of an object, whatever it stores. *)
LEMMA FirstWrite ==
  ASSUME IInv, TypeOK', NEW c \in Workers, NEW place \in {"header", "unheader"}, NEW v \in Nat,
         Takes(c, place), b(c) \in cfs, OnKey(c), pc[c] # "idle",
         data' = [data EXCEPT ![b(c)][k(c)] = v], UNCHANGED <<cfs, named, header, history>>,
         b(c)' = b(c), k(c)' = k(c),
         v = (IF place = "header" THEN req'[c].etag ELSE 0)
  PROVE  IInv'
  <1>0. place \in Holding /\ history' = history
    BY DEF Holding
  <1>1. <<b(c), k(c)>> \in Slots /\ b(c) \in Buckets /\ k(c) \in Objects
    BY RequestTypes DEF IInv
  <1>2. data'[b(c)][k(c)] = v /\ \A s \in Slots : s # <<b(c), k(c)>> => data'[s[1]][s[2]] = data[s[1]][s[2]]
    <2>1. data \in [Buckets -> [Objects -> Nat]]
      BY DEF IInv, TypeOK
    <2>2. \A x \in Buckets, o \in Objects :
            <<x, o>> # <<b(c), k(c)>> => data'[x][o] = data[x][o]
      BY <1>1, <2>1
    <2>3. \A s \in Slots : s[1] \in Buckets /\ s[2] \in Objects /\ s = <<s[1], s[2]>>
      BY DEF Slots
    <2> QED
      BY <1>1, <2>1, <2>2, <2>3
  <1>3. Midway'
    <2> SUFFICES ASSUME NEW d \in Workers, pc'[d] \in Holding
                 PROVE  d = c /\ pc'[d] = place
      BY <1>2 DEF Midway, Holding
    <2> QED
      BY <1>0, TakesAlone
  <1>4. HeadersBut'
    <2>1. \A s \in Slots \ torn : data[s[1]][s[2]] = header[s[1]][s[2]]
      BY <1>0, TakesAlone DEF IInv, HeadersBut, OnObject, Holding
    <2>2. OnObject(c, <<b(c), k(c)>>)'
      BY <1>0, TakesAlone DEF OnObject
    <2> QED
      BY <1>0, <1>2, <2>1, <2>2 DEF HeadersBut, history
  <1>5. NamesBut'
    BY <1>0, TakesAlone DEF IInv, NamesBut, OnBucket, Holding, history
  <1>6. NothingWithoutBucket'
    BY <1>1, <1>2 DEF IInv, NothingWithoutBucket, Slots
  <1> QED
    BY <1>0, <1>3, <1>4, <1>5, <1>6, TakesAlone DEF IInv

(* The second: the slot holds what the first one left in data. *)
LEMMA SecondWrite ==
  ASSUME IInv, TypeOK', NEW c \in Workers, NEW v \in Nat, Gives(c),
         OnKey(c), pc[c] \in {"header", "unheader"}, data[b(c)][k(c)] = v,
         header' = [header EXCEPT ![b(c)][k(c)] = v], torn' = torn \ {<<b(c), k(c)>>},
         UNCHANGED <<cfs, named, data, half>>
  PROVE  IInv'
  <1>1. <<b(c), k(c)>> \in Slots /\ b(c) \in Buckets /\ k(c) \in Objects /\ b(c) \in cfs
    BY RequestTypes DEF IInv, Midway
  <1>2. header'[b(c)][k(c)] = v /\ \A s \in Slots : s # <<b(c), k(c)>> => header'[s[1]][s[2]] = header[s[1]][s[2]]
    <2>1. header \in [Buckets -> [Objects -> Nat]]
      BY DEF IInv, TypeOK
    <2>2. \A x \in Buckets, o \in Objects :
            <<x, o>> # <<b(c), k(c)>> => header'[x][o] = header[x][o]
      BY <1>1, <2>1
    <2>3. \A s \in Slots : s[1] \in Buckets /\ s[2] \in Objects /\ s = <<s[1], s[2]>>
      BY DEF Slots
    <2> QED
      BY <1>1, <2>1, <2>2, <2>3
  <1>3. Midway'
    BY GivesAlone DEF Midway, Holding
  <1>4. HeadersBut'
    <2>1. \A s \in Slots \ torn : data[s[1]][s[2]] = header[s[1]][s[2]] \/ s = <<b(c), k(c)>>
      BY GivesAlone DEF IInv, HeadersBut, OnObject, Holding
    <2> QED
      BY <1>2, <2>1 DEF HeadersBut
  <1>5. NamesBut'
    BY GivesAlone DEF IInv, NamesBut, OnBucket, Holding
  <1>6. NothingWithoutBucket'
    BY <1>1, <1>2 DEF IInv, NothingWithoutBucket, Slots
  <1> QED
    BY <1>3, <1>4, <1>5, <1>6, GivesAlone DEF IInv

LEMMA PutDataInv == ASSUME IInv, NEW c \in Workers, PutData(c) PROVE IInv'
  <1>1. pc[c] = "data" /\ OnKey(c) /\ TypeOK
    BY DEF PutData, OnKey, IInv
  <1>2. /\ req[c] \in Request /\ b(c) \in Buckets /\ k(c) \in Objects
        /\ puts' = puts + 1 /\ puts' \in Nat
    <2>1. req[c] \in Request /\ b(c) \in Buckets /\ k(c) \in Objects
      BY <1>1, RequestTypes
    <2> QED
      BY <1>1, <2>1 DEF TypeOK, PutData
  <1>3. CASE b(c) \notin cfs
    <2>1. RequestsOK' /\ pc' = [pc EXCEPT ![c] = "idle"] /\ req' = [req EXCEPT ![c] = Nothing]
      BY <1>1, <1>3, AnswerTypes DEF PutData
    <2>2. UNCHANGED <<object_vars, lock, history>>
      BY <1>3 DEF PutData, object_vars
    <2>3. Quiet(c)
      BY <1>1, <2>1, <2>2 DEF Quiet, Holding, Places, TypeOK, RequestsOK
    <2>4. TypeOK'
      BY <1>1, <1>2, <2>1, <2>2 DEF TypeOK, object_vars, history
    <2> QED
      BY <2>3, <2>4, QuietInv
  <1>4. CASE b(c) \in cfs
    <2> DEFINE r == [req[c] EXCEPT !.etag = puts + 1]
    <2>1. /\ data' = [data EXCEPT ![b(c)][k(c)] = puts + 1]
          /\ req' = [req EXCEPT ![c] = r] /\ lock' = c
          /\ pc' = [pc EXCEPT ![c] = "header"] /\ UNCHANGED answer
      BY <1>4 DEF PutData, Goto
    <2>2. /\ r \in Request /\ r.bucket = req[c].bucket /\ r.objects = req[c].objects
          /\ r.etag = puts + 1
      BY <1>2 DEF Request
    <2> HIDE DEF r
    <2>3. req'[c] = r /\ b(c)' = b(c) /\ k(c)' = k(c)
      BY <1>1, <2>1, <2>2 DEF b, k, TypeOK, RequestsOK
    <2>4. \A d \in Workers : /\ pc'[d] # "idle" => req'[d] \in Request
                             /\ OnKey(d)' => req'[d].objects # <<>>
      BY <1>1, <2>1, <2>2 DEF TypeOK, RequestsOK, OnKey
    <2>5. TypeOK'
      <3>1. RequestsOK'
        BY <1>1, <2>1, <2>2, <2>4 DEF TypeOK, RequestsOK, Places, Holding
      <3>2. data' \in [Buckets -> [Objects -> Nat]]
        BY <1>1, <1>2, <2>1 DEF TypeOK
      <3> QED
        BY <1>1, <1>2, <2>1, <3>1, <3>2 DEF TypeOK, PutData, history
    <2>6. Takes(c, "header")
      BY <1>1, <2>1 DEF Takes, PutData, TypeOK, RequestsOK
    <2>7. IInv /\ puts + 1 \in Nat /\ puts + 1 = req'[c].etag
      BY <1>2, <2>2, <2>3
    <2>8. UNCHANGED <<cfs, named, header, history>>
      BY DEF PutData
    <2> QED
      BY <1>1, <1>4, <2>1, <2>3, <2>5, <2>6, <2>7, <2>8, FirstWrite
  <1> QED
    BY <1>3, <1>4

LEMMA DeleteDataInv == ASSUME IInv, NEW c \in Workers, DeleteData(c) PROVE IInv'
  <1>1. pc[c] = "delete" /\ OnKey(c) /\ TypeOK /\ b(c) \in cfs
    BY DEF DeleteData, OnKey, IInv
  <1>2. RequestsOK' /\ pc' = [pc EXCEPT ![c] = "unheader"] /\ req' = req
    <2>1. Proceed(c, "unheader") /\ "unheader" \in Places
      BY DEF DeleteData, Places, Holding
    <2> QED
      BY <1>1, <2>1, ProceedTypes
  <1>3. Takes(c, "unheader")
    BY <1>2 DEF Takes, DeleteData
  <1>4. TypeOK'
    <2>1. b(c) \in Buckets /\ k(c) \in Objects
      BY <1>1, RequestTypes
    <2> QED
      BY <1>1, <1>2, <2>1 DEF TypeOK, DeleteData, history
  <1>5. b(c)' = b(c) /\ k(c)' = k(c)
    BY <1>2 DEF b, k
  <1>6. data' = [data EXCEPT ![b(c)][k(c)] = 0] /\ UNCHANGED <<cfs, named, header, history>>
    BY DEF DeleteData
  <1> QED
    BY <1>1, <1>3, <1>4, <1>5, <1>6, FirstWrite

LEMMA PutHeaderInv == ASSUME IInv, NEW c \in Workers, PutHeader(c) PROVE IInv'
  <1>1. pc[c] = "header" /\ OnKey(c) /\ TypeOK
    BY DEF PutHeader, OnKey, IInv
  <1>2. RequestsOK' /\ pc' = [pc EXCEPT ![c] = "idle"] /\ req' = [req EXCEPT ![c] = Nothing]
    BY <1>1, AnswerTypes DEF PutHeader
  <1>3. Gives(c)
    BY <1>1, <1>2 DEF Gives, PutHeader, Holding, Places, TypeOK, RequestsOK
  <1>4. /\ req[c].etag \in Nat /\ data[b(c)][k(c)] = req[c].etag
        /\ b(c) \in Buckets /\ k(c) \in Objects
    BY <1>1, RequestTypes DEF IInv, Midway, Request
  <1>5. TypeOK'
    BY <1>1, <1>2, <1>4 DEF TypeOK, PutHeader
  <1>6. /\ header' = [header EXCEPT ![b(c)][k(c)] = req[c].etag]
        /\ torn' = torn \ {<<b(c), k(c)>>} /\ UNCHANGED <<cfs, named, data, half>>
    BY DEF PutHeader
  <1> QED
    BY <1>1, <1>3, <1>4, <1>5, <1>6, SecondWrite

LEMMA DeleteHeaderInv == ASSUME IInv, NEW c \in Workers, DeleteHeader(c) PROVE IInv'
  <1>1. pc[c] = "unheader" /\ OnKey(c) /\ TypeOK
    BY DEF DeleteHeader, OnKey, IInv
  <1>2. /\ RequestsOK'
        /\ \E p \in {"idle", "delete"} : pc' = [pc EXCEPT ![c] = p]
        /\ \A d \in Workers \ {c} : req'[d] = req[d]
    BY <1>1, NextKeyTypes DEF DeleteHeader
  <1>3. Gives(c)
    BY <1>1, <1>2 DEF Gives, DeleteHeader, Holding, Places
  <1>4. data[b(c)][k(c)] = 0 /\ b(c) \in Buckets /\ k(c) \in Objects
    BY <1>1, RequestTypes DEF IInv, Midway
  <1>5. TypeOK'
    BY <1>1, <1>2, <1>4 DEF TypeOK, DeleteHeader
  <1>6. /\ header' = [header EXCEPT ![b(c)][k(c)] = 0]
        /\ torn' = torn \ {<<b(c), k(c)>>} /\ UNCHANGED <<cfs, named, data, half>>
    BY DEF DeleteHeader
  <1> QED
    BY <1>1, <1>3, <1>4, <1>5, <1>6, SecondWrite

LEMMA DropCfInv == ASSUME IInv, NEW c \in Workers, DropCf(c) PROVE IInv'
  <1>1. pc[c] = "drop" /\ TypeOK /\ b(c) # Default
    BY DEF DropCf, IInv
  <1>2. RequestsOK' /\ pc' = [pc EXCEPT ![c] = "unname"] /\ req' = req
    <2>1. Proceed(c, "unname") /\ "unname" \in Places
      BY DEF DropCf, Places, Holding
    <2>2. OnKey(c)' => OnKey(c)
      BY <1>1, <2>1 DEF Proceed, Goto, OnKey, TypeOK, RequestsOK
    <2> QED
      BY <1>1, <2>1, <2>2, ProceedTypes
  <1>3. Takes(c, "unname") /\ "unname" \in Holding
    BY <1>2 DEF DropCf, Takes, Holding
  <1>4. b(c) \in Buckets /\ b(c)' = b(c)
    BY <1>1, <1>2, RequestTypes DEF b
  <1>5. \A x \in Buckets, o \in Objects :
          /\ data'[x][o] = (IF x = b(c) THEN 0 ELSE data[x][o])
          /\ header'[x][o] = (IF x = b(c) THEN 0 ELSE header[x][o])
    BY <1>1, <1>4 DEF DropCf, TypeOK
  <1>6. TypeOK'
    <2>1. [o \in Objects |-> 0] \in [Objects -> Nat]
      OBVIOUS
    <2>2. data' \in [Buckets -> [Objects -> Nat]] /\ header' \in [Buckets -> [Objects -> Nat]]
      BY <1>1, <1>4, <2>1 DEF TypeOK, DropCf
    <2> QED
      BY <1>1, <1>2, <2>2 DEF TypeOK, DropCf
  <1>7. Midway'
    <2>1. b(c) \notin cfs'
      BY DEF DropCf
    <2> QED
      BY <1>3, <1>4, <2>1, TakesAlone DEF Midway, Holding
  <1>8. HeadersBut'
    <2> SUFFICES ASSUME NEW s \in Slots, s \notin torn'
                 PROVE  data'[s[1]][s[2]] = header'[s[1]][s[2]]
      BY DEF HeadersBut
    <2>1. s[1] \in Buckets /\ s[2] \in Objects
      BY DEF Slots
    <2>2. s[1] # b(c) => s \notin torn
      BY DEF DropCf
    <2>3. s \notin torn => data[s[1]][s[2]] = header[s[1]][s[2]]
      BY <1>3, TakesAlone DEF IInv, HeadersBut, OnObject, Holding
    <2> QED
      BY <1>5, <2>1, <2>2, <2>3
  <1>9. NamesBut'
    <2>1. \A x \in Buckets \ (half \cup {Default}) : x \in cfs <=> x \in named
      BY <1>3, TakesAlone DEF IInv, NamesBut, OnBucket, Holding
    <2>2. \A x \in Buckets : x = b(c) => OnBucket(c, x)'
      BY <1>3, <1>4, TakesAlone DEF OnBucket
    <2> QED
      BY <2>1, <2>2 DEF DropCf, NamesBut
  <1>10. NothingWithoutBucket'
    <2> SUFFICES ASSUME NEW s \in Slots, s[1] \notin cfs'
                 PROVE  data'[s[1]][s[2]] = 0 /\ header'[s[1]][s[2]] = 0
      BY DEF NothingWithoutBucket
    <2>1. s[1] \in Buckets /\ s[2] \in Objects
      BY DEF Slots
    <2>2. s[1] = b(c) \/ s[1] \notin cfs
      BY DEF DropCf
    <2> QED
      BY <1>5, <2>1, <2>2 DEF IInv, NothingWithoutBucket
  <1> QED
    BY <1>3, <1>6, <1>7, <1>8, <1>9, <1>10, TakesAlone DEF IInv

LEMMA UnnameBucketInv == ASSUME IInv, NEW c \in Workers, UnnameBucket(c) PROVE IInv'
  <1>1. pc[c] = "unname" /\ TypeOK
    BY DEF UnnameBucket, IInv
  <1>2. RequestsOK' /\ pc' = [pc EXCEPT ![c] = "idle"] /\ req' = [req EXCEPT ![c] = Nothing]
    BY <1>1, AnswerTypes DEF UnnameBucket
  <1>3. Gives(c)
    BY <1>1, <1>2 DEF Gives, UnnameBucket, Holding, Places, TypeOK, RequestsOK
  <1>4. b(c) \notin cfs
    BY <1>1 DEF IInv, Midway
  <1>5. TypeOK'
    BY <1>1, <1>2 DEF TypeOK, UnnameBucket
  <1>6. Midway'
    BY <1>3, GivesAlone DEF Midway, Holding
  <1>7. HeadersBut'
    BY <1>1, <1>3, GivesAlone DEF IInv, UnnameBucket, HeadersBut, OnObject, Holding
  <1>8. NamesBut'
    <2>1. \A x \in Buckets \ (half \cup {Default}) : (x \in cfs <=> x \in named) \/ x = b(c)
      BY <1>3, GivesAlone DEF IInv, NamesBut, OnBucket, Holding
    <2> QED
      BY <1>4, <2>1 DEF UnnameBucket, NamesBut
  <1>9. NothingWithoutBucket'
    BY DEF UnnameBucket, IInv, NothingWithoutBucket
  <1> QED
    BY <1>3, <1>5, <1>6, <1>7, <1>8, <1>9, GivesAlone DEF IInv

LEMMA CrashInv == ASSUME IInv, Crash PROVE IInv'
  <1>1. \A c \in Workers : pc'[c] = "idle" /\ pc'[c] \notin Holding
    BY DEF Crash, Holding
  <1>2. \A c \in Workers : /\ pc[c] \in {"header", "unheader"} => <<b(c), k(c)>> \in Slots
                           /\ pc[c] \in {"name", "unname"} => b(c) \in Buckets
    BY RequestTypes DEF IInv, OnKey
  <1>3. TypeOK'
    <2>1. RequestsOK'
      BY <1>1 DEF Crash, RequestsOK, OnKey, Places
    <2>2. torn' \subseteq Slots /\ half' \subseteq Buckets
      BY <1>2 DEF Crash, IInv, TypeOK
    <2> QED
      BY <2>1, <2>2 DEF Crash, object_vars, IInv, TypeOK
  <1>4. LockHeld' /\ Midway'
    BY <1>1, ConstantsAssumption DEF LockHeld, Midway, Crash, Holding
  <1>5. HeadersBut'
    BY DEF Crash, object_vars, IInv, HeadersBut, OnObject
  <1>6. NamesBut'
    BY DEF Crash, object_vars, IInv, NamesBut, OnBucket
  <1> QED
    BY <1>3, <1>4, <1>5, <1>6 DEF Crash, object_vars, IInv, NothingWithoutBucket

(* A failing write gives the mutex back and leaves all but its own object  *)
(* or bucket in order.                                                     *)
LEMMA WriteFailsInv == ASSUME IInv, NEW c \in Workers, WriteFails(c) PROVE IInv'
  <1>1. TypeOK /\ pc[c] \in Holding /\ UNCHANGED <<cfs, named, data, header>>
    BY DEF WriteFails, IInv, object_vars
  <1>2. /\ RequestsOK'
        /\ \E p \in {"idle", "delete"} : pc' = [pc EXCEPT ![c] = p]
        /\ \A d \in Workers \ {c} : req'[d] = req[d]
    <2>1. ASSUME pc[c] = "unheader", NEW a \in {"ok", "failed"}, NextKey(c, a)
          PROVE  RequestsOK' /\ (\E p \in {"idle", "delete"} : pc' = [pc EXCEPT ![c] = p])
                 /\ \A d \in Workers \ {c} : req'[d] = req[d]
      BY <1>1, <2>1, NextKeyTypes
    <2>2. ASSUME Answer(c, "failed")
          PROVE  RequestsOK' /\ (\E p \in {"idle", "delete"} : pc' = [pc EXCEPT ![c] = p])
                 /\ \A d \in Workers \ {c} : req'[d] = req[d]
      BY <1>1, <2>2, AnswerTypes DEF TypeOK, RequestsOK
    <2> QED
      BY <2>1, <2>2 DEF WriteFails
  <1>3. Gives(c)
    BY <1>1, <1>2 DEF Gives, WriteFails, Holding, Places
  <1>4. TypeOK'
    BY <1>1, <1>2 DEF TypeOK, WriteFails
  <1>5. Midway'
    BY <1>3, GivesAlone DEF Midway, Holding
  <1>6. HeadersBut'
    BY <1>1, <1>3, GivesAlone DEF IInv, WriteFails, HeadersBut, OnObject, Holding
  <1>7. NamesBut'
    BY <1>1, <1>3, GivesAlone DEF IInv, WriteFails, NamesBut, OnBucket, Holding
  <1> QED
    BY <1>1, <1>3, <1>4, <1>5, <1>6, <1>7, GivesAlone DEF IInv, NothingWithoutBucket

LEMMA NextInv == IInv /\ [Next]_vars => IInv'
  <1> SUFFICES ASSUME IInv, [Next]_vars PROVE IInv'
    OBVIOUS
  <1>1. CASE UNCHANGED vars
    BY <1>1 DEF vars, IInv, TypeOK, RequestsOK, LockHeld, Midway, HeadersBut, NamesBut,
                NothingWithoutBucket, OnObject, OnBucket, OnKey, b, k
  <1>2. CASE Crash
    BY <1>2, CrashInv
  <1>3. ASSUME NEW c \in Workers, Step(c) PROVE IInv'
    BY <1>3, QuietSteps, QuietInv, CreateCfInv, NameBucketInv, PutDataInv, PutHeaderInv,
       DeleteDataInv, DeleteHeaderInv, DropCfInv, UnnameBucketInv, WriteFailsInv DEF Step
  <1> QED
    BY <1>1, <1>2, <1>3 DEF Next

-----------------------------------------------------------------------------
(* TypeCorrect.  The store keeps its types. *)
THEOREM TypeCorrect == Spec => []TypeOK
  <1>1. IInv => TypeOK
    BY DEF IInv
  <1> QED
    BY <1>1, InitInv, NextInv, PTL DEF Spec

(* Whoever takes the mutex finds all in order. *)
LEMMA WhenFree ==
  ASSUME IInv, Free
  PROVE  /\ \A s \in Slots \ torn : data[s[1]][s[2]] = header[s[1]][s[2]]
         /\ \A x \in Buckets \ (half \cup {Default}) : x \in cfs <=> x \in named
  <1>1. \A c \in Workers : pc[c] \notin Holding
    BY ConstantsAssumption DEF IInv, LockHeld, Free
  <1> QED
    BY <1>1 DEF IInv, HeadersBut, NamesBut, OnObject, OnBucket, Holding

(* ObjectsWhole.  Whatever requests are made at the same time, by however  *)
(* many callers: whoever takes the mutex finds each object with the        *)
(* headers of the put that wrote its bytes, apart from what a crash or a   *)
(* failing write cut in two (put_object, copy_object, delete_objects,      *)
(* delete_bucket).                                                         *)
THEOREM ObjectsWhole == Spec => []HeadersDescribe
  <1>1. IInv => HeadersDescribe
    BY WhenFree DEF HeadersDescribe, GetObject, HeadObject
  <1> QED
    BY <1>1, InitInv, NextInv, PTL DEF Spec

(* BucketsWhole.  Likewise it finds each bucket listed exactly if there is *)
(* a column family for it, and at no time is there an object without its   *)
(* bucket (ensure_bucket_table, delete_bucket, put_object).                *)
THEOREM BucketsWhole == Spec => []BucketsSound
  <1>1. IInv => BucketsSound
    BY WhenFree DEF IInv, BucketsSound, BucketsListed, ListBuckets
  <1> QED
    BY <1>1, InitInv, NextInv, PTL DEF Spec

--------------------------------------------------------------------------------
(* Listings.                                                                *)

(* x comes before y on a walk.                                              *)
Precedes(x, y, backwards) == IF backwards THEN x > y ELSE x < y

(* A finite set of numbers in order: each of them once.                     *)
LEMMA OrderIsExact ==
  ASSUME NEW S, S \subseteq Int, IsFiniteSet(S), NEW backwards \in BOOLEAN
  PROVE  LET s == InOrder(S, backwards)
             n == Cardinality(S)
         IN  /\ n \in Nat /\ s = [i \in 1 .. n |-> s[i]] /\ \A i \in 1 .. n : s[i] \in S
             /\ \A i, j \in 1 .. n : i < j => Precedes(s[i], s[j], backwards)
             /\ \A x \in S : \E i \in 1 .. n : s[i] = x
  <1> DEFINE s == InOrder(S, backwards)
             n == Cardinality(S)
             R(x) == Reached(x, S, backwards)
             rank == [x \in S |-> Cardinality(R(x))]
  <1>1. n \in Nat
    BY FS_CardinalityType
  <1>2. \A x \in S : IsFiniteSet(R(x)) /\ Cardinality(R(x)) \in Nat
    <2> TAKE x \in S
    <2>1. R(x) \in SUBSET S
      BY DEF Reached
    <2>2. IsFiniteSet(R(x))
      BY ONLY <2>1, FS_Subset, IsFiniteSet(S)
    <2> QED
      BY <2>2, FS_CardinalityType
  <1>3. ASSUME NEW x \in S
        PROVE  rank[x] \in 1 .. n
    <2>1. R(x) \in SUBSET S /\ x \in R(x)
      BY DEF Reached
    <2>2. Cardinality(R(x)) <= n
      BY ONLY <2>1, FS_Subset, IsFiniteSet(S)
    <2>3. Cardinality(R(x)) # 0
      BY ONLY <1>2, <2>1, FS_EmptySet, x \in S
    <2> QED
      BY <1>1, <1>2, <2>2, <2>3
  <1>4. ASSUME NEW x \in S, NEW y \in S, Precedes(x, y, backwards)
        PROVE  rank[x] < rank[y]
    <2>1. R(x) \in SUBSET R(y) /\ y \in R(y) /\ y \notin R(x)
      <3>1. CASE backwards = TRUE
        <4> PICK A, B : A = {l \in S : l >= x} /\ B = {l \in S : l >= y}
          OBVIOUS
        <4>1. A = R(x) /\ B = R(y) /\ x > y
          BY ONLY <1>4, <3>1, A = {l \in S : l >= x} /\ B = {l \in S : l >= y} DEF Precedes, Reached
        <4>2. x \in Int /\ y \in Int
          BY ONLY S \subseteq Int, x \in S, y \in S
        <4>3. \A l \in A : l \in B
          BY ONLY <4>1, <4>2, S \subseteq Int, A = {l \in S : l >= x} /\ B = {l \in S : l >= y}
        <4>4. y \in B /\ y \notin A
          BY ONLY <4>1, <4>2, y \in S, A = {l \in S : l >= x} /\ B = {l \in S : l >= y}
        <4> QED
          BY ONLY <4>1, <4>3, <4>4
      <3>2. CASE backwards = FALSE
        <4> PICK A, B : A = {l \in S : l <= x} /\ B = {l \in S : l <= y}
          OBVIOUS
        <4>1. A = R(x) /\ B = R(y) /\ x < y
          BY ONLY <1>4, <3>2, A = {l \in S : l <= x} /\ B = {l \in S : l <= y} DEF Precedes, Reached
        <4>2. x \in Int /\ y \in Int
          BY ONLY S \subseteq Int, x \in S, y \in S
        <4>3. \A l \in A : l \in B
          BY ONLY <4>1, <4>2, S \subseteq Int, A = {l \in S : l <= x} /\ B = {l \in S : l <= y}
        <4>4. y \in B /\ y \notin A
          BY ONLY <4>1, <4>2, y \in S, A = {l \in S : l <= x} /\ B = {l \in S : l <= y}
        <4> QED
          BY ONLY <4>1, <4>3, <4>4
      <3> QED
        BY ONLY <3>1, <3>2, backwards \in BOOLEAN
    <2>2. Cardinality(R(x)) <= Cardinality(R(y)) /\ Cardinality(R(x)) # Cardinality(R(y))
      <3>1. IsFiniteSet(R(y)) /\ R(x) # R(y)
        BY ONLY <1>2, <2>1, y \in S
      <3> PICK A, B : A = R(x) /\ B = R(y)
        OBVIOUS
      <3>2. IsFiniteSet(B) /\ A \in SUBSET B /\ A # B
        BY <2>1, <3>1
      <3>3. Cardinality(A) <= Cardinality(B) /\ Cardinality(A) # Cardinality(B)
        BY ONLY <3>2, FS_Subset
      <3> QED
        BY <3>3
    <2> QED
      BY <1>2, <2>2
  <1>5. \A x, y \in S : x = y \/ Precedes(x, y, backwards) \/ Precedes(y, x, backwards)
    BY DEF Precedes
  <1> HIDE DEF R
  <1>6. rank \in Injection(S, 1 .. n)
    <2>1. rank \in [S -> 1 .. n]
      BY <1>3
    <2>2. \A x, y \in S : rank[x] = rank[y] => x = y
      BY <1>3, <1>4, <1>5
    <2> QED
      BY <2>1, <2>2 DEF Injection, IsInjective
  <1>7. \A i \in 1 .. n : \E x \in S : rank[x] = i
    <2>1. IsFiniteSet(1 .. n) /\ Cardinality(1 .. n) = n
      BY <1>1, FS_Interval
    <2>2. rank \in Surjection(S, 1 .. n)
      BY ONLY <1>6, <2>1, FS_Injection
    <2> QED
      BY ONLY <2>2 DEF Surjection
  <1>8. s = [i \in 1 .. n |-> CHOOSE x \in S : rank[x] = i]
    BY DEF InOrder, R
  <1> HIDE DEF s, rank, n
  <1>9. \A i \in 1 .. n : s[i] \in S /\ rank[s[i]] = i
    BY ONLY <1>7, <1>8
  <1>10. \A i, j \in 1 .. n : i < j => Precedes(s[i], s[j], backwards)
    <2> TAKE i, j \in 1 .. n
    <2> HAVE i < j
    <2>1. s[i] \in S /\ s[j] \in S /\ rank[s[i]] = i /\ rank[s[j]] = j
      BY <1>9
    <2> QED
      BY ONLY <1>1, <1>4, <1>5, <2>1, i < j, i \in 1 .. n, j \in 1 .. n
  <1>11. \A x \in S : \E i \in 1 .. n : s[i] = x
    <2> TAKE x \in S
    <2>1. rank[x] \in 1 .. n
      BY <1>3
    <2>2. s[rank[x]] \in S /\ rank[s[rank[x]]] = rank[x]
      BY <1>9, <2>1
    <2>3. s[rank[x]] = x
      BY ONLY <1>1, <1>3, <1>4, <1>5, <2>2, x \in S
    <2> QED
      BY <2>1, <2>3
  <1> QED
    BY <1>1, <1>8, <1>9, <1>10, <1>11 DEF s, n

--------------------------------------------------------------------------------
(* While the walk goes on: it has come as far as the marker, listed what it *)
(* met once, and, without a delimiter, all that was there.                  *)
Passed(x) == x = marker \/ Precedes(x, marker, request.reverse)
Walked ==
  /\ marker = NoMarker => listed = <<>>
  /\ marker # NoMarker =>
       /\ marker \in Keys \cap Prefixed
       /\ \A x \in Range(listed) : Passed(x)
       /\ request.reverse => marker \in stored
       /\ ~request.delimiter =>
            \A x \in kept \cap Prefixed : Passed(x) => x \in Range(listed)
ListInv ==
  /\ request \in Requests /\ stored \subseteq Keys /\ kept \subseteq stored
  /\ listed \in Seq(Keys) /\ lost \in BOOLEAN /\ misread \in BOOLEAN
  /\ done \in BOOLEAN
  /\ ~lost /\ ~misread => ListsOnce /\ ListsAll /\ (~done => Walked)

LEMMA ListInitInv == ListInit => ListInv
  <1> SUFFICES ASSUME ListInit
               PROVE  ListInv
    OBVIOUS
  <1>1. ListsOnce /\ ListsAll /\ Walked
    BY DEF ListInit, ListsOnce, IsInjective, ListsAll, Walked
  <1>2. lost \in BOOLEAN /\ misread \in BOOLEAN /\ done \in BOOLEAN
    BY Zenon DEF ListInit
  <1>3. request \in Requests /\ stored \subseteq Keys /\ kept \subseteq stored /\ listed \in Seq(Keys)
    BY DEF ListInit
  <1> QED
    BY ONLY <1>1, <1>2, <1>3, Zenon DEF ListInv

(* A page: the first keys the walk has not passed, in its order; all of     *)
(* them if it is short.                                                     *)
PageOf(page, S, backwards) ==
  /\ page \in Seq(S) /\ Len(page) <= MaxKeys
  /\ \A i, j \in DOMAIN page : i < j => Precedes(page[i], page[j], backwards)
  /\ Len(page) < MaxKeys => \A x \in S : x \in Range(page)
  /\ Len(page) = MaxKeys =>
        \A x \in S : x \in Range(page) \/ Precedes(page[MaxKeys], x, backwards)

LEMMA PageIsFirst ==
  ASSUME NEW S, S \subseteq Keys, NEW backwards \in BOOLEAN
  PROVE  LET all == InOrder(S, backwards)
         IN  PageOf(SubSeq(all, 1, IF Len(all) < MaxKeys THEN Len(all) ELSE MaxKeys), S, backwards)
  <1> DEFINE s == InOrder(S, backwards)
             n == Cardinality(S)
             m == IF Len(s) < MaxKeys THEN Len(s) ELSE MaxKeys
             page == SubSeq(s, 1, m)
  <1>1. S \subseteq Int /\ IsFiniteSet(S)
    <2>1. IsFiniteSet(Keys) /\ Keys \subseteq Int
      BY ListingAssumption, FS_Interval DEF Keys
    <2>2. IsFiniteSet(S)
      BY ONLY <2>1, FS_Subset, S \subseteq Keys
    <2> QED
      BY <2>1, <2>2
  <1>2. /\ n \in Nat /\ s = [i \in 1 .. n |-> s[i]] /\ \A i \in 1 .. n : s[i] \in S
        /\ \A i, j \in 1 .. n : i < j => Precedes(s[i], s[j], backwards)
        /\ \A x \in S : \E i \in 1 .. n : s[i] = x
    BY <1>1, OrderIsExact
  <1> HIDE DEF s, n
  <1>3. s \in Seq(S) /\ Len(s) = n
    BY <1>2
  <1>4. m \in 0 .. n /\ m <= MaxKeys /\ MaxKeys \in Nat /\ MaxKeys >= 1
        /\ (m < MaxKeys => m = n) /\ (m >= MaxKeys => m = MaxKeys)
    BY <1>2, <1>3, ListingAssumption
  <1> HIDE DEF m
  <1>5. page \in Seq(S) /\ Len(page) = m /\ \A i \in 1 .. m : page[i] = s[i]
    <2>1. 1 \in Int /\ m \in Int /\ \A i \in 1 .. m : s[i] \in S
      BY <1>2, <1>4
    <2>2. /\ page \in Seq(S)
          /\ Len(page) = (IF 1 <= m THEN m - 1 + 1 ELSE 0)
          /\ \A i \in 1 .. m - 1 + 1 : page[i] = s[1 + i - 1]
      BY ONLY <2>1, SubSeqProperties
    <2> QED
      BY <1>4, <2>2
  <1> HIDE DEF page
  <1>6. DOMAIN page = 1 .. m
    BY <1>5
  <1>7. \A i, j \in DOMAIN page : i < j => Precedes(page[i], page[j], backwards)
    <2> TAKE i, j \in DOMAIN page
    <2> HAVE i < j
    <2>0. i \in 1 .. m /\ j \in 1 .. m
      BY ONLY <1>6, i \in DOMAIN page, j \in DOMAIN page
    <2>1. page[i] = s[i] /\ page[j] = s[j]
      BY ONLY <1>5, <2>0
    <2>2. n \in Nat /\ m \in 0 .. n
      BY ONLY <1>2, <1>4
    <2>3. i \in 1 .. n /\ j \in 1 .. n
      BY ONLY <2>0, <2>2
    <2> QED
      BY ONLY <1>2, <2>1, <2>3, i < j
  <1>8. m < MaxKeys => \A x \in S : x \in Range(page)
    <2> SUFFICES ASSUME m < MaxKeys, NEW x \in S
                 PROVE  x \in Range(page)
      OBVIOUS
    <2>1. PICK i \in 1 .. n : s[i] = x
      BY ONLY <1>2, x \in S
    <2>2. i \in DOMAIN page /\ page[i] = x
      BY ONLY <1>4, <1>5, <1>6, <2>1, m < MaxKeys
    <2> QED
      BY ONLY <2>2 DEF Range
  <1>9. ASSUME m = MaxKeys, NEW x \in S, x \notin Range(page)
        PROVE  Precedes(page[MaxKeys], x, backwards)
    <2>1. PICK i \in 1 .. n : s[i] = x
      BY ONLY <1>2, x \in S
    <2>2. ~(i \in 1 .. m)
      <3> SUFFICES ASSUME i \in 1 .. m
                   PROVE  FALSE
        OBVIOUS
      <3>1. i \in DOMAIN page /\ page[i] = x
        BY ONLY <1>5, <1>6, <2>1, i \in 1 .. m
      <3> QED
        BY ONLY <3>1, <1>9 DEF Range
    <2>3. MaxKeys \in 1 .. m /\ MaxKeys \in 1 .. n /\ MaxKeys < i
      BY ONLY <1>2, <1>4, <1>9, <2>1, <2>2
    <2>4. page[MaxKeys] = s[MaxKeys]
      BY ONLY <1>5, <2>3
    <2> QED
      BY ONLY <1>2, <2>1, <2>3, <2>4
  <1>10. PageOf(page, S, backwards)
    BY <1>4, <1>5, <1>7, <1>8, <1>9 DEF PageOf
  <1> QED
    BY <1>10 DEF page, m, s

(* The objects of a page, in its order: all its keys without a delimiter.   *)
LEMMA ObjectsOfPage ==
  ASSUME NEW S, NEW backwards, NEW page, PageOf(page, S, backwards)
  PROVE  LET entries == PageObjects(page)
         IN  /\ entries \in Seq(S) /\ Len(entries) <= Len(page)
             /\ Range(entries) \subseteq Range(page)
             /\ \A i, j \in DOMAIN entries : i < j => Precedes(entries[i], entries[j], backwards)
             /\ ~request.delimiter => Len(entries) = Len(page) /\ Range(page) \subseteq Range(entries)
  <1> DEFINE D == {i \in DOMAIN page : ~Folded(page, i)}
             places == InOrder(D, FALSE)
             c == Cardinality(D)
             entries == [n \in DOMAIN places |-> page[places[n]]]
  <1>1. page \in Seq(S) /\ DOMAIN page = 1 .. Len(page) /\ Len(page) \in Nat
        /\ \A i \in 1 .. Len(page) : page[i] \in S
    BY DEF PageOf
  <1>2. D \subseteq 1 .. Len(page) /\ D \subseteq Int
    <2>1. D \subseteq DOMAIN page
      OBVIOUS
    <2>2. 1 .. Len(page) \subseteq Int
      OBVIOUS
    <2> HIDE DEF D
    <2> QED
      BY ONLY <1>1, <2>1, <2>2
  <1>3. IsFiniteSet(1 .. Len(page)) /\ Cardinality(1 .. Len(page)) = Len(page)
    <2> PICK n : n = Len(page)
      OBVIOUS
    <2>1. n \in Nat /\ 1 \in Int /\ n \in Int
      BY <1>1
    <2>2. IsFiniteSet(1 .. n) /\ Cardinality(1 .. n) = (IF 1 > n THEN 0 ELSE n - 1 + 1)
      BY ONLY <2>1, FS_Interval
    <2> QED
      BY <2>1, <2>2
  <1> HIDE DEF D
  <1>4. IsFiniteSet(D) /\ c <= Len(page)
    BY ONLY <1>2, <1>3, FS_Subset
  <1>5. /\ c \in Nat /\ places = [i \in 1 .. c |-> places[i]] /\ \A i \in 1 .. c : places[i] \in D
        /\ \A i, j \in 1 .. c : i < j => places[i] < places[j]
        /\ \A x \in D : \E i \in 1 .. c : places[i] = x
    <2>1. /\ c \in Nat /\ places = [i \in 1 .. c |-> places[i]] /\ \A i \in 1 .. c : places[i] \in D
          /\ \A i, j \in 1 .. c : i < j => Precedes(places[i], places[j], FALSE)
          /\ \A x \in D : \E i \in 1 .. c : places[i] = x
      BY ONLY <1>2, <1>4, OrderIsExact
    <2>2. \A x, y : Precedes(x, y, FALSE) <=> x < y
      BY DEF Precedes
    <2> QED
      BY ONLY <2>1, <2>2
  <1> HIDE DEF places, c
  <1>6. DOMAIN places = 1 .. c
    BY ONLY <1>5
  <1>7. \A i \in 1 .. c : places[i] \in 1 .. Len(page)
    BY ONLY <1>2, <1>5
  <1>8. entries = [i \in 1 .. c |-> page[places[i]]]
    BY ONLY <1>6
  <1> HIDE DEF entries
  <1>9. entries \in Seq(S) /\ Len(entries) = c /\ DOMAIN entries = 1 .. c
        /\ \A i \in 1 .. c : entries[i] = page[places[i]]
    <2>1. entries \in [1 .. c -> S]
      BY ONLY <1>1, <1>7, <1>8
    <2>2. c \in Nat
      BY ONLY <1>5
    <2> QED
      BY ONLY <1>8, <2>1, <2>2
  <1>10. Range(entries) \subseteq Range(page)
    BY ONLY <1>1, <1>7, <1>9 DEF Range
  <1>11. ASSUME NEW i \in DOMAIN entries, NEW j \in DOMAIN entries, i < j
         PROVE  Precedes(entries[i], entries[j], backwards)
    <2>1. i \in 1 .. c /\ j \in 1 .. c
      BY ONLY <1>9, i \in DOMAIN entries, j \in DOMAIN entries
    <2>2. /\ places[i] < places[j] /\ places[i] \in DOMAIN page /\ places[j] \in DOMAIN page
          /\ entries[i] = page[places[i]] /\ entries[j] = page[places[j]]
      BY ONLY <1>1, <1>5, <1>7, <1>9, <2>1, <1>11
    <2>3. \A l, m \in DOMAIN page : l < m => Precedes(page[l], page[m], backwards)
      BY DEF PageOf
    <2> QED
      BY ONLY <2>2, <2>3
  <1>12. ASSUME ~request.delimiter
         PROVE  Len(entries) = Len(page) /\ Range(page) \subseteq Range(entries)
    <2>1. D = 1 .. Len(page)
      BY ONLY <1>1, <1>12 DEF D, Folded, InFolder
    <2>2. c = Len(page)
      BY ONLY <1>3, <2>1 DEF c
    <2>3. ASSUME NEW a \in 1 .. Len(page)
          PROVE  page[a] \in Range(entries)
      <3>1. PICK i \in 1 .. c : places[i] = a
        BY ONLY <1>5, <2>1, a \in 1 .. Len(page)
      <3> QED
        BY ONLY <1>9, <3>1 DEF Range
    <2> QED
      BY ONLY <1>1, <1>9, <2>2, <2>3 DEF Range
  <1>13. PageObjects(page) = entries
    BY DEF PageObjects, entries, places, D
  <1> QED
    BY ONLY <1>4, <1>9, <1>10, <1>11, <1>12, <1>13

LEMMA LeastIs ==
  ASSUME NEW T, NEW m \in T, \A x \in T : x \in Int /\ m <= x
  PROVE  Least(T) = m
  <1>1. \E x \in T : \A y \in T : x <= y
    OBVIOUS
  <1>2. Least(T) \in T /\ \A y \in T : Least(T) <= y
    BY ONLY <1>1, Zenon DEF Least
  <1> QED
    BY <1>2

(* What a page may list: what the walk has not passed.                      *)
LEMMA NextKeys ==
  ASSUME ListInv, ~done, ~lost, ~misread
  PROVE  LET S == IF request.reverse THEN Behind ELSE Ahead
         IN  /\ S \subseteq stored \cap Keys \cap Prefixed
             /\ \A x \in S : marker # NoMarker => Precedes(marker, x, request.reverse)
             /\ \A x \in stored \cap Prefixed : x \in S \/ (marker # NoMarker /\ Passed(x))
  <1>1. stored \subseteq Keys /\ Walked /\ Keys \subseteq Int /\ \A x \in Keys : x > 0
    BY ListingAssumption DEF ListInv, Keys
  <1>2. marker = NoMarker \/ marker \in Keys
    BY <1>1 DEF Walked
  <1>3. CASE ~request.reverse
    <2>1. Ahead = {x \in stored \cap Prefixed : x > marker}
      BY ONLY DEF Ahead, Listable
    <2>2. /\ \A x : Precedes(marker, x, request.reverse) <=> marker < x
          /\ \A x : Passed(x) <=> x = marker \/ x < marker
          /\ (IF request.reverse THEN Behind ELSE Ahead) = Ahead
      BY ONLY <1>3 DEF Precedes, Passed
    <2>3. marker \in Int /\ \A x \in Ahead : x \in stored \cap Keys \cap Prefixed /\ marker < x
      <3>1. marker \in Int
        <4>1. CASE marker = NoMarker
          BY ONLY <4>1 DEF NoMarker
        <4>2. CASE marker \in Keys
          BY ONLY <1>1, <4>2
        <4> QED
          BY ONLY <1>2, <4>1, <4>2
      <3>2. ASSUME NEW x \in Ahead
            PROVE  x \in stored \cap Keys \cap Prefixed /\ marker < x
        <4>1. x \in stored /\ x \in Prefixed /\ x > marker
          BY ONLY <2>1, x \in Ahead
        <4>2. x \in Keys /\ x \in Int
          BY ONLY <1>1, <4>1
        <4> QED
          BY ONLY <3>1, <4>1, <4>2
      <3> QED
        BY ONLY <3>1, <3>2
    <2>4. \A x \in stored \cap Prefixed : x \in Ahead \/ (marker # NoMarker /\ Passed(x))
      <3> TAKE x \in stored \cap Prefixed
      <3>1. x \in Int /\ x > 0
        BY ONLY <1>1, x \in stored \cap Prefixed
      <3>2. CASE x > marker
        BY ONLY <2>1, <3>2, x \in stored \cap Prefixed
      <3>3. CASE ~(x > marker)
        BY ONLY <2>2, <2>3, <3>1, <3>3 DEF NoMarker
      <3> QED
        BY ONLY <3>2, <3>3
    <2> QED
      BY ONLY <2>2, <2>3, <2>4
  <1>4. CASE request.reverse /\ marker = NoMarker
    <2>1. (IF request.reverse THEN Behind ELSE Ahead) = stored \cap Prefixed
      BY ONLY <1>4 DEF Behind, Listable
    <2> QED
      BY ONLY <1>1, <1>4, <2>1
  <1>5. CASE request.reverse /\ marker # NoMarker
    <2>1. marker \in stored /\ marker \in Int
      BY <1>1, <1>2, <1>5 DEF Walked
    <2> DEFINE after == {x \in stored : x >= marker}
    <2>2. marker \in after /\ \A x \in after : x \in Int /\ marker <= x
      BY <1>1, <2>1
    <2> HIDE DEF after
    <2>3. Least(after) = marker
      BY ONLY <1>1, <2>1, <2>2, LeastIs
    <2>4. Behind = {x \in stored \cap Prefixed : x < marker}
      BY <1>5, <2>2, <2>3 DEF Behind, Listable, after
    <2>5. /\ \A x : Precedes(marker, x, request.reverse) <=> marker > x
          /\ \A x : Passed(x) <=> x = marker \/ x > marker
          /\ (IF request.reverse THEN Behind ELSE Ahead) = Behind
      BY ONLY <1>5 DEF Precedes, Passed
    <2>6. \A x \in Behind : x \in stored \cap Keys \cap Prefixed /\ marker > x
      BY ONLY <1>1, <2>1, <2>4
    <2>7. \A x \in stored \cap Prefixed : x \in Behind \/ Passed(x)
      <3> TAKE x \in stored \cap Prefixed
      <3>1. x \in Int
        BY ONLY <1>1, x \in stored \cap Prefixed
      <3>2. CASE x < marker
        BY ONLY <2>4, <3>2, x \in stored \cap Prefixed
      <3>3. CASE ~(x < marker)
        BY ONLY <2>1, <2>5, <3>1, <3>3
      <3> QED
        BY ONLY <3>2, <3>3
    <2> QED
      BY ONLY <1>5, <2>5, <2>6, <2>7
  <1> QED
    BY <1>3, <1>4, <1>5

LEMMA JoinedLists ==
  ASSUME NEW T, NEW s \in Seq(T), NEW t \in Seq(T), IsInjective(s), IsInjective(t),
         Range(s) \cap Range(t) = {}
  PROVE  Range(s \o t) = Range(s) \cup Range(t) /\ IsInjective(s \o t)
  <1> PICK u : u = s \o t
    OBVIOUS
  <1>1. /\ Len(s) \in Nat /\ Len(t) \in Nat
        /\ DOMAIN s = 1 .. Len(s) /\ DOMAIN t = 1 .. Len(t)
    OBVIOUS
  <1>2. /\ u \in Seq(T) /\ Len(u) = Len(s) + Len(t)
        /\ \A i \in 1 .. Len(s) + Len(t) : u[i] = IF i <= Len(s) THEN s[i] ELSE t[i - Len(s)]
    BY ConcatProperties
  <1>3. DOMAIN u = 1 .. Len(s) + Len(t)
    BY <1>2
  <1>4. ASSUME NEW i \in DOMAIN u
        PROVE  \/ i \in DOMAIN s /\ u[i] = s[i] /\ u[i] \in Range(s)
               \/ i - Len(s) \in DOMAIN t /\ u[i] = t[i - Len(s)] /\ u[i] \in Range(t)
    BY ONLY <1>1, <1>2, <1>3, i \in DOMAIN u DEF Range
  <1>5. Range(u) \subseteq Range(s) \cup Range(t)
    BY ONLY <1>4 DEF Range
  <1>6. \A i \in DOMAIN s : s[i] \in Range(u)
    BY ONLY <1>1, <1>2, <1>3 DEF Range
  <1>7. ASSUME NEW i \in DOMAIN t
        PROVE  t[i] \in Range(u)
    <2>1. Len(s) + i \in DOMAIN u /\ u[Len(s) + i] = t[i]
      BY ONLY <1>1, <1>2, <1>3, i \in DOMAIN t
    <2> QED
      BY ONLY <2>1 DEF Range
  <1>8. Range(s) \cup Range(t) \subseteq Range(u)
    BY ONLY <1>6, <1>7 DEF Range
  <1>9. ASSUME NEW i \in DOMAIN u, NEW j \in DOMAIN u, u[i] = u[j]
        PROVE  i = j
    <2>1. i \in Int /\ j \in Int /\ Len(s) \in Int
      BY ONLY <1>1, <1>3, i \in DOMAIN u, j \in DOMAIN u
    <2>2. CASE i \in DOMAIN s /\ u[i] = s[i] /\ j \in DOMAIN s /\ u[j] = s[j]
      BY <1>9, <2>2 DEF IsInjective
    <2>3. CASE /\ i - Len(s) \in DOMAIN t /\ u[i] = t[i - Len(s)]
               /\ j - Len(s) \in DOMAIN t /\ u[j] = t[j - Len(s)]
      <3>1. i - Len(s) = j - Len(s)
        BY <1>9, <2>3 DEF IsInjective
      <3> QED
        BY ONLY <2>1, <3>1
    <2> QED
      BY <1>4, <1>9, <2>2, <2>3
  <1> QED
    BY <1>5, <1>8, <1>9 DEF IsInjective

(* A page.                                                                  *)
LEMMA PageStep ==
  ASSUME ListInv, Page, ~lost, ~misread'
  PROVE  ListsOnce' /\ ListsAll' /\ (~done' => Walked')
  <1> DEFINE backwards == request.reverse
             S == IF request.reverse THEN Behind ELSE Ahead
             page == ListKeys
             entries == PageObjects(page)
             next == IF ~Truncated(entries) THEN NoMarker
                     ELSE IF entries = <<>> THEN marker ELSE NextMarker(Last(entries))
  <1>1. /\ listed' = listed \o entries /\ marker' = next /\ done' = ~Truncated(entries)
        /\ misread' = (misread \/ (Truncated(entries) /\ entries # <<>> /\ next # Last(entries)))
        /\ ~done /\ UNCHANGED <<request, stored, kept, lost, changes>>
    BY DEF Page
  <1>2. ~misread /\ (Truncated(entries) /\ entries # <<>> => next = Last(entries))
    BY ONLY <1>1, ~misread', Zenon
  <1>3. /\ stored \subseteq Keys /\ kept \subseteq stored /\ listed \in Seq(Keys)
        /\ ListsOnce /\ Walked /\ backwards \in BOOLEAN
    BY <1>1, <1>2 DEF ListInv, Requests
  <1>4. /\ S \subseteq stored \cap Keys \cap Prefixed
        /\ \A x \in S : marker # NoMarker => Precedes(marker, x, backwards)
        /\ \A x \in stored \cap Prefixed : x \in S \/ (marker # NoMarker /\ Passed(x))
    BY <1>1, <1>2, NextKeys
  <1>5. PageOf(page, S, backwards)
    <2>1. S \subseteq Keys
      BY <1>4
    <2> HIDE DEF S, backwards
    <2>2. LET all == InOrder(S, backwards)
          IN  PageOf(SubSeq(all, 1, IF Len(all) < MaxKeys THEN Len(all) ELSE MaxKeys), S, backwards)
      BY ONLY <1>3, <2>1, PageIsFirst
    <2>3. page = LET all == InOrder(S, backwards)
                 IN  SubSeq(all, 1, IF Len(all) < MaxKeys THEN Len(all) ELSE MaxKeys)
      BY DEF ListKeys, S, backwards
    <2> QED
      BY ONLY <2>2, <2>3
  <1> HIDE DEF S, page
  <1>6. /\ entries \in Seq(S) /\ Len(entries) <= Len(page)
        /\ Range(entries) \subseteq Range(page)
        /\ \A i, j \in DOMAIN entries : i < j => Precedes(entries[i], entries[j], backwards)
        /\ ~request.delimiter => Len(entries) = Len(page) /\ Range(page) \subseteq Range(entries)
    BY ONLY <1>5, ObjectsOfPage
  <1> HIDE DEF entries, next, backwards
  <1>7. /\ \A x \in S : x \in Keys /\ x \in Int /\ x # NoMarker /\ x \in Prefixed /\ x \in stored
        /\ MaxKeys \in Nat /\ MaxKeys >= 1 /\ Keys \subseteq Int
    BY <1>4, ListingAssumption DEF Keys, NoMarker
  <1>8. /\ Len(entries) \in Nat /\ DOMAIN entries = 1 .. Len(entries)
        /\ \A i \in 1 .. Len(entries) : entries[i] \in S
        /\ \A x \in Range(entries) : \E i \in 1 .. Len(entries) : x = entries[i]
    BY ONLY <1>6 DEF Range
  <1>9. entries \in Seq(Keys) /\ Range(entries) \subseteq S
    BY ONLY <1>6, <1>7, <1>8
  <1>10. \A x, y, z \in Int : /\ ~Precedes(x, x, backwards)
                              /\ Precedes(x, y, backwards) /\ Precedes(y, z, backwards)
                                   => Precedes(x, z, backwards)
    BY ONLY <1>3 DEF Precedes
  <1>11. Range(listed) \subseteq Keys
    BY ONLY <1>3 DEF Range
  <1>12. ASSUME NEW x \in Range(listed), NEW y \in S
         PROVE  marker # NoMarker /\ marker \in Int /\ Precedes(x, y, backwards)
    <2>1. marker # NoMarker
      BY ONLY <1>3, x \in Range(listed) DEF Walked, Range
    <2>2. marker \in Int /\ Passed(x)
      BY ONLY <1>3, <1>7, <2>1, x \in Range(listed) DEF Walked
    <2>3. Precedes(marker, y, backwards)
      BY ONLY <1>4, <2>1, y \in S
    <2>4. x \in Int /\ y \in Int
      BY ONLY <1>7, <1>11, x \in Range(listed), y \in S
    <2>5. x = marker \/ Precedes(x, marker, backwards)
      BY ONLY <2>2 DEF Passed, backwards
    <2> QED
      BY ONLY <1>10, <2>1, <2>2, <2>3, <2>4, <2>5
  <1>13. Range(listed') = Range(listed) \cup Range(entries) /\ ListsOnce'
    <2>1. IsInjective(entries)
      <3>1. ASSUME NEW i \in 1 .. Len(entries), NEW j \in 1 .. Len(entries), i < j
            PROVE  entries[i] # entries[j]
        BY ONLY <1>6, <1>7, <1>8, <1>10, <3>1
      <3> QED
        BY ONLY <1>8, <3>1 DEF IsInjective
    <2>2. Range(listed) \cap Range(entries) = {}
      <3>1. ASSUME NEW x \in Range(listed), x \in Range(entries)
            PROVE  FALSE
        BY ONLY <1>7, <1>9, <1>10, <1>12, <3>1
      <3> QED
        BY ONLY <3>1
    <2>3. listed \in Seq(Keys) /\ entries \in Seq(Keys) /\ IsInjective(listed)
      BY ONLY <1>3, <1>9 DEF ListsOnce
    <2> QED
      BY ONLY <1>1, <2>1, <2>2, <2>3, JoinedLists DEF ListsOnce
  <1>14. \A x \in kept \cap Prefixed : x \in S \/ (marker # NoMarker /\ Passed(x))
    BY ONLY <1>3, <1>4
  <1>15. ~request.delimiter =>
            \A x \in kept \cap Prefixed : marker # NoMarker /\ Passed(x) => x \in Range(listed)
    BY ONLY <1>3 DEF Walked
  <1>16. ListsAll'
    <2> SUFFICES ASSUME done', ~request.delimiter, NEW x \in kept \cap Prefixed
                 PROVE  x \in Range(listed')
      BY <1>1 DEF ListsAll, AllSeen
    <2>0. ~Truncated(entries)
      BY ONLY <1>1, done', Zenon
    <2>1. Len(page) < MaxKeys
      <3>1. ~(Len(entries) >= MaxKeys)
        BY ONLY <2>0 DEF Truncated
      <3>2. Len(entries) = Len(page) /\ Len(entries) \in Nat /\ MaxKeys \in Nat
        BY ONLY <1>6, <1>7, <1>8, ~request.delimiter
      <3> QED
        BY ONLY <3>1, <3>2
    <2>2. S \subseteq Range(entries)
      BY ONLY <1>5, <1>6, <2>1, ~request.delimiter DEF PageOf
    <2> QED
      BY ONLY <1>13, <1>14, <1>15, <2>2, ~request.delimiter, x \in kept \cap Prefixed
  <1>17. ASSUME ~done'
         PROVE  Walked'
    <2>0. Truncated(entries)
      BY ONLY <1>1, <1>17, Zenon
    <2>1. Len(page) = MaxKeys /\ Len(entries) = MaxKeys
      <3>1. Len(page) \in Nat /\ Len(page) <= MaxKeys
        BY ONLY <1>5 DEF PageOf
      <3>2. Len(entries) >= MaxKeys
        BY ONLY <2>0 DEF Truncated
      <3>3. Len(entries) <= Len(page) /\ Len(entries) \in Nat /\ MaxKeys \in Nat
        BY ONLY <1>6, <1>7, <1>8
      <3> QED
        BY ONLY <3>1, <3>2, <3>3
    <2>2. Truncated(entries) /\ entries # <<>>
      <3>1. Len(entries) # 0
        BY ONLY <1>7, <2>1
      <3> QED
        BY ONLY <2>0, <3>1
    <2> PICK last : last = entries[MaxKeys]
      OBVIOUS
    <2>3. marker' = last
      BY ONLY <1>1, <1>2, <2>1, <2>2, last = entries[MaxKeys] DEF Last
    <2>4. last \in S /\ last \in Range(entries)
      BY ONLY <1>7, <1>8, <2>1, last = entries[MaxKeys] DEF Range
    <2>5. last \in Keys /\ last \in Int /\ last # NoMarker /\ last \in Prefixed /\ last \in stored
      BY ONLY <1>7, <2>4
    <2>6. \A x : Passed(x)' <=> x = last \/ Precedes(x, last, backwards)
      BY <1>1, <2>3 DEF Passed, backwards
    <2>7. ASSUME NEW x \in Range(listed')
          PROVE  x = last \/ Precedes(x, last, backwards)
      <3>1. CASE x \in Range(listed)
        BY ONLY <1>12, <2>4, <3>1
      <3>2. CASE x \in Range(entries)
        <4>1. PICK i \in 1 .. Len(entries) : x = entries[i]
          BY ONLY <1>8, <3>2
        <4>2. i = MaxKeys \/ i < MaxKeys
          BY ONLY <1>7, <2>1, i \in 1 .. Len(entries)
        <4> QED
          BY ONLY <1>6, <1>7, <1>8, <2>1, <4>1, <4>2, last = entries[MaxKeys]
      <3> QED
        BY ONLY <1>13, <3>1, <3>2, x \in Range(listed')
    <2>8. ASSUME ~request.delimiter, NEW x \in kept \cap Prefixed,
                 x = last \/ Precedes(x, last, backwards)
          PROVE  x \in Range(listed')
      <3>1. CASE marker # NoMarker /\ Passed(x)
        BY ONLY <1>13, <1>15, <2>8, <3>1
      <3>2. CASE x \in S
        <4>1. x \in Range(page) \/ Precedes(page[MaxKeys], x, backwards)
          BY ONLY <1>5, <2>1, <3>2 DEF PageOf
        <4>2. ~Precedes(page[MaxKeys], x, backwards)
          <5>1. page \in Seq(S) /\ DOMAIN page = 1 .. MaxKeys /\ MaxKeys \in 1 .. MaxKeys
            BY ONLY <1>5, <1>7, <2>1 DEF PageOf
          <5>2. PICK j \in 1 .. MaxKeys : last = page[j]
            BY ONLY <1>6, <2>4, <5>1 DEF Range
          <5>3. page[MaxKeys] \in S /\ page[MaxKeys] \in Int
            BY ONLY <1>7, <2>1, <5>1
          <5>4. j < MaxKeys \/ j = MaxKeys
            BY ONLY <1>7, j \in 1 .. MaxKeys
          <5>5. last = page[MaxKeys] \/ Precedes(last, page[MaxKeys], backwards)
            BY ONLY <1>5, <5>1, <5>2, <5>4 DEF PageOf
          <5>6. x \in Int
            BY ONLY <1>7, <3>2
          <5> QED
            BY ONLY <1>10, <2>5, <2>8, <5>3, <5>5, <5>6
        <4> QED
          BY ONLY <1>6, <1>13, <2>8, <4>1, <4>2
      <3> QED
        BY ONLY <1>14, <3>1, <3>2, x \in kept \cap Prefixed
    <2>9. request' = request /\ stored' = stored /\ kept' = kept
      BY <1>1
    <2>10. /\ marker' # NoMarker /\ marker' \in Keys \cap Prefixed /\ marker' \in stored'
           /\ \A x \in Range(listed') : Passed(x)'
           /\ ~request'.delimiter => \A x \in kept' \cap Prefixed : Passed(x)' => x \in Range(listed')
      BY ONLY <2>3, <2>5, <2>6, <2>7, <2>8, <2>9
    <2> QED
      BY ONLY <2>10 DEF Walked
  <1> QED
    BY ONLY <1>13, <1>16, <1>17

(* The types a page keeps.                                                  *)
LEMMA PageTypes ==
  ASSUME ListInv, Page
  PROVE  /\ request' \in Requests /\ stored' \subseteq Keys /\ kept' \subseteq stored'
         /\ listed' \in Seq(Keys) /\ lost' \in BOOLEAN /\ misread' \in BOOLEAN /\ done' \in BOOLEAN
         /\ lost' = lost
  <1>1. /\ stored \subseteq Keys /\ listed \in Seq(Keys) /\ request.reverse \in BOOLEAN
    BY DEF ListInv, Requests
  <1> DEFINE S == IF request.reverse THEN Behind ELSE Ahead
  <1>2. S \subseteq Keys
    BY <1>1 DEF Ahead, Behind, Listable
  <1>3. listed' = listed \o PageObjects(ListKeys) /\ UNCHANGED <<request, stored, kept, lost>>
    BY DEF Page
  <1>4. misread' \in BOOLEAN /\ done' \in BOOLEAN
    BY DEF Page
  <1>5. PageOf(ListKeys, S, request.reverse)
    <2> PICK backwards : backwards = request.reverse
      OBVIOUS
    <2> HIDE DEF S
    <2>1. backwards \in BOOLEAN
      BY <1>1
    <2>2. LET all == InOrder(S, backwards)
          IN  PageOf(SubSeq(all, 1, IF Len(all) < MaxKeys THEN Len(all) ELSE MaxKeys), S, backwards)
      BY ONLY <1>2, <2>1, PageIsFirst
    <2>3. ListKeys = LET all == InOrder(S, request.reverse)
                     IN  SubSeq(all, 1, IF Len(all) < MaxKeys THEN Len(all) ELSE MaxKeys)
      BY DEF ListKeys, S
    <2> QED
      BY ONLY <2>2, <2>3, backwards = request.reverse
  <1>6. PageObjects(ListKeys) \in Seq(S)
    <2> HIDE DEF S
    <2> QED
      BY ONLY <1>5, ObjectsOfPage
  <1>7. PageObjects(ListKeys) \in Seq(Keys)
    <2> PICK entries : entries = PageObjects(ListKeys)
      OBVIOUS
    <2> HIDE DEF S
    <2> QED
      BY ONLY <1>2, <1>6, entries = PageObjects(ListKeys)
  <1>8. listed' \in Seq(Keys)
    BY ONLY <1>1, <1>3, <1>7
  <1> QED
    BY <1>3, <1>4, <1>8 DEF ListInv

LEMMA PageInv ==
  ASSUME ListInv, Page
  PROVE  ListInv'
  <1>1. ~lost' /\ ~misread' => ListsOnce' /\ ListsAll' /\ (~done' => Walked')
    BY PageStep, PageTypes
  <1> QED
    BY ONLY <1>1, ListInv, Page, PageTypes DEF ListInv

(* Others store and delete between two pages.                               *)
LEMMA OthersInv ==
  ASSUME ListInv, ~done, NEW key \in Keys, Put(key) \/ Delete(key)
  PROVE  ListInv'
  <1>1. /\ UNCHANGED <<request, marker, listed, folders, done, misread>>
        /\ kept' \subseteq kept /\ kept' \subseteq stored' /\ stored' \subseteq Keys
        /\ lost' \in BOOLEAN
    BY DEF Put, Delete, ListInv
  <1>2. ListsOnce' <=> ListsOnce
    BY <1>1 DEF ListsOnce, IsInjective
  <1>3. ListsAll'
    BY <1>1 DEF ListsAll
  <1>4. ASSUME ~lost', ~misread'
        PROVE  ~lost /\ ~misread /\ (marker \in stored /\ request.reverse => marker \in stored')
    <2>1. CASE Put(key)
      BY <1>1, <1>4, <2>1 DEF Put
    <2>2. CASE Delete(key)
      <3>1. ~lost /\ ~(request.reverse /\ key = marker) /\ stored' = stored \ {key}
        BY <1>4, <2>2, Zenon DEF Delete
      <3> QED
        BY <1>1, <1>4, <3>1
    <2> QED
      BY <2>1, <2>2
  <1>5. ASSUME ~lost', ~misread'
        PROVE  ListsOnce /\ Walked'
    <2>1. ListsOnce /\ Walked
      BY <1>4, <1>5 DEF ListInv
    <2>2. \A x : Passed(x)' <=> Passed(x)
      BY <1>1 DEF Passed
    <2> QED
      BY <1>1, <1>4, <1>5, <2>1, <2>2 DEF Walked
  <1>6. /\ request' \in Requests /\ listed' \in Seq(Keys) /\ misread' \in BOOLEAN /\ done' \in BOOLEAN
    BY ONLY <1>1, ListInv, Zenon DEF ListInv
  <1> QED
    BY ONLY <1>1, <1>2, <1>3, <1>5, <1>6, Zenon DEF ListInv

(* WalkExact, for any keys, prefixes, folders and page sizes: a walk lists  *)
(* each object once, and without a delimiter it misses none that was there  *)
(* all the time, unless a marker changed its meaning or, backwards, was     *)
(* deleted (list_objects, list_keys).                                       *)
THEOREM WalksAreExact == ListSpec => []WalkExact
  <1>1. ListInv => WalkExact
    BY DEF ListInv, WalkExact
  <1>2. ListInv /\ [ListNext]_listVars => ListInv'
    <2> SUFFICES ASSUME ListInv, [ListNext]_listVars
                 PROVE  ListInv'
      OBVIOUS
    <2>1. CASE Page
      BY <2>1, PageInv
    <2>2. CASE Others
      BY <2>2, OthersInv DEF Others
    <2>3. CASE UNCHANGED listVars
      BY <2>3 DEF listVars, ListInv, ListsOnce, IsInjective, ListsAll, AllSeen, Walked, Passed
    <2> QED
      BY <2>1, <2>2, <2>3 DEF ListNext
  <1> QED
    BY <1>1, <1>2, ListInitInv, PTL DEF ListSpec

--------------------------------------------------------------------------------
(* Downloads.                                                               *)

(* What S3 requests must be like to be let in: signed by the book, with     *)
(* what the code and the book read alike.                                   *)
SignedAlike ==
  \A s \in Signatures :
    /\ s.auth \in {"header", "query"} /\ s.dated = "x-amz-date" /\ s.spaced /\ ~s.runs
    /\ \A i, j \in DOMAIN s.query : i # j => s.query[i].name # s.query[j].name

(* Each object is of a put of its own, and what the client has put together *)
(* is of one put, whose size it has been told.                              *)
Piece(d, p) == <<d.etag, p>>
ObjectsOK ==
  /\ \A n \in Names : objects[n] # Absent =>
        objects[n].put \in 1 .. Len(sent) /\ objects[n].size \in 0 .. MaxSize
  /\ \A n, m \in Names : objects[n] # Absent /\ objects[m] # Absent /\ n # m =>
        objects[n].put # objects[m].put
DownloadOK ==
  download # Absent =>
    /\ download.etag \in 1 .. Len(sent) /\ download.total \in 0 .. MaxSize
    /\ DOMAIN download.got \subseteq 0 .. download.total - 1
    /\ download.got = [p \in DOMAIN download.got |-> Piece(download, p)]
    /\ \A n \in Names : objects[n] # Absent /\ objects[n].put = download.etag =>
          objects[n].size = download.total
AnswerOK == AsAsked /\ (answered.status = "refused" => answered.size > MaxBody)
FrontInv ==
  /\ objects = [n \in Names |-> objects[n]]
  /\ sent \in Seq([front : Fronts, name : Names, size : 0 .. MaxSize])
  /\ ObjectsOK /\ DownloadOK /\ AnswerOK

LEMMA DownloadOKWhole == DownloadOK => OfOnePut
  <1> SUFFICES ASSUME DownloadOK, download # Absent, 0 .. download.total - 1 \subseteq DOMAIN download.got
               PROVE  download.got = [p \in 0 .. download.total - 1 |-> <<download.etag, p>>]
    BY DEF OfOnePut
  <1>1. DOMAIN download.got = 0 .. download.total - 1
    BY DEF DownloadOK
  <1> QED
    BY <1>1 DEF DownloadOK, Piece

LEMMA KeysAreNames ==
  ASSUME NEW front \in Fronts, NEW n \in Names
  PROVE  Key(front, n) \in Names
  BY FrontsAssumption DEF Fronts, Key

LEMMA BytesOfPut ==
  ASSUME NEW o, o.size \in Nat, NEW first \in Nat, NEW last \in Int, last < o.size
  PROVE  /\ DOMAIN Bytes(o, first, last) = first .. last /\ first .. last \subseteq 0 .. o.size - 1
         /\ Bytes(o, first, last) = [p \in first .. last |-> <<o.put, p>>]
  BY DEF Bytes

(* The client keeps pieces of the object it is told of.                     *)
LEMMA Collected ==
  ASSUME ObjectsOK, DownloadOK, NEW n, NEW m \in Names, objects[m] # Absent,
         NEW body, Collect(n, objects[m], body), UNCHANGED <<objects, sent>>,
         DOMAIN body \subseteq 0 .. objects[m].size - 1,
         \A p \in DOMAIN body : body[p] = <<objects[m].put, p>>
  PROVE  DownloadOK'
  <1> DEFINE o == objects[m]
             same == download # Absent /\ download.name = n /\ download.etag = o.put
             have == IF same THEN DOMAIN download.got ELSE {}
             places == DOMAIN body \cup have
             got == [p \in places |-> IF p \in DOMAIN body THEN body[p] ELSE download.got[p]]
  <1>1. /\ download'.etag = o.put /\ download'.total = o.size /\ download'.got = got
    BY DEF Collect
  <1>2. /\ o.put \in 1 .. Len(sent) /\ o.size \in 0 .. MaxSize
    BY DEF ObjectsOK
  <1>3. same => DOMAIN download.got \subseteq 0 .. o.size - 1
                /\ \A p \in DOMAIN download.got : download.got[p] = <<o.put, p>>
    BY DEF DownloadOK, Piece
  <1>4. places \subseteq 0 .. o.size - 1
    BY <1>3
  <1>5. \A p \in places : got[p] = <<o.put, p>>
    BY <1>3
  <1>6. got = [p \in places |-> <<o.put, p>>]
    BY <1>5
  <1>7. DOMAIN got = places
    OBVIOUS
  <1>8. \A l \in Names : objects[l] # Absent /\ objects[l].put = o.put => objects[l].size = o.size
    BY DEF ObjectsOK
  <1> HIDE DEF o, got, places
  <1>9. /\ download'.etag \in 1 .. Len(sent') /\ download'.total \in 0 .. MaxSize
        /\ DOMAIN download'.got \subseteq 0 .. download'.total - 1
        /\ download'.got = [p \in DOMAIN download'.got |-> <<download'.etag, p>>]
    BY <1>1, <1>2, <1>4, <1>6, <1>7
  <1>10. \A l \in Names : objects'[l] # Absent /\ objects'[l].put = download'.etag =>
            objects'[l].size = download'.total
    BY <1>1, <1>8
  <1> QED
    BY <1>9, <1>10 DEF DownloadOK, Piece

(* The range that is answered is the one asked for.                         *)
LEMMA RangeAsAsked ==
  ASSUME NEW r \in Ranges, NEW total \in Nat
  PROVE  LET slice == ParseRangeHeader(r, total)
         IN  /\ slice.kind \in {"full", "none", "part"}
             /\ slice.kind = "none" => Asked(r, total) = {}
             /\ slice.kind = "part" =>
                  /\ slice.from \in Nat /\ slice.to \in Nat
                  /\ slice.from <= slice.to /\ slice.to < total
                  /\ Asked(r, total) = slice.from .. slice.to
  <1> DEFINE slice == ParseRangeHeader(r, total)
  <1>1. r.first = Absent => r.last \in Nat
    BY FrontsAssumption DEF Ranges
  <1>2. r.first # Absent => r.first \in Nat /\ r.last \in Nat \cup {Absent}
    BY FrontsAssumption DEF Ranges
  <1>3. CASE total = 0
    BY <1>3 DEF ParseRangeHeader, Unsatisfiable, Asked
  <1>4. CASE total > 0 /\ r.first = Absent /\ r.last = 0
    BY <1>4 DEF ParseRangeHeader, Unsatisfiable, Asked
  <1>5. CASE total > 0 /\ r.first = Absent /\ r.last # 0
    <2>1. slice = Slice(IF r.last > total THEN 0 ELSE total - r.last, total - 1)
      BY <1>5 DEF ParseRangeHeader
    <2> QED
      BY <1>1, <1>5, <2>1 DEF Slice, Asked
  <1>6. CASE total > 0 /\ r.first # Absent /\ r.first >= total
    BY <1>2, <1>6 DEF ParseRangeHeader, Unsatisfiable, Asked
  <1>7. CASE total > 0 /\ r.first # Absent /\ r.first < total /\ r.last = Absent
    <2>1. slice = Slice(r.first, total - 1)
      BY <1>2, <1>7 DEF ParseRangeHeader
    <2> QED
      BY <1>2, <1>7, <2>1 DEF Slice, Asked
  <1>8. CASE total > 0 /\ r.first # Absent /\ r.first < total /\ r.last # Absent /\ r.last < r.first
    BY <1>2, <1>8 DEF ParseRangeHeader, Whole
  <1>9. CASE total > 0 /\ r.first # Absent /\ r.first < total /\ r.last # Absent /\ r.last >= r.first
    <2>1. slice = Slice(r.first, IF r.last < total THEN r.last ELSE total - 1)
      BY <1>2, <1>9 DEF ParseRangeHeader
    <2> QED
      BY <1>2, <1>9, <2>1 DEF Slice, Asked
  <1> QED
    BY <1>1, <1>2, <1>3, <1>4, <1>5, <1>6, <1>7, <1>8, <1>9

(* The code sorts the parameters of a query by name, the book by name and   *)
(* value: the same if no two have one name.                                 *)
LEMMA SortedAlike ==
  ASSUME NEW query, \A i, j \in DOMAIN query : i # j => query[i].name # query[j].name
  PROVE  CanonicalQuery(query) = SignedQuery(query)
  <1> DEFINE Fewer(j) == {l \in DOMAIN query \ {j} :
               \/ query[l].name < query[j].name
               \/ (l < j /\ ~(query[j].name < query[l].name))}
             Less(j) == {l \in DOMAIN query \ {j} :
               \/ \/ query[l].name < query[j].name
                  \/ query[l].name = query[j].name /\ query[l].value < query[j].value
               \/ (l < j /\ ~(\/ query[j].name < query[l].name
                              \/ query[j].name = query[l].name /\ query[j].value < query[l].value))}
  <1>1. \A j \in DOMAIN query : Fewer(j) = Less(j)
    OBVIOUS
  <1>2. CanonicalQuery(query) = InPlaces(query, [j \in DOMAIN query |-> 1 + Cardinality(Fewer(j))])
    BY DEF CanonicalQuery, Sorted
  <1>3. SignedQuery(query) = InPlaces(query, [j \in DOMAIN query |-> 1 + Cardinality(Less(j))])
    BY DEF SignedQuery, Sorted
  <1> HIDE DEF Fewer, Less
  <1>4. [j \in DOMAIN query |-> 1 + Cardinality(Fewer(j))]
          = [j \in DOMAIN query |-> 1 + Cardinality(Less(j))]
    BY <1>1
  <1> QED
    BY <1>2, <1>3, <1>4

(* A request signed by the book is let in, unless its body is too long.     *)
LEMMA LetIn ==
  ASSUME SignedAlike, NEW s \in Signatures, NEW size \in 0 .. MaxSize, size <= MaxBody
  PROVE  Verified[s][size]
  <1>1. CanonicalQuery(s.query) = SignedQuery(s.query)
    BY SortedAlike DEF SignedAlike
  <1>2. Received(size) = size
    BY FrontsAssumption DEF Received
  <1>3. Timestamp(s) = "iso" /\ s.spaced /\ ~s.runs
    BY DEF SignedAlike, Timestamp
  <1>4. PayloadHash(s, size) = size
    BY <1>2 DEF PayloadHash
  <1>5. (~s.runs) = TRUE
    BY <1>3
  <1>6. s.auth = "header" => VerifyHeaderAuth(s, size, Signature(s, size))
    <2>1. ASSUME s.auth = "header"
          PROVE  Signature(s, size) = StringToSign("iso", CanonicalRequest(s, size))
      <3>1. Signature(s, size)
              = StringToSign("iso", [query |-> SignedQuery(s.query), joined |-> TRUE, payload |-> size])
        BY ONLY <2>1 DEF Signature
      <3>2. CanonicalRequest(s, size)
              = [query |-> CanonicalQuery(s.query), joined |-> ~s.runs, payload |-> size]
        BY ONLY DEF CanonicalRequest
      <3> QED
        BY ONLY <1>1, <1>5, <3>1, <3>2, Zenon
    <2> QED
      BY <1>3, <1>4, <2>1 DEF VerifyHeaderAuth
  <1>7. s.auth = "query" => VerifyQueryAuth(s, Signature(s, size))
    <2>1. ASSUME s.auth = "query"
          PROVE  Signature(s, size) = StringToSign("iso", CanonicalRequest(s, "unsigned"))
      <3>1. Signature(s, size)
              = StringToSign("iso", [query |-> SignedQuery(s.query), joined |-> TRUE, payload |-> "unsigned"])
        BY ONLY <2>1 DEF Signature
      <3>2. CanonicalRequest(s, "unsigned")
              = [query |-> CanonicalQuery(s.query), joined |-> ~s.runs, payload |-> "unsigned"]
        BY ONLY DEF CanonicalRequest
      <3> QED
        BY ONLY <1>1, <1>5, <3>1, <3>2, Zenon
    <2> QED
      BY <2>1 DEF VerifyQueryAuth
  <1>8. s.auth = "header" \/ s.auth = "query"
    BY DEF SignedAlike
  <1>9. Verified[s][size] = (\/ s.auth = "header" /\ VerifyHeaderAuth(s, size, Signature(s, size))
                             \/ s.auth = "query" /\ VerifyQueryAuth(s, Signature(s, size)))
    BY DEF Verified
  <1> QED
    BY ONLY <1>6, <1>7, <1>8, <1>9, Zenon

LEMMA FrontInitInv == FrontInit => FrontInv
  <1> SUFFICES ASSUME FrontInit
               PROVE  FrontInv
    OBVIOUS
  <1>1. ObjectsOK /\ DownloadOK
    BY DEF FrontInit, ObjectsOK, DownloadOK
  <1>2. AnswerOK
    BY DEF FrontInit, AnswerOK, AsAsked, NoAnswer
  <1> QED
    BY <1>1, <1>2 DEF FrontInit, FrontInv

(* No answer is to be looked at.                                            *)
LEMMA Unanswered ==
  ASSUME answered' = NoAnswer
  PROVE  AnswerOK'
  BY DEF AnswerOK, AsAsked, NoAnswer

LEMMA RefusedOK ==
  ASSUME FrontInv, NEW size, size > MaxBody, Refuse(size)
  PROVE  FrontInv'
  <1>1. AnswerOK'
    BY DEF Refuse, AnswerOK, AsAsked
  <1> QED
    BY <1>1 DEF Refuse, FrontInv, ObjectsOK, DownloadOK

(* A put is nobody else's, and of no object that a client has begun with.   *)
LEMMA Stored ==
  ASSUME FrontInv, NEW front \in Fronts, NEW n \in Names, NEW size \in 0 .. MaxSize,
         NEW held \in 0 .. MaxSize, Store(front, n, size, held)
  PROVE  FrontInv'
  <1> DEFINE key == Key(front, n)
             new == Len(sent) + 1
  <1>1. key \in Names
    BY KeysAreNames
  <1>2. /\ objects' = [objects EXCEPT ![key] = [put |-> new, size |-> held]]
        /\ sent' = Append(sent, [front |-> front, name |-> n, size |-> size])
        /\ answered' = NoAnswer /\ download' = download
    BY DEF Store
  <1>3. sent' \in Seq([front : Fronts, name : Names, size : 0 .. MaxSize]) /\ Len(sent') = new
        /\ Len(sent) \in Nat
    BY <1>2 DEF FrontInv
  <1>4. objects' = [m \in Names |-> objects'[m]]
        /\ \A m \in Names : objects'[m] = IF m = key THEN [put |-> new, size |-> held] ELSE objects[m]
    BY <1>1, <1>2 DEF FrontInv
  <1> HIDE DEF key, new
  <1>5. new = Len(sent) + 1
    BY DEF new
  <1> PICK o : o = [put |-> new, size |-> held]
    OBVIOUS
  <1>6. o.put = new /\ o.size = held /\ \A m \in Names : objects'[m] = IF m = key THEN o ELSE objects[m]
    BY <1>4
  <1>7. ObjectsOK'
    <2>1. ObjectsOK
      BY DEF FrontInv
    <2>2. \A m \in Names : objects'[m] # Absent =>
             objects'[m].put \in 1 .. Len(sent') /\ objects'[m].size \in 0 .. MaxSize
      BY ONLY <2>1, <1>3, <1>5, <1>6, held \in 0 .. MaxSize DEF ObjectsOK
    <2>3. \A m \in Names : objects[m] # Absent => objects[m].put # new
      BY ONLY <2>1, <1>3, <1>5 DEF ObjectsOK
    <2>4. \A l, m \in Names : objects'[l] # Absent /\ objects'[m] # Absent /\ l # m =>
             objects'[l].put # objects'[m].put
      BY ONLY <2>1, <2>3, <1>6 DEF ObjectsOK
    <2> QED
      BY ONLY <2>2, <2>4 DEF ObjectsOK
  <1>8. DownloadOK'
    <2> SUFFICES ASSUME download # Absent
                 PROVE  DownloadOK'
      BY <1>2 DEF DownloadOK
    <2>1. DownloadOK
      BY DEF FrontInv
    <2>2. download.etag \in 1 .. Len(sent') /\ download.etag # new
      BY ONLY <2>1, <1>3, <1>5, download # Absent DEF DownloadOK
    <2>3. \A m \in Names : objects'[m] # Absent /\ objects'[m].put = download.etag =>
             objects'[m].size = download.total
      BY ONLY <2>1, <2>2, <1>6, download # Absent DEF DownloadOK
    <2> QED
      BY ONLY <2>1, <2>2, <2>3, <1>2, download # Absent DEF DownloadOK, Piece
  <1> QED
    BY <1>2, <1>3, <1>4, <1>7, <1>8, Unanswered DEF FrontInv

(* Objects that are gone tell nobody anything.                              *)
LEMMA Removed ==
  ASSUME FrontInv, objects' = [n \in Names |-> objects'[n]],
         \A n \in Names : objects'[n] \in {objects[n], Absent},
         answered' = NoAnswer, UNCHANGED <<sent, download>>
  PROVE  FrontInv'
  <1>1. ObjectsOK'
    BY DEF FrontInv, ObjectsOK
  <1>2. DownloadOK'
    BY DEF FrontInv, DownloadOK, Piece
  <1> QED
    BY <1>1, <1>2, Unanswered DEF FrontInv

LEMMA Found ==
  ASSUME FrontInv, NEW n, NEW m \in Names, objects[m] # Absent, NEW body,
         Collect(n, objects[m], body), UNCHANGED <<objects, sent>>, AnswerOK',
         DOMAIN body \subseteq 0 .. objects[m].size - 1,
         \A p \in DOMAIN body : body[p] = <<objects[m].put, p>>
  PROVE  FrontInv'
  <1>1. DownloadOK'
    BY Collected DEF FrontInv
  <1> QED
    BY <1>1 DEF FrontInv, ObjectsOK

LEMMA Unfound ==
  ASSUME FrontInv, NotFound
  PROVE  FrontInv'
  BY Unanswered DEF FrontInv, NotFound, ObjectsOK, DownloadOK

LEMMA WholeObject ==
  ASSUME FrontInv, NEW m \in Names, objects[m] # Absent
  PROVE  LET body == Bytes(objects[m], 0, objects[m].size - 1)
         IN  /\ DOMAIN body \subseteq 0 .. objects[m].size - 1
             /\ \A p \in DOMAIN body : body[p] = <<objects[m].put, p>>
  <1>1. objects[m].size \in Nat
    BY FrontsAssumption DEF FrontInv, ObjectsOK
  <1> PICK o, last : o = objects[m] /\ last = objects[m].size - 1
    OBVIOUS
  <1>2. o.size \in Nat /\ 0 \in Nat /\ last \in Int /\ last < o.size /\ last = o.size - 1
    BY <1>1
  <1>3. /\ DOMAIN Bytes(o, 0, last) = 0 .. last /\ 0 .. last \subseteq 0 .. o.size - 1
        /\ Bytes(o, 0, last) = [p \in 0 .. last |-> <<o.put, p>>]
    BY <1>2 DEF Bytes
  <1>4. \A p \in DOMAIN Bytes(o, 0, last) : Bytes(o, 0, last)[p] = <<o.put, p>>
    BY ONLY <1>3
  <1> QED
    BY <1>3, <1>4

LEMMA RangeRead ==
  ASSUME FrontInv, SignedAlike, NEW n \in Names, NEW s \in Signatures, NEW r \in Ranges,
         S3GetObject(Verified[s][0], n, r)
  PROVE  FrontInv'
  <1>1. Verified[s][0]
    BY LetIn, FrontsAssumption
  <1>2. CASE Missing("s3", n) /\ NotFound
    BY <1>2, Unfound
  <1> DEFINE o == objects[S3Key(n)]
             slice == ParseRangeHeader(r, o.size)
             body == CASE slice.kind = "part" -> Bytes(o, slice.from, slice.to)
                       [] slice.kind = "full" -> Bytes(o, 0, o.size - 1)
                       [] slice.kind = "none" -> <<>>
  <1>3. ASSUME ~Missing("s3", n)
        PROVE  FrontInv'
    <2>1. /\ answered' = RangeAnswer(slice.kind, r, o, body)
          /\ IF slice.kind = "none" THEN UNCHANGED download ELSE Collect(n, o, body)
          /\ UNCHANGED <<objects, sent>>
      BY <1>1, <1>3 DEF S3GetObject
    <2>2. S3Key(n) \in Names /\ o # Absent
      BY <1>3, FrontsAssumption DEF Missing, Key
    <2>3. o.size \in Nat
      BY <2>2, FrontsAssumption DEF FrontInv, ObjectsOK
    <2>4. /\ slice.kind \in {"full", "none", "part"}
          /\ slice.kind = "none" => Asked(r, o.size) = {}
          /\ slice.kind = "part" =>
               /\ slice.from \in Nat /\ slice.to \in Nat
               /\ slice.from <= slice.to /\ slice.to < o.size
               /\ Asked(r, o.size) = slice.from .. slice.to
      BY <2>3, RangeAsAsked
    <2> HIDE DEF slice
    <2>5. /\ slice.kind = "part" => body = Bytes(o, slice.from, slice.to)
          /\ slice.kind = "full" => body = Bytes(o, 0, o.size - 1)
          /\ slice.kind = "none" => body = <<>>
      OBVIOUS
    <2> HIDE DEF body
    <2>6. /\ DOMAIN body \subseteq 0 .. o.size - 1
          /\ \A p \in DOMAIN body : body[p] = <<o.put, p>>
      <3>1. CASE slice.kind = "part"
        BY <2>3, <2>4, <2>5, <3>1, BytesOfPut
      <3>2. CASE slice.kind = "full"
        BY <2>2, <2>5, <3>2, WholeObject
      <3>3. CASE slice.kind = "none"
        BY <2>5, <3>3
      <3> QED
        BY <2>4, <3>1, <3>2, <3>3
    <2>7. slice.kind = "part" => DOMAIN body = slice.from .. slice.to
      BY <2>3, <2>4, <2>5, BytesOfPut
    <2>8. slice.kind = "none" => DOMAIN body = {}
      BY <2>5
    <2>9. AnswerOK'
      <3>1. answered'.status = slice.kind /\ answered'.range = r /\ answered'.total = o.size
            /\ answered'.body = DOMAIN body
        BY <2>1 DEF RangeAnswer
      <3>2. slice.kind = "part" => DOMAIN body # {}
        BY <2>4, <2>7
      <3>3. AsAsked'
        BY <2>4, <2>7, <2>8, <3>1, <3>2 DEF AsAsked
      <3> QED
        BY <2>4, <3>1, <3>3 DEF AnswerOK
    <2>10. CASE slice.kind = "none"
      BY <2>1, <2>9, <2>10 DEF FrontInv, ObjectsOK, DownloadOK
    <2>11. CASE slice.kind # "none"
      BY <2>1, <2>2, <2>6, <2>9, <2>11, Found
    <2> QED
      BY <2>10, <2>11
  <1> QED
    BY <1>1, <1>2, <1>3 DEF S3GetObject

LEMMA FrontNextInv ==
  ASSUME FrontInv, SignedAlike, [FrontNext]_frontVars
  PROVE  FrontInv'
  <1>1. CASE UNCHANGED frontVars
    BY <1>1 DEF frontVars, FrontInv, ObjectsOK, DownloadOK, AnswerOK, AsAsked, Piece
  <1>2. ASSUME NEW n \in Names, NEW front \in Fronts, DeleteObject(front, n)
        PROVE  FrontInv'
    <2>1. /\ objects' = [m \in Names |-> objects'[m]]
          /\ \A m \in Names : objects'[m] \in {objects[m], Absent}
          /\ answered' = NoAnswer /\ UNCHANGED <<sent, download>>
      BY <1>2, KeysAreNames DEF DeleteObject, FrontInv
    <2> QED
      BY <2>1, Removed
  <1>3. ASSUME DeleteBucket
        PROVE  FrontInv'
    <2>1. /\ objects' = [m \in Names |-> objects'[m]]
          /\ \A m \in Names : objects'[m] \in {objects[m], Absent}
          /\ answered' = NoAnswer /\ UNCHANGED <<sent, download>>
      BY <1>3 DEF DeleteBucket, FrontInv
    <2> QED
      BY <2>1, Removed
  <1>4. ASSUME NEW n \in Names, NEW front \in Fronts, AskHead(front, n)
        PROVE  FrontInv'
    <2>1. CASE NotFound
      BY <2>1, Unfound
    <2>2. CASE ~Missing(front, n) /\ ~NotFound
      <3>1. Key(front, n) \in Names /\ objects[Key(front, n)] # Absent
        BY <2>2, KeysAreNames DEF Missing
      <3>2. Collect(n, objects[Key(front, n)], <<>>) /\ UNCHANGED <<objects, sent>> /\ AnswerOK'
        BY <1>4, <2>2, Unanswered DEF AskHead
      <3> PICK key, body : key = Key(front, n) /\ body = <<>>
        OBVIOUS
      <3>3. DOMAIN body = {}
        OBVIOUS
      <3>4. /\ Collect(n, objects[key], body) /\ DOMAIN body \subseteq 0 .. objects[key].size - 1
            /\ \A p \in DOMAIN body : body[p] = <<objects[key].put, p>>
        BY <3>2, <3>3
      <3> QED
        BY <3>1, <3>2, <3>4, Found
    <2> QED
      BY <1>4, <2>1, <2>2 DEF AskHead
  <1>5. ASSUME NEW n \in Names, NEW front \in Fronts, AskWhole(front, n)
        PROVE  FrontInv'
    <2>1. CASE NotFound
      BY <2>1, Unfound
    <2>2. CASE ~Missing(front, n) /\ ~NotFound
      <3>1. Key(front, n) \in Names /\ objects[Key(front, n)] # Absent
        BY <2>2, KeysAreNames DEF Missing
      <3> PICK key : key = Key(front, n)
        OBVIOUS
      <3>2. /\ Collect(n, objects[key], Bytes(objects[key], 0, objects[key].size - 1))
            /\ UNCHANGED <<objects, sent>> /\ AnswerOK'
        BY <1>5, <2>2, Unanswered DEF AskWhole
      <3> QED
        BY <3>1, <3>2, Found, WholeObject
    <2> QED
      BY <1>5, <2>1, <2>2 DEF AskWhole
  <1>6. ASSUME NEW n \in Names, NEW front \in Fronts, NEW size \in 0 .. MaxSize,
               PutObject(front, n, size)
        PROVE  FrontInv'
    BY <1>6, Stored DEF PutObject
  <1>7. ASSUME NEW n \in Names, NEW s \in Signatures, NEW size \in 0 .. MaxSize,
               S3PutObject(s, n, size)
        PROVE  FrontInv'
    <2>1. Received(size) \in 0 .. MaxSize
      BY FrontsAssumption DEF Received
    <2>2. CASE Store("s3", n, size, Received(size))
      BY <2>1, <2>2, Stored DEF Fronts
    <2>3. CASE ~Verified[s][size] /\ Refuse(size)
      <3>1. size > MaxBody
        BY <2>3, LetIn, FrontsAssumption
      <3> QED
        BY <2>3, <3>1, RefusedOK
    <2> QED
      BY <1>7, <2>2, <2>3 DEF S3PutObject
  <1>8. ASSUME NEW n \in Names, NEW verified \in {Verified[s][0] : s \in Signatures},
               NEW r \in Ranges, S3GetObject(verified, n, r)
        PROVE  FrontInv'
    BY <1>8, RangeRead
  <1> QED
    BY <1>1, <1>2, <1>3, <1>4, <1>5, <1>6, <1>7, <1>8 DEF FrontNext

(* DownloadsWhole, when every S3 request is signed by the book, its query   *)
(* names no parameter twice, and its headers are as the code reads them: a  *)
(* download put together from ranges is what one put stored, a range gets   *)
(* the bytes it asks for, and only a body that is too long is turned away   *)
(* (s3_dispatch, get_object_handler_inner, parse_range_header of s3.rs).    *)
THEOREM DownloadsStayWhole ==
  ASSUME SignedAlike
  PROVE  FrontSpec => []DownloadsWhole
  <1>1. FrontInv => DownloadsWhole
    BY DownloadOKWhole DEF FrontInv, DownloadsWhole, AnswerOK
  <1>2. FrontInv /\ [FrontNext]_frontVars => FrontInv'
    BY FrontNextInv
  <1> QED
    BY <1>1, <1>2, FrontInitInv, PTL DEF FrontSpec

--------------------------------------------------------------------------------
(* Sessions and permissions.                                                *)

\* A token is there exactly as long as nothing has taken it back, and expires
\* when its time is over.
Given == [at : Nat, out : BOOLEAN]
SessionInv ==
    /\ now \in Nat
    /\ logins \in Seq(Given)
    /\ DOMAIN tokens = {t \in DOMAIN logins : ~logins[t].out}
    /\ \A t \in DOMAIN tokens : tokens[t] = logins[t].at + Ttl

\* What a request being served, or turned away, went through.
CallOK(c) ==
    call[c] # None =>
        /\ call[c] = [request |-> call[c].request, live |-> call[c].live, field |-> call[c].field,
                      read |-> call[c].read]
        /\ call[c].request \in Requested
        /\ AsksSession(call[c].request) => call[c].live
        /\ rule # NoRule =>
              \A asked \in Asks(call[c].request) : ~Covers(rule.denied, asked.action)

DecidedInv ==
    /\ SessionInv
    /\ rule \in Rules \cup {NoRule}
    /\ call = [c \in Callers |-> call[c]]
    /\ \A c \in Callers : CallOK(c)
    /\ reply # None /\ reply.status = "unauthenticated" => ~reply.live
    /\ reply # None /\ reply.status = "denied" =>
          \E asked \in Asks(reply.request) : ~CheckPermission(rule, asked)

\* A session is good for the access layer exactly as long as it lasts.
LEMMA SessionsKnown ==
    ASSUME SessionInv, NEW token
    PROVE  ValidateToken(token) <=> Live(token)
  <1>1. ASSUME token \in DOMAIN tokens
        PROVE  /\ token \in DOMAIN logins /\ ~logins[token].out
               /\ tokens[token] = logins[token].at + Ttl
               /\ logins[token].at \in Nat
    <2>1. token \in DOMAIN logins /\ ~logins[token].out /\ tokens[token] = logins[token].at + Ttl
      BY <1>1 DEF SessionInv
    <2>2. logins \in Seq(Given)
      BY DEF SessionInv
    <2>3. logins[token] \in Given
      BY <2>1, <2>2, LenProperties
    <2> QED
      BY <2>1, <2>3 DEF Given
  <1>2. token \in DOMAIN logins /\ ~logins[token].out => token \in DOMAIN tokens
    BY DEF SessionInv
  <1> QED
    BY <1>1, <1>2, AccessAssumption DEF ValidateToken, IsExpired, Live, SessionInv

\* What a narrower rule permits for the tables, and at all, the wider one does.
LEMMA NarrowerTables ==
    ASSUME NEW w, NEW v, NEW asked, CheckTablePermission(v, asked),
           NarrowedNames(w.schemas, v.schemas), w.notSchemas \subseteq v.notSchemas,
           NarrowedNames(w.tables, v.tables), w.notTables \subseteq v.notTables
    PROVE  CheckTablePermission(w, asked)
  BY DEF CheckTablePermission, Listed, NarrowedNames

LEMMA NarrowerRefuses ==
    ASSUME NEW p, NEW n, NEW asked, n # NoRule, Narrower(n, p), ~CheckPermission(p, asked)
    PROVE  ~CheckPermission(n, asked)
  <1>1. p # NoRule
    BY DEF CheckPermission
  <1>2. CASE Covers(p.denied, asked.action)
    BY <1>2 DEF CheckPermission, Narrower, Covers
  <1>3. CASE ~Covers(p.denied, asked.action) /\ Covers(p.allowed, asked.action)
    <2>1. PICK w \in p.within : ~CheckTablePermission(w, asked)
      BY <1>1, <1>3 DEF CheckPermission
    <2>2. PICK v \in n.within :
            /\ NarrowedNames(w.schemas, v.schemas) /\ w.notSchemas \subseteq v.notSchemas
            /\ NarrowedNames(w.tables, v.tables) /\ w.notTables \subseteq v.notTables
      BY DEF Narrower
    <2>3. ~CheckTablePermission(v, asked)
      BY <2>1, <2>2, NarrowerTables
    <2>4. Covers(n.allowed, asked.action)
      BY <1>3 DEF Narrower
    <2> QED
      BY <2>3, <2>4 DEF CheckPermission
  <1>4. CASE ~Covers(p.denied, asked.action) /\ ~Covers(p.allowed, asked.action)
    <2>1. p.default # "allow"
      BY <1>1, <1>4 DEF CheckPermission
    <2> QED
      BY <1>4, <2>1 DEF CheckPermission, Narrower
  <1> QED
    BY <1>2, <1>3, <1>4

LEMMA SessionNextInv ==
    ASSUME SessionInv, SessionNext \/ UNCHANGED sessionVars
    PROVE  SessionInv'
  <1> USE AccessAssumption DEF SessionInv
  <1>0. /\ DOMAIN logins = 1 .. Len(logins) /\ Len(logins) \in Nat
        /\ \A t \in DOMAIN logins : logins[t] \in Given
    BY LenProperties
  <1>1. ASSUME NEW right \in BOOLEAN, Login(right)
        PROVE  SessionInv'
    <2>1. CASE ~right
      BY <1>1, <2>1 DEF Login
    <2>2. CASE right
      <3> DEFINE new == Len(logins) + 1  it == [at |-> now, out |-> FALSE]
      <3>1. /\ tokens' = With(tokens, new, now + Ttl)
            /\ logins' = Append(logins, it) /\ now' = now
        BY <1>1, <2>2 DEF Login
      <3>2. /\ logins' \in Seq(Given) /\ DOMAIN logins' = DOMAIN logins \cup {new}
            /\ logins'[new] = it /\ \A t \in DOMAIN logins : logins'[t] = logins[t]
            /\ new \notin DOMAIN logins
        <4>1. it \in Given
          BY DEF Given
        <4> HIDE DEF it
        <4> QED
          BY <1>0, <3>1, <4>1, AppendProperties, LenProperties
      <3>3. /\ DOMAIN tokens' = {new} \cup DOMAIN tokens /\ new \notin DOMAIN tokens
            /\ tokens'[new] = now + Ttl /\ \A t \in DOMAIN tokens : tokens'[t] = tokens[t]
        BY <3>1, <3>2 DEF With
      <3> HIDE DEF new
      <3>4. ~logins'[new].out /\ logins'[new].at = now
        BY <3>2
      <3>5. \A t : t \in DOMAIN tokens' <=> t \in DOMAIN logins' /\ ~logins'[t].out
        BY <3>2, <3>3, <3>4
      <3>6. DOMAIN tokens' = {t \in DOMAIN logins' : ~logins'[t].out}
        BY <3>2, <3>5
      <3>7. \A t \in DOMAIN tokens' : tokens'[t] = logins'[t].at + Ttl
        BY <3>2, <3>3, <3>4
      <3> QED
        BY <3>1, <3>2, <3>6, <3>7
    <2> QED
      BY <2>1, <2>2
  <1>2. ASSUME NEW front, NEW session, NEW token, Logout(front, session, token)
        PROVE  SessionInv'
    <2>1. CASE UNCHANGED <<tokens, logins>>
      BY <1>2, <2>1 DEF Logout
    <2>2. CASE /\ tokens' = [t \in DOMAIN tokens \ {token} |-> tokens[t]]
               /\ logins' = [logins EXCEPT ![token].out = TRUE]
      <3>1. token \in DOMAIN logins /\ now' = now
        BY <1>2 DEF Logout
      <3>2. /\ logins' \in Seq(Given) /\ DOMAIN logins' = DOMAIN logins
            /\ logins'[token].out /\ \A t \in DOMAIN logins : logins'[t].at = logins[t].at
            /\ \A t \in DOMAIN logins \ {token} : logins'[t] = logins[t]
        <4> DEFINE it == [logins[token] EXCEPT !.out = TRUE]
        <4>1. it \in Given /\ it.out /\ it.at = logins[token].at
          BY <1>0, <3>1 DEF Given
        <4>2. logins' = [logins EXCEPT ![token] = it]
          BY <2>2
        <4> HIDE DEF it
        <4> QED
          BY <1>0, <3>1, <4>1, <4>2, ExceptSeq, LenProperties
      <3> QED
        BY <2>2, <3>1, <3>2
    <2> QED
      BY <1>2, <2>1, <2>2 DEF Logout
  <1>3. CASE Tick \/ UNCHANGED sessionVars
    <2>1. UNCHANGED <<tokens, logins>> /\ now' \in Nat
      BY <1>3 DEF Tick, sessionVars
    <2> QED
      BY <2>1
  <1>4. CASE Restart
    <2>1. /\ tokens' = <<>> /\ now' = now
          /\ logins' = [t \in DOMAIN logins |-> [logins[t] EXCEPT !.out = TRUE]]
      BY <1>4 DEF Restart
    <2>2. /\ DOMAIN logins' = DOMAIN logins /\ \A t \in DOMAIN logins : logins'[t].out
          /\ logins' \in Seq(Given)
      <3>1. \A t \in DOMAIN logins : /\ [logins[t] EXCEPT !.out = TRUE] \in Given
                                     /\ [logins[t] EXCEPT !.out = TRUE].out
        BY <1>0 DEF Given
      <3>2. DOMAIN logins' = DOMAIN logins /\ \A t \in DOMAIN logins : logins'[t].out /\ logins'[t] \in Given
        BY <2>1, <3>1
      <3>3. logins' \in [1 .. Len(logins) -> Given]
        BY <1>0, <2>1, <3>2
      <3> QED
        BY <1>0, <3>2, <3>3
    <2>3. DOMAIN tokens' = {}
      BY <2>1
    <2> QED
      BY <2>1, <2>2, <2>3
  <1>5. SessionNext => \/ \E right \in BOOLEAN : Login(right)
                       \/ \E front, session, token : Logout(front, session, token)
                       \/ Tick \/ Restart
    BY DEF SessionNext
  <1> HIDE DEF SessionInv
  <1> QED
    BY <1>1, <1>2, <1>3, <1>4, <1>5

\* A step of a request that is being served answers it, or goes on with it as
\* it was, and answers nothing that was turned away.
ServeStep(c) ==
    /\ UNCHANGED <<rule, sessionVars>>
    /\ call[c] # None
    /\ \/ call' = [call EXCEPT ![c] = None] /\ reply'.status \notin {"unauthenticated", "denied"}
       \/ /\ reply' = reply
          /\ \E f, r : call' = [call EXCEPT ![c].field = f, ![c].read = r]

LEMMA Served ==
    ASSUME NEW c \in Callers, Serve(c)
    PROVE  ServeStep(c)
  <1> USE DEF ServeStep, Reply, Done, ReplyTo, Fails, At, dataVars
  <1>1. CASE CreateTable(c)
    BY <1>1 DEF CreateTable
  <1>2. CASE DropTable(c)
    BY <1>2 DEF DropTable
  <1>3. CASE ReadColumns(c)
    <2>1. PICK f, r : \/ call' = [call EXCEPT ![c].field = f, ![c].read = r] /\ reply' = reply
                      \/ Fails(c)
      BY <1>3 DEF ReadColumns
    <2>2. UNCHANGED <<rule, sessionVars>> /\ call[c] # None
      BY <1>3 DEF ReadColumns
    <2>3. CASE Fails(c)
      BY <2>2, <2>3
    <2> QED
      BY <2>1, <2>2, <2>3
  <1>4. CASE AddRow(c)
    BY <1>4 DEF AddRow
  <1>5. CASE PutPair(c)
    BY <1>5 DEF PutPair
  <1>6. CASE DeletePair(c)
    BY <1>6 DEF DeletePair
  <1>7. CASE GetPair(c)
    BY <1>7 DEF GetPair
  <1>8. CASE SqlQuery(c)
    BY <1>8 DEF SqlQuery
  <1>9. CASE Forward(c)
    BY <1>9 DEF Forward
  <1>10. ASSUME NEW id \in 1 .. MaxRows, UpdateRow(c, id)
         PROVE  ServeStep(c)
    BY <1>10 DEF UpdateRow
  <1>11. ASSUME NEW id \in 1 .. MaxRows, DeleteRow(c, id)
         PROVE  ServeStep(c)
    BY <1>11 DEF DeleteRow
  <1> QED
    BY <1>1, <1>2, <1>3, <1>4, <1>5, <1>6, <1>7, <1>8, <1>9, <1>10, <1>11 DEF Serve

LEMMA DecidedInitInv == AccessInit => DecidedInv
  BY DEF AccessInit, DecidedInv, SessionInv, CallOK

LEMMA DecidedNextInv ==
    ASSUME DecidedInv, [AccessNext]_accessVars
    PROVE  DecidedInv'
  <1> USE DEF DecidedInv
  <1>1. CASE SessionNext
    <2>1. /\ SessionInv' /\ rule' = rule /\ (reply' = None \/ reply' = reply)
          /\ (call' = call \/ call' = [c \in Callers |-> None])
      BY <1>1, SessionNextInv DEF SessionNext, Login, Logout, Tick, Restart, dataVars
    <2> QED
      BY <2>1 DEF CallOK
  <1>2. ASSUME NEW c \in Callers, Serve(c)
        PROVE  DecidedInv'
    <2>1. ServeStep(c)
      BY <1>2, Served
    <2>2. SessionInv' /\ rule' = rule
      BY <2>1, SessionNextInv DEF ServeStep
    <2>3. CASE call' = [call EXCEPT ![c] = None] /\ reply'.status \notin {"unauthenticated", "denied"}
      BY <2>2, <2>3 DEF CallOK
    <2>4. ASSUME NEW f, NEW r, call' = [call EXCEPT ![c].field = f, ![c].read = r], reply' = reply
          PROVE  DecidedInv'
      <3>1. call[c] # None /\ CallOK(c)
        BY <2>1 DEF ServeStep
      <3>2. /\ call' = [d \in Callers |-> call'[d]] /\ \A d \in Callers \ {c} : call'[d] = call[d]
            /\ call'[c] = [call[c] EXCEPT !.field = f, !.read = r]
        BY <2>4
      <3>3. call'[c] = [request |-> call[c].request, live |-> call[c].live, field |-> f, read |-> r]
        BY <3>1, <3>2 DEF CallOK
      <3>4. CallOK(c)'
        BY <2>2, <3>1, <3>3 DEF CallOK
      <3> QED
        BY <2>2, <2>4, <3>2, <3>4 DEF CallOK
    <2> QED
      BY <2>1, <2>3, <2>4 DEF ServeStep
  <1>3. ASSUME NEW c \in Callers, NEW r \in Requested, NEW token \in Tokens, Arrive(c, r, token)
        PROVE  DecidedInv'
    <2>1. UNCHANGED <<rule, sessionVars>> /\ SessionInv'
      BY <1>3, SessionNextInv DEF Arrive
    <2>2. CASE /\ AsksSession(r) /\ ~ValidateToken(token) /\ call' = call
               /\ reply' = [ReplyTo("unauthenticated", r) EXCEPT !.live = Live(token)]
      <3>1. ~reply'.live /\ reply'.status = "unauthenticated"
        BY <2>2, SessionsKnown DEF ReplyTo
      <3> QED
        BY <2>1, <2>2, <3>1 DEF CallOK
    <2>3. CASE /\ \E asked \in Asks(r) : ~CheckPermission(rule, asked)
               /\ call' = call
               /\ reply' = [ReplyTo("denied", r) EXCEPT !.live = Live(token)]
      <3>1. reply'.request = r /\ reply'.status = "denied"
        BY <2>3 DEF ReplyTo
      <3> QED
        BY <2>1, <2>3, <3>1 DEF CallOK
    <2>4. CASE /\ AsksSession(r) => ValidateToken(token)
               /\ \A asked \in Asks(r) : CheckPermission(rule, asked)
               /\ reply' = None
               /\ call' = [call EXCEPT ![c] = [request |-> r, live |-> Live(token), field |-> {},
                                              read |-> 0]]
      <3>1. call'[c] = [request |-> r, live |-> Live(token), field |-> {}, read |-> 0]
        BY <2>4
      <3>2. AsksSession(r) => Live(token)
        BY <2>4, SessionsKnown
      <3>3. rule # NoRule => \A asked \in Asks(r) : ~Covers(rule.denied, asked.action)
        BY <2>4 DEF CheckPermission
      <3>4. CallOK(c)'
        BY <2>1, <3>1, <3>2, <3>3 DEF CallOK
      <3>5. \A d \in Callers \ {c} : CallOK(d)'
        BY <2>1, <2>4 DEF CallOK
      <3> QED
        BY <2>1, <2>4, <3>4, <3>5
    <2> QED
      BY <1>3, <2>2, <2>3, <2>4 DEF Arrive
  <1>4. CASE UNCHANGED accessVars
    BY <1>4, SessionNextInv DEF accessVars, CallOK
  <1> QED
    BY <1>1, <1>2, <1>3, <1>4 DEF AccessNext, CallNext

\* A request is turned away for its session only if that session is over, a
\* handler that asks for one serves nobody whose session was over on arrival,
\* what a rule denies by name is never served, and what it refuses every
\* narrower rule refuses too: for any rules, requests and logins
\* (validate_token, validate_auth, auth_middleware, check_service_permission).
THEOREM CallsWellDecided == AccessSpec => []CallsDecided
  <1>1. DecidedInv => CallsDecided
    <2> SUFFICES ASSUME DecidedInv PROVE CallsDecided
      OBVIOUS
    <2>1. ASSUME reply # None, reply.status = "denied", NEW n \in Rules, Narrower(n, rule)
          PROVE  \E asked \in Asks(reply.request) : ~CheckPermission(n, asked)
      BY <2>1, NarrowerRefuses, AccessAssumption DEF DecidedInv
    <2> QED
      BY <2>1 DEF DecidedInv, CallsDecided, CallOK
  <1> QED
    BY <1>1, DecidedInitInv, DecidedNextInv, PTL DEF AccessSpec

--------------------------------------------------------------------------------
(* Rows and how they are read back.                                         *)

IsSequence(s) == s \in Seq({s[i] : i \in DOMAIN s})

\* A value of the table's kind is the one that was sent, and a row REST added
\* to the table it looked at has one.
RowOK(r) ==
    /\ r.by = "rest" => r.field.kind = ShownKind(table.kind)
    /\ r.field.kind = ShownKind(table.kind) => r.field.value = r.sent

DataOK ==
    /\ tables \in Nat
    /\ table = None \/ (table \in TableStates /\ table.id <= tables)
    /\ table = None => rows = <<>>
    /\ IsSequence(rows)
    /\ table # None => \A i \in DOMAIN rows : RowOK(rows[i])

\* The fields a request has made of its texts, for the table it looked at.
FieldOK(c) ==
    call[c] # None =>
        /\ call[c].read \in Nat /\ call[c].read <= tables
        /\ \A f \in call[c].field :
              /\ f.value = IF f.kind = "bytes" THEN call[c].request.text.bytes
                           ELSE call[c].request.text.text
              /\ table # None /\ call[c].read = table.id => f.kind = ShownKind(table.kind)

ShownOK ==
    reply # None => \A i \in DOMAIN reply.shown :
        reply.status = "rows" =>
            LET shown == reply.shown[i]
            IN  \/ shown.value = shown.row.sent
                \/ reply.request.front = "rest" /\ shown.row.field \in NotJson

RowsInv == DataOK /\ ShownOK /\ \A c \in Callers : FieldOK(c)

\* What becomes of a text depends on the kind it is converted to.
LEMMA FieldsFit ==
    ASSUME NEW kind, NEW t, NEW f \in RestField(kind, t)
    PROVE  /\ f.value = IF f.kind = "bytes" THEN t.bytes ELSE t.text
           /\ kind \in ColumnKinds => f.kind = ShownKind(kind)
  <1>1. CASE kind \in {"int", "float"}
    BY <1>1 DEF RestField, ShownKind
  <1>2. CASE kind = "bytes"
    BY <1>2 DEF RestField, ShownKind, DecodeHex
  <1>3. CASE kind \notin {"int", "float", "bytes"}
    <2>1. f = [kind |-> "string", value |-> t.text]
      BY <1>3 DEF RestField
    <2> QED
      BY <1>3, <2>1 DEF ShownKind, ColumnKinds
  <1> QED
    BY <1>1, <1>2, <1>3

\* A table that is there is shown in one of four kinds.
LEMMA KindsShown ==
    ASSUME NEW kind \in ColumnKinds
    PROVE  /\ ShownKind(kind) \in {"string", "int", "float", "bytes"}
           /\ ShownKind(kind) = "bytes" <=> kind = "bytes"
  BY DEF ColumnKinds, ShownKind

\* The fields of other requests stay right whatever becomes of the table.
LEMMA FieldsKept ==
    ASSUME RowsInv, NEW c \in Callers, call = [d \in Callers |-> call[d]],
           call' = call \/ call' = [call EXCEPT ![c] = None],
           tables' \in Nat, tables' >= tables,
           \/ table' = None
           \/ table # None /\ table'.id = table.id /\ table'.kind = table.kind
           \/ table'.id > tables
    PROVE  \A d \in Callers : FieldOK(d)'
  <1> SUFFICES ASSUME NEW d \in Callers, call'[d] # None PROVE FieldOK(d)'
    BY DEF FieldOK
  <1>1. call'[d] = call[d]
    OBVIOUS
  <1>2. FieldOK(d) /\ tables \in Nat
    BY DEF RowsInv, DataOK
  <1>3. call[d].read \in Nat /\ call[d].read <= tables
    BY <1>1, <1>2 DEF FieldOK
  <1>4. table' # None /\ call[d].read = table'.id =>
           table # None /\ table'.id = table.id /\ table'.kind = table.kind
    BY <1>2, <1>3
  <1> QED
    BY <1>1, <1>2, <1>3, <1>4 DEF FieldOK

LEMMA AnySequence ==
    ASSUME NEW S, NEW s \in Seq(S)
    PROVE  IsSequence(s) /\ DOMAIN s = 1 .. Len(s) /\ Len(s) \in Nat
  <1>1. DOMAIN s = 1 .. Len(s) /\ Len(s) \in Nat /\ s \in [1 .. Len(s) -> S]
    BY LenProperties
  <1> DEFINE V == {s[i] : i \in DOMAIN s}
  <1>2. s \in [1 .. Len(s) -> V]
    BY <1>1
  <1> HIDE DEF V
  <1>3. s \in Seq(V)
    BY <1>1, <1>2
  <1> QED
    BY <1>1, <1>3 DEF IsSequence, V

\* Rows written and deleted.
LEMMA RowWritten ==
    ASSUME NEW s, IsSequence(s), NEW r
    PROVE  /\ IsSequence(Append(s, r))
           /\ \A i \in DOMAIN Append(s, r) : Append(s, r)[i] = r \/ \E j \in DOMAIN s : Append(s, r)[i] = s[j]
           /\ \A i \in DOMAIN s : /\ IsSequence([s EXCEPT ![i] = r])
                                  /\ \A j \in DOMAIN s : [s EXCEPT ![i] = r][j] \in {r, s[j]}
                                  /\ DOMAIN [s EXCEPT ![i] = r] = DOMAIN s
  <1> DEFINE V == {s[i] : i \in DOMAIN s} \cup {r}
  <1>1. s \in Seq(V) /\ r \in V
    BY SeqMonotonic DEF IsSequence
  <1> HIDE DEF V
  <1>2. /\ Append(s, r) \in Seq(V) /\ Len(Append(s, r)) = Len(s) + 1
        /\ \A i \in 1 .. Len(s) : Append(s, r)[i] = s[i]
        /\ Append(s, r)[Len(s) + 1] = r
    BY <1>1, AppendProperties
  <1>3. DOMAIN s = 1 .. Len(s) /\ Len(s) \in Nat /\ DOMAIN Append(s, r) = 1 .. Len(Append(s, r))
    BY <1>1, <1>2, AnySequence
  <1>4. ASSUME NEW i \in DOMAIN s
        PROVE  /\ IsSequence([s EXCEPT ![i] = r])
               /\ \A j \in DOMAIN s : [s EXCEPT ![i] = r][j] \in {r, s[j]}
    <2>1. [s EXCEPT ![i] = r] \in Seq(V)
      BY <1>1, <1>3, <1>4, ExceptSeq
    <2> QED
      BY <2>1, AnySequence
  <1>5. IsSequence(Append(s, r))
    BY <1>2, AnySequence
  <1>6. ASSUME NEW i \in DOMAIN Append(s, r)
        PROVE  Append(s, r)[i] = r \/ \E j \in DOMAIN s : Append(s, r)[i] = s[j]
    <2>1. i \in 1 .. Len(s) \/ i = Len(s) + 1
      BY <1>2, <1>3
    <2> QED
      BY <1>2, <1>3, <2>1
  <1> QED
    BY <1>4, <1>5, <1>6

LEMMA RowRemoved ==
    ASSUME NEW s, IsSequence(s), NEW i \in DOMAIN s
    PROVE  /\ IsSequence(RemoveAt(s, i))
           /\ \A j \in DOMAIN RemoveAt(s, i) : \E w \in DOMAIN s : RemoveAt(s, i)[j] = s[w]
  <1> DEFINE V == {s[w] : w \in DOMAIN s}
             left == SubSeq(s, 1, i - 1)
             right == SubSeq(s, i + 1, Len(s))
  <1>1. s \in Seq(V) /\ DOMAIN s = 1 .. Len(s) /\ Len(s) \in Nat /\ i \in Nat /\ i >= 1
    BY AnySequence DEF IsSequence
  <1>2. \A v \in V : \E w \in DOMAIN s : v = s[w]
    OBVIOUS
  <1> HIDE DEF V
  <1>3. left \in Seq(V) /\ right \in Seq(V)
    BY <1>1, SubSeqProperties
  <1> HIDE DEF left, right
  <1>4. left \o right \in Seq(V)
    BY <1>3, ConcatProperties
  <1>5. \A j \in DOMAIN (left \o right) : (left \o right)[j] \in V
    BY <1>4, AnySequence, ElementOfSeq
  <1>6. RemoveAt(s, i) = left \o right
    BY DEF RemoveAt, left, right
  <1> QED
    BY <1>2, <1>4, <1>5, <1>6, AnySequence

\* A row is right as it is written.
LEMMA RowFits ==
    ASSUME DecidedInv, RowsInv, NEW c \in Callers, call[c] # None, table # None, NEW id,
           call[c].request.front = "grpc" \/ call[c].request.op = "update_row" \/ call[c].field # {}
    PROVE  RowOK(Row(c, id))
  <1> DEFINE r == call[c].request  row == Row(c, id)
  <1>1. /\ row.field = FieldOf(c) /\ row.sent = Sent(r)
        /\ row.by = IF r.front = "grpc" THEN "grpc" ELSE IF r.op = "update_row" THEN "raw"
                    ELSE IF call[c].read = table.id THEN "rest" ELSE "stale"
    BY DEF Row
  <1>2. table.kind \in ColumnKinds
    BY DEF RowsInv, DataOK, TableStates
  <1>3. /\ ShownKind(table.kind) \in {"string", "int", "float", "bytes"}
        /\ ShownKind(table.kind) = "bytes" <=> table.kind = "bytes"
    BY <1>2, KindsShown
  <1>4. CASE r.front = "grpc"
    <2>1. row.field.value = r.text.text /\ row.sent = r.text.text /\ row.by # "rest"
      BY <1>1, <1>4 DEF FieldOf, GrpcField, Sent
    <2> QED
      BY <2>1 DEF RowOK
  <1>5. CASE r.front # "grpc" /\ r.op = "update_row"
    <2>1. row.field.kind = "raw" /\ row.by # "rest"
      BY <1>1, <1>5 DEF FieldOf, RawField
    <2> QED
      BY <1>3, <2>1 DEF RowOK
  <1>6. CASE r.front # "grpc" /\ r.op # "update_row"
    <2> DEFINE f == FieldOf(c)
    <2>1. f \in call[c].field
      BY <1>6 DEF FieldOf
    <2>2. /\ f.value = IF f.kind = "bytes" THEN r.text.bytes ELSE r.text.text
          /\ call[c].read = table.id => f.kind = ShownKind(table.kind)
      BY <2>1 DEF RowsInv, FieldOK
    <2> HIDE DEF f
    <2>3. row.by = "rest" => f.kind = ShownKind(table.kind)
      BY <1>1, <1>6, <2>2
    <2>4. f.kind = ShownKind(table.kind) => f.value = Sent(r)
      <3>1. Sent(r) = IF r.front = "rest" /\ table.kind = "bytes" THEN r.text.bytes ELSE r.text.text
        BY DEF Sent
      <3>2. r \in Requested
        BY DEF DecidedInv, CallOK
      <3>3. r.front = "rest"
        BY <1>6, <3>2, AccessAssumption
      <3> QED
        BY <1>3, <2>2, <3>1, <3>3
    <2> QED
      BY <1>1, <2>3, <2>4 DEF RowOK, f
  <1> QED
    BY <1>4, <1>5, <1>6

\* The pairs of a table as they are put and deleted.
LEMMA PairsKept ==
    ASSUME NEW t \in TableStates, NEW r \in Requested, NEW key
    PROVE  /\ [t EXCEPT !.pairs = With(t.pairs, KeyOf(r), r.text)] \in TableStates
           /\ [t EXCEPT !.pairs = [w \in DOMAIN t.pairs \ {key} |-> t.pairs[w]]] \in TableStates
  <1> DEFINE Texts == {q.text : q \in Requested}
             Maps == UNION {[ks -> Texts] : ks \in SUBSET Keyed}
             put == With(t.pairs, KeyOf(r), r.text)
             left == [w \in DOMAIN t.pairs \ {key} |-> t.pairs[w]]
  <1>1. r.text \in Texts /\ KeyOf(r) \in Keyed
    BY DEF Keyed
  <1>2. PICK ks \in SUBSET Keyed : t.pairs \in [ks -> Texts]
    BY DEF TableStates
  <1>3. TableStates = [id : Nat \ {0}, kind : ColumnKinds, pairs : Maps]
    BY DEF TableStates
  <1> HIDE DEF Texts
  <1>4. put \in [ks \cup {KeyOf(r)} -> Texts] /\ ks \cup {KeyOf(r)} \in SUBSET Keyed
    BY <1>1, <1>2 DEF With
  <1>5. left \in [ks \ {key} -> Texts] /\ ks \ {key} \in SUBSET Keyed
    BY <1>2
  <1>6. put \in Maps /\ left \in Maps
    BY <1>4, <1>5
  <1> HIDE DEF Maps, put, left
  <1>7. [t EXCEPT !.pairs = put] \in TableStates /\ [t EXCEPT !.pairs = left] \in TableStates
    BY <1>3, <1>6
  <1> QED
    BY <1>7 DEF put, left

LEMMA RowsInitInv == AccessInit => RowsInv
  <1> SUFFICES ASSUME AccessInit PROVE RowsInv
    OBVIOUS
  <1>1. <<>> \in Seq({})
    OBVIOUS
  <1>2. IsSequence(<<>>)
    BY <1>1, AnySequence
  <1> QED
    BY <1>2 DEF AccessInit, RowsInv, DataOK, ShownOK, FieldOK

LEMMA RowsNextInv ==
    ASSUME DecidedInv, RowsInv, [AccessNext]_accessVars
    PROVE  RowsInv'
  <1> USE NoneAssumption
  <1>0. /\ DataOK /\ ShownOK /\ \A c \in Callers : FieldOK(c)
        /\ call = [c \in Callers |-> call[c]] /\ tables \in Nat
        /\ \A c \in Callers : CallOK(c)
    BY DEF RowsInv, DecidedInv, DataOK
  \* An told that shows no rows.
  <1>1. ASSUME NEW c \in Callers, NEW status, NEW shown, NEW r, status # "rows",
               Done(c, [ReplyTo(status, r) EXCEPT !.shown = shown])
        PROVE  ShownOK' /\ call' = [call EXCEPT ![c] = None]
    BY <1>1 DEF Done, ReplyTo, ShownOK
  <1>2. ASSUME NEW c \in Callers, NEW status, status # "rows", Reply(c, status)
        PROVE  ShownOK' /\ call' = [call EXCEPT ![c] = None]
    BY <1>2 DEF Reply, Done, ReplyTo, ShownOK
  <1>3. ASSUME UNCHANGED dataVars
        PROVE  DataOK'
    BY <1>0, <1>3 DEF dataVars, DataOK, RowOK, IsSequence
  \* A call that changes nothing.
  <1>4. ASSUME NEW c \in Callers, UNCHANGED dataVars, ShownOK', call' = [call EXCEPT ![c] = None]
        PROVE  RowsInv'
    <2>1. \A d \in Callers : FieldOK(d)'
      <3>1. \A d \in Callers : call'[d] # None => call'[d] = call[d]
        BY <1>0, <1>4
      <3> QED
        BY <1>0, <1>4, <3>1 DEF dataVars, FieldOK
    <2> QED
      BY <1>3, <1>4, <2>1 DEF RowsInv
  <1>5. ASSUME NEW c \in Callers, Fails(c)
        PROVE  RowsInv'
    BY <1>2, <1>4, <1>5 DEF Fails
  \* A call that writes rows, which all fit.
  <1>6. ASSUME NEW c \in Callers, table # None, UNCHANGED <<table, tables>>, ShownOK',
               call' = [call EXCEPT ![c] = None], IsSequence(rows'),
               \A i \in DOMAIN rows' : RowOK(rows'[i])
        PROVE  RowsInv'
    <2>1. DataOK'
      BY <1>0, <1>6 DEF DataOK, RowOK
    <2>2. \A d \in Callers : FieldOK(d)'
      BY <1>0, <1>6, FieldsKept
    <2> QED
      BY <1>6, <2>1, <2>2 DEF RowsInv
  <1>7. CASE SessionNext
    <2>1. /\ UNCHANGED dataVars /\ (reply' = None \/ reply' = reply)
          /\ (call' = call \/ call' = [c \in Callers |-> None])
      BY <1>7 DEF SessionNext, Login, Logout, Tick, Restart
    <2>2. \A d \in Callers : call'[d] # None => call'[d] = call[d]
      BY <2>1
    <2>3. \A d \in Callers : FieldOK(d)'
      BY <1>0, <2>1, <2>2 DEF dataVars, FieldOK
    <2>4. ShownOK'
      BY <1>0, <2>1 DEF ShownOK
    <2> QED
      BY <1>3, <2>1, <2>3, <2>4 DEF RowsInv
  <1>8. ASSUME NEW c \in Callers, NEW r \in Requested, NEW token \in Tokens, Arrive(c, r, token)
        PROVE  RowsInv'
    <2>1. UNCHANGED dataVars
      BY <1>8 DEF Arrive
    <2>2. \/ call' = call /\ \E status \in {"unauthenticated", "denied"} :
                                reply' = [ReplyTo(status, r) EXCEPT !.live = Live(token)]
          \/ reply' = None /\ \E l : call' = [call EXCEPT ![c] = [request |-> r, live |-> l, field |-> {},
                                                                   read |-> 0]]
      BY <1>8 DEF Arrive
    <2>3. ShownOK'
      BY <2>2 DEF ShownOK, ReplyTo
    <2>4. \A d \in Callers : FieldOK(d)'
      <3>1. \A d \in Callers : call'[d] = call[d] \/ (call'[d].field = {} /\ call'[d].read = 0)
        BY <1>0, <2>2
      <3> QED
        BY <1>0, <2>1, <3>1 DEF FieldOK, dataVars
    <2> QED
      BY <1>3, <2>1, <2>3, <2>4 DEF RowsInv
  \* A call that makes a table of another, or of none.
  <1>9. ASSUME NEW c \in Callers, ShownOK', call' = [call EXCEPT ![c] = None],
               tables' \in Nat, tables' >= tables, table' \in TableStates, table'.id <= tables',
               UNCHANGED rows, \/ table = None /\ table'.id > tables
                               \/ table # None /\ table'.id = table.id /\ table'.kind = table.kind
        PROVE  RowsInv'
    <2>1. table' # None /\ IsSequence(rows')
      BY <1>0, <1>9 DEF DataOK
    <2>2. \A i \in DOMAIN rows' : RowOK(rows[i])'
      <3>1. CASE table = None
        <4>1. rows' = <<>>
          BY <1>0, <1>9, <3>1 DEF DataOK
        <4>2. DOMAIN rows' = {}
          BY <4>1
        <4> QED
          BY <4>2
      <3>2. CASE table # None
        BY <1>0, <1>9, <3>2 DEF DataOK, RowOK
      <3> QED
        BY <3>1, <3>2
    <2>3. DataOK'
      BY <1>9, <2>1, <2>2 DEF DataOK
    <2>4. \A d \in Callers : FieldOK(d)'
      BY <1>0, <1>9, FieldsKept
    <2> QED
      BY <1>9, <2>3, <2>4 DEF RowsInv
  <1>10. ASSUME NEW c \in Callers, CreateTable(c)
         PROVE  RowsInv'
    <2>1. call[c].request \in Requested /\ call[c].request.op = "create_table"
      BY <1>0, <1>10 DEF CreateTable, At, CallOK
    <2>2. call[c].request.kind \in ColumnKinds
      BY <2>1, AccessAssumption
    <2>3. CASE Fails(c)
      BY <1>5, <2>3
    <2>4. CASE /\ table = None
               /\ table' = [id |-> tables + 1, kind |-> call[c].request.kind, pairs |-> <<>>]
               /\ tables' = tables + 1 /\ Reply(c, "done") /\ UNCHANGED rows
      <3>1. DOMAIN <<>> = {} /\ <<>> \in [{} -> {r.text : r \in Requested}]
        OBVIOUS
      <3>2. <<>> \in UNION {[ks -> {r.text : r \in Requested}] : ks \in SUBSET Keyed}
        BY <3>1
      <3>3. table' \in TableStates /\ table'.id = tables + 1
        BY <1>0, <2>2, <2>4, <3>2 DEF TableStates
      <3>4. ShownOK' /\ call' = [call EXCEPT ![c] = None]
        BY <1>2, <2>4
      <3> QED
        BY <1>0, <1>9, <2>4, <3>3, <3>4
    <2> QED
      BY <1>10, <2>3, <2>4 DEF CreateTable
  <1>11. ASSUME NEW c \in Callers, DropTable(c)
         PROVE  RowsInv'
    <2>1. CASE Fails(c)
      BY <1>5, <2>1
    <2>2. CASE table' = None /\ rows' = <<>> /\ Reply(c, "done") /\ UNCHANGED tables
      <3>1. ShownOK' /\ call' = [call EXCEPT ![c] = None]
        BY <1>2, <2>2
      <3>2. IsSequence(<<>>)
        <4>1. <<>> \in Seq({})
          OBVIOUS
        <4> QED
          BY <4>1, AnySequence
      <3>3. DataOK'
        BY <1>0, <2>2, <3>2 DEF DataOK
      <3>4. \A d \in Callers : FieldOK(d)'
        BY <1>0, <2>2, <3>1, FieldsKept
      <3> QED
        BY <3>1, <3>3, <3>4 DEF RowsInv
    <2> QED
      BY <1>11, <2>1, <2>2 DEF DropTable
  <1>12. ASSUME NEW c \in Callers, ReadColumns(c)
         PROVE  RowsInv'
    <2> DEFINE t == call[c].request.text
               kind == IF table = None THEN "string" ELSE table.kind
               seen == IF table = None THEN 0 ELSE table.id
    <2>1. CASE Fails(c)
      BY <1>5, <2>1
    <2>2. CASE /\ call' = [call EXCEPT ![c].field = RestField(kind, t), ![c].read = seen]
               /\ UNCHANGED <<dataVars, reply>>
      <3>1. call[c] # None
        BY <1>12 DEF ReadColumns, At
      <3>2. /\ call'[c].request = call[c].request /\ call'[c].field = RestField(kind, t)
            /\ call'[c].read = seen /\ \A d \in Callers \ {c} : call'[d] = call[d]
        <4> DEFINE it == call[c]  seenIt == [it EXCEPT !.field = RestField(kind, t), !.read = seen]
        <4>1. it = [request |-> it.request, live |-> it.live, field |-> it.field, read |-> it.read]
          BY <1>0, <3>1 DEF CallOK
        <4>2. /\ seenIt.request = it.request /\ seenIt.field = RestField(kind, t)
              /\ seenIt.read = seen
          <5> HIDE DEF it, kind, t, seen
          <5> QED
            BY <4>1
        <4>3. call' = [call EXCEPT ![c] = seenIt]
          BY <1>0, <2>2
        <4> HIDE DEF seenIt, kind, t, seen
        <4> QED
          BY <1>0, <4>2, <4>3
      <3>3. seen \in Nat /\ seen <= tables /\ (table # None => kind \in ColumnKinds)
        BY <1>0 DEF DataOK, TableStates
      <3>4. \A f \in RestField(kind, t) :
               /\ f.value = IF f.kind = "bytes" THEN t.bytes ELSE t.text
               /\ kind \in ColumnKinds => f.kind = ShownKind(kind)
        BY FieldsFit
      <3>5. FieldOK(c)'
        BY <2>2, <3>2, <3>3, <3>4 DEF FieldOK, dataVars
      <3>6. \A d \in Callers \ {c} : FieldOK(d)'
        BY <1>0, <2>2, <3>2 DEF FieldOK, dataVars
      <3>7. ShownOK'
        BY <1>0, <2>2 DEF ShownOK
      <3> QED
        BY <1>3, <2>2, <3>5, <3>6, <3>7 DEF RowsInv
    <2> QED
      BY <1>12, <2>1, <2>2 DEF ReadColumns
  <1>13. ASSUME NEW c \in Callers, AddRow(c)
         PROVE  RowsInv'
    <2>1. CASE Fails(c)
      BY <1>5, <2>1
    <2>2. CASE /\ table # None /\ rows' = Append(rows, Row(c, lastRow + 1)) /\ Reply(c, "done")
               /\ UNCHANGED <<table, tables>>
      <3>1. RowOK(Row(c, lastRow + 1))
        <4>1. call[c] # None /\ (call[c].request.front = "grpc" \/ call[c].field # {})
          BY <1>13 DEF AddRow, At, Converted
        <4> QED
          BY <2>2, <4>1, RowFits
      <3>2. IsSequence(rows) /\ \A i \in DOMAIN rows : RowOK(rows[i])
        BY <1>0, <2>2 DEF DataOK
      <3>3. IsSequence(rows') /\ \A i \in DOMAIN rows' : RowOK(rows'[i])
        BY <2>2, <3>1, <3>2, RowWritten
      <3>4. ShownOK' /\ call' = [call EXCEPT ![c] = None]
        BY <1>2, <2>2
      <3> QED
        BY <1>6, <2>2, <3>3, <3>4
    <2> QED
      BY <1>13, <2>1, <2>2 DEF AddRow
  <1>14. ASSUME NEW c \in Callers, NEW id, UpdateRow(c, id)
         PROVE  RowsInv'
    <2>1. CASE Fails(c)
      BY <1>5, <2>1
    <2>2. CASE /\ table # None /\ \E i \in DOMAIN rows : rows' = [rows EXCEPT ![i] = Row(c, id)]
               /\ Reply(c, "done") /\ UNCHANGED <<table, tables>>
      <3>1. RowOK(Row(c, id))
        <4>1. call[c] # None /\ call[c].request.op = "update_row"
          BY <1>14 DEF UpdateRow, At
        <4> QED
          BY <2>2, <4>1, RowFits
      <3>2. IsSequence(rows) /\ \A i \in DOMAIN rows : RowOK(rows[i])
        BY <1>0, <2>2 DEF DataOK
      <3>3. PICK i \in DOMAIN rows : rows' = [rows EXCEPT ![i] = Row(c, id)]
        BY <2>2
      <3>4. /\ IsSequence(rows') /\ DOMAIN rows' = DOMAIN rows
            /\ \A j \in DOMAIN rows : rows'[j] \in {Row(c, id), rows[j]}
        BY <3>2, <3>3, RowWritten
      <3>5. \A j \in DOMAIN rows' : RowOK(rows'[j])
        BY <3>1, <3>2, <3>4
      <3>6. ShownOK' /\ call' = [call EXCEPT ![c] = None]
        BY <1>2, <2>2
      <3> QED
        BY <1>6, <2>2, <3>4, <3>5, <3>6
    <2> QED
      BY <1>14, <2>1, <2>2 DEF UpdateRow
  <1>15. ASSUME NEW c \in Callers, NEW id, DeleteRow(c, id)
         PROVE  RowsInv'
    <2>1. CASE Fails(c)
      BY <1>5, <2>1
    <2>2. CASE /\ table # None /\ (rows' = rows \/ \E i \in DOMAIN rows : rows' = RemoveAt(rows, i))
               /\ Reply(c, "done") /\ UNCHANGED <<table, tables>>
      <3>1. IsSequence(rows) /\ \A i \in DOMAIN rows : RowOK(rows[i])
        BY <1>0, <2>2 DEF DataOK
      <3>2. IsSequence(rows') /\ \A j \in DOMAIN rows' : RowOK(rows'[j])
        BY <2>2, <3>1, RowRemoved
      <3>3. ShownOK' /\ call' = [call EXCEPT ![c] = None]
        BY <1>2, <2>2
      <3> QED
        BY <1>6, <2>2, <3>2, <3>3
    <2> QED
      BY <1>15, <2>1, <2>2 DEF DeleteRow
  <1>16. ASSUME NEW c \in Callers, PutPair(c) \/ DeletePair(c)
         PROVE  RowsInv'
    <2> DEFINE r == call[c].request
    <2>1. CASE Fails(c)
      BY <1>5, <2>1
    <2>2. CASE /\ table # None
               /\ \/ table' = [table EXCEPT !.pairs = With(table.pairs, KeyOf(r), r.text)]
                  \/ table' = [table EXCEPT !.pairs =
                                   [w \in DOMAIN table.pairs \ {KeyOf(r)} |-> table.pairs[w]]]
               /\ Reply(c, "done") /\ UNCHANGED <<tables, rows>>
      <3>1. r \in Requested
        BY <1>0, <1>16 DEF PutPair, DeletePair, At, CallOK
      <3>2. table \in TableStates /\ table.id <= tables
        BY <1>0, <2>2 DEF DataOK
      <3>3. table' \in TableStates
        BY <2>2, <3>1, <3>2, PairsKept
      <3>4. table'.id = table.id /\ table'.kind = table.kind
        BY <2>2, <3>2 DEF TableStates
      <3>5. ShownOK' /\ call' = [call EXCEPT ![c] = None]
        BY <1>2, <2>2
      <3> QED
        BY <1>0, <1>9, <2>2, <3>2, <3>3, <3>4, <3>5
    <2> QED
      BY <1>16, <2>1, <2>2 DEF PutPair, DeletePair
  <1>17. ASSUME NEW c \in Callers, GetPair(c)
         PROVE  RowsInv'
    <2>1. CASE Fails(c)
      BY <1>5, <2>1
    <2>2. CASE /\ \E shown : Done(c, [ReplyTo("value", call[c].request) EXCEPT !.shown = shown])
               /\ UNCHANGED dataVars
      <3>1. ShownOK' /\ call' = [call EXCEPT ![c] = None]
        BY <1>1, <2>2
      <3> QED
        BY <1>4, <2>2, <3>1
    <2> QED
      BY <1>17, <2>1, <2>2 DEF GetPair
  <1>18. ASSUME NEW c \in Callers, SqlQuery(c)
         PROVE  RowsInv'
    <2> DEFINE r == call[c].request
               show(i) == [value |-> Shown(r.front, rows[i].field), row |-> rows[i]]
               told == [i \in DOMAIN rows |-> show(i)]
    <2>1. UNCHANGED dataVars
      BY <1>18 DEF SqlQuery
    <2>2. CASE Reply(c, "other")
      BY <1>2, <1>4, <2>1, <2>2
    <2>3. CASE /\ table # None /\ \A i \in DOMAIN rows : rows[i].field.kind = ShownKind(table.kind)
               /\ Done(c, [ReplyTo("rows", r) EXCEPT !.shown = told])
      <3>1. \A i \in DOMAIN rows :
               Shown(r.front, rows[i].field) = rows[i].sent \/ (r.front = "rest" /\ rows[i].field \in NotJson)
        <4> SUFFICES ASSUME NEW i \in DOMAIN rows
                     PROVE  \/ Shown(r.front, rows[i].field) = rows[i].sent
                            \/ r.front = "rest" /\ rows[i].field \in NotJson
          OBVIOUS
        <4>1. rows[i].field.value = rows[i].sent
          BY <1>0, <2>3 DEF DataOK, RowOK
        <4>2. rows[i].field.kind \in {"string", "int", "float", "bytes"}
          <5>1. table.kind \in ColumnKinds
            BY <1>0, <2>3 DEF DataOK, TableStates
          <5> QED
            BY <2>3, <5>1, KindsShown
        <4> QED
          BY <4>1, <4>2 DEF Shown
      <3>2. reply'.request = r /\ reply'.shown = told /\ call' = [call EXCEPT ![c] = None]
        BY <2>3 DEF Done, ReplyTo
      <3>3. ShownOK'
        BY <3>1, <3>2 DEF ShownOK
      <3> QED
        BY <1>4, <2>1, <3>2, <3>3
    <2> QED
      BY <1>18, <2>2, <2>3 DEF SqlQuery
  <1>19. ASSUME NEW c \in Callers, Forward(c)
         PROVE  RowsInv'
    <2>1. PICK status \in {"served", "error"} : Reply(c, status)
      BY <1>19 DEF Forward
    <2>2. UNCHANGED dataVars
      BY <1>19 DEF Forward
    <2> QED
      BY <1>2, <1>4, <2>1, <2>2
  <1>20. CASE UNCHANGED accessVars
    <2>1. UNCHANGED dataVars /\ UNCHANGED <<call, reply>>
      BY <1>20 DEF accessVars
    <2> QED
      BY <1>0, <1>3, <2>1 DEF RowsInv, ShownOK, FieldOK, dataVars
  <1> QED
    BY <1>7, <1>8, <1>10, <1>11, <1>12, <1>13, <1>14, <1>15, <1>16, <1>17, <1>18, <1>19, <1>20
       DEF AccessNext, CallNext, Serve

\* A row added through REST to the table whose columns its handler read has a
\* value of the column's kind, and a SQL told shows every row as it was sent
\* through either front, but for REST values JSON has no form for: for any
\* requests, tables and rows (convert_rest_row_to_db_row_with_columns, add_row,
\* update_row, sql_query).
THEOREM RowsReadBackAsSent == AccessSpec => []RowsReadBack
  <1>1. RowsInv => RowsReadBack
    BY DEF RowsInv, DataOK, RowOK, ShownOK, RowsReadBack
  <1>2. AccessSpec => [](DecidedInv /\ RowsInv)
    BY DecidedInitInv, DecidedNextInv, RowsInitInv, RowsNextInv, PTL DEF AccessSpec
  <1> QED
    BY <1>1, <1>2, PTL
=============================================================================
