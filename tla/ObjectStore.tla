---------------------------- MODULE ObjectStore ----------------------------
(***************************************************************************)
(* The object store (laoflchdb_object_store_service/src/lib.rs): S3-like   *)
(* buckets and objects kept in a key-value RocksDB engine                  *)
(* (laoflchdb_kv_rocksdb_engine/src/lib.rs).  A bucket is a column family  *)
(* named after it and a table entry in the "default" column family; an     *)
(* object is two keys of the bucket's family, its bytes ("__obj__" k) and  *)
(* its headers ("__meta__" k).  One tokio mutex guards the engine.  A      *)
(* request holds it across the two writes of an object, and gives it back  *)
(* between finding out whether a bucket is there and creating or dropping  *)
(* it.  The engine's calls never yield, so a request whose caller has gone *)
(* is dropped only while it waits for the mutex.                           *)
(*                                                                         *)
(* Bytes and headers are abstracted to the number of the put that wrote    *)
(* them (a put draws a fresh ETag); the creation date of a bucket and the  *)
(* ids of tables are left out.  get_object, head_object and list_buckets   *)
(* read under the mutex and change nothing: what they see is what the      *)
(* properties say of the states in which the mutex is free.  Listing the   *)
(* objects of a bucket page by page is module ObjectListing.               *)
(***************************************************************************)
EXTENDS Naturals, Sequences

CONSTANTS
    Workers,     \* the tasks that carry out requests
    Buckets,     \* bucket names the callers use
    Default,     \* the name "default", RocksDB's own column family
    Objects,     \* object keys
    Nobody,      \* nobody holds the engine's mutex
    Ops,         \* the operations the callers ask for
    MaxPuts,     \* bound on the puts (copies included)
    MaxCrashes   \* bound on the kills of the process and the failing writes

ASSUME ConstantsAssumption ==
    /\ Nobody \notin Workers
    /\ Ops \subseteq {"create", "drop", "put", "copy", "delete", "deleteAll"}
    /\ MaxPuts \in Nat
    /\ MaxCrashes \in Nat

VARIABLES
    cfs,      \* buckets with a column family
    named,    \* buckets with a table entry, the ones list_tables returns
    data,     \* data[b][k]: the put whose bytes object k of b holds, 0 for none
    header,   \* header[b][k]: the put whose headers it holds, 0 for none
    lock,     \* the caller that holds the engine's mutex, or Nobody
    pc,       \* pc[c]: where caller c is
    req,      \* req[c]: its request
    answer,   \* answer[c]: how its last request ended
    puts,     \* puts so far: the last ETag drawn
    crashes,  \* kills and failed writes so far
    torn,     \* history: objects left with one of the two writes done
    half      \* history: buckets left half created or half dropped

object_vars == <<cfs, named, data, header>>
history == <<crashes, torn, half>>
vars == <<cfs, named, data, header, lock, pc, req, answer, puts, crashes, torn, half>>

Slots == Buckets \X Objects

(* objects: the keys of the request still to do, in order; from: the       *)
(* source of a copy; etag: the number a put has drawn.                     *)
Request == [op : Ops, bucket : Buckets, objects : Seq(Objects),
            from : Slots \cup {<<>>}, etag : Nat]
Nothing == <<>>

(* The places of a request.  At "name" and "unname" it holds the mutex     *)
(* between the two writes that create or drop a bucket, at "header" and    *)
(* "unheader" between the two that store or delete an object; at the       *)
(* others it waits for the mutex.                                          *)
Holding == {"name", "unname", "header", "unheader"}
Places == Holding \cup {"idle", "ensure", "create", "dropCheck", "drop", "read",
                        "data", "delete"}

Free == lock = Nobody
k(c) == Head(req[c].objects)
b(c) == req[c].bucket

(* The object, or the bucket, that a request is between the two writes of. *)
OnObject(c, s) == pc[c] \in {"header", "unheader"} /\ s = <<b(c), k(c)>>
OnBucket(c, x) == pc[c] \in {"name", "unname"} /\ x = b(c)

Init ==
    /\ cfs = {Default} /\ named = {}
    /\ data = [x \in Buckets |-> [o \in Objects |-> 0]]
    /\ header = [x \in Buckets |-> [o \in Objects |-> 0]]
    /\ lock = Nobody
    /\ pc = [c \in Workers |-> "idle"]
    /\ req = [c \in Workers |-> Nothing]
    /\ answer = [c \in Workers |-> "none"]
    /\ puts = 0 /\ crashes = 0 /\ torn = {} /\ half = {}

Goto(c, place) == pc' = [pc EXCEPT ![c] = place]
Answer(c, a) ==
    /\ Goto(c, "idle")
    /\ req' = [req EXCEPT ![c] = Nothing]
    /\ answer' = [answer EXCEPT ![c] = a]
Proceed(c, place) == Goto(c, place) /\ UNCHANGED <<req, answer>>

(* A request comes in: the handler's first await is the mutex. *)
Begin(c, r, place) ==
    /\ pc[c] = "idle" /\ r.op \in Ops
    /\ Goto(c, place)
    /\ req' = [req EXCEPT ![c] = r]
    /\ answer' = [answer EXCEPT ![c] = "none"]
    /\ UNCHANGED <<object_vars, lock, puts, history>>

Enters(c, op, x, objects, s, place) ==
    Begin(c, [op |-> op, bucket |-> x, objects |-> objects, from |-> s, etag |-> 0], place)

BucketRequest(c) == \E x \in Buckets :
    \/ Enters(c, "create", x, <<>>, <<>>, "ensure")
    \/ Enters(c, "drop", x, <<>>, <<>>, "dropCheck")

ObjectRequest(c) == \E x \in Buckets, o \in Objects :
    \/ Enters(c, "put", x, <<o>>, <<>>, "ensure")
    \/ Enters(c, "delete", x, <<o>>, <<>>, "delete")

ManyRequest(c) == \E x \in Buckets, o, p \in Objects :
    Enters(c, "deleteAll", x, <<o, p>>, <<>>, "delete")

CopyRequest(c) == \E x \in Buckets, o \in Objects, s \in Slots :
    Enters(c, "copy", x, <<o>>, s, "read")

(* The caller has gone: its request, waiting for the mutex, is dropped. *)
Cancel(c) ==
    /\ pc[c] \notin Holding \cup {"idle"}
    /\ Goto(c, "idle")
    /\ req' = [req EXCEPT ![c] = Nothing]
    /\ UNCHANGED <<object_vars, lock, answer, puts, history>>

(* ensure_bucket_table is done: a put goes on to store its object. *)
Ensured(c) == IF req[c].op = "create" THEN Answer(c, "ok")
              ELSE Proceed(c, "data")

(* ensure_bucket_table: look for the bucket, and give the mutex back. *)
CheckBucket(c) ==
    /\ pc[c] = "ensure" /\ Free
    /\ IF b(c) \in cfs THEN Ensured(c) ELSE Proceed(c, "create")
    /\ UNCHANGED <<object_vars, lock, puts, history>>

(* create_table refuses a table that is there. *)
CreateRefused(c) ==
    /\ pc[c] = "create" /\ Free /\ b(c) \in cfs
    /\ Answer(c, "failed")
    /\ UNCHANGED <<object_vars, lock, puts, history>>

CreateCf(c) ==
    /\ pc[c] = "create" /\ Free /\ b(c) \notin cfs
    /\ lock' = c
    /\ cfs' = cfs \cup {b(c)}
    /\ Proceed(c, "name")
    /\ UNCHANGED <<named, data, header, puts, history>>

(* create_table stores the table entry; ensure_bucket_table adds the       *)
(* bucket's date and gives the mutex back.                                 *)
NameBucket(c) ==
    /\ pc[c] = "name"
    /\ named' = named \cup {b(c)}
    /\ half' = half \ {b(c)}
    /\ lock' = Nobody
    /\ Ensured(c)
    /\ UNCHANGED <<cfs, data, header, puts, crashes, torn>>

(* As if put_object gave the mutex back between its two writes. *)
PutDataUnlocked(c) ==
    /\ pc[c] = "data" /\ Free /\ puts < MaxPuts
    /\ puts' = puts + 1
    /\ IF b(c) \in cfs
       THEN /\ data' = [data EXCEPT ![b(c)][k(c)] = puts + 1]
            /\ req' = [req EXCEPT ![c].etag = puts + 1]
            /\ Goto(c, "header")
            /\ UNCHANGED answer
       ELSE Answer(c, "failed") /\ UNCHANGED data
    /\ UNCHANGED <<cfs, named, header, lock, history>>

(* As if put_object trusted the bucket it found before. *)
PutUnchecked(c) ==
    /\ pc[c] = "data" /\ Free /\ puts < MaxPuts
    /\ puts' = puts + 1
    /\ data' = [data EXCEPT ![b(c)][k(c)] = puts + 1]
    /\ req' = [req EXCEPT ![c].etag = puts + 1]
    /\ lock' = c
    /\ Goto(c, "header")
    /\ UNCHANGED <<cfs, named, header, answer, history>>

(* put_object writes the bytes; a bucket dropped since it was ensured is   *)
(* an error.                                                               *)
PutData(c) ==
    /\ pc[c] = "data" /\ Free /\ puts < MaxPuts
    /\ puts' = puts + 1
    /\ IF b(c) \in cfs
       THEN /\ data' = [data EXCEPT ![b(c)][k(c)] = puts + 1]
            /\ req' = [req EXCEPT ![c].etag = puts + 1]
            /\ lock' = c
            /\ Goto(c, "header")
            /\ UNCHANGED answer
       ELSE Answer(c, "failed") /\ UNCHANGED <<data, lock>>
    /\ UNCHANGED <<cfs, named, header, history>>

(* put_object writes the headers of the same put and answers. *)
PutHeader(c) ==
    /\ pc[c] = "header"
    /\ header' = [header EXCEPT ![b(c)][k(c)] = req[c].etag]
    /\ torn' = torn \ {<<b(c), k(c)>>}
    /\ lock' = Nobody
    /\ Answer(c, "ok")
    /\ UNCHANGED <<cfs, named, data, puts, crashes, half>>

(* copy_object reads its source with get_object, then is a put. *)
ReadSource(c) ==
    /\ pc[c] = "read" /\ Free
    /\ LET s == req[c].from
       IN  IF s[1] \in cfs /\ data[s[1]][s[2]] # 0
           THEN Proceed(c, "ensure")
           ELSE Answer(c, "failed")
    /\ UNCHANGED <<object_vars, lock, puts, history>>

(* One key of delete_object or delete_objects is done. *)
NextKey(c, a) ==
    LET more == Tail(req[c].objects)
    IN  IF more = <<>>
        THEN Answer(c, a)
        ELSE /\ Goto(c, "delete")
             /\ req' = [req EXCEPT ![c].objects = more]
             /\ UNCHANGED answer

(* delete_object fails without the bucket; delete_objects passes over the  *)
(* keys it could not delete and answers that it succeeded.                 *)
DeleteRefused(c) ==
    /\ pc[c] = "delete" /\ Free /\ b(c) \notin cfs
    /\ NextKey(c, IF req[c].op = "delete" THEN "failed" ELSE "ok")
    /\ UNCHANGED <<object_vars, lock, puts, history>>

DeleteData(c) ==
    /\ pc[c] = "delete" /\ Free /\ b(c) \in cfs
    /\ data' = [data EXCEPT ![b(c)][k(c)] = 0]
    /\ lock' = c
    /\ Proceed(c, "unheader")
    /\ UNCHANGED <<cfs, named, header, puts, history>>

DeleteHeader(c) ==
    /\ pc[c] = "unheader"
    /\ header' = [header EXCEPT ![b(c)][k(c)] = 0]
    /\ torn' = torn \ {<<b(c), k(c)>>}
    /\ lock' = Nobody
    /\ NextKey(c, "ok")
    /\ UNCHANGED <<cfs, named, data, puts, crashes, half>>

(* delete_bucket: look for the bucket, and give the mutex back; a bucket   *)
(* that is not there is deleted already.                                   *)
DropCheck(c) ==
    /\ pc[c] = "dropCheck" /\ Free
    /\ IF b(c) \in cfs THEN Proceed(c, "drop") ELSE Answer(c, "ok")
    /\ UNCHANGED <<object_vars, lock, puts, history>>

(* As if drop_table ran without the mutex once the column family is gone. *)
DropUnlocked(c) ==
    /\ pc[c] = "drop" /\ Free /\ b(c) # Default
    /\ cfs' = cfs \ {b(c)}
    /\ data' = [data EXCEPT ![b(c)] = [o \in Objects |-> 0]]
    /\ header' = [header EXCEPT ![b(c)] = [o \in Objects |-> 0]]
    /\ torn' = {s \in torn : s[1] # b(c)}
    /\ Proceed(c, "unname")
    /\ UNCHANGED <<named, lock, puts, crashes, half>>

(* drop_table drops the column family, with every object in it, unless it  *)
(* has gone meanwhile; RocksDB refuses to drop "default".                  *)
DropCf(c) ==
    /\ pc[c] = "drop" /\ Free /\ b(c) # Default
    /\ lock' = c
    /\ cfs' = cfs \ {b(c)}
    /\ data' = [data EXCEPT ![b(c)] = [o \in Objects |-> 0]]
    /\ header' = [header EXCEPT ![b(c)] = [o \in Objects |-> 0]]
    /\ torn' = {s \in torn : s[1] # b(c)}
    /\ Proceed(c, "unname")
    /\ UNCHANGED <<named, puts, crashes, half>>

DropRefused(c) ==
    /\ pc[c] = "drop" /\ Free /\ b(c) = Default
    /\ Answer(c, "failed")
    /\ UNCHANGED <<object_vars, lock, puts, history>>

(* drop_table deletes the table entries; delete_bucket answers. *)
UnnameBucket(c) ==
    /\ pc[c] = "unname"
    /\ named' = named \ {b(c)}
    /\ half' = half \ {b(c)}
    /\ lock' = Nobody
    /\ Answer(c, "ok")
    /\ UNCHANGED <<cfs, data, header, puts, crashes, torn>>

(* The process is killed; what was written stays (RocksDB's log is in the  *)
(* hands of the operating system).                                         *)
Crash ==
    /\ crashes < MaxCrashes
    /\ crashes' = crashes + 1
    /\ torn' = torn \cup {s \in Slots : \E c \in Workers : OnObject(c, s)}
    /\ half' = half \cup {x \in Buckets : \E c \in Workers : OnBucket(c, x)}
    /\ lock' = Nobody
    /\ pc' = [c \in Workers |-> "idle"]
    /\ answer' = [c \in Workers |-> "none"]
    /\ req' = [c \in Workers |-> Nothing]
    /\ UNCHANGED <<object_vars, puts>>

(* The second of two writes fails: what the first has written stays, and    *)
(* the request answers an error, but delete_objects goes on with the next  *)
(* key.  A first write that fails leaves what a dropped request leaves.    *)
WriteFails(c) ==
    /\ pc[c] \in Holding
    /\ crashes < MaxCrashes
    /\ crashes' = crashes + 1
    /\ torn' = torn \cup {s \in Slots : OnObject(c, s)}
    /\ half' = half \cup {x \in Buckets : OnBucket(c, x)}
    /\ lock' = Nobody
    /\ \/ pc[c] = "unheader" /\ NextKey(c, IF req[c].op = "delete" THEN "failed" ELSE "ok")
       \/ pc[c] # "unheader" /\ Answer(c, "failed")
    /\ UNCHANGED <<object_vars, puts>>

Step(c) ==
    \/ BucketRequest(c) \/ ObjectRequest(c) \/ ManyRequest(c) \/ CopyRequest(c)
    \/ Cancel(c)
    \/ CheckBucket(c) \/ CreateRefused(c) \/ CreateCf(c) \/ NameBucket(c)
    \/ PutData(c) \/ PutHeader(c) \/ ReadSource(c)
    \/ DeleteRefused(c) \/ DeleteData(c) \/ DeleteHeader(c)
    \/ DropCheck(c) \/ DropCf(c) \/ DropRefused(c) \/ UnnameBucket(c)
    \/ WriteFails(c)

Next == Crash \/ \E c \in Workers : Step(c)

Spec == Init /\ [][Next]_vars

-----------------------------------------------------------------------------
(* What the requests that only read return of the object in a slot, 0 when *)
(* they do not find it, and of the buckets.                                *)
GetObject(s) == data[s[1]][s[2]]
HeadObject(s) == header[s[1]][s[2]]
ListBuckets == named

(* Types, and the requests that have a key still to do. *)
OnKey(c) == \/ pc[c] \in {"read", "data", "header", "delete", "unheader"}
            \/ pc[c] \in {"ensure", "create", "name"} /\ req[c].op # "create"

RequestsOK ==
    /\ pc \in [Workers -> Places]
    /\ req \in [Workers -> Request \cup {Nothing}]
    /\ answer \in [Workers -> {"none", "ok", "failed"}]
    /\ \A c \in Workers : /\ pc[c] # "idle" => req[c] \in Request
                          /\ OnKey(c) => req[c].objects # <<>>

TypeOK ==
    /\ cfs \subseteq Buckets \cup {Default} /\ named \subseteq Buckets
    /\ data \in [Buckets -> [Objects -> Nat]]
    /\ header \in [Buckets -> [Objects -> Nat]]
    /\ lock \in Workers \cup {Nobody}
    /\ puts \in Nat /\ crashes \in Nat
    /\ torn \subseteq Slots /\ half \subseteq Buckets
    /\ RequestsOK

(* HeadersDescribe.  Whoever reads an object (get_object, head_object,     *)
(* list_objects) reads the headers of the put that wrote its bytes: no     *)
(* interleaving of puts, copies, deletes and drops of buckets mixes two    *)
(* puts.  Only a crash or a failing write between its two writes can.      *)
HeadersDescribe ==
    Free => \A s \in Slots \ torn : GetObject(s) = HeadObject(s)

(* BucketsListed.  Although creating and dropping a bucket give the mutex  *)
(* back after looking for it, the listing never differs from the buckets   *)
(* that can be written to: list_buckets finds a column family for each     *)
(* name and a name for each column family, unless a crash or a failing     *)
(* write cut a create or a drop.  ("default" is there without a name.)     *)
BucketsListed ==
    Free => \A x \in Buckets \ (half \cup {Default}) : x \in cfs <=> x \in ListBuckets

(* NothingWithoutBucket.  An object exists only in a bucket that exists:   *)
(* a put that found its bucket writes nothing once the bucket is dropped,  *)
(* and a bucket created again starts empty.                                *)
NothingWithoutBucket ==
    \A s \in Slots : s[1] \notin cfs => data[s[1]][s[2]] = 0 /\ header[s[1]][s[2]] = 0

(* BucketsSound.  A bucket that can be filled is one a client can list, and *)
(* one it can list can be filled; and an object is always in such a bucket. *)
BucketsSound == BucketsListed /\ NothingWithoutBucket

-----------------------------------------------------------------------------
(* What the documents say and the code does not keep.                      *)

(* CreateIdempotent (README.md:392, design.md:1316).  Creating a bucket is *)
(* idempotent: it does not fail because the bucket was created meanwhile.  *)
(* Refuted by two requests that create one bucket at the same time.        *)
CreateIdempotent ==
    [][\A c \in Workers : req[c] # Nothing /\ answer'[c] = "failed" => req[c].op # "create"]_vars

(* HeadersReturned (design.md:1320).  An object that can be read is        *)
(* returned with the Content-Type and ETag of its put, crash or not.       *)
(* Refuted by a crash between the two writes of a put.                     *)
HeadersReturned ==
    Free => \A s \in Slots : GetObject(s) # 0 => HeadObject(s) = GetObject(s)

(* ListingWorks (design.md:1315).  list_buckets returns the list of        *)
(* buckets: it never meets a name without a column family, on which it     *)
(* fails for every caller.  Refuted by a crash inside delete_bucket.       *)
ListingWorks == Free => ListBuckets \subseteq cfs

(* AllBucketsListed (design.md:1315).  A bucket that holds an object is    *)
(* among the buckets list_buckets returns.  Refuted by a put into a bucket *)
(* named "default".                                                        *)
AllBucketsListed ==
    Free => \A s \in Slots : GetObject(s) # 0 => s[1] \in ListBuckets
=============================================================================
