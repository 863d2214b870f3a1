---------------------------- MODULE ObjectFronts ----------------------------
(***************************************************************************)
(* The three ways to the objects of a bucket: gRPC, the REST router of     *)
(* laoflchdb_object_store_service/src/lib.rs and the S3 protocol of        *)
(* s3.rs.  Each makes a name, a range and a body of what the client sent   *)
(* and calls the object store, whose own steps are in ObjectStore: here a  *)
(* call is one step.  A client puts an object together from the answers to *)
(* its requests, while others store and delete.                            *)
(*                                                                         *)
(* A name is a base with perhaps a slash before and after it; clients      *)
(* encode names and the server decodes them once.  The bytes of an object  *)
(* are pairs of the put that wrote them and their place.  Hashes and       *)
(* signatures are the values they are computed from.                       *)
(***************************************************************************)
EXTENDS Integers, FiniteSets, Sequences

CONSTANTS
    Names,        \* the names asked for, see FrontsAssumption
    MaxSize,      \* the largest body sent, in units of the smallest range
    MaxBody,      \* the largest body s3_dispatch reads (50 MiB)
    MaxSent,      \* bound on the puts
    Signatures,   \* how S3 requests are signed, see Verified
    Absent        \* no object, no byte, no download

Fronts == {"grpc", "rest", "s3"}

VARIABLES
    objects,    \* the objects of the bucket by name: [put, size] or Absent
    sent,       \* the puts that were answered, in order: [front, name, size]
    answered,   \* the last refusal or answer to a range: [status, range, total, body]
    download    \* what the client has of an object: [name, etag, total, got]

frontVars == <<objects, sent, answered, download>>

-----------------------------------------------------------------------------
(* Signatures.  One is a record of the request as it was signed: auth (by  *)
(* header or by query), dated (the header its time is read from), query (a *)
(* sequence of [name, value]), runs (a signed header has a run of spaces   *)
(* inside), spaced (the commas of the header are followed by spaces) and   *)
(* hashed (the hash of the body is sent along).                            *)

InPlaces(query, place) ==
    [i \in DOMAIN query |-> query[CHOOSE j \in DOMAIN query : place[j] = i]]
Sorted(query, Before(_, _)) ==
    InPlaces(query, [j \in DOMAIN query |->
        1 + Cardinality({k \in DOMAIN query \ {j} :
                            \/ Before(query[k], query[j])
                            \/ (k < j /\ ~Before(query[j], query[k]))})])

(* Both canonical query strings: sorted by name, and stable. *)
CanonicalQuery(query) == Sorted(query, LAMBDA p, q : p.name < q.name)

(* s3_dispatch reads the body, or nothing of one that is too long. *)
Received(size) == IF size > MaxBody THEN 0 ELSE size

Timestamp(s) == IF s.dated = "x-amz-date" THEN "iso" ELSE "http"
PayloadHash(s, size) == IF s.hashed THEN size ELSE Received(size)

CanonicalRequest(s, payload) ==
    [query |-> CanonicalQuery(s.query), joined |-> ~s.runs, payload |-> payload]
StringToSign(time, request) == [time |-> time, request |-> request]

VerifyHeaderAuth(s, size, signature) ==
    /\ s.spaced
    /\ StringToSign(Timestamp(s), CanonicalRequest(s, PayloadHash(s, size))) = signature
VerifyQueryAuth(s, signature) ==
    StringToSign("iso", CanonicalRequest(s, "unsigned")) = signature

(* What a client that follows AWS Signature V4 signs: the query sorted by  *)
(* name and value, runs of spaces joined.                                  *)
SignedQuery(query) ==
    Sorted(query, LAMBDA p, q : p.name < q.name \/ (p.name = q.name /\ p.value < q.value))
Signature(s, size) ==
    StringToSign("iso", [query |-> SignedQuery(s.query), joined |-> TRUE,
                         payload |-> IF s.auth = "header" THEN size ELSE "unsigned"])

Verified ==
    [s \in Signatures |-> [size \in 0 .. MaxSize |->
        \/ s.auth = "header" /\ VerifyHeaderAuth(s, size, Signature(s, size))
        \/ s.auth = "query" /\ VerifyQueryAuth(s, Signature(s, size))]]

-----------------------------------------------------------------------------
(* Names on their way to the store: s3_dispatch takes the slashes off the  *)
(* end of the path, the REST handlers take one off the front of the key.   *)
S3Key(n) == [n EXCEPT !.trail = FALSE]
RestKey(n) == [n EXCEPT !.lead = FALSE]

ASSUME FrontsAssumption ==
    /\ \A n \in Names : DOMAIN n = {"lead", "base", "trail"} /\ {S3Key(n), RestKey(n)} \subseteq Names
    /\ MaxSize \in Nat \ {0} /\ MaxBody \in Nat /\ MaxSent \in Nat /\ Absent \notin Nat

Key(front, n) == CASE front = "s3" -> S3Key(n)
                   [] front = "rest" -> RestKey(n)
                   [] front = "grpc" -> n

-----------------------------------------------------------------------------
(* Ranges: first-last, first- (last = Absent) and -last (first = Absent).*)
Whole == [kind |-> "full"]
Unsatisfiable == [kind |-> "none"]
Slice(a, b) == [kind |-> "part", from |-> a, to |-> b]

(* As if the last bytes were counted from the place of the last byte. *)
ParseRangeShort(r, total) ==
    IF total > 0 /\ r.first = Absent /\ r.last # 0
    THEN Slice(IF r.last > total - 1 THEN 0 ELSE total - 1 - r.last, total - 1)
    ELSE IF total > 0 /\ r.first # Absent /\ r.first < total /\ r.last # Absent
    THEN Slice(r.first, IF r.last < total THEN r.last ELSE total - 1)
    ELSE Unsatisfiable

(* parse_range_header: a range that ends before it begins is ignored. *)
ParseRangeHeader(r, total) ==
    CASE total = 0 -> Unsatisfiable
      [] total > 0 /\ r.first = Absent ->
           IF r.last = 0 THEN Unsatisfiable
           ELSE Slice(IF r.last > total THEN 0 ELSE total - r.last, total - 1)
      [] total > 0 /\ r.first # Absent ->
           IF r.first >= total THEN Unsatisfiable
           ELSE IF r.last = Absent THEN Slice(r.first, total - 1)
           ELSE IF r.last < r.first THEN Whole
           ELSE Slice(r.first, IF r.last < total THEN r.last ELSE total - 1)

Ranges ==
    {[first |-> a, last |-> b] : a \in 0 .. MaxSize, b \in (0 .. MaxSize) \cup {Absent}}
    \cup {[first |-> Absent, last |-> b] : b \in 0 .. MaxSize + 1}

(* The bytes of an object from one place to another.  A place beyond its   *)
(* end panics, and the client gets nothing.                                *)
Bytes(o, a, b) == [p \in a .. b |-> IF p < o.size THEN <<o.put, p>> ELSE Absent]

NoAnswer == [status |-> "no answer"]
RangeAnswer(status, r, o, body) ==
    [status |-> status, range |-> r, total |-> o.size, body |-> DOMAIN body]

-----------------------------------------------------------------------------
FrontInit ==
    /\ objects = [n \in Names |-> Absent]
    /\ sent = <<>> /\ answered = NoAnswer /\ download = Absent

(* The client keeps what belongs to the object it is putting together, and *)
(* begins anew when the ETag is another.                                   *)
Collect(n, o, body) ==
    LET same == download # Absent /\ download.name = n /\ download.etag = o.put
        have == IF same THEN DOMAIN download.got ELSE {}
    IN  download' = [name |-> n, etag |-> o.put, total |-> o.size,
                     got |-> [p \in DOMAIN body \cup have |->
                                IF p \in DOMAIN body THEN body[p] ELSE download.got[p]]]

(* An S3 request that is not let in changes and answers nothing. *)
Refuse(size) ==
    /\ answered' = [status |-> "refused", size |-> size]
    /\ UNCHANGED <<objects, sent, download>>

Store(front, n, size, kept) ==
    /\ Len(sent) < MaxSent
    /\ sent' = Append(sent, [front |-> front, name |-> n, size |-> size])
    /\ objects' = [objects EXCEPT ![Key(front, n)] = [put |-> Len(sent) + 1, size |-> kept]]
    /\ answered' = NoAnswer
    /\ UNCHANGED download

PutObject(front, n, size) == front # "s3" /\ Store(front, n, size, size)
S3PutObject(s, n, size) ==
    IF Verified[s][size] THEN Store("s3", n, size, Received(size)) ELSE Refuse(size)

DeleteObject(front, n) ==
    /\ objects' = [objects EXCEPT ![Key(front, n)] = Absent]
    /\ answered' = NoAnswer
    /\ UNCHANGED <<sent, download>>

(* Dropping the bucket; the next put creates it again. *)
DeleteBucket ==
    /\ objects' = [n \in Names |-> Absent]
    /\ answered' = NoAnswer
    /\ UNCHANGED <<sent, download>>

Missing(front, n) == objects[Key(front, n)] = Absent
NotFound == answered' = NoAnswer /\ UNCHANGED <<objects, sent, download>>

(* AskHead: the client learns ETag and length. *)
AskHead(front, n) ==
    \/ Missing(front, n) /\ NotFound
    \/ /\ ~Missing(front, n)
       /\ LET o == objects[Key(front, n)]
          IN  Collect(n, o, <<>>)
       /\ answered' = NoAnswer /\ UNCHANGED <<objects, sent>>

(* The whole object, as gRPC, REST and an S3 request without a range ask. *)
AskWhole(front, n) ==
    \/ Missing(front, n) /\ NotFound
    \/ /\ ~Missing(front, n)
       /\ LET o == objects[Key(front, n)]
          IN  Collect(n, o, Bytes(o, 0, o.size - 1))
       /\ answered' = NoAnswer /\ UNCHANGED <<objects, sent>>

S3GetObject(verified, n, r) ==
    \/ ~verified /\ Refuse(0)
    \/ verified /\ Missing("s3", n) /\ NotFound
    \/ /\ verified /\ ~Missing("s3", n)
       /\ LET o == objects[S3Key(n)]
              slice == ParseRangeHeader(r, o.size)
              body == CASE slice.kind = "part" -> Bytes(o, slice.from, slice.to)
                        [] slice.kind = "full" -> Bytes(o, 0, o.size - 1)
                        [] slice.kind = "none" -> <<>>
          IN  /\ answered' = RangeAnswer(slice.kind, r, o, body)
              /\ IF slice.kind = "none" THEN UNCHANGED download ELSE Collect(n, o, body)
       /\ UNCHANGED <<objects, sent>>

FrontNext ==
    \E n \in Names :
        \/ \E front \in Fronts : DeleteObject(front, n) \/ AskHead(front, n) \/ AskWhole(front, n)
        \/ \E front \in Fronts, size \in 0 .. MaxSize : PutObject(front, n, size)
        \/ \E s \in Signatures, size \in 0 .. MaxSize : S3PutObject(s, n, size)
        \/ \E verified \in {Verified[s][0] : s \in Signatures}, r \in Ranges :
               S3GetObject(verified, n, r)
        \/ DeleteBucket

FrontSpec == FrontInit /\ [][FrontNext]_frontVars

-----------------------------------------------------------------------------
(* What a download that has every byte of its object holds is what one put *)
(* stored, byte for byte, however many others came between its ranges.     *)
OfOnePut ==
    LET d == download
    IN  d # Absent /\ 0 .. d.total - 1 \subseteq DOMAIN d.got
            => d.got = [p \in 0 .. d.total - 1 |-> <<d.etag, p>>]

(* The bytes a range asks for, by RFC 7233. *)
Asked(r, total) ==
    {p \in 0 .. total - 1 :
        \/ r.first = Absent /\ p >= total - r.last
        \/ r.first # Absent /\ r.first <= p /\ (r.last = Absent \/ p <= r.last)}

AsAsked ==
    LET a == answered
    IN  a.status \in {"part", "none"} =>
            /\ a.body = Asked(a.range, a.total)
            /\ a.status = "none" <=> Asked(a.range, a.total) = {}

(* DownloadsWhole (s3.rs, GetObject with ranges).  A client that puts an   *)
(* object together from ranges, beginning anew when the ETag changes, ends *)
(* with the bytes of one put; each answer has the bytes asked for; and a   *)
(* request signed by the book is let in (unless its body is too long), if  *)
(* its query names no parameter twice, its headers have single spaces and  *)
(* it is dated by x-amz-date.                                              *)
DownloadsWhole == OfOnePut /\ AsAsked /\ (answered.status = "refused" => answered.size > MaxBody)

-----------------------------------------------------------------------------
(* What the documents say and the code does not keep.                      *)

(* UploadsWhole (S3_API.md:169: large objects can be uploaded).  Refuted:  *)
(* of a body past the limit nothing is read, and an empty object is stored *)
(* and acknowledged when the client sent the hash of its body or signed by *)
(* query.                                                                  *)
UploadsWhole ==
    \A n \in Names : objects[n] # Absent => objects[n].size = sent[objects[n].put].size

(* UnderItsName (README.md:388 and S3_API.md:5: the same objects through   *)
(* gRPC, REST and S3).  Refuted by a folder object put through S3, which   *)
(* replaces the object of the folder's name without the slash, and by a    *)
(* name with a slash in front put through REST.                            *)
UnderItsName ==
    \A n \in Names : objects[n] # Absent => sent[objects[n].put].name = n

(* SignedAccepted (S3_API.md:7, AWS Signature V4).  Refuted by two values *)
(* of one parameter out of order, by a run of spaces in a signed header    *)
(* and by a request dated by its date header.                              *)
SignedAccepted == answered.status = "refused" => answered.size > MaxBody
=============================================================================
