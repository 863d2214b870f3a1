------------------------------- MODULE MCMedia -------------------------------
(***************************************************************************)
(* The tags, images and face classes of the media services for TLC.  The   *)
(* three keep their state in different indexes and buckets and never wait  *)
(* for each other, so a behaviour is one of one of them: part says which.  *)
(***************************************************************************)
EXTENDS Tags, ImageStore, FaceClasses, TLC

VARIABLE part

mediaVars == <<tagVars, imageVars, faceVars, part>>

Init ==
    \/ /\ part = "tags" /\ ImageInit /\ keysMade = {} /\ FaceInit /\ idsUsed = {}
       /\ TagInit /\ \E s \in Sides : maps[s] = <<>>
    \/ part = "images" /\ TagInit /\ made = {} /\ FaceInit /\ idsUsed = {} /\ ImageInit
    \/ part = "faces" /\ TagInit /\ made = {} /\ ImageInit /\ keysMade = {} /\ FaceInit

Next ==
    \/ part = "tags" /\ TagNext /\ UNCHANGED <<imageVars, faceVars, part>>
    \/ part = "images" /\ ImageNext /\ UNCHANGED <<tagVars, faceVars, part>>
    \/ part = "faces" /\ FaceNext /\ UNCHANGED <<tagVars, imageVars, part>>

Spec == Init /\ [][Next]_mediaVars

(* The code tells none of these from another of its kind.  The sets share  *)
(* their values where one part uses each, which keeps the permutations few.*)
Symmetry ==
    Permutations(TagClients) \cup Permutations(TagIds) \cup Permutations(Images)
    \cup Permutations(ImageKeys)
ASSUME SharedValues ==
    /\ TagClients = Clients /\ TagClients = FaceClients
    /\ TagIds = Buckets /\ Images = Pictures /\ ImageKeys = FaceIds
=============================================================================
