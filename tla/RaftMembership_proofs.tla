------------------------ MODULE RaftMembership_proofs ------------------------
(***************************************************************************)
(* Proofs about RaftMembership for any peers, calls and bounds: calls made *)
(* one at a time never undo what an earlier one was told.                  *)
(***************************************************************************)
EXTENDS RaftMembership, TLAPS

Active(c) == pc[c] \notin Settled

\* What c is about to ask for agrees with what the others were told.
GoalOK(c) ==
  \A p \in Peers : /\ want[p] = "in"  => p \in goal[c]
                   /\ want[p] = "out" => p \notin goal[c]

\* Who may be where.
KindInv(c) ==
  /\ op[c] = "auto" <=> c = Joiner
  /\ pc[c] \in {"add", "adding", "read"} => op[c] # "remove"
  /\ pc[c] = "read" => c # Joiner
  /\ c # Joiner /\ Active(c) => peer[c] \in Peers /\ want[peer[c]] = "any"

\* What a call knows about the membership it is changing.
ChangeInv(c) ==
  /\ c = Joiner /\ pc[c] \in {"add", "adding", "change"} => GoalOK(c)
  /\ pc[c] = "change" /\ op[c] = "add" => GoalOK(c) /\ peer[c] \in goal[c]
  /\ pc[c] \in Waiting => leading /\ ~committed
  /\ pc[c] = "flatten" => committed
  /\ pc[c] \in {"changing", "flatten", "flattening"} =>
       /\ op[c] = "add" => peer[c] \in config.voters
       /\ op[c] = "remove" => peer[c] \notin config.voters
  /\ pc[c] = "flattening" => config.joint = {}

SerialInv ==
  /\ \A c, d \in Everyone : c # d => ~Active(c) \/ ~Active(d)
  /\ \A c \in Everyone : KindInv(c) /\ ChangeInv(c)
  /\ AddsHold /\ RemovesHold

IInv == /\ TypeOK
        /\ committed => prev = config
        /\ ~met => SerialInv
-----------------------------------------------------------------------------
\* A membership one step away has the voters asked for, keeps nothing but
\* them and the outgoing ones, and only uses known nodes.
LEMMA Coherent ==
  ASSUME NEW cfg \in Config, NEW g \in SUBSET Nodes
  PROVE  /\ NextCoherent(cfg, g) \in Config
         /\ NextCoherent(cfg, g).voters = g
         /\ NextCoherent(cfg, g).joint \in {{}, cfg.voters}
         /\ g = cfg.voters => NextCoherent(cfg, g).joint = {}
  BY DEF NextCoherent, Uniform, VoterIds, Config

LEMMA AskedType ==
  ASSUME TypeOK, NEW c \in Everyone
  PROVE  Asked(c) \in SUBSET Nodes
  BY DEF TypeOK, Asked, Config

LEMMA InitInv == Init => IInv
  <1> SUFFICES ASSUME Init PROVE IInv
    OBVIOUS
  <1> USE DEF Init, Uniform
  <1>1. TypeOK
    BY NameAssumption, BoundAssumption DEF TypeOK, Config, Nodes, Places
  <1>2. \A c \in Everyone : /\ pc[c] \in {"idle", "ok"}
                            /\ op[c] = "auto" <=> c = Joiner
    BY NameAssumption DEF Everyone
  <1>3. \A c \in Everyone : KindInv(c) /\ ChangeInv(c) /\ ~Active(c)
    BY <1>2 DEF KindInv, ChangeInv, Active, Settled, Waiting
  <1>4. AddsHold /\ RemovesHold
    BY DEF AddsHold, RemovesHold
  <1>5. SerialInv
    BY <1>3, <1>4 DEF SerialInv
  <1> QED
    BY <1>1, <1>5 DEF IInv

LEMMA TypeStep ==
  ASSUME TypeOK, [Next]_vars
  PROVE  TypeOK'
  <1> USE DEF TypeOK, envVars, confVars, history, callVars
  <1>1. ASSUME NEW c \in Callers, NEW p \in Peers, StartAdd(c, p) \/ StartRemove(c, p)
        PROVE  TypeOK'
    <2>1. met' \in BOOLEAN
      BY <1>1 DEF StartAdd, StartRemove, Begins
    <2>2. UNCHANGED <<config, committed, prev, leading, up, losses, goal>>
      BY <1>1 DEF StartAdd, StartRemove
    <2>3. /\ pc' \in [Everyone -> Places] /\ op' \in [Everyone -> {"add", "remove", "auto"}]
          /\ peer' \in [Everyone -> Nodes] /\ todo' \in [Everyone -> SUBSET Peers]
          /\ want' \in [Peers -> {"any", "in", "out"}]
      BY <1>1 DEF StartAdd, StartRemove, Places, Everyone, Nodes
    <2> QED
      BY <2>1, <2>2, <2>3
  <1>2. ASSUME NEW c \in Everyone, Refused(c) \/ BadMembership(c)
        PROVE  TypeOK'
    BY <1>2 DEF Refused, BadMembership, Failed, Places
  <1>3. ASSUME NEW c \in Everyone, ReadVoters(c)
        PROVE  TypeOK'
    BY <1>3 DEF ReadVoters, VotersAnd, VoterIds, Config, Places
  <1>4. ASSUME NEW c \in Everyone, ChangeMembership(c)
        PROVE  TypeOK'
    <2>1. NextCoherent(config, Asked(c)) \in Config
      BY AskedType, Coherent
    <2> QED
      BY <1>4, <2>1 DEF ChangeMembership, Propose, Places
  <1>5. ASSUME NEW c \in Everyone, Flatten(c)
        PROVE  TypeOK'
    <2>1. NextCoherent(config, config.voters) \in Config
      BY Coherent DEF Config
    <2> QED
      BY <1>5, <2>1 DEF Flatten, Propose, Places
  <1>6. ASSUME NEW c \in Everyone, NEW p \in todo[c], AddLearner(c, p)
        PROVE  TypeOK'
    <2>1. [config EXCEPT !.nodes = @ \cup {p}] \in Config
      BY DEF Config, Nodes
    <2> QED
      BY <1>6, <2>1 DEF AddLearner, Propose, Places
  <1>7. CASE AutoRound
    <2>1. Missing \in SUBSET Peers /\ VoterIds(config) \in SUBSET Nodes
      BY NameAssumption DEF Missing, VoterIds, Config
    <2>2. JoinGoal \in SUBSET Nodes
      BY <2>1 DEF JoinGoal, Nodes
    <2>3. todo' \in [Everyone -> SUBSET Peers] /\ goal' \in [Everyone -> SUBSET Nodes]
      BY <1>7, <2>1, <2>2 DEF AutoRound
    <2>4. want' \in [Peers -> {"any", "in", "out"}]
      BY <1>7 DEF AutoRound
    <2>5. pc' \in [Everyone -> Places]
      BY <1>7 DEF AutoRound, Places
    <2> QED
      BY <1>7, <2>3, <2>4, <2>5 DEF AutoRound, Begins
  <1>8. CASE GiveUp
    BY <1>8 DEF GiveUp, Places
  <1>9. CASE Commit
    <2>1. \A c \in Everyone : After(c) \in Places
      BY DEF After, Places
    <2>2. \A p \in Peers : Told(p) \in {"any", "in", "out"}
      BY DEF Told
    <2>3. pc' \in [Everyone -> Places] /\ want' \in [Peers -> {"any", "in", "out"}]
      BY <1>9, <2>1, <2>2 DEF Commit
    <2> QED
      BY <1>9, <2>3 DEF Commit
  <1>10. CASE LoseLeadership
    <2>1. \A c \in Everyone : Failed(c) \in Places
      BY DEF Failed, Places
    <2>2. pc' \in [Everyone -> Places]
      BY <1>10, <2>1 DEF LoseLeadership
    <2>3. losses' \in Nat
      BY <1>10 DEF LoseLeadership
    <2>4. leading' = FALSE /\ UNCHANGED <<confVars, up, callVars, want, met>>
      BY <1>10, Zenon DEF LoseLeadership
    <2> QED
      BY <2>2, <2>3, <2>4
  <1>11. CASE Overwrite \/ BecomeLeader
    BY <1>11 DEF Overwrite, BecomeLeader
  <1>12. ASSUME NEW p \in Peers, PeerUp(p)
         PROVE  TypeOK'
    BY <1>12 DEF PeerUp, Nodes
  <1>13. CASE UNCHANGED vars
    BY <1>13 DEF vars
  <1> QED
    BY <1>1, <1>2, <1>3, <1>4, <1>5, <1>6, <1>7, <1>8, <1>9, <1>10, <1>11,
       <1>12, <1>13 DEF Next, Proceed
-----------------------------------------------------------------------------
(* One lemma per action: what it does to SerialInv. *)

\* A call that settles, everything else unchanged.
LEMMA SettleStep ==
  ASSUME TypeOK, SerialInv, NEW c \in Everyone, NEW s \in Settled,
         pc' = [pc EXCEPT ![c] = s],
         UNCHANGED <<confVars, leading, callVars, want>>
  PROVE  SerialInv'
  <1> USE DEF TypeOK, confVars, history, callVars
  <1>1. \A d \in Everyone : Active(d)' => Active(d) /\ pc'[d] = pc[d]
    BY DEF Active
  <1>2. \A d \in Everyone : ~Active(d)' =>
          pc'[d] \notin {"add", "adding", "read", "change", "changing",
                         "flatten", "flattening"}
    BY DEF Active, Settled
  <1>3. \A d \in Everyone : KindInv(d)' /\ ChangeInv(d)'
    BY <1>1, <1>2 DEF SerialInv, KindInv, ChangeInv, GoalOK, Active, Settled, Waiting
  <1> QED
    BY <1>1, <1>3 DEF SerialInv, AddsHold, RemovesHold, VoterIds

\* A call begins, about a peer that is marked as open again.
LEMMA StartStep ==
  ASSUME ~met', TypeOK, SerialInv, NEW c \in Callers, NEW p \in Peers,
         StartAdd(c, p) \/ StartRemove(c, p)
  PROVE  SerialInv'
  <1> USE DEF TypeOK, confVars, callVars, envVars, history
  <1>1. c \in Everyone /\ c # Joiner /\ \A d \in Everyone \ {c} : pc[d] \in Settled
    BY NameAssumption DEF StartAdd, StartRemove, Begins, Alone, Everyone
  <1>2. /\ \A d \in Everyone \ {c} : pc'[d] = pc[d] /\ op'[d] = op[d] /\ ~Active(d)'
        /\ pc'[c] \in {"add", "change"} /\ op'[c] \in {"add", "remove"}
        /\ pc'[c] = "change" <=> op'[c] = "remove"
        /\ peer'[c] = p /\ want' = [want EXCEPT ![p] = "any"]
    BY <1>1 DEF StartAdd, StartRemove, Active
  <1>3. KindInv(c)' /\ ChangeInv(c)'
    BY <1>1, <1>2 DEF KindInv, ChangeInv, Waiting
  <1>4. \A d \in Everyone \ {c} : KindInv(d)' /\ ChangeInv(d)'
    BY <1>1, <1>2 DEF SerialInv, KindInv, ChangeInv, Active, Settled, Waiting
  <1>5. AddsHold' /\ RemovesHold'
    BY <1>2 DEF StartAdd, StartRemove, SerialInv, AddsHold, RemovesHold, VoterIds
  <1> QED
    BY <1>2, <1>3, <1>4, <1>5 DEF SerialInv

LEMMA ReadStep ==
  ASSUME TypeOK, SerialInv, NEW c \in Everyone, ReadVoters(c)
  PROVE  SerialInv'
  <1> USE DEF TypeOK, confVars, callVars, envVars, history, ReadVoters
  <1>1. c # Joiner /\ op[c] = "add" /\ peer[c] \in Peers /\ want[peer[c]] = "any"
    BY DEF SerialInv, KindInv, Active, Settled
  <1>2. \A d \in Everyone \ {c} : ~Active(d) /\ pc'[d] = pc[d]
    BY DEF SerialInv, Active, Settled
  <1>3. goal'[c] = VoterIds(config) \cup {peer[c]}
    BY DEF VotersAnd
  <1>4. GoalOK(c)'
    BY <1>1, <1>3 DEF SerialInv, GoalOK, AddsHold, RemovesHold, VoterIds
  <1>5. KindInv(c)' /\ ChangeInv(c)'
    BY <1>1, <1>3, <1>4 DEF KindInv, ChangeInv, Waiting
  <1>6. \A d \in Everyone \ {c} : KindInv(d)' /\ ChangeInv(d)' /\ ~Active(d)'
    BY <1>2 DEF SerialInv, KindInv, ChangeInv, Active, Settled, Waiting
  <1> QED
    BY <1>5, <1>6 DEF SerialInv, AddsHold, RemovesHold, VoterIds

\* The common part of AddLearner, ChangeMembership and Flatten: cfg is proposed.
LEMMA ProposeStep ==
  ASSUME TypeOK, SerialInv, NEW c \in Everyone, NEW cfg \in Config,
         NEW place \in Waiting,
         pc[c] \in {"add", "change", "flatten"}, Propose(c, cfg, place),
         UNCHANGED <<op, peer, goal>>,
         \A p \in Peers : /\ want[p] = "in" => p \in cfg.voters
                          /\ want[p] = "out" => p \notin VoterIds(cfg),
         place = "adding" <=> pc[c] = "add",
         place # "adding" =>
           /\ op[c] = "add" => peer[c] \in cfg.voters
           /\ op[c] = "remove" => peer[c] \notin cfg.voters,
         place = "flattening" => cfg.joint = {}
  PROVE  SerialInv'
  <1> USE DEF TypeOK, Propose, envVars, history
  <1>1. \A d \in Everyone \ {c} : ~Active(d) /\ pc'[d] = pc[d]
    BY DEF SerialInv, Active, Settled
  <1>2. pc'[c] = place
    OBVIOUS
  <1>3. KindInv(c)'
    BY <1>2 DEF SerialInv, KindInv, Active, Settled, Waiting
  <1>4. ChangeInv(c)'
    BY <1>2 DEF SerialInv, ChangeInv, GoalOK, Waiting
  <1>5. \A d \in Everyone \ {c} : KindInv(d)' /\ ChangeInv(d)' /\ ~Active(d)'
    BY <1>1 DEF SerialInv, KindInv, ChangeInv, Active, Settled, Waiting
  <1>6. AddsHold' /\ RemovesHold'
    BY DEF SerialInv, AddsHold, RemovesHold, VoterIds
  <1> QED
    BY <1>3, <1>4, <1>5, <1>6 DEF SerialInv

LEMMA AddLearnerStep ==
  ASSUME TypeOK, SerialInv, NEW c \in Everyone, NEW p \in todo[c], AddLearner(c, p)
  PROVE  SerialInv'
  <1> DEFINE cfg == [config EXCEPT !.nodes = @ \cup {p}]
  <1>1. /\ cfg \in Config /\ cfg.voters = config.voters /\ cfg.joint = config.joint
    BY DEF TypeOK, Config, Nodes
  <1>2. \A q \in Peers : /\ want[q] = "in" => q \in cfg.voters
                         /\ want[q] = "out" => q \notin VoterIds(cfg)
    BY <1>1 DEF SerialInv, AddsHold, RemovesHold, VoterIds
  <1>3. pc[c] = "add" /\ Propose(c, cfg, "adding") /\ UNCHANGED <<op, peer, goal>>
    BY DEF AddLearner
  <1> HIDE DEF cfg
  <1> QED
    BY <1>1, <1>2, <1>3, ProposeStep DEF Waiting

LEMMA ChangeStep ==
  ASSUME TypeOK, SerialInv, NEW c \in Everyone, ChangeMembership(c)
  PROVE  SerialInv'
  <1> DEFINE cfg == NextCoherent(config, Asked(c))
  <1>1. /\ cfg \in Config /\ cfg.voters = Asked(c) /\ cfg.joint \in {{}, config.voters}
    BY AskedType, Coherent DEF TypeOK
  <1>2. /\ op[c] = "remove" => Asked(c) = config.voters \ {peer[c]}
        /\ op[c] # "remove" => Asked(c) = goal[c]
        /\ pc[c] = "change"
    BY DEF Asked, ChangeMembership
  <1>3. c # Joiner => peer[c] \in Peers /\ want[peer[c]] = "any"
    BY <1>2 DEF SerialInv, KindInv, Active, Settled
  <1>4. /\ op[c] = "remove" => c # Joiner
        /\ op[c] # "remove" => GoalOK(c) /\ (op[c] = "add" => peer[c] \in goal[c])
    BY <1>2 DEF TypeOK, SerialInv, KindInv, ChangeInv
  <1>5. \A q \in Peers : want[q] = "in" => q \in config.voters
    BY DEF SerialInv, AddsHold
  <1>6. \A q \in Peers : want[q] = "out" => q \notin config.voters
    BY DEF SerialInv, RemovesHold, VoterIds
  <1>7. \A q \in Peers : want[q] = "in" => q \in cfg.voters
    BY <1>1, <1>2, <1>3, <1>4, <1>5 DEF GoalOK
  <1>8. \A q \in Peers : want[q] = "out" => q \notin VoterIds(cfg)
    BY <1>1, <1>2, <1>3, <1>4, <1>6 DEF GoalOK, VoterIds
  <1>9. /\ op[c] = "add" => peer[c] \in cfg.voters
        /\ op[c] = "remove" => peer[c] \notin cfg.voters
    BY <1>1, <1>2, <1>4
  <1>10. Propose(c, cfg, "changing") /\ UNCHANGED <<op, peer, goal>>
    BY DEF ChangeMembership, callVars
  <1> HIDE DEF cfg
  <1> QED
    BY <1>1, <1>2, <1>7, <1>8, <1>9, <1>10, ProposeStep DEF Waiting

LEMMA FlattenStep ==
  ASSUME TypeOK, SerialInv, NEW c \in Everyone, Flatten(c)
  PROVE  SerialInv'
  <1> DEFINE cfg == NextCoherent(config, config.voters)
  <1>1. cfg \in Config /\ cfg.voters = config.voters /\ cfg.joint = {}
    <2>1. config \in Config /\ config.voters \in SUBSET Nodes
      BY DEF TypeOK, Config
    <2> QED
      BY <2>1, Coherent
  <1>2. \A q \in Peers : /\ want[q] = "in" => q \in cfg.voters
                         /\ want[q] = "out" => q \notin VoterIds(cfg)
    BY <1>1 DEF SerialInv, AddsHold, RemovesHold, VoterIds
  <1>3. /\ pc[c] = "flatten" /\ Propose(c, cfg, "flattening")
        /\ UNCHANGED <<op, peer, goal>>
    BY DEF Flatten, callVars
  <1>4. /\ op[c] = "add" => peer[c] \in cfg.voters
        /\ op[c] = "remove" => peer[c] \notin cfg.voters
    BY <1>1, <1>3 DEF SerialInv, ChangeInv
  <1> HIDE DEF cfg
  <1> QED
    BY <1>1, <1>2, <1>3, <1>4, ProposeStep DEF Waiting

LEMMA AutoStep ==
  ASSUME ~met', TypeOK, SerialInv, AutoRound
  PROVE  SerialInv'
  <1> USE DEF TypeOK, confVars, envVars, history, AutoRound
  <1>1. \A d \in Everyone \ {Joiner} : ~Active(d) /\ pc'[d] = pc[d]
    BY DEF Begins, Alone, Active
  <1>2. Joiner \in Everyone /\ pc'[Joiner] \in {"ok", "add"}
    BY DEF Everyone
  <1>3. goal'[Joiner] = VoterIds(config) \cup Missing
    BY <1>2 DEF JoinGoal
  <1>4. \A p \in Peers : want'[p] # "any" => want'[p] = want[p] /\ p \notin Missing
    OBVIOUS
  <1>5. GoalOK(Joiner)'
    BY <1>3, <1>4 DEF GoalOK, SerialInv, AddsHold, RemovesHold, VoterIds
  <1>6. KindInv(Joiner)' /\ ChangeInv(Joiner)'
    BY <1>2, <1>5 DEF SerialInv, KindInv, ChangeInv, Waiting
  <1>7. \A d \in Everyone \ {Joiner} : KindInv(d)' /\ ChangeInv(d)' /\ ~Active(d)'
    BY <1>1 DEF SerialInv, KindInv, ChangeInv, Active, Settled, Waiting
  <1>8. AddsHold' /\ RemovesHold'
    BY <1>4 DEF SerialInv, AddsHold, RemovesHold, VoterIds
  <1> QED
    BY <1>6, <1>7, <1>8 DEF SerialInv

\* The entry of the one waiting call is committed.
LEMMA CommitStep ==
  ASSUME TypeOK, SerialInv, Commit
  PROVE  SerialInv'
  <1> USE DEF TypeOK, envVars, history, callVars
  <1>1. \A c \in Everyone : pc'[c] = IF pc[c] \in Waiting THEN After(c) ELSE pc[c]
    BY DEF Commit
  <1>2. ASSUME NEW c \in Everyone, pc[c] \in Waiting
        PROVE  /\ After(c) = "ok" => /\ c # Joiner /\ op[c] \in {"add", "remove"}
                                     /\ op[c] = "add" => peer[c] \in config.voters
                                     /\ op[c] = "remove" => peer[c] \notin VoterIds(config)
               /\ pc[c] = "adding" => After(c) = IF todo[c] # {} THEN "add"
                                        ELSE IF c = Joiner THEN "change" ELSE "read"
               /\ pc[c] # "adding" => After(c) \in {"flatten", Failed(c), "ok"}
               /\ After(c) = "flatten" => pc[c] = "changing"
    <2>1. /\ pc[c] = "adding" => After(c) = IF todo[c] # {} THEN "add"
                                        ELSE IF c = Joiner THEN "change" ELSE "read"
          /\ pc[c] = "changing" /\ config.joint # {} => After(c) = "flatten"
          /\ pc[c] = "changing" /\ config.joint = {} =>
               After(c) = IF c = Joiner THEN "idle" ELSE "ok"
          /\ pc[c] = "flattening" => After(c) = IF c = Joiner THEN "idle" ELSE "ok"
      BY DEF After
    <2>2. KindInv(c) /\ ChangeInv(c)
      BY DEF SerialInv
    <2>3. pc[c] \in {"adding", "changing", "flattening"}
      BY <1>2 DEF Waiting
    <2>4. After(c) = "ok" => c # Joiner /\ pc[c] \in {"changing", "flattening"} /\ config.joint = {}
      BY <2>1, <2>2, <2>3 DEF ChangeInv
    <2> QED
      BY <2>1, <2>2, <2>3, <2>4 DEF KindInv, ChangeInv, VoterIds, Failed
  <1>3. \A p \in Peers :
          /\ want'[p] = "in" => p \in config.voters
          /\ want'[p] = "out" => p \notin VoterIds(config)
    <2> TAKE p \in Peers
    <2>1. want'[p] = Told(p)
      BY DEF Commit
    <2>2. CASE \E c \in Callers : pc[c] \in Waiting /\ After(c) = "ok" /\ peer[c] = p
      <3>1. CASE \E c \in Callers : /\ pc[c] \in Waiting /\ After(c) = "ok"
                                    /\ peer[c] = p /\ op[c] = "add"
        BY <1>2, <2>1, <2>2, <3>1 DEF Told, Everyone
      <3>2. CASE ~\E c \in Callers : /\ pc[c] \in Waiting /\ After(c) = "ok"
                                     /\ peer[c] = p /\ op[c] = "add"
        <4>1. PICK c \in Callers : pc[c] \in Waiting /\ After(c) = "ok" /\ peer[c] = p
          BY <2>2
        <4>2. op[c] = "remove"
          BY <1>2, <3>2, <4>1 DEF Everyone
        <4> QED
          BY <1>2, <2>1, <2>2, <3>2, <4>1, <4>2 DEF Told, Everyone
      <3> QED
        BY <3>1, <3>2
    <2>3. CASE ~\E c \in Callers : pc[c] \in Waiting /\ After(c) = "ok" /\ peer[c] = p
      BY <2>1, <2>3 DEF Told, SerialInv, AddsHold, RemovesHold, VoterIds
    <2> QED
      BY <2>2, <2>3
  <1>4. AddsHold' /\ RemovesHold'
    BY <1>3 DEF Commit, AddsHold, RemovesHold, VoterIds
  <1>5. \A c \in Everyone : Active(c)' => Active(c)
    BY <1>1, <1>2 DEF Active, Settled, Waiting
  \* What was promised about a peer changes only for the call that settles.
  <1>6. ASSUME NEW c \in Everyone, Active(c)'
        PROVE  want' = want
    <2>1. \A d \in Everyone \ {c} : ~Active(d)
      BY <1>5, <1>6 DEF SerialInv
    <2>2. ~(pc[c] \in Waiting /\ After(c) = "ok")
      BY <1>1, <1>6 DEF Active, Settled
    <2>3. \A d \in Callers : ~(pc[d] \in Waiting /\ After(d) = "ok")
      BY <2>1, <2>2 DEF Everyone, Active, Settled, Waiting
    <2>4. \A p \in Peers : Told(p) = want[p]
      BY <2>3 DEF Told
    <2> QED
      BY <2>4 DEF Commit
  <1>7. ASSUME NEW c \in Everyone
        PROVE  KindInv(c)'
    <2>1. KindInv(c)
      BY DEF SerialInv
    <2>2. CASE Active(c)'
      BY <1>1, <1>2, <1>5, <1>6, <2>1, <2>2 DEF Commit, KindInv, Active, Settled, Waiting, Failed
    <2>3. CASE ~Active(c)'
      BY <2>1, <2>3 DEF Commit, KindInv, Active, Settled
    <2> QED
      BY <2>2, <2>3
  <1>8. ASSUME NEW c \in Everyone
        PROVE  ChangeInv(c)'
    <2>1. ChangeInv(c) /\ KindInv(c)
      BY DEF SerialInv
    <2>2. CASE Active(c)' /\ pc[c] \in Waiting
      <3>1. want' = want /\ pc'[c] = After(c)
        BY <1>1, <1>6, <2>2
      <3>2. pc'[c] \in {"add", "change", "read", "flatten"}
        BY <1>2, <2>2, <3>1 DEF Active, Settled, Failed, Waiting
      <3>3. pc'[c] = "change" => c = Joiner /\ op[c] = "auto"
        BY <1>2, <2>1, <2>2, <3>1 DEF Failed, KindInv, Waiting
      <3>4. pc'[c] = "flatten" => pc[c] = "changing"
        BY <1>2, <2>2, <3>1
      <3>5. c = Joiner /\ pc'[c] \in {"add", "change"} => pc[c] = "adding"
        BY <1>2, <2>2, <3>1 DEF Failed, Waiting
      <3> QED
        BY <2>1, <3>1, <3>2, <3>3, <3>4, <3>5 DEF Commit, ChangeInv, GoalOK, Waiting
    <2>3. CASE Active(c)' /\ pc[c] \notin Waiting
      <3>1. want' = want /\ pc'[c] = pc[c]
        BY <1>1, <1>6, <2>3
      <3> QED
        BY <2>1, <2>3, <3>1 DEF Commit, ChangeInv, GoalOK
    <2>4. CASE ~Active(c)'
      BY <2>4 DEF ChangeInv, Active, Settled, Waiting
    <2> QED
      BY <2>2, <2>3, <2>4
  <1> QED
    BY <1>4, <1>5, <1>7, <1>8 DEF SerialInv

LEMMA LeaderStep ==
  ASSUME TypeOK, SerialInv, committed => prev = config,
         LoseLeadership \/ Overwrite \/ BecomeLeader
  PROVE  SerialInv'
  <1> USE DEF TypeOK, envVars, callVars, confVars, history
  <1>1. CASE LoseLeadership
    <2>1. \A c \in Everyone : pc'[c] = IF pc[c] \in Waiting THEN Failed(c) ELSE pc[c]
      BY <1>1 DEF LoseLeadership
    <2>2. \A c \in Everyone : /\ Active(c)' => Active(c) /\ pc'[c] = pc[c]
                              /\ pc'[c] \notin Waiting
      BY <2>1 DEF Active, Failed, Settled, Waiting
    <2>3. \A c \in Everyone : KindInv(c)'
      BY <1>1, <2>1, <2>2 DEF LoseLeadership, SerialInv, KindInv, Active, Settled, Waiting, Failed
    <2>4. ASSUME NEW c \in Everyone
          PROVE  ChangeInv(c)'
      <3>1. ChangeInv(c)
        BY DEF SerialInv
      <3>2. CASE Active(c)'
        BY <1>1, <2>2, <3>1, <3>2 DEF LoseLeadership, ChangeInv, GoalOK
      <3>3. CASE ~Active(c)'
        BY <3>3 DEF ChangeInv, Active, Settled, Waiting
      <3> QED
        BY <3>2, <3>3
    <2>5. AddsHold' /\ RemovesHold'
      BY <1>1 DEF LoseLeadership, SerialInv, AddsHold, RemovesHold, VoterIds
    <2> QED
      BY <2>2, <2>3, <2>4, <2>5 DEF SerialInv
  <1>2. CASE Overwrite
    <2>1. \A c \in Everyone : pc[c] \notin Waiting /\ pc[c] # "flatten"
      BY <1>2 DEF Overwrite, SerialInv, ChangeInv
    <2>2. \A c \in Everyone : KindInv(c)' /\ ChangeInv(c)'
      BY <1>2, <2>1 DEF Overwrite, SerialInv, KindInv, ChangeInv, GoalOK, Active, Waiting
    <2>3. AddsHold' /\ RemovesHold'
      BY <1>2 DEF Overwrite, SerialInv, AddsHold, RemovesHold, VoterIds
    <2> QED
      BY <1>2, <2>2, <2>3 DEF Overwrite, SerialInv, Active
  <1>3. CASE BecomeLeader
    BY <1>3 DEF BecomeLeader, SerialInv, KindInv, ChangeInv, GoalOK, Active,
                AddsHold, RemovesHold, VoterIds
  <1> QED
    BY <1>1, <1>2, <1>3

LEMMA SerialStep ==
  ASSUME ~met', TypeOK, SerialInv, committed => prev = config, [Next]_vars
  PROVE  SerialInv'
  <1>1. ASSUME NEW c \in Callers, NEW p \in Peers, StartAdd(c, p) \/ StartRemove(c, p)
        PROVE  SerialInv'
    BY <1>1, StartStep
  <1>2. ASSUME NEW c \in Everyone, Proceed(c)
        PROVE  SerialInv'
    <2>1. CASE Refused(c) \/ BadMembership(c)
      <3>1. Failed(c) \in Settled
        BY DEF Failed, Settled
      <3> QED
        BY <2>1, <3>1, SettleStep DEF Refused, BadMembership, history
    <2> QED
      BY <1>2, <2>1, ReadStep, ChangeStep, FlattenStep, AddLearnerStep DEF Proceed
  <1>3. CASE GiveUp
    <2>1. Joiner \in Everyone /\ "err" \in Settled
      BY DEF Everyone, Settled
    <2> QED
      BY <1>3, <2>1, SettleStep DEF GiveUp, history
  <1>4. ASSUME (\E p \in Peers : PeerUp(p)) \/ UNCHANGED vars
        PROVE  SerialInv'
    BY <1>4 DEF PeerUp, vars, history, confVars, callVars, SerialInv, KindInv, ChangeInv,
                GoalOK, Active, AddsHold, RemovesHold, VoterIds
  <1> QED
    BY <1>1, <1>2, <1>3, <1>4, AutoStep, CommitStep, LeaderStep DEF Next

LEMMA PrevStep ==
  ASSUME committed => prev = config, [Next]_vars
  PROVE  committed' => prev' = config'
  <1> USE DEF confVars, history
  <1>1. ASSUME NEW c \in Callers, NEW p \in Peers, StartAdd(c, p) \/ StartRemove(c, p)
        PROVE  UNCHANGED confVars
    BY <1>1 DEF StartAdd, StartRemove
  <1>2. ASSUME NEW c \in Everyone, Proceed(c)
        PROVE  ~committed' \/ UNCHANGED confVars
    BY <1>2 DEF Proceed, Refused, ReadVoters, ChangeMembership, BadMembership,
                Flatten, AddLearner, Propose
  <1>3. CASE AutoRound \/ GiveUp \/ LoseLeadership \/ BecomeLeader
    BY <1>3 DEF AutoRound, GiveUp, LoseLeadership, BecomeLeader
  <1>4. CASE Commit \/ Overwrite
    BY <1>4 DEF Commit, Overwrite
  <1>5. ASSUME (\E p \in Peers : PeerUp(p)) \/ UNCHANGED vars
        PROVE  UNCHANGED confVars
    BY <1>5 DEF PeerUp, vars
  <1> QED
    BY <1>1, <1>2, <1>3, <1>4, <1>5 DEF Next

\* Once two calls have met, met stays.
LEMMA MetStays ==
  ASSUME TypeOK, [Next]_vars
  PROVE  met => met'
  <1> USE DEF TypeOK, history
  <1>1. ASSUME NEW c \in Callers, NEW p \in Peers, StartAdd(c, p) \/ StartRemove(c, p)
        PROVE  met => met'
    BY <1>1 DEF StartAdd, StartRemove, Begins
  <1>2. ASSUME NEW c \in Everyone, Proceed(c)
        PROVE  met' = met
    BY <1>2 DEF Proceed, Refused, ReadVoters, ChangeMembership, BadMembership,
                Flatten, AddLearner, Propose
  <1>3. CASE AutoRound
    BY <1>3 DEF AutoRound, Begins
  <1>4. CASE GiveUp \/ LoseLeadership \/ BecomeLeader \/ Commit \/ Overwrite
    BY <1>4 DEF GiveUp, LoseLeadership, BecomeLeader, Commit, Overwrite
  <1>5. ASSUME (\E p \in Peers : PeerUp(p)) \/ UNCHANGED vars
        PROVE  met' = met
    BY <1>5 DEF PeerUp, vars
  <1> QED
    BY <1>1, <1>2, <1>3, <1>4, <1>5 DEF Next

\* The inductive invariant holds of every behaviour.
THEOREM MembershipInvariant == Spec => []IInv
  <1>1. IInv /\ [Next]_vars => IInv'
    BY TypeStep, SerialStep, PrevStep, MetStays DEF IInv
  <1> QED
    BY InitInv, <1>1, PTL DEF Spec

\* cluster_add_peer, cluster_remove_peer and auto_join_peers keep every
\* variable within its type, however they interleave.
THEOREM MembershipType == Spec => []TypeOK
  <1>1. IInv => TypeOK
    BY DEF IInv
  <1> QED
    BY MembershipInvariant, <1>1, PTL

\* As long as calls are made one at a time, whatever fails or is undone in
\* between, a peer AddPeer answered Ok for keeps its vote.
THEOREM AddsKept == Spec => []AckedAdds
  <1>1. IInv => AckedAdds
    BY DEF IInv, SerialInv, AckedAdds
  <1> QED
    BY MembershipInvariant, <1>1, PTL

\* Likewise a peer RemovePeer answered Ok for stays out.
THEOREM RemovesKept == Spec => []AckedRemoves
  <1>1. IInv => AckedRemoves
    BY DEF IInv, SerialInv, AckedRemoves
  <1> QED
    BY MembershipInvariant, <1>1, PTL
-----------------------------------------------------------------------------
(* Voters only ever join, unless a removal is asked for.                    *)

\* What a call or a round is going to ask for, or has read already.
Holding(c) == pc[c] = "change" \/ (c = Joiner /\ pc[c] \in {"add", "adding"})

GrowInv ==
  /\ \A c \in Callers : pc[c] = "idle" => op[c] = "add"
  /\ ~met /\ ~RemovalAsked =>
       /\ prev.voters \subseteq config.voters
       /\ \A c \in Everyone : Holding(c) => config.voters \subseteq goal[c]

LEMMA GrowInit == Init => GrowInv
  BY NameAssumption DEF Init, GrowInv, Holding, Everyone, Uniform

\* A removal asked for stays asked for: a caller makes one call.
LEMMA OpsStay ==
  ASSUME TypeOK, GrowInv, [Next]_vars
  PROVE  /\ \A c \in Callers : pc'[c] = "idle" => op'[c] = "add"
         /\ RemovalAsked => RemovalAsked'
  <1> USE NameAssumption DEF TypeOK, GrowInv, RemovalAsked, Everyone, callVars
  <1>1. ASSUME NEW c \in Callers, NEW p \in Peers, StartAdd(c, p) \/ StartRemove(c, p)
        PROVE  /\ \A d \in Callers : pc'[d] = "idle" => op'[d] = "add"
               /\ RemovalAsked => RemovalAsked'
    BY <1>1 DEF StartAdd, StartRemove
  <1>2. ASSUME NEW c \in Everyone, Proceed(c)
        PROVE  op' = op /\ \A d \in Callers : pc'[d] = "idle" => pc[d] = "idle"
    BY <1>2 DEF Proceed, Refused, ReadVoters, ChangeMembership, BadMembership, Flatten,
                AddLearner, Propose, Failed
  <1>3. CASE AutoRound \/ GiveUp
    BY <1>3 DEF AutoRound, GiveUp
  <1>4. CASE Commit
    <2>1. \A c \in Callers : After(c) # "idle"
      BY DEF After
    <2> QED
      BY <1>4, <2>1 DEF Commit
  <1>5. CASE LoseLeadership
    BY <1>5 DEF LoseLeadership, Failed
  <1>6. CASE Overwrite \/ BecomeLeader \/ (\E p \in Peers : PeerUp(p)) \/ UNCHANGED vars
    BY <1>6 DEF Overwrite, BecomeLeader, PeerUp, vars
  <1> QED
    BY <1>1, <1>2, <1>3, <1>4, <1>5, <1>6 DEF Next

LEMMA GrowStep ==
  ASSUME IInv, GrowInv, [Next]_vars, ~met', ~RemovalAsked'
  PROVE  /\ prev'.voters \subseteq config'.voters
         /\ \A c \in Everyone : Holding(c)' => config'.voters \subseteq goal'[c]
  <1> DEFINE Grown == /\ prev'.voters \subseteq config'.voters
                      /\ \A d \in Everyone : Holding(d)' => config'.voters \subseteq goal'[d]
  <1> USE DEF callVars, confVars, envVars, history
  <1>0. /\ TypeOK /\ SerialInv /\ ~met /\ ~RemovalAsked
        /\ prev.voters \subseteq config.voters
        /\ \A d \in Everyone : Holding(d) => config.voters \subseteq goal[d]
    BY MetStays, OpsStay DEF IInv, GrowInv
  <1>1. ASSUME NEW c \in Callers, NEW p \in Peers, StartAdd(c, p)
        PROVE  Grown
    BY <1>0, <1>1, NameAssumption DEF StartAdd, TypeOK, Holding
  <1>2. ASSUME NEW c \in Callers, NEW p \in Peers, StartRemove(c, p)
        PROVE  FALSE
    BY <1>0, <1>2 DEF StartRemove, TypeOK, RemovalAsked, Everyone
  <1>3. ASSUME NEW c \in Everyone, Refused(c) \/ BadMembership(c)
        PROVE  Grown
    BY <1>0, <1>3 DEF Refused, BadMembership, Failed, TypeOK, Holding
  <1>4. ASSUME NEW c \in Everyone, ReadVoters(c)
        PROVE  Grown
    BY <1>0, <1>4 DEF ReadVoters, VotersAnd, VoterIds, TypeOK, Holding
  <1>5. ASSUME NEW c \in Everyone, NEW cfg \in Config, NEW place \in Waiting,
               pc[c] \in {"add", "change", "flatten"}, Propose(c, cfg, place), goal' = goal,
               config.voters \subseteq cfg.voters,
               Holding(c)' => cfg.voters \subseteq goal[c]
        PROVE  Grown
    <2>1. \A d \in Everyone \ {c} : ~Active(d) /\ pc'[d] = pc[d]
      BY <1>0, <1>5 DEF SerialInv, Active, Settled, Propose, TypeOK
    <2>2. \A d \in Everyone \ {c} : ~Holding(d)'
      BY <2>1 DEF Active, Settled, Holding
    <2> QED
      BY <1>0, <1>5, <2>2 DEF Propose
  <1>6. ASSUME NEW c \in Everyone, NEW p \in todo[c], AddLearner(c, p)
        PROVE  Grown
    <2> DEFINE cfg == [config EXCEPT !.nodes = @ \cup {p}]
    <2>1. cfg \in Config /\ cfg.voters = config.voters
      BY <1>0 DEF TypeOK, Config, Nodes
    <2>2. pc[c] = "add" /\ Propose(c, cfg, "adding") /\ goal' = goal
      BY <1>6 DEF AddLearner
    <2>3. Holding(c)' => Holding(c)
      BY <1>0, <2>2 DEF Propose, TypeOK, Holding
    <2> HIDE DEF cfg
    <2> QED
      BY <1>0, <1>5, <2>1, <2>2, <2>3 DEF Waiting
  <1>7. ASSUME NEW c \in Everyone, ChangeMembership(c)
        PROVE  Grown
    <2> DEFINE cfg == NextCoherent(config, Asked(c))
    <2>1. cfg \in Config /\ cfg.voters = Asked(c)
      BY <1>0, AskedType, Coherent DEF TypeOK
    <2>2. pc[c] = "change" /\ Propose(c, cfg, "changing") /\ goal' = goal
      BY <1>7 DEF ChangeMembership
    <2>3. op[c] # "remove"
      BY <1>0 DEF SerialInv, KindInv, RemovalAsked, Everyone
    <2>4. config.voters \subseteq Asked(c)
      BY <1>0, <2>2, <2>3 DEF Asked, Holding
    <2>5. ~Holding(c)'
      BY <1>0, <2>2 DEF Propose, TypeOK, Holding
    <2> HIDE DEF cfg
    <2> QED
      BY <1>5, <2>1, <2>2, <2>4, <2>5 DEF Waiting
  <1>8. ASSUME NEW c \in Everyone, Flatten(c)
        PROVE  Grown
    <2> DEFINE cfg == NextCoherent(config, config.voters)
    <2>1. cfg \in Config /\ cfg.voters = config.voters
      <3>1. config \in Config /\ config.voters \in SUBSET Nodes
        BY <1>0 DEF TypeOK, Config
      <3> QED
        BY <3>1, Coherent
    <2>2. pc[c] = "flatten" /\ Propose(c, cfg, "flattening") /\ goal' = goal
      BY <1>8 DEF Flatten
    <2>3. ~Holding(c)'
      BY <1>0, <2>2 DEF Propose, TypeOK, Holding
    <2> HIDE DEF cfg
    <2> QED
      BY <1>5, <2>1, <2>2, <2>3 DEF Waiting
  <1>9. CASE AutoRound
    <2>1. Joiner \in Everyone /\ goal'[Joiner] = VoterIds(config) \cup Missing
      BY <1>0, <1>9 DEF AutoRound, TypeOK, Everyone, JoinGoal
    <2>2. \A d \in Everyone \ {Joiner} : goal'[d] = goal[d] /\ pc'[d] = pc[d]
      BY <1>0, <1>9 DEF AutoRound, TypeOK
    <2> QED
      BY <1>0, <1>9, <2>1, <2>2 DEF AutoRound, VoterIds, Holding
  <1>10. CASE GiveUp
    BY <1>0, <1>10 DEF GiveUp, TypeOK, Holding
  <1>11. CASE Commit
    <2>1. \A d \in Everyone : Holding(d)' => Holding(d)
      <3> SUFFICES ASSUME NEW d \in Everyone, Holding(d)', pc[d] \in Waiting PROVE Holding(d)
        BY <1>11 DEF Commit, Holding
      <3>1. pc'[d] = After(d)
        BY <1>11 DEF Commit
      <3>2. pc[d] = "adding" /\ d = Joiner
        BY <3>1 DEF After, Holding, Waiting
      <3> QED
        BY <3>2 DEF Holding
    <2> QED
      BY <1>0, <1>11, <2>1 DEF Commit
  <1>12. CASE LoseLeadership
    <2>1. \A d \in Everyone : Holding(d)' => Holding(d)
      BY <1>12 DEF LoseLeadership, Holding, Failed
    <2> QED
      BY <1>0, <1>12, <2>1 DEF LoseLeadership
  <1>13. CASE Overwrite
    BY <1>0, <1>13 DEF Overwrite, Holding
  <1>14. CASE BecomeLeader \/ (\E p \in Peers : PeerUp(p)) \/ UNCHANGED vars
    BY <1>0, <1>14 DEF BecomeLeader, PeerUp, vars, Holding
  <1> QED
    BY <1>1, <1>2, <1>3, <1>4, <1>6, <1>7, <1>8, <1>9, <1>10, <1>11, <1>12, <1>13, <1>14
       DEF Next, Proceed

\* Only the commit of an entry changes the committed membership.
LEMMA PrevChanges ==
  ASSUME [Next]_vars, prev' # prev
  PROVE  prev' = config
  <1> USE DEF confVars
  <1>1. ASSUME NEW c \in Callers, NEW p \in Peers, StartAdd(c, p) \/ StartRemove(c, p)
        PROVE  prev' = prev
    BY <1>1 DEF StartAdd, StartRemove
  <1>2. ASSUME NEW c \in Everyone, Proceed(c)
        PROVE  prev' = prev
    BY <1>2 DEF Proceed, Refused, ReadVoters, ChangeMembership, BadMembership, Flatten,
                AddLearner, Propose
  <1>3. CASE AutoRound \/ GiveUp \/ LoseLeadership \/ Overwrite \/ BecomeLeader
    BY <1>3 DEF AutoRound, GiveUp, LoseLeadership, Overwrite, BecomeLeader
  <1>4. CASE (\E p \in Peers : PeerUp(p)) \/ UNCHANGED vars
    BY <1>4 DEF PeerUp, vars
  <1>5. CASE Commit
    BY <1>5 DEF Commit
  <1> QED
    BY <1>1, <1>2, <1>3, <1>4, <1>5 DEF Next

\* Bringing peers in, by auto_join_peers and by AddPeer, one at a time and with
\* every failure in between, never costs a voter of the committed membership
\* its vote: for any peers and calls (add_peer, auto_join_peers).
THEOREM VotersOnlyJoin == Spec => VotersGrow
  <1>1. Init => GrowInv
    BY GrowInit
  <1>2. IInv /\ GrowInv /\ [Next]_vars => GrowInv'
    BY OpsStay, GrowStep DEF GrowInv, IInv
  <1>3. IInv /\ GrowInv /\ [Next]_vars =>
          [~RemovalAsked /\ ~met => prev.voters \subseteq prev'.voters]_prev
    BY PrevChanges DEF GrowInv
  <1> QED
    BY <1>1, <1>2, <1>3, MembershipInvariant, PTL DEF Spec, VotersGrow
=============================================================================
