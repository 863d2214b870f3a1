--------------------------- MODULE RaftMembership ---------------------------
(***************************************************************************)
(* How the voters of one Raft group are changed                            *)
(* (laoflchdb_raft_service/src/lib.rs): the AddPeer and RemovePeer calls   *)
(* served by the bootstrap node Self, and its background task              *)
(* auto_join_peers.  Each is a sequence of calls to openraft with reads of *)
(* its metrics in between, and nothing makes two of them wait for each     *)
(* other.                                                                  *)
(*                                                                         *)
(* openraft is outside src/: a membership change is one log entry, refused *)
(* while an earlier one is not committed or when Self does not lead; voters*)
(* change through a joint configuration that a second, empty change        *)
(* flattens.                                                               *)
(***************************************************************************)
EXTENDS Integers, FiniteSets

CONSTANTS
  Self,       \* the bootstrap node, sole member after initialize
  Peers,      \* the other nodes
  Configured, \* those group_cfg.peers names
  Callers,    \* the AddPeer and RemovePeer calls an administrator makes
  Joiner,       \* the auto_join_peers task
  AutoJoin,   \* whether it is started (group_cfg.bootstrap)
  MayTimeOut, \* whether the 120 s of auto_join_peers may run out
  MaxLosses   \* bound on how often Self loses leadership

ASSUME NameAssumption  ==
  Self \notin Peers /\ Joiner \notin Callers /\ Configured \subseteq Peers
ASSUME FlagAssumption  == {AutoJoin, MayTimeOut} \subseteq BOOLEAN
ASSUME BoundAssumption == MaxLosses \in Nat

Nodes    == Peers \cup {Self}
Everyone == Callers \cup {Joiner}

VARIABLES
  config,     \* the effective membership on Self
  committed,  \* whether the entry that carries it is committed
  prev,       \* the last committed membership
  leading,    \* Self is the leader
  up,         \* the nodes that are reachable
  losses,
  pc,         \* pc[c]: where the call is
  op,         \* op[c]: "add", "remove" or "auto"
  peer,       \* peer[c]: the id it was given
  todo,       \* todo[c]: peers it still has to add as learners
  goal,       \* goal[c]: the voter ids it will ask for
  want,       \* history: what the last call about a peer was told
  met         \* history: a call or a round of the task was begun while another
              \* one was under way

envVars  == <<up, losses>>
confVars == <<config, committed, prev>>
callVars == <<op, peer, todo, goal>>
history  == <<want, met>>
vars == <<config, committed, prev, leading, up, losses, pc, op, peer,
          todo, goal, want, met>>

-----------------------------------------------------------------------------
(* openraft's memberships *)

\* joint is the outgoing set of voters of a joint configuration, else empty.
Uniform(vs, ns) == [voters |-> vs, joint |-> {}, nodes |-> ns]

\* metrics().membership_config.voter_ids(): those of both sets when joint.
VoterIds(cfg) == cfg.voters \cup cfg.joint

\* One step from cfg towards the voters g.  retain = false drops the voters
\* that are in neither set any more from the nodes.
NextCoherent(cfg, g) ==
  LET new == IF g \in {cfg.voters, cfg.joint} THEN g ELSE g \cup cfg.voters
      ns  == cfg.nodes \ (VoterIds(cfg) \ new)
  IN  IF new = g /\ g \in {cfg.voters, cfg.joint}
        THEN Uniform(g, ns)
        ELSE [voters |-> g, joint |-> cfg.voters, nodes |-> ns]

Majority(vs) == 2 * Cardinality(vs \cap up) > Cardinality(vs)

Waiting == {"adding", "changing", "flattening"}
Settled == {"idle", "ok", "err"}

Init ==
  /\ config = Uniform({Self}, {Self})
  /\ committed = TRUE
  /\ prev = config
  /\ leading = TRUE
  /\ up = {Self}
  /\ losses = 0
  /\ pc = [c \in Everyone |-> IF c = Joiner /\ ~AutoJoin THEN "ok" ELSE "idle"]
  /\ op = [c \in Everyone |-> IF c = Joiner THEN "auto" ELSE "add"]
  /\ peer = [c \in Everyone |-> Self]
  /\ todo = [c \in Everyone |-> {}]
  /\ goal = [c \in Everyone |-> {}]
  /\ want = [p \in Peers |-> "any"]
  /\ met = FALSE

\* Where an openraft error leaves a call: the RPC returns it, the task sleeps
\* and begins another round.
Failed(c) == IF c = Joiner THEN "idle" ELSE "err"

\* A change is accepted: cfg becomes effective, its entry is not committed yet.
Propose(c, cfg, place) ==
  /\ leading /\ committed
  /\ config' = cfg
  /\ committed' = FALSE
  /\ pc' = [pc EXCEPT ![c] = place]
  /\ UNCHANGED <<prev, leading, envVars, history>>

\* ForwardToLeader or InProgress.
Refused(c) ==
  /\ pc[c] \in {"add", "change", "flatten"}
  /\ ~leading \/ ~committed
  /\ pc' = [pc EXCEPT ![c] = Failed(c)]
  /\ UNCHANGED <<confVars, leading, envVars, callVars, history>>

\* Every other call is settled.
Alone(c) == \A d \in Everyone \ {c} : pc[d] \in Settled
Begins(c) == met' = (met \/ ~Alone(c))

-----------------------------------------------------------------------------
(* cluster_add_peer, cluster_remove_peer *)

StartAdd(c, p) ==
  /\ c \in Callers /\ pc[c] = "idle" /\ Begins(c)
  /\ pc' = [pc EXCEPT ![c] = "add"]
  /\ op' = [op EXCEPT ![c] = "add"]
  /\ peer' = [peer EXCEPT ![c] = p]
  /\ todo' = [todo EXCEPT ![c] = {p}]
  /\ want' = [want EXCEPT ![p] = "any"]
  /\ UNCHANGED <<confVars, leading, envVars, goal>>

StartRemove(c, p) ==
  /\ c \in Callers /\ pc[c] = "idle" /\ Begins(c)
  /\ pc' = [pc EXCEPT ![c] = "change"]
  /\ op' = [op EXCEPT ![c] = "remove"]
  /\ peer' = [peer EXCEPT ![c] = p]
  /\ want' = [want EXCEPT ![p] = "any"]
  /\ UNCHANGED <<confVars, leading, envVars, todo, goal>>

\* add_learner: the node enters the membership without a vote.
AddLearner(c, p) ==
  /\ pc[c] = "add" /\ p \in todo[c]
  /\ Propose(c, [config EXCEPT !.nodes = @ \cup {p}], "adding")
  /\ todo' = [todo EXCEPT ![c] = @ \ {p}]
  /\ UNCHANGED <<op, peer, goal>>

\* The voter ids add_peer asks for, read from the metrics after add_learner.
\* Variant: only the new one.
OnlyNew(p)  == {p}
VotersAnd(p) == VoterIds(config) \cup {p}

ReadVoters(c) ==
  /\ pc[c] = "read"
  /\ goal' = [goal EXCEPT ![c] = VotersAnd(peer[c])]
  /\ pc' = [pc EXCEPT ![c] = "change"]
  /\ UNCHANGED <<confVars, leading, envVars, op, peer, todo, history>>

\* change_membership: ReplaceAllVoters for an add, RemoveVoters for a remove,
\* which openraft computes from the latest configuration itself.
\* Variant: the empty AddVoterIds in place of RemoveVoters.
AskedNoop(c) == IF op[c] = "remove" THEN config.voters ELSE goal[c]
Asked(c)     == IF op[c] = "remove" THEN config.voters \ {peer[c]} ELSE goal[c]

ChangeMembership(c) ==
  /\ pc[c] = "change"
  /\ Asked(c) # {} /\ Asked(c) \subseteq config.nodes
  /\ Propose(c, NextCoherent(config, Asked(c)), "changing")
  /\ UNCHANGED callVars

\* EmptyMembership or LearnerNotFound.
BadMembership(c) ==
  /\ pc[c] = "change" /\ leading /\ committed
  /\ Asked(c) = {} \/ ~(Asked(c) \subseteq config.nodes)
  /\ pc' = [pc EXCEPT ![c] = Failed(c)]
  /\ UNCHANGED <<confVars, leading, envVars, callVars, history>>

\* openraft's second step, on behalf of the same call.
Flatten(c) ==
  /\ pc[c] = "flatten"
  /\ Propose(c, NextCoherent(config, config.voters), "flattening")
  /\ UNCHANGED callVars

-----------------------------------------------------------------------------
(* auto_join_peers *)

\* Peers the task finds missing.  Variant: known nodes count as joined.
NotKnown == Configured \ config.nodes
Missing  == Configured \ VoterIds(config)

\* Voters it asks for.  Variant: the missing ones alone.
OnlyMissing == Missing
JoinGoal    == VoterIds(config) \cup Missing

\* One turn of its loop, which reads the voters once: they are what it will
\* ask for, with the missing ones, however long add_learner takes.
AutoRound ==
  /\ AutoJoin /\ pc[Joiner] = "idle" /\ leading /\ Begins(Joiner)
  /\ todo' = [todo EXCEPT ![Joiner] = Missing]
  /\ goal' = [goal EXCEPT ![Joiner] = JoinGoal]
  /\ pc' = [pc EXCEPT ![Joiner] = IF Missing = {} THEN "ok" ELSE "add"]
  /\ want' = [p \in Peers |-> IF p \in Missing THEN "any" ELSE want[p]]
  /\ UNCHANGED <<confVars, leading, envVars, op, peer>>

\* start.elapsed() > RETRY_TIMEOUT at the top of the loop.
GiveUp ==
  /\ MayTimeOut /\ pc[Joiner] = "idle"
  /\ pc' = [pc EXCEPT ![Joiner] = "err"]
  /\ UNCHANGED <<confVars, leading, envVars, callVars, history>>

-----------------------------------------------------------------------------
(* openraft's side *)

\* Where a call goes once the entry it waits for is committed.
After(c) ==
  CASE pc[c] = "adding" ->
         IF todo[c] # {} THEN "add" ELSE IF c = Joiner THEN "change" ELSE "read"
    [] pc[c] = "changing" /\ config.joint # {} -> "flatten"
    [] OTHER -> IF c = Joiner THEN "idle" ELSE "ok"

Told(p) ==
  IF \E c \in Callers : pc[c] \in Waiting /\ After(c) = "ok" /\ peer[c] = p
    THEN IF \E c \in Callers : /\ pc[c] \in Waiting /\ After(c) = "ok"
                               /\ peer[c] = p /\ op[c] = "add"
           THEN "in" ELSE "out"
    ELSE want[p]

\* A majority of each voter set has the entry; the call that waits goes on.
Commit ==
  /\ ~committed
  /\ Majority(config.voters) /\ (config.joint = {} \/ Majority(config.joint))
  /\ committed' = TRUE
  /\ prev' = config
  /\ pc' = [c \in Everyone |-> IF pc[c] \in Waiting THEN After(c) ELSE pc[c]]
  /\ want' = [p \in Peers |-> Told(p)]
  /\ UNCHANGED <<config, leading, envVars, callVars, met>>

\* Self steps down: the calls that wait get an error, their entry stays.
LoseLeadership ==
  /\ leading /\ losses < MaxLosses
  /\ leading' = FALSE
  /\ losses' = losses + 1
  /\ pc' = [c \in Everyone |-> IF pc[c] \in Waiting THEN Failed(c) ELSE pc[c]]
  /\ UNCHANGED <<confVars, up, callVars, history>>

\* A leader that does not have the entry truncates it.
Overwrite ==
  /\ ~leading /\ ~committed
  /\ config' = prev
  /\ committed' = TRUE
  /\ UNCHANGED <<prev, leading, envVars, pc, callVars, history>>

BecomeLeader ==
  /\ ~leading
  /\ leading' = TRUE
  /\ UNCHANGED <<confVars, envVars, pc, callVars, history>>

PeerUp(p) ==
  /\ p \notin up
  /\ up' = up \cup {p}
  /\ UNCHANGED <<confVars, leading, losses, pc, callVars, history>>

-----------------------------------------------------------------------------
Proceed(c) ==
  \/ Refused(c) \/ ReadVoters(c) \/ ChangeMembership(c) \/ BadMembership(c)
  \/ Flatten(c) \/ \E p \in todo[c] : AddLearner(c, p)

Next ==
  \/ \E c \in Callers, p \in Peers : StartAdd(c, p) \/ StartRemove(c, p)
  \/ \E c \in Everyone : Proceed(c)
  \/ AutoRound \/ GiveUp
  \/ Commit \/ LoseLeadership \/ Overwrite \/ BecomeLeader
  \/ \E p \in Peers : PeerUp(p)

Spec == Init /\ [][Next]_vars

\* Started calls proceed, peers come up, entries with a majority commit, and
\* Self becomes leader again; losing leadership and new calls owe nothing.
Fairness ==
  /\ \A c \in Everyone : WF_vars(Proceed(c))
  /\ WF_vars(AutoRound) /\ WF_vars(Commit) /\ WF_vars(BecomeLeader)
  /\ \A p \in Peers : WF_vars(PeerUp(p))

FairSpec == Spec /\ Fairness
-----------------------------------------------------------------------------
(* Properties *)

Config == [voters : SUBSET Nodes, joint : SUBSET Nodes, nodes : SUBSET Nodes]
Places == {"idle", "add", "adding", "read", "change", "changing", "flatten",
           "flattening", "ok", "err"}

\* Every variable has its type.
TypeOK ==
  /\ config \in Config /\ prev \in Config
  /\ committed \in BOOLEAN /\ leading \in BOOLEAN
  /\ up \subseteq Nodes /\ losses \in Nat
  /\ pc \in [Everyone -> Places]
  /\ op \in [Everyone -> {"add", "remove", "auto"}]
  /\ peer \in [Everyone -> Nodes]
  /\ todo \in [Everyone -> SUBSET Peers]
  /\ goal \in [Everyone -> SUBSET Nodes]
  /\ want \in [Peers -> {"any", "in", "out"}] /\ met \in BOOLEAN

\* A peer AddPeer answered Ok for keeps its vote until another call names it,
\* in the committed membership and in the effective one.
AddsHold ==
  \A p \in Peers : want[p] = "in" => p \in config.voters /\ p \in prev.voters

\* As long as calls and rounds of the task are made one after the other, what
\* AddPeer answered holds: through failed calls that leave a joint
\* configuration behind and changes that a new leader undoes.
AckedAdds == ~met => AddsHold

\* Under the same proviso a peer RemovePeer answered Ok for stays without a
\* vote until another call names it, although AddPeer asks for the voters of
\* both sets it reads.
RemovesHold ==
  \A p \in Peers :
    want[p] = "out" => p \notin VoterIds(config) \cup VoterIds(prev)

AckedRemoves == ~met => RemovesHold

\* Whether an administrator has asked for the removal of a peer.
RemovalAsked == \E c \in Callers : op[c] = "remove"

\* Bringing peers in, by auto_join_peers and by AddPeer, one at a time and with
\* every failure in between, never costs a voter its vote: only a removal does.
VotersGrow == [][~RemovalAsked /\ ~met => prev.voters \subseteq prev'.voters]_prev

\* The configured peers end up voting, whenever they come up and whatever
\* change the loss of leadership undid, and the task knows it; unless somebody
\* removes a peer, calls beside it or the time runs out.
AllJoin ==
  \/ <>[](Configured \subseteq prev.voters /\ pc[Joiner] = "ok")
  \/ <>(RemovalAsked \/ met \/ pc[Joiner] = "err")

(***************************************************************************)
(* What comments of the code say and the code does not keep: AddsHold by   *)
(* itself (lib.rs:507 and 619), refuted by two calls of AddPeer at once and*)
(* by one beside a round of auto_join_peers; and AllJoin (lib.rs:344) with *)
(* MaxLosses = 2: the task sees its own change before it is committed,     *)
(* ends, and a second loss of leadership undoes the change.                *)
(***************************************************************************)
=============================================================================
