------------------------------ MODULE RaftKvLog ------------------------------
(***************************************************************************)
(* The commands a Raft group commits and what a prefix of them makes of    *)
(* one key (laoflchdb_raft_service, raft_types.rs and state_machine.rs).   *)
(* A log is a sequence of entries; index 0 stands for "no entry", Rust's   *)
(* Option<LogId> None.  Only committed entries are ever put in a log here: *)
(* election and replication below the commit point belong to openraft.     *)
(***************************************************************************)
EXTENDS Integers, Sequences

CONSTANTS
  Keys,      \* the keys of the group's business table
  Values,    \* the values clients write
  NoKey,     \* the key of an entry that writes none
  NoValue    \* the value of a key that is absent

ASSUME KeyAssumption   == NoKey \notin Keys
ASSUME ValueAssumption == NoValue \notin Values

PutEntry(k, v) == [payload |-> "put",        key |-> k,     value |-> v]
DeleteEntry(k) == [payload |-> "delete",     key |-> k,     value |-> NoValue]
ConfigEntry    == [payload |-> "membership", key |-> NoKey, value |-> NoValue]
BlankEntry     == [payload |-> "blank",      key |-> NoKey, value |-> NoValue]

\* What a client, or an administrator, can have the leader append.
Requests == {PutEntry(k, v) : k \in Keys, v \in Values}
              \cup {DeleteEntry(k) : k \in Keys} \cup {ConfigEntry}
Entries  == Requests \cup {BlankEntry}

Contents == [Keys -> Values \cup {NoValue}]
Empty    == [k \in Keys |-> NoValue]

(***************************************************************************)
(* The value k has once the first m entries of lg are applied to an empty  *)
(* table is v: the last of them that names k wrote v (a delete leaves the  *)
(* key absent), or none names k and k is absent.                           *)
(***************************************************************************)
ValueAfter(lg, m, k, v) ==
  \/ \E i \in 1..m : /\ lg[i].key = k
                     /\ lg[i].value = v
                     /\ \A j \in (i + 1)..m : lg[j].key # k
  \/ /\ v = NoValue
     /\ \A i \in 1..m : lg[i].key # k

\* The table c is exactly what the first m entries produce.
ContentsAfter(lg, m, c) == \A k \in Keys : ValueAfter(lg, m, k, c[k])

\* i is the last configuration among the first m entries (0: there is none).
ConfigAfter(lg, m, i) ==
  \/ /\ i \in 1..m
     /\ lg[i].payload = "membership"
     /\ \A j \in (i + 1)..m : lg[j].payload # "membership"
  \/ /\ i = 0
     /\ \A j \in 1..m : lg[j].payload # "membership"
==============================================================================
