---------------------------- MODULE ReplicatedKv ----------------------------
(***************************************************************************)
(* What a Raft group's key-value service promises while its processes stay *)
(* up: one growing log of commands, and on every node a table that only    *)
(* walks forward through the states that log produces, one entry at a time *)
(* or by a jump to a later prefix (an installed snapshot), never showing   *)
(* anything else.  RaftKvStateMachine is the detailed version.             *)
(***************************************************************************)
EXTENDS RaftKvLog

CONSTANT Nodes

VARIABLES
  log,     \* the committed commands
  index,   \* index[n]: how many of them node n's table reflects
  table    \* table[n]: node n's table

vars == <<log, index, table>>

Init ==
  /\ log = <<ConfigEntry>>
  /\ index = [n \in Nodes |-> 0]
  /\ table = [n \in Nodes |-> Empty]

Commit ==
  /\ \E e \in Entries : log' = Append(log, e)
  /\ UNCHANGED <<index, table>>

ApplyNext(n) ==
  /\ index[n] < Len(log)
  /\ index' = [index EXCEPT ![n] = @ + 1]
  /\ LET e == log[index[n] + 1] IN
       table' = IF e.key \in Keys THEN [table EXCEPT ![n][e.key] = e.value]
                                  ELSE table
  /\ UNCHANGED log

Jump(n) ==
  /\ \E i \in (index[n] + 1)..Len(log), c \in Contents :
       /\ ContentsAfter(log, i, c)
       /\ index' = [index EXCEPT ![n] = i]
       /\ table' = [table EXCEPT ![n] = c]
  /\ UNCHANGED log

Next == Commit \/ \E n \in Nodes : ApplyNext(n) \/ Jump(n)

Spec == Init /\ [][Next]_vars
=============================================================================
