------------------------------- MODULE MCStores -------------------------------
(***************************************************************************)
(* What the process keeps on disk, for TLC: the log of a Raft node, the    *)
(* table catalog of a schema and the text indexes.  They are in databases  *)
(* and folders of their own and no call writes two of them, so a behaviour *)
(* is one of one of them: part says which.                                 *)
(***************************************************************************)
EXTENDS RaftLogStore, TableCatalog, TextIndex

VARIABLE part

storeVars == <<logVars, vars, textVars, part>>

NoTexts == TextInit /\ \A i \in TextIndexes : folders[i] = Gone

StoresInit ==
    \/ part \in {"log", "catalog"} /\ LogInit /\ Init /\ NoTexts
    \/ part = "texts" /\ LogInit /\ Init /\ TextInit

StoresNext ==
    \/ part = "log" /\ LogNext /\ UNCHANGED <<vars, textVars, part>>
    \/ part = "catalog" /\ Next /\ UNCHANGED <<logVars, textVars, part>>
    \/ part = "texts" /\ TextNext /\ UNCHANGED <<logVars, vars, part>>

StoresSpec == StoresInit /\ [][StoresNext]_storeVars
=============================================================================
