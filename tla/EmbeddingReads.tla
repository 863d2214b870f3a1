---------------------------- MODULE EmbeddingReads ----------------------------
(* The requests of the embedding service that change nothing, over the state of
   EmbeddingIndex: searching, listing, looking up one id, counting, and comparing
   the two sides.  The flag `building` turns them away too.  Each is one state's
   answer: a read that a change overtakes meets ids that are in somebody's Scope.

   A query is the sequence of the ids by their distance to it, those beyond the
   greatest distance left out; the library is taken to find the nearest nodes.  *)
EXTENDS EmbeddingIndex, SequencesExt

CONSTANTS
  Queries,     \* queries asked
  Multiplier   \* the candidates of a filtered search's first round, per result

ASSUME ReadsAssumption ==
  /\ IsFiniteSet(Vecs) /\ Multiplier \in Nat \ {0}
  /\ \A query \in Queries : query \in Seq(Vecs) /\ IsInjective(query)

Served == up /\ ~building

\* Places of a sequence, of which only the first n are looked at.
FirstOf(places, n) == {p \in places : Cardinality({q \in places : q < p}) < n}
Nearest(query, n) == FirstOf({p \in DOMAIN query : query[p] \in graph}, n)

\* Without filters the nearest nodes are the answer, a stored vector or not.
Search(query, topK) ==
  {[id |-> query[p], vector |-> query[p] \in stored] : p \in Nearest(query, topK)}

\* With filters twice as many candidates are looked at in every round, and those
\* are kept that are stored and match.
Candidates(topK, rounds) == topK * Multiplier * 2 ^ (rounds - 1)
FilteredSearch(query, matching, topK, rounds) ==
  LET kept == {p \in Nearest(query, Candidates(topK, rounds)) :
                 query[p] \in stored \cap matching}
  IN  {query[p] : p \in FirstOf(kept, topK)}

ListEmbeddings(offset, limit) ==
  LET all == SetToSeq(stored)
  IN  [entries |-> {all[n] : n \in FirstOf(offset + 1 .. Len(all), limit)},
       total |-> Len(all)]

GetEmbeddingById(i) == [exists |-> i \in stored, inHnsw |-> i \in graph]

GetIndexInfo == Cardinality(graph)

AnalyzeConsistency == [onlyInHnsw |-> graph \ stored, onlyInRocksdb |-> stored \ graph]

-----------------------------------------------------------------------------
\* Ids that no request is changing and whose two sides nothing tore apart.
Settled == {i \in Vecs \ torn : \A t \in Tasks : i \notin Scope(task[t])}

\* Looking an id up tells what the last request on it that was neither disturbed
\* nor hit by a failing storage call has done, also after crashes, rebuilds and
\* loaded snapshots.  For a settled id whose vector is not unfit all reads
\* tell the same: the analysis does not report it, listing returns it exactly if
\* the lookup finds it, and so do, with its vector, a search within its distance
\* and a filtered one in enough rounds to look at every node; and the counts
\* agree when all ids are settled and none is unfit.
ReadsAsAnswered ==
  /\ \A i \in Vecs : /\ said[i] = "inserted" => GetEmbeddingById(i).exists
                     /\ said[i] = "deleted" => ~GetEmbeddingById(i).exists
  /\ Served =>
       /\ \A i \in Settled \ unfit, query \in Queries :
            LET exists == GetEmbeddingById(i).exists
                all == Cardinality(Vecs)
            IN  /\ GetEmbeddingById(i).inHnsw = exists
                /\ i \notin AnalyzeConsistency.onlyInHnsw \cup AnalyzeConsistency.onlyInRocksdb
                /\ exists <=> i \in ListEmbeddings(0, all).entries
                /\ i \in ToSet(query) =>
                     /\ exists <=> [id |-> i, vector |-> TRUE] \in Search(query, all)
                     /\ exists <=> FilteredSearch(query, {i}, 1, all) = {i}
       /\ Settled = Vecs /\ unfit = {} => GetIndexInfo = ListEmbeddings(0, 1).total
=============================================================================
