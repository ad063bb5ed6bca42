------------------------------ MODULE MCChoice ------------------------------
(* One thread that reads, syncs, or chooses between any two of two one2one *)
(* channels, two many2one channels and a barrier, in either order; one of  *)
(* the many2one channels has two writers, the barrier three parties.       *)
EXTENDS Choice

CONSTANTS reader, writer1, writer2, o1, o2, m1, m2, bar

MCThreads == {reader, writer1, writer2}
MCReads == [t \in MCThreads |-> IF t = reader THEN {o1, o2, m1, m2} ELSE {}]
MCWrites == [t \in MCThreads |-> CASE t = reader -> {}
                                   [] t = writer1 -> {o1, m1}
                                   [] t = writer2 -> {o2, m1, m2}]
MCSyncs == [t \in MCThreads |-> IF t = writer1 THEN {} ELSE {bar}]
MCChoices ==
  [t \in MCThreads |->
     IF t = reader THEN {<<o1, o2>>, <<m1, m2>>}
                          \cup {s \in {o1, m1, bar} \X {o1, m1, bar} : s[1] # s[2]}
     ELSE {}]
=============================================================================
