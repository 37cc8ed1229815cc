---------------------------- MODULE MCStageQueue ----------------------------
(* Small boards for StageQueue.                                            *)
EXTENDS StageQueue, TLC

CONSTANTS c1, c2, k1, k2, a1

MCRank == [a \in Agents |-> IF a = a1 THEN 1 ELSE 2]

\* One crewed column with a limit of one.
NarrowCrew == [k \in Columns |-> Agents]
NarrowLimit == [k \in Columns |-> 1]

\* Columns without a crew and without a limit: nothing ever waits.
RoomyCrew == [k \in Columns |-> {}]
RoomyLimit == [k \in Columns |-> 0]
=============================================================================
