---------------------------- MODULE MCAltBarrier2 ----------------------------
(* Three threads and two barriers (three threads compete for two places,   *)
(* as on the barrier that test/DSS.dats calls shift).  Any thread may sync *)
(* on either; one thread, or every thread, may also choose between them,   *)
(* in either order.                                                        *)
EXTENDS Choice

CONSTANTS t1, t2, t3, b1, b2

MCThreads == {t1, t2, t3}
MCNoChannels == [t \in MCThreads |-> {}]
MCSyncs == [t \in MCThreads |-> {b1, b2}]
MCOrders == {<<b1, b2>>, <<b2, b1>>}
MCOneChooses == [t \in MCThreads |-> IF t = t1 THEN MCOrders ELSE {}]
MCAllChoose == [t \in MCThreads |-> MCOrders]
=============================================================================
