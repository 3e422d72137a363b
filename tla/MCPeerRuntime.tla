---------------------------- MODULE MCPeerRuntime ----------------------------
(* Two peers, each of which dials the other, one of them again when its     *)
(* connection has ended.                                                     *)
EXTENDS PeerRuntime

CONSTANTS a, b, ab, again, ba

MCDialer == [c \in {ab, again, ba} |-> IF c = ba THEN b ELSE a]
MCAcceptor == [c \in {ab, again, ba} |-> IF c = ba THEN a ELSE b]

Left(ac, re, pr, ed, dr, di, la) ==
  [k \in Kinds |-> CASE k = "activate" -> ac [] k = "return" -> re [] k = "press" -> pr
                     [] k = "edge" -> ed [] k = "drop" -> dr [] k = "dial" -> di
                     [] OTHER -> la]
Linkings(c, budgets) == [linked : c, left : budgets]
Single == {{ab}}
Any == {{ab}, {ab, ba}}
(* switching back and forth, a link that breaks and one that joins, two edge *)
(* sessions that meet, an activation between them                            *)
Faults ==
  Linkings(Any, {Left(2, 1, 1, 0, 0, 0, 1), Left(0, 0, 1, 2, 0, 0, 0)}) \cup
  Linkings(Single, {Left(1, 1, 1, 0, 1, 1, 0), Left(1, 0, 0, 2, 0, 0, 1),
                    Left(0, 0, 1, 1, 1, 1, 0), Left(1, 0, 1, 1, 0, 0, 0)}) 
NoFaults == Linkings(Single, {Left(2, 1, 1, 2, 0, 0, 0)})
==============================================================================
