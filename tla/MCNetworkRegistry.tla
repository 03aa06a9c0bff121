-------------------------- MODULE MCNetworkRegistry --------------------------
EXTENDS NetworkRegistry

CONSTANTS hall, store, t1, t2, x1, x2, y1

MCSink == {hall, store}
MCAnchor == {}
MCTag == {t1, t2}
MCSession == {x1, x2, y1}

(* The sink of the hall connects twice. *)
MCSinkOf == [x \in MCSession |-> IF x = y1 THEN store ELSE hall]
MCInDatabase == {hall, store, t1, t2}

(* The bound Telling leaves out versions that no property depends on. *)
MCTelling == {hall}
==============================================================================
