---------------------------- MODULE MCPositioning ----------------------------
EXTENDS Positioning

CONSTANTS floorA, floorB, a1, a2, k1, k2, th1, th2, worn, spare, x1, x2

MCFloor == {floorA, floorB}
MCAnchor == {a1, a2}
MCCall == {k1, k2}
MCThread == {th1, th2}
MCTag == {worn, spare}
MCInDatabase == {worn}
MCFrontend == {x1, x2}
MCConnected == {{a1, a2}}
MCFirst == [f \in MCFloor |-> IF f = floorA THEN {a1, a2} ELSE {}]

None == [r \in Request |-> 0]

(* Small instances: versions and placement, twice; caches, three times;      *)
(* batches; floors that go, twice; frontends, twice.                         *)
MCBudgets == {
    [None EXCEPT !["saveDraft"] = 1, !["publish"] = 2, !["undo"] = 1],
    [None EXCEPT !["saveDraft"] = 2, !["publish"] = 1, !["undo"] = 2],
    [None EXCEPT !["publish"] = 1, !["measure"] = 2],
    [None EXCEPT !["publish"] = 2, !["measure"] = 1, !["edit"] = 1],
    [None EXCEPT !["saveDraft"] = 1, !["publish"] = 1, !["measure"] = 1, !["failure"] = 1],
    [None EXCEPT !["measure"] = 2, !["failure"] = 2],
    [None EXCEPT !["delete"] = 1, !["measure"] = 2],
    [None EXCEPT !["delete"] = 1, !["saveDraft"] = 1, !["publish"] = 1, !["undo"] = 1],
    [None EXCEPT !["connect"] = 1, !["command"] = 5, !["measure"] = 1],
    [None EXCEPT !["connect"] = 2, !["command"] = 2, !["measure"] = 1]}
==============================================================================
