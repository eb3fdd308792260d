-------------------------- MODULE MCAuxiliaryScans --------------------------
(* Constants of the TLC instance of AuxiliaryScans: a lane of departments, *)
(* whose discovery finds two that lead to the same page, and a lane of     *)
(* keywords without results, whose list may be extended or cut.            *)
EXTENDS AuxiliaryScans, TLC

CONSTANTS t1, t2, t3
TabSymmetry == Permutations(Tabs)

TwoLanes == <<"departments", "keywords">>
LaneNames == Range(TwoLanes)
Lists == [l \in LaneNames |-> IF l = "departments" THEN {<<"home">>}
                             ELSE {<<"q1">>, <<"q1", "q2">>}]
Departments == [l \in LaneNames |-> IF l = "departments" THEN <<"a", "b">> ELSE <<>>]
Shown == [k \in {"home", "a", "b", "q1", "q2"} |->
            CASE k = "home" -> "/" [] k \in {"a", "b"} -> "/a" [] k = "q1" -> "/q1" [] k = "q2" -> "/q2"]
ResultPages == [u \in {"/", "/a", "/q1", "/q2"} |-> IF u = "/a" THEN {1} ELSE {}]
Retry == <<1>>
=============================================================================
