----------------------------- MODULE MCFrontend ------------------------------
(***************************************************************************)
(* Small instances of Frontend: two tasks in one tab, or one in each of    *)
(* two tabs.                                                               *)
(***************************************************************************)
EXTENDS Frontend, TLC

CONSTANTS c1, c2, t1, t2

OneTab  == [c \in Call |-> t1]
TwoTabs == [c \in Call |-> IF c = c1 THEN t1 ELSE t2]
=============================================================================
