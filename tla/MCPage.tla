------------------------------- MODULE MCPage -------------------------------
(***************************************************************************)
(* A small instance of Page for TLC: two classes of one student each.      *)
(***************************************************************************)
EXTENDS Page

CONSTANTS c1, c2, s1, s2

HomeClass == [s \in Students |-> IF s = s1 THEN c1 ELSE c2]
LastWeek == [c \in {c1, c2} |-> 2]
=============================================================================
