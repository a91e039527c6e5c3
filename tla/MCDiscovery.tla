------------------------------ MODULE MCDiscovery ------------------------------
(* Instances of Discovery for TLC, and inputs for the checks of Values.     *)
EXTENDS Discovery, TLC

CONSTANTS c1

TwoBoards == {New(0, 3, 0, 0), New(1, 255, 31, 7)}

Shapes ==
  {<<>>, <<Hex(3), Colon, Hex(0), Dot, Hex(0)>>, <<Hex(300), Colon, Hex(0), Dot, Hex(0), Dot>>}

\* Texts of up to seven tokens.
AllTexts == UNION {[1 .. n -> {Hex(7), Hex(300), Colon, Dot}] : n \in 0 .. 7}

SomeTimes == 0 .. 60
SomeLengths == {8, 16, 24}
==============================================================================
