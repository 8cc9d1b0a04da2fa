----------------------------- MODULE MCCrushRule -----------------------------
(* Default layers over two to five domains, and every other bucket type as  *)
(* root and as domain, with disks that are too small, ids that are not      *)
(* positions, and a second setDisks.                                        *)
EXTENDS CrushRule

Disk(id, c) == [id |-> id, capacity |-> c]
Full(n) == [k \in 1 .. n |-> Disk(k - 1, 4096 * (1 + (k % 2)))]
K(layers, ndom) == [layers |-> layers, ndom |-> ndom]

Default == K(DefaultLayers, 2)
Wide == K(DefaultLayers, 0)
ListOfStraws == K(<<"straw", "list">>, 2)
TreeOfLists == K(<<"list", "tree">>, 3)
TreeOfTrees == K(<<"tree", "tree">>, 1)
OneLayer == K(<<"uniform">>, 2)
Deep == K(<<"uniform", "straw", "straw">>, 2)

RuleKinds == {Default, Wide, ListOfStraws, TreeOfLists, TreeOfTrees, OneLayer, Deep}
RuleLists ==
  [k \in RuleKinds |->
     CASE k = Default -> {Full(4), <<Disk(0, 4096), Disk(1, 100), Disk(2, 8192)>>,
                          <<Disk(1, 4096), Disk(2, 4096), Disk(0, 20)>>}
       [] k = Wide -> {Full(3), Full(4), Full(5)}
       [] k = ListOfStraws -> {Full(3)}
       [] k = TreeOfLists -> {Full(3), <<Disk(0, 4096), Disk(7, 4096)>>}
       [] k = TreeOfTrees -> {Full(3), Full(65)}
       [] OTHER -> {Full(3)}]
RuleRebuilt == {Default}

DeepKinds == {Deep}
================================================================================
