----------------------------- MODULE MCEvaluation -----------------------------
(* Distributors of two copies on disks that come and go, and one that repeats its disk. *)
EXTENDS Evaluation

Distributor(caps, at) == [capacity |-> caps, at |-> at]
On(disks, placements) ==
  {Distributor([d \in disks |-> d], at) : at \in [0 .. MaxExtents - 1 -> placements]}

OneTwo == On({1, 2}, {<<1, 2>>, <<2, 1>>})
TwoThree == On({2, 3}, {<<2, 3>>, <<3, 2>>})
OneToThree == On({1, 2, 3}, {<<1, 2>>, <<3, 1>>})
One == On({1}, {<<1, 1>>})

MCLists ==
  {<<a>> : a \in OneTwo \cup OneToThree}
    \cup (OneTwo \X (TwoThree \cup OneToThree \cup One))
    \cup (One \X OneTwo)
    \cup {<<a, b, a>> : a \in OneTwo, b \in TwoThree}
    \cup {<<a, b, a, b>> : a \in One, b \in OneTwo}
===============================================================================
