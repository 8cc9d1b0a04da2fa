------------------------------ MODULE MCSaveLoad ------------------------------
(* Two lists, two messages and two algorithms of each sort. *)
EXTENDS SaveLoad

MCKinds ==
  {NNKind, FRSKind, RSKind, CRUSHKind} \cup ShareKinds \cup RRKinds \cup RUSHKinds
MCLists == {<<"a", "b", "c">>, <<"b">>}
===============================================================================
