------------------------------ MODULE MCConfig -------------------------------
(* ConfigLoader on a struct that nests structs by value and by pointer and *)
(* uses a variable twice, and on one with a field that cannot be set.      *)
EXTENDS ConfigLoader

MCShapes ==
  {Leaf("string", "A", <<"x">>)
   \o Nested("struct", Leaf("int8", "B", <<"7">>))
   \o Nested("ptr", Leaf("[]int8", "C", Unset) \o Unexported(Leaf("string", "A", Unset)))
   \o Leaf("int8", "A", Unset),
   Leaf("duration", "A", <<"7s">>)
   \o Unexported(Nested("struct", Leaf("bool", "A", Unset)))
   \o Nested("ptr", Nested("ptr", Leaf("bool", "B", Unset)))
   \o Leaf("chan", "C", Unset)
   \o Leaf("string", "", <<"x">>)}

MCRaws ==
  {<<"">>, <<"7">>, <<"300">>, <<"true">>, <<"7s">>, <<"7", " ", "7">>, <<"7", "300">>}
=============================================================================
