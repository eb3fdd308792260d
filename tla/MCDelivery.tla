----------------------------- MODULE MCDelivery -----------------------------
(* Constants of the TLC instances of Delivery.                             *)
EXTENDS Delivery, TLC

CONSTANTS i1, i2, t1, t2, t3

TypePets == <<"type", "pets">>
Pets == [available |-> TRUE, category |-> "pets", band |-> "no-band"]
Toys == [available |-> TRUE, category |-> "toys", band |-> "no-band"]
Gone == [available |-> FALSE, category |-> "pets", band |-> "no-band"]

FreeOnly     == {<<"yesterday-recap">>}
PetsOnly     == {TypePets}
PetsAndFree  == {TypePets, <<"yesterday-recap">>}
NoRoutes     == {}
AllInputs    == {Pets, Toys, Gone}
GoneThenPets == {Gone, Pets}
JustPets     == {Pets}
OneLegacyJob == {<<i1, TypePets>>}
NoLegacyJobs == {}
Unseeded     == {FALSE}
TokenSymmetry == Permutations(Tokens)
ItemSymmetry == Permutations(Items) \union Permutations(Tokens)
=============================================================================
