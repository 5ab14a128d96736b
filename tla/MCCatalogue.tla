---------------------------- MODULE MCCatalogue ----------------------------
(* A small instance of Catalogue: two digits of a code enter the barcode,  *)
(* and three candidates are tried.  All codes want the prefix 10, and one  *)
(* of them is typed like the barcode with that prefix and cost 1.          *)
EXTENDS Catalogue, TLC

CONSTANTS i1, i2, n1, n2, c1, c2

ThreeCodes == {<<1>>, <<1, 0, 1>>, <<1, 0, 2, 2>>}

OldCode == [i \in {i1} |-> <<1, 0, 2, 2>>]

IdDigits == i1 :> <<3, 1>> @@ i2 :> <<3, 2>>

Symmetry == Permutations(Clients)
=============================================================================
