------------------------------- MODULE MCAccess -------------------------------
(* An owner's account or a staff account, two requests at a time.          *)
EXTENDS Access, TLC
CONSTANTS c1, c2
MCClients == {c1, c2}
MCSymmetry == Permutations(MCClients)
MCStaffRoles == {"BILLER"}
=============================================================================
