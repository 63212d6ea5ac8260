------------------------------ MODULE MCCeremony ------------------------------
(***************************************************************************)
(* Instances of the passkey ceremony: two pages and one client.            *)
(***************************************************************************)
EXTENDS Ceremony

CONSTANTS p1, p2, c

=============================================================================
