-------------------------- MODULE MCAddressAnnounce --------------------------
(* AddressAnnounce with the model values of its relays, for TLC.            *)
EXTENDS AddressAnnounce

CONSTANTS r1, r2
=============================================================================
