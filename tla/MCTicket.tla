------------------------------ MODULE MCTicket ------------------------------
(* Instances of Ticket for TLC, with two scans racing over one booking.     *)
EXTENDS Ticket, TLC

CONSTANTS s1, s2
BothScans == Permutations({s1, s2})
=============================================================================
