---------------------------- MODULE MCRequestHandler ----------------------------
(* An instance of RequestHandler for TLC. *)
EXTENDS RequestHandler

CONSTANTS r1, r2, o1, o2, here, there, p

Requests == {r1, r2}
Objects == {o1, o2}
TwoOrigins == {here, there}
NoBody == {Nil}
OneParameter == {{p}}
=============================================================================
