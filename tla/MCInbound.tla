-------------------------------- MODULE MCInbound --------------------------------
(* Values for the constants of Inbound. *)
EXTENDS Inbound

CONSTANTS t1, t2
TwoPorts == {t1, t2}
==================================================================================
