--------------------------- MODULE MCOpenVPNClients ---------------------------
(* A small instance of OpenVPNClients: a client called all and one called ann. *)
EXTENDS OpenVPNClients

CONSTANTS ann, all, t1, t2
===============================================================================
