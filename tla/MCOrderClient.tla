----------------------------- MODULE MCOrderClient -----------------------------
(* OrderClient, for TLC: the constants are given in the .cfg files.        *)
EXTENDS OrderClient
=============================================================================
