----------------------------- MODULE SyncSessionMC -----------------------------
(* A small instance of SyncSession. *)
EXTENDS SyncSession, TLC

CONSTANTS t1, phone, g1, g2

OneTab == t1 :> phone
================================================================================
