----------------------------- MODULE MCRouteBatch -----------------------------
(* Small instances of RouteBatch: the constants are plain numbers. *)
EXTENDS RouteBatch
================================================================================
