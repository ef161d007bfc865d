--------------------------- MODULE MCAtomicWrite ---------------------------
(* AtomicWrite on small instances. *)
EXTENDS AtomicWrite
============================================================================
