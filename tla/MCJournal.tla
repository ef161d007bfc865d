----------------------------- MODULE MCJournal -----------------------------
(* Journal on small instances. *)
EXTENDS Journal
============================================================================
