----------------------------- MODULE MCGcThread -----------------------------
(* Checks GcThread: one gc thread, one collector at a time (m_collect admits *)
(* one), any number of collections, a shutdown at any moment, with condition *)
(* variables that wake unasked and with such that do not.                    *)
EXTENDS GcThread
=============================================================================
