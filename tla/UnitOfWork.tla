----------------------------- MODULE UnitOfWork -----------------------------
(***************************************************************************)
(* What one database session of the service (client/core/db.py) writes.    *)
(*                                                                         *)
(* Sessions run at READ COMMITTED, keep what they loaded until they are    *)
(* closed (expire_on_commit=False, autoflush=False) and take no row locks. *)
(* At a commit the object mapper compares every attribute with the value   *)
(* the session loaded and sends an UPDATE of exactly the changed columns,  *)
(* with absolute values: a concurrent change of the same column is         *)
(* overwritten, one of a column this session left alone survives.          *)
(***************************************************************************)

\* A session that sends every column it loaded.
FlushedAlways(stored, loaded, new) == new

\* The value a column holds after the commit of a session that loaded it as
\* `loaded' and left it as `new', when the row holds `stored' by then.
Flushed(stored, loaded, new) == IF new = loaded THEN stored ELSE new
=============================================================================
