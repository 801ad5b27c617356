---------------------------- MODULE MCMemStore -----------------------------
(* MemStore on a small instance. *)
EXTENDS MemStore

\* Which address a record has, and what unreachable memory holds, no step can
\* tell: as long as the records share nothing, states differ in their values.
\* (Six addresses at most are in use, so an allocation never fails.)
View == IF Detached THEN <<Table, Own>> ELSE memVars
=============================================================================
