-------------------------------- MODULE Names --------------------------------
(***************************************************************************)
(* Names of schemas, relations, columns and functions, as PostgreSQL has   *)
(* them: in lower case unless they were quoted. The validator              *)
(* (src/src/validate.rs) and the allowlist (src/src/surface.rs) compare    *)
(* them, and what the operator configured, without regard to case; to      *)
(* PostgreSQL two quoted names that differ only there are different.       *)
(*                                                                         *)
(* A name in a statement has a schema, "" without one; readable is FALSE   *)
(* for a part of it that is itself a call of a function.                   *)
(***************************************************************************)

CONSTANT Lower(_)   \* to_lowercase

UNREADABLE_NAME == "<unreadable name part>"

last_part_name(n) == IF n.readable THEN Lower(n.name) ELSE UNREADABLE_NAME
=============================================================================
