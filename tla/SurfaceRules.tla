----------------------------- MODULE SurfaceRules -----------------------------
(***************************************************************************)
(* The surface allowlist of src/src/surface.rs: which relations a caller   *)
(* may reach, and which of those a plan reads are outside it.              *)
(*                                                                         *)
(* A relation is a pair of a schema and a name. A configuration has the    *)
(* patterns of MCP_ALLOW_SCHEMAS and MCP_ALLOW_TABLES, pairs with "*" for  *)
(* the name of a whole schema, in lower case, and catalog for              *)
(* MCP_ALLOW_CATALOG.                                                      *)
(***************************************************************************)
EXTENDS Names

active(cfg) == cfg.patterns # {}
catalog_allowed(cfg) == cfg.catalog

Catalogs == {"pg_catalog", "information_schema"}

permitted_in(cfg, rel) ==
  LET schema == Lower(rel[1]) IN
  IF schema \in Catalogs THEN catalog_allowed(cfg)
  ELSE <<schema, "*">> \in cfg.patterns \/ <<schema, Lower(rel[2])>> \in cfg.patterns

relation_visible(cfg, rel) == ~active(cfg) \/ permitted_in(cfg, rel)

schema_visible(cfg, schema) ==
  \/ ~active(cfg)
  \/ IF Lower(schema) \in Catalogs THEN catalog_allowed(cfg)
     ELSE \E p \in cfg.patterns : p[1] = Lower(schema)

\* What a plan says is read. A plan has scans, of relations, and calls, the functions
\* scanned: one of the pg_ family reads server state, and is taken for a relation.
catalog_functions_in_plan(plan) ==
  {<<"pg_catalog", f.name>> : f \in {g \in plan.calls : g.server_state}}

relations_in_plan(plan) == plan.scans \cup catalog_functions_in_plan(plan)

\* The relations outside. A partition is inside when its parent is; parents has what that
\* was found to be: nothing when there is none, or when the question failed.
refused_in(cfg, found, parents) ==
  {rel \in found : /\ ~permitted_in(cfg, rel)
                   /\ \A parent \in parents[rel] : ~permitted_in(cfg, parent)}
=============================================================================
