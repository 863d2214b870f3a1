-------------------------- MODULE MCSchemaService --------------------------
(* SchemaService with few targets for CREATE TABLE and DROP TABLE.           *)
EXTENDS SchemaService

\* The tables that clients make up in the schemas they create.
MCTargets == Schemas \X Tables
=============================================================================
