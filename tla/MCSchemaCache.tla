--------------------------- MODULE MCSchemaCache ---------------------------
(* Small instances of SchemaCache and Migrations. *)
EXTENDS SchemaCache
M(version, sum, type) == [version |-> version, sum |-> sum, type |-> type, empty |-> sum = "e"]
MCInputs ==
  { <<M(1, "a", "schema")>>, <<M(2, "b", "schema"), M(1, "e", "schema")>>,
    <<M(3, "a", "content"), M(2, "a", "schema"), M(1, "a", "schema")>> }
Symmetry == Permutations(Calls) \cup Permutations(Readers)
=============================================================================
