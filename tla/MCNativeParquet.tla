--------------------------- MODULE MCNativeParquet ---------------------------
(***************************************************************************)
(* The constants of the run of the store together with its native writer:  *)
(* those of MCTripleStore, and names that only keep letters and digits.    *)
(***************************************************************************)
EXTENDS MCTripleStore, NativeParquetProperties

MCAlphanumerics == [iri \in Predicates \union Datatypes |->
    CASE iri = "urn:p" -> "urnp" [] iri = "ex/q" -> "exq"
      [] iri = "xsd:string" -> "xsdstring" [] OTHER -> "xsdinteger"]
=============================================================================
