---- MODULE MCSchemaMigration ----
(* Small instances of SchemaMigration for TLC. *)
EXTENDS SchemaMigration

CONSTANTS a, b, c3

(* A name of three words, one with white space at both ends, a single word.*)
MCOldNames == {<<a, Space, b, Space, c3>>, <<Space, a, Tab>>, <<a>>}

(* One that ends with a space.                                             *)
MCNames == {<<a, Space>>}
====
