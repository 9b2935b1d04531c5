-------------------------- MODULE MCSchemaLifecycle -------------------------
\* Instances of SchemaLifecycle for TLC: the constants are in the .cfg files.
EXTENDS SchemaLifecycle
=============================================================================
