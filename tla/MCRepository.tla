---------------------------- MODULE MCRepository ----------------------------
(* Two keys, users or visitors, every family of tables. *)
EXTENDS RepositoryPair

MCKeys == {"k1", "k2"}
MCFamilies == {"analyses", "keys", "usage", "jobs", "runs", "identity", "billing"}
=============================================================================
