--------------------------- MODULE MCVersionedCache ---------------------------
(* Small instances of VersionedCache for TLC: the readers share a service   *)
(* instance, so that they may share promises; a bypass reads on its own.    *)
EXTENDS VersionedCache

OneHost == [r \in Readers |-> CHOOSE h \in Hosts : TRUE]
=============================================================================
