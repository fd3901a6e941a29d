---------------------------- MODULE MCDiskUnlock ----------------------------
(* Two volumes, two command lines, and a store with one credential that    *)
(* may unlock disks or with a software one beside it.                      *)
EXTENDS DiskUnlock

Hardware == [id |-> "c1", disk |-> TRUE, hardware |-> TRUE]
Software == [id |-> "c2", disk |-> TRUE, hardware |-> FALSE]

MCStores == {{Hardware, Software}}
=============================================================================
