---------------------------- MODULE MCFileManager ----------------------------
(***************************************************************************)
(* FileManager with two paths on the file system of the trash and one on    *)
(* another.                                                                 *)
(***************************************************************************)
EXTENDS FileManager, TLC

MCPaths == {"/srv/a", "/srv/b", "/mnt/c"}
MCFewPaths == {"/srv/a", "/mnt/c"}

MCDevice == [x \in MCPaths \cup Slots |-> IF x = "/mnt/c" THEN "sdb" ELSE "sda"]
MCFewDevice == [x \in MCFewPaths \cup Slots |-> MCDevice[x]]

Symmetry == Permutations(Workers)
=============================================================================
