------------------------------- MODULE MCSwap -------------------------------
(***************************************************************************)
(* Swap on a host with one swap partition or none, the default file, a      *)
(* second controlled file and one path outside the controlled ones.         *)
(***************************************************************************)
EXTENDS Swap

MCTargets == {"/swapfile", "/swapfile2", "/srv/swap"}

MCNew == [t \in MCTargets |->
            CASE t = "/swapfile"  -> "/swapfile.new"
              [] t = "/swapfile2" -> "/swapfile2.new"
              [] t = "/srv/swap"  -> "/srv/swap.new"]

MCControlled == {"/swapfile", "/swapfile.new", "/swapfile2", "/swapfile2.new"}

MCDevices == {"/dev/sda2"}

MCPaths == MCTargets \cup {MCNew[t] : t \in MCTargets} \cup MCDevices

\* The smaller host: only the default file and the path outside.
MCFewTargets == {"/swapfile", "/srv/swap"}
MCFewNew == [t \in MCFewTargets |-> MCNew[t]]
MCFewControlled == {"/swapfile", "/swapfile.new"}
MCFewPaths == MCFewTargets \cup {MCNew[t] : t \in MCFewTargets} \cup MCDevices
=============================================================================
