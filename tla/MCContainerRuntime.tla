-------------------------- MODULE MCContainerRuntime --------------------------
(***************************************************************************)
(* Small instances of ContainerRuntime: a container that is created,       *)
(* started (twice, where restarts matter), stopped and removed, in a pod   *)
(* that comes and goes, with a crash of the daemon in between.             *)
(***************************************************************************)
EXTENDS ContainerRuntime

CONSTANTS c1, s1, s2
=============================================================================
