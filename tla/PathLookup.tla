----------------------------- MODULE PathLookup -----------------------------
(***************************************************************************)
(* What host_path stands in for: the lookup of a path in a kernel that has *)
(* the mounts of VirtualPaths.                                             *)
(***************************************************************************)
EXTENDS VirtualPaths

CONSTANT Paths       \* to compare the two by

(* How a kernel that had the mounts would find a path: component by        *)
(* component, a link's target in its place, .. from where it is then.      *)
RECURSIVE Walk(_, _, _, _, _)
Walk(bs, at, rest, follow, seen) ==
  IF rest = <<>> THEN RawHostPath(bs, at)
  ELSE LET next == Append(at, Head(rest))
           link == Tree[RawHostPath(bs, next)]
       IN IF Head(rest) = ".." THEN Walk(bs, IF at = <<>> THEN at ELSE Front(at), Tail(rest), follow, seen)
          ELSE IF ~IsLink(RawHostPath(bs, next)) \/ (Len(rest) = 1 /\ ~follow)
               THEN Walk(bs, next, Tail(rest), follow, seen)
          ELSE IF seen = MaxLinks THEN RawHostPath(bs, next)
          ELSE Walk(bs, IF link.abs THEN <<>> ELSE at, link.to \o Tail(rest), follow, seen + 1)

(* A path finds what it would find under a kernel with the same mounts,    *)
(* through links, links inside of binds, binds behind links; a path or a   *)
(* target with .. behind a link is left out, as .. goes by the names.      *)
Resolves(bs) ==
  \A p \in Paths, follow \in BOOLEAN :
    Virtual(p) => HostPath(bs, p, follow) = Walk(bs, <<>>, p, follow, 0)

ResolvesLikeKernel ==
  Resolves(binds) /\ [][binds' # binds => \A bs \in {binds'} : Resolves(bs)]_vars
=============================================================================
