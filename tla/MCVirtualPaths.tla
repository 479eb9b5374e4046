--------------------------- MODULE MCVirtualPaths ---------------------------
EXTENDS PathLookup, TLC

CONSTANTS p1, p2

R(names) == <<"root">> \o names
Link(abs, to) == [kind |-> "link", abs |-> abs, to |-> to]

(* /a/b and /c are directories, /a/m leads to /c, /l to /a, /o to itself,  *)
(* /c/f is a file; /h is there for the bind of a directory with a link, and *)
(* /c/f for that of a file.                                                *)
SmallTree ==
  (R(<<>>) :> Dir) @@ (R(<<"a">>) :> Dir) @@ (R(<<"a", "b">>) :> Dir) @@ (R(<<"c">>) :> Dir)
  @@ (R(<<"c", "f">>) :> File) @@ (R(<<"h">>) :> Dir)
  @@ (R(<<"a", "m">>) :> Link(FALSE, <<"..", "c">>)) @@ (R(<<"l">>) :> Link(TRUE, <<"a">>))
  @@ (R(<<"o">>) :> Link(FALSE, <<"o">>))
  @@ (<<"host">> :> Dir) @@ (<<"hosts">> :> File) @@ (<<"host", "n">> :> Link(TRUE, <<"a", "m">>))

HostBinds == {[at |-> <<"h">>, host |-> <<"host">>], [at |-> <<"c", "f">>, host |-> <<"hosts">>]}
SomePaths ==
  {<<>>, <<"a", "b">>, <<"l">>, <<"l", "m">>, <<"a", "m", "b">>, <<"h", "n", "f">>, <<"o">>}
TwoPids == {p1, p2}
OneDir == {R(<<"a">>)}

Abs(p) == [base |-> Absolute, path |-> p]
From(b, p) == [base |-> b, path |-> p]
SomeCalls ==
  [name : {"chdir"}, arg : {Abs(<<"l", "m">>), From(AT_FDCWD, <<"b">>)}]
  \cup [name : {"open"}, arg : {Abs(<<"a">>), Abs(<<"c", "f">>), From(3, <<"m">>)}]
  \cup [name : {"fchdir", "close", "dup"}, fd : {3}]
  \cup [name : {"dup2"}, fd : {3, 4}, to : {3}]
  \cup [name : {"create"}, arg : {Abs(<<"l", "x">>), Abs(<<"l", "b">>)}]
  \cup [name : {"chmod"}, dir : OneDir, mode : {"rw"}]
  \cup [name : {"mtab"}]
  \cup [name : {"mount"}, source : {Abs(<<"c">>)}, target : {Abs(<<"a">>), Abs(<<"c">>), Abs(<<"l">>)}]
  \cup [name : {"mount"}, source : {Abs(<<"a">>)}, target : {Abs(<<"a", "b">>), Abs(<<"c">>)}]
  \cup [name : {"umount"}, target : {Abs(<<"a">>), Abs(<<"a", "b">>)}]
=============================================================================
