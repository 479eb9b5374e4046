---------------------------- MODULE MCExecStream ----------------------------
EXTENDS ExecStream, FiniteSets

(* Every transport and kind of process: stdin and an output, with or       *)
(* without a terminal, or both outputs.                                    *)
Some == {r \in Requests : r.outs = IF r.stdin THEN {Stdout} ELSE Outs}
=============================================================================
