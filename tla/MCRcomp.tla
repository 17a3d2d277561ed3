------------------------------ MODULE MCRcomp ------------------------------
(* Rcomp on a small tree: src/ holds a, c and the subdirectory d with b.   *)
(* A run compresses src/ or src/a to an archive whose name selects tar    *)
(* (out.tgz) or plain gzip (out.gz) and unpacks it into dst.  MCFS0Link   *)
(* adds a link src/s to src/a; MCOutputsAlias adds OUTPUT = INPUT.        *)
EXTENDS Rcomp

CONSTANTS d1, d2

MCData == {d1, d2}

MCFS0 ==
  (<<"src">> :> Dir) @@
  (<<"src", "a">> :> FileNode(Raw(d1))) @@
  (<<"src", "c">> :> FileNode(Raw(d2))) @@
  (<<"src", "d">> :> Dir) @@
  (<<"src", "d", "b">> :> FileNode(Raw(d2)))

MCFS0Link == (<<"src", "s">> :> Link(<<"src", "a">>)) @@ MCFS0

MCNameOrder == <<"a", "b", "c", "d", "s", "src">>

MCInputs       == { <<"src">>, <<"src", "a">> }
MCOutputs      == { <<"out.tgz">>, <<"out.gz">> }
MCOutputsAlias == { <<"src", "a">> }
MCDOutputs     == { <<"dst">>, <<"out.gz">> }
=============================================================================
