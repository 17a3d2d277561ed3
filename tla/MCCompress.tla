---------------------------- MODULE MCCompress ----------------------------
(* CompressPath on a small tree: src/ holds a, the subdirectory d with b,  *)
(* and c.  A run compresses src/ or src/a or a missing path, to a fresh    *)
(* archive name, to src/a itself, or onto the directory src/.             *)
EXTENDS CompressPath

CONSTANTS d1, d2

MCData == {d1, d2}

MCFS0 ==
  (<<"src">> :> Dir) @@
  (<<"src", "a">> :> FileNode(Raw(d1))) @@
  (<<"src", "c">> :> FileNode(Raw(d2))) @@
  (<<"src", "d">> :> Dir) @@
  (<<"src", "d", "b">> :> FileNode(Raw(d2)))

MCNameOrder == <<"a", "b", "c", "d", "out.tgz", "src">>

MCInputs  == { <<"src">>, <<"src", "a">>, <<"nope">> }
MCOutputs == { <<"out.tgz">>, <<"src", "a">>, <<"src">>, <<"nodir", "out.tgz">> }
=============================================================================
