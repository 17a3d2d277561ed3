---------------------------- MODULE MCRcompMain ----------------------------
(* rcomp's main on the archives of MCDecompress: a good and a truncated   *)
(* tar.gz, one with a ".." entry, and a plain .gz, each to a fresh DEST.  *)
EXTENDS RcompMain

CONSTANTS d1, d2

Entries2 == << TarEntry(<<"a">>, Raw(d1)), TarEntry(<<"d", "b">>, Raw(d2)) >>

MCDFS0 ==
  (<<"good.tar.gz">> :> FileNode(Gz(Tar(Entries2), TRUE))) @@
  (<<"cut.tgz">> :> FileNode(Gz(Tar(Entries2), FALSE))) @@
  (<<"evil.tgz">> :> FileNode(Gz(Tar(<< TarEntry(<<"..", "x">>, Raw(d1)) >>), TRUE))) @@
  (<<"f.gz">> :> FileNode(Gz(Raw(d1), TRUE)))

MCDInputs  == { <<"good.tar.gz">>, <<"cut.tgz">>, <<"evil.tgz">>, <<"f.gz">> }
MCDOutputs == { <<"dst">>, <<"f">> }
=============================================================================
