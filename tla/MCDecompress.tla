--------------------------- MODULE MCDecompress ---------------------------
(* DecompressFile on archives that compress made (good.tar.gz, f.gz), one *)
(* whose trailer is missing (cut.tgz), one made by other means with ".."  *)
(* and absolute entries (evil.tgz), and a file that is not gzip (x).      *)
EXTENDS DecompressFile

CONSTANTS d1, d2

Entries2 == << TarEntry(<<"a">>, Raw(d1)), TarEntry(<<"d", "b">>, Raw(d2)) >>

MCDFS0 ==
  (<<"good.tar.gz">> :> FileNode(Gz(Tar(Entries2), TRUE))) @@
  (<<"cut.tgz">> :> FileNode(Gz(Tar(Entries2), FALSE))) @@
  (<<"evil.tgz">> :> FileNode(Gz(Tar(<< TarEntry(<<"..", "x">>, Raw(d1)),
                                       TarEntry(<<"/", "etc">>, Raw(d2)),
                                       TarEntry(<<"ok">>, Raw(d1)) >>), TRUE))) @@
  (<<"f.gz">> :> FileNode(Gz(Raw(d1), TRUE))) @@
  (<<"x">> :> FileNode(Raw(d2)))

MCDInputs  == { <<"good.tar.gz">>, <<"cut.tgz">>, <<"evil.tgz">>, <<"f.gz">>, <<"x">>, <<"none.gz">> }
MCDOutputs == { <<"dst">>, <<"f.gz">>, <<"x">> }
=============================================================================
