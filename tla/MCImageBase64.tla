--------------------------- MODULE MCImageBase64 ---------------------------
(* A session of two image-base64 commands over a directory d/, a PNG and a *)
(* GIF with an upper-case extension, and a list of two base64 lines (the  *)
(* second not an image).  The commands cover every subcommand, both       *)
(* alphabets, an explicit --format, a resize, the panicking --quality and  *)
(* batch --format, stdin, missing inputs, and outputs that are re-read.   *)
EXTENDS ImageBase64

CONSTANTS p1, p2, junk

PngPx == Pixels(p1, "orig", FALSE)
GifPx == Pixels(p2, "orig", FALSE)

MCFS0 ==
  (<<"img.png">> :> FileNode(Image(PngPx, "png"))) @@
  (<<"pic.GIF">> :> FileNode(Image(GifPx, "gif"))) @@
  (<<"d">> :> Dir) @@
  (<<"list.txt">> :> FileNode(Txt(<<B64(Image(PngPx, "png"), "url"), B64(Raw(junk), "std")>>)))

Cmd(sub, a1, a2, f, q, r, u) ==
  [sub |-> sub, arg1 |-> a1, arg2 |-> a2, format |-> f, quality |-> q, resize |-> r, url |-> u]

T == <<"t.txt">>

MCCmds ==
  { Cmd("encode", i, T, NoArg, NoArg, NoArg, u) : i \in {<<"img.png">>, <<"pic.GIF">>}, u \in BOOLEAN }
  \cup { Cmd("encode", <<"img.png">>, T, "jpeg", NoArg, NoArg, FALSE),
         Cmd("encode", <<"img.png">>, NoArg, NoArg, NoArg, <<2, 2>>, FALSE),
         Cmd("encode", <<"img.png">>, NoArg, NoArg, 50, NoArg, FALSE),
         Cmd("encode", <<"nope.png">>, T, NoArg, NoArg, NoArg, FALSE),
         Cmd("encode", <<"img.png">>, T, "gif", NoArg, NoArg, FALSE),
         Cmd("encode", <<"img.png">>, T, NoArg, 0, NoArg, FALSE) }
  \cup { Cmd("decode-from-file", T, <<"d">>, NoArg, NoArg, NoArg, u) : u \in BOOLEAN }
  \cup { Cmd("decode", B64(Image(PngPx, "png"), "std"), <<"d", "o.jpg">>, NoArg, NoArg, NoArg, FALSE),
         Cmd("decode", B64(Image(GifPx, "gif"), "url"), <<"nodir", "o.png">>, NoArg, NoArg, NoArg, TRUE),
         Cmd("decode", Dash, <<"d", "o.png">>, NoArg, NoArg, NoArg, FALSE),
         Cmd("decode", Dash, NoArg, NoArg, NoArg, NoArg, FALSE) }
  \cup { Cmd("batch-encode", <<<<"img.png">>, <<"pic.GIF">>>>, T, NoArg, NoArg, NoArg, FALSE),
         Cmd("batch-encode", <<<<"img.png">>, <<"nope.png">>>>, T, NoArg, NoArg, NoArg, FALSE),
         Cmd("batch-encode", <<<<"img.png">>>>, NoArg, "tif", NoArg, NoArg, TRUE),
         Cmd("batch-encode", <<<<"img.png">>>>, NoArg, "gif", NoArg, NoArg, FALSE) }
  \cup { Cmd("batch-decode", l, <<"d">>, NoArg, NoArg, NoArg, FALSE) : l \in {T, <<"list.txt">>} }

(* Standard input: bytes that are not UTF-8, or one base64 line.           *)
MCStdin == { Raw(junk), Txt(<<B64(Image(PngPx, "png"), "std")>>) }
=============================================================================
