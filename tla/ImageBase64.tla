---------------------------- MODULE ImageBase64 ----------------------------
(***************************************************************************)
(* A session of the image-base64 tool (image_base64.rs): the user runs up  *)
(* to MaxCmds commands one after the other on the same filesystem.  Each  *)
(* command is main's dispatch (clap's typed accessors included) followed  *)
(* by the handler it calls, one filesystem step at a time.                *)
(*                                                                         *)
(* Data is abstract.  An image file holds pixels in a container format;   *)
(* the pixels record where they came from, their size and whether a lossy *)
(* encoder has been through them.  A text file is a sequence of lines; a  *)
(* line is a base64 string of some bytes in one of the two alphabets, or  *)
(* the "PATH: BASE64" line batch-encode writes.                           *)
(***************************************************************************)
EXTENDS FsModel, TLC

CONSTANTS
  Cmds,        \* the command lines (as clap accepted them) the user may run
  FS0,         \* the filesystem when the session starts
  StdinTexts,  \* what `decode -` may read from standard input
  MaxCmds,     \* how many commands the session runs
  MaxFaults,   \* bound on failing writes
  NoArg,       \* an option the command line leaves out
  Dash         \* decode's argument "-"

ASSUME MaxCmds \in Nat /\ MaxFaults \in Nat

NoExt == "(no extension)"

Pixels(src, size, lossy) == [src |-> src, size |-> size, lossy |-> lossy]
Image(px, f) == [kind |-> "image", px |-> px, fmt |-> f]
Txt(ls)      == [kind |-> "text", lines |-> ls]
B64(bytes, alpha) == [line |-> "b64", bytes |-> bytes, alpha |-> alpha]
Labeled(p, b)     == [line |-> "labeled", path |-> p, b64 |-> b]

(* general_purpose::URL_SAFE or STANDARD.                                  *)
Alphabet(urlSafe) == IF urlSafe THEN "url" ELSE "std"

(* str::to_lowercase, for ASCII names.                                     *)
UpperAZ == "ABCDEFGHIJKLMNOPQRSTUVWXYZ"
LowerAZ == "abcdefghijklmnopqrstuvwxyz"
LowerChar(c) ==
  IF \E i \in 1..26 : SubSeq(UpperAZ, i, i) = c
    THEN LET i == CHOOSE i \in 1..26 : SubSeq(UpperAZ, i, i) = c IN SubSeq(LowerAZ, i, i)
    ELSE c
RECURSIVE ToLower(_)
ToLower(s) == IF Len(s) = 0 THEN s ELSE LowerChar(SubSeq(s, 1, 1)) \o ToLower(SubSeq(s, 2, Len(s)))

(* Path::extension: the text after the last "." of the file name, unless  *)
(* that dot is the name's first character, there is none, or the name is  *)
(* ".." (which Path::file_name does not count as a name).                 *)
RECURSIVE LastDot(_, _)
LastDot(s, i) == IF i = 0 THEN 0 ELSE IF SubSeq(s, i, i) = "." THEN i ELSE LastDot(s, i - 1)

Extension(p) ==
  LET n == Last(p)
      k == LastDot(n, Len(n))
  IN IF k <= 1 \/ n = ".." THEN NoExt ELSE SubSeq(n, k + 1, Len(n))

(* ImageFormat::from_path, which ImageReader::open uses to pick the       *)
(* decoder: the extension, ignoring case.                                 *)
ReadFormats ==
  ("jpg" :> "jpeg") @@ ("jpeg" :> "jpeg") @@ ("png" :> "png") @@ ("tif" :> "tiff") @@
  ("tiff" :> "tiff") @@ ("webp" :> "webp") @@ ("bmp" :> "bmp") @@ ("gif" :> "gif")

(* encode_image_to_base64's choice of output format when --format is not  *)
(* given: the lower-cased extension, PNG for anything else.               *)
WriteFormats ==
  ("jpg" :> "jpeg") @@ ("jpeg" :> "jpeg") @@ ("png" :> "png") @@ ("tif" :> "tiff") @@
  ("tiff" :> "tiff") @@ ("webp" :> "webp") @@ ("bmp" :> "bmp")

\* Mutant: an unknown extension falls back to JPEG.
ChooseFormatJpegFallback(format, p) ==
  IF format # NoArg THEN format
  ELSE LET e == Extension(p) IN
       IF e # NoExt /\ ToLower(e) \in DOMAIN WriteFormats THEN WriteFormats[ToLower(e)] ELSE "jpeg"

ChooseFormat(format, p) ==
  IF format # NoArg THEN format
  ELSE LET e == Extension(p) IN
       IF e # NoExt /\ ToLower(e) \in DOMAIN WriteFormats THEN WriteFormats[ToLower(e)] ELSE "png"

(* ImageReader::open(p)?.decode()?: the file exists, its extension names  *)
(* a format, and the bytes are an image in that format.                   *)
Readable(fs, p) ==
  /\ IsFile(fs, p)
  /\ Extension(p) # NoExt /\ ToLower(Extension(p)) \in DOMAIN ReadFormats
  /\ ContentOf(fs, p).kind = "image"
  /\ ContentOf(fs, p).fmt = ReadFormats[ToLower(Extension(p))]

(* encode_image_to_base64: read and decode, resize, choose the format,    *)
(* refuse a quality for anything but JPEG, encode into a buffer (JPEG is  *)
(* lossy; the quality itself is never passed on), then base64.            *)
EncodeImage(fs, p, format, quality, resize, urlSafe) ==
  LET px0 == ContentOf(fs, p).px
      px1 == IF resize = NoArg THEN px0 ELSE [px0 EXCEPT !.size = resize]
      fmt == ChooseFormat(format, p)
      px2 == IF fmt = "jpeg" THEN [px1 EXCEPT !.lossy = TRUE] ELSE px1
  IN IF ~Readable(fs, p) \/ (quality # NoArg /\ fmt # "jpeg")
       THEN [ok |-> FALSE]
       ELSE [ok |-> TRUE, line |-> B64(Image(px2, fmt), Alphabet(urlSafe))]

(* engine.decode(s.trim()), then                                          *)
(* ImageReader::with_guessed_format().decode(), on a whole text (input    *)
(* that is not text fails read_to_string).  A text of several lines holds *)
(* a newline, and a "PATH: ..." line a ':', which neither alphabet accepts.  A string in   *)
(* the other alphabet decodes only when it happens to hold neither of    *)
(* the two characters the alphabets disagree on, so both are possible.   *)
DecodeOutcomes(t, urlSafe) ==
  IF t.kind = "text" /\ Len(t.lines) = 1 /\ Head(t.lines).line = "b64" /\ Head(t.lines).bytes.kind = "image"
    THEN IF Head(t.lines).alpha = Alphabet(urlSafe) THEN {TRUE} ELSE {TRUE, FALSE}
    ELSE {FALSE}

(* writeln! adds one line to a text file (a fresh file holds none).       *)
AppendLine(c, l) == IF c.kind = "text" THEN Txt(Append(c.lines, l)) ELSE Txt(<<l>>)

(* clap: get_one::<T> panics when T is not the type the argument's value *)
(* parser stores.  encode's --quality uses value_parser(1..=100), an i64; *)
(* batch-encode's has no parser, a String.  Both are read as u8.          *)
QualityStored == ("encode" :> "i64") @@ ("batch-encode" :> "String")

(* batch-encode maps its --format (any string) with unreachable!() for    *)
(* the names it does not list.                                            *)
BatchFormats == {"jpeg", "tif", "tiff", "png", "webp", "bmp"}

(* get_matches(): the command line clap accepts.  Every positional is      *)
(* required; encode's --format must be one of four names and its          *)
(* --quality in 1..=100.  batch-encode leaves both unchecked.  Anything   *)
(* else is a usage error (exit status 2) before main's match runs.        *)
EncodeFormats == {"jpeg", "png", "webp", "bmp"}

Accepted(c) ==
  /\ c.arg1 # NoArg
  /\ c.sub \in {"decode", "decode-from-file", "batch-decode"} => c.arg2 # NoArg
  /\ c.sub = "encode" => /\ c.format \in EncodeFormats \cup {NoArg}
                         /\ c.quality \in (1..100) \cup {NoArg}

Panics(c) ==
  \/ c.sub \in DOMAIN QualityStored /\ c.quality # NoArg /\ QualityStored[c.sub] # "u8"
  \/ c.sub = "batch-encode" /\ c.format # NoArg /\ c.format \notin BatchFormats

(* The match on --format in main: the names clap let through, as formats. *)
FormatArg(c) == IF c.format = "tif" THEN "tiff" ELSE c.format

VARIABLES
  fs,        \* the filesystem
  ncmd,      \* commands started so far
  cmd,       \* the command being run
  ipc,       \* where the command is
  text,      \* the text being base64-decoded
  img,       \* the pixels decoded from it
  out,       \* the output path being written
  items,     \* batch-encode: image paths not yet encoded
  results,   \* batch-encode: lines encoded and not yet written
  lines,     \* batch-decode: lines not yet decoded
  lineNo,    \* batch-decode: index of the next line
  ires,      \* "none", "ok", "err", "panic" or "usage"
  faults,    \* write failures left
  fsStart,   \* the filesystem when the command started (history)
  done,      \* outputs the command finished writing (history)
  torn,      \* outputs a failed write left behind (history)
  log        \* the commands run, their results and what they read and wrote (history)

work  == <<text, img, out, items, results, lines, lineNo>>
ivars == <<fs, ncmd, cmd, ipc, work, ires, faults, fsStart, done, torn, log>>

IErr == ipc' = "done" /\ ires' = "err"
IOk  == ipc' = "done" /\ ires' = "ok"

-----------------------------------------------------------------------------
(* main: the user runs a command and get_matches() rejects or accepts it. *)
(* The accessors of its subcommand run first and may panic; then the      *)
(* handler starts.  `decode -` reads standard input; a literal argument  *)
(* is one line of text.                                                   *)
Dispatch ==
  /\ ipc = "idle" /\ ncmd < MaxCmds
  /\ \E c \in Cmds :
       /\ cmd' = c /\ ncmd' = ncmd + 1
       /\ fsStart' = fs /\ done' = {} /\ torn' = {}
       /\ IF ~Accepted(c)
            THEN ipc' = "done" /\ ires' = "usage" /\ UNCHANGED work
          ELSE IF Panics(c)
            THEN ipc' = "done" /\ ires' = "panic" /\ UNCHANGED work
            ELSE /\ ipc' = CASE c.sub = "encode"           -> "encode"
                             [] c.sub = "decode"           -> "decode"
                             [] c.sub = "decode-from-file" -> "readfile"
                             [] c.sub = "batch-encode"     -> "bencode"
                             [] c.sub = "batch-decode"     -> "readlines"
                 /\ text' \in IF c.sub = "decode"
                                THEN IF c.arg1 = Dash THEN StdinTexts ELSE {Txt(<<c.arg1>>)}
                                ELSE {text}
                 /\ out' = CASE c.sub = "decode-from-file" -> c.arg2 \o <<"decoded_image.png">>
                             [] c.sub = "batch-decode"     -> out
                             [] OTHER                      -> c.arg2
                 /\ items' = IF c.sub = "batch-encode" THEN c.arg1 ELSE items
                 /\ UNCHANGED <<img, results, lines, lineNo, ires>>
  /\ UNCHANGED <<fs, faults, log>>

(* encode: encode_image_to_base64, then print it or std::fs::write it.    *)
EncodeOne ==
  /\ ipc = "encode"
  /\ LET r == EncodeImage(fs, cmd.arg1, cmd.format, cmd.quality, cmd.resize, cmd.url)
     IN IF ~r.ok THEN IErr /\ UNCHANGED text
        ELSE IF cmd.arg2 = NoArg THEN IOk /\ UNCHANGED text
        ELSE ipc' = "writeb64" /\ text' = Txt(<<r.line>>) /\ UNCHANGED ires
  /\ UNCHANGED <<fs, ncmd, cmd, img, out, items, results, lines, lineNo, faults, fsStart, done, torn, log>>

(* std::fs::write(output, base64): create or truncate, then write; a     *)
(* failing write leaves the file torn.                                    *)
WriteB64 ==
  /\ ipc = "writeb64"
  /\ IF CanCreate(fs, out)
       THEN \/ /\ fs' = WriteFile(CreateFile(fs, out), out, text)
               /\ done' = done \cup {Resolve(fs, out)} /\ IOk
               /\ UNCHANGED <<faults, torn>>
            \/ /\ faults > 0 /\ faults' = faults - 1
               /\ fs' = WriteFile(CreateFile(fs, out), out, Torn)
               /\ torn' = torn \cup {Resolve(fs, out)} /\ IErr
               /\ UNCHANGED done
       ELSE IErr /\ UNCHANGED <<fs, faults, done, torn>>
  /\ UNCHANGED <<ncmd, cmd, work, fsStart, log>>

(* decode_from_file: read_to_string(input)? (an image is not UTF-8).      *)
ReadFile ==
  /\ ipc = "readfile"
  /\ IF IsFile(fs, cmd.arg1) /\ ContentOf(fs, cmd.arg1).kind = "text"
       THEN ipc' = "decode" /\ text' = ContentOf(fs, cmd.arg1) /\ UNCHANGED ires
       ELSE IErr /\ UNCHANGED text
  /\ UNCHANGED <<fs, ncmd, cmd, img, out, items, results, lines, lineNo, faults, fsStart, done, torn, log>>

(* decode_base64_to_image, first half: base64-decode the trimmed text and *)
(* decode the image from the bytes; nothing is written yet.               *)
\* Mutant: the output file is created before the input is decoded.
DecodeB64CreateFirst ==
  /\ ipc = "decode"
  /\ fs' = IF CanCreate(fs, out) THEN CreateFile(fs, out) ELSE fs
  /\ \E ok \in DecodeOutcomes(text, cmd.url) :
       IF ok THEN ipc' = "create" /\ img' = Head(text.lines).bytes.px /\ UNCHANGED ires
             ELSE IErr /\ UNCHANGED img
  /\ UNCHANGED <<ncmd, cmd, text, out, items, results, lines, lineNo, faults, fsStart, done, torn, log>>

DecodeB64 ==
  /\ ipc = "decode"
  /\ \E ok \in DecodeOutcomes(text, cmd.url) :
       IF ok THEN ipc' = "create" /\ img' = Head(text.lines).bytes.px /\ UNCHANGED ires
             ELSE IErr /\ UNCHANGED img
  /\ UNCHANGED <<fs, ncmd, cmd, text, out, items, results, lines, lineNo, faults, fsStart, done, torn, log>>

(* decode_base64_to_image, second half: File::create(output)?, then write *)
(* the image as PNG, whatever the output's name says.                     *)
CreateOut ==
  /\ ipc = "create"
  /\ IF CanCreate(fs, out)
       THEN fs' = CreateFile(fs, out) /\ ipc' = "writepng" /\ UNCHANGED ires
       ELSE IErr /\ UNCHANGED fs
  /\ UNCHANGED <<ncmd, cmd, work, faults, fsStart, done, torn, log>>

WritePng ==
  /\ ipc = "writepng"
  /\ \/ /\ fs' = WriteFile(fs, out, Image(img, "png"))
        /\ done' = done \cup {Resolve(fs, out)}
        /\ IF cmd.sub = "batch-decode" THEN ipc' = "nextline" /\ UNCHANGED ires ELSE IOk
        /\ UNCHANGED <<faults, torn>>
     \/ /\ faults > 0 /\ faults' = faults - 1
        /\ fs' = WriteFile(fs, out, Torn)
        /\ torn' = torn \cup {Resolve(fs, out)} /\ IErr
        /\ UNCHANGED done
  /\ UNCHANGED <<ncmd, cmd, work, fsStart, log>>

(* batch-decode: read_to_string(input)?, then content.lines().            *)
ReadLines ==
  /\ ipc = "readlines"
  /\ IF IsFile(fs, cmd.arg1) /\ ContentOf(fs, cmd.arg1).kind = "text"
       THEN /\ ipc' = "nextline" /\ lines' = ContentOf(fs, cmd.arg1).lines /\ lineNo' = 0
            /\ UNCHANGED ires
       ELSE IErr /\ UNCHANGED <<lines, lineNo>>
  /\ UNCHANGED <<fs, ncmd, cmd, text, img, out, items, results, faults, fsStart, done, torn, log>>

(* The loop of batch-decode: line i goes to OUTDIR/image_i.png through    *)
(* decode_base64_to_image; the first error (the `?`) ends the command.    *)
\* Mutant: the loop has no exit once the lines are used up.
NextLineNoExit ==
  /\ ipc = "nextline"
  /\ lines # <<>>
  /\ ipc' = "decode" /\ text' = Txt(<<Head(lines)>>) /\ lines' = Tail(lines)
  /\ out' = cmd.arg2 \o <<"image_" \o ToString(lineNo) \o ".png">>
  /\ lineNo' = lineNo + 1
  /\ UNCHANGED <<fs, ncmd, cmd, img, items, results, ires, faults, fsStart, done, torn, log>>

NextLine ==
  /\ ipc = "nextline"
  /\ IF lines = <<>>
       THEN IOk /\ UNCHANGED <<text, out, lines, lineNo>>
       ELSE /\ ipc' = "decode" /\ text' = Txt(<<Head(lines)>>) /\ lines' = Tail(lines)
            /\ out' = cmd.arg2 \o <<"image_" \o ToString(lineNo) \o ".png">>
            /\ lineNo' = lineNo + 1
            /\ UNCHANGED ires
  /\ UNCHANGED <<fs, ncmd, cmd, img, items, results, faults, fsStart, done, torn, log>>

(* encode_multiple_images, first loop: every image is encoded before     *)
(* anything is written; the first failure ends the command.               *)
BatchEncodeItem ==
  /\ ipc = "bencode"
  /\ IF items = <<>>
       THEN /\ IF cmd.arg2 = NoArg THEN IOk ELSE ipc' = "bcreate" /\ UNCHANGED ires
            /\ UNCHANGED <<items, results>>
       ELSE LET r == EncodeImage(fs, Head(items), FormatArg(cmd), cmd.quality, cmd.resize, cmd.url)
            IN IF r.ok
                 THEN /\ results' = Append(results, Labeled(Head(items), r.line))
                      /\ items' = Tail(items) /\ UNCHANGED <<ipc, ires>>
                 ELSE IErr /\ UNCHANGED <<items, results>>
  /\ UNCHANGED <<fs, ncmd, cmd, text, img, out, lines, lineNo, faults, fsStart, done, torn, log>>

(* Second loop: File::create(output)?, then one writeln! per result.      *)
BatchCreate ==
  /\ ipc = "bcreate"
  /\ IF CanCreate(fs, out)
       THEN fs' = CreateFile(fs, out) /\ ipc' = "bwrite" /\ UNCHANGED ires
       ELSE IErr /\ UNCHANGED fs
  /\ UNCHANGED <<ncmd, cmd, work, faults, fsStart, done, torn, log>>

BatchWriteLine ==
  /\ ipc = "bwrite"
  /\ IF results = <<>>
       THEN IOk /\ done' = done \cup {Resolve(fs, out)} /\ UNCHANGED <<fs, results, faults, torn>>
       ELSE \/ /\ fs' = WriteFile(fs, out, AppendLine(ContentOf(fs, out), Head(results)))
               /\ results' = Tail(results)
               /\ UNCHANGED <<ipc, ires, faults, done, torn>>
            \/ /\ faults > 0 /\ faults' = faults - 1
               /\ torn' = torn \cup {Resolve(fs, out)} /\ IErr
               /\ UNCHANGED <<fs, results, done>>
  /\ UNCHANGED <<ncmd, cmd, text, img, out, items, lines, lineNo, fsStart, log>>

(* The process exits; the session records what the command did.           *)
Exit ==
  /\ ipc = "done"
  /\ log' = Append(log,
       [cmd |-> cmd, res |-> ires,
        src |-> IF cmd.sub = "encode" /\ IsFile(fsStart, cmd.arg1) THEN ContentOf(fsStart, cmd.arg1) ELSE NoArg,
        got |-> IF ires = "ok" /\ cmd.sub \in {"decode", "decode-from-file"} THEN ContentOf(fs, out) ELSE NoArg])
  /\ ipc' = "idle" /\ ires' = "none"
  /\ text' = Txt(<<>>) /\ img' = NoArg /\ out' = <<>> /\ items' = <<>>
  /\ results' = <<>> /\ lines' = <<>> /\ lineNo' = 0
  /\ UNCHANGED <<fs, ncmd, cmd, faults, fsStart, done, torn>>

-----------------------------------------------------------------------------
IInit ==
  /\ fs = FS0 /\ ncmd = 0 /\ cmd = NoArg /\ ipc = "idle"
  /\ text = Txt(<<>>) /\ img = NoArg /\ out = <<>> /\ items = <<>>
  /\ results = <<>> /\ lines = <<>> /\ lineNo = 0
  /\ ires = "none" /\ faults = MaxFaults
  /\ fsStart = FS0 /\ done = {} /\ torn = {} /\ log = <<>>

INext ==
  \/ Dispatch \/ EncodeOne \/ WriteB64 \/ ReadFile \/ DecodeB64 \/ CreateOut \/ WritePng
  \/ ReadLines \/ NextLine \/ BatchEncodeItem \/ BatchCreate \/ BatchWriteLine \/ Exit

(* Each command runs to its end: nothing in it waits on anything else.    *)
ISpec == IInit /\ [][INext]_ivars /\ WF_ivars(INext)

-----------------------------------------------------------------------------
(* Type invariant.                                                         *)
ITypeOK ==
  /\ FsWellFormed(fs)
  /\ ipc \in {"idle", "encode", "writeb64", "readfile", "decode", "create", "writepng",
              "readlines", "nextline", "bencode", "bcreate", "bwrite", "done"}
  /\ ires \in {"none", "ok", "err", "panic", "usage"}
  /\ ncmd \in 0..MaxCmds /\ faults \in 0..MaxFaults /\ lineNo \in Nat
  /\ done \cup torn \subseteq DOMAIN fs

(* A failed command (an error or a panic) leaves every file as it found   *)
(* it, except the outputs it finished before failing (batch-decode's      *)
(* earlier images) and one a failing write tore.  The handlers decode and *)
(* encode all their input before they create an output, and batch-encode  *)
(* encodes every image before it creates the results file.                *)
FailureChangesOnlyFinishedOutputs ==
  (ipc = "done" /\ ires \in {"err", "panic"}) =>
    \A p \in DOMAIN fs :
      (p \notin DOMAIN fsStart \/ fs[p] # fsStart[p]) => p \in done \cup torn

(* `encode IMG -o T` of an image that is not a JPEG, without asking for   *)
(* JPEG or a resize, followed by `decode-from-file T DIR`, leaves the     *)
(* same pixels, as a PNG, in DIR/decoded_image.png.                       *)
EncodeDecodeRoundTrip ==
  \A i \in 1..Len(log) - 1 :
    LET e == log[i]
        d == log[i + 1]
    IN (/\ e.cmd.sub = "encode" /\ e.res = "ok" /\ e.cmd.arg2 # NoArg
        /\ e.cmd.resize = NoArg /\ e.cmd.format # "jpeg" /\ e.src.fmt # "jpeg"
        /\ d.cmd.sub = "decode-from-file" /\ d.cmd.arg1 = e.cmd.arg2 /\ d.res = "ok")
       => d.got = Image(e.src.px, "png")

(* clap accepted the command line, so the tool does not panic: the help  *)
(* offers --quality 1-100 to encode and batch-encode, and batch-encode    *)
(* takes any --format.                                                     *)
NoPanic == ires # "panic"

(* Every command main starts ends, with an exit status, and is logged:    *)
(* each handler's loops (the batch loops over images, lines and results)  *)
(* run out and every error path returns.                                  *)
CommandEnds == \A n \in 1..MaxCmds : (ncmd >= n) ~> (Len(log) >= n)

=============================================================================
