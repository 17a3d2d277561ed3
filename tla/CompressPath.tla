---------------------------- MODULE CompressPath ----------------------------
(***************************************************************************)
(* One run of `rcomp compress INPUT OUTPUT` (compressor.rs): compress_path *)
(* classifies INPUT once, then compress_file gzips a single file or        *)
(* compress_dir walks the directory into an in-memory tar archive and      *)
(* gzips it.  The GzEncoder is never finish()ed: it is dropped at the end  *)
(* of the function, and the Drop impl writes the trailer and ignores any   *)
(* error.  Another process (Env) may delete or rewrite files below INPUT   *)
(* while the directory is being walked.                                    *)
(***************************************************************************)
EXTENDS FsModel, FiniteSets

CONSTANTS
  Inputs,      \* the INPUT paths a run may be given
  Outputs,     \* the OUTPUT paths a run may be given
  FS0,         \* the filesystem when the run starts
  Data,        \* raw file payloads Env may write
  NameOrder,   \* every path component, in lexical order
  MaxFaults,   \* bound on failing writes of the output
  MaxEnvOps    \* bound on changes made by other processes

ASSUME MaxFaults \in Nat /\ MaxEnvOps \in Nat
ASSUME \A p \in DOMAIN FS0 :
         FS0[p].type = "link" /\ FS0[p].target \in DOMAIN FS0 => FS0[FS0[p].target].type # "link"

VARIABLES
  input,      \* the INPUT argument
  output,     \* the OUTPUT argument
  fs,         \* the filesystem
  cpc,        \* where compress_path is
  mode,       \* "file" or "dir": the branch compress_path took
  walk,       \* WalkDir entries not yet visited (compress_dir)
  archive,    \* the tar::Builder's entries so far (compress_dir)
  reported,   \* the output contents fs::metadata saw (compress_file)
  cresult,    \* "none", "ok" or "err": the io::Result returned
  faults,     \* output write failures left
  envOps,     \* changes by other processes left
  touched     \* paths another process changed during the run

cvars == <<input, output, fs, cpc, mode, walk, archive, reported, cresult, faults, envOps, touched>>

Rank(c) == CHOOSE i \in 1..Len(NameOrder) : NameOrder[i] = c

LexicalOrder(S) == SortSeq(SetToSeq(S), LAMBDA a, b : Rank(Last(a)) < Rank(Last(b)))

(* WalkDir::new(d) yields d, then each entry of d in readdir order, and    *)
(* descends into real directories (links are yielded, not followed).  The *)
(* readdir order of a directory is not specified: any permutation.  With  *)
(* lexical = TRUE, only the order that sorts every directory by name.     *)
RECURSIVE WalkOrders(_, _, _)
WalkOrders(fs_, d, lexical) ==
  LET kids   == Children(fs_, d)
      Orders == IF lexical THEN {LexicalOrder(kids)} ELSE SetToSeqs(kids)
      Sub(c) == IF fs_[c].type = "dir" THEN WalkOrders(fs_, c, lexical) ELSE {<<c>>}
  IN UNION {
       { <<d>> \o FlattenSeq(w) :
           w \in { w \in [1..Len(s) -> UNION { Sub(c) : c \in kids }] :
                     \A i \in 1..Len(s) : w[i] \in Sub(s[i]) } }
       : s \in Orders }

-----------------------------------------------------------------------------
(* compress_path: Path::is_dir follows links; anything else, a missing     *)
(* path included, goes to compress_file.                                   *)
Classify ==
  /\ cpc = "start"
  /\ IF IsDir(fs, input)
       THEN /\ mode' = "dir"
            /\ walk' \in WalkOrders(fs, input, FALSE)
            /\ cpc' = "walk"
       ELSE /\ mode' = "file"
            /\ cpc' = "open"
            /\ UNCHANGED walk
  /\ UNCHANGED <<input, output, fs, archive, reported, cresult, faults, envOps, touched>>

Fail == cpc' = "done" /\ cresult' = "err"

(* compress_file: File::open(input)? fails on a missing path.             *)
OpenInput ==
  /\ cpc = "open"
  /\ IF IsFile(fs, input) THEN cpc' = "create" /\ UNCHANGED cresult ELSE Fail
  /\ UNCHANGED <<input, output, fs, mode, walk, archive, reported, faults, envOps, touched>>

(* File::create(output)? then GzEncoder::new.                               *)
CreateGzOutput ==
  IF CanCreate(fs, output)
    THEN fs' = CreateFile(fs, output) /\ cpc' = "write" /\ UNCHANGED cresult
    ELSE Fail /\ UNCHANGED fs

(* Bytes written through the encoder: the compressed payload without its  *)
(* trailer, or, when the write fails, torn bytes and the error.           *)
WriteGz(payload, next) ==
  \/ /\ fs' = WriteFile(fs, output, Gz(payload, FALSE))
     /\ cpc' = next
     /\ UNCHANGED <<cresult, faults>>
  \/ /\ faults > 0
     /\ faults' = faults - 1
     /\ fs' = WriteFile(fs, output, Torn)
     /\ Fail

(* compress_file: the output is created once INPUT is open.              *)
CreateFileOutput ==
  /\ cpc = "create"
  /\ CreateGzOutput
  /\ UNCHANGED <<input, output, mode, walk, archive, reported, faults, envOps, touched>>

(* compress_file: io::copy(reader, encoder)?.  The reader reads the input *)
(* file as it is now: File::create may just have truncated it.            *)
WriteFileOutput ==
  /\ cpc = "write" /\ mode = "file"
  /\ WriteGz(ContentOf(fs, input), "report")
  /\ UNCHANGED <<input, output, mode, walk, archive, reported, envOps, touched>>

(* compress_dir after the walk: archive.into_inner()? (the tar bytes in   *)
(* memory), then the output is created.                                   *)
\* Mutant: the output is created before the walk has finished.
CreateArchiveOutputEarly ==
  /\ cpc = "walk"
  /\ CreateGzOutput
  /\ UNCHANGED <<input, output, mode, walk, archive, reported, faults, envOps, touched>>

CreateArchiveOutput ==
  /\ cpc = "walk" /\ walk = <<>>
  /\ CreateGzOutput
  /\ UNCHANGED <<input, output, mode, walk, archive, reported, faults, envOps, touched>>

(* compress_dir: encoder.write_all(&tar_bytes)?, then the encoder is      *)
(* dropped at the end of the function.                                    *)
WriteArchiveOutput ==
  /\ cpc = "write" /\ mode = "dir"
  /\ WriteGz(Tar(archive), "drop")
  /\ UNCHANGED <<input, output, mode, walk, archive, reported, envOps, touched>>

(* compress_file: fs::metadata(output)?.len() for the completion message, *)
(* taken while the encoder still holds its unwritten tail.                *)
ReportSize ==
  /\ cpc = "report"
  /\ reported' = ContentOf(fs, output)
  /\ cpc' = "drop"
  /\ UNCHANGED <<input, output, fs, mode, walk, archive, cresult, faults, envOps, touched>>

(* End of scope: the GzEncoder is dropped, its Drop writes the trailer     *)
(* and discards a write error; the function returns Ok(()).               *)
DropEncoder ==
  /\ cpc = "drop"
  /\ \/ /\ fs' = WriteFile(fs, output, Gz(ContentOf(fs, output).payload, TRUE))
        /\ UNCHANGED faults
     \/ /\ faults > 0
        /\ faults' = faults - 1
        /\ UNCHANGED fs
  /\ cpc' = "done"
  /\ cresult' = "ok"
  /\ UNCHANGED <<input, output, mode, walk, archive, reported, envOps, touched>>

VisitEntry ==
  /\ cpc = "walk"
  /\ walk # <<>>
  /\ IF IsFile(fs, Head(walk))
       THEN cpc' = "append" /\ UNCHANGED walk
       ELSE walk' = Tail(walk) /\ UNCHANGED cpc
  /\ UNCHANGED <<input, output, fs, mode, archive, reported, cresult, faults, envOps, touched>>

(* archive.append_file(path.strip_prefix(input).unwrap(),                  *)
(*                     &mut File::open(path)?)?                            *)
(* The file may have gone since is_file(): the open fails and so does the  *)
(* whole compress_dir, before OUTPUT is created.                           *)
\* Mutant: the entry is stored under its full path, not stripped of INPUT.
AppendEntryFullPath ==
  /\ cpc = "append"
  /\ LET e == Head(walk) IN
       IF Exists(fs, e)
         THEN /\ archive' = Append(archive, TarEntry(e, ContentOf(fs, e)))
              /\ walk' = Tail(walk)
              /\ cpc' = "walk"
              /\ UNCHANGED cresult
         ELSE Fail /\ UNCHANGED <<archive, walk>>
  /\ UNCHANGED <<input, output, fs, mode, reported, faults, envOps, touched>>

AppendEntry ==
  /\ cpc = "append"
  /\ LET e == Head(walk) IN
       IF Exists(fs, e)
         THEN /\ archive' = Append(archive, TarEntry(StripPrefix(e, input), ContentOf(fs, e)))
              /\ walk' = Tail(walk)
              /\ cpc' = "walk"
              /\ UNCHANGED cresult
         ELSE Fail /\ UNCHANGED <<archive, walk>>
  /\ UNCHANGED <<input, output, fs, mode, reported, faults, envOps, touched>>

-----------------------------------------------------------------------------
(* Another process deletes or rewrites a regular file below INPUT, or     *)
(* removes a subdirectory with everything in it, while INPUT is walked.    *)
(* A removed directory's entries are then no files: VisitEntry skips them, *)
(* as filter_map(|e| e.ok()) drops the walk's errors, and a file of it     *)
(* already accepted by is_file() fails to open.                            *)
EnvFiles == { p \in Below(fs, input) : fs[p].type = "file" }

EnvDelete ==
  /\ cpc \in {"walk", "append"} /\ envOps > 0
  /\ \E p \in EnvFiles :
       /\ fs' = [q \in DOMAIN fs \ {p} |-> fs[q]]
       /\ touched' = touched \cup {p}
  /\ envOps' = envOps - 1
  /\ UNCHANGED <<input, output, cpc, mode, walk, archive, reported, cresult, faults>>

EnvRewrite ==
  /\ cpc \in {"walk", "append"} /\ envOps > 0
  /\ \E p \in EnvFiles, d \in Data :
       /\ fs[p].data # Raw(d)
       /\ fs' = [fs EXCEPT ![p] = FileNode(Raw(d))]
       /\ touched' = touched \cup {p}
  /\ envOps' = envOps - 1
  /\ UNCHANGED <<input, output, cpc, mode, walk, archive, reported, cresult, faults>>

EnvRemoveDir ==
  /\ cpc \in {"walk", "append"} /\ envOps > 0
  /\ \E d \in Below(fs, input) :
       /\ fs[d].type = "dir"
       /\ fs' = [q \in DOMAIN fs \ ({d} \cup Below(fs, d)) |-> fs[q]]
       /\ touched' = touched \cup {d} \cup Below(fs, d)
  /\ envOps' = envOps - 1
  /\ UNCHANGED <<input, output, cpc, mode, walk, archive, reported, cresult, faults>>

-----------------------------------------------------------------------------
CInit ==
  /\ input \in Inputs
  /\ output \in Outputs
  /\ fs = FS0
  /\ cpc = "start"
  /\ mode = "none"
  /\ walk = <<>>
  /\ archive = <<>>
  /\ reported = Empty
  /\ cresult = "none"
  /\ faults = MaxFaults
  /\ envOps = MaxEnvOps
  /\ touched = {}

CStep ==
  \/ Classify \/ OpenInput \/ CreateFileOutput \/ WriteFileOutput \/ ReportSize
  \/ CreateArchiveOutput \/ WriteArchiveOutput \/ DropEncoder \/ VisitEntry \/ AppendEntry

CEnv == EnvDelete \/ EnvRewrite \/ EnvRemoveDir

CNext == CStep \/ CEnv

CSpec == CInit /\ [][CNext]_cvars /\ WF_cvars(CStep)

(* The refinement mapping: where compress_path is, in the states of the   *)
(* spec's state machine.                                                  *)
AbsState ==
  CASE cpc = "start"             -> "Start"
    [] cpc \in {"walk", "append"} -> "Archiving"
    [] cpc = "done"              -> IF cresult = "ok" THEN "Complete" ELSE "Failed"
    [] OTHER                     -> "Streaming"

CS == INSTANCE CompressSpec WITH astate <- AbsState

(* compress_path implements the spec's compress contract: it classifies   *)
(* once, archives each file below a directory input once under its        *)
(* relative path with the contents it had when read, writes only OUTPUT,  *)
(* and ends Complete or Failed (CS!ASpec, with its fairness stated as      *)
(* CS!AEnds).                                                             *)
CompressRefinesSpec == CS!ASafe /\ CS!AEnds

-----------------------------------------------------------------------------
(* Type invariant.                                                         *)
CTypeOK ==
  /\ FsWellFormed(fs)
  /\ cpc \in {"start", "open", "create", "walk", "append", "write", "report", "drop", "done"}
  /\ mode \in {"none", "file", "dir"}
  /\ walk \in Seq(DOMAIN FS0)
  /\ cresult \in {"none", "ok", "err"}
  /\ faults \in 0..MaxFaults /\ envOps \in 0..MaxEnvOps
  /\ touched \subseteq DOMAIN FS0

(* Spec section 7: every error is returned to the caller.  So a compress   *)
(* that returns Ok has written a complete gzip stream, trailer included,  *)
(* to OUTPUT (compress_file and compress_dir end by dropping the encoder). *)
OkMeansCompleteOutput ==
  cresult = "ok" =>
    /\ IsFile(fs, output)
    /\ ContentOf(fs, output).kind = "gz"
    /\ ContentOf(fs, output).complete

(* Spec 3 (ArchiveEntry): entries are emitted depth-first, lexically per   *)
(* directory, so that repeated runs give byte-identical archives: a       *)
(* successful compress_dir archives its files in the order of the lexical  *)
(* walk of INPUT.                                                          *)
LexicalWalk == CHOOSE w \in WalkOrders(FS0, input, TRUE) : TRUE

LexicalPos(r) ==
  CHOOSE i \in 1..Len(LexicalWalk) : StripPrefix(LexicalWalk[i], input) = r

ArchiveIsLexical ==
  (cresult = "ok" /\ mode = "dir") =>
    \A i, j \in 1..Len(archive) :
      i < j => LexicalPos(archive[i].path) < LexicalPos(archive[j].path)

=============================================================================
