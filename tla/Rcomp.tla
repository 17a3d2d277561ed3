------------------------------- MODULE Rcomp -------------------------------
(***************************************************************************)
(* The rcomp tool used as its spec intends: `rcomp compress INPUT OUT`,    *)
(* and when that succeeds, `rcomp decompress OUT DEST`.  The two runs      *)
(* share only the filesystem; another process may change files below      *)
(* INPUT while it is being walked.  The properties are the round trips of *)
(* spec section 8.  The compress process may also be killed from outside  *)
(* (spec 5), and the user then decompresses whatever it left behind.      *)
(***************************************************************************)
EXTENDS FsModel

CONSTANTS Inputs, Outputs, FS0, Data, NameOrder, MaxFaults, MaxEnvOps,
          DOutputs    \* the DEST paths the decompress run may be given

VARIABLES input, output, fs, cpc, mode, walk, archive, reported, cresult,
          faults, envOps, touched,
          dinput, doutput, dpc, snap, buffered, pending, entries, tailResult,
          written, dresult,
          phase       \* "compress", "killed" maybe, then "decompress"

C == INSTANCE CompressPath
D == INSTANCE DecompressFile WITH DInputs <- Outputs, DFS0 <- FS0

onlyC == <<input, output, cpc, mode, walk, archive, reported, cresult, faults, envOps, touched>>
onlyD == <<dinput, doutput, dpc, snap, buffered, pending, entries, tailResult, written, dresult>>
vars  == <<onlyC, onlyD, fs, phase>>

Init ==
  /\ C!CInit
  /\ phase = "compress"
  /\ dinput = <<>> /\ doutput = <<>> /\ dpc = "start" /\ snap = Empty
  /\ buffered = FALSE /\ pending = <<>> /\ entries = <<>> /\ tailResult = "ok"
  /\ written = {} /\ dresult = "none"

CompressStep == phase = "compress" /\ C!CStep /\ UNCHANGED <<onlyD, phase>>

EnvStep == phase = "compress" /\ C!CEnv /\ UNCHANGED <<onlyD, phase>>

(* Spec 5: the only way to stop a run is external termination, which may  *)
(* leave a partly written output.  The process ends between two of its   *)
(* steps; nothing of it runs afterwards and nothing is cleaned up.        *)
Kill ==
  /\ phase = "compress" /\ cpc # "done"
  /\ phase' = "killed"
  /\ UNCHANGED <<onlyC, onlyD, fs>>

(* The user decompresses the file a successful compress wrote, or the     *)
(* output path of one that was killed.                                   *)
StartDecompress ==
  /\ \/ phase = "compress" /\ cpc = "done" /\ cresult = "ok"
     \/ phase = "killed"
  /\ phase' = "decompress"
  /\ dinput' = output
  /\ doutput' \in DOutputs
  /\ UNCHANGED <<onlyC, fs, dpc, snap, buffered, pending, entries, tailResult, written, dresult>>

DecompressStep == phase = "decompress" /\ D!DNext /\ UNCHANGED <<onlyC, phase>>

Next == CompressStep \/ EnvStep \/ Kill \/ StartDecompress \/ DecompressStep

Spec == Init /\ [][Next]_vars
        /\ WF_vars(CompressStep) /\ WF_vars(StartDecompress) /\ WF_vars(DecompressStep)

-----------------------------------------------------------------------------
(* Where a source path below INPUT comes back under DEST.                  *)
Restored(p) == doutput \o StripPrefix(p, input)

(* A decompress that returned Ok, of a complete output or of what a      *)
(* killed compress left: the round trips below hold for both, so a       *)
(* partial output never extracts Ok into a partial or wrong tree.         *)
RoundTripDone == phase = "decompress" /\ dpc = "done" /\ dresult = "ok"

(* Spec 8: decompress(compress(F, L)) == F.  Compressing a file and        *)
(* gunzipping the result gives back the file's contents as they were.     *)
RoundTripFile ==
  (RoundTripDone /\ mode = "file" /\ ~D!IsTarGzName(output))
    => ContentOf(fs, doutput) = ContentOf(FS0, input)

(* Spec 8: extract(compress_dir(D)) reproduces the files below D.  Every   *)
(* path below INPUT that path.is_file() accepts (links to files included) *)
(* and whose file no other process changed (through the link or not)      *)
(* comes back with its contents, and nothing else is written.             *)
RoundTripDir ==
  (RoundTripDone /\ mode = "dir" /\ D!IsTarGzName(output)) =>
    /\ \A p \in Below(FS0, input) :
         IsFile(FS0, p) /\ Resolve(FS0, p) \notin touched => Restored(p) \in DOMAIN fs /\ fs[Restored(p)].data = ContentOf(FS0, p)
    /\ \A w \in written : \E p \in Below(FS0, input) : IsFile(FS0, p) /\ w = Restored(p)

(* Spec 4.3: symlinks are skipped when archiving; only regular files are  *)
(* restored.                                                               *)
RoundTripRegularFilesOnly ==
  (RoundTripDone /\ mode = "dir" /\ D!IsTarGzName(output)) =>
    \A w \in written : \E p \in Below(FS0, input) : FS0[p].type = "file" /\ w = Restored(p)

=============================================================================
