--------------------------- MODULE DecompressFile ---------------------------
(***************************************************************************)
(* One run of `rcomp decompress INPUT OUTPUT` (compressor.rs,              *)
(* decompress_file).  The format is chosen from INPUT's name alone: a name *)
(* ending in ".tar.gz" or ".tgz" is unpacked as a tar archive into the     *)
(* directory OUTPUT, any other name is gunzipped into the file OUTPUT.     *)
(* Entries are written one by one as the stream is decoded, so an error    *)
(* part-way leaves the earlier entries in place.  Unpacking follows the   *)
(* tar crate's Archive::unpack: an entry whose path has a ".." component   *)
(* is skipped, a root component is dropped, parent directories are         *)
(* created, and an existing file at the target is replaced.               *)
(***************************************************************************)
EXTENDS FsModel

CONSTANTS
  DInputs,     \* the INPUT paths a run may be given
  DOutputs,    \* the OUTPUT paths a run may be given
  DFS0         \* the filesystem when the run starts

VARIABLES
  dinput,     \* the INPUT argument
  doutput,    \* the OUTPUT argument
  fs,         \* the filesystem
  dpc,        \* where decompress_file is
  snap,       \* INPUT's contents when it was opened
  buffered,   \* GzDecoder::new already buffered all of INPUT
  pending,    \* decoded tar entries not yet unpacked
  entries,    \* every entry of the decoded tar stream (history)
  tailResult, \* how the tar stream ends after the pending entries
  written,    \* paths the unpacking wrote
  dresult     \* "none", "ok" or "err"

dvars == <<dinput, doutput, fs, dpc, snap, buffered, pending, entries, tailResult, written, dresult>>

(* input.ends_with(".tar.gz") || input.ends_with(".tgz") on the path       *)
(* string; the suffixes hold no "/", so only the last component matters.  *)
EndsWith(s, suf) == Len(s) >= Len(suf) /\ SubSeq(s, Len(s) - Len(suf) + 1, Len(s)) = suf

IsTarGzName(p) == p # <<>> /\ (EndsWith(Last(p), ".tar.gz") \/ EndsWith(Last(p), ".tgz"))

(* The bytes GzDecoder reads: its buffer when it holds all of INPUT, else *)
(* INPUT as it is now, which is torn if the file has changed since open.  *)
Stream ==
  IF buffered \/ (IsFile(fs, dinput) /\ ContentOf(fs, dinput) = snap) THEN snap ELSE Torn

(* Entry::unpack_in: the target of an entry under dst, or <<>> when the   *)
(* entry is skipped (a ".." component, or nothing but "/" and "." parts). *)
\* Mutant: ".." components are not refused.
UnpackTargetNoDotDot(dst, p) ==
  LET rel == SelectSeq(p, LAMBDA c : c \notin {"/", "."})
  IN IF rel = <<>> THEN <<>> ELSE dst \o rel

UnpackTarget(dst, p) ==
  IF ".." \in Range(p) THEN <<>>
  ELSE LET rel == SelectSeq(p, LAMBDA c : c \notin {"/", "."})
       IN IF rel = <<>> THEN <<>> ELSE dst \o rel

DFail == dpc' = "done" /\ dresult' = "err"

-----------------------------------------------------------------------------
(* File::open(input)?, metadata, GzDecoder::new (which fills its read      *)
(* buffer), then the suffix test.                                          *)
DOpen ==
  /\ dpc = "start"
  /\ IF IsFile(fs, dinput)
       THEN /\ snap' = ContentOf(fs, dinput)
            /\ buffered' \in BOOLEAN
            /\ dpc' = IF IsTarGzName(dinput) THEN "mkdir" ELSE "create"
            /\ UNCHANGED dresult
       ELSE DFail /\ UNCHANGED <<snap, buffered>>
  /\ UNCHANGED <<dinput, doutput, fs, pending, entries, tailResult, written>>

(* Tar branch: fs::create_dir_all(output)?, then Archive::unpack starts    *)
(* decoding.  A stream that is not gzip fails at once; a gzip stream      *)
(* without its trailer yields some prefix of its entries, then fails, or  *)
(* all of them, and then may also end cleanly: tar stops reading at its   *)
(* end-of-archive blocks, before GzDecoder would look for the trailer; a  *)
(* payload that is not a tar archive ends at once, cleanly when it is     *)
(* empty and otherwise with or without a header error.                    *)
DMkDir ==
  /\ dpc = "mkdir"
  /\ IF CanCreateDirAll(fs, doutput)
       THEN /\ fs' = CreateDirAll(fs, doutput)
            /\ LET s == Stream IN
               IF s.kind # "gz" THEN DFail /\ UNCHANGED <<pending, entries, tailResult>>
               ELSE /\ UNCHANGED dresult
                    /\ dpc' = "unpack"
                    /\ IF s.payload.kind = "tar"
                         THEN LET es == s.payload.entries IN
                              /\ entries' = es
                              /\ IF s.complete
                                   THEN pending' = es /\ tailResult' = "ok"
                                   ELSE \E k \in 0..Len(es) :
                                          /\ pending' = SubSeq(es, 1, k)
                                          /\ tailResult' \in IF k = Len(es) THEN {"ok", "err"} ELSE {"err"}
                         ELSE /\ pending' = <<>> /\ entries' = <<>>
                              /\ tailResult' \in
                                   IF s.payload.kind = "empty" /\ s.complete
                                     THEN {"ok"} ELSE {"ok", "err"}
       ELSE DFail /\ UNCHANGED <<fs, pending, entries, tailResult>>
  /\ UNCHANGED <<dinput, doutput, snap, buffered, written>>

(* One entry of Archive::unpack: create the parent directories, remove    *)
(* what is at the target, write the file.                                 *)
\* Mutant: parent directories of the target are not created.
DUnpackEntryNoParents ==
  /\ dpc = "unpack"
  /\ pending # <<>>
  /\ LET e == Head(pending)
         t == UnpackTarget(doutput, e.path)
     IN IF t = <<>> THEN UNCHANGED <<fs, written, dpc, dresult>>
        ELSE IF ~(t \in DOMAIN fs /\ fs[t].type = "dir")
               THEN /\ fs' = (t :> FileNode(e.data)) @@ fs
                    /\ written' = written \cup {t}
                    /\ UNCHANGED <<dpc, dresult>>
               ELSE DFail /\ UNCHANGED <<fs, written>>
  /\ pending' = Tail(pending)
  /\ UNCHANGED <<dinput, doutput, snap, buffered, entries, tailResult>>

\* Mutant: a skipped entry is not consumed.
DUnpackEntryNoAdvance ==
  /\ dpc = "unpack"
  /\ pending # <<>>
  /\ LET e == Head(pending)
         t == UnpackTarget(doutput, e.path)
     IN IF t = <<>> THEN UNCHANGED <<fs, written, dpc, dresult, pending>>
        ELSE IF CanCreateDirAll(fs, Parent(t)) /\ ~(t \in DOMAIN fs /\ fs[t].type = "dir")
               THEN /\ fs' = (t :> FileNode(e.data)) @@ CreateDirAll(fs, Parent(t))
                    /\ written' = written \cup {t}
                    /\ pending' = Tail(pending)
                    /\ UNCHANGED <<dpc, dresult>>
               ELSE DFail /\ pending' = Tail(pending) /\ UNCHANGED <<fs, written>>
  /\ UNCHANGED <<dinput, doutput, snap, buffered, entries, tailResult>>

DUnpackEntry ==
  /\ dpc = "unpack"
  /\ pending # <<>>
  /\ LET e == Head(pending)
         t == UnpackTarget(doutput, e.path)
     IN IF t = <<>> THEN UNCHANGED <<fs, written, dpc, dresult>>
        ELSE IF CanCreateDirAll(fs, Parent(t)) /\ ~(t \in DOMAIN fs /\ fs[t].type = "dir")
               THEN /\ fs' = (t :> FileNode(e.data)) @@ CreateDirAll(fs, Parent(t))
                    /\ written' = written \cup {t}
                    /\ UNCHANGED <<dpc, dresult>>
               ELSE DFail /\ UNCHANGED <<fs, written>>
  /\ pending' = Tail(pending)
  /\ UNCHANGED <<dinput, doutput, snap, buffered, entries, tailResult>>

(* The decoder reaches the end of what it can read.                        *)
\* Mutant: the error of the stream's end is dropped (`let _ = unpack`).
DUnpackEndIgnoreTail ==
  /\ dpc = "unpack"
  /\ pending = <<>>
  /\ dpc' = "done"
  /\ dresult' = "ok"
  /\ UNCHANGED <<dinput, doutput, fs, snap, buffered, pending, entries, tailResult, written>>

DUnpackEnd ==
  /\ dpc = "unpack"
  /\ pending = <<>>
  /\ dpc' = "done"
  /\ dresult' = tailResult
  /\ UNCHANGED <<dinput, doutput, fs, snap, buffered, pending, entries, tailResult, written>>

(* Plain branch: File::create(output)? - which truncates INPUT itself     *)
(* when OUTPUT names it.                                                   *)
DCreate ==
  /\ dpc = "create"
  /\ IF CanCreate(fs, doutput)
       THEN fs' = CreateFile(fs, doutput) /\ dpc' = "copy" /\ UNCHANGED dresult
       ELSE DFail /\ UNCHANGED fs
  /\ UNCHANGED <<dinput, doutput, snap, buffered, pending, entries, tailResult, written>>

(* io::copy(decoder, output_file)?: a complete stream yields its payload; *)
(* a stream without trailer yields part of it and an error; anything else *)
(* fails on the header, leaving OUTPUT empty.                             *)
\* Mutant: the gzip stream is copied without decoding it.
DCopyNoDecode ==
  /\ dpc = "copy"
  /\ LET s == Stream IN
       IF s.kind = "gz" /\ s.complete
         THEN fs' = WriteFile(fs, doutput, s) /\ dpc' = "done" /\ dresult' = "ok"
       ELSE IF s.kind = "gz"
         THEN fs' = WriteFile(fs, doutput, Torn) /\ DFail
       ELSE DFail /\ UNCHANGED fs
  /\ UNCHANGED <<dinput, doutput, snap, buffered, pending, entries, tailResult, written>>

DCopy ==
  /\ dpc = "copy"
  /\ LET s == Stream IN
       IF s.kind = "gz" /\ s.complete
         THEN fs' = WriteFile(fs, doutput, s.payload) /\ dpc' = "done" /\ dresult' = "ok"
       ELSE IF s.kind = "gz"
         THEN fs' = WriteFile(fs, doutput, Torn) /\ DFail
       ELSE DFail /\ UNCHANGED fs
  /\ UNCHANGED <<dinput, doutput, snap, buffered, pending, entries, tailResult, written>>

-----------------------------------------------------------------------------
DInit ==
  /\ dinput \in DInputs
  /\ doutput \in DOutputs
  /\ fs = DFS0
  /\ dpc = "start"
  /\ snap = Empty
  /\ buffered = FALSE
  /\ pending = <<>>
  /\ entries = <<>>
  /\ tailResult = "ok"
  /\ written = {}
  /\ dresult = "none"

DNext == DOpen \/ DMkDir \/ DUnpackEntry \/ DUnpackEnd \/ DCreate \/ DCopy

DSpec == DInit /\ [][DNext]_dvars /\ WF_dvars(DNext)

-----------------------------------------------------------------------------
(* Type invariant.                                                         *)
DTypeOK ==
  /\ FsWellFormed(fs)
  /\ dpc \in {"start", "mkdir", "unpack", "create", "copy", "done"}
  /\ buffered \in BOOLEAN
  /\ tailResult \in {"ok", "err"}
  /\ dresult \in {"none", "ok", "err"}
  /\ Range(pending) \subseteq Range(entries)
  /\ written \subseteq DOMAIN fs

(* The entries of the archive INPUT held when it was opened, and where    *)
(* Archive::unpack puts each of them.                                     *)
ArchiveEntries == IF snap.kind = "gz" /\ snap.payload.kind = "tar" THEN snap.payload.entries ELSE <<>>

Targets == {UnpackTarget(doutput, e.path) : e \in Range(ArchiveEntries)} \ {<<>>}

(* Spec 4.5: an extraction that returns Ok has unpacked the whole archive, *)
(* even when the stream was cut short (a killed compress, a truncated     *)
(* copy): every entry it does not skip is a file under OUTPUT holding the *)
(* contents of the last entry for that path, and nothing else was         *)
(* written.  A failure part-way may leave any prefix; an Ok may not.      *)
ExtractOkIsComplete ==
  (dpc = "done" /\ dresult = "ok" /\ IsTarGzName(dinput)) =>
    /\ written = Targets
    /\ \A i \in DOMAIN ArchiveEntries :
         LET t == UnpackTarget(doutput, ArchiveEntries[i].path) IN
           (t # <<>> /\ \A j \in i+1..Len(ArchiveEntries) : UnpackTarget(doutput, ArchiveEntries[j].path) # t)
             => IsFile(fs, t) /\ fs[t].data = ArchiveEntries[i].data

(* Spec 4.5 and 8: an entry with a ".." or a root component makes the     *)
(* extraction fail (PathTraversal); it never succeeds.                    *)
TraversalRejected ==
  (dresult = "ok" /\ IsTarGzName(dinput)) =>
    \A e \in Range(entries) : ".." \notin Range(e.path) /\ "/" \notin Range(e.path)

(* Every run of decompress ends.                                           *)
DecompressTerminates == <>(dpc = "done")

=============================================================================
