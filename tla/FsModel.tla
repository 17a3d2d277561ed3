------------------------------ MODULE FsModel ------------------------------
(***************************************************************************)
(* The filesystem and the byte formats that compressor.rs reads and        *)
(* writes, as operators over a filesystem value (no variables).            *)
(*                                                                         *)
(* A path is a sequence of components relative to the working directory   *)
(* (the empty sequence, which always exists).  The filesystem is a        *)
(* function from the paths that exist to nodes: a directory, a regular    *)
(* file with its contents, or a symbolic link with its target.            *)
(*                                                                         *)
(* File contents are abstract: a raw payload (a model value), the empty   *)
(* file, a gzip stream of some payload (complete once its trailer is      *)
(* written), a tar stream (a sequence of entries), or torn bytes that no  *)
(* decoder accepts.                                                        *)
(***************************************************************************)
EXTENDS Naturals, Sequences, SequencesExt, Functions, TLC

Dir        == [type |-> "dir"]
FileNode(c) == [type |-> "file", data |-> c]
Link(t)    == [type |-> "link", target |-> t]

Raw(d)     == [kind |-> "raw", v |-> d]
Empty      == [kind |-> "empty"]
Torn       == [kind |-> "torn"]
Gz(p, fin) == [kind |-> "gz", payload |-> p, complete |-> fin]
Tar(es)    == [kind |-> "tar", entries |-> es]
TarEntry(p, c) == [path |-> p, data |-> c]

Parent(p) == SubSeq(p, 1, Len(p) - 1)

(* Path::is_file / is_dir / File::open follow a symbolic link.  Link      *)
(* targets in the models are never links themselves, so one step is      *)
(* the whole resolution.                                                  *)
Resolve(fs, p) ==
  IF p \in DOMAIN fs /\ fs[p].type = "link" THEN fs[p].target ELSE p

Exists(fs, p) == p = <<>> \/ Resolve(fs, p) \in DOMAIN fs

IsDir(fs, p)  == p = <<>> \/ (Exists(fs, p) /\ fs[Resolve(fs, p)].type = "dir")

IsFile(fs, p) == p # <<>> /\ Exists(fs, p) /\ fs[Resolve(fs, p)].type = "file"

ContentOf(fs, p) == fs[Resolve(fs, p)].data

(* Every path that exists sits in a directory that exists.               *)
FsWellFormed(fs) ==
  \A p \in DOMAIN fs : Parent(p) = <<>> \/ (Parent(p) \in DOMAIN fs /\ fs[Parent(p)].type = "dir")

(* File::create(p): follows a link at p, fails when the parent directory  *)
(* is missing or the target is a directory, otherwise creates the file or *)
(* truncates the existing one in place.                                   *)
\* Mutant: the parent directory is not required.
CanCreateNoParent(fs, p) == ~IsDir(fs, p)

CanCreate(fs, p) == IsDir(fs, Parent(p)) /\ ~IsDir(fs, p)

CreateFile(fs, p) == (Resolve(fs, p) :> FileNode(Empty)) @@ fs

WriteFile(fs, p, c) == [fs EXCEPT ![Resolve(fs, p)] = FileNode(c)]

(* fs::create_dir_all(p): fails when some prefix of p is not a directory, *)
(* otherwise creates every missing prefix.                                *)
Prefixes1(p) == { SubSeq(p, 1, i) : i \in 1..Len(p) }

CanCreateDirAll(fs, p) == \A q \in Prefixes1(p) : ~Exists(fs, q) \/ IsDir(fs, q)

CreateDirAll(fs, p) == fs @@ [q \in Prefixes1(p) \ DOMAIN fs |-> Dir]

(* The entries directly inside directory d, and the paths below d.        *)
Children(fs, d) == { p \in DOMAIN fs : Len(p) = Len(d) + 1 /\ Parent(p) = d }

Below(fs, d) == { p \in DOMAIN fs : Len(p) > Len(d) /\ IsPrefix(d, p) }

(* Path::strip_prefix(root).unwrap() for a path known to be below root.   *)
StripPrefix(p, root) == SubSeq(p, Len(root) + 1, Len(p))

(* Lexical normalisation of a path: "." is dropped and ".." removes the   *)
(* preceding component (or is kept when there is none, i.e. the path     *)
(* climbs above the working directory).                                   *)
RECURSIVE NormalizeFrom(_, _)
NormalizeFrom(acc, p) ==
  IF p = <<>> THEN acc
  ELSE LET c == Head(p) IN
       IF c = "." THEN NormalizeFrom(acc, Tail(p))
       ELSE IF c = ".." /\ acc # <<>> /\ Last(acc) # ".."
            THEN NormalizeFrom(Front(acc), Tail(p))
            ELSE NormalizeFrom(Append(acc, c), Tail(p))

Normalize(p) == NormalizeFrom(<<>>, p)

IsInside(p, root) == IsPrefix(root, Normalize(p))

=============================================================================
