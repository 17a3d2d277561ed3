---------------------------- MODULE CompressSpec ----------------------------
(***************************************************************************)
(* What one compress invocation promises (spec sections 4.1, 4.3 and the   *)
(* state machine of section 4): INPUT is classified once; a directory is  *)
(* archived entry by entry, each entry a file below INPUT stored under    *)
(* its path relative to INPUT with the contents it has when it is read;  *)
(* then one compressed stream is written to OUTPUT; the run ends Complete *)
(* or Failed and stays there.  The only file the invocation changes is    *)
(* OUTPUT.  While a directory is archived, other processes may change    *)
(* files below it.                                                        *)
(***************************************************************************)
EXTENDS FsModel

CONSTANTS Inputs, Outputs, FS0

VARIABLES
  input, output,  \* the two arguments
  fs,             \* the filesystem
  astate,         \* "Start", "Archiving", "Streaming", "Complete" or "Failed"
  archive         \* the entries archived so far

avars == <<input, output, fs, astate, archive>>

(* The step changes no path of the filesystem outside S.                  *)
FsSameExcept(f, g, S) ==
  /\ DOMAIN f \ S = DOMAIN g \ S
  /\ \A q \in DOMAIN f \ S : g[q] = f[q]

OnlyOutputChanges ==
  LET old == fs
      new == fs'
  IN  FsSameExcept(old, new, {Resolve(old, output)})

ArchivedPaths == { archive[i].path : i \in 1..Len(archive) }

AInit ==
  /\ input \in Inputs /\ output \in Outputs /\ fs = FS0
  /\ astate = "Start" /\ archive = <<>>

(* 4.1: classification happens once and picks the whole strategy.        *)
AClassify ==
  /\ astate = "Start"
  /\ astate' = IF IsDir(fs, input) THEN "Archiving" ELSE "Streaming"
  /\ UNCHANGED <<input, output, fs, archive>>

(* 4.3: one more file below INPUT, not archived yet, is appended with its *)
(* relative path and its current contents.                                *)
AAddEntry ==
  /\ astate = "Archiving"
  /\ \E p \in Below(fs, input) :
       /\ IsFile(fs, p)
       /\ StripPrefix(p, input) \notin ArchivedPaths
       /\ archive' = Append(archive, TarEntry(StripPrefix(p, input), ContentOf(fs, p)))
  /\ UNCHANGED <<input, output, fs, astate>>

(* The archive is complete, every file below INPUT in it; it becomes the  *)
(* byte source of the stream.                                              *)
AStream ==
  /\ astate = "Archiving"
  /\ \A p \in Below(fs, input) : IsFile(fs, p) => StripPrefix(p, input) \in ArchivedPaths
  /\ astate' = "Streaming"
  /\ OnlyOutputChanges
  /\ UNCHANGED <<input, output, archive>>

(* Compressed bytes reach OUTPUT.                                          *)
AWrite ==
  /\ astate = "Streaming"
  /\ OnlyOutputChanges
  /\ UNCHANGED <<input, output, astate, archive>>

AComplete ==
  /\ astate = "Streaming"
  /\ astate' = "Complete"
  /\ OnlyOutputChanges
  /\ UNCHANGED <<input, output, archive>>

(* Any state but the final ones may fail; there is no retry.              *)
AFail ==
  /\ astate \in {"Start", "Archiving", "Streaming"}
  /\ astate' = "Failed"
  /\ OnlyOutputChanges
  /\ UNCHANGED <<input, output, archive>>

(* Another process changes or deletes files, or removes directories,     *)
(* below INPUT while it is archived; it creates nothing.  What it removes  *)
(* is skipped, the spec's policy for entries that error in the traversal. *)
AEnv ==
  /\ astate = "Archiving"
  /\ LET old == fs
        new == fs'
    IN  /\ DOMAIN new \subseteq DOMAIN old
        /\ FsSameExcept(old, new, Below(old, input))
  /\ UNCHANGED <<input, output, astate, archive>>

AProgress == AClassify \/ AAddEntry \/ AStream \/ AWrite \/ AComplete \/ AFail

ANext == AProgress \/ AEnv

Final == {"Complete", "Failed"}

ASafe == AInit /\ [][ANext]_avars

(* The invocation ends: it keeps taking its own steps.                    *)
ASpec == ASafe /\ WF_avars(AComplete \/ AFail)

(* AFail is enabled in every state outside Final and no step leaves       *)
(* Final, so under ASafe the fairness of ASpec says exactly this.         *)
AEnds == <>(astate \in Final)

=============================================================================
