----------------------------- MODULE RcompMain -----------------------------
(***************************************************************************)
(* rcomp's main (compressor.rs): clap parses the command line, main reads *)
(* the arguments with typed accessors and calls compress_path or          *)
(* decompress_file, printing an error to stderr if the call fails.  The   *)
(* decompress call is DecompressFile; the compress call is never reached:  *)
(* --level is parsed by value_parser(1..=9), which stores an i64, and main *)
(* reads it as u32, which makes clap panic.  INPUT and OUTPUT are the     *)
(* positional arguments of either subcommand (dinput and doutput).        *)
(***************************************************************************)
EXTENDS FsModel

CONSTANTS DInputs, DOutputs, DFS0

VARIABLES dinput, doutput, fs, dpc, snap, buffered, pending, entries, tailResult,
          written, dresult,
          sub,       \* the subcommand: "compress", "decompress" or none
          mpc,       \* where main is
          exitCode   \* the process's exit status once it has exited

D == INSTANCE DecompressFile

dvars == <<dinput, doutput, fs, dpc, snap, buffered, pending, entries, tailResult, written, dresult>>
mvars == <<sub, mpc, exitCode>>
vars  == <<dvars, mvars>>

NoExit == -1

(* clap: the type the value parser of --level stores, and the type main   *)
(* asks get_one for.                                                      *)
LevelStored == "i64"
LevelWanted == "u32"

(* A process that panics exits with status 101.                           *)
PanicStatus == 101

(* get_matches() has accepted the command line: a subcommand with its two *)
(* paths (and a --level in 1..=9, default 6), or no subcommand at all.    *)
MInit ==
  /\ D!DInit
  /\ sub \in {"compress", "decompress", "none"}
  /\ mpc = "start"
  /\ exitCode = NoExit

(* The if / else-if on subcommand_matches.                                 *)
Dispatch ==
  /\ mpc = "start"
  /\ CASE sub = "compress" ->
            IF LevelStored = LevelWanted
              THEN mpc' = "compress" /\ UNCHANGED exitCode
              ELSE mpc' = "exited" /\ exitCode' = PanicStatus
       [] sub = "decompress" -> mpc' = "decompress" /\ UNCHANGED exitCode
       [] OTHER -> mpc' = "exited" /\ exitCode' = 0
  /\ UNCHANGED <<dvars, sub>>

(* decompress_file(input, output) runs.                                    *)
RunDecompress == mpc = "decompress" /\ D!DNext /\ UNCHANGED mvars

(* The call returned: an Err is printed with eprintln! and main returns   *)
(* (), so the process exits with status 0 either way.                     *)
Return ==
  /\ mpc = "decompress" /\ dpc = "done"
  /\ mpc' = "exited" /\ exitCode' = 0
  /\ UNCHANGED <<dvars, sub>>

MNext == Dispatch \/ RunDecompress \/ Return

MSpec == MInit /\ [][MNext]_vars /\ WF_vars(MNext)

-----------------------------------------------------------------------------
(* The help of `rcomp decompress` names its OUTPUT argument "Output       *)
(* directory" (compressor.rs:53): a decompress that returns Ok leaves a   *)
(* directory at OUTPUT.                                                   *)
DecompressWritesDirectory ==
  (sub = "decompress" /\ dpc = "done" /\ dresult = "ok") => IsDir(fs, doutput)

(* Spec 3: the compression level is validated before use, and a level    *)
(* clap accepted is used; `rcomp compress` does not crash.                *)
NoPanic == exitCode # PanicStatus

=============================================================================
