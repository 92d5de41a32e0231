-------------------------------- MODULE Setup --------------------------------
(***************************************************************************)
(* The installer of the CLI driver (installer/setup.go), run again and     *)
(* again by a user: it looks for a driver, downloads an archive, and       *)
(* unpacks it into the directory clidriver.  Files outlive a run, whether  *)
(* it ends, fails half-way or is killed.                                   *)
(*                                                                         *)
(* A file is the version it was unpacked from and whether it is all there. *)
(* Of the driver's files three kinds matter: include/sqlcli.h and the      *)
(* directory lib, which the installer looks for, and the libraries in lib. *)
(***************************************************************************)
EXTENDS Integers, FiniteSets

CONSTANTS Platforms,   \* the platforms considered, a subset of AllPlatforms
          Versions,    \* versions a server may offer; a later one is longer
          MaxFaults    \* bound: faults of the network, the disk and the user

ASSUME SetupAssumption == Versions \subseteq Nat \ {0} /\ MaxFaults \in Nat

VARIABLES platform,    \* where setup runs
          elsewhere,   \* is a working driver installed in another directory?
          custom,      \* is IBM_DB_DOWNLOAD_URL set?
          dir,         \* the directory clidriver: [Entries -> FileState]
          archive,     \* the downloaded file
          tarball,     \* AIX: what gunzip made of it
          pc,          \* where main is, "idle" when it does not run
          todo,        \* entries still to unpack
          exit,        \* exit code of the last run, -1 if it was killed
          faults,      \* faults so far
          flaws        \* history: what befell the files in dir

vars == <<platform, elsewhere, custom, dir, archive, tarball, pc, todo, exit, faults, flaws>>

\* unpackageType, and whether the tables of main have a file for it.
AllPlatforms == {[unpack |-> "zip", named |-> TRUE],      \* Windows
                 [unpack |-> "tar", named |-> TRUE],      \* Linux, macOS, SunOS
                 [unpack |-> "tar", named |-> FALSE],     \* Linux on ARM
                 [unpack |-> "aix", named |-> TRUE],
                 [unpack |-> "none", named |-> FALSE]}    \* unsupported

Entries == {"sqlcli.h", "lib", "library"}
Absent == [ver |-> 0, part |-> "absent"]
FileState == [ver : Versions, part : {"whole", "cut", "tail"}] \cup {Absent}
Whole(v) == [ver |-> v, part |-> "whole"]
Empty == [e \in Entries |-> Absent]
Codes == -1 .. 5

Init == /\ platform \in Platforms
        /\ elsewhere \in BOOLEAN /\ custom \in BOOLEAN
        /\ dir = Empty /\ archive = Absent /\ tarball = Absent
        /\ pc = "idle" /\ todo = {} /\ exit = -1
        /\ faults = 0 /\ flaws = {}

------------------------------------------------------------------------------
Present(d) == {e \in Entries : d[e] /= Absent}
Fault == faults < MaxFaults /\ faults' = faults + 1

\* Fault variants: lib is not looked for; any directory is taken for a driver.
checkIncludeDirHeader(d) == "sqlcli.h" \in Present(d)
checkIncludeDirAny(d) == Present(d) /= {}

checkIncludeDir(d) == {"sqlcli.h", "lib"} \subseteq Present(d)

Exits(code) == pc' = "idle" /\ exit' = code /\ todo' = {}

\* db2cli validate or IBM_DB_HOME lead to a driver in another directory.
SkipElsewhere ==
  /\ pc = "idle" /\ elsewhere
  /\ Exits(1)
  /\ UNCHANGED <<platform, elsewhere, custom, dir, archive, tarball, faults, flaws>>

SkipExisting ==
  /\ pc = "idle" /\ ~elsewhere
  /\ checkIncludeDir(dir)
  /\ Exits(2)
  /\ UNCHANGED <<platform, elsewhere, custom, dir, archive, tarball, faults, flaws>>

\* Fault variant: a directory that is no driver is left as it is.
RemoveExistingNot == UNCHANGED <<dir, flaws, faults>>

\* os.RemoveAll of a directory that is no driver.  When it fails, files that
\* are in use are left, and main goes on.
RemoveExisting ==
  \/ /\ dir' = Empty /\ flaws' = {}
     /\ UNCHANGED faults
  \/ /\ Fault
     /\ \E left \in SUBSET Present(dir) \ {{}} :
          dir' = [e \in Entries |-> IF e \in left THEN dir[e] ELSE Absent]
     /\ flaws' = flaws \cup {"unremoved"}

Start ==
  /\ pc = "idle" /\ ~elsewhere /\ ~checkIncludeDir(dir)
  /\ RemoveExisting
  /\ IF platform.unpack = "none" THEN Exits(3)
     ELSE pc' = "primary" /\ UNCHANGED <<todo, exit>>
  /\ UNCHANGED <<platform, elsewhere, custom, archive, tarball>>

\* downloadFile: os.Create empties the file of an earlier run, and a copy
\* that breaks off leaves a part.
Downloaded ==
  /\ platform.named
  /\ \E v \in Versions : archive' = Whole(v)
  /\ UNCHANGED faults

DownloadFailed ==
  \/ /\ ~platform.named              \* "../../" is a directory
     /\ UNCHANGED <<archive, faults>>
  \/ /\ platform.named /\ Fault
     /\ \/ UNCHANGED archive         \* no connection, or not HTTP 200
        \/ \E v \in Versions : archive' = [ver |-> v, part |-> "cut"]

\* Where unpacking begins.
FirstStep == IF platform.unpack = "aix" THEN "gunzip" ELSE "unpack"

PrimaryDownload ==
  /\ pc = "primary"
  /\ \/ Downloaded /\ pc' = FirstStep /\ todo' = Entries /\ UNCHANGED exit
     \/ DownloadFailed /\ custom /\ Exits(5)
     \/ DownloadFailed /\ ~custom /\ pc' = "fallback" /\ UNCHANGED <<todo, exit>>
  /\ UNCHANGED <<platform, elsewhere, custom, dir, tarball, flaws>>

FallbackDownload ==
  /\ pc = "fallback"
  /\ \/ Downloaded /\ pc' = FirstStep /\ todo' = Entries /\ UNCHANGED exit
     \/ DownloadFailed /\ Exits(4)
  /\ UNCHANGED <<platform, elsewhere, custom, dir, tarball, flaws>>

\* aix_untar: gunzip replaces the archive by the tar file, but not one that
\* an earlier run has left; main does not look at the error.
gunzip ==
  /\ pc = "gunzip"
  /\ IF tarball = Absent
     THEN /\ tarball' = archive /\ archive' = Absent
          /\ pc' = "unpack"
          /\ UNCHANGED <<todo, exit, flaws>>
     ELSE /\ Exits(0)
          /\ flaws' = flaws \cup {"untold"}
          /\ UNCHANGED <<archive, tarball>>
  /\ UNCHANGED <<platform, elsewhere, custom, dir, faults>>

Source == IF platform.unpack = "aix" THEN tarball ELSE archive

\* Unzipping writes over a longer file without truncating it; tar replaces it.
Written(old) ==
  IF platform.unpack = "zip" /\ old.ver > Source.ver
    THEN [ver |-> Source.ver, part |-> "tail"] ELSE Whole(Source.ver)

UnpackEntry ==
  /\ pc = "unpack"
  /\ \E e \in todo :
       /\ e = "library" => "lib" \notin todo
       /\ todo' = todo \ {e}
       /\ dir' = [dir EXCEPT ![e] = IF e = "lib" THEN Whole(Source.ver) ELSE Written(@)]
  /\ UNCHANGED <<platform, elsewhere, custom, archive, tarball, pc, exit, faults, flaws>>

UnpackDone ==
  /\ pc = "unpack" /\ todo = {}
  /\ Exits(0)
  /\ UNCHANGED <<platform, elsewhere, custom, dir, archive, tarball, faults, flaws>>

\* Unpacking stops in the middle of a file, or before it.
Interrupted ==
  /\ \/ dir' = dir
     \/ \E e \in todo \ {"lib"} :
          dir' = [dir EXCEPT ![e] = [ver |-> Source.ver, part |-> "cut"]]
  /\ flaws' = flaws \cup {"cut"}

\* The disk is full, or a file cannot be opened: Unzipping ends the program,
\* the error of tar is dropped.
UnpackFails ==
  /\ pc = "unpack" /\ todo /= {} /\ Fault
  /\ Interrupted
  /\ Exits(IF platform.unpack = "zip" THEN 1 ELSE 0)
  /\ UNCHANGED <<platform, elsewhere, custom, archive, tarball>>

\* The user kills setup, or the machine goes down.
Kill ==
  /\ pc /= "idle" /\ Fault
  /\ Exits(-1)
  /\ IF pc = "unpack" THEN Interrupted ELSE UNCHANGED <<dir, flaws>>
  /\ IF pc \in {"primary", "fallback"} /\ platform.named
     THEN \/ UNCHANGED archive
          \/ \E v \in Versions : archive' = [ver |-> v, part |-> "cut"]
     ELSE UNCHANGED archive
  /\ UNCHANGED <<platform, elsewhere, custom, tarball>>

Run == \/ SkipElsewhere \/ SkipExisting \/ Start
       \/ PrimaryDownload \/ FallbackDownload
       \/ gunzip \/ UnpackEntry \/ UnpackDone

Next == Run \/ UnpackFails \/ Kill

\* The user runs setup again when it has ended, and a run goes on.
Spec == Init /\ [][Next]_vars /\ WF_vars(Run)

------------------------------------------------------------------------------
Complete == \E v \in Versions : \A e \in Entries : dir[e] = Whole(v)

\* The variables have their types.
TypeOK ==
  /\ platform \in AllPlatforms /\ elsewhere \in BOOLEAN /\ custom \in BOOLEAN
  /\ dir \in [Entries -> FileState] /\ archive \in FileState /\ tarball \in FileState
  /\ pc \in {"idle", "primary", "fallback", "gunzip", "unpack"}
  /\ todo \subseteq Entries /\ exit \in Codes /\ faults \in 0 .. MaxFaults
  /\ flaws \subseteq {"unremoved", "untold", "cut"}

\* What is left of a driver, with files missing, cut or mixed, that has all
\* the installer looks for.
LooksComplete == {"sqlcli.h", "lib"} \subseteq Present(dir) /\ flaws /= {}

\* Whatever earlier runs left, when setup skips the download (exit code 2)
\* there is a complete driver of one version; except that it takes for one
\* what an interrupted unpacking or a failed removal has left since the
\* directory was last removed.
SkipMeansComplete == exit = 2 /\ pc = "idle" => Complete \/ LooksComplete

\* When setup reports success (exit code 0) it has installed a complete
\* driver of one version; except that it does not tell when tar or gunzip
\* fail, and that Unzipping mixes files when the old directory could not be
\* removed.
SuccessMeansInstalled ==
  exit = 0 /\ pc = "idle" =>
    Complete \/ IF platform.unpack = "zip" THEN "unremoved" \in flaws
                                          ELSE flaws \cap {"cut", "untold"} /= {}

\* Run often enough, setup leaves a complete driver for good: whatever failed
\* or was cut off, a later run makes up for it.  Except that it never repairs
\* a directory that it takes for a driver, nor gets past a tar file that an
\* earlier run has left on AIX.
RetryHeals ==
  <>[](\/ Complete \/ elsewhere \/ ~platform.named \/ LooksComplete
       \/ tarball /= Absent)
==============================================================================
