----------------------------- MODULE SetupProofs -----------------------------
(***************************************************************************)
(* Proofs about Setup, for any platforms, versions and number of faults:   *)
(* what a skipped download and a reported success mean.  That running      *)
(* setup again heals what is left is for TLC.                              *)
(***************************************************************************)
EXTENDS Setup, TLAPS

Downloading == pc \in {"primary", "fallback", "gunzip"}

Types ==
  /\ dir \in [Entries -> FileState] /\ todo \subseteq Entries
  /\ pc \in {"idle", "primary", "fallback", "gunzip", "unpack"}
  /\ flaws \subseteq {"unremoved", "untold", "cut"}

\* A run begins with an empty directory, or notes that it could not.
BeginInv ==
  /\ pc /= "idle" => "unremoved" \in flaws \/ flaws = {}
  /\ Downloading /\ flaws = {} => dir = Empty

\* What was downloaded is whole: a run that was not given all of the archive
\* never gets to unpack it.
SourceInv ==
  /\ pc = "gunzip" => /\ platform.unpack = "aix" /\ todo = Entries
                      /\ \E v \in Versions : archive = Whole(v)
  /\ pc = "unpack" => \E v \in Versions : Source = Whole(v)

\* What was unpacked is whole, unless a longer file was in the way.
UnpackInv ==
  pc = "unpack" =>
    /\ \A e \in Entries \ todo :
         platform.unpack /= "zip" \/ flaws = {} => dir[e] = Whole(Source.ver)
    /\ flaws = {} => \A e \in todo : dir[e] = Absent

IdleInv == pc = "idle" /\ flaws = {} => dir = Empty \/ Complete

\* The inductive invariant.
IInv == /\ Types /\ BeginInv /\ SourceInv /\ UnpackInv /\ IdleInv
        /\ SkipMeansComplete /\ SuccessMeansInstalled

LEMMA WholeVersion ==
  ASSUME NEW v \in Versions
  PROVE  /\ Whole(v) \in FileState /\ Whole(v).ver = v /\ Whole(v) /= Absent
         /\ Whole(v).part = "whole"
  <1>1. v \in Nat \ {0}
    BY SetupAssumption
  <1>2. Whole(v).ver = v /\ Whole(v).part = "whole" /\ Absent.ver = 0
    BY DEF Whole, Absent
  <1>3. Whole(v) /= Absent
    BY <1>1, <1>2
  <1>4. Whole(v) \in FileState
    BY DEF Whole, FileState
  <1> QED BY <1>2, <1>3, <1>4

LEMMA EmptyFacts ==
  /\ Empty \in [Entries -> FileState] /\ Absent \in FileState
  /\ \A e \in Entries : Empty[e] = Absent
  BY DEF Empty, FileState, Absent

\* A directory with all the installer looks for is not empty.
LEMMA LookedFor ==
  ASSUME checkIncludeDir(dir)
  PROVE  dir /= Empty
  <1>1. "sqlcli.h" \in Entries /\ dir["sqlcli.h"] /= Absent
    BY DEF checkIncludeDir, Present
  <1> QED BY <1>1, EmptyFacts

LEMMA SkipKeeps ==
  ASSUME IInv, SkipElsewhere \/ SkipExisting
  PROVE  IInv'
  <1>1. /\ pc = "idle" /\ pc' = "idle" /\ todo' = {}
        /\ UNCHANGED <<platform, dir, archive, tarball, flaws>>
    BY DEF SkipElsewhere, SkipExisting, Exits
  <1>2. exit' = 1 \/ (exit' = 2 /\ checkIncludeDir(dir))
    BY DEF SkipElsewhere, SkipExisting, Exits
  <1>3. Types' /\ BeginInv' /\ SourceInv' /\ UnpackInv' /\ IdleInv'
    BY <1>1 DEF IInv, Types, BeginInv, Downloading, SourceInv, UnpackInv, IdleInv, Complete
  <1>4. SkipMeansComplete'
    <2>1. CASE exit' = 1
      BY <2>1 DEF SkipMeansComplete
    <2>2. CASE exit' = 2 /\ checkIncludeDir(dir)
      <3>1. CASE flaws = {}
        <4>1. Complete
          BY <1>1, <2>2, <3>1, LookedFor DEF IInv, IdleInv
        <4> QED BY <1>1, <4>1 DEF SkipMeansComplete, Complete
      <3>2. CASE flaws /= {}
        BY <1>1, <2>2, <3>2 DEF SkipMeansComplete, LooksComplete, checkIncludeDir
      <3> QED BY <3>1, <3>2
    <2> QED BY <1>2, <2>1, <2>2
  <1>5. SuccessMeansInstalled'
    BY <1>2 DEF SuccessMeansInstalled
  <1> QED BY <1>3, <1>4, <1>5 DEF IInv

\* A run ends without success, and without having unpacked anything, or with
\* a flaw on record.
LEMMA EndKeeps ==
  ASSUME IInv, pc' = "idle", todo' = {}, exit' \in {-1, 1, 3, 4, 5},
         dir' \in [Entries -> FileState], flaws' \subseteq {"unremoved", "untold", "cut"},
         flaws' = {} => dir' = Empty
  PROVE  IInv'
  BY DEF IInv, Types, BeginInv, Downloading, SourceInv, UnpackInv, IdleInv,
         SkipMeansComplete, SuccessMeansInstalled

LEMMA RemoveStep ==
  ASSUME IInv, RemoveExisting
  PROVE  /\ dir' \in [Entries -> FileState] /\ flaws' \subseteq {"unremoved", "untold", "cut"}
         /\ "unremoved" \in flaws' \/ (flaws' = {} /\ dir' = Empty)
  <1>1. CASE dir' = Empty /\ flaws' = {}
    BY <1>1, EmptyFacts
  <1>2. CASE /\ \E left \in SUBSET Present(dir) \ {{}} :
                  dir' = [e \in Entries |-> IF e \in left THEN dir[e] ELSE Absent]
             /\ flaws' = flaws \cup {"unremoved"}
    BY <1>2, EmptyFacts DEF IInv, Types
  <1> QED BY <1>1, <1>2 DEF RemoveExisting

LEMMA StartKeeps ==
  ASSUME IInv, Start
  PROVE  IInv'
  <1>1. /\ dir' \in [Entries -> FileState] /\ flaws' \subseteq {"unremoved", "untold", "cut"}
        /\ "unremoved" \in flaws' \/ (flaws' = {} /\ dir' = Empty)
    BY RemoveStep DEF Start
  <1>2. CASE pc' = "idle" /\ exit' = 3 /\ todo' = {}
    BY <1>1, <1>2, EndKeeps
  <1>3. CASE pc' = "primary" /\ UNCHANGED <<todo, exit>>
    BY <1>1, <1>3 DEF IInv, Types, BeginInv, Downloading, SourceInv, UnpackInv, IdleInv,
                      SkipMeansComplete, SuccessMeansInstalled
  <1> QED BY <1>2, <1>3 DEF Start, Exits

LEMMA DownloadKeeps ==
  ASSUME IInv, PrimaryDownload \/ FallbackDownload
  PROVE  IInv'
  <1>1. /\ pc \in {"primary", "fallback"}
        /\ UNCHANGED <<platform, dir, tarball, flaws>>
    BY DEF PrimaryDownload, FallbackDownload
  <1>2. /\ dir' \in [Entries -> FileState] /\ flaws' \subseteq {"unremoved", "untold", "cut"}
        /\ "unremoved" \in flaws \/ flaws = {}
        /\ flaws = {} => dir = Empty
    BY <1>1 DEF IInv, Types, BeginInv, Downloading
  <1>3. CASE Downloaded /\ pc' = FirstStep /\ todo' = Entries /\ UNCHANGED exit
    <2>1. PICK v \in Versions : archive' = Whole(v)
      BY <1>3 DEF Downloaded
    <2>2. Types' /\ BeginInv' /\ SkipMeansComplete' /\ SuccessMeansInstalled' /\ IdleInv'
      BY <1>1, <1>2, <1>3 DEF Types, BeginInv, FirstStep, Downloading, IdleInv,
                              SkipMeansComplete, SuccessMeansInstalled
    <2>3. SourceInv'
      BY <1>1, <1>3, <2>1 DEF SourceInv, Source, FirstStep
    <2>4. UnpackInv'
      BY <1>1, <1>2, <1>3, EmptyFacts DEF UnpackInv
    <2> QED BY <2>2, <2>3, <2>4 DEF IInv
  <1>4. CASE pc' = "idle" /\ exit' \in {4, 5} /\ todo' = {}
    BY <1>1, <1>2, <1>4, EndKeeps
  <1>5. CASE pc' = "fallback" /\ UNCHANGED <<todo, exit>>
    BY <1>1, <1>2, <1>5 DEF IInv, Types, BeginInv, Downloading, SourceInv, UnpackInv, IdleInv,
                            SkipMeansComplete, SuccessMeansInstalled
  <1> QED BY <1>3, <1>4, <1>5 DEF PrimaryDownload, FallbackDownload, Exits

LEMMA GunzipKeeps ==
  ASSUME IInv, gunzip
  PROVE  IInv'
  <1>1. pc = "gunzip" /\ UNCHANGED <<platform, dir>>
    BY DEF gunzip
  <1>2. /\ dir' \in [Entries -> FileState] /\ todo \subseteq Entries
        /\ flaws \subseteq {"unremoved", "untold", "cut"}
        /\ "unremoved" \in flaws \/ flaws = {}
        /\ flaws = {} => dir = Empty
    BY <1>1 DEF IInv, Types, BeginInv, Downloading
  <1>3. PICK v \in Versions : /\ platform.unpack = "aix" /\ todo = Entries
                                 /\ archive = Whole(v)
    BY <1>1 DEF IInv, SourceInv
  <1>4. CASE /\ tarball' = archive /\ pc' = "unpack" /\ UNCHANGED <<todo, exit, flaws>>
    <2>1. Types' /\ BeginInv' /\ SkipMeansComplete' /\ SuccessMeansInstalled' /\ IdleInv'
      BY <1>1, <1>2, <1>4 DEF Types, BeginInv, Downloading, IdleInv,
                              SkipMeansComplete, SuccessMeansInstalled
    <2>2. SourceInv'
      BY <1>1, <1>3, <1>4 DEF SourceInv, Source
    <2>3. UnpackInv'
      BY <1>1, <1>2, <1>3, <1>4, EmptyFacts DEF UnpackInv
    <2> QED BY <2>1, <2>2, <2>3 DEF IInv
  <1>5. CASE pc' = "idle" /\ exit' = 0 /\ todo' = {} /\ flaws' = flaws \cup {"untold"}
    BY <1>1, <1>2, <1>3, <1>5
       DEF IInv, Types, BeginInv, Downloading, SourceInv, UnpackInv, IdleInv,
           SkipMeansComplete, SuccessMeansInstalled
  <1> QED BY <1>4, <1>5 DEF gunzip, Exits

LEMMA UnpackEntryKeeps ==
  ASSUME IInv, UnpackEntry
  PROVE  IInv'
  <1>1. PICK e \in todo :
          /\ todo' = todo \ {e}
          /\ dir' = [dir EXCEPT ![e] = IF e = "lib" THEN Whole(Source.ver) ELSE Written(@)]
    BY DEF UnpackEntry
  <1>2. /\ pc = "unpack" /\ pc' = "unpack"
        /\ UNCHANGED <<platform, archive, tarball, exit, flaws>>
    BY DEF UnpackEntry
  <1>3. PICK v \in Versions : Source = Whole(v)
    BY <1>2 DEF IInv, SourceInv
  <1>4. /\ Whole(v) \in FileState /\ Whole(v).ver = v /\ Source.ver = v /\ v \in Nat \ {0}
        /\ [ver |-> v, part |-> "tail"] \in FileState
    BY <1>3, WholeVersion, SetupAssumption DEF FileState
  <1>5. /\ e \in Entries /\ dir \in [Entries -> FileState] /\ todo \subseteq Entries
        /\ flaws \subseteq {"unremoved", "untold", "cut"}
        /\ "unremoved" \in flaws \/ flaws = {}
    BY <1>2 DEF IInv, Types, BeginInv
  <1> DEFINE x == IF e = "lib" THEN Whole(Source.ver) ELSE Written(dir[e])
  <1>6. dir' = [dir EXCEPT ![e] = x]
    BY <1>1
  <1>7. /\ x \in FileState
        /\ platform.unpack /= "zip" \/ flaws = {} => x = Whole(v)
    <2>1. x \in FileState /\ (platform.unpack /= "zip" => x = Whole(v))
      BY <1>4 DEF Written
    <2>2. flaws = {} => x = Whole(v)
      <3>1. flaws = {} => dir[e] = Absent
        BY <1>2 DEF IInv, UnpackInv
      <3>2. ~(Absent.ver > v)
        BY <1>4 DEF Absent
      <3> QED BY <1>4, <3>1, <3>2 DEF Written
    <2> QED BY <2>1, <2>2
  <1> HIDE DEF x
  <1>8. /\ dir' \in [Entries -> FileState] /\ dir'[e] = x
        /\ \A f \in Entries : f /= e => dir'[f] = dir[f]
    BY <1>5, <1>6, <1>7
  <1>9. Types' /\ BeginInv' /\ IdleInv' /\ SkipMeansComplete' /\ SuccessMeansInstalled'
    BY <1>1, <1>2, <1>5, <1>8 DEF Types, BeginInv, Downloading, IdleInv,
                                  SkipMeansComplete, SuccessMeansInstalled
  <1>10. SourceInv' /\ Source'.ver = v
    BY <1>2, <1>3, <1>4 DEF SourceInv, Source
  <1>11. UnpackInv'
    <2>1. ASSUME NEW f \in Entries \ todo', platform.unpack /= "zip" \/ flaws = {}
          PROVE  dir'[f] = Whole(v)
      <3>1. CASE f = e
        BY <1>7, <1>8, <2>1, <3>1
      <3>2. CASE f /= e
        BY <1>1, <1>2, <1>4, <1>8, <2>1, <3>2 DEF IInv, UnpackInv
      <3> QED BY <3>1, <3>2
    <2>2. flaws = {} => \A f \in todo' : dir'[f] = Absent
      BY <1>1, <1>2, <1>5, <1>8 DEF IInv, UnpackInv
    <2> QED BY <1>2, <1>10, <2>1, <2>2 DEF UnpackInv
  <1> QED BY <1>9, <1>10, <1>11 DEF IInv

LEMMA UnpackDoneKeeps ==
  ASSUME IInv, UnpackDone
  PROVE  IInv'
  <1>1. /\ pc = "unpack" /\ todo = {} /\ pc' = "idle" /\ exit' = 0 /\ todo' = {}
        /\ UNCHANGED <<platform, dir, archive, tarball, flaws>>
    BY DEF UnpackDone, Exits
  <1>2. PICK v \in Versions : Source = Whole(v)
    BY <1>1 DEF IInv, SourceInv
  <1>3. Source.ver = v
    BY <1>2, WholeVersion
  <1>4. platform.unpack /= "zip" \/ flaws = {} => Complete
    BY <1>1, <1>3 DEF IInv, UnpackInv, Complete
  <1>5. "unremoved" \in flaws \/ flaws = {}
    BY <1>1 DEF IInv, BeginInv
  <1>6. Types' /\ BeginInv' /\ SourceInv' /\ UnpackInv' /\ SkipMeansComplete'
    BY <1>1 DEF IInv, Types, BeginInv, Downloading, SourceInv, UnpackInv, SkipMeansComplete
  <1>7. IdleInv' /\ SuccessMeansInstalled'
    BY <1>1, <1>4, <1>5 DEF IdleInv, SuccessMeansInstalled, Complete
  <1> QED BY <1>6, <1>7 DEF IInv

LEMMA InterruptedStep ==
  ASSUME IInv, pc = "unpack", Interrupted
  PROVE  /\ dir' \in [Entries -> FileState] /\ "cut" \in flaws'
         /\ flaws' \subseteq {"unremoved", "untold", "cut"}
  <1>1. PICK v \in Versions : Source = Whole(v)
    BY DEF IInv, SourceInv
  <1>2. [ver |-> Source.ver, part |-> "cut"] \in FileState
    BY <1>1, WholeVersion DEF FileState
  <1> QED BY <1>2 DEF Interrupted, IInv, Types

LEMMA UnpackFailsKeeps ==
  ASSUME IInv, UnpackFails
  PROVE  IInv'
  <1>1. /\ pc = "unpack" /\ pc' = "idle" /\ todo' = {}
        /\ exit' = IF platform.unpack = "zip" THEN 1 ELSE 0
        /\ UNCHANGED platform
    BY DEF UnpackFails, Exits
  <1>2. /\ dir' \in [Entries -> FileState] /\ "cut" \in flaws'
        /\ flaws' \subseteq {"unremoved", "untold", "cut"}
    BY <1>1, InterruptedStep DEF UnpackFails
  <1> QED BY <1>1, <1>2 DEF IInv, Types, BeginInv, Downloading, SourceInv, UnpackInv, IdleInv,
                            SkipMeansComplete, SuccessMeansInstalled

LEMMA KillKeeps ==
  ASSUME IInv, Kill
  PROVE  IInv'
  <1>1. pc /= "idle" /\ pc' = "idle" /\ exit' = -1 /\ todo' = {}
    BY DEF Kill, Exits
  <1>2. CASE pc = "unpack"
    <2>1. /\ dir' \in [Entries -> FileState] /\ "cut" \in flaws'
          /\ flaws' \subseteq {"unremoved", "untold", "cut"}
      BY <1>2, InterruptedStep DEF Kill
    <2> QED BY <1>1, <2>1, EndKeeps
  <1>3. CASE pc /= "unpack"
    <2>1. UNCHANGED <<dir, flaws>>
      BY <1>3 DEF Kill
    <2>2. /\ dir \in [Entries -> FileState] /\ flaws \subseteq {"unremoved", "untold", "cut"}
          /\ flaws = {} => dir = Empty
      BY <1>1, <1>3 DEF IInv, Types, BeginInv, Downloading
    <2> QED BY <1>1, <2>1, <2>2, EndKeeps
  <1> QED BY <1>2, <1>3

------------------------------------------------------------------------------
\* The invariant is inductive: it holds before the first run of setup, and each
\* step of a run, a fault or a kill keeps it.
THEOREM Inductive == Spec => []IInv
  <1>1. Init => IInv
    BY EmptyFacts DEF Init, IInv, Types, BeginInv, Downloading, SourceInv, UnpackInv, IdleInv,
                      SkipMeansComplete, SuccessMeansInstalled
  <1>2. IInv /\ [Next]_vars => IInv'
    <2> SUFFICES ASSUME IInv, [Next]_vars PROVE IInv'
      OBVIOUS
    <2>1. CASE SkipElsewhere \/ SkipExisting
      BY <2>1, SkipKeeps
    <2>2. CASE Start
      BY <2>2, StartKeeps
    <2>3. CASE PrimaryDownload \/ FallbackDownload
      BY <2>3, DownloadKeeps
    <2>4. CASE gunzip
      BY <2>4, GunzipKeeps
    <2>5. CASE UnpackEntry
      BY <2>5, UnpackEntryKeeps
    <2>6. CASE UnpackDone
      BY <2>6, UnpackDoneKeeps
    <2>7. CASE UnpackFails
      BY <2>7, UnpackFailsKeeps
    <2>8. CASE Kill
      BY <2>8, KillKeeps
    <2>9. CASE UNCHANGED vars
      BY <2>9 DEF vars, IInv, Types, BeginInv, Downloading, SourceInv, Source, UnpackInv, IdleInv,
                  SkipMeansComplete, SuccessMeansInstalled, Complete, LooksComplete, Present
    <2> QED BY <2>1, <2>2, <2>3, <2>4, <2>5, <2>6, <2>7, <2>8, <2>9 DEF Next, Run
  <1> QED BY <1>1, <1>2, PTL DEF Spec

\* When checkIncludeDir lets setup skip the download, the directory holds a
\* complete driver, or a flaw of an earlier run that it cannot see.
THEOREM SkipIsRight == Spec => []SkipMeansComplete
  <1>1. IInv => SkipMeansComplete
    BY DEF IInv
  <1> QED BY <1>1, Inductive, PTL

\* Exit code 0 stands for a complete driver, but for the errors that main
\* drops.
THEOREM SuccessIsRight == Spec => []SuccessMeansInstalled
  <1>1. IInv => SuccessMeansInstalled
    BY DEF IInv
  <1> QED BY <1>1, Inductive, PTL
==============================================================================
