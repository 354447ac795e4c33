------------------------------- MODULE Staging --------------------------------
(***************************************************************************)
(* One environment's staging area (meowbench/adapters/staging.py): videos  *)
(* are copied or hard-linked into a scratch directory, the system under    *)
(* test opens them when it likes, and at the end of ingestion they are     *)
(* revoked, file by file, while the system runs on. The harness may be     *)
(* killed and a later attempt then finds the directory as it was.          *)
(*                                                                         *)
(* A file is named by its logical name. What matters of a file on disk is  *)
(* the inode its staged path refers to: one of its own, or the source's.   *)
(***************************************************************************)
EXTENDS Naturals

CONSTANTS
    Names,       \* logical names of the videos
    Processes,   \* processes of the system under test
    Adapter,     \* the one whose pid the harness knows
    Platforms,   \* what the run may execute on
    IOFails      \* whether copying, truncating and unlinking may fail

ASSUME StagingAssumption ==
    /\ Adapter \in Processes
    /\ Platforms \subseteq {"linux", "windows"}
    /\ IOFails \in BOOLEAN

VARIABLES
    platform,    \* sys.platform
    revocable,   \* StagingArea(revocable = ...): memory mode
    phase,       \* where the life of the area is
    source,      \* the dataset originals
    path,        \* the inode each staged path refers to
    data,        \* content of the inode a copy was made into
    mode,        \* _files: how a file was staged, "none" if it was not
    handles,     \* open descriptors: <<process, name, inode>>
    left,        \* revoke: files still to treat
    cut,         \* revoke: files treated but not yet unlinked
    report,      \* RevocationReport: open_handles, contested, errors
    removed      \* observation: files the system under test removed itself

setting == <<platform, revocable>>
disk == <<source, path, data>>
areaVars == <<setting, phase, disk, mode, handles, left, cut, report,
          removed>>

Files == {n \in Names : mode[n] # "none"}

Content(n, inode) == IF inode = "source" THEN source[n] ELSE data[n]

Held(n) == \E h \in handles : h[2] = n

NoReport == [open |-> {}, contested |-> {}, errors |-> {}]

AreaInit ==
    /\ platform \in Platforms
    /\ revocable \in BOOLEAN
    /\ phase = "open"
    /\ source = [n \in Names |-> "video"]
    /\ path = [n \in Names |-> "none"]
    /\ data = [n \in Names |-> "empty"]
    /\ mode = [n \in Names |-> "none"]
    /\ handles = {}
    /\ left = {}
    /\ cut = {}
    /\ report = NoReport
    /\ removed = {}

-----------------------------------------------------------------------------
(* The harness stages. *)

\* Mutant of Stage: a path that exists is taken to be staged already.
StageUnlessThere(n) ==
    /\ phase = "open"
    /\ n \notin Files
    /\ \/ /\ path[n] = "none"
          /\ path' = [path EXCEPT ![n] = "own"]
          /\ data' = [data EXCEPT ![n] = "video"]
          /\ mode' = [mode EXCEPT ![n] = "copy"]
       \/ /\ path[n] # "none"
          /\ mode' = [mode EXCEPT ![n] = IF revocable THEN "copy" ELSE "hardlink"]
          /\ UNCHANGED <<path, data>>
       \/ /\ ~revocable
          /\ path' = [path EXCEPT ![n] = "source"]
          /\ mode' = [mode EXCEPT ![n] = "hardlink"]
          /\ UNCHANGED data
    /\ UNCHANGED <<setting, phase, source, handles, left, cut, report, removed>>

\* stage: a path left by a killed attempt is unlinked first. A revocable area
\* always copies; otherwise a hard link is tried and a copy is the fallback.
Stage(n) ==
    /\ phase = "open"
    /\ n \notin Files
    /\ \/ /\ path' = [path EXCEPT ![n] = "own"]
          /\ data' = [data EXCEPT ![n] = "video"]
          /\ mode' = [mode EXCEPT ![n] = "copy"]
       \/ /\ ~revocable
          /\ path' = [path EXCEPT ![n] = "source"]
          /\ mode' = [mode EXCEPT ![n] = "hardlink"]
          /\ UNCHANGED data
    /\ UNCHANGED <<setting, phase, source, handles, left, cut, report, removed>>

\* stage raises an OSError, which nobody in the run catches: the old path cannot
\* be unlinked, or is and nothing takes its place, or a part of the copy does. The
\* area is left; _files knows nothing of the path.
StageFails(n) ==
    /\ IOFails
    /\ phase = "open"
    /\ n \notin Files
    /\ \/ UNCHANGED <<path, data>>
       \/ /\ path' = [path EXCEPT ![n] = "none"]
          /\ UNCHANGED data
       \/ /\ path' = [path EXCEPT ![n] = "own"]
          /\ data' = [data EXCEPT ![n] = "part"]
    /\ phase' = "failed"
    /\ UNCHANGED <<setting, source, mode, handles, left, cut, report, removed>>

-----------------------------------------------------------------------------
(* The harness revokes. *)

\* open_handles_under: the descriptors of one process, through /proc.
Audit ==
    IF platform = "linux"
    THEN {n \in Names : \E h \in handles : h[1] = Adapter /\ h[2] = n}
    ELSE {}

\* revoke begins with the audit, before any file is truncated.
Revoke ==
    /\ phase = "open"
    /\ report' = [NoReport EXCEPT !.open = Audit]
    /\ left' = Files
    /\ phase' = "revoking"
    /\ UNCHANGED <<setting, disk, mode, handles, cut, removed>>

\* A file that the system has removed.
Skip(n) ==
    /\ phase = "revoking"
    /\ cut = {}
    /\ n \in left
    /\ path[n] = "none"
    /\ left' = left \ {n}
    /\ UNCHANGED <<setting, phase, disk, mode, handles, cut, report, removed>>

\* Mutant of Empty: nothing is said of a truncate that fails.
EmptyQuietly(n) ==
    \/ /\ IF path[n] = "source"
          THEN source' = [source EXCEPT ![n] = "empty"] /\ UNCHANGED data
          ELSE data' = [data EXCEPT ![n] = "empty"] /\ UNCHANGED source
       /\ UNCHANGED report
    \/ /\ IOFails
       /\ UNCHANGED <<source, data, report>>

\* truncate(0) on whatever the path refers to, or an OSError that is reported.
Empty(n) ==
    \/ /\ IF path[n] = "source"
          THEN source' = [source EXCEPT ![n] = "empty"] /\ UNCHANGED data
          ELSE data' = [data EXCEPT ![n] = "empty"] /\ UNCHANGED source
       /\ UNCHANGED report
    \/ /\ IOFails
       /\ report' = [report EXCEPT !.errors = @ \cup {n}]
       /\ UNCHANGED <<source, data>>

\* A hard link to the source is only reported and unlinked, never truncated.
Truncate(n) ==
    /\ phase = "revoking"
    /\ cut = {}
    /\ n \in left
    /\ path[n] # "none"
    /\ \/ /\ mode[n] = "hardlink" /\ path[n] = "source"
          /\ report' = [report EXCEPT !.errors = @ \cup {n}]
          /\ UNCHANGED <<source, data>>
       \/ /\ ~(mode[n] = "hardlink" /\ path[n] = "source")
          /\ Empty(n)
    /\ cut' = {n}
    /\ UNCHANGED <<setting, phase, path, mode, handles, left, removed>>

\* _unlink_only: Windows refuses while a descriptor is open, Linux does not.
Unlink(n) ==
    /\ phase = "revoking"
    /\ n \in cut
    /\ \/ /\ platform = "windows" /\ Held(n)
          /\ report' = [report EXCEPT !.contested = @ \cup {n}]
          /\ UNCHANGED path
       \/ /\ ~(platform = "windows" /\ Held(n))
          /\ path' = [path EXCEPT ![n] = "none"]
          /\ UNCHANGED report
       \/ /\ IOFails
          /\ report' = [report EXCEPT !.errors = @ \cup {n}]
          /\ UNCHANGED path
    /\ cut' = {}
    /\ left' = left \ {n}
    /\ UNCHANGED <<setting, phase, source, data, mode, handles, removed>>

RevokeReturns ==
    /\ phase = "revoking"
    /\ left = {}
    /\ phase' = "revoked"
    /\ UNCHANGED <<setting, disk, mode, handles, left, cut, report, removed>>

-----------------------------------------------------------------------------
(* The area ends. *)

\* destroy, on every way out of the with-block, an exception in the middle of
\* revoke included: each staged file is unlinked, then the whole directory is
\* removed, with whatever an earlier attempt left in it. Nothing is said of what
\* cannot be removed: both errors are passed over.
Destroy ==
    /\ phase \in {"open", "failed", "revoking", "revoked"}
    /\ \E stay \in SUBSET {n \in Names : IOFails \/ (platform = "windows" /\ Held(n))} :
          path' = [n \in Names |-> IF n \in stay THEN path[n] ELSE "none"]
    /\ phase' = "destroyed"
    /\ UNCHANGED <<setting, source, data, mode, handles, left, cut, report, removed>>

\* The harness is killed; the system under test ends with it.
Kill ==
    /\ phase # "killed"
    /\ phase' = "killed"
    /\ handles' = {}
    /\ UNCHANGED <<setting, disk, mode, left, cut, report, removed>>

\* A later attempt enters the same directory, in either mode.
Enter ==
    /\ phase \in {"killed", "destroyed"}
    /\ phase' = "open"
    /\ revocable' \in BOOLEAN
    /\ mode' = [n \in Names |-> "none"]
    /\ left' = {}
    /\ cut' = {}
    /\ report' = NoReport
    /\ handles' = {}
    /\ removed' = {}
    /\ UNCHANGED <<platform, disk>>

-----------------------------------------------------------------------------
(* The system under test. It is given the path of a file once it is staged  *)
(* and may open it as long as there is something at that path.              *)

Open(p, n) ==
    /\ phase # "killed"
    /\ n \in Files
    /\ path[n] # "none"
    /\ handles' = handles \cup {<<p, n, path[n]>>}
    /\ UNCHANGED <<setting, phase, disk, mode, left, cut, report, removed>>

CloseHandle(h) ==
    /\ handles' = handles \ {h}
    /\ UNCHANGED <<setting, phase, disk, mode, left, cut, report, removed>>

\* It may also tidy up after itself, where the platform lets it.
Delete(n) ==
    /\ phase # "killed"
    /\ n \in Files
    /\ platform = "windows" => ~Held(n)
    /\ path' = [path EXCEPT ![n] = "none"]
    /\ removed' = removed \cup {n}
    /\ UNCHANGED <<setting, phase, source, data, mode, handles, left, cut, report>>

AreaNext ==
    \/ \E n \in Names :
          Stage(n) \/ StageFails(n) \/ Skip(n) \/ Truncate(n) \/ Unlink(n) \/ Delete(n)
    \/ Revoke
    \/ RevokeReturns
    \/ Destroy
    \/ Kill
    \/ Enter
    \/ \E p \in Processes, n \in Names : Open(p, n)
    \/ \E h \in handles : CloseHandle(h)

AreaSpec == AreaInit /\ [][AreaNext]_areaVars
-----------------------------------------------------------------------------
(* Properties. *)

Contents == {"video", "part", "empty"}

Inodes == {"own", "source"}

\* The type of every variable.
AreaTypeOK ==
    /\ platform \in Platforms
    /\ revocable \in BOOLEAN
    /\ phase \in {"open", "failed", "revoking", "revoked", "destroyed", "killed"}
    /\ source \in [Names -> Contents]
    /\ path \in [Names -> Inodes \cup {"none"}]
    /\ data \in [Names -> Contents]
    /\ mode \in [Names -> {"none", "copy", "hardlink"}]
    /\ handles \subseteq Processes \X Names \X Inodes
    /\ left \subseteq Names
    /\ cut \subseteq left
    /\ removed \subseteq Names
    /\ report \in [open : SUBSET Names, contested : SUBSET Names,
                   errors : SUBSET Names]

\* The dataset survives: no revocation empties an original, not even one that
\* follows a killed attempt in another mode (staging.py:33).
SourcesIntact == \A n \in Names : source[n] = "video"

\* A video can be read by somebody: at its path, or through a descriptor.
Readable(n) ==
    \/ (path[n] # "none" /\ Content(n, path[n]) = "video")
    \/ \E h \in handles : h[2] = n /\ Content(n, h[3]) = "video"

\* Revocation is effective or says that it was not: what was staged and can
\* still be read, through a descriptor opened at any moment and by any process,
\* is named in the report (staging.py:20) - unless the system removed the file
\* itself before it was truncated.
ReadableIsReported ==
    phase = "revoked" =>
        \A n \in Files \ removed : Readable(n) =>
            n \in report.open \cup report.contested \cup report.errors

\* A system is handed whole videos only: until revocation treats it, a staged path
\* leads to the video. Copies that were emptied or cut short stay in the directory
\* when unlinking them fails and destroy passes over it, or when the harness is
\* killed; no later attempt takes one for staged (StagingArea.stage).
HandedIsWhole ==
    \A n \in Files \ removed :
        phase \in {"open", "failed"} \/ (phase = "revoking" /\ n \in left \ cut) =>
            path[n] # "none" /\ Content(n, path[n]) = "video"
=============================================================================
