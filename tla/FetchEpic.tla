------------------------------- MODULE FetchEpic ------------------------------
(***************************************************************************)
(* The batch download of scripts/fetch_epic_parallel.py: a batch locks all *)
(* destinations, checks what is there, recovers what an earlier batch left *)
(* in the staging directory, lets aria2 fetch the rest there, verifies and *)
(* publishes. The manifest is replaced atomically at each save. A batch    *)
(* may be killed between any two steps and the command given again; a      *)
(* single-connection download may hold the lock of one of its videos.      *)
(***************************************************************************)
EXTENDS Integers, FiniteSets

CONSTANTS
    Videos,      \* the wanted list
    MaxBatches,  \* how often the command is given, bound of the model
    IOFails      \* whether calls on files may fail with OSError

ASSUME FetchEpicAssumption ==
    /\ MaxBatches \in Nat
    /\ IOFails \in BOOLEAN

VARIABLES
    dest,        \* videos/: what is published
    staged,      \* .aria2-downloads/: the media files
    control,     \* videos with an .aria2 control file
    linked,      \* videos whose two names are one inode
    lock,        \* .lock of each video: "none", "batch", "other" or "stale"
    batchLock,   \* .batch.lock: "none", "batch" or "stale"
    aria,        \* the child: "off", "running" or "interrupted"
    manifest,    \* what is on disk: status and files
    pc,          \* where the batch is
    pending,     \* videos to fetch or still to verify
    recover,     \* verified staged videos to publish
    current,     \* the video between its link and its unlink, if any
    files,       \* report["files"]
    unlocked,    \* locks: videos not locked yet
    batches,     \* commands given so far
    owner        \* observation: who published what is at dest

storage == <<dest, staged, control, linked, owner>>
locks == <<lock, batchLock>>
report == <<pending, recover, current, files, unlocked>>
vars == <<storage, locks, aria, manifest, pc, report, batches>>

Save(status, fs) == manifest' = [status |-> status, files |-> fs]

Init ==
    /\ dest = [v \in Videos |-> "none"]
    /\ staged = [v \in Videos |-> "none"]
    /\ control = {}
    /\ linked = {}
    /\ owner = [v \in Videos |-> "none"]
    /\ lock = [v \in Videos |-> "none"]
    /\ batchLock = "none"
    /\ aria = "off"
    /\ manifest = [status |-> "none", files |-> {}]
    /\ pc = "idle"
    /\ pending = {} /\ recover = {} /\ current = {} /\ files = {} /\ unlocked = {}
    /\ batches = 0

-----------------------------------------------------------------------------
(* Locks. *)

\* The command is given: .batch.lock comes first, and is O_EXCL.
Start ==
    /\ pc = "idle"
    /\ batches < MaxBatches
    /\ batches' = batches + 1
    /\ \/ /\ batchLock = "none"
          /\ batchLock' = "batch"
          /\ pc' = "locking"
          /\ unlocked' = Videos
       \/ /\ batchLock # "none"
          /\ UNCHANGED <<batchLock, pc, unlocked>>
    /\ UNCHANGED <<storage, lock, aria, manifest, pending, recover, current, files>>

\* One .lock after the other; an occupied one ends the batch.
LockVideo(v) ==
    /\ pc = "locking"
    /\ v \in unlocked
    /\ \/ /\ lock[v] = "none"
          /\ lock' = [lock EXCEPT ![v] = "batch"]
          /\ unlocked' = unlocked \ {v}
          /\ pc' = IF unlocked' = {} THEN "preflight" ELSE "locking"
       \/ /\ lock[v] # "none"
          /\ pc' = "leaving"
          /\ UNCHANGED <<lock, unlocked>>
    /\ UNCHANGED <<storage, batchLock, aria, manifest, pending, recover, current,
                   files, batches>>

\* The finally clause of locks: only the locks this batch created.
Release ==
    /\ pc = "leaving"
    /\ lock' = [v \in Videos |-> IF lock[v] = "batch" THEN "none" ELSE lock[v]]
    /\ batchLock' = "none"
    /\ pc' = "idle"
    /\ pending' = {} /\ recover' = {} /\ current' = {} /\ files' = {} /\ unlocked' = {}
    /\ UNCHANGED <<storage, aria, manifest, batches>>

-----------------------------------------------------------------------------
(* Preflight and recovery. *)

\* verify_file: right size and checksum, decodable, and no second name.
Verified(v, content) == content = "good" /\ v \notin linked

\* Preflight takes nothing on trust and stops the batch at the first file that
\* is not as it should be.
Refused(v) ==
    \/ dest[v] # "none" /\ ~Verified(v, dest[v])
    \/ dest[v] = "none" /\ v \in control /\ staged[v] = "none"
    \/ dest[v] = "none" /\ v \notin control /\ staged[v] # "none" /\ ~Verified(v, staged[v])

\* A refusal leaves the manifest as it was.
Refuse ==
    /\ pc = "preflight"
    /\ \E v \in Videos : Refused(v)
    /\ pc' = "leaving"
    /\ UNCHANGED <<storage, locks, aria, manifest, report, batches>>

Preflight ==
    /\ pc = "preflight"
    /\ \A v \in Videos : ~Refused(v)
    /\ files' = {v \in Videos : dest[v] # "none"}
    /\ recover' = {v \in Videos \ files' : staged[v] # "none" /\ v \notin control}
    /\ pending' = Videos \ (files' \cup recover')
    /\ pc' = "recovering"
    /\ UNCHANGED <<storage, locks, aria, manifest, current, unlocked, batches>>

\* Mutant of PublishLink: the staging name goes first.
PublishUnlinkFirst(v) ==
    /\ current = {}
    /\ \/ pc = "recovering" /\ v \in recover
       \/ pc = "verifying" /\ v \in pending /\ v \notin control /\ Verified(v, staged[v])
    /\ staged' = [staged EXCEPT ![v] = "none"]
    /\ current' = {v}
    /\ UNCHANGED <<dest, control, linked, owner, locks, aria, manifest, pc, pending,
                   recover, files, unlocked, batches>>

\* Mutant of PublishLink: whatever aria2 left is published.
PublishUnverified(v) ==
    /\ current = {}
    /\ \/ pc = "recovering" /\ v \in recover
       \/ pc = "verifying" /\ v \in pending /\ staged[v] # "none"
    /\ dest[v] = "none"
    /\ dest' = [dest EXCEPT ![v] = staged[v]]
    /\ owner' = [owner EXCEPT ![v] = "batch"]
    /\ linked' = linked \cup {v}
    /\ current' = {v}
    /\ UNCHANGED <<staged, control, locks, aria, manifest, pc, pending, recover, files,
                   unlocked, batches>>

\* publish, of a recovered or a fetched video: link refuses an existing name.
PublishLink(v) ==
    /\ current = {}
    /\ \/ pc = "recovering" /\ v \in recover
       \/ pc = "verifying" /\ v \in pending /\ v \notin control /\ Verified(v, staged[v])
    /\ dest[v] = "none"
    /\ dest' = [dest EXCEPT ![v] = staged[v]]
    /\ owner' = [owner EXCEPT ![v] = "batch"]
    /\ linked' = linked \cup {v}
    /\ current' = {v}
    /\ UNCHANGED <<staged, control, locks, aria, manifest, pc, pending, recover, files,
                   unlocked, batches>>

\* Then the staging name goes, and the report has the file. After a fetch the
\* manifest is saved file by file, after a recovery only at the end.
PublishUnlink(v) ==
    /\ pc \in {"recovering", "verifying"}
    /\ v \in current
    /\ staged' = [staged EXCEPT ![v] = "none"]
    /\ linked' = linked \ {v}
    /\ current' = {}
    /\ files' = files \cup {v}
    /\ recover' = recover \ {v}
    /\ pending' = IF pc = "verifying" THEN pending \ {v} ELSE pending
    /\ IF pc = "verifying" THEN Save("verifying", files') ELSE UNCHANGED manifest
    /\ UNCHANGED <<dest, control, owner, locks, aria, pc, unlocked, batches>>

Recovered ==
    /\ pc = "recovering"
    /\ recover = {}
    /\ current = {}
    /\ Save("preflight_passed", files)
    /\ pc' = IF pending = {} THEN "finishing" ELSE "announcing"
    /\ UNCHANGED <<storage, locks, aria, report, batches>>

-----------------------------------------------------------------------------
(* Fetching. *)

\* The input file of aria2 is written and the manifest says so.
Announce ==
    /\ pc = "announcing"
    /\ Save("downloading", files)
    /\ pc' = "launching"
    /\ UNCHANGED <<storage, locks, aria, report, batches>>

\* aria2 is given the pending videos, in a session of its own.
Launch ==
    /\ pc = "launching"
    /\ aria' = "running"
    /\ pc' = "monitoring"
    /\ UNCHANGED <<storage, locks, manifest, report, batches>>

\* monitor: a signal, or the disk guard, interrupts the child, once.
Interrupt ==
    /\ pc = "monitoring"
    /\ aria = "running"
    /\ aria' = "interrupted"
    /\ Save("stopping", files)
    /\ UNCHANGED <<storage, locks, pc, report, batches>>

\* The child is gone: verification, whatever its exit code.
ChildExited ==
    /\ pc = "monitoring"
    /\ aria = "off"
    /\ Save("verifying", files)
    /\ pc' = "verifying"
    /\ UNCHANGED <<storage, locks, aria, report, batches>>

\* Mutant of Unpublished: the report has the file before it is published.
UnpublishedButListed(v) ==
    /\ pc = "verifying"
    /\ current = {}
    /\ v \in pending
    /\ pending' = pending \ {v}
    /\ \/ /\ staged[v] = "none" \/ v \in control \/ ~Verified(v, staged[v])
          /\ UNCHANGED files
       \/ /\ IOFails
          /\ files' = files \cup {v}
    /\ Save("verifying", files')
    /\ UNCHANGED <<storage, locks, aria, pc, recover, current, unlocked, batches>>

\* A video that was not fetched, does not verify or cannot be published is an
\* error of its own and stays where it is.
Unpublished(v) ==
    /\ pc = "verifying"
    /\ current = {}
    /\ v \in pending
    /\ \/ staged[v] = "none" \/ v \in control \/ ~Verified(v, staged[v])
       \/ dest[v] # "none"
       \/ IOFails
    /\ pending' = pending \ {v}
    /\ Save("verifying", files)
    /\ UNCHANGED <<storage, locks, aria, pc, recover, current, files, unlocked, batches>>

\* publish may also fail after its link, with the staging name still there or
\* gone but not synced: an error although the video is published.
PublishFails(v) ==
    /\ IOFails
    /\ pc = "verifying"
    /\ v \in current
    /\ \/ UNCHANGED <<staged, linked>>
       \/ /\ staged' = [staged EXCEPT ![v] = "none"]
          /\ linked' = linked \ {v}
    /\ current' = {}
    /\ pending' = pending \ {v}
    /\ Save("verifying", files)
    /\ UNCHANGED <<dest, control, owner, locks, aria, pc, recover, files, unlocked,
                   batches>>

Finish ==
    /\ \/ pc = "finishing"
       \/ pc = "verifying" /\ pending = {} /\ current = {}
    /\ Save(IF files = Videos THEN "complete" ELSE "incomplete", files)
    /\ pc' = "leaving"
    /\ UNCHANGED <<storage, locks, aria, report, batches>>

\* Mutant of Fail: a child still running is left to itself.
FailAtOnce ==
    /\ pc \notin {"idle", "failing", "leaving", "dead"}
    /\ pc' = "leaving"
    /\ UNCHANGED <<storage, locks, aria, manifest, report, batches>>

\* An exception anywhere else: full disk, a manifest that cannot be written, an
\* interrupt from the keyboard. The child is interrupted and waited for first.
Fail ==
    /\ \/ /\ pc \notin {"idle", "monitoring", "failing", "leaving", "dead"}
          /\ pc' = "leaving"
          /\ UNCHANGED aria
       \/ /\ pc = "monitoring"
          /\ aria # "off"
          /\ aria' = "interrupted"
          /\ pc' = "failing"
       \/ /\ pc = "failing"
          /\ aria = "off"
          /\ pc' = "leaving"
          /\ UNCHANGED aria
    /\ UNCHANGED <<storage, locks, manifest, report, batches>>

-----------------------------------------------------------------------------
(* The child, aria2: an external program, as its options make it behave. *)

\* It works on a video of its list: media file and control file appear.
Fetch(v) ==
    /\ aria # "off"
    /\ v \in pending
    /\ staged[v] = "none"
    /\ staged' = [staged EXCEPT ![v] = "partial"]
    /\ control' = control \cup {v}
    /\ UNCHANGED <<dest, linked, owner, locks, aria, manifest, pc, report, batches>>

\* It has all of a video, right or wrong, and drops the control file.
Fetched(v) ==
    /\ aria # "off"
    /\ v \in pending
    /\ v \in control
    /\ \E content \in {"good", "bad"} : staged' = [staged EXCEPT ![v] = content]
    /\ control' = control \ {v}
    /\ UNCHANGED <<dest, linked, owner, locks, aria, manifest, pc, report, batches>>

\* It ends: done, failed, interrupted, or because the batch is gone.
Exit ==
    /\ aria # "off"
    /\ aria' = "off"
    /\ UNCHANGED <<storage, locks, manifest, pc, report, batches>>

-----------------------------------------------------------------------------
(* Kills, people, and the single-connection downloader. *)

\* The batch is killed: its locks stay, its report is lost; the child lives on
\* until --stop-with-process makes it notice.
Kill ==
    /\ pc \notin {"idle", "dead"}
    /\ pc' = "dead"
    /\ lock' = [v \in Videos |-> IF lock[v] = "batch" THEN "stale" ELSE lock[v]]
    /\ batchLock' = "stale"
    /\ recover' = {} /\ current' = {} /\ files' = {} /\ unlocked' = {}
    /\ UNCHANGED <<storage, aria, manifest, pending, batches>>

\* Somebody finds that the process is gone - aria2 has noticed long before - and
\* removes its locks.
Review ==
    /\ pc = "dead"
    /\ aria = "off"
    /\ lock' = [v \in Videos |-> IF lock[v] = "stale" THEN "none" ELSE lock[v]]
    /\ batchLock' = "none"
    /\ pending' = {}
    /\ pc' = "idle"
    /\ UNCHANGED <<storage, aria, manifest, recover, current, files, unlocked, batches>>

\* download_file of the same destination takes the same .lock.
OtherLocks(v) ==
    /\ lock[v] = "none"
    /\ lock' = [lock EXCEPT ![v] = "other"]
    /\ UNCHANGED <<storage, batchLock, aria, manifest, pc, report, batches>>

OtherUnlocks(v) ==
    /\ lock[v] = "other"
    /\ lock' = [lock EXCEPT ![v] = "none"]
    /\ UNCHANGED <<storage, batchLock, aria, manifest, pc, report, batches>>

\* It publishes what it has, of the right size but not always the right content;
\* programs that know of no lock do so at any time.
OtherWrites(v) ==
    /\ dest[v] = "none"
    /\ \E content \in {"good", "bad"} : dest' = [dest EXCEPT ![v] = content]
    /\ owner' = [owner EXCEPT ![v] = "other"]
    /\ UNCHANGED <<staged, control, linked, locks, aria, manifest, pc, report, batches>>

Next ==
    \/ Start \/ Release \/ Refuse \/ Preflight \/ Recovered \/ Announce \/ Launch \/ Interrupt
    \/ ChildExited \/ Finish \/ Fail \/ Exit \/ Kill \/ Review
    \/ \E v \in Videos :
          \/ LockVideo(v) \/ PublishLink(v) \/ PublishUnlink(v) \/ Unpublished(v)
          \/ PublishFails(v) \/ Fetch(v) \/ Fetched(v)
          \/ OtherLocks(v) \/ OtherUnlocks(v) \/ OtherWrites(v)

Spec == Init /\ [][Next]_vars
-----------------------------------------------------------------------------
(* Properties. *)

\* The type of every variable.
TypeOK ==
    /\ dest \in [Videos -> {"none", "good", "bad"}]
    /\ staged \in [Videos -> {"none", "partial", "good", "bad"}]
    /\ control \subseteq Videos
    /\ linked \subseteq Videos
    /\ lock \in [Videos -> {"none", "batch", "other", "stale"}]
    /\ batchLock \in {"none", "batch", "stale"}
    /\ aria \in {"off", "running", "interrupted"}
    /\ manifest \in [status : {"none", "preflight_passed", "downloading", "stopping",
                               "verifying", "complete", "incomplete"},
                     files : SUBSET Videos]
    /\ pc \in {"idle", "locking", "preflight", "recovering", "announcing", "launching",
               "monitoring", "failing", "verifying", "finishing", "leaving", "dead"}
    /\ pending \subseteq Videos
    /\ recover \subseteq Videos \ pending
    /\ current \subseteq pending \cup recover
    /\ files \subseteq Videos \ pending
    /\ unlocked \subseteq Videos
    /\ batches \in 0..MaxBatches
    /\ owner \in [Videos -> {"none", "batch", "other"}]

\* Whatever aria2 leaves behind, in this run or an earlier one, the batch
\* publishes verified files only (fetch_epic_parallel.py:2).
PublishedIsVerified == \A v \in Videos : owner[v] = "batch" => dest[v] = "good"

\* The manifest on disk, at whatever moment one looks and however the batch
\* ended, lists only files that are published and right.
ManifestIsTrue ==
    /\ \A v \in manifest.files : dest[v] = "good"
    /\ manifest.status = "complete" => manifest.files = Videos

\* As long as aria2 lives the batch and each of its videos is locked, the batch
\* having failed or having been killed included: no download of the same
\* video runs beside it ("must not leave a detached writer running after our
\* destination locks release", fetch_epic_parallel.py:377).
WriterIsLocked ==
    aria # "off" =>
        /\ batchLock # "none"
        /\ \A v \in Videos : lock[v] \in {"batch", "stale"}

HasGood(v) == dest[v] = "good" \/ staged[v] = "good"

\* A video once fetched is never lost again: it is in videos/ or in the
\* staging directory, over failures and kills (fetch_epic_parallel.py:4).
FetchedIsKept == [][\A v \in Videos : HasGood(v) => HasGood(v)']_vars

\* What is published is not replaced, whoever published it.
NeverClobbered == [][\A v \in Videos : dest[v] # "none" => dest'[v] = dest[v]]_vars

\* "Rerun to recover" (docs/SERVER_DATA_RUNBOOK.md): a batch is refused by
\* preflight only where a file is wrong.
RefusedForCause ==
    pc = "preflight" =>
        \A v \in Videos : Refused(v) => dest[v] = "bad" \/ staged[v] = "bad"
=============================================================================
