------------------------------- MODULE Download -------------------------------
(***************************************************************************)
(* Several processes download one file (meowbench/datasets/download.py,    *)
(* retried as in scripts/complete_video_downloads.py) into a directory     *)
(* that holds the destination, a .part and a .lock. Every system call that *)
(* another process, a kill or a power loss could come between is a step.   *)
(*                                                                         *)
(* The content of a file is a sequence of Size units, each from one of the *)
(* bodies the server may send; only the wanted one has the reference hash. *)
(***************************************************************************)
EXTENDS Integers, Sequences, FiniteSets

CONSTANTS
    Callers,     \* processes calling download_file
    Inodes,      \* files on the disk
    Bodies,      \* versions of the file a server may send
    Wanted,      \* the one the reference hash is of
    Size,        \* expected_bytes
    Tries,       \* calls a process makes before it gives up
    MaxCrashes,  \* kills and power losses, bound of the model
    None

ASSUME DownloadAssumption ==
    /\ Wanted \in Bodies
    /\ Size \in Nat \ {0}
    /\ Tries \in Nat \ {0}
    /\ MaxCrashes \in Nat
    /\ None \notin Inodes \cup Callers

VARIABLES
    referenced,  \* whether the caller knows a reference hash
    name,        \* the directory: the inodes of destination and partial
    onDisk,      \* the directory as it was last synced
    data,        \* contents of the inodes
    settled,     \* inodes whose content was synced after its last write
    lock,        \* who created the .lock that exists
    caller,      \* each process: pc, fd (the open partial), tries, result
    foreign,     \* observation: inodes written by other programs
    crashes      \* kills and power losses so far

disk == <<name, onDisk, data, settled>>
vars == <<referenced, disk, lock, caller, foreign, crashes>>

Contents == UNION {[1..n -> Bodies] : n \in 0..(Size + 1)}

Whole(i) == Len(data[i]) = Size

\* _check_file: the size, and the hash if there is one to compare with.
Passes(i) == Whole(i) /\ (referenced => \A k \in 1..Size : data[i][k] = Wanted)

Unused ==
    Inodes \ ({name.dest, name.part, onDisk.dest, onDisk.part}
              \cup {caller[c].fd : c \in Callers})

At(c, pc) == caller[c].pc = pc

Goto(c, pc) == caller' = [caller EXCEPT ![c].pc = pc]

\* Every way out of _download leads through its finally clause.
Leave(c, result) == caller' = [caller EXCEPT ![c].pc = "unlock", ![c].result = result]

Fresh == [pc |-> "idle", fd |-> None, tries |-> Tries, result |-> "none"]

\* A partial of any content may be there from earlier.
Init ==
    /\ referenced \in BOOLEAN
    /\ \E i \in Inodes, s \in Contents :
          /\ data = [j \in Inodes |-> IF j = i THEN s ELSE <<>>]
          /\ name = [dest |-> None, part |-> IF s = <<>> THEN None ELSE i]
    /\ onDisk = name
    /\ settled = Inodes
    /\ lock = None
    /\ caller = [c \in Callers |-> Fresh]
    /\ foreign = {}
    /\ crashes = 0

-----------------------------------------------------------------------------
(* One call of download_file. *)

\* Mutant of Lock: O_EXCL is forgotten.
LockShared(c) ==
    /\ At(c, "idle")
    /\ caller[c].tries > 0
    /\ lock' = c
    /\ Goto(c, "locked")
    /\ UNCHANGED <<referenced, disk, foreign, crashes>>

\* O_CREAT | O_EXCL: the call fails if there is a .lock, whoever's it is.
Lock(c) ==
    /\ At(c, "idle")
    /\ caller[c].tries > 0
    /\ \/ /\ lock = None
          /\ lock' = c
          /\ caller' = [caller EXCEPT ![c].pc = "locked", ![c].result = "none"]
       \/ /\ lock # None
          /\ caller' = [caller EXCEPT ![c].tries = @ - 1, ![c].result = "failed"]
          /\ UNCHANGED lock
    /\ UNCHANGED <<referenced, disk, foreign, crashes>>

\* An existing destination is checked and kept, good or bad.
Find(c) ==
    /\ At(c, "locked")
    /\ \/ name.dest # None /\ Passes(name.dest) /\ Leave(c, "skipped")
       \/ name.dest # None /\ ~Passes(name.dest) /\ Leave(c, "failed")
       \/ name.dest = None /\ Goto(c, "absent")
    /\ UNCHANGED <<referenced, disk, lock, foreign, crashes>>

\* Mutant of OpenPart: a partial that is complete is asked for again.
OpenPartAsksAgain(c) ==
    /\ At(c, "absent")
    /\ name.part # None
    /\ caller' = [caller EXCEPT ![c].fd = name.part, ![c].pc = "request"]
    /\ UNCHANGED <<referenced, disk, lock, foreign, crashes>>

\* The partial is created, or taken up if it is not too long and has no other
\* name; one that is complete is not asked for again.
OpenPart(c) ==
    /\ At(c, "absent")
    /\ \/ /\ name.part = None
          /\ \E i \in Unused :
                /\ name' = [name EXCEPT !.part = i]
                /\ data' = [data EXCEPT ![i] = <<>>]
                /\ caller' = [caller EXCEPT ![c].fd = i, ![c].pc = "request"]
       \/ /\ name.part # None
          /\ Len(data[name.part]) > Size \/ name.part = name.dest
          /\ Leave(c, "failed")
          /\ UNCHANGED <<name, data>>
       \/ /\ name.part # None
          /\ Len(data[name.part]) <= Size
          /\ name.part # name.dest
          /\ caller' = [caller EXCEPT ![c].fd = name.part,
                            ![c].pc = IF Whole(name.part) THEN "verify" ELSE "request"]
          /\ UNCHANGED <<name, data>>
    /\ UNCHANGED <<referenced, onDisk, settled, lock, foreign, crashes>>

\* 206 continues at the offset asked for, 200 starts again and truncates.
Answer(c) ==
    /\ At(c, "request")
    /\ \E s \in {<<>>, data[caller[c].fd]} : data' = [data EXCEPT ![caller[c].fd] = s]
    /\ settled' = settled \ {caller[c].fd}
    /\ Goto(c, "receive")
    /\ UNCHANGED <<referenced, name, onDisk, lock, foreign, crashes>>

\* Units arrive, from any version of the file, while there is room for them.
Receive(c) ==
    /\ At(c, "receive")
    /\ Len(data[caller[c].fd]) < Size
    /\ \E b \in Bodies : data' = [data EXCEPT ![caller[c].fd] = Append(@, b)]
    /\ UNCHANGED <<referenced, name, onDisk, settled, lock, caller, foreign, crashes>>

\* The response ends where it should.
Received(c) ==
    /\ At(c, "receive")
    /\ Whole(caller[c].fd)
    /\ Goto(c, "verify")
    /\ UNCHANGED <<referenced, disk, lock, foreign, crashes>>

\* A partial that fails the check is kept.
Verify(c) ==
    /\ At(c, "verify")
    /\ \/ Passes(caller[c].fd) /\ Goto(c, "sync")
       \/ ~Passes(caller[c].fd) /\ Leave(c, "failed")
    /\ UNCHANGED <<referenced, disk, lock, foreign, crashes>>

\* Mutant of Sync: the content is left to the operating system.
SyncNothing(c) ==
    /\ At(c, "sync")
    /\ Goto(c, "link")
    /\ UNCHANGED <<referenced, disk, lock, foreign, crashes>>

\* os.fsync(part)
Sync(c) ==
    /\ At(c, "sync")
    /\ settled' = settled \cup {caller[c].fd}
    /\ Goto(c, "link")
    /\ UNCHANGED <<referenced, name, onDisk, data, lock, foreign, crashes>>

\* Mutant of Link: rename, which replaces an existing destination.
LinkByRename(c) ==
    /\ At(c, "link")
    /\ name.part = caller[c].fd
    /\ name' = [name EXCEPT !.dest = name.part]
    /\ Goto(c, "unlink")
    /\ UNCHANGED <<referenced, onDisk, data, settled, lock, foreign, crashes>>

\* The path must still be the file that was checked; link refuses to replace.
Link(c) ==
    /\ At(c, "link")
    /\ \/ /\ name.part = caller[c].fd /\ name.dest = None
          /\ name' = [name EXCEPT !.dest = name.part]
          /\ Goto(c, "unlink")
       \/ /\ ~(name.part = caller[c].fd /\ name.dest = None)
          /\ Leave(c, "failed")
          /\ UNCHANGED name
    /\ UNCHANGED <<referenced, onDisk, data, settled, lock, foreign, crashes>>

Unlink(c) ==
    /\ At(c, "unlink")
    /\ name' = [name EXCEPT !.part = None]
    /\ Goto(c, "settle")
    /\ UNCHANGED <<referenced, onDisk, data, settled, lock, foreign, crashes>>

\* Mutant of SyncDirectory: the directory is not synced.
SyncNoDirectory(c) ==
    /\ At(c, "settle")
    /\ Leave(c, "downloaded")
    /\ UNCHANGED <<referenced, disk, lock, foreign, crashes>>

\* os.fsync(parent), and the call has its result.
SyncDirectory(c) ==
    /\ At(c, "settle")
    /\ onDisk' = name
    /\ Leave(c, "downloaded")
    /\ UNCHANGED <<referenced, name, data, settled, lock, foreign, crashes>>

\* Any system call or the server fails, a response is of the wrong kind or
\* length, or the disk is too full: the call fails where it is.
Fail(c) ==
    /\ caller[c].pc \in {"locked", "absent", "request", "receive", "verify", "sync",
                         "link", "unlink", "settle"}
    /\ Leave(c, "failed")
    /\ UNCHANGED <<referenced, disk, lock, foreign, crashes>>

\* The finally clause; a process that failed tries again while it has tries.
Unlock(c) ==
    /\ At(c, "unlock")
    /\ lock' = None
    /\ caller' = [caller EXCEPT
                     ![c].fd = None,
                     ![c].pc = IF caller[c].result = "failed" THEN "idle" ELSE "done",
                     ![c].tries = IF caller[c].result = "failed" THEN @ - 1 ELSE @]
    /\ UNCHANGED <<referenced, disk, foreign, crashes>>

Call(c) ==
    \/ Lock(c) \/ Find(c) \/ OpenPart(c) \/ Answer(c) \/ Receive(c) \/ Received(c)
    \/ Verify(c) \/ Sync(c) \/ Link(c) \/ Unlink(c) \/ SyncDirectory(c)
    \/ Fail(c) \/ Unlock(c)

-----------------------------------------------------------------------------
(* What else happens to the directory. *)

\* A process is killed, and leaves its lock and its partial.
Kill(c) ==
    /\ crashes < MaxCrashes
    /\ caller[c].pc \notin {"idle", "done", "dead"}
    /\ caller' = [caller EXCEPT ![c] = [Fresh EXCEPT !.pc = "dead"]]
    /\ crashes' = crashes + 1
    /\ UNCHANGED <<referenced, disk, lock, foreign>>

\* The machine loses power. What was not synced may or may not have reached
\* the disk: of a file's content a prefix, of the directory each entry.
PowerLoss ==
    /\ crashes < MaxCrashes
    /\ \E d \in {name.dest, onDisk.dest}, p \in {name.part, onDisk.part} :
          /\ name' = [dest |-> d, part |-> p]
          /\ onDisk' = name'
    /\ \E kept \in [Inodes -> 0..(Size + 1)] :
          /\ \A i \in Inodes :
                IF i \in settled THEN kept[i] = Len(data[i]) ELSE kept[i] <= Len(data[i])
          /\ data' = [i \in Inodes |-> SubSeq(data[i], 1, kept[i])]
    /\ settled' = Inodes
    /\ lock' \in {lock, None}
    /\ caller' = [c \in Callers |->
                     IF caller[c].pc = "done" THEN caller[c]
                     ELSE [Fresh EXCEPT !.pc = "dead"]]
    /\ crashes' = crashes + 1
    /\ UNCHANGED <<referenced, foreign>>

\* A script is started again once its lock is gone; until then it would find it,
\* as the other callers do.
Restart(c) ==
    /\ At(c, "dead")
    /\ lock # c
    /\ caller' = [caller EXCEPT ![c] = Fresh]
    /\ UNCHANGED <<referenced, disk, lock, foreign, crashes>>

\* Somebody sees that the process a lock names is gone, and removes the lock.
ReviewLock ==
    /\ lock # None
    /\ At(lock, "dead")
    /\ lock' = None
    /\ UNCHANGED <<referenced, disk, caller, foreign, crashes>>

\* Somebody reviews a complete file that fails the check, and removes it.
ReviewFile(f) ==
    /\ \A c \in Callers : caller[c].pc \in {"idle", "done", "dead"}
    /\ name[f] # None
    /\ Whole(name[f]) /\ ~Passes(name[f])
    /\ name' = [name EXCEPT ![f] = None]
    /\ UNCHANGED <<referenced, onDisk, data, settled, lock, caller, foreign, crashes>>

\* Another program, which knows nothing of locks, creates the destination.
OtherWriter ==
    /\ name.dest = None
    /\ foreign = {}
    /\ \E i \in Unused, b \in Bodies :
          /\ name' = [name EXCEPT !.dest = i]
          /\ data' = [data EXCEPT ![i] = [k \in 1..Size |-> b]]
          /\ foreign' = {i}
    /\ UNCHANGED <<referenced, onDisk, settled, lock, caller, crashes>>

Next ==
    \/ \E c \in Callers : Call(c) \/ Kill(c) \/ Restart(c)
    \/ PowerLoss
    \/ ReviewLock
    \/ \E f \in {"dest", "part"} : ReviewFile(f)
    \/ OtherWriter

Spec == Init /\ [][Next]_vars
-----------------------------------------------------------------------------
(* Properties. *)

Steps == {"idle", "locked", "absent", "request", "receive", "verify", "sync", "link",
          "unlink", "settle", "unlock", "done", "dead"}

Directory == [dest : Inodes \cup {None}, part : Inodes \cup {None}]

\* The type of every variable.
TypeOK ==
    /\ referenced \in BOOLEAN
    /\ name \in Directory
    /\ onDisk \in Directory
    /\ data \in [Inodes -> Contents]
    /\ settled \subseteq Inodes
    /\ lock \in Callers \cup {None}
    /\ caller \in [Callers -> [pc : Steps, fd : Inodes \cup {None}, tries : 0..Tries,
                              result : {"none", "failed", "skipped", "downloaded"}]]
    /\ foreign \subseteq Inodes
    /\ crashes \in 0..MaxCrashes

\* What _download publishes is complete and has the reference hash, over any
\* mixture of responses, resumed partials, kills, power losses and retries.
PublishedIsWhole ==
    name.dest # None /\ name.dest \notin foreign => Passes(name.dest)

\* A file at the destination, whoever's it is, is neither replaced nor removed
\* nor written to by a call ("no-clobber publication", download.py:1).
NeverClobbered ==
    [][ (\E c \in Callers : Call(c)) /\ name.dest # None =>
           /\ name'.dest = name.dest
           /\ data'[name.dest] = data[name.dest] ]_vars

\* A complete partial is never downloaded again nor thrown away by a call: it
\* stays as it is, for a review if need be, or becomes the destination
\* ("not an automatic destructive retry", download.py:5).
CompletePartialKept ==
    [][ (\E c \in Callers : Call(c)) /\ name.part # None /\ Whole(name.part) =>
           \/ name'.part = name.part /\ data'[name.part] = data[name.part]
           \/ name'.part = None /\ name'.dest = name.part ]_vars

Holding(c) == caller[c].pc \in Steps \ {"idle", "done", "dead", "locked", "absent", "unlock"}

\* A partial is open in one process at a time, and no longer open for writing
\* under the destination's name; locks left by dead processes are no exception.
PartialHasOneWriter ==
    /\ \A c, d \in Callers : c # d /\ Holding(c) /\ Holding(d) => caller[c].fd # caller[d].fd
    /\ \A c \in Callers : caller[c].pc \in {"request", "receive"} => caller[c].fd # name.dest

\* A call that has reported its download reported a file that is there for
\* good, whatever happens to the machine afterwards.
ReportedIsDurable ==
    \A c \in Callers :
        At(c, "done") /\ caller[c].result = "downloaded" =>
            name.dest # None /\ Passes(name.dest)
=============================================================================
