--------------------------- MODULE Download_proofs ---------------------------
(***************************************************************************)
(* Theorems about Download, for any number of processes, tries, kills and  *)
(* power losses, any size and any versions of the file.                    *)
(***************************************************************************)
EXTENDS Download, SequenceTheorems, TLAPS

-----------------------------------------------------------------------------
(* The inductive invariant.                                                *)

Active(c) == caller[c].pc \notin {"idle", "done", "dead"}

\* The lock is held by the one process that is at work, which has a try left.
Exclusive == \A c \in Callers : Active(c) => lock = c /\ caller[c].tries > 0

\* What a process has in hand at each place.
InHand(c) ==
    /\ caller[c].pc \in {"request", "receive", "verify", "sync", "link"} =>
          /\ caller[c].fd \in Inodes
          /\ name.part = caller[c].fd
          /\ name.dest # caller[c].fd
    /\ caller[c].pc = "request" => ~Whole(caller[c].fd)
    /\ caller[c].pc \in {"sync", "link", "unlink", "settle"} => Passes(caller[c].fd)
    /\ caller[c].pc \in {"link", "unlink", "settle"} => caller[c].fd \in settled
    /\ caller[c].pc \in {"unlink", "settle"} =>
          caller[c].fd \in Inodes /\ name.dest = caller[c].fd
    /\ caller[c].pc = "unlink" => name.part = caller[c].fd

Hands == \A c \in Callers : InHand(c)

\* A file that passes the check, now and after a power loss.
Lasting(i) == Passes(i) /\ i \in settled

Published ==
    /\ name.dest \notin foreign \cup {None} => Lasting(name.dest)
    /\ onDisk.dest \notin foreign \cup {None} => name.dest = onDisk.dest

Reported ==
    \A c \in Callers :
        caller[c].pc \in {"unlock", "done"} /\ caller[c].result = "downloaded" =>
            /\ name.dest # None
            /\ onDisk.dest = name.dest
            /\ Lasting(name.dest)

IInv == TypeOK /\ Exclusive /\ Hands /\ Published /\ Reported

-----------------------------------------------------------------------------
(* Contents.                                                               *)

LEMMA ContentsSeq ==
    ASSUME DownloadAssumption
    PROVE  /\ \A s \in Contents : s \in Seq(Bodies) /\ Len(s) \in 0..(Size + 1)
           /\ \A s \in Seq(Bodies) : Len(s) =< Size + 1 => s \in Contents
<1>1. ASSUME NEW s \in Contents
      PROVE  s \in Seq(Bodies) /\ Len(s) \in 0..(Size + 1)
  <2>1. PICK n \in 0..(Size + 1) : s \in [1..n -> Bodies]
    BY DEF Contents
  <2>2. n \in Nat
    BY DEF DownloadAssumption
  <2>3. s \in Seq(Bodies)
    BY <2>1, <2>2, SeqDef
  <2>4. DOMAIN s = 1..n /\ DOMAIN s = 1..Len(s) /\ Len(s) \in Nat
    BY <2>1, <2>3, LenProperties
  <2>5. Len(s) = n
    BY <2>2, <2>4
  <2>6. QED
    BY <2>3, <2>5
<1>2. ASSUME NEW s \in Seq(Bodies), Len(s) =< Size + 1
      PROVE  s \in Contents
  <2>1. s \in [1..Len(s) -> Bodies] /\ Len(s) \in Nat
    BY LenProperties
  <2>2. Len(s) \in 0..(Size + 1)
    BY <1>2, <2>1 DEF DownloadAssumption
  <2>3. QED
    BY <2>1, <2>2 DEF Contents
<1>3. QED
  BY <1>1, <1>2

\* The contents a step leaves: none, one unit more, a prefix, or another's.
LEMMA ContentsSteps ==
    ASSUME DownloadAssumption
    PROVE  /\ <<>> \in Contents /\ Len(<<>>) = 0
           /\ \A s \in Contents, b \in Bodies :
                 Len(s) < Size => Append(s, b) \in Contents
           /\ \A s \in Contents, k \in 0..(Size + 1) :
                 k =< Len(s) => /\ SubSeq(s, 1, k) \in Contents
                                /\ k = Len(s) => SubSeq(s, 1, k) = s
           /\ \A b \in Bodies : [k \in 1..Size |-> b] \in Contents
<1>1. <<>> \in Contents /\ Len(<<>>) = 0
  <2>1. <<>> \in Seq(Bodies) /\ Len(<<>>) = 0
    BY EmptySeq
  <2>2. 0 =< Size + 1
    BY DEF DownloadAssumption
  <2>3. QED
    BY <2>1, <2>2, ContentsSeq
<1>2. ASSUME NEW s \in Contents, NEW b \in Bodies, Len(s) < Size
      PROVE  Append(s, b) \in Contents
  <2>1. s \in Seq(Bodies) /\ Len(s) \in Nat
    BY ContentsSeq
  <2>2. Append(s, b) \in Seq(Bodies) /\ Len(Append(s, b)) = Len(s) + 1
    BY <2>1
  <2>3. Len(Append(s, b)) =< Size + 1
    BY <1>2, <2>1, <2>2 DEF DownloadAssumption
  <2>4. QED
    BY <2>2, <2>3, ContentsSeq
<1>3. ASSUME NEW s \in Contents, NEW k \in 0..(Size + 1), k =< Len(s)
      PROVE  /\ SubSeq(s, 1, k) \in Contents
             /\ k = Len(s) => SubSeq(s, 1, k) = s
  <2>1. s \in Seq(Bodies) /\ Len(s) \in 0..(Size + 1)
    BY ContentsSeq
  <2>2. 1 \in Int /\ k \in Int /\ Size \in Nat
    BY DEF DownloadAssumption
  <2>3. \A i \in 1..k : s[i] \in Bodies
    BY <1>3, <2>1, <2>2, ElementOfSeq
  <2>4. SubSeq(s, 1, k) \in Seq(Bodies)
        /\ Len(SubSeq(s, 1, k)) = (IF 1 <= k THEN k - 1 + 1 ELSE 0)
    BY <2>2, <2>3, SubSeqProperties
  <2>5. Len(SubSeq(s, 1, k)) =< Size + 1
    BY <2>2, <2>4
  <2>6. SubSeq(s, 1, k) \in Contents
    BY <2>4, <2>5, ContentsSeq
  <2>7. SubSeq(s, 1, Len(s)) = s
    BY <2>1, SubSeqFull
  <2>8. QED
    BY <2>6, <2>7
<1>4. \A b \in Bodies : [k \in 1..Size |-> b] \in Contents
  BY DEF Contents, DownloadAssumption
<1>5. QED
  BY <1>1, <1>2, <1>3, <1>4

-----------------------------------------------------------------------------
(* Type correctness.                                                       *)

Process ==
    [pc : Steps, fd : Inodes \cup {None}, tries : 0..Tries,
     result : {"none", "failed", "skipped", "downloaded"}]

LEMMA InitType == DownloadAssumption /\ Init => TypeOK
<1> SUFFICES ASSUME DownloadAssumption, Init PROVE TypeOK
  OBVIOUS
<1>1. data \in [Inodes -> Contents] /\ name \in Directory
  BY ContentsSteps DEF Init, Directory
<1>2. caller \in [Callers -> Process]
  BY DEF Init, Fresh, Steps, Process, DownloadAssumption
<1>3. QED
  BY <1>1, <1>2 DEF Init, TypeOK, Process, DownloadAssumption

LEMMA Moves ==
    ASSUME TypeOK, NEW c \in Callers, NEW pc \in Steps, NEW fd \in Inodes \cup {None}
    PROVE  /\ [caller EXCEPT ![c].pc = pc] \in [Callers -> Process]
           /\ [caller EXCEPT ![c].fd = fd, ![c].pc = pc] \in [Callers -> Process]
           /\ [caller EXCEPT ![c].pc = "unlock", ![c].result = "failed"]
                 \in [Callers -> Process]
<1>1. caller \in [Callers -> Process]
  BY DEF TypeOK, Process
<1>2. [caller EXCEPT ![c].pc = pc] \in [Callers -> Process]
  BY <1>1 DEF Process
<1>3. [[caller[c] EXCEPT !.fd = fd] EXCEPT !.pc = pc] \in Process
  BY <1>1 DEF Process
<1>4. [caller EXCEPT ![c].fd = fd, ![c].pc = pc] \in [Callers -> Process]
  BY <1>1, <1>3
<1>5. [[caller[c] EXCEPT !.pc = "unlock"] EXCEPT !.result = "failed"] \in Process
  BY <1>1 DEF Process, Steps
<1>6. QED
  BY <1>1, <1>2, <1>4, <1>5

\* A process moves on without touching anything but its own state.
LEMMA CallType ==
    ASSUME DownloadAssumption, IInv, NEW c \in Callers, Call(c)
    PROVE  TypeOK'
<1> USE DEF IInv, TypeOK, Steps, Directory, disk, Goto, Leave, At
<1>1. CASE Lock(c)
  BY <1>1 DEF Lock, DownloadAssumption
<1>2. CASE Find(c) \/ Received(c) \/ Verify(c) \/ Fail(c)
  BY <1>2 DEF Find, Received, Verify, Fail
<1>3. CASE OpenPart(c)
  <2>1. CASE name.part # None
    <3>1. \/ Leave(c, "failed")
          \/ \E pc \in {"verify", "request"} :
                caller' = [caller EXCEPT ![c].fd = name.part, ![c].pc = pc]
      BY <1>3, <2>1 DEF OpenPart
    <3>2. caller' \in [Callers -> Process]
      <4>1. CASE Leave(c, "failed")
        BY <4>1, Moves
      <4>2. CASE \E pc \in {"verify", "request"} :
                caller' = [caller EXCEPT ![c].fd = name.part, ![c].pc = pc]
        <5>1. PICK pc \in {"verify", "request"} :
                 caller' = [caller EXCEPT ![c].fd = name.part, ![c].pc = pc]
          BY <4>2
        <5>2. pc \in Steps /\ name.part \in Inodes \cup {None}
          OBVIOUS
        <5>3. QED
          BY <5>1, <5>2, Moves
      <4>3. QED
        BY <3>1, <4>1, <4>2
    <3>3. QED
      BY <1>3, <2>1, <3>2 DEF OpenPart, Process
  <2>2. CASE name.part = None
    <3>1. PICK i \in Unused :
             /\ name' = [name EXCEPT !.part = i]
             /\ data' = [data EXCEPT ![i] = <<>>]
             /\ caller' = [caller EXCEPT ![c].fd = i, ![c].pc = "request"]
      BY <1>3, <2>2 DEF OpenPart
    <3>2. i \in Inodes
      BY DEF Unused
    <3>3. data' \in [Inodes -> Contents]
      BY <3>1, ContentsSteps
    <3>4. caller' \in [Callers -> Process]
      BY <3>1, <3>2, Moves
    <3>5. QED
      BY <1>3, <3>1, <3>2, <3>3, <3>4 DEF OpenPart, Process
  <2>3. QED
    BY <2>1, <2>2
<1>4. CASE Answer(c)
  <2>1. data' \in [Inodes -> Contents]
    BY <1>4, ContentsSteps DEF Answer, Hands, InHand
  <2>2. caller' \in [Callers -> Process]
    BY <1>4, Moves DEF Answer
  <2>3. QED
    BY <1>4, <2>1, <2>2 DEF Answer, Process
<1>5. CASE Receive(c)
  <2>1. data' \in [Inodes -> Contents]
    BY <1>5, ContentsSteps DEF Receive, Hands, InHand
  <2>2. QED
    BY <1>5, <2>1 DEF Receive
<1>6. CASE Sync(c)
  BY <1>6 DEF Sync, Hands, InHand
<1>7. CASE Link(c) \/ Unlink(c) \/ SyncDirectory(c)
  BY <1>7 DEF Link, Unlink, SyncDirectory
<1>8. CASE Unlock(c)
  BY <1>8 DEF Unlock, Exclusive, Active, DownloadAssumption
<1>9. QED
  BY <1>1, <1>2, <1>3, <1>4, <1>5, <1>6, <1>7, <1>8 DEF Call

LEMMA NextType ==
    ASSUME DownloadAssumption, IInv, [Next]_vars
    PROVE  TypeOK'
<1> USE DEF IInv, TypeOK, Steps, Directory, disk, At
<1>1. ASSUME NEW c \in Callers, Kill(c)
      PROVE  TypeOK'
  BY <1>1 DEF Kill, Fresh, DownloadAssumption
<1>2. ASSUME NEW c \in Callers, Restart(c)
      PROVE  TypeOK'
  BY <1>2 DEF Restart, Fresh, DownloadAssumption
<1>3. CASE PowerLoss
  <2>1. data' \in [Inodes -> Contents]
    <3>1. PICK kept \in [Inodes -> 0..(Size + 1)] :
             /\ \A i \in Inodes :
                   IF i \in settled THEN kept[i] = Len(data[i]) ELSE kept[i] <= Len(data[i])
             /\ data' = [i \in Inodes |-> SubSeq(data[i], 1, kept[i])]
      BY <1>3 DEF PowerLoss
    <3>2. ASSUME NEW i \in Inodes
          PROVE  kept[i] \in 0..(Size + 1) /\ kept[i] =< Len(data[i])
                 /\ data[i] \in Contents
      BY <3>1, ContentsSeq
    <3>3. QED
      BY <3>1, <3>2, ContentsSteps
  <2>2. caller' \in [Callers -> Process]
    <3>1. [Fresh EXCEPT !.pc = "dead"] \in Process
      BY DEF Fresh, Process, DownloadAssumption
    <3>2. QED
      BY <1>3, <3>1 DEF PowerLoss, Process
  <2>3. name' \in Directory /\ onDisk' \in Directory
    BY <1>3 DEF PowerLoss
  <2>4. crashes' \in 0..MaxCrashes
    BY <1>3 DEF PowerLoss, DownloadAssumption
  <2>5. QED
    BY <1>3, <2>1, <2>2, <2>3, <2>4 DEF PowerLoss, Process
<1>4. CASE ReviewLock
  BY <1>4 DEF ReviewLock
<1>5. ASSUME NEW f \in {"dest", "part"}, ReviewFile(f)
      PROVE  TypeOK'
  BY <1>5 DEF ReviewFile
<1>6. CASE OtherWriter
  <2>1. PICK i \in Unused, b \in Bodies :
           /\ name' = [name EXCEPT !.dest = i]
           /\ data' = [data EXCEPT ![i] = [k \in 1..Size |-> b]]
           /\ foreign' = {i}
    BY <1>6 DEF OtherWriter
  <2>2. i \in Inodes
    BY DEF Unused
  <2>3. [k \in 1..Size |-> b] \in Contents
    BY ContentsSteps
  <2>4. data' \in [Inodes -> Contents]
    BY <2>1, <2>3
  <2>5. QED
    BY <1>6, <2>1, <2>2, <2>4 DEF OtherWriter
<1>7. CASE UNCHANGED vars
  BY <1>7 DEF vars
<1>8. QED
  BY <1>1, <1>2, <1>3, <1>4, <1>5, <1>6, <1>7, CallType DEF Next

-----------------------------------------------------------------------------
(* One process is at work.                                                 *)

\* What a call makes of the lock and of the process, whatever else it does.
LEMMA CallShape ==
    ASSUME DownloadAssumption, IInv, NEW c \in Callers, Call(c)
    PROVE  /\ \A d \in Callers : d # c => caller'[d] = caller[d]
           /\ UNCHANGED <<referenced, foreign>>
           /\ Active(c) \/ Lock(c)
<1> USE DEF IInv, TypeOK, disk, Goto, Leave, At
<1>1. \A d \in Callers : d # c => caller'[d] = caller[d]
  BY DEF Call, Lock, Find, OpenPart, Answer, Receive, Received, Verify, Sync, Link, Unlink,
         SyncDirectory, Fail, Unlock
<1>2. UNCHANGED <<referenced, foreign>>
  BY DEF Call, Lock, Find, OpenPart, Answer, Receive, Received, Verify, Sync, Link, Unlink,
         SyncDirectory, Fail, Unlock
<1>3. Active(c) \/ Lock(c)
  BY DEF Call, Lock, Find, OpenPart, Answer, Receive, Received, Verify, Sync, Link, Unlink,
         SyncDirectory, Fail, Unlock, Active
<1>4. QED
  BY <1>1, <1>2, <1>3

LEMMA CallExclusive ==
    ASSUME DownloadAssumption, IInv, NEW c \in Callers, Call(c)
    PROVE  Exclusive'
<1> USE DEF IInv, TypeOK, disk, Goto, Leave, At
<1>1. CASE Lock(c)
  BY <1>1 DEF Lock, Exclusive, Active, DownloadAssumption
<1>2. CASE Unlock(c)
  BY <1>2 DEF Unlock, Exclusive, Active, DownloadAssumption
<1>3. CASE ~Lock(c) /\ ~Unlock(c)
  <2>1. Active(c) /\ UNCHANGED lock /\ caller'[c].tries = caller[c].tries
    <3>1. CASE Find(c) \/ Answer(c) \/ Receive(c) \/ Received(c)
      BY <3>1 DEF Find, Answer, Receive, Received, Active
    <3>2. CASE OpenPart(c)
      <4>1. Active(c) /\ UNCHANGED lock
        BY <3>2 DEF OpenPart, Active
      <4>2. \/ \E fd, pc : caller' = [caller EXCEPT ![c].fd = fd, ![c].pc = pc]
            \/ Leave(c, "failed")
        BY <3>2 DEF OpenPart
      <4>3. CASE Leave(c, "failed")
        <5>1. caller'[c].tries = caller[c].tries
          BY <4>3
        <5>2. QED
          BY <4>1, <5>1
      <4>4. CASE \E fd, pc : caller' = [caller EXCEPT ![c].fd = fd, ![c].pc = pc]
        <5>1. PICK fd, pc : caller' = [caller EXCEPT ![c].fd = fd, ![c].pc = pc]
          BY <4>4
        <5>2. caller'[c].tries = caller[c].tries
          BY <5>1
        <5>3. QED
          BY <4>1, <5>2
      <4>5. QED
        BY <4>2, <4>3, <4>4
    <3>3. CASE Verify(c) \/ Sync(c) \/ Link(c)
      BY <3>3 DEF Verify, Sync, Link, Active
    <3>4. CASE Unlink(c) \/ SyncDirectory(c) \/ Fail(c)
      BY <3>4 DEF Unlink, SyncDirectory, Fail, Active
    <3>5. QED
      BY <1>3, <3>1, <3>2, <3>3, <3>4 DEF Call
  <2>2. QED
    BY <2>1, CallShape DEF Exclusive, Active
<1>4. QED
  BY <1>1, <1>2, <1>3

LEMMA NextExclusive ==
    ASSUME DownloadAssumption, IInv, [Next]_vars
    PROVE  Exclusive'
<1> USE DEF IInv, TypeOK, disk, At, Exclusive, Active
<1>1. ASSUME NEW c \in Callers, Kill(c)
      PROVE  Exclusive'
  BY <1>1 DEF Kill, Fresh
<1>2. ASSUME NEW c \in Callers, Restart(c)
      PROVE  Exclusive'
  BY <1>2 DEF Restart, Fresh
<1>3. CASE PowerLoss
  BY <1>3 DEF PowerLoss, Fresh
<1>4. CASE ReviewLock
  BY <1>4 DEF ReviewLock
<1>5. ASSUME NEW f \in {"dest", "part"}, ReviewFile(f)
      PROVE  Exclusive'
  BY <1>5 DEF ReviewFile
<1>6. CASE OtherWriter \/ UNCHANGED vars
  BY <1>6 DEF OtherWriter, vars
<1>7. QED
  BY <1>1, <1>2, <1>3, <1>4, <1>5, <1>6, CallExclusive DEF Next

-----------------------------------------------------------------------------
(* The disk, step by step.                                                 *)

Shown == Hands /\ Published /\ Reported

\* Whatever one process does, the others are not at work and have nothing in hand.
LEMMA HandsOfOne ==
    ASSUME IInv, NEW c \in Callers, Active(c), InHand(c)',
           \A d \in Callers : d # c => caller'[d] = caller[d]
    PROVE  Hands'
<1>1. \A d \in Callers : d # c => ~Active(d)
  BY DEF IInv, Exclusive
<1>2. ASSUME NEW d \in Callers, d # c
      PROVE  InHand(d)'
  BY <1>1, <1>2 DEF InHand, Active
<1>3. QED
  BY <1>2 DEF Hands

\* A step that touches nothing on the disk.
LEMMA ProcessStep ==
    ASSUME IInv, NEW c \in Callers, UNCHANGED <<referenced, disk, foreign>>,
           \A d \in Callers : d # c => caller'[d] = caller[d],
           InHand(c)',
           ~(caller'[c].pc \in {"unlock", "done"} /\ caller'[c].result = "downloaded")
               \/ (caller[c].pc \in {"unlock", "done"} /\ caller[c].result = "downloaded")
    PROVE  Shown'
<1> USE DEF disk, Whole, Passes, Lasting
<1>1. ASSUME NEW d \in Callers, d # c
      PROVE  InHand(d)'
  BY <1>1 DEF IInv, Hands, InHand
<1>2. Hands'
  BY <1>1 DEF Hands
<1>3. Published'
  BY DEF IInv, Published
<1>4. Reported'
  BY DEF IInv, Reported
<1>5. QED
  BY <1>2, <1>3, <1>4 DEF Shown

LEMMA QuietShown ==
    ASSUME DownloadAssumption, IInv, NEW c \in Callers,
           Lock(c) \/ Find(c) \/ Received(c) \/ Verify(c) \/ Fail(c) \/ Unlock(c)
    PROVE  Shown'
<1> USE DEF At, Goto, Leave, TypeOK, disk
<1> DEFINE d == caller'[c]
<1>1. \A e \in Callers : e # c => caller'[e] = caller[e]
  BY DEF IInv, Lock, Find, Received, Verify, Fail, Unlock
<1>2. UNCHANGED <<referenced, disk, foreign>>
  BY DEF Lock, Find, Received, Verify, Fail, Unlock
<1>3. InHand(c)'
  <2>1. CASE Lock(c) \/ Find(c) \/ Fail(c) \/ Unlock(c)
    <3>1. caller'[c].pc \in {"idle", "locked", "absent", "unlock", "done"}
      BY <2>1 DEF IInv, Lock, Find, Fail, Unlock
    <3>2. QED
      BY <3>1 DEF InHand
  <2>2. CASE Received(c)
    BY <2>2 DEF IInv, Hands, InHand, Received, Whole
  <2>3. CASE Verify(c)
    BY <2>3 DEF IInv, Hands, InHand, Verify, Passes, Whole
  <2>4. QED
    BY <2>1, <2>2, <2>3
<1>4. ~(caller'[c].pc \in {"unlock", "done"} /\ caller'[c].result = "downloaded")
               \/ (caller[c].pc \in {"unlock", "done"} /\ caller[c].result = "downloaded")
  BY DEF IInv, Lock, Find, Received, Verify, Fail, Unlock
<1>5. QED
  BY <1>1, <1>2, <1>3, <1>4, ProcessStep

\* The owner of a file that is not the destination writes to it.
LEMMA WriteShown ==
    ASSUME DownloadAssumption, IInv, NEW c \in Callers, Active(c), NEW i \in Inodes, NEW s,
           data' = [data EXCEPT ![i] = s],
           i # name.dest,
           settled' \in {settled, settled \ {i}},
           name'.dest = name.dest, UNCHANGED <<referenced, onDisk, foreign>>,
           \A d \in Callers : d # c => caller'[d] = caller[d],
           InHand(c)',
           caller'[c].pc \notin {"unlock", "done"}
    PROVE  Shown'
<1> USE DEF Whole, Passes, Lasting
<1>1. Hands'
  BY HandsOfOne
<1>2. \A j \in Inodes : j # i => data'[j] = data[j] /\ (j \in settled' <=> j \in settled)
  BY DEF IInv, TypeOK
<1>3. name.dest \in Inodes \cup {None}
  BY DEF IInv, TypeOK, Directory
<1>4. Published'
  BY <1>2, <1>3 DEF IInv, Published
<1>5. Reported'
  BY <1>2, <1>3 DEF IInv, Reported
<1>6. QED
  BY <1>1, <1>4, <1>5 DEF Shown

LEMMA OpenPartShown ==
    ASSUME DownloadAssumption, IInv, NEW c \in Callers, OpenPart(c)
    PROVE  Shown'
<1> USE DEF At, Goto, Leave, disk
<1>1. /\ Active(c) /\ caller \in [Callers -> Process]
      /\ \A d \in Callers : d # c => caller'[d] = caller[d]
      /\ UNCHANGED <<referenced, onDisk, settled, foreign>>
      /\ name \in Directory
  BY CallShape DEF OpenPart, Active, Call, IInv, TypeOK, Process
<1>2. CASE name.part = None
  <2>1. PICK i \in Unused :
           /\ name' = [name EXCEPT !.part = i]
           /\ data' = [data EXCEPT ![i] = <<>>]
           /\ caller' = [caller EXCEPT ![c].fd = i, ![c].pc = "request"]
    BY <1>2 DEF OpenPart
  <2>2. /\ i \in Inodes /\ i # name.dest
        /\ name'.dest = name.dest /\ name'.part = i
        /\ caller'[c].fd = i /\ caller'[c].pc = "request"
    BY <1>1, <2>1 DEF Unused, Directory, Process
  <2>3. data'[i] = <<>> /\ Len(<<>>) # Size
    BY <2>1, <2>2, ContentsSteps DEF IInv, TypeOK, DownloadAssumption
  <2>4. InHand(c)'
    BY <2>2, <2>3 DEF InHand, Whole
  <2>5. QED
    BY <1>1, <2>1, <2>2, <2>4, WriteShown
<1>3. CASE name.part # None
  <2>1. UNCHANGED <<name, data>>
    BY <1>3 DEF OpenPart
  <2>2. CASE Leave(c, "failed")
    <3>1. caller'[c].pc = "unlock" /\ caller'[c].result = "failed"
      BY <1>1, <2>2 DEF Process
    <3>2. QED
      BY <1>1, <2>1, <3>1, ProcessStep DEF InHand
  <2>3. CASE /\ name.part # name.dest
             /\ caller' = [caller EXCEPT ![c].fd = name.part,
                            ![c].pc = IF Whole(name.part) THEN "verify" ELSE "request"]
    <3>1. caller'[c].fd = name.part
          /\ caller'[c].pc = IF Whole(name.part) THEN "verify" ELSE "request"
      BY <1>1, <2>3 DEF Process
    <3>2. name.part \in Inodes
      BY <1>1, <1>3 DEF Directory
    <3>3. InHand(c)'
      BY <2>1, <2>3, <3>1, <3>2 DEF InHand, Whole
    <3>4. QED
      BY <1>1, <2>1, <3>1, <3>3, ProcessStep
  <2>4. QED
    BY <1>3, <2>2, <2>3 DEF OpenPart
<1>4. QED
  BY <1>2, <1>3

LEMMA AnswerShown ==
    ASSUME DownloadAssumption, IInv, NEW c \in Callers, Answer(c) \/ Receive(c)
    PROVE  Shown'
<1> USE DEF At, Goto
<1> DEFINE i == caller[c].fd
<1>1. PICK s : data' = [data EXCEPT ![i] = s]
  BY DEF Answer, Receive
<1>2. /\ Active(c) /\ i \in Inodes /\ name.part = i /\ i # name.dest
      /\ settled' \in {settled, settled \ {i}}
      /\ UNCHANGED <<name, referenced, onDisk, foreign>>
      /\ caller'[c].pc = "receive" /\ caller'[c].fd = i
      /\ \A d \in Callers : d # c => caller'[d] = caller[d]
  BY DEF Answer, Receive, Active, IInv, Hands, InHand, TypeOK
<1>3. InHand(c)'
  BY <1>2 DEF InHand
<1>4. QED
  BY <1>1, <1>2, <1>3, WriteShown

LEMMA SyncShown ==
    ASSUME DownloadAssumption, IInv, NEW c \in Callers, Sync(c)
    PROVE  Shown'
<1> USE DEF At, Goto, Whole, Passes, Lasting
<1>1. /\ Active(c) /\ UNCHANGED <<name, data, referenced, onDisk, foreign>>
      /\ settled \subseteq settled' /\ caller[c].fd \in settled'
      /\ caller'[c].pc = "link" /\ caller'[c].fd = caller[c].fd
      /\ \A d \in Callers : d # c => caller'[d] = caller[d]
  BY DEF Sync, Active, IInv, TypeOK
<1>2. InHand(c)'
  BY <1>1 DEF InHand, IInv, Hands, Sync
<1>3. Hands'
  BY <1>1, <1>2, HandsOfOne
<1>4. QED
  BY <1>1, <1>3 DEF Shown, IInv, Published, Reported

LEMMA LinkShown ==
    ASSUME DownloadAssumption, IInv, NEW c \in Callers, Link(c)
    PROVE  Shown'
<1> USE DEF At, Goto, Leave
<1>1. /\ Active(c) /\ UNCHANGED <<data, settled, referenced, onDisk, foreign>>
      /\ \A d \in Callers : d # c => caller'[d] = caller[d]
      /\ name.part = caller[c].fd /\ caller[c].fd \in Inodes
      /\ Lasting(caller[c].fd)
  BY DEF Link, Active, IInv, TypeOK, Hands, InHand, Lasting
<1>2. CASE name.dest = None
  <2>1. /\ name'.dest = caller[c].fd /\ name'.part = caller[c].fd
        /\ caller'[c].pc = "unlink" /\ caller'[c].fd = caller[c].fd
    BY <1>1, <1>2 DEF Link, IInv, TypeOK, Directory
  <2>2. InHand(c)'
    BY <1>1, <2>1 DEF InHand, Lasting, Passes, Whole
  <2>3. Hands'
    BY <1>1, <2>2, HandsOfOne
  <2>4. Published'
    BY <1>1, <1>2, <2>1 DEF IInv, Published, Lasting, Passes, Whole
  <2>5. Reported'
    BY <1>1, <1>2, <2>1 DEF IInv, Reported
  <2>6. QED
    BY <2>3, <2>4, <2>5 DEF Shown
<1>3. CASE name.dest # None
  <2>1. caller'[c].pc = "unlock" /\ caller'[c].result = "failed" /\ UNCHANGED name
    BY <1>3 DEF Link, IInv, TypeOK
  <2>2. QED
    BY <1>1, <2>1, ProcessStep DEF InHand, disk
<1>4. QED
  BY <1>2, <1>3

LEMMA UnlinkShown ==
    ASSUME DownloadAssumption, IInv, NEW c \in Callers, Unlink(c)
    PROVE  Shown'
<1> USE DEF At, Goto, Whole, Passes, Lasting
<1>1. /\ Active(c) /\ UNCHANGED <<data, settled, referenced, onDisk, foreign>>
      /\ \A d \in Callers : d # c => caller'[d] = caller[d]
      /\ name'.dest = name.dest
      /\ caller'[c].pc = "settle" /\ caller'[c].fd = caller[c].fd
  BY DEF Unlink, Active, IInv, TypeOK, Directory
<1>2. InHand(c)'
  BY <1>1 DEF InHand, IInv, Hands, Unlink
<1>3. Hands'
  BY <1>1, <1>2, HandsOfOne
<1>4. QED
  BY <1>1, <1>3 DEF Shown, IInv, Published, Reported

LEMMA SyncDirectoryShown ==
    ASSUME DownloadAssumption, IInv, NEW c \in Callers, SyncDirectory(c)
    PROVE  Shown'
<1> USE DEF At, Leave, Whole, Passes, Lasting
<1>1. /\ Active(c) /\ UNCHANGED <<name, data, settled, referenced, foreign>>
      /\ \A d \in Callers : d # c => caller'[d] = caller[d]
      /\ onDisk' = name
      /\ caller'[c].pc = "unlock"
      /\ name.dest = caller[c].fd /\ caller[c].fd \in Inodes
      /\ Lasting(caller[c].fd)
  BY DEF SyncDirectory, Active, IInv, TypeOK, Hands, InHand
<1>2. InHand(c)'
  BY <1>1 DEF InHand
<1>3. Hands'
  BY <1>1, <1>2, HandsOfOne
<1>4. Published'
  BY <1>1 DEF IInv, Published
<1>5. name.dest # None
  BY <1>1 DEF DownloadAssumption
<1>6. Reported'
  BY <1>1, <1>5 DEF Reported
<1>7. QED
  BY <1>3, <1>4, <1>6 DEF Shown

LEMMA CallShown ==
    ASSUME DownloadAssumption, IInv, NEW c \in Callers, Call(c)
    PROVE  Shown'
BY QuietShown, OpenPartShown, AnswerShown, SyncShown, LinkShown, UnlinkShown,
   SyncDirectoryShown DEF Call

LEMMA KillShown ==
    ASSUME IInv, NEW c \in Callers, Kill(c) \/ Restart(c)
    PROVE  Shown'
<1>1. /\ caller'[c].pc \in {"dead", "idle"}
      /\ \A d \in Callers : d # c => caller'[d] = caller[d]
      /\ UNCHANGED <<referenced, disk, foreign>>
  BY DEF Kill, Restart, Fresh, IInv, TypeOK
<1>2. QED
  BY <1>1, ProcessStep DEF InHand

\* Nobody is at work, so nobody has anything in hand.
LEMMA IdleHands ==
    ASSUME \A c \in Callers : caller'[c].pc \in {"idle", "done", "dead"}
    PROVE  Hands'
BY DEF Hands, InHand

LEMMA PowerLossShown ==
    ASSUME DownloadAssumption, IInv, PowerLoss
    PROVE  Shown'
<1>1. PICK kept \in [Inodes -> 0..(Size + 1)] :
         /\ \A i \in Inodes :
               IF i \in settled THEN kept[i] = Len(data[i]) ELSE kept[i] <= Len(data[i])
         /\ data' = [i \in Inodes |-> SubSeq(data[i], 1, kept[i])]
  BY DEF PowerLoss
<1>2. ASSUME NEW i \in settled
      PROVE  data'[i] = data[i]
  <2>1. i \in Inodes /\ data[i] \in Contents
    BY DEF IInv, TypeOK
  <2>2. data'[i] = SubSeq(data[i], 1, kept[i])
    BY <1>1, <2>1
  <2>3. kept[i] \in 0..(Size + 1) /\ kept[i] = Len(data[i])
    BY <1>1, <2>1
  <2>4. kept[i] =< Len(data[i])
    BY <2>3 DEF DownloadAssumption
  <2>5. QED
    BY <2>1, <2>2, <2>3, <2>4, ContentsSteps
<1>3. \A i \in settled : Lasting(i) => Lasting(i)'
  <2>1. settled' = Inodes /\ settled \subseteq Inodes /\ UNCHANGED referenced
    BY DEF PowerLoss, IInv, TypeOK
  <2>2. ASSUME NEW i \in settled, Lasting(i) PROVE Lasting(i)'
    BY <1>2, <2>1, <2>2 DEF Lasting, Passes, Whole
  <2>3. QED
    BY <2>2
<1>4. /\ name'.dest \in {name.dest, onDisk.dest} /\ onDisk' = name'
      /\ UNCHANGED foreign
  BY DEF PowerLoss
<1>5. ASSUME NEW c \in Callers
      PROVE  caller'[c].pc = "dead" \/ (caller[c].pc = "done" /\ caller'[c] = caller[c])
  BY DEF PowerLoss, Fresh
<1>6. Hands'
  BY <1>5, IdleHands
<1>7. Published'
  <2>1. ASSUME name'.dest \notin foreign \cup {None}
        PROVE  Lasting(name.dest) /\ name'.dest = name.dest
    BY <1>4, <2>1 DEF IInv, Published
  <2>2. ASSUME NEW d, d = name'.dest, d \notin foreign \cup {None}
        PROVE  Lasting(d)'
    BY <1>3, <2>1, <2>2 DEF Lasting
  <2>3. QED
    BY <1>4, <2>2 DEF Published, Lasting, Passes, Whole
<1>8. Reported'
  <2>1. ASSUME NEW c \in Callers, caller'[c].pc \in {"unlock", "done"},
               caller'[c].result = "downloaded"
        PROVE  /\ name.dest # None
               /\ name'.dest = name.dest
               /\ onDisk'.dest = name.dest
               /\ Lasting(name.dest)
    <3>1. caller[c].pc = "done" /\ caller[c].result = "downloaded"
      BY <1>5, <2>1
    <3>2. name.dest # None /\ onDisk.dest = name.dest /\ Lasting(name.dest)
      BY <3>1 DEF IInv, Reported
    <3>3. QED
      BY <1>4, <3>2
  <2>2. ASSUME NEW d, d = name.dest, Lasting(d)
        PROVE  Lasting(d)'
    BY <1>3, <2>2 DEF Lasting
  <2>3. QED
    BY <2>1, <2>2 DEF Reported, Lasting, Passes, Whole
<1>9. QED
  BY <1>6, <1>7, <1>8 DEF Shown

\* A review removes only what fails the check, and nobody is at work.
LEMMA ReviewShown ==
    ASSUME DownloadAssumption, IInv, NEW f \in {"dest", "part"}, ReviewFile(f)
    PROVE  Shown'
<1> USE DEF Whole, Passes, Lasting, At
<1>1. /\ UNCHANGED <<referenced, onDisk, data, settled, caller, foreign>>
      /\ \A c \in Callers : caller[c].pc \in {"idle", "done", "dead"}
      /\ name[f] # None /\ ~Passes(name[f])
      /\ name' = [name EXCEPT ![f] = None]
  BY DEF ReviewFile
<1>2. Hands'
  BY <1>1, IdleHands
<1>3. CASE f = "part"
  <2>1. name'.dest = name.dest
    BY <1>1, <1>3 DEF IInv, TypeOK, Directory
  <2>2. QED
    BY <1>1, <1>2, <2>1 DEF Shown, IInv, Published, Reported
<1>4. CASE f = "dest"
  <2>1. name'.dest = None /\ ~Passes(name.dest) /\ name.dest # None
    BY <1>1, <1>4 DEF IInv, TypeOK, Directory
  <2>2. Published'
    BY <1>1, <2>1 DEF IInv, Published
  <2>3. Reported'
    BY <1>1, <2>1 DEF IInv, Reported
  <2>4. QED
    BY <1>2, <2>2, <2>3 DEF Shown
<1>5. QED
  BY <1>3, <1>4

\* Another program creates the destination from a file nobody uses.
LEMMA OtherWriterShown ==
    ASSUME DownloadAssumption, IInv, OtherWriter
    PROVE  Shown'
<1> USE DEF Whole, Passes, Lasting
<1>1. PICK i \in Unused, b \in Bodies :
         /\ name' = [name EXCEPT !.dest = i]
         /\ data' = [data EXCEPT ![i] = [k \in 1..Size |-> b]]
         /\ foreign' = {i}
  BY DEF OtherWriter
<1>2. /\ UNCHANGED <<referenced, onDisk, settled, caller>>
      /\ name.dest = None /\ foreign = {}
      /\ name'.dest = i /\ name'.part = name.part
      /\ i \in Inodes /\ i # onDisk.dest /\ i # name.part
      /\ \A c \in Callers : i # caller[c].fd
      /\ \A j \in Inodes : j # i => data'[j] = data[j]
  BY <1>1 DEF OtherWriter, Unused, IInv, TypeOK, Directory
<1>3. ASSUME NEW c \in Callers
      PROVE  InHand(c)'
  BY <1>2 DEF DownloadAssumption, IInv, Hands, InHand
<1>4. Hands'
  BY <1>3 DEF Hands
<1>5. Published'
  BY <1>1, <1>2 DEF IInv, Published
<1>6. Reported'
  BY <1>2 DEF IInv, Reported
<1>7. QED
  BY <1>4, <1>5, <1>6 DEF Shown

LEMMA NextShown ==
    ASSUME DownloadAssumption, IInv, [Next]_vars
    PROVE  Shown'
<1>1. CASE ReviewLock \/ UNCHANGED vars
  BY <1>1 DEF ReviewLock, vars, disk, IInv, Shown, Hands, InHand, Published, Reported,
              Lasting, Passes, Whole
<1>2. QED
  BY <1>1, CallShown, KillShown, PowerLossShown, ReviewShown, OtherWriterShown DEF Next

LEMMA InitShown == DownloadAssumption /\ Init => Exclusive /\ Shown
BY DEF Init, Fresh, Shown, Exclusive, Active, Hands, InHand, Published, Reported

-----------------------------------------------------------------------------
(* Theorems.                                                               *)

LEMMA Invariance == Spec => []IInv
<1>1. Init => IInv
  BY InitType, InitShown, DownloadAssumption DEF IInv, Shown
<1>2. IInv /\ [Next]_vars => IInv'
  BY NextType, NextExclusive, NextShown, DownloadAssumption DEF IInv, Shown
<1>3. QED
  BY <1>1, <1>2, PTL DEF Spec

\* Every variable keeps its type, whatever is killed and however often it is
\* tried again.
THEOREM TypeCorrect == Spec => []TypeOK
<1>1. IInv => TypeOK
  BY DEF IInv
<1>2. QED
  BY <1>1, Invariance, PTL

\* What a download publishes is complete and has the reference hash, over any
\* mixture of responses, kills, power losses and retries.
THEOREM PublishedIsRight == Spec => []PublishedIsWhole
<1>1. IInv => PublishedIsWhole
  BY DEF IInv, Published, Lasting, PublishedIsWhole
<1>2. QED
  BY <1>1, Invariance, PTL

\* No two processes have the partial open, and nobody writes under the
\* destination's name, for any number of processes and stale locks.
THEOREM OneWriter == Spec => []PartialHasOneWriter
<1>1. IInv => PartialHasOneWriter
  <2> SUFFICES ASSUME IInv PROVE PartialHasOneWriter
    OBVIOUS
  <2>1. \A c, d \in Callers : Holding(c) /\ Holding(d) => c = d
    BY DEF IInv, Exclusive, Holding, Active
  <2>2. \A c \in Callers : caller[c].pc \in {"request", "receive"} =>
                              caller[c].fd # name.dest
    BY DEF IInv, Hands, InHand
  <2>3. QED
    BY <2>1, <2>2 DEF PartialHasOneWriter
<1>2. QED
  BY <1>1, Invariance, PTL

\* A download that was reported is at the destination for good, power losses
\* included.
THEOREM ReportedStays == Spec => []ReportedIsDurable
<1>1. IInv => ReportedIsDurable
  BY DEF IInv, Reported, Lasting, ReportedIsDurable, At
<1>2. QED
  BY <1>1, Invariance, PTL

\* What a call may do to the directory and to contents.
LEMMA CallWrites ==
    ASSUME DownloadAssumption, IInv, NEW c \in Callers, Call(c)
    PROVE  /\ name.dest # None => name'.dest = name.dest
           /\ \/ name'.part = name.part
              \/ name.part = None
              \/ name'.part = None /\ name.part = name.dest /\ name'.dest = name.dest
           /\ \A i \in Inodes :
                 i = name.dest \/ (i = name.part /\ Whole(i)) => data'[i] = data[i]
<1> USE DEF At, disk, IInv, TypeOK, Directory
<1>1. CASE Lock(c) \/ Find(c) \/ Received(c) \/ Verify(c) \/ Fail(c) \/ Unlock(c)
           \/ Sync(c) \/ SyncDirectory(c)
  BY <1>1 DEF Lock, Find, Received, Verify, Fail, Unlock, Sync, SyncDirectory
<1>2. CASE OpenPart(c)
  BY <1>2 DEF OpenPart, Unused
<1>3. CASE Answer(c)
  BY <1>3 DEF Answer, Hands, InHand
<1>4. CASE Receive(c)
  BY <1>4 DEF Receive, Hands, InHand, Whole, DownloadAssumption
<1>5. CASE Link(c)
  BY <1>5 DEF Link
<1>6. CASE Unlink(c)
  BY <1>6 DEF Unlink, Hands, InHand
<1>7. QED
  BY <1>1, <1>2, <1>3, <1>4, <1>5, <1>6 DEF Call

\* No call replaces, removes or writes to a file at the destination.
THEOREM DestinationIsSafe == Spec => NeverClobbered
<1>1. IInv /\ [Next]_vars =>
         [ (\E c \in Callers : Call(c)) /\ name.dest # None =>
              /\ name'.dest = name.dest
              /\ data'[name.dest] = data[name.dest] ]_vars
  <2>1. IInv => name.dest \in Inodes \cup {None}
    BY DEF IInv, TypeOK, Directory
  <2>2. QED
    BY <2>1, CallWrites, DownloadAssumption
<1>2. QED
  BY <1>1, Invariance, PTL DEF Spec, NeverClobbered

\* No call throws a complete partial away or downloads it again.
THEOREM CompletePartialIsSafe == Spec => CompletePartialKept
<1>1. IInv /\ [Next]_vars =>
         [ (\E c \in Callers : Call(c)) /\ name.part # None /\ Whole(name.part) =>
              \/ name'.part = name.part /\ data'[name.part] = data[name.part]
              \/ name'.part = None /\ name'.dest = name.part ]_vars
  <2>1. IInv => name.part \in Inodes \cup {None}
    BY DEF IInv, TypeOK, Directory
  <2>2. QED
    BY <2>1, CallWrites, DownloadAssumption
<1>2. QED
  BY <1>1, Invariance, PTL DEF Spec, CompletePartialKept
=============================================================================
