--------------------------- MODULE Preparation_proofs ---------------------------
(***************************************************************************)
(* Theorems about what prepares the data. FetchEpic: for every wanted      *)
(* list, any number of batches, and kills at any step. Relocation: for any *)
(* rooms, labels and boxes, any number of wrong options and any            *)
(* thresholds.                                                             *)
(***************************************************************************)
EXTENDS FetchEpic, Relocation, FiniteSetTheorems, SequenceTheorems, WellFoundedInduction, TLAPS

-----------------------------------------------------------------------------
(* The inductive invariant.                                                *)

\* A batch that has not got past preflight has nothing in hand, and while it
\* recovers, what it publishes is one of the videos to recover, all of them good.
InHand ==
    /\ pc \in {"idle", "locking", "preflight", "dead"} =>
          current = {} /\ recover = {} /\ files = {}
    /\ pc = "recovering" =>
          current \subseteq recover /\ \A v \in recover : staged[v] = "good"

\* What the report and the manifest list, and what is being published, is good;
\* what aria2 is still working on is known by its control file.
Sound ==
    /\ \A v \in Videos : owner[v] = "batch" => dest[v] = "good"
    /\ \A v \in files : dest[v] = "good"
    /\ \A v \in manifest.files : dest[v] = "good"
    /\ manifest.status = "complete" => manifest.files = Videos
    /\ \A v \in control : staged[v] = "partial"
    /\ \A v \in current : dest[v] = "good" /\ staged[v] = "good"

Working == {"preflight", "recovering", "announcing", "launching", "monitoring",
            "failing", "verifying", "finishing"}

\* Who holds the locks at each stage; aria2 runs only where all are held.
Locked ==
    /\ pc = "locking" =>
          batchLock = "batch" /\ \A v \in Videos \ unlocked : lock[v] = "batch"
    /\ pc \in Working => batchLock = "batch" /\ \A v \in Videos : lock[v] = "batch"
    /\ aria # "off" => pc \in {"monitoring", "failing", "dead"}
    /\ pc = "dead" /\ aria # "off" =>
          batchLock = "stale" /\ \A v \in Videos : lock[v] = "stale"

TypeInv == TypeOK /\ InHand

LEMMA InitInv == Init => TypeInv /\ Sound /\ Locked
<1> SUFFICES ASSUME Init
             PROVE  TypeInv /\ Sound /\ Locked
  OBVIOUS
<1>1. TypeInv
  BY FetchEpicAssumption DEF FetchEpicAssumption, Init, TypeInv, TypeOK, InHand
<1>2. Sound
  BY DEF Init, Sound
<1>3. Locked
  BY DEF Init, Locked, Working
<1>4. QED
  BY <1>1, <1>2, <1>3

-----------------------------------------------------------------------------
(* Type correctness.                                                       *)

LEMMA BatchStepType ==
    ASSUME FetchEpicAssumption, TypeInv,
           \/ Start \/ Release \/ Refuse \/ Preflight \/ Recovered \/ Announce
           \/ Launch \/ Interrupt \/ ChildExited \/ Finish \/ Fail \/ Exit
           \/ Kill \/ Review
    PROVE  TypeInv'
<1> USE DEF TypeInv, TypeOK, InHand, storage, locks, report
<1>1. CASE Start
  BY <1>1, FetchEpicAssumption DEF Start, FetchEpicAssumption
<1>2. CASE Release
  BY <1>2 DEF Release
<1>3. CASE Refuse
  BY <1>3 DEF Refuse
<1>4. CASE Preflight
  BY <1>4 DEF Preflight, Refused, Verified
<1>5. CASE Recovered \/ Announce \/ Launch \/ Interrupt \/ ChildExited \/ Finish
  BY <1>5 DEF Recovered, Announce, Launch, Interrupt, ChildExited, Finish, Save
<1>6. CASE Fail \/ Exit
  BY <1>6 DEF Fail, Exit
<1>7. CASE Kill \/ Review
  BY <1>7 DEF Kill, Review
<1>8. QED
  BY <1>1, <1>2, <1>3, <1>4, <1>5, <1>6, <1>7

LEMMA VideoStepType ==
    ASSUME TypeInv, NEW v \in Videos,
           \/ LockVideo(v) \/ PublishLink(v) \/ PublishUnlink(v) \/ Unpublished(v)
           \/ PublishFails(v) \/ Fetch(v) \/ Fetched(v)
           \/ OtherLocks(v) \/ OtherUnlocks(v) \/ OtherWrites(v)
    PROVE  TypeInv'
<1> USE DEF TypeInv, TypeOK, InHand, storage, locks, report
<1>1. CASE LockVideo(v)
  BY <1>1 DEF LockVideo
<1>2. CASE PublishLink(v)
  BY <1>2 DEF PublishLink, Verified
<1>3. CASE PublishUnlink(v)
  BY <1>3 DEF PublishUnlink, Save
<1>4. CASE Unpublished(v)
  BY <1>4 DEF Unpublished, Save
<1>5. CASE PublishFails(v)
  BY <1>5 DEF PublishFails, Save
<1>6. CASE Fetch(v) \/ Fetched(v)
  BY <1>6 DEF Fetch, Fetched
<1>7. CASE OtherLocks(v) \/ OtherUnlocks(v) \/ OtherWrites(v)
  BY <1>7 DEF OtherLocks, OtherUnlocks, OtherWrites
<1>8. QED
  BY <1>1, <1>2, <1>3, <1>4, <1>5, <1>6, <1>7

LEMMA TypeInvariant == Spec => []TypeInv
<1>1. Init => TypeInv
  BY InitInv
<1>2. TypeInv /\ [Next]_vars => TypeInv'
  <2>1. CASE UNCHANGED vars
    BY <2>1 DEF vars, storage, locks, report, TypeInv, TypeOK, InHand
  <2>2. QED
    BY <2>1, BatchStepType, VideoStepType, FetchEpicAssumption DEF Next
<1>3. QED
  BY <1>1, <1>2, PTL DEF Spec

\* Every variable of a batch keeps its type, and no video is at once recovered,
\* pending and in the report.
THEOREM TypeCorrect == Spec => []TypeOK
<1>1. TypeInv => TypeOK
  BY DEF TypeInv
<1>2. QED
  BY <1>1, TypeInvariant, PTL

-----------------------------------------------------------------------------
(* What is published and what the manifest says of it.                     *)

LEMMA BatchStepSound ==
    ASSUME TypeInv, Sound,
           \/ Start \/ Release \/ Refuse \/ Preflight \/ Recovered \/ Announce
           \/ Launch \/ Interrupt \/ ChildExited \/ Finish \/ Fail \/ Exit
           \/ Kill \/ Review
    PROVE  Sound'
<1> USE DEF TypeInv, TypeOK, InHand, Sound, storage, locks, report
<1>1. CASE Start
  BY <1>1 DEF Start
<1>2. CASE Release \/ Refuse
  BY <1>2 DEF Release, Refuse
<1>3. CASE Preflight
  BY <1>3 DEF Preflight, Refused, Verified
<1>4. CASE Recovered \/ Announce \/ Launch \/ Interrupt \/ ChildExited
  BY <1>4 DEF Recovered, Announce, Launch, Interrupt, ChildExited, Save
<1>5. CASE Finish
  BY <1>5 DEF Finish, Save
<1>6. CASE Fail \/ Exit
  BY <1>6 DEF Fail, Exit
<1>7. CASE Kill \/ Review
  BY <1>7 DEF Kill, Review
<1>8. QED
  BY <1>1, <1>2, <1>3, <1>4, <1>5, <1>6, <1>7

LEMMA VideoStepSound ==
    ASSUME TypeInv, Sound, NEW v \in Videos,
           \/ LockVideo(v) \/ PublishLink(v) \/ PublishUnlink(v) \/ Unpublished(v)
           \/ PublishFails(v) \/ Fetch(v) \/ Fetched(v)
           \/ OtherLocks(v) \/ OtherUnlocks(v) \/ OtherWrites(v)
    PROVE  Sound'
<1> USE DEF TypeInv, TypeOK, InHand, Sound, storage, locks, report
<1>1. CASE LockVideo(v)
  BY <1>1 DEF LockVideo
<1>2. CASE PublishLink(v)
  <2>1. staged[v] = "good"
    BY <1>2 DEF PublishLink, Verified
  <2>2. QED
    BY <1>2, <2>1 DEF PublishLink
<1>3. CASE PublishUnlink(v)
  BY <1>3 DEF PublishUnlink, Save
<1>4. CASE Unpublished(v)
  BY <1>4 DEF Unpublished, Save
<1>5. CASE PublishFails(v)
  BY <1>5 DEF PublishFails, Save
<1>6. CASE Fetch(v) \/ Fetched(v)
  BY <1>6 DEF Fetch, Fetched
<1>7. CASE OtherLocks(v) \/ OtherUnlocks(v)
  BY <1>7 DEF OtherLocks, OtherUnlocks
<1>8. CASE OtherWrites(v)
  BY <1>8 DEF OtherWrites
<1>9. QED
  BY <1>1, <1>2, <1>3, <1>4, <1>5, <1>6, <1>7, <1>8

LEMMA SoundInv == Spec => []Sound
<1>1. Init => Sound
  BY InitInv
<1>2. TypeInv /\ Sound /\ [Next]_vars => Sound'
  <2>1. CASE UNCHANGED vars
    BY <2>1 DEF vars, storage, locks, report, Sound
  <2>2. QED
    BY <2>1, BatchStepSound, VideoStepSound DEF Next
<1>3. QED
  BY <1>1, <1>2, TypeInvariant, PTL DEF Spec

\* A batch publishes verified files only, over any number of killed batches.
THEOREM OnlyVerifiedPublished == Spec => []PublishedIsVerified
<1>1. Sound => PublishedIsVerified
  BY DEF Sound, PublishedIsVerified
<1>2. QED
  BY <1>1, SoundInv, PTL

\* The manifest is true at every moment, in the middle of a batch too.
THEOREM ManifestStaysTrue == Spec => []ManifestIsTrue
<1>1. Sound => ManifestIsTrue
  BY DEF Sound, ManifestIsTrue
<1>2. QED
  BY <1>1, SoundInv, PTL

\* No step loses a video that was fetched.
THEOREM FetchedStaysKept == Spec => FetchedIsKept
<1>1. TypeInv /\ Sound /\ [Next]_vars => [\A v \in Videos : HasGood(v) => HasGood(v)']_vars
  <2> SUFFICES ASSUME TypeInv, Sound, Next, NEW w \in Videos, HasGood(w)
               PROVE  HasGood(w)'
    BY DEF vars
  <2> USE DEF TypeInv, TypeOK, Sound, HasGood, storage
  <2>1. ASSUME NEW v \in Videos, PublishLink(v)
        PROVE  HasGood(w)'
    BY <2>1 DEF PublishLink
  <2>2. ASSUME NEW v \in Videos, PublishUnlink(v) \/ PublishFails(v)
        PROVE  HasGood(w)'
    BY <2>2 DEF PublishUnlink, PublishFails
  <2>3. ASSUME NEW v \in Videos, Fetch(v) \/ Fetched(v)
        PROVE  HasGood(w)'
    BY <2>3 DEF Fetch, Fetched
  <2>4. ASSUME NEW v \in Videos, OtherWrites(v)
        PROVE  HasGood(w)'
    BY <2>4 DEF OtherWrites
  <2>5. CASE UNCHANGED <<dest, staged>>
    BY <2>5
  <2>6. QED
    BY <2>1, <2>2, <2>3, <2>4, <2>5
    DEF Next, Start, Release, Refuse, Preflight, Recovered, Announce, Launch,
        Interrupt, ChildExited, Finish, Fail, Exit, Kill, Review, LockVideo,
        Unpublished, OtherLocks, OtherUnlocks
<1>2. QED
  BY <1>1, TypeInvariant, SoundInv, PTL DEF FetchedIsKept, Spec

\* No step replaces a published file.
THEOREM NothingClobbered == Spec => NeverClobbered
<1>1. TypeInv /\ [Next]_vars =>
          [\A v \in Videos : dest[v] # "none" => dest'[v] = dest[v]]_vars
  <2> SUFFICES ASSUME TypeInv, Next, NEW w \in Videos, dest[w] # "none"
               PROVE  dest'[w] = dest[w]
    BY DEF vars
  <2> USE DEF TypeInv, TypeOK, storage
  <2>1. ASSUME NEW v \in Videos, PublishLink(v) \/ OtherWrites(v)
        PROVE  dest'[w] = dest[w]
    BY <2>1 DEF PublishLink, OtherWrites
  <2>2. CASE UNCHANGED dest
    BY <2>2
  <2>3. QED
    BY <2>1, <2>2
    DEF Next, Start, Release, Refuse, Preflight, Recovered, Announce, Launch,
        Interrupt, ChildExited, Finish, Fail, Exit, Kill, Review, LockVideo,
        Unpublished, PublishUnlink, PublishFails, Fetch, Fetched, OtherLocks,
        OtherUnlocks
<1>2. QED
  BY <1>1, TypeInvariant, PTL DEF NeverClobbered, Spec

-----------------------------------------------------------------------------
(* Locks.                                                                  *)

LEMMA BatchStepLocked ==
    ASSUME TypeInv, Locked,
           \/ Start \/ Release \/ Refuse \/ Preflight \/ Recovered \/ Announce
           \/ Launch \/ Interrupt \/ ChildExited \/ Finish \/ Fail \/ Exit
           \/ Kill \/ Review
    PROVE  Locked'
<1> USE DEF TypeInv, TypeOK, Locked, Working, storage, locks, report
<1>1. CASE Start
  BY <1>1 DEF Start
<1>2. CASE Release \/ Refuse
  BY <1>2 DEF Release, Refuse
<1>3. CASE Preflight
  BY <1>3 DEF Preflight
<1>4. CASE Recovered \/ Announce \/ Launch \/ Interrupt \/ ChildExited
  BY <1>4 DEF Recovered, Announce, Launch, Interrupt, ChildExited
<1>5. CASE Finish
  BY <1>5 DEF Finish
<1>6. CASE Fail \/ Exit
  BY <1>6 DEF Fail, Exit
<1>7. CASE Kill \/ Review
  BY <1>7 DEF Kill, Review
<1>8. QED
  BY <1>1, <1>2, <1>3, <1>4, <1>5, <1>6, <1>7

LEMMA VideoStepLocked ==
    ASSUME TypeInv, Locked, NEW v \in Videos,
           \/ LockVideo(v) \/ PublishLink(v) \/ PublishUnlink(v) \/ Unpublished(v)
           \/ PublishFails(v) \/ Fetch(v) \/ Fetched(v)
           \/ OtherLocks(v) \/ OtherUnlocks(v) \/ OtherWrites(v)
    PROVE  Locked'
<1> USE DEF TypeInv, TypeOK, Locked, Working, storage, locks, report
<1>1. CASE LockVideo(v)
  BY <1>1 DEF LockVideo
<1>2. CASE PublishLink(v) \/ PublishUnlink(v)
  BY <1>2 DEF PublishLink, PublishUnlink
<1>3. CASE Unpublished(v) \/ PublishFails(v)
  BY <1>3 DEF Unpublished, PublishFails
<1>4. CASE Fetch(v) \/ Fetched(v)
  BY <1>4 DEF Fetch, Fetched
<1>5. CASE OtherLocks(v) \/ OtherUnlocks(v)
  BY <1>5 DEF OtherLocks, OtherUnlocks
<1>6. CASE OtherWrites(v)
  BY <1>6 DEF OtherWrites
<1>7. QED
  BY <1>1, <1>2, <1>3, <1>4, <1>5, <1>6

\* aria2 never writes without the locks of all the videos of its batch.
THEOREM WriterStaysLocked == Spec => []WriterIsLocked
<1>1. Init => Locked
  BY InitInv
<1>2. TypeInv /\ Locked /\ [Next]_vars => Locked'
  <2>1. CASE UNCHANGED vars
    BY <2>1 DEF vars, storage, locks, report, Locked, Working
  <2>2. QED
    BY <2>1, BatchStepLocked, VideoStepLocked DEF Next
<1>3. Locked => WriterIsLocked
  BY DEF Locked, Working, WriterIsLocked
<1>4. QED
  BY <1>1, <1>2, <1>3, TypeInvariant, PTL DEF Spec

-----------------------------------------------------------------------------
(* Relocation: sorting.                                                    *)

\* What has been sorted by its distance is what there was, each once, and the
\* nearest first.
LEMMA SortedIs ==
    ASSUME NEW f, NEW P \in SUBSET Nat, IsFiniteSet(P), \A i \in P : f[i].away \in Int
    PROVE  LET s == Sorted(f, P, LAMBDA a, b : a.away < b.away)
               n == Cardinality(P)
           IN  /\ n \in Nat /\ DOMAIN s = 1..n /\ s = [k \in 1..n |-> s[k]]
               /\ \E p \in [1..n -> P] :
                     /\ \A k \in 1..n : s[k] = f[p[k]]
                     /\ \A j, k \in 1..n : p[j] = p[k] => j = k
                     /\ \A i \in P : \E k \in 1..n : p[k] = i
                     /\ \A j, k \in 1..n : j <= k => f[p[j]].away <= f[p[k]].away
<1> DEFINE ahead(j, i) == f[j].away < f[i].away \/ (~(f[i].away < f[j].away) /\ j < i)
           B(i) == {j \in P : ahead(j, i)}
           rank(i) == 1 + Cardinality(B(i))
           n == Cardinality(P)
           p == [k \in 1..n |-> CHOOSE i \in P : rank(i) = k]
           s == [k \in 1..n |-> f[CHOOSE i \in P : rank(i) = k]]
<1>1. n \in Nat
  BY FS_CardinalityType
<1>2. ASSUME NEW i \in P PROVE IsFiniteSet(B(i)) /\ Cardinality(B(i)) \in Nat /\ B(i) \subseteq P
  BY FS_Subset, FS_CardinalityType
<1>3. ASSUME NEW i \in P, NEW j \in P, i # j PROVE ahead(i, j) \/ ahead(j, i)
  <2>1. f[i].away \in Int /\ f[j].away \in Int /\ i \in Nat /\ j \in Nat
    OBVIOUS
  <2>2. i < j \/ j < i
    BY <1>3, <2>1
  <2> QED
    BY <2>1, <2>2
<1>4. ASSUME NEW i \in P, NEW j \in P, ahead(j, i) PROVE rank(j) < rank(i)
  <2>1. B(j) \subseteq B(i)
    <3> SUFFICES ASSUME NEW k \in P, ahead(k, j) PROVE ahead(k, i)
      OBVIOUS
    <3>1. f[k].away \in Int /\ f[j].away \in Int /\ f[i].away \in Int /\ k \in Nat /\ j \in Nat /\ i \in Nat
      OBVIOUS
    <3> QED
      BY <1>4, <3>1
  <2>2. j \in B(i) /\ j \notin B(j)
    <3>1. f[j].away \in Int /\ j \in Nat
      OBVIOUS
    <3>2. ~ahead(j, j)
      BY <3>1
    <3> HIDE DEF ahead
    <3> QED
      BY <1>4, <3>2
  <2> HIDE DEF B
  <2>3. Cardinality(B(j)) <= Cardinality(B(i)) /\ Cardinality(B(j)) # Cardinality(B(i))
    BY <1>2, <2>1, <2>2, FS_Subset
  <2> QED
    BY <1>2, <2>3
<1>5. ASSUME NEW i \in P PROVE rank(i) \in 1..n
  <2>1. B(i) \subseteq P \ {i}
    OBVIOUS
  <2>2. IsFiniteSet(P \ {i}) /\ Cardinality(P \ {i}) = n - 1
    BY FS_RemoveElement
  <2> HIDE DEF B
  <2>3. Cardinality(B(i)) <= n - 1
    BY <2>1, <2>2, FS_Subset
  <2> QED
    BY <1>1, <1>2, <2>3
<1>6. ASSUME NEW i \in P, NEW j \in P, rank(i) = rank(j) PROVE i = j
  <2> HIDE DEF rank, ahead
  <2>1. rank(i) \in Int /\ rank(j) \in Int
    BY <1>5
  <2>2. ~ahead(i, j) /\ ~ahead(j, i)
    BY <1>4, <1>6, <2>1
  <2> QED
    BY <1>3, <2>2
<1> HIDE DEF rank
<1>7. ASSUME NEW k \in 1..n PROVE \E i \in P : rank(i) = k
  <2> DEFINE r == [i \in P |-> rank(i)]
  <2>1. r \in Injection(P, 1..n)
    BY <1>5, <1>6 DEF Injection, IsInjective
  <2>2. IsFiniteSet(1..n) /\ Cardinality(1..n) = n
    BY <1>1, FS_Interval
  <2>3. r \in Surjection(P, 1..n)
    <3> HIDE DEF r
    <3> QED
      BY <2>1, <2>2, FS_Injection
  <2> QED
    BY <2>3 DEF Surjection
<1>8. ASSUME NEW k \in 1..n PROVE p[k] \in P /\ rank(p[k]) = k /\ s[k] = f[p[k]]
  BY <1>7
<1>9. p \in [1..n -> P] /\ DOMAIN s = 1..n /\ s = [k \in 1..n |-> s[k]]
  BY <1>8
<1> HIDE DEF p
<1>10. Sorted(f, P, LAMBDA a, b : a.away < b.away) = s
  BY DEF Sorted, rank
<1> HIDE DEF s
<1>11. \A j, k \in 1..n : p[j] = p[k] => j = k
  BY <1>8
<1>12. ASSUME NEW i \in P PROVE \E k \in 1..n : p[k] = i
  <2>1. rank(i) \in 1..n
    BY <1>5
  <2>2. rank(p[rank(i)]) = rank(i) /\ p[rank(i)] \in P
    BY <1>8, <2>1
  <2> QED
    BY <1>6, <2>1, <2>2
<1>13. ASSUME NEW j \in 1..n, NEW k \in 1..n, j <= k PROVE f[p[j]].away <= f[p[k]].away
  <2>1. p[j] \in P /\ p[k] \in P /\ rank(p[j]) = j /\ rank(p[k]) = k
    BY <1>8
  <2>2. ~(k < j)
    BY <1>1, <1>13
  <2>3. ~ahead(p[k], p[j])
    <3> HIDE DEF ahead
    <3> QED
      BY <1>4, <2>1, <2>2
  <2>4. f[p[j]].away \in Int /\ f[p[k]].away \in Int
    BY <2>1
  <2> QED
    BY <2>3, <2>4
<1> QED
  BY <1>1, <1>8, <1>9, <1>10, <1>11, <1>12, <1>13

-----------------------------------------------------------------------------
(* Which objects are near.                                                 *)

\* The boxes of a scan.
LEMMA BoxesAre ==
    ASSUME data \in Datasets, NEW scan
    PROVE  /\ Boxes(scan) \in Seq([id : Int, at : Int]) /\ Len(Boxes(scan)) \in Nat
           /\ DOMAIN Boxes(scan) = 1..Len(Boxes(scan))
           /\ \A k \in DOMAIN Boxes(scan) : Boxes(scan)[k] \in [id : Int, at : Int]
           /\ \A j, k \in DOMAIN Boxes(scan) : Boxes(scan)[j].id = Boxes(scan)[k].id => j = k
<1>1. CASE scan \in DOMAIN data.boxes
  <2>1. Boxes(scan) = data.boxes[scan]
    BY <1>1 DEF Boxes
  <2>2. /\ Boxes(scan) \in Seq([id : Int, at : Int])
        /\ \A j, k \in DOMAIN Boxes(scan) : Boxes(scan)[j].id = Boxes(scan)[k].id => j = k
    BY <1>1, <2>1, RelocationAssumption
  <2>3. /\ Len(Boxes(scan)) \in Nat /\ DOMAIN Boxes(scan) = 1..Len(Boxes(scan))
        /\ \A k \in 1..Len(Boxes(scan)) : Boxes(scan)[k] \in [id : Int, at : Int]
    <3> DEFINE Box == [id : Int, at : Int]
    <3>1. Boxes(scan) \in Seq(Box)
      BY <2>2
    <3> HIDE DEF Box
    <3>2. /\ Len(Boxes(scan)) \in Nat /\ DOMAIN Boxes(scan) = 1..Len(Boxes(scan))
          /\ \A k \in 1..Len(Boxes(scan)) : Boxes(scan)[k] \in Box
      BY <3>1, ElementOfSeq
    <3> QED
      BY <3>2 DEF Box
  <2> QED
    BY <2>2, <2>3
<1>2. CASE scan \notin DOMAIN data.boxes
  <2>1. Boxes(scan) = <<>>
    BY <1>2 DEF Boxes
  <2> QED
    BY <2>1
<1> QED
  BY <1>1, <1>2

\* The usable objects around this one, the nearest first; each is near once.
Nearest(scan, id, near, w) ==
    /\ DOMAIN near = 1..Len(near)
    /\ w \in [1..Len(near) -> Around(scan, id)]
    /\ \A k \in 1..Len(near) :
          near[k].label = LabelOf(scan, w[k].id) /\ near[k].away = Away(scan, id, w[k])
    /\ \A k \in 1..Len(near) : near[k].away \in Int
    /\ \A j, k \in 1..Len(near) : w[j] = w[k] => j = k
    /\ \A b \in Around(scan, id) : \E k \in 1..Len(near) : w[k] = b
    /\ \A j, k \in 1..Len(near) : j <= k => near[j].away <= near[k].away

LEMMA NearestIs ==
    ASSUME data \in Datasets, NEW scan, NEW id, Len(NearestTo(scan, id)) > 0
    PROVE  /\ Len(NearestTo(scan, id)) \in Nat
           /\ \E w : Nearest(scan, id, NearestTo(scan, id), w)
<1> DEFINE boxes == Boxes(scan)
           origin == {b \in ToSet(boxes) : b.id = id}
           label(k) == LabelOf(scan, boxes[k].id)
           others == {k \in DOMAIN boxes :
                         boxes[k].id # id /\ label(k) # None /\ Lower(label(k)) \notin UNUSABLE_LABELS}
           measured == [k \in DOMAIN boxes |->
                          [id |-> boxes[k].id, label |-> label(k),
                           away |-> Distance((CHOOSE b \in origin : TRUE).at, boxes[k].at)]]
           near == Sorted(measured, others, LAMBDA a, b : a.away < b.away)
<1>1. /\ Len(boxes) \in Nat /\ DOMAIN boxes = 1..Len(boxes)
      /\ \A k \in DOMAIN boxes : boxes[k] \in [id : Int, at : Int]
      /\ \A j, k \in DOMAIN boxes : boxes[j].id = boxes[k].id => j = k
  BY BoxesAre
<1>2. origin # {} /\ NearestTo(scan, id) = near
  <2>1. NearestTo(scan, id) = IF origin = {} THEN <<>> ELSE near
    BY Zenon DEF NearestTo
  <2>2. ~(Len(<<>>) > 0)
    OBVIOUS
  <2> HIDE DEF near, origin
  <2> QED
    BY <2>1, <2>2
<1>3. \A o \in ToSet(boxes) : \E k \in DOMAIN boxes : o = boxes[k]
  BY DEF ToSet
<1>4. ASSUME NEW o \in origin, NEW u \in origin PROVE o = u
  BY <1>1, <1>3
<1> DEFINE from == CHOOSE b \in origin : TRUE
<1>5. from \in origin /\ from.at \in Int /\ (CHOOSE o \in ToSet(boxes) : o.id = id) = from
  <2>1. from \in origin
    BY <1>2
  <2>2. from.at \in Int
    BY <1>1, <1>3, <2>1
  <2>3. (CHOOSE o \in ToSet(boxes) : o.id = id) \in origin
    BY <2>1
  <2> QED
    BY <1>4, <2>1, <2>2, <2>3
<1> HIDE DEF from
<1>6. ASSUME NEW k \in DOMAIN boxes
      PROVE  /\ measured[k].label = label(k)
             /\ measured[k].away = Away(scan, id, boxes[k]) /\ measured[k].away \in Int
  <2>1. measured[k].label = label(k) /\ measured[k].away = Distance(from.at, boxes[k].at)
    BY DEF from
  <2>2. Away(scan, id, boxes[k]) = Distance(from.at, boxes[k].at)
    BY <1>5 DEF Away
  <2>3. Distance(from.at, boxes[k].at) \in Int
    BY <1>1, <1>5 DEF Distance
  <2> QED
    BY <2>1, <2>2, <2>3
<1>7. others \in SUBSET Nat /\ others \subseteq DOMAIN boxes /\ IsFiniteSet(others)
  <2>1. IsFiniteSet(1..Len(boxes)) /\ others \subseteq DOMAIN boxes
    BY <1>1, FS_Interval
  <2> HIDE DEF others
  <2> QED
    BY <1>1, <2>1, FS_Subset
<1>8. /\ \A b \in Around(scan, id) : \E k \in others : b = boxes[k]
      /\ \A k \in others : boxes[k] \in Around(scan, id)
  BY <1>3 DEF Around, ToSet
<1> HIDE DEF measured, others
<1> DEFINE n == Cardinality(others)
<1>9. \A i \in others : measured[i].away \in Int
  BY <1>6, <1>7
<1>10. /\ n \in Nat /\ DOMAIN near = 1..n /\ near = [k \in 1..n |-> near[k]]
       /\ \E p \in [1..n -> others] :
             /\ \A k \in 1..n : near[k] = measured[p[k]]
             /\ \A j, k \in 1..n : p[j] = p[k] => j = k
             /\ \A i \in others : \E k \in 1..n : p[k] = i
             /\ \A j, k \in 1..n : j <= k => measured[p[j]].away <= measured[p[k]].away
  BY <1>7, <1>9, SortedIs, Zenon
<1> HIDE DEF near
<1>11. Len(near) = n
  BY <1>10
<1>12. PICK p \in [1..n -> others] :
             /\ \A k \in 1..n : near[k] = measured[p[k]]
             /\ \A j, k \in 1..n : p[j] = p[k] => j = k
             /\ \A i \in others : \E k \in 1..n : p[k] = i
             /\ \A j, k \in 1..n : j <= k => measured[p[j]].away <= measured[p[k]].away
  BY <1>10
<1> DEFINE w == [k \in 1..n |-> boxes[p[k]]]
<1>13. \A k \in 1..n : p[k] \in others /\ p[k] \in DOMAIN boxes /\ w[k] = boxes[p[k]]
  BY <1>7, <1>12
<1>14. w \in [1..n -> Around(scan, id)]
  BY <1>8, <1>13
<1> HIDE DEF w
<1>15. \A k \in 1..n : near[k].label = LabelOf(scan, w[k].id) /\ near[k].away = Away(scan, id, w[k])
  BY <1>6, <1>12, <1>13
<1>16. \A k \in 1..n : near[k].away \in Int
  BY <1>6, <1>12, <1>13
<1>17. \A j, k \in 1..n : w[j] = w[k] => j = k
  BY <1>1, <1>12, <1>13
<1>18. \A b \in Around(scan, id) : \E k \in 1..n : w[k] = b
  <2> SUFFICES ASSUME NEW b \in Around(scan, id) PROVE \E k \in 1..n : w[k] = b
    OBVIOUS
  <2>1. PICK i \in others : b = boxes[i]
    BY <1>8
  <2>2. PICK k \in 1..n : p[k] = i
    BY <1>12
  <2> QED
    BY <1>13, <2>1, <2>2
<1>19. \A j, k \in 1..n : j <= k => near[j].away <= near[k].away
  BY <1>12
<1>20. Nearest(scan, id, near, w)
  BY <1>10, <1>11, <1>14, <1>15, <1>16, <1>17, <1>18, <1>19 DEF Nearest
<1> QED
  BY <1>2, <1>10, <1>11, <1>20

\* A set of numbers that is not empty has a least one.
LEMMA LeastIs ==
    ASSUME NEW S \in SUBSET Nat, S # {}
    PROVE  \E m \in S : \A y \in S : m <= y
<1> DEFINE T == {0..x : x \in S}
<1>1. T \subseteq FiniteSubsetsOf(Nat) /\ T # {}
  <2>1. ASSUME NEW x \in S PROVE 0..x \in SUBSET Nat /\ IsFiniteSet(0..x)
    BY FS_Interval
  <2> QED
    BY <2>1 DEF FiniteSubsetsOf
<1>2. PICK t \in T : \A u \in T : <<u, t>> \notin StrictSubsetOrdering(Nat)
  BY <1>1, FS_StrictSubsetOrderingWellFounded, WFMin
<1>3. PICK m \in S : t = 0..m
  OBVIOUS
<1>4. ASSUME NEW y \in S, y < m PROVE FALSE
  <2>1. 0..y \in T /\ 0..y \subseteq 0..m /\ 0..y # 0..m
    BY <1>4
  <2>2. <<0..y, 0..m>> \in StrictSubsetOrdering(Nat)
    BY <1>3, <2>1 DEF StrictSubsetOrdering
  <2> QED
    BY <1>2, <1>3, <2>1, <2>2
<1> QED
  BY <1>4

\* The places where a label comes first after the nearest object.
First(near) ==
    {k \in 2..Len(near) :
        /\ near[k].label # near[1].label
        /\ \A j \in 2..k - 1 : near[j].label # near[k].label}

\* A wrong option is the label of an object, of which there is none nearer, and
\* whatever is nearer bears the gold's label or one of the wrong options too.
LEMMA DistractorsAre ==
    ASSUME NEW near, Len(near) \in Nat, \A k \in 2..Len(near) : near[k].label # near[1].label,
           NEW label \in Distractors(near)
    PROVE  /\ label # near[1].label
           /\ \E k \in 2..Len(near) :
                 /\ near[k].label = label
                 /\ \A j \in 1..k - 1 : near[j].label \in Distractors(near) \cup {near[1].label}
<1> DEFINE F == First(near)
           ahead(k) == {j \in F : j < k}
<1>1. Distractors(near) = {near[k].label : k \in {k \in F : Cardinality(ahead(k)) < N_DISTRACTORS}}
  BY DEF Distractors, First
<1>2. PICK k \in F : Cardinality(ahead(k)) < N_DISTRACTORS /\ label = near[k].label
  BY <1>1
<1>3. F \subseteq 2..Len(near) /\ k \in 2..Len(near) /\ IsFiniteSet(F)
  <2>1. F \subseteq 2..Len(near)
    BY DEF First
  <2>2. IsFiniteSet(2..Len(near))
    BY FS_Interval
  <2> HIDE DEF F
  <2> QED
    BY <2>1, <2>2, FS_Subset
<1>4. ASSUME NEW j \in 1..k - 1 PROVE near[j].label \in Distractors(near) \cup {near[1].label}
  <2>1. CASE j = 1
    BY <2>1
  <2>2. CASE j # 1
    <3> DEFINE S == {i \in 2..j : near[i].label = near[j].label}
    <3>1. j \in Nat /\ j \in 2..Len(near) /\ j < k /\ k \in Nat
      BY <1>3, <2>2
    <3>2. S \in SUBSET Nat /\ j \in S
      BY <3>1
    <3>3. PICK m \in S : \A y \in S : m <= y
      <4> HIDE DEF S
      <4> QED
        BY <3>2, LeastIs
    <3>4. m \in Nat /\ m \in 2..Len(near) /\ m < k /\ near[m].label = near[j].label
      BY <3>1
    <3>5. \A i \in 2..m - 1 : near[i].label # near[m].label
      <4> SUFFICES ASSUME NEW i \in 2..m - 1, near[i].label = near[m].label PROVE FALSE
        OBVIOUS
      <4>1. i \in S /\ ~(m <= i)
        BY <3>1, <3>4
      <4> QED
        BY <3>3, <4>1
    <3>6. m \in F
      BY <3>4, <3>5 DEF First
    <3>7. Cardinality(ahead(m)) < N_DISTRACTORS
      <4>1. ahead(m) \subseteq ahead(k) /\ ahead(k) \subseteq F
        <5> SUFFICES ASSUME NEW i \in F, i < m PROVE i < k
          OBVIOUS
        <5>1. i \in Nat
          BY <1>3
        <5> QED
          BY <3>1, <3>4, <5>1
      <4> HIDE DEF ahead, F
      <4>2. IsFiniteSet(ahead(k)) /\ Cardinality(ahead(k)) \in Nat
        BY <1>3, <4>1, FS_Subset, FS_CardinalityType
      <4>3. Cardinality(ahead(m)) \in Nat /\ Cardinality(ahead(m)) <= Cardinality(ahead(k))
        BY <4>1, <4>2, FS_Subset, FS_CardinalityType
      <4> QED
        BY <1>2, <4>2, <4>3, RelocationAssumption
    <3> QED
      BY <1>1, <3>4, <3>6, <3>7
  <2> QED
    BY <2>1, <2>2
<1> QED
  BY <1>2, <1>3, <1>4

\* As many labels as there are wrong options are finitely many.
LEMMA OptionsAreFinite ==
    ASSUME NEW near, Len(near) \in Nat, Cardinality(Distractors(near)) = N_DISTRACTORS
    PROVE  IsFiniteSet(Distractors(near)) /\ Distractors(near) # {}
<1> DEFINE F == First(near)
           K == {k \in F : Cardinality({j \in F : j < k}) < N_DISTRACTORS}
<1>1. Distractors(near) = {near[k].label : k \in K}
  BY DEF Distractors, First
<1>2. IsFiniteSet(2..Len(near)) /\ K \subseteq 2..Len(near)
  BY FS_Interval DEF First
<1> HIDE DEF K
<1>3. IsFiniteSet(K)
  BY <1>2, FS_Subset
<1>4. IsFiniteSet(Distractors(near))
  <2> DEFINE f == [k \in K |-> near[k].label]
  <2>1. f \in Surjection(K, Distractors(near))
    BY <1>1 DEF Surjection
  <2> HIDE DEF f
  <2> QED
    BY <1>3, <2>1, FS_Surjection
<1>5. Distractors(near) # {}
  BY FS_EmptySet, RelocationAssumption
<1> QED
  BY <1>4, <1>5

LEMMA BuildableIsDefensible ==
    ASSUME data \in Datasets, NEW move, NEW letter, Buildable(move)
    PROVE  Defensible(Item(move, letter))
<1> DEFINE item == Item(move, letter)
           scan == move.rescan
           id == move.instance_rescan
           near == NearestTo(scan, id)
           L == Len(near)
           around == Around(scan, id)
           called(label) == {b \in around : LabelOf(scan, b.id) = label}
           gold == near[1].label
           wrong == Distractors(near)
<1>1. /\ item.scan = scan /\ item.move = move /\ item.gold = gold /\ item.wrong = wrong
  BY DEF Item, Near
<1>2. /\ Cardinality(Named(scan, move.label)) = 1
      /\ L >= N_DISTRACTORS + 1
      /\ near[2].away - near[1].away >= MIN_MARGIN_M
      /\ \A k \in 2..L : near[k].label # gold
      /\ Cardinality(wrong) = N_DISTRACTORS
  BY DEF Buildable, Near
<1> HIDE DEF item, near, wrong
<1>3. Len(near) > 0
  BY <1>2, RelocationAssumption
<1>4. L \in Nat /\ \E w : Nearest(scan, id, near, w)
  BY <1>3, NearestIs DEF near
<1>5. PICK w : Nearest(scan, id, near, w)
  BY <1>4
<1>6. /\ \A k \in 1..L : w[k] \in around
      /\ \A k \in 1..L : near[k].label = LabelOf(scan, w[k].id) /\ near[k].away = Away(scan, id, w[k])
      /\ \A k \in 1..L : near[k].away \in Int
      /\ \A b \in around : \E k \in 1..L : w[k] = b
      /\ \A j, k \in 1..L : j <= k => near[j].away <= near[k].away
  BY <1>5 DEF Nearest
<1>7. 1 \in 1..L /\ 2 \in 1..L
  BY <1>2, <1>4, RelocationAssumption
<1>8. called(gold) = {w[1]}
  <2>1. w[1] \in called(gold)
    BY <1>6, <1>7
  <2>2. ASSUME NEW b \in called(gold) PROVE b = w[1]
    <3>1. PICK k \in 1..L : w[k] = b
      BY <1>6
    <3>2. near[k].label = gold
      BY <1>6, <3>1
    <3>3. k = 1 \/ k \in 2..L
      BY <1>4
    <3> QED
      BY <1>2, <3>1, <3>2, <3>3
  <2> QED
    BY <2>1, <2>2
<1>9. Cardinality(called(gold)) = 1
  BY <1>8, FS_Singleton
<1>10. ASSUME NEW g \in called(gold), NEW b \in around \ called(gold)
       PROVE  Away(scan, id, b) >= Away(scan, id, g) + MIN_MARGIN_M
  <2>1. PICK k \in 1..L : w[k] = b
    BY <1>6
  <2>2. g = w[1] /\ k # 1
    BY <1>8, <1>10, <2>1
  <2>3. 2 <= k
    BY <2>2
  <2>4. near[2].away <= near[k].away
    BY <1>6, <1>7, <2>3
  <2>5. near[1].away \in Int /\ near[2].away \in Int /\ near[k].away \in Int
    BY <1>6, <1>7
  <2>6. near[k].away >= near[1].away + MIN_MARGIN_M
    BY <1>2, <2>4, <2>5, RelocationAssumption
  <2> QED
    BY <1>6, <1>7, <2>1, <2>2, <2>6
<1>11. gold \notin wrong
  BY <1>2, <1>4, DistractorsAre DEF wrong
<1> DEFINE reads == {Lower(label) : label \in wrong \cup {gold}}
<1>12. ASSUME NEW label \in wrong
       PROVE  \E u \in called(label) : \A b \in around :
                 Away(scan, id, b) < Away(scan, id, u) => LabelOf(scan, b.id) \in wrong \cup {gold}
  <2>1. PICK k \in 2..L :
           /\ near[k].label = label
           /\ \A j \in 1..k - 1 : near[j].label \in wrong \cup {gold}
    BY <1>2, <1>4, <1>12, DistractorsAre DEF wrong
  <2>2. k \in 1..L
    OBVIOUS
  <2>3. w[k] \in called(label)
    BY <1>6, <2>1, <2>2
  <2>4. ASSUME NEW b \in around, Away(scan, id, b) < Away(scan, id, w[k])
        PROVE  LabelOf(scan, b.id) \in wrong \cup {gold}
    <3>1. PICK j \in 1..L : w[j] = b
      BY <1>6
    <3>2. near[j].away < near[k].away /\ near[j].away \in Int /\ near[k].away \in Int
      BY <1>6, <2>2, <2>4, <3>1
    <3>3. k <= j => near[k].away <= near[j].away
      BY <1>6, <2>2
    <3>4. ~(k <= j)
      BY <3>2, <3>3
    <3>5. j \in 1..k - 1
      BY <1>4, <2>2, <3>4
    <3> QED
      BY <1>6, <2>1, <3>1, <3>5
  <2> QED
    BY <2>3, <2>4
<1> DEFINE away(b) == Away(item.scan, item.move.instance_rescan, b)
           near_item == Around(item.scan, item.move.instance_rescan)
           bears(label) == {b \in near_item : LabelOf(item.scan, b.id) = label}
<1>13. /\ \A b : away(b) = Away(scan, id, b)
       /\ near_item = around /\ \A label : bears(label) = called(label)
  BY <1>1
<1>14. Options(item) = reads
  BY <1>1 DEF Options
<1>20. ASSUME WrittenOneWay(scan, around) PROVE Cardinality(reads) = N_DISTRACTORS + 1
  <2> DEFINE told == wrong \cup {gold}
             f == [label \in told |-> Lower(label)]
  <2>1. ASSUME NEW l \in told PROVE \E b \in around : LabelOf(scan, b.id) = l
    BY <1>8, <1>12
  <2>2. ASSUME NEW l \in told, NEW m \in told, Lower(l) = Lower(m) PROVE l = m
    BY <1>20, <2>1, <2>2 DEF WrittenOneWay
  <2>3. wrong # {} /\ IsFiniteSet(wrong)
    BY <1>2, <1>4, OptionsAreFinite DEF wrong
  <2>4. IsFiniteSet(told) /\ Cardinality(told) = N_DISTRACTORS + 1
    BY <1>2, <1>11, <2>3, FS_AddElement
  <2> HIDE DEF told
  <2>5. f \in Surjection(told, reads) /\ f \in Injection(told, reads)
    BY <2>2 DEF Surjection, Injection, IsInjective, told
  <2> HIDE DEF f, reads
  <2> QED
    BY <2>4, <2>5, FS_Surjection
<1> HIDE DEF away, near_item, bears, called, around, reads
<1>15. Cardinality(Named(item.scan, item.move.label)) = 1 /\ Cardinality(bears(item.gold)) = 1
  BY <1>1, <1>2, <1>9, <1>13
<1>16. \A g \in bears(item.gold), b \in near_item \ bears(item.gold) : away(b) >= away(g) + MIN_MARGIN_M
  BY <1>1, <1>10, <1>13
<1>17. item.gold \notin item.wrong /\ Cardinality(item.wrong) = N_DISTRACTORS
  BY <1>1, <1>2, <1>11
<1>18. \A label \in item.wrong : \E u \in bears(label) : \A b \in near_item :
          away(b) < away(u) => LabelOf(item.scan, b.id) \in item.wrong \cup {item.gold}
  BY <1>1, <1>12, <1>13
<1>21. WrittenOneWay(item.scan, near_item) => Cardinality(Options(item)) = N_DISTRACTORS + 1
  BY <1>1, <1>13, <1>14, <1>20
<1>19. Defensible(item)
  BY <1>15, <1>16, <1>17, <1>18, <1>21, Zenon DEF Defensible, away, near_item, bears
<1> QED
  BY <1>19 DEF item

-----------------------------------------------------------------------------
(* The questions, room by room.                                            *)

IsSequence(s) == s \in Seq({s[x] : x \in DOMAIN s})

\* The questions of the room being mined, and what the miner keeps of one.
Here == {x \in DOMAIN items : items[x].env = Env.id}
Asked(item) == [rescan |-> item.scan, subject |-> Lower(item.move.label), gold |-> Lower(item.gold)]

\* Two questions that give nothing of each other away.
Apart(a, b) ==
    /\ Lower(b.move.label) # Lower(a.move.label)
    /\ ~(/\ b.scan = a.scan
         /\ Lower(b.gold) = Lower(a.move.label) /\ Lower(a.gold) = Lower(b.move.label))

\* Where the miner stands: no questions before the first room; moves only of a
\* room that may be mined.
Standing ==
    /\ data \in Datasets /\ command \in Commands
    /\ room \in Nat /\ room <= Len(data.rooms) /\ IsSequence(items)
    /\ room = 0 => moves = <<>> /\ items = <<>>
    /\ moves # <<>> => Minable(Env)

\* A question is of a room already reached, which may be mined.
FromRooms ==
    \A x \in DOMAIN items : \E r \in 1..room :
        items[x].env = data.rooms[r].id /\ Minable(data.rooms[r])

\* What is remembered of this room is what it has been asked, and the questions
\* of each room are apart and within the cap.
Remembered == room # 0 => asked = {Asked(items[x]) : x \in Here}
RoomsApart ==
    \A x, y \in DOMAIN items : x # y /\ items[x].env = items[y].env => Apart(items[x], items[y])
WithinCap ==
    \A x \in DOMAIN items : Cardinality({y \in DOMAIN items : items[y].env = items[x].env}) <= command.cap

MinerInv == Standing /\ FromRooms /\ Remembered /\ RoomsApart /\ WithinCap

\* A sequence with one element more.
LEMMA Appending ==
    ASSUME NEW s, IsSequence(s), NEW e
    PROVE  LET t == Append(s, e)
               n == Len(s) + 1
           IN  /\ IsSequence(t) /\ n \in Nat /\ n \notin DOMAIN s /\ DOMAIN t = DOMAIN s \cup {n}
               /\ t[n] = e /\ \A x \in DOMAIN s : t[x] = s[x]
               /\ IsFiniteSet(DOMAIN s)
<1> DEFINE t == Append(s, e)
           n == Len(s) + 1
           S == {s[x] : x \in DOMAIN s}
           T == S \cup {e}
<1>1. s \in Seq(S)
  BY DEF IsSequence
<1> HIDE DEF S
<1>2. s \in Seq(T) /\ Len(s) \in Nat /\ DOMAIN s = 1..Len(s)
  BY <1>1
<1>3. t \in Seq(T) /\ Len(t) = n /\ (\A x \in 1..Len(s) : t[x] = s[x]) /\ t[n] = e
  BY <1>2, AppendProperties
<1> HIDE DEF t
<1>4. DOMAIN t = DOMAIN s \cup {n} /\ DOMAIN t = 1..Len(t) /\ n \in Nat /\ n \notin DOMAIN s
  BY <1>2, <1>3
<1>5. IsSequence(t)
  <2> DEFINE R == {t[x] : x \in DOMAIN t}
  <2>1. t = [x \in 1..Len(t) |-> t[x]] /\ \A x \in 1..Len(t) : t[x] \in R
    BY <1>3, <1>4
  <2> HIDE DEF R
  <2>2. t \in Seq(R)
    BY <1>3, <2>1
  <2> QED
    BY <2>2 DEF IsSequence, R
<1>6. IsFiniteSet(DOMAIN s)
  BY <1>2, FS_Interval
<1> QED
  BY <1>2, <1>3, <1>4, <1>5, <1>6 DEF t

\* The rooms of a dataset, each once.
LEMMA RoomsAre ==
    ASSUME data \in Datasets
    PROVE  /\ Len(data.rooms) \in Nat /\ DOMAIN data.rooms = 1..Len(data.rooms)
           /\ \A j, k \in DOMAIN data.rooms : data.rooms[j].id = data.rooms[k].id => j = k
<1> DEFINE R == ToSet(data.rooms)
<1>1. data.rooms \in Seq(R)
  BY RelocationAssumption
<1> HIDE DEF R
<1> QED
  BY <1>1, RelocationAssumption

\* What a question is worth depends on the files alone, which nothing changes.
LEMMA DefensibleStays ==
    ASSUME data' = data, NEW x, NEW item, items'[x] = item, Defensible(item)
    PROVE  Defensible(items[x])'
<1>1. \A scan, id : LabelOf(scan, id)' = LabelOf(scan, id)
  BY DEF LabelOf
<1>2. \A scan : Boxes(scan)' = Boxes(scan)
  BY DEF Boxes
<1>3. \A scan, id : Around(scan, id)' = Around(scan, id)
  BY <1>1, <1>2 DEF Around
<1>4. \A scan, id, b : Away(scan, id, b)' = Away(scan, id, b)
  BY <1>2 DEF Away
<1>5. \A scan, label : Named(scan, label)' = Named(scan, label)
  BY <1>1 DEF Named
<1>6. Options(item)' = Options(item)
  BY DEF Options
<1>7. Defensible(item)'
  <2> DEFINE scan == item.scan
             id == item.move.instance_rescan
             around == Around(scan, id)
             called(label) == {b \in around : LabelOf(scan, b.id) = label}
             after(label) == {b \in Around(scan, id)' : LabelOf(scan, b.id)' = label}
  <2>1. \A label : after(label) = called(label)
    BY <1>1, <1>3
  <2> HIDE DEF called, after, around
  <2>2. Cardinality(Named(scan, item.move.label)') = 1 /\ Cardinality(after(item.gold)) = 1
    BY <1>5, <2>1 DEF Defensible, called, around
  <2>3. \A g \in called(item.gold), b \in around \ called(item.gold) :
           Away(scan, id, b) >= Away(scan, id, g) + MIN_MARGIN_M
    BY DEF Defensible, called, around
  <2>4. \A g \in after(item.gold), b \in Around(scan, id)' \ after(item.gold) :
           Away(scan, id, b)' >= Away(scan, id, g)' + MIN_MARGIN_M
    BY <1>3, <1>4, <2>1, <2>3 DEF around
  <2>5. item.gold \notin item.wrong /\ Cardinality(item.wrong) = N_DISTRACTORS
    BY DEF Defensible
  <2>6. \A label \in item.wrong : \E w \in called(label) : \A b \in around :
           Away(scan, id, b) < Away(scan, id, w) => LabelOf(scan, b.id) \in item.wrong \cup {item.gold}
    BY DEF Defensible, called, around
  <2>7. \A label \in item.wrong : \E w \in after(label) : \A b \in Around(scan, id)' :
           Away(scan, id, b)' < Away(scan, id, w)' => LabelOf(scan, b.id)' \in item.wrong \cup {item.gold}
    BY <1>1, <1>3, <1>4, <2>1, <2>6 DEF around
  <2>8. WrittenOneWay(scan, around) => Cardinality(Options(item)) = N_DISTRACTORS + 1
    BY DEF Defensible, around
  <2>9. WrittenOneWay(scan, Around(scan, id))' => Cardinality(Options(item)') = N_DISTRACTORS + 1
    BY <1>1, <1>3, <1>6, <2>8 DEF WrittenOneWay, around
  <2> QED
    BY <2>2, <2>4, <2>5, <2>7, <2>9 DEF Defensible, after
<1> QED
  BY <1>7

-----------------------------------------------------------------------------
(* One step.                                                               *)

\* The question a fresh move becomes, and what is remembered of it.
LEMMA FreshIs ==
    ASSUME NEW move, NEW letter, Fresh(move)
    PROVE  LET e == Item(move, letter)
           IN  /\ e.env = Env.id /\ Buildable(move)
               /\ Asked(e) = [rescan |-> move.rescan, subject |-> Lower(move.label), gold |-> Lower(Near(move)[1].label)]
               /\ \A x \in DOMAIN items : Asked(items[x]) \in asked => Apart(e, items[x]) /\ Apart(items[x], e)
<1> DEFINE e == Item(move, letter)
<1>1. /\ e.env = Env.id /\ e.scan = move.rescan /\ e.move = move /\ e.gold = Near(move)[1].label
  BY DEF Item
<1>2. Asked(e) = [rescan |-> move.rescan, subject |-> Lower(move.label), gold |-> Lower(Near(move)[1].label)]
  BY <1>1 DEF Asked
<1>3. /\ \A q \in asked : q.subject # Lower(move.label)
      /\ \A q \in asked : ~(q.rescan = e.scan /\ q.subject = Lower(e.gold) /\ q.gold = Lower(move.label))
  BY <1>1 DEF Fresh, MirrorOf
<1> HIDE DEF e
<1>4. ASSUME NEW x \in DOMAIN items, Asked(items[x]) \in asked
      PROVE  Apart(e, items[x]) /\ Apart(items[x], e)
  <2>1. /\ Asked(items[x]).subject = Lower(items[x].move.label) /\ Asked(items[x]).gold = Lower(items[x].gold)
        /\ Asked(items[x]).rescan = items[x].scan
    BY DEF Asked
  <2>2. Lower(items[x].move.label) # Lower(e.move.label)
    BY <1>1, <1>3, <1>4, <2>1
  <2>3. ~(/\ items[x].scan = e.scan
          /\ Lower(items[x].move.label) = Lower(e.gold) /\ Lower(items[x].gold) = Lower(e.move.label))
    BY <1>1, <1>3, <1>4, <2>1
  <2> QED
    BY <2>2, <2>3 DEF Apart
<1> QED
  BY <1>1, <1>2, <1>4 DEF e, Fresh

\* As many questions are remembered as the room has.
LEMMA CountIs ==
    ASSUME MinerInv, room # 0
    PROVE  /\ IsFiniteSet(Here) /\ Cardinality(Here) \in Nat
           /\ Cardinality(Here) = Cardinality(asked)
<1> DEFINE f == [x \in Here |-> Asked(items[x])]
<1>1. IsFiniteSet(DOMAIN items) /\ Here \subseteq DOMAIN items
  BY Appending DEF MinerInv, Standing, Here
<1>2. IsFiniteSet(Here) /\ Cardinality(Here) \in Nat
  BY <1>1, FS_Subset, FS_CardinalityType
<1>3. asked = {Asked(items[x]) : x \in Here}
  BY DEF MinerInv, Remembered
<1>4. ASSUME NEW x \in Here, NEW y \in Here, x # y PROVE f[x] # f[y]
  <2>1. Lower(items[y].move.label) # Lower(items[x].move.label)
    BY <1>4 DEF MinerInv, RoomsApart, Apart, Here
  <2> QED
    BY <2>1 DEF Asked
<1>5. f \in Surjection(Here, asked) /\ f \in Injection(Here, asked)
  BY <1>3, <1>4 DEF Surjection, Injection, IsInjective
<1> HIDE DEF f
<1> QED
  BY <1>2, <1>5, FS_Surjection

LEMMA MinerStarts == MinerInit => MinerInv /\ GoldIsDefensible
<1> SUFFICES ASSUME MinerInit PROVE MinerInv /\ GoldIsDefensible
  OBVIOUS
<1>1. items = <<>> /\ DOMAIN items = {} /\ room = 0 /\ moves = <<>>
  BY DEF MinerInit
<1>2. IsSequence(items)
  BY <1>1 DEF IsSequence
<1>3. Len(data.rooms) \in Nat
  BY RoomsAre DEF MinerInit
<1> QED
  BY <1>1, <1>2, <1>3 DEF MinerInit, MinerInv, Standing, FromRooms, Remembered, RoomsApart, WithinCap,
     GoldIsDefensible

\* A question more.
LEMMA AskStep ==
    ASSUME MinerInv, GoldIsDefensible, Consider, Fresh(Head(moves))
    PROVE  MinerInv' /\ GoldIsDefensible'
<1> DEFINE move == Head(moves)
           n == Len(items) + 1
<1>1. PICK letter \in Letters : items' = Append(items, Item(move, letter))
  BY DEF Consider
<1> DEFINE e == Item(move, letter)
<1>2. /\ asked' = asked \cup {Asked(e)} /\ e.env = Env.id /\ Buildable(move)
      /\ \A x \in DOMAIN items : Asked(items[x]) \in asked => Apart(e, items[x]) /\ Apart(items[x], e)
  BY FreshIs DEF Consider
<1>3. /\ moves' = Tail(moves) /\ data' = data /\ command' = command /\ room' = room
      /\ moves # <<>> /\ ~Capped
  BY DEF Consider
<1>4. Defensible(e)
  BY <1>2, BuildableIsDefensible DEF MinerInv, Standing
<1> HIDE DEF e
<1>5. /\ IsSequence(items') /\ n \in Nat /\ n \notin DOMAIN items /\ DOMAIN items' = DOMAIN items \cup {n}
      /\ items'[n] = e /\ \A x \in DOMAIN items : items'[x] = items[x]
      /\ IsFiniteSet(DOMAIN items)
  BY <1>1, Appending DEF MinerInv, Standing, e
<1> HIDE DEF n
<1>6. room # 0 /\ Minable(Env) /\ room \in 1..room
  BY <1>3 DEF MinerInv, Standing
<1>7. Env' = Env /\ (\A r : Minable(r)' = Minable(r))
  BY <1>3 DEF Env, Minable, AnswersWithheld
<1>8. Standing'
  BY <1>3, <1>5, <1>6, <1>7 DEF MinerInv, Standing
<1>9. FromRooms'
  BY <1>2, <1>3, <1>5, <1>6, <1>7 DEF MinerInv, FromRooms, Env
<1>10. Here' = Here \cup {n}
  BY <1>2, <1>5, <1>7 DEF Here
<1>11. Remembered'
  <2>1. asked = {Asked(items[x]) : x \in Here}
    BY <1>6 DEF MinerInv, Remembered
  <2>2. \A x : Asked(items[x])' = Asked(items'[x])
    BY DEF Asked
  <2>3. asked' = {Asked(items'[x]) : x \in Here'}
    BY <1>2, <1>5, <1>10, <2>1 DEF Here
  <2> QED
    BY <2>2, <2>3 DEF Remembered
<1>12. \A x \in Here : Asked(items[x]) \in asked
  BY <1>6 DEF MinerInv, Remembered
<1>13. RoomsApart'
  <2> SUFFICES ASSUME NEW x \in DOMAIN items', NEW y \in DOMAIN items', x # y,
                      items'[x].env = items'[y].env
               PROVE  Apart(items'[x], items'[y])
    BY DEF RoomsApart, Apart
  <2>1. CASE x # n /\ y # n
    BY <1>5, <2>1 DEF MinerInv, RoomsApart
  <2>2. CASE x = n
    <3>1. y \in Here /\ items'[y] = items[y] /\ items'[x] = e /\ y \in DOMAIN items
      BY <1>2, <1>5, <2>2 DEF Here
    <3> QED
      BY <1>2, <1>12, <3>1
  <2>3. CASE y = n /\ x # n
    <3>1. x \in Here /\ items'[x] = items[x] /\ items'[y] = e /\ x \in DOMAIN items
      BY <1>2, <1>5, <2>3 DEF Here
    <3> QED
      BY <1>2, <1>12, <3>1
  <2> QED
    BY <2>1, <2>2, <2>3
<1>14. WithinCap'
  <2>1. command.cap \in Int
    BY RelocationAssumption DEF MinerInv, Standing
  <2>2. IsFiniteSet(Here) /\ Cardinality(Here) \in Nat /\ Cardinality(Here) < command.cap
    BY <1>3, <1>6, <2>1, CountIs DEF Capped
  <2>3. Cardinality(Here \cup {n}) <= command.cap
    <3>1. n \notin Here
      BY <1>5 DEF Here
    <3>2. Cardinality(Here \cup {n}) = Cardinality(Here) + 1
      BY <2>2, <3>1, FS_AddElement
    <3> QED
      BY <2>1, <2>2, <3>2
  <2> SUFFICES ASSUME NEW x \in DOMAIN items'
               PROVE  Cardinality({y \in DOMAIN items' : items'[y].env = items'[x].env}) <= command.cap
    BY <1>3 DEF WithinCap
  <2>4. CASE items'[x].env = Env.id
    <3>1. {y \in DOMAIN items' : items'[y].env = items'[x].env} = Here'
      BY <1>7, <2>4 DEF Here
    <3> QED
      BY <1>10, <2>3, <3>1
  <2>5. CASE items'[x].env # Env.id
    <3>1. x \in DOMAIN items /\ items'[x] = items[x]
      BY <1>2, <1>5, <2>5
    <3>2. {y \in DOMAIN items' : items'[y].env = items'[x].env}
            = {y \in DOMAIN items : items[y].env = items[x].env}
      BY <1>2, <1>5, <2>5, <3>1
    <3> QED
      BY <3>1, <3>2 DEF MinerInv, WithinCap
  <2> QED
    BY <2>4, <2>5
<1>15. GoldIsDefensible'
  <2> SUFFICES ASSUME NEW x \in DOMAIN items' PROVE Defensible(items[x])'
    BY DEF GoldIsDefensible
  <2>1. CASE x = n
    BY <1>3, <1>4, <1>5, <2>1, DefensibleStays
  <2>2. CASE x # n
    <3>1. Defensible(items[x]) /\ items'[x] = items[x]
      BY <1>5, <2>2 DEF GoldIsDefensible
    <3> QED
      BY <1>3, <3>1, DefensibleStays
  <2> QED
    BY <2>1, <2>2
<1> QED
  BY <1>8, <1>9, <1>11, <1>13, <1>14, <1>15 DEF MinerInv

\* No question more, in the same room or out of the rooms.
LEMMA SameRoom ==
    ASSUME MinerInv, GoldIsDefensible, UNCHANGED <<data, command, room, asked, items>>,
           moves' # <<>> => moves # <<>>
    PROVE  MinerInv' /\ GoldIsDefensible'
<1>1. Env' = Env /\ (\A r : Minable(r)' = Minable(r))
  BY DEF Env, Minable, AnswersWithheld
<1>2. Standing'
  BY <1>1 DEF MinerInv, Standing
<1>3. FromRooms'
  BY <1>1 DEF MinerInv, FromRooms
<1>4. Remembered'
  BY <1>1 DEF MinerInv, Remembered, Here, Asked
<1>5. RoomsApart' /\ WithinCap'
  BY DEF MinerInv, RoomsApart, Apart, WithinCap
<1>6. GoldIsDefensible'
  BY DefensibleStays DEF GoldIsDefensible
<1> QED
  BY <1>2, <1>3, <1>4, <1>5, <1>6 DEF MinerInv

\* The next room has no questions yet: no earlier room is the same room.
LEMMA RoomStep ==
    ASSUME MinerInv, GoldIsDefensible, NextRoom
    PROVE  MinerInv' /\ GoldIsDefensible'
<1>1. /\ UNCHANGED <<data, command, items>> /\ room' = room + 1 /\ room < Len(data.rooms) /\ asked' = {}
      /\ moves' = IF Minable(data.rooms[room']) THEN Relocations(data.rooms[room']) ELSE <<>>
  BY DEF NextRoom
<1>2. /\ Len(data.rooms) \in Nat /\ DOMAIN data.rooms = 1..Len(data.rooms)
      /\ \A j, k \in DOMAIN data.rooms : data.rooms[j].id = data.rooms[k].id => j = k
      /\ room \in Nat /\ room <= Len(data.rooms)
  BY RoomsAre DEF MinerInv, Standing
<1>3. Env' = data.rooms[room + 1] /\ (\A r : Minable(r)' = Minable(r))
  BY <1>1 DEF Env, Minable, AnswersWithheld
<1>4. Standing'
  <2>1. moves' # <<>> => Minable(Env')
    BY <1>1, <1>3
  <2> QED
    BY <1>1, <1>2, <1>3, <2>1 DEF MinerInv, Standing
<1>5. FromRooms'
  <2> SUFFICES ASSUME NEW x \in DOMAIN items
               PROVE  \E r \in 1..room + 1 : items[x].env = data.rooms[r].id /\ Minable(data.rooms[r])
    BY <1>1, <1>3 DEF FromRooms
  <2>1. PICK r \in 1..room : items[x].env = data.rooms[r].id /\ Minable(data.rooms[r])
    BY DEF MinerInv, FromRooms
  <2>2. r \in 1..room + 1
    BY <1>2
  <2> QED
    BY <2>1, <2>2
<1>6. Remembered'
  <2>1. ASSUME NEW x \in DOMAIN items, items[x].env = data.rooms[room + 1].id PROVE FALSE
    <3>1. PICK r \in 1..room : items[x].env = data.rooms[r].id
      BY DEF MinerInv, FromRooms
    <3>2. r \in DOMAIN data.rooms /\ room + 1 \in DOMAIN data.rooms /\ r # room + 1
      BY <1>1, <1>2
    <3> QED
      BY <1>2, <2>1, <3>1, <3>2
  <2>2. Here' = {}
    BY <1>1, <1>3, <2>1 DEF Here
  <2> QED
    BY <1>1, <2>2 DEF Remembered
<1>7. RoomsApart' /\ WithinCap'
  BY <1>1 DEF MinerInv, RoomsApart, Apart, WithinCap
<1>8. GoldIsDefensible'
  BY <1>1, DefensibleStays DEF GoldIsDefensible
<1> QED
  BY <1>4, <1>5, <1>6, <1>7, <1>8 DEF MinerInv

LEMMA MinerStep ==
    ASSUME MinerInv, GoldIsDefensible, [MinerNext]_minerVars
    PROVE  MinerInv' /\ GoldIsDefensible'
<1>1. CASE Consider
  <2>1. CASE Fresh(Head(moves))
    BY <1>1, <2>1, AskStep
  <2>2. CASE ~Fresh(Head(moves))
    <3>1. UNCHANGED <<data, command, room, asked, items>> /\ moves # <<>>
      BY <1>1, <2>2 DEF Consider
    <3> QED
      BY <3>1, SameRoom
  <2> QED
    BY <2>1, <2>2
<1>2. CASE NextRoom
  BY <1>2, RoomStep
<1>3. CASE Audit
  BY <1>3, SameRoom DEF Audit
<1>4. CASE Freeze
  BY <1>4, SameRoom DEF Freeze
<1>5. CASE UNCHANGED minerVars
  BY <1>5, SameRoom DEF minerVars
<1> QED
  BY <1>1, <1>2, <1>3, <1>4, <1>5 DEF MinerNext

-----------------------------------------------------------------------------
(* The theorems.                                                           *)

\* The gold answer of every question mined is the object that the rescan's boxes
\* show to be nearest, by the margin; no other object bears its label as written,
\* and where no label is written in two ways the options read apart
\* (a3_relocation.py, _build).
THEOREM DefensibleGold == MinerSpec => []GoldIsDefensible
<1>1. MinerInit => MinerInv /\ GoldIsDefensible
  BY MinerStarts
<1>2. MinerInv /\ GoldIsDefensible /\ [MinerNext]_minerVars => MinerInv' /\ GoldIsDefensible'
  BY MinerStep
<1> QED
  BY <1>1, <1>2, PTL DEF MinerSpec

\* No room is asked twice of one label, holds a question and its mirror image in
\* one scan, exceeds the cap, or is a room whose answers are withheld
\* (_mine_environment, multi_session).
THEOREM NothingGivenAway == MinerSpec => []NoGiveaways
<1>1. MinerInit => MinerInv /\ GoldIsDefensible
  BY MinerStarts
<1>2. MinerInv /\ GoldIsDefensible /\ [MinerNext]_minerVars => MinerInv' /\ GoldIsDefensible'
  BY MinerStep
<1>3. MinerInv => NoGiveaways
  <2> SUFFICES ASSUME MinerInv, NEW x \in DOMAIN items
               PROVE  LET mine == {y \in DOMAIN items : items[y].env = items[x].env}
                      IN  /\ Cardinality(mine) <= command.cap
                          /\ \A y \in mine \ {x} :
                                /\ Lower(items[y].move.label) # Lower(items[x].move.label)
                                /\ ~(/\ items[y].scan = items[x].scan
                                     /\ Lower(items[y].gold) = Lower(items[x].move.label)
                                     /\ Lower(items[x].gold) = Lower(items[y].move.label))
                          /\ \A k \in DOMAIN data.rooms :
                                data.rooms[k].id = items[x].env => Minable(data.rooms[k])
    BY Zenon DEF NoGiveaways
  <2>1. Cardinality({y \in DOMAIN items : items[y].env = items[x].env}) <= command.cap
    BY DEF MinerInv, WithinCap
  <2>2. \A y \in {y \in DOMAIN items : items[y].env = items[x].env} \ {x} : Apart(items[x], items[y])
    BY DEF MinerInv, RoomsApart
  <2>3. ASSUME NEW k \in DOMAIN data.rooms, data.rooms[k].id = items[x].env
        PROVE  Minable(data.rooms[k])
    <3>1. PICK r \in 1..room : items[x].env = data.rooms[r].id /\ Minable(data.rooms[r])
      BY DEF MinerInv, FromRooms
    <3>2. r \in DOMAIN data.rooms
      BY <3>1, RoomsAre DEF MinerInv, Standing
    <3>3. r = k
      BY <2>3, <3>1, <3>2, RoomsAre DEF MinerInv, Standing
    <3> QED
      BY <3>1, <3>3
  <2> QED
    BY <2>1, <2>2, <2>3 DEF Apart
<1> QED
  BY <1>1, <1>2, <1>3, PTL DEF MinerSpec
================================================================================
