---------------------------------- MODULE Media ----------------------------------
(***************************************************************************)
(* media.py: which frames of a video are sampled. A video is a record:     *)
(* whether it opens, the instants of its frames, in order, the duration    *)
(* its stream or container declares, or None, and whether it can be sought *)
(* in: a decoder that cannot yields nothing at any target.                 *)
(***************************************************************************)
EXTENDS Naturals, Sequences, FiniteSets, SequencesExt, FiniteSetsExt

CONSTANTS None, MediaError

IsVideo(video) ==
    /\ video \in [at : Seq(Nat), duration : Nat \cup {None}, seeks : BOOLEAN, opens : BOOLEAN]
    /\ \A x \in 2..Len(video.at) : video.at[x - 1] <= video.at[x]

Instants(video) == {video.at[x] : x \in DOMAIN video.at}

\* _frame_at: the first frame at or after the middle of the k-th of n parts of
\* the duration, else the last one; None without frames.
FrameAt(video, k, n) ==
    LET due == {t \in Instants(video) : (2 * k - 1) * video.duration <= 2 * n * t}
    IN  IF video.at = <<>> \/ ~video.seeks THEN None
        ELSE IF due = {} THEN Max(Instants(video)) ELSE Min(due)

\* _sequential_sample: every k-th frame, until there are n; the number of
\* frames is declared with the duration.
Sequential(video, n) ==
    LET stride == IF video.duration = None \/ Len(video.at) < n THEN 1
                  ELSE Len(video.at) \div n
        place(k) == 1 + (k - 1) * stride
    IN  [k \in {k \in 1..n : place(k) <= Len(video.at)} |-> video.at[place(k)]]

\* sample_frames: the instants of the frames, a MediaError for a video that
\* cannot be opened. There is a frame at every target or at none.
SampleFrames(video, n) ==
    LET found == [k \in 1..n |-> FrameAt(video, k, n)]
    IN  IF ~video.opens THEN MediaError
        ELSE IF video.duration = None \/ None \in ToSet(found) THEN Sequential(video, n)
        ELSE found
=============================================================================
