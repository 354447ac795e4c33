--------------------------------- MODULE Recall ---------------------------------
(***************************************************************************)
(* What a system under test promises: it takes in the sessions of one home *)
(* at a time, in their order, and once these are over it answers from what *)
(* it has taken in and from nothing else.                                  *)
(***************************************************************************)
EXTENDS Naturals

CONSTANTS Homes, Sessions, Frames

VARIABLES
    home,       \* the home being watched, 0 before the first
    known,      \* the frames it can recall, [home, session, at]
    sealed,     \* the sessions are over
    drawn       \* the frames its last answer drew upon

recallVars == <<home, known, sealed, drawn>>

Of(h) == [home : {h}, session : Sessions, at : Frames]

Init == home = 0 /\ known = {} /\ sealed = FALSE /\ drawn = {}

Enter ==
    /\ home' \in Homes /\ home' > home
    /\ known' = {} /\ sealed' = FALSE /\ drawn' = {}

\* It takes something in; at the end of the sessions, or before.
Learn ==
    /\ ~sealed
    /\ known \subseteq known' /\ known' \subseteq known \cup Of(home)
    /\ sealed' \in BOOLEAN
    /\ UNCHANGED <<home, drawn>>

Answer ==
    /\ sealed
    /\ drawn' \subseteq known
    /\ UNCHANGED <<home, known, sealed>>

Leave ==
    /\ sealed
    /\ known' = {}
    /\ UNCHANGED <<home, sealed, drawn>>

Spec == Init /\ [][Enter \/ Learn \/ Answer \/ Leave]_recallVars
=============================================================================
