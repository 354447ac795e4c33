------------------------------- MODULE MCMemory -------------------------------
(***************************************************************************)
(* Homes of up to three sessions, one after the other in one process, with *)
(* films of every sort: a plain one; one whose last frame comes long       *)
(* before the end that is declared; one of unknown duration; one that      *)
(* cannot be sought in; one without frames; one that does not open.        *)
(***************************************************************************)
EXTENDS Memory

Video(at, duration, seeks, opens) ==
    [at |-> at, duration |-> duration, seeks |-> seeks, opens |-> opens]
Plain   == Video(<<0, 1, 2, 3>>, 4, TRUE, TRUE)
Cut     == Video(<<0, 1>>, 8, TRUE, TRUE)
Unknown == Video(<<0, 3>>, None, TRUE, TRUE)
Unsought == Video(<<0, 1, 2, 3, 4>>, 5, FALSE, TRUE)
Blank   == Video(<<>>, 2, TRUE, TRUE)
Corrupt == Video(<<0>>, 1, TRUE, FALSE)

TheFilms == {Plain, Cut, Unknown, Unsought, Blank, Corrupt}
TheNeighbourhoods ==
    {<<<<f, g>>, <<h>>>> : f, g, h \in TheFilms} \cup
    {<<<<Plain, Cut, f>>>> : f \in TheFilms} \cup {<<<<f>>, <<Unsought, Plain, Plain>>>> : f \in TheFilms}

TheSystems ==
    {[kind |-> k, mode |-> m] : k \in {"api", "vlm"}, m \in {"blind", "memory", "oracle"}} \cup
    {[kind |-> k, mode |-> m] : k \in {"echo", "lact", "mean", "none", "lora"},
                                m \in {"blind", "memory"}}
=============================================================================
