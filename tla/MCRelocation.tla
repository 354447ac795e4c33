------------------------------ MODULE MCRelocation ------------------------------
(***************************************************************************)
(* Two rooms of one or two rescans. In a scan, the objects stand on a      *)
(* line: a layout gives their labels, their places, and the moved ones.    *)
(* Layouts: everything in its place; a chair that the rescan labels anew   *)
(* while another chair stands by; two chairs; a near-tie; a room with too  *)
(* few objects; an instance whose id changed; a wall that "moved"; labels  *)
(* of one scan in two spellings. Every layout also stands alone.           *)
(***************************************************************************)
EXTENDS Relocation

L(name) == [lower |-> <<name>>, capital |-> FALSE]
Thing(name, at) == [label |-> L(name), at |-> at]
Capital(thing) == [thing EXCEPT !.label.capital = TRUE]
Gone(instance, displacement) ==
    [instance |-> instance, displacement |-> displacement, instance_rescan |-> None]

\* A reference scan: what the instances are called before they move.
Before == [k \in 1..7 |->
    L(CASE k = 1 -> "chair" [] k = 2 -> "table" [] k = 3 -> "lamp" [] k = 4 -> "bed"
        [] k = 5 -> "shelf" [] k = 6 -> "wall" [] k = 7 -> "box")]

Layout(things, rigid) == [things |-> things, rigid |-> rigid]
Plain == Layout(<<Thing("chair", 0), Thing("table", 1), Thing("lamp", 4), Thing("bed", 8),
                  Thing("shelf", 13), Thing("wall", 0), Thing("box", 16)>>,
                <<Gone(1, 9), Gone(2, 5), Gone(4, 2), Gone(3, 1), Gone(7, 2), Gone(6, 7)>>)
Relabelled == Layout(<<Thing("stool", 0), Thing("table", 1), Thing("lamp", 4), Thing("chair", 6),
                       Thing("shelf", 13)>>, <<Gone(1, 9), Gone(5, 2), Gone(3, 6)>>)
Doubled == Layout(<<Thing("chair", 0), Thing("table", 1), Thing("chair", 4), Thing("bed", 8),
                    Thing("shelf", 13), Thing("lamp", 2), Thing("table", 20)>>,
                  <<Gone(1, 9), Gone(5, 2), Gone(4, 8)>>)
Tie == Layout(<<Thing("chair", 5), Thing("table", 4), Thing("lamp", 6), Thing("bed", 8),
                Thing("shelf", 0)>>, <<Gone(1, 9), Gone(5, None), Gone(4, 4)>>)
Bare == Layout(<<Thing("chair", 0), Thing("table", 1), Thing("lamp", 2)>>, <<Gone(1, 9)>>)
Renumbered == Layout(<<Thing("lamp", 0), Thing("table", 1), Thing("chair", 5), Thing("bed", 9),
                       Thing("shelf", 14)>>,
                     <<[Gone(1, 9) EXCEPT !.instance_rescan = 3],
                       [Gone(3, 9) EXCEPT !.instance_rescan = 1]>>)
Spelled == Layout(<<Capital(Thing("chair", 0)), Capital(Thing("table", 1)), Thing("lamp", 4),
                    Thing("table", 6), Thing("shelf", 13), Capital(Thing("wall", 0)), Thing("bed", 20)>>,
                  <<Gone(1, 9), Gone(3, 5), Gone(4, 2), Gone(6, 7)>>)
Hidden == Layout(Plain.things, <<Gone(1, 9), Withheld>>)

Room(id, split, layouts) ==
    [id |-> id, split |-> split,
     scans |-> [s \in DOMAIN layouts |-> [id |-> id \o <<s>>, rigid |-> layouts[s].rigid]],
     layouts |-> layouts]

\* The last thing of a scan with `cut` has a label and no box.
Files(rooms, cut) ==
    LET scans == {<<r, s>> \in (DOMAIN rooms) \X {1, 2} : s \in DOMAIN rooms[r].layouts}
        of(scan) == (CHOOSE p \in scans : rooms[p[1]].id \o <<p[2]>> = scan)
        things(scan) == rooms[of(scan)[1]].layouts[of(scan)[2]].things
        ids == {rooms[p[1]].id \o <<p[2]>> : p \in scans}
    IN  [rooms |-> rooms,
         labels |-> [scan \in ids \cup {rooms[r].id : r \in DOMAIN rooms} |->
            IF scan \in ids THEN [k \in DOMAIN things(scan) |-> things(scan)[k].label] ELSE Before],
         boxes |-> [scan \in ids |->
            [k \in 1..(Len(things(scan)) - (IF cut THEN 1 ELSE 0)) |->
                [id |-> k, at |-> things(scan)[k].at]]]]

Layouts == {Plain, Relabelled, Doubled, Tie, Bare, Renumbered, Spelled, Hidden}
One == <<"one", "a">>
Others == {<<"two", "a">>, <<"one", "b">>}
TheDatasets ==
    {Files(<<Room(One, "train", <<a>>), Room(other, "validation", <<b, c>>)>>, cut) :
        a \in {Plain, Spelled}, b, c \in Layouts, other \in Others, cut \in BOOLEAN} \cup
    {Files(<<Room(One, split, <<a>>)>>, FALSE) : split \in {"train", "test"}, a \in Layouts}
TheCommands ==
    {[cap |-> 2, limit |-> None, force |-> FALSE], [cap |-> 4, limit |-> 4, force |-> FALSE],
     [cap |-> 1, limit |-> 0, force |-> TRUE]}
TheUnusable == {<<"wall">>, <<"box">>}
TheStructural == {<<"wall">>, <<"shelf">>}
=============================================================================
