-------------------------------- MODULE MCPilot --------------------------------
(***************************************************************************)
(* Four items, one of each format, on two axes, the first a control that   *)
(* cannot be answered. One of its options is a part of another, and the    *)
(* canonical one holds a negation. "book-" and "not-" begin words, as does *)
(* "bookshelf". The items of the two environments are not in one piece.    *)
(***************************************************************************)
EXTENDS Pilot

TheLabels == [w \in {"B)"} |-> "B"]
TheGlued == [w \in {"book-", "not-"} |-> IF w = "not-" THEN "not" ELSE "book"]
TheRefusals == {<<"cannot">>, <<"not", "available">>, <<"not", "enough">>}
TheUnanswerable == <<"not", "available">>
TheWords == {"A", "B)", "answer", "is", "**", "not", "top", "shelf", "sink",
             "available", "enough", "cannot", "book-", "not-"}

TheOptions ==
    [i \in {"gone", "where"} |->
        IF i = "gone"
        THEN [k \in {"A", "B", "C", "D", "E"} |->
                CASE k = "A" -> <<"top", "shelf">> [] k = "B" -> <<"shelf">>
                  [] k = "C" -> <<"sink">> [] k = "D" -> <<"top">>
                  [] k = "E" -> TheUnanswerable]
        ELSE [k \in {"A", "B"} |-> IF k = "A" THEN <<"sink">> ELSE <<"shelf">>]]

TheItems == {"gone", "where", "far", "why"}
TheOrder == <<"gone", "where", "far", "why">>
TheAxis == [i \in TheItems |-> IF i \in {"gone", "where"} THEN "past" ELSE "now"]
TheFormat == [i \in TheItems |-> CASE i = "gone" -> "mcq5" [] i = "where" -> "mcq"
                                   [] i = "far" -> "numeric" [] i = "why" -> "open"]
TheGold == [i \in TheItems |-> CASE i = "gone" -> "E" [] i = "where" -> "A"
                                 [] i = "far" -> 10 [] i = "why" -> None]
TheAbstention == [i \in TheItems |-> IF i = "where" THEN "B" ELSE None]
TheEnv == [i \in TheItems |-> IF i \in {"gone", "far"} THEN "flat" ELSE "house"]
ThePlans == {<<"blind", "memory">>, <<"memory", "base-read">>, <<"oracle", "notes">>}
TheEvidence ==
    {[n_records |-> 1, total_frames |-> 2, blank |-> 0, contested |-> FALSE],
     [n_records |-> 0, total_frames |-> 1, blank |-> 1, contested |-> FALSE],
     [n_records |-> 1, total_frames |-> 2, blank |-> 0, contested |-> TRUE]}

TheReplies ==
    [i \in TheItems |->
        CASE i = "gone"  -> {<<"cannot">>, <<"**", "A", "**">>}
          [] i = "where" -> {<<"answer", "A">>}
          [] i = "far"   -> {13}
          [] i = "why"   -> {<<"shelf">>}]
=============================================================================
