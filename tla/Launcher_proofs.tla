---------------------------- MODULE Launcher_proofs ----------------------------
(***************************************************************************)
(* Theorems about Launcher, for any models, tracks, items, configurations, *)
(* versions of the code and workers, over any number of launches and       *)
(* kills. Type correctness holds of every launch; that rows are not mixed, *)
(* and that verdicts are true, is proved of launches that come in turn.    *)
(***************************************************************************)
EXTENDS Launcher, TLAPS

Numbers == 1..Launches
Active == {n \in Numbers : launch[n].pc \in {"check", "open", "mark", "run"}}

-----------------------------------------------------------------------------
(* The inductive invariant.                                                *)

\* A launch that was given has settings.
Signed == \A n \in Numbers : launch[n].pc # "off" => Signature(n) \in Settings

\* Where a launch is says what it has left to do.
ControlOf(n) ==
    LET l == launch[n]
    IN  /\ l.pc = "off" => l.unchecked = Runs
        /\ l.pc \in {"open", "mark"} => l.cur \in l.unchecked
        /\ l.pc = "run" => l.unchecked = {}
        /\ l.pc \in {"off", "check", "open", "mark"} => \A m \in Models : l.left[m] = Tracks
        /\ \A m \in Models : <<n, m>> \in compared =>
              l.pc \in {"completed", "failed"} /\ {"memory", "blind"} \subseteq Tracks

Control == \A n \in Numbers : ControlOf(n)

\* The thread of a model waits for one child, the one of the track it is at.
Waiting ==
    /\ \A n \in Numbers : \A m \in Models :
          /\ launch[n].track[m] = None => launch[n].code[m] = None
          /\ launch[n].track[m] # None => launch[n].track[m] \in launch[n].left[m]
    /\ \A p \in child :
          /\ launch[p.launch].pc \notin {"off", "check", "open", "mark"}
          /\ launch[p.launch].pc = "run" =>
                /\ launch[p.launch].track[p.run[1]] = p.run[2]
                /\ launch[p.launch].code[p.run[1]] = None
    /\ \A p, q \in child : p.launch = q.launch /\ p.run[1] = q.run[1] => p = q

\* One launch is at work, or the children that a killed one has left behind;
\* meanwhile the code stays as it was when the launch began.
Alone ==
    /\ \A n, e \in Active : n = e
    /\ \A n \in Active : launch[n].commit = commit
    /\ \A p \in child : /\ launch[p.launch].pc \in {"run", "killed"}
                        /\ launch[p.launch].commit = commit
                        /\ \A n \in Active : p.launch = n
    /\ \A p, q \in child : p.launch = q.launch

\* A folder that the launch has dealt with has its marker.
Checked == \A n \in Active : \A r \in Runs \ launch[n].unchecked : folder[r] = Signature(n)

\* The folder that is being marked has no rows of another setting.
Marking ==
    \A n \in Active :
       /\ launch[n].pc = "open" => folder[launch[n].cur] \in {None, Signature(n)}
       /\ launch[n].pc = "mark" =>
             /\ folder[launch[n].cur] = Torn
             /\ \A i \in Items : LET row == rows[launch[n].cur][i]
                                 IN  row # None => row.under = Signature(n)

\* A child writes under the setting of its launch, which is in the marker.
UnderMarker ==
    \A p \in child : p.under = Signature(p.launch) /\ folder[p.run] = p.under

\* A child answers the items that have no answer.
Serving ==
    \A p \in child : \A i \in p.left :
       rows[p.run][i] = None \/ rows[p.run][i].flaw = "not_ok"

\* What was judged and did not fail is whole.
Judged ==
    \A n \in Numbers : launch[n].pc = "run" =>
       \A m \in Models : \A t \in Tracks \ launch[n].left[m] :
          <<m, t>> \in launch[n].failed \/ Whole(<<m, t>>, n)

Inv ==
    /\ TypeOK /\ Signed /\ Waiting /\ Control /\ Alone
    /\ Checked /\ Marking /\ UnderMarker /\ Serving /\ Judged
    /\ RowsMatchMarker /\ VerdictsAreTrue

-----------------------------------------------------------------------------
(* What a step does to the launch it is a step of.                         *)

Launchers ==
    [pc : Over \cup {"check", "open", "mark", "run"},
     config : {None} \cup Configs, commit : {None} \cup Commits,
     unchecked : SUBSET Runs, cur : {None} \cup Runs,
     track : [Models -> {None} \cup Tracks], code : [Models -> {None, 0, 1}],
     left : [Models -> SUBSET Tracks], failed : SUBSET Runs]

OthersStay(n) ==
    /\ launch' \in [Numbers -> Launchers]
    /\ \A e \in Numbers : e # n => launch'[e] = launch[e]
SettingStays(n) == launch'[n].config = launch[n].config /\ launch'[n].commit = launch[n].commit
FoldersStay(n) == launch'[n].unchecked = launch[n].unchecked /\ launch'[n].cur = launch[n].cur
TracksStay(n) ==
    /\ launch'[n].track = launch[n].track /\ launch'[n].code = launch[n].code
    /\ launch'[n].left = launch[n].left /\ launch'[n].failed = launch[n].failed

LEMMA TypeOfLaunch ==
    ASSUME TypeOK, NEW n \in Numbers
    PROVE  launch \in [Numbers -> Launchers] /\ launch[n] \in Launchers
BY DEF TypeOK, Launchers, Numbers

LEMMA OneLaunch ==
    ASSUME launch \in [Numbers -> Launchers], NEW n \in Numbers, NEW l \in Launchers,
           launch' = [launch EXCEPT ![n] = l]
    PROVE  OthersStay(n) /\ launch'[n] = l
BY DEF OthersStay

LEMMA StartDoes ==
    ASSUME TypeOK, NEW n \in Numbers, NEW c \in Configs, Start(n, c)
    PROVE  /\ OthersStay(n) /\ FoldersStay(n) /\ TracksStay(n)
           /\ launch'[n].pc = "check" /\ launch'[n].config = c /\ launch'[n].commit = commit
<1> DEFINE l == [launch[n] EXCEPT !.pc = "check", !.config = c, !.commit = commit]
<1>1. launch \in [Numbers -> Launchers] /\ launch[n] \in Launchers
  BY TypeOfLaunch
<1>2. l \in Launchers
  BY <1>1 DEF TypeOK, Launchers
<1>3. launch' = [launch EXCEPT ![n] = l]
  BY <1>1 DEF Start
<1>4. OthersStay(n) /\ launch'[n] = l
  BY <1>1, <1>2, <1>3, OneLaunch
<1> QED
  BY <1>1, <1>4 DEF FoldersStay, TracksStay, Launchers

LEMMA CheckDoes ==
    ASSUME TypeOK, NEW n \in Numbers, Check(n)
    PROVE  /\ OthersStay(n) /\ SettingStays(n) /\ TracksStay(n)
           /\ launch'[n].unchecked = launch[n].unchecked
           /\ \/ /\ launch'[n].pc = "open" /\ launch'[n].cur \in launch[n].unchecked
                 /\ Mine(n, launch'[n].cur)
              \/ launch'[n].pc = "refused"
<1>1. launch \in [Numbers -> Launchers] /\ launch[n] \in Launchers
  BY TypeOfLaunch
<1>2. PICK r \in launch[n].unchecked :
         IF Mine(n, r)
         THEN launch' = [launch EXCEPT ![n].pc = "open", ![n].cur = r]
         ELSE launch' = [launch EXCEPT ![n].pc = "refused"]
  BY DEF Check
<1>3. CASE Mine(n, r)
  <2> DEFINE l == [launch[n] EXCEPT !.pc = "open", !.cur = r]
  <2>1. l \in Launchers
    BY <1>1 DEF Launchers
  <2>2. launch' = [launch EXCEPT ![n] = l]
    BY <1>1, <1>2, <1>3
  <2>3. OthersStay(n) /\ launch'[n] = l
    BY <1>1, <2>1, <2>2, OneLaunch
  <2> QED
    BY <1>1, <1>3, <2>3 DEF SettingStays, TracksStay, Launchers
<1>4. CASE ~Mine(n, r)
  <2> DEFINE l == [launch[n] EXCEPT !.pc = "refused"]
  <2>1. l \in Launchers
    BY <1>1 DEF Launchers, Over
  <2>2. launch' = [launch EXCEPT ![n] = l]
    BY <1>1, <1>2, <1>4
  <2>3. OthersStay(n) /\ launch'[n] = l
    BY <1>1, <2>1, <2>2, OneLaunch
  <2> QED
    BY <1>1, <2>3 DEF SettingStays, TracksStay, Launchers
<1> QED
  BY <1>3, <1>4

LEMMA OpenDoes ==
    ASSUME TypeOK, NEW n \in Numbers, Open(n)
    PROVE  /\ OthersStay(n) /\ SettingStays(n) /\ FoldersStay(n) /\ TracksStay(n)
           /\ launch'[n].pc = "mark"
<1> DEFINE l == [launch[n] EXCEPT !.pc = "mark"]
<1>1. launch \in [Numbers -> Launchers] /\ launch[n] \in Launchers
  BY TypeOfLaunch
<1>2. l \in Launchers
  BY <1>1 DEF Launchers
<1>3. launch' = [launch EXCEPT ![n] = l]
  BY <1>1 DEF Open
<1>4. OthersStay(n) /\ launch'[n] = l
  BY <1>1, <1>2, <1>3, OneLaunch
<1> QED
  BY <1>1, <1>4 DEF SettingStays, FoldersStay, TracksStay, Launchers

LEMMA MarkDoes ==
    ASSUME TypeOK, NEW n \in Numbers, Mark(n)
    PROVE  /\ OthersStay(n) /\ SettingStays(n) /\ TracksStay(n)
           /\ launch'[n].unchecked = launch[n].unchecked \ {launch[n].cur}
           /\ launch'[n].pc = IF launch'[n].unchecked = {} THEN "run" ELSE "check"
<1> DEFINE left == launch[n].unchecked \ {launch[n].cur}
           l == [launch[n] EXCEPT !.unchecked = left, !.cur = None,
                                  !.pc = IF left = {} THEN "run" ELSE "check"]
<1>1. launch \in [Numbers -> Launchers] /\ launch[n] \in Launchers
  BY TypeOfLaunch
<1>2. l \in Launchers
  BY <1>1 DEF Launchers
<1>3. launch' = [launch EXCEPT ![n] = l]
  BY <1>1 DEF Mark
<1>4. OthersStay(n) /\ launch'[n] = l
  BY <1>1, <1>2, <1>3, OneLaunch
<1> QED
  BY <1>1, <1>4 DEF SettingStays, TracksStay, Launchers

LEMMA StartRunDoes ==
    ASSUME TypeOK, NEW n \in Numbers, NEW m \in Models, StartRun(n, m)
    PROVE  /\ OthersStay(n) /\ SettingStays(n) /\ FoldersStay(n)
           /\ launch'[n].pc = "run"
           /\ launch'[n].left = launch[n].left /\ launch'[n].failed = launch[n].failed
           /\ \E t \in launch[n].left[m] :
                 /\ launch'[n].track = [launch[n].track EXCEPT ![m] = t]
                 /\ launch'[n].code = [launch[n].code EXCEPT ![m] = None]
                 /\ child' = child \cup
                      {[launch |-> n, run |-> <<m, t>>, left |-> Unanswered(<<m, t>>),
                        under |-> [config |-> launch[n].config, commit |-> commit]]}
<1>1. launch \in [Numbers -> Launchers] /\ launch[n] \in Launchers
  BY TypeOfLaunch
<1>2. PICK t \in launch[n].left[m] :
         /\ launch' = [launch EXCEPT ![n].track[m] = t, ![n].code[m] = None]
         /\ child' = child \cup
              {[launch |-> n, run |-> <<m, t>>, left |-> Unanswered(<<m, t>>),
                under |-> [config |-> launch[n].config, commit |-> commit]]}
  BY DEF StartRun
<1> DEFINE l == [launch[n] EXCEPT !.track = [launch[n].track EXCEPT ![m] = t],
                                  !.code = [launch[n].code EXCEPT ![m] = None]]
<1>3. t \in Tracks
  BY <1>1 DEF Launchers
<1>4. /\ [launch[n].track EXCEPT ![m] = t] \in [Models -> {None} \cup Tracks]
      /\ [launch[n].code EXCEPT ![m] = None] \in [Models -> {None, 0, 1}]
  BY <1>1, <1>3 DEF Launchers
<1>5. l \in Launchers
  BY <1>1, <1>4 DEF Launchers
<1>6. launch' = [launch EXCEPT ![n] = l]
  BY <1>1, <1>2 DEF Launchers
<1>7. OthersStay(n) /\ launch'[n] = l
  BY <1>1, <1>5, <1>6, OneLaunch
<1>8. launch[n].pc = "run"
  BY DEF StartRun, At
<1> QED
  BY <1>1, <1>2, <1>7, <1>8 DEF SettingStays, FoldersStay, Launchers

LEMMA ReturnsDoes ==
    ASSUME TypeOK, NEW p \in child, NEW code \in {0, 1}, Returns(p, code)
    PROVE  /\ OthersStay(p.launch) /\ SettingStays(p.launch) /\ FoldersStay(p.launch)
           /\ launch'[p.launch].pc = launch[p.launch].pc
           /\ launch'[p.launch].track = launch[p.launch].track
           /\ launch'[p.launch].left = launch[p.launch].left
           /\ launch'[p.launch].failed = launch[p.launch].failed
           /\ \/ /\ launch[p.launch].pc = "run"
                 /\ launch'[p.launch].code = [launch[p.launch].code EXCEPT ![p.run[1]] = code]
              \/ launch[p.launch].pc # "run" /\ launch' = launch
           /\ child' = child \ {p}
<1> DEFINE n == p.launch
           m == p.run[1]
           l == [launch[n] EXCEPT !.code = [launch[n].code EXCEPT ![m] = code]]
<1>1. n \in Numbers /\ m \in Models
  BY DEF TypeOK, Numbers, Runs
<1>2. launch \in [Numbers -> Launchers] /\ launch[n] \in Launchers
  BY <1>1, TypeOfLaunch
<1>3. CASE launch[n].pc = "run"
  <2>1. [launch[n].code EXCEPT ![m] = code] \in [Models -> {None, 0, 1}]
    BY <1>1, <1>2 DEF Launchers
  <2>2. l \in Launchers
    BY <1>2, <2>1 DEF Launchers
  <2>3. launch' = [launch EXCEPT ![n] = l]
    BY <1>1, <1>2, <1>3 DEF Returns, Launchers
  <2>4. OthersStay(n) /\ launch'[n] = l
    BY <1>1, <1>2, <2>2, <2>3, OneLaunch
  <2> QED
    BY <1>2, <1>3, <2>4 DEF Returns, SettingStays, FoldersStay, Launchers
<1>4. CASE launch[n].pc # "run"
  BY <1>2, <1>4 DEF Returns, OthersStay, SettingStays, FoldersStay
<1> QED
  BY <1>3, <1>4

LEMMA JudgeDoes ==
    ASSUME TypeOK, Waiting, NEW n \in Numbers, NEW m \in Models, Judge(n, m)
    PROVE  /\ OthersStay(n) /\ SettingStays(n) /\ FoldersStay(n)
           /\ launch'[n].pc = "run"
           /\ launch'[n].track = [launch[n].track EXCEPT ![m] = None]
           /\ launch'[n].code = [launch[n].code EXCEPT ![m] = None]
           /\ launch'[n].left = [launch[n].left EXCEPT ![m] = @ \ {launch[n].track[m]}]
           /\ launch'[n].failed =
                 IF Bad(<<m, launch[n].track[m]>>, launch[n].code[m])
                 THEN launch[n].failed \cup {<<m, launch[n].track[m]>>} ELSE launch[n].failed
<1> DEFINE t == launch[n].track[m]
           l == [launch[n] EXCEPT
                   !.track = [launch[n].track EXCEPT ![m] = None],
                   !.code = [launch[n].code EXCEPT ![m] = None],
                   !.left = [launch[n].left EXCEPT ![m] = @ \ {t}],
                   !.failed = IF Bad(<<m, t>>, launch[n].code[m])
                              THEN launch[n].failed \cup {<<m, t>>} ELSE launch[n].failed]
<1>1. launch \in [Numbers -> Launchers] /\ launch[n] \in Launchers
  BY TypeOfLaunch
<1>2. t \in Tracks
  BY <1>1 DEF Judge, Waiting, Launchers
<1>3. /\ [launch[n].track EXCEPT ![m] = None] \in [Models -> {None} \cup Tracks]
      /\ [launch[n].code EXCEPT ![m] = None] \in [Models -> {None, 0, 1}]
      /\ [launch[n].left EXCEPT ![m] = @ \ {t}] \in [Models -> SUBSET Tracks]
      /\ launch[n].failed \cup {<<m, t>>} \in SUBSET Runs
  BY <1>1, <1>2 DEF Launchers, Runs
<1>4. l \in Launchers
  BY <1>1, <1>3 DEF Launchers
<1>5. launch' = [launch EXCEPT ![n] = l]
  BY <1>1 DEF Judge, Launchers
<1>6. OthersStay(n) /\ launch'[n] = l
  BY <1>1, <1>4, <1>5, OneLaunch
<1>7. launch[n].pc = "run"
  BY DEF Judge, At
<1> HIDE DEF t
<1>8. /\ launch'[n].track = [launch[n].track EXCEPT ![m] = None]
      /\ launch'[n].code = [launch[n].code EXCEPT ![m] = None]
      /\ launch'[n].left = [launch[n].left EXCEPT ![m] = @ \ {t}]
      /\ launch'[n].failed = IF Bad(<<m, t>>, launch[n].code[m])
                            THEN launch[n].failed \cup {<<m, t>>} ELSE launch[n].failed
      /\ SettingStays(n) /\ FoldersStay(n) /\ launch'[n].pc = "run"
  BY <1>1, <1>6, <1>7 DEF SettingStays, FoldersStay, Launchers
<1> QED
  BY <1>6, <1>8 DEF t

LEMMA FinishDoes ==
    ASSUME TypeOK, NEW n \in Numbers, Finish(n)
    PROVE  /\ OthersStay(n) /\ SettingStays(n) /\ FoldersStay(n) /\ TracksStay(n)
           /\ launch'[n].pc = IF launch[n].failed = {} THEN "completed" ELSE "failed"
<1> DEFINE l == [launch[n] EXCEPT
                   !.pc = IF launch[n].failed = {} THEN "completed" ELSE "failed"]
<1>1. launch \in [Numbers -> Launchers] /\ launch[n] \in Launchers
  BY TypeOfLaunch
<1>2. l \in Launchers
  BY <1>1 DEF Launchers, Over
<1>3. launch' = [launch EXCEPT ![n] = l]
  BY <1>1 DEF Finish
<1>4. OthersStay(n) /\ launch'[n] = l
  BY <1>1, <1>2, <1>3, OneLaunch
<1> QED
  BY <1>1, <1>4 DEF SettingStays, FoldersStay, TracksStay, Launchers

LEMMA KillDoes ==
    ASSUME TypeOK, NEW n \in Numbers, Kill(n)
    PROVE  /\ OthersStay(n) /\ SettingStays(n) /\ FoldersStay(n) /\ TracksStay(n)
           /\ launch'[n].pc = "killed"
<1> DEFINE l == [launch[n] EXCEPT !.pc = "killed"]
<1>1. launch \in [Numbers -> Launchers] /\ launch[n] \in Launchers
  BY TypeOfLaunch
<1>2. l \in Launchers
  BY <1>1 DEF Launchers, Over
<1>3. launch' = [launch EXCEPT ![n] = l]
  BY <1>1 DEF Kill
<1>4. OthersStay(n) /\ launch'[n] = l
  BY <1>1, <1>2, <1>3, OneLaunch
<1> QED
  BY <1>1, <1>4 DEF SettingStays, FoldersStay, TracksStay, Launchers

-----------------------------------------------------------------------------
(* Type correctness.                                                       *)

LEMMA TypeInit == Init => TypeOK
BY LauncherAssumption DEF Init, TypeOK, Over, Runs

\* All that a step leaves of TypeOK once the type of launch is known.
LEMMA TypeByLaunch ==
    ASSUME launch' \in [Numbers -> Launchers],
           (commit \in Commits)', (folder \in [Runs -> {None, Torn} \cup Settings])',
           (rows \in [Runs -> [Items -> {None} \cup Row]])',
           (child \subseteq [launch : Numbers, run : Runs, left : SUBSET Items,
                             under : Settings])',
           (kills \in 0..Kills)', (compared \subseteq Numbers \X Models)'
    PROVE  TypeOK'
BY DEF TypeOK, Launchers, Numbers

LEMMA TypeOfRows ==
    ASSUME TypeOK, NEW p \in child
    PROVE  /\ RowsOf(p) \subseteq Row
           /\ [flaw |-> "not_ok", under |-> p.under] \in Row
           /\ p.launch \in Numbers /\ p.run \in Runs /\ p.left \subseteq Items
           /\ p.under \in Settings /\ p.run[1] \in Models /\ p.run[2] \in Tracks
BY DEF TypeOK, RowsOf, Row, Flaws, Runs, Numbers

\* A child that ends leaves the rows to the caller of this lemma.
LEMMA TypeReturns ==
    ASSUME TypeOK, NEW p \in child, NEW code \in {0, 1}, Returns(p, code),
           (rows \in [Runs -> [Items -> {None} \cup Row]])',
           UNCHANGED <<commit, folder, kills, compared>>
    PROVE  TypeOK'
<1>1. p.launch \in Numbers
  BY TypeOfRows
<1>2. OthersStay(p.launch) /\ child' = child \ {p}
  BY ReturnsDoes
<1> QED
  BY <1>2, TypeByLaunch DEF TypeOK, OthersStay, Numbers

LEMMA TypeNext ==
    ASSUME TypeOK, Signed, Waiting, [Next]_vars
    PROVE  TypeOK'
<1> USE DEF Numbers
<1>1. ASSUME NEW n \in Numbers, NEW c \in Configs, Start(n, c) PROVE TypeOK'
  BY <1>1, StartDoes, TypeByLaunch DEF OthersStay, TypeOK, Start
<1>2. ASSUME NEW n \in Numbers, Check(n) PROVE TypeOK'
  BY <1>2, CheckDoes, TypeByLaunch DEF OthersStay, TypeOK, Check
<1>3. ASSUME NEW n \in Numbers, Open(n) PROVE TypeOK'
  BY <1>3, OpenDoes, TypeByLaunch DEF OthersStay, TypeOK, Open
<1>4. ASSUME NEW n \in Numbers, Mark(n) PROVE TypeOK'
  <2>1. OthersStay(n)
    BY <1>4, MarkDoes
  <2>2. (folder \in [Runs -> {None, Torn} \cup Settings])'
    BY <1>4 DEF Mark, At, Signed, TypeOK
  <2> QED
    BY <1>4, <2>1, <2>2, TypeByLaunch DEF OthersStay, TypeOK, Mark
<1>5. ASSUME NEW n \in Numbers, Finish(n) PROVE TypeOK'
  <2>1. compared' \subseteq Numbers \X Models
    BY <1>5 DEF Finish, TypeOK
  <2> QED
    BY <1>5, <2>1, FinishDoes, TypeByLaunch DEF OthersStay, TypeOK, Finish
<1>6. ASSUME NEW n \in Numbers, Kill(n) PROVE TypeOK'
  <2>1. kills' \in 0..Kills /\ child' \subseteq child
    BY <1>6, LauncherAssumption DEF Kill, TypeOK
  <2> QED
    BY <1>6, <2>1, KillDoes, TypeByLaunch DEF OthersStay, TypeOK, Kill
<1>7. ASSUME NEW n \in Numbers, NEW m \in Models, StartRun(n, m) PROVE TypeOK'
  <2>1. OthersStay(n)
    BY <1>7, StartRunDoes
  <2>2. PICK t \in launch[n].left[m] :
           child' = child \cup
              {[launch |-> n, run |-> <<m, t>>, left |-> Unanswered(<<m, t>>),
                under |-> [config |-> launch[n].config, commit |-> commit]]}
    BY <1>7 DEF StartRun
  <2>3. [config |-> launch[n].config, commit |-> commit] \in Settings
    <3>1. Signature(n) \in Settings
      BY <1>7 DEF StartRun, At, Signed
    <3> QED
      BY <3>1 DEF Signature, Settings, TypeOK
  <2>4. <<m, t>> \in Runs
    BY TypeOfLaunch DEF Launchers, Runs
  <2>5. Unanswered(<<m, t>>) \subseteq Items
    BY DEF Unanswered
  <2>6. child' \subseteq [launch : Numbers, run : Runs, left : SUBSET Items, under : Settings]
    BY <2>2, <2>3, <2>4, <2>5 DEF TypeOK
  <2> QED
    BY <1>7, <2>1, <2>6, TypeByLaunch DEF OthersStay, TypeOK, StartRun
<1>8. ASSUME NEW n \in Numbers, NEW m \in Models, Judge(n, m) PROVE TypeOK'
  BY <1>8, JudgeDoes, TypeByLaunch DEF OthersStay, TypeOK, Judge
<1>9. ASSUME NEW p \in child, Answer(p) PROVE TypeOK'
  <2>1. PICK i \in p.left, row \in RowsOf(p) :
           /\ rows' = [rows EXCEPT ![p.run][i] = row]
           /\ child' = (child \ {p}) \cup {[p EXCEPT !.left = @ \ {i}]}
    BY <1>9 DEF Answer
  <2>2. rows' \in [Runs -> [Items -> {None} \cup Row]]
    BY <2>1, TypeOfRows DEF TypeOK
  <2>3. child' \subseteq [launch : Numbers, run : Runs, left : SUBSET Items, under : Settings]
    BY <2>1 DEF TypeOK
  <2>4. launch' \in [Numbers -> Launchers]
    BY <1>9 DEF Answer, TypeOK, Launchers
  <2> QED
    BY <1>9, <2>2, <2>3, <2>4, TypeByLaunch DEF TypeOK, Answer
<1>10. ASSUME NEW p \in child, Done(p) PROVE TypeOK'
  BY <1>10, TypeReturns DEF Done, TypeOK
<1>11. ASSUME NEW p \in child, Crashed(p) PROVE TypeOK'
  <2>1. rows' \in [Runs -> [Items -> {None} \cup Row]]
    BY <1>11, TypeOfRows DEF Crashed, TypeOK
  <2> QED
    BY <1>11, <2>1, TypeReturns DEF Crashed
<1>12. ASSUME NEW p \in child, Dies(p) PROVE TypeOK'
  BY <1>12, TypeReturns DEF Dies, TypeOK
<1>13. CASE Checkout
  BY <1>13 DEF Checkout, TypeOK
<1>14. CASE UNCHANGED vars
  BY <1>14 DEF vars, TypeOK
<1> QED
  BY <1>1, <1>2, <1>3, <1>4, <1>5, <1>6, <1>7, <1>8, <1>9, <1>10, <1>11, <1>12,
     <1>13, <1>14 DEF Next

LEMMA SignedNext ==
    ASSUME TypeOK, Signed, Waiting, [Next]_vars
    PROVE  Signed'
<1>1. ASSUME NEW n \in Numbers, NEW c \in Configs, Start(n, c) PROVE Signed'
  <2>1. launch'[n].config = c /\ launch'[n].commit = commit /\ OthersStay(n)
    BY <1>1, StartDoes
  <2>2. commit \in Commits
    BY DEF TypeOK
  <2> QED
    BY <2>1, <2>2 DEF Signed, Signature, Settings, OthersStay
<1>2. ASSUME NEW n \in Numbers, OthersStay(n), SettingStays(n),
             launch[n].pc # "off" \/ launch'[n].pc = launch[n].pc
      PROVE  Signed'
  BY <1>2 DEF Signed, Signature, OthersStay, SettingStays
<1>3. ASSUME NEW n \in Numbers, \/ Check(n) \/ Open(n) \/ Mark(n) \/ Finish(n) \/ Kill(n)
      PROVE  Signed'
  <2>1. launch[n].pc # "off"
    BY <1>3 DEF Check, Open, Mark, Finish, Kill, At, Over
  <2> QED
    BY <1>2, <1>3, <2>1, CheckDoes, OpenDoes, MarkDoes, FinishDoes, KillDoes
<1>4. ASSUME NEW n \in Numbers, NEW m \in Models, StartRun(n, m) \/ Judge(n, m)
      PROVE  Signed'
  <2>1. launch[n].pc # "off"
    BY <1>4 DEF StartRun, Judge, At
  <2> QED
    BY <1>2, <1>4, <2>1, StartRunDoes, JudgeDoes
<1>5. ASSUME NEW p \in child, Answer(p) PROVE Signed'
  BY <1>5 DEF Answer, Signed, Signature
<1>6. ASSUME NEW p \in child, \/ Done(p) \/ Crashed(p) \/ Dies(p) PROVE Signed'
  <2>1. \E code \in {0, 1} : Returns(p, code)
    BY <1>6 DEF Done, Crashed, Dies
  <2> QED
    BY <1>2, <2>1, ReturnsDoes, TypeOfRows
<1>7. CASE Checkout \/ UNCHANGED vars
  BY <1>7 DEF Checkout, vars, Signed, Signature
<1> QED
  BY <1>1, <1>3, <1>4, <1>5, <1>6, <1>7 DEF Next, Numbers

\* The threads stay at their tracks, and a launch begins to run without children.
ThreadsStay(n) ==
    /\ launch'[n].track = launch[n].track /\ launch'[n].left = launch[n].left
    /\ launch'[n].code = launch[n].code
    /\ launch'[n].pc = "run" => launch[n].pc \in {"mark", "run"}
    /\ launch'[n].pc \in {"off", "check", "open", "mark"} =>
          launch[n].pc \in {"off", "check", "open", "mark"}

LEMMA WaitingStays ==
    ASSUME TypeOK, Waiting, NEW n \in Numbers, OthersStay(n), ThreadsStay(n),
           child' \subseteq child
    PROVE  Waiting'
<1>1. ASSUME NEW e \in Numbers
      PROVE  /\ launch'[e].track = launch[e].track /\ launch'[e].left = launch[e].left
             /\ launch'[e].code = launch[e].code
             /\ launch'[e].pc = "run" => launch[e].pc \in {"mark", "run"}
             /\ launch'[e].pc \in {"off", "check", "open", "mark"} =>
                   launch[e].pc \in {"off", "check", "open", "mark"}
  BY DEF OthersStay, ThreadsStay
<1>2. ASSUME NEW p \in child
      PROVE  /\ launch'[p.launch].pc \notin {"off", "check", "open", "mark"}
             /\ launch'[p.launch].pc = "run" =>
                   /\ launch'[p.launch].track[p.run[1]] = p.run[2]
                   /\ launch'[p.launch].code[p.run[1]] = None
  <2>1. p.launch \in Numbers
    BY TypeOfRows
  <2> QED
    BY <1>1, <2>1 DEF Waiting
<1> QED
  BY <1>1, <1>2 DEF Waiting

LEMMA WaitingStartRun ==
    ASSUME TypeOK, Waiting, NEW n \in Numbers, NEW m \in Models, StartRun(n, m)
    PROVE  Waiting'
<1>1. /\ OthersStay(n) /\ launch'[n].pc = "run" /\ launch'[n].left = launch[n].left
      /\ launch[n].pc = "run" /\ launch[n].track[m] = None
  BY StartRunDoes DEF StartRun, At
<1>2. PICK t \in launch[n].left[m] :
         /\ launch'[n].track = [launch[n].track EXCEPT ![m] = t]
         /\ launch'[n].code = [launch[n].code EXCEPT ![m] = None]
         /\ child' = child \cup
              {[launch |-> n, run |-> <<m, t>>, left |-> Unanswered(<<m, t>>),
                under |-> [config |-> launch[n].config, commit |-> commit]]}
  BY StartRunDoes
<1> DEFINE new == [launch |-> n, run |-> <<m, t>>, left |-> Unanswered(<<m, t>>),
                   under |-> [config |-> launch[n].config, commit |-> commit]]
<1>3. launch[n] \in Launchers /\ t \in Tracks /\ t # None
  BY TypeOfLaunch, LauncherAssumption DEF Launchers
<1>4. /\ launch'[n].track[m] = t /\ launch'[n].code[m] = None
      /\ \A x \in Models : x # m => /\ launch'[n].track[x] = launch[n].track[x]
                                   /\ launch'[n].code[x] = launch[n].code[x]
  BY <1>2, <1>3 DEF Launchers
<1>5. new.launch = n /\ new.run[1] = m /\ new.run[2] = t
  OBVIOUS
<1>6. ASSUME NEW p \in child
      PROVE  /\ p.launch = n => p.run[1] # m
             /\ launch'[p.launch].pc \notin {"off", "check", "open", "mark"}
             /\ launch'[p.launch].pc = "run" =>
                   /\ launch'[p.launch].track[p.run[1]] = p.run[2]
                   /\ launch'[p.launch].code[p.run[1]] = None
  <2>1. p.launch \in Numbers /\ p.run[1] \in Models /\ p.run[2] \in Tracks /\ p.run[2] # None
    BY TypeOfRows, LauncherAssumption
  <2>2. p.launch = n => p.run[1] # m
    BY <1>1, <2>1 DEF Waiting
  <2>3. CASE p.launch = n
    BY <1>1, <1>4, <2>1, <2>2, <2>3 DEF Waiting
  <2>4. CASE p.launch # n
    BY <1>1, <2>1, <2>4 DEF Waiting, OthersStay
  <2> QED
    BY <2>2, <2>3, <2>4
<1> HIDE DEF new
<1>7. child' = child \cup {new}
  BY <1>2 DEF new
<1>8. (\A e \in Numbers : \A x \in Models :
          /\ launch[e].track[x] = None => launch[e].code[x] = None
          /\ launch[e].track[x] # None => launch[e].track[x] \in launch[e].left[x])'
  BY <1>1, <1>3, <1>4 DEF Waiting, OthersStay
<1>9. (\A p \in child :
          /\ launch[p.launch].pc \notin {"off", "check", "open", "mark"}
          /\ launch[p.launch].pc = "run" =>
                /\ launch[p.launch].track[p.run[1]] = p.run[2]
                /\ launch[p.launch].code[p.run[1]] = None)'
  BY <1>1, <1>4, <1>5, <1>6, <1>7
<1>10. \A p, q \in child' : p.launch = q.launch /\ p.run[1] = q.run[1] => p = q
  BY <1>5, <1>6, <1>7 DEF Waiting
<1> QED
  BY <1>8, <1>9, <1>10 DEF Waiting

LEMMA WaitingJudge ==
    ASSUME TypeOK, Waiting, NEW n \in Numbers, NEW m \in Models, Judge(n, m)
    PROVE  Waiting'
<1> DEFINE t == launch[n].track[m]
<1>1. /\ OthersStay(n) /\ launch'[n].pc = "run"
      /\ launch[n].pc = "run" /\ launch[n].code[m] # None /\ child' = child
  BY JudgeDoes DEF Judge, At
<1>2. /\ launch'[n].track = [launch[n].track EXCEPT ![m] = None]
      /\ launch'[n].code = [launch[n].code EXCEPT ![m] = None]
      /\ launch'[n].left = [launch[n].left EXCEPT ![m] = @ \ {t}]
  BY JudgeDoes
<1>3. launch[n] \in Launchers
  BY TypeOfLaunch
<1>4. /\ launch'[n].track[m] = None /\ launch'[n].code[m] = None
      /\ \A x \in Models : x # m => /\ launch'[n].track[x] = launch[n].track[x]
                                   /\ launch'[n].code[x] = launch[n].code[x]
                                   /\ launch'[n].left[x] = launch[n].left[x]
  BY <1>2, <1>3 DEF Launchers
<1>5. (\A e \in Numbers : \A x \in Models :
          /\ launch[e].track[x] = None => launch[e].code[x] = None
          /\ launch[e].track[x] # None => launch[e].track[x] \in launch[e].left[x])'
  BY <1>1, <1>4 DEF Waiting, OthersStay
<1>6. ASSUME NEW p \in child
      PROVE  /\ launch'[p.launch].pc \notin {"off", "check", "open", "mark"}
             /\ launch'[p.launch].pc = "run" =>
                   /\ launch'[p.launch].track[p.run[1]] = p.run[2]
                   /\ launch'[p.launch].code[p.run[1]] = None
  <2>1. p.launch \in Numbers /\ p.run[1] \in Models
    BY TypeOfRows
  <2>2. p.launch = n => p.run[1] # m
    BY <1>1, <2>1 DEF Waiting
  <2>3. CASE p.launch = n
    BY <1>1, <1>4, <2>1, <2>2, <2>3 DEF Waiting
  <2>4. CASE p.launch # n
    BY <1>1, <2>1, <2>4 DEF Waiting, OthersStay
  <2> QED
    BY <2>3, <2>4
<1> QED
  BY <1>1, <1>5, <1>6 DEF Waiting

LEMMA WaitingReturns ==
    ASSUME TypeOK, Waiting, NEW p \in child, NEW code \in {0, 1}, Returns(p, code)
    PROVE  Waiting'
<1> DEFINE n == p.launch
           m == p.run[1]
<1>1. n \in Numbers /\ m \in Models /\ launch[n] \in Launchers
  BY TypeOfRows, TypeOfLaunch
<1>2. /\ OthersStay(n) /\ child' = child \ {p} /\ launch'[n].pc = launch[n].pc
      /\ launch'[n].track = launch[n].track /\ launch'[n].left = launch[n].left
  BY ReturnsDoes
<1>3. CASE launch[n].pc # "run"
  <2>1. launch' = launch
    BY <1>3, ReturnsDoes
  <2> QED
    BY <1>2, <2>1 DEF Waiting
<1>4. CASE launch[n].pc = "run"
  <2>1. launch'[n].code = [launch[n].code EXCEPT ![m] = code]
    BY <1>4, ReturnsDoes
  <2>2. \A x \in Models : x # m => launch'[n].code[x] = launch[n].code[x]
    BY <1>1, <2>1 DEF Launchers
  <2>3. launch[n].track[m] # None
    <3>1. launch[n].track[m] = p.run[2]
      BY <1>4 DEF Waiting
    <3>2. p.run[2] \in Tracks
      BY TypeOfRows
    <3> QED
      BY <3>1, <3>2, LauncherAssumption
  <2>4. (\A e \in Numbers : \A x \in Models :
            /\ launch[e].track[x] = None => launch[e].code[x] = None
            /\ launch[e].track[x] # None => launch[e].track[x] \in launch[e].left[x])'
    BY <1>2, <2>2, <2>3 DEF Waiting, OthersStay
  <2>5. ASSUME NEW q \in child, q # p
        PROVE  /\ launch'[q.launch].pc \notin {"off", "check", "open", "mark"}
               /\ launch'[q.launch].pc = "run" =>
                     /\ launch'[q.launch].track[q.run[1]] = q.run[2]
                     /\ launch'[q.launch].code[q.run[1]] = None
    <3>1. q.launch \in Numbers /\ q.run[1] \in Models
      BY TypeOfRows
    <3>2. q.launch = n => q.run[1] # m
      BY <2>5 DEF Waiting
    <3>3. CASE q.launch = n
      BY <1>2, <2>2, <3>1, <3>2, <3>3 DEF Waiting
    <3>4. CASE q.launch # n
      BY <1>2, <3>1, <3>4 DEF Waiting, OthersStay
    <3> QED
      BY <3>3, <3>4
  <2> QED
    BY <1>2, <2>4, <2>5 DEF Waiting
<1> QED
  BY <1>3, <1>4

LEMMA WaitingAnswer ==
    ASSUME TypeOK, Waiting, NEW p \in child, Answer(p)
    PROVE  Waiting'
<1>1. PICK i \in p.left : child' = (child \ {p}) \cup {[p EXCEPT !.left = @ \ {i}]}
  BY DEF Answer
<1> DEFINE new == [p EXCEPT !.left = @ \ {i}]
<1>2. new.launch = p.launch /\ new.run = p.run
  BY DEF TypeOK
<1> HIDE DEF new
<1>3. child' = (child \ {p}) \cup {new}
  BY <1>1 DEF new
<1>4. launch' = launch
  BY DEF Answer
<1> QED
  BY <1>2, <1>3, <1>4 DEF Waiting

LEMMA WaitingNext ==
    ASSUME TypeOK, Waiting, [Next]_vars
    PROVE  Waiting'
<1>1. ASSUME NEW n \in Numbers, NEW c \in Configs, Start(n, c) PROVE Waiting'
  <2>1. launch[n].pc = "off" /\ child' = child
    BY <1>1 DEF Start, At
  <2> QED
    BY <1>1, <2>1, StartDoes, WaitingStays DEF TracksStay, ThreadsStay
<1>2. ASSUME NEW n \in Numbers, Check(n) PROVE Waiting'
  <2>1. launch[n].pc = "check" /\ child' = child
    BY <1>2 DEF Check, At
  <2> QED
    BY <1>2, <2>1, CheckDoes, WaitingStays DEF TracksStay, ThreadsStay
<1>3. ASSUME NEW n \in Numbers, Open(n) PROVE Waiting'
  <2>1. launch[n].pc = "open" /\ child' = child
    BY <1>3 DEF Open, At
  <2> QED
    BY <1>3, <2>1, OpenDoes, WaitingStays DEF TracksStay, ThreadsStay
<1>4. ASSUME NEW n \in Numbers, Mark(n) PROVE Waiting'
  <2>1. launch[n].pc = "mark" /\ child' = child
    BY <1>4 DEF Mark, At
  <2> QED
    BY <1>4, <2>1, MarkDoes, WaitingStays DEF TracksStay, ThreadsStay
<1>5. ASSUME NEW n \in Numbers, Finish(n) PROVE Waiting'
  <2>1. launch[n].pc = "run" /\ child' = child
    BY <1>5 DEF Finish, At
  <2> QED
    BY <1>5, <2>1, FinishDoes, WaitingStays DEF TracksStay, ThreadsStay
<1>6. ASSUME NEW n \in Numbers, Kill(n) PROVE Waiting'
  <2>1. child' \subseteq child
    BY <1>6 DEF Kill
  <2> QED
    BY <1>6, <2>1, KillDoes, WaitingStays DEF TracksStay, ThreadsStay
<1>7. ASSUME NEW n \in Numbers, NEW m \in Models, StartRun(n, m) \/ Judge(n, m)
      PROVE  Waiting'
  BY <1>7, WaitingStartRun, WaitingJudge
<1>8. ASSUME NEW p \in child, \/ Answer(p) \/ Done(p) \/ Crashed(p) \/ Dies(p)
      PROVE  Waiting'
  BY <1>8, WaitingAnswer, WaitingReturns DEF Done, Crashed, Dies
<1>9. CASE Checkout \/ UNCHANGED vars
  BY <1>9 DEF Checkout, vars, Waiting
<1> QED
  BY <1>1, <1>2, <1>3, <1>4, <1>5, <1>6, <1>7, <1>8, <1>9 DEF Next, Numbers

\* The state is always of its type: TypeOK of the runs of Launcher, whether
\* launches come in turn or not.
THEOREM TypeCorrect == Spec => []TypeOK
<1>1. Init => TypeOK /\ Signed /\ Waiting
  BY TypeInit DEF Init, Signed, Waiting, Numbers
<1>2. TypeOK /\ Signed /\ Waiting /\ [Next]_vars => (TypeOK /\ Signed /\ Waiting)'
  BY TypeNext, SignedNext, WaitingNext
<1> QED
  BY <1>1, <1>2, PTL DEF Spec

-----------------------------------------------------------------------------
(* What the steps of a launch cannot disturb.                              *)

\* A launch that was given keeps its settings.
LEMMA SignatureStays ==
    ASSUME TypeOK, Waiting, [Next]_vars, NEW e \in Numbers, launch[e].pc # "off"
    PROVE  Signature(e)' = Signature(e) /\ launch'[e].commit = launch[e].commit
<1>1. ASSUME NEW n \in Numbers, OthersStay(n), SettingStays(n)
      PROVE  Signature(e)' = Signature(e) /\ launch'[e].commit = launch[e].commit
  BY <1>1 DEF Signature, OthersStay, SettingStays
<1>2. ASSUME NEW n \in Numbers, NEW c \in Configs, Start(n, c)
      PROVE  Signature(e)' = Signature(e) /\ launch'[e].commit = launch[e].commit
  <2>1. e # n
    BY <1>2 DEF Start, At
  <2> QED
    BY <1>2, <2>1, StartDoes DEF Signature, OthersStay
<1>3. ASSUME NEW n \in Numbers, \/ Check(n) \/ Open(n) \/ Mark(n) \/ Finish(n) \/ Kill(n)
      PROVE  Signature(e)' = Signature(e) /\ launch'[e].commit = launch[e].commit
  BY <1>1, <1>3, CheckDoes, OpenDoes, MarkDoes, FinishDoes, KillDoes
<1>4. ASSUME NEW n \in Numbers, NEW m \in Models, StartRun(n, m) \/ Judge(n, m)
      PROVE  Signature(e)' = Signature(e) /\ launch'[e].commit = launch[e].commit
  BY <1>1, <1>4, StartRunDoes, JudgeDoes
<1>5. ASSUME NEW p \in child, \/ Done(p) \/ Crashed(p) \/ Dies(p)
      PROVE  Signature(e)' = Signature(e) /\ launch'[e].commit = launch[e].commit
  <2>1. \E code \in {0, 1} : Returns(p, code)
    BY <1>5 DEF Done, Crashed, Dies
  <2> QED
    BY <1>1, <2>1, ReturnsDoes, TypeOfRows
<1>6. CASE UNCHANGED launch
  BY <1>6 DEF Signature
<1> QED
  BY <1>2, <1>3, <1>4, <1>5, <1>6 DEF Next, Numbers, Answer, Checkout, vars

\* Only a child writes rows, to the items it has left, under its setting.
LEMMA OnlyChildren ==
    ASSUME TypeOK, [Next]_vars, NEW r \in Runs, NEW i \in Items, rows'[r][i] # rows[r][i]
    PROVE  \E p \in child : /\ Answer(p) \/ Crashed(p)
                            /\ p.run = r /\ i \in p.left
                            /\ rows'[r][i] # None /\ rows'[r][i].under = p.under
<1>1. rows \in [Runs -> [Items -> {None} \cup Row]] /\ None \notin Row
  BY LauncherAssumption DEF TypeOK
<1>2. ASSUME NEW p \in child, Answer(p)
      PROVE  p.run = r /\ i \in p.left /\ rows'[r][i] # None /\ rows'[r][i].under = p.under
  <2>1. PICK j \in p.left, row \in RowsOf(p) : rows' = [rows EXCEPT ![p.run][j] = row]
    BY <1>2 DEF Answer
  <2>2. row \in Row /\ row.under = p.under /\ p.run \in Runs /\ p.left \subseteq Items
    BY TypeOfRows DEF RowsOf
  <2>3. p.run = r /\ j = i
    BY <1>1, <2>1, <2>2
  <2> QED
    BY <1>1, <2>1, <2>2, <2>3
<1>3. ASSUME NEW p \in child, Crashed(p)
      PROVE  p.run = r /\ i \in p.left /\ rows'[r][i] # None /\ rows'[r][i].under = p.under
  <2> DEFINE row == [flaw |-> "not_ok", under |-> p.under]
  <2>1. rows' = [rows EXCEPT ![p.run] =
                   [j \in Items |-> IF j \in p.left /\ rows[p.run][j] = None
                                     THEN row ELSE rows[p.run][j]]]
    BY <1>3 DEF Crashed
  <2>2. row \in Row /\ row.under = p.under /\ p.run \in Runs
    BY TypeOfRows
  <2> HIDE DEF row
  <2>3. p.run = r
    BY <1>1, <2>1, <2>2
  <2>4. i \in p.left /\ rows'[r][i] = row
    BY <1>1, <2>1, <2>2, <2>3
  <2> QED
    BY <1>1, <2>2, <2>3, <2>4
<1>4. (\E p \in child : Answer(p) \/ Crashed(p)) \/ rows' = rows
  <2>1. ASSUME NEW n \in Numbers, \/ \E c \in Configs : Start(n, c)
                                 \/ Check(n) \/ Open(n) \/ Mark(n) \/ Finish(n) \/ Kill(n)
                                 \/ \E m \in Models : StartRun(n, m) \/ Judge(n, m)
        PROVE  rows' = rows
    BY <2>1 DEF Start, Check, Open, Mark, Finish, Kill, StartRun, Judge
  <2>2. ASSUME NEW p \in child, Done(p) \/ Dies(p) PROVE rows' = rows
    BY <2>2 DEF Done, Dies
  <2>3. CASE Checkout \/ UNCHANGED vars
    BY <2>3 DEF Checkout, vars
  <2> QED
    BY <2>1, <2>2, <2>3 DEF Next, Numbers
<1>5. PICK p \in child : Answer(p) \/ Crashed(p)
  BY <1>4
<1> QED
  BY <1>2, <1>3, <1>5

\* A run that is whole stays whole.
LEMMA WholeStays ==
    ASSUME TypeOK, Waiting, Serving, [Next]_vars,
           NEW n \in Numbers, launch[n].pc # "off", NEW r \in Runs, Whole(r, n)
    PROVE  Whole(r, n)'
<1>1. Signature(n)' = Signature(n)
  BY SignatureStays
<1>2. ASSUME NEW i \in Items PROVE rows'[r][i] = rows[r][i]
  <2>1. rows[r][i] # None /\ rows[r][i].flaw # "not_ok"
    <3>1. r[2] \in {"blind", "memory", "oracle"}
      BY LauncherAssumption DEF Runs
    <3> QED
      BY <3>1 DEF Whole
  <2>2. \A p \in child : p.run = r => i \notin p.left
    BY <2>1 DEF Serving
  <2> QED
    BY <2>2, OnlyChildren
<1> QED
  BY <1>1, <1>2 DEF Whole

\* While a launch looks at the folders nothing else is at work.
LEMMA NoChildren ==
    ASSUME TypeOK, Alone, NEW n \in Numbers, launch[n].pc \in {"check", "open", "mark"}
    PROVE  child = {}
BY DEF Alone, Active

\* The last thread that returns leaves no child.
LEMMA FinishIsLast ==
    ASSUME TypeOK, Waiting, Alone, NEW n \in Numbers, Finish(n)
    PROVE  child = {}
<1> SUFFICES ASSUME NEW p \in child PROVE FALSE
  OBVIOUS
<1>1. launch[n].pc = "run" /\ \A m \in Models : launch[n].left[m] = {}
  BY DEF Finish, At
<1>2. p.launch = n /\ p.run[1] \in Models /\ p.run[2] \in Tracks /\ p.run[2] # None
  <2>1. p.launch = n
    BY <1>1 DEF Alone, Active
  <2>2. p.run[1] \in Models /\ p.run[2] \in Tracks
    BY TypeOfRows
  <2> QED
    BY <2>1, <2>2, LauncherAssumption
<1>3. launch[n].track[p.run[1]] = p.run[2]
  BY <1>1, <1>2 DEF Waiting
<1>4. p.run[2] \in launch[n].left[p.run[1]]
  BY <1>2, <1>3 DEF Waiting
<1> QED
  BY <1>1, <1>2, <1>4

-----------------------------------------------------------------------------
(* The invariant is inductive when launches come in turn.                  *)

LEMMA ControlNext ==
    ASSUME TypeOK, Signed, Waiting, Control, [Next]_vars
    PROVE  Control'
<1>1. ASSUME NEW n \in Numbers, OthersStay(n), ControlOf(n)', UNCHANGED compared
      PROVE  Control'
  BY <1>1 DEF Control, ControlOf, OthersStay
<1>2. ASSUME NEW n \in Numbers PROVE launch[n] \in Launchers /\ ControlOf(n)
  BY TypeOfLaunch DEF Control
<1>3. ASSUME NEW n \in Numbers, NEW c \in Configs, Start(n, c) PROVE Control'
  <2>1. launch[n].pc = "off" /\ compared' = compared
    BY <1>3 DEF Start, At
  <2>2. /\ OthersStay(n) /\ FoldersStay(n) /\ TracksStay(n) /\ launch'[n].pc = "check"
    BY <1>3, StartDoes
  <2>3. ControlOf(n)'
    BY <1>2, <2>1, <2>2 DEF ControlOf, FoldersStay, TracksStay
  <2> QED
    BY <1>1, <2>1, <2>2, <2>3
<1>4. ASSUME NEW n \in Numbers, Check(n) PROVE Control'
  <2>1. launch[n].pc = "check" /\ compared' = compared
    BY <1>4 DEF Check, At
  <2>2. /\ OthersStay(n) /\ TracksStay(n) /\ launch'[n].unchecked = launch[n].unchecked
        /\ \/ launch'[n].pc = "open" /\ launch'[n].cur \in launch[n].unchecked
           \/ launch'[n].pc = "refused"
    BY <1>4, CheckDoes
  <2>3. ControlOf(n)'
    BY <1>2, <2>1, <2>2 DEF ControlOf, TracksStay
  <2> QED
    BY <1>1, <2>1, <2>2, <2>3
<1>5. ASSUME NEW n \in Numbers, Open(n) PROVE Control'
  <2>1. launch[n].pc = "open" /\ compared' = compared
    BY <1>5 DEF Open, At
  <2>2. OthersStay(n) /\ FoldersStay(n) /\ TracksStay(n) /\ launch'[n].pc = "mark"
    BY <1>5, OpenDoes
  <2>3. ControlOf(n)'
    BY <1>2, <2>1, <2>2 DEF ControlOf, FoldersStay, TracksStay
  <2> QED
    BY <1>1, <2>1, <2>2, <2>3
<1>6. ASSUME NEW n \in Numbers, Mark(n) PROVE Control'
  <2>1. launch[n].pc = "mark" /\ compared' = compared
    BY <1>6 DEF Mark, At
  <2>2. /\ OthersStay(n) /\ TracksStay(n)
        /\ launch'[n].pc = IF launch'[n].unchecked = {} THEN "run" ELSE "check"
    BY <1>6, MarkDoes
  <2>3. ControlOf(n)'
    BY <1>2, <2>1, <2>2 DEF ControlOf, TracksStay
  <2> QED
    BY <1>1, <2>1, <2>2, <2>3
<1>7. ASSUME NEW n \in Numbers, Finish(n) PROVE Control'
  <2>1. compared' = compared \cup {<<n, m>> : m \in {x \in Models : Comparable(n, x)}}
    BY <1>7 DEF Finish
  <2>2. /\ OthersStay(n)
        /\ launch'[n].pc = IF launch[n].failed = {} THEN "completed" ELSE "failed"
    BY <1>7, FinishDoes
  <2>3. launch'[n].pc \in {"completed", "failed"}
    BY <2>2
  <2>4. \A e \in Numbers, m \in Models : <<e, m>> \in compared' =>
           <<e, m>> \in compared \/ (e = n /\ {"memory", "blind"} \subseteq Tracks)
    BY <2>1 DEF Comparable
  <2> QED
    BY <2>2, <2>3, <2>4 DEF Control, ControlOf, OthersStay
<1>8. ASSUME NEW n \in Numbers, Kill(n) PROVE Control'
  <2>1. launch[n].pc \notin Over /\ compared' = compared
    BY <1>8 DEF Kill
  <2>2. OthersStay(n) /\ launch'[n].pc = "killed"
    BY <1>8, KillDoes
  <2>3. ControlOf(n)'
    BY <1>2, <2>1, <2>2 DEF ControlOf, Over
  <2> QED
    BY <1>1, <2>1, <2>2, <2>3
<1>9. ASSUME NEW n \in Numbers, NEW m \in Models, StartRun(n, m) \/ Judge(n, m)
      PROVE  Control'
  <2>1. launch[n].pc = "run" /\ compared' = compared
    BY <1>9 DEF StartRun, Judge, At
  <2>2. OthersStay(n) /\ FoldersStay(n) /\ launch'[n].pc = "run"
    BY <1>9, StartRunDoes, JudgeDoes
  <2>3. ControlOf(n)'
    BY <1>2, <2>1, <2>2 DEF ControlOf, FoldersStay
  <2> QED
    BY <1>1, <2>1, <2>2, <2>3
<1>10. ASSUME NEW p \in child, \/ Done(p) \/ Crashed(p) \/ Dies(p) PROVE Control'
  <2>1. PICK code \in {0, 1} : Returns(p, code) /\ compared' = compared
    BY <1>10 DEF Done, Crashed, Dies
  <2>2. p.launch \in Numbers
    BY TypeOfRows
  <2>3. /\ OthersStay(p.launch) /\ FoldersStay(p.launch)
        /\ launch'[p.launch].pc = launch[p.launch].pc
        /\ launch'[p.launch].left = launch[p.launch].left
    BY <2>1, ReturnsDoes
  <2>4. ControlOf(p.launch)'
    BY <1>2, <2>1, <2>2, <2>3 DEF ControlOf, FoldersStay
  <2> QED
    BY <1>1, <2>1, <2>2, <2>3, <2>4
<1>11. CASE UNCHANGED <<launch, compared>>
  BY <1>11 DEF Control, ControlOf
<1> QED
  BY <1>3, <1>4, <1>5, <1>6, <1>7, <1>8, <1>9, <1>10, <1>11
     DEF Next, Numbers, Answer, Checkout, vars

\* No launch becomes active, and the launch of a child goes on or is killed.
LEMMA AloneStays ==
    ASSUME TypeOK, Alone, NEW n \in Numbers, OthersStay(n), SettingStays(n),
           launch'[n].pc \in {"check", "open", "mark", "run"} => n \in Active,
           child' \subseteq child,
           child' = {} \/ launch[n].pc \notin {"run", "killed"} \/ launch'[n].pc \in {"run", "killed"},
           UNCHANGED commit
    PROVE  Alone'
<1>1. \A e \in Numbers : e \in Active' => e \in Active
  BY DEF Active, OthersStay
<1>2. \A e \in Numbers : launch'[e].commit = launch[e].commit
  BY DEF OthersStay, SettingStays
<1>3. Active \subseteq Numbers /\ Active' \subseteq Numbers
  BY DEF Active
<1>4. ASSUME NEW p \in child'
      PROVE  launch'[p.launch].pc \in {"run", "killed"} /\ p \in child /\ p.launch \in Numbers
  <2>1. p \in child /\ p.launch \in Numbers
    BY TypeOfRows
  <2> QED
    BY <2>1 DEF Alone, OthersStay
<1>5. (\A a, b \in Active : a = b)'
  BY <1>1, <1>3 DEF Alone
<1>6. (\A a \in Active : launch[a].commit = commit)'
  BY <1>1, <1>2, <1>3 DEF Alone
<1>7. ASSUME NEW p \in child'
      PROVE  /\ launch'[p.launch].commit = commit'
             /\ \A a \in Active' : p.launch = a
             /\ \A q \in child' : p.launch = q.launch
  BY <1>1, <1>2, <1>3, <1>4 DEF Alone
<1> QED
  BY <1>4, <1>5, <1>6, <1>7 DEF Alone

LEMMA AloneNext ==
    ASSUME InTurn, TypeOK, Waiting, Alone, [Next]_vars
    PROVE  Alone'
<1>1. ASSUME NEW n \in Numbers, NEW c \in Configs, Start(n, c) PROVE Alone'
  <2>1. child' = {} /\ Active = {} /\ commit' = commit
    BY <1>1 DEF Start, Quiet, Active, Over, Numbers
  <2>2. OthersStay(n) /\ launch'[n].commit = commit
    BY <1>1, StartDoes
  <2>3. Active' \subseteq {n}
    BY <2>1, <2>2 DEF Active, OthersStay
  <2> QED
    BY <2>1, <2>2, <2>3 DEF Alone
<1>2. ASSUME NEW n \in Numbers, Check(n) \/ Open(n) \/ Mark(n) PROVE Alone'
  <2>1. launch[n].pc \in {"check", "open", "mark"} /\ child' = child /\ commit' = commit
    BY <1>2 DEF Check, Open, Mark, At
  <2>2. OthersStay(n) /\ SettingStays(n) /\ n \in Active
    BY <1>2, <2>1, CheckDoes, OpenDoes, MarkDoes DEF Active
  <2> QED
    BY <2>1, <2>2, AloneStays
<1>3. ASSUME NEW n \in Numbers, Finish(n) PROVE Alone'
  <2>1. child = {}
    BY <1>3, FinishIsLast
  <2>2. child' = child /\ commit' = commit /\ n \in Active
    BY <1>3 DEF Finish, At, Active
  <2>3. OthersStay(n) /\ SettingStays(n)
    BY <1>3, FinishDoes
  <2> QED
    BY <2>1, <2>2, <2>3, AloneStays
<1>4. ASSUME NEW n \in Numbers, Kill(n) PROVE Alone'
  <2>1. child' \subseteq child /\ commit' = commit
    BY <1>4 DEF Kill
  <2>2. OthersStay(n) /\ SettingStays(n) /\ launch'[n].pc = "killed"
    BY <1>4, KillDoes
  <2> QED
    BY <2>1, <2>2, AloneStays
<1>5. ASSUME NEW n \in Numbers, NEW m \in Models, StartRun(n, m) PROVE Alone'
  <2>1. n \in Active /\ commit' = commit
    BY <1>5 DEF StartRun, At, Active
  <2>2. OthersStay(n) /\ SettingStays(n) /\ launch'[n].pc = "run"
    BY <1>5, StartRunDoes
  <2>3. \A p \in child' : p \in child \/ p.launch = n
    <3>1. PICK t \in launch[n].left[m] :
             child' = child \cup
                {[launch |-> n, run |-> <<m, t>>, left |-> Unanswered(<<m, t>>),
                  under |-> [config |-> launch[n].config, commit |-> commit]]}
      BY <1>5 DEF StartRun
    <3> QED
      BY <3>1
  <2>4. Active' = Active
    BY <2>1, <2>2 DEF Active, OthersStay
  <2>5. \A p \in child' : p.launch = n
    BY <2>1, <2>3 DEF Alone
  <2>6. \A a \in Active : a = n /\ launch'[a].commit = commit
    BY <2>1, <2>2 DEF Alone, SettingStays
  <2> QED
    BY <2>1, <2>2, <2>4, <2>5, <2>6 DEF Alone
<1>6. ASSUME NEW n \in Numbers, NEW m \in Models, Judge(n, m) PROVE Alone'
  <2>1. n \in Active /\ commit' = commit /\ child' = child
    BY <1>6 DEF Judge, At, Active
  <2>2. OthersStay(n) /\ SettingStays(n) /\ launch'[n].pc = "run"
    BY <1>6, JudgeDoes
  <2> QED
    BY <2>1, <2>2, AloneStays
<1>7. ASSUME NEW p \in child, Answer(p) PROVE Alone'
  <2>1. PICK i \in p.left : child' = (child \ {p}) \cup {[p EXCEPT !.left = @ \ {i}]}
    BY <1>7 DEF Answer
  <2>2. [p EXCEPT !.left = @ \ {i}].launch = p.launch
    BY DEF TypeOK
  <2>3. \A q \in child' : \E o \in child : q.launch = o.launch
    BY <2>1, <2>2
  <2>4. launch' = launch /\ commit' = commit
    BY <1>7 DEF Answer
  <2>5. Active' = Active
    BY <2>4 DEF Active
  <2> QED
    BY <2>3, <2>4, <2>5 DEF Alone
<1>8. ASSUME NEW p \in child, \/ Done(p) \/ Crashed(p) \/ Dies(p) PROVE Alone'
  <2>1. PICK code \in {0, 1} : Returns(p, code) /\ commit' = commit
    BY <1>8 DEF Done, Crashed, Dies
  <2>2. p.launch \in Numbers
    BY TypeOfRows
  <2>3. /\ OthersStay(p.launch) /\ SettingStays(p.launch)
        /\ launch'[p.launch].pc = launch[p.launch].pc /\ child' \subseteq child
    BY <2>1, ReturnsDoes
  <2>4. launch'[p.launch].pc \in {"check", "open", "mark", "run"} => p.launch \in Active
    BY <2>2, <2>3 DEF Active
  <2> QED
    BY <2>1, <2>2, <2>3, <2>4, AloneStays
<1>9. CASE Checkout
  <2>1. child' = {} /\ Active' = {}
    BY <1>9 DEF Checkout, Quiet, Active, Over, Numbers
  <2> QED
    BY <2>1 DEF Alone
<1>10. CASE UNCHANGED vars
  BY <1>10 DEF vars, Alone, Active
<1> QED
  BY <1>1, <1>2, <1>3, <1>4, <1>5, <1>6, <1>7, <1>8, <1>9, <1>10 DEF Next, Numbers

\* Of the launches only the one that opens or marks a folder changes it.
LEMMA OnlyFolder ==
    ASSUME TypeOK, [Next]_vars, NEW r \in Runs, folder'[r] # folder[r]
    PROVE  \E n \in Numbers : (Open(n) \/ Mark(n)) /\ launch[n].cur = r
<1>1. ASSUME NEW n \in Numbers, \/ \E c \in Configs : Start(n, c)
                               \/ Check(n) \/ Finish(n) \/ Kill(n)
                               \/ \E m \in Models : StartRun(n, m) \/ Judge(n, m)
      PROVE  folder' = folder
  BY <1>1 DEF Start, Check, Finish, Kill, StartRun, Judge
<1>2. ASSUME NEW p \in child, \/ Answer(p) \/ Done(p) \/ Crashed(p) \/ Dies(p)
      PROVE  folder' = folder
  BY <1>2 DEF Answer, Done, Crashed, Dies
<1>3. CASE Checkout \/ UNCHANGED vars
  BY <1>3 DEF Checkout, vars
<1>4. PICK n \in Numbers : Open(n) \/ Mark(n)
  BY <1>1, <1>2, <1>3 DEF Next, Numbers
<1> QED
  BY <1>4 DEF Open, Mark, TypeOK

\* Only the one launch that is active is so after a step, or one that starts.
LEMMA StillActive ==
    ASSUME InTurn, TypeOK, Waiting, [Next]_vars, NEW n \in Numbers, n \in Active'
    PROVE  n \in Active \/ \E c \in Configs : Start(n, c)
<1>1. ASSUME NEW e \in Numbers, OthersStay(e), launch[e].pc \in {"check", "open", "mark", "run"}
      PROVE  n \in Active
  BY <1>1 DEF Active, OthersStay
<1>2. ASSUME NEW e \in Numbers, \/ Check(e) \/ Open(e) \/ Mark(e) \/ Finish(e)
      PROVE  n \in Active
  BY <1>1, <1>2, CheckDoes, OpenDoes, MarkDoes, FinishDoes DEF Check, Open, Mark, Finish, At
<1>3. ASSUME NEW e \in Numbers, Kill(e)
      PROVE  n \in Active
  <2>1. launch'[e].pc = "killed" /\ OthersStay(e)
    BY <1>3, KillDoes
  <2> QED
    BY <2>1 DEF Active, OthersStay
<1>4. ASSUME NEW e \in Numbers, NEW m \in Models, StartRun(e, m) \/ Judge(e, m)
      PROVE  n \in Active
  BY <1>1, <1>4, StartRunDoes, JudgeDoes DEF StartRun, Judge, At
<1>5. ASSUME NEW p \in child, \/ Done(p) \/ Crashed(p) \/ Dies(p)
      PROVE  n \in Active
  <2>1. PICK code \in {0, 1} : Returns(p, code)
    BY <1>5 DEF Done, Crashed, Dies
  <2>2. OthersStay(p.launch) /\ launch'[p.launch].pc = launch[p.launch].pc
    BY <2>1, ReturnsDoes
  <2> QED
    BY <2>2 DEF Active, OthersStay
<1>6. CASE UNCHANGED launch
  BY <1>6 DEF Active
<1>7. ASSUME NEW e \in Numbers, NEW c \in Configs, Start(e, c)
      PROVE  n \in Active \/ Start(n, c)
  <2>1. OthersStay(e)
    BY <1>7, StartDoes
  <2> QED
    BY <1>7, <2>1 DEF Active, OthersStay
<1> QED
  BY <1>2, <1>3, <1>4, <1>5, <1>6, <1>7 DEF Next, Numbers, Answer, Checkout, vars

\* What a launch has dealt with, and where it is, only changes as its steps say.
InSteps(n) ==
    /\ launch'[n].unchecked = launch[n].unchecked \/ Mark(n)
    /\ launch'[n].pc \in {"open", "mark"} =>
          Check(n) \/ Open(n) \/ launch'[n] = launch[n]
    /\ launch'[n].pc = "run" =>
          \/ Mark(n)
          \/ \E m \in Models : Judge(n, m)
          \/ /\ launch[n].pc = "run" /\ launch'[n].left = launch[n].left
             /\ launch'[n].failed = launch[n].failed
    /\ launch'[n].pc = "completed" => Finish(n) \/ launch[n].pc = "completed"

LEMMA LaunchSteps ==
    ASSUME TypeOK, Waiting, [Next]_vars, NEW n \in Numbers
    PROVE  InSteps(n)
<1>1. ASSUME NEW e \in Numbers, e # n, OthersStay(e)
      PROVE  InSteps(n)
  BY <1>1 DEF InSteps, OthersStay
<1>2. ASSUME NEW c \in Configs, Start(n, c) PROVE InSteps(n)
  BY <1>2, StartDoes DEF InSteps, FoldersStay
<1>3. CASE Check(n)
  BY <1>3, CheckDoes DEF InSteps
<1>4. CASE Open(n)
  BY <1>4, OpenDoes DEF InSteps, FoldersStay
<1>5. CASE Mark(n)
  <2>1. launch'[n].pc \in {"run", "check"}
    BY <1>5, MarkDoes
  <2> QED
    BY <1>5, <2>1 DEF InSteps
<1>6. CASE Finish(n)
  <2>1. launch'[n].pc \in {"completed", "failed"} /\ FoldersStay(n)
    BY <1>6, FinishDoes
  <2> QED
    BY <1>6, <2>1 DEF InSteps, FoldersStay
<1>7. CASE Kill(n)
  BY <1>7, KillDoes DEF InSteps, FoldersStay
<1>8. ASSUME NEW m \in Models, StartRun(n, m) \/ Judge(n, m) PROVE InSteps(n)
  <2>1. CASE StartRun(n, m)
    <3>1. /\ launch[n].pc = "run" /\ launch'[n].pc = "run" /\ FoldersStay(n)
          /\ launch'[n].left = launch[n].left /\ launch'[n].failed = launch[n].failed
      BY <2>1, StartRunDoes DEF StartRun, At
    <3> QED
      BY <3>1 DEF InSteps, FoldersStay
  <2>2. CASE Judge(n, m)
    <3>1. launch'[n].pc = "run" /\ FoldersStay(n)
      BY <2>2, JudgeDoes
    <3> QED
      BY <2>2, <3>1 DEF InSteps, FoldersStay
  <2> QED
    BY <1>8, <2>1, <2>2
<1>9. ASSUME NEW p \in child, NEW code \in {0, 1}, Returns(p, code) PROVE InSteps(n)
  <2>1. /\ OthersStay(p.launch) /\ FoldersStay(p.launch)
        /\ launch'[p.launch].pc = launch[p.launch].pc
        /\ launch'[p.launch].left = launch[p.launch].left
        /\ launch'[p.launch].failed = launch[p.launch].failed
        /\ p.launch \in Numbers
    BY <1>9, ReturnsDoes, TypeOfRows
  <2>2. launch[p.launch].pc \notin {"off", "check", "open", "mark"}
    BY DEF Waiting
  <2>3. CASE p.launch = n
    BY <2>1, <2>2, <2>3 DEF InSteps, FoldersStay
  <2> QED
    BY <1>1, <2>1, <2>3
<1>10. CASE UNCHANGED launch
  BY <1>10 DEF InSteps
<1>11. ASSUME NEW e \in Numbers, \/ \E c \in Configs : Start(e, c)
                                \/ Check(e) \/ Open(e) \/ Mark(e) \/ Finish(e) \/ Kill(e)
                                \/ \E m \in Models : StartRun(e, m) \/ Judge(e, m)
       PROVE  InSteps(n)
  <2>1. OthersStay(e)
    BY <1>11, StartDoes, CheckDoes, OpenDoes, MarkDoes, FinishDoes, KillDoes,
       StartRunDoes, JudgeDoes
  <2>2. CASE e = n
    <3>1. \/ \E c \in Configs : Start(n, c)
          \/ Check(n) \/ Open(n) \/ Mark(n) \/ Finish(n) \/ Kill(n)
          \/ \E m \in Models : StartRun(n, m) \/ Judge(n, m)
      BY <1>11, <2>2
    <3> QED
      BY <1>2, <1>3, <1>4, <1>5, <1>6, <1>7, <1>8, <3>1
  <2> QED
    BY <1>1, <2>1, <2>2
<1>12. ASSUME NEW p \in child, \/ Answer(p) \/ Done(p) \/ Crashed(p) \/ Dies(p)
       PROVE  InSteps(n)
  <2>1. (\E code \in {0, 1} : Returns(p, code)) \/ UNCHANGED launch
    BY <1>12 DEF Answer, Done, Crashed, Dies
  <2> QED
    BY <1>9, <1>10, <2>1
<1>13. CASE Checkout \/ UNCHANGED vars
  BY <1>10, <1>13 DEF Checkout, vars
<1> QED
  BY <1>11, <1>12, <1>13 DEF Next, Numbers

LEMMA CheckedNext ==
    ASSUME InTurn, TypeOK, Signed, Waiting, Control, Alone, Checked, [Next]_vars
    PROVE  Checked'
<1> SUFFICES ASSUME NEW n \in Numbers, n \in Active', NEW r \in Runs \ launch'[n].unchecked
             PROVE  folder'[r] = Signature(n)'
  BY DEF Checked, Active
<1>1. launch'[n].unchecked = launch[n].unchecked \/ Mark(n)
  BY LaunchSteps DEF InSteps
<1>2. n \in Active
  <2>1. ASSUME NEW c \in Configs, Start(n, c) PROVE FALSE
    <3>1. launch[n].pc = "off" /\ launch'[n].unchecked = launch[n].unchecked
      BY <2>1, StartDoes DEF Start, At, FoldersStay
    <3> QED
      BY <3>1 DEF Control, ControlOf
  <2> QED
    BY <2>1, StillActive
<1>3. Signature(n)' = Signature(n)
  BY <1>2, SignatureStays DEF Active
<1>4. ASSUME r \notin launch[n].unchecked PROVE folder'[r] = Signature(n)
  <2>1. folder[r] = Signature(n)
    BY <1>2, <1>4 DEF Checked
  <2>2. ASSUME NEW e \in Numbers, Open(e) \/ Mark(e), launch[e].cur = r PROVE FALSE
    <3>1. launch[e].pc \in {"open", "mark"}
      BY <2>2 DEF Open, Mark, At
    <3>2. e = n
      BY <1>2, <3>1 DEF Alone, Active
    <3> QED
      BY <1>4, <2>2, <3>1, <3>2 DEF Control, ControlOf
  <2> QED
    BY <2>1, <2>2, OnlyFolder
<1>5. CASE r \in launch[n].unchecked
  <2>1. Mark(n) /\ r = launch[n].cur
    BY <1>1, <1>5, MarkDoes
  <2> QED
    BY <1>3, <2>1 DEF Mark, TypeOK
<1> QED
  BY <1>3, <1>4, <1>5

LEMMA MarkingNext ==
    ASSUME InTurn, TypeOK, Signed, Waiting, Control, Alone, Marking, RowsMatchMarker, [Next]_vars
    PROVE  Marking'
<1> SUFFICES ASSUME NEW n \in Numbers, n \in Active', launch'[n].pc \in {"open", "mark"}
             PROVE  /\ launch'[n].pc = "open" => folder'[launch'[n].cur] \in {None, Signature(n)'}
                    /\ launch'[n].pc = "mark" =>
                          /\ folder'[launch'[n].cur] = Torn
                          /\ \A i \in Items : rows'[launch'[n].cur][i] # None =>
                                rows'[launch'[n].cur][i].under = Signature(n)'
  BY DEF Marking, Active
<1>1. Check(n) \/ Open(n) \/ launch'[n] = launch[n]
  BY LaunchSteps DEF InSteps
<1>2. launch[n].pc \in {"check", "open", "mark"} /\ n \in Active
  BY <1>1 DEF Check, Open, At, Active
<1>3. child = {} /\ Signature(n)' = Signature(n)
  BY <1>2, NoChildren, SignatureStays
<1>4. \A r \in Runs, i \in Items : rows'[r][i] = rows[r][i]
  BY <1>3, OnlyChildren
<1>5. CASE Check(n)
  <2>1. folder' = folder /\ launch'[n].pc = "open" /\ Mine(n, launch'[n].cur)
    BY <1>5, CheckDoes DEF Check
  <2> QED
    BY <1>3, <2>1 DEF Mine
<1>6. CASE Open(n)
  <2>1. /\ launch[n].pc = "open" /\ launch'[n].pc = "mark" /\ launch'[n].cur = launch[n].cur
        /\ folder' = [folder EXCEPT ![launch[n].cur] = Torn]
    BY <1>6, OpenDoes DEF Open, At, FoldersStay
  <2>2. launch[n].cur \in Runs
    BY <2>1, TypeOfLaunch DEF Control, ControlOf, Launchers
  <2>3. folder'[launch[n].cur] = Torn
    BY <2>1, <2>2 DEF TypeOK
  <2>4. folder[launch[n].cur] \in {None, Signature(n)} /\ None # Torn /\ Signature(n) # Torn
    BY <1>2, <2>1, LauncherAssumption DEF Marking, Signed
  <2>5. ASSUME NEW i \in Items, rows[launch[n].cur][i] # None
        PROVE  rows[launch[n].cur][i].under = Signature(n)
    <3>1. rows[launch[n].cur][i].under \in Settings
      BY <2>2, <2>5 DEF TypeOK, Row
    <3> QED
      BY <2>2, <2>4, <2>5, <3>1, LauncherAssumption DEF RowsMatchMarker
  <2> QED
    BY <1>3, <1>4, <2>1, <2>2, <2>3, <2>5
<1>7. CASE launch'[n] = launch[n]
  <2>1. launch[n].cur \in Runs
    BY <1>7, TypeOfLaunch DEF Control, ControlOf, Launchers
  <2>2. ASSUME NEW e \in Numbers, Open(e) \/ Mark(e) PROVE FALSE
    <3>1. e = n
      BY <1>2, <2>2 DEF Alone, Active, Open, Mark, At
    <3>2. CASE Open(n)
      BY <1>7, <3>2, OpenDoes DEF Open, At
    <3>3. CASE Mark(n)
      BY <1>7, <3>3, MarkDoes
    <3> QED
      BY <2>2, <3>1, <3>2, <3>3
  <2>3. folder'[launch[n].cur] = folder[launch[n].cur]
    BY <2>1, <2>2, OnlyFolder
  <2> QED
    BY <1>2, <1>3, <1>4, <1>7, <2>1, <2>3 DEF Marking
<1> QED
  BY <1>1, <1>5, <1>6, <1>7

\* Children are started by a launch that runs, and otherwise answer or end.
LEMMA HowChildren ==
    ASSUME [Next]_vars
    PROVE  (\E n \in Numbers : \E m \in Models : StartRun(n, m)) \/ (\E q \in child : Answer(q))
              \/ child' \subseteq child
<1>1. ASSUME NEW n \in Numbers, \/ \E c \in Configs : Start(n, c)
                               \/ Check(n) \/ Open(n) \/ Mark(n) \/ Finish(n) \/ Kill(n)
                               \/ \E m \in Models : Judge(n, m)
      PROVE  child' \subseteq child
  BY <1>1 DEF Start, Check, Open, Mark, Finish, Kill, Judge
<1>2. ASSUME NEW q \in child, Done(q) \/ Crashed(q) \/ Dies(q) PROVE child' \subseteq child
  BY <1>2 DEF Done, Crashed, Dies, Returns
<1>3. CASE Checkout \/ UNCHANGED vars
  BY <1>3 DEF Checkout, vars
<1> QED
  BY <1>1, <1>2, <1>3 DEF Next, Numbers

LEMMA UnderMarkerNext ==
    ASSUME InTurn, TypeOK, Signed, Waiting, Control, Alone, Checked, UnderMarker, [Next]_vars
    PROVE  UnderMarker'
<1>1. \A p \in child, n \in Numbers : ~Open(n) /\ ~Mark(n)
  BY NoChildren DEF Open, Mark, At
<1>2. ASSUME NEW p \in child
      PROVE  p.under = Signature(p.launch)' /\ folder'[p.run] = p.under
  <2>1. p.launch \in Numbers /\ p.run \in Runs /\ launch[p.launch].pc # "off"
    BY TypeOfRows DEF Alone
  <2>2. Signature(p.launch)' = Signature(p.launch)
    BY <2>1, SignatureStays
  <2>3. folder'[p.run] = folder[p.run]
    BY <1>1, <2>1, OnlyFolder
  <2> QED
    BY <2>2, <2>3 DEF UnderMarker
<1>3. ASSUME NEW n \in Numbers, NEW m \in Models, StartRun(n, m), NEW p \in child'
      PROVE  p.under = Signature(p.launch)' /\ folder'[p.run] = p.under
  <2>1. /\ launch[n].pc = "run" /\ n \in Active /\ folder' = folder
        /\ launch[n].unchecked = {} /\ launch[n].commit = commit
    BY <1>3 DEF StartRun, At, Active, Control, ControlOf, Alone
  <2>2. PICK t \in launch[n].left[m] :
          child' = child \cup
            {[launch |-> n, run |-> <<m, t>>, left |-> Unanswered(<<m, t>>),
              under |-> [config |-> launch[n].config, commit |-> commit]]}
    BY <1>3 DEF StartRun
  <2>3. <<m, t>> \in Runs
    BY TypeOfLaunch DEF Launchers, Runs
  <2>4. folder[<<m, t>>] = Signature(n)
    BY <2>1, <2>3 DEF Checked
  <2>5. Signature(n)' = Signature(n) /\ Signature(n) = [config |-> launch[n].config, commit |-> commit]
    BY <2>1, SignatureStays DEF Signature
  <2>6. CASE p \in child
    BY <1>2, <2>6
  <2>7. CASE p = [launch |-> n, run |-> <<m, t>>, left |-> Unanswered(<<m, t>>),
                  under |-> [config |-> launch[n].config, commit |-> commit]]
    <3>1. p.launch = n /\ p.run = <<m, t>> /\ p.under = Signature(n)
      BY <2>5, <2>7
    <3> QED
      BY <2>1, <2>4, <2>5, <3>1
  <2> QED
    BY <2>2, <2>6, <2>7
<1>4. ASSUME NEW q \in child, Answer(q), NEW p \in child'
      PROVE  p.under = Signature(p.launch)' /\ folder'[p.run] = p.under
  <2>1. PICK i \in q.left : child' = (child \ {q}) \cup {[q EXCEPT !.left = @ \ {i}]}
    BY <1>4 DEF Answer
  <2>2. LET new == [q EXCEPT !.left = @ \ {i}]
        IN  new.launch = q.launch /\ new.run = q.run /\ new.under = q.under
    BY DEF TypeOK
  <2>3. \E o \in child : p.launch = o.launch /\ p.run = o.run /\ p.under = o.under
    BY <2>1, <2>2
  <2>4. PICK o \in child : p.launch = o.launch /\ p.run = o.run /\ p.under = o.under
    BY <2>3
  <2>5. o.under = Signature(o.launch)' /\ folder'[o.run] = o.under
    BY <1>2
  <2>6. Signature(p.launch)' = Signature(o.launch)'
    BY <2>4 DEF Signature
  <2> QED
    BY <2>4, <2>5, <2>6
<1>5. (\E n \in Numbers : \E m \in Models : StartRun(n, m)) \/ (\E q \in child : Answer(q))
         \/ child' \subseteq child
  BY HowChildren
<1> QED
  BY <1>2, <1>3, <1>4, <1>5 DEF UnderMarker

LEMMA ServingNext ==
    ASSUME InTurn, TypeOK, Waiting, Alone, Serving, [Next]_vars
    PROVE  Serving'
<1>1. ASSUME NEW p \in child, NEW i \in p.left,
             \A q \in child : Answer(q) \/ Crashed(q) => q # p
      PROVE  rows'[p.run][i] = None \/ rows'[p.run][i].flaw = "not_ok"
  <2>1. p.run \in Runs /\ i \in Items
    BY TypeOfRows
  <2>2. ASSUME NEW q \in child, Answer(q) \/ Crashed(q), q.run = p.run PROVE FALSE
    BY <1>1, <2>2 DEF Alone, Waiting
  <2> QED
    BY <2>1, <2>2, OnlyChildren DEF Serving
<1>2. ASSUME NEW n \in Numbers, NEW m \in Models, StartRun(n, m),
             NEW p \in child', NEW i \in p.left
      PROVE  rows'[p.run][i] = None \/ rows'[p.run][i].flaw = "not_ok"
  <2>1. rows' = rows
    BY <1>2 DEF StartRun
  <2>2. PICK t \in launch[n].left[m] :
          child' = child \cup
            {[launch |-> n, run |-> <<m, t>>, left |-> Unanswered(<<m, t>>),
              under |-> [config |-> launch[n].config, commit |-> commit]]}
    BY <1>2 DEF StartRun
  <2>3. CASE p \in child
    BY <2>1, <2>3 DEF Serving
  <2>4. CASE p = [launch |-> n, run |-> <<m, t>>, left |-> Unanswered(<<m, t>>),
                  under |-> [config |-> launch[n].config, commit |-> commit]]
    <3>1. p.run = <<m, t>> /\ p.left = Unanswered(<<m, t>>)
      BY <2>4
    <3> QED
      BY <2>1, <3>1 DEF Unanswered
  <2> QED
    BY <2>2, <2>3, <2>4
<1>3. ASSUME NEW q \in child, Answer(q), NEW p \in child', NEW i \in p.left
      PROVE  rows'[p.run][i] = None \/ rows'[p.run][i].flaw = "not_ok"
  <2>1. PICK j \in q.left, row \in RowsOf(q) :
           /\ rows' = [rows EXCEPT ![q.run][j] = row]
           /\ child' = (child \ {q}) \cup {[q EXCEPT !.left = @ \ {j}]}
    BY <1>3 DEF Answer
  <2>2. q.run \in Runs /\ q.left \subseteq Items
    BY TypeOfRows
  <2>3. CASE p = [q EXCEPT !.left = @ \ {j}]
    <3>1. p.run = q.run /\ p.left = q.left \ {j}
      BY <2>3 DEF TypeOK
    <3>2. rows'[q.run][i] = rows[q.run][i]
      BY <2>1, <2>2, <3>1 DEF TypeOK
    <3> QED
      BY <3>1, <3>2 DEF Serving
  <2>4. CASE p \in child /\ p # q
    <3>1. p.run # q.run /\ p.run \in Runs
      BY <2>4, TypeOfRows DEF Alone, Waiting
    <3>2. rows'[p.run] = rows[p.run]
      BY <2>1, <2>2, <3>1 DEF TypeOK
    <3> QED
      BY <2>4, <3>2 DEF Serving
  <2> QED
    BY <2>1, <2>3, <2>4
<1>4. ASSUME ~\E q \in child : Answer(q), ~\E n \in Numbers : \E m \in Models : StartRun(n, m),
             NEW p \in child', NEW i \in p.left
      PROVE  rows'[p.run][i] = None \/ rows'[p.run][i].flaw = "not_ok"
  <2>1. p \in child
    BY <1>4, HowChildren
  <2>2. ~Crashed(p)
    BY <2>1 DEF Crashed, Returns
  <2> QED
    BY <1>1, <1>4, <2>1, <2>2
<1> QED
  BY <1>2, <1>3, <1>4 DEF Serving

LEMMA RowsNext ==
    ASSUME TypeOK, Signed, Waiting, Alone, Marking, UnderMarker, RowsMatchMarker, [Next]_vars
    PROVE  RowsMatchMarker'
<1> SUFFICES ASSUME NEW r \in Runs, NEW i \in Items, rows'[r][i] # None
             PROVE  /\ folder'[r] \in {Torn, rows'[r][i].under}
                    /\ \A j \in Items : rows'[r][j] # None => rows'[r][j].under = rows'[r][i].under
  BY DEF RowsMatchMarker
<1>1. CASE \E k \in Items : rows'[r][k] # rows[r][k]
  <2>1. PICK p \in child : p.run = r
    BY <1>1, OnlyChildren
  <2>2. folder[r] \in Settings /\ folder[r] # Torn
    BY <2>1, TypeOfRows, LauncherAssumption DEF UnderMarker
  <2>3. ASSUME NEW n \in Numbers, Open(n) \/ Mark(n) PROVE FALSE
    BY <2>1, <2>3, NoChildren DEF Open, Mark, At
  <2>4. folder'[r] = folder[r]
    BY <2>3, OnlyFolder
  <2>5. ASSUME NEW j \in Items, rows'[r][j] # None PROVE rows'[r][j].under = folder[r]
    <3>1. CASE rows'[r][j] # rows[r][j]
      BY <3>1, OnlyChildren DEF UnderMarker
    <3>2. CASE rows'[r][j] = rows[r][j]
      BY <2>2, <2>5, <3>2 DEF RowsMatchMarker
    <3> QED
      BY <3>1, <3>2
  <2> QED
    BY <2>4, <2>5
<1>2. CASE \A k \in Items : rows'[r][k] = rows[r][k]
  <2>1. \A j \in Items : rows'[r][j] # None => rows'[r][j].under = rows'[r][i].under
    BY <1>2 DEF RowsMatchMarker
  <2>2. CASE folder'[r] = folder[r]
    BY <1>2, <2>1, <2>2 DEF RowsMatchMarker
  <2>3. ASSUME NEW n \in Numbers, Open(n), launch[n].cur = r PROVE folder'[r] = Torn
    BY <2>3 DEF Open, TypeOK
  <2>4. ASSUME NEW n \in Numbers, Mark(n), launch[n].cur = r PROVE folder'[r] = rows'[r][i].under
    <3>1. launch[n].pc = "mark" /\ n \in Active /\ folder'[r] = Signature(n)
      BY <2>4 DEF Mark, At, Active, TypeOK
    <3>2. rows[r][i].under = Signature(n)
      BY <1>2, <2>4, <3>1 DEF Marking
    <3> QED
      BY <1>2, <3>1, <3>2
  <2> QED
    BY <2>1, <2>2, <2>3, <2>4, OnlyFolder
<1> QED
  BY <1>1, <1>2

\* A verdict that finds nothing wrong is about a run that is whole.
LEMMA NotBadIsWhole ==
    ASSUME TypeOK, Signed, Control, Alone, Checked, RowsMatchMarker,
           NEW n \in Numbers, launch[n].pc = "run", NEW r \in Runs, NEW code, ~Bad(r, code)
    PROVE  Whole(r, n)
<1>1. folder[r] = Signature(n) /\ Signature(n) # Torn
  BY LauncherAssumption DEF Checked, Active, Control, ControlOf, Signed
<1>2. r[2] \in {"blind", "memory", "oracle"}
  BY LauncherAssumption DEF Runs
<1>3. ASSUME NEW i \in Items
      PROVE  rows[r][i] # None /\ ~Harmful(rows[r][i].flaw, r[2]) /\ rows[r][i].flaw \in Flaws
  <2>1. rows[r][i] # None /\ ~Harmful(rows[r][i].flaw, r[2])
    BY DEF Bad
  <2>2. rows[r][i] \in Row
    BY <2>1 DEF TypeOK
  <2> QED
    BY <2>1, <2>2 DEF Row
<1>4. ASSUME NEW i \in Items PROVE rows[r][i].under = Signature(n)
  BY <1>1, <1>3 DEF RowsMatchMarker
<1> QED
  BY <1>2, <1>3, <1>4 DEF Whole, Harmful, Flaws

LEMMA JudgedNext ==
    ASSUME TypeOK, Signed, Waiting, Control, Alone, Checked, Serving, Judged,
           RowsMatchMarker, [Next]_vars
    PROVE  Judged'
<1> SUFFICES ASSUME NEW n \in Numbers, launch'[n].pc = "run",
                    NEW m \in Models, NEW t \in Tracks \ launch'[n].left[m]
             PROVE  <<m, t>> \in launch'[n].failed \/ Whole(<<m, t>>, n)'
  BY DEF Judged
<1>1. <<m, t>> \in Runs
  BY DEF Runs
<1>2. CASE Mark(n)
  <2>1. launch'[n].left = launch[n].left /\ launch[n].pc = "mark"
    BY <1>2, MarkDoes DEF TracksStay, Mark, At
  <2> QED
    BY <2>1 DEF Control, ControlOf
<1>3. ASSUME NEW x \in Models, Judge(n, x)
      PROVE  <<m, t>> \in launch'[n].failed \/ Whole(<<m, t>>, n)'
  <2>1. launch[n].pc = "run" /\ launch[n] \in Launchers
    BY <1>3, TypeOfLaunch DEF Judge, At
  <2>2. /\ launch'[n].left = [launch[n].left EXCEPT ![x] = @ \ {launch[n].track[x]}]
        /\ launch'[n].failed =
              IF Bad(<<x, launch[n].track[x]>>, launch[n].code[x])
              THEN launch[n].failed \cup {<<x, launch[n].track[x]>>} ELSE launch[n].failed
    BY <1>3, JudgeDoes
  <2>3. CASE x = m /\ t = launch[n].track[x]
    <3>1. <<m, t>> \in launch'[n].failed \/ ~Bad(<<m, t>>, launch[n].code[x])
      BY <2>2, <2>3
    <3>2. ~Bad(<<m, t>>, launch[n].code[x]) => Whole(<<m, t>>, n)
      BY <1>1, <2>1, NotBadIsWhole
    <3> QED
      BY <1>1, <2>1, <3>1, <3>2, WholeStays
  <2>4. CASE ~(x = m /\ t = launch[n].track[x])
    <3>1. t \notin launch[n].left[m]
      BY <2>1, <2>2, <2>4 DEF Launchers
    <3>2. <<m, t>> \in launch[n].failed \/ Whole(<<m, t>>, n)
      BY <2>1, <3>1 DEF Judged
    <3> QED
      BY <1>1, <2>1, <2>2, <3>2, WholeStays
  <2> QED
    BY <2>3, <2>4
<1>4. CASE /\ launch[n].pc = "run" /\ launch'[n].left = launch[n].left
           /\ launch'[n].failed = launch[n].failed
  <2>1. <<m, t>> \in launch[n].failed \/ Whole(<<m, t>>, n)
    BY <1>4 DEF Judged
  <2> QED
    BY <1>1, <1>4, <2>1, WholeStays
<1> QED
  BY <1>2, <1>3, <1>4, LaunchSteps DEF InSteps

LEMMA VerdictsNext ==
    ASSUME TypeOK, Waiting, Control, Serving, Judged, VerdictsAreTrue, [Next]_vars
    PROVE  VerdictsAreTrue'
<1>1. ASSUME NEW n \in Numbers, Finish(n), NEW m \in Models, NEW t \in Tracks,
             <<m, t>> \notin launch[n].failed
      PROVE  Whole(<<m, t>>, n)'
  <2>1. launch[n].pc = "run" /\ launch[n].left[m] = {}
    BY <1>1 DEF Finish, At
  <2>2. Whole(<<m, t>>, n) /\ <<m, t>> \in Runs
    BY <1>1, <2>1 DEF Judged, Runs
  <2> QED
    BY <2>1, <2>2, WholeStays
<1>2. ASSUME NEW n \in Numbers, launch'[n].pc = "completed", NEW r \in Runs
      PROVE  Whole(r, n)'
  <2>1. CASE Finish(n)
    <3>1. launch[n].failed = {}
      BY <1>2, <2>1, FinishDoes
    <3>2. PICK m \in Models, t \in Tracks : r = <<m, t>>
      BY DEF Runs
    <3> QED
      BY <1>1, <2>1, <3>1, <3>2
  <2>2. CASE launch[n].pc = "completed"
    BY <2>2, WholeStays DEF VerdictsAreTrue, Numbers
  <2> QED
    BY <1>2, <2>1, <2>2, LaunchSteps DEF InSteps
<1>3. ASSUME NEW n \in Numbers, NEW m \in Models, <<n, m>> \in compared'
      PROVE  Whole(<<m, "memory">>, n)' /\ Whole(<<m, "blind">>, n)'
  <2>1. CASE <<n, m>> \in compared
    <3>1. /\ launch[n].pc # "off" /\ <<m, "memory">> \in Runs /\ <<m, "blind">> \in Runs
      BY <2>1 DEF Control, ControlOf, Runs
    <3>2. Whole(<<m, "memory">>, n) /\ Whole(<<m, "blind">>, n)
      BY <2>1 DEF VerdictsAreTrue, Numbers
    <3> QED
      BY <3>1, <3>2, WholeStays
  <2>2. CASE <<n, m>> \notin compared
    <3>1. (\E e \in Numbers : Finish(e)) \/ compared' = compared
      <4>1. ASSUME NEW e \in Numbers, \/ \E c \in Configs : Start(e, c)
                                     \/ Check(e) \/ Open(e) \/ Mark(e) \/ Kill(e)
                                     \/ \E x \in Models : StartRun(e, x) \/ Judge(e, x)
            PROVE  compared' = compared
        BY <4>1 DEF Start, Check, Open, Mark, Kill, StartRun, Judge
      <4>2. ASSUME NEW p \in child, \/ Answer(p) \/ Done(p) \/ Crashed(p) \/ Dies(p)
            PROVE  compared' = compared
        BY <4>2 DEF Answer, Done, Crashed, Dies
      <4>3. CASE Checkout \/ UNCHANGED vars
        BY <4>3 DEF Checkout, vars
      <4> QED
        BY <4>1, <4>2, <4>3 DEF Next, Numbers
    <3>2. PICK e \in Numbers : Finish(e)
      BY <1>3, <2>2, <3>1
    <3>3. e = n /\ Comparable(n, m)
      BY <1>3, <2>2, <3>2 DEF Finish
    <3>4. /\ "memory" \in Tracks /\ "blind" \in Tracks
          /\ <<m, "memory">> \notin launch[n].failed /\ <<m, "blind">> \notin launch[n].failed
      BY <3>3 DEF Comparable
    <3> QED
      BY <1>1, <3>2, <3>3, <3>4
  <2> QED
    BY <2>1, <2>2
<1> QED
  BY <1>2, <1>3 DEF VerdictsAreTrue, Numbers

-----------------------------------------------------------------------------
(* The theorems.                                                           *)

LEMMA InitInv == Init => Inv
<1> SUFFICES ASSUME Init PROVE Inv
  OBVIOUS
<1>1. TypeOK
  BY TypeInit
<1>2. Active = {} /\ child = {} /\ compared = {}
  BY DEF Init, Active, Numbers
<1>3. Signed /\ Waiting /\ Control /\ Alone
  BY <1>2 DEF Init, Signed, Waiting, Control, ControlOf, Alone, Numbers
<1>4. Checked /\ Marking /\ UnderMarker /\ Serving
  BY <1>2 DEF Checked, Marking, UnderMarker, Serving
<1>5. Judged /\ RowsMatchMarker /\ VerdictsAreTrue
  BY <1>2 DEF Init, Judged, RowsMatchMarker, VerdictsAreTrue, Numbers
<1> QED
  BY <1>1, <1>3, <1>4, <1>5 DEF Inv

\* The invariant holds of launches that come in turn.
THEOREM Invariance ==
    ASSUME InTurn
    PROVE  Spec => []Inv
<1>1. Inv /\ [Next]_vars => Inv'
  BY TypeNext, SignedNext, WaitingNext, ControlNext, AloneNext, CheckedNext, MarkingNext,
     UnderMarkerNext, ServingNext, JudgedNext, RowsNext, VerdictsNext DEF Inv
<1> QED
  BY <1>1, InitInv, PTL DEF Spec

\* All rows of a run were made under one setting, the one in its marker if that
\* can be read, for any launches that come in turn, killed where they may be
\* and whatever children they leave: execution.json is guard enough.
THEOREM RowsAreNotMixed ==
    ASSUME InTurn
    PROVE  Spec => []RowsMatchMarker
BY Invariance, PTL DEF Inv

\* A launch that reports completion leaves sound answers in every run, and a
\* gain is computed from two such runs; no later launch takes them away.
THEOREM VerdictsStayTrue ==
    ASSUME InTurn
    PROVE  Spec => []VerdictsAreTrue
BY Invariance, PTL DEF Inv
=============================================================================
