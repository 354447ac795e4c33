---------------------------- MODULE RunStore_proofs ---------------------------
(***************************************************************************)
(* Theorems about RunStore, for every suite, any number of attempts at one *)
(* run id, and kills anywhere, in the middle of a line too.                *)
(***************************************************************************)
EXTENDS RunStore, SequenceTheorems, TLAPS

-----------------------------------------------------------------------------
(* The inductive invariant.                                                *)

Writing == phase \in {"hello", "asking", "crashed"}

\* The row whose line is due is in the store, and is one this attempt records.
Due ==
    /\ phase \in {"idle", "begun", "hello"} => pending = <<>>
    /\ pending # <<>> => /\ pending[1].item \in todo
                         /\ store[pending[1].item] = pending[1].status

\* An "ok" line has an "ok" row, whichever attempts the two are from.
Backed ==
    \A n \in DOMAIN lines : lines[n].status = "ok" => store[lines[n].item] = "ok"

\* A resumed attempt has no answered item left to record.
Skipping ==
    resume /\ phase # "idle" =>
        \A i \in todo : store[i] = "ok" => pending # <<>> /\ pending[1].item = i

\* A fresh attempt writes one line for each item it records, and until it
\* crashes the items without a line are those it still has to record.
OneByOne ==
    /\ ~resume /\ phase = "begun" => todo = Items
    /\ ~resume /\ Writing =>
          /\ tail = "clean"
          /\ \A n \in DOMAIN lines :
                lines[n].item \notin todo /\ lines[n].status = store[lines[n].item]
          /\ \A m, n \in DOMAIN lines : lines[m].item = lines[n].item => m = n
          /\ phase # "crashed" =>
                \A i \in Items \ todo : \E n \in DOMAIN lines : lines[n].item = i

\* Every item that has a line has a last one, in every prefix of the file: what
\* Scored chooses is there, also after a kill has spoilt the end.
HasLast ==
    \A k \in 0..Len(lines) : \A n \in 1..k :
        \E l \in 1..k : /\ lines[l].item = lines[n].item
                        /\ \A m \in 1..k : lines[m].item = lines[n].item => m <= l

\* A resumed attempt that began in agreement keeps it, but for the line due.
InStep ==
    resume /\ inStep /\ phase # "idle" =>
        /\ tail = "clean"
        /\ \A i \in Items :
              pending = <<>> \/ pending[1].item # i => Scored(i) = store[i]

\* What the run row says while an attempt is under way.
RunRow ==
    /\ phase # "idle" => ~run.finished
    /\ phase \in {"begun", "hello"} => ~sawHandle
    /\ phase # "idle" /\ sawHandle => run.contested
    /\ ContestedIsReported
    /\ FinishedIsCurrent

Inv ==
    /\ Due
    /\ Backed
    /\ Skipping
    /\ OneByOne
    /\ HasLast
    /\ InStep
    /\ FreshRunHeals
    /\ ResumePreservesAgreement
    /\ RunRow

-----------------------------------------------------------------------------
(* The file.                                                               *)

LEMMA PendingRow ==
    ASSUME TypeOK, pending # <<>>
    PROVE  \E r \in Rows : pending = <<r>> /\ pending[1] = r
BY DEF TypeOK

LEMMA Appended ==
    ASSUME TypeOK, NEW r \in Rows
    PROVE  /\ lines \o <<r>> \in Seq(Rows)
           /\ Len(lines \o <<r>>) = Len(lines) + 1
           /\ \A n \in 1..Len(lines) : (lines \o <<r>>)[n] = lines[n]
           /\ (lines \o <<r>>)[Len(lines) + 1] = r
BY DEF TypeOK

LEMMA SpoiltPrefix ==
    ASSUME TypeOK
    PROVE  /\ Spoilt \in Seq(Rows)
           /\ Len(Spoilt) \in 0..Len(lines)
           /\ \A n \in 1..Len(Spoilt) : Spoilt[n] = lines[n]
BY SubSeqProperties DEF TypeOK, Spoilt

\* The last line of an item is what is scored.
LEMMA ScoredLast ==
    ASSUME TypeOK, NEW i \in Items,
           NEW n \in LinesOf(i), \A m \in LinesOf(i) : m <= n
    PROVE  Scored(i) = lines[n].status
<1>1. LinesOf(i) \subseteq Nat
  BY DEF LinesOf, TypeOK
<1> DEFINE last == CHOOSE l \in LinesOf(i) : \A m \in LinesOf(i) : m <= l
<1>2. last \in LinesOf(i) /\ \A m \in LinesOf(i) : m <= last
  OBVIOUS
<1>3. last = n
  BY <1>1, <1>2
<1>4. QED
  BY <1>3 DEF Scored

LEMMA LastExists ==
    ASSUME TypeOK, HasLast, NEW i \in Items, LinesOf(i) # {}
    PROVE  \E n \in LinesOf(i) : /\ \A m \in LinesOf(i) : m <= n
                                 /\ Scored(i) = lines[n].status
<1>1. LinesOf(i) = {n \in 1..Len(lines) : lines[n].item = i}
  BY DEF LinesOf, TypeOK
<1>2. PICK n \in 1..Len(lines) : lines[n].item = i
  BY <1>1
<1>3. Len(lines) \in 0..Len(lines)
  BY DEF TypeOK
<1>4. PICK l \in 1..Len(lines) :
          /\ lines[l].item = lines[n].item
          /\ \A m \in 1..Len(lines) : lines[m].item = lines[n].item => m <= l
  BY <1>3 DEF HasLast
<1>5. l \in LinesOf(i) /\ \A m \in LinesOf(i) : m <= l
  BY <1>1, <1>2, <1>4
<1>6. QED
  BY <1>5, ScoredLast

-----------------------------------------------------------------------------
(* Type correctness.                                                       *)

LEMMA NextType ==
    ASSUME RunStoreAssumption, TypeOK, [Next]_vars
    PROVE  TypeOK'
<1> USE DEF TypeOK, harness, observed
<1>1. CASE UNCHANGED vars
  BY <1>1 DEF vars
<1>2. ASSUME NEW again \in BOOLEAN, Begin(again)
      PROVE  TypeOK'
  <2>1. Agree \in BOOLEAN
    BY DEF Agree
  <2>2. run' \in [finished : BOOLEAN, contested : BOOLEAN]
    BY <1>2 DEF Begin, UpsertRun
  <2>3. inStep' \in BOOLEAN
    BY <1>2, <2>1 DEF Begin
  <2>4. done' \subseteq Items /\ todo' \subseteq Items
    BY <1>2 DEF Begin, Answered
  <2>5. attempts' \in 0..MaxAttempts
    BY <1>2 DEF Begin, RunStoreAssumption
  <2>6. QED
    BY <1>2, <2>2, <2>3, <2>4, <2>5 DEF Begin
<1>3. CASE OpenWriter
  BY <1>3 DEF OpenWriter
<1>4. CASE Handshake
  BY <1>4 DEF Handshake, UpsertRun
<1>5. CASE Contest
  BY <1>5 DEF Contest
<1>6. ASSUME NEW i \in Items, NEW status \in Statuses, Record(i, status)
      PROVE  TypeOK'
  BY <1>6 DEF Record, Rows
<1>7. CASE WriteLine
  <2>1. PICK r \in Rows : pending = <<r>>
    BY <1>7, PendingRow DEF WriteLine
  <2>2. lines' \in Seq(Rows)
    BY <1>7, <2>1, Appended, SpoiltPrefix DEF WriteLine
  <2>3. QED
    BY <1>7, <2>2 DEF WriteLine
<1>8. CASE Crash
  BY <1>8 DEF Crash
<1>9. ASSUME NEW how \in {"completed", "crashed", "aborted"}, Finish(how)
      PROVE  TypeOK'
  BY <1>9 DEF Finish, FinishRun
<1>10. CASE Kill
  <2>1. lines' \in Seq(Rows)
    <3>1. CASE pending = <<>>
      BY <1>10, <3>1 DEF Kill
    <3>2. CASE pending # <<>>
      <4>1. PICK r \in Rows : pending = <<r>>
        BY <3>2, PendingRow
      <4>2. lines \o pending \in Seq(Rows) /\ Spoilt \in Seq(Rows)
        BY <4>1, Appended, SpoiltPrefix
      <4>3. QED
        BY <1>10, <4>2 DEF Kill
    <3>3. QED
      BY <3>1, <3>2
  <2>2. QED
    BY <1>10, <2>1 DEF Kill
<1>11. CASE Over
  BY <1>11 DEF Over, vars
<1>12. QED
  BY <1>1, <1>2, <1>3, <1>4, <1>5, <1>6, <1>7, <1>8, <1>9, <1>10, <1>11 DEF Next

LEMMA InitType ==
    ASSUME RunStoreAssumption, Init
    PROVE  TypeOK
<1>1. <<>> \in Seq(Rows)
  OBVIOUS
<1>2. run \in [finished : BOOLEAN, contested : BOOLEAN]
  BY DEF Init
<1>3. attempts \in 0..MaxAttempts
  BY DEF RunStoreAssumption, Init
<1>4. QED
  BY <1>1, <1>2, <1>3 DEF Init, TypeOK

\* Every variable keeps its type, the file included, which kills cut and join
\* lines of.
THEOREM TypeCorrect == Spec => []TypeOK
<1>1. Init => TypeOK
  BY InitType, RunStoreAssumption
<1>2. TypeOK /\ [Next]_vars => TypeOK'
  BY NextType, RunStoreAssumption
<1>3. QED
  BY <1>1, <1>2, PTL DEF Spec

-----------------------------------------------------------------------------
(* How a step changes the file. *)

\* The lines after a step are those before, fewer at the end, or one more,
\* whose row is in the store.
Grows ==
    \E r \in Rows :
        /\ pending = <<r>>
        /\ Len(lines') = Len(lines) + 1
        /\ \A n \in 1..Len(lines) : lines'[n] = lines[n]
        /\ lines'[Len(lines) + 1] = r

Shrinks ==
    /\ Len(lines') \in 0..Len(lines)
    /\ \A n \in 1..Len(lines') : lines'[n] = lines[n]

LEMMA FileStep ==
    ASSUME TypeOK, [Next]_vars
    PROVE  Grows \/ Shrinks
<1> USE DEF TypeOK, harness, observed
<1>1. CASE WriteLine
  <2>1. PICK r \in Rows : pending = <<r>>
    BY <1>1, PendingRow DEF WriteLine
  <2>2. QED
    BY <1>1, <2>1, Appended, SpoiltPrefix DEF WriteLine, Grows, Shrinks
<1>2. CASE Kill
  <2>1. CASE lines' = lines
    BY <2>1 DEF Shrinks
  <2>2. CASE lines' = Spoilt
    BY <2>2, SpoiltPrefix DEF Shrinks
  <2>3. CASE pending # <<>> /\ lines' = lines \o pending
    <3>1. PICK r \in Rows : pending = <<r>>
      BY <2>3, PendingRow
    <3>2. QED
      BY <2>3, <3>1, Appended DEF Grows
  <2>4. QED
    BY <1>2, <2>1, <2>2, <2>3 DEF Kill
<1>3. CASE OpenWriter
  BY <1>3 DEF OpenWriter, Shrinks
<1>4. CASE lines' = lines
  BY <1>4 DEF Shrinks
<1>5. QED
  BY <1>1, <1>2, <1>3, <1>4
  DEF Next, Begin, Handshake, Contest, Record, Crash, Finish, Over, vars

LEMMA KeepsLast ==
    ASSUME TypeOK, TypeOK', HasLast, [Next]_vars
    PROVE  HasLast'
<1> SUFFICES ASSUME NEW k \in 0..Len(lines'), NEW n \in 1..k
             PROVE  \E l \in 1..k :
                       /\ lines'[l].item = lines'[n].item
                       /\ \A m \in 1..k : lines'[m].item = lines'[n].item => m <= l
  BY DEF HasLast
<1> USE DEF TypeOK
<1>1. Len(lines) \in Nat /\ Len(lines') \in Nat
  OBVIOUS
<1>2. CASE k <= Len(lines)
  <2>1. \A m \in 1..k : lines'[m] = lines[m]
    BY <1>1, <1>2, FileStep DEF Grows, Shrinks
  <2>2. k \in 0..Len(lines)
    BY <1>1, <1>2
  <2>3. PICK l \in 1..k : /\ lines[l].item = lines[n].item
                          /\ \A m \in 1..k : lines[m].item = lines[n].item => m <= l
    BY <2>2 DEF HasLast
  <2>4. QED
    BY <2>1, <2>3
<1>3. CASE k > Len(lines)
  <2>1. Grows /\ k = Len(lines) + 1
    BY <1>1, <1>3, FileStep DEF Grows, Shrinks
  <2>2. \A m \in 1..Len(lines) : lines'[m] = lines[m]
    BY <2>1 DEF Grows
  <2>3. CASE lines'[n].item = lines'[k].item
    BY <1>1, <2>1, <2>3
  <2>4. CASE lines'[n].item # lines'[k].item
    <3>1. n \in 1..Len(lines)
      BY <1>1, <2>1, <2>4
    <3>2. PICK l \in 1..Len(lines) :
              /\ lines[l].item = lines[n].item
              /\ \A m \in 1..Len(lines) : lines[m].item = lines[n].item => m <= l
      <4>1. Len(lines) \in 0..Len(lines)
        BY <1>1
      <4>2. QED
        BY <3>1, <4>1 DEF HasLast
    <3>3. \A m \in 1..k : lines'[m].item = lines'[n].item => m <= l
      BY <1>1, <2>1, <2>2, <2>4, <3>1, <3>2
    <3>4. lines'[l].item = lines'[n].item
      BY <2>2, <3>1, <3>2
    <3>5. l \in 1..k
      BY <1>1, <2>1, <3>2
    <3>6. QED
      BY <3>3, <3>4, <3>5
  <2>5. QED
    BY <2>3, <2>4
<1>4. QED
  BY <1>1, <1>2, <1>3

-----------------------------------------------------------------------------
(* Steps that leave store and file alone.                                  *)

LEMMA ScoredSame ==
    ASSUME lines' = lines, NEW i \in Items
    PROVE  Scored(i)' = Scored(i)
BY DEF Scored, LinesOf

LEMMA AgreeSame ==
    ASSUME lines' = lines, tail' = tail, store' = store
    PROVE  Agree' = Agree /\ Behind' = Behind
BY ScoredSame DEF Agree, Behind

LEMMA BeginInv ==
    ASSUME TypeOK, TypeOK', Inv, NEW again \in BOOLEAN, Begin(again)
    PROVE  Inv'
<1> USE DEF Inv, Begin
<1>1. Due' /\ Backed'
  BY DEF Due, Backed
<1>2. Skipping'
  BY DEF Skipping, Answered
<1>3. OneByOne'
  BY DEF OneByOne, Writing
<1>4. HasLast'
  BY KeepsLast DEF Next
<1>5. InStep'
  BY ScoredSame DEF InStep, Agree, Behind
<1>6. FreshRunHeals' /\ ResumePreservesAgreement'
  BY DEF FreshRunHeals, ResumePreservesAgreement
<1>7. RunRow'
  BY DEF RunRow, UpsertRun, ContestedIsReported, FinishedIsCurrent
<1>8. QED
  BY <1>1, <1>2, <1>3, <1>4, <1>5, <1>6, <1>7

LEMMA OpenWriterInv ==
    ASSUME TypeOK, TypeOK', Inv, OpenWriter
    PROVE  Inv'
<1> USE DEF Inv, OpenWriter, observed
<1>1. Due' /\ Backed'
  BY DEF Due, Backed
<1>2. Skipping'
  BY DEF Skipping
<1>3. OneByOne'
  BY DEF OneByOne, Writing
<1>4. HasLast'
  BY KeepsLast DEF Next
<1>5. InStep'
  BY ScoredSame DEF InStep
<1>6. FreshRunHeals' /\ ResumePreservesAgreement'
  BY DEF FreshRunHeals, ResumePreservesAgreement
<1>7. RunRow'
  BY DEF RunRow, ContestedIsReported, FinishedIsCurrent
<1>8. QED
  BY <1>1, <1>2, <1>3, <1>4, <1>5, <1>6, <1>7

LEMMA HandshakeContestInv ==
    ASSUME TypeOK, TypeOK', Inv, Handshake \/ Contest
    PROVE  Inv'
<1> USE DEF Inv, Handshake, Contest, harness, observed
<1>1. Due' /\ Backed'
  BY DEF Due, Backed
<1>2. Skipping'
  BY DEF Skipping
<1>3. OneByOne'
  BY DEF OneByOne, Writing
<1>4. HasLast'
  BY DEF HasLast
<1>5. InStep'
  BY ScoredSame DEF InStep
<1>6. FreshRunHeals' /\ ResumePreservesAgreement'
  BY DEF FreshRunHeals, ResumePreservesAgreement
<1>7. RunRow'
  BY DEF RunRow, UpsertRun, ContestedIsReported, FinishedIsCurrent, TypeOK
<1>8. QED
  BY <1>1, <1>2, <1>3, <1>4, <1>5, <1>6, <1>7

LEMMA CrashInv ==
    ASSUME RunStoreAssumption, TypeOK, TypeOK', Inv, Crash
    PROVE  Inv'
<1> USE DEF Inv, Crash, observed
<1>1. Due' /\ Backed'
  BY DEF Due, Backed
<1>2. Skipping'
  BY DEF Skipping
<1>3. OneByOne'
  <2>1. \A n \in DOMAIN lines : lines[n].status # "none"
    <3>1. \A n \in DOMAIN lines : lines[n] \in Rows
      BY DEF TypeOK
    <3>2. "none" \notin Statuses
      BY DEF Statuses, RunStoreAssumption
    <3>3. QED
      BY <3>1, <3>2 DEF Rows
  <2>2. QED
    BY <2>1 DEF OneByOne, Writing
<1>4. HasLast'
  BY DEF HasLast
<1>5. InStep'
  BY ScoredSame DEF InStep
<1>6. FreshRunHeals' /\ ResumePreservesAgreement'
  BY DEF FreshRunHeals, ResumePreservesAgreement
<1>7. RunRow'
  BY DEF RunRow, ContestedIsReported, FinishedIsCurrent
<1>8. QED
  BY <1>1, <1>2, <1>3, <1>4, <1>5, <1>6, <1>7

\* A fresh attempt that completes has one line for each item, its row.
LEMMA OneLineEach ==
    ASSUME TypeOK, OneByOne, ~resume, phase = "asking", todo = {}
    PROVE  Agree
<1> SUFFICES ASSUME NEW i \in Items
             PROVE  Scored(i) = store[i]
  BY DEF Agree, Behind, OneByOne, Writing
<1>1. PICK n \in DOMAIN lines : lines[n].item = i
  BY DEF OneByOne, Writing
<1>2. DOMAIN lines \subseteq Nat
  BY DEF TypeOK
<1>3. n \in LinesOf(i) /\ \A m \in LinesOf(i) : m <= n
  BY <1>1, <1>2 DEF OneByOne, Writing, LinesOf
<1>4. QED
  BY <1>1, <1>3, ScoredLast DEF OneByOne, Writing

LEMMA FinishInv ==
    ASSUME TypeOK, TypeOK', Inv,
           NEW how \in {"completed", "crashed", "aborted"}, Finish(how)
    PROVE  Inv'
<1> USE DEF Inv, Finish
<1>1. Due' /\ Backed'
  BY DEF Due, Backed
<1>2. Skipping' /\ OneByOne' /\ InStep'
  BY DEF Skipping, OneByOne, Writing, InStep
<1>3. HasLast'
  BY DEF HasLast
<1>4. FreshRunHeals'
  BY OneLineEach, AgreeSame DEF FreshRunHeals
<1>5. ResumePreservesAgreement'
  <2>1. resume /\ inStep /\ pending = <<>> => Agree
    BY DEF InStep, Agree, Behind
  <2>2. resume /\ inStep => tail = "clean" /\ \A i, j \in Behind : i = j
    BY DEF InStep, Behind
  <2>3. QED
    BY <2>1, <2>2, AgreeSame DEF ResumePreservesAgreement
<1>6. RunRow'
  BY DEF RunRow, FinishRun, ContestedIsReported, FinishedIsCurrent, TypeOK
<1>7. QED
  BY <1>1, <1>2, <1>3, <1>4, <1>5, <1>6

-----------------------------------------------------------------------------
(* Steps that write.                                                       *)

LEMMA RecordInv ==
    ASSUME TypeOK, TypeOK', Inv,
           NEW i \in Items, NEW status \in Statuses, Record(i, status)
    PROVE  Inv'
<1> USE DEF Inv, Record, observed
<1>1. store' = [store EXCEPT ![i] = status] /\ store' \in [Items -> Statuses \cup {"none"}]
  BY DEF TypeOK
<1>2. \A j \in Items : j # i => store'[j] = store[j]
  BY <1>1 DEF TypeOK
<1>3. store'[i] = status
  BY <1>1 DEF TypeOK
<1>4. pending' # <<>> /\ pending'[1] = [item |-> i, status |-> status]
  OBVIOUS
<1>5. \A n \in DOMAIN lines : lines[n].item \in Items
  <2>1. \A n \in DOMAIN lines : lines[n] \in Rows
    BY DEF TypeOK
  <2>2. QED
    BY <2>1 DEF Rows
<1>6. Due'
  BY <1>3, <1>4 DEF Due
<1>7. Backed'
  <2>1. ~resume \/ store[i] # "ok"
    BY DEF Skipping
  <2>2. CASE ~resume
    BY <1>2, <1>5, <2>2 DEF Backed, OneByOne, Writing
  <2>3. CASE store[i] # "ok"
    BY <1>2, <1>5, <2>3 DEF Backed
  <2>4. QED
    BY <2>1, <2>2, <2>3
<1>8. Skipping'
  BY <1>2, <1>4 DEF Skipping, TypeOK
<1>9. OneByOne'
  BY <1>2, <1>5 DEF OneByOne, Writing
<1>10. HasLast'
  BY DEF HasLast
<1>11. InStep'
  BY <1>2, <1>4, ScoredSame DEF InStep
<1>12. FreshRunHeals' /\ ResumePreservesAgreement'
  BY DEF FreshRunHeals, ResumePreservesAgreement
<1>13. RunRow'
  BY DEF RunRow, ContestedIsReported, FinishedIsCurrent
<1>14. QED
  BY <1>6, <1>7, <1>8, <1>9, <1>10, <1>11, <1>12, <1>13

\* Lines that grow by a row of the store, or shrink, stay backed by the store.
LEMMA BackedStep ==
    ASSUME TypeOK, TypeOK', Due, Backed, store' = store, Grows \/ Shrinks
    PROVE  Backed'
<1>1. DOMAIN lines = 1..Len(lines) /\ DOMAIN lines' = 1..Len(lines')
  BY DEF TypeOK
<1>2. Len(lines) \in Nat /\ Len(lines') \in Nat
  BY DEF TypeOK
<1>3. CASE Shrinks
  BY <1>1, <1>2, <1>3 DEF Shrinks, Backed
<1>4. CASE Grows
  <2>1. PICK r \in Rows :
            /\ pending = <<r>>
            /\ Len(lines') = Len(lines) + 1
            /\ \A n \in 1..Len(lines) : lines'[n] = lines[n]
            /\ lines'[Len(lines) + 1] = r
    BY <1>4 DEF Grows
  <2>2. store[r.item] = r.status
    BY <2>1 DEF Due
  <2>3. QED
    BY <1>1, <1>2, <2>1, <2>2 DEF Backed
<1>5. QED
  BY <1>3, <1>4

\* What one more line does to what is scored.
LEMMA ScoredAppended ==
    ASSUME TypeOK, TypeOK', HasLast, Grows, NEW i \in Items
    PROVE  Scored(i)' = IF pending[1].item = i THEN pending[1].status ELSE Scored(i)
<1>1. DOMAIN lines = 1..Len(lines) /\ DOMAIN lines' = 1..Len(lines')
  BY DEF TypeOK
<1>2. Len(lines) \in Nat
  BY DEF TypeOK
<1>3. PICK r \in Rows :
          /\ pending = <<r>>
          /\ Len(lines') = Len(lines) + 1
          /\ \A n \in 1..Len(lines) : lines'[n] = lines[n]
          /\ lines'[Len(lines) + 1] = r
  BY DEF Grows
<1>4. pending[1] = r
  BY <1>3
<1>5. CASE r.item # i
  <2>1. LinesOf(i)' = LinesOf(i)
    BY <1>1, <1>2, <1>3, <1>5 DEF LinesOf
  <2>2. CASE LinesOf(i) = {}
    BY <1>4, <1>5, <2>1, <2>2 DEF Scored
  <2>3. CASE LinesOf(i) # {}
    <3> DEFINE last == CHOOSE l \in LinesOf(i) : \A m \in LinesOf(i) : m <= l
    <3>1. last \in LinesOf(i)
      BY <2>3, LastExists
    <3>2. lines'[last] = lines[last]
      BY <1>1, <1>3, <3>1 DEF LinesOf
    <3>3. Scored(i)' = lines'[last].status
      BY <2>1, <2>3 DEF Scored
    <3>4. Scored(i) = lines[last].status
      BY <2>3 DEF Scored
    <3>5. QED
      BY <1>4, <1>5, <3>2, <3>3, <3>4
  <2>4. QED
    BY <2>2, <2>3
<1>6. CASE r.item = i
  <2> DEFINE S == LinesOf(i)'
             last == CHOOSE l \in S : \A m \in S : m <= l
  <2>1. Len(lines) + 1 \in S /\ S \subseteq 1..(Len(lines) + 1)
    BY <1>1, <1>2, <1>3, <1>6 DEF LinesOf
  <2>2. last \in S /\ \A m \in S : m <= last
    BY <1>2, <2>1
  <2>3. last = Len(lines) + 1
    BY <1>2, <2>1, <2>2
  <2>4. S # {}
    BY <2>1
  <2>5. Scored(i)' = lines'[last].status
    BY <2>4 DEF Scored
  <2>6. QED
    BY <1>3, <1>4, <1>6, <2>3, <2>5
<1>7. QED
  BY <1>5, <1>6

LEMMA WriteLineInv ==
    ASSUME TypeOK, TypeOK', Inv, WriteLine
    PROVE  Inv'
<1> USE DEF Inv, WriteLine, observed
<1>1. Grows \/ Shrinks
  BY FileStep DEF Next
<1>2. Due' /\ Backed'
  BY <1>1, BackedStep DEF Due
<1>3. Skipping'
  BY DEF Skipping
<1>4. OneByOne'
  <2> SUFFICES ASSUME ~resume, Writing
               PROVE  OneByOne'
    BY DEF OneByOne, Writing, Due
  <2>1. tail = "clean"
    BY DEF OneByOne
  <2>2. Grows
    <3>1. PICK r \in Rows : pending = <<r>>
      BY PendingRow
    <3>2. QED
      BY <2>1, <3>1, Appended DEF Grows
  <2>3. PICK r \in Rows :
            /\ pending = <<r>>
            /\ Len(lines') = Len(lines) + 1
            /\ \A n \in 1..Len(lines) : lines'[n] = lines[n]
            /\ lines'[Len(lines) + 1] = r
    BY <2>2 DEF Grows
  <2>4. /\ DOMAIN lines = 1..Len(lines) /\ DOMAIN lines' = 1..(Len(lines) + 1)
        /\ Len(lines) \in Nat
    BY <2>3 DEF TypeOK
  <2>5. r.item \in todo /\ store[r.item] = r.status /\ todo' = todo \ {r.item}
    BY <2>3 DEF Due
  <2>6. \A n \in DOMAIN lines :
            lines[n].item \notin todo /\ lines[n].status = store[lines[n].item]
    BY DEF OneByOne
  <2>7. \A n \in DOMAIN lines' :
            lines'[n].item \notin todo' /\ lines'[n].status = store[lines'[n].item]
    BY <2>3, <2>4, <2>5, <2>6
  <2>8. \A m, n \in DOMAIN lines' : lines'[m].item = lines'[n].item => m = n
    <3>1. \A m, n \in DOMAIN lines : lines[m].item = lines[n].item => m = n
      BY DEF OneByOne
    <3>2. QED
      BY <2>3, <2>4, <2>5, <2>6, <3>1
  <2>9. phase # "crashed" =>
            \A i \in Items \ todo' : \E n \in DOMAIN lines' : lines'[n].item = i
    <3> SUFFICES ASSUME phase # "crashed", NEW i \in Items \ todo'
                 PROVE  \E n \in DOMAIN lines' : lines'[n].item = i
      OBVIOUS
    <3>1. CASE i = r.item
      BY <2>3, <2>4, <3>1
    <3>2. CASE i # r.item
      <4>1. PICK n \in DOMAIN lines : lines[n].item = i
        BY <2>5, <3>2 DEF OneByOne
      <4>2. n \in DOMAIN lines' /\ lines'[n].item = i
        BY <2>3, <2>4, <4>1
      <4>3. QED
        BY <4>2
    <3>3. QED
      BY <3>1, <3>2
  <2>10. phase # "begun"
    BY DEF Writing
  <2>11. QED
    BY <2>7, <2>8, <2>9, <2>10 DEF OneByOne
<1>5. HasLast'
  BY KeepsLast DEF Next
<1>6. InStep'
  <2> SUFFICES ASSUME resume, inStep, phase # "idle"
               PROVE  \A i \in Items : Scored(i)' = store[i]
    BY DEF InStep
  <2>1. tail = "clean"
    BY DEF InStep
  <2>2. Grows
    <3>1. PICK r \in Rows : pending = <<r>>
      BY PendingRow
    <3>2. QED
      BY <2>1, <3>1, Appended DEF Grows
  <2>3. QED
    BY <2>2, ScoredAppended DEF InStep, Due
<1>7. FreshRunHeals' /\ ResumePreservesAgreement'
  BY DEF FreshRunHeals, ResumePreservesAgreement, Due
<1>8. RunRow'
  BY DEF RunRow, ContestedIsReported, FinishedIsCurrent
<1>9. QED
  BY <1>2, <1>3, <1>4, <1>5, <1>6, <1>7, <1>8

LEMMA KillInv ==
    ASSUME TypeOK, TypeOK', Inv, Kill
    PROVE  Inv'
<1> USE DEF Inv, Kill
<1>1. Grows \/ Shrinks
  BY FileStep DEF Next
<1>2. Due' /\ Backed'
  BY <1>1, BackedStep DEF Due
<1>3. Skipping' /\ OneByOne' /\ InStep'
  BY DEF Skipping, OneByOne, Writing, InStep
<1>4. HasLast'
  BY KeepsLast DEF Next
<1>5. FreshRunHeals' /\ ResumePreservesAgreement'
  BY DEF FreshRunHeals, ResumePreservesAgreement
<1>6. RunRow'
  BY DEF RunRow, ContestedIsReported, FinishedIsCurrent
<1>7. QED
  BY <1>2, <1>3, <1>4, <1>5, <1>6

LEMMA StutterInv ==
    ASSUME Inv, UNCHANGED vars
    PROVE  Inv'
<1> USE DEF Inv, vars, harness, observed
<1>1. Due' /\ Backed' /\ Skipping' /\ OneByOne' /\ HasLast'
  BY DEF Due, Backed, Skipping, OneByOne, Writing, HasLast
<1>2. InStep'
  BY ScoredSame DEF InStep
<1>3. FreshRunHeals' /\ ResumePreservesAgreement'
  BY AgreeSame DEF FreshRunHeals, ResumePreservesAgreement
<1>4. RunRow'
  BY DEF RunRow, ContestedIsReported, FinishedIsCurrent
<1>5. QED
  BY <1>1, <1>2, <1>3, <1>4

LEMMA NextInv ==
    ASSUME RunStoreAssumption, TypeOK, TypeOK', Inv, [Next]_vars
    PROVE  Inv'
BY BeginInv, OpenWriterInv, HandshakeContestInv, RecordInv, WriteLineInv,
   CrashInv, FinishInv, KillInv, StutterInv
DEF Next, Over

LEMMA InitInv ==
    ASSUME Init
    PROVE  Inv
<1> USE DEF Init
<1>1. Due /\ Backed /\ Skipping /\ OneByOne /\ InStep
  BY DEF Due, Backed, Skipping, OneByOne, Writing, InStep
<1>2. HasLast
  BY DEF HasLast
<1>3. FreshRunHeals /\ ResumePreservesAgreement
  BY DEF FreshRunHeals, ResumePreservesAgreement
<1>4. RunRow
  BY DEF RunRow, ContestedIsReported, FinishedIsCurrent
<1>5. QED
  BY <1>1, <1>2, <1>3, <1>4 DEF Inv

LEMMA Invariant == Spec => [](TypeOK /\ Inv)
<1>1. Init => TypeOK /\ Inv
  BY InitType, InitInv, RunStoreAssumption
<1>2. TypeOK /\ Inv /\ [Next]_vars => (TypeOK /\ Inv)'
  BY NextType, NextInv, RunStoreAssumption
<1>3. QED
  BY <1>1, <1>2, PTL DEF Spec

-----------------------------------------------------------------------------
(* What follows.                                                           *)

\* Nothing is scored as answered that a resumed attempt would ask again.
THEOREM StoreComesFirst == Spec => []FileNeverAhead
<1>1. TypeOK /\ Inv => FileNeverAhead
  <2> SUFFICES ASSUME TypeOK, Inv, NEW i \in Items, Scored(i) = "ok"
               PROVE  store[i] = "ok"
    BY DEF FileNeverAhead
  <2>1. CASE LinesOf(i) = {}
    BY <2>1 DEF Scored
  <2>2. CASE LinesOf(i) # {}
    <3>1. PICK n \in LinesOf(i) : Scored(i) = lines[n].status
      BY <2>2, LastExists DEF Inv
    <3>2. QED
      BY <3>1 DEF Inv, Backed, LinesOf
  <2>3. QED
    BY <2>1, <2>2
<1>2. QED
  BY <1>1, Invariant, PTL

\* A fresh attempt writes each item once, whatever was there before it.
THEOREM NothingCountsTwice == Spec => []NoDoubleCounting
<1>1. Inv => NoDoubleCounting
  BY DEF Inv, OneByOne, Writing, NoDoubleCounting, LinesOf
<1>2. QED
  BY <1>1, Invariant, PTL

\* A fresh attempt that completes leaves store and file in agreement.
THEOREM FreshHeals == Spec => []FreshRunHeals
<1>1. Inv => FreshRunHeals
  BY DEF Inv
<1>2. QED
  BY <1>1, Invariant, PTL

\* A resumed attempt that completes or crashes keeps the agreement it began with,
\* and an interrupted one is short of one line at most.
THEOREM ResumeAgrees == Spec => []ResumePreservesAgreement
<1>1. Inv => ResumePreservesAgreement
  BY DEF Inv
<1>2. QED
  BY <1>1, Invariant, PTL

\* An attempt that found a revocation contested finishes with the flag set.
THEOREM ContestReported == Spec => []ContestedIsReported
<1>1. Inv => ContestedIsReported
  BY DEF Inv, RunRow
<1>2. QED
  BY <1>1, Invariant, PTL

\* Only a run whose latest attempt came to its end looks finished.
THEOREM FinishIsCurrent == Spec => []FinishedIsCurrent
<1>1. Inv => FinishedIsCurrent
  BY DEF Inv, RunRow
<1>2. QED
  BY <1>1, Invariant, PTL

\* No step of a resumed attempt replaces an answer.
THEOREM AnswersSurvive == Spec => AnswersSurviveResume
<1> DEFINE Survive == \A i \in Items : resume' /\ store[i] = "ok" => store'[i] = "ok"
<1>1. TypeOK /\ Inv /\ [Next]_vars => [Survive]_vars
  <2> SUFFICES ASSUME TypeOK, Inv, Next
               PROVE  Survive
    OBVIOUS
  <2>1. ASSUME NEW i \in Items, NEW status \in Statuses, Record(i, status)
        PROVE  Survive
    <3>1. resume' => store[i] # "ok"
      BY <2>1 DEF Record, Inv, Skipping
    <3>2. \A j \in Items : j # i => store'[j] = store[j]
      BY <2>1 DEF Record, TypeOK
    <3>3. QED
      BY <3>1, <3>2
  <2>2. CASE store' = store
    BY <2>2
  <2>3. QED
    BY <2>1, <2>2
    DEF Next, Begin, OpenWriter, Handshake, Contest, WriteLine, Crash, Finish,
        Kill, Over, vars
<1>2. QED
  BY <1>1, Invariant, PTL DEF AnswersSurviveResume, Spec
=============================================================================
