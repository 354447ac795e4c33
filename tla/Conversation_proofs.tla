------------------------ MODULE Conversation_proofs ------------------------
(***************************************************************************)
(* Theorems about Conversation, for every suite, every adapter and every   *)
(* value of Mode, Faults and Expires: types, rows and the abstract         *)
(* specification first; then what the two pipes hold, why no answer is     *)
(* credited to another question or given from another memory, and why a    *)
(* late answer shifts no other.                                            *)
(***************************************************************************)
EXTENDS Conversation, SequenceTheorems, TLAPS

-----------------------------------------------------------------------------
(* The adapter's replies and memory. *)

\* A handler that returns normally writes at most one line.
LEMMA RepliesType ==
    ASSUME NEW r \in Requests, adapter \in Memories
    PROVE  Replies(r) = <<>> \/ \E m \in Messages : Replies(r) = <<m>>
<1>1. CASE r.type = "hello"
  BY <1>1 DEF Replies, Reply, Requests, Messages, MessageTypes, Ids
<1>2. CASE r.type = "ingest"
  BY <1>2 DEF Replies, Reply, Requests, Messages, MessageTypes, Ids
<1>3. CASE r.type = "ingest_end"
  BY <1>3 DEF Replies, Reply, Requests, Messages, MessageTypes, Ids
<1>4. CASE r.type = "query"
  BY <1>4 DEF Replies, AnswerFrom, Requests, Messages, Answers, Ids
<1>5. CASE r.type \in {"env_begin", "env_end"}
  BY <1>5 DEF Replies
<1>6. QED
  BY <1>1, <1>2, <1>3, <1>4, <1>5 DEF Requests

LEMMA RememberType ==
    ASSUME ConversationAssumption, NEW r \in Requests, adapter \in Memories
    PROVE  Remember(r) \in Memories
<1>1. CASE r.type = "env_begin"
  BY <1>1 DEF Remember, NoMemory, Memories, Requests
<1>2. CASE r.type = "ingest"
  BY <1>2 DEF Remember, Memories, Requests
<1>3. CASE r.type = "ingest_end"
  BY <1>3 DEF Remember, Memories, Requests
<1>4. CASE r.type \in {"hello", "query", "env_end"}
  BY <1>4 DEF Remember
<1>5. QED
  BY <1>1, <1>2, <1>3, <1>4 DEF Requests

\* Requests and replies as SMT sees the operators on sequences.
LEMMA Appended ==
    ASSUME NEW S, NEW s \in Seq(S), NEW x \in S
    PROVE  /\ Append(s, x) \in Seq(S)
           /\ s \o <<x>> = Append(s, x)
           /\ s \o <<>> = s
<1>1. s \o <<>> = s
  BY ConcatEmptySeq
<1>2. s \o <<x>> = Append(s, x)
  OBVIOUS
<1>3. QED
  BY <1>1, <1>2

-----------------------------------------------------------------------------
(* Type correctness. The type of the wire needs two facts about control:   *)
(* an environment is being run, an item is being asked.                    *)

InEnv == {"ingest", "ingesting", "seal", "sealing", "ask", "asking"}

Control ==
    /\ pc \in InEnv => env \in Envs
    /\ pc = "ingesting" => cur \in Sessions
    /\ pc = "asking" => cur \in Items

TypeInv == TypeOK /\ Control

LEMMA InitType == ConversationAssumption /\ Init => TypeInv
BY DEF Init, TypeInv, TypeOK, Control, Sending, Waiting, InEnv, Statuses,
       Memories, NoMemory

\* What the harness reads is a message, and what is left is a pipe.
LEMMA ReadType ==
    ASSUME TypeOK, Read
    PROVE  msg \in Messages /\ toHarness' \in Seq(Messages)
BY HeadTailProperties DEF TypeOK, Read, msg

LEMMA SendType ==
    ASSUME TypeOK, NEW type, NEW id, Send(type, id), Request(type, id) \in Requests
    PROVE  toAdapter' \in Seq(Requests)
BY Appended DEF TypeOK, Send

LEMMA TakesType ==
    ASSUME TypeOK, Takes
    PROVE  request \in Requests /\ Tail(toAdapter) \in Seq(Requests)
BY HeadTailProperties DEF TypeOK, Takes, request

LEMMA HarnessSendsType ==
    ASSUME ConversationAssumption, TypeInv, HarnessSends
    PROVE  TypeInv'
<1> USE DEF TypeInv, TypeOK, Control, Sending, Waiting, InEnv
<1>1. CASE SendFails
  BY <1>1 DEF SendFails, Unwind, process
<1>2. CASE Hello
  <2>1. toAdapter' \in Seq(Requests)
    BY <1>2, SendType DEF Hello, Request, Requests
  <2>2. QED
    BY <1>2, <2>1 DEF Hello, process
<1>3. CASE IngestEnd
  <2>1. toAdapter' \in Seq(Requests)
    BY <1>3, SendType DEF IngestEnd, Request, Requests
  <2>2. QED
    BY <1>3, <2>1 DEF IngestEnd, process
<1>4. CASE EnvEnd
  <2>1. toAdapter' \in Seq(Requests)
    BY <1>4, SendType DEF EnvEnd, Request, Requests
  <2>2. QED
    BY <1>4, <2>1 DEF EnvEnd, process
<1>5. CASE Finish
  BY <1>5 DEF Finish, Unwind, process
<1>6. CASE StagingFails
  BY <1>6 DEF StagingFails, Unwind, process
<1>7. ASSUME NEW e \in Envs, EnvBegin(e)
      PROVE  TypeInv'
  <2>1. toAdapter' \in Seq(Requests)
    BY <1>7, SendType DEF EnvBegin, Request, Requests
  <2>2. SessionsOf[e] \subseteq Sessions
    BY ConversationAssumption DEF ConversationAssumption
  <2>3. QED
    BY <1>7, <2>1, <2>2 DEF EnvBegin, process, Pending
<1>8. ASSUME NEW s \in Sessions, Ingest(s)
      PROVE  TypeInv'
  <2>1. toAdapter' \in Seq(Requests)
    BY <1>8, SendType DEF Ingest, Request, Requests
  <2>2. QED
    BY <1>8, <2>1 DEF Ingest, process
<1>9. ASSUME NEW i \in Items, Query(i)
      PROVE  TypeInv'
  <2>1. toAdapter' \in Seq(Requests)
    BY <1>9, SendType DEF Query, Request, Requests
  <2>2. QED
    BY <1>9, <2>1 DEF Query, process
<1>10. QED
  BY <1>1, <1>2, <1>3, <1>4, <1>5, <1>6, <1>7, <1>8, <1>9 DEF HarnessSends

LEMMA HarnessReceivesType ==
    ASSUME ConversationAssumption, TypeInv, HarnessReceives
    PROVE  TypeInv'
<1> USE DEF TypeInv, TypeOK, Control, Sending, Waiting, InEnv
<1>1. CASE SkipNoise
  BY <1>1, ReadType DEF SkipNoise, driver, process
<1>2. CASE FatalError
  BY <1>2, ReadType DEF FatalError, Unwind, process
<1>3. CASE GarbledError
  BY <1>3, ReadType DEF GarbledError, Unwind, process
<1>4. CASE StreamClosed
  BY <1>4 DEF StreamClosed, Unwind, process
<1>5. CASE Ready
  BY <1>5, ReadType DEF Ready, process
<1>6. CASE IngestDone
  BY <1>6, ReadType DEF IngestDone, process
<1>7. CASE IngestFails
  BY <1>7, ReadType DEF IngestFails, FailEnv, Statuses, process
<1>8. CASE IngestEndAck
  BY <1>8, ReadType DEF IngestEndAck, process
<1>9. CASE NotAcknowledged
  BY <1>9, ReadType DEF NotAcknowledged, Unwind, process
<1>10. CASE Answer
  <2>1. msg \in Answers
    BY <1>10, ReadType DEF Answer, Messages, Answers
  <2>2. QED
    BY <1>10, <2>1, ReadType DEF Answer, Record, Statuses, process
<1>11. CASE LateAnswer
  BY <1>11, ReadType DEF LateAnswer, driver, process
<1>12. CASE Malformed
  BY <1>12, ReadType DEF Malformed, Record, Statuses, process
<1>13. CASE QueryTimeout
  BY <1>13 DEF QueryTimeout, Silence, Record, Statuses, process
<1>14. CASE IngestTimeout
  BY <1>14 DEF IngestTimeout, Silence, FailEnv, Statuses, process
<1>15. CASE CallTimeout
  BY <1>15 DEF CallTimeout, Silence, Unwind, process
<1>16. QED
  BY <1>1, <1>2, <1>3, <1>4, <1>5, <1>6, <1>7, <1>8, <1>9, <1>10, <1>11,
     <1>12, <1>13, <1>14, <1>15 DEF HarnessReceives

LEMMA AdapterType ==
    ASSUME ConversationAssumption, TypeInv, Adapter
    PROVE  TypeInv'
<1> USE DEF TypeInv, TypeOK, Control
<1>1. CASE Handle
  <2>1. toAdapter' \in Seq(Requests)
    BY <1>1, TakesType DEF Handle
  <2>2. toHarness' \in Seq(Messages)
    <3>1. toHarness' = toHarness \o Replies(request)
      BY <1>1 DEF Handle
    <3>2. CASE Replies(request) = <<>>
      BY <3>1, <3>2, Appended
    <3>3. CASE \E m \in Messages : Replies(request) = <<m>>
      <4>1. PICK m \in Messages : Replies(request) = <<m>>
        BY <3>3
      <4>2. QED
        BY <3>1, <4>1, Appended
    <3>4. QED
      BY <1>1, <3>2, <3>3, TakesType, RepliesType DEF Handle
  <2>3. adapter' \in Memories
    BY <1>1, TakesType, RememberType DEF Handle
  <2>4. QED
    BY <1>1, <2>1, <2>2, <2>3 DEF Handle, driver
<1>2. CASE HandlerFails
  <2>1. request \in Requests /\ Tail(toAdapter) \in Seq(Requests)
    BY <1>2, TakesType DEF HandlerFails
  <2>2. toAdapter' \in Seq(Requests)
    BY <1>2, <2>1 DEF HandlerFails
  <2>3. \A type \in {"error", "fatal", "bad_answer", "bad_error"} :
           Reply(type, request.id) \in Messages
    BY <2>1 DEF Reply, Requests, Messages, MessageTypes, Ids
  <2>4. PICK type \in {"error", "fatal", "bad_answer", "bad_error"} :
           toHarness' = Append(toHarness, Reply(type, request.id))
    BY <1>2 DEF HandlerFails
  <2>5. alive' \in BOOLEAN
    BY <1>2 DEF HandlerFails
  <2>6. toHarness' \in Seq(Messages)
    BY <2>3, <2>4, Appended
  <2>7. QED
    BY <1>2, <2>2, <2>5, <2>6 DEF HandlerFails, driver
<1>3. CASE Chatter
  <2>1. toHarness' \in Seq(Messages)
    BY <1>3 DEF Chatter, Reply, Messages, MessageTypes, Ids
  <2>2. QED
    BY <1>3, <2>1 DEF Chatter, driver, process
<1>4. CASE Exit
  BY <1>4, EmptySeq DEF Exit, driver
<1>5. QED
  BY <1>1, <1>2, <1>3, <1>4 DEF Adapter

LEMMA NextType ==
    ASSUME ConversationAssumption, TypeInv, [Next]_vars
    PROVE  TypeInv'
<1>1. CASE Close
  <2>1. rows' \in [Items -> Statuses]
    BY <1>1 DEF Close, TypeInv, TypeOK, Statuses
  <2>2. toAdapter' \in Seq(Requests) /\ toHarness' \in Seq(Messages)
    BY <1>1, EmptySeq DEF Close
  <2>3. QED
    BY <1>1, <2>1, <2>2 DEF Close, TypeInv, TypeOK, Control, InEnv
<1>2. CASE UNCHANGED vars
  BY <1>2 DEF vars, driver, process, TypeInv, TypeOK, Control
<1>3. QED
  BY <1>1, <1>2, HarnessSendsType, HarnessReceivesType, AdapterType
     DEF Next, Harness, Over

\* Every variable keeps its type in every behaviour of the harness and the
\* adapter.
THEOREM TypeCorrect == Spec => []TypeOK
<1>1. Init => TypeInv
  BY InitType, ConversationAssumption
<1>2. TypeInv /\ [Next]_vars => TypeInv'
  BY NextType, ConversationAssumption
<1>3. TypeInv => TypeOK
  BY DEF TypeInv
<1>4. QED
  BY <1>1, <1>2, <1>3, PTL DEF Spec

-----------------------------------------------------------------------------
(* Rows. Which items have no row yet is decided by where the run is: those *)
(* of the environments still to run, and in the current one exactly the    *)
(* items still to ask. This is what makes a row final and no item dropped. *)

Running == pc \notin {"closing", "over"}

RowsInv ==
    /\ Resumed::  \A i \in done : rows[i] = "ok"
    /\ Asking::   pc \in InEnv =>
                     /\ env \in envsLeft
                     /\ todo = {i \in Items : EnvOf[i] = env /\ rows[i] \in Open}
    /\ Current::  pc = "asking" => cur \in todo
    /\ Untouched:: Running =>
                     \A i \in Items :
                        EnvOf[i] \in envsLeft /\ ~(pc \in InEnv /\ EnvOf[i] = env)
                            => (rows[i] \in Open <=> i \notin done)
    /\ Left::     \A i \in Items : rows[i] \in Open => EnvOf[i] \in envsLeft
    /\ Useful::   /\ \A e \in envsLeft : Pending(e) # {}
                  /\ pc \in InEnv \ {"ask", "asking"} => todo # {}
    /\ Ending::   /\ Running <=> outcome = "running"
                  /\ outcome = "completed" => envsLeft = {}
                  /\ pc = "over" /\ outcome = "crashed" =>
                        \A i \in Items : rows[i] # "none"

LEMMA InitRows == ConversationAssumption /\ Init => RowsInv
BY DEF ConversationAssumption, Init, RowsInv, Running, InEnv, Pending, Open

\* Steps that touch neither the rows nor what they depend on.
LEMMA RowsUnchanged ==
    ASSUME RowsInv,
           UNCHANGED <<pc, outcome, done, envsLeft, env, todo, cur, rows>>
    PROVE  RowsInv'
BY DEF RowsInv, Running, Pending

\* Leaving the with-blocks early.
LEMMA UnwindRows ==
    ASSUME TypeInv, RowsInv, Running, UNCHANGED <<done, rows>>,
           NEW how \in {"completed", "crashed", "aborted"}, Unwind(how),
           how = "completed" => envsLeft = {}
    PROVE  RowsInv'
BY DEF RowsInv, Running, Pending, Unwind, InEnv

LEMMA FailEnvRows ==
    ASSUME ConversationAssumption, TypeInv, RowsInv,
           pc = "ingesting", FailEnv, UNCHANGED done
    PROVE  RowsInv'
BY DEF ConversationAssumption, TypeInv, TypeOK, RowsInv, Running, Pending,
       FailEnv, InEnv, Open

LEMMA RecordRows ==
    ASSUME ConversationAssumption, TypeInv, RowsInv,
           NEW status \in Statuses \ Open,
           pc = "asking", Record(status), UNCHANGED done
    PROVE  RowsInv'
BY DEF ConversationAssumption, TypeInv, TypeOK, RowsInv, Running, Pending,
       Record, InEnv, Open

LEMMA NextRows ==
    ASSUME ConversationAssumption, TypeInv, RowsInv, [Next]_vars
    PROVE  RowsInv'
<1> USE DEF driver, process
<1>1. CASE HarnessSends
  <2>1. CASE SendFails
    BY <2>1, UnwindRows DEF SendFails, Sending, Running
  <2>2. CASE Hello
    BY <2>2 DEF Hello, RowsInv, Running, Pending, InEnv
  <2>3. CASE IngestEnd
    BY <2>3 DEF IngestEnd, RowsInv, Running, Pending, InEnv
  <2>4. CASE EnvEnd
    BY <2>4, ConversationAssumption
       DEF EnvEnd, RowsInv, Running, Pending, InEnv, ConversationAssumption
  <2>5. CASE Finish
    BY <2>5, UnwindRows DEF Finish, Running
  <2>6. CASE StagingFails
    BY <2>6, UnwindRows DEF StagingFails, Running
  <2>7. ASSUME NEW e \in Envs, EnvBegin(e)
        PROVE  RowsInv'
    <3>1. todo' = {i \in Items : EnvOf[i] = e /\ rows[i] \in Open}
      BY <2>7 DEF EnvBegin, RowsInv, Running, Pending, InEnv
    <3>2. todo' # {}
      BY <2>7 DEF EnvBegin, RowsInv
    <3>3. QED
      BY <2>7, <3>1, <3>2 DEF EnvBegin, RowsInv, Running, Pending, InEnv
  <2>8. ASSUME NEW s \in Sessions, Ingest(s)
        PROVE  RowsInv'
    BY <2>8 DEF Ingest, RowsInv, Running, Pending, InEnv
  <2>9. ASSUME NEW i \in Items, Query(i)
        PROVE  RowsInv'
    BY <2>9 DEF Query, RowsInv, Running, Pending, InEnv
  <2>10. QED
    BY <1>1, <2>1, <2>2, <2>3, <2>4, <2>5, <2>6, <2>7, <2>8, <2>9
       DEF HarnessSends
<1>2. CASE HarnessReceives
  <2>1. CASE SkipNoise \/ LateAnswer
    BY <2>1, RowsUnchanged DEF SkipNoise, LateAnswer
  <2>2. CASE FatalError \/ GarbledError \/ StreamClosed
    BY <2>2, UnwindRows DEF FatalError, GarbledError, StreamClosed, Waiting, Running
  <2>3. CASE NotAcknowledged
    BY <2>3, UnwindRows DEF NotAcknowledged, Running
  <2>4. CASE CallTimeout
    BY <2>4, UnwindRows DEF CallTimeout, Silence, Running
  <2>5. CASE Ready
    BY <2>5 DEF Ready, RowsInv, Running, Pending, InEnv
  <2>6. CASE IngestDone
    BY <2>6 DEF IngestDone, RowsInv, Running, Pending, InEnv
  <2>7. CASE IngestEndAck
    BY <2>7 DEF IngestEndAck, RowsInv, Running, Pending, InEnv
  <2>8. CASE IngestFails \/ IngestTimeout
    BY <2>8, FailEnvRows, ConversationAssumption
       DEF IngestFails, IngestTimeout, Silence
  <2>9. CASE Answer \/ Malformed \/ QueryTimeout
    BY <2>9, RecordRows, ConversationAssumption
       DEF Answer, Malformed, QueryTimeout, Silence, Statuses, Open
  <2>10. QED
    BY <1>2, <2>1, <2>2, <2>3, <2>4, <2>5, <2>6, <2>7, <2>8, <2>9
       DEF HarnessReceives
<1>3. CASE Close
  BY <1>3 DEF Close, TypeInv, TypeOK, RowsInv, Running, Pending, InEnv, Open
<1>4. CASE Adapter
  BY <1>4, RowsUnchanged DEF Adapter, Handle, HandlerFails, Chatter, Exit
<1>5. CASE UNCHANGED vars
  BY <1>5, RowsUnchanged DEF vars
<1>6. QED
  BY <1>1, <1>2, <1>3, <1>4, <1>5 DEF Next, Harness, Over

LEMMA RowsInvariant == Spec => [](TypeInv /\ RowsInv)
<1>1. Init => TypeInv /\ RowsInv
  BY InitType, InitRows, ConversationAssumption
<1>2. TypeInv /\ RowsInv /\ [Next]_vars => (TypeInv /\ RowsInv)'
  BY NextType, NextRows, ConversationAssumption
<1>3. QED
  BY <1>1, <1>2, PTL DEF Spec

\* A run that completes leaves no item undecided, one that crashes none without a row.
THEOREM NoItemIsDropped == Spec => []NoItemDropped
<1>1. RowsInv => NoItemDropped
  BY ConversationAssumption DEF ConversationAssumption, RowsInv, NoItemDropped
<1>2. QED
  BY <1>1, RowsInvariant, PTL

\* No step rewrites a row.
THEOREM RowsStayFinal == Spec => RowsAreFinal
<1> DEFINE Final == \A i \in Items : rows[i] \notin Open => rows'[i] = rows[i]
<1>1. TypeInv /\ RowsInv /\ [Next]_vars => [Final]_vars
  <2> SUFFICES ASSUME TypeInv, RowsInv, Next
               PROVE  Final
    OBVIOUS
  <2>1. CASE IngestFails \/ IngestTimeout
    BY <2>1 DEF IngestFails, IngestTimeout, Silence, FailEnv, RowsInv, InEnv,
                TypeInv, TypeOK
  <2>2. CASE Answer \/ Malformed \/ QueryTimeout
    BY <2>2 DEF Answer, Malformed, QueryTimeout, Silence, Record, RowsInv, InEnv,
                TypeInv, TypeOK
  <2>3. CASE Close
    BY <2>3 DEF Close, TypeInv, TypeOK, Open
  <2>4. CASE HarnessSends
    BY <2>4 DEF HarnessSends, SendFails, Hello, IngestEnd, EnvEnd, Finish,
                StagingFails, EnvBegin, Ingest, Query
  <2>5. CASE Adapter
    BY <2>5 DEF Adapter, Handle, HandlerFails, Chatter, Exit
  <2>6. CASE SkipNoise \/ FatalError \/ GarbledError \/ StreamClosed \/ Ready
             \/ IngestDone \/ IngestEndAck \/ NotAcknowledged \/ LateAnswer
             \/ CallTimeout
    BY <2>6 DEF SkipNoise, FatalError, GarbledError, StreamClosed, Ready,
                IngestDone, IngestEndAck, NotAcknowledged, LateAnswer, CallTimeout
  <2>7. QED
    BY <2>1, <2>2, <2>3, <2>4, <2>5, <2>6
       DEF Next, Harness, HarnessReceives, Over, vars
<1>2. QED
  BY <1>1, RowsInvariant, PTL DEF Spec, RowsAreFinal

-----------------------------------------------------------------------------
(* Refinement. Seen through its rows an attempt is RunOutcome: most steps  *)
(* stutter, and the others do what RunOutcome allows there and then.       *)

LEMMA PromiseInit == Init => Promise!Init
BY DEF Init, Promise!Init, Open

\* The rows do not change, the attempt does not end and no question phase
\* begins or ends.
LEMMA PromiseStutter ==
    ASSUME UNCHANGED <<rows, outcome>>,
           pc \in {"ask", "asking"} <=> pc' \in {"ask", "asking"},
           pc \in {"ask", "asking"} => env' = env
    PROVE  UNCHANGED Promise!vars
BY DEF Promise!vars

\* The items an environment has still to ask are its undecided ones.
LEMMA UndecidedAreToDo ==
    ASSUME RowsInv, pc \in InEnv
    PROVE  Promise!UndecidedIn(env) = todo
BY DEF RowsInv, Promise!UndecidedIn, Promise!Undecided, Open

LEMMA PromiseEnd ==
    ASSUME TypeInv, RowsInv, Running, UNCHANGED rows,
           NEW how \in {"completed", "crashed", "aborted"}, Unwind(how),
           how = "completed" => pc = "env" /\ envsLeft = {}
    PROVE  Promise!End(how)
<1>1. how = "completed" => Promise!Undecided = {}
  BY DEF RowsInv, Promise!Undecided, Open
<1>2. outcome = "running" /\ outcome' = how /\ pc' = "closing"
  BY DEF RowsInv, Unwind
<1>3. QED
  BY <1>1, <1>2 DEF Promise!End

LEMMA PromiseOpen ==
    ASSUME ConversationAssumption, TypeInv, RowsInv, IngestEndAck
    PROVE  Promise!Open(env)
<1>1. Promise!UndecidedIn(env) # {}
  BY UndecidedAreToDo DEF IngestEndAck, RowsInv, InEnv
<1>2. outcome = "running"
  BY DEF IngestEndAck, RowsInv, Running
<1>3. QED
  BY <1>1, <1>2 DEF IngestEndAck, Promise!Open

LEMMA PromiseDecide ==
    ASSUME ConversationAssumption, TypeInv, RowsInv, pc = "asking",
           NEW status, Record(status)
    PROVE  cur \in Items /\ Promise!Decide(cur, status)
<1>1. cur \in Items /\ EnvOf[cur] = env /\ rows[cur] \in Open
  BY DEF RowsInv, InEnv, TypeInv, Control
<1>2. outcome = "running"
  BY DEF RowsInv, Running
<1>3. QED
  BY <1>1, <1>2 DEF Record, Promise!Decide, Promise!Undecided, Open

LEMMA PromiseLeave ==
    ASSUME ConversationAssumption, TypeInv, RowsInv, EnvEnd
    PROVE  Promise!Leave
<1>1. Promise!UndecidedIn(env) = {}
  BY UndecidedAreToDo DEF EnvEnd, InEnv
<1>2. outcome = "running" /\ env # None
  BY DEF EnvEnd, RowsInv, Running, TypeInv, Control, InEnv, ConversationAssumption
<1>3. QED
  BY <1>1, <1>2 DEF EnvEnd, Promise!Leave

LEMMA PromiseFailEnv ==
    ASSUME ConversationAssumption, TypeInv, RowsInv, pc = "ingesting", FailEnv
    PROVE  env \in Envs /\ Promise!FailEnv(env)
<1>1. Promise!UndecidedIn(env) = todo /\ todo # {}
  BY UndecidedAreToDo DEF RowsInv, InEnv
<1>2. outcome = "running" /\ env \in Envs
  BY DEF RowsInv, Running, TypeInv, Control, InEnv
<1>3. QED
  BY <1>1, <1>2 DEF FailEnv, Promise!FailEnv, Promise!GiveUp

LEMMA PromiseClose ==
    ASSUME TypeInv, RowsInv, Close
    PROVE  [Promise!Next]_(Promise!vars)
<1>1. CASE outcome = "crashed"
  <2>1. rows' = [i \in Items |-> IF i \in {j \in Items : rows[j] = "none"}
                                THEN "error" ELSE rows[i]]
    BY <1>1 DEF Close
  <2>2. Promise!RecordRest
    BY <1>1, <2>1 DEF Close, Promise!RecordRest, Promise!GiveUp
  <2>3. QED
    BY <2>2 DEF Promise!Next
<1>2. CASE outcome # "crashed"
  BY <1>2, PromiseStutter DEF Close
<1>3. QED
  BY <1>1, <1>2

LEMMA PromiseStep ==
    ASSUME ConversationAssumption, TypeInv, RowsInv, [Next]_vars
    PROVE  [Promise!Next]_(Promise!vars)
<1> USE DEF driver, process
<1>1. CASE SendFails \/ StagingFails \/ FatalError \/ GarbledError \/ StreamClosed
           \/ NotAcknowledged \/ CallTimeout \/ Finish
  <2>1. PICK how \in {"completed", "crashed", "aborted"} : Unwind(how)
    BY <1>1 DEF SendFails, StagingFails, FatalError, GarbledError, StreamClosed,
                NotAcknowledged, CallTimeout, Finish
  <2>2. Running /\ UNCHANGED rows
    BY <1>1 DEF SendFails, StagingFails, FatalError, GarbledError, StreamClosed,
                NotAcknowledged, CallTimeout, Finish, Silence, Sending, Waiting,
                Running
  <2>3. how = "completed" => pc = "env" /\ envsLeft = {}
    BY <1>1, <2>1 DEF SendFails, StagingFails, FatalError, GarbledError,
                StreamClosed, NotAcknowledged, CallTimeout, Finish, Unwind
  <2>4. Promise!End(how)
    BY <2>1, <2>2, <2>3, PromiseEnd
  <2>5. QED
    BY <2>4 DEF Promise!Next
<1>2. CASE IngestEndAck
  BY <1>2, PromiseOpen
     DEF Promise!Next, IngestEndAck, TypeInv, Control, InEnv
<1>3. CASE Answer \/ Malformed \/ QueryTimeout
  <2>1. PICK status \in {"ok", "timeout", "malformed"} : Record(status)
    BY <1>3 DEF Answer, Malformed, QueryTimeout
  <2>2. cur \in Items /\ Promise!Decide(cur, status)
    BY <1>3, <2>1, PromiseDecide DEF Answer, Malformed, QueryTimeout, Silence
  <2>3. QED
    BY <2>1, <2>2 DEF Promise!Next
<1>4. CASE EnvEnd
  BY <1>4, PromiseLeave DEF Promise!Next
<1>5. CASE IngestFails \/ IngestTimeout
  BY <1>5, PromiseFailEnv DEF IngestFails, IngestTimeout, Silence, Promise!Next
<1>6. CASE Close
  BY <1>6, PromiseClose
<1>7. CASE Hello \/ IngestEnd \/ (\E e \in Envs : EnvBegin(e))
           \/ (\E s \in Sessions : Ingest(s)) \/ (\E i \in Items : Query(i))
  BY <1>7, PromiseStutter DEF Hello, IngestEnd, EnvBegin, Ingest, Query
<1>8. CASE SkipNoise \/ Ready \/ IngestDone \/ LateAnswer
  BY <1>8, PromiseStutter DEF SkipNoise, Ready, IngestDone, LateAnswer
<1>9. CASE Adapter \/ UNCHANGED vars
  BY <1>9, PromiseStutter DEF Adapter, Handle, HandlerFails, Chatter, Exit, vars
<1>10. QED
  BY <1>1, <1>2, <1>3, <1>4, <1>5, <1>6, <1>7, <1>8, <1>9
     DEF Next, Harness, HarnessSends, HarnessReceives, Over

\* Every attempt keeps the promise of RunOutcome: no environment is asked before
\* it is ingested, none is left undecided, and one fails whole or not at all.
THEOREM PromiseIsKept == Spec => KeepsPromise
<1>1. Init => Promise!Init
  BY PromiseInit
<1>2. TypeInv /\ RowsInv /\ [Next]_vars => [Promise!Next]_(Promise!vars)
  BY PromiseStep, ConversationAssumption
<1>3. QED
  BY <1>1, <1>2, RowsInvariant, PTL DEF Spec, Promise!Spec, KeepsPromise

-----------------------------------------------------------------------------
(* What the pipes hold: the inductive invariant of attribution.            *)

\* Messages that end the ingestion of an environment wherever they are read.
Bad(m) == m.type \in {"error", "fatal", "bad_answer", "bad_error"}

Early == {"ingest", "ingesting", "seal", "sealing"}

\* The sessions of the current environment handed over so far.
Sent == (SessionsOf[env] \ toIngest) \cup (IF pc = "ingesting" THEN {cur} ELSE {})

Sessional ==
    /\ pc \in {"ingest", "ingesting"} => toIngest \subseteq SessionsOf[env]
    /\ pc = "ingesting" => cur \in toIngest
    /\ pc \in {"seal", "sealing"} => toIngest = {}

\* From position b on, the adapter's pipe holds what is still to be handled of
\* the current environment; position 0 stands for the memory it has by now.
OnTrack(b) ==
    /\ b = 0 => /\ adapter.env = env
                /\ ~adapter.sealed
                /\ adapter.seen \subseteq SessionsOf[env]
    /\ b > 0 => toAdapter[b] = Request("env_begin", env)
    /\ \A n \in (b + 1)..Len(toAdapter) :
          \/ \E s \in SessionsOf[env] : toAdapter[n] = Request("ingest", s)
          \/ pc = "sealing" /\ n = Len(toAdapter)
    /\ pc = "sealing" => /\ b < Len(toAdapter)
                         /\ toAdapter[Len(toAdapter)] = Request("ingest_end", env)
    /\ \A s \in Sent :
          \/ \E n \in (b + 1)..Len(toAdapter) : toAdapter[n] = Request("ingest", s)
          \/ b = 0 /\ s \in adapter.seen

\* Until the environment is acknowledged the adapter is on its way to the full
\* memory of it, unless it is dead or has reported a failure.
Ingesting ==
    /\ pc \in Early /\ alive =>
          \/ \E n \in DOMAIN toHarness : Bad(toHarness[n]) \/ toHarness[n].type = "ingest_end_ack"
          \/ \E b \in 0..Len(toAdapter) : OnTrack(b)
    /\ Running => \A n \in DOMAIN toAdapter :
          toAdapter[n].type = "ingest_end" => pc = "sealing" /\ n = Len(toAdapter)

\* An acknowledgement is the last that is said of an environment before its
\* questions, and behind any failure.
Acknowledged ==
    Running => \A n \in DOMAIN toHarness :
        toHarness[n].type = "ingest_end_ack" =>
            /\ pc = "sealing"
            /\ toAdapter = <<>>
            /\ n = Len(toHarness)
            /\ adapter = FullMemory(env) \/ \E m \in 1..(n - 1) : Bad(toHarness[m])

\* While questions are asked the memory is full and nothing else is under way.
Questioned ==
    pc \in {"ask", "asking"} =>
        /\ adapter = FullMemory(env)
        /\ \A n \in DOMAIN toAdapter : toAdapter[n].type = "query"

\* A question still to be handled, perhaps long after it was given up, is ahead
\* of anything that changes the memory it was meant for.
QuestionsFirst ==
    Running => \A n \in DOMAIN toAdapter :
        toAdapter[n].type = "query" =>
            /\ adapter = FullMemory(EnvOf[toAdapter[n].id])
            /\ \A m \in 1..(n - 1) : toAdapter[m].type = "query"

Answered ==
    Running => \A n \in DOMAIN toHarness :
        toHarness[n].type = "answer" =>
            toHarness[n].memory = FullMemory(EnvOf[toHarness[n].id])

WireInv ==
    /\ Sessional
    /\ Ingesting
    /\ Acknowledged
    /\ Questioned
    /\ QuestionsFirst
    /\ Answered

-----------------------------------------------------------------------------
(* The pipes as sequences.                                                 *)

LEMMA SendShape ==
    ASSUME TypeOK, NEW type, NEW id, Send(type, id)
    PROVE  /\ DOMAIN toAdapter = 1..Len(toAdapter) /\ Len(toAdapter) \in Nat
           /\ DOMAIN toAdapter' = 1..Len(toAdapter')
           /\ Len(toAdapter') = Len(toAdapter) + 1
           /\ \A n \in 1..Len(toAdapter) : toAdapter'[n] = toAdapter[n]
           /\ toAdapter'[Len(toAdapter) + 1] = Request(type, id)
<1>1. toAdapter \in Seq(Requests \cup {Request(type, id)})
  BY DEF TypeOK
<1>2. QED
  BY <1>1 DEF Send

LEMMA TakeShape ==
    ASSUME TypeOK, Takes, toAdapter' = Tail(toAdapter)
    PROVE  /\ DOMAIN toAdapter = 1..Len(toAdapter) /\ Len(toAdapter) \in Nat \ {0}
           /\ DOMAIN toAdapter' = 1..Len(toAdapter')
           /\ Len(toAdapter') = Len(toAdapter) - 1
           /\ \A n \in 1..Len(toAdapter') : toAdapter'[n] = toAdapter[n + 1]
           /\ request = toAdapter[1]
BY HeadTailProperties DEF TypeOK, Takes, request

LEMMA ReadShape ==
    ASSUME TypeOK, Read
    PROVE  /\ DOMAIN toHarness = 1..Len(toHarness) /\ Len(toHarness) \in Nat \ {0}
           /\ DOMAIN toHarness' = 1..Len(toHarness')
           /\ Len(toHarness') = Len(toHarness) - 1
           /\ \A n \in 1..Len(toHarness') : toHarness'[n] = toHarness[n + 1]
           /\ msg = toHarness[1]
BY HeadTailProperties DEF TypeOK, Read, msg

LEMMA WriteShape ==
    ASSUME TypeOK, NEW m, toHarness' = Append(toHarness, m)
    PROVE  /\ DOMAIN toHarness = 1..Len(toHarness) /\ Len(toHarness) \in Nat
           /\ DOMAIN toHarness' = 1..Len(toHarness')
           /\ Len(toHarness') = Len(toHarness) + 1
           /\ \A n \in 1..Len(toHarness) : toHarness'[n] = toHarness[n]
           /\ toHarness'[Len(toHarness) + 1] = m
<1>1. toHarness \in Seq(Messages \cup {m})
  BY DEF TypeOK
<1>2. QED
  BY <1>1

-----------------------------------------------------------------------------
(* The harness sends.                                                      *)

\* Once the run is on its way out nothing more is claimed.
LEMMA ClosingWire ==
    ASSUME pc' \in {"closing", "over"}
    PROVE  WireInv'
BY DEF WireInv, Sessional, Ingesting, Acknowledged, Questioned, QuestionsFirst,
       Answered, Early, Running

LEMMA HelloWire ==
    ASSUME TypeInv, WireInv, Hello
    PROVE  WireInv'
<1> USE DEF WireInv, Hello, process, Running, Early
<1>1. Send("hello", None)
  OBVIOUS
<1>2. Request("hello", None).type = "hello"
  BY DEF Request
<1>3. Sessional' /\ Questioned'
  BY DEF Sessional, Questioned
<1>4. Ingesting'
  BY <1>1, <1>2, SendShape DEF Ingesting, TypeInv
<1>5. Acknowledged'
  BY DEF Acknowledged
<1>6. QuestionsFirst'
  BY <1>1, <1>2, SendShape DEF QuestionsFirst, TypeInv
<1>7. Answered'
  BY DEF Answered
<1>8. QED
  BY <1>3, <1>4, <1>5, <1>6, <1>7

LEMMA EnvBeginWire ==
    ASSUME ConversationAssumption, TypeInv, WireInv, NEW e \in Envs, EnvBegin(e)
    PROVE  WireInv'
<1> USE DEF WireInv, EnvBegin, process, Running, Early
<1> DEFINE r == Request("env_begin", e)
<1>1. Send("env_begin", e)
  OBVIOUS
<1>2. r.type = "env_begin"
  BY DEF Request
<1>3. Sessional' /\ Questioned'
  BY DEF Sessional, Questioned
<1>4. Ingesting'
  <2>1. ASSUME NEW b \in 0..Len(toAdapter'), b = Len(toAdapter) + 1
        PROVE  OnTrack(b)'
    BY <1>1, <2>1, SendShape DEF OnTrack, Sent, TypeInv
  <2>2. Len(toAdapter) + 1 \in 0..Len(toAdapter')
    BY <1>1, SendShape DEF TypeInv
  <2>3. \E b \in 0..Len(toAdapter') : OnTrack(b)'
    BY <2>1, <2>2
  <2>4. \A n \in DOMAIN toAdapter' : toAdapter'[n].type # "ingest_end"
    BY <1>1, <1>2, SendShape DEF Ingesting, TypeInv
  <2>5. QED
    BY <2>3, <2>4 DEF Ingesting
<1>5. Acknowledged'
  BY DEF Acknowledged
<1>6. QuestionsFirst'
  BY <1>1, <1>2, SendShape DEF QuestionsFirst, TypeInv
<1>7. Answered'
  BY DEF Answered
<1>8. QED
  BY <1>3, <1>4, <1>5, <1>6, <1>7

LEMMA IngestWire ==
    ASSUME ConversationAssumption, TypeInv, WireInv, NEW s \in Sessions, Ingest(s)
    PROVE  WireInv'
<1> USE DEF WireInv, Ingest, process, Running, Early
<1> DEFINE r == Request("ingest", s)
<1>1. Send("ingest", s)
  OBVIOUS
<1>2. r.type = "ingest"
  BY DEF Request
<1>3. Sessional' /\ Questioned'
  BY DEF Sessional, Questioned
<1>4. Ingesting'
  <2>1. ASSUME NEW b \in 0..Len(toAdapter), OnTrack(b)
        PROVE  OnTrack(b)'
    <3>1. Sent' = Sent \cup {s}
      BY DEF Sent, Sessional
    <3>2. s \in SessionsOf[env]
      BY DEF Sessional
    <3>3. QED
      BY <1>1, <2>1, <3>1, <3>2, SendShape DEF OnTrack, TypeInv
  <2>2. \A b \in 0..Len(toAdapter) : b \in 0..Len(toAdapter')
    BY <1>1, SendShape DEF TypeInv
  <2>3. \A n \in DOMAIN toAdapter' : toAdapter'[n].type # "ingest_end"
    BY <1>1, <1>2, SendShape DEF Ingesting, TypeInv
  <2>4. QED
    BY <2>1, <2>2, <2>3 DEF Ingesting
<1>5. Acknowledged'
  BY DEF Acknowledged
<1>6. QuestionsFirst'
  BY <1>1, <1>2, SendShape DEF QuestionsFirst, TypeInv
<1>7. Answered'
  BY DEF Answered
<1>8. QED
  BY <1>3, <1>4, <1>5, <1>6, <1>7

LEMMA IngestEndWire ==
    ASSUME ConversationAssumption, TypeInv, WireInv, IngestEnd
    PROVE  WireInv'
<1> USE DEF WireInv, IngestEnd, process, Running, Early
<1> DEFINE r == Request("ingest_end", env)
<1>1. Send("ingest_end", env)
  OBVIOUS
<1>2. r.type = "ingest_end"
  BY DEF Request
<1>3. Sessional' /\ Questioned'
  BY DEF Sessional, Questioned
<1>4. Ingesting'
  <2>1. ASSUME NEW b \in 0..Len(toAdapter), OnTrack(b)
        PROVE  OnTrack(b)'
    <3>1. Sent' = Sent
      BY DEF Sent
    <3>2. QED
      BY <1>1, <2>1, <3>1, SendShape DEF OnTrack, TypeInv
  <2>2. \A b \in 0..Len(toAdapter) : b \in 0..Len(toAdapter')
    BY <1>1, SendShape DEF TypeInv
  <2>3. \A n \in DOMAIN toAdapter' :
            toAdapter'[n].type = "ingest_end" => n = Len(toAdapter')
    BY <1>1, <1>2, SendShape DEF Ingesting, TypeInv
  <2>4. QED
    BY <2>1, <2>2, <2>3 DEF Ingesting
<1>5. Acknowledged'
  BY DEF Acknowledged
<1>6. QuestionsFirst'
  BY <1>1, <1>2, SendShape DEF QuestionsFirst, TypeInv
<1>7. Answered'
  BY DEF Answered
<1>8. QED
  BY <1>3, <1>4, <1>5, <1>6, <1>7

LEMMA QueryWire ==
    ASSUME ConversationAssumption, TypeInv, RowsInv, WireInv,
           NEW i \in Items, Query(i)
    PROVE  WireInv'
<1> USE DEF WireInv, Query, process, Running, Early
<1> DEFINE r == Request("query", i)
<1>1. Send("query", i)
  OBVIOUS
<1>2. r.type = "query" /\ r.id = i
  BY DEF Request
<1>3. Sessional'
  BY DEF Sessional
<1>4. Questioned'
  BY <1>1, <1>2, SendShape DEF Questioned, TypeInv
<1>5. Ingesting'
  BY <1>1, <1>2, SendShape DEF Ingesting, TypeInv
<1>6. Acknowledged'
  BY DEF Acknowledged
<1>7. QuestionsFirst'
  <2>1. EnvOf[i] = env
    BY DEF RowsInv, InEnv
  <2>2. QED
    BY <1>1, <1>2, <2>1, SendShape DEF QuestionsFirst, Questioned, TypeInv
<1>8. Answered'
  BY DEF Answered
<1>9. QED
  BY <1>3, <1>4, <1>5, <1>6, <1>7, <1>8

LEMMA EnvEndWire ==
    ASSUME ConversationAssumption, TypeInv, WireInv, EnvEnd
    PROVE  WireInv'
<1> USE DEF WireInv, EnvEnd, process, Running, Early
<1> DEFINE r == Request("env_end", env)
<1>1. Send("env_end", env)
  OBVIOUS
<1>2. r.type = "env_end"
  BY DEF Request
<1>3. Sessional' /\ Questioned'
  BY DEF Sessional, Questioned
<1>4. Ingesting'
  BY <1>1, <1>2, SendShape DEF Ingesting, TypeInv
<1>5. Acknowledged'
  BY DEF Acknowledged
<1>6. QuestionsFirst'
  BY <1>1, <1>2, SendShape DEF QuestionsFirst, TypeInv
<1>7. Answered'
  BY DEF Answered
<1>8. QED
  BY <1>3, <1>4, <1>5, <1>6, <1>7

LEMMA HarnessSendsWire ==
    ASSUME ConversationAssumption, TypeInv, RowsInv, WireInv, HarnessSends
    PROVE  WireInv'
<1>1. CASE SendFails \/ Finish \/ StagingFails
  BY <1>1, ClosingWire DEF SendFails, Finish, StagingFails, Unwind
<1>2. QED
  BY <1>1, HelloWire, EnvBeginWire, IngestWire, IngestEndWire, QueryWire, EnvEndWire
     DEF HarnessSends

-----------------------------------------------------------------------------
(* The harness receives.                                                   *)

LEMMA ReadAnswered ==
    ASSUME TypeOK, Answered, Running, Read
    PROVE  Answered'
BY ReadShape DEF Answered

LEMMA ReadNothingAcknowledged ==
    ASSUME TypeOK, Acknowledged, Running, pc # "sealing", Read
    PROVE  Acknowledged'
BY ReadShape DEF Acknowledged

\* A message that is skipped in any wait.
LEMMA SkipNoiseWire ==
    ASSUME TypeInv, WireInv, SkipNoise
    PROVE  WireInv'
<1> USE DEF WireInv, SkipNoise, process, driver
<1>1. ~Bad(toHarness[1]) /\ toHarness[1].type # "ingest_end_ack"
  BY ReadShape DEF TypeInv, Bad
<1>2. Sessional' /\ Questioned'
  BY DEF Sessional, Questioned
<1>3. Ingesting'
  <2>1. \A n \in DOMAIN toHarness :
            Bad(toHarness[n]) \/ toHarness[n].type = "ingest_end_ack" =>
               n - 1 \in DOMAIN toHarness' /\ toHarness'[n - 1] = toHarness[n]
    BY <1>1, ReadShape DEF TypeInv
  <2>2. \A b \in Nat : OnTrack(b)' = OnTrack(b)
    BY DEF OnTrack, Sent
  <2>3. Len(toAdapter) \in Nat
    BY DEF TypeInv, TypeOK
  <2>4. QED
    BY <2>1, <2>2, <2>3 DEF Ingesting, Bad, Early, Running
<1>4. Acknowledged'
  <2> SUFFICES ASSUME Running, NEW n \in DOMAIN toHarness',
                      toHarness'[n].type = "ingest_end_ack"
               PROVE  /\ pc = "sealing"
                      /\ toAdapter = <<>>
                      /\ n = Len(toHarness')
                      /\ adapter = FullMemory(env)
                            \/ \E m \in 1..(n - 1) : Bad(toHarness'[m])
    BY DEF Acknowledged, Running, Bad
  <2>1. n \in Nat /\ n + 1 \in DOMAIN toHarness /\ toHarness[n + 1] = toHarness'[n]
    BY ReadShape DEF TypeInv
  <2>2. /\ pc = "sealing"
        /\ toAdapter = <<>>
        /\ n + 1 = Len(toHarness)
        /\ adapter = FullMemory(env) \/ \E m \in 1..n : Bad(toHarness[m])
    BY <2>1 DEF Acknowledged
  <2>3. ASSUME NEW m \in 1..n, Bad(toHarness[m])
        PROVE  m - 1 \in 1..(n - 1) /\ Bad(toHarness'[m - 1])
    <3>1. m # 1
      BY <1>1, <2>3
    <3>2. m - 1 \in 1..Len(toHarness')
      BY <2>1, <2>2, <3>1, ReadShape DEF TypeInv
    <3>3. toHarness'[m - 1] = toHarness[m]
      BY <3>2, ReadShape DEF TypeInv
    <3>4. QED
      BY <2>1, <2>3, <3>1, <3>3
  <2>4. QED
    BY <2>2, <2>3, ReadShape DEF TypeInv
<1>5. QuestionsFirst'
  BY DEF QuestionsFirst, Running
<1>6. Answered'
  BY ReadAnswered DEF TypeInv, Answered, Running
<1>7. QED
  BY <1>2, <1>3, <1>4, <1>5, <1>6

\* What is received outside ingestion moves no memory, and neither does an
\* environment that fails while it is ingested.
LEMMA ReceiveWire ==
    ASSUME TypeInv, WireInv, Running, pc # "sealing", Read \/ UNCHANGED toHarness,
           pc' \in {"env", "ask", "asking"},
           pc' # "env" => pc \in {"ask", "asking"} /\ env' = env,
           UNCHANGED <<toAdapter, adapter>>
    PROVE  WireInv'
<1> USE DEF WireInv
<1>1. Sessional'
  BY DEF Sessional
<1>2. Ingesting'
  BY DEF Ingesting, Early
<1>3. Acknowledged'
  <2>1. CASE Read
    BY <2>1, ReadNothingAcknowledged DEF TypeInv
  <2>2. CASE UNCHANGED toHarness
    BY <2>2 DEF Acknowledged
  <2>3. QED
    BY <2>1, <2>2
<1>4. Questioned'
  BY DEF Questioned
<1>5. QuestionsFirst'
  BY DEF QuestionsFirst
<1>6. Answered'
  <2>1. CASE Read
    BY <2>1, ReadAnswered DEF TypeInv
  <2>2. CASE UNCHANGED toHarness
    BY <2>2 DEF Answered
  <2>3. QED
    BY <2>1, <2>2
<1>7. QED
  BY <1>1, <1>2, <1>3, <1>4, <1>5, <1>6

LEMMA IngestDoneWire ==
    ASSUME TypeInv, WireInv, IngestDone
    PROVE  WireInv'
<1> USE DEF WireInv, IngestDone, process, Running
<1>1. ~Bad(toHarness[1]) /\ toHarness[1].type # "ingest_end_ack"
  BY ReadShape DEF TypeInv, Bad
<1>2. Sessional'
  BY DEF Sessional
<1>3. Questioned'
  BY DEF Questioned
<1>4. Ingesting'
  <2>1. \A n \in DOMAIN toHarness :
            Bad(toHarness[n]) \/ toHarness[n].type = "ingest_end_ack" =>
               n - 1 \in DOMAIN toHarness' /\ toHarness'[n - 1] = toHarness[n]
    BY <1>1, ReadShape DEF TypeInv
  <2>2. Sent' = Sent
    BY DEF Sent, Sessional
  <2>3. ASSUME NEW b \in Nat, OnTrack(b)
        PROVE  OnTrack(b)'
    BY <2>2, <2>3 DEF OnTrack
  <2>4. Len(toAdapter) \in Nat
    BY DEF TypeInv, TypeOK
  <2>5. QED
    BY <2>1, <2>3, <2>4 DEF Ingesting, Bad, Early
<1>5. Acknowledged'
  BY ReadNothingAcknowledged DEF TypeInv
<1>6. QuestionsFirst'
  BY DEF QuestionsFirst
<1>7. Answered'
  BY ReadAnswered DEF TypeInv
<1>8. QED
  BY <1>2, <1>3, <1>4, <1>5, <1>6, <1>7

\* The acknowledgement is read first and last, so no failure came before it.
LEMMA IngestEndAckWire ==
    ASSUME TypeInv, WireInv, IngestEndAck
    PROVE  WireInv'
<1> USE DEF WireInv, IngestEndAck, process, Running
<1>1. /\ toHarness[1].type = "ingest_end_ack" /\ 1 \in DOMAIN toHarness
      /\ Len(toHarness) \in Nat
  BY ReadShape DEF TypeInv
<1>2. /\ toAdapter = <<>>
      /\ Len(toHarness) = 1
      /\ adapter = FullMemory(env) \/ \E m \in 1..(1 - 1) : Bad(toHarness[m])
  <2>1. Acknowledged /\ Running
    OBVIOUS
  <2>2. QED
    BY <1>1, <2>1 DEF Acknowledged
<1>3. DOMAIN toHarness' = {} /\ DOMAIN toAdapter' = {}
  BY <1>2, ReadShape, EmptySeq DEF TypeInv
<1>4. QED
  BY <1>2, <1>3 DEF Sessional, Ingesting, Acknowledged, Questioned,
                    QuestionsFirst, Answered, Early

LEMMA HarnessReceivesWire ==
    ASSUME TypeInv, WireInv, HarnessReceives
    PROVE  WireInv'
<1> USE DEF driver, process, Running, Waiting
<1>1. CASE FatalError \/ GarbledError \/ StreamClosed \/ NotAcknowledged
           \/ CallTimeout
  BY <1>1, ClosingWire
     DEF FatalError, GarbledError, StreamClosed, NotAcknowledged, CallTimeout, Unwind
<1>2. CASE Ready
  BY <1>2, ReceiveWire DEF Ready
<1>3. CASE IngestFails \/ IngestTimeout
  BY <1>3, ReceiveWire DEF IngestFails, IngestTimeout, Silence, FailEnv
<1>4. CASE Answer \/ Malformed \/ QueryTimeout
  BY <1>4, ReceiveWire DEF Answer, Malformed, QueryTimeout, Silence, Record
<1>5. CASE LateAnswer
  BY <1>5, ReceiveWire DEF LateAnswer
<1>6. QED
  BY <1>1, <1>2, <1>3, <1>4, <1>5, SkipNoiseWire, IngestDoneWire, IngestEndAckWire
     DEF HarnessReceives

-----------------------------------------------------------------------------
(* The adapter.                                                            *)

\* What Handle does to the pipes: one request less, at most one line more.
LEMMA HandleShape ==
    ASSUME ConversationAssumption, TypeOK, Handle
    PROVE  /\ Len(toHarness) \in Nat /\ Len(toHarness') \in Nat
           /\ DOMAIN toHarness = 1..Len(toHarness)
           /\ DOMAIN toHarness' = 1..Len(toHarness')
           /\ Len(toHarness) =< Len(toHarness')
           /\ Len(toHarness') =< Len(toHarness) + 1
           /\ \A n \in 1..Len(toHarness) : toHarness'[n] = toHarness[n]
           /\ \A n \in DOMAIN toHarness' : n > Len(toHarness) =>
                 Replies(request) = <<toHarness'[n]>>
           /\ \A m : Replies(request) = <<m>> =>
                 /\ Len(toHarness') = Len(toHarness) + 1
                 /\ toHarness'[Len(toHarness) + 1] = m
<1>1. toHarness' = toHarness \o Replies(request) /\ request \in Requests
  BY TakesType DEF Handle
<1>2. CASE Replies(request) = <<>>
  BY <1>1, <1>2, Appended DEF TypeOK
<1>3. CASE \E m \in Messages : Replies(request) = <<m>>
  <2>1. PICK m \in Messages : Replies(request) = <<m>>
    BY <1>3
  <2>2. toHarness' = Append(toHarness, m)
    BY <1>1, <2>1, Appended DEF TypeOK
  <2>3. QED
    BY <2>1, <2>2, WriteShape
<1>4. QED
  BY <1>1, <1>2, <1>3, RepliesType DEF TypeOK

\* The replies and the memory, request by request.
LEMMA HandleCases ==
    ASSUME NEW r \in Requests
    PROVE  /\ r.type = "ingest_end" =>
                 /\ Replies(r) = <<Reply("ingest_end_ack", r.id)>>
                 /\ Remember(r) = [adapter EXCEPT !.sealed = TRUE]
           /\ r.type = "ingest" =>
                 Remember(r) = [adapter EXCEPT !.seen = @ \cup {r.id}]
           /\ r.type = "env_begin" => Remember(r) = [NoMemory EXCEPT !.env = r.id]
           /\ r.type = "query" => /\ Replies(r) = <<AnswerFrom(r.id, adapter)>>
                                  /\ Remember(r) = adapter
           /\ \A m : Replies(r) = <<m>> =>
                 /\ m.type = "ingest_end_ack" => r.type = "ingest_end"
                 /\ m.type = "answer" => /\ r.type = "query"
                                         /\ m.id = r.id
                                         /\ m.memory = adapter
<1>1. CASE r.type = "hello"
  BY <1>1 DEF Replies, Reply
<1>2. CASE r.type = "ingest"
  BY <1>2 DEF Replies, Remember, Reply
<1>3. CASE r.type = "ingest_end"
  BY <1>3 DEF Replies, Remember, Reply
<1>4. CASE r.type = "query"
  BY <1>4 DEF Replies, Remember, AnswerFrom
<1>5. CASE r.type = "env_begin"
  BY <1>5 DEF Replies, Remember
<1>6. CASE r.type = "env_end"
  BY <1>6 DEF Replies
<1>7. QED
  BY <1>1, <1>2, <1>3, <1>4, <1>5, <1>6 DEF Requests

\* Once its first request is handled, the pipe is on track one place further on.
LEMMA Shifted ==
    ASSUME TypeOK, Takes, toAdapter' = Tail(toAdapter),
           UNCHANGED <<pc, env, toIngest, cur>>,
           NEW b \in 0..Len(toAdapter), OnTrack(b),
           pc = "sealing" => Len(toAdapter) > 1,
           NEW c \in Nat, b = c + 1 \/ (b = 0 /\ c = 0),
           c = 0 => /\ adapter'.env = env
                    /\ ~adapter'.sealed
                    /\ adapter'.seen \subseteq SessionsOf[env]
                    /\ b = 0 => \A s \in Sent :
                          s \in adapter.seen \/ toAdapter[1] = Request("ingest", s)
                             => s \in adapter'.seen
    PROVE  c \in 0..Len(toAdapter') /\ OnTrack(c)'
<1>1. /\ DOMAIN toAdapter = 1..Len(toAdapter) /\ Len(toAdapter) \in Nat \ {0}
      /\ Len(toAdapter') = Len(toAdapter) - 1
      /\ \A n \in 1..Len(toAdapter') : toAdapter'[n] = toAdapter[n + 1]
  BY TakeShape
<1>2. Sent' = Sent
  BY DEF Sent
<1> DEFINE k == Len(toAdapter)
           l == Len(toAdapter')
<1>3. k \in Nat \ {0} /\ l = k - 1
  BY <1>1
<1>4. b \in 0..k
  OBVIOUS
<1> HIDE DEF k, l
<1>5. \A n \in (c + 1)..l : n + 1 \in (b + 1)..k /\ toAdapter'[n] = toAdapter[n + 1]
  <2>1. \A n \in (c + 1)..l : n \in 1..l /\ n + 1 \in (b + 1)..k
    BY <1>3, <1>4
  <2>2. QED
    BY <1>1, <2>1 DEF l
<1>6. \A n \in (b + 1)..k :
         n # 1 => n - 1 \in (c + 1)..l /\ toAdapter'[n - 1] = toAdapter[n]
  <2>1. ASSUME NEW n \in (b + 1)..k, n # 1
        PROVE  n - 1 \in (c + 1)..l /\ n - 1 \in 1..l /\ (n - 1) + 1 = n
    <3>1. n \in Int /\ b + 1 =< n /\ n =< k /\ 2 =< n
      BY <1>3, <1>4, <2>1
    <3>2. n - 1 \in Int /\ (n - 1) + 1 = n /\ n - 1 =< l /\ 1 =< n - 1
      BY <1>3, <3>1
    <3>3. c + 1 =< n - 1
      BY <1>4, <3>1
    <3>4. QED
      BY <1>3, <3>2, <3>3
  <2>2. QED
    BY <1>1, <2>1 DEF l
<1>7. c > 0 => toAdapter'[c] = Request("env_begin", env)
  <2> SUFFICES ASSUME c > 0
               PROVE  toAdapter'[c] = Request("env_begin", env)
    OBVIOUS
  <2>1. b = c + 1 /\ c \in 1..l /\ b > 0
    BY <1>3, <1>4
  <2>2. QED
    BY <1>1, <2>1 DEF l, OnTrack
<1>8. ASSUME NEW n \in (c + 1)..l
      PROVE  \/ \E s \in SessionsOf[env] : toAdapter'[n] = Request("ingest", s)
             \/ pc = "sealing" /\ n = l
  <2>1. n + 1 \in (b + 1)..k /\ toAdapter'[n] = toAdapter[n + 1]
    BY <1>5
  <2>2. \/ \E s \in SessionsOf[env] : toAdapter[n + 1] = Request("ingest", s)
        \/ pc = "sealing" /\ n + 1 = k
    BY <2>1 DEF OnTrack, k
  <2>3. n + 1 = k => n = l
    BY <1>3, <2>1
  <2>4. QED
    BY <2>1, <2>2, <2>3
<1>9. ASSUME pc = "sealing"
      PROVE  c < l /\ toAdapter'[l] = Request("ingest_end", env)
  <2>1. b < k /\ toAdapter[k] = Request("ingest_end", env) /\ k > 1
    BY <1>9 DEF OnTrack, k
  <2>2. c < l /\ l \in 1..l /\ l + 1 = k
    BY <1>3, <1>4, <2>1
  <2>3. QED
    BY <1>1, <2>1, <2>2 DEF l
<1>10. ASSUME NEW s \in Sent
      PROVE  \/ \E n \in (c + 1)..l : toAdapter'[n] = Request("ingest", s)
             \/ c = 0 /\ s \in adapter'.seen
  <2>1. CASE \E n \in (b + 1)..k : toAdapter[n] = Request("ingest", s)
    <3>1. PICK n \in (b + 1)..k : toAdapter[n] = Request("ingest", s)
      BY <2>1
    <3>2. CASE n = 1
      BY <1>10, <3>1, <3>2
    <3>3. CASE n - 1 \in (c + 1)..l /\ toAdapter'[n - 1] = toAdapter[n]
      BY <3>1, <3>3
    <3>4. QED
      BY <1>6, <3>2, <3>3
  <2>2. CASE b = 0 /\ s \in adapter.seen
    BY <1>10, <2>2
  <2>3. QED
    BY <1>10, <2>1, <2>2 DEF OnTrack, k
<1>11. c \in 0..l
  BY <1>3, <1>4
<1>12. QED
  BY <1>2, <1>7, <1>8, <1>9, <1>10, <1>11 DEF OnTrack, l

LEMMA HandleWire ==
    ASSUME ConversationAssumption, TypeInv, WireInv, Handle
    PROVE  WireInv'
<1> USE DEF WireInv, Running
<1> DEFINE r == request
<1>1. /\ alive /\ UNCHANGED <<driver, alive>>
      /\ adapter' = Remember(r)
      /\ r \in Requests /\ r = toAdapter[1]
      /\ DOMAIN toAdapter = 1..Len(toAdapter) /\ Len(toAdapter) \in Nat \ {0}
      /\ DOMAIN toAdapter' = 1..Len(toAdapter')
      /\ Len(toAdapter') = Len(toAdapter) - 1
      /\ \A n \in 1..Len(toAdapter') : toAdapter'[n] = toAdapter[n + 1]
  <2>1. TypeOK /\ Takes /\ toAdapter' = Tail(toAdapter)
    BY DEF Handle, TypeInv
  <2>2. alive /\ UNCHANGED <<driver, alive>> /\ adapter' = Remember(r)
    BY DEF Handle, Takes
  <2>3. QED
    BY <2>1, <2>2, TakesType, TakeShape
<1>2. UNCHANGED <<pc, env, toIngest, cur>>
  BY <1>1 DEF driver
<1>3. Sessional'
  BY <1>2 DEF Sessional
<1>4. QuestionsFirst'
  <2> SUFFICES ASSUME Running, NEW n \in DOMAIN toAdapter', toAdapter'[n].type = "query"
               PROVE  /\ adapter' = FullMemory(EnvOf[toAdapter'[n].id])
                      /\ \A m \in 1..(n - 1) : toAdapter'[m].type = "query"
    BY <1>2 DEF QuestionsFirst
  <2>1. n + 1 \in DOMAIN toAdapter /\ toAdapter[n + 1] = toAdapter'[n] /\ n \in Nat \ {0}
    BY <1>1
  <2>2. /\ adapter = FullMemory(EnvOf[toAdapter'[n].id])
        /\ \A m \in 1..n : toAdapter[m].type = "query"
    BY <2>1 DEF QuestionsFirst
  <2>3. r.type = "query"
    BY <1>1, <2>1, <2>2
  <2>4. adapter' = adapter
    BY <1>1, <2>3, HandleCases
  <2>5. QED
    BY <1>1, <2>1, <2>2, <2>4
<1>5. Questioned'
  <2> SUFFICES ASSUME pc \in {"ask", "asking"}
               PROVE  /\ adapter' = FullMemory(env)
                      /\ \A n \in DOMAIN toAdapter' : toAdapter'[n].type = "query"
    BY <1>2 DEF Questioned
  <2>1. r.type = "query"
    BY <1>1 DEF Questioned
  <2>2. adapter' = adapter
    BY <1>1, <2>1, HandleCases
  <2>3. QED
    BY <1>1, <2>2 DEF Questioned
<1>6. Answered'
  <2> SUFFICES ASSUME Running, NEW n \in DOMAIN toHarness',
                      toHarness'[n].type = "answer"
               PROVE  toHarness'[n].memory = FullMemory(EnvOf[toHarness'[n].id])
    BY <1>2 DEF Answered
  <2>1. CASE n \in 1..Len(toHarness)
    BY <2>1, HandleShape DEF Answered, TypeInv
  <2>2. CASE n > Len(toHarness)
    <3>1. Replies(r) = <<toHarness'[n]>>
      BY <2>2, HandleShape DEF TypeInv
    <3>2. r.type = "query" /\ toHarness'[n].id = r.id /\ toHarness'[n].memory = adapter
      BY <1>1, <3>1, HandleCases
    <3>3. adapter = FullMemory(EnvOf[r.id])
      BY <1>1, <3>2 DEF QuestionsFirst
    <3>4. QED
      BY <3>2, <3>3
  <2>3. QED
    BY <2>1, <2>2, HandleShape DEF TypeInv
<1>7. Acknowledged'
  <2> SUFFICES ASSUME Running, NEW n \in DOMAIN toHarness',
                      toHarness'[n].type = "ingest_end_ack"
               PROVE  /\ pc = "sealing"
                      /\ toAdapter' = <<>>
                      /\ n = Len(toHarness')
                      /\ adapter' = FullMemory(env)
                            \/ \E m \in 1..(n - 1) : Bad(toHarness'[m])
    BY <1>2 DEF Acknowledged, Bad
  <2>1. n \notin 1..Len(toHarness)
    BY <1>1, HandleShape, EmptySeq DEF Acknowledged, TypeInv
  <2>2. /\ n = Len(toHarness) + 1 /\ n = Len(toHarness')
        /\ Replies(r) = <<toHarness'[n]>>
    BY <2>1, HandleShape DEF TypeInv
  <2>3. r.type = "ingest_end"
    BY <1>1, <2>2, HandleCases
  <2>4. pc = "sealing" /\ Len(toAdapter) = 1
    BY <1>1, <2>3 DEF Ingesting
  <2>5. toAdapter' = <<>>
    BY <1>1, <2>4, EmptySeq DEF Handle, TypeInv, TypeOK
  <2>6. ASSUME ~\E m \in 1..Len(toHarness) : Bad(toHarness[m])
        PROVE  adapter' = FullMemory(env)
    <3>1. ~\E m \in DOMAIN toHarness : Bad(toHarness[m]) \/ toHarness[m].type = "ingest_end_ack"
      BY <1>1, <2>4, <2>6, HandleShape, EmptySeq DEF Acknowledged, TypeInv
    <3>2. PICK b \in 0..Len(toAdapter) : OnTrack(b)
      BY <1>1, <2>4, <3>1 DEF Ingesting, Early
    <3>3. b = 0
      BY <2>4, <3>2 DEF OnTrack
    <3>4. /\ adapter.env = env /\ adapter.seen \subseteq SessionsOf[env]
          /\ \A s \in SessionsOf[env] : s \in adapter.seen
      <4>1. Sent = SessionsOf[env]
        BY <2>4 DEF Sent, Sessional
      <4>2. \A s : toAdapter[1] # Request("ingest", s)
        BY <1>1, <2>3 DEF Request
      <4>3. QED
        BY <2>4, <3>2, <3>3, <4>1, <4>2 DEF OnTrack
    <3>5. adapter.seen = SessionsOf[env]
      BY <3>4
    <3>6. adapter' = [adapter EXCEPT !.sealed = TRUE]
      BY <1>1, <2>3, HandleCases
    <3>7. QED
      BY <3>4, <3>5, <3>6 DEF TypeInv, TypeOK, Memories, FullMemory
  <2>7. \A m \in 1..Len(toHarness) : Bad(toHarness[m]) =>
            m \in 1..(n - 1) /\ Bad(toHarness'[m])
    BY <2>2, HandleShape DEF TypeInv
  <2>8. QED
    BY <2>2, <2>4, <2>5, <2>6, <2>7
<1>8. Ingesting'
  <2>1. ASSUME Running, NEW n \in DOMAIN toAdapter', toAdapter'[n].type = "ingest_end"
        PROVE  pc = "sealing" /\ n = Len(toAdapter')
    BY <1>1, <2>1 DEF Ingesting
  <2>2. ASSUME pc \in Early
        PROVE  \/ \E n \in DOMAIN toHarness' :
                    Bad(toHarness'[n]) \/ toHarness'[n].type = "ingest_end_ack"
               \/ \E b \in 0..Len(toAdapter') : OnTrack(b)'
    <3>1. CASE \E n \in DOMAIN toHarness :
                    Bad(toHarness[n]) \/ toHarness[n].type = "ingest_end_ack"
      BY <3>1, HandleShape DEF TypeInv, Bad
    <3>2. ASSUME NEW b \in 0..Len(toAdapter), OnTrack(b), b > 1
          PROVE  \E c \in 0..Len(toAdapter') : OnTrack(c)'
      <4>1. pc = "sealing" => Len(toAdapter) > 1
        <5>1. pc = "sealing" => b < Len(toAdapter)
          BY <3>2 DEF OnTrack
        <5>2. QED
          BY <1>1, <3>2, <5>1
      <4>2. ASSUME NEW c, c = b - 1
            PROVE  c \in 0..Len(toAdapter') /\ OnTrack(c)'
        <5>1. c \in Nat /\ b = c + 1 /\ c # 0
          BY <1>1, <3>2, <4>2
        <5>2. TypeOK /\ Takes /\ toAdapter' = Tail(toAdapter)
          BY DEF Handle, TypeInv
        <5>3. TypeOK /\ Takes /\ toAdapter' = Tail(toAdapter) /\ OnTrack(b)
          BY <3>2, <5>2
        <5>4. QED
          BY <1>2, <4>1, <5>1, <5>3, Shifted
      <4>3. QED
        BY <4>2
    <3>3. ASSUME OnTrack(1)
          PROVE  \E c \in 0..Len(toAdapter') : OnTrack(c)'
      <4>1. r = Request("env_begin", env)
        <5>1. 1 > 0 => toAdapter[1] = Request("env_begin", env)
          BY <3>3 DEF OnTrack
        <5>2. QED
          BY <1>1, <5>1
      <4>2. adapter' = [NoMemory EXCEPT !.env = env]
        BY <1>1, <4>1, HandleCases DEF Request
      <4>3. adapter'.env = env /\ ~adapter'.sealed /\ adapter'.seen = {}
        BY <4>2 DEF NoMemory
      <4>4. pc = "sealing" => Len(toAdapter) > 1
        BY <1>1, <3>3 DEF OnTrack
      <4>5. 1 \in 0..Len(toAdapter)
        BY <1>1
      <4>6. ASSUME NEW b \in 0..Len(toAdapter), b = 1, NEW c \in Nat, c = 0
            PROVE  c \in 0..Len(toAdapter') /\ OnTrack(c)'
        BY <1>2, <3>3, <4>3, <4>4, <4>6, Shifted DEF Handle, TypeInv
      <4>7. QED
        BY <4>5, <4>6
    <3>4. ASSUME OnTrack(0), NEW s \in SessionsOf[env], r = Request("ingest", s)
          PROVE  \E c \in 0..Len(toAdapter') : OnTrack(c)'
      <4>1. r.type = "ingest" /\ r.id = s
        BY <3>4 DEF Request
      <4>2. adapter' = [adapter EXCEPT !.seen = @ \cup {s}]
        BY <1>1, <4>1, HandleCases
      <4>3. /\ adapter'.env = adapter.env /\ adapter'.sealed = adapter.sealed
            /\ adapter'.seen = adapter.seen \cup {s}
        BY <4>2 DEF TypeInv, TypeOK, Memories
      <4>4. /\ adapter'.env = env /\ ~adapter'.sealed
            /\ adapter'.seen \subseteq SessionsOf[env]
        BY <3>4, <4>3 DEF OnTrack
      <4>5. \A t : toAdapter[1] = Request("ingest", t) => t = s
        <5>1. \A t : Request("ingest", t).id = t
          BY DEF Request
        <5>2. QED
          BY <1>1, <4>1, <5>1
      <4>6. pc = "sealing" => Len(toAdapter) > 1
        <5>1. toAdapter[1] # Request("ingest_end", env)
          BY <1>1, <3>4 DEF Request
        <5>2. pc = "sealing" => toAdapter[Len(toAdapter)] = Request("ingest_end", env)
          BY <3>4 DEF OnTrack
        <5>3. QED
          BY <1>1, <5>1, <5>2
      <4>7. ASSUME NEW b \in 0..Len(toAdapter), b = 0, NEW c \in Nat, c = 0
            PROVE  c \in 0..Len(toAdapter') /\ OnTrack(c)'
        BY <1>2, <3>4, <4>3, <4>4, <4>5, <4>6, <4>7, Shifted DEF Handle, TypeInv
      <4>8. QED
        BY <1>1, <4>7
    <3>5. ASSUME OnTrack(0), pc = "sealing", Len(toAdapter) = 1
          PROVE  \E n \in DOMAIN toHarness' : toHarness'[n].type = "ingest_end_ack"
      <4>1. r.type = "ingest_end"
        BY <1>1, <3>5 DEF OnTrack, Request
      <4>2. Replies(r) = <<Reply("ingest_end_ack", r.id)>>
        BY <1>1, <4>1, HandleCases
      <4>3. QED
        BY <4>2, HandleShape DEF TypeInv, Reply
    <3>6. CASE OnTrack(0)
      <4>1. 1 \in (0 + 1)..Len(toAdapter)
        BY <1>1
      <4>2. \/ \E s \in SessionsOf[env] : toAdapter[1] = Request("ingest", s)
            \/ pc = "sealing" /\ 1 = Len(toAdapter)
        BY <3>6, <4>1 DEF OnTrack
      <4>3. QED
        BY <1>1, <3>4, <3>5, <3>6, <4>2
    <3>7. PICK b \in 0..Len(toAdapter) :
              OnTrack(b) \/ \E n \in DOMAIN toHarness :
                    Bad(toHarness[n]) \/ toHarness[n].type = "ingest_end_ack"
      BY <1>1, <2>2 DEF Ingesting
    <3>8. b = 0 \/ b = 1 \/ b > 1
      BY <1>1, <3>7
    <3>9. QED
      BY <3>1, <3>2, <3>3, <3>6, <3>7, <3>8
  <2>3. QED
    BY <1>1, <1>2, <2>1, <2>2 DEF Ingesting, Bad, Early
<1>9. QED
  BY <1>3, <1>4, <1>5, <1>6, <1>7, <1>8

LEMMA HandlerFailsWire ==
    ASSUME ConversationAssumption, TypeInv, WireInv, HandlerFails
    PROVE  WireInv'
<1> USE DEF WireInv, Running
<1>1. UNCHANGED <<pc, env, toIngest, cur, adapter>> /\ Takes /\ TypeOK
  BY DEF HandlerFails, driver, TypeInv
<1>2. PICK type \in {"error", "fatal", "bad_answer", "bad_error"} :
         toHarness' = Append(toHarness, Reply(type, request.id))
  BY DEF HandlerFails
<1>3. /\ DOMAIN toHarness = 1..Len(toHarness) /\ Len(toHarness) \in Nat
      /\ DOMAIN toHarness' = 1..Len(toHarness')
      /\ Len(toHarness') = Len(toHarness) + 1
      /\ \A n \in 1..Len(toHarness) : toHarness'[n] = toHarness[n]
      /\ toHarness'[Len(toHarness) + 1] = Reply(type, request.id)
  BY <1>1, <1>2, WriteShape
<1>4. Bad(Reply(type, request.id)) /\ Reply(type, request.id).type = type
  BY DEF Bad, Reply
<1>5. ASSUME NEW n \in DOMAIN toAdapter'
      PROVE  /\ n \in Nat \ {0} /\ n + 1 \in DOMAIN toAdapter
             /\ toAdapter'[n] = toAdapter[n + 1]
             /\ n + 1 = Len(toAdapter) => n = Len(toAdapter')
             /\ \A m \in 1..(n - 1) :
                   m + 1 \in 1..n /\ toAdapter'[m] = toAdapter[m + 1]
  <2>1. CASE toAdapter' = Tail(toAdapter)
    <3>1. /\ DOMAIN toAdapter = 1..Len(toAdapter) /\ Len(toAdapter) \in Nat \ {0}
          /\ DOMAIN toAdapter' = 1..Len(toAdapter')
          /\ Len(toAdapter') = Len(toAdapter) - 1
          /\ \A m \in 1..Len(toAdapter') : toAdapter'[m] = toAdapter[m + 1]
      BY <1>1, <2>1, TakeShape
    <3>2. n \in Nat \ {0} /\ n =< Len(toAdapter')
      BY <3>1
    <3>3. n + 1 \in 1..Len(toAdapter)
      BY <3>1, <3>2
    <3>4. \A m \in 1..(n - 1) : m + 1 \in 1..n /\ m \in 1..Len(toAdapter')
      BY <3>1, <3>2
    <3>5. n + 1 = Len(toAdapter) => n = Len(toAdapter')
      BY <3>1, <3>2
    <3>6. QED
      BY <3>1, <3>2, <3>3, <3>4, <3>5
  <2>2. CASE toAdapter' = <<>>
    BY <2>2, EmptySeq
  <2>3. QED
    BY <2>1, <2>2 DEF HandlerFails
<1>6. Sessional'
  BY <1>1 DEF Sessional
<1>7. Ingesting'
  <2>1. \E n \in DOMAIN toHarness' : Bad(toHarness'[n])
    BY <1>3, <1>4
  <2>2. ASSUME Running, NEW n \in DOMAIN toAdapter', toAdapter'[n].type = "ingest_end"
        PROVE  pc = "sealing" /\ n = Len(toAdapter')
    BY <1>5, <2>2 DEF Ingesting
  <2>3. QED
    BY <1>1, <2>1, <2>2 DEF Ingesting, Bad
<1>8. Acknowledged'
  <2>1. ASSUME Running, NEW n \in DOMAIN toHarness',
               toHarness'[n].type = "ingest_end_ack"
        PROVE  FALSE
    <3>1. n \in 1..Len(toHarness)
      BY <1>3, <1>4, <2>1
    <3>2. toAdapter = <<>>
      BY <1>3, <2>1, <3>1 DEF Acknowledged
    <3>3. QED
      BY <1>1, <3>2 DEF Takes
  <2>2. QED
    BY <1>1, <2>1 DEF Acknowledged
<1>9. Questioned'
  BY <1>1, <1>5 DEF Questioned
<1>10. QuestionsFirst'
  <2> SUFFICES ASSUME Running, NEW n \in DOMAIN toAdapter', toAdapter'[n].type = "query"
               PROVE  /\ adapter = FullMemory(EnvOf[toAdapter'[n].id])
                      /\ \A m \in 1..(n - 1) : toAdapter'[m].type = "query"
    BY <1>1 DEF QuestionsFirst
  <2>1. n + 1 \in DOMAIN toAdapter /\ toAdapter[n + 1] = toAdapter'[n]
        /\ n \in Nat \ {0} /\ (n + 1) - 1 = n
    BY <1>5
  <2>2. /\ adapter = FullMemory(EnvOf[toAdapter'[n].id])
        /\ \A m \in 1..n : toAdapter[m].type = "query"
    BY <2>1 DEF QuestionsFirst
  <2>3. QED
    BY <1>5, <2>1, <2>2
<1>11. Answered'
  BY <1>1, <1>3, <1>4 DEF Answered
<1>12. QED
  BY <1>6, <1>7, <1>8, <1>9, <1>10, <1>11

LEMMA ChatterWire ==
    ASSUME TypeInv, WireInv, Chatter
    PROVE  WireInv'
<1> USE DEF WireInv, Chatter, driver, process, Running
<1>1. DOMAIN toHarness = {} /\ DOMAIN toHarness' = {1}
  BY EmptySeq
<1>2. toHarness'[1].type = "noise"
  BY DEF Reply
<1>3. Ingesting'
  <2>1. \A b \in Nat : OnTrack(b)' = OnTrack(b)
    BY DEF OnTrack, Sent
  <2>2. Len(toAdapter) \in Nat
    BY DEF TypeInv, TypeOK
  <2>3. QED
    BY <1>1, <2>1, <2>2 DEF Ingesting, Bad, Early
<1>4. QED
  BY <1>1, <1>2, <1>3 DEF Sessional, Acknowledged, Questioned, QuestionsFirst, Answered

LEMMA ExitWire ==
    ASSUME TypeInv, WireInv, Exit
    PROVE  WireInv'
<1>1. DOMAIN toAdapter' = {} /\ toAdapter' = <<>>
  BY EmptySeq DEF Exit
<1>2. QED
  BY <1>1 DEF WireInv, Exit, driver, Running, Sessional, Ingesting, Acknowledged,
              Questioned, QuestionsFirst, Answered, Bad

LEMMA WireUnchanged ==
    ASSUME TypeInv, WireInv, UNCHANGED vars
    PROVE  WireInv'
<1> USE DEF vars, driver, process
<1>1. \A b \in Nat : OnTrack(b)' = OnTrack(b)
  BY DEF OnTrack, Sent
<1>2. Len(toAdapter) \in Nat
  BY DEF TypeInv, TypeOK
<1>3. Ingesting'
  BY <1>1, <1>2 DEF WireInv, Ingesting, Bad, Early, Running
<1>4. QED
  BY <1>3 DEF WireInv, Sessional, Acknowledged, Questioned, QuestionsFirst, Answered,
              Bad, Running

LEMMA InitWire == Init => WireInv
<1> SUFFICES ASSUME Init PROVE WireInv
  OBVIOUS
<1>1. DOMAIN toAdapter = {} /\ DOMAIN toHarness = {}
  BY EmptySeq DEF Init
<1>2. QED
  BY <1>1 DEF Init, WireInv, Sessional, Ingesting, Acknowledged, Questioned,
              QuestionsFirst, Answered, Early

LEMMA NextWire ==
    ASSUME ConversationAssumption, TypeInv, RowsInv, WireInv, [Next]_vars
    PROVE  WireInv'
<1>1. CASE Close
  BY <1>1, ClosingWire DEF Close
<1>2. QED
  BY <1>1, HarnessSendsWire, HarnessReceivesWire, HandleWire, HandlerFailsWire,
     ChatterWire, ExitWire, WireUnchanged
     DEF Next, Harness, Adapter, Over

-----------------------------------------------------------------------------
(* What the readable copies and the recorded answers owe to the wire.      *)

\* Nothing is staged outside an environment, and in memory mode nothing once
\* its questions have begun.
StagedInv ==
    /\ pc \notin InEnv => staged = {}
    /\ pc \in {"ask", "asking"} /\ Mode = "memory" => staged = {}

LEMMA InitStaged == Init => StagedInv
BY DEF Init, StagedInv, InEnv

LEMMA NextStaged ==
    ASSUME StagedInv, [Next]_vars
    PROVE  StagedInv'
<1> USE DEF StagedInv, InEnv
<1>1. CASE HarnessSends
  BY <1>1 DEF HarnessSends, SendFails, Hello, IngestEnd, EnvEnd, Finish, StagingFails,
              EnvBegin, Ingest, Query, Unwind
<1>2. CASE HarnessReceives
  BY <1>2 DEF HarnessReceives, SkipNoise, FatalError, GarbledError, StreamClosed,
              Ready, IngestDone, IngestFails, IngestEndAck, NotAcknowledged, Answer,
              LateAnswer, Malformed, QueryTimeout, IngestTimeout, CallTimeout,
              Silence, Unwind, FailEnv, Record, driver
<1>3. CASE Close \/ Adapter \/ UNCHANGED vars
  BY <1>3 DEF Close, Adapter, Handle, HandlerFails, Chatter, Exit, vars, driver
<1>4. QED
  BY <1>1, <1>2, <1>3 DEF Next, Harness, Over

\* What an answer on the wire says is what the row it is recorded in says.
LEMMA NextCredit ==
    ASSUME ConversationAssumption, TypeInv, RowsInv, WireInv, OkMeansOwnAnswer,
           [Next]_vars
    PROVE  OkMeansOwnAnswer'
<1> USE DEF OkMeansOwnAnswer
<1>1. CASE Answer
  <2>1. msg \in Answers
    BY <1>1, ReadType DEF Answer, Messages, Answers, TypeInv
  <2>2. msg.memory = FullMemory(EnvOf[msg.id])
    BY <1>1, ReadShape DEF Answer, TypeInv, WireInv, Answered, Running
  <2>3. msg = AnswerFrom(cur, FullMemory(EnvOf[cur]))
    BY <1>1, <2>1, <2>2 DEF Answer, Answers, AnswerFrom
  <2>4. rows' = [rows EXCEPT ![cur] = "ok"] /\ credit' = [credit EXCEPT ![cur] = msg]
    BY <1>1 DEF Answer, Record
  <2>5. ASSUME NEW i \in Items \ done, rows'[i] = "ok"
        PROVE  credit'[i] = AnswerFrom(i, FullMemory(EnvOf[i]))
    BY <2>3, <2>4, <2>5 DEF TypeInv, TypeOK
  <2>6. done' = done
    BY <1>1 DEF Answer
  <2>7. QED
    BY <2>5, <2>6 DEF AnswerFrom, FullMemory
<1>2. ASSUME UNCHANGED <<credit, done>>,
             \A i \in Items : rows'[i] = "ok" => rows[i] = "ok"
      PROVE  OkMeansOwnAnswer'
  BY <1>2 DEF AnswerFrom, FullMemory
<1> HIDE DEF OkMeansOwnAnswer
<1>3. CASE HarnessSends
  BY <1>2, <1>3 DEF HarnessSends, SendFails, Hello, IngestEnd, EnvEnd, Finish,
              StagingFails, EnvBegin, Ingest, Query
<1>4. CASE Malformed \/ QueryTimeout
  BY <1>2, <1>4 DEF Malformed, QueryTimeout, Silence, Record, TypeInv, TypeOK
<1>5. CASE IngestFails \/ IngestTimeout
  BY <1>2, <1>5 DEF IngestFails, IngestTimeout, Silence, FailEnv, TypeInv, TypeOK
<1>6. CASE SkipNoise \/ FatalError \/ GarbledError \/ StreamClosed \/ Ready
           \/ IngestDone \/ IngestEndAck \/ NotAcknowledged \/ LateAnswer
           \/ CallTimeout
  BY <1>2, <1>6 DEF SkipNoise, FatalError, GarbledError, StreamClosed, Ready,
              IngestDone, IngestEndAck, NotAcknowledged, LateAnswer, CallTimeout
<1>7. CASE Close
  BY <1>2, <1>7 DEF Close, TypeInv, TypeOK
<1>8. CASE Adapter \/ UNCHANGED vars
  BY <1>2, <1>8 DEF Adapter, Handle, HandlerFails, Chatter, Exit, vars
<1>9. QED
  BY <1>1, <1>3, <1>4, <1>5, <1>6, <1>7, <1>8 DEF Next, Harness, HarnessReceives, Over

LEMMA InitCredit == Init => OkMeansOwnAnswer
BY DEF Init, OkMeansOwnAnswer

-----------------------------------------------------------------------------
(* Theorems.                                                               *)

LEMMA WireInvariant ==
    Spec => [](TypeInv /\ RowsInv /\ WireInv /\ StagedInv /\ OkMeansOwnAnswer)
<1> DEFINE Inv == TypeInv /\ RowsInv /\ WireInv /\ StagedInv /\ OkMeansOwnAnswer
<1>1. Init => Inv
  BY InitType, InitRows, InitWire, InitStaged, InitCredit, ConversationAssumption
<1>2. Inv /\ [Next]_vars => Inv'
  BY NextType, NextRows, NextWire, NextStaged, NextCredit, ConversationAssumption
<1> HIDE DEF Inv
<1>3. Spec => []Inv
  BY <1>1, <1>2, PTL DEF Spec
<1>4. QED
  BY <1>3 DEF Inv

\* A row that says "ok" holds the adapter's answer to that very item, given from
\* a sealed memory of all of its environment, whatever was late, lost or
\* malformed before it.
THEOREM NoMisattribution == Spec => []OkMeansOwnAnswer
BY WireInvariant, PTL

\* While questions are asked the adapter's memory is complete and sealed, and in
\* memory mode no staged copy can be read.
THEOREM PhasesAreSeparated == Spec => []PhasesSeparated
<1>1. WireInv /\ StagedInv => PhasesSeparated
  BY DEF WireInv, Questioned, StagedInv, PhasesSeparated
<1>2. QED
  BY <1>1, WireInvariant, PTL

\* However an environment is left, no copy of its media outlives it.
THEOREM NothingStaysStaged == Spec => []NothingLeftStaged
<1>1. StagedInv => NothingLeftStaged
  BY DEF StagedInv, NothingLeftStaged, InEnv
<1>2. QED
  BY <1>1, WireInvariant, PTL

-----------------------------------------------------------------------------
(* Resynchronisation. While the pipes are in step, every line the harness   *)
(* can still get is one it waits for or the late answer of a question given *)
(* up, and none can come twice.                                             *)

\* What a line answers, and the line a request asks for.
Due(m) == Reply(m.type, m.id)

Owed(r) ==
    CASE r.type = "hello"      -> Reply("ready", None)
      [] r.type = "ingest"     -> Reply("ingest_done", r.id)
      [] r.type = "ingest_end" -> Reply("ingest_end_ack", r.id)
      [] OTHER                 -> Reply("answer", r.id)

Late == {Reply("answer", i) : i \in abandoned}

Awaited ==
    CASE pc = "ready"            -> {Reply("ready", None)}
      [] pc = "ingesting"        -> {Reply("ingest_done", cur)}
      [] pc = "sealing"          -> {Reply("ingest_end_ack", env)}
      [] pc = "asking"           -> Late \cup {Reply("answer", cur)}
      [] pc \in {"env", "ask"}   -> Late
      [] OTHER                   -> {}

\* The places of lines, and of requests, that matter.
Said  == {n \in DOMAIN toHarness : toHarness[n].type # "noise"}
Asked == {n \in DOMAIN toAdapter : toAdapter[n].type \notin {"env_begin", "env_end"}}

InStep ==
    clean /\ Running =>
        /\ \A n \in Said : Due(toHarness[n]) \in Awaited
        /\ \A n \in Asked : Owed(toAdapter[n]) \in Awaited
        /\ \A m, n \in Said : Due(toHarness[m]) = Due(toHarness[n]) => m = n
        /\ \A m, n \in Asked : Owed(toAdapter[m]) = Owed(toAdapter[n]) => m = n
        /\ \A m \in Said, n \in Asked : Due(toHarness[m]) # Owed(toAdapter[n])

\* A question is given up with its row written, so it is not asked again.
GivenUp == \A i \in abandoned : rows[i] \notin Open

SyncInv == InStep /\ GivenUp /\ LateAnswersContained

LEMMA ReplyFields ==
    ASSUME NEW t, NEW x, NEW u, NEW y
    PROVE  /\ Reply(t, x).type = t /\ Reply(t, x).id = x
           /\ Reply(t, x) = Reply(u, y) <=> t = u /\ x = y
BY DEF Reply

\* A line is read: what was awaited still is, unless it is what that line answers.
LEMMA ReadInStep ==
    ASSUME TypeOK, InStep, clean, Running, Read, UNCHANGED toAdapter,
           \A x \in Awaited : x \in Awaited' \/ (msg.type # "noise" /\ x = Due(msg))
    PROVE  InStep'
<1>1. /\ DOMAIN toHarness = 1..Len(toHarness) /\ Len(toHarness) \in Nat \ {0}
      /\ DOMAIN toHarness' = 1..Len(toHarness')
      /\ Len(toHarness') = Len(toHarness) - 1
      /\ \A n \in 1..Len(toHarness') : toHarness'[n] = toHarness[n + 1]
      /\ msg = toHarness[1]
  BY ReadShape
<1>2. msg.type # "noise" => 1 \in Said
  BY <1>1 DEF Said
<1>3. ASSUME NEW n \in Said'
      PROVE  n \in Nat /\ n + 1 \in Said /\ n + 1 # 1 /\ toHarness'[n] = toHarness[n + 1]
  BY <1>1 DEF Said
<1>4. ASSUME NEW n \in Said, n # 1, Due(toHarness[n]) \in Awaited
      PROVE  Due(toHarness[n]) \in Awaited'
  BY <1>1, <1>2, <1>4 DEF InStep
<1>5. \A n \in Said' : Due(toHarness'[n]) \in Awaited'
  BY <1>3, <1>4 DEF InStep
<1>6. ASSUME NEW n \in Asked
      PROVE  Owed(toAdapter[n]) \in Awaited'
  BY <1>1, <1>2 DEF InStep
<1>7. Asked' = Asked
  BY DEF Asked
<1>8. ASSUME NEW m \in Said', NEW n \in Said', Due(toHarness'[m]) = Due(toHarness'[n])
      PROVE  m = n
  <2>1. m + 1 = n + 1
    BY <1>3, <1>8 DEF InStep
  <2>2. QED
    BY <1>3, <2>1
<1>9. ASSUME NEW m \in Said', NEW n \in Asked
      PROVE  Due(toHarness'[m]) # Owed(toAdapter[n])
  BY <1>3 DEF InStep
<1>10. ASSUME NEW m \in Asked, NEW n \in Asked, Owed(toAdapter[m]) = Owed(toAdapter[n])
       PROVE  m = n
  BY <1>10 DEF InStep
<1>11. QED
  BY <1>5, <1>6, <1>7, <1>8, <1>9, <1>10 DEF InStep, Due, Owed, Reply

\* A request is sent: its reply was not awaited before.
LEMMA SendInStep ==
    ASSUME TypeOK, InStep, clean, Running, NEW type, NEW id, Send(type, id),
           UNCHANGED toHarness, Awaited \subseteq Awaited',
           type \notin {"env_begin", "env_end"} =>
               Owed(Request(type, id)) \in Awaited' \ Awaited
    PROVE  InStep'
<1> DEFINE k == Len(toAdapter) + 1
<1>1. /\ DOMAIN toAdapter = 1..Len(toAdapter) /\ Len(toAdapter) \in Nat
      /\ DOMAIN toAdapter' = 1..Len(toAdapter')
      /\ Len(toAdapter') = Len(toAdapter) + 1
      /\ \A n \in 1..Len(toAdapter) : toAdapter'[n] = toAdapter[n]
      /\ toAdapter'[k] = Request(type, id)
  BY SendShape
<1>2. Request(type, id).type = type
  BY DEF Request
<1>3. ASSUME NEW n \in Asked'
      PROVE  \/ n \in Asked /\ toAdapter'[n] = toAdapter[n]
             \/ n = k /\ type \notin {"env_begin", "env_end"}
  BY <1>1, <1>2 DEF Asked
<1>4. Said' = Said
  BY DEF Said
<1>5. ASSUME NEW n \in Asked'
      PROVE  Owed(toAdapter'[n]) \in Awaited'
  BY <1>1, <1>3 DEF InStep
<1>6. ASSUME NEW m \in Asked', NEW n \in Asked', Owed(toAdapter'[m]) = Owed(toAdapter'[n])
      PROVE  m = n
  BY <1>1, <1>3, <1>6 DEF InStep
<1>7. ASSUME NEW m \in Said, NEW n \in Asked'
      PROVE  Due(toHarness[m]) # Owed(toAdapter'[n])
  BY <1>1, <1>3 DEF InStep
<1>8. QED
  BY <1>4, <1>5, <1>6, <1>7 DEF InStep, Due, Owed, Reply

\* A request is handled: its reply, if it asks for one, is said instead of owed.
LEMMA HandleInStep ==
    ASSUME ConversationAssumption, TypeOK, InStep, clean, Running, Handle
    PROVE  InStep'
<1> DEFINE r == request
           k == Len(toHarness) + 1
<1>1. TypeOK /\ Takes /\ toAdapter' = Tail(toAdapter) /\ UNCHANGED <<pc, cur, env, abandoned>>
  BY DEF Handle, driver
<1>2. /\ DOMAIN toAdapter = 1..Len(toAdapter) /\ Len(toAdapter) \in Nat \ {0}
      /\ DOMAIN toAdapter' = 1..Len(toAdapter')
      /\ Len(toAdapter') = Len(toAdapter) - 1
      /\ \A n \in 1..Len(toAdapter') : toAdapter'[n] = toAdapter[n + 1]
      /\ r = toAdapter[1] /\ r \in Requests
  BY <1>1, TakeShape, TakesType
<1>3. Awaited' = Awaited
  BY <1>1 DEF Awaited, Late
<1>4. ASSUME NEW n \in Asked'
      PROVE  n \in Nat /\ n + 1 \in Asked /\ n + 1 # 1 /\ toAdapter'[n] = toAdapter[n + 1]
  BY <1>2 DEF Asked
<1>5. CASE r.type \in {"env_begin", "env_end"}
  <2>1. Replies(r) = <<>>
    BY <1>5 DEF Replies
  <2>2. UNCHANGED toHarness
    BY <2>1, Appended DEF Handle, TypeOK
  <2>3. Said' = Said
    BY <2>2 DEF Said
  <2>4. ASSUME NEW m \in Asked', NEW n \in Asked',
               Owed(toAdapter'[m]) = Owed(toAdapter'[n])
        PROVE  m = n
    <3>1. m + 1 = n + 1
      BY <1>4, <2>4 DEF InStep
    <3>2. QED
      BY <1>4, <3>1
  <2>5. ASSUME NEW n \in Asked'
        PROVE  /\ Owed(toAdapter'[n]) \in Awaited
               /\ \A m \in Said : Due(toHarness[m]) # Owed(toAdapter'[n])
    BY <1>4 DEF InStep
  <2>6. QED
    BY <1>3, <2>2, <2>3, <2>4, <2>5 DEF InStep, Due, Owed, Reply
<1>6. CASE r.type \notin {"env_begin", "env_end"}
  <2>1. 1 \in Asked
    BY <1>2, <1>6 DEF Asked
  <2>2. PICK m : Replies(r) = <<m>> /\ Due(m) = Owed(r) /\ m.type # "noise"
    <3>1. CASE r.type = "hello"
      BY <3>1, ReplyFields DEF Replies, Due, Owed
    <3>2. CASE r.type = "ingest"
      BY <3>2, ReplyFields DEF Replies, Due, Owed
    <3>3. CASE r.type = "ingest_end"
      BY <3>3, ReplyFields DEF Replies, Due, Owed
    <3>4. CASE r.type = "query"
      BY <3>4, ReplyFields DEF Replies, Due, Owed, AnswerFrom
    <3>5. QED
      BY <1>2, <1>6, <3>1, <3>2, <3>3, <3>4 DEF Requests
  <2>3. /\ DOMAIN toHarness = 1..Len(toHarness) /\ Len(toHarness) \in Nat
        /\ DOMAIN toHarness' = 1..k
        /\ \A n \in 1..Len(toHarness) : toHarness'[n] = toHarness[n]
        /\ toHarness'[k] = m
    BY <2>2, HandleShape
  <2>4. ASSUME NEW n \in Said'
        PROVE  (n \in Said /\ toHarness'[n] = toHarness[n]) \/ n = k
    BY <2>3 DEF Said
  <2>5. ASSUME NEW n \in Said'
        PROVE  Due(toHarness'[n]) \in Awaited
    BY <1>2, <2>1, <2>2, <2>3, <2>4 DEF InStep
  <2>6. ASSUME NEW n \in Asked'
        PROVE  Owed(toAdapter'[n]) \in Awaited
    BY <1>4 DEF InStep
  <2>7. ASSUME NEW a \in Said', NEW n \in Said', Due(toHarness'[a]) = Due(toHarness'[n])
        PROVE  a = n
    BY <1>2, <2>1, <2>2, <2>3, <2>4, <2>7 DEF InStep
  <2>8. ASSUME NEW a \in Asked', NEW n \in Asked',
               Owed(toAdapter'[a]) = Owed(toAdapter'[n])
        PROVE  a = n
    <3>1. a + 1 = n + 1
      BY <1>4, <2>8 DEF InStep
    <3>2. QED
      BY <1>4, <3>1
  <2>9. ASSUME NEW a \in Said', NEW n \in Asked'
        PROVE  Due(toHarness'[a]) # Owed(toAdapter'[n])
    <3>1. CASE a = k
      BY <1>2, <1>4, <2>1, <2>2, <2>3, <3>1 DEF InStep
    <3>2. CASE a \in Said /\ toHarness'[a] = toHarness[a]
      BY <1>4, <3>2 DEF InStep
    <3>3. QED
      BY <2>4, <3>1, <3>2
  <2>10. QED
    BY <1>3, <2>5, <2>6, <2>7, <2>8, <2>9 DEF InStep, Due, Owed, Reply
<1>7. QED
  BY <1>5, <1>6

LEMMA HarnessSendsInStep ==
    ASSUME ConversationAssumption, TypeInv, RowsInv, SyncInv, HarnessSends
    PROVE  InStep'
<1> USE DEF process, TypeInv, SyncInv
<1>1. CASE SendFails \/ Finish \/ StagingFails
  BY <1>1 DEF SendFails, Finish, StagingFails, Unwind, InStep, Running
<1> SUFFICES ASSUME clean', Running' PROVE InStep'
  BY DEF InStep
<1>2. CASE Hello
  <2>1. clean /\ Running /\ Send("hello", None) /\ UNCHANGED toHarness
    BY <1>2 DEF Hello, Running
  <2>2. Awaited = {} /\ Awaited' = {Reply("ready", None)}
    BY <1>2 DEF Hello, Awaited
  <2>3. Owed(Request("hello", None)) = Reply("ready", None)
    BY DEF Owed, Request
  <2>4. QED
    BY <2>1, <2>2, <2>3, SendInStep
<1>3. ASSUME NEW e \in Envs, EnvBegin(e)
      PROVE  InStep'
  <2>1. /\ clean /\ Running /\ Send("env_begin", e) /\ UNCHANGED toHarness
        /\ abandoned = {}
    BY <1>3 DEF EnvBegin, Running
  <2>2. Awaited = {}
    BY <1>3, <2>1 DEF EnvBegin, Awaited, Late
  <2>3. QED
    BY <2>1, <2>2, SendInStep
<1>4. ASSUME NEW s \in Sessions, Ingest(s)
      PROVE  InStep'
  <2>1. clean /\ Running /\ Send("ingest", s) /\ UNCHANGED toHarness
    BY <1>4 DEF Ingest, Running
  <2>2. Awaited = {} /\ Awaited' = {Reply("ingest_done", s)}
    BY <1>4 DEF Ingest, Awaited
  <2>3. Owed(Request("ingest", s)) = Reply("ingest_done", s)
    BY DEF Owed, Request
  <2>4. QED
    BY <2>1, <2>2, <2>3, SendInStep
<1>5. CASE IngestEnd
  <2>1. clean /\ Running /\ Send("ingest_end", env) /\ UNCHANGED toHarness
    BY <1>5 DEF IngestEnd, Running
  <2>2. Awaited = {} /\ Awaited' = {Reply("ingest_end_ack", env)}
    BY <1>5 DEF IngestEnd, Awaited
  <2>3. Owed(Request("ingest_end", env)) = Reply("ingest_end_ack", env)
    BY DEF Owed, Request
  <2>4. QED
    BY <2>1, <2>2, <2>3, SendInStep
<1>6. ASSUME NEW i \in Items, Query(i)
      PROVE  InStep'
  <2>1. clean /\ Running /\ Send("query", i) /\ UNCHANGED toHarness
    BY <1>6 DEF Query, Running
  <2>2. Awaited = Late /\ Awaited' = Late \cup {Reply("answer", i)}
    BY <1>6 DEF Query, Awaited, Late
  <2>3. rows[i] \in Open
    BY <1>6 DEF Query, RowsInv, InEnv
  <2>4. Reply("answer", i) \notin Late
    BY <2>3, ReplyFields DEF Late, GivenUp
  <2>5. Owed(Request("query", i)) = Reply("answer", i)
    BY DEF Owed, Request
  <2>6. QED
    BY <2>1, <2>2, <2>4, <2>5, SendInStep
<1>7. CASE EnvEnd
  <2>1. clean /\ Running /\ Send("env_end", env) /\ UNCHANGED toHarness
    BY <1>7 DEF EnvEnd, Running
  <2>2. Awaited' = Awaited
    BY <1>7 DEF EnvEnd, Awaited, Late
  <2>3. QED
    BY <2>1, <2>2, SendInStep
<1>8. QED
  BY <1>1, <1>2, <1>3, <1>4, <1>5, <1>6, <1>7 DEF HarnessSends

\* In step, what is read is noise or what was waited for.
LEMMA HeadAwaited ==
    ASSUME TypeOK, InStep, clean, Running, Read, msg.type # "noise"
    PROVE  Due(msg) \in Awaited
<1>1. 1 \in Said /\ msg = toHarness[1]
  BY ReadShape DEF Said
<1>2. QED
  BY <1>1 DEF InStep

\* No environment fails and no answer is malformed while the pipes are in step.
LEMMA InStepNothingFails ==
    ASSUME TypeInv, InStep, clean, IngestFails \/ Malformed
    PROVE  FALSE
<1>1. CASE IngestFails
  <2>1. Running /\ Read /\ msg.type # "noise" /\ pc = "ingesting"
    BY <1>1 DEF IngestFails, Ordinary, Running
  <2>2. Due(msg) = Reply("ingest_done", cur)
    BY <2>1, HeadAwaited DEF TypeInv, Awaited
  <2>3. QED
    BY <1>1, <2>2, ReplyFields DEF IngestFails, Due
<1>2. CASE Malformed
  <2>1. Running /\ Read /\ msg.type # "noise" /\ pc = "asking"
    BY <1>2 DEF Malformed, Ordinary, Running
  <2>2. Due(msg) \in Late \cup {Reply("answer", cur)}
    BY <2>1, HeadAwaited DEF TypeInv, Awaited
  <2>3. PICK i \in abandoned \cup {cur} : Due(msg) = Reply("answer", i)
    BY <2>2 DEF Late
  <2>4. QED
    BY <1>2, <2>3, ReplyFields DEF Malformed, Due
<1>3. QED
  BY <1>1, <1>2

LEMMA HarnessReceivesInStep ==
    ASSUME TypeInv, SyncInv, HarnessReceives
    PROVE  InStep'
<1> USE DEF process, TypeInv, SyncInv
<1> SUFFICES ASSUME clean', Running' PROVE InStep'
  BY DEF InStep
<1>1. clean
  BY DEF HarnessReceives, SkipNoise, FatalError, GarbledError, StreamClosed, Ready,
         IngestDone, IngestFails, IngestEndAck, NotAcknowledged, Answer, LateAnswer,
         Malformed, QueryTimeout, IngestTimeout, CallTimeout
<1>2. CASE FatalError \/ GarbledError \/ StreamClosed \/ NotAcknowledged
           \/ CallTimeout \/ IngestTimeout
  BY <1>2 DEF FatalError, GarbledError, StreamClosed, NotAcknowledged, CallTimeout,
              IngestTimeout, Unwind, Running
<1>3. CASE SkipNoise
  <2>1. Running /\ Read /\ UNCHANGED toAdapter
    BY <1>3 DEF SkipNoise, Waiting, Running
  <2>2. Awaited' = Awaited
    BY <1>3 DEF SkipNoise, driver, Awaited, Late
  <2>3. QED
    BY <1>1, <2>1, <2>2, ReadInStep
<1>4. CASE Ready
  <2>1. Running /\ Read /\ UNCHANGED toAdapter /\ msg.type = "ready"
    BY <1>4 DEF Ready, Running
  <2>2. Awaited = {Reply("ready", None)}
    BY <1>4 DEF Ready, Awaited
  <2>3. Due(msg) = Reply("ready", None)
    BY <1>1, <2>1, <2>2, HeadAwaited
  <2>4. QED
    BY <1>1, <2>1, <2>2, <2>3, ReadInStep
<1>5. CASE IngestDone
  <2>1. Running /\ Read /\ UNCHANGED toAdapter /\ msg.type = "ingest_done"
    BY <1>5 DEF IngestDone, Running
  <2>2. Awaited = {Due(msg)}
    BY <1>5 DEF IngestDone, Awaited, Due
  <2>3. QED
    BY <1>1, <2>1, <2>2, ReadInStep
<1>6. CASE IngestEndAck
  <2>1. Running /\ Read /\ UNCHANGED toAdapter /\ msg.type = "ingest_end_ack"
    BY <1>6 DEF IngestEndAck, Running
  <2>2. Awaited = {Reply("ingest_end_ack", env)}
    BY <1>6 DEF IngestEndAck, Awaited
  <2>3. Due(msg) = Reply("ingest_end_ack", env)
    BY <1>1, <2>1, <2>2, HeadAwaited
  <2>4. QED
    BY <1>1, <2>1, <2>2, <2>3, ReadInStep
<1>7. CASE Answer
  <2>1. Running /\ Read /\ UNCHANGED toAdapter /\ msg.type = "answer"
    BY <1>7 DEF Answer, Running
  <2>2. Awaited = Late \cup {Due(msg)}
    BY <1>7 DEF Answer, Awaited, Due
  <2>3. Awaited' = Late
    BY <1>7 DEF Answer, Record, Awaited, Late
  <2>4. QED
    BY <1>1, <2>1, <2>2, <2>3, ReadInStep
<1>8. CASE LateAnswer
  <2>1. Running /\ Read /\ UNCHANGED toAdapter /\ msg.type = "answer"
    BY <1>8 DEF LateAnswer, Running
  <2>2. Awaited = Late \cup {Reply("answer", cur)}
    BY <1>8 DEF LateAnswer, Awaited
  <2>3. Awaited' = {Reply("answer", i) : i \in abandoned \ {msg.id}}
                       \cup {Reply("answer", cur)}
    BY <1>8 DEF LateAnswer, driver, Awaited, Late
  <2>4. Due(msg) = Reply("answer", msg.id)
    BY <2>1 DEF Due
  <2>5. ASSUME NEW i \in abandoned
        PROVE  \/ Reply("answer", i) \in Awaited'
               \/ Reply("answer", i) = Due(msg)
    BY <2>3, <2>4
  <2>6. QED
    BY <1>1, <2>1, <2>2, <2>3, <2>5, ReadInStep DEF Late
<1>9. CASE IngestFails \/ Malformed
  BY <1>1, <1>9, InStepNothingFails
<1>10. CASE QueryTimeout
  <2>1. UNCHANGED <<toAdapter, toHarness>> /\ Running
    BY <1>10 DEF QueryTimeout, Silence, Running
  <2>2. Awaited' = Awaited
    <3>1. Awaited = Late \cup {Reply("answer", cur)}
      BY <1>10 DEF QueryTimeout, Silence, Awaited
    <3>2. Awaited' = {Reply("answer", i) : i \in abandoned \cup {cur}}
      BY <1>10 DEF QueryTimeout, Record, Awaited, Late
    <3>3. QED
      BY <3>1, <3>2 DEF Late
  <2>3. Said' = Said /\ Asked' = Asked
    BY <2>1 DEF Said, Asked
  <2>4. QED
    BY <1>1, <2>1, <2>2, <2>3 DEF InStep, Due, Owed, Reply
<1>11. QED
  BY <1>2, <1>3, <1>4, <1>5, <1>6, <1>7, <1>8, <1>9, <1>10 DEF HarnessReceives

LEMMA NextInStep ==
    ASSUME ConversationAssumption, TypeInv, RowsInv, SyncInv, [Next]_vars
    PROVE  InStep'
<1>1. CASE Close \/ HandlerFails
  BY <1>1 DEF Close, HandlerFails, InStep, Running
<1>2. CASE Handle
  <2>1. CASE clean /\ Running
    BY <1>2, <2>1, HandleInStep DEF TypeInv, SyncInv
  <2>2. CASE ~(clean /\ Running)
    BY <1>2, <2>2 DEF Handle, driver, InStep, Running
  <2>3. QED
    BY <2>1, <2>2
<1>3. CASE Chatter
  <2>1. Awaited' = Awaited /\ Asked' = Asked
    BY <1>3 DEF Chatter, driver, Awaited, Late, Asked
  <2>2. Said' = {}
    <3>1. DOMAIN toHarness' = {1} /\ toHarness'[1] = Reply("noise", None)
      BY <1>3 DEF Chatter
    <3>2. QED
      BY <3>1, ReplyFields DEF Said
  <2>3. UNCHANGED <<pc, clean, toAdapter>>
    BY <1>3 DEF Chatter, driver
  <2>4. ASSUME clean, Running
        PROVE  /\ \A n \in Asked : Owed(toAdapter[n]) \in Awaited
               /\ \A m, n \in Asked : Owed(toAdapter[m]) = Owed(toAdapter[n]) => m = n
    BY <2>4 DEF SyncInv, InStep
  <2>5. QED
    BY <2>1, <2>2, <2>3, <2>4 DEF InStep, Owed, Reply, Running
<1>4. CASE Exit
  <2>1. Awaited' = Awaited /\ Said' = Said
    BY <1>4 DEF Exit, driver, Awaited, Late, Said
  <2>2. Asked' = {}
    BY <1>4, EmptySeq DEF Exit, Asked
  <2>3. QED
    BY <1>4, <2>1, <2>2
       DEF Exit, driver, SyncInv, InStep, Due, Owed, Reply, Running
<1>5. CASE UNCHANGED vars
  <2>1. Awaited' = Awaited /\ Said' = Said /\ Asked' = Asked
    BY <1>5 DEF vars, driver, Awaited, Late, Said, Asked
  <2>2. QED
    BY <1>5, <2>1
       DEF vars, driver, SyncInv, InStep, Due, Owed, Reply, Running
<1>6. QED
  BY <1>1, <1>2, <1>3, <1>4, <1>5, HarnessSendsInStep, HarnessReceivesInStep
     DEF Next, Harness, Adapter, Over

LEMMA NextGivenUp ==
    ASSUME TypeInv, RowsInv, GivenUp, [Next]_vars
    PROVE  GivenUp'
<1> USE DEF GivenUp, TypeInv, TypeOK, Open
<1>1. CASE QueryTimeout
  <2>1. /\ abandoned' = abandoned \cup {cur} /\ cur \in Items
        /\ rows' = [rows EXCEPT ![cur] = "timeout"]
    BY <1>1 DEF QueryTimeout, Silence, Record, Control
  <2>2. QED
    BY <2>1
<1>2. CASE Answer \/ Malformed
  BY <1>2 DEF Answer, Malformed, Record
<1>3. CASE IngestFails \/ IngestTimeout
  BY <1>3 DEF IngestFails, IngestTimeout, Silence, FailEnv
<1>4. CASE Close
  BY <1>4 DEF Close
<1>5. CASE HarnessSends
  BY <1>5 DEF HarnessSends, SendFails, Hello, IngestEnd, EnvEnd, Finish, StagingFails,
              EnvBegin, Ingest, Query
<1>6. CASE SkipNoise \/ FatalError \/ GarbledError \/ StreamClosed \/ Ready
           \/ IngestDone \/ IngestEndAck \/ NotAcknowledged \/ LateAnswer
           \/ CallTimeout
  BY <1>6 DEF SkipNoise, FatalError, GarbledError, StreamClosed, Ready, IngestDone,
              IngestEndAck, NotAcknowledged, LateAnswer, CallTimeout, Silence
<1>7. CASE Adapter \/ UNCHANGED vars
  BY <1>7 DEF Adapter, Handle, HandlerFails, Chatter, Exit, vars
<1>8. QED
  BY <1>1, <1>2, <1>3, <1>4, <1>5, <1>6, <1>7
     DEF Next, Harness, HarnessReceives, Over

LEMMA NextContained ==
    ASSUME TypeInv, RowsInv, SyncInv, [Next]_vars
    PROVE  LateAnswersContained'
<1> DEFINE Spared == Open \cup {"ok", "timeout"}
<1> SUFFICES ASSUME clean', outcome' \in {"running", "completed"}
             PROVE  \A i \in Items : rows'[i] \in Spared
  BY DEF LateAnswersContained
<1> USE DEF TypeInv, TypeOK
<1>1. ASSUME clean, outcome \in {"running", "completed"}
      PROVE  \A i \in Items : rows[i] \in Spared
  BY <1>1 DEF SyncInv, LateAnswersContained
<1>2. CASE QueryTimeout \/ Answer
  BY <1>1, <1>2 DEF QueryTimeout, Answer, Silence, Record
<1>3. CASE IngestFails \/ Malformed
  BY <1>3, InStepNothingFails DEF SyncInv, IngestFails, Malformed
<1>4. CASE HandlerFails \/ IngestTimeout
  BY <1>4 DEF HandlerFails, IngestTimeout
<1>5. CASE Close
  BY <1>1, <1>5 DEF Close
<1>6. CASE HarnessSends
  BY <1>1, <1>6 DEF HarnessSends, SendFails, Hello, IngestEnd, EnvEnd, Finish,
              StagingFails, EnvBegin, Ingest, Query, Unwind, RowsInv, Running, Sending
<1>7. CASE FatalError \/ GarbledError \/ StreamClosed \/ NotAcknowledged \/ CallTimeout
  BY <1>7 DEF FatalError, GarbledError, StreamClosed, NotAcknowledged, CallTimeout,
              Unwind
<1>8. CASE SkipNoise \/ Ready \/ IngestDone \/ IngestEndAck \/ LateAnswer
  BY <1>1, <1>8 DEF SkipNoise, Ready, IngestDone, IngestEndAck, LateAnswer, driver
<1>9. CASE Handle \/ Chatter \/ Exit \/ UNCHANGED vars
  BY <1>1, <1>9 DEF Handle, Chatter, Exit, vars, driver
<1>10. QED
  BY <1>2, <1>3, <1>4, <1>5, <1>6, <1>7, <1>8, <1>9
     DEF Next, Harness, HarnessReceives, Adapter, Over

LEMMA InitSync == ConversationAssumption /\ Init => SyncInv
<1> SUFFICES ASSUME Init PROVE SyncInv
  OBVIOUS
<1>1. Said = {} /\ Asked = {}
  BY EmptySeq DEF Init, Said, Asked
<1>2. QED
  BY <1>1 DEF Init, SyncInv, InStep, GivenUp, LateAnswersContained

\* As long as the adapter answers what it handles, no ingest call expires and no
\* environment is begun with a query abandoned, an expired query costs its own
\* item only: the late answer makes no later item malformed and no environment
\* fail.
THEOREM LateAnswersAreContained == Spec => []LateAnswersContained
<1> DEFINE Inv == TypeInv /\ RowsInv /\ SyncInv
<1>1. Init => Inv
  BY InitType, InitRows, InitSync, ConversationAssumption
<1>2. Inv /\ [Next]_vars => Inv'
  BY NextType, NextRows, NextInStep, NextGivenUp, NextContained,
     ConversationAssumption DEF SyncInv
<1>3. Inv => LateAnswersContained
  BY DEF SyncInv
<1> HIDE DEF Inv
<1>4. QED
  BY <1>1, <1>2, <1>3, PTL DEF Spec
=============================================================================
