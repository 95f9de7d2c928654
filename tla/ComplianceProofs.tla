-------------------------- MODULE ComplianceProofs --------------------------
(***************************************************************************)
(* For any operators, tasks, accounts and calls: the types; what a lookup  *)
(* hides was somebody else's; and, for an operator whose calls do not      *)
(* overlap or fail, directives are one-shot, completions stay and the list *)
(* of tasks is complete.  At the end, the same for seed_account.           *)
(***************************************************************************)
EXTENDS ComplianceController, SeededAccounts, TLAPS

\* A call under way knows its operator, and in time its task and directive.
PlacedCaller ==
  {r \in Call : /\ IF r.phase = "idle" THEN r.op = Nil ELSE r.op \in Principals
                /\ r.phase \notin {"idle", "peek"} => r.id \in TaskIds
                /\ r.phase = "consume" => r.no \in Arms
                /\ r.phase = "complete" => r.task \in Task}

CtlShape == CtlTypeOK /\ caller \in [Callers -> PlacedCaller]

LEMMA EndedPlaced ==
  ASSUME NEW answer \in {"done", "hidden"}
  PROVE  /\ Ended(answer) \in PlacedCaller
         /\ Ended(answer).phase = "idle" /\ Ended(answer).op = Nil
         /\ Ended(answer).answer = answer
BY DEF Ended, PlacedCaller, Call, Phases

LEMMA Changed ==
  ASSUME CtlShape, NEW c \in Callers, NEW r \in PlacedCaller, Set(c, r)
  PROVE  /\ caller' \in [Callers -> PlacedCaller] /\ caller'[c] = r
         /\ \A d \in Callers \ {c} : caller'[d] = caller[d]
BY DEF CtlShape, Set

\* Call c moves to r, or ends.
CallerMoves(c) ==
  /\ caller' \in [Callers -> PlacedCaller]
  /\ \A d \in Callers \ {c} : caller'[d] = caller[d]

LEMMA EndMoves ==
  ASSUME CtlShape, NEW c \in Callers, NEW answer \in {"done", "hidden"}, End(c, answer)
  PROVE  CallerMoves(c) /\ caller'[c] = Ended(answer) /\ caller'[c].phase = "idle"
BY EndedPlaced, Changed DEF End, CallerMoves

LEMMA Here ==
  ASSUME CtlShape, NEW c \in Callers, caller[c].phase # "idle"
  PROVE  /\ caller[c] \in PlacedCaller /\ caller[c] \in Call /\ caller[c].op \in Principals
         /\ caller[c].phase # "peek" => caller[c].id \in TaskIds
         /\ caller[c].phase = "consume" => caller[c].no \in Arms
         /\ caller[c].phase = "complete" => caller[c].task \in Task
BY DEF CtlShape, PlacedCaller

LEMMA StartMoves ==
  ASSUME CtlShape, NEW c \in Callers, NEW o \in Principals, CallStart(c, o)
  PROVE  /\ CallerMoves(c) /\ caller[c].phase = "idle"
         /\ caller'[c].op = o /\ caller'[c].phase \in {"peek", "find", "own"}
         /\ caller'[c].no = Nil
         /\ UNCHANGED <<arm, task, taskOwner, taskIndex, armed, uses, told, created,
                        renewed, outlived>>
         /\ held' \subseteq held \cup {c}
         /\ \/ Join(c, o)
            \/ caller'[c].phase = "own" /\ UNCHANGED orderly
<1>1. ASSUME NEW a \in Accounts \cup {Nil}, StartGetSignals(c, o, a)
      PROVE  CallerMoves(c) /\ caller'[c].op = o /\ caller'[c].phase = "peek" /\ caller'[c].no = Nil
  <2> DEFINE r == [Ended("done") EXCEPT !.phase = "peek", !.op = o, !.account = a]
  <2>1. Set(c, r)
    BY <1>1 DEF StartGetSignals
  <2>2. r \in PlacedCaller
    BY DEF Ended, PlacedCaller, Call, Phases
  <2>3. r.op = o /\ r.phase = "peek" /\ r.no = Nil
    BY DEF Ended
  <2> HIDE DEF r
  <2> QED
    BY <2>1, <2>2, <2>3, Changed DEF CallerMoves
<1>2. ASSUME NEW t \in TaskIds, StartComplete(c, o, t)
      PROVE  CallerMoves(c) /\ caller'[c].op = o /\ caller'[c].phase = "find" /\ caller'[c].no = Nil
  <2> DEFINE r == [Ended("done") EXCEPT !.phase = "find", !.op = o, !.id = t]
  <2>1. Set(c, r)
    BY <1>2 DEF StartComplete
  <2>2. r \in PlacedCaller
    BY DEF Ended, PlacedCaller, Call, Phases
  <2>3. r.op = o /\ r.phase = "find" /\ r.no = Nil
    BY DEF Ended
  <2> HIDE DEF r
  <2> QED
    BY <2>1, <2>2, <2>3, Changed DEF CallerMoves
<1>3. ASSUME NEW t \in TaskIds, NEW a \in Accounts \cup {Nil}, StartLookup(c, o, t, a)
      PROVE  CallerMoves(c) /\ caller'[c].op = o /\ caller'[c].phase = "own" /\ caller'[c].no = Nil
  <2> DEFINE r == [Ended("done") EXCEPT !.phase = "own", !.op = o, !.id = t, !.account = a]
  <2>1. Set(c, r)
    BY <1>3 DEF StartLookup
  <2>2. r \in PlacedCaller
    BY DEF Ended, PlacedCaller, Call, Phases
  <2>3. r.op = o /\ r.phase = "own" /\ r.no = Nil
    BY DEF Ended
  <2> HIDE DEF r
  <2> QED
    BY <2>1, <2>2, <2>3, Changed DEF CallerMoves
<1> QED
  BY <1>1, <1>2, <1>3 DEF CallStart, StartGetSignals, StartComplete, StartLookup, In, listAges

LEMMA PeekMoves ==
  ASSUME CtlShape, NEW c \in Callers, Peek(c)
  PROVE  /\ CallerMoves(c) /\ caller[c].op \in Principals
         /\ \/ caller'[c].phase = "idle" /\ caller'[c].no = Nil
            \/ /\ arm[caller[c].op] \in Directive
               /\ caller'[c].phase = "consume" /\ caller'[c].op = caller[c].op
               /\ caller'[c].no = arm[caller[c].op].no
<1> DEFINE d == arm[caller[c].op]
           r == [caller[c] EXCEPT !.phase = "consume", !.id = d.id, !.no = d.no]
<1>1. caller[c] \in Call /\ caller[c].op \in Principals
  BY Here DEF Peek, In
<1>2. CASE d = Nil
  <2>1. End(c, "done") /\ Ended("done").no = Nil
    BY <1>2 DEF Peek, Ended
  <2> QED
    BY <1>1, <2>1, EndMoves
<1>3. CASE d # Nil
  <2>1. d \in Directive /\ d.no \in Arms /\ d.id \in TaskIds
    BY <1>1, <1>3 DEF CtlShape, CtlTypeOK, Directive
  <2>2. Set(c, r)
    BY <1>3 DEF Peek
  <2>3. r \in PlacedCaller /\ r.phase = "consume" /\ r.op = caller[c].op /\ r.no = d.no
    BY <1>1, <2>1 DEF PlacedCaller, Call, Phases
  <2> HIDE DEF r
  <2> QED
    BY <1>1, <2>1, <2>2, <2>3, Changed DEF CallerMoves
<1> QED
  BY <1>2, <1>3

LEMMA CallerConsumes ==
  ASSUME CtlShape, NEW c \in Callers, Consume(c)
  PROVE  /\ CallerMoves(c)
         /\ caller[c].op \in Principals /\ caller[c].id \in TaskIds /\ caller[c].no \in Arms
         /\ caller'[c].phase = "record" /\ caller'[c].op = caller[c].op
         /\ caller'[c].id = caller[c].id /\ caller'[c].no = caller[c].no
         /\ "index" \in caller'[c].due
<1> DEFINE r == [caller[c] EXCEPT !.phase = "record", !.due = {"task", "owner", "index"}]
<1>1. /\ caller[c] \in Call
      /\ caller[c].op \in Principals /\ caller[c].id \in TaskIds /\ caller[c].no \in Arms
  BY Here DEF Consume, In
<1>2. Set(c, r)
  BY DEF Consume
<1>3. /\ r \in PlacedCaller /\ r.phase = "record" /\ r.op = caller[c].op /\ r.id = caller[c].id
      /\ r.no = caller[c].no /\ "index" \in r.due
  BY <1>1 DEF PlacedCaller, Call, Phases
<1> HIDE DEF r
<1> QED
  BY <1>1, <1>2, <1>3, Changed DEF CallerMoves

LEMMA WrittenMoves ==
  ASSUME CtlShape, NEW c \in Callers, NEW key, Written(c, key),
         caller[c].phase \in {"record", "append"}
  PROVE  /\ CallerMoves(c) /\ caller[c].op \in Principals /\ caller[c].id \in TaskIds
         /\ \/ caller'[c].phase = "idle" /\ caller[c].due \subseteq {key} /\ caller'[c].no = Nil
            \/ /\ caller'[c].phase = caller[c].phase /\ caller'[c].op = caller[c].op
               /\ caller'[c].id = caller[c].id /\ caller'[c].no = caller[c].no
               /\ caller'[c].ids = caller[c].ids /\ caller'[c].due = caller[c].due \ {key}
<1> DEFINE r == [caller[c] EXCEPT !.due = caller[c].due \ {key}]
<1>1. caller[c] \in Call /\ caller[c].op \in Principals /\ caller[c].id \in TaskIds
  BY Here
<1>2. CASE caller[c].due \ {key} = {}
  <2>1. End(c, "done") /\ Ended("done").no = Nil
    BY <1>2 DEF Written, Ended
  <2> QED
    BY <1>1, <1>2, <2>1, EndMoves
<1>3. CASE caller[c].due \ {key} # {}
  <2>1. Set(c, r)
    BY <1>3 DEF Written
  <2>2. /\ r \in PlacedCaller /\ r.phase = caller[c].phase /\ r.op = caller[c].op
        /\ r.id = caller[c].id /\ r.no = caller[c].no
        /\ r.ids = caller[c].ids /\ r.due = caller[c].due \ {key}
    BY <1>1 DEF PlacedCaller, Call, Phases
  <2> HIDE DEF r
  <2> QED
    BY <1>1, <2>1, <2>2, Changed DEF CallerMoves
<1> QED
  BY <1>2, <1>3

LEMMA CallerReads ==
  ASSUME CtlShape, NEW c \in Callers, ReadIndex(c), caller[c].id \notin taskIndex[caller[c].op]
  PROVE  /\ CallerMoves(c) /\ caller[c].op \in Principals /\ caller[c].id \in TaskIds
         /\ caller'[c].phase = "append" /\ caller'[c].op = caller[c].op
         /\ caller'[c].id = caller[c].id /\ caller'[c].no = caller[c].no
         /\ caller'[c].ids = taskIndex[caller[c].op] /\ caller'[c].due = caller[c].due
<1> DEFINE r == [caller[c] EXCEPT !.phase = "append", !.ids = taskIndex[caller[c].op]]
<1>1. /\ caller[c] \in Call /\ caller[c].op \in Principals /\ caller[c].id \in TaskIds
      /\ taskIndex[caller[c].op] \in SUBSET TaskIds
  BY Here DEF ReadIndex, In, CtlShape, CtlTypeOK
<1>2. Set(c, r)
  BY DEF ReadIndex
<1>3. /\ r \in PlacedCaller /\ r.phase = "append" /\ r.op = caller[c].op /\ r.id = caller[c].id
      /\ r.no = caller[c].no /\ r.ids = taskIndex[caller[c].op] /\ r.due = caller[c].due
  BY <1>1 DEF PlacedCaller, Call, Phases
<1> HIDE DEF r
<1> QED
  BY <1>1, <1>2, <1>3, Changed DEF CallerMoves

LEMMA FindMoves ==
  ASSUME CtlShape, NEW c \in Callers, FindTask(c)
  PROVE  /\ CallerMoves(c) /\ caller[c].op \in Principals /\ caller[c].id \in TaskIds
         /\ \/ caller'[c].phase = "idle" /\ caller'[c].no = Nil
            \/ /\ caller'[c].phase = "complete" /\ caller'[c].op = caller[c].op
               /\ caller'[c].id = caller[c].id /\ caller'[c].no = caller[c].no
               /\ task[caller[c].op][caller[c].id] # Nil
<1> DEFINE found == task[caller[c].op][caller[c].id]
           r == [caller[c] EXCEPT !.phase = "complete", !.task = found]
<1>1. caller[c] \in Call /\ caller[c].op \in Principals /\ caller[c].id \in TaskIds
  BY Here DEF FindTask, In
<1>2. CASE found = Nil
  <2>1. End(c, "done") /\ Ended("done").no = Nil
    BY <1>2 DEF FindTask, Ended
  <2> QED
    BY <1>1, <2>1, EndMoves
<1>3. CASE found # Nil
  <2>1. found \in Task
    BY <1>1, <1>3 DEF CtlShape, CtlTypeOK
  <2>2. Set(c, r)
    BY <1>3 DEF FindTask
  <2>3. /\ r \in PlacedCaller /\ r.phase = "complete" /\ r.op = caller[c].op
        /\ r.id = caller[c].id /\ r.no = caller[c].no
    BY <1>1, <2>1 DEF PlacedCaller, Call, Phases
  <2> HIDE DEF r
  <2> QED
    BY <1>1, <1>3, <2>2, <2>3, Changed DEF CallerMoves
<1> QED
  BY <1>2, <1>3

LEMMA CompletedMoves ==
  ASSUME CtlShape, NEW c \in Callers, PutCompleted(c)
  PROVE  /\ CallerMoves(c) /\ caller[c].op \in Principals /\ caller[c].id \in TaskIds
         /\ caller[c].task \in Task
         /\ \/ caller'[c].phase = "idle" /\ caller'[c].no = Nil
            \/ /\ caller'[c].phase = "post" /\ caller'[c].op = caller[c].op
               /\ caller'[c].no = caller[c].no
<1> DEFINE r == [caller[c] EXCEPT !.phase = "post"]
<1>1. /\ caller[c] \in Call /\ caller[c].op \in Principals /\ caller[c].id \in TaskIds
      /\ caller[c].task \in Task
  BY Here DEF PutCompleted, In
<1>2. CASE End(c, "done")
  <2>1. Ended("done").no = Nil
    BY DEF Ended
  <2> QED
    BY <1>1, <1>2, <2>1, EndMoves
<1>3. CASE Set(c, r)
  <2>1. r \in PlacedCaller /\ r.phase = "post" /\ r.op = caller[c].op /\ r.no = caller[c].no
    BY <1>1 DEF PlacedCaller, Call, Phases
  <2> HIDE DEF r
  <2> QED
    BY <1>1, <1>3, <2>1, Changed DEF CallerMoves
<1> QED
  BY <1>2, <1>3 DEF PutCompleted

LEMMA OwnMoves ==
  ASSUME CtlShape, NEW c \in Callers, LookUpOwn(c)
  PROVE  /\ CallerMoves(c) /\ caller[c].op \in Principals /\ caller[c].id \in TaskIds
         /\ \/ caller'[c].phase = "idle" /\ caller'[c].no = Nil
            \/ /\ caller'[c].phase = "owner" /\ caller'[c].op = caller[c].op
               /\ caller'[c].no = caller[c].no
<1> DEFINE r == [caller[c] EXCEPT !.phase = "owner"]
<1>1. caller[c] \in Call /\ caller[c].op \in Principals /\ caller[c].id \in TaskIds
  BY Here DEF LookUpOwn, In
<1>2. CASE End(c, "done") \/ End(c, "hidden")
  <2>1. Ended("done").no = Nil /\ Ended("hidden").no = Nil
    BY DEF Ended
  <2> QED
    BY <1>1, <1>2, <2>1, EndMoves
<1>3. CASE Set(c, r)
  <2>1. r \in PlacedCaller /\ r.phase = "owner" /\ r.op = caller[c].op /\ r.no = caller[c].no
    BY <1>1 DEF PlacedCaller, Call, Phases
  <2> HIDE DEF r
  <2> QED
    BY <1>1, <1>3, <2>1, Changed DEF CallerMoves
<1> QED
  BY <1>2, <1>3 DEF LookUpOwn

\* The steps after which a call is over.
CallerOver(c) == Deliver(c) \/ LookUpOwner(c) \/ CallDies(c)

LEMMA CallerOverMoves ==
  ASSUME CtlShape, NEW c \in Callers, CallerOver(c)
  PROVE  /\ CallerMoves(c) /\ caller[c].phase # "idle" /\ caller[c].op \in Principals
         /\ caller'[c].phase = "idle" /\ caller'[c].no = Nil
<1>1. caller[c].phase # "idle"
  BY DEF CallerOver, Deliver, LookUpOwner, CallDies, In
<1>2. \E answer \in {"done", "hidden"} : End(c, answer)
  BY DEF CallerOver, Deliver, LookUpOwner, CallDies
<1>3. Ended("done").no = Nil /\ Ended("hidden").no = Nil
  BY DEF Ended
<1> QED
  BY <1>1, <1>2, <1>3, EndMoves, Here

\* The puts of the three keys.
Puts(c) == PutTask(c) \/ PutOwner(c) \/ AppendIndex(c)

LEMMA CallerStepMoves ==
  ASSUME CtlShape, NEW c \in Callers, CallStep(c)
  PROVE  /\ CallerMoves(c) /\ caller[c].phase # "idle" /\ caller[c].op \in Principals
         /\ \/ caller'[c].phase = "idle" /\ caller'[c].no = Nil
            \/ /\ caller'[c].op = caller[c].op
               /\ caller'[c].no \in {caller[c].no, arm[caller[c].op].no}
               /\ caller'[c].no = caller[c].no \/ arm[caller[c].op] \in Directive
<1>1. caller[c].phase # "idle"
  BY DEF CallStep, Peek, Consume, PutTask, PutOwner, ReadIndex, AppendIndex, FindTask,
     PutCompleted, Deliver, LookUpOwn, LookUpOwner, CallDies, In
<1>2. CASE Puts(c) \/ ReadIndex(c)
  <2>1. caller[c].phase \in {"record", "append"}
    BY <1>2 DEF Puts, PutTask, PutOwner, ReadIndex, AppendIndex, In
  <2>2. CASE \E key \in {"task", "owner", "index"} : Written(c, key)
    BY <1>1, <2>1, <2>2, WrittenMoves
  <2>3. CASE ReadIndex(c) /\ caller[c].id \notin taskIndex[caller[c].op]
    BY <1>1, <2>3, CallerReads
  <2> QED
    BY <1>2, <2>2, <2>3 DEF Puts, PutTask, PutOwner, ReadIndex, AppendIndex
<1>3. CASE Peek(c)
  BY <1>1, <1>3, PeekMoves
<1>4. CASE Consume(c)
  BY <1>1, <1>4, CallerConsumes
<1>5. CASE FindTask(c)
  BY <1>1, <1>5, FindMoves
<1>6. CASE PutCompleted(c)
  BY <1>1, <1>6, CompletedMoves
<1>7. CASE LookUpOwn(c)
  BY <1>1, <1>7, OwnMoves
<1>8. CASE CallerOver(c)
  BY <1>8, CallerOverMoves
<1> QED
  BY <1>2, <1>3, <1>4, <1>5, <1>6, <1>7, <1>8 DEF CallStep, Puts, CallerOver

\* Which steps lead where.
LEMMA PhaseFrom ==
  ASSUME CtlShape, NEW c \in Callers, CallStep(c)
  PROVE  /\ caller'[c].phase = "consume" => Peek(c)
         /\ caller'[c].phase = "complete" => FindTask(c)
         /\ caller'[c].phase \in {"record", "append"} => Consume(c) \/ Puts(c) \/ ReadIndex(c)
<1>1. CASE Puts(c) \/ ReadIndex(c)
  <2>1. caller[c].phase \in {"record", "append"}
    BY <1>1 DEF Puts, PutTask, PutOwner, ReadIndex, AppendIndex, In
  <2>2. CASE \E key \in {"task", "owner", "index"} : Written(c, key)
    BY <1>1, <2>1, <2>2, WrittenMoves
  <2>3. CASE ReadIndex(c) /\ caller[c].id \notin taskIndex[caller[c].op]
    BY <1>1, <2>3, CallerReads
  <2> QED
    BY <1>1, <2>2, <2>3 DEF Puts, PutTask, PutOwner, ReadIndex, AppendIndex
<1>2. CASE Peek(c)
  BY <1>2, PeekMoves
<1>3. CASE Consume(c)
  BY <1>3, CallerConsumes
<1>4. CASE FindTask(c)
  BY <1>4, FindMoves
<1>5. CASE PutCompleted(c)
  BY <1>5, CompletedMoves
<1>6. CASE LookUpOwn(c)
  BY <1>6, OwnMoves
<1>7. CASE CallerOver(c)
  BY <1>7, CallerOverMoves
<1> QED
  BY <1>1, <1>2, <1>3, <1>4, <1>5, <1>6, <1>7 DEF CallStep, Puts, CallerOver

-----------------------------------------------------------------------------
(* The types.                                                              *)

LEMMA CtlShapeInit == CtlInit => CtlShape
<1> SUFFICES ASSUME CtlInit PROVE CtlShape
  OBVIOUS
<1>1. caller \in [Callers -> PlacedCaller] /\ caller \in [Callers -> Call]
  BY EndedPlaced DEF CtlInit, PlacedCaller
<1>2. task \in [Principals -> [TaskIds -> Task \cup {Nil}]]
  BY DEF CtlInit
<1>3. uses \in [Principals -> [Arms -> Nat]]
  BY DEF CtlInit
<1> QED
  BY <1>1, <1>2, <1>3, ControllerAssumption DEF CtlInit, CtlTypeOK, CtlShape

\* The puts, field by field.
LEMMA PutTypes ==
  ASSUME CtlShape, NEW c \in Callers, PutTask(c) \/ PutCompleted(c)
  PROVE  /\ caller[c].op \in Principals /\ caller[c].id \in TaskIds
         /\ task' \in [Principals -> [TaskIds -> Task \cup {Nil}]]
         /\ task'[caller[c].op][caller[c].id] \in Task
         /\ task'[caller[c].op][caller[c].id].status =
              IF PutTask(c) THEN "submitted" ELSE "completed"
         /\ \A o \in Principals, t \in TaskIds :
              o # caller[c].op \/ t # caller[c].id => task'[o][t] = task[o][t]
<1>1. /\ caller[c] \in Call /\ caller[c].op \in Principals /\ caller[c].id \in TaskIds
      /\ PutCompleted(c) => caller[c].task \in Task
      /\ ~(PutTask(c) /\ PutCompleted(c))
  BY Here DEF PutTask, PutCompleted, In
<1>2. task \in [Principals -> [TaskIds -> Task \cup {Nil}]]
  BY DEF CtlShape, CtlTypeOK
<1>3. PICK v : /\ v \in Task
               /\ v.status = IF PutTask(c) THEN "submitted" ELSE "completed"
               /\ task' = [task EXCEPT ![caller[c].op] =
                    [task[caller[c].op] EXCEPT ![caller[c].id] = v]]
  <2>1. CASE PutTask(c)
    <3> DEFINE w == [status |-> "submitted", account |-> caller[c].account]
    <3>1. w \in Task /\ w.status = "submitted"
      BY <1>1 DEF Call, Task
    <3>2. task' = [task EXCEPT ![caller[c].op] =
                    [task[caller[c].op] EXCEPT ![caller[c].id] = w]]
      BY <2>1 DEF PutTask
    <3> HIDE DEF w
    <3> QED
      BY <2>1, <3>1, <3>2
  <2>2. CASE PutCompleted(c)
    <3> DEFINE w == [caller[c].task EXCEPT !.status = "completed"]
    <3>1. w \in Task /\ w.status = "completed"
      BY <1>1, <2>2 DEF Task
    <3>2. task' = [task EXCEPT ![caller[c].op] =
                    [task[caller[c].op] EXCEPT ![caller[c].id] = w]]
      BY <2>2 DEF PutCompleted
    <3>3. ~PutTask(c)
      BY <1>1, <2>2
    <3> HIDE DEF w
    <3> QED
      BY <3>1, <3>2, <3>3
  <2> QED
    BY <2>1, <2>2
<1> DEFINE row == [task[caller[c].op] EXCEPT ![caller[c].id] = v]
<1>4. /\ row \in [TaskIds -> Task \cup {Nil}] /\ row[caller[c].id] = v
      /\ \A t \in TaskIds : t # caller[c].id => row[t] = task[caller[c].op][t]
  BY <1>1, <1>2, <1>3
<1>5. task' = [task EXCEPT ![caller[c].op] = row]
  BY <1>3
<1> HIDE DEF row
<1>6. /\ task' \in [Principals -> [TaskIds -> Task \cup {Nil}]] /\ task'[caller[c].op] = row
      /\ \A o \in Principals : o # caller[c].op => task'[o] = task[o]
  BY <1>1, <1>2, <1>4, <1>5
<1> QED
  BY <1>1, <1>3, <1>4, <1>6

LEMMA UseTypes ==
  ASSUME CtlShape, NEW c \in Callers, Consume(c)
  PROVE  /\ uses' \in [Principals -> [Arms -> Nat]]
         /\ \A o \in Principals, n \in Arms :
              uses'[o][n] = IF o = caller[c].op /\ n = caller[c].no THEN uses[o][n] + 1
                                                                   ELSE uses[o][n]
<1>1. caller[c].op \in Principals /\ caller[c].no \in Arms
  BY CallerConsumes
<1>2. /\ uses \in [Principals -> [Arms -> Nat]]
      /\ uses' = [uses EXCEPT ![caller[c].op] =
                   [uses[caller[c].op] EXCEPT ![caller[c].no] = @ + 1]]
  BY DEF Consume, CtlShape, CtlTypeOK
<1>3. [uses[caller[c].op] EXCEPT ![caller[c].no] = @ + 1] \in [Arms -> Nat]
  BY <1>1, <1>2
<1>4. uses' \in [Principals -> [Arms -> Nat]]
  BY <1>1, <1>2, <1>3
<1>5. ASSUME NEW o \in Principals, NEW n \in Arms
      PROVE  uses'[o][n] = IF o = caller[c].op /\ n = caller[c].no THEN uses[o][n] + 1
                                                                  ELSE uses[o][n]
  BY <1>1, <1>2
<1> QED
  BY <1>4, <1>5

\* Steps of no call: arming, and keys that lapse.
Apart ==
  \/ \E o \in Principals, t \in TaskIds : Arm(o, t) \/ LapseTask(o, t)
  \/ \E o \in Principals : LapseArm(o) \/ LapseIndex(o)
  \/ \E t \in TaskIds : LapseOwner(t)

LEMMA ApartTypes == ASSUME CtlShape, Apart PROVE CtlShape'
<1>0. CtlTypeOK /\ caller' = caller
  BY DEF CtlShape, Apart, Arm, LapseTask, LapseArm, LapseIndex, LapseOwner
<1>1. ASSUME NEW o \in Principals, NEW t \in TaskIds, Arm(o, t)
      PROVE  CtlShape'
  <2>1. armed + 1 \in Arms /\ armed' \in 0..MaxArms
    BY <1>0, <1>1, ControllerAssumption DEF Arm, Arms, CtlTypeOK
  <2>2. [no |-> armed + 1, id |-> t] \in Directive
    BY <2>1 DEF Directive
  <2>3. orderly' \subseteq Principals
    BY <1>0, <1>1 DEF Arm, CtlTypeOK
  <2> QED
    BY <1>0, <1>1, <2>1, <2>2, <2>3 DEF Arm, CtlTypeOK, CtlShape, listAges
<1>2. ASSUME NEW o \in Principals, NEW t \in TaskIds, LapseTask(o, t)
      PROVE  CtlShape'
  <2>1. task' = [task EXCEPT ![o] = [task[o] EXCEPT ![t] = Nil]]
    BY <1>2 DEF LapseTask
  <2>2. [task[o] EXCEPT ![t] = Nil] \in [TaskIds -> Task \cup {Nil}]
    BY <1>0 DEF CtlTypeOK
  <2>3. task' \in [Principals -> [TaskIds -> Task \cup {Nil}]]
    BY <1>0, <2>1, <2>2 DEF CtlTypeOK
  <2> QED
    BY <1>0, <1>2, <2>3 DEF LapseTask, CtlTypeOK, CtlShape
<1>3. CASE \/ \E o \in Principals : LapseArm(o)
           \/ \E t \in TaskIds : LapseOwner(t)
  BY <1>0, <1>3 DEF LapseArm, LapseOwner, CtlTypeOK, CtlShape, listAges
<1>4. ASSUME NEW o \in Principals, LapseIndex(o)
      PROVE  CtlShape'
  <2>1. taskIndex[o] \subseteq TaskIds
    BY <1>0 DEF CtlTypeOK
  <2>2. renewed' \subseteq Principals \X TaskIds /\ outlived' \subseteq Principals \X TaskIds
    BY <1>0, <1>4, <2>1 DEF LapseIndex, CtlTypeOK
  <2>3. taskIndex' \in [Principals -> SUBSET TaskIds]
    BY <1>0, <1>4 DEF LapseIndex, CtlTypeOK
  <2> QED
    BY <1>0, <1>4, <2>2, <2>3 DEF LapseIndex, CtlTypeOK, CtlShape
<1> QED
  BY <1>1, <1>2, <1>3, <1>4 DEF Apart

LEMMA CtlShapeStep == CtlShape /\ [CtlNext]_ctlVars => CtlShape'
<1> SUFFICES ASSUME CtlShape, [CtlNext]_ctlVars PROVE CtlShape'
  OBVIOUS
<1>0. CtlTypeOK
  BY DEF CtlShape
<1>1. ASSUME NEW c \in Callers, NEW o \in Principals, CallStart(c, o)
      PROVE  CtlShape'
  <2>1. caller' \in [Callers -> PlacedCaller] /\ caller' \in [Callers -> Call]
    BY <1>1, StartMoves DEF CallerMoves, PlacedCaller
  <2>2. /\ UNCHANGED <<arm, task, taskOwner, taskIndex, armed, uses, told, created,
                       renewed, outlived>>
        /\ orderly' \subseteq orderly /\ held' \subseteq Callers
    BY <1>0, <1>1, StartMoves DEF Join, CtlTypeOK
  <2> QED
    BY <1>0, <2>1, <2>2 DEF CtlShape, CtlTypeOK
<1>2. ASSUME NEW c \in Callers, CallStep(c)
      PROVE  CtlShape'
  <2>1. /\ caller' \in [Callers -> PlacedCaller] /\ caller' \in [Callers -> Call]
        /\ caller[c].op \in Principals
    BY <1>2, CallerStepMoves DEF CallerMoves, PlacedCaller
  <2>2. CASE Peek(c) \/ ReadIndex(c) \/ FindTask(c) \/ LookUpOwn(c) \/ CallerOver(c)
    <3>1. /\ UNCHANGED <<arm, task, taskOwner, taskIndex, armed, uses, told, created,
                         renewed, outlived>>
          /\ orderly' \subseteq orderly /\ held' \subseteq held
      BY <2>2 DEF Peek, ReadIndex, FindTask, LookUpOwn, CallerOver, Deliver, LookUpOwner,
         CallDies, listAges
    <3> QED
      BY <1>0, <2>1, <3>1 DEF CtlShape, CtlTypeOK
  <2>3. CASE Consume(c)
    <3>1. /\ arm' = [arm EXCEPT ![caller[c].op] = Nil] /\ told' \subseteq told
          /\ UNCHANGED <<task, taskOwner, taskIndex, armed, created, orderly,
                         renewed, outlived, held>>
      BY <2>3 DEF Consume, listAges
    <3>2. uses' \in [Principals -> [Arms -> Nat]]
      BY <2>3, UseTypes
    <3> QED
      BY <1>0, <2>1, <3>1, <3>2 DEF CtlShape, CtlTypeOK
  <2>4. CASE PutTask(c) \/ PutCompleted(c)
    <3>1. /\ caller[c].id \in TaskIds
          /\ task' \in [Principals -> [TaskIds -> Task \cup {Nil}]]
      BY <2>4, PutTypes
    <3>2. /\ UNCHANGED <<arm, taskOwner, taskIndex, armed, uses, orderly, outlived, held>>
          /\ told' \subseteq told \cup {<<caller[c].op, caller[c].id>>}
          /\ created' \subseteq created \cup {<<caller[c].op, caller[c].id>>}
          /\ renewed' \subseteq renewed \cup {<<caller[c].op, caller[c].id>>}
      BY <2>4 DEF PutTask, PutCompleted, RenewTask
    <3> QED
      BY <1>0, <2>1, <3>1, <3>2 DEF CtlShape, CtlTypeOK
  <2>5. CASE PutOwner(c)
    <3>1. caller[c].id \in TaskIds
      BY <2>5, Here DEF PutOwner, In
    <3>2. /\ UNCHANGED <<arm, task, taskIndex, armed, uses, told, orderly, renewed, outlived,
                         held>>
          /\ taskOwner' = [taskOwner EXCEPT ![caller[c].id] = caller[c].op]
          /\ created' = created \cup {<<caller[c].op, caller[c].id>>}
      BY <2>5 DEF PutOwner, listAges
    <3> QED
      BY <1>0, <2>1, <3>1, <3>2 DEF CtlShape, CtlTypeOK
  <2>6. CASE AppendIndex(c)
    <3>1. caller[c].id \in TaskIds /\ caller[c] \in Call
      BY <2>6, Here DEF AppendIndex, In
    <3>2. /\ UNCHANGED <<arm, task, taskOwner, armed, uses, told, created, orderly, held>>
          /\ renewed' \subseteq renewed /\ outlived' \subseteq outlived
          /\ taskIndex' = [taskIndex EXCEPT ![caller[c].op] =
               caller[c].ids \cup {caller[c].id}]
      BY <2>6 DEF AppendIndex
    <3>3. caller[c].ids \cup {caller[c].id} \subseteq TaskIds
      BY <3>1 DEF Call
    <3> QED
      BY <1>0, <2>1, <3>2, <3>3 DEF CtlShape, CtlTypeOK
  <2> QED
    BY <1>2, <2>2, <2>3, <2>4, <2>5, <2>6 DEF CallStep, CallerOver
<1>3. CASE Apart
  BY <1>3, ApartTypes
<1>4. CASE UNCHANGED ctlVars
  BY <1>0, <1>4 DEF ctlVars, CtlShape, CtlTypeOK
<1> QED
  BY <1>1, <1>2, <1>3, <1>4 DEF CtlNext, Apart

LEMMA CtlShapeAlways == CtlSpec => []CtlShape
BY CtlShapeInit, CtlShapeStep, PTL DEF CtlSpec

\* Every variable keeps its type, whatever overlaps, fails or lapses.
THEOREM CtlTypeCorrect == CtlSpec => []CtlTypeOK
<1>1. CtlShape => CtlTypeOK
  BY DEF CtlShape
<1> QED
  BY <1>1, CtlShapeAlways, PTL

-----------------------------------------------------------------------------
(* Lookups.                                                                *)

\* Whatever is stored about a task, its operator has had it.
CreatedInv ==
  /\ \A o \in Principals, t \in TaskIds : task[o][t] # Nil => <<o, t>> \in created
  /\ \A t \in TaskIds : taskOwner[t] # Nil => <<taskOwner[t], t>> \in created
  /\ \A c \in Callers : In(c, "complete") => <<caller[c].op, caller[c].id>> \in created

LEMMA CreatedInit == CtlInit => CreatedInv
BY EndedPlaced DEF CtlInit, CreatedInv, In

LEMMA CreatedStep == CtlShape /\ CreatedInv /\ [CtlNext]_ctlVars => CreatedInv'
<1> SUFFICES ASSUME CtlShape, CreatedInv, [CtlNext]_ctlVars PROVE CreatedInv'
  OBVIOUS
<1>0. CtlTypeOK
  BY DEF CtlShape
<1>1. ASSUME NEW c \in Callers, NEW o \in Principals, CallStart(c, o)
      PROVE  CreatedInv'
  <2>1. /\ UNCHANGED <<task, taskOwner, created>> /\ caller'[c].phase # "complete"
        /\ \A d \in Callers \ {c} : caller'[d] = caller[d]
    BY <1>1, StartMoves DEF CallerMoves
  <2> QED
    BY <2>1 DEF CreatedInv, In
<1>2. ASSUME NEW c \in Callers, CallStep(c)
      PROVE  CreatedInv'
  <2>1. /\ \A d \in Callers \ {c} : caller'[d] = caller[d]
        /\ created \subseteq created'
    BY <1>2, CallerStepMoves DEF CallerMoves, CallStep, Peek, Consume, PutTask, PutOwner, ReadIndex,
       AppendIndex, FindTask, PutCompleted, Deliver, LookUpOwn, LookUpOwner, CallDies
  <2>2. ASSUME NEW o \in Principals, NEW t \in TaskIds, task'[o][t] # Nil
        PROVE  <<o, t>> \in created'
    <3>1. CASE PutTask(c)
      <4>1. <<caller[c].op, caller[c].id>> \in created'
        BY <3>1 DEF PutTask
      <4> QED
        BY <2>1, <2>2, <3>1, <4>1, PutTypes DEF CreatedInv
    <3>2. CASE PutCompleted(c)
      <4>1. <<caller[c].op, caller[c].id>> \in created'
        BY <2>1, <3>2 DEF PutCompleted, CreatedInv
      <4> QED
        BY <2>1, <2>2, <3>2, <4>1, PutTypes DEF CreatedInv
    <3>3. CASE ~PutTask(c) /\ ~PutCompleted(c)
      <4>1. task' = task
        BY <1>2, <3>3 DEF CallStep, Peek, Consume, PutOwner, ReadIndex, AppendIndex,
           FindTask, Deliver, LookUpOwn, LookUpOwner, CallDies
      <4> QED
        BY <2>1, <2>2, <4>1 DEF CreatedInv
    <3> QED
      BY <3>1, <3>2, <3>3
  <2>3. ASSUME NEW t \in TaskIds, taskOwner'[t] # Nil
        PROVE  <<taskOwner'[t], t>> \in created'
    <3>1. CASE PutOwner(c)
      BY <1>0, <2>1, <2>3, <3>1 DEF PutOwner, CreatedInv, CtlTypeOK
    <3>2. CASE ~PutOwner(c)
      <4>1. taskOwner' = taskOwner
        BY <1>2, <3>2 DEF CallStep, Peek, Consume, PutTask, ReadIndex, AppendIndex,
           FindTask, PutCompleted, Deliver, LookUpOwn, LookUpOwner, CallDies
      <4> QED
        BY <2>1, <2>3, <4>1 DEF CreatedInv
    <3> QED
      BY <3>1, <3>2
  <2>4. caller'[c].phase = "complete" => <<caller'[c].op, caller'[c].id>> \in created'
    <3>1. CASE FindTask(c)
      BY <2>1, <3>1, FindMoves DEF CreatedInv
    <3>2. CASE ~FindTask(c)
      BY <1>2, <3>2, PhaseFrom
    <3> QED
      BY <3>1, <3>2
  <2> QED
    BY <2>1, <2>2, <2>3, <2>4 DEF CreatedInv, In
<1>3. CASE Apart
  <2>1. UNCHANGED <<caller, created>>
    BY <1>3 DEF Apart, Arm, LapseTask, LapseArm, LapseIndex, LapseOwner
  <2>2. \A o \in Principals, t \in TaskIds : task'[o][t] \in {task[o][t], Nil}
    <3>1. ASSUME NEW p \in Principals, NEW u \in TaskIds, LapseTask(p, u)
          PROVE  \A o \in Principals, t \in TaskIds : task'[o][t] \in {task[o][t], Nil}
      BY <1>0, <3>1 DEF LapseTask, CtlTypeOK
    <3>2. CASE task' = task
      BY <3>2
    <3> QED
      BY <1>3, <3>1, <3>2 DEF Apart, Arm, LapseArm, LapseIndex, LapseOwner
  <2>3. \A t \in TaskIds : taskOwner'[t] \in {taskOwner[t], Nil}
    BY <1>0, <1>3 DEF Apart, Arm, LapseTask, LapseArm, LapseIndex, LapseOwner, CtlTypeOK
  <2> QED
    BY <2>1, <2>2, <2>3 DEF CreatedInv, In
<1>4. CASE UNCHANGED ctlVars
  BY <1>4 DEF ctlVars, CreatedInv, In
<1> QED
  BY <1>1, <1>2, <1>3, <1>4 DEF CtlNext, Apart

\* A lookup whose caller has had the task all along has not yet missed it.
HeldInv ==
  \A c \in held : In(c, "own") /\ task[caller[c].op][caller[c].id] # Nil

LEMMA HeldInit == CtlInit => HeldInv
BY DEF CtlInit, HeldInv

LEMMA HeldStep == CtlShape /\ HeldInv /\ [CtlNext]_ctlVars => HeldInv'
<1> SUFFICES ASSUME CtlShape, HeldInv, [CtlNext]_ctlVars, NEW d \in held'
             PROVE  (In(d, "own") /\ task[caller[d].op][caller[d].id] # Nil)'
  BY DEF HeldInv
<1>0. CtlTypeOK
  BY DEF CtlShape
<1>1. ASSUME NEW c \in Callers, NEW o \in Principals, CallStart(c, o)
      PROVE  (In(d, "own") /\ task[caller[d].op][caller[d].id] # Nil)'
  <2>1. /\ \A e \in Callers \ {c} : caller'[e] = caller[e]
        /\ task' = task /\ held' \subseteq held \cup {c} /\ c \notin held
    BY <1>1, StartMoves DEF CallerMoves, HeldInv, In
  <2>2. CASE d # c
    <3>1. d \in held /\ d \in Callers \ {c}
      BY <1>0, <2>1, <2>2 DEF CtlTypeOK
    <3> QED
      BY <2>1, <3>1 DEF HeldInv, In
  <2>3. CASE d = c
    <3>1. PICK t \in TaskIds, a \in Accounts \cup {Nil} : StartLookup(c, o, t, a)
      BY <1>1, <2>1, <2>3 DEF CallStart, StartGetSignals, StartComplete
    <3> DEFINE r == [Ended("done") EXCEPT !.phase = "own", !.op = o, !.id = t, !.account = a]
    <3>2. caller'[c] = r
      BY <3>1 DEF StartLookup, Set, CtlShape
    <3>3. r.phase = "own" /\ r.op = o /\ r.id = t
      BY DEF Ended
    <3>4. task[o][t] # Nil
      BY <2>1, <2>3, <3>1 DEF StartLookup
    <3> HIDE DEF r
    <3> QED
      BY <2>1, <2>3, <3>2, <3>3, <3>4 DEF In
  <2> QED
    BY <2>2, <2>3
<1>2. ASSUME NEW c \in Callers, CallStep(c)
      PROVE  (In(d, "own") /\ task[caller[d].op][caller[d].id] # Nil)'
  <2>1. d \in held /\ d # c
    <3>1. held' \subseteq held
      BY <1>2 DEF CallStep, Peek, Consume, PutTask, PutOwner, ReadIndex, AppendIndex, FindTask,
         PutCompleted, Deliver, LookUpOwn, LookUpOwner, CallDies
    <3>2. ASSUME c \in held' PROVE FALSE
      <4>1. In(c, "own") /\ task[caller[c].op][caller[c].id] # Nil
        BY <3>1, <3>2 DEF HeldInv
      <4> QED
        BY <1>2, <3>2, <4>1 DEF CallStep, Peek, Consume, PutTask, PutOwner, ReadIndex,
           AppendIndex, FindTask, PutCompleted, Deliver, LookUpOwn, LookUpOwner, CallDies, In
    <3> QED
      BY <3>1, <3>2
  <2>2. /\ caller'[d] = caller[d] /\ In(d, "own") /\ d \in Callers
        /\ task[caller[d].op][caller[d].id] # Nil
    BY <1>0, <1>2, <2>1, CallerStepMoves DEF CallerMoves, HeldInv, CtlTypeOK
  <2>3. caller[d].op \in Principals /\ caller[d].id \in TaskIds
    BY <2>2, Here DEF In
  <2>4. CASE PutTask(c) \/ PutCompleted(c)
    <3>1. \/ task'[caller[d].op][caller[d].id] \in Task
          \/ task'[caller[d].op][caller[d].id] = task[caller[d].op][caller[d].id]
      BY <2>3, <2>4, PutTypes
    <3> QED
      BY <2>2, <3>1, TaskAssumption DEF In
  <2>5. CASE ~PutTask(c) /\ ~PutCompleted(c)
    <3>1. task' = task
      BY <1>2, <2>5 DEF CallStep, Peek, Consume, PutOwner, ReadIndex, AppendIndex,
         FindTask, Deliver, LookUpOwn, LookUpOwner, CallDies
    <3> QED
      BY <2>2, <3>1 DEF In
  <2> QED
    BY <2>4, <2>5
<1>3. ASSUME NEW o \in Principals, NEW t \in TaskIds, LapseTask(o, t)
      PROVE  (In(d, "own") /\ task[caller[d].op][caller[d].id] # Nil)'
  <2>1. d \in held /\ <<caller[d].op, caller[d].id>> # <<o, t>> /\ caller' = caller
    BY <1>3 DEF LapseTask
  <2>2. /\ In(d, "own") /\ d \in Callers
        /\ task[caller[d].op][caller[d].id] # Nil
    BY <1>0, <2>1 DEF HeldInv, CtlTypeOK
  <2>3. caller[d].op \in Principals /\ caller[d].id \in TaskIds
    BY <2>2, Here DEF In
  <2>4. task'[caller[d].op][caller[d].id] = task[caller[d].op][caller[d].id]
    BY <1>0, <1>3, <2>1, <2>3 DEF LapseTask, CtlTypeOK
  <2> QED
    BY <2>1, <2>2, <2>4 DEF In
<1>4. CASE \/ \E o \in Principals, t \in TaskIds : Arm(o, t)
           \/ \E o \in Principals : LapseArm(o) \/ LapseIndex(o)
           \/ \E t \in TaskIds : LapseOwner(t)
           \/ UNCHANGED ctlVars
  <2>1. UNCHANGED <<task, caller, held>>
    BY <1>4 DEF Arm, LapseArm, LapseIndex, LapseOwner, ctlVars
  <2> QED
    BY <2>1 DEF HeldInv, In
<1> QED
  BY <1>1, <1>2, <1>3, <1>4 DEF CtlNext

LEMMA HiddenStep ==
  ASSUME CtlShape, CreatedInv, HeldInv, [CtlNext]_ctlVars, NEW c \in Callers,
         ~In(c, "idle"), caller'[c] = Ended("hidden")
  PROVE  \/ LET found == task[caller[c].op][caller[c].id]
            IN /\ found # Nil /\ Nil \notin {found.account, caller[c].account}
               /\ found.account # caller[c].account
         \/ /\ c \notin held
            /\ \E o \in Principals \ {caller[c].op} : <<o, caller[c].id>> \in created
<1>0. /\ caller[c] \in Call /\ caller[c].phase # "idle" /\ caller[c].op \in Principals
      /\ Ended("hidden").phase = "idle" /\ Ended("hidden") # Ended("done")
  BY Here, EndedPlaced DEF In
<1>1. PICK d \in Callers : CallStep(d) \/ \E o \in Principals : CallStart(d, o)
  <2>1. caller' # caller
    BY <1>0
  <2> QED
    BY <2>1 DEF CtlNext, ctlVars, Arm, LapseTask, LapseArm, LapseIndex, LapseOwner
<1>2. CallStep(c)
  BY <1>0, <1>1, CallerStepMoves, StartMoves DEF CallerMoves
<1>3. ~End(c, "done")
  BY <1>0, EndMoves
<1>4. ~Consume(c) /\ ~Puts(c) /\ ~ReadIndex(c)
  <2>1. ASSUME Puts(c) \/ ReadIndex(c) PROVE FALSE
    <3>1. caller[c].phase \in {"record", "append"}
      BY <2>1 DEF Puts, PutTask, PutOwner, ReadIndex, AppendIndex, In
    <3>2. CASE \E key \in {"task", "owner", "index"} : Written(c, key)
      <4>1. PICK key \in {"task", "owner", "index"} : Written(c, key)
        BY <3>2
      <4>2. caller'[c].phase = caller[c].phase
        BY <1>0, <1>3, <3>1, <4>1, WrittenMoves DEF Written, Set, CtlShape, CtlTypeOK, Call
      <4> QED
        BY <1>0, <3>1, <4>2
    <3>3. CASE ReadIndex(c) /\ caller[c].id \notin taskIndex[caller[c].op]
      BY <1>0, <3>3, CallerReads
    <3> QED
      BY <2>1, <3>2, <3>3 DEF Puts, PutTask, PutOwner, ReadIndex, AppendIndex
  <2>2. ~Consume(c)
    BY <1>0, CallerConsumes
  <2> QED
    BY <2>1, <2>2
<1>5. ~Peek(c) /\ ~FindTask(c) /\ ~PutCompleted(c)
  <2>1. \A r : Set(c, r) => caller'[c] = r
    BY DEF Set, CtlShape
  <2>2. ~Peek(c)
    BY <1>0, <1>3, <2>1 DEF Peek, Call
  <2>3. ~FindTask(c)
    BY <1>0, <1>3, <2>1 DEF FindTask, Call
  <2>4. ~PutCompleted(c)
    BY <1>0, <1>3, <2>1 DEF PutCompleted, Call
  <2> QED
    BY <2>2, <2>3, <2>4
<1>6. CASE LookUpOwner(c)
  <2>1. caller[c].id \in TaskIds
    BY <1>6, Here DEF LookUpOwner, In
  <2>2. taskOwner[caller[c].id] \notin {Nil, caller[c].op}
    BY <1>3, <1>6 DEF LookUpOwner
  <2>3. taskOwner[caller[c].id] \in Principals \ {caller[c].op}
    BY <2>1, <2>2 DEF CtlShape, CtlTypeOK
  <2>4. <<taskOwner[caller[c].id], caller[c].id>> \in created
    BY <2>1, <2>2 DEF CreatedInv
  <2>5. c \notin held
    BY <1>6 DEF LookUpOwner, HeldInv, In
  <2> QED
    BY <2>3, <2>4, <2>5
<1>7. CASE LookUpOwn(c)
  <2>1. ~Set(c, [caller[c] EXCEPT !.phase = "owner"])
    <3>1. [caller[c] EXCEPT !.phase = "owner"].phase = "owner"
      BY <1>0 DEF Call
    <3> QED
      BY <1>0, <3>1 DEF Set, CtlShape
  <2>2. /\ task[caller[c].op][caller[c].id] # Nil
        /\ ~SameAccount(task[caller[c].op][caller[c].id].account, caller[c].account)
    BY <1>3, <1>7, <2>1 DEF LookUpOwn
  <2> QED
    BY <2>2 DEF SameAccount
<1> QED
  BY <1>2, <1>3, <1>4, <1>5, <1>6, <1>7 DEF CallStep, Puts, Deliver, CallDies

\* getComplianceTask answers that a task is not there only if it names another
\* account than the call, or if another operator has had one of that id and the
\* caller was without its own at some moment of the call.
THEOREM HiddenForeign == CtlSpec => HiddenOnlyIfForeign
<1>1. CtlShape /\ CreatedInv /\ HeldInv /\ [CtlNext]_ctlVars =>
        [\A c \in Callers :
           LET r == caller[c]
               found == task[r.op][r.id]
           IN ~In(c, "idle") /\ caller'[c] = Ended("hidden") =>
                \/ /\ found # Nil /\ Nil \notin {found.account, r.account}
                   /\ found.account # r.account
                \/ c \notin held /\ \E o \in Principals \ {r.op} : <<o, r.id>> \in created]_ctlVars
  BY HiddenStep
<1>2. CtlSpec => []CreatedInv
  BY CreatedInit, CreatedStep, CtlShapeAlways, PTL DEF CtlSpec
<1>3. CtlSpec => []HeldInv
  BY HeldInit, HeldStep, CtlShapeAlways, PTL DEF CtlSpec
<1> QED
  BY <1>1, <1>2, <1>3, CtlShapeAlways, PTL DEF CtlSpec, HiddenOnlyIfForeign

-----------------------------------------------------------------------------
(* Operators whose calls do not overlap or fail.                           *)

\* Directives are numbered as they are armed.
NumberInv ==
  /\ \A o \in Principals, n \in Arms : n > armed => uses[o][n] = 0
  /\ \A o \in Principals : arm[o] # Nil => arm[o].no <= armed
  /\ \A c \in Callers : In(c, "consume") => caller[c].no <= armed

LEMMA NumberInit == CtlInit => NumberInv
BY EndedPlaced DEF CtlInit, NumberInv, In

LEMMA NumberStep == CtlShape /\ NumberInv /\ [CtlNext]_ctlVars => NumberInv'
<1> SUFFICES ASSUME CtlShape, NumberInv, [CtlNext]_ctlVars PROVE NumberInv'
  OBVIOUS
<1>0. CtlTypeOK /\ armed \in Nat
  BY ControllerAssumption DEF CtlShape, CtlTypeOK
<1>1. ASSUME NEW c \in Callers, NEW o \in Principals, CallStart(c, o)
      PROVE  NumberInv'
  <2>1. /\ UNCHANGED <<arm, armed, uses>> /\ caller'[c].phase # "consume"
        /\ \A d \in Callers \ {c} : caller'[d] = caller[d]
    BY <1>1, StartMoves DEF CallerMoves
  <2> QED
    BY <2>1 DEF NumberInv, In
<1>2. ASSUME NEW c \in Callers, CallStep(c)
      PROVE  NumberInv'
  <2>1. /\ \A d \in Callers \ {c} : caller'[d] = caller[d]
        /\ armed' = armed
    BY <1>2, CallerStepMoves DEF CallerMoves, CallStep, Peek, Consume, PutTask, PutOwner, ReadIndex,
       AppendIndex, FindTask, PutCompleted, Deliver, LookUpOwn, LookUpOwner, CallDies
  <2>2. caller'[c].phase = "consume" => caller'[c].no <= armed
    <3>1. ASSUME caller'[c].phase = "consume" PROVE caller'[c].no <= armed
      <4>1. Peek(c)
        BY <1>2, <3>1, PhaseFrom
      <4>2. /\ caller[c].op \in Principals /\ caller'[c].no = arm[caller[c].op].no
            /\ arm[caller[c].op] # Nil
        BY <3>1, <4>1, PeekMoves, EndMoves DEF Peek
      <4> QED
        BY <4>2 DEF NumberInv
    <3> QED
      BY <3>1
  <2>3. CASE Consume(c)
    <3>1. /\ caller[c].op \in Principals /\ caller[c].no \in Arms /\ caller[c].no <= armed
          /\ arm' = [arm EXCEPT ![caller[c].op] = Nil]
      BY <2>3, CallerConsumes DEF Consume, NumberInv
    <3>2. \A o \in Principals, n \in Arms : n > armed => uses'[o][n] = 0
      BY <1>0, <2>3, <3>1, UseTypes DEF NumberInv, Arms
    <3>3. \A o \in Principals : arm'[o] # Nil => arm'[o].no <= armed
      BY <1>0, <3>1 DEF NumberInv, CtlTypeOK
    <3> QED
      BY <2>1, <2>2, <3>2, <3>3 DEF NumberInv, In
  <2>4. CASE ~Consume(c)
    <3>1. UNCHANGED <<arm, uses>>
      BY <1>2, <2>4 DEF CallStep, Peek, PutTask, PutOwner, ReadIndex, AppendIndex, FindTask,
         PutCompleted, Deliver, LookUpOwn, LookUpOwner, CallDies
    <3> QED
      BY <2>1, <2>2, <3>1 DEF NumberInv, In
  <2> QED
    BY <2>3, <2>4
<1>3. ASSUME NEW o \in Principals, NEW t \in TaskIds, Arm(o, t)
      PROVE  NumberInv'
  <2>1. /\ armed' = armed + 1 /\ UNCHANGED <<caller, uses>>
        /\ arm' = [arm EXCEPT ![o] = [no |-> armed + 1, id |-> t]]
    BY <1>3 DEF Arm
  <2>2. \A p \in Principals : arm[p] # Nil => arm[p].no \in Arms
    BY <1>0 DEF CtlTypeOK, Directive
  <2>3. \A p \in Principals : arm'[p] # Nil => arm'[p].no <= armed'
    BY <1>0, <2>1, <2>2 DEF NumberInv, CtlTypeOK, Arms
  <2>4. \A c \in Callers : In(c, "consume") => caller[c].no <= armed'
    <3>1. \A c \in Callers : In(c, "consume") => caller[c].no \in Arms
      BY Here DEF In
    <3> QED
      BY <1>0, <2>1, <3>1 DEF NumberInv, Arms
  <2>5. \A p \in Principals, n \in Arms : n > armed' => uses[p][n] = 0
    BY <1>0, <2>1 DEF NumberInv, Arms
  <2> QED
    BY <2>1, <2>3, <2>4, <2>5 DEF NumberInv, In
<1>4. CASE Apart /\ ~\E o \in Principals, t \in TaskIds : Arm(o, t)
  <2>1. UNCHANGED <<armed, caller, uses>> /\ \A o \in Principals : arm'[o] \in {arm[o], Nil}
    BY <1>0, <1>4 DEF Apart, LapseTask, LapseArm, LapseIndex, LapseOwner, CtlTypeOK
  <2> QED
    BY <2>1 DEF NumberInv, In
<1>5. CASE UNCHANGED ctlVars
  BY <1>5 DEF ctlVars, NumberInv, In
<1> QED
  BY <1>1, <1>2, <1>3, <1>4, <1>5 DEF CtlNext, Apart

\* Call c is still to add task t to the index.
Owes(c, o, t) ==
  /\ Active(c, o) /\ caller[c].phase \in {"record", "append"}
  /\ "index" \in caller[c].due /\ caller[c].id = t

\* What call c has read is still so.
Fits(c, o) ==
  LET r == caller[c]
  IN /\ r.phase = "consume" => uses[o][r.no] = 0
     /\ r.phase \in {"record", "append"} =>
          <<o, r.id>> \notin told /\ ("index" \notin r.due => r.id \in taskIndex[o])
     /\ r.phase = "append" /\ "index" \in r.due => r.ids = taskIndex[o]
     /\ r.phase = "complete" => task[o][r.id] # Nil

Directed(o) ==
  /\ \A n \in Arms : uses[o][n] <= 1
  /\ arm[o] # Nil => uses[o][arm[o].no] = 0

Final(o) ==
  \A t \in TaskIds :
    <<o, t>> \in told /\ task[o][t] # Nil => task[o][t].status = "completed"

\* Listed, or known to have outlived its index.
ListedOrOutlived(o, t) == t \in taskIndex[o] \/ <<o, t>> \in outlived

Tidy(o) ==
  /\ \A c, d \in Callers : Active(c, o) /\ Active(d, o) => c = d
  /\ Directed(o)
  /\ Final(o)
  /\ \A t \in TaskIds :
       task[o][t] # Nil => ListedOrOutlived(o, t) \/ \E c \in Callers : Owes(c, o, t)
  /\ \A c \in Callers : Active(c, o) => Fits(c, o)

TidyInv == \A o \in orderly : Tidy(o)

LEMMA TidyInit == CtlInit => TidyInv
<1> SUFFICES ASSUME CtlInit, NEW o \in Principals PROVE Tidy(o)
  BY DEF CtlInit, TidyInv
<1>1. \A c \in Callers : ~Active(c, o)
  BY EndedPlaced, ControllerAssumption DEF CtlInit, Active
<1> QED
  BY <1>1 DEF CtlInit, Tidy, Directed, Final

\* A step elsewhere.
LEMMA TidyStays ==
  ASSUME NEW o \in Principals, Tidy(o),
         UNCHANGED <<arm[o], task[o], taskIndex[o], uses[o]>>,
         \A t \in TaskIds : <<o, t>> \in told' <=> <<o, t>> \in told,
         \A t \in TaskIds : <<o, t>> \in outlived => <<o, t>> \in outlived',
         CtlShape,
         \A d \in Callers : /\ Active(d, o)' <=> Active(d, o)
                            /\ Active(d, o) => caller'[d] = caller[d]
  PROVE  Tidy(o)'
<1>1. \A d \in Callers : Active(d, o) => d \in Callers /\ caller[d].phase # "idle"
  BY ControllerAssumption DEF Active, CtlShape, PlacedCaller
<1>2. ASSUME NEW d \in Callers, NEW t \in TaskIds, Owes(d, o, t) PROVE Owes(d, o, t)'
  <2>1. Active(d, o) /\ Active(d, o)' /\ caller'[d] = caller[d]
    BY <1>2 DEF Owes
  <2> QED
    BY <1>2, <2>1 DEF Owes
<1>3. ASSUME NEW d \in Callers, Active(d, o) PROVE Fits(d, o)'
  <2>1. /\ Fits(d, o) /\ caller'[d] = caller[d]
        /\ caller[d].phase \in {"record", "append"} => caller[d].id \in TaskIds
    <3>1. Fits(d, o)
      BY <1>3 DEF Tidy
    <3>2. caller'[d] = caller[d] /\ caller[d].phase # "idle"
      BY <1>1, <1>3
    <3> QED
      BY <3>1, <3>2, Here
  <2> QED
    BY <2>1 DEF Fits
<1>4. Directed(o)' /\ Final(o)'
  BY DEF Tidy, Directed, Final
<1>5. \A c, d \in Callers : Active(c, o)' /\ Active(d, o)' => c = d
  BY DEF Tidy
<1>6. \A t \in TaskIds : task'[o][t] # Nil =>
        ListedOrOutlived(o, t)' \/ \E c \in Callers : Owes(c, o, t)'
  <2>1. \A t \in TaskIds : task[o][t] # Nil =>
          ListedOrOutlived(o, t) \/ \E c \in Callers : Owes(c, o, t)
    BY DEF Tidy
  <2>2. \A t \in TaskIds : ListedOrOutlived(o, t) => ListedOrOutlived(o, t)'
    BY DEF ListedOrOutlived
  <2> QED
    BY <1>2, <2>1, <2>2
<1>7. \A c \in Callers : Active(c, o)' => Fits(c, o)'
  BY <1>3
<1> QED
  BY <1>4, <1>5, <1>6, <1>7 DEF Tidy

\* The only call of o starts, or goes on.
LEMMA TidyMoves ==
  ASSUME NEW o \in Principals, NEW c \in Callers, CallerMoves(c),
         \A d \in Callers \ {c} : ~Active(d, o),
         Directed(o)', Final(o)',
         \A t \in TaskIds : task'[o][t] # Nil => ListedOrOutlived(o, t)' \/ Owes(c, o, t)',
         Active(c, o)' => Fits(c, o)'
  PROVE  Tidy(o)'
<1>1. \A d \in Callers : Active(d, o)' => d = c
  BY DEF CallerMoves, Active
<1> QED
  BY <1>1 DEF Tidy

\* While no call of o is active.
LEMMA TidyRests ==
  ASSUME NEW o \in Principals, Quiet(o), caller' = caller, Directed(o)', Final(o)',
         \A t \in TaskIds : task'[o][t] # Nil => ListedOrOutlived(o, t)'
  PROVE  Tidy(o)'
BY DEF Quiet, Active, Tidy

LEMMA OnlyCaller ==
  ASSUME NEW o \in Principals, Tidy(o), NEW c \in Callers, Active(c, o)
  PROVE  /\ \A d \in Callers \ {c} : ~Active(d, o)
         /\ Directed(o) /\ Final(o) /\ Fits(c, o)
         /\ \A t \in TaskIds : task[o][t] # Nil => ListedOrOutlived(o, t) \/ Owes(c, o, t)
BY DEF Tidy, Owes

LEMMA TidyStarts ==
  ASSUME CtlShape, NEW c \in Callers, NEW p \in Principals, CallStart(c, p),
         NEW o \in Principals, o \in orderly', Tidy(o)
  PROVE  Tidy(o)'
<1>1. /\ CallerMoves(c) /\ caller[c].phase = "idle" /\ caller'[c].op = p
      /\ caller'[c].phase \in {"peek", "find", "own"}
      /\ UNCHANGED <<arm, task, taskOwner, taskIndex, armed, uses, told, created, outlived>>
      /\ Join(c, p) \/ (caller'[c].phase = "own" /\ UNCHANGED orderly)
  BY StartMoves
<1>2. ~Active(c, o)
  BY <1>1, ControllerAssumption DEF Active, CtlShape, PlacedCaller
<1>3. CASE Active(c, o)'
  <2>1. p = o /\ \A d \in Callers \ {c} : ~Active(d, o)
    BY <1>1, <1>3 DEF Active, Join
  <2>2. Directed(o)' /\ Final(o)'
    BY <1>1 DEF Tidy, Directed, Final
  <2>3. \A t \in TaskIds : task'[o][t] # Nil => ListedOrOutlived(o, t)'
    BY <1>1, <1>2, <2>1 DEF Tidy, Owes, ListedOrOutlived
  <2>4. Fits(c, o)'
    BY <1>1 DEF Fits
  <2> QED
    BY <1>1, <2>1, <2>2, <2>3, <2>4, TidyMoves
<1>4. CASE ~Active(c, o)'
  <2>1. \A d \in Callers : /\ Active(d, o)' <=> Active(d, o)
                           /\ Active(d, o) => caller'[d] = caller[d]
    BY <1>1, <1>2, <1>4 DEF CallerMoves, Active
  <2> QED
    BY <1>1, <2>1, TidyStays
<1> QED
  BY <1>3, <1>4

\* A call that is not one of o's active ones leaves its keys alone.
LEMMA TidyElsewhere ==
  ASSUME CtlShape, NEW c \in Callers, CallStep(c),
         NEW o \in Principals, Tidy(o), ~Active(c, o)
  PROVE  Tidy(o)'
<1>1. /\ CallerMoves(c) /\ caller[c].op \in Principals
      /\ caller'[c].phase = "idle" \/ caller'[c].op = caller[c].op
  BY CallerStepMoves
<1>2. CASE caller[c].op = o
  <2>1. caller[c].phase \in {"own", "owner"}
    BY <1>2 DEF Active
  <2>2. /\ LookUpOwn(c) \/ CallerOver(c)
        /\ UNCHANGED <<arm, task, taskIndex, uses, told, outlived>>
    BY <2>1 DEF CallStep, Peek, Consume, PutTask, PutOwner, ReadIndex, AppendIndex, FindTask,
       PutCompleted, Deliver, LookUpOwn, LookUpOwner, CallDies, In, CallerOver, listAges
  <2>3. caller'[c].phase \in {"idle", "owner"}
    BY <2>2, OwnMoves, CallerOverMoves
  <2>4. ~Active(c, o)'
    <3>1. caller'[c].phase = "idle" => caller'[c].op = Nil
      BY <1>1 DEF CallerMoves, PlacedCaller
    <3> QED
      BY <2>3, <3>1, ControllerAssumption DEF Active
  <2>5. \A d \in Callers : /\ Active(d, o)' <=> Active(d, o)
                           /\ Active(d, o) => caller'[d] = caller[d]
    BY <1>1, <2>4 DEF CallerMoves, Active
  <2> QED
    BY <2>2, <2>5, TidyStays
<1>3. CASE caller[c].op # o
  <2>1. ~Active(c, o)'
    <3>1. caller'[c].phase = "idle" => caller'[c].op = Nil
      BY <1>1 DEF CallerMoves, PlacedCaller
    <3> QED
      BY <1>1, <1>3, <3>1, ControllerAssumption DEF Active
  <2>2. \A d \in Callers : /\ Active(d, o)' <=> Active(d, o)
                           /\ Active(d, o) => caller'[d] = caller[d]
    BY <1>1, <2>1 DEF CallerMoves, Active
  <2>3. CASE Consume(c)
    <3>1. /\ UNCHANGED <<task, taskIndex, outlived>>
          /\ arm'[o] = arm[o] /\ uses'[o] = uses[o]
      BY <1>1, <1>3, <2>3 DEF Consume, CtlShape, CtlTypeOK, listAges
    <3>2. \A t \in TaskIds : <<o, t>> \in told' <=> <<o, t>> \in told
      BY <1>3, <2>3 DEF Consume
    <3> QED
      BY <2>2, <3>1, <3>2, TidyStays
  <2>4. CASE PutTask(c) \/ PutCompleted(c)
    <3>1. UNCHANGED <<arm, taskIndex, uses, outlived>>
      BY <2>4 DEF PutTask, PutCompleted
    <3>2. task'[o] = task[o]
      BY <1>1, <1>3, <2>4 DEF PutTask, PutCompleted, CtlShape, CtlTypeOK
    <3>3. \A t \in TaskIds : <<o, t>> \in told' <=> <<o, t>> \in told
      BY <1>3, <2>4 DEF PutTask, PutCompleted
    <3> QED
      BY <2>2, <3>1, <3>2, <3>3, TidyStays
  <2>5. CASE AppendIndex(c)
    <3>1. UNCHANGED <<arm, task, uses, told>> /\ taskIndex'[o] = taskIndex[o]
      BY <1>1, <1>3, <2>5 DEF AppendIndex, CtlShape, CtlTypeOK
    <3>2. \A t \in TaskIds : <<o, t>> \in outlived => <<o, t>> \in outlived'
      BY <1>3, <2>5 DEF AppendIndex
    <3> QED
      BY <2>2, <3>1, <3>2, TidyStays
  <2>6. CASE ~Consume(c) /\ ~PutTask(c) /\ ~PutCompleted(c) /\ ~AppendIndex(c)
    <3>1. UNCHANGED <<arm, task, taskIndex, uses, told, outlived>>
      BY <2>6 DEF CallStep, Peek, PutOwner, ReadIndex, FindTask, Deliver, LookUpOwn,
         LookUpOwner, CallDies, listAges
    <3> QED
      BY <2>2, <3>1, TidyStays
  <2> QED
    BY <2>3, <2>4, <2>5, <2>6
<1> QED
  BY <1>2, <1>3

\* The get_signals steps of o's only call.
LEMMA TidyPeek ==
  ASSUME CtlShape, NEW c \in Callers, Peek(c), NEW o \in Principals, Tidy(o), Active(c, o)
  PROVE  Tidy(o)'
<1>1. /\ UNCHANGED <<arm, task, taskIndex, uses, told, outlived>> /\ caller[c].phase = "peek"
      /\ caller[c].op = o /\ CallerMoves(c)
      /\ \/ caller'[c].phase = "idle"
         \/ /\ caller'[c].phase = "consume"
            /\ caller'[c].no = arm[caller[c].op].no
  BY PeekMoves DEF Peek, In, Active, listAges
<1>2. /\ \A d \in Callers \ {c} : ~Active(d, o)
      /\ Directed(o) /\ Final(o)
      /\ \A t \in TaskIds : task[o][t] # Nil => ListedOrOutlived(o, t) \/ Owes(c, o, t)
  BY OnlyCaller
<1>3. \A t \in TaskIds : task'[o][t] # Nil => ListedOrOutlived(o, t)'
  BY <1>1, <1>2 DEF Owes, ListedOrOutlived
<1>4. Directed(o)' /\ Final(o)'
  BY <1>1, <1>2 DEF Directed, Final
<1>5. caller'[c].phase = "consume" => uses'[o][caller'[c].no] = 0
  <2>1. caller'[c].phase = "consume" => arm[o] # Nil
    BY <1>1, EndMoves DEF Peek
  <2> QED
    BY <1>1, <1>2, <2>1 DEF Directed
<1>6. Fits(c, o)'
  BY <1>1, <1>5 DEF Fits
<1> QED
  BY <1>1, <1>2, <1>3, <1>4, <1>6, TidyMoves

LEMMA TidyConsume ==
  ASSUME CtlShape, NEW c \in Callers, Consume(c), NEW o \in Principals, Tidy(o), Active(c, o)
  PROVE  Tidy(o)'
<1>1. /\ caller[c].phase = "consume" /\ caller[c].op = o
      /\ UNCHANGED <<task, taskIndex, outlived>> /\ arm'[o] = Nil
  BY DEF Consume, In, Active, CtlShape, CtlTypeOK, listAges
<1>2. /\ CallerMoves(c) /\ caller[c].id \in TaskIds /\ caller[c].no \in Arms
      /\ caller'[c].phase = "record" /\ caller'[c].op = o
      /\ caller'[c].id = caller[c].id /\ "index" \in caller'[c].due
  BY <1>1, CallerConsumes
<1>3. /\ \A d \in Callers \ {c} : ~Active(d, o)
      /\ Directed(o) /\ Final(o) /\ Fits(c, o)
      /\ \A t \in TaskIds : task[o][t] # Nil => ListedOrOutlived(o, t) \/ Owes(c, o, t)
  BY OnlyCaller
<1>4. uses[o][caller[c].no] = 0
  BY <1>1, <1>3 DEF Fits
<1>5. told' = told \ {<<o, caller[c].id>>}
  BY <1>1, <1>4 DEF Consume
<1>6. Directed(o)'
  BY <1>1, <1>3, <1>4, UseTypes DEF Directed
<1>7. Final(o)'
  BY <1>1, <1>3, <1>5 DEF Final
<1>8. \A t \in TaskIds : task'[o][t] # Nil => ListedOrOutlived(o, t)'
  BY <1>1, <1>3 DEF Owes, ListedOrOutlived
<1>9. Fits(c, o)'
  BY <1>2, <1>5 DEF Fits
<1> QED
  BY <1>2, <1>3, <1>6, <1>7, <1>8, <1>9, TidyMoves

\* The puts, which come in any order.
LEMMA TidyPuts ==
  ASSUME CtlShape, NEW c \in Callers, Puts(c) \/ ReadIndex(c),
         NEW o \in Principals, Tidy(o), Active(c, o)
  PROVE  Tidy(o)'
<1>1. /\ caller[c].phase \in {"record", "append"} /\ caller[c].op = o
      /\ caller[c].id \in TaskIds
      /\ UNCHANGED <<arm, uses, told>>
  BY Here DEF Puts, PutTask, PutOwner, ReadIndex, AppendIndex, In, Active
<1>2. /\ \A d \in Callers \ {c} : ~Active(d, o)
      /\ Directed(o) /\ Final(o) /\ Fits(c, o)
      /\ \A t \in TaskIds : task[o][t] # Nil => ListedOrOutlived(o, t) \/ Owes(c, o, t)
  BY OnlyCaller
<1>3. Directed(o)'
  BY <1>1, <1>2 DEF Directed
<1>4. <<o, caller[c].id>> \notin told
      /\ ("index" \notin caller[c].due => caller[c].id \in taskIndex[o])
      /\ (caller[c].phase = "append" /\ "index" \in caller[c].due =>
            caller[c].ids = taskIndex[o])
  BY <1>1, <1>2 DEF Fits
<1>5. \A t \in TaskIds : t # caller[c].id => (task[o][t] # Nil => ListedOrOutlived(o, t))
  BY <1>2 DEF Owes
<1>6. CASE PutTask(c) \/ PutOwner(c)
  <2>1. PICK key \in {"task", "owner"} : Written(c, key)
    BY <1>6 DEF PutTask, PutOwner
  <2>2. /\ UNCHANGED <<taskIndex, outlived>>
        /\ \A t \in TaskIds : t # caller[c].id => task'[o][t] = task[o][t]
    <3>1. CASE PutOwner(c)
      BY <3>1 DEF PutOwner, listAges
    <3>2. CASE PutTask(c)
      <4>1. /\ UNCHANGED <<taskIndex, outlived>>
            /\ \A p \in Principals, t \in TaskIds :
                 p # caller[c].op \/ t # caller[c].id => task'[p][t] = task[p][t]
        BY <3>2, PutTypes DEF PutTask
      <4> QED
        BY <1>1, <4>1
    <3> QED
      BY <1>6, <3>1, <3>2
  <2>3. Final(o)'
    BY <1>1, <1>2, <1>4, <2>2 DEF Final
  <2>4. /\ CallerMoves(c)
        /\ \/ caller'[c].phase = "idle" /\ caller[c].due \subseteq {key}
           \/ /\ caller'[c].phase = caller[c].phase /\ caller'[c].op = caller[c].op
              /\ caller'[c].id = caller[c].id
              /\ caller'[c].ids = caller[c].ids /\ caller'[c].due = caller[c].due \ {key}
    BY <1>1, <2>1, WrittenMoves
  <2>5. ASSUME NEW t \in TaskIds, t = caller[c].id
        PROVE  t \in taskIndex'[o] \/ Owes(c, o, t)'
    <3>1. CASE "index" \notin caller[c].due
      BY <1>4, <2>2, <2>5, <3>1
    <3>2. CASE "index" \in caller[c].due
      BY <1>1, <2>4, <2>5, <3>2 DEF Owes, Active
    <3> QED
      BY <3>1, <3>2
  <2>6. \A t \in TaskIds : task'[o][t] # Nil => ListedOrOutlived(o, t)' \/ Owes(c, o, t)'
    <3> TAKE t \in TaskIds
    <3> QED
      BY <1>5, <2>2, <2>5 DEF ListedOrOutlived
  <2>7. Fits(c, o)'
    BY <1>1, <1>4, <2>2, <2>4 DEF Fits
  <2> QED
    BY <1>2, <1>3, <2>3, <2>4, <2>6, <2>7, TidyMoves
<1>7. CASE ReadIndex(c)
  <2>1. /\ UNCHANGED <<task, taskIndex, outlived>> /\ "index" \in caller[c].due
        /\ Final(o)'
    BY <1>1, <1>2, <1>7 DEF ReadIndex, Final, listAges
  <2>2. CASE caller[c].id \in taskIndex[o]
    <3>1. Written(c, "index")
      BY <1>1, <1>7, <2>2 DEF ReadIndex
    <3>2. /\ CallerMoves(c)
          /\ \/ caller'[c].phase = "idle"
             \/ /\ caller'[c].phase = caller[c].phase /\ caller'[c].op = caller[c].op
                /\ caller'[c].id = caller[c].id
                /\ caller'[c].due = caller[c].due \ {"index"}
      BY <1>1, <3>1, WrittenMoves
    <3>3. Fits(c, o)'
      BY <1>1, <1>4, <2>1, <2>2, <3>2 DEF Fits
    <3>4. \A t \in TaskIds : task'[o][t] # Nil => ListedOrOutlived(o, t)'
      BY <1>5, <2>1, <2>2 DEF ListedOrOutlived
    <3> QED
      BY <1>2, <1>3, <2>1, <3>2, <3>3, <3>4, TidyMoves
  <2>3. CASE caller[c].id \notin taskIndex[o]
    <3>1. /\ CallerMoves(c)
          /\ caller'[c].phase = "append" /\ caller'[c].op = o
          /\ caller'[c].id = caller[c].id
          /\ caller'[c].ids = taskIndex[o] /\ caller'[c].due = caller[c].due
      BY <1>1, <1>7, <2>3, CallerReads
    <3>2. Fits(c, o)'
      BY <1>1, <1>4, <2>1, <3>1 DEF Fits
    <3>3. ASSUME NEW t \in TaskIds, t = caller[c].id
          PROVE  Owes(c, o, t)'
      BY <2>1, <3>1, <3>3 DEF Owes, Active
    <3>4. \A t \in TaskIds : task'[o][t] # Nil => ListedOrOutlived(o, t)' \/ Owes(c, o, t)'
      <4> TAKE t \in TaskIds
      <4> QED
        BY <1>5, <2>1, <3>3 DEF ListedOrOutlived
    <3> QED
      BY <1>2, <1>3, <2>1, <3>1, <3>2, <3>4, TidyMoves
  <2> QED
    BY <2>2, <2>3
<1>8. CASE AppendIndex(c)
  <2>1. /\ task' = task /\ Written(c, "index") /\ "index" \in caller[c].due
        /\ caller[c].phase = "append" /\ Final(o)'
    BY <1>1, <1>2, <1>8 DEF AppendIndex, In, Final
  <2>2. /\ taskIndex'[o] = taskIndex[o] \cup {caller[c].id}
        /\ outlived' = outlived \ {<<o, caller[c].id>>}
    BY <1>1, <1>4, <1>8, <2>1 DEF AppendIndex, CtlShape, CtlTypeOK
  <2>3. /\ CallerMoves(c)
        /\ \/ caller'[c].phase = "idle"
           \/ /\ caller'[c].phase = caller[c].phase /\ caller'[c].op = caller[c].op
              /\ caller'[c].id = caller[c].id
              /\ caller'[c].due = caller[c].due \ {"index"}
    BY <1>1, <2>1, WrittenMoves
  <2>4. Fits(c, o)'
    BY <1>1, <1>4, <2>1, <2>2, <2>3 DEF Fits
  <2>5. \A t \in TaskIds : task'[o][t] # Nil => ListedOrOutlived(o, t)'
    BY <1>5, <2>1, <2>2 DEF ListedOrOutlived
  <2> QED
    BY <1>2, <1>3, <2>1, <2>3, <2>4, <2>5, TidyMoves
<1> QED
  BY <1>6, <1>7, <1>8 DEF Puts

\* Forced completion, and the ends of calls.
LEMMA TidyCompletes ==
  ASSUME CtlShape, NEW c \in Callers, FindTask(c) \/ PutCompleted(c) \/ CallerOver(c),
         NEW o \in Principals, o \in orderly', Tidy(o), Active(c, o)
  PROVE  Tidy(o)'
<1>1. /\ UNCHANGED <<arm, taskIndex, uses, outlived>> /\ caller[c].op = o
      /\ caller[c].phase \in {"find", "complete", "post"}
  BY DEF FindTask, PutCompleted, CallerOver, Deliver, LookUpOwner, CallDies, In, Active,
     listAges
<1>2. /\ \A d \in Callers \ {c} : ~Active(d, o)
      /\ Directed(o) /\ Final(o) /\ Fits(c, o)
      /\ \A t \in TaskIds : task[o][t] # Nil => ListedOrOutlived(o, t) \/ Owes(c, o, t)
  BY OnlyCaller
<1>3. Directed(o)' /\ \A t \in TaskIds : task[o][t] # Nil => ListedOrOutlived(o, t)
  BY <1>1, <1>2 DEF Directed, Owes
<1>4. CASE FindTask(c) \/ CallerOver(c)
  <2>1. UNCHANGED <<task, told>>
    BY <1>4 DEF FindTask, CallerOver, Deliver, LookUpOwner, CallDies
  <2>2. /\ CallerMoves(c)
        /\ \/ caller'[c].phase = "idle"
           \/ /\ caller'[c].phase = "complete" /\ caller'[c].id = caller[c].id
              /\ task[caller[c].op][caller[c].id] # Nil
    BY <1>4, FindMoves, CallerOverMoves
  <2>3. Final(o)' /\ Fits(c, o)'
    BY <1>1, <1>2, <2>1, <2>2 DEF Final, Fits
  <2>4. \A t \in TaskIds : task'[o][t] # Nil => ListedOrOutlived(o, t)'
    BY <1>1, <1>3, <2>1 DEF ListedOrOutlived
  <2> QED
    BY <1>2, <1>3, <2>2, <2>3, <2>4, TidyMoves
<1>5. CASE PutCompleted(c)
  <2>1. /\ caller[c].id \in TaskIds /\ caller[c].phase = "complete"
        /\ task'[o][caller[c].id].status = "completed"
        /\ \A t \in TaskIds : t # caller[c].id => task'[o][t] = task[o][t]
        /\ told' = told \cup {<<o, caller[c].id>>}
    <3>1. ~PutTask(c) /\ caller[c].phase = "complete"
      BY <1>5 DEF PutTask, PutCompleted, In
    <3>2. /\ caller[c].id \in TaskIds
          /\ task'[caller[c].op][caller[c].id].status = "completed"
          /\ \A p \in Principals, t \in TaskIds :
               p # caller[c].op \/ t # caller[c].id => task'[p][t] = task[p][t]
      BY <1>5, <3>1, PutTypes
    <3>3. told' = told \cup {<<o, caller[c].id>>}
      BY <1>1, <1>5 DEF PutCompleted
    <3> QED
      BY <1>1, <3>1, <3>2, <3>3
  <2>2. CallerMoves(c) /\ caller'[c].phase \in {"idle", "post"}
    BY <1>5, CompletedMoves
  <2>3. Final(o)' /\ Fits(c, o)'
    BY <1>2, <2>1, <2>2 DEF Final, Fits
  <2>4. \A t \in TaskIds : task'[o][t] # Nil => ListedOrOutlived(o, t)'
    BY <1>1, <1>2, <1>3, <2>1 DEF Fits, ListedOrOutlived
  <2> QED
    BY <1>2, <1>3, <2>2, <2>3, <2>4, TidyMoves
<1> QED
  BY <1>4, <1>5

\* Arming and lapsing wait until o is quiet, or touch nothing of its.
LEMMA TidyApart ==
  ASSUME CtlShape, NumberInv, Apart, NEW o \in Principals, o \in orderly', Tidy(o)
  PROVE  Tidy(o)'
<1>0. CtlTypeOK /\ caller' = caller /\ armed \in Nat
  <2>1. caller' = caller
    BY DEF Apart, Arm, LapseTask, LapseArm, LapseIndex, LapseOwner
  <2> QED
    BY <2>1, ControllerAssumption DEF CtlShape, CtlTypeOK
<1>1. ASSUME UNCHANGED <<arm[o], task[o], taskIndex[o], uses, told>>,
             \A t \in TaskIds : <<o, t>> \in outlived => <<o, t>> \in outlived'
      PROVE  Tidy(o)'
  <2>1. \A d \in Callers : /\ Active(d, o)' <=> Active(d, o)
                           /\ Active(d, o) => caller'[d] = caller[d]
    BY <1>0 DEF Active
  <2> QED
    BY <1>1, <2>1, TidyStays
<1>2. ASSUME Quiet(o) PROVE \A t \in TaskIds : task[o][t] # Nil => ListedOrOutlived(o, t)
  BY <1>2 DEF Quiet, Tidy, Owes
<1>3. ASSUME NEW p \in Principals, NEW t \in TaskIds, Arm(p, t)
      PROVE  Tidy(o)'
  <2>0. UNCHANGED <<task, taskIndex, uses, told, outlived>>
    BY <1>3 DEF Arm, listAges
  <2>1. CASE p # o
    BY <1>0, <1>1, <1>3, <2>0, <2>1 DEF Arm, CtlTypeOK
  <2>2. CASE p = o
    <3>1. Quiet(o)
      BY <1>3, <2>2 DEF Arm
    <3>2. arm'[o].no = armed + 1 /\ armed + 1 \in Arms
      <4>1. armed < MaxArms /\ arm' = [arm EXCEPT ![o] = [no |-> armed + 1, id |-> t]]
        BY <1>3, <2>2 DEF Arm
      <4>2. o \in DOMAIN arm /\ armed \in Nat
        BY <1>0 DEF CtlTypeOK
      <4>3. armed + 1 \in Arms
        BY <4>1, <4>2, ControllerAssumption DEF Arms
      <4>4. arm'[o] = [no |-> armed + 1, id |-> t]
        BY <4>1, <4>2
      <4> QED
        BY <4>3, <4>4
    <3>3. uses[o][armed + 1] = 0
      BY <1>0, <3>2 DEF NumberInv
    <3>4. Directed(o)' /\ Final(o)'
      BY <2>0, <3>2, <3>3 DEF Tidy, Directed, Final
    <3>5. \A u \in TaskIds : task'[o][u] # Nil => ListedOrOutlived(o, u)'
      BY <1>2, <2>0, <3>1 DEF ListedOrOutlived
    <3> QED
      BY <1>0, <3>1, <3>4, <3>5, TidyRests
  <2> QED
    BY <2>1, <2>2
<1>4. ASSUME NEW p \in Principals, NEW t \in TaskIds, LapseTask(p, t)
      PROVE  Tidy(o)'
  <2>0. UNCHANGED <<arm, taskIndex, uses, told>>
    BY <1>4 DEF LapseTask
  <2>1. CASE p # o
    <3>1. task'[o] = task[o]
      BY <1>0, <1>4, <2>1 DEF LapseTask, CtlTypeOK
    <3>2. \A u \in TaskIds : <<o, u>> \in outlived => <<o, u>> \in outlived'
      BY <1>4, <2>1 DEF LapseTask
    <3> QED
      BY <1>1, <2>0, <3>1, <3>2
  <2>2. CASE p = o
    <3>1. Quiet(o)
      BY <1>4, <2>2 DEF LapseTask
    <3>2. \A u \in TaskIds : task'[o][u] \in {task[o][u], Nil}
      BY <1>0, <1>4, <2>2 DEF LapseTask, CtlTypeOK
    <3>3. Directed(o)' /\ Final(o)'
      BY <2>0, <3>2 DEF Tidy, Directed, Final
    <3>4. task'[o][t] = Nil /\ outlived' = outlived \ {<<o, t>>}
      BY <1>0, <1>4, <2>2 DEF LapseTask, CtlTypeOK
    <3>5. \A u \in TaskIds : task'[o][u] # Nil => ListedOrOutlived(o, u)'
      BY <1>2, <2>0, <3>1, <3>2, <3>4 DEF ListedOrOutlived
    <3> QED
      BY <1>0, <3>1, <3>3, <3>5, TidyRests
  <2> QED
    BY <2>1, <2>2
<1>5. ASSUME NEW p \in Principals, LapseArm(p)
      PROVE  Tidy(o)'
  <2>0. UNCHANGED <<task, taskIndex, uses, told, outlived>>
    BY <1>5 DEF LapseArm, listAges
  <2>1. CASE p # o
    BY <1>0, <1>1, <1>5, <2>0, <2>1 DEF LapseArm, CtlTypeOK
  <2>2. CASE p = o
    <3>1. Quiet(o) /\ arm'[o] = Nil
      BY <1>0, <1>5, <2>2 DEF LapseArm, CtlTypeOK
    <3>2. Directed(o)' /\ Final(o)'
      BY <2>0, <3>1 DEF Tidy, Directed, Final
    <3>3. \A u \in TaskIds : task'[o][u] # Nil => ListedOrOutlived(o, u)'
      BY <1>2, <2>0, <3>1 DEF ListedOrOutlived
    <3> QED
      BY <1>0, <3>1, <3>2, <3>3, TidyRests
  <2> QED
    BY <2>1, <2>2
<1>6. ASSUME NEW p \in Principals, LapseIndex(p)
      PROVE  Tidy(o)'
  <2>0. UNCHANGED <<arm, task, uses, told>> /\ outlived \subseteq outlived'
    BY <1>6 DEF LapseIndex
  <2>1. CASE p # o
    <3>1. taskIndex'[o] = taskIndex[o]
      BY <1>0, <1>6, <2>1 DEF LapseIndex, CtlTypeOK
    <3> QED
      BY <1>1, <2>0, <3>1
  <2>2. CASE p = o
    <3>1. Quiet(o)
      BY <1>6, <2>2 DEF LapseIndex
    <3>2. Directed(o)' /\ Final(o)'
      BY <2>0 DEF Tidy, Directed, Final
    <3>3. \A u \in TaskIds : task[o][u] # Nil /\ u \in taskIndex[o] => <<o, u>> \in outlived'
      BY <1>6, <2>2 DEF LapseIndex
    <3>4. \A u \in TaskIds : task'[o][u] # Nil => ListedOrOutlived(o, u)'
      BY <1>2, <2>0, <3>1, <3>3 DEF ListedOrOutlived
    <3> QED
      BY <1>0, <3>1, <3>2, <3>4, TidyRests
  <2> QED
    BY <2>1, <2>2
<1>7. ASSUME NEW t \in TaskIds, LapseOwner(t)
      PROVE  Tidy(o)'
  BY <1>1, <1>7 DEF LapseOwner, listAges
<1> QED
  BY <1>3, <1>4, <1>5, <1>6, <1>7 DEF Apart

LEMMA TidyStep == CtlShape /\ NumberInv /\ TidyInv /\ [CtlNext]_ctlVars => TidyInv'
<1> SUFFICES ASSUME CtlShape, NumberInv, TidyInv, [CtlNext]_ctlVars, NEW o \in orderly'
             PROVE  Tidy(o)'
  BY DEF TidyInv
<1>0. o \in Principals /\ Tidy(o)
  <2>1. orderly' \subseteq orderly
    BY DEF CtlNext, CallStart, CallStep, ctlVars, Arm, StartGetSignals, StartComplete,
       StartLookup, Join, Peek, Consume, PutTask, PutOwner, ReadIndex, AppendIndex, FindTask,
       PutCompleted, Deliver, LookUpOwn, LookUpOwner, CallDies, LapseArm, LapseTask,
       LapseOwner, LapseIndex
  <2> QED
    BY <2>1 DEF TidyInv, CtlShape, CtlTypeOK
<1>1. ASSUME NEW c \in Callers, NEW p \in Principals, CallStart(c, p)
      PROVE  Tidy(o)'
  BY <1>0, <1>1, TidyStarts
<1>2. ASSUME NEW c \in Callers, CallStep(c)
      PROVE  Tidy(o)'
  <2>1. CASE ~Active(c, o)
    BY <1>0, <1>2, <2>1, TidyElsewhere
  <2>2. CASE Active(c, o)
    <3>1. ~LookUpOwn(c)
      BY <2>2 DEF LookUpOwn, In, Active
    <3>2. CASE Peek(c)
      BY <1>0, <2>2, <3>2, TidyPeek
    <3>3. CASE Consume(c)
      BY <1>0, <2>2, <3>3, TidyConsume
    <3>4. CASE Puts(c) \/ ReadIndex(c)
      BY <1>0, <2>2, <3>4, TidyPuts
    <3>5. CASE FindTask(c) \/ PutCompleted(c) \/ CallerOver(c)
      BY <1>0, <2>2, <3>5, TidyCompletes
    <3> QED
      BY <1>2, <3>1, <3>2, <3>3, <3>4, <3>5 DEF CallStep, Puts, CallerOver
  <2> QED
    BY <2>1, <2>2
<1>3. CASE Apart
  BY <1>0, <1>3, TidyApart
<1>4. CASE UNCHANGED ctlVars
  <2>1. \A d \in Callers : /\ Active(d, o)' <=> Active(d, o)
                           /\ Active(d, o) => caller'[d] = caller[d]
    BY <1>4 DEF ctlVars, Active
  <2>2. UNCHANGED <<arm[o], task[o], taskIndex[o], uses[o], outlived, told>>
    BY <1>4 DEF ctlVars
  <2> QED
    BY <1>0, <2>1, <2>2, TidyStays
<1> QED
  BY <1>1, <1>2, <1>3, <1>4 DEF CtlNext, Apart

LEMMA TidyAlways == CtlSpec => []TidyInv
<1>1. CtlSpec => []NumberInv
  BY NumberInit, NumberStep, CtlShapeAlways, PTL DEF CtlSpec
<1> QED
  BY <1>1, TidyInit, TidyStep, CtlShapeAlways, PTL DEF CtlSpec

\* checkAndConsumeGetSignalsArm reads and then deletes the arm: that is
\* one-shot for an operator whose calls do not overlap or fail.
THEOREM DirectivesOneShot == CtlSpec => []OneShot
<1>1. TidyInv => OneShot
  BY DEF TidyInv, Tidy, Directed, OneShot
<1> QED
  BY <1>1, TidyAlways, PTL

\* Under the same condition force_task_completion is final until the task is
\* armed afresh.
THEOREM CompletionsStay == CtlSpec => []CompletionStays
<1>1. TidyInv => CompletionStays
  BY DEF TidyInv, Tidy, Final, CompletionStays
<1> QED
  BY <1>1, TidyAlways, PTL

\* Under the same condition addToTaskIndex loses no task: list_tasks misses
\* only those that have outlived the index, whose lifetime line 577 leaves alone.
THEOREM TasksAreListed == CtlSpec => []TasksListed
<1>1. TidyInv => TasksListed
  BY DEF TidyInv, Tidy, Owes, ListedOrOutlived, Quiet, TasksListed
<1> QED
  BY <1>1, TidyAlways, PTL

-----------------------------------------------------------------------------
(* seed_account.                                                           *)

\* For an account whose calls have not overlapped: one call at most is in
\* flight, it puts only where nothing is stored, and who has agreed has
\* agreed with what is stored.
SeedClaim(k) ==
  /\ \A r, s \in Seeders : Seeding(r, k) /\ Seeding(s, k) => r = s
  /\ \A s \in Seeders : Seeding(s, k) /\ seeder[s].doing = "put" => seeded[k] = Unseeded
  /\ agreed[k] \subseteq {seeded[k]}

SeedInv == \A k \in settled : SeedClaim(k)

LEMMA SeededTypeInit == SeededInit => SeededTypeOK
BY DEF SeededInit, SeededTypeOK

\* A call in flight has the fields of one.
LEMMA InFlightSeed ==
  ASSUME SeededTypeOK, NEW s \in Seeders, seeder[s].doing # "none"
  PROVE  seeder[s] \in Seeder
BY DEF SeededTypeOK, NotSeeding

LEMMA SeededTypeStep == SeededTypeOK /\ [SeededNext]_seededVars => SeededTypeOK'
<1> SUFFICES ASSUME SeededTypeOK, [SeededNext]_seededVars
             PROVE  SeededTypeOK'
  OBVIOUS
<1>1. ASSUME NEW s \in Seeders, NEW k \in SeedKeys, NEW f \in Fixtures, StartSeed(s, k, f)
      PROVE  SeededTypeOK'
  BY <1>1 DEF StartSeed, SeededTypeOK, Seeder
<1>2. ASSUME NEW s \in Seeders, GetSeeded(s)
      PROVE  SeededTypeOK'
  <2>1. seeder[s] \in Seeder
    BY <1>2, InFlightSeed DEF GetSeeded
  <2>2. [seeder[s] EXCEPT !.doing = "put"] \in Seeder
    BY <2>1 DEF Seeder
  <2> QED
    BY <1>2, <2>1, <2>2 DEF GetSeeded, SeededTypeOK, Seeder
<1>3. ASSUME NEW s \in Seeders, PutSeeded(s)
      PROVE  SeededTypeOK'
  <2>1. seeder[s] \in Seeder
    BY <1>3, InFlightSeed DEF PutSeeded
  <2> QED
    BY <1>3, <2>1 DEF PutSeeded, SeededTypeOK, Seeder
<1>4. ASSUME NEW s \in Seeders, SeedDies(s)
      PROVE  SeededTypeOK'
  <2>1. seeder[s].doing = "put" => seeder[s] \in Seeder
    BY InFlightSeed
  <2> QED
    BY <1>4, <2>1 DEF SeedDies, SeededTypeOK, Seeder
<1>5. ASSUME NEW k \in SeedKeys, LapseSeeded(k)
      PROVE  SeededTypeOK'
  BY <1>5 DEF LapseSeeded, SeededTypeOK
<1>6. CASE UNCHANGED seededVars
  BY <1>6 DEF seededVars, SeededTypeOK
<1> QED
  BY <1>1, <1>2, <1>3, <1>4, <1>5, <1>6 DEF SeededNext

LEMMA SeedInit == SeededInit => SeedInv
BY DEF SeededInit, SeedInv, SeedClaim, Seeding, NotSeeding

LEMMA SeedStep == SeededTypeOK /\ SeedInv /\ [SeededNext]_seededVars => SeedInv'
<1> SUFFICES ASSUME SeededTypeOK, SeedInv, [SeededNext]_seededVars, NEW k \in settled'
             PROVE  SeedClaim(k)'
  BY DEF SeedInv
<1>1. ASSUME NEW s \in Seeders, NEW j \in SeedKeys, NEW f \in Fixtures, StartSeed(s, j, f)
      PROVE  SeedClaim(k)'
  <2>1. k \in settled /\ SeedClaim(k)
    BY <1>1 DEF StartSeed, SeedInv
  <2>2. /\ seeder'[s] = [doing |-> "get", key |-> j, fixture |-> f]
        /\ \A r \in Seeders \ {s} : seeder'[r] = seeder[r]
    BY <1>1 DEF StartSeed, SeededTypeOK
  <2>3. j = k => \A r \in Seeders : ~Seeding(r, k)
    BY <1>1 DEF StartSeed
  <2> QED
    BY <1>1, <2>1, <2>2, <2>3 DEF StartSeed, SeedClaim, Seeding
<1>2. ASSUME NEW s \in Seeders, GetSeeded(s)
      PROVE  SeedClaim(k)'
  <2>1. k \in settled /\ SeedClaim(k)
    BY <1>2 DEF GetSeeded, SeedInv
  <2>2. seeder[s] \in Seeder
    BY <1>2, InFlightSeed DEF GetSeeded
  <2>3. CASE seeded[seeder[s].key] = Unseeded
    <3>1. /\ seeder'[s] = [seeder[s] EXCEPT !.doing = "put"]
          /\ \A r \in Seeders \ {s} : seeder'[r] = seeder[r]
          /\ UNCHANGED <<seeded, agreed>>
      BY <1>2, <2>3 DEF GetSeeded, SeededTypeOK
    <3>2. seeder'[s].doing = "put" /\ seeder'[s].key = seeder[s].key
      BY <2>2, <3>1 DEF Seeder
    <3>3. \A r \in Seeders : Seeding(r, k)' <=> Seeding(r, k)
      BY <1>2, <3>1, <3>2 DEF Seeding, GetSeeded
    <3> QED
      BY <2>1, <2>3, <3>1, <3>2, <3>3 DEF SeedClaim, Seeding
  <2>4. CASE seeded[seeder[s].key] # Unseeded
    <3>1. /\ seeder'[s] = NotSeeding
          /\ \A r \in Seeders \ {s} : seeder'[r] = seeder[r]
          /\ seeded' = seeded
          /\ agreed'[k] = agreed[k] \/ agreed'[k] = agreed[k] \cup {seeded[k]}
      BY <1>2, <2>4 DEF GetSeeded, SeededTypeOK
    <3> QED
      BY <2>1, <3>1 DEF SeedClaim, Seeding, NotSeeding
  <2> QED
    BY <2>3, <2>4
<1>3. ASSUME NEW s \in Seeders, PutSeeded(s)
      PROVE  SeedClaim(k)'
  <2>1. k \in settled /\ SeedClaim(k)
    BY <1>3 DEF PutSeeded, SeedInv
  <2>2. seeder[s] \in Seeder
    BY <1>3, InFlightSeed DEF PutSeeded
  <2>3. /\ seeder'[s] = NotSeeding
        /\ \A r \in Seeders \ {s} : seeder'[r] = seeder[r]
    BY <1>3 DEF PutSeeded, SeededTypeOK
  <2>4. CASE seeder[s].key # k
    <3>1. seeded'[k] = seeded[k] /\ agreed'[k] = agreed[k]
      BY <1>3, <2>1, <2>4 DEF PutSeeded, SeededTypeOK
    <3> QED
      BY <2>1, <2>3, <3>1 DEF SeedClaim, Seeding, NotSeeding
  <2>5. CASE seeder[s].key = k
    <3>1. k \in SeedKeys
      BY <2>2, <2>5 DEF Seeder
    <3>2. agreed[k] = {}
      <4>1. seeded[k] = Unseeded
        BY <1>3, <2>1, <2>5 DEF SeedClaim, Seeding, PutSeeded
      <4> QED
        BY <2>1, <3>1, <4>1, SeededAssumption DEF SeedClaim, SeededTypeOK
    <3>3. seeded'[k] = seeder[s].fixture /\ agreed'[k] = {seeder[s].fixture}
      BY <1>3, <2>5, <3>1, <3>2 DEF PutSeeded, SeededTypeOK
    <3>4. \A r \in Seeders : ~Seeding(r, k)'
      BY <1>3, <2>1, <2>3, <2>5 DEF SeedClaim, Seeding, PutSeeded, NotSeeding
    <3> QED
      BY <3>3, <3>4 DEF SeedClaim
  <2> QED
    BY <2>4, <2>5
<1>4. ASSUME NEW s \in Seeders, SeedDies(s)
      PROVE  SeedClaim(k)'
  <2>1. k \in settled /\ SeedClaim(k)
    BY <1>4 DEF SeedDies, SeedInv
  <2>2. /\ seeder'[s] = NotSeeding
        /\ \A r \in Seeders \ {s} : seeder'[r] = seeder[r]
        /\ agreed' = agreed
    BY <1>4 DEF SeedDies, SeededTypeOK
  <2>3. CASE seeded'[k] = seeded[k]
    BY <2>1, <2>2, <2>3 DEF SeedClaim, Seeding, NotSeeding
  <2>4. CASE seeded'[k] # seeded[k]
    <3>1. seeder[s].doing = "put" /\ seeder[s].key = k /\ k \in SeedKeys
      BY <1>4, <2>1, <2>4 DEF SeedDies, SeededTypeOK
    <3>2. seeded[k] = Unseeded /\ Seeding(s, k)
      BY <2>1, <3>1 DEF SeedClaim, Seeding
    <3>3. agreed[k] = {}
      BY <2>1, <3>1, <3>2, SeededAssumption DEF SeedClaim, SeededTypeOK
    <3>4. \A r \in Seeders : ~Seeding(r, k)'
      BY <2>1, <2>2, <3>2 DEF SeedClaim, Seeding, NotSeeding
    <3> QED
      BY <2>2, <3>3, <3>4 DEF SeedClaim
  <2> QED
    BY <2>3, <2>4
<1>5. ASSUME NEW j \in SeedKeys, LapseSeeded(j)
      PROVE  SeedClaim(k)'
  <2>1. k \in settled /\ SeedClaim(k) /\ seeder' = seeder
    BY <1>5 DEF LapseSeeded, SeedInv
  <2>2. k # j => seeded'[k] = seeded[k] /\ agreed'[k] = agreed[k]
    BY <1>5, <2>1 DEF LapseSeeded, SeededTypeOK
  <2>3. k = j => seeded'[k] = Unseeded /\ agreed'[k] = {}
    BY <1>5 DEF LapseSeeded, SeededTypeOK
  <2> QED
    BY <2>1, <2>2, <2>3 DEF SeedClaim, Seeding
<1>6. CASE UNCHANGED seededVars
  BY <1>6 DEF seededVars, SeedInv, SeedClaim, Seeding
<1> QED
  BY <1>1, <1>2, <1>3, <1>4, <1>5, <1>6 DEF SeededNext

\* A re-seed must match (seed_account): for an account whose calls do not
\* overlap, everybody who was told "seeded" named the stored fixture.
THEOREM SeedsMatch == SeededSpec => []SeedsAgree
<1>1. SeedInv => SeedsAgree
  BY DEF SeedInv, SeedClaim, SeedsAgree
<1> QED
  BY <1>1, SeededTypeInit, SeededTypeStep, SeedInit, SeedStep, PTL DEF SeededSpec

=============================================================================
