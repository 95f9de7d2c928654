------------------------ MODULE ComplianceController ------------------------
(***************************************************************************)
(* The compliance test controller: a one-shot directive (the arm) that the *)
(* next get_signals call consumes, the task that call leaves behind, its   *)
(* forced completion with a webhook, and the lookups of other operators    *)
(* and accounts.  All state is in KV; one action per KV call or POST, and  *)
(* the calls of one Promise.all in any order.                              *)
(***************************************************************************)
EXTENDS Naturals, FiniteSets

CONSTANTS
  Callers,    \* slots for calls in flight
  Principals, \* operator ids
  Sandbox,    \* those that are not live accounts
  TaskIds,    \* task ids, chosen by the test run
  Accounts,   \* account keys
  MaxArms,    \* bound: directives armed
  Nil         \* no value

Arms == 1..MaxArms

ASSUME ControllerAssumption ==
  /\ MaxArms \in Nat
  /\ Sandbox \subseteq Principals
  /\ Nil \notin Principals \cup TaskIds \cup Accounts

VARIABLES
  arm,       \* compliance:arm:get_signals:<operator>
  task,      \* compliance:task:<operator>:<task>
  taskOwner, \* compliance:task-owner:<task>
  taskIndex, \* compliance:tasks:<operator>, as a set
  renewed,   \* tasks in an index that were stored again after it was
  armed,     \* directives armed so far, to number them
  caller,    \* the calls in flight
  \* History, read by properties only:
  uses,      \* how many get_signals calls of an operator each directive diverted
  told,      \* tasks whose completion has been stored, until armed afresh
  created,   \* who has ever had which task
  outlived,  \* tasks that were still stored when the index that had them lapsed
  held,      \* lookups whose caller has had the task ever since they began
  orderly    \* operators whose calls never overlapped or failed

listAges == <<renewed, outlived>>

ctlVars == <<arm, task, taskOwner, taskIndex, armed, caller, uses, told, created,
             orderly, renewed, outlived, held>>

\* A directive: its number stands for the moment it was armed.
Directive == [no : Arms, id : TaskIds]

\* Whether the task names a webhook is left open.
Task == [status : {"submitted", "completed"}, account : Accounts \cup {Nil}]

ASSUME TaskAssumption == Nil \notin Task

Phases == {"idle", "peek", "consume", "record", "append", "find", "complete",
           "post", "own", "owner"}

\* no, task, ids: the arm, the task, the index as the call has read them;
\* due: the puts under way; answer: hidden is REFERENCE_NOT_FOUND.
Call == [phase : Phases, op : Principals \cup {Nil}, id : TaskIds \cup {Nil},
         account : Accounts \cup {Nil}, no : Arms \cup {Nil},
         task : Task \cup {Nil}, ids : SUBSET TaskIds,
         due : SUBSET {"task", "owner", "index"}, answer : {"done", "hidden"}]

Ended(answer) == [phase |-> "idle", op |-> Nil, id |-> Nil, account |-> Nil,
                  no |-> Nil, task |-> Nil, ids |-> {}, due |-> {},
                  answer |-> answer]

CtlTypeOK ==
  /\ arm \in [Principals -> Directive \cup {Nil}]
  /\ task \in [Principals -> [TaskIds -> Task \cup {Nil}]]
  /\ taskOwner \in [TaskIds -> Principals \cup {Nil}]
  /\ taskIndex \in [Principals -> SUBSET TaskIds]
  /\ armed \in 0..MaxArms
  /\ caller \in [Callers -> Call]
  /\ uses \in [Principals -> [Arms -> Nat]]
  /\ told \subseteq Principals \X TaskIds
  /\ created \subseteq Principals \X TaskIds
  /\ renewed \subseteq Principals \X TaskIds
  /\ outlived \subseteq Principals \X TaskIds
  /\ held \subseteq Callers
  /\ orderly \subseteq Principals

CtlInit ==
  /\ arm = [o \in Principals |-> Nil]
  /\ task = [o \in Principals |-> [t \in TaskIds |-> Nil]]
  /\ taskOwner = [t \in TaskIds |-> Nil]
  /\ taskIndex = [o \in Principals |-> {}]
  /\ armed = 0
  /\ caller = [c \in Callers |-> Ended("done")]
  /\ uses = [o \in Principals |-> [n \in Arms |-> 0]]
  /\ told = {}
  /\ created = {}
  /\ renewed = {}
  /\ outlived = {}
  /\ held = {}
  /\ orderly = Principals

-----------------------------------------------------------------------------

In(c, phase) == caller[c].phase = phase

Set(c, r) == caller' = [caller EXCEPT ![c] = r]

End(c, answer) == Set(c, Ended(answer))

\* Calls of operator o that change its keys.
Active(c, o) == caller[c].op = o /\ caller[c].phase \notin {"own", "owner"}

Quiet(o) == \A c \in Callers : ~Active(c, o)

\* History: o stays orderly if it has no other call under way.
Join(c, o) ==
  orderly' = IF \E d \in Callers \ {c} : Active(d, o) THEN orderly \ {o} ELSE orderly

(* force_get_signals_arm: one put.  Both forced scenarios are refused to    *)
(* live accounts.                                                          *)

Arm(o, t) ==
  /\ o \in Sandbox
  /\ armed < MaxArms
  /\ armed' = armed + 1
  /\ arm' = [arm EXCEPT ![o] = [no |-> armed + 1, id |-> t]]
  /\ orderly' = IF Quiet(o) THEN orderly ELSE orderly \ {o}
  /\ UNCHANGED <<task, taskOwner, taskIndex, caller, uses, told, created, listAges, held>>

(* get_signals: checkAndConsumeGetSignalsArm.                              *)

StartGetSignals(c, o, a) ==
  /\ In(c, "idle")
  /\ Set(c, [Ended("done") EXCEPT !.phase = "peek", !.op = o, !.account = a])
  /\ Join(c, o)
  /\ UNCHANGED <<arm, task, taskOwner, taskIndex, armed, uses, told, created,
                 listAges, held>>

\* Without an arm the call is an ordinary search.
Peek(c) ==
  LET d == arm[caller[c].op]
  IN /\ In(c, "peek")
     /\ \/ d = Nil /\ End(c, "done")
        \/ d # Nil /\ Set(c, [caller[c] EXCEPT !.phase = "consume", !.id = d.id,
                                               !.no = d.no])
     /\ UNCHANGED <<arm, task, taskOwner, taskIndex, armed, uses, told, created,
                    orderly, listAges, held>>

\* Faulty: the arm is left to lapse.
ConsumeNothing(c) ==
  LET o == caller[c].op
  IN /\ In(c, "consume")
     /\ uses' = [uses EXCEPT ![o][caller[c].no] = @ + 1]
     /\ told' = IF uses[o][caller[c].no] = 0 THEN told \ {<<o, caller[c].id>>} ELSE told
     /\ Set(c, [caller[c] EXCEPT !.phase = "record", !.due = {"task", "owner", "index"}])
     /\ UNCHANGED <<arm, task, taskOwner, taskIndex, armed, created, orderly,
                    listAges, held>>

\* The delete takes whatever arm is there by now.
Consume(c) ==
  LET o == caller[c].op
  IN /\ In(c, "consume")
     /\ arm' = [arm EXCEPT ![o] = Nil]
     /\ uses' = [uses EXCEPT ![o][caller[c].no] = @ + 1]
     /\ told' = IF uses[o][caller[c].no] = 0 THEN told \ {<<o, caller[c].id>>} ELSE told
     /\ Set(c, [caller[c] EXCEPT !.phase = "record", !.due = {"task", "owner", "index"}])
     /\ UNCHANGED <<task, taskOwner, taskIndex, armed, created, orderly, listAges, held>>

\* The call ends when its three writes have.
Written(c, key) ==
  LET rest == caller[c].due \ {key}
  IN IF rest = {} THEN End(c, "done") ELSE Set(c, [caller[c] EXCEPT !.due = rest])

\* The task is stored again, an index that has it is not.
RenewTask(o, t) == IF t \in taskIndex[o] THEN renewed \cup {<<o, t>>} ELSE renewed

\* A task and the index that its own call writes are of one age.
PutTask(c) ==
  LET r == caller[c]
  IN /\ In(c, "record") \/ In(c, "append")
     /\ "task" \in r.due
     /\ task' = [task EXCEPT ![r.op][r.id] =
          [status |-> "submitted", account |-> r.account]]
     /\ created' = created \cup {<<r.op, r.id>>}
     /\ renewed' = IF In(c, "record") THEN RenewTask(r.op, r.id) ELSE renewed
     /\ Written(c, "task")
     /\ UNCHANGED <<arm, taskOwner, taskIndex, armed, uses, told, orderly, outlived, held>>

PutOwner(c) ==
  LET r == caller[c]
  IN /\ In(c, "record") \/ In(c, "append")
     /\ "owner" \in r.due
     /\ taskOwner' = [taskOwner EXCEPT ![r.id] = r.op]
     /\ created' = created \cup {<<r.op, r.id>>}
     /\ Written(c, "owner")
     /\ UNCHANGED <<arm, task, taskIndex, armed, uses, told, orderly, listAges, held>>

\* addToTaskIndex, the read.  A task that is in the index is not added, and the
\* index keeps the lifetime it has.
ReadIndex(c) ==
  LET r == caller[c]
  IN /\ In(c, "record")
     /\ "index" \in r.due
     /\ IF r.id \in taskIndex[r.op]
        THEN Written(c, "index")
        ELSE Set(c, [r EXCEPT !.phase = "append", !.ids = taskIndex[r.op]])
     /\ UNCHANGED <<arm, task, taskOwner, taskIndex, armed, uses, told, created,
                    orderly, listAges, held>>

\* Faulty: the index is written afresh.
RewriteIndex(c) ==
  LET r == caller[c]
  IN /\ In(c, "append")
     /\ "index" \in r.due
     /\ taskIndex' = [taskIndex EXCEPT ![r.op] = {r.id}]
     /\ renewed' = renewed \ ({r.op} \X TaskIds)
     /\ outlived' = outlived \ {<<r.op, r.id>>}
     /\ Written(c, "index")
     /\ UNCHANGED <<arm, task, taskOwner, armed, uses, told, created, orderly, held>>

AppendIndex(c) ==
  LET r == caller[c]
  IN /\ In(c, "append")
     /\ "index" \in r.due
     /\ taskIndex' = [taskIndex EXCEPT ![r.op] = r.ids \cup {r.id}]
     /\ renewed' = renewed \ ({r.op} \X TaskIds)
     /\ outlived' = outlived \ {<<r.op, r.id>>}
     /\ Written(c, "index")
     /\ UNCHANGED <<arm, task, taskOwner, armed, uses, told, created, orderly, held>>

(* force_task_completion.                                                  *)

StartComplete(c, o, t) ==
  /\ o \in Sandbox
  /\ In(c, "idle")
  /\ Set(c, [Ended("done") EXCEPT !.phase = "find", !.op = o, !.id = t])
  /\ Join(c, o)
  /\ UNCHANGED <<arm, task, taskOwner, taskIndex, armed, uses, told, created,
                 listAges, held>>

FindTask(c) ==
  LET found == task[caller[c].op][caller[c].id]
  IN /\ In(c, "find")
     /\ \/ found = Nil /\ End(c, "done")
        \/ found # Nil /\ Set(c, [caller[c] EXCEPT !.phase = "complete", !.task = found])
     /\ UNCHANGED <<arm, task, taskOwner, taskIndex, armed, uses, told, created,
                    orderly, listAges, held>>

\* The copy that was read is stored back, completed; then one delivery if it
\* names a webhook.
PutCompleted(c) ==
  LET r == caller[c]
  IN /\ In(c, "complete")
     /\ task' = [task EXCEPT ![r.op][r.id] = [r.task EXCEPT !.status = "completed"]]
     /\ told' = told \cup {<<r.op, r.id>>}
     /\ renewed' = RenewTask(r.op, r.id)
     /\ \/ Set(c, [r EXCEPT !.phase = "post"])
        \/ End(c, "done")
     /\ UNCHANGED <<arm, taskOwner, taskIndex, armed, uses, created, orderly,
                    outlived, held>>

\* The POST; a failure is ignored.
Deliver(c) ==
  /\ In(c, "post")
  /\ End(c, "done")
  /\ UNCHANGED <<arm, task, taskOwner, taskIndex, armed, uses, told, created,
                 orderly, listAges, held>>

(* get_task_status and get_operation_status: getComplianceTask.            *)

StartLookup(c, o, t, a) ==
  /\ In(c, "idle")
  /\ Set(c, [Ended("done") EXCEPT !.phase = "own", !.op = o, !.id = t, !.account = a])
  /\ held' = IF task[o][t] # Nil THEN held \cup {c} ELSE held
  /\ UNCHANGED <<arm, task, taskOwner, taskIndex, armed, uses, told, created,
                 orderly, listAges>>

SameAccount(a, b) == a = Nil \/ b = Nil \/ a = b

\* Faulty: the owner key is looked at first.
LookUpOwnerFirst(c) ==
  LET r == caller[c]
      found == task[r.op][r.id]
      foreign == taskOwner[r.id] \notin {Nil, r.op}
      other == found # Nil /\ ~SameAccount(found.account, r.account)
  IN /\ In(c, "own")
     /\ End(c, IF foreign \/ other THEN "hidden" ELSE "done")
     /\ held' = held \ {c}
     /\ UNCHANGED <<arm, task, taskOwner, taskIndex, armed, uses, told, created,
                    orderly, listAges>>

LookUpOwn(c) ==
  LET r == caller[c]
      found == task[r.op][r.id]
  IN /\ In(c, "own")
     /\ \/ found = Nil /\ Set(c, [r EXCEPT !.phase = "owner"]) /\ held' = held
        \/ /\ found # Nil
           /\ End(c, IF SameAccount(found.account, r.account) THEN "done" ELSE "hidden")
           /\ held' = held \ {c}
     /\ UNCHANGED <<arm, task, taskOwner, taskIndex, armed, uses, told, created,
                    orderly, listAges>>

\* An index entry of the caller's own has outlived its task.
LookUpOwner(c) ==
  LET r == caller[c]
  IN /\ In(c, "owner")
     /\ End(c, IF taskOwner[r.id] \in {Nil, r.op} THEN "done" ELSE "hidden")
     /\ held' = held \ {c}
     /\ UNCHANGED <<arm, task, taskOwner, taskIndex, armed, uses, told, created,
                    orderly, listAges>>

(* Failures, and lifetimes, which are long against a call that writes.     *)

\* A KV call throws or the request dies; what it has written stays.
CallDies(c) ==
  /\ ~In(c, "idle")
  /\ orderly' = orderly \ {caller[c].op}
  /\ held' = held \ {c}
  /\ End(c, "done")
  /\ UNCHANGED <<arm, task, taskOwner, taskIndex, armed, uses, told, created, listAges>>

\* An unused arm lapses after ten minutes.
LapseArm(o) ==
  /\ Quiet(o)
  /\ arm[o] # Nil
  /\ arm' = [arm EXCEPT ![o] = Nil]
  /\ UNCHANGED <<task, taskOwner, taskIndex, armed, caller, uses, told, created,
                 orderly, listAges, held>>

\* Task, owner and index keys lapse an hour after they were last written: of a
\* task and the index that has it, the older first.
LapseTask(o, t) ==
  /\ Quiet(o)
  /\ task[o][t] # Nil
  /\ <<o, t>> \notin renewed
  /\ task' = [task EXCEPT ![o][t] = Nil]
  /\ outlived' = outlived \ {<<o, t>>}
  /\ held' = {c \in held : <<caller[c].op, caller[c].id>> # <<o, t>>}
  /\ UNCHANGED <<arm, taskOwner, taskIndex, armed, caller, uses, told, created,
                 orderly, renewed>>

LapseOwner(t) ==
  /\ \A o \in Principals : Quiet(o)
  /\ taskOwner[t] # Nil
  /\ taskOwner' = [taskOwner EXCEPT ![t] = Nil]
  /\ UNCHANGED <<arm, task, taskIndex, armed, caller, uses, told, created, orderly,
                 listAges, held>>

LapseIndex(o) ==
  /\ Quiet(o)
  /\ taskIndex[o] # {}
  /\ \A t \in taskIndex[o] : task[o][t] # Nil => <<o, t>> \in renewed
  /\ taskIndex' = [taskIndex EXCEPT ![o] = {}]
  /\ renewed' = renewed \ ({o} \X TaskIds)
  /\ outlived' = outlived \cup {<<o, t>> : t \in {u \in taskIndex[o] : task[o][u] # Nil}}
  /\ UNCHANGED <<arm, task, taskOwner, armed, caller, uses, told, created, orderly, held>>

CallStep(c) ==
  \/ Peek(c) \/ Consume(c) \/ PutTask(c) \/ PutOwner(c) \/ ReadIndex(c) \/ AppendIndex(c)
  \/ FindTask(c) \/ PutCompleted(c) \/ Deliver(c)
  \/ LookUpOwn(c) \/ LookUpOwner(c)
  \/ CallDies(c)

CallStart(c, o) ==
  \/ \E a \in Accounts \cup {Nil} : StartGetSignals(c, o, a)
  \/ \E t \in TaskIds : StartComplete(c, o, t)
  \/ \E t \in TaskIds, a \in Accounts \cup {Nil} : StartLookup(c, o, t, a)

CtlNext ==
  \/ \E c \in Callers, o \in Principals : CallStart(c, o)
  \/ \E c \in Callers : CallStep(c)
  \/ \E o \in Principals, t \in TaskIds : Arm(o, t) \/ LapseTask(o, t)
  \/ \E o \in Principals : LapseArm(o) \/ LapseIndex(o)
  \/ \E t \in TaskIds : LapseOwner(t)

CtlSpec == CtlInit /\ [][CtlNext]_ctlVars

-----------------------------------------------------------------------------

\* A directive is one-shot: it diverts a second get_signals call only if
\* calls of its operator overlapped or failed.
OneShot == \A o \in orderly, n \in Arms : uses[o][n] <= 1

\* A task whose completion was stored, and sent to its webhook, is not seen
\* submitted again before it is armed afresh.
CompletionStays ==
  \A o \in orderly, t \in TaskIds :
    <<o, t>> \in told /\ task[o][t] # Nil => task[o][t].status = "completed"

\* list_tasks shows every task there is, but for those that outlived their
\* index: complianceController.ts 577 leaves its lifetime as it is when a task
\* is armed again, and 498 stores a completed task without it.
TasksListed ==
  \A o \in orderly, t \in TaskIds :
    Quiet(o) /\ task[o][t] # Nil => t \in taskIndex[o] \/ <<o, t>> \in outlived

\* A task is reported as somebody else's only if it names another account than
\* the call, or if another operator has had one of that id and the caller has
\* not had its own all along; this holds whatever overlaps, fails or lapses.
HiddenOnlyIfForeign ==
  [][\A c \in Callers :
       LET r == caller[c]
           found == task[r.op][r.id]
       IN ~In(c, "idle") /\ caller'[c] = Ended("hidden") =>
            \/ /\ found # Nil /\ Nil \notin {found.account, r.account}
               /\ found.account # r.account
            \/ c \notin held /\ \E o \in Principals \ {r.op} : <<o, r.id>> \in created]_ctlVars

=============================================================================
