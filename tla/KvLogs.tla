------------------------------- MODULE KvLogs -------------------------------
(***************************************************************************)
(* The capped lists that requests keep in KV by reading, changing and      *)
(* writing back one key: the snapshots of an operator, the signal traces,  *)
(* the workflow runs (and the agentic memory), and the annotations of a    *)
(* run (and the vendor health points).  They differ in few points, so one  *)
(* module describes the four; a behaviour is about one of them.            *)
(***************************************************************************)
EXTENDS Naturals, Sequences

CONSTANTS
  Savers, \* slots for requests in flight
  Ids,    \* ids of entries; the first request for one draws it
  Cap     \* MAX_PER_OPERATOR, KV_INDEX_CAP, WF_HISTORY_MAX_INDEX, MAX_PER_RUN

ASSUME LogAssumption == Cap \in Nat \ {0}

Logs == {"snapshots", "traces", "runs", "notes"}

VARIABLES
  log,      \* which of the lists
  index,    \* the list, newest first
  bodies,   \* ids whose body is stored under a key of its own
  saver,    \* the requests in flight
  \* History, read by properties only:
  drawn,    \* ids in use
  bodiless, \* ids whose body has been deleted or has lapsed since it was stored
  alone,    \* no two requests have overlapped and none has failed
  wanted    \* the list as it would be if each request took effect at once

logVars == <<log, index, bodies, saver, drawn, bodiless, alone, wanted>>

\* Annotations and health points are the list itself.
Bodied == log # "notes"

\* At the cap snapshots are refused; the other lists lose their oldest entry.
Refuses == log = "snapshots"

\* A read that fails counts as an empty list.
Forgiving == log \in {"runs", "notes"}

\* A run is saved again under the id the client sends; a trace in a retry.
Repeatable == log \in {"runs", "traces"}

Deletable == log \in {"snapshots", "notes"}

IndexLists == UNION {[1..n -> Ids] : n \in 0..Cap}

Moves == {"rest", "body", "read", "write"}

Saver == [move : Moves, id : Ids, delete : BOOLEAN, list : IndexLists]

Resting == [move |-> "rest"]

LogTypeOK ==
  /\ log \in Logs
  /\ index \in IndexLists
  /\ bodies \subseteq Ids
  /\ saver \in [Savers -> Saver \cup {Resting}]
  /\ drawn \subseteq Ids
  /\ bodiless \subseteq Ids
  /\ alone \in BOOLEAN
  /\ wanted \in IndexLists

LogInit ==
  /\ log \in Logs
  /\ index = <<>>
  /\ bodies = {}
  /\ saver = [s \in Savers |-> Resting]
  /\ drawn = {}
  /\ bodiless = {}
  /\ alone = TRUE
  /\ wanted = <<>>

-----------------------------------------------------------------------------

Moving(s, move) == saver[s].move = move

Rest(s) == saver' = [saver EXCEPT ![s] = Resting]

\* filter(e => e !== id), entry by entry.
Without(list, id) ==
  LET left[n \in 0..Len(list)] ==
        IF n = 0 THEN <<>>
        ELSE IF list[n] = id THEN left[n - 1] ELSE Append(left[n - 1], list[n])
  IN left[Len(list)]

\* Faulty: the cap is forgotten.
Whole(list) == list

Newest(list) == SubSeq(list, 1, IF Len(list) > Cap THEN Cap ELSE Len(list))

Begun(s, id, delete, move) ==
  /\ Moving(s, "rest")
  /\ alone' = (alone /\ \A r \in Savers : Moving(r, "rest"))
  /\ saver' = [saver EXCEPT ![s] = [move |-> move, id |-> id, delete |-> delete,
                                    list |-> <<>>]]
  /\ UNCHANGED <<log, index, bodies, bodiless, wanted>>

\* handleSnapshotSave, persistSignalTrace, handleWorkflowSave, rememberWorkflow,
\* appendAnnotation, appendDatapoint.
StartSave(s, id) ==
  /\ id \in drawn => Repeatable
  /\ drawn' = drawn \cup {id}
  /\ Begun(s, id, FALSE, IF Bodied /\ ~Refuses THEN "body" ELSE "read")

\* handleSnapshotDelete, deleteAnnotation.
StartDelete(s, id) ==
  /\ Deletable
  /\ id \in drawn
  /\ Begun(s, id, TRUE, IF Bodied THEN "body" ELSE "read")
  /\ UNCHANGED drawn

\* Faulty: a stored entry is not looked for in the list.
Prepended(list, id) == Newest(<<id>> \o list)

Saved(list, id) == Newest(<<id>> \o Without(list, id))

\* A snapshot's body is put after the list has been read and before it is
\* written, the other bodies before the list is read.
PutBody(s) ==
  /\ Moving(s, "body")
  /\ ~saver[s].delete
  /\ bodies' = bodies \cup {saver[s].id}
  /\ bodiless' = bodiless \ {saver[s].id}
  /\ saver' = [saver EXCEPT ![s].move = IF Refuses THEN "write" ELSE "read"]
  /\ UNCHANGED <<log, index, drawn, alone, wanted>>

DropBody(s) ==
  /\ Moving(s, "body")
  /\ saver[s].delete
  /\ bodies' = bodies \ {saver[s].id}
  /\ bodiless' = bodiless \cup {saver[s].id}
  /\ saver' = [saver EXCEPT ![s].move = "read"]
  /\ UNCHANGED <<log, index, drawn, alone, wanted>>

\* What a request makes of the list it has read.
Digest(s, list) ==
  LET r == saver[s]
  IN \/ /\ ~r.delete /\ Refuses /\ Len(list) >= Cap
        /\ Rest(s)
     \/ /\ ~r.delete /\ ~(Refuses /\ Len(list) >= Cap)
        /\ saver' = [saver EXCEPT ![s].list = Saved(list, r.id),
                                  ![s].move = IF Refuses THEN "body" ELSE "write"]
     \/ /\ r.delete /\ ~Bodied /\ Without(list, r.id) = list
        /\ Rest(s)
     \/ /\ r.delete /\ (Bodied \/ Without(list, r.id) # list)
        /\ saver' = [saver EXCEPT ![s].list = Without(list, r.id),
                                  ![s].move = "write"]

ReadList(s) ==
  /\ Moving(s, "read")
  /\ Digest(s, index)
  /\ UNCHANGED <<log, index, bodies, drawn, bodiless, alone, wanted>>

\* listAnnotations and its like catch a failing read and go on with nothing.
ReadFails(s) ==
  /\ Moving(s, "read")
  /\ Forgiving
  /\ Digest(s, <<>>)
  /\ alone' = FALSE
  /\ UNCHANGED <<log, index, bodies, drawn, bodiless, wanted>>

WriteList(s) ==
  LET r == saver[s]
      others == Without(wanted, r.id)
  IN /\ Moving(s, "write")
     /\ index' = r.list
     /\ wanted' = IF r.delete THEN others ELSE Newest(<<r.id>> \o others)
     /\ Rest(s)
     /\ UNCHANGED <<log, bodies, drawn, bodiless, alone>>

\* A call throws, or the request dies; what it has written stays.
SaveDies(s) ==
  /\ ~Moving(s, "rest")
  /\ alone' = FALSE
  /\ Rest(s)
  /\ UNCHANGED <<log, index, bodies, drawn, bodiless, wanted>>

\* handleSignalTracesClear; the bodies stay.
ClearList ==
  /\ log = "traces"
  /\ index' = <<>>
  /\ wanted' = <<>>
  /\ alone' = (alone /\ \A s \in Savers : Moving(s, "rest"))
  /\ UNCHANGED <<log, bodies, saver, drawn, bodiless>>

\* Snapshots are kept for ever.  Other bodies lapse, and the list does when it
\* has not been written for as long; lifetimes are long against a request.
LapseBody(id) ==
  /\ log \in {"traces", "runs"}
  /\ \A s \in Savers : Moving(s, "rest")
  /\ id \in bodies
  /\ bodies' = bodies \ {id}
  /\ bodiless' = bodiless \cup {id}
  /\ UNCHANGED <<log, index, saver, drawn, alone, wanted>>

LapseList ==
  /\ log # "snapshots"
  /\ \A s \in Savers : Moving(s, "rest")
  /\ index' = <<>>
  /\ wanted' = <<>>
  /\ UNCHANGED <<log, bodies, saver, drawn, bodiless, alone>>

LogNext ==
  \/ \E s \in Savers :
       \/ \E id \in Ids : StartSave(s, id) \/ StartDelete(s, id)
       \/ PutBody(s) \/ DropBody(s) \/ ReadList(s) \/ ReadFails(s)
       \/ WriteList(s) \/ SaveDies(s)
  \/ ClearList
  \/ \E id \in Ids : LapseBody(id)
  \/ LapseList

LogSpec == LogInit /\ [][LogNext]_logVars

-----------------------------------------------------------------------------

\* As long as requests neither overlap nor fail the list is what a list with
\* atomic operations would be.
ListFaithful == alone => index = wanted

\* An entry is listed at most once.
ListedOnce == \A i, j \in DOMAIN index : index[i] = index[j] => i = j

\* An entry without a body is one whose body was deleted or has lapsed.
ListedHaveBodies ==
  Bodied => \A i \in DOMAIN index : index[i] \in bodies \cup bodiless

\* What holds whatever overlaps or fails.
ListSound == ListedOnce /\ ListedHaveBodies

=============================================================================
