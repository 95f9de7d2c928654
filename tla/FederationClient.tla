-------------------------- MODULE FederationClient --------------------------
(***************************************************************************)
(* The MCP client for one agent's URL, in one isolate: the cached session, *)
(* the one-shot repeat after a session error, and the circuit breaker with *)
(* its transient retry.  One action per answer of the agent or timer; what *)
(* runs between two awaits is part of the action before.                   *)
(***************************************************************************)
EXTENDS Naturals, Sequences, FiniteSets

CONSTANTS
  Calls,       \* slots for calls in flight
  Threshold,   \* CIRCUIT_FAILURE_THRESHOLD
  Cooldown,    \* CIRCUIT_OPEN_DURATION_MS
  SessionTtl,  \* SESSION_TTL_MS
  MaxRetries   \* opts.retries ?? RETRY_MAX_DEFAULT

ASSUME FederationAssumption ==
  /\ {Threshold, Cooldown, SessionTtl} \subseteq Nat \ {0}
  /\ MaxRetries \in Nat

VARIABLES
  session,  \* _sessions.get(url)
  circuit,  \* CIRCUIT_BREAKERS.get(url).state
  failed,   \* failure_count, up to Threshold
  calm,     \* time since last_failure_ts, up to Cooldown
  out,      \* the calls in flight
  \* History, read by properties only:
  ended     \* how the last Threshold guarded calls ended, oldest first

fedVars == <<session, circuit, failed, calm, out, ended>>

\* A session is known to the agent until the agent forgets it.  age runs from
\* the moment before initialize was sent, up to SessionTtl.
Session == [cached : {TRUE}, known : BOOLEAN, age : 0..SessionTtl]

NoSession == [cached |-> FALSE]

\* plain is callAgentTool, guarded callAgentToolWithCircuit.
Ways == {"plain", "guarded", "probe"}

Points == {"free", "hello", "notify", "send", "pause"}

\* known, age: the session in use, or being made; again: the session was
\* renewed in this attempt.  History: whether the agent has forgotten sessions
\* since the call began; of plain calls, how often the agent has carried the tool
\* out, and whether a tool error was taken for a session's.
Out == [point : Points, way : Ways, known : BOOLEAN, age : 0..SessionTtl,
        again : BOOLEAN, tries : 0..MaxRetries, ran : Nat, lost : BOOLEAN,
        misread : BOOLEAN]

Slot(point, way, ran) ==
  [point |-> point, way |-> way, known |-> FALSE, age |-> 0, again |-> FALSE,
   tries |-> 0, ran |-> ran, lost |-> FALSE, misread |-> FALSE]

FedTypeOK ==
  /\ session \in Session \cup {NoSession}
  /\ circuit \in {"closed", "open", "half_open"}
  /\ failed \in 0..Threshold
  /\ calm \in 0..Cooldown
  /\ out \in [Calls -> Out]
  /\ ended \in Seq(BOOLEAN) /\ Len(ended) <= Threshold

FedInit ==
  /\ session = NoSession
  /\ circuit = "closed"
  /\ failed = 0
  /\ calm = Cooldown
  /\ out = [c \in Calls |-> Slot("free", "plain", 0)]
  /\ ended = <<>>

-----------------------------------------------------------------------------

At(c, point) == out[c].point = point

Usable == session.cached /\ session.age < SessionTtl

\* ensureSession up to its await: the cached session, or a new one.
Ensure(r) ==
  IF Usable THEN [r EXCEPT !.point = "send", !.known = session.known, !.age = session.age]
            ELSE [r EXCEPT !.point = "hello", !.known = FALSE, !.age = 0]

Dial(c, way) ==
  /\ At(c, "free")
  /\ out' = [out EXCEPT ![c] = Ensure(Slot("free", way, 0))]

StartPlain(c) == Dial(c, "plain") /\ UNCHANGED <<session, circuit, failed, calm, ended>>

\* While the circuit is open and has not cooled the call is refused at once.
StartGuarded(c) ==
  /\ circuit = "open" => calm >= Cooldown
  /\ circuit' = IF circuit = "open" THEN "half_open" ELSE circuit
  /\ Dial(c, "guarded")
  /\ UNCHANGED <<session, failed, calm, ended>>

\* probeAgent always makes a session of its own.
StartProbe(c) ==
  /\ At(c, "free")
  /\ out' = [out EXCEPT ![c] = Slot("hello", "probe", 0)]
  /\ UNCHANGED <<session, circuit, failed, calm, ended>>

-----------------------------------------------------------------------------
(* The ends of an attempt and of a call.                                   *)

Leave(c, ran) ==
  out' = [out EXCEPT ![c] =
    [Slot("free", "plain", ran) EXCEPT !.misread = out[c].misread /\ ran > 1]]

\* The agent has carried the tool out once more.
RanOnceMore(c) == IF out[c].way = "plain" THEN out[c].ran + 1 ELSE 0

Keep(seq) == IF Len(seq) > Threshold THEN Tail(seq) ELSE seq

\* onCircuitSuccess, from whatever state.
Succeed(c) ==
  /\ Leave(c, RanOnceMore(c))
  /\ IF out[c].way = "guarded"
     THEN /\ circuit' = "closed"
          /\ failed' = 0
          /\ ended' = Keep(Append(ended, TRUE))
     ELSE UNCHANGED <<circuit, failed, ended>>
  /\ UNCHANGED calm

More(n) == IF n < Threshold THEN n + 1 ELSE n

\* Faulty: only the failure that reaches the threshold opens the circuit.
TripOnce == IF failed + 1 = Threshold THEN "open" ELSE circuit

\* Faulty: one failure late.
TripLate == IF failed >= Threshold THEN "open" ELSE circuit

Trip == IF failed + 1 >= Threshold THEN "open" ELSE circuit

\* onCircuitFailure.
CountFailure ==
  /\ failed' = More(failed)
  /\ calm' = 0
  /\ circuit' = Trip
  /\ ended' = Keep(Append(ended, FALSE))

\* The attempt has ended without a result; ran is what it has carried out.
GiveUp(c, ran) ==
  /\ Leave(c, ran)
  /\ IF out[c].way = "guarded" THEN CountFailure
                               ELSE UNCHANGED <<circuit, failed, calm, ended>>

\* Faulty: unguarded calls are retried like guarded ones.
RetryAny(c, ran) ==
  /\ out[c].tries < MaxRetries
  /\ out' = [out EXCEPT ![c].point = "pause", ![c].tries = @ + 1, ![c].ran = ran,
                        ![c].again = FALSE, ![c].known = FALSE, ![c].age = 0]
  /\ UNCHANGED <<circuit, failed, calm, ended>>

Retry(c, ran) ==
  /\ out[c].way = "guarded"
  /\ out[c].tries < MaxRetries
  /\ out' = [out EXCEPT ![c].point = "pause", ![c].tries = @ + 1, ![c].ran = ran,
                        ![c].again = FALSE, ![c].known = FALSE, ![c].age = 0]
  /\ UNCHANGED <<circuit, failed, calm, ended>>

LastTry(c) == out[c].way = "guarded" => out[c].tries = MaxRetries

\* An attempt fails on an error that is worth a retry.
Fail(c, ran) ==
  \/ Retry(c, ran)
  \/ LastTry(c) /\ GiveUp(c, ran)

-----------------------------------------------------------------------------
(* The answers.                                                            *)

\* initialize: the agent has a new session for the call.
Greeted(c) ==
  /\ At(c, "hello")
  /\ out' = [out EXCEPT ![c].point = "notify", ![c].known = TRUE]
  /\ UNCHANGED <<session, circuit, failed, calm, ended>>

\* notifications/initialized has ended, well or not: the session is cached,
\* over whatever is cached by now.  A probe's tools/list changes nothing.
Notified(c) ==
  /\ At(c, "notify")
  /\ session' = [cached |-> TRUE, known |-> out[c].known, age |-> out[c].age]
  /\ IF out[c].way = "probe" THEN Leave(c, 0)
     ELSE out' = [out EXCEPT ![c].point = "send"]
  /\ UNCHANGED <<circuit, failed, calm, ended>>

\* No session.
Unwelcome(c) ==
  /\ At(c, "hello")
  /\ \/ out[c].way = "probe" /\ Leave(c, 0)
          /\ UNCHANGED <<circuit, failed, calm, ended>>
     \/ out[c].way # "probe"
          /\ Fail(c, out[c].ran)
  /\ UNCHANGED session

Answered(c) ==
  /\ At(c, "send")
  /\ out[c].known
  /\ Succeed(c)
  /\ UNCHANGED session

\* A tool error, an auth gate (not retried), a lost answer or a timeout; the
\* agent may have carried the tool out before the answer was lost.
Errs(c) ==
  /\ At(c, "send")
  /\ \/ Fail(c, out[c].ran)
     \/ out[c].known /\ Fail(c, RanOnceMore(c))
     \/ out[c].way = "guarded" /\ GiveUp(c, out[c].ran)
  /\ UNCHANGED session

\* Faulty: the cached session is kept.
RenewKept(c) ==
  /\ At(c, "send")
  /\ ~out[c].known
  /\ ~out[c].again
  /\ out' = [out EXCEPT ![c] = Ensure([out[c] EXCEPT !.again = TRUE])]
  /\ UNCHANGED <<session, circuit, failed, calm, ended>>

\* The error mentions a session: the agent does not know it, or the tool's own
\* error has the word.  Whatever is cached is dropped and a new session made.
Renew(c) ==
  /\ At(c, "send")
  /\ ~out[c].again
  /\ session' = NoSession
  /\ \E ran \in {out[c].ran} \cup {n \in {RanOnceMore(c)} : out[c].known} :
       out' = [out EXCEPT ![c].point = "hello", ![c].again = TRUE, ![c].age = 0,
                          ![c].known = FALSE, ![c].ran = ran,
                          ![c].misread = out[c].known /\ out[c].way = "plain"]
  /\ UNCHANGED <<circuit, failed, calm, ended>>

\* The renewed session is unknown again.
SessionError(c) ==
  /\ At(c, "send")
  /\ ~out[c].known
  /\ out[c].again
  /\ Fail(c, out[c].ran)
  /\ UNCHANGED session

\* The back-off is over.
Resume(c) ==
  /\ At(c, "pause")
  /\ out' = [out EXCEPT ![c] = Ensure(out[c])]
  /\ UNCHANGED <<session, circuit, failed, calm, ended>>

-----------------------------------------------------------------------------

\* The agent restarts or expires its sessions.
Forget ==
  /\ session' = IF session.cached THEN [session EXCEPT !.known = FALSE] ELSE session
  /\ out' = [c \in Calls |-> IF At(c, "free") THEN out[c]
                             ELSE [out[c] EXCEPT !.known = FALSE, !.lost = TRUE]]
  /\ UNCHANGED <<circuit, failed, calm, ended>>

Older(a) == IF a < SessionTtl THEN a + 1 ELSE a

FedTick ==
  /\ session' = IF session.cached THEN [session EXCEPT !.age = Older(@)] ELSE session
  /\ out' = [c \in Calls |-> IF At(c, "free") THEN out[c]
                             ELSE [out[c] EXCEPT !.age = Older(@)]]
  /\ calm' = IF calm < Cooldown THEN calm + 1 ELSE calm
  /\ UNCHANGED <<circuit, failed, ended>>

FedStep(c) ==
  \/ Greeted(c) \/ Notified(c) \/ Unwelcome(c) \/ Answered(c) \/ Errs(c)
  \/ Renew(c) \/ SessionError(c) \/ Resume(c)

FedNext ==
  \/ \E c \in Calls : StartPlain(c) \/ StartGuarded(c) \/ StartProbe(c) \/ FedStep(c)
  \/ Forget
  \/ FedTick

FedSpec == FedInit /\ [][FedNext]_fedVars

-----------------------------------------------------------------------------

\* The circuit is not closed exactly when the last Threshold guarded calls
\* to end all failed, whatever the order they began in.
TripsOnRun ==
  circuit # "closed" <=> Len(ended) = Threshold /\ \A i \in 1..Threshold : ~ended[i]

\* After a run of failures no guarded call is let through before the agent
\* has had Cooldown without another failure, also in half-open.
CoolsDown ==
  [][\A c \in Calls :
       At(c, "free") /\ out'[c].point # "free" /\ out'[c].way = "guarded" =>
         circuit = "closed" \/ calm >= Cooldown]_fedVars

\* A renewed session is refused only if the agent has forgotten sessions
\* while the call was under way: whatever was cached before is made good.
SessionsHealed ==
  \A c \in Calls : At(c, "send") /\ out[c].again /\ ~out[c].known => out[c].lost

\* An unguarded call (create_media_buy, update_media_buy) is carried out twice
\* only if the agent answered it with a tool error that mentions a session, and
\* never more often.
PlainRunsOnce ==
  \A c \in Calls : out[c].way = "plain" =>
    out[c].ran <= IF out[c].misread THEN 2 ELSE 1

=============================================================================
