-------------------------- MODULE FederationProofs --------------------------
(***************************************************************************)
(* For any number of calls and any thresholds: the types; the breaker is   *)
(* open exactly after a run of failures and then cools down; a renewed     *)
(* session is good; and an unguarded call runs once.  At the end, the      *)
(* brand registry proxy: what is cached carries an honest date.            *)
(***************************************************************************)
EXTENDS FederationClient, BrandCache, TLAPS

\* What is due to a call in flight.  A call that waits is guarded and starts
\* over; a renewed session is known unless the agent forgot it meanwhile; an
\* unguarded call has run only if its first answer was misread.
Sound(r) ==
  /\ r.point = "pause" => r.way = "guarded" /\ r.again = FALSE
  /\ r.point \in {"notify", "send"} /\ r.again = TRUE /\ r.known = FALSE => r.lost = TRUE
  /\ r.way # "plain" => r.ran = 0
  /\ r.way = "plain" /\ r.point = "free" => r.ran <= IF r.misread = TRUE THEN 2 ELSE 1
  /\ r.way = "plain" /\ r.point # "free" =>
       r.ran <= IF r.again = TRUE /\ r.misread = TRUE THEN 1 ELSE 0

SoundOut == {r \in Out : Sound(r)}

LEMMA Ttls == SessionTtl \in Nat /\ SessionTtl > 0 /\ Cooldown \in Nat /\ Cooldown > 0
              /\ Threshold \in Nat /\ Threshold > 0 /\ MaxRetries \in Nat
BY FederationAssumption

LEMMA SlotSound ==
  ASSUME NEW point \in Points, NEW way \in Ways, NEW n \in Nat,
         \/ n = 0 /\ point # "pause"
         \/ n = 1 /\ point = "free" /\ way = "plain"
  PROVE  Slot(point, way, n) \in SoundOut
<1>1. Slot(point, way, n) \in Out
  BY Ttls DEF Slot, Out
<1> QED
  BY <1>1 DEF Slot, SoundOut, Sound

LEMMA EnsureSound ==
  ASSUME FedTypeOK, NEW r \in SoundOut, r.again = FALSE, r.ran = 0
  PROVE  Ensure(r) \in SoundOut
<1>1. r \in Out /\ Sound(r)
  BY DEF SoundOut
<1>2. ASSUME NEW point \in {"send", "hello"}, NEW known \in BOOLEAN,
             NEW age \in 0..SessionTtl
      PROVE  [r EXCEPT !.point = point, !.known = known, !.age = age] \in SoundOut
  <2> DEFINE q == [r EXCEPT !.point = point, !.known = known, !.age = age]
  <2>1. q \in Out
    BY <1>1 DEF Out, Points
  <2>2. /\ q.point = point /\ q.way = r.way /\ q.again = r.again /\ q.ran = r.ran
        /\ q.misread = r.misread
    BY <1>1 DEF Out
  <2> HIDE DEF q
  <2>3. q \in SoundOut
    BY <1>1, <2>1, <2>2 DEF SoundOut, Sound
  <2> QED
    BY <2>3 DEF q
<1>3. CASE Usable
  <2>1. session # NoSession
    BY <1>3 DEF Usable, NoSession
  <2>2. session.known \in BOOLEAN /\ session.age \in 0..SessionTtl
    BY <2>1 DEF FedTypeOK, Session
  <2> QED
    BY <1>2, <1>3, <2>2 DEF Ensure
<1>4. CASE ~Usable
  <2>1. 0 \in 0..SessionTtl
    BY Ttls
  <2> QED
    BY <1>2, <1>4, <2>1, Zenon DEF Ensure
<1> QED
  BY <1>3, <1>4

Slots == out \in [Calls -> SoundOut]

LEMMA CallChanged ==
  ASSUME Slots, NEW c \in Calls, NEW r \in SoundOut, out' = [out EXCEPT ![c] = r]
  PROVE  Slots' /\ out'[c] = r /\ \A d \in Calls \ {c} : out'[d] = out[d]
BY DEF Slots

\* How often the tool of a call may have run once it is over.
RanAtMost(r, n) ==
  /\ n \in Nat
  /\ r.way # "plain" => n = 0
  /\ n <= IF r.misread = TRUE THEN 2 ELSE 1

LEMMA RanBounds ==
  ASSUME Slots, NEW c \in Calls
  PROVE  /\ RanAtMost(out[c], out[c].ran)
         /\ out[c].point # "free" => RanAtMost(out[c], RanOnceMore(c))
         /\ out[c] \in Out /\ Sound(out[c])
<1>1. out[c] \in Out /\ Sound(out[c]) /\ out[c].ran \in Nat
  BY DEF Slots, SoundOut, Out
<1>2. RanAtMost(out[c], out[c].ran)
  BY <1>1 DEF Sound, RanAtMost
<1>3. out[c].point # "free" => RanAtMost(out[c], RanOnceMore(c))
  BY <1>1 DEF Sound, RanAtMost, RanOnceMore
<1> QED
  BY <1>1, <1>2, <1>3

LEMMA LeaveSound ==
  ASSUME Slots, NEW c \in Calls, NEW n, RanAtMost(out[c], n), Leave(c, n)
  PROVE  Slots' /\ out'[c].point = "free"
<1> DEFINE m == out[c].misread /\ n > 1
           q == Slot("free", "plain", n)
           r == [q EXCEPT !.misread = m]
<1>1. n \in Nat /\ m \in BOOLEAN /\ (n > 1 => m = TRUE) /\ n <= 2
  BY DEF RanAtMost
<1>2. out' = [out EXCEPT ![c] = r]
  BY DEF Leave
<1> HIDE DEF m
<1>3. /\ q \in Out /\ q.point = "free" /\ q.way = "plain" /\ q.ran = n
      /\ q.again = FALSE
  BY <1>1, Ttls DEF Slot, Out, Points, Ways
<1> HIDE DEF q
<1>4. /\ r \in Out /\ r.point = "free" /\ r.way = "plain" /\ r.ran = n /\ r.misread = m
      /\ r.again = FALSE
  BY <1>1, <1>3 DEF Out
<1> HIDE DEF r
<1>5. r \in SoundOut
  BY <1>1, <1>4 DEF SoundOut, Sound
<1> QED
  BY <1>2, <1>4, <1>5, CallChanged

LEMMA RetrySound ==
  ASSUME Slots, NEW c \in Calls, NEW n, RanAtMost(out[c], n), Retry(c, n)
  PROVE  Slots' /\ out'[c].point = "pause" /\ out'[c].way = "guarded"
<1> DEFINE r == [out[c] EXCEPT !.point = "pause", !.tries = @ + 1, !.ran = n,
                               !.again = FALSE, !.known = FALSE, !.age = 0]
<1>1. out[c] \in Out /\ out[c].way = "guarded" /\ n = 0 /\ out[c].tries < MaxRetries
  BY RanBounds DEF Retry, RanAtMost
<1>2. out' = [out EXCEPT ![c] = r]
  BY DEF Retry
<1>3. /\ r \in Out /\ r.point = "pause" /\ r.way = "guarded" /\ r.ran = 0
      /\ r.again = FALSE /\ r.known = FALSE
  <2>1. out[c].tries + 1 \in 0..MaxRetries /\ 0 \in 0..SessionTtl /\ n \in Nat
    BY <1>1, Ttls DEF Out
  <2>2. r \in Out
    BY <1>1, <2>1 DEF Out, Points
  <2>3. r.point = "pause" /\ r.way = "guarded" /\ r.ran = 0
    BY <1>1 DEF Out
  <2>4. r.again = FALSE /\ r.known = FALSE
    BY <1>1 DEF Out
  <2> QED
    BY <2>2, <2>3, <2>4
<1> HIDE DEF r
<1>4. r \in SoundOut
  BY <1>3 DEF SoundOut, Sound
<1> QED
  BY <1>2, <1>3, <1>4, CallChanged

LEMMA FailSound ==
  ASSUME Slots, NEW c \in Calls, NEW n, RanAtMost(out[c], n), Fail(c, n)
  PROVE  Slots' /\ (out'[c].point = "free" \/ out'[c].way = "guarded")
<1>1. CASE Retry(c, n)
  BY <1>1, RetrySound
<1>2. CASE GiveUp(c, n)
  BY <1>2, LeaveSound DEF GiveUp
<1> QED
  BY <1>1, <1>2 DEF Fail

-----------------------------------------------------------------------------
(* What each action makes of its slot.                                     *)

Starts(c) == StartPlain(c) \/ StartGuarded(c) \/ StartProbe(c)

LEMMA StartSound ==
  ASSUME FedTypeOK, Slots, NEW c \in Calls, Starts(c)
  PROVE  Slots'
<1>1. \A way \in Ways : Ensure(Slot("free", way, 0)) \in SoundOut
  <2> TAKE way \in Ways
  <2>1. Slot("free", way, 0) \in SoundOut
    BY SlotSound DEF Points
  <2>2. Slot("free", way, 0).again = FALSE /\ Slot("free", way, 0).ran = 0
    BY DEF Slot
  <2> QED
    BY <2>1, <2>2, EnsureSound
<1>2. Slot("hello", "probe", 0) \in SoundOut
  BY SlotSound DEF Points, Ways
<1> QED
  BY <1>1, <1>2, CallChanged DEF Starts, StartPlain, StartGuarded, StartProbe, Dial, Ways

LEMMA GreetSound ==
  ASSUME Slots, NEW c \in Calls, Greeted(c)
  PROVE  Slots'
<1> DEFINE r == [out[c] EXCEPT !.point = "notify", !.known = TRUE]
<1>1. out[c] \in Out /\ Sound(out[c]) /\ out[c].point = "hello"
  BY RanBounds DEF Greeted, At
<1>2. out' = [out EXCEPT ![c] = r]
  BY DEF Greeted
<1>3. /\ r \in Out /\ r.point = "notify" /\ r.known = TRUE /\ r.way = out[c].way
      /\ r.again = out[c].again /\ r.ran = out[c].ran /\ r.misread = out[c].misread
  BY <1>1 DEF Out, Points
<1> HIDE DEF r
<1>4. r \in SoundOut
  BY <1>1, <1>3 DEF SoundOut, Sound
<1> QED
  BY <1>2, <1>4, CallChanged

LEMMA NotifySound ==
  ASSUME FedTypeOK, Slots, NEW c \in Calls, Notified(c)
  PROVE  Slots' /\ session' \in Session
<1> DEFINE r == [out[c] EXCEPT !.point = "send"]
<1>1. out[c] \in Out /\ Sound(out[c]) /\ out[c].point = "notify"
  BY RanBounds DEF Notified, At
<1>2. session' \in Session
  BY <1>1 DEF Notified, Session, Out
<1>3. CASE out[c].way = "probe"
  <2>1. RanAtMost(out[c], 0)
    BY DEF RanAtMost
  <2> QED
    BY <1>2, <1>3, <2>1, LeaveSound DEF Notified
<1>4. CASE out[c].way # "probe"
  <2>1. out' = [out EXCEPT ![c] = r]
    BY <1>4 DEF Notified
  <2>2. /\ r \in Out /\ r.point = "send" /\ r.known = out[c].known /\ r.way = out[c].way
        /\ r.again = out[c].again /\ r.ran = out[c].ran /\ r.misread = out[c].misread
        /\ r.lost = out[c].lost
    BY <1>1 DEF Out, Points
  <2> HIDE DEF r
  <2>3. r \in SoundOut
    BY <1>1, <2>2 DEF SoundOut, Sound
  <2> QED
    BY <1>2, <2>1, <2>3, CallChanged
<1> QED
  BY <1>3, <1>4

LEMMA RenewSound ==
  ASSUME Slots, NEW c \in Calls, Renew(c)
  PROVE  Slots'
<1>1. out[c] \in Out /\ Sound(out[c]) /\ out[c].point = "send" /\ out[c].again = FALSE
  BY RanBounds DEF Renew, At, Out
<1>2. out[c].ran = 0 /\ RanOnceMore(c) = IF out[c].way = "plain" THEN 1 ELSE 0
  BY <1>1 DEF Sound, RanOnceMore, Out
<1> DEFINE m == out[c].known /\ out[c].way = "plain"
<1>3. m \in BOOLEAN
  OBVIOUS
<1>4. PICK n : /\ n = 0 \/ (n = 1 /\ m = TRUE)
               /\ out' = [out EXCEPT ![c].point = "hello", ![c].again = TRUE, ![c].age = 0,
                                     ![c].known = FALSE, ![c].ran = n, ![c].misread = m]
  <2>1. PICK n \in {out[c].ran} \cup {j \in {RanOnceMore(c)} : out[c].known} :
              out' = [out EXCEPT ![c].point = "hello", ![c].again = TRUE, ![c].age = 0,
                                 ![c].known = FALSE, ![c].ran = n, ![c].misread = m]
    BY DEF Renew
  <2>2. n = 0 \/ (n = 1 /\ m = TRUE)
    BY <1>2, <2>1
  <2> QED
    BY <2>1, <2>2
<1>5. m = TRUE => out[c].way = "plain"
  OBVIOUS
<1> HIDE DEF m
<1> DEFINE r == [out[c] EXCEPT !.point = "hello", !.again = TRUE, !.age = 0,
                               !.known = FALSE, !.ran = n, !.misread = m]
<1>6. out' = [out EXCEPT ![c] = r]
  BY <1>4
<1>7. /\ r \in Out /\ r.point = "hello" /\ r.way = out[c].way /\ r.again = TRUE
      /\ r.ran = n /\ r.misread = m
  <2>1. 0 \in 0..SessionTtl /\ n \in Nat
    BY <1>4, Ttls
  <2>2. r \in Out
    BY <1>1, <1>3, <2>1 DEF Out, Points
  <2>3. r.point = "hello" /\ r.way = out[c].way /\ r.ran = n
    BY <1>1 DEF Out
  <2>4. r.again = TRUE /\ r.misread = m
    BY <1>1 DEF Out
  <2> QED
    BY <2>2, <2>3, <2>4
<1> HIDE DEF r
<1>8. r \in SoundOut
  BY <1>4, <1>5, <1>7 DEF SoundOut, Sound
<1> QED
  BY <1>6, <1>8, CallChanged

LEMMA ResumeSound ==
  ASSUME FedTypeOK, Slots, NEW c \in Calls, Resume(c)
  PROVE  Slots'
<1>1. out[c] \in SoundOut /\ out[c].again = FALSE /\ out[c].ran = 0
  BY RanBounds DEF Resume, At, Sound, Slots
<1>2. Ensure(out[c]) \in SoundOut
  BY <1>1, EnsureSound
<1> QED
  BY <1>2, CallChanged DEF Resume

LEMMA ForgetSound ==
  ASSUME FedTypeOK, Slots, Forget
  PROVE  Slots' /\ session' \in Session \cup {NoSession}
<1>1. session' \in Session \cup {NoSession}
  <2>1. CASE session = NoSession
    BY <2>1 DEF Forget, NoSession
  <2>2. CASE session \in Session
    BY <2>2 DEF Forget, Session
  <2> QED
    BY <2>1, <2>2 DEF FedTypeOK
<1>2. ASSUME NEW c \in Calls, ~At(c, "free")
      PROVE  [out[c] EXCEPT !.known = FALSE, !.lost = TRUE] \in SoundOut
  <2> DEFINE r == [out[c] EXCEPT !.known = FALSE, !.lost = TRUE]
  <2>1. out[c] \in Out /\ Sound(out[c])
    BY RanBounds
  <2>2. /\ r \in Out /\ r.point = out[c].point /\ r.way = out[c].way
        /\ r.again = out[c].again /\ r.ran = out[c].ran /\ r.misread = out[c].misread
        /\ r.lost = TRUE
    BY <2>1 DEF Out
  <2> HIDE DEF r
  <2>3. r \in SoundOut
    BY <2>1, <2>2 DEF SoundOut, Sound
  <2> QED
    BY <2>3 DEF r
<1> QED
  BY <1>1, <1>2 DEF Forget, Slots

LEMMA TickSound ==
  ASSUME FedTypeOK, Slots, FedTick
  PROVE  Slots' /\ session' \in Session \cup {NoSession}
<1>1. \A a \in 0..SessionTtl : Older(a) \in 0..SessionTtl
  BY Ttls DEF Older
<1>2. session' \in Session \cup {NoSession}
  <2>1. CASE session = NoSession
    BY <2>1 DEF FedTick, NoSession
  <2>2. CASE session \in Session
    BY <1>1, <2>2 DEF FedTick, Session
  <2> QED
    BY <2>1, <2>2 DEF FedTypeOK
<1>3. ASSUME NEW c \in Calls
      PROVE  [out[c] EXCEPT !.age = Older(@)] \in SoundOut
  <2> DEFINE r == [out[c] EXCEPT !.age = Older(@)]
  <2>1. out[c] \in Out /\ Sound(out[c])
    BY RanBounds
  <2>2. /\ r \in Out /\ r.point = out[c].point /\ r.way = out[c].way
        /\ r.again = out[c].again /\ r.ran = out[c].ran /\ r.misread = out[c].misread
        /\ r.known = out[c].known /\ r.lost = out[c].lost
    BY <1>1, <2>1 DEF Out
  <2> HIDE DEF r
  <2>3. r \in SoundOut
    BY <2>1, <2>2 DEF SoundOut, Sound
  <2> QED
    BY <2>3 DEF r
<1> QED
  BY <1>2, <1>3 DEF FedTick, Slots

\* The other answers end an attempt.
CallAnswers(c) == Unwelcome(c) \/ Answered(c) \/ Errs(c) \/ SessionError(c)

LEMMA AnswerSound ==
  ASSUME Slots, NEW c \in Calls, CallAnswers(c)
  PROVE  Slots'
<1>1. /\ RanAtMost(out[c], out[c].ran) /\ RanAtMost(out[c], 0)
      /\ RanAtMost(out[c], RanOnceMore(c))
  <2>1. out[c].point # "free"
    BY DEF CallAnswers, Unwelcome, Answered, Errs, SessionError, At
  <2>2. RanAtMost(out[c], 0)
    BY DEF RanAtMost
  <2> QED
    BY <2>1, <2>2, RanBounds
<1>2. CASE Unwelcome(c)
  BY <1>1, <1>2, LeaveSound, FailSound DEF Unwelcome
<1>3. CASE Answered(c)
  BY <1>1, <1>3, LeaveSound DEF Answered, Succeed
<1>4. CASE Errs(c)
  BY <1>1, <1>4, LeaveSound, FailSound DEF Errs, GiveUp
<1>5. CASE SessionError(c)
  BY <1>1, <1>5, FailSound DEF SessionError
<1> QED
  BY <1>2, <1>3, <1>4, <1>5 DEF CallAnswers

LEMMA SlotsStep ==
  ASSUME FedTypeOK, Slots, [FedNext]_fedVars
  PROVE  Slots' /\ session' \in Session \cup {NoSession}
<1>0. session \in Session \cup {NoSession}
  BY DEF FedTypeOK
<1>1. ASSUME NEW c \in Calls, Starts(c) \/ FedStep(c)
      PROVE  Slots' /\ session' \in Session \cup {NoSession}
  <2>1. CASE Notified(c)
    BY <2>1, NotifySound
  <2>2. CASE Renew(c)
    BY <2>2, RenewSound DEF Renew
  <2>3. CASE Starts(c)
    <3>1. UNCHANGED session
      BY <2>3 DEF Starts, StartPlain, StartGuarded, StartProbe
    <3> QED
      BY <1>0, <2>3, <3>1, StartSound
  <2>4. CASE Greeted(c)
    BY <1>0, <2>4, GreetSound DEF Greeted
  <2>5. CASE Resume(c)
    BY <1>0, <2>5, ResumeSound DEF Resume
  <2>6. CASE CallAnswers(c)
    <3>1. UNCHANGED session
      BY <2>6 DEF CallAnswers, Unwelcome, Answered, Errs, SessionError
    <3> QED
      BY <1>0, <2>6, <3>1, AnswerSound
  <2> QED
    BY <1>1, <2>1, <2>2, <2>3, <2>4, <2>5, <2>6 DEF FedStep, CallAnswers
<1>2. CASE Forget
  BY <1>2, ForgetSound
<1>3. CASE FedTick
  BY <1>3, TickSound
<1>4. CASE UNCHANGED fedVars
  BY <1>0, <1>4 DEF fedVars, Slots
<1> QED
  BY <1>1, <1>2, <1>3, <1>4 DEF FedNext, Starts

LEMMA OthersStay ==
  ASSUME Slots, NEW c \in Calls, NEW d \in Calls, Starts(d) \/ FedStep(d), c # d
  PROVE  out'[c] = out[c]
<1>1. \A n : Leave(d, n) \/ Retry(d, n) => out'[c] = out[c]
  BY DEF Leave, Retry, Slots
<1>2. \A n : Fail(d, n) \/ GiveUp(d, n) => out'[c] = out[c]
  BY <1>1 DEF Fail, GiveUp
<1>3. CASE Starts(d)
  BY <1>3 DEF Starts, StartPlain, StartGuarded, StartProbe, Dial, Slots
<1>4. CASE CallAnswers(d)
  BY <1>1, <1>2, <1>4 DEF CallAnswers, Unwelcome, Answered, Errs, SessionError, Succeed
<1>5. CASE Greeted(d) \/ Renew(d) \/ Resume(d)
  BY <1>5 DEF Greeted, Renew, Resume, Slots
<1>6. CASE Notified(d)
  BY <1>1, <1>6 DEF Notified, Slots
<1> QED
  BY <1>3, <1>4, <1>5, <1>6 DEF FedStep, CallAnswers

LEMMA EnsureWay ==
  ASSUME NEW r \in Out
  PROVE  Ensure(r).way = r.way
BY DEF Ensure, Out

-----------------------------------------------------------------------------
(* The breaker.                                                            *)

\* The last n entries of a sequence, and no more, are failures.
FailedRun(seq, n) ==
  /\ n <= Len(seq)
  /\ \A i \in 1..Len(seq) : i > Len(seq) - n => seq[i] = FALSE
  /\ n < Len(seq) => seq[Len(seq) - n] = TRUE

\* failed counts the run of failures up to now; half-open means cooled down.
CircuitInv ==
  /\ FailedRun(ended, failed)
  /\ circuit # "closed" <=> failed = Threshold
  /\ circuit = "half_open" => calm = Cooldown

LEMMA KeepLemma ==
  ASSUME NEW seq \in Seq(BOOLEAN), Len(seq) <= Threshold, NEW b \in BOOLEAN
  PROVE  LET k == Keep(Append(seq, b))
             d == IF Len(seq) < Threshold THEN 0 ELSE 1
         IN /\ k \in Seq(BOOLEAN)
            /\ Len(k) = Len(seq) + 1 - d
            /\ k[Len(k)] = b
            /\ \A i \in 1..Len(k) : i < Len(k) => k[i] = seq[i + d]
<1> DEFINE s == Append(seq, b)
<1>1. s \in Seq(BOOLEAN) /\ Len(s) = Len(seq) + 1 /\ s[Len(seq) + 1] = b /\ Len(seq) \in Nat
      /\ \A i \in 1..Len(seq) : s[i] = seq[i]
  OBVIOUS
<1>2. CASE Len(seq) < Threshold
  <2>1. Keep(s) = s
    BY <1>1, <1>2, Ttls DEF Keep
  <2> QED
    BY <1>1, <1>2, <2>1
<1>3. CASE Len(seq) = Threshold
  <2>1. Keep(s) = Tail(s)
    BY <1>1, <1>3, Ttls DEF Keep
  <2> HIDE DEF s
  <2> DEFINE k == Tail(s)
  <2>2. /\ k \in Seq(BOOLEAN) /\ Len(k) = Len(seq)
        /\ \A i \in 1..Len(seq) : k[i] = s[i + 1]
    BY <1>1
  <2> HIDE DEF k
  <2>3. /\ Len(k) = Len(seq) + 1 - 1 /\ k[Len(k)] = b
        /\ \A i \in 1..Len(k) : i < Len(k) => k[i] = seq[i + 1]
    BY <1>1, <1>3, <2>2, Ttls
  <2>4. Keep(s) = k
    BY <2>1 DEF k
  <2> QED
    BY <1>3, <2>2, <2>3, <2>4 DEF s
<1> QED
  BY <1>2, <1>3, <1>1, Ttls

LEMMA RunGrows ==
  ASSUME FedTypeOK, FailedRun(ended, failed)
  PROVE  /\ FailedRun(Keep(Append(ended, FALSE)), More(failed))
         /\ FailedRun(Keep(Append(ended, TRUE)), 0)
         /\ More(failed) \in 0..Threshold
<1>1. ended \in Seq(BOOLEAN) /\ Len(ended) <= Threshold /\ failed \in 0..Threshold
      /\ Len(ended) \in Nat
  BY DEF FedTypeOK
<1> DEFINE d == IF Len(ended) < Threshold THEN 0 ELSE 1
           f == Keep(Append(ended, FALSE))
           t == Keep(Append(ended, TRUE))
<1>2. /\ Len(f) = Len(ended) + 1 - d /\ f[Len(f)] = FALSE
      /\ \A i \in 1..Len(f) : i < Len(f) => f[i] = ended[i + d]
  BY <1>1, KeepLemma
<1>3. Len(t) = Len(ended) + 1 - d /\ t[Len(t)] = TRUE
  BY <1>1, KeepLemma
<1> HIDE DEF f, t
<1>4. FailedRun(t, 0)
  BY <1>1, <1>3, Ttls DEF FailedRun
<1>5. More(failed) = IF failed < Threshold THEN failed + 1 ELSE failed
  BY DEF More
<1>6. FailedRun(f, More(failed))
  <2>1. More(failed) <= Len(f)
    BY <1>1, <1>2, <1>5, Ttls DEF FailedRun
  <2>2. ASSUME NEW i \in 1..Len(f), i > Len(f) - More(failed)
        PROVE  f[i] = FALSE
    <3>1. CASE i = Len(f)
      BY <1>2, <3>1
    <3>2. CASE i # Len(f)
      <4>1. i < Len(f) /\ i + d \in 1..Len(ended) /\ i + d > Len(ended) - failed
        <5>1. failed <= Len(ended) /\ Threshold \in Nat /\ failed \in Nat /\ i \in Nat /\ i >= 1
              /\ failed <= Threshold /\ i <= Len(f)
          BY <1>1, <1>2, Ttls DEF FailedRun
        <5>2. \/ d = 0 /\ Len(ended) < Threshold /\ More(failed) = failed + 1
              \/ d = 1 /\ Len(ended) = Threshold /\ More(failed) <= failed + 1
                 /\ (failed = Threshold => More(failed) = failed)
          BY <1>1, <1>5, <5>1
        <5> HIDE DEF d
        <5>3. d = 1 => i + 1 > Len(ended) - failed
          BY <1>1, <1>2, <1>5, <2>2, <5>1, <5>2
        <5> QED
          BY <1>1, <1>2, <2>2, <3>2, <5>1, <5>2, <5>3
      <4> HIDE DEF d
      <4> QED
        BY <1>2, <4>1 DEF FailedRun
    <3> QED
      BY <3>1, <3>2
  <2>3. More(failed) < Len(f) => f[Len(f) - More(failed)] = TRUE
    BY <1>1, <1>2, <1>5, Ttls DEF FailedRun
  <2> QED
    BY <2>1, <2>2, <2>3 DEF FailedRun
<1>7. More(failed) \in 0..Threshold
  BY <1>1, <1>5, Ttls
<1> QED
  BY <1>4, <1>6, <1>7 DEF f, t

\* The effects on the breaker: none, a call let through, a success, a failure,
\* and time.
Passed ==
  /\ circuit = "open" => calm >= Cooldown
  /\ circuit' = IF circuit = "open" THEN "half_open" ELSE circuit
  /\ UNCHANGED <<failed, calm, ended>>

Succeeded ==
  /\ circuit' = "closed" /\ failed' = 0
  /\ ended' = Keep(Append(ended, TRUE))
  /\ UNCHANGED calm

Aged ==
  /\ calm' = IF calm < Cooldown THEN calm + 1 ELSE calm
  /\ UNCHANGED <<circuit, failed, ended>>

LEMMA BreakerMoves ==
  ASSUME [FedNext]_fedVars
  PROVE  \/ UNCHANGED <<circuit, failed, calm, ended>>
         \/ Passed \/ Succeeded \/ CountFailure \/ Aged
<1>1. ASSUME NEW c \in Calls, Starts(c) \/ FedStep(c)
      PROVE  \/ UNCHANGED <<circuit, failed, calm, ended>>
             \/ Passed \/ Succeeded \/ CountFailure
  <2>1. CASE Starts(c)
    BY <2>1 DEF Starts, StartPlain, StartGuarded, StartProbe, Passed
  <2>2. ASSUME NEW n, Fail(c, n) \/ GiveUp(c, n)
        PROVE  UNCHANGED <<circuit, failed, calm, ended>> \/ CountFailure
    BY <2>2 DEF Fail, GiveUp, Retry
  <2>3. CASE CallAnswers(c)
    BY <2>2, <2>3 DEF CallAnswers, Unwelcome, Answered, Errs, SessionError, Succeed, Succeeded
  <2>4. CASE Greeted(c) \/ Notified(c) \/ Renew(c) \/ Resume(c)
    BY <2>4 DEF Greeted, Notified, Renew, Resume
  <2> QED
    BY <1>1, <2>1, <2>3, <2>4 DEF FedStep, CallAnswers
<1>2. CASE Forget \/ UNCHANGED fedVars
  BY <1>2 DEF Forget, fedVars
<1>3. CASE FedTick
  BY <1>3 DEF FedTick, Aged
<1> QED
  BY <1>1, <1>2, <1>3 DEF FedNext, Starts

CircuitTypeOK ==
  /\ circuit \in {"closed", "open", "half_open"}
  /\ failed \in 0..Threshold
  /\ calm \in 0..Cooldown
  /\ ended \in Seq(BOOLEAN) /\ Len(ended) <= Threshold

LEMMA CircuitStep ==
  ASSUME FedTypeOK, CircuitInv, [FedNext]_fedVars
  PROVE  CircuitTypeOK' /\ CircuitInv'
<1>0. CircuitTypeOK
  BY DEF FedTypeOK, CircuitTypeOK
<1>1. /\ FailedRun(Keep(Append(ended, FALSE)), More(failed))
      /\ FailedRun(Keep(Append(ended, TRUE)), 0)
      /\ More(failed) \in 0..Threshold
  BY RunGrows DEF CircuitInv
<1>2. \A b \in BOOLEAN : /\ Keep(Append(ended, b)) \in Seq(BOOLEAN)
                         /\ Len(Keep(Append(ended, b))) <= Threshold
  <2> TAKE b \in BOOLEAN
  <2> DEFINE k == Keep(Append(ended, b))
             d == IF Len(ended) < Threshold THEN 0 ELSE 1
  <2>1. k \in Seq(BOOLEAN) /\ Len(k) = Len(ended) + 1 - d
    BY <1>0, KeepLemma DEF CircuitTypeOK
  <2>2. Len(ended) \in Nat /\ Len(ended) <= Threshold
    BY <1>0 DEF CircuitTypeOK
  <2> HIDE DEF k
  <2>3. Len(k) <= Threshold
    BY <2>1, <2>2, Ttls
  <2> QED
    BY <2>1, <2>3 DEF k
<1>3. CASE UNCHANGED <<circuit, failed, calm, ended>>
  BY <1>0, <1>3 DEF CircuitInv, CircuitTypeOK
<1>4. CASE Passed
  BY <1>0, <1>4, Ttls DEF CircuitInv, CircuitTypeOK, Passed
<1>5. CASE Succeeded
  <2>1. FailedRun(ended', failed')
    BY <1>1, <1>5 DEF Succeeded
  <2>2. CircuitTypeOK'
    <3>1. ended' \in Seq(BOOLEAN) /\ Len(ended') <= Threshold
      BY <1>2, <1>5 DEF Succeeded
    <3>2. circuit' = "closed" /\ failed' = 0 /\ calm' = calm
      BY <1>5 DEF Succeeded
    <3>3. calm \in 0..Cooldown /\ 0 \in 0..Threshold
      BY <1>0, Ttls DEF CircuitTypeOK
    <3> QED
      BY <3>1, <3>2, <3>3 DEF CircuitTypeOK
  <2>3. circuit' = "closed" /\ failed' = 0 /\ failed' # Threshold
    BY <1>5, Ttls DEF Succeeded
  <2> QED
    BY <2>1, <2>2, <2>3 DEF CircuitInv
<1>6. CASE CountFailure
  <2>1. FailedRun(ended', failed') /\ failed' \in 0..Threshold
    BY <1>1, <1>6 DEF CountFailure
  <2>2. ended' \in Seq(BOOLEAN) /\ Len(ended') <= Threshold
    BY <1>2, <1>6 DEF CountFailure
  <2>3. /\ circuit' = IF failed + 1 >= Threshold THEN "open" ELSE circuit
        /\ calm' = 0 /\ failed' = IF failed < Threshold THEN failed + 1 ELSE failed
    BY <1>6 DEF CountFailure, Trip, More
  <2>4. CircuitTypeOK'
    BY <1>0, <2>1, <2>2, <2>3, Ttls DEF CircuitTypeOK
  <2>5. circuit' # "closed" <=> failed' = Threshold
    BY <1>0, <2>3, Ttls DEF CircuitTypeOK, CircuitInv
  <2>6. circuit' = "half_open" => FALSE
    BY <1>0, <2>3, Ttls DEF CircuitTypeOK, CircuitInv
  <2> QED
    BY <2>1, <2>4, <2>5, <2>6 DEF CircuitInv
<1>7. CASE Aged
  BY <1>0, <1>7, Ttls DEF CircuitInv, CircuitTypeOK, Aged
<1> QED
  BY <1>3, <1>4, <1>5, <1>6, <1>7, BreakerMoves

-----------------------------------------------------------------------------
(* The theorems.                                                           *)

FedInv == FedTypeOK /\ Slots /\ CircuitInv

LEMMA FedInvInit == FedInit => FedInv
<1> SUFFICES ASSUME FedInit PROVE FedInv
  OBVIOUS
<1>1. Slots
  <2>1. Slot("free", "plain", 0) \in SoundOut
    BY SlotSound DEF Points, Ways
  <2> QED
    BY <2>1 DEF FedInit, Slots
<1>2. out \in [Calls -> Out]
  BY <1>1 DEF Slots, SoundOut
<1>3. FedTypeOK
  BY <1>2, Ttls DEF FedInit, FedTypeOK
<1>4. CircuitInv
  BY Ttls DEF FedInit, CircuitInv, FailedRun
<1> QED
  BY <1>1, <1>3, <1>4 DEF FedInv

LEMMA FedInvStep == FedInv /\ [FedNext]_fedVars => FedInv'
<1> SUFFICES ASSUME FedInv, [FedNext]_fedVars PROVE FedInv'
  OBVIOUS
<1>1. Slots' /\ session' \in Session \cup {NoSession}
  BY SlotsStep DEF FedInv
<1>2. CircuitTypeOK' /\ CircuitInv'
  BY CircuitStep DEF FedInv
<1>3. out' \in [Calls -> Out]
  BY <1>1 DEF Slots, SoundOut
<1> QED
  BY <1>1, <1>2, <1>3 DEF FedInv, FedTypeOK, CircuitTypeOK

LEMMA FedInvAlways == FedSpec => []FedInv
BY FedInvInit, FedInvStep, PTL DEF FedSpec

\* Every variable of the client keeps its type, retries and counters included.
THEOREM FedTypeCorrect == FedSpec => []FedTypeOK
<1>1. FedInv => FedTypeOK
  BY DEF FedInv
<1> QED
  BY <1>1, FedInvAlways, PTL

\* The breaker (onCircuitSuccess, onCircuitFailure) is not closed exactly when
\* the last calls to end, as many as the threshold, all failed.
THEOREM BreakerTrips == FedSpec => []TripsOnRun
<1>1. FedInv => TripsOnRun
  <2> SUFFICES ASSUME FedInv PROVE TripsOnRun
    OBVIOUS
  <2>1. /\ FailedRun(ended, failed) /\ (circuit # "closed" <=> failed = Threshold)
        /\ failed \in 0..Threshold /\ Len(ended) \in Nat /\ Len(ended) <= Threshold
    BY DEF FedInv, CircuitInv, FedTypeOK
  <2>2. ASSUME failed = Threshold
        PROVE  Len(ended) = Threshold /\ \A i \in 1..Threshold : ~ended[i]
    BY <2>1, <2>2, Ttls DEF FailedRun
  <2>3. ASSUME failed # Threshold, Len(ended) = Threshold
        PROVE  \E i \in 1..Threshold : ended[i]
    <3>1. Threshold - failed \in 1..Threshold /\ ended[Threshold - failed] = TRUE
      BY <2>1, <2>3, Ttls DEF FailedRun
    <3> QED
      BY <3>1
  <2> QED
    BY <2>1, <2>2, <2>3 DEF TripsOnRun
<1> QED
  BY <1>1, FedInvAlways, PTL

\* Once it has tripped, callAgentToolWithCircuit lets nothing through before
\* the agent has been left alone for the cool-down.
THEOREM BreakerCools == FedSpec => CoolsDown
<1>1. FedInv /\ [FedNext]_fedVars =>
        [\A c \in Calls :
           At(c, "free") /\ out'[c].point # "free" /\ out'[c].way = "guarded" =>
             circuit = "closed" \/ calm >= Cooldown]_fedVars
  <2> SUFFICES ASSUME FedInv, [FedNext]_fedVars, NEW c \in Calls,
                      At(c, "free"), out'[c].point # "free", out'[c].way = "guarded"
               PROVE  circuit = "closed" \/ calm >= Cooldown
    OBVIOUS
  <2>1. CASE StartGuarded(c)
    BY <2>1, Ttls DEF StartGuarded, FedInv, CircuitInv, FedTypeOK
  <2>2. CASE ~StartGuarded(c)
    <3>1. out'[c] # out[c]
      BY DEF At
    <3>2. PICK d \in Calls : Starts(d) \/ FedStep(d)
      BY <3>1 DEF FedNext, fedVars, Forget, FedTick, Starts, At, FedInv, Slots
    <3>3. d = c
      BY <3>1, <3>2, OthersStay DEF FedInv
    <3>4. StartPlain(c) \/ StartProbe(c)
      BY <2>2, <3>2, <3>3 DEF FedStep, Starts, At, Greeted, Notified, Unwelcome, Answered,
         Errs, Renew, SessionError, Resume
    <3>5. out'[c].way # "guarded"
      <4>1. CASE StartPlain(c)
        <5>1. out'[c] = Ensure(Slot("free", "plain", 0))
          BY <4>1 DEF StartPlain, Dial, FedInv, Slots
        <5>2. Slot("free", "plain", 0) \in Out /\ Slot("free", "plain", 0).way = "plain"
          BY SlotSound DEF Slot, SoundOut, Points, Ways
        <5> QED
          BY <5>1, <5>2, EnsureWay
      <4>2. CASE StartProbe(c)
        BY <4>2 DEF StartProbe, FedInv, Slots, Slot
      <4> QED
        BY <3>4, <4>1, <4>2
    <3> QED
      BY <3>5
  <2> QED
    BY <2>1, <2>2
<1> QED
  BY <1>1, FedInvAlways, PTL DEF FedSpec, CoolsDown

\* After the one-shot renewal of callAgentTool the session is good, unless the
\* agent has forgotten sessions while the call was under way.
THEOREM RenewalHeals == FedSpec => []SessionsHealed
<1>1. FedInv => SessionsHealed
  <2> SUFFICES ASSUME FedInv, NEW c \in Calls, At(c, "send"), out[c].again, ~out[c].known
               PROVE  out[c].lost
    BY DEF SessionsHealed
  <2>1. Sound(out[c]) /\ out[c].point = "send" /\ out[c].again = TRUE /\ out[c].known = FALSE
    BY RanBounds DEF FedInv, At, Out
  <2>2. out[c].lost = TRUE
    BY <2>1 DEF Sound
  <2> QED
    BY <2>2
<1> QED
  BY <1>1, FedInvAlways, PTL

\* callAgentTool repeats a state-changing tool at most once, and only after an
\* answer of its own that mentions a session.
THEOREM PlainOnce == FedSpec => []PlainRunsOnce
<1>1. FedInv => PlainRunsOnce
  <2> SUFFICES ASSUME FedInv, NEW c \in Calls, out[c].way = "plain"
               PROVE  out[c].ran <= IF out[c].misread THEN 2 ELSE 1
    BY DEF PlainRunsOnce
  <2>1. RanAtMost(out[c], out[c].ran) /\ out[c].misread \in BOOLEAN
    BY RanBounds DEF FedInv, Out
  <2> QED
    BY <2>1 DEF RanAtMost
<1> QED
  BY <1>1, FedInvAlways, PTL

-----------------------------------------------------------------------------
(* The brand registry proxy.                                               *)

\* Whatever is stored or about to be was the registry's at the hour it is
\* dated, and what the registry publishes is so now.
BrandInv ==
  /\ FetchedAtHonest
  /\ \A r \in Resolvers : resolver[r].stage = "put" =>
       resolver[r].body # 0 /\ upTo[resolver[r].body] >= resolver[r].at
  /\ published # 0 => upTo[published] = hour
  /\ \A v \in BrandVersions : upTo[v] <= hour

LEMMA BrandTypeInit == BrandInit => BrandTypeOK
BY BrandAssumption DEF BrandInit, BrandTypeOK, BrandVersions, BrandStages, NoBrand, NotResolving

BrandResolver == [stage : BrandStages, body : 0..MaxVersion, at : Nat]

\* An answer to be put is the version that is published now.
LEMMA PutsPublished ==
  ASSUME BrandTypeOK, NEW r \in Resolvers, Unmodified(r) \/ Fetched(r)
  PROVE  /\ resolver' \in [Resolvers -> BrandResolver]
         /\ resolver'[r] = [stage |-> "put", body |-> published, at |-> hour]
         /\ \A q \in Resolvers \ {r} : resolver'[q] = resolver[q]
         /\ published # 0
         /\ UNCHANGED <<hour, published, newest, entry, upTo>>
<1>1. published # 0 /\ ToPut(r, published)
  BY DEF Unmodified, Fetched
<1>2. published \in 0..MaxVersion /\ hour \in Nat
  BY BrandAssumption DEF BrandTypeOK, BrandVersions
<1>3. [stage |-> "put", body |-> published, at |-> hour] \in BrandResolver
  BY <1>2 DEF BrandResolver, BrandStages
<1>4. resolver \in [Resolvers -> BrandResolver]
  BY DEF BrandTypeOK, BrandResolver
<1>5. UNCHANGED <<hour, published, newest, entry, upTo>>
  BY DEF Unmodified, Fetched
<1> QED
  BY <1>1, <1>3, <1>4, <1>5 DEF ToPut

LEMMA GivesUp ==
  ASSUME BrandTypeOK, NEW r \in Resolvers,
         resolver' = [resolver EXCEPT ![r] = NotResolving]
  PROVE  /\ resolver' \in [Resolvers -> BrandResolver]
         /\ resolver'[r].stage = "none"
         /\ \A q \in Resolvers \ {r} : resolver'[q] = resolver[q]
<1>1. NotResolving \in BrandResolver /\ NotResolving.stage = "none"
  BY BrandAssumption DEF NotResolving, BrandResolver, BrandStages
<1>2. resolver \in [Resolvers -> BrandResolver]
  BY DEF BrandTypeOK, BrandResolver
<1> QED
  BY <1>1, <1>2

LEMMA BrandTypeStep == BrandTypeOK /\ [BrandNext]_brandVars => BrandTypeOK'
<1> SUFFICES ASSUME BrandTypeOK, [BrandNext]_brandVars
             PROVE  BrandTypeOK'
  OBVIOUS
<1> USE BrandAssumption DEF BrandTypeOK, BrandVersions, BrandStages, BrandResolver
<1>1. ASSUME NEW r \in Resolvers, StartResolve(r)
      PROVE  BrandTypeOK'
  BY <1>1 DEF StartResolve
<1>2. ASSUME NEW r \in Resolvers, Unmodified(r) \/ Fetched(r)
      PROVE  BrandTypeOK'
  BY <1>2, PutsPublished DEF Unmodified, Fetched
<1>3. ASSUME NEW r \in Resolvers, FallBack(r) \/ PutBrandFails(r)
      PROVE  BrandTypeOK'
  BY <1>3, GivesUp DEF FallBack, PutBrandFails
<1>8. ASSUME NEW r \in Resolvers, PutBrand(r)
      PROVE  BrandTypeOK'
  <2>1. entry' \in [body : 0..MaxVersion, at : Nat, until : Nat]
    BY <1>8 DEF PutBrand
  <2> QED
    BY <1>8, <2>1, GivesUp DEF PutBrand
<1>4. CASE Publish
  BY <1>4 DEF Publish
<1>5. CASE RemoveBrand
  BY <1>5 DEF RemoveBrand
<1>6. CASE NextHour
  BY <1>6 DEF NextHour
<1>7. CASE UNCHANGED brandVars
  BY <1>7 DEF brandVars
<1> QED
  BY <1>1, <1>2, <1>3, <1>4, <1>5, <1>6, <1>7, <1>8 DEF BrandNext

LEMMA BrandInvInit == BrandInit => BrandInv
BY BrandAssumption
DEF BrandInit, BrandInv, FetchedAtHonest, BrandVersions, NoBrand, NotResolving

LEMMA BrandInvStep == BrandTypeOK /\ BrandInv /\ [BrandNext]_brandVars => BrandInv'
<1> SUFFICES ASSUME BrandTypeOK, BrandInv, [BrandNext]_brandVars
             PROVE  BrandInv'
  OBVIOUS
<1> USE BrandAssumption DEF BrandTypeOK, BrandInv, FetchedAtHonest, BrandVersions
<1>1. ASSUME NEW r \in Resolvers, StartResolve(r)
      PROVE  BrandInv'
  BY <1>1 DEF StartResolve
<1>2. ASSUME NEW r \in Resolvers, Unmodified(r) \/ Fetched(r)
      PROVE  BrandInv'
  <2>1. /\ resolver'[r] = [stage |-> "put", body |-> published, at |-> hour]
        /\ \A q \in Resolvers \ {r} : resolver'[q] = resolver[q]
        /\ published # 0
        /\ UNCHANGED <<hour, published, newest, entry, upTo>>
    BY <1>2, PutsPublished
  <2>2. upTo[published] >= hour
    BY <2>1
  <2>3. ASSUME NEW q \in Resolvers, resolver'[q].stage = "put"
        PROVE  resolver'[q].body # 0 /\ upTo'[resolver'[q].body] >= resolver'[q].at
    <3>1. CASE q = r
      BY <2>1, <2>2, <3>1
    <3>2. CASE q # r
      BY <2>1, <2>3, <3>2
    <3> QED
      BY <3>1, <3>2
  <2> QED
    BY <2>1, <2>3
<1>3. ASSUME NEW r \in Resolvers, FallBack(r) \/ PutBrandFails(r)
      PROVE  BrandInv'
  BY <1>3, GivesUp DEF FallBack, PutBrandFails
<1>4. ASSUME NEW r \in Resolvers, PutBrand(r)
      PROVE  BrandInv'
  <2>1. entry'.body = resolver[r].body /\ entry'.at = resolver[r].at
    BY <1>4 DEF PutBrand
  <2> QED
    BY <1>4, <2>1, GivesUp DEF PutBrand
<1>5. CASE Publish \/ NextHour
  \* The last hour of a version is only ever moved on.
  <2>0. hour \in Nat /\ \A v \in BrandVersions : upTo[v] \in Nat /\ upTo[v] <= hour
    OBVIOUS
  <2>1. \A v \in BrandVersions : upTo'[v] \in Nat /\ upTo'[v] >= upTo[v] /\ upTo'[v] <= hour'
    <3>1. CASE Publish
      <4>1. upTo' = [upTo EXCEPT ![newest + 1] = hour] /\ hour' = hour
        BY <3>1 DEF Publish
      <4>2. \A v \in BrandVersions : upTo'[v] = hour \/ upTo'[v] = upTo[v]
        BY <4>1
      <4> QED
        BY <2>0, <4>1, <4>2
    <3>2. CASE NextHour
      <4>1. hour' = hour + 1 /\ \A v \in BrandVersions : upTo'[v] \in {upTo[v], hour + 1}
        BY <3>2 DEF NextHour
      <4>2. \A v \in BrandVersions : upTo'[v] = upTo[v] \/ upTo'[v] = hour + 1
        BY <4>1
      <4> QED
        BY <2>0, <4>1, <4>2
    <3> QED
      BY <1>5, <3>1, <3>2
  <2>2. published' # 0 => upTo'[published'] = hour'
    BY <1>5 DEF Publish, NextHour
  <2>3. entry' = entry /\ resolver' = resolver
    BY <1>5 DEF Publish, NextHour
  <2>4. FetchedAtHonest'
    <3>1. entry.body # 0 => entry.body \in BrandVersions /\ entry.at \in Nat
      OBVIOUS
    <3> QED
      BY <2>0, <2>1, <2>3, <3>1
  <2>5. ASSUME NEW r \in Resolvers, resolver'[r].stage = "put"
        PROVE  resolver'[r].body # 0 /\ upTo'[resolver'[r].body] >= resolver'[r].at
    <3>1. resolver[r].body \in BrandVersions /\ resolver[r].at \in Nat
      BY <2>3, <2>5
    <3> QED
      BY <2>0, <2>1, <2>3, <2>5, <3>1
  <2> QED
    BY <2>1, <2>2, <2>4, <2>5
<1>6. CASE RemoveBrand
  BY <1>6 DEF RemoveBrand
<1>7. CASE UNCHANGED brandVars
  BY <1>7 DEF brandVars
<1> QED
  BY <1>1, <1>2, <1>3, <1>4, <1>5, <1>6, <1>7 DEF BrandNext

\* fetched_at is honest (brandRegistry.ts): however revalidations overlap, the
\* stored body was the registry's at the hour it is dated.
THEOREM DatesHonest == BrandSpec => []FetchedAtHonest
<1>1. BrandInv => FetchedAtHonest
  BY DEF BrandInv
<1> QED
  BY <1>1, BrandTypeInit, BrandTypeStep, BrandInvInit, BrandInvStep, PTL DEF BrandSpec

=============================================================================
