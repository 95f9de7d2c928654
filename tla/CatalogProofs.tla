---------------------------- MODULE CatalogProofs ---------------------------
(***************************************************************************)
(* For any catalogs, isolates and interleavings: the types; that a flag is *)
(* only set for a catalog that earned it; and that stored signals carry    *)
(* their rules, once, unless two writers met or a failure cut one short.   *)
(***************************************************************************)
EXTENDS CatalogSeeding, FiniteSetTheorems, FunctionTheorems, TLAPS

LEMMA ListFacts ==
  ASSUME NEW l \in Lists
  PROVE  /\ l \in Seq(Signals) /\ Len(l) \in Nat \ {0}
         /\ DOMAIN l = 1..Len(l) /\ 1 \in DOMAIN l
         /\ \A i \in DOMAIN l : l[i] \in Signals
BY CatalogAssumption

LEMMA ListsAre ==
  /\ \A v \in Versions : Release[v] \in Lists
  /\ Feed \in Lists
  /\ \A d \in Dynamic : <<d>> \in Lists
BY DEF Lists

-----------------------------------------------------------------------------
(* The types.                                                              *)

RunsOK ==
  /\ run \in [Runs -> Run \cup {Idle}]
  /\ \A r \in Runs : Busy(r) => run[r].at \in DOMAIN run[r].list

LEMMA BusyRun ==
  ASSUME RunsOK, NEW r \in Runs, Busy(r)
  PROVE  /\ run[r] \in Run /\ run[r].at \in DOMAIN run[r].list
         /\ run[r].list \in Lists /\ run[r].at \in Nat \ {0}
         /\ Current(r) \in Signals
<1>1. run[r] \in Run /\ run[r].at \in DOMAIN run[r].list
  BY DEF RunsOK, Busy, Idle
<1>2. run[r].list \in Lists
  BY <1>1 DEF Run
<1> QED
  BY <1>1, <1>2, ListFacts DEF Run, Current

LEMMA BeginRuns ==
  ASSUME RunsOK, NEW r \in Runs, NEW home \in Isolates \cup {Nowhere},
         NEW maybe \in BOOLEAN, NEW stage \in Stages \ {"idle"},
         NEW list \in Lists, Begin(r, home, maybe, stage, list)
  PROVE  RunsOK'
<1> DEFINE new == [stage |-> stage, maybe |-> maybe, list |-> list,
                   at |-> 1, home |-> home]
<1>1. new \in Run /\ 1 \in DOMAIN list
  BY ListFacts DEF Run
<1>2. run' = [run EXCEPT ![r] = new]
  BY DEF Begin
<1> QED
  BY <1>1, <1>2 DEF RunsOK, Busy

LEMMA GotoRuns ==
  ASSUME RunsOK, NEW r \in Runs, Busy(r), NEW stage \in Stages \ {"idle"},
         Goto(r, stage)
  PROVE  RunsOK'
<1>1. run[r] \in Run /\ run[r].at \in DOMAIN run[r].list
  BY BusyRun
<1>2. [run[r] EXCEPT !.stage = stage] \in Run
  BY <1>1 DEF Run
<1>3. run' = [run EXCEPT ![r] = [run[r] EXCEPT !.stage = stage]]
  BY DEF Goto
<1> QED
  BY <1>1, <1>2, <1>3 DEF RunsOK, Busy, Run

LEMMA LeaveRuns ==
  ASSUME RunsOK, NEW r \in Runs, Leave(r)
  PROVE  RunsOK'
BY DEF RunsOK, Leave, Busy, Idle

LEMMA FinishRuns ==
  ASSUME RunsOK, NEW r \in Runs, Busy(r), Finish(r)
  PROVE  RunsOK'
BY GotoRuns, LeaveRuns DEF Finish, Stages

LEMMA AdvanceRuns ==
  ASSUME RunsOK, NEW r \in Runs, Busy(r), Advance(r)
  PROVE  RunsOK'
<1>1. CASE ~(run[r].at < Len(run[r].list))
  BY <1>1, FinishRuns DEF Advance
<1>2. CASE run[r].at < Len(run[r].list)
  <2> DEFINE new == [run[r] EXCEPT !.stage = "row", !.at = @ + 1]
  <2>1. /\ run[r] \in Run /\ run[r].at \in 1..Len(run[r].list)
        /\ DOMAIN run[r].list = 1..Len(run[r].list) /\ Len(run[r].list) \in Nat
    BY BusyRun, ListFacts
  <2>2. /\ run[r].at + 1 \in DOMAIN run[r].list
        /\ run[r].at + 1 \in Nat \ {0}
    BY <1>2, <2>1
  <2>3. new \in Run /\ new.at = run[r].at + 1 /\ new.list = run[r].list
    BY <2>1, <2>2 DEF Run, Stages
  <2>4. run' = [run EXCEPT ![r] = new]
    BY <1>2 DEF Advance
  <2> QED
    BY <2>2, <2>3, <2>4 DEF RunsOK, Busy
<1> QED
  BY <1>1, <1>2

LEMMA SeedTypeInit == SeedInit => SeedTypeOK
BY CatalogAssumption DEF SeedInit, SeedTypeOK, Busy, Idle

LEMMA BusyAt ==
  ASSUME NEW r \in Runs, run[r].stage \in Stages \ {"idle"}
  PROVE  Busy(r)
BY DEF Busy

\* Every operation but the bookkeeping of runs, one step per action.
LEMMA SeedTypeStep == SeedTypeOK /\ [SeedNext]_seedVars => SeedTypeOK'
<1> SUFFICES ASSUME SeedTypeOK, [SeedNext]_seedVars
             PROVE  SeedTypeOK'
  OBVIOUS
<1> USE DEF SeedTypeOK
<1>0. RunsOK
  BY DEF RunsOK
<1>1. ASSUME NEW r \in Runs, NEW i \in Isolates, Start(r, i)
      PROVE  SeedTypeOK'
  <2>1. /\ code[i] \in Versions /\ Release[code[i]] \in Lists
        /\ {"flag", "count", "wipe"} \subseteq Stages \ {"idle"}
    BY ListsAre DEF Stages
  <2>2. RunsOK'
    <3>1. \E home \in Isolates \cup {Nowhere}, maybe \in BOOLEAN,
             stage \in Stages \ {"idle"} : Begin(r, home, maybe, stage, Release[code[i]])
      BY <1>1, <2>1 DEF Start, StartAuto, StartNow, StartReseed, StartDevSeed
    <3> QED
      BY <1>0, <2>1, <3>1, BeginRuns
  <2>3. wipes' \in 0..MaxWipes /\ checked' \in [Isolates -> BOOLEAN]
    <3>1. \/ wipes' = wipes
          \/ wipes < MaxWipes /\ wipes' = wipes + 1
      BY <1>1 DEF Start, StartAuto, StartNow, StartReseed, StartDevSeed
    <3>2. checked' = checked \/ checked' = [checked EXCEPT ![i] = TRUE]
      BY <1>1 DEF Start, StartAuto, StartNow, StartReseed, StartDevSeed
    <3>3. wipes' \in 0..MaxWipes
      BY <3>1, CatalogAssumption
    <3> QED
      BY <3>2, <3>3
  <2>4. UNCHANGED <<deployed, code, catalog, copies, flags, failures, seen, raced, torn>>
    BY <1>1 DEF Start, StartAuto, StartNow, StartReseed, StartDevSeed, Begin
  <2> QED
    BY <2>2, <2>3, <2>4 DEF RunsOK
<1>2. ASSUME NEW r \in Runs, StartSync(r) \/ StartPromote(r)
      PROVE  SeedTypeOK'
  <2>1. RunsOK'
    BY <1>0, <1>2, ListsAre, BeginRuns DEF StartSync, StartPromote, Stages
  <2> QED
    BY <1>2, <2>1 DEF StartSync, StartPromote, Begin, RunsOK
<1>3. ASSUME NEW r \in Runs, ReadFlag(r)
      PROVE  SeedTypeOK'
  BY <1>0, <1>3, GotoRuns, LeaveRuns DEF ReadFlag, RunsOK, Busy, Stages
<1>4. ASSUME NEW r \in Runs, Wipe(r)
      PROVE  SeedTypeOK'
  <2>1. RunsOK'
    BY <1>0, <1>4, GotoRuns DEF Wipe, Busy, Stages
  <2> QED
    BY <1>4, <2>1 DEF Wipe, RunsOK
<1>5. ASSUME NEW r \in Runs, Count(r)
      PROVE  SeedTypeOK'
  <2>1. RunsOK'
    BY <1>0, <1>5, GotoRuns, FinishRuns DEF Count, Busy, Stages
  <2> QED
    BY <1>5, <2>1 DEF Count, RunsOK
<1>6. ASSUME NEW r \in Runs, UpsertRow(r)
      PROVE  SeedTypeOK'
  <2>1. Busy(r) /\ Current(r) \in Signals
    BY <1>0, <1>6, BusyRun DEF UpsertRow, Busy
  <2>2. RunsOK'
    BY <1>0, <1>6, <2>1, GotoRuns, AdvanceRuns DEF UpsertRow, Stages
  <2> QED
    BY <1>6, <2>1, <2>2 DEF UpsertRow, RunsOK
<1>7. ASSUME NEW r \in Runs, DeleteRules(r) \/ InsertRules(r)
      PROVE  SeedTypeOK'
  <2>1. Busy(r) /\ Current(r) \in Signals
    BY <1>0, <1>7, BusyRun DEF DeleteRules, InsertRules, Busy
  <2>2. RunsOK'
    BY <1>0, <1>7, <2>1, GotoRuns, AdvanceRuns DEF DeleteRules, InsertRules, Stages
  <2>3. CASE DeleteRules(r)
    BY <2>1, <2>2, <2>3 DEF DeleteRules, RunsOK
  <2>4. CASE InsertRules(r)
    <3>1. copies[Current(r)] + 1 \in Nat
      BY <2>1
    <3> QED
      BY <2>1, <2>2, <2>4, <3>1 DEF InsertRules, RunsOK
  <2> QED
    BY <1>7, <2>3, <2>4
<1>8. ASSUME NEW r \in Runs, RulesRefused(r) \/ CallFails(r) \/ Cancelled(r)
      PROVE  SeedTypeOK'
  <2>1. Busy(r) /\ Current(r) \in Signals /\ Leave(r)
    BY <1>0, <1>8, BusyRun DEF RulesRefused, CallFails, Cancelled, Abort, Busy
  <2>2. RunsOK'
    BY <1>0, <2>1, LeaveRuns
  <2>3. failures' \in 0..MaxFailures
    BY <1>8, CatalogAssumption DEF RulesRefused, CallFails, Cancelled, Abort
  <2> QED
    BY <1>8, <2>1, <2>2, <2>3 DEF RulesRefused, CallFails, Cancelled, Abort, RunsOK
<1>9. ASSUME NEW r \in Runs, PutFlag(r)
      PROVE  SeedTypeOK'
  <2>1. Busy(r) /\ Expected(r) \in Nat
    BY <1>0, <1>9, BusyRun, ListFacts DEF PutFlag, Busy, Expected
  <2>2. RunsOK'
    BY <1>0, <1>9, LeaveRuns DEF PutFlag
  <2> QED
    BY <1>9, <2>1, <2>2 DEF PutFlag, RunsOK
<1>10. ASSUME NEW i \in Isolates, Recycle(i)
       PROVE  SeedTypeOK'
  <2>1. ASSUME NEW r \in Runs
        PROVE  /\ run'[r] \in Run \cup {Idle}
               /\ Busy(r)' => run'[r].at \in DOMAIN run'[r].list
    <3>1. CASE Busy(r) /\ run[r].home = i
      BY <1>0, <1>10, <2>1, <3>1, BusyRun DEF Recycle, Run
    <3>2. CASE ~(Busy(r) /\ run[r].home = i)
      BY <1>10, <2>1, <3>2 DEF Recycle, Busy
    <3> QED
      BY <3>1, <3>2
  <2>2. run' \in [Runs -> Run \cup {Idle}]
    BY <1>10, <2>1 DEF Recycle
  <2> QED
    BY <1>10, <2>1, <2>2 DEF Recycle
<1>11. CASE Deploy
  BY <1>11 DEF Deploy, Busy
<1>12. CASE PurgeDynamic
  BY <1>12 DEF PurgeDynamic, Busy
<1>13. CASE UNCHANGED seedVars
  BY <1>13 DEF seedVars, Busy
<1> QED
  BY <1>1, <1>2, <1>3, <1>4, <1>5, <1>6, <1>7, <1>8, <1>9, <1>10, <1>11, <1>12,
     <1>13 DEF SeedNext, Proceed

\* Every variable keeps its type, and no run is ever past the end of its list
\* (the loops of runSeedPipeline and runSynapticSync).
THEOREM SeedTypeCorrect == SeedSpec => []SeedTypeOK
<1> QED
  BY SeedTypeInit, SeedTypeStep, PTL DEF SeedSpec

-----------------------------------------------------------------------------
(* A flag is earned.                                                       *)

StoodIn(v) == Cardinality(Shipped(v) \ catalog) <= Cardinality(seen \ Shipped(v))

Earned(n) == \A v \in Versions : Len(Release[v]) = n => StoodIn(v)

\* The part of its list that run r has written.
Written(r) ==
  \A i \in DOMAIN run[r].list :
    i < run[r].at \/ (i = run[r].at /\ run[r].stage \in {"rules", "insert"}) =>
      run[r].list[i] \in seen

MaybeRun(r) ==
  Busy(r) /\ run[r].maybe =>
    /\ \E v \in Versions : run[r].list = Release[v]
    /\ run[r].stage \in {"flag", "count"} => run[r].at = 1
    /\ run[r].stage \in {"row", "rules", "insert"} => Written(r)
    /\ run[r].stage = "put" => Earned(Expected(r))

FlagInv ==
  /\ IsFiniteSet(seen)
  /\ \A r \in Runs : /\ run[r].stage = "wipe" => wipes > 0
                     /\ run[r].stage = "put" => run[r].maybe
  /\ wipes = 0 => /\ catalog \subseteq seen /\ seen \ Dynamic \subseteq catalog
                  /\ \A n \in flags : Earned(n)
                  /\ \A r \in Runs : MaybeRun(r)

LEMMA ShippedFinite ==
  ASSUME NEW v \in Versions
  PROVE  IsFiniteSet(Shipped(v))
<1> DEFINE l == Release[v]
<1>1. /\ l \in [1..Len(l) -> Shipped(v)] /\ Len(l) \in Nat
      /\ \A s \in Shipped(v) : \E i \in 1..Len(l) : l[i] = s
  BY ListsAre, ListFacts DEF Shipped, SignalsOf
<1>2. l \in Surjection(1..Len(l), Shipped(v))
  BY <1>1, Fun_IsSurj
<1> QED
  BY <1>1, <1>2, FS_Interval, FS_Surjection

\* If X has as many elements as A, then what X has of A is missing from A no
\* more than X goes beyond A.
LEMMA StandIns ==
  ASSUME NEW A, NEW C, NEW S, NEW X, IsFiniteSet(A), IsFiniteSet(S),
         X \subseteq S, X \cap A \subseteq C, Cardinality(A) <= Cardinality(X)
  PROVE  Cardinality(A \ C) <= Cardinality(S \ A)
<1>1. IsFiniteSet(X) /\ IsFiniteSet(A \ X) /\ IsFiniteSet(X \ A) /\ IsFiniteSet(S \ A)
  BY FS_Subset, FS_Difference
<1>2. /\ Cardinality(A \ X) = Cardinality(A) - Cardinality(A \cap X)
      /\ Cardinality(X \ A) = Cardinality(X) - Cardinality(X \cap A)
  BY <1>1, FS_Difference
<1>3. /\ Cardinality(A \ C) <= Cardinality(A \ X)
      /\ Cardinality(X \ A) <= Cardinality(S \ A)
  BY <1>1, FS_Subset, A \ C \subseteq A \ X, X \ A \subseteq S \ A
<1>4. A \cap X = X \cap A /\ IsFiniteSet(A \cap X) /\ IsFiniteSet(A \ C)
  BY FS_Intersection, FS_Difference
<1>5. /\ Cardinality(A) \in Nat /\ Cardinality(X) \in Nat
      /\ Cardinality(A \cap X) \in Nat /\ Cardinality(A \ X) \in Nat
      /\ Cardinality(X \ A) \in Nat /\ Cardinality(A \ C) \in Nat
      /\ Cardinality(S \ A) \in Nat
  BY <1>1, <1>4, FS_CardinalityType
<1>6. Cardinality(A \cap X) = Cardinality(X \cap A)
  BY <1>4
<1> QED
  BY <1>2, <1>3, <1>5, <1>6

\* Enough rows, whatever they are.
LEMMA EnoughEarned ==
  ASSUME IsFiniteSet(seen), catalog \subseteq seen, NEW n \in Nat,
         Cardinality(catalog) >= n
  PROVE  Earned(n)
<1> SUFFICES ASSUME NEW v \in Versions, Len(Release[v]) = n
             PROVE  StoodIn(v)
  BY DEF Earned
<1>1. Cardinality(Shipped(v)) = n /\ Cardinality(catalog) \in Nat
  BY CatalogAssumption, FS_Subset, FS_CardinalityType
<1> QED
  BY <1>1, ShippedFinite, StandIns DEF StoodIn

\* A list written to its end, and nothing but generated signals lost: for the
\* catalog C and the signals S seen.
LEMMA WrittenEarned ==
  ASSUME NEW C, NEW S, IsFiniteSet(S), S \ Dynamic \subseteq C,
         NEW w \in Versions, Shipped(w) \subseteq S,
         NEW v \in Versions, Len(Release[v]) = Len(Release[w])
  PROVE  Cardinality(Shipped(v) \ C) <= Cardinality(S \ Shipped(v))
<1>1. Cardinality(Shipped(v)) = Cardinality(Shipped(w))
      /\ Cardinality(Shipped(v)) \in Nat
  BY CatalogAssumption, ShippedFinite, FS_CardinalityType
<1>2. Shipped(w) \cap Shipped(v) \subseteq C
  BY CatalogAssumption
<1>3. IsFiniteSet(Shipped(v)) /\ Cardinality(Shipped(v)) <= Cardinality(Shipped(w))
  BY <1>1, ShippedFinite
<1> QED
  BY <1>2, <1>3, StandIns

\* Rows are added, and only generated ones go.
Grows ==
  /\ seen \subseteq seen' /\ IsFiniteSet(seen')
  /\ catalog \ Dynamic \subseteq catalog'

LEMMA StoodInStays ==
  ASSUME NEW v \in Versions, StoodIn(v), Grows, IsFiniteSet(seen)
  PROVE  StoodIn(v)'
<1>1. /\ Shipped(v) \ catalog' \subseteq Shipped(v) \ catalog
      /\ seen \ Shipped(v) \subseteq seen' \ Shipped(v)
  BY CatalogAssumption DEF Grows
<1>2. IsFiniteSet(Shipped(v) \ catalog) /\ IsFiniteSet(seen' \ Shipped(v))
  BY ShippedFinite, FS_Difference DEF Grows
<1>3. /\ Cardinality(Shipped(v) \ catalog') <= Cardinality(Shipped(v) \ catalog)
      /\ Cardinality(seen \ Shipped(v)) <= Cardinality(seen' \ Shipped(v))
      /\ IsFiniteSet(Shipped(v) \ catalog') /\ IsFiniteSet(seen \ Shipped(v))
  BY <1>1, <1>2, FS_Subset
<1>4. \A Y \in {Shipped(v) \ catalog, Shipped(v) \ catalog', seen \ Shipped(v),
                seen' \ Shipped(v)} : Cardinality(Y) \in Nat
  BY <1>2, <1>3, FS_CardinalityType
<1> QED
  BY <1>3, <1>4 DEF StoodIn

\* What holds of a run that is left alone, apart from its home.
LEMMA MaybeRunStays ==
  ASSUME IsFiniteSet(seen), Grows, NEW r \in Runs, MaybeRun(r),
         run'[r].stage = run[r].stage,
         Busy(r) => /\ run'[r].maybe = run[r].maybe /\ run'[r].at = run[r].at
                    /\ run'[r].list = run[r].list
  PROVE  MaybeRun(r)'
<1> SUFFICES ASSUME Busy(r)', run'[r].maybe
             PROVE  /\ \E v \in Versions : run'[r].list = Release[v]
                    /\ run'[r].stage \in {"flag", "count"} => run'[r].at = 1
                    /\ run'[r].stage \in {"row", "rules", "insert"} => Written(r)'
                    /\ run'[r].stage = "put" => Earned(Expected(r))'
  BY DEF MaybeRun
<1>1. Busy(r) /\ run[r].maybe
  BY DEF Busy
<1>2. Written(r) => Written(r)'
  BY <1>1 DEF Written, Grows
<1>3. Expected(r)' = Expected(r)
  BY <1>1 DEF Expected
<1>4. Earned(Expected(r)) => Earned(Expected(r))'
  BY <1>3, StoodInStays DEF Earned
<1> QED
  BY <1>1, <1>2, <1>3, <1>4 DEF MaybeRun

OneRun(r) == \A q \in Runs \ {r} : run'[q] = run[q]

\* A step of run r, or a beginning, that keeps the counts right.
LEMMA FlagStepOf ==
  ASSUME SeedTypeOK, FlagInv, NEW r \in Runs, OneRun(r), Grows,
         wipes' \in {wipes, wipes + 1},
         run'[r].stage = "wipe" => wipes' > 0,
         run'[r].stage = "put" => run'[r].maybe,
         wipes = 0 /\ wipes' = 0 =>
           /\ catalog' \subseteq seen' /\ seen' \ Dynamic \subseteq catalog'
           /\ \A n \in flags' \ flags : Earned(n)
           /\ MaybeRun(r)'
  PROVE  FlagInv'
<1>1. wipes \in Nat
  BY CatalogAssumption DEF SeedTypeOK
<1>2. \A q \in Runs : /\ run'[q].stage = "wipe" => wipes' > 0
                      /\ run'[q].stage = "put" => run'[q].maybe
  BY <1>1 DEF FlagInv, OneRun
<1>3. ASSUME wipes' = 0
      PROVE  /\ catalog' \subseteq seen' /\ seen' \ Dynamic \subseteq catalog'
             /\ \A n \in flags' : Earned(n)'
             /\ \A q \in Runs : MaybeRun(q)'
  <2>1. wipes = 0
    BY <1>1, <1>3
  <2>2. \A n \in flags' : Earned(n)
    BY <1>3, <2>1 DEF FlagInv
  <2>3. \A n \in flags' : Earned(n)'
    BY <2>2, StoodInStays DEF Earned, FlagInv
  <2>4. ASSUME NEW q \in Runs \ {r}
        PROVE  MaybeRun(q)'
    BY <2>1, MaybeRunStays DEF FlagInv, OneRun
  <2> QED
    BY <1>3, <2>1, <2>3, <2>4
<1> QED
  BY <1>2, <1>3 DEF FlagInv, Grows

LEMMA FinishMaybe ==
  ASSUME SeedTypeOK, NEW r \in Runs, Busy(r), Finish(r),
         run[r].maybe => Earned(Expected(r))'
                         /\ \E v \in Versions : run[r].list = Release[v]
  PROVE  /\ OneRun(r) /\ MaybeRun(r)' /\ run'[r].stage # "wipe"
         /\ run'[r].stage = "put" => run'[r].maybe
<1>1. CASE run[r].maybe
  <2>1. /\ run' = [run EXCEPT ![r] = [run[r] EXCEPT !.stage = "put"]]
        /\ run[r] \in Run
    BY <1>1, BusyRun DEF Finish, Goto, RunsOK, SeedTypeOK
  <2>2. /\ run'[r].stage = "put" /\ run'[r].maybe = run[r].maybe
        /\ run'[r].list = run[r].list
    BY <2>1 DEF SeedTypeOK, Run
  <2> QED
    BY <1>1, <2>1, <2>2 DEF OneRun, MaybeRun, SeedTypeOK
<1>2. CASE ~run[r].maybe
  BY <1>2 DEF Finish, Leave, OneRun, MaybeRun, Busy, Idle, SeedTypeOK
<1> QED
  BY <1>1, <1>2

\* The end of a signal's writing.
LEMMA AdvanceMaybe ==
  ASSUME SeedTypeOK, NEW r \in Runs, Busy(r), Advance(r), IsFiniteSet(seen'),
         wipes = 0 =>
           /\ seen' \ Dynamic \subseteq catalog'
           /\ run[r].maybe =>
                /\ \E v \in Versions : run[r].list = Release[v]
                /\ \A i \in DOMAIN run[r].list : i <= run[r].at => run[r].list[i] \in seen'
  PROVE  /\ OneRun(r) /\ run'[r].stage # "wipe"
         /\ run'[r].stage = "put" => run'[r].maybe
         /\ wipes = 0 => MaybeRun(r)'
<1>1. /\ run[r] \in Run /\ run[r].at \in 1..Len(run[r].list)
      /\ DOMAIN run[r].list = 1..Len(run[r].list) /\ Len(run[r].list) \in Nat
  BY BusyRun, ListFacts DEF RunsOK, SeedTypeOK
<1>2. CASE run[r].at < Len(run[r].list)
  <2>1. run' = [run EXCEPT ![r] = [run[r] EXCEPT !.stage = "row", !.at = @ + 1]]
    BY <1>2 DEF Advance
  <2>2. /\ run'[r].stage = "row" /\ run'[r].maybe = run[r].maybe
        /\ run'[r].list = run[r].list /\ run'[r].at = run[r].at + 1
    BY <1>1, <2>1 DEF SeedTypeOK, Run
  <2>3. wipes = 0 /\ run[r].maybe => Written(r)'
    BY <1>1, <2>2 DEF Written
  <2> QED
    BY <2>1, <2>2, <2>3 DEF OneRun, MaybeRun, SeedTypeOK
<1>3. CASE ~(run[r].at < Len(run[r].list))
  <2>1. Finish(r)
    BY <1>3 DEF Advance
  <2>2. /\ OneRun(r) /\ run'[r].stage # "wipe"
        /\ run'[r].stage = "put" => run'[r].maybe /\ run'[r].list = run[r].list
                                    /\ run[r].maybe
        /\ run'[r].stage \in {"put", "idle"}
    BY <1>1, <2>1 DEF Finish, Goto, Leave, OneRun, Idle, SeedTypeOK, Run
  <2>3. ASSUME wipes = 0, run'[r].stage = "put"
        PROVE  MaybeRun(r)'
    <3>1. PICK w \in Versions : run[r].list = Release[w]
      BY <2>2, <2>3
    <3>2. Shipped(w) \subseteq seen'
      BY <1>1, <1>3, <2>2, <2>3, <3>1 DEF Shipped, SignalsOf
    <3>3. \A v \in Versions : Len(Release[v]) = Len(run'[r].list) => StoodIn(v)'
      BY <2>2, <2>3, <3>1, <3>2, WrittenEarned DEF StoodIn
    <3> QED
      BY <2>2, <2>3, <3>1, <3>3 DEF MaybeRun, Earned, Expected
  <2> QED
    BY <2>2, <2>3 DEF MaybeRun, Busy
<1> QED
  BY <1>2, <1>3

LEMMA FlagInit == SeedInit => FlagInv
BY FS_EmptySet DEF SeedInit, FlagInv, MaybeRun, Busy, Idle

LEMMA FlagStep == SeedTypeOK /\ FlagInv /\ [SeedNext]_seedVars => FlagInv'
<1> SUFFICES ASSUME SeedTypeOK, FlagInv, [SeedNext]_seedVars
             PROVE  FlagInv'
  OBVIOUS
<1>0. RunsOK /\ IsFiniteSet(seen) /\ wipes \in Nat
  BY CatalogAssumption DEF RunsOK, SeedTypeOK, FlagInv
<1>1. ASSUME NEW r \in Runs, NEW i \in Isolates, Start(r, i)
      PROVE  FlagInv'
  <2>1. PICK home \in Isolates \cup {Nowhere}, maybe \in BOOLEAN,
             stage \in {"flag", "count", "wipe"} :
          /\ Begin(r, home, maybe, stage, Release[code[i]])
          /\ stage = "wipe" => wipes' = wipes + 1
    BY <1>1 DEF Start, StartAuto, StartNow, StartReseed, StartDevSeed
  <2>2. /\ OneRun(r) /\ run'[r].stage = stage /\ run'[r].at = 1
        /\ run'[r].list = Release[code[i]] /\ code[i] \in Versions
    BY <2>1 DEF Begin, OneRun, SeedTypeOK
  <2>3. wipes' \in {wipes, wipes + 1} /\ UNCHANGED <<catalog, seen, flags>>
    BY <1>1 DEF Start, StartAuto, StartNow, StartReseed, StartDevSeed, Begin
  <2>4. MaybeRun(r)'
    BY <2>1, <2>2 DEF MaybeRun
  <2>5. Grows
    BY <1>0, <2>3 DEF Grows
  <2> QED
    BY <1>0, <2>1, <2>2, <2>3, <2>4, <2>5, FlagStepOf DEF FlagInv
<1>2. ASSUME NEW r \in Runs, StartSync(r) \/ StartPromote(r)
      PROVE  FlagInv'
  <2>1. PICK list \in Lists : Begin(r, Nowhere, FALSE, "row", list)
    BY <1>2, ListsAre DEF StartSync, StartPromote
  <2>2. OneRun(r) /\ run'[r].stage = "row" /\ run'[r].maybe = FALSE
    BY <2>1 DEF Begin, OneRun, SeedTypeOK
  <2>3. UNCHANGED <<catalog, seen, flags, wipes>> /\ MaybeRun(r)'
    BY <1>2, <2>1, <2>2 DEF StartSync, StartPromote, Begin, MaybeRun
  <2>4. Grows
    BY <1>0, <2>3 DEF Grows
  <2> QED
    BY <2>2, <2>3, <2>4, FlagStepOf DEF FlagInv
<1>3. ASSUME NEW r \in Runs, ReadFlag(r)
      PROVE  FlagInv'
  <2>1. /\ Busy(r) /\ run[r] \in Run /\ UNCHANGED <<catalog, seen, flags, wipes>>
        /\ run[r].stage = "flag"
    BY <1>0, <1>3, BusyRun DEF ReadFlag, Busy
  <2>2. Grows
    BY <1>0, <2>1 DEF Grows
  <2>3. CASE Leave(r)
    <3>1. OneRun(r) /\ run'[r].stage = "idle"
      BY <2>3 DEF Leave, OneRun, SeedTypeOK, Idle
    <3> QED
      BY <2>1, <2>2, <3>1, FlagStepOf DEF FlagInv, MaybeRun, Busy
  <2>4. CASE Goto(r, "count")
    <3>1. /\ OneRun(r) /\ run'[r].stage = "count" /\ run'[r].maybe = run[r].maybe
          /\ run'[r].list = run[r].list /\ run'[r].at = run[r].at
      BY <2>1, <2>4 DEF Goto, OneRun, SeedTypeOK, Run
    <3>2. wipes = 0 => MaybeRun(r)'
      BY <2>1, <3>1 DEF FlagInv, MaybeRun
    <3> QED
      BY <2>1, <2>2, <3>1, <3>2, FlagStepOf DEF FlagInv
  <2> QED
    BY <1>3, <2>3, <2>4 DEF ReadFlag
<1>4. ASSUME NEW r \in Runs, Wipe(r)
      PROVE  FlagInv'
  <2>1. /\ Busy(r) /\ run[r] \in Run /\ wipes > 0 /\ wipes' = wipes /\ seen' = {}
    BY <1>0, <1>4, BusyRun DEF Wipe, Busy, FlagInv
  <2>2. /\ OneRun(r) /\ run'[r].stage = "count"
    BY <1>4, <2>1 DEF Wipe, Goto, OneRun, SeedTypeOK, Run
  <2> QED
    BY <1>0, <2>1, <2>2, FS_EmptySet DEF FlagInv, OneRun
<1>5. ASSUME NEW r \in Runs, Count(r)
      PROVE  FlagInv'
  <2>1. /\ Busy(r) /\ run[r] \in Run /\ UNCHANGED <<catalog, seen, flags, wipes>>
        /\ run[r].stage = "count" /\ Expected(r) \in Nat /\ run[r].list \in Lists
    BY <1>0, <1>5, BusyRun, ListFacts DEF Count, Busy, Expected
  <2>2. Grows
    BY <1>0, <2>1 DEF Grows
  <2>3. CASE run[r].maybe /\ EnoughRows(r) /\ Finish(r)
    <3>1. wipes = 0 => Earned(Expected(r)) /\ \E v \in Versions : run[r].list = Release[v]
      BY <1>0, <2>1, <2>3, EnoughEarned DEF FlagInv, EnoughRows, MaybeRun
    <3>2. /\ OneRun(r) /\ run'[r].stage = "put" /\ run'[r].maybe
          /\ run'[r].list = run[r].list
      BY <2>1, <2>3 DEF Finish, Goto, OneRun, SeedTypeOK, Run
    <3>3. wipes = 0 => MaybeRun(r)'
      BY <2>1, <3>1, <3>2 DEF MaybeRun, Earned, StoodIn, Expected
    <3> QED
      BY <2>1, <2>2, <3>2, <3>3, FlagStepOf DEF FlagInv
  <2>4. CASE Goto(r, "row")
    <3>1. /\ OneRun(r) /\ run'[r].stage = "row" /\ run'[r].maybe = run[r].maybe
          /\ run'[r].list = run[r].list /\ run'[r].at = run[r].at
      BY <2>1, <2>4 DEF Goto, OneRun, SeedTypeOK, Run
    <3>2. wipes = 0 /\ run[r].maybe => Written(r)'
      BY <2>1, <3>1, ListFacts DEF FlagInv, MaybeRun, Written
    <3>3. wipes = 0 => MaybeRun(r)'
      BY <2>1, <3>1, <3>2 DEF FlagInv, MaybeRun
    <3> QED
      BY <2>1, <2>2, <3>1, <3>3, FlagStepOf DEF FlagInv
  <2> QED
    BY <1>5, <2>3, <2>4 DEF Count
<1>6. ASSUME NEW r \in Runs, UpsertRow(r)
      PROVE  FlagInv'
  <2> DEFINE s == Current(r)
  <2>1. /\ Busy(r) /\ run[r] \in Run /\ UNCHANGED <<flags, wipes>>
        /\ run[r].stage = "row" /\ run[r].list \in Lists
        /\ seen' = seen \cup {s} /\ catalog' = catalog \cup {s}
        /\ run[r].list[run[r].at] = s
    BY <1>0, <1>6, BusyRun DEF UpsertRow, Busy, Current
  <2>2. Grows /\ IsFiniteSet(seen')
    BY <1>0, <2>1, FS_AddElement DEF Grows
  <2>3. wipes = 0 => catalog' \subseteq seen' /\ seen' \ Dynamic \subseteq catalog'
    BY <2>1 DEF FlagInv
  <2>4. wipes = 0 /\ run[r].maybe =>
          /\ \E v \in Versions : run[r].list = Release[v]
          /\ \A i \in DOMAIN run[r].list : i <= run[r].at => run[r].list[i] \in seen'
    <3>1. \A i \in DOMAIN run[r].list : i <= run[r].at => i < run[r].at \/ i = run[r].at
      BY <2>1, ListFacts DEF Run
    <3> QED
      BY <2>1, <3>1 DEF FlagInv, MaybeRun, Written
  <2>5. CASE Goto(r, "rules")
    <3>1. /\ OneRun(r) /\ run'[r].stage = "rules" /\ run'[r].maybe = run[r].maybe
          /\ run'[r].list = run[r].list /\ run'[r].at = run[r].at
      BY <2>1, <2>5 DEF Goto, OneRun, SeedTypeOK, Run
    <3>2. wipes = 0 /\ run[r].maybe => Written(r)'
      BY <2>1, <2>4, <3>1, ListFacts DEF Written, Run
    <3>3. wipes = 0 => MaybeRun(r)'
      BY <2>4, <3>1, <3>2 DEF MaybeRun
    <3> QED
      BY <2>1, <2>2, <2>3, <3>1, <3>3, FlagStepOf DEF FlagInv
  <2>6. CASE Advance(r)
    <3>1. /\ OneRun(r) /\ run'[r].stage # "wipe"
          /\ run'[r].stage = "put" => run'[r].maybe
          /\ wipes = 0 => MaybeRun(r)'
      BY <2>1, <2>2, <2>3, <2>4, <2>6, AdvanceMaybe
    <3> QED
      BY <2>1, <2>2, <2>3, <3>1, FlagStepOf DEF FlagInv
  <2> QED
    BY <1>6, <2>5, <2>6 DEF UpsertRow
<1>7. ASSUME NEW r \in Runs, DeleteRules(r)
      PROVE  FlagInv'
  <2>1. /\ Busy(r) /\ run[r] \in Run /\ UNCHANGED <<catalog, seen, flags, wipes>>
        /\ run[r].stage = "rules"
    BY <1>0, <1>7, BusyRun DEF DeleteRules, Busy
  <2>2. /\ OneRun(r) /\ run'[r].stage = "insert" /\ run'[r].maybe = run[r].maybe
        /\ run'[r].list = run[r].list /\ run'[r].at = run[r].at
    BY <1>7, <2>1 DEF DeleteRules, Goto, OneRun, SeedTypeOK, Run
  <2>3. wipes = 0 => MaybeRun(r)'
    BY <2>1, <2>2 DEF FlagInv, MaybeRun, Written, Busy
  <2>4. Grows
    BY <1>0, <2>1 DEF Grows
  <2> QED
    BY <2>1, <2>2, <2>3, <2>4, FlagStepOf DEF FlagInv
<1>8. ASSUME NEW r \in Runs, InsertRules(r)
      PROVE  FlagInv'
  <2>1. /\ Busy(r) /\ run[r] \in Run /\ UNCHANGED <<catalog, seen, flags, wipes>>
        /\ run[r].stage = "insert" /\ run[r].list \in Lists /\ Advance(r)
    BY <1>0, <1>8, BusyRun DEF InsertRules, Busy
  <2>2. wipes = 0 =>
          /\ seen' \ Dynamic \subseteq catalog'
          /\ run[r].maybe =>
               /\ \E v \in Versions : run[r].list = Release[v]
               /\ \A i \in DOMAIN run[r].list : i <= run[r].at => run[r].list[i] \in seen'
    <3>1. \A i \in DOMAIN run[r].list : i <= run[r].at => i < run[r].at \/ i = run[r].at
      BY <2>1, ListFacts DEF Run
    <3> QED
      BY <2>1, <3>1 DEF FlagInv, MaybeRun, Written
  <2>3. /\ OneRun(r) /\ run'[r].stage # "wipe"
        /\ run'[r].stage = "put" => run'[r].maybe
        /\ wipes = 0 => MaybeRun(r)'
    BY <1>0, <2>1, <2>2, AdvanceMaybe
  <2>4. Grows
    BY <1>0, <2>1 DEF Grows
  <2> QED
    BY <2>1, <2>3, <2>4, FlagStepOf DEF FlagInv
<1>9. ASSUME NEW r \in Runs, RulesRefused(r) \/ CallFails(r) \/ Cancelled(r)
      PROVE  FlagInv'
  <2>1. Leave(r) /\ UNCHANGED <<catalog, seen, flags, wipes>>
    BY <1>9 DEF RulesRefused, CallFails, Cancelled, Abort
  <2>2. OneRun(r) /\ run'[r].stage = "idle"
    BY <2>1 DEF Leave, OneRun, SeedTypeOK, Idle
  <2>3. Grows
    BY <1>0, <2>1 DEF Grows
  <2> QED
    BY <2>1, <2>2, <2>3, FlagStepOf DEF FlagInv, MaybeRun, Busy
<1>10. ASSUME NEW r \in Runs, PutFlag(r)
       PROVE  FlagInv'
  <2>1. /\ Busy(r) /\ run[r].stage = "put" /\ run[r].maybe /\ Leave(r)
        /\ UNCHANGED <<catalog, seen, wipes>> /\ flags' = flags \cup {Expected(r)}
    BY <1>0, <1>10 DEF PutFlag, Busy, FlagInv
  <2>2. OneRun(r) /\ run'[r].stage = "idle"
    BY <2>1 DEF Leave, OneRun, SeedTypeOK, Idle
  <2>3. wipes = 0 => \A n \in flags' \ flags : Earned(n)
    BY <2>1 DEF FlagInv, MaybeRun
  <2>4. Grows
    BY <1>0, <2>1 DEF Grows
  <2> QED
    BY <2>1, <2>2, <2>3, <2>4, FlagStepOf DEF FlagInv, MaybeRun, Busy
<1>11. CASE \/ \E i \in Isolates : Recycle(i)
            \/ Deploy \/ PurgeDynamic \/ UNCHANGED seedVars
  <2>1. UNCHANGED <<seen, flags, wipes>> /\ Grows
        /\ catalog' \subseteq catalog /\ catalog \ Dynamic \subseteq catalog'
    BY <1>0, <1>11 DEF Recycle, Deploy, PurgeDynamic, seedVars, Grows
  <2>2. ASSUME NEW r \in Runs
        PROVE  /\ run'[r].stage = run[r].stage
               /\ Busy(r) => /\ run'[r].maybe = run[r].maybe /\ run'[r].at = run[r].at
                             /\ run'[r].list = run[r].list
    <3>1. CASE \E i \in Isolates : Recycle(i)
      <4>1. run'[r] \in {run[r], [run[r] EXCEPT !.home = Nowhere]}
            /\ (Busy(r) \/ run'[r] = run[r])
        BY <3>1 DEF Recycle
      <4>2. Busy(r) => run[r] \in Run
        BY <1>0, BusyRun
      <4> QED
        BY <4>1, <4>2 DEF Run
    <3>2. CASE Deploy \/ PurgeDynamic \/ UNCHANGED seedVars
      BY <3>2 DEF Deploy, PurgeDynamic, seedVars
    <3> QED
      BY <1>11, <3>1, <3>2
  <2>3. \A r \in Runs : run'[r].stage = "put" => run'[r].maybe
    BY <2>2 DEF FlagInv, Busy
  <2>4. wipes = 0 => \A r \in Runs : MaybeRun(r)'
    BY <1>0, <2>1, <2>2, MaybeRunStays DEF FlagInv
  <2>5. wipes = 0 => \A n \in flags : Earned(n)'
    BY <1>0, <2>1, StoodInStays DEF Earned, FlagInv
  <2> QED
    BY <1>0, <2>1, <2>2, <2>3, <2>4, <2>5 DEF FlagInv
<1> QED
  BY <1>1, <1>2, <1>3, <1>4, <1>5, <1>6, <1>7, <1>8, <1>9, <1>10, <1>11
     DEF SeedNext, Proceed

\* The flag that skips the seed for ever after is only set for a catalog that
\* misses no more signals than rows from elsewhere stood in for in the count
\* (maybeSeed and /admin/seed-now), unless a reseed has begun.
THEOREM FlagsEarned == SeedSpec => []FlagEarned
<1>1. FlagInv => FlagEarned
  BY DEF FlagInv, FlagEarned, Earned, StoodIn
<1> QED
  BY <1>1, FlagInit, FlagStep, SeedTypeCorrect, PTL DEF SeedSpec

-----------------------------------------------------------------------------
(* Rules are whole.                                                        *)

Inserting(r, s) == run[r].stage = "insert" /\ Current(r) = s

SignalOK(s) ==
  /\ copies[s] > 1 => s \in raced
  /\ s \in catalog \cap Ruled /\ copies[s] = 0 =>
       s \in torn \/ \E r \in Runs : Writing(r, s)
  /\ \A r, q \in Runs : r # q /\ Writing(r, s) /\ Writing(q, s) => s \in raced
  /\ \A r \in Runs : Inserting(r, s) => copies[s] = 0 \/ s \in raced

RulesInv == \A s \in Signals : SignalOK(s)

\* Who writes signal s stays the same.
WritersStay(s) ==
  \A r \in Runs : /\ Writing(r, s)' <=> Writing(r, s)
                  /\ Inserting(r, s)' <=> Inserting(r, s)

LEMMA SignalStays ==
  ASSUME NEW s \in Signals, SignalOK(s), WritersStay(s), UNCHANGED <<raced, torn>>,
         \/ copies'[s] = 0 /\ s \notin catalog'
         \/ copies'[s] = copies[s] /\ (s \in catalog' => s \in catalog)
  PROVE  SignalOK(s)'
BY DEF SignalOK, WritersStay

\* The signals a run is not at, and all of them while it is not writing, are
\* left alone when it moves.
LEMMA RunMoves ==
  ASSUME SeedTypeOK, NEW r \in Runs, NEW s,
         \A q \in Runs \ {r} : run'[q] = run[q],
         ~Writing(r, s), run'[r].stage \in {"rules", "insert"} => ~Writing(r, s)'
  PROVE  WritersStay(s)
BY DEF WritersStay, Writing, Inserting, Current

LEMMA GotoMoves ==
  ASSUME RunsOK, NEW r \in Runs, Busy(r), NEW stage \in Stages \ {"idle"}, Goto(r, stage)
  PROVE  /\ \A q \in Runs \ {r} : run'[q] = run[q]
         /\ run'[r].stage = stage /\ Current(r)' = Current(r)
         /\ run'[r].maybe = run[r].maybe
<1>1. run[r] \in Run
  BY BusyRun
<1> QED
  BY <1>1 DEF Goto, RunsOK, Run, Current

LEMMA LeaveMoves ==
  ASSUME RunsOK, NEW r \in Runs, Leave(r)
  PROVE  /\ \A q \in Runs \ {r} : run'[q] = run[q]
         /\ run'[r].stage = "idle"
BY DEF Leave, RunsOK, Idle

LEMMA FinishMoves ==
  ASSUME RunsOK, NEW r \in Runs, Busy(r), Finish(r)
  PROVE  /\ \A q \in Runs \ {r} : run'[q] = run[q]
         /\ run'[r].stage \in {"put", "idle"}
BY GotoMoves, LeaveMoves DEF Finish, Stages

LEMMA AdvanceMoves ==
  ASSUME RunsOK, NEW r \in Runs, Busy(r), Advance(r)
  PROVE  /\ \A q \in Runs \ {r} : run'[q] = run[q]
         /\ run'[r].stage \in {"row", "put", "idle"}
<1>1. CASE run[r].at < Len(run[r].list)
  <2>1. run[r] \in Run
    BY BusyRun
  <2>2. run' = [run EXCEPT ![r] = [run[r] EXCEPT !.stage = "row", !.at = @ + 1]]
    BY <1>1 DEF Advance
  <2> QED
    BY <2>1, <2>2 DEF RunsOK, Run
<1>2. CASE ~(run[r].at < Len(run[r].list))
  BY <1>2, FinishMoves DEF Advance
<1> QED
  BY <1>1, <1>2

LEMMA RulesInit == SeedInit => RulesInv
BY DEF SeedInit, RulesInv, SignalOK, Writing, Inserting, Idle

LEMMA RulesStep == SeedTypeOK /\ RulesInv /\ [SeedNext]_seedVars => RulesInv'
<1> SUFFICES ASSUME SeedTypeOK, RulesInv, [SeedNext]_seedVars, NEW s \in Signals
             PROVE  SignalOK(s)'
  BY DEF RulesInv
<1>0. RunsOK /\ SignalOK(s) /\ copies[s] \in Nat
  BY DEF RunsOK, SeedTypeOK, RulesInv
<1>1. ASSUME NEW r \in Runs,
             \/ \E i \in Isolates : Start(r, i)
             \/ StartSync(r) \/ StartPromote(r)
      PROVE  SignalOK(s)'
  <2>1. PICK home \in Isolates \cup {Nowhere}, maybe \in BOOLEAN,
             stage \in {"flag", "count", "wipe", "row"}, list \in Lists :
          Begin(r, home, maybe, stage, list)
    BY <1>1, ListsAre DEF Start, StartAuto, StartNow, StartReseed, StartDevSeed,
       StartSync, StartPromote, SeedTypeOK
  <2>2. /\ \A q \in Runs \ {r} : run'[q] = run[q]
        /\ run'[r].stage \notin {"rules", "insert"} /\ ~Writing(r, s)
        /\ UNCHANGED <<catalog, copies, raced, torn>>
    BY <2>1 DEF Begin, Free, Writing, SeedTypeOK
  <2> QED
    BY <1>0, <2>2, RunMoves, SignalStays
<1>2. ASSUME NEW r \in Runs, ReadFlag(r) \/ Count(r) \/ PutFlag(r)
      PROVE  SignalOK(s)'
  <2>1. /\ Busy(r) /\ ~Writing(r, s) /\ UNCHANGED <<catalog, copies, raced, torn>>
        /\ Leave(r) \/ Finish(r) \/ \E stage \in {"count", "row"} : Goto(r, stage)
    BY <1>2 DEF ReadFlag, Count, PutFlag, Busy, Writing
  <2>2. /\ \A q \in Runs \ {r} : run'[q] = run[q]
        /\ run'[r].stage \in {"idle", "put", "count", "row"}
    BY <1>0, <2>1, GotoMoves, LeaveMoves, FinishMoves DEF Stages
  <2> QED
    BY <1>0, <2>1, <2>2, RunMoves, SignalStays
<1>3. ASSUME NEW r \in Runs, Wipe(r)
      PROVE  SignalOK(s)'
  <2>1. /\ Busy(r) /\ ~Writing(r, s) /\ UNCHANGED <<raced, torn>>
        /\ catalog' = {} /\ copies'[s] = 0
    BY <1>3 DEF Wipe, Busy, Writing
  <2>2. /\ \A q \in Runs \ {r} : run'[q] = run[q]
        /\ run'[r].stage = "count"
    BY <1>0, <1>3, <2>1, GotoMoves DEF Wipe, Stages
  <2> QED
    BY <1>0, <2>1, <2>2, RunMoves, SignalStays
<1>4. ASSUME NEW r \in Runs, UpsertRow(r)
      PROVE  SignalOK(s)'
  <2>1. /\ Busy(r) /\ ~Writing(r, s) /\ UNCHANGED <<copies, torn>>
        /\ catalog' = catalog \cup {Current(r)} /\ raced \subseteq raced'
        /\ (\E q \in Runs \ {r} : Writing(q, Current(r))) => Current(r) \in raced'
        /\ raced' \subseteq raced \cup {Current(r)}
    BY <1>4 DEF UpsertRow, Busy, Writing
  <2>2. CASE Goto(r, "rules")
    <3>1. /\ \A q \in Runs \ {r} : run'[q] = run[q]
          /\ run'[r].stage = "rules" /\ Current(r)' = Current(r)
      BY <1>0, <2>1, <2>2, GotoMoves DEF Stages
    <3>2. CASE s = Current(r)
      BY <1>0, <2>1, <3>1, <3>2 DEF SignalOK, Writing, Inserting, Current
    <3>3. CASE s # Current(r)
      <4>1. WritersStay(s)
        BY <2>1, <3>1, <3>3, RunMoves DEF Writing
      <4> QED
        BY <1>0, <2>1, <3>3, <4>1 DEF SignalOK, WritersStay
    <3> QED
      BY <3>2, <3>3
  <2>3. CASE Advance(r) /\ Current(r) \notin Ruled
    <3>1. WritersStay(s)
      BY <1>0, <2>1, <2>3, AdvanceMoves, RunMoves
    <3> QED
      BY <1>0, <2>1, <2>3, <3>1 DEF SignalOK, WritersStay
  <2> QED
    BY <1>4, <2>2, <2>3 DEF UpsertRow
<1>5. ASSUME NEW r \in Runs, DeleteRules(r)
      PROVE  SignalOK(s)'
  <2>1. /\ Busy(r) /\ Writing(r, Current(r)) /\ UNCHANGED <<catalog, raced, torn>>
        /\ copies' = [copies EXCEPT ![Current(r)] = 0] /\ run[r].stage = "rules"
    BY <1>5 DEF DeleteRules, Busy, Writing
  <2>2. /\ \A q \in Runs \ {r} : run'[q] = run[q]
        /\ run'[r].stage = "insert" /\ Current(r)' = Current(r)
    BY <1>0, <1>5, <2>1, GotoMoves DEF DeleteRules, Stages
  <2>3. CASE s = Current(r)
    <3>1. copies'[s] = 0 /\ Writing(r, s)'
      BY <2>1, <2>2, <2>3 DEF SeedTypeOK, Writing
    <3>2. \A q \in Runs : Writing(q, s)' => Writing(q, s)
      BY <2>1, <2>2, <2>3 DEF Writing, Current
    <3> QED
      BY <1>0, <2>1, <3>1, <3>2 DEF SignalOK
  <2>4. CASE s # Current(r)
    BY <1>0, <2>1, <2>2, <2>4, RunMoves, SignalStays DEF SeedTypeOK, Writing
  <2> QED
    BY <2>3, <2>4
<1>6. ASSUME NEW r \in Runs, InsertRules(r)
      PROVE  SignalOK(s)'
  <2>1. /\ Busy(r) /\ Inserting(r, Current(r)) /\ UNCHANGED <<catalog, raced, torn>>
        /\ copies' = [copies EXCEPT ![Current(r)] = @ + 1] /\ Writing(r, Current(r))
    BY <1>6 DEF InsertRules, Busy, Inserting, Writing
  <2>2. /\ \A q \in Runs \ {r} : run'[q] = run[q]
        /\ run'[r].stage \notin {"rules", "insert"}
    BY <1>0, <1>6, <2>1, AdvanceMoves DEF InsertRules
  <2>3. CASE s = Current(r)
    <3>1. copies'[s] = copies[s] + 1
      BY <2>1, <2>3 DEF SeedTypeOK
    <3>2. \A q \in Runs : /\ Writing(q, s)' => q # r /\ Writing(q, s)
                          /\ Inserting(q, s)' => Writing(q, s)'
      BY <2>2 DEF Writing, Inserting, Current
    <3> QED
      BY <1>0, <2>1, <2>3, <3>1, <3>2 DEF SignalOK
  <2>4. CASE s # Current(r)
    BY <1>0, <2>1, <2>2, <2>4, RunMoves, SignalStays DEF SeedTypeOK, Writing
  <2> QED
    BY <2>3, <2>4
<1>7. ASSUME NEW r \in Runs, RulesRefused(r) \/ CallFails(r) \/ Cancelled(r)
      PROVE  SignalOK(s)'
  <2>1. /\ Leave(r) /\ UNCHANGED <<catalog, copies, raced>> /\ torn \subseteq torn'
        /\ Writing(r, s) => s \in torn'
    BY <1>7 DEF RulesRefused, CallFails, Cancelled, Abort, Writing
  <2>2. /\ \A q \in Runs \ {r} : run'[q] = run[q] /\ run'[r].stage = "idle"
    BY <1>0, <2>1, LeaveMoves
  <2>3. \A q \in Runs : /\ Writing(q, s)' <=> q # r /\ Writing(q, s)
                        /\ Inserting(q, s)' => Inserting(q, s)
    BY <1>0, <2>1, <2>2, LeaveMoves DEF Writing, Inserting, Current
  <2> QED
    BY <1>0, <2>1, <2>3 DEF SignalOK
<1>8. ASSUME NEW i \in Isolates, Recycle(i)
      PROVE  SignalOK(s)'
  <2>1. ASSUME NEW r \in Runs
        PROVE  /\ Writing(r, s)' <=> Writing(r, s)
               /\ Inserting(r, s)' <=> Inserting(r, s)
    <3>1. run'[r] \in {run[r], [run[r] EXCEPT !.home = Nowhere]}
          /\ (Busy(r) \/ run'[r] = run[r])
      BY <1>8 DEF Recycle
    <3>2. Busy(r) => run[r] \in Run
      BY <1>0, BusyRun
    <3>3. /\ run'[r].stage = run[r].stage
          /\ Busy(r) => run'[r].at = run[r].at /\ run'[r].list = run[r].list
      BY <3>1, <3>2 DEF Run
    <3> QED
      BY <3>3 DEF Writing, Inserting, Current, Busy
  <2> QED
    BY <1>0, <1>8, <2>1, SignalStays DEF Recycle, WritersStay
<1>9. CASE Deploy \/ PurgeDynamic \/ UNCHANGED seedVars
  <2>1. WritersStay(s) /\ UNCHANGED <<raced, torn>>
    BY <1>9 DEF Deploy, PurgeDynamic, seedVars, WritersStay, Writing, Inserting, Current
  <2>2. \/ copies'[s] = 0 /\ s \notin catalog'
        \/ copies'[s] = copies[s] /\ (s \in catalog' => s \in catalog)
    BY <1>9 DEF Deploy, PurgeDynamic, seedVars
  <2> QED
    BY <1>0, <2>1, <2>2, SignalStays
<1> QED
  BY <1>1, <1>2, <1>3, <1>4, <1>5, <1>6, <1>7, <1>8, <1>9 DEF SeedNext, Proceed

\* A stored signal lacks its rules only under a writer's hands or after a cut,
\* and has them twice only if two writers met (upsertSignal is three calls).
THEOREM RulesAreWhole == SeedSpec => []RulesWhole
<1>1. RulesInv /\ SeedTypeOK => RulesWhole
  <2> SUFFICES ASSUME RulesInv, SeedTypeOK
               PROVE  RulesWhole
    OBVIOUS
  <2>1. \A r \in Runs, s \in Signals : Writing(r, s) => Busy(r)
    BY DEF Writing, Busy
  <2> QED
    BY <2>1 DEF RulesInv, SignalOK, RulesWhole, RulesComplete, RulesOnce, SeedTypeOK
<1> QED
  BY <1>1, RulesInit, RulesStep, SeedTypeCorrect, PTL DEF SeedSpec

=============================================================================
