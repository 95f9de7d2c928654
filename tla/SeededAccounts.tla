--------------------------- MODULE SeededAccounts ---------------------------
(***************************************************************************)
(* seed_account of the compliance test controller (AdCP 3.2): an account's *)
(* fixture is stored if none is, and compared otherwise.                   *)
(***************************************************************************)

CONSTANTS
  Seeders,  \* slots for seed_account calls in flight
  SeedKeys, \* operator and account id
  Fixtures, \* fixtures, in canonical JSON
  Unseeded  \* no fixture

ASSUME SeededAssumption == Unseeded \notin Fixtures

VARIABLES
  seeded,  \* compliance:account:<operator>:<account>
  seeder,  \* the calls in flight
  \* History, read by properties only:
  agreed,  \* the fixtures that calls succeeded with, until they lapse
  settled  \* keys whose calls never overlapped

seededVars == <<seeded, seeder, agreed, settled>>

Seeder == [doing : {"get", "put"}, key : SeedKeys, fixture : Fixtures]

NotSeeding == [doing |-> "none"]

SeededTypeOK ==
  /\ seeded \in [SeedKeys -> Fixtures \cup {Unseeded}]
  /\ seeder \in [Seeders -> Seeder \cup {NotSeeding}]
  /\ agreed \in [SeedKeys -> SUBSET Fixtures]
  /\ settled \subseteq SeedKeys

SeededInit ==
  /\ seeded = [k \in SeedKeys |-> Unseeded]
  /\ seeder = [s \in Seeders |-> NotSeeding]
  /\ agreed = [k \in SeedKeys |-> {}]
  /\ settled = SeedKeys

Seeding(s, k) == seeder[s].doing # "none" /\ seeder[s].key = k

StartSeed(s, k, f) ==
  /\ seeder[s] = NotSeeding
  /\ seeder' = [seeder EXCEPT ![s] = [doing |-> "get", key |-> k, fixture |-> f]]
  /\ settled' = IF \E r \in Seeders : Seeding(r, k) THEN settled \ {k} ELSE settled
  /\ UNCHANGED <<seeded, agreed>>

\* Faulty: the fixture is stored whatever is there.
GetNothing(s) ==
  /\ seeder[s].doing = "get"
  /\ seeder' = [seeder EXCEPT ![s].doing = "put"]
  /\ UNCHANGED <<seeded, agreed, settled>>

\* An identical fixture is accepted, a different one is refused.
GetSeeded(s) ==
  LET k == seeder[s].key
      f == seeder[s].fixture
  IN /\ seeder[s].doing = "get"
     /\ \/ /\ seeded[k] = Unseeded
           /\ seeder' = [seeder EXCEPT ![s].doing = "put"]
           /\ UNCHANGED agreed
        \/ /\ seeded[k] # Unseeded
           /\ agreed' = IF seeded[k] = f THEN [agreed EXCEPT ![k] = @ \cup {f}] ELSE agreed
           /\ seeder' = [seeder EXCEPT ![s] = NotSeeding]
     /\ UNCHANGED <<seeded, settled>>

PutSeeded(s) ==
  LET k == seeder[s].key
      f == seeder[s].fixture
  IN /\ seeder[s].doing = "put"
     /\ seeded' = [seeded EXCEPT ![k] = f]
     /\ agreed' = [agreed EXCEPT ![k] = @ \cup {f}]
     /\ seeder' = [seeder EXCEPT ![s] = NotSeeding]
     /\ UNCHANGED settled

\* The call throws before or after its put.
SeedDies(s) ==
  /\ seeder[s] # NotSeeding
  /\ \/ UNCHANGED seeded
     \/ /\ seeder[s].doing = "put"
        /\ seeded' = [seeded EXCEPT ![seeder[s].key] = seeder[s].fixture]
  /\ seeder' = [seeder EXCEPT ![s] = NotSeeding]
  /\ UNCHANGED <<agreed, settled>>

\* The key lapses half an hour after its put; calls are short.
LapseSeeded(k) ==
  /\ seeded[k] # Unseeded
  /\ \A s \in Seeders : ~Seeding(s, k)
  /\ seeded' = [seeded EXCEPT ![k] = Unseeded]
  /\ agreed' = [agreed EXCEPT ![k] = {}]
  /\ UNCHANGED <<seeder, settled>>

SeededNext ==
  \/ \E s \in Seeders :
       \/ \E k \in SeedKeys, f \in Fixtures : StartSeed(s, k, f)
       \/ GetSeeded(s) \/ PutSeeded(s) \/ SeedDies(s)
  \/ \E k \in SeedKeys : LapseSeeded(k)

SeededSpec == SeededInit /\ [][SeededNext]_seededVars

\* A re-seed must match: every call that succeeded for an account has named the
\* fixture that is stored, unless calls for the account overlapped; calls that
\* die in between do no harm.
SeedsAgree == \A k \in settled : agreed[k] \subseteq {seeded[k]}

=============================================================================
