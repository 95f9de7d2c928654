----------------------------- MODULE MCServices -----------------------------
(***************************************************************************)
(* Small instances, for TLC, of the services that share nothing but the    *)
(* worker: no key, row or variable of one is read or written by another,   *)
(* so a behaviour of any is explored with the others at rest.              *)
(***************************************************************************)
EXTENDS LinkedInAuth, ComplianceController, SeededAccounts, FederationClient,
        KvLogs, BrandCache, SpendAllocator, TLC

\* Bounds of the spend allocator: cents and percentages, some below zero, some
\* above the budget or 100.
SomeFloors == {-1, 0, 2}
SomeCaps == {-1, 0, 1, 3, 5}
SomePercents == {-50, 0, 40, 100, 150}

VARIABLES
  focus, \* the service that moves
  scope  \* whom and what the calls of the compliance controller are about

Services == {"auth", "comply", "seed", "federate", "log", "brand", "spend"}

\* Bound: calls that write at once, and accounts, are those of one operator and
\* about one task; several operators or tasks have calls that write in turn.
Scope(ops, ids, accounts, overlap) ==
  [ops |-> ops, ids |-> ids, accounts |-> accounts, overlap |-> overlap]

Scopes ==
  LET one == CHOOSE t \in TaskIds : TRUE
  IN {Scope(Principals, {one}, {}, FALSE)} \cup
     UNION {{Scope({o}, TaskIds, {}, FALSE), Scope({o}, {one}, Accounts, TRUE)} :
              o \in Principals}

Writes(c) == caller[c].phase \notin {"idle", "own", "owner"}

InScope ==
  /\ \A c \in Callers : /\ caller[c].op \in scope.ops \cup {Nil}
                        /\ caller[c].id \in scope.ids \cup {Nil}
                        /\ caller[c].account \in scope.accounts \cup {Nil}
  /\ \A o \in Principals : arm[o] # Nil => o \in scope.ops /\ arm[o].id \in scope.ids
  /\ scope.overlap \/ \A c, d \in Callers : Writes(c) /\ Writes(d) => c = d

Rest1 == <<authVars, ctlVars>>
Rest2 == <<seededVars, fedVars>>
Rest3 == <<logVars, brandVars, spendVars>>

ServicesInit ==
  /\ focus \in Services
  /\ scope \in IF focus = "comply" THEN Scopes ELSE {Scope({}, {}, {}, FALSE)}
  /\ AuthInit /\ CtlInit /\ SeededInit /\ FedInit /\ LogInit /\ BrandInit
  /\ focus # "log" => log = "notes"
  /\ IF focus = "spend" THEN SpendInit
     ELSE ask = (CHOOSE q \in Questions : TRUE) /\ shares = <<>>

ServicesNext ==
  \/ /\ focus = "auth" /\ AuthNext
     /\ UNCHANGED <<focus, scope, ctlVars, Rest2, Rest3>>
  \/ /\ focus = "comply" /\ CtlNext
     /\ UNCHANGED <<focus, scope, authVars, Rest2, Rest3>>
     /\ InScope'
  \/ /\ focus = "seed" /\ SeededNext
     /\ UNCHANGED <<focus, scope, Rest1, fedVars, Rest3>>
  \/ /\ focus = "federate" /\ FedNext
     /\ UNCHANGED <<focus, scope, Rest1, seededVars, Rest3>>
  \/ /\ focus = "log" /\ LogNext
     /\ UNCHANGED <<focus, scope, Rest1, Rest2, brandVars, spendVars>>
  \/ /\ focus = "brand" /\ BrandNext
     /\ UNCHANGED <<focus, scope, Rest1, Rest2, logVars, spendVars>>
  \/ /\ focus = "spend" /\ SpendNext
     /\ UNCHANGED <<focus, scope, Rest1, Rest2, logVars, brandVars>>

ServicesSpec == ServicesInit /\ [][ServicesNext]_<<focus, scope, Rest1, Rest2, Rest3>>

\* The services at rest keep their initial values.
ServicesTypeOK ==
  CASE focus = "auth" -> AuthTypeOK
    [] focus = "comply" -> CtlTypeOK
    [] focus = "seed" -> SeededTypeOK
    [] focus = "federate" -> FedTypeOK
    [] focus = "log" -> LogTypeOK
    [] focus = "brand" -> BrandTypeOK
    [] focus = "spend" -> SpendTypeOK

\* The services take their slots from one set, and the operators of one the
\* account keys of others, so that there are few permutations to try.
Symmetry ==
  Permutations(Clients) \cup Permutations(Operators) \cup Permutations(Principals)

=============================================================================
