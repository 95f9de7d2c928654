--------------------------- MODULE SpendAllocator ---------------------------
(***************************************************************************)
(* allocateSpend: a budget in cents is split over the agents of a workflow *)
(* by one of four strategies, raised to a floor per agent, and the         *)
(* difference to the budget is given to, or taken from, the largest share. *)
(* A behaviour is one request: the question, then its answer.              *)
(***************************************************************************)
EXTENDS Integers, Sequences

CONSTANTS
  MaxBudget, \* bound: the budget, in cents
  MaxAgents, \* bound: agents
  MaxScore,  \* a score of 1; scores are whole parts of it
  Percents,  \* bound: priority_share_pct
  Floors,    \* bound: min_per_agent_usd, in cents
  Caps,      \* bound: max_usd, in cents
  Uncapped   \* no max_usd

ASSUME AllocatorAssumption ==
  /\ {MaxBudget, MaxAgents, MaxScore} \subseteq Nat \ {0}
  /\ Percents \cup Floors \cup Caps \subseteq Int
  /\ 0 \in Floors
  /\ Uncapped \notin Int

VARIABLES
  ask,   \* the request
  shares \* the cents of each agent; empty before the answer

spendVars == <<ask, shares>>

Strategies == {"equal_split", "score_weighted", "priority_first", "cap_then_split"}

Question(strategy, budget, floor, score, first, percent, cap) ==
  [strategy |-> strategy, budget |-> budget, floor |-> floor, score |-> score,
   first |-> first, percent |-> percent, cap |-> cap]

Alike(n) == [a \in 1..n |-> MaxScore]

Free(n) == [a \in 1..n |-> Uncapped]

\* Questions about n agents, b cents and a floor of f; what a strategy does not
\* look at has its default.  Scores outside 0..1, percentages outside 0..100 and
\* negative floors and caps pass.
Sized(n, b, f) ==
  {Question("equal_split", b, f, Alike(n), 0, 40, Free(n))} \cup
  {Question("score_weighted", b, f, s, 0, 40, Free(n)) :
     s \in [1..n -> -1..(MaxScore + 1)]} \cup
  {Question("priority_first", b, f, Alike(n), p, q, Free(n)) :
     p \in 0..n, q \in Percents} \cup
  {Question("cap_then_split", b, f, Alike(n), 0, 40, c) :
     c \in [1..n -> Caps \cup {Uncapped}]}

\* The handler refuses an empty list and a budget that is not positive; one of
\* less than half a cent is 0 cents.
Questions ==
  UNION {Sized(n, b, f) : n \in 1..MaxAgents, b \in 0..MaxBudget, f \in Floors}

SpendInit == ask \in Questions /\ shares = <<>>

-----------------------------------------------------------------------------

Total(seq) ==
  LET sum[n \in 0..Len(seq)] == IF n = 0 THEN 0 ELSE sum[n - 1] + seq[n]
  IN sum[Len(seq)]

SpendAgents(q) == DOMAIN q.score

Evenly(cents, n) == cents \div n

Equal(q) == [a \in SpendAgents(q) |-> Evenly(q.budget, Len(q.score))]

Clamped(q) ==
  [a \in SpendAgents(q) |-> IF q.score[a] < 0 THEN 0
                       ELSE IF q.score[a] > MaxScore THEN MaxScore ELSE q.score[a]]

\* Math.floor(amount * (part / whole)): a quotient of floats may fall just short
\* of a product that is whole (100 * 0.29 is 28.999...).
Floored(amount, part, whole) ==
  LET exact == (amount * part) \div whole
  IN IF amount # 0 /\ part \notin {0, whole} /\ exact * whole = amount * part
     THEN {exact - 1, exact} ELSE {exact}

Weighted(q) ==
  LET scores == Clamped(q)
  IN IF Total(scores) = 0 THEN {Equal(q)}
     ELSE {f \in [SpendAgents(q) -> 0..q.budget] :
             \A a \in SpendAgents(q) : f[a] \in Floored(q.budget, scores[a], Total(scores))}

PriorityFirst(q) ==
  LET n == Len(q.score)
  IN IF q.first = 0 \/ n = 1 THEN {Equal(q)}
     ELSE {[a \in SpendAgents(q) |-> IF a = q.first THEN top ELSE Evenly(q.budget - top, n - 1)] :
             top \in Floored(q.budget, q.percent, 100)}

CapThenSplit(q) ==
  LET capped == {a \in SpendAgents(q) : q.cap[a] # Uncapped}
      open == SpendAgents(q) \ capped
      rest == q.budget - Total([a \in SpendAgents(q) |-> IF a \in capped THEN q.cap[a] ELSE 0])
      n == Total([a \in SpendAgents(q) |-> IF a \in open THEN 1 ELSE 0])
  IN [a \in SpendAgents(q) |-> IF a \in capped THEN q.cap[a]
                          ELSE IF rest <= 0 THEN 0 ELSE Evenly(rest, n)]

Splits(q) ==
  CASE q.strategy = "equal_split" -> {Equal(q)}
    [] q.strategy = "score_weighted" -> Weighted(q)
    [] q.strategy = "priority_first" -> PriorityFirst(q)
    [] q.strategy = "cap_then_split" -> {CapThenSplit(q)}

AtLeast(floor, cents) == IF floor > 0 /\ cents < floor THEN floor ELSE cents

Raised(q, split) == [a \in SpendAgents(q) |-> AtLeast(q.floor, split[a])]

\* Faulty: the difference is shared out, and rounded again.
DriftShared(q, split) ==
  LET cents == Raised(q, split)
  IN [a \in SpendAgents(q) |-> cents[a] + Evenly(q.budget - Total(cents), Len(q.score))]

\* The first of the largest shares takes the difference.
Allocation(q, split) ==
  LET cents == Raised(q, split)
      largest == CHOOSE a \in SpendAgents(q) :
        /\ \A b \in SpendAgents(q) : cents[b] <= cents[a]
        /\ \A b \in SpendAgents(q) : b < a => cents[b] < cents[a]
  IN [cents EXCEPT ![largest] = @ + q.budget - Total(cents)]

Allocate ==
  /\ shares = <<>>
  /\ \E split \in Splits(ask) : shares' = Allocation(ask, split)
  /\ UNCHANGED ask

SpendNext == Allocate

SpendSpec == SpendInit /\ [][SpendNext]_spendVars

-----------------------------------------------------------------------------

SpendTypeOK == ask \in Questions /\ shares \in {<<>>} \cup [SpendAgents(ask) -> Int]

\* spendAllocator.ts 19: the shares always add up to the budget, whatever
\* floors and caps ask for.
SharesAddUp == shares # <<>> => Total(shares) = ask.budget

\* Without a floor, and unless there are caps, nobody is further from the
\* exact share than one cent per agent; whatever the percentage, and although
\* floats may lose a cent.
NearExact ==
  shares # <<>> /\ ask.floor <= 0 /\ ask.strategy # "cap_then_split" =>
    LET n == Len(ask.score)
        Near(a, num, den) == \A d \in {shares[a] * den - num} : -(n * den) < d /\ d < n * den
    IN \A a \in SpendAgents(ask) :
         CASE ask.strategy = "score_weighted" /\ Total(Clamped(ask)) # 0 ->
                Near(a, ask.budget * Clamped(ask)[a], Total(Clamped(ask)))
           [] ask.strategy = "priority_first" /\ ask.first \notin {0, a} /\ n > 1 ->
                Near(a, ask.budget * (100 - ask.percent), 100 * (n - 1))
           [] ask.strategy = "priority_first" /\ ask.first = a /\ n > 1 ->
                Near(a, ask.budget * ask.percent, 100)
           [] OTHER -> Near(a, ask.budget, n)

\* The difference falls on one agent: every other keeps the floor, and gets its
\* cap exactly, or the floor if that is more.  While somebody is uncapped not
\* even the one exceeds its cap by more than rounding.  When all are capped it
\* may by any amount, which lines 34 and 136 deny, and its share may be below
\* the floor, which line 45 denies, or below zero.
OneAgentPays ==
  shares # <<>> =>
    LET agents == SpendAgents(ask)
        capped == {a \in agents : ask.cap[a] # Uncapped}
        Due(a) == AtLeast(ask.floor, ask.cap[a])
    IN \E payer \in agents :
         /\ \A a \in agents \ {payer} : ask.floor > 0 => shares[a] >= ask.floor
         /\ \A a \in capped \ {payer} : shares[a] = Due(a)
         /\ payer \in capped /\ capped # agents =>
              shares[payer] < Due(payer) + Len(ask.score) - 1

\* What allocateSpend keeps of the sums, floors and caps it was asked for.
SpendSound == SharesAddUp /\ NearExact /\ OneAgentPays

=============================================================================
