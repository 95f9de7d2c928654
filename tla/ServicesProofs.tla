--------------------------- MODULE ServicesProofs ---------------------------
(***************************************************************************)
(* Proofs about the lists in KV and the spend allocator, for any cap, any  *)
(* ids and requests, any budget and number of agents.  Both are built on   *)
(* recursive functions, so the module begins with induction.  It ends with *)
(* the composition: MCServices implements each of the seven services.      *)
(***************************************************************************)
EXTENDS MCServices, AuthProofs, ComplianceProofs, FederationProofs, WellFoundedInduction, TLAPS

-----------------------------------------------------------------------------
(* Induction and recursion over the natural numbers.                       *)

\* Induction, as a statement about sets: a least number outside S would have
\* a predecessor in it.
LEMMA NatSetInduction ==
  ASSUME NEW S, 0 \in S, \A n \in Nat : n \in S => n + 1 \in S
  PROVE  \A n \in Nat : n \in S
<1> DEFINE R == {p \in Nat \X Nat : p[1] < p[2]}
           T == Nat \ S
<1> SUFFICES ASSUME T # {} PROVE FALSE
  OBVIOUS
<1>0. IsWellFoundedOn(R, Nat)
  BY NatLessThanWellFounded DEF OpToRel
<1>1. T \subseteq Nat
  OBVIOUS
<1>2. PICK x \in T : \A y \in T : ~ (<<y, x>> \in R)
  <2> HIDE DEF T, R
  <2> QED BY <1>0, <1>1, WFMin
<1>3. x # 0 /\ x - 1 \in Nat
  OBVIOUS
<1>4. <<x - 1, x>> \in R
  BY <1>3
<1>5. x - 1 \in S
  BY <1>2, <1>3, <1>4
<1> QED
  BY <1>3, <1>5

\* A recursion over 0..m in which each step maps values of T to values of T
\* has a solution.
LEMMA RecursionSolved ==
  ASSUME NEW T, NEW b \in T, NEW m \in Nat, NEW step \in [1..m -> [T -> T]]
  PROVE  \E g \in [0..m -> T] : g[0] = b /\ \A n \in 1..m : g[n] = step[n][g[n - 1]]
<1> DEFINE Solves(g, k) == /\ g \in [0..k -> T] /\ g[0] = b
                           /\ \A n \in 1..k : g[n] = step[n][g[n - 1]]
           S == {k \in Nat : k <= m => \E g : Solves(g, k)}
<1>1. 0 \in S
  <2>1. Solves([n \in 0..0 |-> b], 0)
    OBVIOUS
  <2> QED
    BY <2>1
<1>2. ASSUME NEW k \in Nat, k \in S
      PROVE  k + 1 \in S
  <2> SUFFICES ASSUME k + 1 <= m
               PROVE  \E g : Solves(g, k + 1)
    OBVIOUS
  <2>1. PICK g : Solves(g, k)
    BY <1>2
  <2> DEFINE h == [n \in 0..(k + 1) |-> IF n = k + 1 THEN step[n][g[k]] ELSE g[n]]
  <2>2. step[k + 1] \in [T -> T] /\ g[k] \in T
    BY <2>1
  <2>3. h \in [0..(k + 1) -> T] /\ h[0] = b
    BY <2>1, <2>2
  <2>4. ASSUME NEW n \in 1..(k + 1)
        PROVE  h[n] = step[n][h[n - 1]]
    BY <2>1
  <2> QED
    BY <2>3, <2>4
<1>3. m \in S
  <2> HIDE DEF S
  <2> QED
    BY <1>1, <1>2, NatSetInduction
<1> QED
  BY <1>3


\* The function a recursion over 0..m defines is that solution.
LEMMA RecursionUnique ==
  ASSUME NEW m \in Nat, NEW f, NEW g, f[0] = g[0],
         \A n \in 1..m : f[n - 1] = g[n - 1] => f[n] = g[n]
  PROVE  f[m] = g[m]
<1> DEFINE S == {k \in Nat : k <= m => f[k] = g[k]}
<1>1. 0 \in S
  OBVIOUS
<1>2. ASSUME NEW k \in Nat, k \in S
      PROVE  k + 1 \in S
  <2> SUFFICES ASSUME k + 1 <= m
               PROVE  f[k + 1] = g[k + 1]
    OBVIOUS
  <2>1. k + 1 \in 1..m /\ f[k] = g[k] /\ (k + 1) - 1 = k
    BY <1>2
  <2> QED
    BY <2>1
<1>3. m \in S
  <2> HIDE DEF S
  <2> QED
    BY <1>1, <1>2, NatSetInduction
<1> QED
  BY <1>3

-----------------------------------------------------------------------------
(* The operators on lists.                                                 *)

\* The left-to-right filter, step by step.
Filters(g, list, id, E) ==
  /\ g \in [0..Len(list) -> Seq(E)]
  /\ g[0] = <<>> /\ Without(list, id) = g[Len(list)]
  /\ \A n \in 1..Len(list) :
       g[n] = IF list[n] = id THEN g[n - 1] ELSE Append(g[n - 1], list[n])

LEMMA WithoutSteps ==
  ASSUME NEW E, NEW list \in Seq(E), NEW id
  PROVE  \E g : Filters(g, list, id, E)
<1> DEFINE L == Len(list)
           T == Seq(E)
           b == <<>>
           Left(w, n) == IF list[n] = id THEN w ELSE Append(w, list[n])
           step == [n \in 1..L |-> [w \in T |-> Left(w, n)]]
           Eq(h) == h = [n \in 0..L |-> IF n = 0 THEN b ELSE Left(h[n - 1], n)]
           f == CHOOSE h : Eq(h)
<1>1. L \in Nat /\ b \in T
  OBVIOUS
<1>2. \A n \in 1..L : \A w \in T : Left(w, n) \in T
  OBVIOUS
<1>8. Without(list, id) = f[L]
  BY DEF Without
<1> HIDE DEF L, T, b, Left
<1>3. step \in [1..L -> [T -> T]]
  BY <1>2
<1>4. PICK g \in [0..L -> T] : g[0] = b /\ \A n \in 1..L : g[n] = step[n][g[n - 1]]
  <2> HIDE DEF step
  <2> QED
    BY <1>1, <1>3, RecursionSolved
<1>5. ASSUME NEW n \in 1..L
      PROVE  g[n - 1] \in T /\ g[n] = Left(g[n - 1], n)
  <2>1. n - 1 \in 0..L
    BY <1>1
  <2> QED
    BY <1>4, <2>1
<1>6. Eq(f)
  <2>1. Eq(g)
    BY <1>1, <1>4, <1>5
  <2> HIDE DEF Eq
  <2> QED
    BY <2>1
<1>7. f[L] = g[L]
  <2> HIDE DEF f
  <2>1. f[0] = g[0]
    BY <1>1, <1>4, <1>6
  <2>2. ASSUME NEW n \in 1..L, f[n - 1] = g[n - 1]
        PROVE  f[n] = g[n]
    <3>1. f[n] = Left(f[n - 1], n)
      BY <1>1, <1>6
    <3> QED
      BY <1>5, <2>2, <3>1
  <2> QED
    BY <1>1, <2>1, <2>2, RecursionUnique
<1> QED
  BY <1>4, <1>5, <1>7, <1>8 DEF L, T, b, Left, Filters

Distinct(list) == \A i, j \in DOMAIN list : list[i] = list[j] => i = j

Entries(list) == {list[i] : i \in DOMAIN list}

\* Filtering leaves nothing of the id, adds nothing and repeats nothing.
LEMMA WithoutKeeps ==
  ASSUME NEW E, NEW list \in Seq(E), NEW id
  PROVE  /\ Without(list, id) \in Seq(E)
         /\ Len(Without(list, id)) <= Len(list)
         /\ Entries(Without(list, id)) \subseteq Entries(list) \ {id}
         /\ Distinct(list) => Distinct(Without(list, id))
<1> DEFINE L == Len(list)
           Good(w, n) ==
             /\ Len(w) <= n
             /\ \A i \in 1..Len(w) : w[i] # id /\ \E j \in 1..n : list[j] = w[i]
             /\ Distinct(list) => Distinct(w)
<1>0. PICK g : Filters(g, list, id, E)
  BY WithoutSteps
<1>1. /\ g \in [0..L -> Seq(E)] /\ g[0] = <<>> /\ Without(list, id) = g[L]
      /\ \A n \in 1..L : g[n] = IF list[n] = id THEN g[n - 1] ELSE Append(g[n - 1], list[n])
  BY <1>0 DEF Filters
<1>2. L \in Nat /\ DOMAIN list = 1..L /\ \A n \in 1..L : list[n] \in E
  OBVIOUS
<1> HIDE DEF L
<1> DEFINE S == {n \in Nat : n <= L => Good(g[n], n)}
<1>3. 0 \in S
  BY <1>1 DEF Distinct
<1>4. ASSUME NEW k \in Nat, k \in S
      PROVE  k + 1 \in S
  <2> SUFFICES ASSUME k + 1 <= L
               PROVE  Good(g[k + 1], k + 1)
    OBVIOUS
  <2>1. /\ k \in 0..L /\ k + 1 \in 1..L /\ (k + 1) - 1 = k
        /\ g[k] \in Seq(E) /\ g[k + 1] \in Seq(E)
    BY <1>1, <1>2
  <2>2. Good(g[k], k)
    BY <1>4, <2>1
  <2>3. CASE list[k + 1] = id
    <3>1. g[k + 1] = g[k]
      BY <1>1, <2>1, <2>3
    <3> QED
      BY <2>1, <2>2, <3>1
  <2>4. CASE list[k + 1] # id
    <3> DEFINE w == g[k]
               x == list[k + 1]
               v == g[k + 1]
    <3>1. v = Append(w, x) /\ x \in E
      BY <1>1, <1>2, <2>1, <2>4
    <3>2. /\ Len(v) = Len(w) + 1 /\ v[Len(w) + 1] = x
          /\ \A i \in 1..Len(w) : v[i] = w[i]
          /\ Len(w) \in Nat /\ DOMAIN v = 1..Len(v) /\ DOMAIN w = 1..Len(w)
      BY <2>1, <3>1
    <3>3. Len(v) <= k + 1
      BY <2>2, <3>2
    <3>4. \A i \in 1..Len(v) : v[i] # id /\ \E j \in 1..(k + 1) : list[j] = v[i]
      <4> TAKE i \in 1..Len(v)
      <4>1. CASE i = Len(w) + 1
        BY <2>1, <2>4, <3>2, <4>1
      <4>2. CASE i # Len(w) + 1
        <5>1. i \in 1..Len(w)
          BY <3>2, <4>2
        <5>2. PICK j \in 1..k : list[j] = w[i]
          BY <2>2, <5>1
        <5> QED
          BY <2>1, <2>2, <3>2, <5>1, <5>2
      <4> QED
        BY <4>1, <4>2
    <3>5. ASSUME Distinct(list)
          PROVE  Distinct(v)
      <4>1. \A i \in 1..Len(w) : w[i] # x
        <5> SUFFICES ASSUME NEW i \in 1..Len(w), w[i] = x
                     PROVE  FALSE
          OBVIOUS
        <5>1. PICK j \in 1..k : list[j] = w[i]
          BY <2>2
        <5>2. j \in DOMAIN list /\ k + 1 \in DOMAIN list /\ j # k + 1
          BY <1>2, <2>1, <5>1
        <5>3. list[j] = list[k + 1]
          BY <5>1
        <5> QED
          BY <3>5, <5>2, <5>3 DEF Distinct
      <4>2. \A i, j \in 1..Len(w) : w[i] = w[j] => i = j
        BY <2>2, <3>2, <3>5 DEF Distinct
      <4>3. \A i \in 1..Len(v) : i \in 1..Len(w) \/ i = Len(w) + 1
        BY <3>2
      <4> QED
        BY <3>2, <4>1, <4>2, <4>3 DEF Distinct
    <3> HIDE DEF w, v
    <3> QED
      BY <3>3, <3>4, <3>5 DEF v
  <2> QED
    BY <2>3, <2>4
<1>5. L \in S
  <2> HIDE DEF S
  <2> QED
    BY <1>2, <1>3, <1>4, NatSetInduction
<1>6. Good(g[L], L) /\ g[L] \in Seq(E)
  BY <1>1, <1>2, <1>5
<1>7. DOMAIN g[L] = 1..Len(g[L])
  BY <1>6
<1> QED
  BY <1>1, <1>2, <1>6, <1>7 DEF Entries, L

LEMMA IndexIsShort ==
  \A list : list \in IndexLists <=> list \in Seq(Ids) /\ Len(list) <= Cap
<1> USE LogAssumption
<1>1. ASSUME NEW list \in IndexLists
      PROVE  list \in Seq(Ids) /\ Len(list) <= Cap
  <2>1. PICK n \in 0..Cap : list \in [1..n -> Ids]
    BY DEF IndexLists
  <2> QED
    BY <2>1
<1>2. ASSUME NEW list \in Seq(Ids), Len(list) <= Cap
      PROVE  list \in IndexLists
  <2>1. Len(list) \in 0..Cap /\ list \in [1..Len(list) -> Ids]
    BY <1>2
  <2> QED
    BY <2>1 DEF IndexLists
<1> QED
  BY <1>1, <1>2

LEMMA NothingListed == <<>> \in IndexLists /\ Distinct(<<>>) /\ Entries(<<>>) = {}
<1> DEFINE e == <<>>
<1>1. e \in Seq(Ids) /\ Len(e) = 0 /\ 0 <= Cap
  BY LogAssumption
<1>2. e \in IndexLists
  <2> HIDE DEF e
  <2> QED
    BY <1>1, IndexIsShort
<1> QED
  BY <1>2 DEF Distinct, Entries

\* The same in the terms of the index.
LEMMA DroppedKeeps ==
  ASSUME NEW list \in IndexLists, NEW id
  PROVE  /\ Without(list, id) \in IndexLists
         /\ Entries(Without(list, id)) \subseteq Entries(list)
         /\ Distinct(list) => Distinct(Without(list, id))
<1>1. list \in Seq(Ids) /\ Len(list) <= Cap /\ Len(list) \in Nat
  BY IndexIsShort
<1>2. /\ Without(list, id) \in Seq(Ids)
      /\ Len(Without(list, id)) <= Len(list)
      /\ Entries(Without(list, id)) \subseteq Entries(list)
      /\ Distinct(list) => Distinct(Without(list, id))
  BY <1>1, WithoutKeeps
<1>3. Len(Without(list, id)) \in Nat
  BY <1>2
<1>4. Len(Without(list, id)) <= Cap
  BY <1>1, <1>2, <1>3, LogAssumption
<1> QED
  BY <1>2, <1>4, IndexIsShort

\* A saved entry heads the list, once, and the list stays within the cap.
LEMMA SavedKeeps ==
  ASSUME NEW list \in IndexLists, NEW id \in Ids
  PROVE  /\ Saved(list, id) \in IndexLists
         /\ Entries(Saved(list, id)) \subseteq Entries(list) \cup {id}
         /\ Distinct(list) => Distinct(Saved(list, id))
<1> DEFINE w == Without(list, id)
           v == <<id>> \o w
           n == IF Len(v) > Cap THEN Cap ELSE Len(v)
           x == Saved(list, id)
<1>1. list \in Seq(Ids)
  BY IndexIsShort
<1>2. /\ w \in Seq(Ids) /\ Entries(w) \subseteq Entries(list) \ {id}
      /\ Distinct(list) => Distinct(w)
  BY <1>1, WithoutKeeps
<1>3. x = SubSeq(v, 1, n)
  BY DEF Saved, Newest
<1> HIDE DEF w, x
<1>4. /\ v \in Seq(Ids) /\ Len(v) = Len(w) + 1 /\ Len(w) \in Nat
      /\ v[1] = id /\ \A i \in 2..Len(v) : v[i] = w[i - 1] /\ i - 1 \in 1..Len(w)
  BY <1>2
<1> HIDE DEF v
<1>5. n \in 0..Len(v) /\ n <= Cap /\ n \in Nat
  BY <1>4, LogAssumption
<1> HIDE DEF n
<1>6. x \in Seq(Ids) /\ Len(x) = n /\ \A i \in 1..n : x[i] = v[i]
  BY <1>3, <1>4, <1>5
<1>7. /\ DOMAIN x = 1..n /\ DOMAIN w = 1..Len(w)
      /\ \A i \in 1..n : i = 1 \/ i \in 2..Len(v)
  BY <1>2, <1>4, <1>5, <1>6
<1>8. x \in IndexLists
  BY <1>5, <1>6, IndexIsShort
<1>9. \A i \in 1..n : x[i] = id \/ x[i] \in Entries(w)
  BY <1>4, <1>6, <1>7 DEF Entries
<1>10. Entries(x) \subseteq Entries(list) \cup {id}
  BY <1>2, <1>7, <1>9 DEF Entries
<1>11. ASSUME Distinct(w)
       PROVE  Distinct(x)
  <2>1. \A i \in 1..Len(w) : w[i] # id
    BY <1>2, <1>7 DEF Entries
  <2>2. ASSUME NEW i \in 1..n, NEW j \in 1..n, x[i] = x[j], i # 1, j # 1
        PROVE  i = j
    <3>1. /\ i \in 2..Len(v) /\ j \in 2..Len(v)
          /\ w[i - 1] = w[j - 1] /\ i - 1 \in 1..Len(w) /\ j - 1 \in 1..Len(w)
      BY <1>4, <1>6, <1>7, <2>2
    <3>2. i - 1 = j - 1
      BY <1>7, <1>11, <3>1 DEF Distinct
    <3> QED
      BY <3>1, <3>2
  <2>3. ASSUME NEW i \in 1..n, i # 1
        PROVE  x[i] # id /\ x[1] = id
    <3>1. 1 \in 1..n /\ x[1] = v[1]
      BY <1>5, <1>6
    <3>2. i - 1 \in 1..Len(w) /\ x[i] = w[i - 1]
      BY <1>4, <1>6, <1>7, <2>3
    <3> QED
      BY <1>4, <2>1, <3>1, <3>2
  <2> QED
    BY <1>7, <2>2, <2>3 DEF Distinct
<1> QED
  BY <1>2, <1>8, <1>10, <1>11 DEF x

-----------------------------------------------------------------------------
(* The requests that rewrite a list.                                       *)

\* No list repeats an entry, neither the stored one nor the one a request is
\* about to write, and whatever is listed has or had its body; only the body
\* a request is about to put or delete may still be missing.
SaverClaim(s) ==
  ~Moving(s, "rest") =>
    /\ Distinct(saver[s].list)
    /\ Bodied => Entries(saver[s].list) \subseteq
                   bodies \cup bodiless \cup (IF Moving(s, "body") THEN {saver[s].id} ELSE {})
    /\ Bodied /\ ~Refuses /\ Moving(s, "read") => saver[s].id \in bodies \cup bodiless

SoundInv ==
  /\ Distinct(index)
  /\ Bodied => Entries(index) \subseteq bodies \cup bodiless
  /\ \A s \in Savers : SaverClaim(s)

\* The request has read the list and is about to write it.
Pending(s) == Moving(s, "write") \/ (Moving(s, "body") /\ ~saver[s].delete /\ Refuses)

\* Requests that do not overlap write what they would have written at once.
FaithfulInv ==
  alone =>
    /\ index = wanted
    /\ \A r, s \in Savers : ~Moving(r, "rest") /\ ~Moving(s, "rest") => r = s
    /\ \A s \in Savers : Pending(s) =>
         saver[s].list = IF saver[s].delete THEN Without(index, saver[s].id)
                         ELSE Saved(index, saver[s].id)

\* Request s goes on to this move with this list.
GoesOn(s, move, list) ==
  /\ saver' \in [Savers -> Saver \cup {Resting}]
  /\ \A r \in Savers \ {s} : saver'[r] = saver[r]
  /\ saver'[s].move = move /\ saver'[s].list = list
  /\ saver'[s].id = saver[s].id /\ saver'[s].delete = saver[s].delete
  /\ saver'[s] \in Saver

Ends(s) ==
  /\ saver' \in [Savers -> Saver \cup {Resting}]
  /\ \A r \in Savers \ {s} : saver'[r] = saver[r]
  /\ saver'[s].move = "rest"

LEMMA RestEnds ==
  ASSUME LogTypeOK, NEW s \in Savers, Rest(s)
  PROVE  Ends(s)
BY DEF LogTypeOK, Rest, Ends, Resting

LEMMA OnTheMove ==
  ASSUME LogTypeOK, NEW s \in Savers, ~Moving(s, "rest")
  PROVE  /\ saver[s] \in Saver /\ saver[s].id \in Ids /\ saver[s].delete \in BOOLEAN
         /\ saver[s].list \in IndexLists /\ saver[s].move \in Moves
<1>1. saver[s] \in Saver
  BY DEF LogTypeOK, Moving, Resting
<1> QED
  BY <1>1 DEF Saver

LEMMA BegunMoves ==
  ASSUME LogTypeOK, NEW s \in Savers, NEW id \in Ids, NEW delete \in BOOLEAN,
         NEW move \in Moves \ {"rest"}, Begun(s, id, delete, move)
  PROVE  /\ saver' \in [Savers -> Saver \cup {Resting}]
         /\ \A r \in Savers \ {s} : saver'[r] = saver[r]
         /\ saver'[s] = [move |-> move, id |-> id, delete |-> delete, list |-> <<>>]
         /\ alone' = (alone /\ \A r \in Savers : Moving(r, "rest"))
         /\ UNCHANGED <<log, index, bodies, bodiless, wanted>>
<1>1. <<>> \in IndexLists
  BY NothingListed
<1>2. [move |-> move, id |-> id, delete |-> delete, list |-> <<>>] \in Saver
  BY <1>1 DEF Saver
<1>3. saver' = [saver EXCEPT ![s] = [move |-> move, id |-> id, delete |-> delete, list |-> <<>>]]
  BY DEF Begun
<1> QED
  BY <1>2, <1>3 DEF Begun, LogTypeOK

LEMMA PutOrDropMoves ==
  ASSUME LogTypeOK, NEW s \in Savers, PutBody(s) \/ DropBody(s)
  PROVE  /\ Moving(s, "body")
         /\ GoesOn(s, IF ~saver[s].delete /\ Refuses THEN "write" ELSE "read", saver[s].list)
         /\ bodies' \cup bodiless' = bodies \cup bodiless \cup {saver[s].id}
         /\ bodies' \subseteq bodies \cup {saver[s].id}
         /\ bodiless' \subseteq bodiless \cup {saver[s].id}
         /\ UNCHANGED <<log, index, drawn, alone, wanted>>
<1>1. /\ Moving(s, "body") /\ ~Moving(s, "rest")
      /\ UNCHANGED <<log, index, drawn, alone, wanted>>
  BY DEF PutBody, DropBody, Moving
<1> DEFINE move == IF ~saver[s].delete /\ Refuses THEN "write" ELSE "read"
           r == [saver[s] EXCEPT !.move = move]
<1>2. saver[s] \in Saver /\ saver[s].delete \in BOOLEAN
  BY <1>1, OnTheMove
<1>3. saver' = [saver EXCEPT ![s] = r]
  <2>1. CASE PutBody(s)
    BY <2>1 DEF PutBody
  <2>2. CASE DropBody(s)
    BY <2>2 DEF DropBody
  <2> QED
    BY <2>1, <2>2
<1>4. /\ r \in Saver /\ r.move = move /\ r.list = saver[s].list
      /\ r.id = saver[s].id /\ r.delete = saver[s].delete
  BY <1>2 DEF Saver, Moves
<1> HIDE DEF r
<1>5. GoesOn(s, move, saver[s].list)
  BY <1>3, <1>4 DEF GoesOn, LogTypeOK
<1> QED
  BY <1>1, <1>5 DEF PutBody, DropBody

\* What a request makes of the list it has read, or of none.
LEMMA DigestMoves ==
  ASSUME LogTypeOK, NEW s \in Savers, Moving(s, "read"), NEW list \in IndexLists,
         Digest(s, list)
  PROVE  \/ Ends(s)
         \/ GoesOn(s, IF ~saver[s].delete /\ Refuses THEN "body" ELSE "write",
                   IF saver[s].delete THEN Without(list, saver[s].id)
                   ELSE Saved(list, saver[s].id))
<1> DEFINE new == IF saver[s].delete THEN Without(list, saver[s].id)
                  ELSE Saved(list, saver[s].id)
           move == IF ~saver[s].delete /\ Refuses THEN "body" ELSE "write"
           r == [saver[s] EXCEPT !.list = new, !.move = move]
<1>1. saver[s] \in Saver /\ saver[s].delete \in BOOLEAN /\ saver[s].id \in Ids
  BY OnTheMove DEF Moving
<1>2. new \in IndexLists
  BY <1>1, DroppedKeeps, SavedKeeps
<1>3. Rest(s) \/ saver' = [saver EXCEPT ![s] = r]
  BY <1>1 DEF Digest
<1> HIDE DEF new
<1>4. /\ r \in Saver /\ r.move = move /\ r.list = new
      /\ r.id = saver[s].id /\ r.delete = saver[s].delete
  BY <1>1, <1>2 DEF Saver, Moves
<1> HIDE DEF r
<1>5. CASE saver' = [saver EXCEPT ![s] = r]
  <2>1. GoesOn(s, move, new)
    BY <1>4, <1>5 DEF GoesOn, LogTypeOK
  <2> QED
    BY <2>1 DEF new
<1> QED
  BY <1>3, <1>5, RestEnds

LEMMA LogTypeInit == LogInit => LogTypeOK
BY NothingListed DEF LogInit, LogTypeOK

LEMMA LogTypeStep == LogTypeOK /\ [LogNext]_logVars => LogTypeOK'
<1> SUFFICES ASSUME LogTypeOK, [LogNext]_logVars
             PROVE  LogTypeOK'
  OBVIOUS
<1>1. ASSUME NEW s \in Savers, NEW id \in Ids, StartSave(s, id) \/ StartDelete(s, id)
      PROVE  LogTypeOK'
  <2>1. PICK move \in Moves \ {"rest"}, delete \in BOOLEAN : Begun(s, id, delete, move)
    BY <1>1 DEF StartSave, StartDelete, Moves
  <2>2. saver' \in [Savers -> Saver \cup {Resting}]
    BY <2>1, BegunMoves
  <2> QED
    BY <1>1, <2>1, <2>2 DEF StartSave, StartDelete, Begun, LogTypeOK
<1>2. ASSUME NEW s \in Savers, PutBody(s) \/ DropBody(s)
      PROVE  LogTypeOK'
  <2>1. saver' \in [Savers -> Saver \cup {Resting}]
    BY <1>2, PutOrDropMoves DEF GoesOn
  <2>2. saver[s].id \in Ids
    BY <1>2, OnTheMove DEF PutBody, DropBody, Moving
  <2> QED
    BY <1>2, <2>1, <2>2 DEF PutBody, DropBody, LogTypeOK
<1>3. ASSUME NEW s \in Savers, ReadList(s) \/ ReadFails(s)
      PROVE  LogTypeOK'
  <2>1. PICK list \in IndexLists : Digest(s, list)
    BY <1>3, NothingListed DEF ReadList, ReadFails, LogTypeOK
  <2>2. saver' \in [Savers -> Saver \cup {Resting}]
    BY <1>3, <2>1, DigestMoves DEF ReadList, ReadFails, Ends, GoesOn
  <2> QED
    BY <1>3, <2>2 DEF ReadList, ReadFails, LogTypeOK
<1>4. ASSUME NEW s \in Savers, WriteList(s)
      PROVE  LogTypeOK'
  <2>1. saver[s].list \in IndexLists /\ saver[s].id \in Ids /\ Rest(s)
    BY <1>4, OnTheMove DEF WriteList, Moving
  <2>2. wanted' \in IndexLists
    BY <1>4, <2>1, DroppedKeeps, SavedKeeps DEF WriteList, LogTypeOK, Saved
  <2>3. saver' \in [Savers -> Saver \cup {Resting}]
    BY <2>1, RestEnds DEF Ends
  <2> QED
    BY <1>4, <2>1, <2>2, <2>3 DEF WriteList, LogTypeOK
<1>5. ASSUME NEW s \in Savers, SaveDies(s)
      PROVE  LogTypeOK'
  <2>1. saver' \in [Savers -> Saver \cup {Resting}]
    BY <1>5, RestEnds DEF SaveDies, Ends
  <2> QED
    BY <1>5, <2>1 DEF SaveDies, LogTypeOK
<1>6. CASE ClearList \/ LapseList
  BY <1>6, NothingListed DEF ClearList, LapseList, LogTypeOK
<1>7. ASSUME NEW id \in Ids, LapseBody(id)
      PROVE  LogTypeOK'
  BY <1>7 DEF LapseBody, LogTypeOK
<1>8. CASE UNCHANGED logVars
  BY <1>8 DEF logVars, LogTypeOK
<1> QED
  BY <1>1, <1>2, <1>3, <1>4, <1>5, <1>6, <1>7, <1>8 DEF LogNext

LEMMA SoundInit == LogInit => SoundInv
BY NothingListed DEF LogInit, SoundInv, SaverClaim, Moving, Resting

\* The claims of the requests that a step does not move.
LEMMA ClaimsStay ==
  ASSUME SoundInv, NEW s \in Savers, saver'[s] = saver[s], log' = log,
         bodies \cup bodiless \subseteq bodies' \cup bodiless'
  PROVE  SaverClaim(s)'
<1>1. SaverClaim(s)
  BY DEF SoundInv
<1> QED
  BY <1>1 DEF SaverClaim, Moving, Bodied, Refuses

LEMMA SoundStep == LogTypeOK /\ SoundInv /\ [LogNext]_logVars => SoundInv'
<1> SUFFICES ASSUME LogTypeOK, SoundInv, [LogNext]_logVars
             PROVE  SoundInv'
  OBVIOUS
<1>1. ASSUME NEW s \in Savers, NEW id \in Ids, StartSave(s, id) \/ StartDelete(s, id)
      PROVE  SoundInv'
  <2>1. PICK move \in Moves \ {"rest"}, delete \in BOOLEAN :
          Begun(s, id, delete, move) /\ (move = "read" => ~Bodied \/ Refuses)
    <3>1. CASE StartSave(s, id)
      <4> DEFINE m == IF Bodied /\ ~Refuses THEN "body" ELSE "read"
      <4>1. Begun(s, id, FALSE, m) /\ m \in Moves \ {"rest"}
        BY <3>1 DEF StartSave, Moves
      <4>2. m = "read" => ~Bodied \/ Refuses
        OBVIOUS
      <4> HIDE DEF m
      <4> QED
        BY <4>1, <4>2
    <3>2. CASE StartDelete(s, id)
      <4> DEFINE m == IF Bodied THEN "body" ELSE "read"
      <4>1. Begun(s, id, TRUE, m) /\ m \in Moves \ {"rest"}
        BY <3>2 DEF StartDelete, Moves
      <4>2. m = "read" => ~Bodied \/ Refuses
        OBVIOUS
      <4> HIDE DEF m
      <4> QED
        BY <4>1, <4>2
    <3> QED
      BY <1>1, <3>1, <3>2
  <2>2. /\ \A r \in Savers \ {s} : saver'[r] = saver[r]
        /\ saver'[s] = [move |-> move, id |-> id, delete |-> delete, list |-> <<>>]
        /\ UNCHANGED <<log, index, bodies, bodiless>>
    BY <2>1, BegunMoves
  <2>3. SaverClaim(s)'
    BY <2>1, <2>2, NothingListed DEF SaverClaim, Moving, Bodied, Refuses
  <2> QED
    BY <2>2, <2>3, ClaimsStay DEF SoundInv, Bodied
<1>2. ASSUME NEW s \in Savers, PutBody(s) \/ DropBody(s)
      PROVE  SoundInv'
  <2>1. /\ Moving(s, "body") /\ SaverClaim(s)
        /\ \A r \in Savers \ {s} : saver'[r] = saver[r]
        /\ saver'[s].move \in {"write", "read"} /\ saver'[s].list = saver[s].list
        /\ saver'[s].id = saver[s].id
        /\ bodies' \cup bodiless' = bodies \cup bodiless \cup {saver[s].id}
        /\ UNCHANGED <<log, index>>
    BY <1>2, PutOrDropMoves DEF GoesOn, SoundInv
  <2>2. SaverClaim(s)'
    BY <2>1 DEF SaverClaim, Moving, Bodied, Refuses
  <2> QED
    BY <2>1, <2>2, ClaimsStay DEF SoundInv, Bodied
<1>3. ASSUME NEW s \in Savers, ReadList(s) \/ ReadFails(s)
      PROVE  SoundInv'
  <2>1. PICK list \in IndexLists :
          /\ Digest(s, list) /\ Distinct(list)
          /\ Bodied => Entries(list) \subseteq bodies \cup bodiless
    BY <1>3, NothingListed DEF ReadList, ReadFails, LogTypeOK, SoundInv
  <2>2. /\ Moving(s, "read") /\ SaverClaim(s)
        /\ UNCHANGED <<log, index, bodies, bodiless>>
    BY <1>3 DEF ReadList, ReadFails, SoundInv
  <2>3. CASE Ends(s)
    BY <2>2, <2>3, ClaimsStay DEF SoundInv, Ends, SaverClaim, Moving, Bodied
  <2>4. CASE ~Ends(s)
    <3> DEFINE id == saver[s].id
               new == IF saver[s].delete THEN Without(list, id) ELSE Saved(list, id)
    <3>1. GoesOn(s, IF ~saver[s].delete /\ Refuses THEN "body" ELSE "write", new)
      BY <2>1, <2>2, <2>4, DigestMoves
    <3>2. id \in Ids /\ saver[s].delete \in BOOLEAN
      BY <2>2, OnTheMove DEF Moving
    <3>3. /\ Distinct(new)
          /\ saver[s].delete => Entries(new) \subseteq Entries(list)
          /\ Entries(new) \subseteq Entries(list) \cup {id}
      BY <2>1, <3>2, DroppedKeeps, SavedKeeps
    <3> HIDE DEF new
    <3>4. /\ saver'[s].list = new /\ saver'[s].id = id
          /\ saver'[s].move = IF ~saver[s].delete /\ Refuses THEN "body" ELSE "write"
      BY <3>1 DEF GoesOn
    <3>5. SaverClaim(s)'
      <4>1. CASE ~saver[s].delete /\ Refuses
        BY <2>1, <2>2, <3>3, <3>4, <4>1 DEF SaverClaim, Moving, Bodied, Refuses
      <4>2. CASE saver[s].delete
        BY <2>1, <2>2, <3>3, <3>4, <4>2 DEF SaverClaim, Moving, Bodied, Refuses
      <4>3. CASE ~saver[s].delete /\ ~Refuses
        BY <2>1, <2>2, <3>3, <3>4, <4>3 DEF SaverClaim, Moving, Bodied, Refuses
      <4> QED
        BY <3>2, <4>1, <4>2, <4>3
    <3> QED
      BY <2>2, <3>1, <3>5, ClaimsStay DEF SoundInv, GoesOn, Bodied
  <2> QED
    BY <2>3, <2>4
<1>4. ASSUME NEW s \in Savers, WriteList(s)
      PROVE  SoundInv'
  <2>1. /\ Moving(s, "write") /\ SaverClaim(s) /\ index' = saver[s].list
        /\ Ends(s) /\ UNCHANGED <<log, bodies, bodiless>>
    BY <1>4, RestEnds DEF WriteList, SoundInv
  <2>2. Distinct(index)' /\ (Bodied => Entries(index) \subseteq bodies \cup bodiless)'
    BY <2>1 DEF SaverClaim, Moving, Distinct, Entries, Bodied
  <2> QED
    BY <2>1, <2>2, ClaimsStay DEF SoundInv, Ends, SaverClaim, Moving
<1>5. ASSUME NEW s \in Savers, SaveDies(s)
      PROVE  SoundInv'
  <2>1. Ends(s) /\ UNCHANGED <<log, index, bodies, bodiless>>
    BY <1>5, RestEnds DEF SaveDies
  <2> QED
    BY <2>1, ClaimsStay DEF SoundInv, Ends, SaverClaim, Moving, Bodied
<1>6. CASE ClearList \/ LapseList
  <2>1. index' = <<>> /\ UNCHANGED <<log, saver, bodies, bodiless>>
    BY <1>6 DEF ClearList, LapseList
  <2> QED
    BY <2>1, ClaimsStay, NothingListed DEF SoundInv
<1>7. ASSUME NEW id \in Ids, LapseBody(id)
      PROVE  SoundInv'
  <2>1. bodies' \cup bodiless' = bodies \cup bodiless /\ UNCHANGED <<log, saver, index>>
    BY <1>7 DEF LapseBody
  <2> QED
    BY <2>1, ClaimsStay DEF SoundInv, Bodied
<1>8. CASE UNCHANGED logVars
  BY <1>8, ClaimsStay DEF logVars, SoundInv, Bodied
<1> QED
  BY <1>1, <1>2, <1>3, <1>4, <1>5, <1>6, <1>7, <1>8 DEF LogNext

\* Whatever overlaps or fails, no entry is listed twice, and an entry without
\* a body is one whose body was deleted or has lapsed.
THEOREM ListsStaySound == LogSpec => []ListSound
<1>1. SoundInv => ListSound
  BY DEF SoundInv, ListSound, ListedOnce, ListedHaveBodies, Distinct, Entries
<1> QED
  BY <1>1, LogTypeInit, LogTypeStep, SoundInit, SoundStep, PTL DEF LogSpec

LEMMA FaithfulInit == LogInit => FaithfulInv
BY DEF LogInit, FaithfulInv, Pending, Moving, Resting

\* The only request there is goes on.
LEMMA GoesOnFaithful ==
  ASSUME FaithfulInv, alone, NEW s \in Savers, ~Moving(s, "rest"),
         NEW move \in Moves, NEW list, GoesOn(s, move, list),
         UNCHANGED <<log, index, wanted>>,
         move = "write" \/ (move = "body" /\ Refuses /\ ~saver[s].delete) =>
           list = IF saver[s].delete THEN Without(index, saver[s].id)
                  ELSE Saved(index, saver[s].id)
  PROVE  FaithfulInv'
<1>1. \A r \in Savers \ {s} : Moving(r, "rest") /\ Moving(r, "rest")'
  BY DEF FaithfulInv, GoesOn, Moving
<1>2. index' = wanted'
  BY DEF FaithfulInv
<1>3. \A r, t \in Savers : ~Moving(r, "rest")' /\ ~Moving(t, "rest")' => r = t
  BY <1>1
<1>4. ASSUME NEW r \in Savers, Pending(r)'
      PROVE  saver'[r].list = IF saver'[r].delete THEN Without(index', saver'[r].id)
                              ELSE Saved(index', saver'[r].id)
  <2>1. r = s
    BY <1>1, <1>4 DEF Pending, Moving
  <2> QED
    BY <1>4, <2>1 DEF GoesOn, Pending, Moving, Refuses
<1> QED
  BY <1>2, <1>3, <1>4 DEF FaithfulInv

LEMMA FaithfulStep == LogTypeOK /\ FaithfulInv /\ [LogNext]_logVars => FaithfulInv'
<1> SUFFICES ASSUME LogTypeOK, FaithfulInv, [LogNext]_logVars, alone'
             PROVE  FaithfulInv'
  BY DEF FaithfulInv
<1>1. ASSUME NEW s \in Savers, NEW id \in Ids, StartSave(s, id) \/ StartDelete(s, id)
      PROVE  FaithfulInv'
  <2>1. PICK move \in {"body", "read"}, delete \in BOOLEAN :
          Begun(s, id, delete, move) /\ (move = "body" => delete \/ ~Refuses)
    <3>1. CASE StartSave(s, id)
      <4> DEFINE m == IF Bodied /\ ~Refuses THEN "body" ELSE "read"
      <4>1. Begun(s, id, FALSE, m)
        BY <3>1 DEF StartSave
      <4>2. m \in {"body", "read"} /\ (m = "body" => ~Refuses)
        OBVIOUS
      <4> HIDE DEF m
      <4> QED
        BY <4>1, <4>2
    <3>2. CASE StartDelete(s, id)
      <4> DEFINE m == IF Bodied THEN "body" ELSE "read"
      <4>1. Begun(s, id, TRUE, m)
        BY <3>2 DEF StartDelete
      <4>2. m \in {"body", "read"}
        OBVIOUS
      <4> HIDE DEF m
      <4> QED
        BY <4>1, <4>2
    <3> QED
      BY <1>1, <3>1, <3>2
  <2>2. /\ \A r \in Savers \ {s} : saver'[r] = saver[r]
        /\ saver'[s] = [move |-> move, id |-> id, delete |-> delete, list |-> <<>>]
        /\ alone' = (alone /\ \A r \in Savers : Moving(r, "rest"))
        /\ UNCHANGED <<log, index, wanted>>
    <3>1. move \in Moves \ {"rest"}
      BY DEF Moves
    <3> QED
      BY <2>1, <3>1, BegunMoves
  <2>3. /\ alone /\ index = wanted
        /\ \A r \in Savers \ {s} : Moving(r, "rest")'
    BY <2>2 DEF FaithfulInv, Moving
  <2>4. \A r \in Savers : ~Pending(r)'
    BY <2>1, <2>2, <2>3 DEF Pending, Moving, Refuses
  <2> QED
    BY <2>2, <2>3, <2>4 DEF FaithfulInv
<1>2. ASSUME NEW s \in Savers, PutBody(s) \/ DropBody(s)
      PROVE  FaithfulInv'
  <2> DEFINE move == IF ~saver[s].delete /\ Refuses THEN "write" ELSE "read"
  <2>1. /\ Moving(s, "body") /\ ~Moving(s, "rest") /\ alone
        /\ GoesOn(s, move, saver[s].list)
        /\ UNCHANGED <<log, index, wanted>>
    BY <1>2, PutOrDropMoves DEF Moving
  <2>2. move \in Moves
    BY DEF Moves
  <2>3. move = "write" => Pending(s) /\ ~saver[s].delete
    BY <2>1 DEF Pending
  <2>4. move = "write" => saver[s].list = IF saver[s].delete THEN Without(index, saver[s].id)
                                          ELSE Saved(index, saver[s].id)
    BY <2>1, <2>3 DEF FaithfulInv
  <2>5. move # "body"
    OBVIOUS
  <2> HIDE DEF move
  <2> QED
    BY <2>1, <2>2, <2>4, <2>5, GoesOnFaithful
<1>3. ASSUME NEW s \in Savers, ReadList(s)
      PROVE  FaithfulInv'
  <2> DEFINE move == IF ~saver[s].delete /\ Refuses THEN "body" ELSE "write"
             new == IF saver[s].delete THEN Without(index, saver[s].id)
                    ELSE Saved(index, saver[s].id)
  <2>1. /\ Moving(s, "read") /\ ~Moving(s, "rest") /\ alone
        /\ Digest(s, index) /\ index \in IndexLists
        /\ UNCHANGED <<log, index, wanted>>
    BY <1>3 DEF ReadList, Moving, LogTypeOK
  <2>2. CASE Ends(s)
    <3>1. \A r \in Savers : Moving(r, "rest")'
      BY <2>1, <2>2 DEF Ends, FaithfulInv, Moving
    <3>2. index' = wanted'
      BY <2>1 DEF FaithfulInv
    <3> QED
      BY <3>1, <3>2 DEF FaithfulInv, Pending, Moving
  <2>3. CASE ~Ends(s)
    <3>1. GoesOn(s, move, new)
      BY <2>1, <2>3, DigestMoves
    <3>2. move \in Moves
      BY DEF Moves
    <3> HIDE DEF move
    <3> QED
      BY <2>1, <3>1, <3>2, GoesOnFaithful
  <2> QED
    BY <2>2, <2>3
<1>4. ASSUME NEW s \in Savers, WriteList(s)
      PROVE  FaithfulInv'
  <2>1. /\ Moving(s, "write") /\ ~Moving(s, "rest") /\ Pending(s) /\ alone
        /\ Ends(s) /\ index' = saver[s].list
    BY <1>4, RestEnds DEF WriteList, Pending, Moving
  <2>2. \A r \in Savers : Moving(r, "rest")'
    BY <2>1 DEF Ends, FaithfulInv, Moving
  <2>3. index = wanted
    BY <2>1 DEF FaithfulInv
  <2>4. saver[s].list = IF saver[s].delete THEN Without(index, saver[s].id)
                        ELSE Saved(index, saver[s].id)
    BY <2>1 DEF FaithfulInv
  <2>5. wanted' = IF saver[s].delete THEN Without(wanted, saver[s].id)
                  ELSE Saved(wanted, saver[s].id)
    BY <1>4 DEF WriteList, Saved
  <2>6. index' = wanted'
    BY <2>1, <2>3, <2>4, <2>5
  <2> QED
    BY <2>2, <2>6 DEF FaithfulInv, Pending, Moving
<1>5. CASE \E s \in Savers : ReadFails(s) \/ SaveDies(s)
  BY <1>5 DEF ReadFails, SaveDies
<1>6. CASE ClearList \/ LapseList
  <2>1. (\A s \in Savers : Moving(s, "rest")) /\ UNCHANGED saver /\ index' = wanted'
    BY <1>6 DEF ClearList, LapseList
  <2>2. \A s \in Savers : Moving(s, "rest")'
    BY <2>1 DEF Moving
  <2> QED
    BY <2>1, <2>2 DEF FaithfulInv, Pending, Moving
<1>7. ASSUME NEW id \in Ids, LapseBody(id)
      PROVE  FaithfulInv'
  BY <1>7 DEF LapseBody, FaithfulInv, Pending, Moving, Refuses
<1>8. CASE UNCHANGED logVars
  BY <1>8 DEF logVars, FaithfulInv, Pending, Moving, Refuses
<1> QED
  BY <1>1, <1>2, <1>3, <1>4, <1>5, <1>6, <1>7, <1>8 DEF LogNext

\* Requests that neither overlap nor fail leave the list that operations
\* taking effect at once would leave, although each reads, changes and writes.
THEOREM ListsStayFaithful == LogSpec => []ListFaithful
<1>1. FaithfulInv => ListFaithful
  BY DEF FaithfulInv, ListFaithful
<1> QED
  BY <1>1, LogTypeInit, LogTypeStep, FaithfulInit, FaithfulStep, PTL DEF LogSpec

-----------------------------------------------------------------------------
(* Sums of shares.                                                         *)

LEMMA FloorDivision ==
  ASSUME NEW x \in Int, NEW y \in Nat \ {0}
  PROVE  /\ x \div y \in Int
         /\ y * (x \div y) <= x /\ x <= y * (x \div y) + (y - 1)
OBVIOUS

\* The left-to-right sum, step by step.
Sums(g, f, n) ==
  /\ g \in [0..n -> Int] /\ g[0] = 0 /\ Total(f) = g[n]
  /\ \A k \in 1..n : g[k] = g[k - 1] + f[k]

LEMMA TotalSteps ==
  ASSUME NEW n, NEW f, n \in Nat, f \in [1..n -> Int]
  PROVE  \E g : Sums(g, f, n)
<1> DEFINE step == [k \in 1..n |-> [x \in Int |-> x + f[k]]]
           Eq(h) == h = [k \in 0..n |-> IF k = 0 THEN 0 ELSE h[k - 1] + f[k]]
           sum == CHOOSE h : Eq(h)
<1>1. Len(f) = n
  OBVIOUS
<1>2. Total(f) = sum[n]
  BY <1>1 DEF Total
<1>3. step \in [1..n -> [Int -> Int]]
  OBVIOUS
<1>4. PICK g \in [0..n -> Int] : g[0] = 0 /\ \A k \in 1..n : g[k] = step[k][g[k - 1]]
  <2> DEFINE T == Int
             b == 0
  <2>1. step \in [1..n -> [T -> T]] /\ b \in T
    BY <1>3
  <2> HIDE DEF step, T, b
  <2>2. \E g \in [0..n -> T] : g[0] = b /\ \A k \in 1..n : g[k] = step[k][g[k - 1]]
    BY ONLY <2>1, n \in Nat, RecursionSolved
  <2> QED
    BY <2>2 DEF T, b
<1>5. ASSUME NEW k \in 1..n
      PROVE  k - 1 \in 0..n /\ g[k - 1] \in Int /\ g[k] = g[k - 1] + f[k]
  <2>1. k - 1 \in 0..n /\ g[k - 1] \in Int
    OBVIOUS
  <2>2. g[k] = step[k][g[k - 1]]
    BY <1>4
  <2> QED
    BY <2>1, <2>2
<1>6. Eq(sum)
  <2>1. Eq(g)
    BY <1>4, <1>5
  <2> HIDE DEF Eq
  <2> QED
    BY <2>1
<1>7. sum[n] = g[n]
  <2> HIDE DEF sum
  <2>1. sum[0] = g[0]
    BY <1>4, <1>6
  <2>2. ASSUME NEW k \in 1..n, sum[k - 1] = g[k - 1]
        PROVE  sum[k] = g[k]
    <3>1. sum[k] = sum[k - 1] + f[k]
      BY <1>6
    <3> QED
      BY <1>5, <2>2, <3>1
  <2> QED
    BY <2>1, <2>2, RecursionUnique
<1> QED
  BY <1>2, <1>4, <1>5, <1>7 DEF Sums

\* A relation between two sums that each step keeps.
LEMMA TotalsRelate ==
  ASSUME NEW n \in Nat, NEW f \in [1..n -> Int], NEW h \in [1..n -> Int],
         NEW R, <<0, 0, 0>> \in R,
         \A k \in 1..n, x, y \in Int : <<k - 1, x, y>> \in R => <<k, x + f[k], y + h[k]>> \in R
  PROVE  Total(f) \in Int /\ Total(h) \in Int /\ <<n, Total(f), Total(h)>> \in R
<1>1. PICK u : Sums(u, f, n)
  BY TotalSteps
<1>2. PICK v : Sums(v, h, n)
  BY TotalSteps
<1> DEFINE S == {k \in Nat : k <= n => <<k, u[k], v[k]>> \in R}
<1>3. 0 \in S
  BY <1>1, <1>2 DEF Sums
<1>4. ASSUME NEW k \in Nat, k \in S
      PROVE  k + 1 \in S
  <2> SUFFICES ASSUME k + 1 <= n
               PROVE  <<k + 1, u[k + 1], v[k + 1]>> \in R
    OBVIOUS
  <2>1. k + 1 \in 1..n /\ (k + 1) - 1 = k /\ k \in 0..n
    OBVIOUS
  <2>2. u[k] \in Int /\ v[k] \in Int /\ <<k, u[k], v[k]>> \in R
    BY <1>1, <1>2, <1>4, <2>1 DEF Sums
  <2>3. u[k + 1] = u[k] + f[k + 1] /\ v[k + 1] = v[k] + h[k + 1]
    BY <1>1, <1>2, <2>1 DEF Sums
  <2>4. <<k + 1, u[k] + f[k + 1], v[k] + h[k + 1]>> \in R
    BY <2>1, <2>2
  <2> QED
    BY <2>3, <2>4
<1>5. n \in S
  <2> HIDE DEF S
  <2> QED
    BY <1>3, <1>4, NatSetInduction
<1> QED
  BY <1>1, <1>2, <1>5 DEF Sums

LEMMA TotalType ==
  ASSUME NEW n \in Nat, NEW f \in [1..n -> Int]
  PROVE  Total(f) \in Int
<1>1. PICK g : Sums(g, f, n)
  BY TotalSteps
<1> QED
  BY <1>1 DEF Sums

LEMMA TotalOfEqual ==
  ASSUME NEW n \in Nat, NEW c \in Int, NEW f \in [1..n -> Int], \A a \in 1..n : f[a] = c
  PROVE  Total(f) = n * c
<1> DEFINE R == {t \in Nat \X Int \X Int : t[2] = t[1] * c}
<1>1. <<0, 0, 0>> \in R
  OBVIOUS
<1>2. ASSUME NEW k \in 1..n, NEW x \in Int, NEW y \in Int, <<k - 1, x, y>> \in R
      PROVE  <<k, x + f[k], y + f[k]>> \in R
  <2>1. x = (k - 1) * c /\ f[k] = c
    BY <1>2
  <2> QED
    BY <2>1
<1>3. <<n, Total(f), Total(f)>> \in R
  <2> HIDE DEF R
  <2> QED
    BY <1>1, <1>2, TotalsRelate
<1> QED
  BY <1>3

LEMMA TotalScaled ==
  ASSUME NEW n \in Nat, NEW c \in Int, NEW f \in [1..n -> Int], NEW h \in [1..n -> Int],
         \A a \in 1..n : h[a] = c * f[a]
  PROVE  Total(h) = c * Total(f)
<1> DEFINE R == {t \in Nat \X Int \X Int : t[3] = c * t[2]}
<1>1. <<0, 0, 0>> \in R
  OBVIOUS
<1>2. ASSUME NEW k \in 1..n, NEW x \in Int, NEW y \in Int, <<k - 1, x, y>> \in R
      PROVE  <<k, x + f[k], y + h[k]>> \in R
  <2>1. y = c * x /\ h[k] = c * f[k] /\ f[k] \in Int
    BY <1>2
  <2> QED
    BY <2>1
<1>3. <<n, Total(f), Total(h)>> \in R
  <2> HIDE DEF R
  <2> QED
    BY <1>1, <1>2, TotalsRelate
<1> QED
  BY <1>3

\* Each share rounded down loses at most one cent.
LEMMA TotalRounded ==
  ASSUME NEW n \in Nat, NEW t \in Nat \ {0}, NEW f \in [1..n -> Int], NEW h \in [1..n -> Int],
         \A a \in 1..n : t * f[a] <= h[a] /\ h[a] <= t * f[a] + t
  PROVE  t * Total(f) <= Total(h) /\ Total(h) <= t * Total(f) + n * t
<1> DEFINE R == {p \in Nat \X Int \X Int :
                   t * p[2] <= p[3] /\ p[3] <= t * p[2] + p[1] * t}
<1>1. <<0, 0, 0>> \in R
  OBVIOUS
<1>2. ASSUME NEW k \in 1..n, NEW x \in Int, NEW y \in Int, <<k - 1, x, y>> \in R
      PROVE  <<k, x + f[k], y + h[k]>> \in R
  <2>1. /\ t * x <= y /\ y <= t * x + (k - 1) * t
        /\ t * f[k] <= h[k] /\ h[k] <= t * f[k] + t
        /\ f[k] \in Int /\ h[k] \in Int
    BY <1>2
  <2>2. /\ t * (x + f[k]) = t * x + t * f[k]
        /\ k * t = (k - 1) * t + t
    BY <2>1
  <2> DEFINE x2 == x + f[k]
             y2 == y + h[k]
  <2>3. t * x2 <= y2 /\ y2 <= t * x2 + k * t
    BY <2>1, <2>2
  <2>4. k \in Nat /\ x2 \in Int /\ y2 \in Int
    BY <2>1
  <2> HIDE DEF x2, y2
  <2>5. <<k, x2, y2>> \in R
    BY <2>3, <2>4
  <2> QED
    BY <2>5 DEF x2, y2
<1>3. <<n, Total(f), Total(h)>> \in R
  <2> HIDE DEF R
  <2> QED
    BY <1>1, <1>2, TotalsRelate
<1> QED
  BY <1>3

LEMMA TotalGrows ==
  ASSUME NEW n \in Nat, NEW f \in [1..n -> Int], NEW h \in [1..n -> Int],
         \A a \in 1..n : f[a] <= h[a]
  PROVE  Total(f) <= Total(h)
<1> DEFINE R == {t \in Nat \X Int \X Int : t[2] <= t[3]}
<1>1. <<0, 0, 0>> \in R
  OBVIOUS
<1>2. ASSUME NEW k \in 1..n, NEW x \in Int, NEW y \in Int, <<k - 1, x, y>> \in R
      PROVE  <<k, x + f[k], y + h[k]>> \in R
  <2>1. x <= y /\ f[k] <= h[k] /\ f[k] \in Int /\ h[k] \in Int
    BY <1>2
  <2> QED
    BY <2>1
<1>3. <<n, Total(f), Total(h)>> \in R
  <2> HIDE DEF R
  <2> QED
    BY <1>1, <1>2, TotalsRelate
<1> QED
  BY <1>3

LEMMA TotalOfSum ==
  ASSUME NEW n \in Nat, NEW c \in Int, NEW f \in [1..n -> Int], NEW g \in [1..n -> Int],
         NEW h \in [1..n -> Int], \A a \in 1..n : h[a] = f[a] + c * g[a]
  PROVE  Total(h) = Total(f) + c * Total(g)
<1>1. PICK u : Sums(u, g, n)
  BY TotalSteps
<1> DEFINE R == {t \in (0..n) \X Int \X Int : t[3] = t[2] + c * u[t[1]]}
<1>2. <<0, 0, 0>> \in R
  BY <1>1 DEF Sums
<1>3. ASSUME NEW k \in 1..n, NEW x \in Int, NEW y \in Int, <<k - 1, x, y>> \in R
      PROVE  <<k, x + f[k], y + h[k]>> \in R
  <2>1. y = x + c * u[k - 1] /\ h[k] = f[k] + c * g[k]
    BY <1>3
  <2>2. u[k - 1] \in Int /\ u[k] = u[k - 1] + g[k] /\ f[k] \in Int /\ g[k] \in Int
    BY <1>1 DEF Sums
  <2>3. c * u[k] = c * u[k - 1] + c * g[k]
    BY <2>2
  <2> DEFINE p == c * u[k - 1]
             r == c * g[k]
             w == c * u[k]
             x2 == x + f[k]
             y2 == y + h[k]
  <2>4. p \in Int /\ r \in Int
    BY <2>2
  <2>5. y = x + p /\ h[k] = f[k] + r /\ w = p + r
    BY <2>1, <2>3
  <2> HIDE DEF p, r, w
  <2>6. x2 \in Int /\ y2 \in Int /\ y2 = x2 + w
    <3> DEFINE fk == f[k]
               hk == h[k]
    <3>1. /\ fk \in Int /\ hk \in Int /\ x \in Int /\ y \in Int /\ p \in Int /\ r \in Int
          /\ y = x + p /\ hk = fk + r /\ w = p + r
      BY <2>2, <2>4, <2>5
    <3>2. x2 = x + fk /\ y2 = y + hk
      BY DEF x2, y2
    <3> HIDE DEF fk, hk, x2, y2
    <3> QED
      BY ONLY <3>1, <3>2
  <2> HIDE DEF x2, y2
  <2>7. <<k, x2, y2>> \in R
    BY <2>6 DEF w
  <2> QED
    BY <2>7 DEF x2, y2
<1>4. <<n, Total(f), Total(h)>> \in R
  <2> HIDE DEF R
  <2> QED
    BY <1>2, <1>3, TotalsRelate
<1> QED
  BY <1>1, <1>4 DEF Sums

LEMMA TotalExcept ==
  ASSUME NEW n \in Nat, NEW f \in [1..n -> Int], NEW a \in 1..n, NEW v \in Int
  PROVE  Total([f EXCEPT ![a] = v]) = Total(f) + (v - f[a])
<1> DEFINE h == [f EXCEPT ![a] = v]
           R == {t \in Nat \X Int \X Int : t[3] = t[2] + IF t[1] >= a THEN v - f[a] ELSE 0}
<1>1. <<0, 0, 0>> \in R
  OBVIOUS
<1>2. ASSUME NEW k \in 1..n, NEW x \in Int, NEW y \in Int, <<k - 1, x, y>> \in R
      PROVE  <<k, x + f[k], y + h[k]>> \in R
  <2>1. y = x + IF k - 1 >= a THEN v - f[a] ELSE 0
    BY <1>2
  <2>2. f[k] \in Int /\ f[a] \in Int /\ h[k] = IF k = a THEN v ELSE f[k]
    OBVIOUS
  <2> DEFINE x2 == x + f[k]
             y2 == y + h[k]
  <2>3. x2 \in Int /\ y2 \in Int /\ y2 = x2 + IF k >= a THEN v - f[a] ELSE 0
    BY <2>1, <2>2
  <2> HIDE DEF x2, y2
  <2>4. <<k, x2, y2>> \in R
    BY <2>3
  <2> QED
    BY <2>4 DEF x2, y2
<1>3. h \in [1..n -> Int]
  OBVIOUS
<1>4. <<n, Total(f), Total(h)>> \in R
  <2> HIDE DEF R, h
  <2> QED
    BY <1>1, <1>2, <1>3, TotalsRelate
<1>5. Total(h) = Total(f) + (v - f[a])
  <2> HIDE DEF h
  <2> QED
    BY <1>4
<1> QED
  BY <1>5

LEMMA TotalOfNaturals ==
  ASSUME NEW n \in Nat, NEW f \in [1..n -> Nat]
  PROVE  Total(f) \in Nat /\ \A a \in 1..n : f[a] <= Total(f)
<1>0. f \in [1..n -> Int]
  OBVIOUS
<1>1. ASSUME NEW a \in 0..n
      PROVE  Total(f) \in Nat /\ (a \in 1..n => f[a] <= Total(f))
  <2> DEFINE R == {t \in Nat \X Int \X Int : t[2] >= 0 /\ (a \in 1..t[1] => f[a] <= t[2])}
  <2>1. <<0, 0, 0>> \in R
    OBVIOUS
  <2>2. ASSUME NEW k \in 1..n, NEW x \in Int, NEW y \in Int, <<k - 1, x, y>> \in R
        PROVE  <<k, x + f[k], y + f[k]>> \in R
    <3>1. x >= 0 /\ (a \in 1..(k - 1) => f[a] <= x) /\ f[k] \in Nat
      BY <2>2
    <3>2. a \in 1..k => f[a] <= x + f[k]
      <4>1. CASE a = k
        BY <3>1, <4>1
      <4>2. CASE a # k
        <5> SUFFICES ASSUME a \in 1..k PROVE f[a] <= x + f[k]
          OBVIOUS
        <5>1. a \in 1..(k - 1) /\ f[a] \in Nat
          BY <4>2
        <5> QED
          BY <3>1, <5>1
      <4> QED
        BY <4>1, <4>2
    <3> QED
      BY <3>1, <3>2
  <2>3. Total(f) \in Int /\ <<n, Total(f), Total(f)>> \in R
    <3> HIDE DEF R
    <3> QED
      BY <1>0, <2>1, <2>2, TotalsRelate
  <2> QED
    BY <2>3
<1> QED
  BY <1>1

\* The first of the largest shares.
LEMMA FirstLargest ==
  ASSUME NEW n \in Nat \ {0}, NEW f \in [1..n -> Int]
  PROVE  \E a \in 1..n : /\ \A b \in 1..n : f[b] <= f[a]
                         /\ \A b \in 1..n : b < a => f[b] < f[a]
<1> DEFINE First(a, k) == /\ \A b \in 1..k : f[b] <= f[a]
                          /\ \A b \in 1..k : b < a => f[b] < f[a]
           S == {k \in Nat : k + 1 <= n => \E a \in 1..(k + 1) : First(a, k + 1)}
<1>1. 0 \in S
  <2>1. First(1, 1)
    OBVIOUS
  <2> QED
    BY <2>1
<1>2. ASSUME NEW k \in Nat, k \in S
      PROVE  k + 1 \in S
  <2> DEFINE m == k + 2
  <2> SUFFICES ASSUME m <= n
               PROVE  \E a \in 1..m : First(a, m)
    OBVIOUS
  <2>1. PICK a \in 1..(k + 1) : First(a, k + 1)
    BY <1>2
  <2>2. /\ m \in 1..n /\ a \in 1..m /\ a < m
        /\ \A b \in 1..m : b \in 1..(k + 1) \/ b = m
    OBVIOUS
  <2>3. \A b \in 1..m : f[b] \in Int
    BY <2>2
  <2>4. CASE f[m] <= f[a]
    <3>1. First(a, m)
      BY <2>1, <2>2, <2>4
    <3> QED
      BY <2>2, <3>1
  <2>5. CASE f[m] > f[a]
    <3>1. First(m, m)
      BY <2>1, <2>2, <2>3, <2>5
    <3> QED
      BY <2>2, <3>1
  <2> HIDE DEF First, m
  <2> QED
    BY <2>2, <2>3, <2>4, <2>5
<1>3. \A k \in Nat : k \in S
  <2> HIDE DEF S
  <2> QED
    BY <1>1, <1>2, NatSetInduction
<1>4. n - 1 \in Nat /\ (n - 1) + 1 = n
  OBVIOUS
<1>5. \E a \in 1..n : First(a, n)
  <2>1. n - 1 \in S
    BY <1>3, <1>4
  <2> HIDE DEF First
  <2> QED
    BY <1>4, <2>1
<1> QED
  BY <1>5

-----------------------------------------------------------------------------
(* The spend allocator.                                                    *)

\* A question about n agents.
Asked(q, n) ==
  /\ n \in Nat \ {0} /\ Len(q.score) = n /\ SpendAgents(q) = 1..n
  /\ q.strategy \in Strategies
  /\ q.score \in [1..n -> Int]
  /\ q.cap \in [1..n -> Int \cup {Uncapped}]
  /\ q.strategy # "cap_then_split" => \A a \in 1..n : q.cap[a] = Uncapped
  /\ q.budget \in Nat /\ q.floor \in Int /\ q.percent \in Int /\ q.first \in 0..n

LEMMA QuestionShape ==
  ASSUME NEW q \in Questions
  PROVE  \E n : Asked(q, n)
<1>1. PICK n \in 1..MaxAgents, b \in 0..MaxBudget, f \in Floors : q \in Sized(n, b, f)
  BY DEF Questions
<1> USE AllocatorAssumption
<1>2. \/ q = Question("equal_split", b, f, Alike(n), 0, 40, Free(n))
      \/ \E s \in [1..n -> -1..(MaxScore + 1)] :
           q = Question("score_weighted", b, f, s, 0, 40, Free(n))
      \/ \E p \in 0..n, r \in Percents :
           q = Question("priority_first", b, f, Alike(n), p, r, Free(n))
      \/ \E c \in [1..n -> Caps \cup {Uncapped}] :
           q = Question("cap_then_split", b, f, Alike(n), 0, 40, c)
  BY <1>1 DEF Sized
<1>3. /\ Alike(n) \in [1..n -> Int] /\ Free(n) \in [1..n -> Int \cup {Uncapped}]
      /\ [1..n -> -1..(MaxScore + 1)] \subseteq [1..n -> Int]
      /\ [1..n -> Caps \cup {Uncapped}] \subseteq [1..n -> Int \cup {Uncapped}]
      /\ Percents \subseteq Int /\ 40 \in Int /\ 0 \in 0..n
  BY DEF Alike, Free
<1> DEFINE Typed == \E strategy \in Strategies, score \in [1..n -> Int], first \in 0..n,
                       percent \in Int, cap \in [1..n -> Int \cup {Uncapped}] :
                       /\ q = Question(strategy, b, f, score, first, percent, cap)
                       /\ strategy # "cap_then_split" => cap = Free(n)
<1>4. Typed
  <2>1. CASE q = Question("equal_split", b, f, Alike(n), 0, 40, Free(n))
    BY <1>3, <2>1 DEF Strategies
  <2>2. ASSUME NEW s \in [1..n -> -1..(MaxScore + 1)],
               q = Question("score_weighted", b, f, s, 0, 40, Free(n))
        PROVE  Typed
    BY <1>3, <2>2 DEF Strategies
  <2>3. ASSUME NEW p \in 0..n, NEW r \in Percents,
               q = Question("priority_first", b, f, Alike(n), p, r, Free(n))
        PROVE  Typed
    BY <1>3, <2>3 DEF Strategies
  <2>4. ASSUME NEW c \in [1..n -> Caps \cup {Uncapped}],
               q = Question("cap_then_split", b, f, Alike(n), 0, 40, c)
        PROVE  Typed
    BY <1>3, <2>4 DEF Strategies
  <2> QED
    BY <1>2, <2>1, <2>2, <2>3, <2>4
<1>5. PICK strategy \in Strategies, score \in [1..n -> Int], first \in 0..n, percent \in Int,
           cap \in [1..n -> Int \cup {Uncapped}] :
        /\ q = Question(strategy, b, f, score, first, percent, cap)
        /\ strategy # "cap_then_split" => cap = Free(n)
  BY <1>4
<1>6. n \in Nat \ {0} /\ b \in Nat /\ f \in Int /\ Len(score) = n
  OBVIOUS
<1> QED
  BY <1>5, <1>6 DEF Asked, Question, SpendAgents, Free

LEMMA EqualType ==
  ASSUME NEW q, NEW n, Asked(q, n)
  PROVE  Equal(q) \in [1..n -> Int] /\ Equal(q) = [a \in 1..n |-> q.budget \div n]
<1>1. n \in Nat \ {0} /\ q.budget \in Int /\ Len(q.score) = n /\ SpendAgents(q) = 1..n
  BY DEF Asked
<1>2. q.budget \div n \in Int
  BY <1>1, FloorDivision
<1> QED
  BY <1>1, <1>2 DEF Equal, Evenly

LEMMA ClampedType ==
  ASSUME NEW q, NEW n, Asked(q, n)
  PROVE  /\ Clamped(q) \in [1..n -> Nat] /\ Clamped(q) \in [1..n -> Int]
         /\ Total(Clamped(q)) \in Nat
<1>1. Clamped(q) \in [1..n -> Nat]
  BY AllocatorAssumption DEF Asked, Clamped
<1>2. n \in Nat
  BY DEF Asked
<1> QED
  BY <1>1, <1>2, TotalOfNaturals

\* A quotient of floats, rounded down.
LEMMA FlooredIsClose ==
  ASSUME NEW b \in Int, NEW p \in Int, NEW w \in Nat \ {0}, NEW x \in Floored(b, p, w)
  PROVE  /\ x \in Int /\ w * x <= b * p /\ b * p <= w * x + w
         /\ p = w => x = b
<1> DEFINE bp == b * p
           e == bp \div w
<1>1. bp \in Int
  OBVIOUS
<1>2. x \in {e - 1, e} /\ (x = e - 1 => e * w = bp /\ p # w)
  BY DEF Floored
<1> HIDE DEF bp
<1>3. e \in Int /\ w * e <= bp /\ bp <= w * e + (w - 1)
  BY <1>1, FloorDivision
<1> HIDE DEF e
<1>4. w * (e - 1) = w * e - w /\ e * w = w * e /\ w * e \in Int
  BY <1>3
<1>5. x \in Int /\ w * x <= bp /\ bp <= w * x + w
  <2>1. CASE x = e
    BY <1>1, <1>3, <2>1
  <2>2. CASE x = e - 1
    <3> DEFINE we == w * e
    <3>1. we \in Int /\ w * x = we - w /\ we = bp
      BY <1>2, <1>4, <2>2
    <3> HIDE DEF we
    <3> QED
      BY <1>1, <1>3, <2>2, <3>1
  <2> QED
    BY <1>2, <2>1, <2>2
<1>6. p = w => x = b
  <2> SUFFICES ASSUME p = w PROVE x = b
    OBVIOUS
  <2>1. x = e /\ bp = w * b
    BY <1>2 DEF bp
  <2>2. w * e <= w * b /\ w * b <= w * e + (w - 1)
    BY <1>3, <2>1
  <2>3. w * (b - e) = w * b - w * e
    BY <1>3
  <2> DEFINE k == b - e
  <2>4. k \in Int /\ 0 <= w * k /\ w * k <= w - 1
    BY <1>3, <2>2, <2>3
  <2>5. k = 0
    <3> HIDE DEF k
    <3>1. k >= 1 => w * k >= w
      BY <2>4
    <3>2. k <= -1 => w * k <= -w
      BY <2>4
    <3> QED
      BY <2>4, <3>1, <3>2
  <2> QED
    BY <1>3, <2>1, <2>5
<1> QED
  BY <1>5, <1>6 DEF bp

LEMMA SplitType ==
  ASSUME NEW q, NEW n, Asked(q, n), NEW split \in Splits(q)
  PROVE  split \in [1..n -> Int]
<1>0. /\ n \in Nat \ {0} /\ SpendAgents(q) = 1..n /\ q.budget \in Int /\ Len(q.score) = n
      /\ q.percent \in Int
  BY DEF Asked
<1>1. CASE q.strategy = "equal_split"
  BY <1>1, EqualType DEF Splits
<1>2. CASE q.strategy = "score_weighted"
  <2>1. CASE Total(Clamped(q)) = 0
    BY <1>2, <2>1, EqualType DEF Splits, Weighted
  <2>2. CASE Total(Clamped(q)) # 0
    <3>1. split \in [1..n -> 0..q.budget]
      BY <1>0, <1>2, <2>2 DEF Splits, Weighted
    <3> QED
      BY <3>1
  <2> QED
    BY <2>1, <2>2
<1>3. CASE q.strategy = "priority_first"
  <2>1. CASE q.first = 0 \/ n = 1
    BY <1>0, <1>3, <2>1, EqualType DEF Splits, PriorityFirst
  <2>2. CASE ~(q.first = 0 \/ n = 1)
    <3>1. PICK top \in Floored(q.budget, q.percent, 100) :
            split = [a \in 1..n |-> IF a = q.first THEN top ELSE Evenly(q.budget - top, n - 1)]
      BY <1>0, <1>3, <2>2 DEF Splits, PriorityFirst
    <3>2. top \in Int
      BY <1>0, FlooredIsClose
    <3> DEFINE other == Evenly(q.budget - top, n - 1)
    <3>3. other \in Int
      <4> DEFINE x == q.budget - top
                 y == n - 1
      <4>1. x \in Int /\ y \in Nat \ {0}
        BY <1>0, <2>2, <3>2
      <4> HIDE DEF x, y
      <4>2. x \div y \in Int
        BY <4>1, FloorDivision
      <4> QED
        BY <4>2 DEF Evenly, x, y
    <3> QED
      BY <3>1, <3>2, <3>3
  <2> QED
    BY <2>1, <2>2
<1>4. CASE q.strategy = "cap_then_split"
  <2> DEFINE capped == {a \in 1..n : q.cap[a] # Uncapped}
             open == 1..n \ capped
             taken == [a \in 1..n |-> IF a \in capped THEN q.cap[a] ELSE 0]
             ones == [a \in 1..n |-> IF a \in open THEN 1 ELSE 0]
             rest == q.budget - Total(taken)
             each == Evenly(rest, Total(ones))
  <2>1. split = [a \in 1..n |-> IF a \in capped THEN q.cap[a]
                                ELSE IF rest <= 0 THEN 0 ELSE each]
    BY <1>0, <1>4 DEF Splits, CapThenSplit
  <2>2. \A a \in capped : q.cap[a] \in Int
    BY DEF Asked
  <2>3. taken \in [1..n -> Int] /\ ones \in [1..n -> Nat]
    BY <2>2
  <2>4. rest \in Int
    BY <1>0, <2>3, TotalType
  <2>5. ASSUME NEW a \in open
        PROVE  each \in Int
    <3>1. Total(ones) \in Nat /\ ones[a] <= Total(ones)
      BY <1>0, <2>3, TotalOfNaturals
    <3>2. ones[a] = 1
      OBVIOUS
    <3> HIDE DEF ones, rest
    <3> QED
      BY <2>4, <3>1, <3>2, FloorDivision DEF Evenly
  <2> HIDE DEF each, rest
  <2> QED
    BY <2>1, <2>2, <2>5
<1> QED
  BY <1>1, <1>2, <1>3, <1>4 DEF Asked, Strategies

LEMMA RaisedType ==
  ASSUME NEW q, NEW n, Asked(q, n), NEW split \in Splits(q)
  PROVE  /\ Raised(q, split) \in [1..n -> Int]
         /\ \A a \in 1..n : /\ Raised(q, split)[a] = AtLeast(q.floor, split[a])
                            /\ split[a] <= Raised(q, split)[a]
         /\ q.floor <= 0 => Raised(q, split) = split
<1>1. split \in [1..n -> Int] /\ q.floor \in Int /\ SpendAgents(q) = 1..n
  BY SplitType DEF Asked
<1>2. Raised(q, split) = [a \in 1..n |-> AtLeast(q.floor, split[a])]
  BY <1>1 DEF Raised
<1>3. \A a \in 1..n : /\ AtLeast(q.floor, split[a]) \in Int
                      /\ split[a] <= AtLeast(q.floor, split[a])
                      /\ q.floor <= 0 => AtLeast(q.floor, split[a]) = split[a]
  BY <1>1 DEF AtLeast
<1> QED
  BY <1>1, <1>2, <1>3

\* One agent takes the whole difference.
LEMMA OnePayer ==
  ASSUME NEW q, NEW n, Asked(q, n), NEW split \in Splits(q)
  PROVE  \E payer \in 1..n :
           Allocation(q, split) =
             [Raised(q, split) EXCEPT ![payer] = @ + q.budget - Total(Raised(q, split))]
<1> DEFINE cents == Raised(q, split)
           Largest(a) == /\ \A b \in 1..n : cents[b] <= cents[a]
                         /\ \A b \in 1..n : b < a => cents[b] < cents[a]
           largest == CHOOSE a \in 1..n : Largest(a)
<1>1. n \in Nat \ {0} /\ SpendAgents(q) = 1..n /\ cents \in [1..n -> Int]
  BY RaisedType DEF Asked
<1>2. Allocation(q, split) = [cents EXCEPT ![largest] = @ + q.budget - Total(cents)]
  BY <1>1 DEF Allocation
<1> HIDE DEF cents
<1>3. \E a \in 1..n : Largest(a)
  BY <1>1, FirstLargest
<1>4. largest \in 1..n
  <2> HIDE DEF Largest
  <2> QED
    BY <1>3
<1> QED
  BY <1>2, <1>4 DEF cents

\* Within one cent per agent.
Close(x, num, den, n) == -(n * den) < x * den - num /\ x * den - num < n * den

\* A share rounded down, alone or with less than one cent per agent more.
LEMMA RoundedIsClose ==
  ASSUME NEW n \in Nat \ {0}, NEW den \in Nat \ {0}, NEW num \in Int, NEW x \in Int,
         den * x <= num, num <= den * x + den, n > 1 \/ num < den * x + den,
         NEW d \in 0..(n - 1), NEW y \in {x, x + d}
  PROVE  Close(y, num, den, n)
<1>1. /\ (x + d) * den = den * x + d * den /\ x * den = den * x
      /\ n * den = (n - 1) * den + den
  OBVIOUS
<1>2. d * den <= (n - 1) * den /\ 0 <= d * den
  OBVIOUS
<1> DEFINE u == den * x
           v == d * den
           w == (n - 1) * den
<1>3. u \in Int /\ v \in Int /\ w \in Int /\ y * den \in {u, u + v} /\ n * den = w + den
  BY <1>1
<1>4. /\ u <= num /\ num <= u + den /\ 0 <= v /\ v <= w /\ v < n * den
      /\ w >= den \/ num < u + den
  <2>1. n > 1 => (n - 1) * den >= den
    OBVIOUS
  <2> QED
    BY <1>1, <1>2, <2>1
<1> HIDE DEF u, v, w
<1> QED
  BY <1>3, <1>4 DEF Close

LEMMA EqualClose ==
  ASSUME NEW q, NEW n, Asked(q, n), NEW a \in 1..n,
         NEW y \in {Equal(q)[a], Equal(q)[a] + (q.budget - Total(Equal(q)))}
  PROVE  Close(y, q.budget, n, n)
<1> DEFINE x == q.budget \div n
           t == Total(Equal(q))
<1>1. n \in Nat \ {0} /\ q.budget \in Int
  BY DEF Asked
<1>2. x \in Int /\ n * x <= q.budget /\ q.budget <= n * x + (n - 1)
  BY <1>1, FloorDivision
<1>3. Equal(q) \in [1..n -> Int] /\ Equal(q) = [b \in 1..n |-> x]
  BY EqualType
<1> HIDE DEF x
<1>4. t = n * x
  BY <1>1, <1>2, <1>3, TotalOfEqual
<1>5. q.budget - t \in 0..(n - 1) /\ Equal(q)[a] = x
  BY <1>1, <1>2, <1>3, <1>4
<1>6. n * x <= q.budget /\ q.budget <= n * x + n /\ q.budget < n * x + n
  BY <1>1, <1>2
<1> DEFINE d == q.budget - t
<1>7. d \in 0..(n - 1) /\ y \in {x, x + d}
  BY <1>5
<1> HIDE DEF t, d
<1> QED
  BY <1>1, <1>2, <1>6, <1>7, RoundedIsClose

LEMMA WeightedClose ==
  ASSUME NEW q, NEW n, Asked(q, n), NEW a \in 1..n, Total(Clamped(q)) # 0,
         NEW f \in Weighted(q), NEW y \in {f[a], f[a] + (q.budget - Total(f))}
  PROVE  Close(y, q.budget * Clamped(q)[a], Total(Clamped(q)), n)
<1> DEFINE c == Clamped(q)
           t == Total(c)
           b == q.budget
           h == [k \in 1..n |-> b * c[k]]
<1>1. /\ n \in Nat \ {0} /\ b \in Int /\ SpendAgents(q) = 1..n
      /\ c \in [1..n -> Int] /\ t \in Nat \ {0}
  <2>1. c \in [1..n -> Int] /\ t \in Nat
    BY ClampedType
  <2> HIDE DEF c
  <2> QED
    BY <2>1 DEF Asked, c
<1>2. f \in [1..n -> 0..b] /\ \A k \in 1..n : f[k] \in Floored(b, c[k], t)
  BY <1>1 DEF Weighted
<1>3. y \in {f[a], f[a] + (b - Total(f))}
  OBVIOUS
<1> SUFFICES Close(y, b * c[a], t, n)
  BY DEF c, t
<1> HIDE DEF c, t, b
<1>4. h \in [1..n -> Int] /\ \A k \in 1..n : h[k] = b * c[k]
  BY <1>1
<1> HIDE DEF h
<1>5. f \in [1..n -> Int]
  BY <1>1, <1>2
<1>6. ASSUME NEW k \in 1..n
      PROVE  t * f[k] <= h[k] /\ h[k] <= t * f[k] + t
  <2>1. c[k] \in Int /\ f[k] \in Floored(b, c[k], t) /\ h[k] = b * c[k]
    BY <1>1, <1>2, <1>4
  <2> QED
    BY <1>1, <2>1, FlooredIsClose
<1>7. Total(h) = b * t /\ Total(f) \in Int
  <2>1. Total(h) = b * Total(c)
    <3>1. n \in Nat /\ b \in Int /\ c \in [1..n -> Int]
      BY <1>1
    <3> QED
      BY ONLY <3>1, <1>4, TotalScaled
  <2>2. Total(f) \in Int
    BY <1>1, <1>5, TotalType
  <2> QED
    BY <2>1, <2>2 DEF t
\* What the others have lost by rounding.
<1> DEFINE others == (Total(h) - h[a]) - t * (Total(f) - f[a])
<1>8. others \in Int /\ 0 <= others /\ others <= (n - 1) * t
  <2> DEFINE f0 == [f EXCEPT ![a] = 0]
             h0 == [h EXCEPT ![a] = 0]
             h1 == [h EXCEPT ![a] = t]
  <2>0. /\ f0 \in [1..n -> Int] /\ h0 \in [1..n -> Int] /\ h1 \in [1..n -> Int]
        /\ f[a] \in Int /\ h[a] \in Int
    BY <1>1, <1>4, <1>5
  <2>1. /\ Total(f0) = Total(f) + (0 - f[a])
        /\ Total(h0) = Total(h) + (0 - h[a])
        /\ Total(h1) = Total(h) + (t - h[a])
    <3>1. n \in Nat /\ 0 \in Int /\ t \in Int
      BY <1>1
    <3>2. Total(f0) = Total(f) + (0 - f[a])
      BY ONLY <3>1, <1>5, a \in 1..n, TotalExcept
    <3>3. Total(h0) = Total(h) + (0 - h[a])
      BY ONLY <3>1, <1>4, a \in 1..n, TotalExcept
    <3>4. Total(h1) = Total(h) + (t - h[a])
      BY ONLY <3>1, <1>4, a \in 1..n, TotalExcept
    <3> QED
      BY <3>2, <3>3, <3>4
  <2>2. \A k \in 1..n : /\ t * f0[k] <= h0[k] /\ h0[k] <= t * f0[k] + t
                        /\ t * f0[k] <= h1[k] /\ h1[k] <= t * f0[k] + t
    <3> TAKE k \in 1..n
    <3>1. k # a => f0[k] = f[k] /\ h0[k] = h[k] /\ h1[k] = h[k]
      BY <1>4, <1>5
    <3>2. k = a => f0[k] = 0 /\ h0[k] = 0 /\ h1[k] = t /\ t * 0 = 0
      BY <1>1, <1>4, <1>5
    <3> HIDE DEF f0, h0, h1
    <3> QED
      BY <1>1, <1>6, <3>1, <3>2
  <2> HIDE DEF f0, h0, h1
  <2>3. t * Total(f0) <= Total(h0) /\ Total(h1) <= t * Total(f0) + n * t
    BY <1>1, <2>0, <2>2, TotalRounded
  <2> DEFINE F == Total(f)
             H == Total(h)
             lost == t * (F - f[a])
             most == (n - 1) * t
  <2>4. F \in Int /\ H \in Int /\ f[a] \in Int /\ h[a] \in Int /\ t \in Int
    <3>1. b * t \in Int
      BY ONLY <1>1
    <3> QED
      BY <1>1, <1>7, <2>0, <3>1
  <2>5. Total(f0) = F - f[a] /\ Total(h0) = H - h[a] /\ Total(h1) = H + t - h[a]
    BY ONLY <2>1, <2>4
  <2>6. lost \in Int /\ most \in Int /\ n * t = most + t
    BY ONLY <1>1, <2>4
  <2>7. lost <= H - h[a] /\ H + t - h[a] <= lost + (most + t)
    BY ONLY <2>3, <2>5, <2>6
  <2>8. others = (H - h[a]) - lost
    BY DEF others
  <2> HIDE DEF F, H, lost, most
  <2>9. others \in Int /\ 0 <= others /\ others <= most
    BY ONLY <2>4, <2>6, <2>7, <2>8
  <2> QED
    BY <2>9 DEF most
<1>9. f[a] \in Int /\ h[a] \in Int /\ t * f[a] <= h[a] /\ h[a] <= t * f[a] + t
  BY <1>4, <1>5, <1>6
<1>10. n > 1 \/ h[a] < t * f[a] + t
  <2> SUFFICES ASSUME n = 1 PROVE h[a] < t * f[a] + t
    BY <1>1
  <2>1. a = 1 /\ c[1] = t
    <3>1. 1 \in Nat /\ c[1] \in Int /\ c \in [1..1 -> Int]
      BY <1>1
    <3>2. \A k \in 1..1 : c[k] = c[1]
      OBVIOUS
    <3>3. Total(c) = 1 * c[1]
      BY ONLY <3>1, <3>2, TotalOfEqual
    <3> QED
      BY <1>1, <3>1, <3>3 DEF t
  <2>2. f[a] = b
    BY <1>1, <1>2, <2>1, FlooredIsClose
  <2>3. h[a] = b * t /\ b * t = t * b
    BY <1>1, <1>4, <2>1
  <2> QED
    BY <1>1, <1>9, <2>2, <2>3
<1>11. (f[a] + (b - Total(f))) * t = h[a] + others
  <2>1. (f[a] + (b - Total(f))) * t = t * f[a] + (b * t - t * Total(f))
    BY <1>1, <1>7, <1>9
  <2>2. t * (Total(f) - f[a]) = t * Total(f) - t * f[a]
    BY <1>1, <1>7, <1>9
  <2> DEFINE p == t * f[a]
             r == t * Total(f)
             bt == b * t
  <2>3. p \in Int /\ r \in Int /\ bt \in Int /\ Total(h) = bt
    BY <1>1, <1>7, <1>9
  <2>4. others = (bt - h[a]) - (r - p)
    BY <2>2, <2>3
  <2>5. (f[a] + (b - Total(f))) * t = p + (bt - r)
    BY <2>1
  <2> HIDE DEF p, r, bt, others
  <2> QED
    BY <1>9, <2>3, <2>4, <2>5
<1> HIDE DEF others
<1>12. Close(y, h[a], t, n)
  <2>1. n * t = (n - 1) * t + t /\ (n - 1) * t \in Int /\ (n > 1 => (n - 1) * t >= t)
    BY <1>1
  <2>2. CASE y = f[a]
    <3> DEFINE m == (n - 1) * t
               u == t * f[a]
    <3>1. /\ y * t = u /\ u \in Int /\ m \in Int /\ n * t = m + t /\ m >= 0
          /\ u <= h[a] /\ h[a] <= u + t /\ (m >= t \/ h[a] < u + t)
      BY <1>1, <1>9, <1>10, <2>1, <2>2
    <3> HIDE DEF m, u
    <3> QED
      BY <1>1, <1>9, <3>1 DEF Close
  <2>3. CASE y = f[a] + (b - Total(f))
    BY <1>1, <1>8, <1>9, <1>11, <2>1, <2>3 DEF Close
  <2> QED
    BY <1>3, <2>2, <2>3
<1> QED
  BY <1>4, <1>12

LEMMA PriorityClose ==
  ASSUME NEW q, NEW n, Asked(q, n), NEW a \in 1..n, q.first # 0, n # 1,
         NEW f \in PriorityFirst(q), NEW y \in {f[a], f[a] + (q.budget - Total(f))}
  PROVE  IF a = q.first THEN Close(y, q.budget * q.percent, 100, n)
         ELSE Close(y, q.budget * (100 - q.percent), 100 * (n - 1), n)
<1> DEFINE b == q.budget
           r == q.percent
           br == b * r
           h == 100
           m == n - 1
           d == b - Total(f)
<1>1. /\ n \in Nat /\ m \in Nat \ {0} /\ b \in Int /\ r \in Int /\ br \in Int
      /\ SpendAgents(q) = 1..n /\ Len(q.score) = n /\ q.first \in 1..n
  BY DEF Asked
<1>0. PICK top \in Floored(b, r, h) :
        f = [c \in 1..n |-> IF c = q.first THEN top ELSE Evenly(b - top, m)]
  BY <1>1 DEF PriorityFirst
<1> DEFINE other == (b - top) \div m
           even == [c \in 1..n |-> other]
<1>2. f = [c \in 1..n |-> IF c = q.first THEN top ELSE other]
  BY <1>0 DEF Evenly
<1>3. y \in {f[a], f[a] + d}
  OBVIOUS
<1>4. top \in Int /\ h * top <= br /\ br <= h * top + h
  BY <1>0, <1>1, FlooredIsClose
<1> HIDE DEF br
<1>5. other \in Int /\ m * other <= b - top /\ b - top <= m * other + (m - 1)
  <2> DEFINE x == b - top
  <2>1. x \in Int
    BY <1>1, <1>4
  <2> HIDE DEF x, m
  <2>2. x \div m \in Int /\ m * (x \div m) <= x /\ x <= m * (x \div m) + (m - 1)
    BY <1>1, <2>1, FloorDivision
  <2> QED
    BY <2>2 DEF x
<1> HIDE DEF other
<1>6. even \in [1..n -> Int] /\ f = [even EXCEPT ![q.first] = top]
  BY <1>1, <1>2, <1>4, <1>5
<1>7. Total(f) = n * other + (top - other)
  <2>1. Total(even) = n * other
    BY <1>1, <1>5, TotalOfEqual
  <2>2. Total([even EXCEPT ![q.first] = top]) = Total(even) + (top - even[q.first])
    BY <1>1, <1>4, <1>6, TotalExcept
  <2>3. even[q.first] = other
    BY <1>1
  <2> QED
    BY <1>6, <2>1, <2>2, <2>3
<1>8. d = b - top - m * other /\ d \in 0..(m - 1)
  <2>1. n * other = m * other + other
    BY <1>1, <1>5
  <2> DEFINE mo == m * other
  <2>2. mo \in Int /\ Total(f) = mo + top
    BY <1>1, <1>4, <1>5, <1>7, <2>1
  <2>3. mo <= b - top /\ b - top <= mo + (m - 1)
    BY <1>5
  <2> HIDE DEF mo
  <2>4. d = b - top - mo /\ d \in 0..(m - 1)
    BY <1>1, <1>4, <2>2, <2>3
  <2> QED
    BY <2>4 DEF mo
<1> HIDE DEF d
<1>9. CASE a = q.first
  <2>1. f[a] = top /\ d \in 0..(n - 1) /\ n \in Nat \ {0} /\ n > 1
    BY <1>1, <1>2, <1>8, <1>9
  <2>2. Close(y, br, h, n)
    <3>1. h \in Nat \ {0} /\ y \in {top, top + d}
      BY <1>3, <2>1
    <3> HIDE DEF h
    <3> QED
      BY <1>1, <1>4, <2>1, <3>1, RoundedIsClose
  <2> QED
    BY <1>9, <2>2 DEF br
<1>10. CASE a # q.first
  <2> DEFINE num == b * (100 - r)
             den == 100 * m
             e == br - 100 * top
             md == m * d
             mm == m * m
  <2>1. f[a] = other
    BY <1>2, <1>10
  <2>2. other * den - num = e - 100 * d
    <3>1. other * den = 100 * (m * other) /\ num = 100 * b - br
      BY <1>1, <1>5 DEF br
    <3> DEFINE mo == m * other
    <3>2. mo \in Int /\ d = b - top - mo
      BY <1>1, <1>5, <1>8
    <3> DEFINE od == other * den
    <3>3. od = 100 * mo /\ num = 100 * b - br
      BY <3>1
    <3> HIDE DEF mo, num, den, od
    <3>4. od - num = e - 100 * d
      <4> HIDE DEF b, h, m
      <4>1. b \in Int /\ br \in Int /\ top \in Int
        BY <1>1, <1>4
      <4> QED
        BY <3>2, <3>3, <4>1
    <3> QED
      BY <3>4 DEF od
  <2>3. (other + d) * den = other * den + 100 * md
    BY <1>1, <1>5, <1>8
  <2>4. /\ md \in Int /\ mm \in Int /\ e \in 0..100
        /\ d <= md /\ md <= mm - m /\ m <= mm
    <3>1. md \in Int /\ mm \in Int /\ e \in 0..100
      BY <1>1, <1>4, <1>8
    <3>2. d <= m * d /\ m <= m * m
      BY <1>1, <1>8
    <3>3. md <= mm - m
      <4> DEFINE k == (m - 1) - d
      <4>1. k \in Nat /\ d = (m - 1) - k /\ m \in Nat
        BY <1>1, <1>8
      <4> HIDE DEF k, m
      <4>2. m * k \in Nat
        BY <4>1
      <4>3. m * d = (m * m - m) - m * k
        BY <4>1
      <4> QED
        BY <4>1, <4>2, <4>3
    <3> QED
      BY <3>1, <3>2, <3>3
  <2>5. n * den = 100 * mm + 100 * m
    BY <1>1
  <2>6. y * den - num \in {e - 100 * d, e - 100 * d + 100 * md}
    <3>1. y \in {other, other + d}
      BY <1>3, <2>1
    <3>2. other * den \in Int /\ num \in Int
      BY <1>1, <1>5
    <3> HIDE DEF num, den, md, e
    <3> QED
      BY <1>8, <2>2, <2>3, <2>4, <3>1, <3>2
  <2>7. Close(y, num, den, n)
    <3> DEFINE nd == n * den
               z == y * den - num
    <3>1. nd = 100 * mm + 100 * m /\ z \in {e - 100 * d, e - 100 * d + 100 * md}
      BY <2>5, <2>6
    <3> HIDE DEF num, den, md, mm, e, nd, z
    <3>2. m \in Nat \ {0} /\ d \in Nat /\ d <= m - 1 /\ md >= 0
      BY <1>1, <1>8, <2>4
    <3> HIDE DEF m
    <3>3. -nd < z /\ z < nd
      BY <2>4, <3>1, <3>2
    <3> QED
      BY <3>3 DEF Close, nd, z
  <2> QED
    BY <1>10, <2>7
<1> QED
  BY <1>9, <1>10

\* A request is unanswered, or its answer is the allocation of its question.
SpendInv ==
  /\ ask \in Questions
  /\ shares = <<>> \/ \E split \in Splits(ask) : shares = Allocation(ask, split)

\* The answer, agent by agent.
Paid(n, payer, split) ==
  /\ Asked(ask, n) /\ payer \in 1..n /\ split \in Splits(ask)
  /\ shares = [Raised(ask, split) EXCEPT ![payer] =
                 @ + ask.budget - Total(Raised(ask, split))]

LEMMA AnswerPaid ==
  ASSUME SpendInv, shares # <<>>
  PROVE  \E n, payer, split : Paid(n, payer, split)
<1>1. PICK split \in Splits(ask) : shares = Allocation(ask, split)
  BY DEF SpendInv
<1>2. PICK n : Asked(ask, n)
  BY QuestionShape DEF SpendInv
<1>3. PICK payer \in 1..n :
        Allocation(ask, split) =
          [Raised(ask, split) EXCEPT ![payer] = @ + ask.budget - Total(Raised(ask, split))]
  BY <1>2, OnePayer
<1> QED
  BY <1>1, <1>2, <1>3 DEF Paid

LEMMA PaidShares ==
  ASSUME NEW n, NEW payer, NEW split, Paid(n, payer, split)
  PROVE  /\ shares \in [1..n -> Int] /\ SpendAgents(ask) = 1..n
         /\ Total(shares) = ask.budget
         /\ shares[payer] = Raised(ask, split)[payer]
                              + (ask.budget - Total(Raised(ask, split)))
         /\ \A a \in 1..n \ {payer} : shares[a] = Raised(ask, split)[a]
<1> DEFINE cents == Raised(ask, split)
           v == cents[payer] + ask.budget - Total(cents)
<1>1. n \in Nat /\ payer \in 1..n /\ ask.budget \in Int /\ SpendAgents(ask) = 1..n
  BY DEF Paid, Asked
<1>2. cents \in [1..n -> Int]
  BY RaisedType DEF Paid
<1>3. shares = [cents EXCEPT ![payer] = v]
  BY DEF Paid
<1> HIDE DEF cents
<1>4. Total(cents) \in Int /\ cents[payer] \in Int
  BY <1>1, <1>2, TotalType
<1>5. v \in Int /\ v = cents[payer] + (ask.budget - Total(cents))
  BY <1>1, <1>4
<1> HIDE DEF v
<1>6. Total([cents EXCEPT ![payer] = v]) = Total(cents) + (v - cents[payer])
  BY <1>1, <1>2, <1>5, TotalExcept
<1>7. Total(shares) = ask.budget
  BY <1>1, <1>3, <1>4, <1>5, <1>6
<1> QED
  BY <1>1, <1>2, <1>3, <1>5, <1>7 DEF cents

LEMMA SharesAlwaysAddUp == SpendInv => SharesAddUp
<1> SUFFICES ASSUME SpendInv, shares # <<>>
             PROVE  Total(shares) = ask.budget
  BY DEF SharesAddUp
<1>1. PICK n, payer, split : Paid(n, payer, split)
  BY AnswerPaid
<1> QED
  BY <1>1, PaidShares

\* While somebody is uncapped, the caps and what is left of the budget for the
\* uncapped fall short of the budget by less than a cent per uncapped agent.
LEMMA CapsAndRest ==
  ASSUME NEW q, NEW n, Asked(q, n), q.strategy = "cap_then_split",
         NEW payer \in 1..n, q.cap[payer] # Uncapped,
         NEW spare \in 1..n, q.cap[spare] = Uncapped
  PROVE  Total(CapThenSplit(q)) \in Int /\ q.budget - Total(CapThenSplit(q)) < n - 1
<1> DEFINE capped == {a \in 1..n : q.cap[a] # Uncapped}
           open == 1..n \ capped
           taken == [a \in 1..n |-> IF a \in capped THEN q.cap[a] ELSE 0]
           ones == [a \in 1..n |-> IF a \in open THEN 1 ELSE 0]
           k == Total(ones)
           rest == q.budget - Total(taken)
           each == IF rest <= 0 THEN 0 ELSE Evenly(rest, k)
           f == CapThenSplit(q)
<1>0. n \in Nat \ {0} /\ SpendAgents(q) = 1..n /\ q.budget \in Int
  BY DEF Asked
<1>1. f = [a \in 1..n |-> IF a \in capped THEN q.cap[a] ELSE each]
  BY <1>0 DEF CapThenSplit
<1>2. /\ \A a \in capped : q.cap[a] \in Int
      /\ taken \in [1..n -> Int] /\ ones \in [1..n -> Nat] /\ ones \in [1..n -> Int]
  BY DEF Asked
<1>3. payer \in capped /\ spare \in open
  OBVIOUS
<1>4. ones[spare] = 1 /\ ones[payer] = 0 /\ \A a \in 1..n : ones[a] \in {0, 1}
  BY <1>3
<1>5. rest \in Int /\ Total(taken) \in Int
  BY <1>0, <1>2, TotalType
<1> HIDE DEF f, capped, open, taken, ones
<1>6. k \in Nat /\ 1 <= k /\ k <= n - 1
  <2> DEFINE more == [ones EXCEPT ![payer] = 1]
             all == [a \in 1..n |-> 1]
  <2>1. k \in Nat /\ ones[spare] <= k
    BY <1>0, <1>2, TotalOfNaturals
  <2>2. more \in [1..n -> Int] /\ all \in [1..n -> Int] /\ \A a \in 1..n : more[a] <= all[a]
    BY <1>2, <1>4
  <2>3. Total(more) = k + (1 - ones[payer])
    <3>1. n \in Nat /\ 1 \in Int
      BY <1>0
    <3> QED
      BY ONLY <3>1, <1>2, payer \in 1..n, TotalExcept
  <2>4. Total(all) = n * 1
    BY <1>0, <2>2, TotalOfEqual
  <2> HIDE DEF more, all
  <2>5. Total(more) <= Total(all)
    BY <1>0, <2>2, TotalGrows
  <2> HIDE DEF k
  <2> QED
    BY <1>0, <1>4, <2>1, <2>3, <2>4, <2>5
<1> HIDE DEF rest, k
<1>7. each \in Int /\ IF rest <= 0 THEN each = 0 ELSE rest <= k * each + (k - 1)
  BY <1>5, <1>6, FloorDivision DEF Evenly
<1> HIDE DEF each
<1>8. f \in [1..n -> Int] /\ \A a \in 1..n : f[a] = taken[a] + each * ones[a]
  <2>1. ASSUME NEW a \in 1..n
        PROVE  f[a] \in Int /\ f[a] = taken[a] + each * ones[a]
    <3>1. CASE a \in capped
      <4>1. f[a] = q.cap[a] /\ taken[a] = q.cap[a] /\ ones[a] = 0 /\ q.cap[a] \in Int
        BY <1>1, <1>2, <3>1 DEF taken, ones, open
      <4> QED
        BY <1>7, <4>1
    <3>2. CASE a \notin capped
      <4>1. f[a] = each /\ taken[a] = 0 /\ ones[a] = 1
        BY <1>1, <3>2 DEF taken, ones, open
      <4> QED
        BY <1>7, <4>1
    <3> QED
      BY <3>1, <3>2
  <2> QED
    BY <1>1, <2>1
<1>9. Total(f) = Total(taken) + each * k /\ Total(f) \in Int
  <2>1. n \in Nat
    BY <1>0
  <2>2. Total(f) = Total(taken) + each * Total(ones)
    BY ONLY <2>1, <1>2, <1>7, <1>8, TotalOfSum
  <2>3. Total(f) \in Int
    BY <2>1, <1>8, TotalType
  <2> QED
    BY <2>2, <2>3 DEF k
<1>10. q.budget - Total(f) <= k - 1
  <2> DEFINE ek == each * k
  <2>1. /\ ek \in Int /\ ek = k * each /\ rest = q.budget - Total(taken)
        /\ each = 0 => ek = 0
    BY <1>6, <1>7 DEF rest
  <2> HIDE DEF ek
  <2>2. Total(f) = Total(taken) + ek
    BY <1>9 DEF ek
  <2>3. CASE rest <= 0
    BY <1>0, <1>5, <1>6, <1>7, <2>1, <2>2, <2>3
  <2>4. CASE ~(rest <= 0)
    <3>1. rest <= ek + (k - 1)
      BY <1>7, <2>1, <2>4
    <3> QED
      BY <1>0, <1>5, <1>6, <2>1, <2>2, <3>1
  <2> QED
    BY <2>3, <2>4
<1> QED
  BY <1>0, <1>6, <1>9, <1>10 DEF f

LEMMA OneAlwaysPays == SpendInv => OneAgentPays
<1> SUFFICES ASSUME SpendInv, shares # <<>>
             PROVE  OneAgentPays
  BY DEF OneAgentPays
<1>1. PICK n, payer, split : Paid(n, payer, split)
  BY AnswerPaid
<1> DEFINE cents == Raised(ask, split)
           capped == {a \in 1..n : ask.cap[a] # Uncapped}
           Due(a) == AtLeast(ask.floor, ask.cap[a])
<1>2. /\ SpendAgents(ask) = 1..n /\ payer \in 1..n /\ n \in Nat
      /\ Len(ask.score) = n /\ ask.floor \in Int /\ ask.budget \in Int
      /\ shares[payer] = cents[payer] + (ask.budget - Total(cents))
      /\ \A a \in 1..n \ {payer} : shares[a] = cents[a]
  <2>1. /\ SpendAgents(ask) = 1..n /\ payer \in 1..n /\ n \in Nat
        /\ Len(ask.score) = n /\ ask.floor \in Int /\ ask.budget \in Int
    BY <1>1 DEF Paid, Asked
  <2> QED
    BY <1>1, <2>1, PaidShares
<1>3. Asked(ask, n) /\ split \in Splits(ask)
  BY <1>1 DEF Paid
<1>4. /\ split \in [1..n -> Int] /\ cents \in [1..n -> Int]
      /\ \A a \in 1..n : cents[a] = AtLeast(ask.floor, split[a]) /\ split[a] <= cents[a]
  BY <1>3, SplitType, RaisedType
<1> HIDE DEF cents
<1>5. ASSUME NEW a \in 1..n \ {payer}, ask.floor > 0
      PROVE  shares[a] >= ask.floor
  <2>1. split[a] \in Int /\ shares[a] = AtLeast(ask.floor, split[a])
    BY <1>2, <1>4
  <2> QED
    BY <1>2, <1>5, <2>1 DEF AtLeast
<1>6. ASSUME NEW a \in capped
      PROVE  ask.strategy = "cap_then_split" /\ split = CapThenSplit(ask) /\ cents[a] = Due(a)
  <2>1. ask.strategy = "cap_then_split"
    BY <1>3 DEF Asked
  <2>2. split = CapThenSplit(ask)
    BY <1>3, <2>1 DEF Splits
  <2>3. split[a] = ask.cap[a]
    BY <1>2, <2>2 DEF CapThenSplit
  <2> QED
    BY <1>4, <2>1, <2>2, <2>3
<1>7. ASSUME payer \in capped, capped # 1..n
      PROVE  shares[payer] < Due(payer) + n - 1
  <2>1. PICK spare \in 1..n : ask.cap[spare] = Uncapped
    BY <1>7
  <2>2. Total(split) \in Int /\ ask.budget - Total(split) < n - 1
    BY <1>3, <1>6, <1>7, <2>1, CapsAndRest
  <2>3. Total(split) <= Total(cents) /\ Total(cents) \in Int /\ cents[payer] \in Int
    BY <1>2, <1>4, TotalGrows, TotalType
  <2>4. cents[payer] = Due(payer)
    BY <1>6, <1>7
  <2> HIDE DEF Due
  <2> QED
    BY <1>2, <2>2, <2>3, <2>4
<1>8. \A a \in capped \ {payer} : shares[a] = Due(a)
  BY <1>2, <1>6
<1> QED
  BY <1>2, <1>5, <1>7, <1>8 DEF OneAgentPays

LEMMA AlwaysNearExact == SpendInv => NearExact
<1> SUFFICES ASSUME SpendInv, shares # <<>>, ask.floor <= 0,
                    ask.strategy # "cap_then_split"
             PROVE  NearExact
  BY DEF NearExact
<1>1. PICK n, payer, split : Paid(n, payer, split)
  BY AnswerPaid
<1>2. /\ SpendAgents(ask) = 1..n /\ Asked(ask, n) /\ Len(ask.score) = n
      /\ n \in Nat /\ ask.strategy \in Strategies /\ split \in Splits(ask)
  BY <1>1, PaidShares DEF Paid, Asked
<1>3. \A a \in 1..n : shares[a] \in {split[a], split[a] + (ask.budget - Total(split))}
  <2>1. Raised(ask, split) = split
    BY <1>2, RaisedType
  <2> QED
    BY <1>1, <2>1, PaidShares
<1> DEFINE Near(a, num, den) == Close(shares[a], num, den, n)
           t == Total(Clamped(ask))
<1>4. ASSUME NEW a \in 1..n
      PROVE  CASE ask.strategy = "score_weighted" /\ t # 0 ->
                    Near(a, ask.budget * Clamped(ask)[a], t)
               [] ask.strategy = "priority_first" /\ ask.first \notin {0, a} /\ n > 1 ->
                    Near(a, ask.budget * (100 - ask.percent), 100 * (n - 1))
               [] ask.strategy = "priority_first" /\ ask.first = a /\ n > 1 ->
                    Near(a, ask.budget * ask.percent, 100)
               [] OTHER -> Near(a, ask.budget, n)
  <2>1. CASE ask.strategy = "score_weighted" /\ t # 0
    <3>1. split \in Weighted(ask)
      BY <1>2, <2>1 DEF Splits
    <3>2. Near(a, ask.budget * Clamped(ask)[a], t)
      BY <1>2, <1>3, <2>1, <3>1, WeightedClose
    <3> QED
      BY <2>1, <3>2
  <2>2. CASE ask.strategy = "priority_first" /\ ask.first # 0 /\ n > 1
    <3>1. split \in PriorityFirst(ask)
      BY <1>2, <2>2 DEF Splits
    <3>2. IF a = ask.first THEN Near(a, ask.budget * ask.percent, 100)
          ELSE Near(a, ask.budget * (100 - ask.percent), 100 * (n - 1))
      BY <1>2, <1>3, <2>2, <3>1, PriorityClose
    <3> QED
      BY <2>2, <3>2
  <2>3. CASE /\ ~(ask.strategy = "score_weighted" /\ t # 0)
             /\ ~(ask.strategy = "priority_first" /\ ask.first # 0 /\ n > 1)
    <3>1. n >= 1
      BY <1>2 DEF Asked
    <3>2. ask.strategy \in {"equal_split", "score_weighted", "priority_first"}
      BY <1>2 DEF Strategies
    <3>3. ask.strategy = "priority_first" => PriorityFirst(ask) = {Equal(ask)}
      BY <1>2, <2>3, <3>1 DEF PriorityFirst
    <3>4. ask.strategy = "score_weighted" => Weighted(ask) = {Equal(ask)}
      BY <2>3 DEF Weighted
    <3>5. split = Equal(ask)
      BY <1>2, <3>2, <3>3, <3>4 DEF Splits
    <3>6. Near(a, ask.budget, n)
      BY <1>2, <1>3, <3>5, EqualClose
    <3> QED
      BY <2>3, <3>1, <3>6
  <2> QED
    BY <2>1, <2>2, <2>3, <1>2
<1> QED
  BY <1>2, <1>4 DEF NearExact, Close

LEMMA SpendInvariant == SpendSpec => []SpendInv
<1>1. SpendInit => SpendInv
  BY DEF SpendInit, SpendInv
<1>2. SpendInv /\ [SpendNext]_spendVars => SpendInv'
  BY DEF SpendInv, SpendNext, Allocate, spendVars
<1> QED
  BY <1>1, <1>2, PTL DEF SpendSpec

\* Whatever the budget, the agents, the floors and the caps: the shares add up
\* to the budget, without floors and caps nobody is further from the exact share
\* than one cent per agent, and but for one agent everybody has the floor, and
\* the larger of floor and cap exactly.  That one exceeds its cap by less than a
\* cent per other agent, unless all are capped.
THEOREM SharesStaySound == SpendSpec => []SpendSound
<1>1. SpendInv => SpendSound
  BY SharesAlwaysAddUp, AlwaysNearExact, OneAlwaysPays DEF SpendSound
<1> QED
  BY <1>1, SpendInvariant, PTL

\* A question stays what it is, and an answer has cents for every agent.
THEOREM SpendTypeCorrect == SpendSpec => []SpendTypeOK
<1>1. ASSUME SpendInv
      PROVE  SpendTypeOK
  <2>1. ask \in Questions
    BY <1>1 DEF SpendInv
  <2>2. CASE shares = <<>>
    BY <2>1, <2>2 DEF SpendTypeOK
  <2>3. CASE shares # <<>>
    <3>1. PICK n, payer, split : Paid(n, payer, split)
      BY <1>1, <2>3, AnswerPaid
    <3>2. shares \in [SpendAgents(ask) -> Int]
      BY <3>1, PaidShares
    <3> QED
      BY <2>1, <3>2 DEF SpendTypeOK
  <2> QED
    BY <2>2, <2>3
<1> QED
  BY <1>1, SpendInvariant, PTL

-----------------------------------------------------------------------------
(* The services together.                                                  *)

LEMMA SomethingToAsk == (CHOOSE q \in Questions : TRUE) \in Questions
<1> DEFINE q == Question("equal_split", 1, 0, Alike(1), 0, 40, Free(1))
<1>1. q \in Sized(1, 1, 0)
  BY DEF Sized
<1>2. 1 \in 1..MaxAgents /\ 1 \in 0..MaxBudget /\ 0 \in Floors
  BY AllocatorAssumption
<1>3. q \in Questions
  <2> HIDE DEF q
  <2> QED
    BY <1>1, <1>2 DEF Questions
<1> QED
  BY <1>3

\* Each step is a step of one service and leaves the others alone.
LEMMA StepOfOne ==
  ASSUME [ServicesNext]_<<focus, scope, Rest1, Rest2, Rest3>>
  PROVE  /\ [AuthNext]_authVars /\ [CtlNext]_ctlVars /\ [SeededNext]_seededVars
         /\ [FedNext]_fedVars /\ [LogNext]_logVars /\ [BrandNext]_brandVars
         /\ [SpendNext]_spendVars
BY DEF ServicesNext, Rest1, Rest2, Rest3

\* The services that the worker runs side by side do what each does alone.
THEOREM ServicesImplementEach ==
  ServicesSpec => /\ AuthSpec /\ CtlSpec /\ SeededSpec /\ FedSpec
                  /\ LogSpec /\ BrandSpec /\ SpendSpec
<1>1. ASSUME ServicesInit
      PROVE  /\ AuthInit /\ CtlInit /\ SeededInit /\ FedInit
             /\ LogInit /\ BrandInit /\ SpendInit
  BY <1>1, SomethingToAsk DEF ServicesInit, SpendInit
<1> QED
  BY <1>1, StepOfOne, PTL
     DEF ServicesSpec, AuthSpec, CtlSpec, SeededSpec, FedSpec, LogSpec, BrandSpec, SpendSpec

\* Every variable of the service that moves keeps its type.
THEOREM ServicesTypeCorrect == ServicesSpec => []ServicesTypeOK
<1>1. /\ AuthSpec => []AuthTypeOK
      /\ CtlSpec => []CtlTypeOK
      /\ SeededSpec => []SeededTypeOK
      /\ FedSpec => []FedTypeOK
      /\ LogSpec => []LogTypeOK
      /\ BrandSpec => []BrandTypeOK
      /\ SpendSpec => []SpendTypeOK
  <2>1. SeededSpec => []SeededTypeOK
    BY SeededTypeInit, SeededTypeStep, PTL DEF SeededSpec
  <2>2. LogSpec => []LogTypeOK
    BY LogTypeInit, LogTypeStep, PTL DEF LogSpec
  <2>3. BrandSpec => []BrandTypeOK
    BY BrandTypeInit, BrandTypeStep, PTL DEF BrandSpec
  <2> QED
    BY <2>1, <2>2, <2>3, AuthTypeCorrect, CtlTypeCorrect, FedTypeCorrect, SpendTypeCorrect
<1>2. ServicesSpec => [](focus \in Services)
  <2>1. ServicesInit => focus \in Services
    BY DEF ServicesInit
  <2>2. focus \in Services /\ [ServicesNext]_<<focus, scope, Rest1, Rest2, Rest3>>
          => (focus \in Services)'
    BY DEF ServicesNext
  <2> QED
    BY <2>1, <2>2, PTL DEF ServicesSpec
<1>3. /\ focus \in Services
      /\ AuthTypeOK /\ CtlTypeOK /\ SeededTypeOK /\ FedTypeOK
      /\ LogTypeOK /\ BrandTypeOK /\ SpendTypeOK
      => ServicesTypeOK
  BY DEF ServicesTypeOK, Services
<1> QED
  BY <1>1, <1>2, <1>3, ServicesImplementEach, PTL

\* So what holds of a service alone holds of it beside the others: each
\* property that the run of the services checks.
THEOREM ServicesKeepPromises ==
  ServicesSpec =>
    /\ [](StateUsedOnce /\ OperatorsIsolated /\ SerialTokensWhole)
    /\ [](OneShot /\ CompletionStays /\ TasksListed /\ SeedsAgree)
    /\ [](TripsOnRun /\ SessionsHealed /\ PlainRunsOnce /\ FetchedAtHonest)
    /\ [](ListFaithful /\ ListSound /\ SpendSound)
    /\ SerialTokensFresh /\ HiddenOnlyIfForeign /\ CoolsDown
<1>1. AuthSpec => /\ [](StateUsedOnce /\ OperatorsIsolated /\ SerialTokensWhole)
                  /\ SerialTokensFresh
  BY StatesUsedOnce, TokensIsolated, SerialWhole, SerialFresh, PTL
<1>2. CtlSpec => [](OneShot /\ CompletionStays /\ TasksListed) /\ HiddenOnlyIfForeign
  BY DirectivesOneShot, CompletionsStay, TasksAreListed, HiddenForeign, PTL
<1>3. SeededSpec => []SeedsAgree
  BY SeedsMatch
<1>4. FedSpec => [](TripsOnRun /\ SessionsHealed /\ PlainRunsOnce) /\ CoolsDown
  BY BreakerTrips, RenewalHeals, PlainOnce, BreakerCools, PTL
<1>5. BrandSpec => []FetchedAtHonest
  BY DatesHonest
<1>6. LogSpec => [](ListFaithful /\ ListSound)
  BY ListsStayFaithful, ListsStaySound, PTL
<1>7. SpendSpec => []SpendSound
  BY SharesStaySound
<1> QED
  BY <1>1, <1>2, <1>3, <1>4, <1>5, <1>6, <1>7, ServicesImplementEach, PTL

=============================================================================
