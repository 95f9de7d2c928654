----------------------------- MODULE BrandCache -----------------------------
(***************************************************************************)
(* /brands/resolve for one domain: an entry in KV that is served while it  *)
(* is fresh, revalidated by its etag while it is stale, and replaced by    *)
(* what the registry (external) answers.  Concurrent requests revalidate   *)
(* and write on their own.                                                 *)
(***************************************************************************)
EXTENDS Naturals

CONSTANTS
  Resolvers,   \* slots for requests in flight
  MaxHour,     \* bound: the last hour
  MaxVersion,  \* bound: versions of the brand the registry publishes
  FreshFor,    \* RESOLVE_FRESH_SEC
  KeptFor      \* RESOLVE_TTL_SEC

ASSUME BrandAssumption == {MaxHour, MaxVersion, FreshFor, KeptFor} \subseteq Nat \ {0}

VARIABLES
  hour,      \* the clock
  published, \* the version the registry has; 0 if the brand was removed
  newest,    \* versions published so far
  entry,     \* the KV entry: body, fetched_at, the hour it lapses
  resolver,  \* the requests in flight
  \* History, read by properties only:
  upTo       \* the last hour each version was the registry's

brandVars == <<hour, published, newest, entry, resolver, upTo>>

BrandVersions == 1..MaxVersion

NoBrand == [body |-> 0, at |-> 0, until |-> 0]

\* body: the cached version being revalidated, or the one to be put.
BrandStages == {"none", "fetch", "put"}

BrandTypeOK ==
  /\ hour \in 0..MaxHour
  /\ newest \in BrandVersions
  /\ published \in 0..newest
  /\ entry \in [body : 0..MaxVersion, at : Nat, until : Nat]
  /\ resolver \in [Resolvers -> [stage : BrandStages, body : 0..MaxVersion, at : Nat]]
  /\ upTo \in [BrandVersions -> Nat]

NotResolving == [stage |-> "none", body |-> 0, at |-> 0]

BrandInit ==
  /\ hour = 0
  /\ published = 1
  /\ newest = 1
  /\ entry = NoBrand
  /\ resolver = [r \in Resolvers |-> NotResolving]
  /\ upTo = [v \in BrandVersions |-> 0]

Kept == entry.body # 0 /\ entry.until > hour

\* A fresh entry is the answer; a stale one is revalidated, a missing one
\* fetched (body 0).
StartResolve(r) ==
  /\ resolver[r] = NotResolving
  /\ ~(Kept /\ hour - entry.at < FreshFor)
  /\ resolver' = [resolver EXCEPT ![r] =
       [stage |-> "fetch", body |-> IF Kept THEN entry.body ELSE 0, at |-> 0]]
  /\ UNCHANGED <<hour, published, newest, entry, upTo>>

ToPut(r, v) ==
  resolver' = [resolver EXCEPT ![r] = [stage |-> "put", body |-> v, at |-> hour]]

\* 304, if the entry has an etag: the cached body is written again.
Unmodified(r) ==
  /\ resolver[r].stage = "fetch"
  /\ resolver[r].body # 0
  /\ published = resolver[r].body
  /\ ToPut(r, resolver[r].body)
  /\ UNCHANGED <<hour, published, newest, entry, upTo>>

\* 200.
Fetched(r) ==
  /\ resolver[r].stage = "fetch"
  /\ published # 0
  /\ ToPut(r, published)
  /\ UNCHANGED <<hour, published, newest, entry, upTo>>

\* Faulty: the stale body that is served is marked as fetched.
FallBackPut(r) ==
  /\ resolver[r].stage = "fetch"
  /\ IF resolver[r].body # 0 THEN ToPut(r, resolver[r].body)
     ELSE resolver' = [resolver EXCEPT ![r] = NotResolving]
  /\ UNCHANGED <<hour, published, newest, entry, upTo>>

\* Any other status, a timeout or a 404: an error or the stale body is the
\* answer, and the entry stays as it is.
FallBack(r) ==
  /\ resolver[r].stage = "fetch"
  /\ resolver' = [resolver EXCEPT ![r] = NotResolving]
  /\ UNCHANGED <<hour, published, newest, entry, upTo>>

PutBrand(r) ==
  /\ resolver[r].stage = "put"
  /\ entry' = [body |-> resolver[r].body, at |-> resolver[r].at, until |-> hour + KeptFor]
  /\ resolver' = [resolver EXCEPT ![r] = NotResolving]
  /\ UNCHANGED <<hour, published, newest, upTo>>

\* A failing put is not noticed.
PutBrandFails(r) ==
  /\ resolver[r].stage = "put"
  /\ resolver' = [resolver EXCEPT ![r] = NotResolving]
  /\ UNCHANGED <<hour, published, newest, entry, upTo>>

Publish ==
  /\ newest < MaxVersion
  /\ newest' = newest + 1
  /\ published' = newest + 1
  /\ upTo' = [upTo EXCEPT ![newest + 1] = hour]
  /\ UNCHANGED <<hour, entry, resolver>>

RemoveBrand ==
  /\ published # 0
  /\ published' = 0
  /\ UNCHANGED <<hour, newest, entry, resolver, upTo>>

NextHour ==
  /\ hour < MaxHour
  /\ hour' = hour + 1
  /\ upTo' = IF published = 0 THEN upTo ELSE [upTo EXCEPT ![published] = hour + 1]
  /\ UNCHANGED <<published, newest, entry, resolver>>

BrandNext ==
  \/ \E r \in Resolvers :
       \/ StartResolve(r) \/ Unmodified(r) \/ Fetched(r) \/ FallBack(r)
       \/ PutBrand(r) \/ PutBrandFails(r)
  \/ Publish
  \/ RemoveBrand
  \/ NextHour

BrandSpec == BrandInit /\ [][BrandNext]_brandVars

\* fetched_at is honest however revalidations overlap and late ones overwrite
\* newer entries: the body was still the registry's at that hour, so nothing
\* served as a hit has been out of date for as long as FreshFor.
FetchedAtHonest == entry.body # 0 => upTo[entry.body] >= entry.at

=============================================================================
