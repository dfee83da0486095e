---------------------------- MODULE ImmichCache ----------------------------
(***************************************************************************)
(* The per-session snapshot of the assets on the server                    *)
(* (src/immich/cache.rs) and the paged search it is loaded from            *)
(* (src/immich/search.rs).  An asset is [id, name, taken]; names are equal *)
(* when they differ in case only, and times are in any unit.  The snapshot *)
(* is the set of assets absorbed: the order within one name matters only   *)
(* when two of them lie in the window, and then any may answer.            *)
(***************************************************************************)
EXTENDS Integers, FiniteSets, FiniteSetsExt

CONSTANTS
  PageSize,        \* PAGE_SIZE
  TakenAtWindow,   \* TAKEN_AT_WINDOW
  BackfillSlop,    \* BACKFILL_SLOP of src/camera/session.rs
  Seniority,       \* [asset id -> Nat]: how the server breaks ties between equal times
  OfMake           \* ids of the assets whose EXIF Make is the camera's

ASSUME CacheAssumption ==
  PageSize \in Nat \ {0} /\ TakenAtWindow \in Nat /\ BackfillSlop \in Nat

\* No two assets tie.
ASSUME SeniorityAssumption ==
  \A i, k \in DOMAIN Seniority : Seniority[i] \in Int /\ (Seniority[i] = Seniority[k] => i = k)

NoTime == -1   \* an asset whose fileCreatedAt is null

InScope_EveryMake(library, scoped) == library

\* The search is scoped to the camera's make when that is known.
InScope(library, scoped) == IF scoped THEN {a \in library : a.id \in OfMake} ELSE library

\* External: descending by time, ties in a fixed order.
Before(a, b) == a.taken > b.taken \/ (a.taken = b.taken /\ Seniority[a.id] > Seniority[b.id])
Rank(a, library) == Cardinality({b \in library : Before(b, a)}) + 1

\* External: one page of the search, and whether more follow.
Page(library, n) == {a \in library : Rank(a, library) \in (n - 1) * PageSize + 1 .. n * PageSize}
MoreAfter(library, n) == Cardinality(library) > n * PageSize

Absorb_KeepsLastPage(cache, items) == {a \in items : a.taken # NoTime}

\* Items without a name or a time are passed over.
Absorb(cache, items) == cache \cup {a \in items : a.taken # NoTime}

\* Stop at a missing nextPage or at an empty page.
LastPage(items, next) == ~next \/ items = {}

NextPage_Forgotten(n) == n

NextPage(n) == n + 1

Distance(s, t) == IF s >= t THEN s - t ELSE t - s

FindExisting_ByNameOnly(cache, name, taken) == {a \in cache : a.name = name}

FindExisting_ExclusiveWindow(cache, name, taken) ==
  {a \in cache : a.name = name /\ Distance(a.taken, taken) < TakenAtWindow}

\* The assets find_existing may answer with; none is a miss.
FindExisting(cache, name, taken) ==
  {a \in cache : a.name = name /\ Distance(a.taken, taken) <= TakenAtWindow}

MaxTakenAt(cache) == Max({a.taken : a \in cache})

BeforeCutoff_WithoutSlop(cache, taken) == cache # {} /\ taken < MaxTakenAt(cache)

\* Older than the newest asset less the slop; without assets there is no cutoff.
BeforeCutoff(cache, taken) == cache # {} /\ taken < MaxTakenAt(cache) - BackfillSlop
=============================================================================
