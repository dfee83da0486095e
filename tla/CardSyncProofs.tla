--------------------------- MODULE CardSyncProofs ---------------------------
(* Theorems about CardSync, for any card, folder tree, library and limits   *)
(* that its assumptions allow.                                              *)
EXTENDS CardSync, ImmichCacheProofs, SequenceTheorems

\* What the server may hold: photos that were on the card, and what other devices brought.
Uploaded == {[id |-> f, name |-> Name[f], taken |-> TakenAt[f] + d] : f \in card, d \in Drifts}
Stored == Uploaded \cup FirstLibrary \cup Foreign

LibraryInv ==
  /\ card \subseteq File
  /\ library \subseteq Stored /\ IsFiniteSet(library) /\ OnePerId(library)
  /\ cache \subseteq library /\ held \subseteq library /\ \A a \in cache : a.taken # NoTime
  /\ scoped => \A a \in cache : a.id \in OfMake
  /\ pending \subseteq card /\ late \subseteq card /\ left \subseteq card /\ seen \subseteq card

WalkInv ==
  /\ phase \in {"idle", "listing", "loading", "walking", "draining", "synced"}
  /\ folders \in Seq(Folder)
  /\ phase = "listing" => files \in Seq(card)
  /\ phase # "listing" => files \in Seq(seen)
  /\ phase \in {"idle", "listing"} => seen = {}
  /\ pending \subseteq seen
  /\ page \in Nat \ {0} /\ trouble \in BOOLEAN /\ scoped \in BOOLEAN
  /\ failures \in 0 .. MaxConsecutiveFailures
  /\ files # <<>> /\ phase = "walking" => failures < MaxConsecutiveFailures
  /\ phase # "walking" => failures = 0
  /\ phase # "loading" => page = 1
  /\ phase \notin {"walking", "draining"} => pending = {}
  /\ phase \in {"idle", "listing", "draining", "synced"} => cache = {}
  /\ phase \in {"idle", "draining", "synced"} => files = <<>>

-----------------------------------------------------------------------------
(* What a step does to the card and the library.                           *)

LEMMA InitLibrary == Init => LibraryInv
BY LibraryAssumption, CardAssumption, FS_EmptySet
   DEF Init, LibraryInv, Stored, OnePerId

\* The library grows by one asset at most, and by one that may be stored.
Grows == \/ library' = library
         \/ \E a : /\ a.id \notin OnServer /\ library' = library \cup {a} /\ a \in Stored'

LEMMA StoreGrows ==
  ASSUME LibraryInv, NEW f \in card, UNCHANGED card, Store(f)
  PROVE  Grows
<1>1. CASE f \in OnServer
  BY <1>1 DEF Store, Grows
<1>2. CASE f \notin OnServer
  <2>1. PICK d \in Drifts :
          library' = library \cup {[id |-> f, name |-> Name[f], taken |-> TakenAt[f] + d]}
    BY <1>2 DEF Store
  <2> DEFINE a == [id |-> f, name |-> Name[f], taken |-> TakenAt[f] + d]
  <2>2. a.id = f /\ a \in Stored'
    BY DEF Stored, Uploaded
  <2> QED
    BY <1>2, <2>1, <2>2 DEF Grows
<1> QED
  BY <1>1, <1>2

LEMMA CardGrows == LibraryInv /\ WalkInv /\ [Next]_vars =>
  /\ card \subseteq card' /\ card' \subseteq File
  /\ Grows
<1> SUFFICES ASSUME LibraryInv, WalkInv, [Next]_vars
             PROVE  card \subseteq card' /\ card' \subseteq File /\ Grows
  OBVIOUS
<1> USE DEF walk, snapshot, uploads, history
<1>0. card \subseteq File
  BY DEF LibraryInv
<1>1. CASE SessionStep \/ Kill \/ Unplug \/ Begin \/ UNCHANGED vars
  BY <1>0, <1>1 DEF SessionStep, Progress, ListFolder, Listed, LoadPage, VisitStep, Visit, PassOver,
     Skip, Recognise, Download, FileFails, WalkDone, Synced, LoadFails, BreakOff, Kill, Unplug, Begin,
     vars, Grows
<1>2. CASE \E f \in File : Shoot(f)
  BY <1>0, <1>2 DEF Shoot, Grows
<1>3. CASE \E a \in Foreign : OtherDevice(a)
  BY <1>0, <1>3 DEF OtherDevice, Grows, Stored
<1>4. CASE \E f \in File : Land(f) \/ LandLate(f)
  <2>1. PICK f \in File : Land(f) \/ LandLate(f)
    BY <1>4
  <2>2. f \in card /\ UNCHANGED card /\ Store(f)
    BY <2>1 DEF Land, LandLate, LibraryInv
  <2> QED
    BY <1>0, <2>2, StoreGrows
<1>5. CASE \E f \in File : Lose(f)
  BY <1>0, <1>5 DEF Lose, Grows
<1> QED
  BY <1>1, <1>2, <1>3, <1>4, <1>5 DEF Next, SettleStep, World

LEMMA LibraryGrows == LibraryInv /\ WalkInv /\ [Next]_vars =>
  library \subseteq library' /\ library' \subseteq Stored' /\ IsFiniteSet(library') /\ OnePerId(library')
<1> SUFFICES ASSUME LibraryInv, WalkInv, [Next]_vars
             PROVE  /\ library \subseteq library' /\ library' \subseteq Stored'
                    /\ IsFiniteSet(library') /\ OnePerId(library')
  OBVIOUS
<1>1. card \subseteq card' /\ Grows
  BY CardGrows
<1>2. Stored \subseteq Stored'
  BY <1>1 DEF Stored, Uploaded
<1>3. CASE library' = library
  BY <1>2, <1>3 DEF LibraryInv
<1>4. CASE library' # library
  <2>1. PICK a : a.id \notin OnServer /\ library' = library \cup {a} /\ a \in Stored'
    BY <1>1, <1>4 DEF Grows
  <2>2. IsFiniteSet(library')
    BY <2>1, FS_AddElement DEF LibraryInv
  <2>3. OnePerId(library')
    BY <2>1 DEF OnePerId, OnServer, LibraryInv
  <2> QED
    BY <1>2, <2>1, <2>2, <2>3 DEF LibraryInv
<1> QED
  BY <1>3, <1>4

\* What is in scope only grows while a session lasts.
LEMMA SearchedGrows ==
  ASSUME LibraryInv, WalkInv, [Next]_vars, scoped' = scoped
  PROVE  Searched \subseteq Searched'
BY LibraryGrows DEF Searched, InScope

LEMMA LibraryStep == LibraryInv /\ WalkInv /\ [Next]_vars => LibraryInv'
<1> SUFFICES ASSUME LibraryInv, WalkInv, [Next]_vars PROVE LibraryInv'
  OBVIOUS
<1>1. /\ card \subseteq card' /\ card' \subseteq File
      /\ library \subseteq library' /\ library' \subseteq Stored' /\ IsFiniteSet(library')
      /\ OnePerId(library')
  BY CardGrows, LibraryGrows
<1> USE DEF walk, snapshot, uploads, history
<1>2. /\ cache' \subseteq library' /\ held' \subseteq library' /\ \A a \in cache' : a.taken # NoTime
      /\ scoped' => \A a \in cache' : a.id \in OfMake
  <2>1. CASE UNCHANGED <<cache, held, scoped>> \/ (cache' = {} /\ UNCHANGED held) \/ (cache' = {} /\ held' = {})
    BY <1>1, <2>1 DEF LibraryInv
  <2>2. CASE Listed
    BY <1>1, <2>2 DEF Listed, Searched, InScope, LibraryInv
  <2>3. CASE LoadPage
    <3>1. cache' = cache \cup {a \in Page(Searched, page) : a.taken # NoTime} /\ UNCHANGED <<library, held, scoped>>
      BY <2>3 DEF LoadPage, Absorb
    <3>2. /\ Page(Searched, page) \subseteq library
          /\ scoped => \A a \in Page(Searched, page) : a.id \in OfMake
      BY DEF Page, Searched, InScope
    <3> QED
      BY <3>1, <3>2 DEF LibraryInv
  <2>4. \/ Listed \/ LoadPage \/ UNCHANGED <<cache, held, scoped>>
        \/ (cache' = {} /\ UNCHANGED held) \/ (cache' = {} /\ held' = {})
    BY DEF WalkInv, Next, SessionStep, Progress, ListFolder, VisitStep, Advance, PassOver, Skip, Recognise, Download,
       FileFails, WalkDone, Synced, LoadFails, BreakOff, Dropped, SettleStep, Land, Lose, World, Shoot,
       LandLate, OtherDevice, Kill, Unplug, Begin, vars
  <2> QED
    BY <2>1, <2>2, <2>3, <2>4
<1>3. pending' \subseteq card' /\ late' \subseteq card'
  <2>1. CASE Kill
    BY <1>1, <2>1 DEF Kill, LibraryInv
  <2>2. CASE \E f \in File : Download(f) \/ Lose(f) \/ Land(f) \/ LandLate(f)
    <3>1. PICK f \in File : Download(f) \/ Lose(f) \/ Land(f) \/ LandLate(f)
      BY <2>2
    <3>2. CASE Download(f)
      <4>1. f \in seen
        BY <3>2 DEF Download, Visit, WalkInv
      <4> QED
        BY <1>1, <3>2, <4>1 DEF Download, LibraryInv
    <3> QED
      BY <1>1, <3>1, <3>2 DEF Lose, Land, LandLate, LibraryInv
  <2>3. CASE UNCHANGED <<pending, late>>
    BY <1>1, <2>3 DEF LibraryInv
  <2>4. \/ Kill \/ UNCHANGED <<pending, late>>
        \/ \E f \in File : Download(f) \/ Lose(f) \/ Land(f) \/ LandLate(f)
    BY DEF Next, SessionStep, Progress, ListFolder, Listed, LoadPage, VisitStep, PassOver, Skip,
       Recognise, FileFails, WalkDone, Synced, LoadFails, BreakOff, SettleStep, World, Shoot,
       OtherDevice, Unplug, Begin, vars
  <2> QED
    BY <2>1, <2>2, <2>3, <2>4
<1>4. left' \subseteq card' /\ seen' \subseteq card'
  <2>1. /\ left' = left \/ left' = left \cup ((Photos \cap seen) \ OnServer)
        /\ seen' = seen \/ seen' = {} \/ seen' = card
    BY DEF Next, SessionStep, Progress, ListFolder, Listed, LoadPage, VisitStep, PassOver, Skip,
       Recognise, Download, FileFails, WalkDone, Synced, LoadFails, BreakOff, SettleStep, Land, Lose,
       World, Shoot, LandLate, OtherDevice, Kill, Unplug, Begin, LeftBehind, vars
  <2> QED
    BY <1>1, <2>1 DEF Photos, LibraryInv
<1> QED
  BY <1>1, <1>2, <1>3, <1>4 DEF LibraryInv

-----------------------------------------------------------------------------
(* The session's own variables.                                            *)

LEMMA ShortSeqs ==
  /\ <<>> \in Seq(Folder) /\ <<Root>> \in Seq(Folder)
  /\ \A S : <<>> \in Seq(S)
BY CardAssumption, EmptySeq

LEMMA InitWalk == Init => WalkInv
<1> SUFFICES ASSUME Init PROVE WalkInv
  OBVIOUS
<1>1. folders = <<>> /\ files = <<>> /\ failures = 0
  BY DEF Init
<1>2. folders \in Seq(Folder) /\ files \in Seq(seen)
  BY <1>1, ShortSeqs
<1>3. /\ phase = "idle" /\ page = 1 /\ pending = {} /\ cache = {} /\ seen = {}
      /\ trouble = FALSE /\ scoped = TRUE
  BY DEF Init
<1>4. failures \in 0 .. MaxConsecutiveFailures
  BY <1>1, CardAssumption
<1>5. /\ files # <<>> /\ phase = "walking" => failures < MaxConsecutiveFailures
      /\ phase # "walking" => failures = 0
      /\ phase \in {"idle", "draining", "synced"} => files = <<>>
  BY <1>1
<1>6. /\ phase \in {"idle", "listing", "loading", "walking", "draining", "synced"}
      /\ trouble \in BOOLEAN /\ scoped \in BOOLEAN
      /\ phase # "loading" => page = 1
      /\ phase \notin {"walking", "draining"} => pending = {}
      /\ phase \in {"idle", "listing", "draining", "synced"} => cache = {}
      /\ phase # "listing" /\ seen = {} /\ pending \subseteq seen
  BY <1>3
<1>7. page \in Nat \ {0}
  BY <1>3
<1> QED
  BY <1>2, <1>4, <1>5, <1>6, <1>7 DEF WalkInv

\* A turn of the walk.
LEMMA VisitWalk ==
  ASSUME LibraryInv, WalkInv, NEW f \in File,
         PassOver(f) \/ Skip(f) \/ Recognise(f) \/ Download(f) \/ FileFails(f)
  PROVE  WalkInv'
<1> USE DEF walk, snapshot, uploads, history
<1>1. /\ phase = "walking" /\ files # <<>> /\ UNCHANGED <<card, phase, folders, page, cache, scoped, seen>>
      /\ failures < MaxConsecutiveFailures
  BY DEF PassOver, Skip, Recognise, Download, FileFails, Visit, Advance, WalkInv
<1>2. Tail(files) \in Seq(seen) /\ Head(files) \in seen
  BY <1>1 DEF WalkInv
<1>3. MaxConsecutiveFailures \in Nat \ {0}
  BY CardAssumption
<1>4. CASE PassOver(f) \/ Skip(f) \/ Recognise(f) \/ Download(f)
  <2>1. /\ files' = Tail(files) /\ failures' \in {0, failures} /\ trouble' = trouble
        /\ pending' \subseteq pending \cup {Head(files)}
    BY <1>4 DEF PassOver, Skip, Recognise, Download, Visit, Advance
  <2> QED
    BY <1>1, <1>2, <1>3, <2>1 DEF WalkInv
<1>5. CASE FileFails(f)
  <2>1. /\ failures' = failures + 1 /\ trouble' = TRUE /\ pending' = pending
        /\ files' = IF failures' >= MaxConsecutiveFailures THEN <<>> ELSE Tail(files)
    BY <1>5 DEF FileFails, GiveUp
  <2>2. files' \in Seq(seen)
    BY <1>2, <2>1, ShortSeqs
  <2> QED
    BY <1>1, <1>3, <2>1, <2>2 DEF WalkInv
<1> QED
  BY <1>4, <1>5

LEMMA ListWalk ==
  ASSUME LibraryInv, WalkInv, ListFolder
  PROVE  WalkInv'
<1> USE DEF walk, snapshot, uploads, history
<1>1. phase = "listing" /\ folders # <<>> /\ folders \in Seq(Folder) /\ files \in Seq(card)
  BY DEF ListFolder, WalkInv
<1> DEFINE d == folders[Len(folders)]
           rest == SubSeq(folders, 1, Len(folders) - 1)
<1>2. d \in Folder /\ rest \in Seq(Folder)
  BY <1>1
<1>3. Subfolders[d] \in Seq(Folder) /\ FilesIn(d) \in Seq(card)
  BY <1>2, CardAssumption DEF FilesIn, LibraryInv
<1>4. PICK subs \in {<<>>, Subfolders[d]}, found \in {<<>>, FilesIn(d)} :
        /\ folders' = rest \o subs /\ files' = files \o found
        /\ trouble' = (trouble \/ subs # Subfolders[d] \/ found # FilesIn(d))
  BY DEF ListFolder
<1>5. folders' \in Seq(Folder) /\ files' \in Seq(card) /\ trouble' \in BOOLEAN
  <2>1. subs \in Seq(Folder) /\ found \in Seq(card)
    BY <1>3, <1>4, EmptySeq
  <2> HIDE DEF d, rest
  <2>2. folders' \in Seq(Folder) /\ files' \in Seq(card)
    BY <1>1, <1>2, <1>4, <2>1
  <2> QED
    BY <1>4, <2>2 DEF WalkInv
<1>6. UNCHANGED <<card, phase, scoped, failures, page, cache, pending, seen>>
  BY DEF ListFolder
<1> QED
  BY <1>1, <1>5, <1>6 DEF WalkInv

LEMMA WalkStep == LibraryInv /\ WalkInv /\ [Next]_vars => WalkInv'
<1> SUFFICES ASSUME LibraryInv, WalkInv, [Next]_vars PROVE WalkInv'
  OBVIOUS
<1> USE DEF walk, snapshot, uploads, history
<1>1. CASE VisitStep
  BY <1>1, VisitWalk DEF VisitStep
<1>2. CASE ListFolder
  BY <1>2, ListWalk
<1>3. CASE LoadPage
  BY <1>3, CardAssumption DEF LoadPage, NextPage, WalkInv
<1>4. CASE Listed \/ Synced
  <2>1. CASE Listed
    BY <2>1, CardAssumption DEF Listed, WalkInv
  <2>2. CASE Synced
    BY <2>2, CardAssumption DEF Synced, WalkInv
  <2> QED
    BY <1>4, <2>1, <2>2
<1>5. CASE LoadFails \/ BreakOff \/ WalkDone \/ Kill
  <2>1. Dropped /\ card' = card
    BY <1>5 DEF LoadFails, BreakOff, WalkDone, Kill
  <2>2. folders' = <<>> /\ files' = <<>> /\ failures' = 0 /\ page' = 1 /\ cache' = {}
    BY <2>1 DEF Dropped
  <2>3. folders' \in Seq(Folder) /\ files' \in Seq(seen')
    BY <2>2, ShortSeqs
  <2>4. failures' \in 0 .. MaxConsecutiveFailures
    BY <2>2, CardAssumption
  <2>5. /\ phase' \in {"idle", "draining"} /\ (phase' = "idle" => pending' = {} /\ seen' = {})
        /\ pending' \subseteq seen' /\ trouble' \in BOOLEAN /\ scoped' \in BOOLEAN
    BY <1>5 DEF LoadFails, BreakOff, WalkDone, Kill, WalkInv
  <2> QED
    BY <2>2, <2>3, <2>4, <2>5 DEF WalkInv
<1>6. CASE Unplug
  <2>1. files' = <<>>
    BY <1>6 DEF Unplug, WalkInv
  <2>2. files' \in Seq(seen')
    BY <2>1, ShortSeqs
  <2> QED
    BY <1>6, <2>2 DEF Unplug, WalkInv
<1>7. CASE Begin
  <2>1. files' = <<>>
    BY <1>7 DEF Begin, WalkInv
  <2>2. files' \in Seq(card')
    BY <2>1, ShortSeqs
  <2> QED
    BY <1>7, <2>2, ShortSeqs DEF Begin, WalkInv
<1>8. CASE \E f \in File : Shoot(f)
  BY <1>8 DEF Shoot, WalkInv
<1>9. CASE (\E f \in File : LandLate(f)) \/ (\E a \in Foreign : OtherDevice(a)) \/ UNCHANGED vars
  BY <1>9 DEF LandLate, OtherDevice, vars, WalkInv
<1>10. CASE SettleStep
  BY <1>10 DEF SettleStep, Land, Lose, WalkInv
<1> QED
  BY <1>1, <1>2, <1>3, <1>4, <1>5, <1>6, <1>7, <1>8, <1>9, <1>10
     DEF Next, SessionStep, Progress, World

LEMMA CardAlways == Spec => [](LibraryInv /\ WalkInv)
<1>1. Init => LibraryInv /\ WalkInv
  BY InitLibrary, InitWalk
<1>2. LibraryInv /\ WalkInv /\ [Next]_vars => LibraryInv' /\ WalkInv'
  BY LibraryStep, WalkStep
<1> QED
  BY <1>1, <1>2, PTL DEF Spec

-----------------------------------------------------------------------------
(* What is taken for known.                                                *)

\* The window and the drift do not bridge a round.
LEMMA RoundIsFar ==
  ASSUME NEW d \in Drifts, NEW s \in Int, NEW t \in Int,
         Distance(s + d, t) <= TakenAtWindow
  PROVE  ~(Distance(s, t) >= Round)
<1>1. d \in Int /\ Round \in Nat /\ TakenAtWindow \in Nat /\ TakenAtWindow + Distance(d, 0) < Round
  BY DriftAssumption, NamesAssumption, CacheAssumption
<1> QED
  BY <1>1 DEF Distance

LEMMA MatchIsOwn ==
  ASSUME LibraryInv, scoped, NEW f \in File, NEW a \in Matches(f)
  PROVE  a \in library /\ a.id = f
<1>1. a \in library /\ a \in Stored /\ a.taken # NoTime /\ a.id \in OfMake
  BY DEF Matches, FindExisting, LibraryInv
<1>2. a.name = Name[f] /\ Distance(a.taken, TakenAt[f]) <= TakenAtWindow /\ TakenAt[f] \in Int
  BY CardAssumption DEF Matches, FindExisting
<1>3. ASSUME a \in Uploaded PROVE a.id = f
  <2>1. PICK g \in card, d \in Drifts : a = [id |-> g, name |-> Name[g], taken |-> TakenAt[g] + d]
    BY <1>3 DEF Uploaded
  <2>2. g \in File /\ a.id = g /\ Name[g] = Name[f] /\ a.taken = TakenAt[g] + d /\ TakenAt[g] \in Int
    BY <1>2, <2>1, CardAssumption DEF LibraryInv
  <2>3. ~(Distance(TakenAt[g], TakenAt[f]) >= Round)
    BY <1>2, <2>2, RoundIsFar
  <2> QED
    BY <2>2, <2>3, NamesAssumption
<1>4. ASSUME a \in FirstLibrary \cup Foreign PROVE a.id = f
  <2>1. a.taken \in Int
    BY <1>4, LibraryAssumption
  <2>2. ASSUME NEW d \in Drifts PROVE ~(Distance(a.taken - d, TakenAt[f]) >= Round)
    <3>1. d \in Int /\ a.taken - d \in Int /\ (a.taken - d) + d = a.taken
      BY <2>1, DriftAssumption
    <3> QED
      BY <1>2, <3>1, RoundIsFar
  <2> QED
    BY <1>1, <1>2, <1>4, <2>2, NamesAssumption
<1> QED
  BY <1>1, <1>3, <1>4 DEF Stored

\* In a session that knows the make the asset that find_existing (src/immich/cache.rs)
\* answers with for a file is the file's own, however often the numbering comes round and
\* whatever names and times the assets of other makes have, the same ones included.
THEOREM KnownIsItselfAlways == Spec => []KnownIsItself
<1>1. LibraryInv /\ WalkInv => KnownIsItself
  BY MatchIsOwn DEF KnownIsItself
<1> QED
  BY <1>1, CardAlways, PTL

-----------------------------------------------------------------------------
(* The paged snapshot.                                                     *)

\* The pages fetched so far have shown whatever stands before the next one.
LoadInv ==
  /\ phase = "loading" =>
       /\ held \subseteq Searched
       /\ \A a \in held : a.taken # NoTime /\ Rank(a, Searched) <= Start(page) => a \in cache
  /\ SnapshotIsComplete

LEMMA LibraryOrdered ==
  ASSUME LibraryInv, NEW S \in SUBSET library
  PROVE  IsFiniteSet(S) /\ Ordered(S)
<1>1. S \in SUBSET library
  OBVIOUS
<1>2. IsFiniteSet(S)
  BY <1>1, FS_Subset DEF LibraryInv
<1>3. \A a \in library : a.taken \in Int /\ a.id \in DOMAIN Seniority
  <2> TAKE a \in library
  <2>1. CASE a \in Uploaded
    <3>1. PICK f \in card, d \in Drifts : a = [id |-> f, name |-> Name[f], taken |-> TakenAt[f] + d]
      BY <2>1 DEF Uploaded
    <3>2. f \in File /\ d \in Int /\ TakenAt[f] \in Int
      BY DriftAssumption, CardAssumption DEF LibraryInv
    <3> QED
      BY <3>1, <3>2, LibraryAssumption
  <2>2. CASE a \in FirstLibrary \cup Foreign
    BY <2>2, LibraryAssumption
  <2> QED
    BY <2>1, <2>2 DEF LibraryInv, Stored
<1>4. Ordered(S)
  BY <1>1, <1>3, SeniorityAssumption DEF Ordered, LibraryInv, OnePerId
<1> QED
  BY <1>2, <1>4

LEMMA SearchedOrdered == LibraryInv => IsFiniteSet(Searched) /\ Ordered(Searched)
<1>1. Searched \in SUBSET library
  BY DEF Searched, InScope
<1> QED
  BY <1>1, LibraryOrdered

LEMMA InitLoad == Init => LoadInv
BY DEF Init, LoadInv, SnapshotIsComplete

LEMMA LoadStep == LibraryInv /\ WalkInv /\ LoadInv /\ [Next]_vars => LoadInv'
<1> SUFFICES ASSUME LibraryInv, WalkInv, LoadInv, [Next]_vars PROVE LoadInv'
  OBVIOUS
<1> USE DEF walk, snapshot, uploads, history
<1>0. /\ IsFiniteSet(Searched) /\ Ordered(Searched) /\ page \in Nat \ {0}
      /\ IsFiniteSet(Searched')
  <2>1. IsFiniteSet(library') /\ Searched' \in SUBSET library'
    BY LibraryGrows DEF Searched, InScope
  <2>2. IsFiniteSet(Searched')
    BY <2>1, FS_Subset
  <2> QED
    BY <2>2, SearchedOrdered DEF WalkInv
<1>1. CASE Listed
  <2>1. /\ phase' = "loading" /\ page' = 1 /\ held' = Searched /\ Searched' = Searched
    BY <1>1 DEF Listed, WalkInv, Searched
  <2>2. \A a \in held' : ~(Rank(a, Searched') <= Start(1))
    BY <1>0, <2>1, RankType, StartType
  <2> QED
    BY <2>1, <2>2 DEF LoadInv, SnapshotIsComplete
<1>2. CASE LoadPage
  <2> DEFINE items == Page(Searched, page)
  <2>1. PICK next \in {TRUE, MoreAfter(Searched, page)} :
          IF LastPage(items, next) THEN phase' = "walking" /\ page' = 1
                                   ELSE page' = page + 1 /\ phase' = phase
    BY <1>2 DEF LoadPage, NextPage
  <2>2. /\ phase = "loading" /\ held' = held /\ Searched' = Searched
        /\ cache' = cache \cup {a \in items : a.taken # NoTime}
    BY <1>2 DEF LoadPage, Absorb, Searched
  <2>3. /\ held \subseteq Searched
        /\ \A a \in held : a.taken # NoTime /\ Rank(a, Searched) <= Start(page) => a \in cache
    BY <2>2 DEF LoadInv
  <2>4. CASE LastPage(items, next)
    <3>1. \A a \in held : Rank(a, Searched) <= Start(page) \/ a \in items
      BY <1>0, <2>3, <2>4, LastPageIsLast
    <3>2. {a \in held : a.taken # NoTime} \subseteq cache'
      BY <2>2, <2>3, <3>1
    <3> QED
      BY <2>1, <2>2, <2>4, <3>2 DEF LoadInv, SnapshotIsComplete
  <2>5. CASE ~LastPage(items, next)
    <3>1. phase' = "loading" /\ page' = page + 1
      BY <2>1, <2>2, <2>5
    <3>2. \A a \in held : Rank(a, Searched) <= Start(page + 1)
                            => Rank(a, Searched) <= Start(page) \/ a \in items
      BY <1>0, <2>3, OnPageOrBefore, StartType
    <3>3. \A a \in held : a.taken # NoTime /\ Rank(a, Searched) <= Start(page + 1) => a \in cache'
      BY <2>2, <2>3, <3>2
    <3> QED
      BY <2>2, <2>3, <3>1, <3>3 DEF LoadInv, SnapshotIsComplete
  <2> QED
    BY <2>4, <2>5
<1>3. CASE phase' = phase /\ scoped' = scoped /\ UNCHANGED <<page, cache, held>>
  <2>1. CASE phase = "loading"
    <3>1. Searched \subseteq Searched'
      BY <1>3, SearchedGrows
    <3>2. held \subseteq Searched'
      BY <2>1, <3>1 DEF LoadInv
    <3>3. \A a \in held : Rank(a, Searched') <= Start(page) => Rank(a, Searched) <= Start(page)
      <4> TAKE a \in held
      <4>1. Rank(a, Searched) <= Rank(a, Searched')
        BY <1>0, <3>1, RankGrows
      <4>2. Rank(a, Searched) \in Nat /\ Rank(a, Searched') \in Nat /\ Start(page) \in Nat
        BY <1>0, RankType, StartType
      <4> HIDE DEF Searched
      <4> QED
        BY <4>1, <4>2
    <3> QED
      BY <1>3, <2>1, <3>2, <3>3 DEF LoadInv, SnapshotIsComplete
  <2>2. CASE phase # "loading"
    BY <1>3, <2>2 DEF LoadInv, SnapshotIsComplete
  <2> QED
    BY <2>1, <2>2
<1>4. CASE phase' \notin {"loading", "walking"}
  BY <1>4 DEF LoadInv, SnapshotIsComplete
<1>5. CASE SessionStep
  BY <1>1, <1>2, <1>3, <1>4, <1>5 DEF SessionStep, Progress, ListFolder, VisitStep, Visit, Advance,
     PassOver, Skip, Recognise, Download, FileFails, WalkDone, Synced, LoadFails, BreakOff
<1>6. CASE SettleStep \/ World \/ UNCHANGED vars
  BY <1>3, <1>4, <1>6 DEF SettleStep, Land, Lose, World, Shoot, LandLate, OtherDevice, Kill, Unplug,
     Begin, vars
<1> QED
  BY <1>5, <1>6 DEF Next

\* However many assets arrive while the pages are fetched, moving others to later
\* pages, ImmichCache::load (src/immich/cache.rs) misses none the server already held.
THEOREM SnapshotIsCompleteAlways == Spec => []SnapshotIsComplete
<1>1. Init => LibraryInv /\ WalkInv /\ LoadInv
  BY InitLibrary, InitWalk, InitLoad
<1>2. LibraryInv /\ WalkInv /\ LoadInv /\ [Next]_vars => LibraryInv' /\ WalkInv' /\ LoadInv'
  BY LibraryStep, WalkStep, LoadStep
<1>3. LoadInv => SnapshotIsComplete
  BY DEF LoadInv
<1> QED
  BY <1>1, <1>2, <1>3, PTL DEF Spec

-----------------------------------------------------------------------------
(* What is not downloaded again.                                           *)

\* A photo's own asset, under its name and with a time, is in the window.
LEMMA OwnIsMatch ==
  ASSUME LibraryInv, NEW f \in File, NEW a \in cache, a.id = f, a.name = Name[f]
  PROVE  a \in Matches(f)
<1>1. a \in Stored /\ a.taken # NoTime
  BY DEF LibraryInv
<1>2. ASSUME a \in Uploaded PROVE Distance(a.taken, TakenAt[f]) <= TakenAtWindow
  <2>1. PICK g \in card, d \in Drifts : a = [id |-> g, name |-> Name[g], taken |-> TakenAt[g] + d]
    BY <1>2 DEF Uploaded
  <2>2. g = f /\ a.taken = TakenAt[f] + d
    BY <2>1
  <2>3. d \in Int /\ TakenAt[f] \in Int /\ Distance(d, 0) <= TakenAtWindow
    BY DriftAssumption, WindowAssumption, CardAssumption
  <2> QED
    BY <2>2, <2>3 DEF Distance
<1>3. ASSUME a \in FirstLibrary \cup Foreign PROVE Distance(a.taken, TakenAt[f]) <= TakenAtWindow
  BY <1>1, <1>3, WindowAssumption
<1> QED
  BY <1>1, <1>2, <1>3 DEF Stored, Matches, FindExisting

\* Only Download adds to pending, and only for a photo that nothing in the snapshot
\* answers for.
LEMMA DownloadsAreNew ==
  ASSUME LibraryInv, SnapshotIsComplete, Next, NEW f \in pending' \ pending
  PROVE  ~HeldUnderItsName(f)
<1>1. f \in File /\ Download(f)
  BY DEF Next, SessionStep, Progress, SettleStep, World, uploads, snapshot, walk, history,
     ListFolder, Listed, LoadPage, VisitStep, PassOver, Skip, Recognise, Download, FileFails,
     WalkDone, Synced, LoadFails, BreakOff, Land, Lose, LandLate, Shoot, OtherDevice, Kill,
     Unplug, Begin
<1>2. phase = "walking" /\ Matches(f) = {}
  BY <1>1 DEF Download, Visit
<1>3. SUFFICES ASSUME NEW a \in held, a.id = f, a.name = Name[f], a.taken # NoTime PROVE FALSE
  BY DEF HeldUnderItsName
<1>4. a \in cache
  BY <1>2, <1>3 DEF SnapshotIsComplete
<1> QED
  BY <1>1, <1>2, <1>3, <1>4, OwnIsMatch

\* A photo that the server held under its name and with a time when a session began to
\* load is not sent for upload by that session (src/camera/session.rs), whatever
\* arrives and moves while the pages are read.
THEOREM NothingIsDownloadedTwice == Spec => NothingDownloadedTwice
<1>1. LibraryInv /\ SnapshotIsComplete /\ [Next]_vars
        => [\A f \in pending' \ pending : ~HeldUnderItsName(f)]_vars
  BY DownloadsAreNew
<1> QED
  BY <1>1, CardAlways, SnapshotIsCompleteAlways, PTL DEF Spec, NothingDownloadedTwice

-----------------------------------------------------------------------------
(* Types.                                                                  *)

\* A page is asked for only when the one before it may have had an asset.
PageInv == page > 1 => (page - 2) * PageSize < Cardinality(library)

LEMMA DivBound ==
  ASSUME NEW c \in Nat, NEW p \in Nat \ {0}, NEW k \in Nat, k * p < c
  PROVE  k <= c \div p
<1> DEFINE q == c \div p
<1>1. q \in Nat /\ c < (q + 1) * p
  OBVIOUS
<1> HIDE DEF q
<1>2. \A m \in Nat : m >= q + 1 => m * p >= (q + 1) * p
  <2>1. \A m \in Nat : m >= q + 1 => (m - (q + 1)) * p >= 0
    BY <1>1
  <2> QED
    BY <1>1, <2>1
<1>3. k <= q
  BY <1>1, <1>2
<1> QED
  BY <1>3 DEF q

LEMMA PageStep == LibraryInv /\ WalkInv /\ PageInv /\ [Next]_vars => PageInv'
<1> SUFFICES ASSUME LibraryInv, WalkInv, PageInv, [Next]_vars PROVE PageInv'
  OBVIOUS
<1> USE DEF walk, snapshot, uploads, history
<1>0. page \in Nat \ {0} /\ WalkInv'
  BY WalkStep DEF WalkInv
<1>1. /\ IsFiniteSet(library) /\ IsFiniteSet(library')
      /\ Cardinality(library) \in Nat /\ Cardinality(library') \in Nat
      /\ Cardinality(library) <= Cardinality(library')
  BY LibraryGrows, FS_Subset, FS_CardinalityType DEF LibraryInv
<1>2. CASE page' = page
  <2>1. page > 1 => (page - 2) * PageSize \in Nat
    BY <1>0, CacheAssumption
  <2> QED
    BY <1>0, <1>1, <1>2, <2>1 DEF PageInv
<1>3. CASE page' # page /\ page' # 1
  <2>1. LoadPage
    BY <1>3 DEF Next, SessionStep, Progress, ListFolder, Listed, VisitStep, PassOver, Skip, Recognise,
       Download, FileFails, WalkDone, Synced, LoadFails, BreakOff, Dropped, SettleStep, Land, Lose,
       World, Shoot, LandLate, OtherDevice, Kill, Unplug, Begin, vars
  <2>2. page' = page + 1 /\ Page(Searched, page) # {} /\ library' = library
    BY <1>3, <2>1 DEF LoadPage, NextPage, LastPage
  <2>3. PICK a \in Searched : Rank(a, Searched) \in Start(page) + 1 .. page * PageSize
    BY <2>2 DEF Page, Start
  <2>4. Rank(a, Searched) <= Cardinality(Searched) /\ Rank(a, Searched) \in Nat
    BY SearchedOrdered, RankAtMost, RankType
  <2>5. Cardinality(Searched) <= Cardinality(library) /\ Cardinality(Searched) \in Nat
    <3>1. Searched \in SUBSET library
      BY DEF Searched, InScope
    <3> QED
      BY <1>1, <3>1, SearchedOrdered, FS_Subset, FS_CardinalityType
  <2>6. Start(page) < Cardinality(library)
    <3>1. Start(page) \in Nat /\ page * PageSize \in Nat
      BY <1>0, StartType
    <3> HIDE DEF Searched
    <3> QED
      BY <1>1, <2>3, <2>4, <2>5, <3>1
  <2>7. Start(page) = (page' - 2) * PageSize
    BY <1>0, <2>2, CacheAssumption DEF Start
  <2> QED
    BY <2>2, <2>6, <2>7 DEF PageInv
<1>4. CASE page' = 1
  BY <1>4 DEF PageInv
<1> QED
  BY <1>2, <1>3, <1>4

LEMMA TypeByInv == LibraryInv /\ WalkInv /\ PageInv => TypeOK
<1> SUFFICES ASSUME LibraryInv, WalkInv, PageInv PROVE TypeOK
  OBVIOUS
<1>1. library \subseteq Asset
  <2>1. Uploaded \subseteq Asset
    BY DEF Uploaded, Asset, LibraryInv
  <2> QED
    BY <2>1 DEF Stored, Asset, LibraryInv
<1>2. page \in 1 .. Cardinality(library) \div PageSize + 2
  <2> DEFINE c == Cardinality(library)
  <2>1. c \in Nat /\ PageSize \in Nat \ {0} /\ page \in Nat \ {0}
    BY FS_CardinalityType, CacheAssumption DEF LibraryInv, WalkInv
  <2> HIDE DEF c
  <2>2. c \div PageSize \in Nat
    BY <2>1
  <2>3. CASE page > 1
    <3>1. page - 2 \in Nat /\ (page - 2) * PageSize < c
      BY <2>1, <2>3 DEF PageInv, c
    <3>2. page - 2 <= c \div PageSize
      BY <2>1, <3>1, DivBound
    <3> QED
      BY <2>1, <2>2, <3>2 DEF c
  <2>4. CASE page = 1
    BY <2>2, <2>4 DEF c
  <2> QED
    BY <2>1, <2>3, <2>4
<1>3. files \in Seq(File)
  BY SeqMonotonic DEF LibraryInv, WalkInv
<1> QED
  BY <1>1, <1>2, <1>3 DEF LibraryInv, WalkInv, TypeOK

\* Every variable keeps its type; consecutive_failures (src/camera/session.rs) never
\* passes its limit, and the snapshot is never read past the first empty page.
THEOREM CardSyncTypeCorrect == Spec => []TypeOK
<1>1. Init => LibraryInv /\ WalkInv /\ PageInv
  BY InitLibrary, InitWalk DEF Init, PageInv
<1>2. LibraryInv /\ WalkInv /\ PageInv /\ [Next]_vars => LibraryInv' /\ WalkInv' /\ PageInv'
  BY LibraryStep, WalkStep, PageStep
<1> QED
  BY <1>1, <1>2, TypeByInv, PTL DEF Spec

-----------------------------------------------------------------------------
(* Nothing is left behind.                                                 *)

\* Photos whose absence from the server no troubled session accounts for.
Fresh == {f \in Photos : f \notin OnServer /\ f \notin left}

\* No asset that a later session will see, or that may still arrive, is newer by more than
\* the slop than a fresh photo that this session does not yet, or never will, walk to.
NewestInv ==
  /\ \A f \in Fresh : phase \in {"idle", "listing", "loading"} \/ f \notin seen =>
       /\ \A a \in library : a.id \in OfMake => a.taken <= TakenAt[f] + BackfillSlop
       /\ \A g \in late : TakenAt[g] <= TakenAt[f]
  /\ \A f \in Fresh \ seen, g \in seen : TakenAt[g] <= TakenAt[f]
  /\ phase \in {"loading", "walking"} /\ scoped =>
       \A f \in Fresh, a \in cache : a.taken <= TakenAt[f] + BackfillSlop

\* Where a fresh photo of the session's listing is on its way from the card to the server.
WayInv ==
  /\ phase = "listing" /\ ~trouble =>
       \E under \in [Folder -> SUBSET File] :
         /\ Tree(card, under)
         /\ card \subseteq Range(files) \cup UNION {under[d] : d \in Range(folders)}
  /\ phase = "loading" /\ ~trouble => seen \subseteq Range(files)
  /\ phase \in {"walking", "draining", "synced"} /\ ~trouble /\ scoped =>
       Fresh \cap seen \subseteq Range(files) \cup pending

LEMMA CleanByInv == WalkInv /\ WayInv => CleanSessionLeavesNothing
<1> SUFFICES ASSUME WalkInv, WayInv, phase = "synced", ~trouble, scoped
             PROVE  Photos \cap seen \subseteq OnServer \cup left
  BY DEF CleanSessionLeavesNothing
<1>1. pending = {} /\ files = <<>>
  BY DEF WalkInv
<1>2. Range(files) = {}
  BY <1>1 DEF Range
<1>3. Fresh \cap seen = {}
  BY <1>1, <1>2 DEF WayInv
<1> QED
  BY <1>3 DEF Fresh

\* Only the photographer makes photos fresh.
LEMMA FreshShrinks ==
  ASSUME LibraryInv, WalkInv, [Next]_vars, card' = card
  PROVE  Fresh' \subseteq Fresh
<1>1. OnServer \subseteq OnServer'
  BY LibraryGrows DEF OnServer
<1>2. left \subseteq left'
  BY DEF Next, SessionStep, Progress, ListFolder, Listed, LoadPage, VisitStep, PassOver, Skip,
     Recognise, Download, FileFails, WalkDone, Synced, LoadFails, BreakOff, SettleStep, Land, Lose,
     World, Shoot, LandLate, OtherDevice, Kill, Unplug, Begin, LeftBehind, vars, walk, snapshot,
     uploads, history
<1> QED
  BY <1>1, <1>2 DEF Fresh, Photos

\* The cutoff spares a fresh photo.
LEMMA FreshIsNotTooOld ==
  ASSUME LibraryInv, NewestInv, phase = "walking", scoped, NEW f \in Fresh
  PROVE  ~TooOld(f)
<1> SUFFICES ASSUME cache # {} PROVE ~(TakenAt[f] < MaxTakenAt(cache) - BackfillSlop)
  BY DEF TooOld, BeforeCutoff
<1>1. IsFiniteSet(cache) /\ Ordered(cache)
  BY LibraryOrdered DEF LibraryInv
<1>2. PICK a \in cache : MaxTakenAt(cache) = a.taken
  BY <1>1, MaxIsTaken
<1>3. a.taken <= TakenAt[f] + BackfillSlop /\ a.taken \in Int
  BY <1>1 DEF NewestInv, Ordered
<1>4. TakenAt[f] \in Int /\ BackfillSlop \in Int
  BY CardAssumption, CacheAssumption DEF Fresh, Photos, LibraryInv
<1> QED
  BY <1>2, <1>3, <1>4

\* A photo that was shot last is as new as any asset of the make.
LEMMA ShotIsNewest ==
  ASSUME LibraryInv, NEW f \in File, \A g \in card : TakenAt[g] <= TakenAt[f],
         NEW a \in Stored, a.id \in OfMake
  PROVE  a.taken <= TakenAt[f] + BackfillSlop
<1>1. CASE a \in Uploaded
  <2>1. PICK g \in card, d \in Drifts : a = [id |-> g, name |-> Name[g], taken |-> TakenAt[g] + d]
    BY <1>1 DEF Uploaded
  <2>2. a.taken = TakenAt[g] + d /\ TakenAt[g] <= TakenAt[f]
    BY <2>1
  <2>3. d \in Int /\ d <= BackfillSlop /\ TakenAt[g] \in Int /\ TakenAt[f] \in Int /\ BackfillSlop \in Int
    BY DriftAssumption, CardAssumption, CacheAssumption DEF LibraryInv
  <2> QED
    BY <2>2, <2>3
<1>2. CASE a \in FirstLibrary \cup Foreign
  BY <1>2, LibraryAssumption
<1> QED
  BY <1>1, <1>2 DEF Stored

LEMMA InitNewest == Init => NewestInv /\ WayInv
<1> SUFFICES ASSUME Init PROVE NewestInv /\ WayInv
  OBVIOUS
<1>1. phase = "idle" /\ library = FirstLibrary /\ late = {} /\ card = FirstCard /\ seen = {}
  BY DEF Init
<1>2. \A f \in Fresh, a \in library : a.id \in OfMake => a.taken <= TakenAt[f] + BackfillSlop
  BY <1>1, LibraryAssumption, CardAssumption DEF Fresh, Photos
<1> QED
  BY <1>1, <1>2 DEF NewestInv, WayInv

\* A step that stores nothing, and after which seen is as it was or the whole card.
LEMMA QuietKeepsNewest ==
  ASSUME NewestInv, Fresh' \subseteq Fresh, Fresh \subseteq card, UNCHANGED <<library, late>>,
         \/ seen' = seen
         \/ seen' = card,
         phase' \in {"idle", "listing", "loading"} => phase \in {"idle", "listing", "loading"},
         phase' \in {"loading", "walking"} /\ scoped' =>
           \/ cache' = {}
           \/ phase \in {"loading", "walking"} /\ scoped /\ cache' = cache
  PROVE  NewestInv'
<1>1. Fresh' \ seen' \subseteq Fresh \ seen
  <2>1. CASE seen' = seen
    BY <2>1
  <2>2. CASE seen' = card
    BY <2>2
  <2> QED
    BY <2>1, <2>2
<1>2. \A f \in Fresh' \ seen', g \in seen' : TakenAt[g] <= TakenAt[f]
  <2>1. CASE seen' = seen
    BY <1>1, <2>1 DEF NewestInv
  <2>2. CASE seen' = card
    BY <2>2
  <2> QED
    BY <2>1, <2>2
<1> QED
  BY <1>1, <1>2 DEF NewestInv

\* A photo of this session's listing is stored, or given up on, no later than a fresh
\* photo was shot that is not in the listing.
LEMMA StoreKeepsNewest ==
  ASSUME LibraryInv, NewestInv, Fresh' \subseteq Fresh, NEW g \in card,
         UNCHANGED <<phase, seen, scoped, cache>>, late' \subseteq late \cup {g},
         Store(g) \/ library' = library,
         \A f \in Fresh : phase \in {"idle", "listing", "loading"} \/ f \notin seen =>
           TakenAt[g] <= TakenAt[f]
  PROVE  NewestInv'
<1>1. \A a \in library' : a \in library \/ \E d \in Drifts : a.taken = TakenAt[g] + d
  BY DEF Store
<1>2. ASSUME NEW f \in Fresh, phase \in {"idle", "listing", "loading"} \/ f \notin seen,
             NEW a \in library', a.id \in OfMake
      PROVE  a.taken <= TakenAt[f] + BackfillSlop
  <2>1. CASE a \in library
    BY <1>2, <2>1 DEF NewestInv
  <2>2. CASE \E d \in Drifts : a.taken = TakenAt[g] + d
    <3>1. PICK d \in Drifts : a.taken = TakenAt[g] + d
      BY <2>2
    <3>2. TakenAt[g] <= TakenAt[f]
      BY <1>2
    <3>3. d \in Int /\ d <= BackfillSlop /\ TakenAt[g] \in Int /\ TakenAt[f] \in Int /\ BackfillSlop \in Int
      BY DriftAssumption, CardAssumption, CacheAssumption DEF LibraryInv, Fresh, Photos
    <3> QED
      BY <3>1, <3>2, <3>3
  <2> QED
    BY <1>1, <2>1, <2>2
<1> QED
  BY <1>2 DEF NewestInv

LEMMA NewestStep ==
  LibraryInv /\ WalkInv /\ NewestInv /\ WayInv /\ [Next]_vars => NewestInv'
<1> SUFFICES ASSUME LibraryInv, WalkInv, NewestInv, WayInv, [Next]_vars PROVE NewestInv'
  OBVIOUS
<1> USE DEF walk, snapshot, uploads, history
<1>0. (card' = card => Fresh' \subseteq Fresh) /\ Fresh \subseteq card
  BY FreshShrinks DEF Fresh, Photos
<1>1. ASSUME NEW h \in File, Shoot(h) PROVE NewestInv'
  <2>1. /\ UNCHANGED <<phase, library, late, left, seen, scoped, cache>>
        /\ \A g \in card : TakenAt[g] <= TakenAt[h]
    BY <1>1 DEF Shoot
  <2>2. Fresh' \subseteq Fresh \cup {h}
    BY <1>1, <2>1 DEF Shoot, Fresh, Photos, OnServer
  <2>3. \A a \in library : a.id \in OfMake => a.taken <= TakenAt[h] + BackfillSlop
    BY <2>1, ShotIsNewest DEF LibraryInv
  <2>4. \A g \in late \cup seen : TakenAt[g] <= TakenAt[h]
    BY <2>1 DEF LibraryInv
  <2>5. scoped => \A a \in cache : a.taken <= TakenAt[h] + BackfillSlop
    BY <2>3 DEF LibraryInv
  <2> QED
    BY <2>1, <2>2, <2>3, <2>4, <2>5 DEF NewestInv
<1>2. ASSUME NEW a \in Foreign, OtherDevice(a) PROVE NewestInv'
  <2>1. library' = library \cup {a} /\ UNCHANGED <<card, phase, late, scoped, cache, seen>>
    BY <1>2 DEF OtherDevice
  <2>2. a.id \in OfMake => \A f \in Fresh : a.taken <= TakenAt[f] + BackfillSlop
    BY LibraryAssumption DEF Fresh, Photos, LibraryInv
  <2> QED
    BY <1>0, <2>1, <2>2 DEF NewestInv
<1>3. ASSUME NEW g \in File, LandLate(g) PROVE NewestInv'
  <2>1. /\ g \in late /\ late' \subseteq late /\ UNCHANGED <<card, phase, scoped, cache, seen>>
        /\ Store(g) /\ g \in card
    BY <1>3 DEF LandLate, LibraryInv
  <2>2. \A f \in Fresh : phase \in {"idle", "listing", "loading"} \/ f \notin seen => TakenAt[g] <= TakenAt[f]
    BY <2>1 DEF NewestInv
  <2> QED
    BY <1>0, <2>1, <2>2, StoreKeepsNewest
<1>4. CASE Kill
  <2>1. /\ UNCHANGED <<card, library>> /\ phase' = "idle" /\ late' = late \cup pending
        /\ seen' = {} /\ pending \subseteq seen
    BY <1>4 DEF Kill, WalkInv
  <2>2. CASE phase \in {"walking", "draining"}
    <3>1. Fresh' \subseteq Fresh \ seen
      BY <1>0, <1>4, <2>1, <2>2 DEF Kill, LeftBehind, Fresh, Photos, OnServer
    <3>2. \A f \in Fresh \ seen, g \in pending : TakenAt[g] <= TakenAt[f]
      BY <2>1 DEF NewestInv
    <3> QED
      BY <2>1, <3>1, <3>2 DEF NewestInv
  <2>3. CASE phase \notin {"walking", "draining"}
    <3>1. phase \in {"listing", "loading"} /\ late' = late
      BY <1>4, <2>1, <2>3 DEF Kill, WalkInv
    <3> QED
      BY <1>0, <2>1, <3>1 DEF NewestInv
  <2> QED
    BY <2>2, <2>3
<1>5. CASE Unplug
  <2>1. UNCHANGED <<card, library, late>> /\ phase' = "idle" /\ phase = "synced" /\ seen' = {}
    BY <1>5 DEF Unplug
  <2>2. Fresh' \subseteq Fresh \ seen
    <3>1. CASE trouble \/ ~scoped
      BY <1>0, <1>5, <2>1, <3>1 DEF Unplug, LeftBehind, Fresh, Photos, OnServer
    <3>2. CASE ~trouble /\ scoped
      <4>1. Photos \cap seen \subseteq OnServer \cup left
        BY <2>1, <3>2, CleanByInv DEF CleanSessionLeavesNothing
      <4>2. Fresh \cap seen = {}
        BY <4>1 DEF Fresh
      <4> QED
        BY <1>0, <2>1, <4>2
    <3> QED
      BY <3>1, <3>2
  <2> QED
    BY <2>1, <2>2 DEF NewestInv
<1>6. CASE LoadPage
  <2>1. /\ phase = "loading" /\ UNCHANGED <<card, library, late, scoped, seen>>
        /\ phase' \in {"loading", "walking"}
        /\ cache' = cache \cup {a \in Page(Searched, page) : a.taken # NoTime}
    BY <1>6 DEF LoadPage, Absorb
  <2>2. scoped => \A a \in Page(Searched, page) : a \in library /\ a.id \in OfMake
    BY DEF Page, Searched, InScope
  <2>3. scoped => \A f \in Fresh, a \in cache' : a.taken <= TakenAt[f] + BackfillSlop
    BY <2>1, <2>2 DEF NewestInv
  <2> QED
    BY <1>0, <2>1, <2>3 DEF NewestInv
<1>7. CASE Listed
  <2>1. cache' = {} /\ phase = "listing" /\ UNCHANGED <<card, library, late>> /\ seen' = card
    BY <1>7 DEF Listed, WalkInv
  <2> QED
    BY <1>0, <2>1, QuietKeepsNewest
<1>8. CASE Begin \/ ListFolder
  <2>1. /\ phase' = "listing" /\ phase \in {"idle", "listing"}
        /\ UNCHANGED <<card, library, late, seen>>
    BY <1>8 DEF Begin, ListFolder
  <2> QED
    BY <1>0, <2>1, QuietKeepsNewest
<1>9. CASE LoadFails
  <2>1. /\ phase = "loading" /\ phase' = "idle" /\ UNCHANGED <<card, library, late>>
        /\ seen' = {}
    BY <1>9 DEF LoadFails
  <2> QED
    BY <1>0, <2>1 DEF NewestInv
<1>10. CASE WalkDone \/ Synced \/ BreakOff
  <2>1. phase' \in {"draining", "synced"} /\ UNCHANGED <<card, library, late, seen>>
    BY <1>10 DEF WalkDone, Synced, BreakOff
  <2> QED
    BY <1>0, <2>1, QuietKeepsNewest
<1>11. CASE VisitStep
  <2>1. phase' = phase /\ phase = "walking" /\ UNCHANGED <<card, scoped, cache, library, late, seen>>
    BY <1>11 DEF VisitStep, PassOver, Skip, Recognise, Download, FileFails, Visit, Advance
  <2> QED
    BY <1>0, <2>1, QuietKeepsNewest
<1>12. ASSUME NEW g \in File, Land(g) \/ Lose(g) PROVE NewestInv'
  <2>1. /\ UNCHANGED <<phase, card, scoped, cache, seen>> /\ g \in pending
        /\ late' \subseteq late \cup {g} /\ (Store(g) \/ library' = library)
    BY <1>12 DEF Land, Lose
  <2>2. g \in seen /\ g \in card /\ phase \in {"walking", "draining"}
    BY <2>1 DEF WalkInv, LibraryInv
  <2>3. \A f \in Fresh : f \notin seen => TakenAt[g] <= TakenAt[f]
    BY <2>2 DEF NewestInv
  <2> QED
    BY <1>0, <2>1, <2>2, <2>3, StoreKeepsNewest
<1>13. CASE UNCHANGED vars
  BY <1>0, <1>13, QuietKeepsNewest DEF vars
<1> QED
  BY <1>1, <1>2, <1>3, <1>4, <1>5, <1>6, <1>7, <1>8, <1>9, <1>10, <1>11, <1>12, <1>13
     DEF Next, SessionStep, Progress, SettleStep, World

LEMMA RangeOfConcat ==
  ASSUME NEW S, NEW s \in Seq(S), NEW t \in Seq(S)
  PROVE  Range(s) \cup Range(t) \subseteq Range(s \o t)
<1>1. \A i \in DOMAIN s : i \in DOMAIN (s \o t) /\ (s \o t)[i] = s[i]
  OBVIOUS
<1>2. \A i \in DOMAIN t : Len(s) + i \in DOMAIN (s \o t) /\ (s \o t)[Len(s) + i] = t[i]
  OBVIOUS
<1> QED
  BY <1>1, <1>2 DEF Range

LEMMA RangeOfStack ==
  ASSUME NEW S, NEW s \in Seq(S), s # <<>>
  PROVE  /\ SubSeq(s, 1, Len(s) - 1) \in Seq(S)
         /\ Range(s) \subseteq Range(SubSeq(s, 1, Len(s) - 1)) \cup {s[Len(s)]}
<1> DEFINE r == SubSeq(s, 1, Len(s) - 1)
<1>1. r \in Seq(S) /\ \A i \in DOMAIN s : i = Len(s) \/ (i \in DOMAIN r /\ r[i] = s[i])
  OBVIOUS
<1> HIDE DEF r
<1>2. Range(s) \subseteq Range(r) \cup {s[Len(s)]}
  BY <1>1 DEF Range
<1> QED
  BY <1>1, <1>2 DEF r

LEMMA RangeOfTail ==
  ASSUME NEW S, NEW s \in Seq(S), s # <<>>
  PROVE  Range(s) \subseteq Range(Tail(s)) \cup {Head(s)}
<1>1. \A i \in DOMAIN s : s[i] = Head(s) \/ (i - 1 \in DOMAIN Tail(s) /\ Tail(s)[i - 1] = s[i])
  OBVIOUS
<1> QED
  BY <1>1 DEF Range

\* A folder that is listed hands what lies in it to files and to the folders below it.
LEMMA ListKeepsWay ==
  ASSUME LibraryInv, WalkInv, WayInv, ListFolder
  PROVE  WayInv'
<1> USE DEF walk, snapshot, uploads, history
<1> DEFINE d == folders[Len(folders)]
           rest == SubSeq(folders, 1, Len(folders) - 1)
<1>1. /\ phase = "listing" /\ phase' = "listing" /\ card' = card
      /\ folders # <<>> /\ folders \in Seq(Folder) /\ files \in Seq(card)
  BY DEF ListFolder, WalkInv
<1>2. d \in Folder /\ rest \in Seq(Folder) /\ Range(folders) \subseteq Range(rest) \cup {d}
  BY <1>1, RangeOfStack
<1>3. Subfolders[d] \in Seq(Folder) /\ FilesIn(d) \in Seq(card)
  BY <1>2, CardAssumption DEF FilesIn, LibraryInv
<1>4. PICK subs \in {<<>>, Subfolders[d]}, found \in {<<>>, FilesIn(d)} :
        /\ folders' = rest \o subs /\ files' = files \o found
        /\ trouble' = (trouble \/ subs # Subfolders[d] \/ found # FilesIn(d))
  BY DEF ListFolder
<1> HIDE DEF d, rest
<1>5. ASSUME ~trouble'
      PROVE  \E under \in [Folder -> SUBSET File] :
               /\ Tree(card, under)
               /\ card \subseteq Range(files') \cup UNION {under[e] : e \in Range(folders')}
  <2>1. ~trouble /\ folders' = rest \o Subfolders[d] /\ files' = files \o FilesIn(d)
    BY <1>4, <1>5
  <2>2. PICK under \in [Folder -> SUBSET File] :
          /\ Tree(card, under)
          /\ card \subseteq Range(files) \cup UNION {under[e] : e \in Range(folders)}
    BY <1>1, <2>1 DEF WayInv
  <2>3. /\ Range(files) \subseteq Range(files') /\ Range(FilesIn(d)) \subseteq Range(files')
        /\ Range(rest) \subseteq Range(folders') /\ Range(Subfolders[d]) \subseteq Range(folders')
    BY <1>1, <1>2, <1>3, <2>1, RangeOfConcat
  <2>4. under[d] \subseteq Range(FilesIn(d)) \cup UNION {under[e] : e \in Range(Subfolders[d])}
    BY <1>2, <2>2 DEF Tree, FilesIn
  <2>5. card \subseteq Range(files') \cup UNION {under[e] : e \in Range(folders')}
    <3> SUFFICES ASSUME NEW f \in card, f \notin Range(files')
                 PROVE  \E e \in Range(folders') : f \in under[e]
      OBVIOUS
    <3>1. PICK e \in Range(folders) : f \in under[e]
      BY <2>2, <2>3
    <3>2. CASE e = d
      BY <2>3, <2>4, <3>1, <3>2
    <3>3. CASE e \in Range(rest)
      BY <2>3, <3>1, <3>3
    <3> QED
      BY <1>2, <3>1, <3>2, <3>3
  <2> QED
    BY <2>2, <2>5
<1> QED
  BY <1>1, <1>5 DEF WayInv

\* A fresh photo that is visited is accepted by the pipeline, or the visit fails.
LEMMA VisitKeepsWay ==
  ASSUME LibraryInv, WalkInv, NewestInv, WayInv, [Next]_vars, NEW g \in File,
         PassOver(g) \/ Skip(g) \/ Recognise(g) \/ Download(g) \/ FileFails(g)
  PROVE  WayInv'
<1> USE DEF walk, snapshot, uploads, history
<1>1. /\ phase = "walking" /\ phase' = phase /\ UNCHANGED <<card, scoped, seen>>
      /\ files # <<>> /\ g = Head(files)
  BY DEF PassOver, Skip, Recognise, Download, FileFails, Visit, Advance
<1>2. Fresh' \subseteq Fresh
  BY <1>1, FreshShrinks
<1>3. ASSUME ~trouble', scoped, NEW f \in Fresh' \cap seen
      PROVE  f \in Range(files') \cup pending'
  <2>1. PassOver(g) \/ Skip(g) \/ Recognise(g) \/ Download(g)
    BY <1>3 DEF FileFails
  <2>2. trouble' = trouble /\ files' = Tail(files) /\ pending \subseteq pending'
    BY <2>1 DEF PassOver, Skip, Recognise, Download, Advance
  <2>3. Range(files) \subseteq Range(files') \cup {g}
    BY <1>1, <2>2, RangeOfTail DEF WalkInv
  <2>4. f \in Fresh /\ f \in Range(files) \cup pending
    <3>1. ~trouble
      BY <1>3, <2>2
    <3> QED
      BY <1>1, <1>2, <1>3, <3>1 DEF WayInv
  <2>5. CASE f = g
    <3>1. IsPhoto(f) /\ f \notin OnServer
      BY <2>4 DEF Fresh, Photos
    <3>2. ~TooOld(f)
      BY <1>1, <1>3, <2>4, FreshIsNotTooOld
    <3>3. Matches(f) = {}
      <4>1. \A a \in Matches(f) : a \in library /\ a.id = f
        BY <1>3, <2>5, MatchIsOwn
      <4> QED
        BY <3>1, <4>1 DEF OnServer
    <3>4. ~PassOver(g) /\ ~Skip(g) /\ ~Recognise(g)
      BY <2>5, <3>1, <3>2, <3>3 DEF PassOver, Skip, Recognise, IsPhoto
    <3>5. Download(g)
      BY <2>1, <3>4
    <3> QED
      BY <2>5, <3>5 DEF Download
  <2> QED
    BY <2>2, <2>3, <2>4, <2>5
<1> QED
  BY <1>1, <1>3 DEF WayInv

LEMMA QuietKeepsWay ==
  ASSUME WayInv, Fresh' \cap seen \subseteq Fresh, UNCHANGED <<phase, scoped, folders, files, seen>>,
         phase = "listing" => card' = card,
         ~trouble' => ~trouble /\ \A f \in Fresh' : f \in pending => f \in pending'
  PROVE  WayInv'
BY DEF WayInv

LEMMA WayStep ==
  LibraryInv /\ WalkInv /\ NewestInv /\ WayInv /\ [Next]_vars => WayInv'
<1> SUFFICES ASSUME LibraryInv, WalkInv, NewestInv, WayInv, [Next]_vars PROVE WayInv'
  OBVIOUS
<1> USE DEF walk, snapshot, uploads, history
<1>0. card' = card => Fresh' \subseteq Fresh
  BY FreshShrinks
<1>1. CASE phase' = "idle"
  BY <1>1 DEF WayInv
<1>2. CASE Begin
  <2>1. phase' = "listing" /\ card' = card /\ folders' = <<Root>> /\ card \in SUBSET File
    BY <1>2 DEF Begin, LibraryInv
  <2>2. PICK under \in [Folder -> SUBSET File] : Tree(card, under) /\ card \subseteq under[Root]
    BY <2>1, TreeAssumption
  <2>3. Root \in Range(folders')
    BY <2>1 DEF Range
  <2>4. card \subseteq UNION {under[d] : d \in Range(folders')}
    BY <2>2, <2>3
  <2> QED
    BY <2>1, <2>2, <2>4 DEF WayInv
<1>3. CASE ListFolder
  BY <1>3, ListKeepsWay
<1>4. CASE Listed
  <2>1. /\ phase = "listing" /\ folders = <<>> /\ phase' = "loading"
        /\ UNCHANGED <<card, files, trouble>> /\ seen' = card
    BY <1>4 DEF Listed
  <2>2. Range(folders) = {}
    BY <2>1 DEF Range
  <2>3. ~trouble => card \subseteq Range(files)
    BY <2>1, <2>2 DEF WayInv
  <2> QED
    BY <2>1, <2>3 DEF WayInv
<1>5. CASE LoadPage
  <2>1. /\ phase = "loading" /\ phase' \in {"loading", "walking"}
        /\ UNCHANGED <<card, files, trouble, seen>>
    BY <1>5 DEF LoadPage
  <2>2. ~trouble => Fresh' \cap seen' \subseteq Range(files)
    BY <2>1 DEF WayInv
  <2> QED
    BY <2>1, <2>2 DEF WayInv
<1>6. CASE VisitStep
  BY <1>6, VisitKeepsWay DEF VisitStep
<1>7. CASE BreakOff
  BY <1>7 DEF BreakOff, WayInv
<1>8. CASE WalkDone \/ Synced
  <2>1. /\ phase \in {"walking", "draining"} /\ phase' \in {"draining", "synced"}
        /\ files = <<>> /\ files' = <<>> /\ UNCHANGED <<card, scoped, trouble, pending, seen>>
    BY <1>8 DEF WalkDone, Synced, Dropped, WalkInv
  <2> QED
    BY <1>0, <2>1 DEF WayInv
<1>9. ASSUME NEW f \in File, Land(f) PROVE WayInv'
  <2>1. /\ UNCHANGED <<card, phase, scoped, folders, files, trouble, seen>>
        /\ pending' = pending \ {f} /\ Store(f)
    BY <1>9 DEF Land
  <2>2. f \in OnServer'
    BY <2>1 DEF Store, OnServer
  <2>3. f \notin Fresh'
    BY <2>2 DEF Fresh
  <2> QED
    BY <1>0, <2>1, <2>3, QuietKeepsWay
<1>10. ASSUME NEW f \in File, Lose(f) PROVE WayInv'
  BY <1>0, <1>10, QuietKeepsWay DEF Lose
<1>11. ASSUME NEW f \in File, LandLate(f) PROVE WayInv'
  BY <1>0, <1>11, QuietKeepsWay DEF LandLate
<1>12. ASSUME NEW a \in Foreign, OtherDevice(a) PROVE WayInv'
  BY <1>0, <1>12, QuietKeepsWay DEF OtherDevice
<1>13. CASE UNCHANGED vars
  BY <1>0, <1>13, QuietKeepsWay DEF vars
<1>14. ASSUME NEW h \in File, Shoot(h) PROVE WayInv'
  <2>1. /\ phase # "listing" /\ h \notin card /\ card' = card \cup {h}
        /\ UNCHANGED <<phase, scoped, folders, files, seen, trouble, pending, library, left>>
    BY <1>14 DEF Shoot
  <2>2. Fresh' \cap seen \subseteq Fresh
    BY <2>1 DEF Fresh, Photos, OnServer, LibraryInv
  <2> QED
    BY <2>1, <2>2, QuietKeepsWay
<1>15. Kill \/ Unplug \/ LoadFails => phase' = "idle"
  BY DEF Kill, Unplug, LoadFails
<1> QED
  BY <1>1, <1>2, <1>3, <1>4, <1>5, <1>6, <1>7, <1>8, <1>9, <1>10, <1>11, <1>12, <1>13, <1>14, <1>15
     DEF Next, SessionStep, Progress, SettleStep, World

\* Over any number of sessions, crashes, lost and late uploads, with photos shot at any time
\* but during a listing, a session that knew the make and met no trouble
\* (src/camera/session.rs) leaves every photo that it listed on the server, except those
\* that a troubled session left behind before.
THEOREM CleanSessionsLeaveNothing == Spec => []CleanSessionLeavesNothing
<1>1. Init => LibraryInv /\ WalkInv /\ NewestInv /\ WayInv
  BY InitLibrary, InitWalk, InitNewest
<1>2. LibraryInv /\ WalkInv /\ NewestInv /\ WayInv /\ [Next]_vars
        => LibraryInv' /\ WalkInv' /\ NewestInv' /\ WayInv'
  BY LibraryStep, WalkStep, NewestStep, WayStep
<1>3. WalkInv /\ WayInv => CleanSessionLeavesNothing
  BY CleanByInv
<1> QED
  BY <1>1, <1>2, <1>3, PTL DEF Spec
=============================================================================
