------------------------------ MODULE CardSync ------------------------------
(***************************************************************************)
(* Sessions of one camera, one after another (src/camera/session.rs): list *)
(* the card, load the snapshot, walk the files, wait for the uploads.      *)
(* Every call to the camera or the server may fail, the process may be     *)
(* told to stop or be killed, and new photos are shot at any time but      *)
(* while the card is listed, also by a camera in tether mode.              *)
(* The pipeline is reduced to what SessionBarrier promises: an accepted    *)
(* upload settles some time before the barrier is answered, well or badly. *)
(***************************************************************************)
EXTENDS FileName, ImmichCache

CONSTANTS
  File,            \* files the card may come to hold; also their asset ids
  Folder, Root,
  Subfolders,      \* [Folder -> Seq(Folder)]: what list_folders answers
  Listing,         \* what list_files answers for a card and a folder, in its order
  FirstCard,       \* files on the card when the camera is first plugged in
  Name, TakenAt,   \* [File -> FileName], [File -> time], as digest_info reports them
  Drifts,          \* what the server's time of an asset may differ from the camera's by
  FirstLibrary,    \* assets on the server in the beginning
  Foreign,         \* assets that other devices may put there later
  Round,           \* how far apart in time the numbering comes round to a name
  MaxConsecutiveFailures

ASSUME CardAssumption ==
  /\ MaxConsecutiveFailures \in Nat \ {0}
  /\ Root \in Folder /\ Subfolders \in [Folder -> Seq(Folder)]
  /\ \A c \in SUBSET File : Listing[c] \in [Folder -> Seq(c)]
  /\ FirstCard \subseteq File /\ TakenAt \in [File -> Int]

\* What lies in a folder and below it, each file in the listing of some folder.
Tree(c, under) ==
  \A d \in Folder :
    under[d] \subseteq Range(Listing[c][d]) \cup UNION {under[e] : e \in Range(Subfolders[d])}

\* The walk from the root comes to every file of a card.
ASSUME TreeAssumption ==
  \A c \in SUBSET File : \E under \in [Folder -> SUBSET File] : Tree(c, under) /\ c \subseteq under[Root]

\* The server's times are later than the camera's by no more than the slop.
ASSUME DriftAssumption == \A d \in Drifts : d \in Int /\ d <= BackfillSlop

\* They differ from the camera's by no more than the window, in either direction.
ASSUME WindowAssumption ==
  /\ \A d \in Drifts : Distance(d, 0) <= TakenAtWindow
  /\ \A f \in File, a \in FirstLibrary \cup Foreign :
       a.id = f /\ a.name = Name[f] /\ a.taken # NoTime
         => Distance(a.taken, TakenAt[f]) <= TakenAtWindow

\* Assets of other devices; those of the camera's make are older than its photos.
ASSUME LibraryAssumption ==
  /\ IsFiniteSet(FirstLibrary) /\ \A a, c \in FirstLibrary : a.id = c.id => a = c
  /\ File \subseteq DOMAIN Seniority
  /\ \A a \in FirstLibrary \cup Foreign :
       /\ a.taken \in Int /\ a.id \in DOMAIN Seniority
       /\ a.id \in OfMake => \A f \in File : a.taken <= TakenAt[f] + BackfillSlop

\* The camera's numbering: two photos of one name are a round apart, which the window and
\* the drift do not bridge.  The assets of the make are photos of this one camera.  Nothing
\* is assumed of the names that devices of other makes give.
ASSUME NamesAssumption ==
  /\ Round \in Nat /\ \A d \in Drifts : TakenAtWindow + Distance(d, 0) < Round
  /\ \A f, g \in File : Name[f] = Name[g] /\ f # g => Distance(TakenAt[f], TakenAt[g]) >= Round
  /\ \A f \in File, a \in FirstLibrary \cup Foreign :
       a.id \in OfMake \ {f} /\ a.name = Name[f] /\ a.taken # NoTime
         => \E d \in Drifts : Distance(a.taken - d, TakenAt[f]) >= Round

VARIABLES
  card,       \* files on the card
  phase,      \* idle, listing, loading, walking, draining, synced
  folders,    \* the stack of enumerate_files
  files,      \* files found and not yet visited
  scoped,     \* whether detect_camera_make found the make
  page,       \* page of the snapshot to fetch next
  cache,      \* ImmichCache
  failures,   \* consecutive_failures
  pending,    \* uploads accepted by the pipeline and not settled
  late,       \* uploads given up on that may still reach the server
  library,    \* assets on the server
  held,       \* history: the library when the loading began
  trouble,    \* history: whether something went wrong in this session
  left,       \* history: photos not on the server when a troubled or unscoped session ended
  seen        \* history: the card when this session had listed it

vars == <<card, phase, scoped, folders, files, page, cache, failures, pending, late,
          library, held, trouble, left, seen>>
walk     == <<scoped, folders, files, failures>>
snapshot == <<page, cache, held>>
uploads  == <<pending, late, library>>
history  == <<trouble, left, seen>>

IsPhoto(f) == IsRealAssetName(Name[f]) /\ FromFilename(Name[f]) # "Other"
Photos   == {f \in card : IsPhoto(f)}
OnServer == {a.id : a \in library}
OnePerId(l) == \A a, c \in l : a.id = c.id => a = c

Init ==
  /\ card = FirstCard
  /\ phase = "idle"
  /\ scoped = TRUE /\ folders = <<>> /\ files = <<>> /\ failures = 0
  /\ page = 1 /\ cache = {} /\ held = {}
  /\ pending = {} /\ late = {} /\ library = FirstLibrary
  /\ trouble = FALSE /\ left = {} /\ seen = {}

-----------------------------------------------------------------------------
(* The world: the photographer, other devices, the power switch.           *)

\* The camera's clock does not run backwards.  A listing is over in less than the slop, so
\* that a photo shot during it is as good as one shot before or after.
Shoot(f) ==
  /\ phase # "listing" /\ f \notin card
  /\ \A g \in card : TakenAt[g] <= TakenAt[f]
  /\ card' = card \cup {f}
  /\ UNCHANGED phase /\ UNCHANGED walk /\ UNCHANGED snapshot /\ UNCHANGED uploads /\ UNCHANGED history

OtherDevice(a) ==
  /\ a.id \notin OnServer
  /\ library' = library \cup {a}
  /\ UNCHANGED <<card, phase, pending, late>>
  /\ UNCHANGED walk /\ UNCHANGED snapshot /\ UNCHANGED history

\* session::run has returned, or is no more: its locals are gone.  (scoped is kept to
\* tell what kind of session it was.)
Dropped == /\ folders' = <<>> /\ files' = <<>> /\ failures' = 0
           /\ page' = 1 /\ cache' = {} /\ held' = {}

\* What a session that did not go well leaves behind, of the card it had listed.
LeftBehind == left' = left \cup ((Photos \cap seen) \ OnServer)

Kill ==
  /\ phase \notin {"idle", "synced"}
  /\ phase' = "idle"
  /\ pending' = {} /\ late' = late \cup pending
  /\ IF phase \in {"walking", "draining"} THEN LeftBehind ELSE UNCHANGED left
  /\ trouble' = TRUE
  /\ scoped' = TRUE /\ seen' = {}
  /\ UNCHANGED <<card, library>> /\ Dropped

Unplug ==
  /\ phase = "synced"
  /\ phase' = "idle" /\ scoped' = TRUE /\ seen' = {}
  /\ IF trouble \/ ~scoped THEN LeftBehind ELSE UNCHANGED left
  /\ UNCHANGED <<card, folders, files, failures, trouble>>
  /\ UNCHANGED snapshot /\ UNCHANGED uploads

-----------------------------------------------------------------------------
(* enumerate_files and ImmichCache::load.                                  *)

\* The make is read from the camera's configuration, which may lack it.
Begin ==
  /\ phase = "idle"
  /\ phase' = "listing"
  /\ scoped' \in BOOLEAN
  /\ folders' = <<Root>>
  /\ trouble' = FALSE
  /\ UNCHANGED <<card, files, failures, left, seen>> /\ UNCHANGED snapshot /\ UNCHANGED uploads

Searched == InScope(library, scoped)

FilesIn(d) == Listing[card][d]

\* One turn of enumerate_files: the folder on top of the stack is listed; a listing
\* that fails is logged and counts as empty.
ListFolder ==
  /\ phase = "listing" /\ folders # <<>>
  /\ LET d == folders[Len(folders)]
         rest == SubSeq(folders, 1, Len(folders) - 1)
     IN \E subs \in {<<>>, Subfolders[d]}, found \in {<<>>, FilesIn(d)} :
          /\ folders' = rest \o subs
          /\ files' = files \o found
          /\ trouble' = (trouble \/ subs # Subfolders[d] \/ found # FilesIn(d))
  /\ UNCHANGED <<card, phase, scoped, failures, left, seen>>
  /\ UNCHANGED snapshot /\ UNCHANGED uploads

Listed ==
  /\ phase = "listing" /\ folders = <<>>
  /\ phase' = "loading"
  /\ held' = Searched /\ seen' = card
  /\ UNCHANGED <<card, page, cache, trouble, left>> /\ UNCHANGED walk /\ UNCHANGED uploads

\* One turn of ImmichCache::load.  Servers differ in whether the last page still
\* names a next one.
LoadPage ==
  /\ phase = "loading"
  /\ \E next \in {TRUE, MoreAfter(Searched, page)} :
       LET items == Page(Searched, page)
       IN  /\ cache' = Absorb(cache, items)
           /\ IF LastPage(items, next) THEN phase' = "walking" /\ page' = 1
                                       ELSE page' = NextPage(page) /\ UNCHANGED phase
  /\ UNCHANGED <<card, held>> /\ UNCHANGED walk /\ UNCHANGED uploads /\ UNCHANGED history

\* The session ends in an error; the outer loop tries again.
LoadFails ==
  /\ phase = "loading"
  /\ phase' = "idle" /\ scoped' = TRUE /\ seen' = {}
  /\ UNCHANGED <<card, trouble, left>> /\ Dropped /\ UNCHANGED uploads

-----------------------------------------------------------------------------
(* backfill: one turn of its loop per file.                                *)

Visit(f) == phase = "walking" /\ files # <<>> /\ f = Head(files) /\ UNCHANGED <<card, phase>>
Advance(n) == files' = Tail(files) /\ failures' = n /\ UNCHANGED <<scoped, folders>>

TooOld(f) == BeforeCutoff(cache, TakenAt[f])
Matches(f) == FindExisting(cache, Name[f], TakenAt[f])

\* A name that is none of an asset is passed over before anything is counted.
PassOver(f) ==
  /\ Visit(f) /\ ~IsRealAssetName(Name[f])
  /\ Advance(failures)
  /\ UNCHANGED snapshot /\ UNCHANGED uploads /\ UNCHANGED history

Skip(f) ==
  /\ Visit(f) /\ IsRealAssetName(Name[f])
  /\ FromFilename(Name[f]) = "Other" \/ TooOld(f)
  /\ Advance(0)
  /\ UNCHANGED snapshot /\ UNCHANGED uploads /\ UNCHANGED history

\* KnownAsset is sent with the id of a match; the pipeline uploads nothing for it.
Recognise(f) ==
  /\ Visit(f) /\ IsPhoto(f) /\ ~TooOld(f)
  /\ Matches(f) # {}
  /\ Advance(0)
  /\ UNCHANGED snapshot /\ UNCHANGED uploads /\ UNCHANGED history

Download(f) ==
  /\ Visit(f) /\ IsPhoto(f) /\ ~TooOld(f) /\ Matches(f) = {}
  /\ pending' = pending \cup {f}
  /\ Advance(0)
  /\ UNCHANGED <<late, library>> /\ UNCHANGED snapshot /\ UNCHANGED history

GiveUp_OneLater(n) == n > MaxConsecutiveFailures

GiveUp(n) == n >= MaxConsecutiveFailures

\* file_info, the download or the spooling fails; the walk is given up after
\* MaxConsecutiveFailures of them, and the session still ends well.
FileFails(f) ==
  /\ Visit(f) /\ IsRealAssetName(Name[f])
  /\ failures' = failures + 1
  /\ files' = IF GiveUp(failures') THEN <<>> ELSE Tail(files)
  /\ trouble' = TRUE
  /\ UNCHANGED <<scoped, folders, left, seen>> /\ UNCHANGED snapshot /\ UNCHANGED uploads

\* The shutdown flag is seen between two files.
BreakOff ==
  /\ phase = "walking" /\ files # <<>>
  /\ phase' = "draining" /\ trouble' = TRUE
  /\ UNCHANGED <<card, scoped, left, seen>> /\ Dropped /\ UNCHANGED uploads

WalkDone ==
  /\ phase = "walking" /\ files = <<>>
  /\ phase' = "draining"
  /\ UNCHANGED <<card, scoped>> /\ Dropped /\ UNCHANGED uploads /\ UNCHANGED history

\* The barrier is answered.
Synced ==
  /\ phase = "draining" /\ pending = {}
  /\ phase' = "synced"
  /\ UNCHANGED card /\ UNCHANGED walk /\ UNCHANGED snapshot
  /\ UNCHANGED uploads /\ UNCHANGED history

-----------------------------------------------------------------------------
(* The pipeline and the server.                                            *)

\* External: one asset per checksum, with a time of the server's own making.
Store(f) ==
  IF f \in OnServer THEN UNCHANGED library
  ELSE \E d \in Drifts :
         library' = library \cup {[id |-> f, name |-> Name[f], taken |-> TakenAt[f] + d]}

Land(f) ==
  /\ f \in pending
  /\ pending' = pending \ {f}
  /\ Store(f)
  /\ UNCHANGED <<card, phase, late>>
  /\ UNCHANGED walk /\ UNCHANGED snapshot /\ UNCHANGED history

\* All attempts failed; a request may still be under way.
Lose(f) ==
  /\ f \in pending
  /\ pending' = pending \ {f}
  /\ late' \in {late, late \cup {f}}
  /\ trouble' = TRUE
  /\ UNCHANGED <<card, phase, library, left, seen>> /\ UNCHANGED walk /\ UNCHANGED snapshot

LandLate(f) ==
  /\ f \in late
  /\ late' = late \ {f}
  /\ Store(f)
  /\ UNCHANGED <<card, phase, pending>>
  /\ UNCHANGED walk /\ UNCHANGED snapshot /\ UNCHANGED history

-----------------------------------------------------------------------------
VisitStep == \E f \in File : PassOver(f) \/ Skip(f) \/ Recognise(f) \/ Download(f) \/ FileFails(f)

Progress == ListFolder \/ Listed \/ LoadPage \/ VisitStep \/ WalkDone \/ Synced

SessionStep == Progress \/ LoadFails \/ BreakOff

SettleStep == \E f \in File : Land(f) \/ Lose(f)

World == \/ \E f \in File : Shoot(f) \/ LandLate(f)
         \/ \E a \in Foreign : OtherDevice(a)
         \/ Kill \/ Unplug \/ Begin

Next == SessionStep \/ SettleStep \/ World

\* Camera calls return, requests are answered or time out, the pipeline settles what
\* it accepted.  Nothing makes a load fail or the daemon stop.
Fairness == WF_vars(Progress) /\ WF_vars(SettleStep)

Spec == Init /\ [][Next]_vars /\ Fairness

-----------------------------------------------------------------------------
(* Properties.                                                             *)

\* Assets as ImmichCache knows them, the card's and those of other devices.
Asset == [id : File, name : {Name[f] : f \in File},
          taken : {TakenAt[f] + d : f \in File, d \in Drifts}] \cup FirstLibrary \cup Foreign

\* Types.  The run of failures (consecutive_failures) never passes the limit; a page
\* beyond the first empty one is never asked for; at rest nothing of a session is left.
TypeOK ==
  /\ card \subseteq File
  /\ phase \in {"idle", "listing", "loading", "walking", "draining", "synced"}
  /\ folders \in Seq(Folder) /\ files \in Seq(File)
  /\ library \subseteq Asset /\ OnePerId(library)
  /\ cache \subseteq library /\ held \subseteq library
  /\ page \in 1 .. Cardinality(library) \div PageSize + 2
  /\ failures \in 0 .. MaxConsecutiveFailures
  /\ pending \subseteq card /\ late \subseteq card /\ left \subseteq card /\ seen \subseteq card
  /\ trouble \in BOOLEAN /\ scoped \in BOOLEAN
  /\ phase \in {"idle", "synced"} => pending = {} /\ cache = {} /\ files = <<>>

\* After a session that knew the make and in which nothing went wrong every photo that was
\* on the card when it was listed is on the server, except those that an earlier session
\* left behind: the scope by make, the cutoff of src/camera/session.rs 53 with its slop, the
\* match by name and time and the paged snapshot together never lose a new photo, also when
\* it was shot while an earlier session was under way.
CleanSessionLeavesNothing ==
  phase = "synced" /\ ~trouble /\ scoped => Photos \cap seen \subseteq OnServer \cup left

Considered(f) == phase = "walking" /\ files # <<>> /\ f = Head(files) /\ IsPhoto(f)

\* A photo taken for known is known: in a session that knew the make the asset that answers
\* for it is its own, also when the numbering has come round to the name and when another
\* device has an asset of that name and time (src/immich/cache.rs 49, 97-103).
KnownIsItself ==
  scoped => \A f \in File : Considered(f) /\ ~TooOld(f) => \A a \in Matches(f) : a.id = f

\* The snapshot has every asset the server held when the loading began, although
\* assets arrive, and move to later pages, while it is loaded.
SnapshotIsComplete ==
  phase = "walking" => {a \in held : a.taken # NoTime} \subseteq cache

HeldUnderItsName(f) == \E a \in held : a.id = f /\ a.name = Name[f] /\ a.taken # NoTime

\* No step sends a photo for upload that the server held under its name and with a
\* time when the loading began, however the pages shifted meanwhile.
NothingDownloadedTwice == [][\A f \in pending' \ pending : ~HeldUnderItsName(f)]_vars

InSession == phase \notin {"idle", "synced"}

\* Every session ends.
SessionEnds == InSession ~> ~InSession

\* "Files older than that are skipped (assumed already uploaded)" (README.md): a photo
\* skipped for the cutoff is on the server.
SkippedIsUploaded ==
  \A f \in File : Considered(f) /\ TooOld(f) => f \in OnServer

\* "None caches every asset Immich has, which is correct but proportionally slower"
\* (src/immich/cache.rs 44-46): a session without a make that goes well leaves nothing.
UnscopedIsCorrect ==
  phase = "synced" /\ ~trouble /\ ~scoped => Photos \cap seen \subseteq OnServer \cup left
=============================================================================
