---------------------------- MODULE StackTracker ----------------------------
(***************************************************************************)
(* The JPEG/RAF pair-up table (src/stack_tracker.rs).  A table maps a      *)
(* basename to the asset ids seen for it; it is a function whose domain    *)
(* is the set of basenames the HashMap holds.  Asset ids are opaque.       *)
(***************************************************************************)
CONSTANTS Asset,     \* Immich asset ids
          NoAsset    \* Option::None for an asset id

ASSUME NoAssetAssumption == NoAsset \notin Asset

AssetKind == {"Jpeg", "Raf", "Mov", "Other"}
Stackable == {"Jpeg", "Raf"}

StackEntry == [jpeg : Asset \cup {NoAsset}, raf : Asset \cup {NoAsset}]
EmptyEntry == [jpeg |-> NoAsset, raf |-> NoAsset]
EmptyTable == [b \in {} |-> EmptyEntry]

Place_SwapsSlots(entry, kind, id) ==
  IF kind = "Jpeg" THEN [entry EXCEPT !.raf = id] ELSE [entry EXCEPT !.jpeg = id]

Place(entry, kind, id) ==
  CASE kind = "Jpeg" -> [entry EXCEPT !.jpeg = id]
    [] kind = "Raf"  -> [entry EXCEPT !.raf = id]
    [] OTHER         -> entry

Complete_JpegIsEnough(entry) == entry.jpeg # NoAsset

\* take_pair() answers Some: both halves are known.
Complete(entry) == entry.jpeg # NoAsset /\ entry.raf # NoAsset

EntryOf(table, base) == IF base \in DOMAIN table THEN table[base] ELSE EmptyEntry

Store(table, base, entry) ==
  [b \in DOMAIN table \cup {base} |-> IF b = base THEN entry ELSE table[b]]

Without_KeepsEntry(table, base) == Store(table, base, EmptyEntry)

Without(table, base) == [b \in DOMAIN table \ {base} |-> table[b]]

(***************************************************************************)
(* observe(): record one sighting of an asset; the pair is EmptyEntry      *)
(* unless the decision is "Stack".  The entry of a completed pair leaves   *)
(* the table.                                                              *)
(***************************************************************************)
Observe(table, base, kind, id) ==
  LET placed == Place(EntryOf(table, base), kind, id)
      answer(t, decision, p) == [table |-> t, decision |-> decision, pair |-> p]
  IN  IF kind \notin Stackable THEN answer(table, "Ignore", EmptyEntry)
      ELSE IF Complete(placed) THEN answer(Without(table, base), "Stack", placed)
      ELSE answer(Store(table, base, placed), "Wait", EmptyEntry)
=============================================================================
