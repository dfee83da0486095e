------------------------------ MODULE FileName ------------------------------
(***************************************************************************)
(* What a file's name says about it (src/camera/object_info.rs and         *)
(* is_real_asset_name of src/camera/session.rs).  A name is the sequence   *)
(* of its parts between the dots, letter case folded: "DSCF1.JPG" is       *)
(* <<"DSCF1", "JPG">>, ".JPG" is <<"", "JPG">> and "weird" is <<"weird">>. *)
(* A dot splits a name, so rsplit_once is Some when there are two parts.   *)
(***************************************************************************)
EXTENDS Sequences, SequencesExt

HasExtension(name) == Len(name) > 1

Extension(name) == IF HasExtension(name) THEN Last(name) ELSE ""

FromFilename(name) ==
  CASE Extension(name) \in {"JPG", "JPEG"} -> "Jpeg"
    [] Extension(name) = "RAF"             -> "Raf"
    [] Extension(name) \in {"MOV", "MP4"}  -> "Mov"
    [] OTHER                               -> "Other"

\* The text before the last dot and the extension are not empty, and the name is not hidden.
IsRealAssetName(name) ==
  HasExtension(name) /\ Front(name) # <<"">> /\ Last(name) # "" /\ Head(name) # ""
=============================================================================
