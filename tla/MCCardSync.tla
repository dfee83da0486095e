----------------------------- MODULE MCCardSync -----------------------------
(* A small card for CardSync: two folders; "a" is shot, then "b", then the   *)
(* numbering comes round to "a" again; a hidden file and a sound note.       *)
EXTENDS CardSync

CONSTANTS a1, b, a2, hidden, note, old, phone

MCFolder     == {"/", "100", "101"}
MCSubfolders == [d \in MCFolder |-> IF d = "/" THEN <<"100", "101">> ELSE <<>>]
MCListing    == [c \in SUBSET File |-> [d \in MCFolder |->
                   LET Held(s) == SelectSeq(s, LAMBDA f : f \in c)
                   IN  CASE d = "/"   -> <<>>
                         [] d = "100" -> Held(<<a1, b>>)
                         [] d = "101" -> Held(<<a2, hidden, note>>)]]
MCName       == [f \in File |-> CASE f \in {a1, a2} -> <<"A", "JPG">>
                                  [] f = b          -> <<"B", "RAF">>
                                  [] f = hidden     -> <<"", "JPG">>
                                  [] f = note       -> <<"B", "WAV">>]
MCTakenAt    == [f \in File |-> IF f = a2 THEN 18 ELSE 11]
MCFirstCard  == File \cap {hidden, note}
\* Assets already of the make, a round older than "a" and with its name, and one without a
\* time; and a phone's, with the name of "a" and near the second one's time.
OldOne       == [id |-> old, name |-> <<"A", "JPG">>, taken |-> 5]
Undated      == [id |-> old, name |-> <<"B", "RAF">>, taken |-> NoTime]
OfPhone      == [id |-> phone, name |-> <<"A", "JPG">>, taken |-> 19]
MCOfMake     == {a1, b, a2, hidden, note, old}
MCSeniority  == [i \in {a1, b, a2, hidden, note, old, phone} |->
                   CASE i = a1 -> 1 [] i = b -> 2 [] i = a2 -> 3 [] i = old -> 4
                     [] i = phone -> 5 [] i = hidden -> 6 [] i = note -> 7]
\* To the window's edge, and to the slop's.
MCDrifts     == {-3, 1}
MCFirstLibrary == {OfPhone}
NoAssets     == {}
MCForeign    == {OldOne, Undated}
=============================================================================
