----------------------------- MODULE MCPipeline -----------------------------
(* Small cards for Pipeline: photo X as a JPEG/RAF pair, sent in one or two  *)
(* sessions, and a clip that is never stacked.                               *)
EXTENDS Pipeline

CONSTANTS j1, r1, j2, r2, m, jx, rx, mx

MCBase == [j \in Job |-> IF j = m THEN "M" ELSE "X"]
MCKind == [j \in Job |-> IF j \in {j1, j2} THEN "Jpeg" ELSE IF j = m THEN "Mov" ELSE "Raf"]
\* The second session meets the photos of the first one again.
MCSha  == [j \in Job |-> IF j \in {j1, j2} THEN jx ELSE IF j = m THEN mx ELSE rx]
=============================================================================
