----------------------------- MODULE MCKeyPool -----------------------------
(* Small instances of KeyPool for TLC.                                     *)
EXTENDS KeyPool, TLC

CONSTANTS r1, r2

OneForward == r1 :> "forward"
ConvertedAndResponses == r1 :> "converted" @@ r2 :> "responses"
============================================================================
