---------------------------- MODULE MCTokenRefresh ----------------------------
(***************************************************************************)
(* Small instances of TokenRefresh.                                        *)
(***************************************************************************)
EXTENDS TokenRefresh, TLC

CONSTANTS Crashes, LostAnswers, Grants

MCBudget ==
  ("crash" :> Crashes) @@ ("loseAnswer" :> LostAnswers) @@ ("grant" :> Grants)
=============================================================================
