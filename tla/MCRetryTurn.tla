----------------------------- MODULE MCRetryTurn -----------------------------
(***************************************************************************)
(* Small instances of RetryTurn.                                           *)
(***************************************************************************)
EXTENDS RetryTurn, TLC

CONSTANTS Crashes, PublishFailures, SetUpFailures, Stops

MCBudget == ("crash" :> Crashes) @@ ("publish" :> PublishFailures)
              @@ ("setup" :> SetUpFailures) @@ ("stop" :> Stops)

OneRow == {1}
TwoRows == {1, 2}

Symmetric == Permutations(Workers) \cup Permutations(Commands)
=============================================================================
