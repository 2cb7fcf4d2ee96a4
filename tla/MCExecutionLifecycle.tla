------------------------ MODULE MCExecutionLifecycle ------------------------
(***************************************************************************)
(* Small instances of ExecutionLifecycle.                                  *)
(***************************************************************************)
EXTENDS ExecutionLifecycle, TLC

CONSTANTS Crashes, Losses, Ages, Submits, Stops

MCBudget == ("crash" :> Crashes) @@ ("lose" :> Losses) @@ ("age" :> Ages)
              @@ ("submit" :> Submits) @@ ("stop" :> Stops)

\* A conversation, then a form whose failure is skipped.
AiThenForm == <<"ai", "form">>
StopThenSkip == <<"stop", "skip">>

TwoPlain == <<"plain", "plain">>
OneAi == <<"ai">>
OneStop == <<"stop">>

Symmetric == Permutations(Workers) \cup Permutations(JobIds)
=============================================================================
