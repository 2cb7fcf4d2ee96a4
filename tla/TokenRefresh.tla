----------------------------- MODULE TokenRefresh ----------------------------
(***************************************************************************)
(* The refresh of one integration's OAuth token (Cafe24; MakeShop follows  *)
(* the same protocol).  The provider rotates the refresh token: each       *)
(* exchange answers with the next one and voids the one presented.         *)
(* Callers in several pods refresh before a call, after a 401, or while    *)
(* they test the connection; the refresh queue serialises those that share *)
(* a job id; a user may authorise anew at any time.                        *)
(*                                                                         *)
(* Tokens are numbered in the order the provider issues them; an access    *)
(* token and the refresh token issued with it have the same number.  Left  *)
(* out: the counter of network failures and the scope refusals, which only *)
(* add further reasons to demote the row, and its deletion.                *)
(***************************************************************************)
EXTENDS Integers

CONSTANTS
  Pods,      \* callers: each runs one call at a time, its in-process lock sees to it
  Workers,   \* workers of the refresh queue
  Keyed,     \* the job id of proactive and background refreshes
  NoJob,
  MaxRateLimitRetries, \* MAX_RATE_LIMIT_RETRIES
  MaxToken,  \* tokens the provider issues (a bound)
  Budget     \* how often each fault or event of the environment may happen (bounds)

Actors == Pods \cup Workers
Tokens == 0..MaxToken
Jobs == Pods \cup {Keyed}  \* a pod's reactive refreshes have a slot of their own (a bound)
EnvEvents == {"crash", "loseAnswer", "grant"}

ASSUME RefreshAssumption ==
  /\ Pods \cap Workers = {} /\ Keyed \notin Pods /\ NoJob \notin Jobs
  /\ MaxRateLimitRetries \in Nat /\ MaxToken \in Nat \ {0}
  /\ Budget \in [EnvEvents -> Nat]

VARIABLES
  newest,     \* the refresh token the provider accepts
  agedUpTo,   \* access tokens up to this one are past their expiry
  rowToken,   \* the token in integration.credentials
  rowStatus,  \* integration.status
  job,        \* the refresh jobs
  pc,         \* where each pod and worker is
  token,      \* the token each of them works with
  got,        \* the token it was issued and has not saved (0: none)
  on,         \* the job it executes or waits for
  kind,       \* what a pod does: call the API or test the connection
  tried,      \* triedAuthRetry: the request repeats one that was refused with a 401
  attempt,    \* how often its request has been repeated after a 429
  grant,      \* a token granted to the user that the callback has not saved (0: none)
  lost,       \* a crash or a lost answer has swallowed a token (history)
  overlapped, \* a token was granted while a refresh had one to save (history)
  exposed,    \* something besides keyed refreshes took part (history)
  budget      \* what is left of Budget

row == <<rowToken, rowStatus>>
provider == <<newest, agedUpTo>>
history == <<lost, overlapped, exposed>>
local == <<token, got, on, kind, tried, attempt>>
vars == <<provider, row, job, pc, local, grant, history, budget>>

JobState == {"none", "waiting", "active", "completed", "failed"}
Label == {"idle", "ensure", "wait", "reread", "api", "exchange", "save", "demote"}

TypeOK ==
  /\ newest \in Tokens /\ agedUpTo \in Tokens /\ rowToken \in Tokens
  /\ rowStatus \in {"connected", "error"}
  /\ job \in [Jobs -> JobState]
  /\ pc \in [Actors -> Label] /\ token \in [Actors -> Tokens]
  /\ got \in [Actors -> Tokens] /\ on \in [Actors -> Jobs \cup {NoJob}]
  /\ kind \in [Actors -> {"call", "ping"}] /\ tried \in [Actors -> BOOLEAN]
  /\ attempt \in [Actors -> 0..MaxRateLimitRetries]
  /\ \A w \in Workers : pc[w] # "idle" => on[w] \in Jobs
  /\ \A p \in Pods : pc[p] = "wait" => on[p] \in Jobs
  /\ grant \in Tokens
  /\ lost \in BOOLEAN /\ overlapped \in BOOLEAN /\ exposed \in BOOLEAN
  /\ budget \in [EnvEvents -> Nat]

\* The integration was connected with token 1.
Init ==
  /\ newest = 1 /\ agedUpTo = 0 /\ rowToken = 1 /\ rowStatus = "connected"
  /\ job = [j \in Jobs |-> "none"]
  /\ pc = [a \in Actors |-> "idle"] /\ token = [a \in Actors |-> 0]
  /\ got = [a \in Actors |-> 0] /\ on = [a \in Actors |-> NoJob]
  /\ kind = [a \in Actors |-> "call"] /\ tried = [a \in Actors |-> FALSE]
  /\ attempt = [a \in Actors |-> 0]
  /\ grant = 0
  /\ lost = FALSE /\ overlapped = FALSE /\ exposed = FALSE
  /\ budget = Budget
-------------------------------------------------------------------------------
Goto(a, label) == pc' = [pc EXCEPT ![a] = label]

Fresh(t) == t > agedUpTo

Spend(event) ==
  budget[event] > 0 /\ budget' = [budget EXCEPT ![event] = @ - 1]

\* Bug: a proactive refresh gets a job of its own.
AddUnique(p, j) == job' = [job EXCEPT ![p] = "waiting"]

\* queue.add: a job id that is taken, if only by a job that ended and is still
\* kept, gives that job back.  The id of a reactive refresh is always new.
Add(p, j) ==
  job' = [job EXCEPT ![j] =
            IF @ = "none" \/ (j # Keyed /\ @ \notin {"waiting", "active"})
            THEN "waiting" ELSE @]

\* An actor that is done remembers nothing.
Rest(a) ==
  /\ Goto(a, "idle")
  /\ token' = [token EXCEPT ![a] = 0] /\ got' = [got EXCEPT ![a] = 0]
  /\ on' = [on EXCEPT ![a] = NoJob]
  /\ kind' = [kind EXCEPT ![a] = "call"] /\ tried' = [tried EXCEPT ![a] = FALSE]
  /\ attempt' = [attempt EXCEPT ![a] = 0]

\* A refresh comes to nothing: a worker fails its job, a connection test ends.
Fail(a) ==
  /\ Rest(a)
  /\ \/ a \in Workers /\ job' = [job EXCEPT ![on[a]] = "failed"]
     \/ a \in Pods /\ UNCHANGED job
-------------------------------------------------------------------------------
(* Callers.                                                                *)

\* A node loads its integration, which must be connected; a connection test
\* takes it as it is.
Begin(p, k) ==
  /\ pc[p] = "idle" /\ (k = "call" => rowStatus = "connected")
  /\ token' = [token EXCEPT ![p] = rowToken] /\ kind' = [kind EXCEPT ![p] = k]
  /\ Goto(p, "ensure")
  /\ UNCHANGED <<provider, row, job, got, on, tried, attempt, grant, history, budget>>

EnsureFresh(p) ==
  /\ pc[p] = "ensure"
  /\ \/ Fresh(token[p]) /\ Goto(p, "api") /\ UNCHANGED <<job, on>>
     \/ /\ ~Fresh(token[p]) /\ Add(p, Keyed) /\ Goto(p, "wait")
        /\ on' = [on EXCEPT ![p] = Keyed]
  /\ UNCHANGED <<provider, row, token, got, kind, tried, attempt, grant, history, budget>>

JobCompleted(p) ==
  /\ pc[p] = "wait" /\ job[on[p]] = "completed"
  /\ Goto(p, "reread")
  /\ UNCHANGED <<provider, row, job, local, grant, history, budget>>

\* The job failed, the wait ran out or its event was lost: the row decides.
WaitFails(p) ==
  /\ pc[p] = "wait"
  /\ \/ rowStatus = "connected" /\ Fresh(rowToken) /\ Goto(p, "reread")
        /\ UNCHANGED local
     \/ ~(rowStatus = "connected" /\ Fresh(rowToken)) /\ Rest(p)
  /\ UNCHANGED <<provider, row, job, grant, history, budget>>

Reread(p) ==
  /\ pc[p] = "reread"
  /\ token' = [token EXCEPT ![p] = rowToken]
  /\ Goto(p, "api")
  /\ UNCHANGED <<provider, row, job, got, on, kind, tried, attempt, grant, history, budget>>

\* The API answers, or fails for a reason that is not the token: a 429 too, of a
\* call that has used up its retries or of a connection test.
ApiEnds(p) ==
  /\ pc[p] = "api" /\ Rest(p)
  /\ UNCHANGED <<provider, row, job, grant, history, budget>>

\* A 429: the call sleeps and repeats its request.  The repetition counts attempts
\* but no longer knows that a 401 has been answered.
ApiThrottles(p) ==
  /\ pc[p] = "api" /\ kind[p] = "call"
  /\ attempt[p] < MaxRateLimitRetries
  /\ attempt' = [attempt EXCEPT ![p] = @ + 1]
  /\ tried' = [tried EXCEPT ![p] = FALSE]
  /\ UNCHANGED <<provider, row, job, pc, token, got, on, kind, grant, history, budget>>

\* Bug: every 401 is answered by another refresh.
RefreshAgain(p) ==
  /\ pc[p] = "api" /\ (~Fresh(token[p]) \/ token[p] # newest)
  /\ Add(p, p) /\ Goto(p, "wait")
  /\ on' = [on EXCEPT ![p] = p]
  /\ exposed' = TRUE
  /\ UNCHANGED <<provider, row, token, got, kind, tried, attempt, grant, lost, overlapped,
                 budget>>

\* A 401, for a token past its expiry or one the provider has replaced: the first
\* one is answered by a refresh, of a call through the queue and of a connection
\* test in place; one that follows it at once demotes the integration.  The request
\* that repeats the refused one starts to count its attempts again.
ApiRefuses(p) ==
  /\ pc[p] = "api" /\ (~Fresh(token[p]) \/ token[p] # newest)
  /\ \/ tried[p] /\ Goto(p, "demote") /\ UNCHANGED <<job, on>>
     \/ /\ ~tried[p] /\ kind[p] = "call" /\ Add(p, p) /\ Goto(p, "wait")
        /\ on' = [on EXCEPT ![p] = p]
     \/ ~tried[p] /\ kind[p] = "ping" /\ Goto(p, "exchange") /\ UNCHANGED <<job, on>>
  /\ tried' = [tried EXCEPT ![p] = TRUE]
  /\ attempt' = IF tried[p] THEN attempt ELSE [attempt EXCEPT ![p] = 0]
  /\ exposed' = TRUE
  /\ UNCHANGED <<provider, row, token, got, kind, grant, lost, overlapped, budget>>
-------------------------------------------------------------------------------
(* The queue and its workers.                                              *)

\* Bug: the worker does not keep the job it has to end.
PickAnonymous(w, j) ==
  /\ pc[w] = "idle" /\ job[j] = "waiting"
  /\ job' = [job EXCEPT ![j] = "active"]
  /\ token' = [token EXCEPT ![w] = rowToken]
  /\ Goto(w, "exchange")
  /\ UNCHANGED <<provider, row, got, on, kind, tried, attempt, grant, history, budget>>

\* process(): the row is read again; a job of an integration that is not
\* connected ends at once, as does one that finds its token fresh, unless a 401
\* called for it.
PickJob(w, j) ==
  /\ pc[w] = "idle" /\ job[j] = "waiting"
  /\ \/ /\ rowStatus # "connected" \/ (j = Keyed /\ Fresh(rowToken))
        /\ job' = [job EXCEPT ![j] = "completed"]
        /\ UNCHANGED <<pc, token, on>>
     \/ /\ rowStatus = "connected" /\ (j # Keyed \/ ~Fresh(rowToken))
        /\ job' = [job EXCEPT ![j] = "active"]
        /\ token' = [token EXCEPT ![w] = rowToken] /\ on' = [on EXCEPT ![w] = j]
        /\ Goto(w, "exchange")
  /\ UNCHANGED <<provider, row, got, kind, tried, attempt, grant, history, budget>>

\* refreshAccessToken, the request: the provider rotates the token it accepts
\* and refuses any other.
Exchange(a) ==
  /\ pc[a] = "exchange"
  /\ \/ /\ token[a] = newest /\ newest < MaxToken
        /\ newest' = newest + 1
        /\ got' = [got EXCEPT ![a] = newest + 1]
        /\ Goto(a, "save")
     \/ /\ token[a] # newest /\ Goto(a, "demote")
        /\ UNCHANGED <<newest, got>>
  /\ UNCHANGED <<agedUpTo, row, job, token, on, kind, tried, attempt, grant, history,
                 budget>>

\* The request fails, before the provider saw it or after it rotated the token.
ExchangeFails(a) ==
  /\ pc[a] = "exchange"
  /\ Fail(a)
  /\ \/ UNCHANGED <<newest, lost, exposed, budget>>
     \/ /\ token[a] = newest /\ newest < MaxToken /\ Spend("loseAnswer")
        /\ newest' = newest + 1 /\ lost' = TRUE /\ exposed' = TRUE
  /\ UNCHANGED <<agedUpTo, row, grant, overlapped>>

\* After its save a worker completes the job, a connection test calls again.
Saved(a) ==
  \/ /\ a \in Workers /\ Rest(a)
     /\ job' = [job EXCEPT ![on[a]] = "completed"]
  \/ /\ a \in Pods /\ Goto(a, "api") /\ UNCHANGED job
     /\ token' = [token EXCEPT ![a] = got[a]] /\ got' = [got EXCEPT ![a] = 0]
     /\ UNCHANGED <<on, kind, tried, attempt>>

\* Bug: the rotated refresh token is not stored.
SaveAccessOnly(a) ==
  /\ pc[a] = "save" /\ Saved(a)
  /\ rowStatus' = "connected"
  /\ UNCHANGED <<provider, rowToken, grant, history, budget>>

\* The transaction that stores what the provider answered, whatever the row
\* holds by then.
Save(a) ==
  /\ pc[a] = "save" /\ Saved(a)
  /\ rowToken' = got[a] /\ rowStatus' = "connected"
  /\ UNCHANGED <<provider, grant, history, budget>>

\* markAuthFailed, whatever the row holds by then.
Demote(a) ==
  /\ pc[a] = "demote"
  /\ rowStatus' = "error"
  /\ Fail(a)
  /\ UNCHANGED <<provider, rowToken, grant, history, budget>>

\* removeOnComplete and removeOnFail: an ended job leaves its id free at last.
Forget(j) ==
  /\ job[j] \in {"completed", "failed"}
  /\ job' = [job EXCEPT ![j] = "none"]
  /\ UNCHANGED <<provider, row, pc, local, grant, history, budget>>

\* A worker dies: the queue delivers its job again.
Crash(w) ==
  /\ pc[w] # "idle" /\ Spend("crash")
  /\ job' = [job EXCEPT ![on[w]] = "waiting"]
  /\ Rest(w)
  /\ lost' = (lost \/ pc[w] = "save") /\ exposed' = TRUE
  /\ UNCHANGED <<provider, row, grant, overlapped>>
-------------------------------------------------------------------------------
(* The rest: the clock, the scanner and the user.                          *)

Age ==
  /\ agedUpTo < newest /\ agedUpTo' = agedUpTo + 1
  /\ UNCHANGED <<newest, row, job, pc, local, grant, history, budget>>

BackgroundRefresh ==
  /\ rowStatus = "connected" /\ job[Keyed] = "none"
  /\ job' = [job EXCEPT ![Keyed] = "waiting"]
  /\ UNCHANGED <<provider, row, pc, local, grant, history, budget>>

\* The user authorises anew: the code is exchanged, then the row is written under
\* its lock.
ExchangeCode ==
  /\ grant = 0 /\ newest < MaxToken /\ Spend("grant")
  /\ newest' = newest + 1 /\ grant' = newest + 1
  /\ overlapped' = (overlapped \/ \E a \in Actors : pc[a] = "save")
  /\ exposed' = TRUE
  /\ UNCHANGED <<agedUpTo, row, job, pc, local, lost>>

SaveGrant ==
  /\ grant # 0 /\ grant' = 0
  /\ rowToken' = grant /\ rowStatus' = "connected"
  /\ UNCHANGED <<provider, job, pc, local, history, budget>>
-------------------------------------------------------------------------------
Refresh(a) == Exchange(a) \/ ExchangeFails(a) \/ Save(a) \/ Demote(a)

Call(p) ==
  \/ EnsureFresh(p) \/ JobCompleted(p) \/ WaitFails(p) \/ Reread(p)
  \/ ApiEnds(p) \/ ApiThrottles(p) \/ ApiRefuses(p)

Next ==
  \/ \E a \in Actors : Refresh(a)
  \/ \E p \in Pods : Call(p) \/ Begin(p, "call") \/ Begin(p, "ping")
  \/ \E w \in Workers : Crash(w) \/ \E j \in Jobs : PickJob(w, j)
  \/ \E j \in Jobs : Forget(j)
  \/ Age \/ BackgroundRefresh \/ ExchangeCode \/ SaveGrant

Spec == Init /\ [][Next]_vars

\* The steps of a caller follow each other; every wait in it has a time limit.
\* Nothing is asked of the workers.
Fairness == \A p \in Pods : WF_vars(Call(p) \/ Refresh(p))

FairSpec == Spec /\ Fairness
-------------------------------------------------------------------------------
\* The token the provider accepts is never out of reach: the row has it, or
\* whoever was issued it has yet to save it.  Exempt: an answer lost on its way or
\* with its worker, and a refresh that saves its token over one granted meanwhile.
InHand(t) ==
  rowToken = t \/ grant = t \/ \E a \in Actors : pc[a] = "save" /\ got[a] = t

NewestInHand == lost \/ overlapped \/ InHand(newest)

\* The row lock of the save leaves no danger that a wrong token overwrites the
\* right one, as refreshAccessToken says of its transaction.
NothingOverwritten == lost \/ InHand(newest)

\* Refreshes that share the job id never demote the integration: one of them finds
\* the token of the one before in the row, never a spent one.
KeyedNeverDemotes == ~exposed => rowStatus = "connected"

\* A call to the integration comes to an end although the queue may never answer,
\* unless the provider throttles it for ever: the retries after a 429 are limited
\* between two refreshes only, since a 401 resets their count and a 429 the memory
\* of the 401 (triedAuthRetry is to rule out just that, and does not).
Throttled(p) == attempt'[p] > attempt[p]

CallsEnd ==
  \A p \in Pods : <>[][~Throttled(p)]_vars => (pc[p] # "idle" ~> pc[p] = "idle")
=============================================================================
