------------------------------ MODULE HubTokens ------------------------------
(***************************************************************************)
(* The login of one machine (nethackers.hubclient.credentials), shared by   *)
(* the runs on it, and the register call that keeps it fresh                *)
(* (hubclient.auth.TokenSource, hubclient.client.HubClient.register).       *)
(*                                                                         *)
(* A token set is the number under which GitHub issued it: its access       *)
(* token, its refresh token and its expiry travel together.  A refresh      *)
(* token is exchanged once; every exchange issues the next number.          *)
(*                                                                         *)
(* A register call is the sequence                                          *)
(*     current -> [exchange -> save] -> post -> [exchange -> save -> post]  *)
(* split wherever another run can step in: at the exchange, between the     *)
(* exchange and the save, and between the truncation and the write of the   *)
(* credentials file.                                                        *)
(***************************************************************************)
EXTENDS Naturals

CONSTANTS
    Runs,       \* the evolve runs (and CLI commands) of the machine
    MaxTokens,  \* bound: token sets GitHub issues
    MaxFaults   \* bound: lost answers, failed calls and kills

ASSUME HubTokensAssumption ==
    /\ MaxTokens \in Nat \ {0}
    /\ MaxFaults \in Nat

Torn == 0                  \* the file a writer has truncated and not filled
Tokens == 1 .. MaxTokens

VARIABLES
    issued,    \* the last token set GitHub issued
    live,      \* refresh tokens not yet exchanged
    refused,   \* access tokens the hub answers 401 to
    expired,   \* token sets whose expiry has passed on this machine's clock
    file,      \* credentials.json
    creds,     \* creds[r]: the token set run r holds in memory
    call,      \* call[r]: where r's register call is
    retried,   \* retried[r]: the call has had its 401
    faults     \* faults so far (bounds the fault model)

github == <<issued, live, refused, expired>>
vars == <<github, file, creds, call, retried, faults>>

Running == {"post", "exchange", "adopt", "save", "write"}
Ended == {"registered", "local_only", "failed"}
Calls == {"idle", "dead"} \cup Running \cup Ended

Init ==
    /\ issued = 1 /\ live = {1}
    /\ refused = {} /\ expired = {}
    /\ file = 1
    /\ creds = [r \in Runs |-> 1]
    /\ call = [r \in Runs |-> "idle"]
    /\ retried = [r \in Runs |-> FALSE]
    /\ faults = 0

Goto(r, c) == call' = [call EXCEPT ![r] = c]
Fault == faults < MaxFaults /\ faults' = faults + 1

(***************************************************************************)
(* The register call                                                        *)
(***************************************************************************)
\* TokenSource.current: refresh first when the clock says it is time.
Current(r) ==
    /\ call[r] \in {"idle"} \cup Ended
    /\ retried' = [retried EXCEPT ![r] = FALSE]
    /\ Goto(r, IF creds[r] \in expired THEN "exchange" ELSE "post")
    /\ UNCHANGED <<github, file, creds, faults>>

Accepted(r) ==
    /\ call[r] = "post" /\ creds[r] \notin refused
    /\ Goto(r, "registered")
    /\ UNCHANGED <<github, file, creds, retried, faults>>

\* The slip of the client before TokenSource: a 401 is final.
UnauthorizedIsFinal(r) ==
    /\ call[r] = "post" /\ creds[r] \in refused
    /\ Goto(r, "local_only")
    /\ UNCHANGED <<github, file, creds, retried, faults>>

\* The first 401 refreshes and retries; the second is an AuthError, which the
\* loop turns into a local-only elite.
Unauthorized(r) ==
    /\ call[r] = "post" /\ creds[r] \in refused
    /\ retried' = [retried EXCEPT ![r] = TRUE]
    /\ Goto(r, IF retried[r] THEN "local_only" ELSE "exchange")
    /\ UNCHANGED <<github, file, creds, faults>>

PostFails(r) ==
    /\ call[r] = "post" /\ Fault
    /\ Goto(r, "failed")
    /\ UNCHANGED <<github, file, creds, retried>>

\* GitHub's side of an exchange: the old set dies, the next one lives.
Rotate(r) ==
    /\ creds[r] \in live /\ issued < MaxTokens
    /\ issued' = issued + 1
    /\ live' = (live \ {creds[r]}) \cup {issued + 1}
    /\ refused' = refused \cup {creds[r]}
    /\ UNCHANGED expired

\* The slip that posts with the new token before it is on disk, and forgets to
\* put it there.
ExchangeUnsaved(r) ==
    /\ call[r] = "exchange" /\ Rotate(r)
    /\ creds' = [creds EXCEPT ![r] = issued + 1]
    /\ Goto(r, "post")
    /\ UNCHANGED <<file, retried, faults>>

Exchange(r) ==
    /\ call[r] = "exchange" /\ Rotate(r)
    /\ creds' = [creds EXCEPT ![r] = issued + 1]
    /\ Goto(r, "save")
    /\ UNCHANGED <<file, retried, faults>>

\* A refresh token someone has exchanged before is a bad_refresh_token.
ExchangeRefused(r) ==
    /\ call[r] = "exchange" /\ creds[r] \notin live
    /\ Goto(r, "adopt")
    /\ UNCHANGED <<github, file, creds, retried, faults>>

\* GitHub did not answer in time: it never saw the request, or it did and
\* call_with_deadline abandoned the thread that would have brought the answer.
ExchangeTimesOut(r) ==
    /\ call[r] = "exchange" /\ Fault
    /\ Rotate(r) \/ UNCHANGED github
    /\ Goto(r, "adopt")
    /\ UNCHANGED <<file, creds, retried>>

\* TokenSource._adopt_disk: take over what is on disk, if it can be read, and
\* use its access token if the clock allows.
Adopt(r) ==
    /\ call[r] = "adopt"
    /\ creds' = [creds EXCEPT ![r] = IF file = Torn THEN @ ELSE file]
    /\ Goto(r, IF file # Torn /\ file \notin expired THEN "post" ELSE "local_only")
    /\ UNCHANGED <<github, file, retried, faults>>

\* credentials.save: write_text truncates the file and then fills it.
Truncate(r) ==
    /\ call[r] = "save"
    /\ file' = Torn
    /\ Goto(r, "write")
    /\ UNCHANGED <<github, creds, retried, faults>>

Write(r) ==
    /\ call[r] = "write"
    /\ file' = creds[r]
    /\ Goto(r, "post")
    /\ UNCHANGED <<github, creds, retried, faults>>

\* A run is killed at any step, and a later one loads the file; with nothing
\* on it there is no token source and no login.
Kill(r) ==
    /\ call[r] # "dead" /\ Fault
    /\ Goto(r, "dead")
    /\ UNCHANGED <<github, file, creds, retried>>

Launch(r) ==
    /\ call[r] = "dead" /\ file # Torn
    /\ creds' = [creds EXCEPT ![r] = file]
    /\ Goto(r, "idle")
    /\ UNCHANGED <<github, file, retried, faults>>

(***************************************************************************)
(* Time: the current set lapses, on the machine's clock, at the hub (a      *)
(* revocation, or a clock that is slow), or both.                           *)
(***************************************************************************)
Lapse ==
    /\ issued < MaxTokens
    /\ \/ expired' = expired \cup {issued} /\ UNCHANGED refused
       \/ refused' = refused \cup {issued} /\ UNCHANGED expired
    /\ UNCHANGED <<issued, live, file, creds, call, retried, faults>>

Step(r) ==
    \/ Accepted(r) \/ Unauthorized(r) \/ Exchange(r) \/ ExchangeRefused(r)
    \/ Adopt(r) \/ Truncate(r) \/ Write(r)

Next ==
    \/ Lapse
    \/ \E r \in Runs :
        \/ Current(r) \/ Step(r) \/ PostFails(r) \/ ExchangeTimesOut(r)
        \/ Kill(r) \/ Launch(r)

\* A run goes on with its call, and it has a next win to register.
Fairness == \A r \in Runs : WF_vars(Current(r)) /\ WF_vars(Step(r))

Spec == Init /\ [][Next]_vars /\ Fairness

-----------------------------------------------------------------------------
\* State is of its type; nobody but the writer of the moment has torn the file
\* unless a fault struck.
TypeOK ==
    /\ issued \in Tokens /\ live \subseteq Tokens
    /\ refused \subseteq Tokens /\ expired \subseteq Tokens
    /\ file \in Tokens \cup {Torn}
    /\ creds \in [Runs -> Tokens]
    /\ call \in [Runs -> Calls]
    /\ retried \in [Runs -> BOOLEAN]
    /\ faults \in 0 .. MaxFaults

\* Parallel runs never lose the login between them: unless an answer was lost
\* or a run killed, there is one refresh token left to exchange, and it is in
\* the file or in the hands of the run about to put it there
\* (TokenSource.refresh: exchange, then save, with no lock over the two).
LoginIsNeverLost ==
    faults = 0 =>
        /\ live = {issued}
        /\ \/ file = issued
           \/ \E r \in Runs : call[r] \in {"save", "write"} /\ creds[r] = issued

\* A run that lost the race for a token set gets over it: while no fault has
\* struck, every run comes to register, however often the set lapses and
\* whoever exchanges it first (TokenSource.refresh adopts the file even when
\* it is of no use at once, so the next call starts from it).
EveryRunRegisters ==
    \A r \in Runs : []<>(call[r] = "registered" \/ faults > 0)
==============================================================================
