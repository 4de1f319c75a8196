--------------------------- MODULE HubTokensProofs ---------------------------
(***************************************************************************)
(* Proofs about the shared login, for any number of runs, token sets and    *)
(* faults.                                                                  *)
(***************************************************************************)
EXTENDS HubTokens, TLAPS

-----------------------------------------------------------------------------
(* TYPE CORRECTNESS *)

LEMMA InitTyped == Init => TypeOK
<1>1. 1 \in Tokens
  BY HubTokensAssumption DEF Tokens
<1>2. QED
  BY <1>1, HubTokensAssumption DEF Init, TypeOK, Calls, Torn

LEMMA RotateTyped ==
  ASSUME TypeOK, NEW r \in Runs, Rotate(r)
  PROVE  /\ issued' \in Tokens /\ issued' = issued + 1
         /\ live' \subseteq Tokens
         /\ refused' \subseteq Tokens /\ expired' \subseteq Tokens
<1>1. issued + 1 \in Tokens
  BY HubTokensAssumption DEF TypeOK, Rotate, Tokens
<1>2. creds[r] \in Tokens
  BY DEF TypeOK
<1>3. QED
  BY <1>1, <1>2 DEF TypeOK, Rotate

(* Where a call goes and what a fault costs, for every step. *)
LEMMA GotoTyped ==
  ASSUME TypeOK, NEW r \in Runs, NEW c \in Calls, Goto(r, c)
  PROVE  call' \in [Runs -> Calls]
BY DEF TypeOK, Goto

LEMMA FaultTyped ==
  ASSUME TypeOK, Fault
  PROVE  faults' \in 0 .. MaxFaults /\ faults' # 0
BY HubTokensAssumption DEF TypeOK, Fault

LEMMA StepTyped == TypeOK /\ [Next]_vars => TypeOK'
<1> USE DEF TypeOK
<1> SUFFICES ASSUME TypeOK, [Next]_vars
             PROVE  TypeOK'
  OBVIOUS
<1>c. {"idle", "dead", "post", "exchange", "adopt", "save", "write",
       "registered", "local_only", "failed"} \subseteq Calls
  BY DEF Calls, Running, Ended
<1>1. CASE Lapse
  BY <1>1 DEF Lapse
<1>2. ASSUME NEW r \in Runs, Current(r)
      PROVE  TypeOK'
  BY <1>2, <1>c, GotoTyped DEF Current, github
<1>3. ASSUME NEW r \in Runs, Accepted(r)
      PROVE  TypeOK'
  BY <1>3, <1>c, GotoTyped DEF Accepted, github
<1>4. ASSUME NEW r \in Runs, Unauthorized(r)
      PROVE  TypeOK'
  BY <1>4, <1>c, GotoTyped DEF Unauthorized, github
<1>5. ASSUME NEW r \in Runs, PostFails(r)
      PROVE  TypeOK'
  BY <1>5, <1>c, GotoTyped, FaultTyped DEF PostFails, github
<1>6. ASSUME NEW r \in Runs, Exchange(r)
      PROVE  TypeOK'
  BY <1>6, <1>c, GotoTyped, RotateTyped DEF Exchange
<1>7. ASSUME NEW r \in Runs, ExchangeRefused(r)
      PROVE  TypeOK'
  BY <1>7, <1>c, GotoTyped DEF ExchangeRefused, github
<1>8. ASSUME NEW r \in Runs, ExchangeTimesOut(r)
      PROVE  TypeOK'
  BY <1>8, <1>c, GotoTyped, FaultTyped, RotateTyped DEF ExchangeTimesOut, github
<1>9. ASSUME NEW r \in Runs, Adopt(r)
      PROVE  TypeOK'
  BY <1>9, <1>c, GotoTyped DEF Adopt, github
<1>10. ASSUME NEW r \in Runs, Truncate(r)
       PROVE  TypeOK'
  BY <1>10, <1>c, GotoTyped DEF Truncate, github
<1>11. ASSUME NEW r \in Runs, Write(r)
       PROVE  TypeOK'
  BY <1>11, <1>c, GotoTyped DEF Write, github
<1>12. ASSUME NEW r \in Runs, Kill(r)
       PROVE  TypeOK'
  BY <1>12, <1>c, GotoTyped, FaultTyped DEF Kill, github
<1>13. ASSUME NEW r \in Runs, Launch(r)
       PROVE  TypeOK'
  BY <1>13, <1>c, GotoTyped DEF Launch, github
<1>14. CASE UNCHANGED vars
  BY <1>14 DEF vars, github
<1>15. QED
  BY <1>1, <1>2, <1>3, <1>4, <1>5, <1>6, <1>7, <1>8, <1>9, <1>10, <1>11,
     <1>12, <1>13, <1>14 DEF Next, Step

(* The login's state stays of its type under every step of every run
   (hubclient.auth.TokenSource, hubclient.credentials). *)
THEOREM TypeCorrect == Spec => []TypeOK
BY InitTyped, StepTyped, PTL DEF Spec

-----------------------------------------------------------------------------
(* THE LOGIN *)

Saving(r) == call[r] \in {"save", "write"}

\* What keeps the login while nothing has gone wrong.  A run that is saving
\* holds the newest set and the file does not, so no second run can exchange
\* it; a run that holds the newest set and is not saving has read it from the
\* file, so the file has it.
Sound ==
    /\ live = {issued}
    /\ file <= issued
    /\ \A r \in Runs : creds[r] <= issued
    /\ \A r \in Runs : Saving(r) => creds[r] = issued /\ file # issued
    /\ \A r, s \in Runs : Saving(r) /\ Saving(s) => r = s
    /\ \A r \in Runs : creds[r] = issued => file = issued \/ Saving(r)
    /\ file = issued \/ \E r \in Runs : Saving(r)

IInv == TypeOK /\ (faults = 0 => Sound)

LEMMA InitIInv == Init => IInv
<1>1. Init => Sound
  BY DEF Init, Sound, Saving
<1>2. QED
  BY <1>1, InitTyped DEF IInv

(* A step of r that leaves GitHub, the file and every token alone, and that
   neither starts nor ends a save, keeps the login. *)
LEMMA ElsewhereIsSound ==
  ASSUME TypeOK, Sound, NEW r \in Runs, NEW c \in Calls, Goto(r, c),
         ~Saving(r), c \notin {"save", "write"},
         issued' = issued, live' = live, file' = file, creds' = creds
  PROVE  Sound'
<1>1. \A s \in Runs : Saving(s)' <=> Saving(s)
  BY DEF Goto, Saving, TypeOK
<1>2. QED
  BY <1>1 DEF Sound

LEMMA ExchangeIsSound ==
  ASSUME TypeOK, Sound, NEW r \in Runs, Exchange(r)
  PROVE  Sound'
<1>1. /\ creds[r] = issued /\ file = issued /\ ~Saving(r)
  BY DEF Exchange, Rotate, Sound, Saving
<1>2. /\ issued' = issued + 1 /\ live' = {issued'} /\ file' = file
      /\ creds' = [creds EXCEPT ![r] = issued + 1]
      /\ call' = [call EXCEPT ![r] = "save"]
  BY <1>1 DEF Exchange, Rotate, Sound, Goto
<1>3. \A s \in Runs : ~Saving(s)
  BY <1>1 DEF Sound
<1>4. \A s \in Runs : Saving(s)' <=> s = r
  BY <1>2, <1>3 DEF Saving, TypeOK
<1>5. \A s \in Runs : creds'[s] = IF s = r THEN issued + 1 ELSE creds[s]
  BY <1>2 DEF TypeOK
<1>6. issued \in Nat
  BY DEF TypeOK, Tokens
<1>7. \A s \in Runs : creds[s] \in Nat /\ creds[s] <= issued
  BY DEF TypeOK, Tokens, Sound
<1>8. QED
  BY <1>1, <1>2, <1>4, <1>5, <1>6, <1>7 DEF Sound

LEMMA TruncateIsSound ==
  ASSUME TypeOK, Sound, NEW r \in Runs, Truncate(r)
  PROVE  Sound'
<1>1. Saving(r) /\ creds[r] = issued /\ file # issued
  BY DEF Truncate, Saving, Sound
<1>2. /\ issued' = issued /\ live' = live /\ creds' = creds /\ file' = 0
      /\ call' = [call EXCEPT ![r] = "write"]
  BY DEF Truncate, github, Torn, Goto
<1>3. \A s \in Runs : Saving(s)' <=> Saving(s)
  BY <1>1, <1>2 DEF Saving, TypeOK
<1>4. issued \in Nat /\ issued # 0
  BY DEF TypeOK, Tokens
<1>5. QED
  BY <1>1, <1>2, <1>3, <1>4 DEF Sound

LEMMA WriteIsSound ==
  ASSUME TypeOK, Sound, NEW r \in Runs, Write(r)
  PROVE  Sound'
<1>1. Saving(r) /\ creds[r] = issued
  BY DEF Write, Saving, Sound
<1>2. /\ issued' = issued /\ live' = live /\ creds' = creds /\ file' = issued
      /\ call' = [call EXCEPT ![r] = "post"]
  BY <1>1 DEF Write, github, Goto
<1>3. \A s \in Runs : ~Saving(s)'
  BY <1>1, <1>2 DEF Saving, TypeOK, Sound
<1>4. issued \in Nat
  BY DEF TypeOK, Tokens
<1>5. QED
  BY <1>2, <1>3, <1>4 DEF Sound

(* A run that takes over what is on disk, at a refusal or at its launch. *)
LEMMA TakeOverIsSound ==
  ASSUME TypeOK, Sound, NEW r \in Runs, NEW c \in Calls, Goto(r, c),
         ~Saving(r), c \notin {"save", "write"},
         issued' = issued, live' = live, file' = file,
         creds' = [creds EXCEPT ![r] = IF file = Torn THEN @ ELSE file]
  PROVE  Sound'
<1>1. \A s \in Runs : Saving(s)' <=> Saving(s)
  BY DEF Goto, Saving, TypeOK
<1>2. \A s \in Runs : creds'[s] = IF s = r /\ file # Torn THEN file ELSE creds[s]
  BY DEF TypeOK
<1>3. QED
  BY <1>1, <1>2 DEF Sound

LEMMA StepSound ==
  ASSUME TypeOK, TypeOK', Sound, [Next]_vars, faults' = 0
  PROVE  Sound'
<1>c. {"idle", "post", "exchange", "adopt", "registered", "local_only"}
        \subseteq Calls
  BY DEF Calls, Running, Ended
<1>f. ~Fault
  BY FaultTyped
<1>1. CASE Lapse
  BY <1>1 DEF Lapse, Sound, Saving
<1>2. ASSUME NEW r \in Runs, Current(r)
      PROVE  Sound'
  BY <1>2, <1>c, ElsewhereIsSound DEF Current, github, Saving, Ended
<1>3. ASSUME NEW r \in Runs, Accepted(r)
      PROVE  Sound'
  BY <1>3, <1>c, ElsewhereIsSound DEF Accepted, github, Saving
<1>4. ASSUME NEW r \in Runs, Unauthorized(r)
      PROVE  Sound'
  BY <1>4, <1>c, ElsewhereIsSound DEF Unauthorized, github, Saving
<1>5. ASSUME NEW r \in Runs, Exchange(r)
      PROVE  Sound'
  BY <1>5, ExchangeIsSound
<1>6. ASSUME NEW r \in Runs, ExchangeRefused(r)
      PROVE  Sound'
  BY <1>6, <1>c, ElsewhereIsSound DEF ExchangeRefused, github, Saving
<1>7. ASSUME NEW r \in Runs, Adopt(r)
      PROVE  Sound'
  BY <1>7, <1>c, TakeOverIsSound DEF Adopt, github, Saving
<1>8. ASSUME NEW r \in Runs, Truncate(r)
      PROVE  Sound'
  BY <1>8, TruncateIsSound
<1>9. ASSUME NEW r \in Runs, Write(r)
      PROVE  Sound'
  BY <1>9, WriteIsSound
<1>10. ASSUME NEW r \in Runs, Launch(r)
       PROVE  Sound'
  <2>1. creds' = [creds EXCEPT ![r] = IF file = Torn THEN @ ELSE file]
    BY <1>10 DEF Launch
  <2>2. QED
    BY <1>10, <1>c, <2>1, TakeOverIsSound DEF Launch, github, Saving
<1>11. \A r \in Runs : ~PostFails(r) /\ ~ExchangeTimesOut(r) /\ ~Kill(r)
  BY <1>f DEF PostFails, ExchangeTimesOut, Kill
<1>12. CASE UNCHANGED vars
  BY <1>12 DEF vars, github, Sound, Saving
<1>13. QED
  BY <1>1, <1>2, <1>3, <1>4, <1>5, <1>6, <1>7, <1>8, <1>9, <1>10, <1>11, <1>12
     DEF Next, Step

LEMMA FaultsOnlyGrow == TypeOK /\ [Next]_vars /\ faults' = 0 => faults = 0
BY DEF TypeOK, Next, Step, Lapse, Current, Accepted, Unauthorized, PostFails,
       Exchange, ExchangeRefused, ExchangeTimesOut, Adopt, Truncate, Write,
       Kill, Launch, Fault, vars

LEMMA StepIInv == IInv /\ [Next]_vars => IInv'
BY StepTyped, StepSound, FaultsOnlyGrow DEF IInv

(* The runs of a machine that share a login never lose it between them: as long
   as no answer is lost and no run killed, one refresh token is left, and the
   file has it or a run is about to put it there (TokenSource.refresh exchanges
   and saves with no lock over the two). *)
THEOREM LoginStays == Spec => []LoginIsNeverLost
<1>1. IInv => LoginIsNeverLost
  BY DEF IInv, Sound, Saving, LoginIsNeverLost
<1>2. QED
  BY <1>1, InitIInv, StepIInv, PTL DEF Spec
==============================================================================
