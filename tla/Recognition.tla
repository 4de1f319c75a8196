----------------------------- MODULE Recognition -----------------------------
(***************************************************************************)
(* The credit ledger of the website (hub/views/recognition.py), read from    *)
(* the tables register writes, at any instant of their writing.             *)
(*                                                                          *)
(* A score is the mean of the levels on the seeds of an identity: evidence   *)
(* covers a whole batch.  Scores are integers, on a scale fine enough for    *)
(* every gain between two of them to be above _MIN_LIFT.                     *)
(***************************************************************************)
EXTENDS HubRegister, FiniteSetsExt

CONSTANTS
  MeanOf(_),    \* the mean of the levels of a batch
  Floor,        \* AutoAscend's mean on each identity, NoRow where unmeasured
  DigestRank    \* the order of the solutions' digests

ASSUME RecognitionAssumption ==
  /\ IsFiniteSet(Solution)
  /\ \A levels \in [Seed -> Level] : MeanOf(levels) \in Int
  /\ Floor \in [Identity -> Int \cup {NoRow}]
  /\ DigestRank \in [Solution -> Nat]
  /\ \A s, t \in Solution : DigestRank[s] = DigestRank[t] => s = t

Scored(s, i) == \E seed \in Seed : atoms[<<s, <<i, seed>>>>] # NoRow

Score(s, i) == MeanOf([seed \in Seed |-> atoms[<<s, <<i, seed>>>>]])

\* Slip: the best program first, so that credit goes with the ground still held.
BestFirst(i, s, t) == Score(s, i) > Score(t, i)

\* The order of the replay: by registration, then by digest.
ReplayedFirst(i, s, t) ==
  \/ solutions[s] < solutions[t]
  \/ solutions[s] = solutions[t] /\ DigestRank[s] < DigestRank[t]

\* The scores the replay has seen when it comes to a program, and the floor.
Replayed(s, i) ==
  {Floor[i]} \cup {Score(t, i) : t \in {u \in Solution : Scored(u, i) /\ ReplayedFirst(i, u, s)}}

\* What each scored program is credited with on an identity: what it adds to the
\* frontier the replay has reached when it comes to it.  Without a floor nobody
\* is credited.
Gains(i) ==
  IF Floor[i] = NoRow THEN <<>>
  ELSE [s \in {t \in Solution : Scored(t, i)} |->
          Max({0, Score(s, i) - Max(Replayed(s, i))})]

-----------------------------------------------------------------------------
\* The program, or one replayed before it, is dated anew in this step.
Redated(s) ==
  \E t \in Solution :
    /\ t = s \/ solutions'[t] <= solutions'[s]
    /\ solutions'[t] # solutions[t]

\* A program registered no later gets its scores in this step.
Overtaken(s, i) ==
  \E t \in Solution \ {s} :
    solutions'[t] <= solutions'[s] /\ ~Scored(t, i) /\ Scored(t, i)'

CreditFallsOnlyIf(Excused(_, _)) ==
  <<solutions, atoms>>' # <<solutions, atoms>> /\ archive' = archive =>
    \A i \in Identity :
      LET before == Gains(i)
          after  == Gains(i)'
      IN  \A s \in DOMAIN before : after[s] < before[s] => Excused(s, i)

\* Credit is for the ground a program moved, "not for ground they still hold:
\* being surpassed later costs nothing" (recognition.py:12-13).  What a program is
\* credited with falls only when a program registered no later than it gets its
\* scores after it, when its own date or an earlier one is written anew by
\* another registration of the same program, or when genesis archives the board.
SurpassingCostsNothing ==
  [][CreditFallsOnlyIf(LAMBDA s, i : Redated(s) \/ Overtaken(s, i))]_vars

\* The same with no excuse for a date written anew.  It does not hold: registering
\* a program again, to no avail even, passes its credit to the one that surpassed
\* it in between (see the README).
AgainCostsNothing == [][CreditFallsOnlyIf(Overtaken)]_vars

=============================================================================
