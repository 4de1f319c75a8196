------------------------------- MODULE Monitor -------------------------------
(***************************************************************************)
(* The monitor of a run (tui/run.py Run, fed by tui/app.py): what it shows  *)
(* of an evolve loop it knows only by the states and results the loop       *)
(* reports.  The loop's worker waits for each report to be applied, so a    *)
(* report and the step of the loop that makes it are one step.              *)
(*                                                                          *)
(* The monitor keeps the cells of the last cold-start report and a result   *)
(* per iteration, and works out the incumbents anew from them for every     *)
(* frame (incumbent, best_overall); here the incumbents are kept instead.   *)
(***************************************************************************)
EXTENDS EvolveLoop

CONSTANT UnionFloor     \* the mean of AutoAscend's floors

ASSUME MonitorAssumption == UnionFloor \in Int

VARIABLES
  incumbent,      \* the best score shown for each identity, None before its cell
  best_overall,   \* the best score shown over all of them
  iter_times      \* the steps each iteration is shown to have reached

shownVars == <<incumbent, best_overall>>
monitorVars == <<shownVars, iter_times>>

Steps == {"edit_start", "edit_end", "smoke_end", "decided"}

InitMonitor ==
  /\ Init
  /\ incumbent = [i \in Identity |-> None]
  /\ best_overall = UnionFloor
  /\ iter_times = [n \in 1..Iterations |-> {}]

\* Slip: the union cell of the first report, before any cell is scored, is kept.
ShowFirstColdStart ==
  /\ incumbent' = [i \in Identity |->
                     IF cells'[i] = NoCell THEN None ELSE cells'[i].dev_evidence[i]]
  /\ UNCHANGED best_overall

\* apply_state of a cold-start report, which follows every insertion.
ShowColdStart ==
  /\ incumbent' = [i \in Identity |->
                     IF cells'[i] = NoCell THEN None ELSE cells'[i].dev_evidence[i]]
  /\ best_overall' = IF union' = NoCell THEN UnionFloor ELSE UnionMean(union'.dev_evidence)

\* apply_iteration of a scored child: the incumbents it raises.
ShowChild ==
  /\ incumbent' = [i \in Identity |->
                     IF dev_ev[i] > incumbent[i] THEN dev_ev[i] ELSE incumbent[i]]
  /\ best_overall' = IF /\ UnionLabel \in Improved(dev_ev)
                        /\ UnionMean(dev_ev) > best_overall
                     THEN UnionMean(dev_ev) ELSE best_overall

\* Slip: an error is taken for the end of whatever comes before it.
ReachesByOrder(phase_) ==
  CASE phase_ = "mutating" -> {"edit_start"}
    [] phase_ = "gating" -> {"edit_start", "edit_end"}
    [] phase_ = "evaluating-dev" -> Steps \ {"decided"}
    [] OTHER -> Steps

\* The steps a report of the phase says the iteration has reached.
Reaches(phase_) ==
  CASE phase_ = "mutating" -> {"edit_start"}
    [] phase_ = "gating" -> {"edit_start", "edit_end"}
    [] phase_ = "evaluating-dev" -> Steps \ {"decided"}
    [] phase_ \in {"registered", "rejected"} -> Steps
    [] phase_ \in {"error", "aborted"} -> {"decided"}

\* _stamp: a report on the iteration begun last.
Stamp(phase_) ==
  iter_times' = [iter_times EXCEPT ![k'] =
                   IF phase_ = "mutating" THEN Reaches(phase_) ELSE @ \cup Reaches(phase_)]

\* The reports of an iteration that change no incumbent.
Reported ==
  \/ (\E label \in Identity \cup {UnionLabel} : PickCell(label)) /\ Stamp("mutating")
  \/ PrepareRaises /\ Stamp("error")
  \/ (\E tree \in Tree : OperatorReturns(tree)) /\ Stamp("gating")
  \/ (\E refused \in BOOLEAN : OperatorRaises(refused)) /\ Stamp("error")
  \/ GatePasses /\ Stamp("evaluating-dev")
  \/ IterationFails("gate") /\ Stamp("rejected")
  \/ IterationFails("error") /\ Stamp("error")
  \/ ReferenceUnbound /\ Stamp("error")

Unreported ==
  \/ DevEval
  \/ Publish
  \/ \E raised \in BOOLEAN : NotPublished(raised)
  \/ \E stored, returns \in BOOLEAN : Register(stored, returns)
  \/ Finish
  \/ RequestStop

NextMonitored ==
  \/ ColdStart /\ ShowColdStart /\ UNCHANGED iter_times
  \/ Reported /\ UNCHANGED shownVars
  \/ InsertChild /\ ShowChild /\ Stamp("registered")
  \/ Unreported /\ UNCHANGED monitorVars

SpecMonitored ==
  InitMonitor /\ [][NextMonitored]_<<vars, monitorVars>> /\ Fairness

-----------------------------------------------------------------------------
(* The monitor shows the archive's scores, though it works them out by rules of
   its own from what the loop reports: a "new best" on the screen is a gain in
   the archive and the other way round.  A child archived by an iteration that
   then fails (ReferenceUnbound) is the exception, and AutoAscend's floor stands
   in for a union cell below it (run.py progress_mean, incumbent, best_overall). *)
MonitorShowsTheArchive ==
  (\A r \in ResultSet : r.outcome # "unbound") =>
    /\ \A i \in Identity :
         incumbent[i] = IF cells[i] = NoCell THEN None ELSE ScoreAt(i)
    /\ \/ best_overall = UnionFloor
          /\ union # NoCell => UnionMean(union.dev_evidence) <= UnionFloor
       \/ union # NoCell /\ best_overall = UnionMean(union.dev_evidence)

Stamped(step) == {n \in 1..Iterations : step \in iter_times[n]}

Working == {"operator", "gate", "dev", "publish", "register", "insert"}

(* The story the monitor tells is the loop's: an iteration is shown decided when
   and only when it is recorded, the one shown running is the one under way, and
   a step is shown done only if it was, whatever failed when ("a step is claimed
   done only when its OWN timestamp was actually reached", run.py _stamp).  The
   time left counts every iteration once (run.py pace_left). *)
StoryIsTrue ==
  /\ Stamped("decided") = {r.iteration : r \in ResultSet}
  /\ Stamped("edit_start") \ Stamped("decided") = IF phase \in Working THEN {k} ELSE {}
  /\ \A r \in ResultSet :
       /\ r.iteration \in Stamped("edit_end") <=> r.op = "ok"
       /\ r.outcome \in EvaluatedOutcomes \cup {"gate"} =>
            r.iteration \in Stamped("smoke_end")
       /\ r.iteration \in Stamped("smoke_end") => r.op = "ok"
=============================================================================
