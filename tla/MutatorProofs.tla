----------------------------- MODULE MutatorProofs -----------------------------
(***************************************************************************)
(* Proofs about the mutator's processes, for any number of runs, brokers    *)
(* and faults.                                                              *)
(***************************************************************************)
EXTENDS Mutator, FiniteSetTheorems, WellFoundedInduction, TLAPS

-----------------------------------------------------------------------------
(* TYPE CORRECTNESS *)

\* Where a run's thread is before its client may run, and after.
Unnamed == {"new", "named"}
Unissued == Unnamed \cup {"ready", "auth", "exchange"}
Before == Unissued \cup {"save", "broker", "brokers", "launch"}
After == {"joining", "stopping", "over"}
Places == Before \cup {"reading"} \cup After

Typed ==
    /\ dirs \subseteq Nat
    /\ id \in [Runs -> Nat]
    /\ pc \in [Runs -> Places]
    /\ serving \in [Runs -> 0 .. MaxBrokers]
    /\ stop \in [Runs -> BOOLEAN]
    /\ killed \in [Runs -> BOOLEAN]
    /\ watcher \in [Runs -> {"off", "polling", "gone"}]
    /\ client \in [Runs -> Attached \cup {"none", "done", "failed", "shot", "reaped"}]
    /\ box \in [Runs -> Up \cup {"none", "starting", "killed", "exited"}]
    /\ login \in Nat /\ issued \in Nat /\ issued >= 1 /\ login \in 1 .. issued
    /\ held \in [Runs -> 0 .. issued]
    /\ \A r \in Runs : At(r, "save") => held[r] # 0
    /\ faults \in Nat

\* The runs that have a directory, and those that are past the exchange.
Named == {r \in Runs : pc[r] \notin Unnamed}
Issued == {r \in Runs : pc[r] \notin Unissued}

\* A directory is some run's, an id is at most the number of runs, and a login
\* was issued to a run that is past its one exchange.
Counted ==
    /\ \A d \in dirs : \E r \in Named : d = id[r]
    /\ \A r \in Runs : id[r] <= Cardinality(Runs)
    /\ issued <= Cardinality(Issued) + 1

-----------------------------------------------------------------------------
(* THE PROCESSES *)

\* A client runs only while its run reads it; it is attached to a container
\* that is coming up or up; and a container that is up without its client is
\* one whose run was stopped and has yet to kill it.
Orderly(r) ==
    /\ pc[r] \in Before \ {"launch"} => serving[r] = 0
    /\ pc[r] \in Before => client[r] = "none"
    /\ pc[r] \in After => client[r] \in {"none", "reaped"}
    /\ client[r] \in {"none", "reaped"} => pc[r] # "reading"
    /\ client[r] \in {"none", "asking"} => box[r] = "none"
    /\ client[r] = "attached" => box[r] \in {"starting", "up"}
    /\ client[r] = "shot" => stop[r]
    /\ box[r] = "up" => \/ client[r] = "attached"
                        \/ client[r] \in {"shot", "reaped"} /\ stop[r]
    /\ box[r] = "up" => pc[r] \in {"reading", "joining"}
    /\ pc[r] = "over" => serving[r] = 0

\* While nothing has gone wrong.  A run that saves holds the newest login and
\* the disk does not, so that no second run can exchange it.
Kept ==
    /\ \A r \in Runs : At(r, "save") => held[r] = issued /\ login # issued
    /\ \A r, s \in Runs : At(r, "save") /\ At(s, "save") => r = s
    /\ login = issued \/ \E r \in Runs : At(r, "save")

IInv ==
    /\ Typed
    /\ Counted
    /\ \A r \in Runs : Orderly(r)
    /\ faults = 0 => Kept

-----------------------------------------------------------------------------
(* FREE IDS *)

LEMMA LeastOf ==
  ASSUME NEW T, T \subseteq Nat, T # {}
  PROVE  \E x \in T : \A y \in T : ~ (y < x)
<1> DEFINE R == {ss \in Nat \X Nat : ss[1] < ss[2]}
<1>1. IsWellFoundedOn(R, Nat)
  BY NatLessThanWellFounded DEF OpToRel
<1> HIDE DEF R
<1>2. \E x \in T : \A y \in T : ~ (<<y, x>> \in R)
  BY <1>1, WFMin
<1>3. QED
  BY <1>2 DEF R

LEMMA RunsAreFinite ==
  ASSUME NEW S, S \subseteq Runs
  PROVE  /\ IsFiniteSet(S) /\ Cardinality(S) \in Nat
         /\ Cardinality(Runs) \in Nat /\ Cardinality(S) <= Cardinality(Runs)
BY MutatorAssumption, FS_Subset, FS_CardinalityType

(* There are no more directories than runs that have made theirs. *)
LEMMA FewDirectories ==
  ASSUME Typed, Counted
  PROVE  /\ IsFiniteSet(dirs) /\ Cardinality(dirs) \in Nat
         /\ Cardinality(dirs) <= Cardinality(Named)
<1> DEFINE with == {r \in Named : id[r] \in dirs}
<1> DEFINE f == [r \in with |-> id[r]]
<1>1. f \in Surjection(with, dirs)
  BY DEF Counted, Surjection
<1>2. with \subseteq Named /\ Named \subseteq Runs /\ with \subseteq Runs
  BY DEF Named
<1> HIDE DEF with, f
<1>3. IsFiniteSet(with) /\ IsFiniteSet(Named)
  BY <1>2, RunsAreFinite
<1>4. IsFiniteSet(dirs) /\ Cardinality(dirs) <= Cardinality(with)
  BY <1>1, <1>3, FS_Surjection
<1>5. Cardinality(with) <= Cardinality(Named)
  BY <1>2, <1>3, FS_Subset
<1>6. QED
  BY <1>3, <1>4, <1>5, FS_CardinalityType

(* A run that has not chosen its id finds one no directory has. *)
LEMMA FreeIdIsFree ==
  ASSUME Typed, Counted, NEW r \in Runs, At(r, "new")
  PROVE  FreeId \in Nat /\ FreeId \in 1 .. Cardinality(Runs) /\ FreeId \notin dirs
<1> DEFINE D == Cardinality(dirs)
<1> DEFINE T == {n \in 1 .. D + 1 : n \notin dirs}
<1>1. IsFiniteSet(dirs) /\ D \in Nat /\ D <= Cardinality(Named)
  BY FewDirectories
<1>2. D + 1 <= Cardinality(Runs) /\ Cardinality(Runs) \in Nat
  <2>1. Named \subseteq Runs \ {r} /\ Runs \ {r} \subseteq Runs
    BY DEF Named, Unnamed, At
  <2>2. IsFiniteSet(Runs \ {r}) /\ Cardinality(Runs \ {r}) = Cardinality(Runs) - 1
    BY MutatorAssumption, FS_RemoveElement
  <2>3. Cardinality(Named) <= Cardinality(Runs \ {r})
    BY <2>1, <2>2, FS_Subset
  <2>4. Cardinality(Runs) \in Nat /\ Cardinality(Named) \in Nat
    BY <2>1, RunsAreFinite
  <2>5. QED
    BY <1>1, <2>2, <2>3, <2>4
<1>3. T # {}
  <2>1. SUFFICES ASSUME 1 .. D + 1 \subseteq dirs
                 PROVE  FALSE
    OBVIOUS
  <2>2. Cardinality(1 .. D + 1) <= Cardinality(dirs)
    BY <1>1, <2>1, FS_Subset
  <2>3. Cardinality(1 .. D + 1) = D + 1
    BY <1>1, FS_Interval
  <2>4. QED
    BY <1>1, <2>2, <2>3
<1>4. PICK n \in T : \A m \in T : ~(m < n)
  <2>1. T \subseteq Nat
    BY <1>1
  <2>2. QED
    BY <1>3, <2>1, LeastOf
<1>5. n \in 1 .. Cardinality(dirs) + 1 /\ n \notin dirs /\ 1 .. n - 1 \subseteq dirs
  BY <1>1, <1>4
<1>6. FreeId \in 1 .. D + 1 /\ FreeId \notin dirs
  BY <1>5 DEF FreeId
<1>7. QED
  BY <1>1, <1>2, <1>6

-----------------------------------------------------------------------------
(* THE STEPS, ONE TYPE AT A TIME *)

LEMMA InitIInv == Init => IInv
<1> SUFFICES ASSUME Init
             PROVE  IInv
  OBVIOUS
<1>1. Typed
  BY MutatorAssumption
     DEF Init, Typed, Places, Before, Unissued, Unnamed, At, Attached, Up, NoId
<1>2. /\ Cardinality(Runs) \in Nat
      /\ IsFiniteSet(Issued) /\ Cardinality(Issued) \in Nat
  BY MutatorAssumption, FS_CardinalityType, FS_Subset, Issued \subseteq Runs DEF Issued
<1>3. Counted
  BY <1>2 DEF Init, Counted, NoId
<1>4. \A r \in Runs : Orderly(r)
  BY DEF Init, Orderly, Before, Unissued, Unnamed, After
<1>5. Kept
  BY DEF Init, Kept, At
<1>6. QED
  BY <1>1, <1>3, <1>4, <1>5 DEF IInv

LEMMA GotoTyped ==
  ASSUME Typed, NEW r \in Runs, NEW there \in Places, Goto(r, there)
  PROVE  /\ pc' \in [Runs -> Places]
         /\ \A s \in Runs : pc'[s] = IF s = r THEN there ELSE pc[s]
BY DEF Typed, Goto

LEMMA StepTyped ==
  ASSUME Typed, Counted, [Next]_vars
  PROVE  Typed'
<1> USE DEF Typed, At, launch, provider, processes
<1>p. {"new", "named", "ready", "auth", "exchange", "save", "broker", "brokers",
       "launch", "reading", "joining", "stopping", "over"} \subseteq Places
  BY DEF Places, Before, Unissued, Unnamed, After
<1>c. {"asking", "attached", "none", "done", "failed", "shot", "reaped"}
        \subseteq Attached \cup {"none", "done", "failed", "shot", "reaped"}
  BY DEF Attached
<1>b. {"up", "orphan", "none", "starting", "killed", "exited"}
        \subseteq Up \cup {"none", "starting", "killed", "exited"}
  BY DEF Up
<1>1. ASSUME NEW r \in Runs, ChooseId(r)
      PROVE  Typed'
  BY <1>1, <1>p, <1>c, <1>b, GotoTyped, FreeIdIsFree DEF ChooseId
<1>2. ASSUME NEW r \in Runs, RequestStop(r)
      PROVE  Typed'
  BY <1>2, <1>p, <1>c, <1>b, GotoTyped DEF RequestStop
<1>3. ASSUME NEW r \in Runs, WriteRunDir(r)
      PROVE  Typed'
  <2>1. id[r] \in Nat
    OBVIOUS
  <2>2. QED
    BY <1>3, <2>1, <1>p, GotoTyped DEF WriteRunDir
<1>4. ASSUME NEW r \in Runs, Skip(r)
      PROVE  Typed'
  BY <1>4, <1>p, <1>c, <1>b, GotoTyped DEF Skip
<1>5. ASSUME NEW r \in Runs, Begin(r)
      PROVE  Typed'
  BY <1>5, <1>p, <1>c, <1>b, GotoTyped DEF Begin
<1>6. ASSUME NEW r \in Runs, Credential(r)
      PROVE  Typed'
  BY <1>6, <1>p, <1>c, <1>b, GotoTyped DEF Credential
<1>7. ASSUME NEW r \in Runs, Exchange(r)
      PROVE  Typed'
  BY <1>7, <1>p, <1>c, <1>b, GotoTyped DEF Exchange
<1>8. ASSUME NEW r \in Runs, ExchangeRefused(r)
      PROVE  Typed'
  BY <1>8, <1>p, <1>c, <1>b, GotoTyped DEF ExchangeRefused, Abandon, End
<1>9. ASSUME NEW r \in Runs, ExchangeFails(r)
      PROVE  Typed'
  BY <1>9, <1>p, <1>c, <1>b, GotoTyped DEF ExchangeFails, Abandon, End, Fault
<1>10. ASSUME NEW r \in Runs, Save(r)
       PROVE  Typed'
  BY <1>10, <1>p, <1>c, <1>b, GotoTyped DEF Save
<1>11. ASSUME NEW r \in Runs, SaveFails(r)
       PROVE  Typed'
  BY <1>11, <1>p, <1>c, <1>b, GotoTyped DEF SaveFails, Abandon, End, Fault
<1>12. ASSUME NEW r \in Runs, StartBrokers(r)
       PROVE  Typed'
  <2>1. PICK n \in Wanted(r) : serving' = [serving EXCEPT ![r] = n]
    BY <1>12 DEF StartBrokers
  <2>2. n \in 0 .. MaxBrokers
    BY MutatorAssumption DEF Wanted
  <2>3. QED
    BY <1>12, <2>1, <2>2, <1>p, GotoTyped DEF StartBrokers
<1>13. ASSUME NEW r \in Runs, BrokerFails(r)
       PROVE  Typed'
  BY <1>13, <1>p, <1>c, <1>b, GotoTyped, MutatorAssumption
     DEF BrokerFails, Wanted, Abandon, End, Fault
<1>14. ASSUME NEW r \in Runs, Launch(r)
       PROVE  Typed'
  BY <1>14, <1>p, <1>c, <1>b, GotoTyped DEF Launch
<1>15. ASSUME NEW r \in Runs, LaunchFails(r)
       PROVE  Typed'
  BY <1>15, <1>p, <1>c, <1>b, GotoTyped DEF LaunchFails, Fault, End
<1>16. ASSUME NEW r \in Runs, Reap(r)
       PROVE  Typed'
  BY <1>16, <1>p, <1>c, <1>b, GotoTyped DEF Reap, End
<1>17. ASSUME NEW r \in Runs, Join(r)
       PROVE  Typed'
  BY <1>17, <1>p, <1>c, <1>b, GotoTyped DEF Join, Release, DockerKill
<1>18. ASSUME NEW r \in Runs, StopBrokers(r)
       PROVE  Typed'
  BY <1>18, <1>p, GotoTyped, MutatorAssumption DEF StopBrokers
<1>19. ASSUME NEW r \in Runs, Create(r)
       PROVE  Typed'
  BY <1>19, <1>p, <1>c, <1>b, GotoTyped DEF Create
<1>20. ASSUME NEW r \in Runs, Start(r)
       PROVE  Typed'
  BY <1>20, <1>p, <1>c, <1>b, GotoTyped DEF Start
<1>21. ASSUME NEW r \in Runs, AgentExits(r)
       PROVE  Typed'
  BY <1>21, <1>p, <1>c, <1>b, GotoTyped DEF AgentExits
<1>22. ASSUME NEW r \in Runs, OperatorWatches(r)
       PROVE  Typed'
  BY <1>22, <1>p, <1>c, <1>b, GotoTyped DEF OperatorWatches
<1>23. ASSUME NEW r \in Runs, ContainerWatches(r)
       PROVE  Typed'
  BY <1>23, <1>p, <1>c, <1>b, GotoTyped DEF ContainerWatches, DockerKill
<1>24. CASE Lapse
  BY <1>24 DEF Lapse
<1>25. CASE UNCHANGED vars
  BY <1>25 DEF vars
<1>26. QED
  BY <1>1, <1>2, <1>3, <1>4, <1>5, <1>6, <1>7, <1>8, <1>9, <1>10, <1>11, <1>12, <1>13,
     <1>14, <1>15, <1>16, <1>17, <1>18, <1>19, <1>20, <1>21, <1>22, <1>23, <1>24, <1>25
     DEF Next, Thread, Runtime

-----------------------------------------------------------------------------
(* COUNTING *)

(* A run's thread never goes back to before its exchange. *)
LEMMA Forward ==
  ASSUME Typed, [Next]_vars
  PROVE  Named \subseteq Named' /\ Issued \subseteq Issued'
<1> USE DEF At, launch, provider, processes
<1>p. {"new", "named", "ready", "auth", "exchange", "save", "broker", "brokers",
       "launch", "reading", "joining", "stopping", "over"} \subseteq Places
  BY DEF Places, Before, Unissued, Unnamed, After
<1>g. ASSUME NEW r \in Runs, NEW there \in Places, Goto(r, there),
             pc[r] \notin Unnamed => there \notin Unnamed,
             pc[r] \notin Unissued => there \notin Unissued
      PROVE  Named \subseteq Named' /\ Issued \subseteq Issued'
  <2>1. /\ \A s \in Runs : pc'[s] = IF s = r THEN there ELSE pc[s]
    BY <1>g, GotoTyped
  <2>2. QED
    BY <1>g, <2>1 DEF Named, Issued, Unissued, Unnamed
<1>s. ASSUME pc' = pc
      PROVE  Named \subseteq Named' /\ Issued \subseteq Issued'
  BY <1>s DEF Named, Issued
<1>1. ASSUME NEW r \in Runs, ChooseId(r)
      PROVE  Named \subseteq Named' /\ Issued \subseteq Issued'
  BY <1>1, <1>p, <1>g, <1>s DEF Unissued, Unnamed, ChooseId
<1>2. ASSUME NEW r \in Runs, RequestStop(r)
      PROVE  Named \subseteq Named' /\ Issued \subseteq Issued'
  BY <1>2, <1>p, <1>g, <1>s DEF Unissued, Unnamed, RequestStop
<1>3. ASSUME NEW r \in Runs, WriteRunDir(r)
      PROVE  Named \subseteq Named' /\ Issued \subseteq Issued'
  BY <1>3, <1>p, <1>g, <1>s DEF Unissued, Unnamed, WriteRunDir
<1>4. ASSUME NEW r \in Runs, Skip(r)
      PROVE  Named \subseteq Named' /\ Issued \subseteq Issued'
  BY <1>4, <1>p, <1>g, <1>s DEF Unissued, Unnamed, Skip
<1>5. ASSUME NEW r \in Runs, Begin(r)
      PROVE  Named \subseteq Named' /\ Issued \subseteq Issued'
  BY <1>5, <1>p, <1>g, <1>s DEF Unissued, Unnamed, Begin
<1>6. ASSUME NEW r \in Runs, Credential(r)
      PROVE  Named \subseteq Named' /\ Issued \subseteq Issued'
  BY <1>6, <1>p, <1>g, <1>s DEF Unissued, Unnamed, Credential
<1>7. ASSUME NEW r \in Runs, Exchange(r)
      PROVE  Named \subseteq Named' /\ Issued \subseteq Issued'
  BY <1>7, <1>p, <1>g, <1>s DEF Unissued, Unnamed, Exchange
<1>8. ASSUME NEW r \in Runs, ExchangeRefused(r)
      PROVE  Named \subseteq Named' /\ Issued \subseteq Issued'
  BY <1>8, <1>p, <1>g, <1>s DEF Unissued, Unnamed, ExchangeRefused, Abandon, End
<1>9. ASSUME NEW r \in Runs, ExchangeFails(r)
      PROVE  Named \subseteq Named' /\ Issued \subseteq Issued'
  BY <1>9, <1>p, <1>g, <1>s DEF Unissued, Unnamed, ExchangeFails, Abandon, End, Fault
<1>10. ASSUME NEW r \in Runs, Save(r)
       PROVE  Named \subseteq Named' /\ Issued \subseteq Issued'
  BY <1>10, <1>p, <1>g, <1>s DEF Unissued, Unnamed, Save
<1>11. ASSUME NEW r \in Runs, SaveFails(r)
       PROVE  Named \subseteq Named' /\ Issued \subseteq Issued'
  BY <1>11, <1>p, <1>g, <1>s DEF Unissued, Unnamed, SaveFails, Abandon, End, Fault
<1>12. ASSUME NEW r \in Runs, StartBrokers(r)
       PROVE  Named \subseteq Named' /\ Issued \subseteq Issued'
  BY <1>12, <1>p, <1>g, <1>s DEF Unissued, Unnamed, StartBrokers, Wanted
<1>13. ASSUME NEW r \in Runs, BrokerFails(r)
       PROVE  Named \subseteq Named' /\ Issued \subseteq Issued'
  BY <1>13, <1>p, <1>g, <1>s
     DEF Unissued, Unnamed, BrokerFails, Wanted, Abandon, End, Fault
<1>14. ASSUME NEW r \in Runs, Launch(r)
       PROVE  Named \subseteq Named' /\ Issued \subseteq Issued'
  BY <1>14, <1>p, <1>g, <1>s DEF Unissued, Unnamed, Launch
<1>15. ASSUME NEW r \in Runs, LaunchFails(r)
       PROVE  Named \subseteq Named' /\ Issued \subseteq Issued'
  BY <1>15, <1>p, <1>g, <1>s DEF Unissued, Unnamed, LaunchFails, Fault, End
<1>16. ASSUME NEW r \in Runs, Reap(r)
       PROVE  Named \subseteq Named' /\ Issued \subseteq Issued'
  BY <1>16, <1>p, <1>g, <1>s DEF Unissued, Unnamed, Reap, End
<1>17. ASSUME NEW r \in Runs, Join(r)
       PROVE  Named \subseteq Named' /\ Issued \subseteq Issued'
  BY <1>17, <1>p, <1>g, <1>s DEF Unissued, Unnamed, Join, Release, DockerKill
<1>18. ASSUME NEW r \in Runs, StopBrokers(r)
       PROVE  Named \subseteq Named' /\ Issued \subseteq Issued'
  BY <1>18, <1>p, <1>g, <1>s DEF Unissued, Unnamed, StopBrokers
<1>19. ASSUME NEW r \in Runs, Create(r)
       PROVE  Named \subseteq Named' /\ Issued \subseteq Issued'
  BY <1>19, <1>p, <1>g, <1>s DEF Unissued, Unnamed, Create
<1>20. ASSUME NEW r \in Runs, Start(r)
       PROVE  Named \subseteq Named' /\ Issued \subseteq Issued'
  BY <1>20, <1>p, <1>g, <1>s DEF Unissued, Unnamed, Start
<1>21. ASSUME NEW r \in Runs, AgentExits(r)
       PROVE  Named \subseteq Named' /\ Issued \subseteq Issued'
  BY <1>21, <1>p, <1>g, <1>s DEF Unissued, Unnamed, AgentExits
<1>22. ASSUME NEW r \in Runs, OperatorWatches(r)
       PROVE  Named \subseteq Named' /\ Issued \subseteq Issued'
  BY <1>22, <1>p, <1>g, <1>s DEF Unissued, Unnamed, OperatorWatches
<1>23. ASSUME NEW r \in Runs, ContainerWatches(r)
       PROVE  Named \subseteq Named' /\ Issued \subseteq Issued'
  BY <1>23, <1>p, <1>g, <1>s DEF Unissued, Unnamed, ContainerWatches, DockerKill
<1>24. CASE Lapse
  BY <1>24, <1>p, <1>g, <1>s DEF Unissued, Unnamed, Lapse
<1>25. CASE UNCHANGED vars
  BY <1>25, <1>p, <1>g, <1>s DEF Unissued, Unnamed, vars
<1>26. QED
  BY <1>1, <1>2, <1>3, <1>4, <1>5, <1>6, <1>7, <1>8, <1>9, <1>10, <1>11, <1>12,
     <1>13, <1>14, <1>15, <1>16, <1>17, <1>18, <1>19, <1>20, <1>21, <1>22, <1>23, <1>24,
     <1>25
     DEF Next, Thread, Runtime

LEMMA SameCounts ==
  ASSUME Typed, Counted, dirs' = dirs, id' = id, issued' = issued,
         Named \subseteq Named', Issued \subseteq Issued'
  PROVE  Counted'
<1>1. Issued' \subseteq Runs
  BY DEF Issued
<1>2. /\ IsFiniteSet(Issued') /\ Cardinality(Issued') \in Nat
  BY <1>1, RunsAreFinite
<1>3. Cardinality(Issued) <= Cardinality(Issued') /\ Cardinality(Issued) \in Nat
  BY <1>2, FS_Subset, FS_CardinalityType
<1>4. QED
  BY <1>2, <1>3 DEF Counted, Typed

(* A login is issued to a run that goes past its exchange. *)
LEMMA IssueIsCounted ==
  ASSUME Typed, Counted, NEW r \in Runs, r \notin Issued, r \in Issued',
         dirs' = dirs, id' = id, issued' \in {issued, issued + 1},
         Named \subseteq Named', Issued \subseteq Issued'
  PROVE  Counted'
<1>1. Issued' \subseteq Runs /\ Issued \subseteq Runs
  BY DEF Issued
<1>2. /\ IsFiniteSet(Issued') /\ Cardinality(Issued') \in Nat
      /\ IsFiniteSet(Issued) /\ Cardinality(Issued) \in Nat
  BY <1>1, RunsAreFinite
<1>3. Cardinality(Issued \cup {r}) = Cardinality(Issued) + 1
  BY <1>2, FS_AddElement
<1>4. Cardinality(Issued \cup {r}) <= Cardinality(Issued')
  BY <1>2, FS_Subset
<1>5. QED
  BY <1>2, <1>3, <1>4 DEF Counted, Typed

LEMMA StepCounted ==
  ASSUME Typed, Counted, [Next]_vars
  PROVE  Counted'
<1> USE DEF At, launch, provider, processes
<1>p. {"named", "ready", "save", "stopping"} \subseteq Places
  BY DEF Places, Before, Unissued, Unnamed, After
<1>f. Named \subseteq Named' /\ Issued \subseteq Issued'
  BY Forward
<1>1. ASSUME NEW r \in Runs, ChooseId(r)
      PROVE  Counted'
  <2>1. FreeId \in Nat /\ FreeId <= Cardinality(Runs)
    BY <1>1, FreeIdIsFree DEF ChooseId
  <2>2. /\ \A s \in Runs : id'[s] = IF s = r THEN FreeId ELSE id[s]
        /\ dirs' = dirs /\ issued' = issued /\ r \notin Named
    BY <1>1 DEF ChooseId, Typed, Named, Unnamed
  <2>3. \A d \in dirs' : \E s \in Named' : d = id'[s]
    BY <1>f, <2>2 DEF Counted, Named
  <2>4. Issued' = Issued
    BY <1>1, <1>p, GotoTyped DEF ChooseId, Issued, Unissued, Unnamed
  <2>5. QED
    BY <2>1, <2>2, <2>3, <2>4 DEF Counted
<1>2. ASSUME NEW r \in Runs, RequestStop(r)
      PROVE  Counted'
  BY <1>2, <1>f, SameCounts DEF RequestStop
<1>3. ASSUME NEW r \in Runs, WriteRunDir(r)
      PROVE  Counted'
  <2>1. r \in Named'
    BY <1>3, <1>p, GotoTyped DEF WriteRunDir, Named, Unnamed
  <2>2. dirs' = dirs \cup {id[r]} /\ id' = id /\ issued' = issued
    BY <1>3 DEF WriteRunDir
  <2>3. \A d \in dirs' : \E s \in Named' : d = id'[s]
    BY <1>f, <2>1, <2>2 DEF Counted
  <2>4. Issued' = Issued
    BY <1>3, <1>p, GotoTyped DEF WriteRunDir, Issued, Unissued, Unnamed
  <2>5. QED
    BY <2>2, <2>3, <2>4 DEF Counted
<1>4. ASSUME NEW r \in Runs, Skip(r)
      PROVE  Counted'
  BY <1>4, <1>f, SameCounts DEF Skip
<1>5. ASSUME NEW r \in Runs, Begin(r)
      PROVE  Counted'
  BY <1>5, <1>f, SameCounts DEF Begin
<1>6. ASSUME NEW r \in Runs, Credential(r)
      PROVE  Counted'
  BY <1>6, <1>f, SameCounts DEF Credential
<1>7. ASSUME NEW r \in Runs, Exchange(r)
      PROVE  Counted'
  <2>1. r \notin Issued /\ r \in Issued'
    BY <1>7, <1>p, GotoTyped DEF Exchange, Issued, Unissued, Unnamed
  <2>2. QED
    BY <1>7, <1>f, <2>1, IssueIsCounted DEF Exchange
<1>8. ASSUME NEW r \in Runs, ExchangeRefused(r)
      PROVE  Counted'
  BY <1>8, <1>f, SameCounts DEF ExchangeRefused, Abandon, End
<1>9. ASSUME NEW r \in Runs, ExchangeFails(r)
      PROVE  Counted'
  <2>1. r \notin Issued /\ r \in Issued'
    BY <1>9, <1>p, GotoTyped DEF ExchangeFails, Abandon, Issued, Unissued, Unnamed
  <2>2. dirs' = dirs /\ id' = id /\ issued' \in {issued, issued + 1}
    BY <1>9 DEF ExchangeFails
  <2>3. QED
    BY <1>f, <2>1, <2>2, IssueIsCounted
<1>10. ASSUME NEW r \in Runs, Save(r)
       PROVE  Counted'
  BY <1>10, <1>f, SameCounts DEF Save
<1>11. ASSUME NEW r \in Runs, SaveFails(r)
       PROVE  Counted'
  BY <1>11, <1>f, SameCounts DEF SaveFails, Abandon, End, Fault
<1>12. ASSUME NEW r \in Runs, StartBrokers(r)
       PROVE  Counted'
  BY <1>12, <1>f, SameCounts DEF StartBrokers, Wanted
<1>13. ASSUME NEW r \in Runs, BrokerFails(r)
       PROVE  Counted'
  BY <1>13, <1>f, SameCounts DEF BrokerFails, Wanted, Abandon, End, Fault
<1>14. ASSUME NEW r \in Runs, Launch(r)
       PROVE  Counted'
  BY <1>14, <1>f, SameCounts DEF Launch
<1>15. ASSUME NEW r \in Runs, LaunchFails(r)
       PROVE  Counted'
  BY <1>15, <1>f, SameCounts DEF LaunchFails, Fault, End
<1>16. ASSUME NEW r \in Runs, Reap(r)
       PROVE  Counted'
  BY <1>16, <1>f, SameCounts DEF Reap, End
<1>17. ASSUME NEW r \in Runs, Join(r)
       PROVE  Counted'
  BY <1>17, <1>f, SameCounts DEF Join, Release, DockerKill
<1>18. ASSUME NEW r \in Runs, StopBrokers(r)
       PROVE  Counted'
  BY <1>18, <1>f, SameCounts DEF StopBrokers
<1>19. ASSUME NEW r \in Runs, Create(r)
       PROVE  Counted'
  BY <1>19, <1>f, SameCounts DEF Create
<1>20. ASSUME NEW r \in Runs, Start(r)
       PROVE  Counted'
  BY <1>20, <1>f, SameCounts DEF Start
<1>21. ASSUME NEW r \in Runs, AgentExits(r)
       PROVE  Counted'
  BY <1>21, <1>f, SameCounts DEF AgentExits
<1>22. ASSUME NEW r \in Runs, OperatorWatches(r)
       PROVE  Counted'
  BY <1>22, <1>f, SameCounts DEF OperatorWatches
<1>23. ASSUME NEW r \in Runs, ContainerWatches(r)
       PROVE  Counted'
  BY <1>23, <1>f, SameCounts DEF ContainerWatches, DockerKill
<1>24. CASE Lapse
  BY <1>24, <1>f, SameCounts DEF Lapse
<1>25. CASE UNCHANGED vars
  BY <1>25, <1>f, SameCounts DEF vars
<1>26. QED
  BY <1>1, <1>2, <1>3, <1>4, <1>5, <1>6, <1>7, <1>8, <1>9, <1>10, <1>11, <1>12,
     <1>13, <1>14, <1>15, <1>16, <1>17, <1>18, <1>19, <1>20, <1>21, <1>22, <1>23, <1>24,
     <1>25
     DEF Next, Thread, Runtime

-----------------------------------------------------------------------------
(* THE PROCESSES OF A RUN *)

LEMMA StepOrderly ==
  ASSUME Typed, [Next]_vars, \A s \in Runs : Orderly(s), NEW t \in Runs
  PROVE  Orderly(t)'
<1> USE DEF At, launch, provider, processes
<1>o. Orderly(t)
  OBVIOUS
<1>p. {"new", "named", "ready", "auth", "exchange", "save", "broker", "brokers",
       "launch", "reading", "joining", "stopping", "over"} \subseteq Places
  BY DEF Places, Before, Unissued, Unnamed, After
<1>s. ASSUME serving'[t] = serving[t], stop[t] => stop'[t],
             client'[t] = client[t], box'[t] = box[t], pc'[t] = pc[t]
      PROVE  Orderly(t)'
  BY <1>o, <1>s DEF Orderly
<1>b. ASSUME serving'[t] = serving[t], stop'[t] = stop[t],
             client'[t] = client[t], box'[t] = box[t],
             pc[t] \in Before \ {"launch"}, pc'[t] \in Before \cup {"stopping", "over"}
      PROVE  Orderly(t)'
  BY <1>o, <1>b DEF Orderly, Before, Unissued, Unnamed, After
<1>1. ASSUME NEW r \in Runs, ChooseId(r)
      PROVE  Orderly(t)'
  BY <1>1, <1>o, <1>p, <1>s, <1>b, GotoTyped
     DEF Typed, Orderly, Before, Unissued, Unnamed, After, Attached, Up, ChooseId
<1>2. ASSUME NEW r \in Runs, RequestStop(r)
      PROVE  Orderly(t)'
  BY <1>2, <1>o, <1>p, <1>s, <1>b, GotoTyped
     DEF Typed, Orderly, Before, Unissued, Unnamed, After, Attached, Up, RequestStop
<1>3. ASSUME NEW r \in Runs, WriteRunDir(r)
      PROVE  Orderly(t)'
  BY <1>3, <1>o, <1>p, <1>s, <1>b, GotoTyped
     DEF Typed, Orderly, Before, Unissued, Unnamed, After, Attached, Up, WriteRunDir
<1>4. ASSUME NEW r \in Runs, Skip(r)
      PROVE  Orderly(t)'
  BY <1>4, <1>o, <1>p, <1>s, <1>b, GotoTyped
     DEF Typed, Orderly, Before, Unissued, Unnamed, After, Attached, Up, Skip
<1>5. ASSUME NEW r \in Runs, Begin(r)
      PROVE  Orderly(t)'
  BY <1>5, <1>o, <1>p, <1>s, <1>b, GotoTyped
     DEF Typed, Orderly, Before, Unissued, Unnamed, After, Attached, Up, Begin
<1>6. ASSUME NEW r \in Runs, Credential(r)
      PROVE  Orderly(t)'
  BY <1>6, <1>o, <1>p, <1>s, <1>b, GotoTyped
     DEF Typed, Orderly, Before, Unissued, Unnamed, After, Attached, Up, Credential
<1>7. ASSUME NEW r \in Runs, Exchange(r)
      PROVE  Orderly(t)'
  BY <1>7, <1>o, <1>p, <1>s, <1>b, GotoTyped
     DEF Typed, Orderly, Before, Unissued, Unnamed, After, Attached, Up, Exchange
<1>8. ASSUME NEW r \in Runs, ExchangeRefused(r)
      PROVE  Orderly(t)'
  BY <1>8, <1>o, <1>p, <1>s, <1>b, GotoTyped
     DEF Typed, Orderly, Before, Unissued, Unnamed, After, Attached, Up, ExchangeRefused,
         Abandon, End
<1>9. ASSUME NEW r \in Runs, ExchangeFails(r)
      PROVE  Orderly(t)'
  BY <1>9, <1>o, <1>p, <1>s, <1>b, GotoTyped
     DEF Typed, Orderly, Before, Unissued, Unnamed, After, Attached, Up, ExchangeFails,
         Abandon, End, Fault
<1>10. ASSUME NEW r \in Runs, Save(r)
       PROVE  Orderly(t)'
  BY <1>10, <1>o, <1>p, <1>s, <1>b, GotoTyped
     DEF Typed, Orderly, Before, Unissued, Unnamed, After, Attached, Up, Save
<1>11. ASSUME NEW r \in Runs, SaveFails(r)
       PROVE  Orderly(t)'
  BY <1>11, <1>o, <1>p, <1>s, <1>b, GotoTyped
     DEF Typed, Orderly, Before, Unissued, Unnamed, After, Attached, Up, SaveFails,
         Abandon, End, Fault
<1>12. ASSUME NEW r \in Runs, StartBrokers(r)
       PROVE  Orderly(t)'
  BY <1>12, <1>o, <1>p, <1>s, <1>b, GotoTyped
     DEF Typed, Orderly, Before, Unissued, Unnamed, After, Attached, Up, StartBrokers,
         Wanted
<1>13. ASSUME NEW r \in Runs, BrokerFails(r)
       PROVE  Orderly(t)'
  BY <1>13, <1>o, <1>p, <1>s, <1>b, GotoTyped
     DEF Typed, Orderly, Before, Unissued, Unnamed, After, Attached, Up, BrokerFails,
         Wanted, Abandon, End, Fault
<1>14. ASSUME NEW r \in Runs, Launch(r)
       PROVE  Orderly(t)'
  BY <1>14, <1>o, <1>p, <1>s, <1>b, GotoTyped
     DEF Typed, Orderly, Before, Unissued, Unnamed, After, Attached, Up, Launch
<1>15. ASSUME NEW r \in Runs, LaunchFails(r)
       PROVE  Orderly(t)'
  BY <1>15, <1>o, <1>p, <1>s, <1>b, GotoTyped
     DEF Typed, Orderly, Before, Unissued, Unnamed, After, Attached, Up, LaunchFails,
         Fault, End
<1>16. ASSUME NEW r \in Runs, Reap(r)
       PROVE  Orderly(t)'
  BY <1>16, <1>o, <1>p, <1>s, <1>b, GotoTyped
     DEF Typed, Orderly, Before, Unissued, Unnamed, After, Attached, Up, Reap, End
<1>17. ASSUME NEW r \in Runs, Join(r)
       PROVE  Orderly(t)'
  BY <1>17, <1>o, <1>p, <1>s, <1>b, GotoTyped
     DEF Typed, Orderly, Before, Unissued, Unnamed, After, Attached, Up, Join, Release,
         DockerKill
<1>18. ASSUME NEW r \in Runs, StopBrokers(r)
       PROVE  Orderly(t)'
  BY <1>18, <1>o, <1>p, <1>s, <1>b, GotoTyped
     DEF Typed, Orderly, Before, Unissued, Unnamed, After, Attached, Up, StopBrokers
<1>19. ASSUME NEW r \in Runs, Create(r)
       PROVE  Orderly(t)'
  BY <1>19, <1>o, <1>p, <1>s, <1>b, GotoTyped
     DEF Typed, Orderly, Before, Unissued, Unnamed, After, Attached, Up, Create
<1>20. ASSUME NEW r \in Runs, Start(r)
       PROVE  Orderly(t)'
  <2>1. client[t] = "attached" => pc[t] = "reading"
    BY <1>o DEF Orderly, Typed, Places
  <2>2. /\ t # r => box'[t] = box[t]
        /\ t = r => /\ box[t] = "starting"
                    /\ box'[t] = IF client[t] = "attached" THEN "up" ELSE "orphan"
    BY <1>20 DEF Start, Typed
  <2>3. serving' = serving /\ stop' = stop /\ pc' = pc /\ client' = client
    BY <1>20 DEF Start
  <2>4. QED
    BY <1>o, <2>1, <2>2, <2>3 DEF Orderly
<1>21. ASSUME NEW r \in Runs, AgentExits(r)
       PROVE  Orderly(t)'
  BY <1>21, <1>o, <1>p, <1>s, <1>b, GotoTyped
     DEF Typed, Orderly, Before, Unissued, Unnamed, After, Attached, Up, AgentExits
<1>22. ASSUME NEW r \in Runs, OperatorWatches(r)
       PROVE  Orderly(t)'
  BY <1>22, <1>o, <1>p, <1>s, <1>b, GotoTyped
     DEF Typed, Orderly, Before, Unissued, Unnamed, After, Attached, Up, OperatorWatches
<1>23. ASSUME NEW r \in Runs, ContainerWatches(r)
       PROVE  Orderly(t)'
  <2>1. \A s \in Runs : client[s] = "attached" => box[s] \in {"starting", "up"}
    BY DEF Orderly
  <2>2. /\ box'[t] \in {box[t], "killed"}
        /\ box'[t] = box[t] => client'[t] = client[t]
        /\ box'[t] = "killed" => \/ client'[t] = client[t] /\ (client[t] # "attached" \/ box[t] = "killed")
                                 \/ client[t] = "attached" /\ client'[t] = "failed"
        /\ box'[t] = "killed" => box[t] \in Up \/ box[t] = "killed"
    BY <1>23, <2>1 DEF ContainerWatches, DockerKill, Typed, Up
  <2>3. serving' = serving /\ stop' = stop /\ pc' = pc
    BY <1>23 DEF ContainerWatches
  <2>4. QED
    BY <1>o, <2>2, <2>3 DEF Orderly, Before, Unissued, Unnamed, After, Up
<1>24. CASE Lapse
  BY <1>24, <1>o, <1>p, <1>s, <1>b, GotoTyped
     DEF Typed, Orderly, Before, Unissued, Unnamed, After, Attached, Up, Lapse
<1>25. CASE UNCHANGED vars
  BY <1>25, <1>o, <1>p, <1>s, <1>b, GotoTyped
     DEF Typed, Orderly, Before, Unissued, Unnamed, After, Attached, Up, vars
<1>26. QED
  BY <1>1, <1>2, <1>3, <1>4, <1>5, <1>6, <1>7, <1>8, <1>9, <1>10, <1>11, <1>12,
     <1>13, <1>14, <1>15, <1>16, <1>17, <1>18, <1>19, <1>20, <1>21, <1>22, <1>23, <1>24,
     <1>25
     DEF Next, Thread, Runtime

-----------------------------------------------------------------------------
(* THE LOGIN *)

(* A step that leaves the login alone and no run's save begun or ended. *)
LEMMA ElsewhereIsKept ==
  ASSUME Kept, login' = login, issued' = issued, held' = held,
         \A r \in Runs : At(r, "save")' <=> At(r, "save")
  PROVE  Kept'
BY DEF Kept

LEMMA StepKept ==
  ASSUME Typed, Kept, [Next]_vars, faults' = 0
  PROVE  Kept'
<1> USE DEF launch, provider, processes
<1>p. {"new", "named", "ready", "auth", "exchange", "save", "broker", "brokers",
       "launch", "reading", "joining", "stopping", "over"} \subseteq Places
  BY DEF Places, Before, Unissued, Unnamed, After
<1>f. ~Fault
  BY DEF Fault, Typed
<1>s. ASSUME pc' = pc, login' = login, issued' = issued, held' = held
      PROVE  Kept'
  BY <1>s, ElsewhereIsKept DEF At
<1>g. ASSUME NEW r \in Runs, NEW there \in Places \ {"save"}, Goto(r, there), pc[r] # "save",
             login' = login, issued' = issued, held' = held
      PROVE  Kept'
  BY <1>g, GotoTyped, ElsewhereIsKept DEF At
<1>1. ASSUME NEW r \in Runs, ChooseId(r)
      PROVE  Kept'
  BY <1>1, <1>p, <1>f, <1>s, <1>g DEF At, ChooseId
<1>2. ASSUME NEW r \in Runs, RequestStop(r)
      PROVE  Kept'
  BY <1>2, <1>p, <1>f, <1>s, <1>g DEF At, RequestStop
<1>3. ASSUME NEW r \in Runs, WriteRunDir(r)
      PROVE  Kept'
  BY <1>3, <1>p, <1>f, <1>s, <1>g DEF At, WriteRunDir
<1>4. ASSUME NEW r \in Runs, Skip(r)
      PROVE  Kept'
  BY <1>4, <1>p, <1>f, <1>s, <1>g DEF At, Skip
<1>5. ASSUME NEW r \in Runs, Begin(r)
      PROVE  Kept'
  BY <1>5, <1>p, <1>f, <1>s, <1>g DEF At, Begin
<1>6. ASSUME NEW r \in Runs, Credential(r)
      PROVE  Kept'
  BY <1>6, <1>p, <1>f, <1>s, <1>g DEF At, Credential
<1>7. ASSUME NEW r \in Runs, Exchange(r)
      PROVE  Kept'
  <2>1. /\ login = issued /\ issued' = issued + 1 /\ login' = login
        /\ \A s \in Runs : held'[s] = IF s = r THEN issued + 1 ELSE held[s]
        /\ \A s \in Runs : pc'[s] = IF s = r THEN "save" ELSE pc[s]
    BY <1>7, <1>p, GotoTyped DEF Exchange, Typed
  <2>2. \A s \in Runs : pc[s] # "save"
    BY <2>1 DEF Kept, At
  <2>3. \A s \in Runs : pc'[s] = "save" <=> s = r
    BY <2>1, <2>2
  <2>4. login' # issued'
    BY <2>1 DEF Typed
  <2>5. QED
    BY <2>1, <2>3, <2>4 DEF Kept, At
<1>8. ASSUME NEW r \in Runs, ExchangeRefused(r)
      PROVE  Kept'
  BY <1>8, <1>p, <1>f, <1>s, <1>g DEF At, ExchangeRefused, Abandon, End
<1>9. ASSUME NEW r \in Runs, ExchangeFails(r)
      PROVE  Kept'
  BY <1>9, <1>p, <1>f, <1>s, <1>g DEF At, ExchangeFails, Abandon, End, Fault
<1>10. ASSUME NEW r \in Runs, Save(r)
       PROVE  Kept'
  <2>1. /\ login' = issued /\ issued' = issued
        /\ \A s \in Runs : pc'[s] = IF s = r THEN "broker" ELSE pc[s]
    BY <1>10, <1>p, GotoTyped DEF Save, At, Kept
  <2>2. \A s \in Runs : pc'[s] # "save"
    BY <1>10, <2>1 DEF Save, Kept, At
  <2>3. QED
    BY <2>1, <2>2 DEF Kept, At
<1>11. ASSUME NEW r \in Runs, SaveFails(r)
       PROVE  Kept'
  BY <1>11, <1>p, <1>f, <1>s, <1>g DEF At, SaveFails, Abandon, End, Fault
<1>12. ASSUME NEW r \in Runs, StartBrokers(r)
       PROVE  Kept'
  BY <1>12, <1>p, <1>f, <1>s, <1>g DEF At, StartBrokers, Wanted
<1>13. ASSUME NEW r \in Runs, BrokerFails(r)
       PROVE  Kept'
  BY <1>13, <1>p, <1>f, <1>s, <1>g DEF At, BrokerFails, Wanted, Abandon, End, Fault
<1>14. ASSUME NEW r \in Runs, Launch(r)
       PROVE  Kept'
  BY <1>14, <1>p, <1>f, <1>s, <1>g DEF At, Launch
<1>15. ASSUME NEW r \in Runs, LaunchFails(r)
       PROVE  Kept'
  BY <1>15, <1>p, <1>f, <1>s, <1>g DEF At, LaunchFails, Fault, End
<1>16. ASSUME NEW r \in Runs, Reap(r)
       PROVE  Kept'
  BY <1>16, <1>p, <1>f, <1>s, <1>g DEF At, Reap, End
<1>17. ASSUME NEW r \in Runs, Join(r)
       PROVE  Kept'
  BY <1>17, <1>p, <1>f, <1>s, <1>g DEF At, Join, Release, DockerKill
<1>18. ASSUME NEW r \in Runs, StopBrokers(r)
       PROVE  Kept'
  BY <1>18, <1>p, <1>f, <1>s, <1>g DEF At, StopBrokers
<1>19. ASSUME NEW r \in Runs, Create(r)
       PROVE  Kept'
  BY <1>19, <1>p, <1>f, <1>s, <1>g DEF At, Create
<1>20. ASSUME NEW r \in Runs, Start(r)
       PROVE  Kept'
  BY <1>20, <1>p, <1>f, <1>s, <1>g DEF At, Start
<1>21. ASSUME NEW r \in Runs, AgentExits(r)
       PROVE  Kept'
  BY <1>21, <1>p, <1>f, <1>s, <1>g DEF At, AgentExits
<1>22. ASSUME NEW r \in Runs, OperatorWatches(r)
       PROVE  Kept'
  BY <1>22, <1>p, <1>f, <1>s, <1>g DEF At, OperatorWatches
<1>23. ASSUME NEW r \in Runs, ContainerWatches(r)
       PROVE  Kept'
  BY <1>23, <1>p, <1>f, <1>s, <1>g DEF At, ContainerWatches, DockerKill
<1>24. CASE Lapse
  BY <1>24, <1>p, <1>f, <1>s, <1>g DEF At, Lapse
<1>25. CASE UNCHANGED vars
  BY <1>25, <1>p, <1>f, <1>s, <1>g DEF At, vars
<1>26. QED
  BY <1>1, <1>2, <1>3, <1>4, <1>5, <1>6, <1>7, <1>8, <1>9, <1>10, <1>11, <1>12,
     <1>13, <1>14, <1>15, <1>16, <1>17, <1>18, <1>19, <1>20, <1>21, <1>22, <1>23, <1>24,
     <1>25
     DEF Next, Thread, Runtime

LEMMA FaultsOnlyGrow == Typed /\ [Next]_vars /\ faults' = 0 => faults = 0
BY DEF Typed, Fault, vars, Next, Thread, Runtime, Lapse, ChooseId, RequestStop,
       WriteRunDir, Skip, Begin, Credential, Exchange, ExchangeRefused,
       ExchangeFails, Save, SaveFails, StartBrokers, BrokerFails, Launch,
       LaunchFails, Reap, Join, Release, StopBrokers, Create, Start, AgentExits,
       OperatorWatches, ContainerWatches

-----------------------------------------------------------------------------
(* THE THEOREMS *)

LEMMA StepIInv == IInv /\ [Next]_vars => IInv'
BY StepTyped, StepCounted, StepOrderly, StepKept, FaultsOnlyGrow DEF IInv

LEMMA IInvTypeOK == IInv => TypeOK
<1> SUFFICES ASSUME Typed, Counted
             PROVE  TypeOK
  BY DEF IInv
<1>1. Cardinality(Issued) <= Cardinality(Runs) /\ Cardinality(Issued) \in Nat
      /\ Cardinality(Runs) \in Nat
  BY RunsAreFinite, Issued \subseteq Runs DEF Issued
<1>2. issued \in 1 .. Cardinality(Runs) + 1 /\ login \in 1 .. issued
  BY <1>1 DEF Typed, Counted
<1>3. \A r \in Runs : id[r] \in 0 .. Cardinality(Runs)
  BY <1>1 DEF Typed, Counted
<1>4. QED
  BY <1>2, <1>3 DEF Typed, TypeOK

(* The state of every run's processes stays of its type; in particular a run id
   is at most the number of runs and a run is issued one login
   (harness.runlog.run_id, harness.auth_inject). *)
THEOREM TypeCorrect == Spec => []TypeOK
BY InitIInv, StepIInv, IInvTypeOK, PTL DEF Spec

(* Whatever a run was doing when it was stopped, no broker of it serves and no
   container it brought up runs once its operator call is over
   (ContainerOperator.run's two finally clauses). *)
THEOREM CallsLeaveNothingUp == Spec => []NothingIsLeftUp
<1>1. IInv => NothingIsLeftUp
  BY DEF IInv, Orderly, NothingIsLeftUp, At
<1>2. QED
  BY <1>1, InitIInv, StepIInv, PTL DEF Spec

(* Runs that refresh one provider login never lock the user out of it, as long
   as no answer is lost and no save fails (_claude_refresh, _codex_refresh). *)
THEOREM ProviderLoginStays == Spec => []ProviderLoginIsNeverLost
<1>1. IInv => ProviderLoginIsNeverLost
  BY DEF IInv, Kept, ProviderLoginIsNeverLost, At
<1>2. QED
  BY <1>1, InitIInv, StepIInv, PTL DEF Spec

(* A broker stops only when no container is up that could still ask it for the
   credential (the order of ContainerOperator.run's finally clauses). *)
THEOREM BrokersOutlive == Spec => BrokersOutliveTheContainer
<1> DEFINE Outlives == \A r \in Runs : serving'[r] < serving[r] => box[r] # "up"
<1>1. ASSUME IInv, [Next]_vars, NEW t \in Runs, serving'[t] < serving[t]
      PROVE  box[t] # "up"
  <2> USE DEF launch, provider, processes
  <2>1. serving[t] \in Nat
    BY <1>1, MutatorAssumption DEF IInv, Typed
  <2>2. serving' # serving
    BY <1>1, <2>1
  <2>3. ASSUME NEW r \in Runs, NEW n \in Nat, serving' = [serving EXCEPT ![r] = n],
               serving[r] = 0
        PROVE  FALSE
    BY <1>1, <2>1, <2>3 DEF IInv, Typed
  <2>4. ASSUME NEW r \in Runs, StartBrokers(r) \/ BrokerFails(r)
        PROVE  FALSE
    <3>1. serving[r] = 0
      BY <1>1, <2>4 DEF IInv, Orderly, StartBrokers, BrokerFails, Wanted, At, Before
    <3>2. \A n \in Wanted(r) : n \in Nat /\ n - 1 \in Nat
      BY MutatorAssumption DEF Wanted
    <3>3. QED
      BY <2>3, <2>4, <3>1, <3>2 DEF StartBrokers, BrokerFails
  <2>5. PICK r \in Runs : StopBrokers(r)
    BY <1>1, <2>2, <2>4
       DEF vars, Next, Thread, Runtime, Lapse, ChooseId, RequestStop, WriteRunDir,
           Skip, Begin, Credential, Exchange, ExchangeRefused, ExchangeFails,
           Save, SaveFails, Launch, LaunchFails, Reap, Join, Release, Create,
           Start, AgentExits, OperatorWatches, ContainerWatches
  <2>6. t = r /\ pc[r] = "stopping"
    BY <1>1, <2>1, <2>5 DEF StopBrokers, At, IInv, Typed
  <2>7. QED
    BY <1>1, <2>6 DEF IInv, Orderly
<1>2. IInv /\ [Next]_vars => [Outlives]_vars
  BY <1>1
<1>3. QED
  BY <1>2, InitIInv, StepIInv, PTL DEF Spec, BrokersOutliveTheContainer

(* No step kills the container of a run that was not stopped, unless another
   run has its id (_mutator_container_name). *)
THEOREM StopsAreOwn == Spec => AStopIsItsOwnRuns
<1> DEFINE Own(r) ==
      /\ box[r] \in Up /\ box'[r] = "killed"
      /\ \A s \in Runs \ {r} : id[s] # id[r]
      => stop[r]
<1>1. ASSUME IInv, [Next]_vars, NEW t \in Runs
      PROVE  Own(t)
  <2> USE DEF launch, provider, processes
  <2>1. ASSUME NEW r \in Runs, DockerKill(Name(r)), stop[r]
        PROVE  Own(t)
    <3>1. box'[t] = IF id[t] = id[r] /\ box[t] \in Up THEN "killed" ELSE box[t]
      BY <2>1 DEF DockerKill, Name
    <3>2. "killed" \notin Up
      BY DEF Up
    <3>3. box[t] \in Up /\ box'[t] = "killed" => id[r] = id[t]
      BY <3>1, <3>2
    <3>4. QED
      BY <2>1, <3>3
  <2>2. ASSUME box' = box
        PROVE  Own(t)
    BY <2>2 DEF Up
  <2>3. ASSUME NEW r \in Runs, Create(r) \/ Start(r) \/ AgentExits(r)
        PROVE  Own(t)
    BY <1>1, <2>3 DEF Create, Start, AgentExits, Up, IInv, Typed
  <2>4. QED
    BY <1>1, <2>1, <2>2, <2>3
       DEF vars, Next, Thread, Runtime, Lapse, ChooseId, RequestStop, WriteRunDir,
           Skip, Begin, Credential, Exchange, ExchangeRefused, ExchangeFails,
           Save, SaveFails, StartBrokers, BrokerFails, StopBrokers, Launch,
           LaunchFails, Reap, Join, Release, OperatorWatches, ContainerWatches
<1>2. IInv /\ [Next]_vars => [\A r \in Runs : Own(r)]_vars
  BY <1>1
<1>3. QED
  BY <1>2, InitIInv, StepIInv, PTL DEF Spec, AStopIsItsOwnRuns
================================================================================
