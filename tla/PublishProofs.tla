----------------------------- MODULE PublishProofs -----------------------------
(***************************************************************************)
(* Proofs about publishing, for any number of publishers, branches,         *)
(* programs, commits and faults.                                            *)
(***************************************************************************)
EXTENDS Publish, TLAPS

-----------------------------------------------------------------------------
(* THE INVARIANT *)

Dressing == {"readme", "put", "about"}
Sharing == Dressing \cup {"clone", "push", "published"}
Steps == Sharing \cup {"idle", "probe", "create", "public", "unpublished"}

Commits == [tree : Programs \cup {Landing}, readme : BOOLEAN, parent : Nat]

Typed ==
    /\ repo \in {"absent", "private", "public"}
    /\ about \in {"none", "ours", "owner"}
    /\ objects \in Seq(Commits)
    /\ \A i \in 1 .. Len(objects) : objects[i].parent \in 0 .. i - 1
    /\ tip \in [Branches -> 0 .. Len(objects)]
    /\ default \in Branches \cup {NoBranch}
    /\ default # NoBranch => tip[default] # NoCommit
    /\ at \in [Publishers -> Steps]
    /\ DOMAIN job = Publishers
    /\ \A p \in Publishers : at[p] # "idle" => job[p] \in Jobs
    /\ head \in [Publishers -> 0 .. Len(objects)]
    /\ faults \in 0 .. MaxFaults

\* A publisher that is past its probe has a public repository before it; one
\* that is about to push stands on a commit of its own program.
Shared ==
    /\ \A p \in Publishers : at[p] \in Sharing => repo = "public"
    /\ \A p \in Publishers : at[p] = "push" =>
          head[p] \in 1 .. Len(objects) /\ objects[head[p]].tree = job[p].tree
    /\ \A r \in returned :
          /\ repo = "public"
          /\ r[2] \in 1 .. Len(objects) /\ objects[r[2]].tree = r[1]
          /\ r[2] \in Reachable

\* The landing page lies on the commit the default branch is at.
Landed == default = Main => objects[tip[Main]].readme

IInv == Typed /\ Shared /\ Landed

-----------------------------------------------------------------------------
(* HISTORIES *)

\* The history of commit c among the objects o.
Past(o, c) ==
    {i \in 1 .. c : \A S \in SUBSET (1 .. c) :
        c \in S /\ (\A j \in S : o[j].parent \in S \cup {NoCommit}) => i \in S}

LEMMA HistoryIsPast ==
  /\ \A b \in Branches : History(tip[b]) = Past(objects, tip[b])
  /\ \A p \in Publishers : History(head[p]) = Past(objects, head[p])
  /\ Reachable = UNION {Past(objects, tip[b]) : b \in Branches}
BY DEF History, Rooted, Past, Reachable

(* A history does not change when commits are added. *)
LEMMA PastStays ==
  ASSUME NEW c, NEW o, NEW q, \A i \in 1 .. c : q[i] = o[i]
  PROVE  Past(q, c) = Past(o, c)
<1>1. \A S \in SUBSET (1 .. c) :
        (\A j \in S : q[j].parent \in S \cup {NoCommit})
          <=> (\A j \in S : o[j].parent \in S \cup {NoCommit})
  OBVIOUS
<1>2. QED
  BY <1>1 DEF Past

LEMMA PastHasItself ==
  ASSUME NEW o, NEW c \in Nat \ {0}
  PROVE  c \in Past(o, c)
BY DEF Past

LEMMA PastHasTheParent ==
  ASSUME NEW o, NEW c \in Nat \ {0}, o[c].parent \in 1 .. c
  PROVE  o[c].parent \in Past(o, c)
BY DEF Past, NoCommit

(* What stands on a commit of a history is in it: the part of a rooted set that
   is not later than the commit is rooted too. *)
LEMMA PastIsTransitive ==
  ASSUME NEW o, NEW c \in Nat, NEW d \in Past(o, c),
         \A i \in 1 .. c : o[i].parent \in 0 .. i - 1
  PROVE  Past(o, d) \subseteq Past(o, c)
<1>1. d \in 1 .. c
  BY DEF Past
<1>0. Past(o, d) \subseteq 1 .. c
  BY <1>1 DEF Past
<1>2. SUFFICES ASSUME NEW i \in Past(o, d), NEW S \in SUBSET (1 .. c), c \in S,
                      \A j \in S : o[j].parent \in S \cup {NoCommit}
               PROVE  i \in S
  BY <1>0 DEF Past
<1>3. d \in S
  BY <1>2 DEF Past
<1> DEFINE early == {j \in S : j <= d}
<1>4. early \in SUBSET (1 .. d) /\ d \in early
  <2>1. \A j \in S : j \in 1 .. c
    BY <1>2
  <2>2. \A j \in early : j \in 1 .. d
    BY <1>1, <2>1
  <2>3. d \in early
    BY <1>1, <1>3
  <2>4. QED
    BY <2>2, <2>3
<1>5. \A j \in early : o[j].parent \in early \cup {NoCommit}
  <2>1. SUFFICES ASSUME NEW j \in S, j <= d, o[j].parent # NoCommit
                 PROVE  o[j].parent \in S /\ o[j].parent <= d
    OBVIOUS
  <2>2. j \in 1 .. c /\ o[j].parent \in 0 .. j - 1 /\ o[j].parent \in S
    BY <2>1, <1>2
  <2>3. QED
    BY <1>1, <2>1, <2>2
<1>6. QED
  BY <1>4, <1>5 DEF Past

-----------------------------------------------------------------------------
(* COMMITS AND BRANCHES *)

\* No commit is changed or lost.
Kept == /\ Len(objects) <= Len(objects')
        /\ \A i \in 1 .. Len(objects) : objects'[i] = objects[i]

(* A new commit and what it leaves alone. *)
LEMMA CommitAdds ==
  ASSUME Typed, NEW t \in Programs \cup {Landing}, NEW r \in BOOLEAN,
         NEW c \in 0 .. Len(objects), Commit(t, r, c)
  PROVE  /\ Kept /\ Len(objects') = Len(objects) + 1
         /\ objects'[Len(objects')] = [tree |-> t, readme |-> r, parent |-> c]
         /\ objects' \in Seq(Commits)
         /\ \A i \in 1 .. Len(objects') : objects'[i].parent \in 0 .. i - 1
<1> DEFINE x == [tree |-> t, readme |-> r, parent |-> c]
<1>0. Len(objects) \in Nat /\ objects \in Seq(Commits)
  BY DEF Typed
<1>1. x \in Commits
  BY <1>0 DEF Commits
<1>x. x.parent = c
  OBVIOUS
<1> HIDE DEF x
<1>2. /\ objects' = Append(objects, x)
      /\ Len(objects') = Len(objects) + 1 /\ objects'[Len(objects) + 1] = x
      /\ \A i \in 1 .. Len(objects) : objects'[i] = objects[i]
      /\ objects' \in Seq(Commits)
  BY <1>0, <1>1 DEF Commit, x
<1>3. \A i \in 1 .. Len(objects) : objects'[i].parent \in 0 .. i - 1
  BY <1>2 DEF Typed
<1>4. \A i \in 1 .. Len(objects') : objects'[i].parent \in 0 .. i - 1
  BY <1>0, <1>2, <1>3, <1>x
<1>5. QED
  BY <1>0, <1>2, <1>4 DEF Kept, x

LEMMA AdvanceTyped ==
  ASSUME Typed, NEW b \in Branches, NEW c \in 1 .. Len(objects'), Kept,
         Len(objects') \in Nat, Advance(b, c)
  PROVE  /\ tip' \in [Branches -> 0 .. Len(objects')]
         /\ default' \in Branches \cup {NoBranch}
         /\ default' # NoBranch => tip'[default'] # NoCommit
         /\ default' = IF default = NoBranch THEN b ELSE default
         /\ \A d \in Branches : tip'[d] = IF d = b THEN c ELSE tip[d]
<1>0. Len(objects) \in Nat /\ Len(objects) <= Len(objects')
  BY DEF Typed, Kept
<1>1. \A d \in Branches : tip[d] \in 0 .. Len(objects')
  BY <1>0 DEF Typed
<1>2. QED
  BY <1>0, <1>1 DEF Typed, Advance, NoCommit

(* What could be fetched can be fetched after a branch has moved to a commit
   that stands on where it was, and the commit can be. *)
LEMMA ReachableGrows ==
  ASSUME Typed, Typed', Kept, NEW b \in Branches, NEW c \in 1 .. Len(objects'),
         \A d \in Branches : tip'[d] = IF d = b THEN c ELSE tip[d],
         tip[b] = NoCommit \/ tip[b] \in Past(objects', c)
  PROVE  Reachable \subseteq Reachable' /\ c \in Reachable'
<1>1. Reachable' = UNION {Past(objects', tip'[d]) : d \in Branches}
  BY DEF History, Rooted, Past, Reachable
<1>2. \A d \in Branches : Past(objects', tip[d]) = Past(objects, tip[d])
  <2>1. \A d \in Branches : \A i \in 1 .. tip[d] : objects'[i] = objects[i]
    BY DEF Typed, Kept
  <2>2. QED
    BY <2>1, PastStays
<1>3. Past(objects', c) \subseteq Reachable'
  BY <1>1
<1>4. c \in Past(objects', c)
  BY PastHasItself
<1>5. Past(objects', tip[b]) \subseteq Past(objects', c)
  <2>1. CASE tip[b] = NoCommit
    BY <2>1 DEF Past, NoCommit
  <2>2. CASE tip[b] \in Past(objects', c)
    <3>1. \A i \in 1 .. c : objects'[i].parent \in 0 .. i - 1
      BY DEF Typed
    <3>2. QED
      BY <2>2, <3>1, PastIsTransitive
  <2>3. QED
    BY <2>1, <2>2
<1>6. \A d \in Branches : Past(objects, tip[d]) \subseteq Reachable'
  <2>1. SUFFICES ASSUME NEW d \in Branches
                 PROVE  Past(objects', tip[d]) \subseteq Reachable'
    BY <1>2
  <2>2. QED
    BY <1>1, <1>3, <1>5
<1>7. QED
  BY <1>3, <1>4, <1>6, HistoryIsPast

LEMMA ReachableStays ==
  ASSUME Typed, Kept, tip' = tip
  PROVE  Reachable \subseteq Reachable'
<1>1. Reachable' = UNION {Past(objects', tip'[d]) : d \in Branches}
  BY DEF History, Rooted, Past, Reachable
<1>2. \A d \in Branches : \A i \in 1 .. tip[d] : objects'[i] = objects[i]
  BY DEF Typed, Kept
<1>3. \A d \in Branches : Past(objects', tip[d]) = Past(objects, tip[d])
  BY <1>2, PastStays
<1>4. QED
  BY <1>1, <1>3, HistoryIsPast

-----------------------------------------------------------------------------
(* THE STEPS *)

LEMMA InitIInv == Init => IInv
<1> SUFFICES ASSUME Init
             PROVE  IInv
  OBVIOUS
<1>1. Len(<<>>) = 0 /\ <<>> \in Seq(Commits)
  OBVIOUS
<1>2. Typed
  BY <1>1, PublishAssumption DEF Init, Typed, Steps, NoCommit
<1>3. Shared
  BY DEF Init, Shared, Sharing, Dressing
<1>4. Main # NoBranch
  BY DEF Main, NoBranch
<1>5. QED
  BY <1>2, <1>3, <1>4 DEF IInv, Init, Landed

LEMMA GotoTyped ==
  ASSUME Typed, NEW p \in Publishers, NEW step \in Steps, Goto(p, step)
  PROVE  /\ at' \in [Publishers -> Steps]
         /\ \A q \in Publishers : at'[q] = IF q = p THEN step ELSE at[q]
BY DEF Typed, Goto

LEMMA KeptSame == Typed /\ objects' = objects => Kept
BY DEF Typed, Kept

(* A step of p that makes no commit, moves no branch and lets nobody's program
   be returned. *)
LEMMA ElsewhereIsSafe ==
  ASSUME IInv, NEW p \in Publishers, NEW step \in Steps \ {"push"}, Goto(p, step),
         UNCHANGED <<objects, tip, default, head, returned>>,
         repo' \in {repo, "public"}, step \in Sharing => repo' = "public",
         about' \in {about, "ours"}, faults' \in 0 .. MaxFaults,
         job' = job, at[p] # "idle" \/ step = "idle"
  PROVE  IInv'
<1>1. /\ at' \in [Publishers -> Steps]
      /\ \A q \in Publishers : at'[q] = IF q = p THEN step ELSE at[q]
  BY GotoTyped DEF IInv
<1>2. Typed'
  BY <1>1 DEF IInv, Typed
<1>3. Reachable' = Reachable
  BY DEF Reachable, History, Rooted
<1>4. Shared'
  BY <1>1, <1>3 DEF IInv, Shared
<1>5. Landed'
  BY DEF IInv, Landed
<1>6. QED
  BY <1>2, <1>4, <1>5 DEF IInv

LEMMA BeginIsSafe ==
  ASSUME IInv, NEW p \in Publishers, Begin(p)
  PROVE  IInv'
<1>1. /\ at' \in [Publishers -> Steps]
      /\ \A q \in Publishers : at'[q] = IF q = p THEN "probe" ELSE at[q]
  BY GotoTyped, "probe" \in Steps DEF Begin, IInv, Steps
<1>2. PICK j \in Jobs : job' = [job EXCEPT ![p] = j]
  BY DEF Begin
<1>3. /\ DOMAIN job' = Publishers
      /\ \A q \in Publishers : job'[q] = IF q = p THEN j ELSE job[q]
  BY <1>2 DEF IInv, Typed
<1>4. UNCHANGED <<repo, about, objects, tip, default, head, returned, faults>>
  BY DEF Begin, remote
<1>5. Typed'
  BY <1>1, <1>3, <1>4 DEF IInv, Typed
<1>6. Reachable' = Reachable
  BY <1>4 DEF Reachable, History, Rooted
<1>7. Shared'
  BY <1>1, <1>3, <1>4, <1>6 DEF IInv, Shared, Sharing, Dressing
<1>8. Landed'
  BY <1>4 DEF IInv, Landed
<1>9. QED
  BY <1>5, <1>7, <1>8 DEF IInv

(* What publishers hold and what was returned outlives a step that keeps every
   commit and every branch's history. *)
LEMMA SharedStays ==
  ASSUME IInv, Typed', Kept, Reachable \subseteq Reachable', repo' = repo, job' = job,
         NEW p \in Publishers,
         \A q \in Publishers \ {p} : at'[q] = at[q] /\ head'[q] = head[q],
         at'[p] \in Sharing => repo = "public",
         at'[p] = "push" => head'[p] \in 1 .. Len(objects')
                            /\ objects'[head'[p]].tree = job[p].tree,
         \A r \in returned' \ returned :
             /\ repo = "public" /\ r[2] \in 1 .. Len(objects')
             /\ objects'[r[2]].tree = r[1] /\ r[2] \in Reachable'
  PROVE  Shared'
<1>0. Len(objects) \in Nat /\ Len(objects') \in Nat
  BY DEF IInv, Typed
<1>1. \A i \in 1 .. Len(objects) : i \in 1 .. Len(objects') /\ objects'[i] = objects[i]
  BY <1>0 DEF Kept
<1>2. \A q \in Publishers : at'[q] \in Sharing => repo' = "public"
  BY DEF IInv, Shared
<1>3. ASSUME NEW q \in Publishers, at'[q] = "push"
      PROVE  head'[q] \in 1 .. Len(objects') /\ objects'[head'[q]].tree = job'[q].tree
  BY <1>1, <1>3 DEF IInv, Shared
<1>4. ASSUME NEW r \in returned'
      PROVE  /\ repo' = "public" /\ r[2] \in 1 .. Len(objects')
             /\ objects'[r[2]].tree = r[1] /\ r[2] \in Reachable'
  BY <1>1, <1>4 DEF IInv, Shared
<1>5. QED
  BY <1>2, <1>3, <1>4 DEF Shared

(* The README makes the first branch, or moves the default one. *)
LEMMA PutReadmeIsSafe ==
  ASSUME IInv, NEW p \in Publishers, PutReadme(p)
  PROVE  IInv'
<1>p. {"about", "clone"} \subseteq Steps \ {"push"} /\ {"about", "clone"} \subseteq Sharing
  BY DEF Steps, Sharing, Dressing
<1>r. at[p] = "put" /\ repo = "public"
  BY DEF PutReadme, IInv, Shared, Sharing, Dressing
<1>u. UNCHANGED <<repo, about, job, undressed, head, returned, faults>>
  BY DEF PutReadme
<1>1. CASE HasReadme /\ Goto(p, "clone") /\ UNCHANGED <<objects, tip, default>>
  <2>1. UNCHANGED <<objects, tip, default, head, returned>> /\ repo' = repo
        /\ about' = about /\ faults' = faults /\ job' = job /\ at[p] # "idle"
    BY <1>1, <1>r, <1>u
  <2>2. faults' \in 0 .. MaxFaults
    BY <2>1 DEF IInv, Typed
  <2>3. QED
    BY <1>1, <1>p, <1>r, <2>1, <2>2, ElsewhereIsSafe
<1>2. CASE ~HasReadme /\ Goto(p, "about")
           /\ LET b == IF default = NoBranch THEN Main ELSE default
                  tree == IF default = NoBranch THEN Landing ELSE objects[tip[b]].tree
              IN Commit(tree, TRUE, tip[b]) /\ Advance(b, Len(objects) + 1)
  <2> DEFINE b == IF default = NoBranch THEN Main ELSE default
  <2> DEFINE tree == IF default = NoBranch THEN Landing ELSE objects[tip[b]].tree
  <2> DEFINE c == Len(objects) + 1
  <2>1. b \in Branches
    BY DEF IInv, Typed, Branches
  <2>2. Commit(tree, TRUE, tip[b]) /\ Advance(b, c)
    BY <1>2
  <2>3. tip[b] \in 0 .. Len(objects) /\ Len(objects) \in Nat
    BY <2>1 DEF IInv, Typed
  <2>4. tree \in Programs \cup {Landing}
    <3>1. CASE default # NoBranch
      <4>1. tip[b] \in 1 .. Len(objects)
        BY <2>3, <3>1 DEF IInv, Typed, NoCommit
      <4>2. objects[tip[b]] \in Commits
        BY <4>1 DEF IInv, Typed
      <4>3. QED
        BY <3>1, <4>2 DEF Commits
    <3>2. QED
      BY <3>1
  <2> HIDE DEF b, tree
  <2>5. /\ Kept /\ Len(objects') = c
        /\ objects'[c] = [tree |-> tree, readme |-> TRUE, parent |-> tip[b]]
        /\ objects' \in Seq(Commits)
        /\ \A i \in 1 .. Len(objects') : objects'[i].parent \in 0 .. i - 1
    BY <2>2, <2>3, <2>4, CommitAdds DEF IInv
  <2>6. /\ tip' \in [Branches -> 0 .. Len(objects')]
        /\ default' \in Branches \cup {NoBranch}
        /\ default' # NoBranch => tip'[default'] # NoCommit
        /\ default' = IF default = NoBranch THEN b ELSE default
        /\ \A d \in Branches : tip'[d] = IF d = b THEN c ELSE tip[d]
    BY <2>1, <2>2, <2>3, <2>5, AdvanceTyped DEF IInv
  <2>7. /\ at' \in [Publishers -> Steps]
        /\ \A q \in Publishers : at'[q] = IF q = p THEN "about" ELSE at[q]
    BY <1>2, <1>p, GotoTyped DEF IInv
  <2>8. Typed'
    <3>1. head' \in [Publishers -> 0 .. Len(objects')]
      BY <1>u, <2>3, <2>5 DEF IInv, Typed
    <3>2. QED
      BY <1>r, <1>u, <2>5, <2>6, <2>7, <3>1 DEF IInv, Typed
  <2>9. tip[b] = NoCommit \/ tip[b] \in Past(objects', c)
    BY <2>3, <2>5, PastHasTheParent DEF NoCommit
  <2>10. Reachable \subseteq Reachable'
    BY <2>1, <2>3, <2>5, <2>6, <2>8, <2>9, ReachableGrows DEF IInv
  <2>11. Shared'
    BY <1>r, <1>u, <2>5, <2>7, <2>8, <2>10, SharedStays
  <2>12. Landed'
    <3>1. b = default' /\ tip'[b] = c /\ objects'[c].readme
      BY <2>1, <2>5, <2>6 DEF b
    <3>2. QED
      BY <3>1 DEF Landed
  <2>13. QED
    BY <2>8, <2>11, <2>12 DEF IInv
<1>3. QED
  BY <1>1, <1>2 DEF PutReadme

(* A publisher stands on a branch: its ref's, or the default one. *)
LEMMA CloneIsSafe ==
  ASSUME IInv, NEW p \in Publishers, Clone(p)
  PROVE  IInv'
<1> DEFINE base == CASE tip[Target(p)] # NoCommit -> tip[Target(p)]
                     [] OTHER -> IF default = NoBranch THEN NoCommit ELSE tip[default]
<1>r. at[p] = "clone" /\ repo = "public" /\ job[p] \in Jobs
  BY DEF Clone, IInv, Typed, Shared, Sharing, Dressing
<1>u. UNCHANGED <<repo, about, tip, default, job, undressed, faults>>
  BY DEF Clone, remote
<1>l. Len(objects) \in Nat /\ objects \in Seq(Commits)
  BY DEF IInv, Typed
<1>p. {"published", "push"} \subseteq Steps /\ {"published", "push"} \subseteq Sharing
  BY DEF Steps, Sharing, Dressing
<1>1. base = NoCommit \/ \E b \in Branches : base = tip[b]
  <2>1. Target(p) \in Branches
    BY <1>r DEF Target, Jobs, Branches
  <2>2. default # NoBranch => default \in Branches
    BY DEF IInv, Typed
  <2>3. QED
    BY <2>1, <2>2
<1>2. base \in 0 .. Len(objects)
  BY <1>1, <1>l DEF IInv, Typed, NoCommit
<1>3. base # NoCommit => base \in Reachable
  <2>1. SUFFICES ASSUME NEW b \in Branches, base = tip[b], base # NoCommit
                 PROVE  base \in Reachable
    BY <1>1
  <2>2. base \in Nat \ {0}
    BY <1>2, <2>1 DEF NoCommit
  <2>3. base \in Past(objects, base)
    BY <2>2, PastHasItself
  <2>4. QED
    BY <2>1, <2>3, HistoryIsPast
<1>c. \/ /\ base # NoCommit /\ objects[base].tree = job[p].tree
         /\ head' = [head EXCEPT ![p] = base]
         /\ returned' = returned \cup {<<job[p].tree, base>>}
         /\ Goto(p, "published") /\ objects' = objects
      \/ /\ Commit(job[p].tree, FALSE, base)
         /\ head' = [head EXCEPT ![p] = Len(objects) + 1]
         /\ Goto(p, "push") /\ returned' = returned
  BY DEF Clone
<1> HIDE DEF base
<1>4. CASE /\ base # NoCommit /\ objects[base].tree = job[p].tree
           /\ head' = [head EXCEPT ![p] = base]
           /\ returned' = returned \cup {<<job[p].tree, base>>}
           /\ Goto(p, "published") /\ objects' = objects
  <2>1. /\ at' \in [Publishers -> Steps]
        /\ \A q \in Publishers : at'[q] = IF q = p THEN "published" ELSE at[q]
    BY <1>4, <1>p, GotoTyped DEF IInv
  <2>2. /\ head' \in [Publishers -> 0 .. Len(objects)]
        /\ \A q \in Publishers \ {p} : head'[q] = head[q]
    BY <1>2, <1>4 DEF IInv, Typed
  <2>3. Typed'
    BY <1>4, <1>r, <1>u, <2>1, <2>2 DEF IInv, Typed
  <2>4. Kept
    BY <1>4, KeptSame DEF IInv
  <2>5. Reachable' = Reachable
    BY <1>4, <1>u DEF Reachable, History, Rooted
  <2>6. \A x \in returned' \ returned : x[1] = job[p].tree /\ x[2] = base
    BY <1>4
  <2>7. base \in 1 .. Len(objects')
    BY <1>2, <1>4 DEF NoCommit
  <2>8. Shared'
    BY <1>3, <1>4, <1>r, <1>u, <2>1, <2>2, <2>3, <2>4, <2>5, <2>6, <2>7, SharedStays
  <2>9. Landed'
    BY <1>4, <1>u DEF IInv, Landed
  <2>10. QED
    BY <2>3, <2>8, <2>9 DEF IInv
<1>5. CASE /\ Commit(job[p].tree, FALSE, base)
           /\ head' = [head EXCEPT ![p] = Len(objects) + 1]
           /\ Goto(p, "push") /\ returned' = returned
  <2>1. /\ at' \in [Publishers -> Steps]
        /\ \A q \in Publishers : at'[q] = IF q = p THEN "push" ELSE at[q]
    BY <1>5, <1>p, GotoTyped DEF IInv
  <2>2. job[p].tree \in Programs \cup {Landing}
    BY <1>r DEF Jobs
  <2>3. /\ Kept /\ Len(objects') = Len(objects) + 1
        /\ objects'[Len(objects')] = [tree |-> job[p].tree, readme |-> FALSE, parent |-> base]
        /\ objects' \in Seq(Commits)
        /\ \A i \in 1 .. Len(objects') : objects'[i].parent \in 0 .. i - 1
    BY <1>2, <1>5, <2>2, CommitAdds DEF IInv
  <2>4. /\ head' \in [Publishers -> 0 .. Len(objects')]
        /\ head'[p] = Len(objects')
        /\ \A q \in Publishers \ {p} : head'[q] = head[q]
    BY <1>5, <1>l, <2>3 DEF IInv, Typed
  <2>5. tip' \in [Branches -> 0 .. Len(objects')]
    BY <1>u, <1>l, <2>3 DEF IInv, Typed
  <2>6. Typed'
    BY <1>r, <1>u, <2>1, <2>3, <2>4, <2>5 DEF IInv, Typed
  <2>7. Reachable \subseteq Reachable'
    BY <1>u, <2>3, ReachableStays DEF IInv
  <2>8. head'[p] \in 1 .. Len(objects') /\ objects'[head'[p]].tree = job[p].tree
    BY <1>l, <2>3, <2>4
  <2>9. Shared'
    BY <1>5, <1>r, <1>u, <2>1, <2>3, <2>4, <2>6, <2>7, <2>8, SharedStays
  <2>10. Landed'
    <3>1. default = Main => tip[Main] \in 1 .. Len(objects)
      BY <1>l DEF IInv, Typed, NoCommit, Main, NoBranch, Branches
    <3>2. QED
      BY <1>u, <2>3, <3>1 DEF IInv, Landed, Kept
  <2>11. QED
    BY <2>6, <2>9, <2>10 DEF IInv
<1>6. QED
  BY <1>c, <1>4, <1>5

(* A push that GitHub takes moves a branch forward, and never the default
   branch of a repository born with a README. *)
LEMMA PushIsSafe ==
  ASSUME IInv, NEW p \in Publishers, at[p] = "push", FastForward(p),
         Advance(Target(p), head[p]),
         UNCHANGED <<repo, about, objects, job, undressed, head>>,
         faults' \in 0 .. MaxFaults,
         NEW step \in {"published", "unpublished"}, Goto(p, step),
         returned' \in {returned, returned \cup {<<job[p].tree, head[p]>>}}
  PROVE  IInv'
<1>p. {"published", "unpublished"} \subseteq Steps
  BY DEF Steps, Sharing, Dressing
<1>r. /\ repo = "public" /\ job[p] \in Jobs
      /\ head[p] \in 1 .. Len(objects) /\ objects[head[p]].tree = job[p].tree
  BY DEF IInv, Typed, Shared, Sharing
<1>l. Len(objects) \in Nat
  BY DEF IInv, Typed
<1>1. /\ at' \in [Publishers -> Steps]
      /\ \A q \in Publishers : at'[q] = IF q = p THEN step ELSE at[q]
  BY <1>p, GotoTyped DEF IInv
<1>2. Target(p) \in Branches /\ Target(p) # Main
  BY <1>r, PublishAssumption DEF Target, Jobs, Branches
<1>k. Kept
  BY KeptSame DEF IInv
<1>3. /\ tip' \in [Branches -> 0 .. Len(objects')]
      /\ default' \in Branches \cup {NoBranch}
      /\ default' # NoBranch => tip'[default'] # NoCommit
      /\ default' = IF default = NoBranch THEN Target(p) ELSE default
      /\ \A d \in Branches : tip'[d] = IF d = Target(p) THEN head[p] ELSE tip[d]
  BY <1>r, <1>l, <1>2, <1>k, AdvanceTyped DEF IInv
<1>4. Typed'
  BY <1>r, <1>1, <1>3 DEF IInv, Typed
<1>5. tip[Target(p)] = NoCommit \/ tip[Target(p)] \in Past(objects', head[p])
  BY HistoryIsPast DEF FastForward
<1>6. Reachable \subseteq Reachable' /\ head[p] \in Reachable'
  BY <1>r, <1>2, <1>3, <1>4, <1>5, <1>k, ReachableGrows DEF IInv
<1>7. \A x \in returned' \ returned : x[1] = job[p].tree /\ x[2] = head[p]
  OBVIOUS
<1>8. Shared'
  BY <1>r, <1>1, <1>4, <1>6, <1>7, <1>k, SharedStays
<1>9. Landed'
  BY <1>2, <1>3 DEF IInv, Landed, Branches
<1>10. QED
  BY <1>4, <1>8, <1>9 DEF IInv

LEMMA StepIInv == IInv /\ [Next]_vars => IInv'
<1> SUFFICES ASSUME IInv, [Next]_vars
             PROVE  IInv'
  OBVIOUS
<1>s. {"readme", "put", "about", "clone", "create", "public", "unpublished"}
        \subseteq Steps \ {"push"}
  BY DEF Steps, Sharing, Dressing
<1>t. faults \in 0 .. MaxFaults /\ (Fault => faults' \in 0 .. MaxFaults)
  BY PublishAssumption DEF IInv, Typed, Fault
<1>h. \A p \in Publishers : at[p] \in Sharing => repo = "public"
  BY DEF IInv, Shared
<1>n. "create" \notin Sharing /\ "public" \notin Sharing /\ "unpublished" \notin Sharing
  BY DEF Sharing, Dressing
<1>d. {"readme", "put", "about", "clone"} \subseteq Sharing
  BY DEF Sharing, Dressing
<1>1. ASSUME NEW p \in Publishers, Begin(p)
      PROVE  IInv'
  BY <1>1, BeginIsSafe
<1>2. ASSUME NEW p \in Publishers, Probe(p)
      PROVE  IInv'
  <2>1. PICK step \in {"create", "public", "readme", "clone"} :
           /\ Goto(p, step)
           /\ step \in {"readme", "clone"} => repo = "public"
    BY <1>2 DEF Probe, IInv, Typed
  <2>2. QED
    BY <1>2, <1>s, <1>t, <1>n, <2>1, ElsewhereIsSafe DEF Probe, remote
<1>3. ASSUME NEW p \in Publishers, Create(p)
      PROVE  IInv'
  <2>1. CASE repo = "absent"
    BY <1>3, <1>s, <1>t, <2>1, ElsewhereIsSafe DEF Create
  <2>2. CASE repo # "absent"
    BY <1>3, <1>s, <1>t, <1>n, <2>2, ElsewhereIsSafe DEF Create, PublishError
  <2>3. QED
    BY <2>1, <2>2
<1>4. ASSUME NEW p \in Publishers, MakePublic(p)
      PROVE  IInv'
  BY <1>4, <1>s, <1>t, ElsewhereIsSafe DEF MakePublic
<1>5. ASSUME NEW p \in Publishers, GetReadme(p)
      PROVE  IInv'
  BY <1>5, <1>s, <1>t, <1>h, <1>d, ElsewhereIsSafe DEF GetReadme, remote
<1>6. ASSUME NEW p \in Publishers, PutReadme(p)
      PROVE  IInv'
  BY <1>6, PutReadmeIsSafe
<1>7. ASSUME NEW p \in Publishers, WriteAbout(p)
      PROVE  IInv'
  BY <1>7, <1>s, <1>t, <1>h, <1>d, ElsewhereIsSafe DEF WriteAbout
<1>8. ASSUME NEW p \in Publishers, Clone(p)
      PROVE  IInv'
  BY <1>8, CloneIsSafe
<1>9. ASSUME NEW p \in Publishers, CloneFails(p)
      PROVE  IInv'
  BY <1>9, <1>s, <1>t, <1>n, ElsewhereIsSafe DEF CloneFails, PublishError, remote
<1>10. ASSUME NEW p \in Publishers, Push(p)
       PROVE  IInv'
  BY <1>10, <1>t, PushIsSafe DEF Push
<1>11. ASSUME NEW p \in Publishers, PushRejected(p)
       PROVE  IInv'
  BY <1>11, <1>s, <1>t, <1>n, ElsewhereIsSafe DEF PushRejected, PublishError, remote
<1>12. ASSUME NEW p \in Publishers, ProbeFails(p)
       PROVE  IInv'
  BY <1>12, <1>s, <1>t, <1>n, ElsewhereIsSafe DEF ProbeFails, remote
<1>13. ASSUME NEW p \in Publishers, DressFails(p)
       PROVE  IInv'
  BY <1>13, <1>s, <1>t, <1>h, <1>d, ElsewhereIsSafe DEF DressFails, remote
<1>14. ASSUME NEW p \in Publishers, PushFails(p)
       PROVE  IInv'
  <2>1. CASE FastForward(p) /\ Advance(Target(p), head[p])
    BY <1>14, <1>t, <2>1, PushIsSafe DEF PushFails, PublishError
  <2>2. CASE UNCHANGED <<tip, default>>
    BY <1>14, <1>s, <1>t, <1>n, <2>2, ElsewhereIsSafe DEF PushFails, PublishError
  <2>3. QED
    BY <1>14, <2>1, <2>2 DEF PushFails
<1>15. ASSUME NEW p \in Publishers, EnsureFails(p)
       PROVE  IInv'
  BY <1>15, <1>s, <1>t, <1>n, ElsewhereIsSafe DEF EnsureFails, PublishError
<1>16. ASSUME NEW p \in Publishers, GetReadmeFails(p)
       PROVE  IInv'
  BY <1>16, <1>s, <1>t, <1>h, <1>d, ElsewhereIsSafe DEF GetReadmeFails, remote
<1>17. CASE UNCHANGED vars
  <2>1. Reachable' = Reachable
    BY <1>17 DEF vars, remote, Reachable, History, Rooted
  <2>2. QED
    BY <1>17, <2>1 DEF vars, remote, IInv, Typed, Shared, Landed
<1>18. QED
  BY <1>1, <1>2, <1>3, <1>4, <1>5, <1>6, <1>7, <1>8, <1>9, <1>10, <1>11, <1>12,
     <1>13, <1>14, <1>15, <1>16, <1>17 DEF Next, Step, Fails

-----------------------------------------------------------------------------
(* THE THEOREMS *)

(* The repository, its commits and every publisher's clone stay of their type:
   in particular a commit stands on an earlier one. *)
THEOREM TypeCorrect == Spec => []TypeOK
<1>1. IInv => TypeOK
  BY DEF IInv, Typed, TypeOK
<1>2. QED
  BY <1>1, InitIInv, StepIInv, PTL DEF Spec

(* What a publish has returned can be fetched from then on, whoever publishes to
   the same branch afterwards: a push that is no fast-forward is refused, so a
   branch's history only grows (publish_solution). *)
THEOREM ReturnedStaysFetchable == Spec => []ReturnedIsFetchable
<1>1. IInv => ReturnedIsFetchable
  BY DEF IInv, Shared, ReturnedIsFetchable
<1>2. QED
  BY <1>1, InitIInv, StepIInv, PTL DEF Spec

(* The landing page outlives every publish that follows it (_dress; submit and
   the runs publish to branches of their own). *)
THEOREM TheLandingStays == Spec => []LandingStays
<1>1. IInv => LandingStays
  BY DEF IInv, Landed, LandingStays, HasReadme, Main, NoBranch
<1>2. QED
  BY <1>1, InitIInv, StepIInv, PTL DEF Spec
================================================================================
