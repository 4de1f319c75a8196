------------------------------- MODULE Publish -------------------------------
(***************************************************************************)
(* Publishing a program to its owner's GitHub repository                    *)
(* (nethackers.hubclient.publish, harness.launch._publisher_for and the     *)
(* submit command): ensure_repo, _dress and publish_solution, by publishers *)
(* that run at once against one repository, and the hub that then checks    *)
(* the commit (hub.validate, hub.github).                                   *)
(*                                                                         *)
(* A commit is a record: the branch it was made for, the commit it stands   *)
(* on and the tree it holds.  A tree is a program and whether a README.md   *)
(* lies beside it.  Branches and the default branch are GitHub's.           *)
(***************************************************************************)
EXTENDS Naturals, Sequences

CONSTANTS
    Publishers,   \* evolve runs, and submit commands
    Refs,         \* the branches they publish to, one per run and one for submit
    Programs,     \* trees a publisher may be asked to publish
    MaxCommits,   \* bound: commits made for the repository
    MaxFaults     \* bound: gh or git steps that fail for the network

Main == "main"    \* the default branch of a repository born with a README

ASSUME PublishAssumption ==
    /\ Main \notin Refs
    /\ MaxCommits \in Nat /\ MaxFaults \in Nat

NoCommit == 0
Landing == "landing"      \* the tree of nothing but the README

VARIABLES
    repo,      \* "absent", "private" or "public"
    about,     \* the description: "none", "ours" (set last by _dress), "owner"
    objects,   \* every commit made, in order: [tree, readme, parent]
    tip,       \* tip[b]: the commit branch b is at on GitHub
    default,   \* the default branch; the first one pushed
    at,        \* at[p]: where p is in its publish
    job,       \* job[p]: the tree p is publishing, and the ref it publishes to
    undressed, \* undressed[p]: p's probe saw a repository without a description
    head,      \* head[p]: HEAD of p's clone
    returned,  \* what publishes have returned: <<program, commit>>
    faults

remote == <<repo, about, tip, default>>
vars == <<remote, objects, at, job, undressed, head, returned, faults>>

NoBranch == "no branch"
Branches == Refs \cup {Main}
Jobs == [tree : Programs, ref : Refs]

Init ==
    /\ repo \in {"absent", "private", "public"}
    /\ about \in IF repo = "absent" THEN {"none"} ELSE {"none", "owner"}
    /\ objects = <<>>
    /\ tip = [b \in Branches |-> NoCommit]
    /\ default = NoBranch
    /\ at = [p \in Publishers |-> "idle"]
    /\ job = [p \in Publishers |-> CHOOSE j \in Jobs : TRUE]
    /\ undressed = [p \in Publishers |-> FALSE]
    /\ head = [p \in Publishers |-> NoCommit]
    /\ returned = {}
    /\ faults = 0

Goto(p, step) == at' = [at EXCEPT ![p] = step]

\* A gh or git step that fails is a PublishError, and the win is not published;
\* one that fails inside _dress is passed over.
PublishError(p) == Goto(p, "unpublished")
Fault == faults < MaxFaults /\ faults' = faults + 1

(***************************************************************************)
(* GitHub, as gh and git use it                                             *)
(***************************************************************************)
\* A commit and the commits it stands on: what every set that has it, and with
\* a commit its parent, has too.
Rooted(S) == \A i \in S : objects[i].parent \in S \cup {NoCommit}
History(c) == {i \in 1 .. c : \A S \in SUBSET (1 .. c) : c \in S /\ Rooted(S) => i \in S}

\* What can be fetched from the repository.
Reachable == UNION {History(tip[b]) : b \in Branches}

HasReadme == default # NoBranch /\ objects[tip[default]].readme

\* A branch moves to commit c; the first branch of an empty repository becomes
\* its default.
Advance(b, c) ==
    /\ tip' = [tip EXCEPT ![b] = c]
    /\ default' = IF default = NoBranch THEN b ELSE default

Commit(tree, readme, parent) ==
    objects' = Append(objects, [tree |-> tree, readme |-> readme, parent |-> parent])

(***************************************************************************)
(* ensure_repo                                                              *)
(***************************************************************************)
\* The loop, or the command, has a tree to publish: the last one or another.
Begin(p) ==
    /\ at[p] \in {"idle", "published", "unpublished"}
    /\ \E j \in Jobs : job' = [job EXCEPT ![p] = j]
    /\ Goto(p, "probe")
    /\ UNCHANGED <<remote, objects, undressed, head, returned, faults>>

\* The slip that dresses a repository only on the day it is created.
ProbeOfABirth(p) ==
    /\ at[p] = "probe"
    /\ undressed' = [undressed EXCEPT ![p] = repo = "absent"]
    /\ Goto(p, CASE repo = "absent" -> "create" [] repo = "private" -> "public"
                 [] OTHER -> "clone")
    /\ UNCHANGED <<remote, objects, job, head, returned, faults>>

\* One gh repo view says what is missing.
Probe(p) ==
    /\ at[p] = "probe"
    /\ undressed' = [undressed EXCEPT ![p] = about = "none"]
    /\ Goto(p, CASE repo = "absent" -> "create"
                 [] repo = "private" -> "public"
                 [] repo = "public" -> IF about = "none" THEN "readme" ELSE "clone")
    /\ UNCHANGED <<remote, objects, job, head, returned, faults>>

\* A probe that fails means absent, whatever made it fail: create comes next,
\* and raises where the repository is there.
ProbeFails(p) ==
    /\ at[p] = "probe" /\ Fault
    /\ undressed' = [undressed EXCEPT ![p] = TRUE]
    /\ Goto(p, "create")
    /\ UNCHANGED <<remote, objects, job, head, returned>>

\* The repository may be there by now, born of another publisher's create.
Create(p) ==
    /\ at[p] = "create"
    /\ IF repo = "absent" THEN repo' = "public" /\ Goto(p, "readme")
                          ELSE PublishError(p) /\ UNCHANGED repo
    /\ UNCHANGED <<about, tip, default, objects, job, undressed, head, returned, faults>>

MakePublic(p) ==
    /\ at[p] = "public"
    /\ repo' = "public"
    /\ Goto(p, IF undressed[p] THEN "readme" ELSE "clone")
    /\ UNCHANGED <<about, tip, default, objects, job, undressed, head, returned, faults>>

\* The network fails the create or the change of visibility, before GitHub acted
\* on it or after.
EnsureFails(p) ==
    /\ at[p] \in {"create", "public"} /\ Fault
    /\ repo' \in {repo} \cup {r \in {"public"} : at[p] = "public" \/ repo = "absent"}
    /\ PublishError(p)
    /\ UNCHANGED <<about, tip, default, objects, job, undressed, head, returned>>

(***************************************************************************)
(* _dress: what it cannot do it leaves to a later publish, which the        *)
(* description, written last, tells of.                                     *)
(***************************************************************************)
GetReadme(p) ==
    /\ at[p] = "readme"
    /\ Goto(p, IF HasReadme THEN "about" ELSE "put")
    /\ UNCHANGED <<remote, objects, job, undressed, head, returned, faults>>

\* A README that could not be asked for counts as none.
GetReadmeFails(p) ==
    /\ at[p] = "readme" /\ Fault
    /\ Goto(p, "put")
    /\ UNCHANGED <<remote, objects, job, undressed, head, returned>>

\* The README goes onto the default branch, as the first commit where there is
\* none; the contents API refuses to create a file that is there.
PutReadme(p) ==
    /\ at[p] = "put"
    /\ \/ /\ ~HasReadme /\ Len(objects) < MaxCommits
          /\ LET b == IF default = NoBranch THEN Main ELSE default
                 tree == IF default = NoBranch THEN Landing ELSE objects[tip[b]].tree
             IN Commit(tree, TRUE, tip[b]) /\ Advance(b, Len(objects) + 1)
          /\ Goto(p, "about")
       \/ HasReadme /\ Goto(p, "clone") /\ UNCHANGED <<objects, tip, default>>
    /\ UNCHANGED <<repo, about, job, undressed, head, returned, faults>>

WriteAbout(p) ==
    /\ at[p] = "about"
    /\ about' = "ours"
    /\ Goto(p, "clone")
    /\ UNCHANGED <<repo, tip, default, objects, job, undressed, head, returned, faults>>

DressFails(p) ==
    /\ at[p] \in {"put", "about"} /\ Fault
    /\ Goto(p, "clone")
    /\ UNCHANGED <<remote, objects, job, undressed, head, returned>>

(***************************************************************************)
(* publish_solution                                                         *)
(***************************************************************************)
\* The slip of a publish without a ref.
TargetDefault(p) == IF default = NoBranch THEN Main ELSE default
Target(p) == job[p].ref

\* Clone; stand on the ref's tip, or, before the first publish of the ref, on
\* the default branch's; make the tree the program's and commit.  With nothing
\* to commit HEAD is the answer; the README beside a program is pruned.
\* (The bound keeps one commit for the README.)
Clone(p) ==
    /\ at[p] = "clone" /\ repo # "absent"
    /\ LET base == CASE tip[Target(p)] # NoCommit -> tip[Target(p)]
                      [] OTHER -> IF default = NoBranch THEN NoCommit ELSE tip[default]
       IN IF base # NoCommit /\ objects[base].tree = job[p].tree /\ ~objects[base].readme
          THEN /\ head' = [head EXCEPT ![p] = base]
               /\ returned' = returned \cup {<<job[p].tree, base>>}
               /\ Goto(p, "published")
               /\ UNCHANGED objects
          ELSE /\ Len(objects) < MaxCommits - IF HasReadme THEN 0 ELSE 1
               /\ Commit(job[p].tree, FALSE, base)
               /\ head' = [head EXCEPT ![p] = Len(objects) + 1]
               /\ Goto(p, "push")
               /\ UNCHANGED returned
    /\ UNCHANGED <<remote, job, undressed, faults>>

CloneFails(p) ==
    /\ at[p] = "clone"
    /\ PublishError(p)
    /\ UNCHANGED <<remote, objects, job, undressed, head, returned, faults>>

FastForward(p) == tip[Target(p)] \in History(head[p]) \cup {NoCommit}

\* The slip of a push with --force.
PushForced(p) ==
    /\ at[p] = "push"
    /\ Advance(Target(p), head[p])
    /\ returned' = returned \cup {<<job[p].tree, head[p]>>}
    /\ Goto(p, "published")
    /\ UNCHANGED <<repo, about, objects, job, undressed, head, faults>>

\* git push -u origin HEAD:ref, then rev-parse HEAD.
Push(p) ==
    /\ at[p] = "push" /\ FastForward(p)
    /\ Advance(Target(p), head[p])
    /\ returned' = returned \cup {<<job[p].tree, head[p]>>}
    /\ Goto(p, "published")
    /\ UNCHANGED <<repo, about, objects, job, undressed, head, faults>>

\* Another publisher of the same ref was faster.
PushRejected(p) ==
    /\ at[p] = "push" /\ ~FastForward(p)
    /\ PublishError(p)
    /\ UNCHANGED <<remote, objects, job, undressed, head, returned, faults>>

\* The connection drops, before GitHub took the commit or after.
PushFails(p) ==
    /\ at[p] = "push" /\ Fault
    /\ \/ FastForward(p) /\ Advance(Target(p), head[p])
       \/ UNCHANGED <<tip, default>>
    /\ PublishError(p)
    /\ UNCHANGED <<repo, about, objects, job, undressed, head, returned>>

Step(p) ==
    \/ Begin(p) \/ Probe(p) \/ Create(p) \/ MakePublic(p) \/ GetReadme(p)
    \/ PutReadme(p) \/ WriteAbout(p) \/ Clone(p) \/ CloneFails(p)
    \/ Push(p) \/ PushRejected(p)

Fails(p) ==
    ProbeFails(p) \/ EnsureFails(p) \/ GetReadmeFails(p) \/ DressFails(p) \/ PushFails(p)

Next == \E p \in Publishers : Step(p) \/ Fails(p)

\* A publish goes on, and there is a next one: its gh and git commands run
\* without a timeout (_run), and are assumed to return or fail.
Fairness == \A p \in Publishers : WF_vars(Step(p))

Spec == Init /\ [][Next]_vars /\ Fairness

-----------------------------------------------------------------------------
\* State is of its type.
TypeOK ==
    /\ repo \in {"absent", "private", "public"} /\ about \in {"none", "ours", "owner"}
    /\ \A i \in DOMAIN objects : objects[i].parent \in 0 .. i - 1
    /\ tip \in [Branches -> 0 .. Len(objects)]
    /\ default \in Branches \cup {NoBranch}
    /\ head \in [Publishers -> 0 .. Len(objects)]
    /\ faults \in 0 .. MaxFaults

\* Whatever a publish returns, the hub and every puller can fetch from then on:
\* the repository is public, the commit is on it, and it holds the program that
\* was published (publish_solution returns HEAD after its push, or the HEAD of a
\* clone that left nothing to commit; branches only move forward).
ReturnedIsFetchable ==
    \A r \in returned :
        repo = "public" /\ r[2] \in Reachable /\ objects[r[2]].tree = r[1]

\* A landing page outlives the publishes that follow it: where the README made
\* the default branch, no program lands there and prunes it (submit and the runs
\* publish to branches of their own).
LandingStays == default = Main => HasReadme

\* A repository whose dressing failed half way is dressed by a later publish
\* (the description, the marker, is written last).
EventuallyDressed == <>[](about # "none")

\* Bots land on branches of their own, never on the default branch (the comment
\* above the submit command's publish).  It does not hold: see the README.
BotsNeverOnDefault == default \notin Refs
==============================================================================
