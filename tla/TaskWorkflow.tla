---------------------------- MODULE TaskWorkflow ----------------------------
(***************************************************************************)
(* scripts/task_workflow.py and scripts/qoder_task_workflow.py: one run    *)
(* takes a task from its specification to a merged pull request, and may   *)
(* stop or be killed at any step.  What it knows is in state.json; the     *)
(* branch, the worktree, the remote and the pull requests change behind    *)
(* its back: a builder session can outlive the run that started it, and    *)
(* somebody may push to the branch or merge on GitHub.                     *)
(*                                                                         *)
(* A branch is the sequence of the kinds of its commits, and a commit is   *)
(* its position there; 0 is the base.  Foreign is a commit that only the   *)
(* remote has.  Every save is one step, as state.json is replaced.         *)
(***************************************************************************)
EXTENDS Naturals, Sequences, FiniteSets

CONSTANTS Task,
          NoTask,
          MaxRounds,   \* --max-rounds
          MaxCommits,  \* bound: commits on a branch
          MaxPulls,    \* bound: pull requests of a task
          MaxAgain     \* bound: runs with --review-again

ASSUME TaskAssumption == NoTask \notin Task
ASSUME BoundsAssumption == MaxRounds \in Nat \ {0} /\ MaxCommits \in Nat /\ MaxPulls \in Nat
                            /\ MaxAgain \in Nat

Lanes == 2
Foreign == MaxCommits + 1
Commit == 0 .. MaxCommits

VARIABLES state,      \* task -> state.json, phase "none" when there is no file
          lock,       \* run.lock exists
          run,        \* the run that holds it, and the locals of its method
          branch,     \* task -> commits of the local branch
          exists,     \* task -> the local branch exists
          worktree,   \* task -> "none", "clean" or "dirty"
          session,    \* task -> a builder is at work in the worktree
          remote,     \* task -> tip of the pushed branch, 0 when there is none
          pulls,      \* task -> its pull requests
          launched,   \* task -> how many builders were started
          unreviewed, \* task -> a builder was started and no review has ended since
          approvals,  \* task -> commits the reviewer approved
          again,      \* how many runs had --review-again
          merges      \* task -> heads it merged, each with the head it checked

disk == <<state, lock>>
local == <<branch, exists, worktree>>
hub == <<remote, pulls>>
past == <<launched, unreviewed, approvals, again, merges>>
vars == <<disk, run, local, session, hub, past>>

Phase == {"none", "preparing", "implement", "agent-running", "review", "approved",
          "fix", "blocked", "ci", "merged", "done"}
Step == {"idle", "dispatch", "spec", "launch", "agent", "review", "report", "verdict", "block",
         "push", "pull", "publish", "poll", "merge", "confirm", "tree", "branch", "remote", "done"}
Verdict == {"APPROVED", "CHANGES REQUIRED", "BLOCKED"}

Idle == [task |-> NoTask, step |-> "idle", head |-> 0, verdict |-> "BLOCKED"]
Enter(t) == [Idle EXCEPT !.task = t, !.step = "dispatch"]
NoFile == [phase |-> "none", rounds |-> 0, reviewed |-> 0, approved |-> 0, pr |-> 0]

TypeOK ==
  /\ state \in [Task -> [phase : Phase, rounds : 0 .. MaxRounds,
                         reviewed : Commit, approved : Commit, pr : 0 .. MaxPulls]]
  /\ lock \in BOOLEAN
  /\ run \in [task : Task \cup {NoTask}, step : Step, head : Commit, verdict : Verdict]
  /\ branch \in [Task -> Seq({"code", "report"})]
  /\ exists \in [Task -> BOOLEAN]
  /\ worktree \in [Task -> {"none", "clean", "dirty"}]
  /\ session \in [Task -> BOOLEAN]
  /\ remote \in [Task -> Commit \cup {Foreign}]
  /\ pulls \in [Task -> Seq([merged : BOOLEAN, head : Commit \cup {Foreign}])]
  /\ launched \in [Task -> Nat]
  /\ unreviewed \in [Task -> BOOLEAN]
  /\ approvals \in [Task -> SUBSET Commit]
  /\ again \in 0 .. MaxAgain
  /\ merges \in [Task -> SUBSET [head : Commit \cup {Foreign}, checked : Commit]]

Tip(t) == Len(branch[t])

\* run.task is at the given step.
At(t, step) == run.task = t /\ run.step = step
Dispatch(t, phases) == At(t, "dispatch") /\ state[t].phase \in phases

\* The checks that guard every step towards the remote.
OnlyReports(t, from, to) == from < to /\ \A i \in from + 1 .. to : branch[t][i] = "report"
Approved_Slip(t) == worktree[t] = "clean" /\ Tip(t) = state[t].approved
Approved(t) ==
  /\ worktree[t] = "clean"
  /\ Tip(t) = state[t].approved
  /\ OnlyReports(t, state[t].reviewed, Tip(t))

\* pr(): the recorded pull request still has the approved head.
Pull(t) == pulls[t][state[t].pr]
PullIsApproved(t) == Pull(t).head = state[t].approved

Save(t, phase) == state' = [state EXCEPT ![t].phase = phase]
Goto(step) == run' = [Idle EXCEPT !.task = run.task, !.step = step]

-----------------------------------------------------------------------------
(* Start, end and preparation of a run. *)

Init ==
  /\ state = [t \in Task |-> NoFile]
  /\ lock = FALSE /\ run = Idle
  /\ branch = [t \in Task |-> <<>>] /\ exists = [t \in Task |-> FALSE]
  /\ worktree = [t \in Task |-> "none"] /\ session = [t \in Task |-> FALSE]
  /\ remote = [t \in Task |-> 0] /\ pulls = [t \in Task |-> <<>>]
  /\ launched = [t \in Task |-> 0] /\ unreviewed = [t \in Task |-> FALSE]
  /\ approvals = [t \in Task |-> {}] /\ merges = [t \in Task |-> {}]
  /\ again = 0

\* The state is read under the lock.
Begin(t) ==
  /\ ~lock /\ run = Idle /\ state[t].phase # "done"
  /\ lock' = TRUE
  /\ run' = Enter(t)
  /\ UNCHANGED <<state, local, session, hub, past>>

ReviewAgain(t) ==
  /\ ~lock /\ run = Idle
  /\ state[t].phase \notin {"none", "merged", "done"}
  /\ worktree[t] = "clean"
  /\ again < MaxAgain /\ again' = again + 1
  /\ Save(t, "review")
  /\ lock' = TRUE
  /\ run' = Enter(t)
  /\ UNCHANGED <<local, session, hub, launched, unreviewed, approvals, merges>>

\* A gate, a tool or a budget raises: finally releases the lock.  A builder
\* goes on when _wait_for_session gives it up.
Stop ==
  /\ run # Idle
  /\ lock' = FALSE /\ run' = Idle
  /\ UNCHANGED <<state, local, session, hub, past>>

\* The process is killed: the lock file stays.
Kill ==
  /\ run # Idle
  /\ run' = Idle
  /\ UNCHANGED <<disk, local, session, hub, past>>

\* Nothing is adopted, and two worktrees are enough.
Reserve(t) ==
  /\ Dispatch(t, {"none"})
  /\ worktree[t] = "none" /\ ~exists[t]
  /\ Cardinality({u \in Task : worktree[u] # "none"}) < Lanes
  /\ Save(t, "preparing")
  /\ UNCHANGED <<lock, run, local, session, hub, past>>

AddWorktree(t) ==
  /\ Dispatch(t, {"preparing"})
  /\ worktree[t] = "none" /\ ~exists[t]
  /\ worktree' = [worktree EXCEPT ![t] = "clean"]
  /\ exists' = [exists EXCEPT ![t] = TRUE]
  /\ UNCHANGED <<disk, run, branch, session, hub, past>>

\* A specification given on the command line is written, then committed.
WriteSpecification(t) ==
  /\ Dispatch(t, {"preparing"})
  /\ worktree[t] = "clean" /\ Tip(t) = 0
  /\ worktree' = [worktree EXCEPT ![t] = "dirty"]
  /\ Goto("spec")
  /\ UNCHANGED <<disk, branch, exists, session, hub, past>>

Committed(t, kind) == branch' = [branch EXCEPT ![t] = Append(@, kind)]

CommitSpecification(t) ==
  /\ At(t, "spec") /\ Tip(t) < MaxCommits
  /\ Committed(t, "code")
  /\ worktree' = [worktree EXCEPT ![t] = "clean"]
  /\ Goto("dispatch")
  /\ UNCHANGED <<disk, exists, session, hub, past>>

Prepared(t) ==
  /\ Dispatch(t, {"preparing"})
  /\ worktree[t] = "clean"
  /\ Save(t, "implement")
  /\ UNCHANGED <<lock, run, local, session, hub, past>>

-----------------------------------------------------------------------------
(* The builder. *)

\* The attempt is on disk before the builder starts.  One slip leaves the
\* phase as it was, the other starts one attempt too many.
SaveAttempt_OneMore(t) ==
  /\ Dispatch(t, {"implement", "fix"})
  /\ worktree[t] = "clean" /\ state[t].rounds <= MaxRounds
  /\ state' = [state EXCEPT ![t].phase = "agent-running", ![t].rounds = @ + 1]
  /\ run' = [run EXCEPT !.step = "launch", !.head = Tip(t)]
  /\ UNCHANGED <<lock, local, session, hub, past>>
SaveAttempt_Slip(t) ==
  /\ Dispatch(t, {"implement", "fix"})
  /\ worktree[t] = "clean" /\ state[t].rounds < MaxRounds
  /\ state' = [state EXCEPT ![t].rounds = @ + 1]
  /\ run' = [run EXCEPT !.step = "launch", !.head = Tip(t)]
  /\ UNCHANGED <<lock, local, session, hub, past>>
SaveAttempt(t) ==
  /\ Dispatch(t, {"implement", "fix"})
  /\ worktree[t] = "clean" /\ state[t].rounds < MaxRounds
  /\ state' = [state EXCEPT ![t].phase = "agent-running", ![t].rounds = @ + 1]
  /\ run' = [run EXCEPT !.step = "launch", !.head = Tip(t)]
  /\ UNCHANGED <<lock, local, session, hub, past>>

Launch(t) ==
  /\ At(t, "launch")
  /\ session' = [session EXCEPT ![t] = TRUE]
  /\ launched' = [launched EXCEPT ![t] = @ + 1]
  /\ unreviewed' = [unreviewed EXCEPT ![t] = TRUE]
  /\ run' = [run EXCEPT !.step = "agent"]
  /\ UNCHANGED <<disk, local, hub, approvals, again, merges>>

\* A builder edits, commits and ends when it likes.
Edit(t) ==
  /\ session[t] /\ worktree[t] = "clean"
  /\ worktree' = [worktree EXCEPT ![t] = "dirty"]
  /\ UNCHANGED <<disk, run, branch, exists, session, hub, past>>

CommitWork(t) ==
  /\ session[t] /\ worktree[t] # "none" /\ Tip(t) < MaxCommits
  /\ Committed(t, "code")
  /\ worktree' = [worktree EXCEPT ![t] = "clean"]
  /\ UNCHANGED <<disk, run, exists, session, hub, past>>

EndSession(t) ==
  /\ session[t]
  /\ session' = [session EXCEPT ![t] = FALSE]
  /\ UNCHANGED <<disk, run, local, hub, past>>

\* implement() goes on when its builder is done and has left a commit.
BuilderDone(t) ==
  /\ At(t, "agent") /\ ~session[t]
  /\ worktree[t] = "clean" /\ Tip(t) # run.head
  /\ Save(t, "review")
  /\ Goto("dispatch")
  /\ UNCHANGED <<lock, local, session, hub, past>>

\* The owner looks at what a stopped run left, and commits it.
Repair(t) ==
  /\ run = Idle /\ ~session[t] /\ worktree[t] = "dirty"
  /\ worktree' = [worktree EXCEPT ![t] = "clean"]
  /\ IF Tip(t) < MaxCommits THEN Committed(t, "code") ELSE UNCHANGED branch
  /\ UNCHANGED <<disk, run, exists, session, hub, past>>

\* The owner removes a stale lock when the children have stopped as well.
RemoveStaleLock ==
  /\ lock /\ run = Idle /\ \A t \in Task : ~session[t]
  /\ lock' = FALSE
  /\ UNCHANGED <<state, run, local, session, hub, past>>

-----------------------------------------------------------------------------
(* The review, and what follows from its verdict. *)

\* The local checks pass for the head that is read here.
StartReview(t) ==
  /\ Dispatch(t, {"review"})
  /\ worktree[t] = "clean"
  /\ run' = [run EXCEPT !.step = "review", !.head = Tip(t)]
  /\ UNCHANGED <<disk, local, session, hub, past>>

ReviewerAnswers(t, verdict) ==
  /\ At(t, "review")
  /\ worktree[t] = "clean" /\ Tip(t) = run.head
  /\ approvals' = IF verdict = "APPROVED"
                  THEN [approvals EXCEPT ![t] = @ \cup {run.head}] ELSE approvals
  /\ run' = [run EXCEPT !.step = "report", !.verdict = verdict]
  /\ UNCHANGED <<disk, local, session, hub, launched, unreviewed, again, merges>>

CommitReport(t) ==
  /\ At(t, "report") /\ Tip(t) < MaxCommits
  /\ Committed(t, "report")
  /\ run' = [run EXCEPT !.step = "verdict"]
  /\ UNCHANGED <<disk, exists, worktree, session, hub, past>>

\* The approved head is whatever is the tip by now.
SaveVerdict(t) ==
  /\ At(t, "verdict")
  /\ state' = [state EXCEPT
       ![t].phase = IF run.verdict = "APPROVED" THEN "approved" ELSE "fix",
       ![t].reviewed = run.head,
       ![t].approved = IF run.verdict = "APPROVED" THEN Tip(t) ELSE 0]
  /\ unreviewed' = [unreviewed EXCEPT ![t] = FALSE]
  /\ Goto(IF run.verdict = "BLOCKED" THEN "block" ELSE "dispatch")
  /\ UNCHANGED <<lock, local, session, hub, launched, approvals, again, merges>>

Block(t) ==
  /\ At(t, "block")
  /\ Save(t, "blocked")
  /\ lock' = FALSE /\ run' = Idle
  /\ UNCHANGED <<local, session, hub, past>>

-----------------------------------------------------------------------------
(* Publication, checks and the merge. *)

StartPublish(t) ==
  /\ Dispatch(t, {"approved"}) /\ Approved(t)
  /\ Goto("push")
  /\ UNCHANGED <<disk, local, session, hub, past>>

\* The open pull requests follow the pushed branch.
Following(requests, tip) ==
  [i \in DOMAIN requests |->
     IF requests[i].merged THEN requests[i] ELSE [requests[i] EXCEPT !.head = tip]]

\* The branch is pushed as it is now, and its open pull request follows.
Push(t) ==
  /\ At(t, "push")
  /\ remote[t] # Foreign
  /\ remote' = [remote EXCEPT ![t] = Tip(t)]
  /\ pulls' = [pulls EXCEPT ![t] = Following(@, Tip(t))]
  /\ Goto("pull")
  /\ UNCHANGED <<disk, local, session, past>>

OpenPulls(t) == {i \in DOMAIN pulls[t] : ~pulls[t][i].merged}

CreatePull(t) ==
  /\ At(t, "pull") /\ remote[t] # 0
  /\ OpenPulls(t) = {} /\ Len(pulls[t]) < MaxPulls
  /\ pulls' = [pulls EXCEPT ![t] = Append(@, [merged |-> FALSE, head |-> remote[t]])]
  /\ UNCHANGED <<disk, run, local, session, remote, past>>

SavePull(t) ==
  /\ At(t, "pull")
  /\ \E i \in OpenPulls(t) : state' = [state EXCEPT ![t].phase = "ci", ![t].pr = i]
  /\ Goto("dispatch")
  /\ UNCHANGED <<lock, local, session, hub, past>>

StartChecks(t) ==
  /\ Dispatch(t, {"ci"}) /\ Approved(t) /\ PullIsApproved(t)
  /\ IF Pull(t).merged THEN Save(t, "merged") /\ UNCHANGED run
                       ELSE Goto("poll") /\ UNCHANGED state
  /\ UNCHANGED <<lock, local, session, hub, past>>

ChecksFail(t) ==
  /\ At(t, "poll") /\ PullIsApproved(t)
  /\ Save(t, "fix")
  /\ Goto("dispatch")
  /\ UNCHANGED <<lock, local, session, hub, past>>

ChecksPass(t) ==
  /\ At(t, "poll") /\ PullIsApproved(t) /\ Approved(t)
  /\ run' = [run EXCEPT !.step = "merge", !.head = state[t].approved]
  /\ UNCHANGED <<disk, local, session, hub, past>>

\* GitHub merges if the head is still the one given with --match-head-commit.
Merge(t) ==
  /\ At(t, "merge")
  /\ ~Pull(t).merged /\ Pull(t).head = run.head
  /\ pulls' = [pulls EXCEPT ![t][state[t].pr].merged = TRUE]
  /\ merges' = [merges EXCEPT ![t] = @ \cup {[head |-> Pull(t).head, checked |-> run.head]}]
  /\ Goto("confirm")
  /\ UNCHANGED <<disk, local, session, remote, launched, unreviewed, approvals, again>>

Confirm(t) ==
  /\ At(t, "confirm") /\ PullIsApproved(t) /\ Pull(t).merged
  /\ Save(t, "merged")
  /\ Goto("dispatch")
  /\ UNCHANGED <<lock, local, session, hub, past>>

\* Somebody else pushes to the branch, or merges the pull request.
PushElsewhere(t) ==
  /\ remote[t] \notin {0, Foreign}
  /\ remote' = [remote EXCEPT ![t] = Foreign]
  /\ pulls' = [pulls EXCEPT ![t] = Following(@, Foreign)]
  /\ UNCHANGED <<disk, run, local, session, past>>

MergeElsewhere(t) ==
  /\ \E i \in OpenPulls(t) : pulls' = [pulls EXCEPT ![t][i].merged = TRUE]
  /\ UNCHANGED <<disk, run, local, session, remote, past>>

-----------------------------------------------------------------------------
(* Cleanup, each step of which may be the last one of a run. *)

StartCleanup_Slip(t) ==
  /\ Dispatch(t, {"merged"})
  /\ PullIsApproved(t) /\ Pull(t).merged /\ Approved(t)
  /\ Goto("tree")
  /\ UNCHANGED <<disk, local, session, hub, past>>
StartCleanup(t) ==
  /\ Dispatch(t, {"merged"})
  /\ PullIsApproved(t) /\ Pull(t).merged
  /\ worktree[t] # "none" => Approved(t)
  /\ Goto("tree")
  /\ UNCHANGED <<disk, local, session, hub, past>>

\* Git removes no dirty worktree.
RemoveWorktree(t) ==
  /\ At(t, "tree") /\ worktree[t] # "dirty"
  /\ worktree' = [worktree EXCEPT ![t] = "none"]
  /\ Goto("branch")
  /\ UNCHANGED <<disk, branch, exists, session, hub, past>>

DeleteBranch_Slip(t) ==
  /\ At(t, "branch")
  /\ exists' = [exists EXCEPT ![t] = FALSE]
  /\ Goto("remote")
  /\ UNCHANGED <<disk, branch, worktree, session, hub, past>>
DeleteBranch(t) ==
  /\ At(t, "branch")
  /\ exists[t] => Tip(t) = state[t].approved
  /\ exists' = [exists EXCEPT ![t] = FALSE]
  /\ Goto("remote")
  /\ UNCHANGED <<disk, branch, worktree, session, hub, past>>

DeleteRemote(t) ==
  /\ At(t, "remote")
  /\ remote[t] \in {0, state[t].approved}
  /\ remote' = [remote EXCEPT ![t] = 0]
  /\ Goto("done")
  /\ UNCHANGED <<disk, local, session, pulls, past>>

Finish(t) ==
  /\ At(t, "done")
  /\ Save(t, "done")
  /\ lock' = FALSE /\ run' = Idle
  /\ UNCHANGED <<local, session, hub, past>>

-----------------------------------------------------------------------------

PrepareStep(t) == Reserve(t) \/ AddWorktree(t) \/ WriteSpecification(t)
                  \/ CommitSpecification(t) \/ Prepared(t)
BuildStep(t) == SaveAttempt(t) \/ Launch(t) \/ BuilderDone(t)
ReviewStep(t) == \/ StartReview(t) \/ CommitReport(t) \/ SaveVerdict(t) \/ Block(t)
                 \/ \E verdict \in Verdict : ReviewerAnswers(t, verdict)
MergeStep(t) == \/ StartPublish(t) \/ Push(t) \/ CreatePull(t) \/ SavePull(t)
                \/ StartChecks(t) \/ ChecksFail(t) \/ ChecksPass(t) \/ Merge(t) \/ Confirm(t)
CleanupStep(t) == StartCleanup(t) \/ RemoveWorktree(t) \/ DeleteBranch(t)
                  \/ DeleteRemote(t) \/ Finish(t)
RunStep(t) == PrepareStep(t) \/ BuildStep(t) \/ ReviewStep(t) \/ MergeStep(t) \/ CleanupStep(t)

Owner(t) == Begin(t) \/ ReviewAgain(t) \/ Repair(t)
Elsewhere(t) == PushElsewhere(t) \/ MergeElsewhere(t) \/ Edit(t) \/ CommitWork(t) \/ EndSession(t)

Next == \/ \E t \in Task : RunStep(t) \/ Owner(t) \/ Elsewhere(t)
        \/ Stop \/ Kill \/ RemoveStaleLock

Spec == Init /\ [][Next]_vars

\* A run takes its next step, and the owner repeats the command until the
\* task is done.
Fairness == /\ \A t \in Task : WF_vars(RunStep(t)) /\ WF_vars(EndSession(t))
            /\ \A t \in Task : WF_vars(Begin(t))
            /\ WF_vars(RemoveStaleLock)
FairSpec == Spec /\ Fairness

\* From some point on no tool fails and no run is killed.
Calm == <>[][~Stop /\ ~Kill]_vars

-----------------------------------------------------------------------------

\* What the workflow merges was approved by the reviewer, with nothing but
\* the report on top, and its checks had passed ("Any implementation change
\* invalidates approval", docs/AUTOMATED_TASK_WORKFLOW.md).
OnlyApprovedMerged ==
  \A t \in Task : \A m \in merges[t] :
    /\ m.head = m.checked
    /\ \E r \in approvals[t] : OnlyReports(t, r, m.head)

\* A builder that was interrupted is not started again before a review has
\* looked at what it left ("An interrupted builder is not relaunched
\* blindly").
NoBlindRelaunch ==
  [][\A t \in Task : launched'[t] # launched[t] => ~unreviewed[t]]_vars

\* However often the command is repeated, no more builders are started than
\* --max-rounds allows.
BudgetHolds == \A t \in Task : launched[t] <= MaxRounds

\* A branch is deleted only when everything on it was merged: no commit that
\* somebody makes in the meantime is lost ("Never discard partial work").
NothingDeletedUnmerged ==
  [][\A t \in Task :
       /\ exists[t] /\ ~exists'[t] =>
            \E i \in DOMAIN pulls[t] : pulls[t][i].merged /\ pulls[t][i].head = Tip(t)
       /\ remote[t] # 0 /\ remote'[t] = 0 =>
            \E i \in DOMAIN pulls[t] : pulls[t][i].merged /\ pulls[t][i].head = remote[t]]_vars

\* What cleanup relies on still holds.
Intact(t) ==
  /\ ~session[t] /\ remote[t] \in {0, state[t].approved}
  /\ exists[t] => Tip(t) = state[t].approved
  /\ worktree[t] # "none" => Approved(t)
  /\ PullIsApproved(t) /\ Pull(t).merged

\* A cleanup that was cut off at any step is finished by repeating the
\* command, unless somebody has pushed to the branch.
CleanupResumes ==
  Calm => \A t \in Task : (state[t].phase = "merged" /\ Intact(t))
                          ~> (state[t].phase = "done" \/ remote[t] = Foreign)

=============================================================================
