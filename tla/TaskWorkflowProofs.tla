------------------------- MODULE TaskWorkflowProofs -------------------------
(***************************************************************************)
(* Proofs about TaskWorkflow, for every set of tasks, budget and bounds.   *)
(* The invariant is what a run may rely on at each of its steps although   *)
(* the branch, the remote and the pull requests change behind its back:    *)
(* the phase that goes with the step (PhaseOfStep), what state.json knows  *)
(* of the reviews (ReviewsKnown), and what the gates before the merge and  *)
(* before the cleanup have established for good (MergeIsSound,             *)
(* CleanupIsSound).                                                        *)
(***************************************************************************)
EXTENDS TaskWorkflow, SequenceTheorems, TLAPS

\* The bounds on the branches and on the pull requests.
Bounded ==
  \A t \in Task : Len(branch[t]) <= MaxCommits /\ Len(pulls[t]) <= MaxPulls

\* state.json has the phase that goes with the step of the run.
PhaseOfStep ==
  \A t \in Task : run.task = t =>
    /\ run.step \in {"launch", "agent"}                  => state[t].phase = "agent-running"
    /\ run.step \in {"review", "report", "verdict"}      => state[t].phase = "review"
    /\ run.step = "block"                                => state[t].phase = "fix"
    /\ run.step \in {"push", "pull"}                     => state[t].phase = "approved"
    /\ run.step \in {"poll", "merge", "confirm"}         => state[t].phase = "ci"
    /\ run.step \in {"tree", "branch", "remote", "done"} => state[t].phase = "merged"

\* A recorded pull request exists, and from the checks on there is one.
PullsKnown ==
  \A t \in Task :
    /\ state[t].pr <= Len(pulls[t])
    /\ state[t].phase \in {"ci", "merged"} => state[t].pr # 0

\* Every attempt was on disk before its builder started.
AttemptsSaved ==
  \A t \in Task : /\ launched[t] <= state[t].rounds
                  /\ At(t, "launch") => launched[t] < state[t].rounds

\* Work that no review has seen is either with a builder or up for review.
WorkAwaitsReview ==
  \A t \in Task :
    /\ unreviewed[t] => state[t].phase \in {"agent-running", "review"}
    /\ At(t, "launch") => ~unreviewed[t]

\* What is recorded as approved was approved by the reviewer.
ReviewsKnown ==
  \A t \in Task :
    /\ state[t].approved # 0 => state[t].reviewed \in approvals[t]
    /\ run.task = t /\ run.step \in {"report", "verdict"} /\ run.verdict = "APPROVED"
         => run.head \in approvals[t]

\* Whatever was merged was approved but for the reports on top, and so is
\* what the run is about to merge.
IsApproved(t, head) ==
  head \in Commit /\ head <= Len(branch[t]) /\ \E r \in approvals[t] : OnlyReports(t, r, head)
MergeIsSound ==
  \A t \in Task :
    /\ \A m \in merges[t] : m.head = m.checked /\ IsApproved(t, m.head)
    /\ At(t, "merge") => IsApproved(t, run.head)

\* From the start of the cleanup on, the approved head is merged.
CleanupIsSound ==
  \A t \in Task :
    run.task = t /\ run.step \in {"tree", "branch", "remote"}
      => PullIsApproved(t) /\ Pull(t).merged

\* What is on the remote was pushed from the branch.
RemoteHasWork == \A t \in Task : remote[t] # 0 => Len(branch[t]) # 0

IInv == /\ TypeOK /\ Bounded /\ PhaseOfStep /\ PullsKnown /\ AttemptsSaved
        /\ WorkAwaitsReview /\ ReviewsKnown /\ MergeIsSound /\ CleanupIsSound
        /\ RemoteHasWork

-----------------------------------------------------------------------------

\* The initial states: no task has a file, a branch or a pull request.
THEOREM InitIInv == Init => IInv
<1> SUFFICES ASSUME Init PROVE IInv
  OBVIOUS
<1> USE DEF Init
<1>1. TypeOK
  <2>1. /\ state \in [Task -> [phase : Phase, rounds : 0 .. MaxRounds,
                                reviewed : Commit, approved : Commit, pr : 0 .. MaxPulls]]
        /\ run \in [task : Task \cup {NoTask}, step : Step, head : Commit, verdict : Verdict]
    BY BoundsAssumption DEF NoFile, Idle, Phase, Step, Verdict, Commit
  <2>2. /\ branch \in [Task -> Seq({"code", "report"})]
        /\ pulls \in [Task -> Seq([merged : BOOLEAN, head : Commit \cup {Foreign}])]
    OBVIOUS
  <2>3. /\ lock \in BOOLEAN /\ exists \in [Task -> BOOLEAN] /\ session \in [Task -> BOOLEAN]
        /\ worktree \in [Task -> {"none", "clean", "dirty"}]
        /\ unreviewed \in [Task -> BOOLEAN]
    OBVIOUS
  <2>4. /\ remote \in [Task -> Commit \cup {Foreign}] /\ launched \in [Task -> Nat]
        /\ approvals \in [Task -> SUBSET Commit] /\ again \in 0 .. MaxAgain
        /\ merges \in [Task -> SUBSET [head : Commit \cup {Foreign}, checked : Commit]]
    BY BoundsAssumption DEF Commit
  <2> QED
    BY <2>1, <2>2, <2>3, <2>4 DEF TypeOK
<1>2. Bounded /\ PullsKnown
  BY BoundsAssumption DEF Bounded, PullsKnown, NoFile
<1>3. PhaseOfStep /\ AttemptsSaved /\ WorkAwaitsReview /\ ReviewsKnown
  BY TaskAssumption
     DEF PhaseOfStep, AttemptsSaved, WorkAwaitsReview, ReviewsKnown, NoFile, Idle, At
<1>4. MergeIsSound /\ CleanupIsSound /\ RemoteHasWork
  BY TaskAssumption DEF MergeIsSound, CleanupIsSound, RemoteHasWork, Idle, At
<1> QED
  BY <1>1, <1>2, <1>3, <1>4 DEF IInv

-----------------------------------------------------------------------------
(* The pull requests of a task are a sequence that only grows, and a merged *)
(* one never changes.                                                       *)

PullRequest == [merged : BOOLEAN, head : Commit \cup {Foreign}]

\* What a push does to the pull requests.
LEMMA FollowingKeeps ==
  ASSUME NEW s \in Seq(PullRequest), NEW tip \in Commit \cup {Foreign}
  PROVE  /\ Following(s, tip) \in Seq(PullRequest)
         /\ Len(Following(s, tip)) = Len(s)
         /\ \A i \in 1 .. Len(s) : s[i].merged => Following(s, tip)[i] = s[i]
<1> DEFINE f == Following(s, tip)
<1>1. Len(s) \in Nat /\ s \in [1 .. Len(s) -> PullRequest] /\ DOMAIN s = 1 .. Len(s)
  BY LenProperties
<1>2. f \in [1 .. Len(s) -> PullRequest]
  BY <1>1 DEF Following, PullRequest
<1>3. f \in Seq(PullRequest)
  BY <1>1, <1>2, SeqDef
<1>4. Len(f) = Len(s)
  BY <1>1, <1>2, <1>3, LenProperties
<1> QED
  BY <1>1, <1>3, <1>4 DEF Following

\* What a merge does to them.
LEMMA MergingKeeps ==
  ASSUME NEW s \in Seq(PullRequest), NEW i \in 1 .. Len(s)
  PROVE  LET m == [s EXCEPT ![i].merged = TRUE]
         IN  /\ m \in Seq(PullRequest) /\ Len(m) = Len(s)
             /\ \A j \in 1 .. Len(s) : s[j].merged => m[j] = s[j]
             /\ \A j \in 1 .. Len(s) : m[j].head = s[j].head
             /\ m[i].merged
<1> DEFINE m == [s EXCEPT ![i].merged = TRUE]
<1>1. Len(s) \in Nat /\ s \in [1 .. Len(s) -> PullRequest] /\ DOMAIN s = 1 .. Len(s)
  BY LenProperties
<1>2. m \in [1 .. Len(s) -> PullRequest]
  BY <1>1 DEF PullRequest
<1>3. m \in Seq(PullRequest)
  BY <1>1, <1>2, SeqDef
<1>4. Len(m) = Len(s)
  BY <1>1, <1>2, <1>3, LenProperties
<1>5. \A j \in 1 .. Len(s) : s[j].merged => m[j] = s[j]
  BY <1>1 DEF PullRequest
<1>6. \A j \in 1 .. Len(s) : m[j].head = s[j].head
  BY <1>1 DEF PullRequest
<1>7. m[i].merged
  BY <1>1 DEF PullRequest
<1> QED
  BY <1>3, <1>4, <1>5, <1>6, <1>7

-----------------------------------------------------------------------------
(* One lemma for each part of the invariant.                                *)

\* The phase changes only with the step of the run, and a new run starts over.
LEMMA PhaseOfStepHolds == IInv /\ [Next]_vars => PhaseOfStep'
<1> SUFFICES ASSUME IInv, [Next]_vars PROVE PhaseOfStep'
  OBVIOUS
<1>0. /\ PhaseOfStep /\ NoTask \notin Task
      /\ state \in [Task -> [phase : Phase, rounds : 0 .. MaxRounds,
                             reviewed : Commit, approved : Commit, pr : 0 .. MaxPulls]]
      /\ run \in [task : Task \cup {NoTask}, step : Step, head : Commit, verdict : Verdict]
  BY TaskAssumption DEF IInv, TypeOK
<1> HIDE DEF IInv
<1> USE <1>0 DEF PhaseOfStep, At, Dispatch, Save, Goto, Idle, Enter, disk, local, hub, past
<1>1. ASSUME NEW t \in Task, PrepareStep(t) PROVE PhaseOfStep'
  BY <1>1 DEF PrepareStep, Reserve, AddWorktree, WriteSpecification, CommitSpecification, Prepared
<1>2. ASSUME NEW t \in Task, BuildStep(t) PROVE PhaseOfStep'
  <2>1. CASE SaveAttempt(t) BY <2>1 DEF SaveAttempt
  <2>2. CASE Launch(t) BY <2>2 DEF Launch
  <2>3. CASE BuilderDone(t) BY <2>3 DEF BuilderDone
  <2> QED
    BY <1>2, <2>1, <2>2, <2>3 DEF BuildStep
<1>3. ASSUME NEW t \in Task, ReviewStep(t) PROVE PhaseOfStep'
  <2>1. CASE StartReview(t) \/ CommitReport(t) BY <2>1 DEF StartReview, CommitReport
  <2>2. CASE \E verdict \in Verdict : ReviewerAnswers(t, verdict) BY <2>2 DEF ReviewerAnswers
  <2>3. CASE SaveVerdict(t) BY <2>3 DEF SaveVerdict
  <2>4. CASE Block(t) BY <2>4 DEF Block
  <2> QED
    BY <1>3, <2>1, <2>2, <2>3, <2>4 DEF ReviewStep
<1>4. ASSUME NEW t \in Task, MergeStep(t) PROVE PhaseOfStep'
  BY <1>4 DEF MergeStep, StartPublish, Push, CreatePull, SavePull, StartChecks, ChecksFail,
              ChecksPass, Merge, Confirm
<1>5. ASSUME NEW t \in Task, CleanupStep(t) PROVE PhaseOfStep'
  <2>1. CASE StartCleanup(t) BY <2>1 DEF StartCleanup
  <2>2. CASE RemoveWorktree(t) BY <2>2 DEF RemoveWorktree
  <2>3. CASE DeleteBranch(t) BY <2>3 DEF DeleteBranch
  <2>4. CASE DeleteRemote(t) BY <2>4 DEF DeleteRemote
  <2>5. CASE Finish(t) BY <2>5 DEF Finish
  <2> QED
    BY <1>5, <2>1, <2>2, <2>3, <2>4, <2>5 DEF CleanupStep
<1>6. ASSUME NEW t \in Task, Owner(t) PROVE PhaseOfStep'
  BY <1>6 DEF Owner, Begin, ReviewAgain, Repair
<1>7. ASSUME NEW t \in Task, Elsewhere(t) PROVE PhaseOfStep'
  BY <1>7 DEF Elsewhere, PushElsewhere, MergeElsewhere, Edit, CommitWork, EndSession
<1>8. CASE Stop \/ Kill \/ RemoveStaleLock \/ UNCHANGED vars
  BY <1>8 DEF Stop, Kill, RemoveStaleLock, vars
<1> QED
  BY <1>1, <1>2, <1>3, <1>4, <1>5, <1>6, <1>7, <1>8 DEF Next, RunStep

\* A branch only grows: what is committed stays, at its place.
BranchesGrow ==
  /\ branch' \in [Task -> Seq({"code", "report"})]
  /\ \A u \in Task : /\ Len(branch[u]) <= Len(branch'[u]) /\ Len(branch'[u]) <= MaxCommits
                     /\ \A i \in 1 .. Len(branch[u]) : branch'[u][i] = branch[u][i]

\* Every commit is appended to the branch.
LEMMA BranchStep == IInv /\ [Next]_vars => BranchesGrow
<1> SUFFICES ASSUME IInv, [Next]_vars PROVE BranchesGrow
  OBVIOUS
<1> DEFINE Commits(t) == \E kind \in {"code", "report"} : Committed(t, kind) /\ Tip(t) < MaxCommits
<1>0. /\ branch \in [Task -> Seq({"code", "report"})]
      /\ \A u \in Task : Len(branch[u]) \in Nat /\ Len(branch[u]) <= MaxCommits
  BY LenProperties DEF IInv, TypeOK, Bounded
<1>1. CASE UNCHANGED branch BY <1>0, <1>1 DEF BranchesGrow
<1>2. ASSUME NEW t \in Task, Commits(t) PROVE BranchesGrow
  <2>1. PICK kind \in {"code", "report"} : Committed(t, kind) /\ Tip(t) < MaxCommits
    BY <1>2
  <2>2. branch[t] \in Seq({"code", "report"})
    BY <1>0
  <2>3. /\ Append(branch[t], kind) \in Seq({"code", "report"})
        /\ Len(Append(branch[t], kind)) = Len(branch[t]) + 1
        /\ \A i \in 1 .. Len(branch[t]) : Append(branch[t], kind)[i] = branch[t][i]
    BY <2>2
  <2>4. branch' = [branch EXCEPT ![t] = Append(branch[t], kind)]
    BY <2>1 DEF Committed
  <2> QED
    BY <1>0, <2>1, <2>3, <2>4, BoundsAssumption DEF BranchesGrow, Tip
<1> HIDE DEF Commits
<1>3. ASSUME NEW t \in Task, RunStep(t) PROVE UNCHANGED branch \/ Commits(t)
  <2>1. CASE PrepareStep(t)
    BY <2>1 DEF Commits, PrepareStep, Reserve, AddWorktree, WriteSpecification, CommitSpecification,
                Prepared, local
  <2>2. CASE ReviewStep(t)
    BY <2>2 DEF Commits, ReviewStep, StartReview, ReviewerAnswers, CommitReport, SaveVerdict, Block,
                local
  <2>3. CASE BuildStep(t) \/ MergeStep(t)
    BY <2>3 DEF BuildStep, SaveAttempt, Launch, BuilderDone, MergeStep, StartPublish, Push,
                CreatePull, SavePull, StartChecks, ChecksFail, ChecksPass, Merge, Confirm, local
  <2>4. CASE CleanupStep(t)
    BY <2>4 DEF CleanupStep, StartCleanup, RemoveWorktree, DeleteBranch, DeleteRemote, Finish, local
  <2> QED
    BY <1>3, <2>1, <2>2, <2>3, <2>4 DEF RunStep
<1>4. ASSUME NEW t \in Task, Owner(t) \/ Elsewhere(t) PROVE UNCHANGED branch \/ Commits(t)
  BY <1>4 DEF Commits, Owner, Begin, ReviewAgain, Repair, Elsewhere, PushElsewhere, MergeElsewhere,
              Edit, CommitWork, EndSession, local
<1>5. CASE Stop \/ Kill \/ RemoveStaleLock \/ UNCHANGED vars
  BY <1>1, <1>5 DEF Stop, Kill, RemoveStaleLock, vars, local
<1> QED
  BY <1>1, <1>2, <1>3, <1>4, <1>5 DEF Next

\* Pull requests are only added, and a merged one stays as it is.
PullsGrow ==
  /\ pulls' \in [Task -> Seq(PullRequest)]
  /\ \A u \in Task : /\ Len(pulls[u]) <= Len(pulls'[u]) /\ Len(pulls'[u]) <= MaxPulls
                     /\ \A i \in 1 .. Len(pulls[u]) : pulls[u][i].merged => pulls'[u][i] = pulls[u][i]

\* No step takes a pull request back, or changes a merged one.
LEMMA PullStep == IInv /\ [Next]_vars => PullsGrow
<1> SUFFICES ASSUME IInv, [Next]_vars PROVE PullsGrow
  OBVIOUS
<1> DEFINE Grown(s, new) == /\ new \in Seq(PullRequest)
                            /\ Len(s) <= Len(new) /\ Len(new) <= MaxPulls
                            /\ \A i \in 1 .. Len(s) : s[i].merged => new[i] = s[i]
           Changed(t) == \E new : pulls' = [pulls EXCEPT ![t] = new] /\ Grown(pulls[t], new)
<1>0. /\ pulls \in [Task -> Seq(PullRequest)]
      /\ \A u \in Task : Len(pulls[u]) \in Nat /\ Len(pulls[u]) <= MaxPulls
      /\ \A u \in Task : remote[u] \in Commit \cup {Foreign} /\ Tip(u) \in Commit
      /\ \A u \in Task : state[u].pr \in Nat /\ state[u].pr <= Len(pulls[u])
      /\ \A u \in Task : state[u].phase = "ci" => state[u].pr # 0
      /\ \A u \in Task : At(u, "merge") => state[u].phase = "ci"
  <2>1. \A u \in Task : Len(pulls[u]) \in Nat /\ Len(branch[u]) \in Nat
    BY LenProperties DEF IInv, TypeOK
  <2>2. \A u \in Task : Tip(u) \in Commit
    BY <2>1, BoundsAssumption DEF IInv, Bounded, Tip, Commit
  <2>3. /\ \A u \in Task : state[u].pr \in Nat /\ state[u].pr <= Len(pulls[u])
        /\ \A u \in Task : state[u].phase = "ci" => state[u].pr # 0
    BY BoundsAssumption DEF IInv, TypeOK, PullsKnown
  <2>4. \A u \in Task : At(u, "merge") => state[u].phase = "ci"
    BY DEF IInv, PhaseOfStep, At
  <2>5. /\ pulls \in [Task -> Seq(PullRequest)]
        /\ \A u \in Task : remote[u] \in Commit \cup {Foreign} /\ Len(pulls[u]) <= MaxPulls
    BY DEF IInv, TypeOK, PullRequest, Bounded
  <2> QED
    BY <2>1, <2>2, <2>3, <2>4, <2>5
<1>1. CASE UNCHANGED pulls BY <1>0, <1>1 DEF PullsGrow
<1>2. ASSUME NEW t \in Task, Changed(t) PROVE PullsGrow
  BY <1>0, <1>2 DEF PullsGrow
<1>3. ASSUME NEW t \in Task, Push(t) \/ PushElsewhere(t) PROVE Changed(t)
  <2>1. PICK tip \in Commit \cup {Foreign} : pulls' = [pulls EXCEPT ![t] = Following(pulls[t], tip)]
    BY <1>0, <1>3 DEF Push, PushElsewhere
  <2>2. Grown(pulls[t], Following(pulls[t], tip))
    BY <1>0, FollowingKeeps
  <2> QED
    BY <2>1, <2>2
<1>4. ASSUME NEW t \in Task, CreatePull(t) PROVE Changed(t)
  <2>1. DEFINE new == Append(pulls[t], [merged |-> FALSE, head |-> remote[t]])
  <2>2. pulls[t] \in Seq(PullRequest) /\ [merged |-> FALSE, head |-> remote[t]] \in PullRequest
    BY <1>0 DEF PullRequest
  <2>3. /\ new \in Seq(PullRequest) /\ Len(new) = Len(pulls[t]) + 1
        /\ \A i \in 1 .. Len(pulls[t]) : new[i] = pulls[t][i]
    BY <2>2
  <2>4. pulls' = [pulls EXCEPT ![t] = new] /\ Len(pulls[t]) < MaxPulls
    BY <1>4 DEF CreatePull
  <2>5. Grown(pulls[t], new)
    BY <1>0, <2>3, <2>4, BoundsAssumption
  <2> QED
    BY <2>4, <2>5
<1>5. ASSUME NEW t \in Task, Merge(t) \/ MergeElsewhere(t) PROVE Changed(t)
  <2>1. PICK i \in 1 .. Len(pulls[t]) :
          pulls' = [pulls EXCEPT ![t] = [pulls[t] EXCEPT ![i].merged = TRUE]]
    <3>1. CASE Merge(t)
      <4>1. state[t].pr \in 1 .. Len(pulls[t])
        BY <1>0, <3>1 DEF Merge
      <4> QED
        BY <3>1, <4>1 DEF Merge
    <3>2. CASE MergeElsewhere(t)
      <4>1. DOMAIN pulls[t] = 1 .. Len(pulls[t])
        BY <1>0, LenProperties
      <4> QED
        BY <3>2, <4>1 DEF MergeElsewhere, OpenPulls
    <3> QED
      BY <1>5, <3>1, <3>2
  <2>2. Grown(pulls[t], [pulls[t] EXCEPT ![i].merged = TRUE])
    BY <1>0, MergingKeeps
  <2> QED
    BY <2>1, <2>2
<1> HIDE DEF Changed
<1>6. ASSUME NEW t \in Task, RunStep(t) PROVE UNCHANGED pulls \/ Changed(t)
  <2>1. CASE PrepareStep(t) \/ BuildStep(t)
    BY <2>1 DEF PrepareStep, Reserve, AddWorktree, WriteSpecification, CommitSpecification,
                Prepared, BuildStep, SaveAttempt, Launch, BuilderDone, hub
  <2>2. CASE ReviewStep(t)
    BY <2>2 DEF ReviewStep, StartReview, ReviewerAnswers, CommitReport, SaveVerdict, Block, hub
  <2>3. CASE MergeStep(t) BY <1>3, <1>4, <1>5, <2>3
       DEF MergeStep, StartPublish, SavePull, StartChecks, ChecksFail, ChecksPass, Confirm, hub
  <2>4. CASE CleanupStep(t)
    BY <2>4 DEF CleanupStep, StartCleanup, RemoveWorktree, DeleteBranch, DeleteRemote, Finish, hub
  <2> QED
    BY <1>6, <2>1, <2>2, <2>3, <2>4 DEF RunStep
<1>7. ASSUME NEW t \in Task, Owner(t) \/ Elsewhere(t) PROVE UNCHANGED pulls \/ Changed(t)
  BY <1>3, <1>5, <1>7 DEF Owner, Begin, ReviewAgain, Repair, Elsewhere, Edit, CommitWork,
              EndSession, hub
<1>8. CASE Stop \/ Kill \/ RemoveStaleLock \/ UNCHANGED vars
  BY <1>1, <1>8 DEF Stop, Kill, RemoveStaleLock, vars, hub
<1> QED
  BY <1>1, <1>2, <1>6, <1>7, <1>8 DEF Next

\* The types of what a run keeps, and of everything else but the sequences.
File == [phase : Phase, rounds : 0 .. MaxRounds, reviewed : Commit, approved : Commit,
         pr : 0 .. MaxPulls]
RunRecord == [task : Task \cup {NoTask}, step : Step, head : Commit, verdict : Verdict]
RunTyped == state \in [Task -> File] /\ run \in RunRecord
HistoryTyped == /\ lock \in BOOLEAN /\ exists \in [Task -> BOOLEAN] /\ session \in [Task -> BOOLEAN]
                /\ worktree \in [Task -> {"none", "clean", "dirty"}]
                /\ remote \in [Task -> Commit \cup {Foreign}] /\ launched \in [Task -> Nat]
                /\ unreviewed \in [Task -> BOOLEAN] /\ approvals \in [Task -> SUBSET Commit]
                /\ again \in 0 .. MaxAgain
                /\ merges \in [Task -> SUBSET [head : Commit \cup {Foreign}, checked : Commit]]

\* What a run reads and writes keeps its type.
LEMMA RunTypeHolds == IInv /\ [Next]_vars => RunTyped'
<1> SUFFICES ASSUME IInv, [Next]_vars PROVE RunTyped'
  OBVIOUS
<1>a0. /\ state \in [Task -> File]
       /\ run \in RunRecord
       /\ \A u \in Task : Tip(u) \in Commit /\ DOMAIN pulls[u] = 1 .. Len(pulls[u])
       /\ \A u \in Task : Len(pulls[u]) \in 0 .. MaxPulls
       /\ MaxRounds \in Nat /\ MaxPulls \in Nat /\ 0 \in Commit
  BY BoundsAssumption, LenProperties DEF IInv, TypeOK, Bounded, Tip, Commit, File, RunRecord
<1> USE <1>a0 DEF RunTyped, RunRecord, At, Dispatch, Save, Goto, Idle, Enter, disk, local, hub, past
<1>1. ASSUME NEW t \in Task, PrepareStep(t) PROVE RunTyped'
  <2>1. CASE AddWorktree(t) BY <2>1 DEF AddWorktree
  <2>2. CASE Reserve(t) BY <2>2 DEF Reserve, File, Phase
  <2>3. CASE WriteSpecification(t) BY <2>3 DEF WriteSpecification, Step, Verdict
  <2>4. CASE CommitSpecification(t) BY <2>4 DEF CommitSpecification, Step, Verdict
  <2>5. CASE Prepared(t) BY <2>5 DEF Prepared, File, Phase
  <2> QED
    BY <1>1, <2>1, <2>2, <2>3, <2>4, <2>5 DEF PrepareStep
<1>2. ASSUME NEW t \in Task, BuildStep(t) PROVE RunTyped'
  <2>1. CASE SaveAttempt(t)
    <3>1. state' \in [Task -> File]
      BY <2>1 DEF SaveAttempt, File, Phase
    <3>2. run' \in RunRecord
      BY <2>1 DEF SaveAttempt, Step, Verdict
    <3> QED BY <3>1, <3>2
  <2>2. CASE Launch(t) BY <2>2 DEF Launch, Step, Verdict
  <2>3. CASE BuilderDone(t)
    <3>1. state' \in [Task -> File]
      BY <2>3 DEF BuilderDone, File, Phase
    <3>2. run' \in RunRecord
      BY <2>3 DEF BuilderDone, Step, Verdict
    <3> QED BY <3>1, <3>2
  <2> QED
    BY <1>2, <2>1, <2>2, <2>3 DEF BuildStep
<1>3. ASSUME NEW t \in Task, ReviewStep(t) PROVE RunTyped'
  <2>1. CASE StartReview(t) BY <2>1 DEF StartReview, Step, Verdict
  <2>2. CASE \E verdict \in Verdict : ReviewerAnswers(t, verdict)
    BY <2>2 DEF ReviewerAnswers, Step, Verdict
  <2>3. CASE CommitReport(t) BY <2>3 DEF CommitReport, Step, Verdict
  <2>4. CASE SaveVerdict(t)
    <3>1. state' \in [Task -> File]
      <4> DEFINE new == [state[t] EXCEPT
            !.phase = IF run.verdict = "APPROVED" THEN "approved" ELSE "fix",
            !.reviewed = run.head,
            !.approved = IF run.verdict = "APPROVED" THEN Tip(t) ELSE 0]
      <4>1. new \in File BY DEF File, Phase
      <4> QED BY <2>4, <4>1 DEF SaveVerdict
    <3>2. run' \in RunRecord
      BY <2>4 DEF SaveVerdict, Step, Verdict
    <3> QED BY <3>1, <3>2
  <2>5. CASE Block(t)
    <3>1. state' \in [Task -> File]
      BY <2>5 DEF Block, File, Phase
    <3>2. run' \in RunRecord
      BY <2>5 DEF Block, Step, Verdict
    <3> QED BY <3>1, <3>2
  <2> QED
    BY <1>3, <2>1, <2>2, <2>3, <2>4, <2>5 DEF ReviewStep
<1>4. ASSUME NEW t \in Task, MergeStep(t) PROVE RunTyped'
  <2>1. CASE CreatePull(t) BY <2>1 DEF CreatePull
  <2>2. CASE StartPublish(t) BY <2>2 DEF StartPublish, Step, Verdict
  <2>3. CASE Push(t) BY <2>3 DEF Push, Step, Verdict
  <2>4. CASE SavePull(t)
    <3>1. state' \in [Task -> File]
      <4>1. PICK i \in OpenPulls(t) : state' = [state EXCEPT ![t].phase = "ci", ![t].pr = i]
        BY <2>4 DEF SavePull
      <4>2. i \in 0 .. MaxPulls BY DEF OpenPulls
      <4>3. [state[t] EXCEPT !.phase = "ci", !.pr = i] \in File BY <4>2 DEF File, Phase
      <4> QED BY <4>1, <4>3
    <3>2. run' \in RunRecord
      BY <2>4 DEF SavePull, Step, Verdict
    <3> QED BY <3>1, <3>2
  <2>5. CASE StartChecks(t)
    <3>1. state' \in [Task -> File]
      <4>1. CASE UNCHANGED state BY <4>1
      <4>2. CASE Save(t, "merged") BY <4>2 DEF File, Phase
      <4> QED BY <2>5, <4>1, <4>2 DEF StartChecks
    <3>2. run' \in RunRecord
      BY <2>5 DEF StartChecks, Step, Verdict
    <3> QED BY <3>1, <3>2
  <2>6. CASE ChecksFail(t)
    <3>1. state' \in [Task -> File]
      BY <2>6 DEF ChecksFail, File, Phase
    <3>2. run' \in RunRecord
      BY <2>6 DEF ChecksFail, Step, Verdict
    <3> QED BY <3>1, <3>2
  <2>7. CASE ChecksPass(t) BY <2>7 DEF ChecksPass, Step, Verdict, File
  <2>8. CASE Merge(t) BY <2>8 DEF Merge, Step, Verdict
  <2>9. CASE Confirm(t)
    <3>1. state' \in [Task -> File]
      BY <2>9 DEF Confirm, File, Phase
    <3>2. run' \in RunRecord
      BY <2>9 DEF Confirm, Step, Verdict
    <3> QED BY <3>1, <3>2
  <2> QED
    BY <1>4, <2>1, <2>2, <2>3, <2>4, <2>5, <2>6, <2>7, <2>8, <2>9 DEF MergeStep
<1>5. ASSUME NEW t \in Task, CleanupStep(t) PROVE RunTyped'
  <2>1. CASE StartCleanup(t) BY <2>1 DEF StartCleanup, Step, Verdict
  <2>2. CASE RemoveWorktree(t) BY <2>2 DEF RemoveWorktree, Step, Verdict
  <2>3. CASE DeleteBranch(t) BY <2>3 DEF DeleteBranch, Step, Verdict
  <2>4. CASE DeleteRemote(t) BY <2>4 DEF DeleteRemote, Step, Verdict
  <2>5. CASE Finish(t)
    <3>1. state' \in [Task -> File]
      BY <2>5 DEF Finish, File, Phase
    <3>2. run' \in RunRecord
      BY <2>5 DEF Finish, Step, Verdict
    <3> QED BY <3>1, <3>2
  <2> QED
    BY <1>5, <2>1, <2>2, <2>3, <2>4, <2>5 DEF CleanupStep
<1>6. ASSUME NEW t \in Task, Owner(t) PROVE RunTyped'
  <2>1. CASE Repair(t) BY <2>1 DEF Repair
  <2>2. CASE Begin(t) BY <2>2 DEF Begin, Step, Verdict
  <2>3. CASE ReviewAgain(t)
    <3>1. state' \in [Task -> File]
      BY <2>3 DEF ReviewAgain, File, Phase
    <3>2. run' \in RunRecord
      BY <2>3 DEF ReviewAgain, Step, Verdict
    <3> QED BY <3>1, <3>2
  <2> QED
    BY <1>6, <2>1, <2>2, <2>3 DEF Owner
<1>7. ASSUME NEW t \in Task, Elsewhere(t) PROVE RunTyped'
  <2>1. CASE PushElsewhere(t) BY <2>1 DEF PushElsewhere
  <2>2. CASE MergeElsewhere(t) BY <2>2 DEF MergeElsewhere
  <2>3. CASE Edit(t) BY <2>3 DEF Edit
  <2>4. CASE CommitWork(t) BY <2>4 DEF CommitWork
  <2>5. CASE EndSession(t) BY <2>5 DEF EndSession
  <2> QED
    BY <1>7, <2>1, <2>2, <2>3, <2>4, <2>5 DEF Elsewhere
<1>8. CASE Stop BY <1>8 DEF Stop, Step, Verdict
<1>9. CASE Kill BY <1>9 DEF Kill, Step, Verdict
<1>10. CASE RemoveStaleLock BY <1>10 DEF RemoveStaleLock
<1>11. CASE UNCHANGED vars BY <1>11 DEF vars
<1> QED
  BY <1>1, <1>2, <1>3, <1>4, <1>5, <1>6, <1>7, <1>8, <1>9, <1>10, <1>11 DEF Next, RunStep

\* So does everything else.
LEMMA HistoryTypeHolds == IInv /\ [Next]_vars => HistoryTyped'
<1> SUFFICES ASSUME IInv, [Next]_vars PROVE HistoryTyped'
  OBVIOUS
<1>a0. /\ \A u \in Task : Tip(u) \in Commit
       /\ MaxCommits \in Nat /\ MaxAgain \in Nat /\ 0 \in Commit
  BY BoundsAssumption, LenProperties DEF IInv, TypeOK, Bounded, Tip, Commit
<1>a1. /\ HistoryTyped
       /\ state \in [Task -> File]
       /\ run \in RunRecord
       /\ pulls \in [Task -> Seq(PullRequest)] /\ PullsKnown /\ PhaseOfStep
  BY DEF IInv, TypeOK, RunRecord, File, HistoryTyped, PullRequest
<1> USE <1>a0, <1>a1 DEF RunRecord, HistoryTyped, At, Dispatch, Save, Goto, Idle, Enter, disk, local, hub,
   past
<1>1. ASSUME NEW t \in Task, PrepareStep(t) PROVE HistoryTyped'
  <2>1. CASE Reserve(t) BY <2>1 DEF Reserve
  <2>2. CASE AddWorktree(t) BY <2>2 DEF AddWorktree
  <2>3. CASE WriteSpecification(t) BY <2>3 DEF WriteSpecification
  <2>4. CASE CommitSpecification(t) BY <2>4 DEF CommitSpecification
  <2>5. CASE Prepared(t) BY <2>5 DEF Prepared
  <2> QED
    BY <1>1, <2>1, <2>2, <2>3, <2>4, <2>5 DEF PrepareStep
<1>2. ASSUME NEW t \in Task, BuildStep(t) PROVE HistoryTyped'
  <2>1. CASE SaveAttempt(t) BY <2>1 DEF SaveAttempt
  <2>2. CASE Launch(t) BY <2>2 DEF Launch
  <2>3. CASE BuilderDone(t) BY <2>3 DEF BuilderDone
  <2> QED
    BY <1>2, <2>1, <2>2, <2>3 DEF BuildStep
<1>3. ASSUME NEW t \in Task, ReviewStep(t) PROVE HistoryTyped'
  <2>1. CASE StartReview(t) BY <2>1 DEF StartReview
  <2>2. CASE \E verdict \in Verdict : ReviewerAnswers(t, verdict) BY <2>2 DEF ReviewerAnswers
  <2>3. CASE CommitReport(t) BY <2>3 DEF CommitReport
  <2>4. CASE SaveVerdict(t) BY <2>4 DEF SaveVerdict
  <2>5. CASE Block(t) BY <2>5 DEF Block
  <2> QED
    BY <1>3, <2>1, <2>2, <2>3, <2>4, <2>5 DEF ReviewStep
<1>4. ASSUME NEW t \in Task, MergeStep(t) PROVE HistoryTyped'
  <2>1. CASE StartPublish(t) BY <2>1 DEF StartPublish
  <2>2. CASE Push(t) BY <2>2 DEF Push
  <2>3. CASE CreatePull(t) BY <2>3 DEF CreatePull
  <2>4. CASE SavePull(t) BY <2>4 DEF SavePull
  <2>5. CASE StartChecks(t) BY <2>5 DEF StartChecks
  <2>6. CASE ChecksFail(t) BY <2>6 DEF ChecksFail
  <2>7. CASE ChecksPass(t) BY <2>7 DEF ChecksPass
  <2>8. CASE Confirm(t) BY <2>8 DEF Confirm
  <2>9. CASE Merge(t)
    <3>1. Pull(t) \in PullRequest
      BY <2>9, ElementOfSeq DEF Merge, Pull, PullsKnown, PhaseOfStep, File
    <3> QED
      BY <2>9, <3>1 DEF Merge, PullRequest
  <2> QED
    BY <1>4, <2>1, <2>2, <2>3, <2>4, <2>5, <2>6, <2>7, <2>8, <2>9 DEF MergeStep
<1>5. ASSUME NEW t \in Task, CleanupStep(t) PROVE HistoryTyped'
  <2>1. CASE StartCleanup(t) BY <2>1 DEF StartCleanup
  <2>2. CASE RemoveWorktree(t) BY <2>2 DEF RemoveWorktree
  <2>3. CASE DeleteBranch(t) BY <2>3 DEF DeleteBranch
  <2>4. CASE DeleteRemote(t) BY <2>4 DEF DeleteRemote
  <2>5. CASE Finish(t) BY <2>5 DEF Finish
  <2> QED
    BY <1>5, <2>1, <2>2, <2>3, <2>4, <2>5 DEF CleanupStep
<1>6. ASSUME NEW t \in Task, Owner(t) PROVE HistoryTyped'
  <2>1. CASE Begin(t) BY <2>1 DEF Begin
  <2>2. CASE ReviewAgain(t) BY <2>2 DEF ReviewAgain
  <2>3. CASE Repair(t) BY <2>3 DEF Repair
  <2> QED
    BY <1>6, <2>1, <2>2, <2>3 DEF Owner
<1>7. ASSUME NEW t \in Task, Elsewhere(t) PROVE HistoryTyped'
  <2>1. CASE PushElsewhere(t) BY <2>1 DEF PushElsewhere
  <2>2. CASE MergeElsewhere(t) BY <2>2 DEF MergeElsewhere
  <2>3. CASE Edit(t) BY <2>3 DEF Edit
  <2>4. CASE CommitWork(t) BY <2>4 DEF CommitWork
  <2>5. CASE EndSession(t) BY <2>5 DEF EndSession
  <2> QED
    BY <1>7, <2>1, <2>2, <2>3, <2>4, <2>5 DEF Elsewhere
<1>8. CASE Stop BY <1>8 DEF Stop
<1>9. CASE Kill BY <1>9 DEF Kill
<1>10. CASE RemoveStaleLock BY <1>10 DEF RemoveStaleLock
<1>11. CASE UNCHANGED vars BY <1>11 DEF vars
<1> QED
  BY <1>1, <1>2, <1>3, <1>4, <1>5, <1>6, <1>7, <1>8, <1>9, <1>10, <1>11 DEF Next, RunStep

\* Only SavePull records a pull request, one that is there.
LEMMA PullsKnownHolds == IInv /\ [Next]_vars => PullsKnown'
<1> SUFFICES ASSUME IInv, [Next]_vars PROVE PullsKnown'
  OBVIOUS
<1>a0. /\ \A u \in Task : Len(pulls'[u]) \in Nat /\ Len(pulls[u]) \in Nat
       /\ \A u \in Task : Len(pulls[u]) <= Len(pulls'[u])
  BY PullStep, LenProperties DEF IInv, TypeOK, PullsGrow
<1>a1. /\ state \in [Task -> File]
       /\ run \in RunRecord
       /\ NoTask \notin Task
  BY TaskAssumption DEF IInv, TypeOK, RunRecord, File
<1>a2. /\ PullsKnown /\ PhaseOfStep
       /\ MaxPulls \in Nat
  BY BoundsAssumption DEF IInv
<1> USE <1>a0, <1>a1, <1>a2 DEF RunRecord, PullsKnown, PhaseOfStep, File, At, Dispatch, Save, Goto, Idle,
   Enter, disk, local, hub, past
<1>1. ASSUME NEW t \in Task, PrepareStep(t) PROVE PullsKnown'
  <2>1. CASE Reserve(t) BY <2>1 DEF Reserve
  <2>2. CASE AddWorktree(t) BY <2>2 DEF AddWorktree
  <2>3. CASE WriteSpecification(t) BY <2>3 DEF WriteSpecification
  <2>4. CASE CommitSpecification(t) BY <2>4 DEF CommitSpecification
  <2>5. CASE Prepared(t) BY <2>5 DEF Prepared
  <2> QED
    BY <1>1, <2>1, <2>2, <2>3, <2>4, <2>5 DEF PrepareStep
<1>2. ASSUME NEW t \in Task, BuildStep(t) PROVE PullsKnown'
  <2>1. CASE SaveAttempt(t) BY <2>1 DEF SaveAttempt
  <2>2. CASE Launch(t) BY <2>2 DEF Launch
  <2>3. CASE BuilderDone(t) BY <2>3 DEF BuilderDone
  <2> QED
    BY <1>2, <2>1, <2>2, <2>3 DEF BuildStep
<1>3. ASSUME NEW t \in Task, ReviewStep(t) PROVE PullsKnown'
  <2>1. CASE StartReview(t) BY <2>1 DEF StartReview
  <2>2. CASE \E verdict \in Verdict : ReviewerAnswers(t, verdict) BY <2>2 DEF ReviewerAnswers
  <2>3. CASE CommitReport(t) BY <2>3 DEF CommitReport
  <2>4. CASE SaveVerdict(t) BY <2>4 DEF SaveVerdict
  <2>5. CASE Block(t) BY <2>5 DEF Block
  <2> QED
    BY <1>3, <2>1, <2>2, <2>3, <2>4, <2>5 DEF ReviewStep
<1>4. ASSUME NEW t \in Task, MergeStep(t) PROVE PullsKnown'
  <2>1. CASE StartPublish(t) BY <2>1 DEF StartPublish
  <2>2. CASE Push(t) BY <2>2 DEF Push
  <2>3. CASE CreatePull(t) BY <2>3 DEF CreatePull
  <2>4. CASE ChecksFail(t) BY <2>4 DEF ChecksFail
  <2>5. CASE ChecksPass(t) BY <2>5 DEF ChecksPass
  <2>6. CASE Merge(t) BY <2>6 DEF Merge
  <2>7. CASE Confirm(t) BY <2>7 DEF Confirm
  <2>8. CASE SavePull(t)
    <3>1. \A i \in OpenPulls(t) : i \in 1 .. Len(pulls[t])
      BY LenProperties DEF IInv, TypeOK, OpenPulls
    <3> QED BY <2>8, <3>1 DEF SavePull
  <2>9. CASE StartChecks(t)
    <3>1. CASE Save(t, "merged") /\ UNCHANGED run BY <2>9, <3>1 DEF StartChecks
    <3>2. CASE Goto("poll") /\ UNCHANGED state BY <2>9, <3>2 DEF StartChecks
    <3> QED BY <2>9, <3>1, <3>2 DEF StartChecks
  <2> QED
    BY <1>4, <2>1, <2>2, <2>3, <2>4, <2>5, <2>6, <2>7, <2>8, <2>9 DEF MergeStep
<1>5. ASSUME NEW t \in Task, CleanupStep(t) PROVE PullsKnown'
  <2>1. CASE StartCleanup(t) BY <2>1 DEF StartCleanup
  <2>2. CASE RemoveWorktree(t) BY <2>2 DEF RemoveWorktree
  <2>3. CASE DeleteBranch(t) BY <2>3 DEF DeleteBranch
  <2>4. CASE DeleteRemote(t) BY <2>4 DEF DeleteRemote
  <2>5. CASE Finish(t) BY <2>5 DEF Finish
  <2> QED
    BY <1>5, <2>1, <2>2, <2>3, <2>4, <2>5 DEF CleanupStep
<1>6. ASSUME NEW t \in Task, Owner(t) PROVE PullsKnown'
  <2>1. CASE Begin(t) BY <2>1 DEF Begin
  <2>2. CASE ReviewAgain(t) BY <2>2 DEF ReviewAgain
  <2>3. CASE Repair(t) BY <2>3 DEF Repair
  <2> QED
    BY <1>6, <2>1, <2>2, <2>3 DEF Owner
<1>7. ASSUME NEW t \in Task, Elsewhere(t) PROVE PullsKnown'
  <2>1. CASE PushElsewhere(t) BY <2>1 DEF PushElsewhere
  <2>2. CASE MergeElsewhere(t) BY <2>2 DEF MergeElsewhere
  <2>3. CASE Edit(t) BY <2>3 DEF Edit
  <2>4. CASE CommitWork(t) BY <2>4 DEF CommitWork
  <2>5. CASE EndSession(t) BY <2>5 DEF EndSession
  <2> QED
    BY <1>7, <2>1, <2>2, <2>3, <2>4, <2>5 DEF Elsewhere
<1>8. CASE Stop BY <1>8 DEF Stop
<1>9. CASE Kill BY <1>9 DEF Kill
<1>10. CASE RemoveStaleLock BY <1>10 DEF RemoveStaleLock
<1>11. CASE UNCHANGED vars BY <1>11 DEF vars
<1> QED
  BY <1>1, <1>2, <1>3, <1>4, <1>5, <1>6, <1>7, <1>8, <1>9, <1>10, <1>11 DEF Next, RunStep

\* A builder starts from a step that has counted it.
LEMMA AttemptsSavedHolds == IInv /\ [Next]_vars => AttemptsSaved'
<1> SUFFICES ASSUME IInv, [Next]_vars PROVE AttemptsSaved'
  OBVIOUS
<1>a0. /\ state \in [Task -> File]
       /\ run \in RunRecord
       /\ NoTask \notin Task
  BY TaskAssumption DEF IInv, TypeOK, RunRecord, File
<1>a1. /\ AttemptsSaved
       /\ launched \in [Task -> Nat] /\ MaxRounds \in Nat
  BY BoundsAssumption DEF IInv, TypeOK
<1> USE <1>a0, <1>a1 DEF RunRecord, AttemptsSaved, File, At, Dispatch, Save, Goto, Idle, Enter, disk,
   local, hub, past
<1>1. ASSUME NEW t \in Task, PrepareStep(t) PROVE AttemptsSaved'
  <2>1. CASE Reserve(t) BY <2>1 DEF Reserve
  <2>2. CASE AddWorktree(t) BY <2>2 DEF AddWorktree
  <2>3. CASE WriteSpecification(t) BY <2>3 DEF WriteSpecification
  <2>4. CASE CommitSpecification(t) BY <2>4 DEF CommitSpecification
  <2>5. CASE Prepared(t) BY <2>5 DEF Prepared
  <2> QED
    BY <1>1, <2>1, <2>2, <2>3, <2>4, <2>5 DEF PrepareStep
<1>2. ASSUME NEW t \in Task, BuildStep(t) PROVE AttemptsSaved'
  <2>1. CASE SaveAttempt(t) BY <2>1 DEF SaveAttempt
  <2>2. CASE Launch(t) BY <2>2 DEF Launch
  <2>3. CASE BuilderDone(t) BY <2>3 DEF BuilderDone
  <2> QED
    BY <1>2, <2>1, <2>2, <2>3 DEF BuildStep
<1>3. ASSUME NEW t \in Task, ReviewStep(t) PROVE AttemptsSaved'
  <2>1. CASE StartReview(t) BY <2>1 DEF StartReview
  <2>2. CASE \E verdict \in Verdict : ReviewerAnswers(t, verdict) BY <2>2 DEF ReviewerAnswers
  <2>3. CASE CommitReport(t) BY <2>3 DEF CommitReport
  <2>4. CASE SaveVerdict(t) BY <2>4 DEF SaveVerdict
  <2>5. CASE Block(t) BY <2>5 DEF Block
  <2> QED
    BY <1>3, <2>1, <2>2, <2>3, <2>4, <2>5 DEF ReviewStep
<1>4. ASSUME NEW t \in Task, MergeStep(t) PROVE AttemptsSaved'
  <2>1. CASE StartPublish(t) BY <2>1 DEF StartPublish
  <2>2. CASE Push(t) BY <2>2 DEF Push
  <2>3. CASE CreatePull(t) BY <2>3 DEF CreatePull
  <2>4. CASE SavePull(t) BY <2>4 DEF SavePull
  <2>5. CASE ChecksFail(t) BY <2>5 DEF ChecksFail
  <2>6. CASE ChecksPass(t) BY <2>6 DEF ChecksPass
  <2>7. CASE Merge(t) BY <2>7 DEF Merge
  <2>8. CASE Confirm(t) BY <2>8 DEF Confirm
  <2>9. CASE StartChecks(t)
    <3>1. CASE Save(t, "merged") /\ UNCHANGED run BY <2>9, <3>1 DEF StartChecks
    <3>2. CASE Goto("poll") /\ UNCHANGED state BY <2>9, <3>2 DEF StartChecks
    <3> QED BY <2>9, <3>1, <3>2 DEF StartChecks
  <2> QED
    BY <1>4, <2>1, <2>2, <2>3, <2>4, <2>5, <2>6, <2>7, <2>8, <2>9 DEF MergeStep
<1>5. ASSUME NEW t \in Task, CleanupStep(t) PROVE AttemptsSaved'
  <2>1. CASE StartCleanup(t) BY <2>1 DEF StartCleanup
  <2>2. CASE RemoveWorktree(t) BY <2>2 DEF RemoveWorktree
  <2>3. CASE DeleteBranch(t) BY <2>3 DEF DeleteBranch
  <2>4. CASE DeleteRemote(t) BY <2>4 DEF DeleteRemote
  <2>5. CASE Finish(t) BY <2>5 DEF Finish
  <2> QED
    BY <1>5, <2>1, <2>2, <2>3, <2>4, <2>5 DEF CleanupStep
<1>6. ASSUME NEW t \in Task, Owner(t) PROVE AttemptsSaved'
  <2>1. CASE Begin(t) BY <2>1 DEF Begin
  <2>2. CASE ReviewAgain(t) BY <2>2 DEF ReviewAgain
  <2>3. CASE Repair(t) BY <2>3 DEF Repair
  <2> QED
    BY <1>6, <2>1, <2>2, <2>3 DEF Owner
<1>7. ASSUME NEW t \in Task, Elsewhere(t) PROVE AttemptsSaved'
  <2>1. CASE PushElsewhere(t) BY <2>1 DEF PushElsewhere
  <2>2. CASE MergeElsewhere(t) BY <2>2 DEF MergeElsewhere
  <2>3. CASE Edit(t) BY <2>3 DEF Edit
  <2>4. CASE CommitWork(t) BY <2>4 DEF CommitWork
  <2>5. CASE EndSession(t) BY <2>5 DEF EndSession
  <2> QED
    BY <1>7, <2>1, <2>2, <2>3, <2>4, <2>5 DEF Elsewhere
<1>8. CASE Stop BY <1>8 DEF Stop
<1>9. CASE Kill BY <1>9 DEF Kill
<1>10. CASE RemoveStaleLock BY <1>10 DEF RemoveStaleLock
<1>11. CASE UNCHANGED vars BY <1>11 DEF vars
<1> QED
  BY <1>1, <1>2, <1>3, <1>4, <1>5, <1>6, <1>7, <1>8, <1>9, <1>10, <1>11 DEF Next, RunStep

\* The phase leaves agent-running and review only by a verdict.
LEMMA WorkAwaitsReviewHolds == IInv /\ [Next]_vars => WorkAwaitsReview'
<1> SUFFICES ASSUME IInv, [Next]_vars PROVE WorkAwaitsReview'
  OBVIOUS
<1>a0. /\ state \in [Task -> File]
       /\ run \in RunRecord
       /\ NoTask \notin Task
  BY TaskAssumption DEF IInv, TypeOK, RunRecord, File
<1>a1. /\ WorkAwaitsReview /\ PhaseOfStep
       /\ unreviewed \in [Task -> BOOLEAN]
  BY DEF IInv, TypeOK
<1> USE <1>a0, <1>a1 DEF RunRecord, WorkAwaitsReview, PhaseOfStep, File, At, Dispatch, Save, Goto, Idle,
   Enter, disk, local, hub, past
<1>1. ASSUME NEW t \in Task, PrepareStep(t) PROVE WorkAwaitsReview'
  <2>1. CASE Reserve(t) BY <2>1 DEF Reserve
  <2>2. CASE AddWorktree(t) BY <2>2 DEF AddWorktree
  <2>3. CASE WriteSpecification(t) BY <2>3 DEF WriteSpecification
  <2>4. CASE CommitSpecification(t) BY <2>4 DEF CommitSpecification
  <2>5. CASE Prepared(t) BY <2>5 DEF Prepared
  <2> QED
    BY <1>1, <2>1, <2>2, <2>3, <2>4, <2>5 DEF PrepareStep
<1>2. ASSUME NEW t \in Task, BuildStep(t) PROVE WorkAwaitsReview'
  <2>1. CASE SaveAttempt(t) BY <2>1 DEF SaveAttempt
  <2>2. CASE Launch(t) BY <2>2 DEF Launch
  <2>3. CASE BuilderDone(t) BY <2>3 DEF BuilderDone
  <2> QED
    BY <1>2, <2>1, <2>2, <2>3 DEF BuildStep
<1>3. ASSUME NEW t \in Task, ReviewStep(t) PROVE WorkAwaitsReview'
  <2>1. CASE StartReview(t) BY <2>1 DEF StartReview
  <2>2. CASE \E verdict \in Verdict : ReviewerAnswers(t, verdict) BY <2>2 DEF ReviewerAnswers
  <2>3. CASE CommitReport(t) BY <2>3 DEF CommitReport
  <2>4. CASE SaveVerdict(t) BY <2>4 DEF SaveVerdict
  <2>5. CASE Block(t) BY <2>5 DEF Block
  <2> QED
    BY <1>3, <2>1, <2>2, <2>3, <2>4, <2>5 DEF ReviewStep
<1>4. ASSUME NEW t \in Task, MergeStep(t) PROVE WorkAwaitsReview'
  <2>1. CASE StartPublish(t) BY <2>1 DEF StartPublish
  <2>2. CASE Push(t) BY <2>2 DEF Push
  <2>3. CASE CreatePull(t) BY <2>3 DEF CreatePull
  <2>4. CASE SavePull(t) BY <2>4 DEF SavePull
  <2>5. CASE ChecksFail(t) BY <2>5 DEF ChecksFail
  <2>6. CASE ChecksPass(t) BY <2>6 DEF ChecksPass
  <2>7. CASE Merge(t) BY <2>7 DEF Merge
  <2>8. CASE Confirm(t) BY <2>8 DEF Confirm
  <2>9. CASE StartChecks(t)
    <3>1. CASE Save(t, "merged") /\ UNCHANGED run BY <2>9, <3>1 DEF StartChecks
    <3>2. CASE Goto("poll") /\ UNCHANGED state BY <2>9, <3>2 DEF StartChecks
    <3> QED BY <2>9, <3>1, <3>2 DEF StartChecks
  <2> QED
    BY <1>4, <2>1, <2>2, <2>3, <2>4, <2>5, <2>6, <2>7, <2>8, <2>9 DEF MergeStep
<1>5. ASSUME NEW t \in Task, CleanupStep(t) PROVE WorkAwaitsReview'
  <2>1. CASE StartCleanup(t) BY <2>1 DEF StartCleanup
  <2>2. CASE RemoveWorktree(t) BY <2>2 DEF RemoveWorktree
  <2>3. CASE DeleteBranch(t) BY <2>3 DEF DeleteBranch
  <2>4. CASE DeleteRemote(t) BY <2>4 DEF DeleteRemote
  <2>5. CASE Finish(t) BY <2>5 DEF Finish
  <2> QED
    BY <1>5, <2>1, <2>2, <2>3, <2>4, <2>5 DEF CleanupStep
<1>6. ASSUME NEW t \in Task, Owner(t) PROVE WorkAwaitsReview'
  <2>1. CASE Begin(t) BY <2>1 DEF Begin
  <2>2. CASE ReviewAgain(t) BY <2>2 DEF ReviewAgain
  <2>3. CASE Repair(t) BY <2>3 DEF Repair
  <2> QED
    BY <1>6, <2>1, <2>2, <2>3 DEF Owner
<1>7. ASSUME NEW t \in Task, Elsewhere(t) PROVE WorkAwaitsReview'
  <2>1. CASE PushElsewhere(t) BY <2>1 DEF PushElsewhere
  <2>2. CASE MergeElsewhere(t) BY <2>2 DEF MergeElsewhere
  <2>3. CASE Edit(t) BY <2>3 DEF Edit
  <2>4. CASE CommitWork(t) BY <2>4 DEF CommitWork
  <2>5. CASE EndSession(t) BY <2>5 DEF EndSession
  <2> QED
    BY <1>7, <2>1, <2>2, <2>3, <2>4, <2>5 DEF Elsewhere
<1>8. CASE Stop BY <1>8 DEF Stop
<1>9. CASE Kill BY <1>9 DEF Kill
<1>10. CASE RemoveStaleLock BY <1>10 DEF RemoveStaleLock
<1>11. CASE UNCHANGED vars BY <1>11 DEF vars
<1> QED
  BY <1>1, <1>2, <1>3, <1>4, <1>5, <1>6, <1>7, <1>8, <1>9, <1>10, <1>11 DEF Next, RunStep

\* A verdict is recorded with the head that was reviewed.
LEMMA ReviewsKnownHolds == IInv /\ [Next]_vars => ReviewsKnown'
<1> SUFFICES ASSUME IInv, [Next]_vars PROVE ReviewsKnown'
  OBVIOUS
<1>a0. /\ state \in [Task -> File]
       /\ run \in RunRecord
       /\ NoTask \notin Task
  BY TaskAssumption DEF IInv, TypeOK, RunRecord, File
<1>a1. /\ ReviewsKnown
       /\ approvals \in [Task -> SUBSET Commit]
  BY DEF IInv, TypeOK
<1> USE <1>a0, <1>a1 DEF RunRecord, ReviewsKnown, File, At, Dispatch, Save, Goto, Idle, Enter, disk, local,
   hub, past
<1>1. ASSUME NEW t \in Task, PrepareStep(t) PROVE ReviewsKnown'
  <2>1. CASE Reserve(t) BY <2>1 DEF Reserve
  <2>2. CASE AddWorktree(t) BY <2>2 DEF AddWorktree
  <2>3. CASE WriteSpecification(t) BY <2>3 DEF WriteSpecification
  <2>4. CASE CommitSpecification(t) BY <2>4 DEF CommitSpecification
  <2>5. CASE Prepared(t) BY <2>5 DEF Prepared
  <2> QED
    BY <1>1, <2>1, <2>2, <2>3, <2>4, <2>5 DEF PrepareStep
<1>2. ASSUME NEW t \in Task, BuildStep(t) PROVE ReviewsKnown'
  <2>1. CASE SaveAttempt(t) BY <2>1 DEF SaveAttempt
  <2>2. CASE Launch(t) BY <2>2 DEF Launch
  <2>3. CASE BuilderDone(t) BY <2>3 DEF BuilderDone
  <2> QED
    BY <1>2, <2>1, <2>2, <2>3 DEF BuildStep
<1>3. ASSUME NEW t \in Task, ReviewStep(t) PROVE ReviewsKnown'
  <2>1. CASE StartReview(t) BY <2>1 DEF StartReview
  <2>2. CASE \E verdict \in Verdict : ReviewerAnswers(t, verdict) BY <2>2 DEF ReviewerAnswers
  <2>3. CASE CommitReport(t) BY <2>3 DEF CommitReport
  <2>4. CASE SaveVerdict(t) BY <2>4 DEF SaveVerdict
  <2>5. CASE Block(t) BY <2>5 DEF Block
  <2> QED
    BY <1>3, <2>1, <2>2, <2>3, <2>4, <2>5 DEF ReviewStep
<1>4. ASSUME NEW t \in Task, MergeStep(t) PROVE ReviewsKnown'
  <2>1. CASE StartPublish(t) BY <2>1 DEF StartPublish
  <2>2. CASE Push(t) BY <2>2 DEF Push
  <2>3. CASE CreatePull(t) BY <2>3 DEF CreatePull
  <2>4. CASE SavePull(t) BY <2>4 DEF SavePull
  <2>5. CASE ChecksFail(t) BY <2>5 DEF ChecksFail
  <2>6. CASE ChecksPass(t) BY <2>6 DEF ChecksPass
  <2>7. CASE Merge(t) BY <2>7 DEF Merge
  <2>8. CASE Confirm(t) BY <2>8 DEF Confirm
  <2>9. CASE StartChecks(t)
    <3>1. CASE Save(t, "merged") /\ UNCHANGED run BY <2>9, <3>1 DEF StartChecks
    <3>2. CASE Goto("poll") /\ UNCHANGED state BY <2>9, <3>2 DEF StartChecks
    <3> QED BY <2>9, <3>1, <3>2 DEF StartChecks
  <2> QED
    BY <1>4, <2>1, <2>2, <2>3, <2>4, <2>5, <2>6, <2>7, <2>8, <2>9 DEF MergeStep
<1>5. ASSUME NEW t \in Task, CleanupStep(t) PROVE ReviewsKnown'
  <2>1. CASE StartCleanup(t) BY <2>1 DEF StartCleanup
  <2>2. CASE RemoveWorktree(t) BY <2>2 DEF RemoveWorktree
  <2>3. CASE DeleteBranch(t) BY <2>3 DEF DeleteBranch
  <2>4. CASE DeleteRemote(t) BY <2>4 DEF DeleteRemote
  <2>5. CASE Finish(t) BY <2>5 DEF Finish
  <2> QED
    BY <1>5, <2>1, <2>2, <2>3, <2>4, <2>5 DEF CleanupStep
<1>6. ASSUME NEW t \in Task, Owner(t) PROVE ReviewsKnown'
  <2>1. CASE Begin(t) BY <2>1 DEF Begin
  <2>2. CASE ReviewAgain(t) BY <2>2 DEF ReviewAgain
  <2>3. CASE Repair(t) BY <2>3 DEF Repair
  <2> QED
    BY <1>6, <2>1, <2>2, <2>3 DEF Owner
<1>7. ASSUME NEW t \in Task, Elsewhere(t) PROVE ReviewsKnown'
  <2>1. CASE PushElsewhere(t) BY <2>1 DEF PushElsewhere
  <2>2. CASE MergeElsewhere(t) BY <2>2 DEF MergeElsewhere
  <2>3. CASE Edit(t) BY <2>3 DEF Edit
  <2>4. CASE CommitWork(t) BY <2>4 DEF CommitWork
  <2>5. CASE EndSession(t) BY <2>5 DEF EndSession
  <2> QED
    BY <1>7, <2>1, <2>2, <2>3, <2>4, <2>5 DEF Elsewhere
<1>8. CASE Stop BY <1>8 DEF Stop
<1>9. CASE Kill BY <1>9 DEF Kill
<1>10. CASE RemoveStaleLock BY <1>10 DEF RemoveStaleLock
<1>11. CASE UNCHANGED vars BY <1>11 DEF vars
<1> QED
  BY <1>1, <1>2, <1>3, <1>4, <1>5, <1>6, <1>7, <1>8, <1>9, <1>10, <1>11 DEF Next, RunStep
\* Approvals are never withdrawn.
LEMMA ApprovalStep ==
  ASSUME IInv, [Next]_vars
  PROVE  \A u \in Task : approvals[u] \subseteq approvals'[u]
<1> USE DEF IInv, TypeOK, past
<1>1. ASSUME NEW t \in Task, NEW verdict \in Verdict, ReviewerAnswers(t, verdict)
      PROVE  \A u \in Task : approvals[u] \subseteq approvals'[u]
  BY <1>1 DEF ReviewerAnswers
<1> HIDE DEF IInv, TypeOK
<1>2. ASSUME NEW t \in Task, RunStep(t)
      PROVE  UNCHANGED approvals \/ \E verdict \in Verdict : ReviewerAnswers(t, verdict)
  <2>1. CASE PrepareStep(t) \/ BuildStep(t)
    BY <2>1 DEF PrepareStep, Reserve, AddWorktree, WriteSpecification, CommitSpecification,
                Prepared, BuildStep, SaveAttempt, Launch, BuilderDone
  <2>2. CASE ReviewStep(t) BY <2>2 DEF ReviewStep, StartReview, CommitReport, SaveVerdict, Block
  <2>3. CASE MergeStep(t)
    BY <2>3 DEF MergeStep, StartPublish, Push, CreatePull, SavePull, StartChecks, ChecksFail,
                ChecksPass, Merge, Confirm
  <2>4. CASE CleanupStep(t)
    BY <2>4 DEF CleanupStep, StartCleanup, RemoveWorktree, DeleteBranch, DeleteRemote, Finish
  <2> QED
    BY <1>2, <2>1, <2>2, <2>3, <2>4 DEF RunStep
<1>3. ASSUME NEW t \in Task, Owner(t) \/ Elsewhere(t) PROVE UNCHANGED approvals
  BY <1>3 DEF Owner, Begin, ReviewAgain, Repair, Elsewhere, PushElsewhere, MergeElsewhere, Edit,
              CommitWork, EndSession
<1>4. CASE Stop \/ Kill \/ RemoveStaleLock \/ UNCHANGED vars
  BY <1>4 DEF Stop, Kill, RemoveStaleLock, vars
<1> QED
  BY <1>1, <1>2, <1>3, <1>4 DEF Next

\* A run comes to the merge only through ChecksPass, and an approval stays one.
LEMMA MergeIsSoundHolds == IInv /\ [Next]_vars => MergeIsSound'
<1> SUFFICES ASSUME IInv, [Next]_vars PROVE MergeIsSound'
  OBVIOUS
<1>0. /\ MergeIsSound /\ PhaseOfStep /\ PullsKnown /\ ReviewsKnown /\ NoTask \notin Task
      /\ run \in RunRecord
      /\ state \in [Task -> File]
      /\ merges \in [Task -> SUBSET [head : Commit \cup {Foreign}, checked : Commit]]
      /\ \A u \in Task : Len(branch[u]) \in Nat
  BY TaskAssumption, LenProperties DEF IInv, TypeOK, RunRecord, File
<1>1. ASSUME NEW u \in Task, NEW head, IsApproved(u, head) PROVE IsApproved(u, head)'
  <2>1. head \in Commit /\ head <= Len(branch[u])
    BY <1>1 DEF IsApproved
  <2>2. PICK r \in approvals[u] : OnlyReports(u, r, head)
    BY <1>1 DEF IsApproved
  <2>3. r \in approvals'[u] /\ r \in Nat
    <3>1. approvals[u] \subseteq Commit
      BY DEF IInv, TypeOK
    <3> QED
      BY <2>2, <3>1, ApprovalStep, BoundsAssumption DEF Commit
  <2>4. OnlyReports(u, r, head)'
    BY <1>0, <2>1, <2>2, <2>3, BranchStep, BoundsAssumption
       DEF OnlyReports, BranchesGrow, Commit
  <2>5. head <= Len(branch'[u])
    <3>1. Len(branch'[u]) \in Nat /\ Len(branch[u]) <= Len(branch'[u])
      BY BranchStep, LenProperties DEF BranchesGrow
    <3> QED
      BY <1>0, <2>1, <3>1, BoundsAssumption DEF Commit
  <2> QED
    BY <2>1, <2>3, <2>4, <2>5 DEF IsApproved
<1> DEFINE Quiet == UNCHANGED merges /\ \A u \in Task : At(u, "merge")' => At(u, "merge") /\ run' = run
<1>2. CASE Quiet BY <1>0, <1>1, <1>2 DEF MergeIsSound, At
<1>3. ASSUME NEW t \in Task, ChecksPass(t) PROVE MergeIsSound'
  <2>1. IsApproved(t, state[t].approved)
    <3>1. state[t].approved \in Commit /\ state[t].reviewed \in Commit
      BY <1>0 DEF File
    <3>2. Tip(t) = state[t].approved /\ OnlyReports(t, state[t].reviewed, Tip(t))
      BY <1>3 DEF ChecksPass, Approved
    <3>3. state[t].approved # 0
      BY <3>1, <3>2, BoundsAssumption DEF OnlyReports, Commit
    <3>4. state[t].reviewed \in approvals[t]
      BY <1>0, <3>3 DEF ReviewsKnown
    <3> QED
      BY <1>0, <3>1, <3>2, <3>4 DEF IsApproved, Tip
  <2>2. merges' = merges /\ run' = [run EXCEPT !.step = "merge", !.head = state[t].approved]
    BY <1>3 DEF ChecksPass, past
  <2> QED
    BY <1>0, <1>1, <1>3, <2>1, <2>2 DEF MergeIsSound, At, ChecksPass
<1>4. ASSUME NEW t \in Task, Merge(t) PROVE MergeIsSound'
  <2>1. merges' = [merges EXCEPT ![t] = @ \cup {[head |-> run.head, checked |-> run.head]}]
    BY <1>4 DEF Merge
  <2>2. IsApproved(t, run.head) /\ run'.step = "confirm"
    BY <1>0, <1>4 DEF Merge, MergeIsSound, Goto, Idle
  <2> QED
    BY <1>0, <1>1, <2>1, <2>2 DEF MergeIsSound, At
<1> HIDE DEF Quiet
<1> USE DEF RunRecord, At, Goto, Idle, Enter, disk, local, hub, past, Dispatch
<1>5. ASSUME NEW t \in Task, RunStep(t) PROVE Quiet \/ ChecksPass(t) \/ Merge(t)
  <2>1. CASE PrepareStep(t)
    BY <1>0, <2>1 DEF Quiet, PrepareStep, Reserve, AddWorktree, WriteSpecification,
                CommitSpecification, Prepared
  <2>2. CASE BuildStep(t) BY <1>0, <2>2 DEF Quiet, BuildStep, SaveAttempt, Launch, BuilderDone
  <2>3. CASE ReviewStep(t)
    <3>1. CASE StartReview(t) BY <1>0, <3>1 DEF Quiet, StartReview
    <3>2. CASE \E verdict \in Verdict : ReviewerAnswers(t, verdict)
      BY <1>0, <3>2 DEF Quiet, ReviewerAnswers
    <3>3. CASE CommitReport(t) BY <1>0, <3>3 DEF Quiet, CommitReport
    <3>4. CASE SaveVerdict(t) BY <1>0, <3>4 DEF Quiet, SaveVerdict
    <3>5. CASE Block(t) BY <1>0, <3>5 DEF Quiet, Block
    <3> QED BY <2>3, <3>1, <3>2, <3>3, <3>4, <3>5 DEF ReviewStep
  <2>4. CASE MergeStep(t)
    BY <1>0, <2>4 DEF Quiet, MergeStep, StartPublish, Push, CreatePull, SavePull, StartChecks,
                ChecksFail, Confirm
  <2>5. CASE CleanupStep(t)
    <3>1. CASE StartCleanup(t) BY <1>0, <3>1 DEF Quiet, StartCleanup
    <3>2. CASE RemoveWorktree(t) BY <1>0, <3>2 DEF Quiet, RemoveWorktree
    <3>3. CASE DeleteBranch(t) BY <1>0, <3>3 DEF Quiet, DeleteBranch
    <3>4. CASE DeleteRemote(t) BY <1>0, <3>4 DEF Quiet, DeleteRemote
    <3>5. CASE Finish(t) BY <1>0, <3>5 DEF Quiet, Finish
    <3> QED BY <2>5, <3>1, <3>2, <3>3, <3>4, <3>5 DEF CleanupStep
  <2> QED
    BY <1>5, <2>1, <2>2, <2>3, <2>4, <2>5 DEF RunStep
<1>6. ASSUME NEW t \in Task, Owner(t) \/ Elsewhere(t) PROVE Quiet
  BY <1>0, <1>6 DEF Quiet, Owner, Begin, ReviewAgain, Repair, Elsewhere, PushElsewhere,
              MergeElsewhere, Edit, CommitWork, EndSession
<1>7. CASE Stop \/ Kill \/ RemoveStaleLock \/ UNCHANGED vars
  <2>1. Quiet
    BY <1>0, <1>7 DEF Quiet, Stop, Kill, RemoveStaleLock, vars
  <2> QED
    BY <1>2, <2>1
<1> QED
  BY <1>2, <1>3, <1>4, <1>5, <1>6, <1>7 DEF Next

\* A run comes to the cleanup only through StartCleanup, and a merge stays one.
LEMMA CleanupIsSoundHolds == IInv /\ [Next]_vars => CleanupIsSound'
<1> SUFFICES ASSUME IInv, [Next]_vars PROVE CleanupIsSound'
  OBVIOUS
<1> DEFINE Cleans(u) == run.task = u /\ run.step \in {"tree", "branch", "remote"}
           Ready(u) == state[u].phase = "merged" /\ PullIsApproved(u) /\ Pull(u).merged
           Quiet == \A u \in Task : Cleans(u)' => Ready(u) /\ state' = state
<1>0. /\ NoTask \notin Task
      /\ run \in RunRecord
      /\ \A u \in Task : Cleans(u) => Ready(u)
      /\ \A u \in Task : Ready(u) => state[u].pr \in 1 .. Len(pulls[u])
  BY TaskAssumption, LenProperties
     DEF IInv, TypeOK, RunRecord, CleanupIsSound, PhaseOfStep, PullsKnown
<1>1. CASE Quiet
  <2> SUFFICES ASSUME NEW u \in Task, Cleans(u)' PROVE PullIsApproved(u)' /\ Pull(u)'.merged
    BY DEF CleanupIsSound
  <2>1. Ready(u) /\ state' = state
    BY <1>1
  <2>2. Pull(u)' = Pull(u)
    BY <1>0, <2>1, PullStep DEF PullsGrow, Pull
  <2> QED
    BY <2>1, <2>2 DEF PullIsApproved
<1> HIDE DEF Quiet, Ready
<1> USE <1>0 DEF RunRecord, At, Dispatch, Save, Goto, Idle, Enter, disk, local, hub, past
<1>2. ASSUME NEW t \in Task, RunStep(t) PROVE Quiet
  <2>1. CASE PrepareStep(t)
    BY <2>1 DEF Quiet, PrepareStep, Reserve, AddWorktree, WriteSpecification,
                CommitSpecification, Prepared
  <2>2. CASE BuildStep(t) BY <2>2 DEF Quiet, BuildStep, SaveAttempt, Launch, BuilderDone
  <2>3. CASE ReviewStep(t)
    <3>1. CASE StartReview(t) BY <3>1 DEF Quiet, StartReview
    <3>2. CASE \E verdict \in Verdict : ReviewerAnswers(t, verdict)
      BY <3>2 DEF Quiet, ReviewerAnswers
    <3>3. CASE CommitReport(t) BY <3>3 DEF Quiet, CommitReport
    <3>4. CASE SaveVerdict(t) BY <3>4 DEF Quiet, SaveVerdict
    <3>5. CASE Block(t) BY <3>5 DEF Quiet, Block
    <3> QED BY <2>3, <3>1, <3>2, <3>3, <3>4, <3>5 DEF ReviewStep
  <2>4. CASE MergeStep(t)
    BY <2>4 DEF Quiet, MergeStep, StartPublish, Push, CreatePull, SavePull, StartChecks,
                ChecksFail, ChecksPass, Merge, Confirm
  <2>5. CASE CleanupStep(t)
    <3>1. CASE StartCleanup(t) BY <3>1 DEF Quiet, Ready, StartCleanup
    <3>2. CASE RemoveWorktree(t) BY <3>2 DEF Quiet, Ready, RemoveWorktree
    <3>3. CASE DeleteBranch(t) BY <3>3 DEF Quiet, Ready, DeleteBranch
    <3>4. CASE DeleteRemote(t) BY <3>4 DEF Quiet, Ready, DeleteRemote
    <3>5. CASE Finish(t) BY <3>5 DEF Quiet, Ready, Finish
    <3> QED BY <2>5, <3>1, <3>2, <3>3, <3>4, <3>5 DEF CleanupStep
  <2> QED
    BY <1>2, <2>1, <2>2, <2>3, <2>4, <2>5 DEF RunStep
<1>3. ASSUME NEW t \in Task, Owner(t) \/ Elsewhere(t) PROVE Quiet
  BY <1>3 DEF Quiet, Owner, Begin, ReviewAgain, Repair, Elsewhere, PushElsewhere,
              MergeElsewhere, Edit, CommitWork, EndSession
<1>4. ASSUME Stop \/ Kill PROVE Quiet BY <1>4 DEF Quiet, Stop, Kill
<1>5. ASSUME RemoveStaleLock PROVE Quiet BY <1>5 DEF Quiet, RemoveStaleLock
<1>6. ASSUME UNCHANGED vars PROVE Quiet BY <1>6 DEF Quiet, vars
<1> QED
  BY <1>1, <1>2, <1>3, <1>4, <1>5, <1>6 DEF Next

\* A branch that was pushed has commits.
LEMMA RemoteHasWorkHolds == IInv /\ [Next]_vars => RemoteHasWork'
<1> SUFFICES ASSUME IInv, [Next]_vars PROVE RemoteHasWork'
  OBVIOUS
<1>0. /\ RemoteHasWork
      /\ remote \in [Task -> Commit \cup {Foreign}]
      /\ \A u \in Task : Len(branch[u]) \in Nat /\ Len(branch'[u]) \in Nat
      /\ \A u \in Task : Len(branch[u]) <= Len(branch'[u])
  BY BranchStep, LenProperties DEF IInv, TypeOK, BranchesGrow
<1> DEFINE Kept == \A u \in Task : remote'[u] = remote[u] \/ remote'[u] = 0
<1>1. CASE Kept BY <1>0, <1>1 DEF RemoteHasWork
<1>2. ASSUME NEW t \in Task, Push(t) \/ PushElsewhere(t) PROVE RemoteHasWork'
  BY <1>0, <1>2 DEF RemoteHasWork, Push, PushElsewhere, Tip, local
<1>3. ASSUME NEW t \in Task, RunStep(t) PROVE Kept \/ Push(t)
  <2>1. CASE PrepareStep(t) \/ BuildStep(t)
    BY <2>1 DEF PrepareStep, Reserve, AddWorktree, WriteSpecification, CommitSpecification,
                Prepared, BuildStep, SaveAttempt, Launch, BuilderDone, hub
  <2>2. CASE ReviewStep(t)
    BY <2>2 DEF ReviewStep, StartReview, ReviewerAnswers, CommitReport, SaveVerdict, Block, hub
  <2>3. CASE MergeStep(t)
    BY <2>3 DEF MergeStep, StartPublish, CreatePull, SavePull, StartChecks, ChecksFail,
                ChecksPass, Merge, Confirm, hub
  <2>4. CASE DeleteRemote(t) BY <1>0, <2>4 DEF DeleteRemote
  <2>5. CASE CleanupStep(t)
    BY <2>4, <2>5 DEF CleanupStep, StartCleanup, RemoveWorktree, DeleteBranch, Finish, hub
  <2> QED
    BY <1>3, <2>1, <2>2, <2>3, <2>5 DEF RunStep
<1>4. ASSUME NEW t \in Task, Owner(t) \/ Elsewhere(t) PROVE Kept \/ PushElsewhere(t)
  BY <1>4 DEF Owner, Begin, ReviewAgain, Repair, Elsewhere, MergeElsewhere, Edit, CommitWork,
              EndSession, hub
<1>5. CASE Stop \/ Kill \/ RemoveStaleLock \/ UNCHANGED vars
  BY <1>1, <1>5 DEF Stop, Kill, RemoveStaleLock, vars, hub
<1> QED
  BY <1>1, <1>2, <1>3, <1>4, <1>5 DEF Next

-----------------------------------------------------------------------------
(* The theorems. *)

\* Every step keeps the invariant.
THEOREM StepIInv == IInv /\ [Next]_vars => IInv'
<1> SUFFICES ASSUME IInv, [Next]_vars PROVE IInv'
  OBVIOUS
<1>1. TypeOK'
  BY RunTypeHolds, HistoryTypeHolds, BranchStep, PullStep
     DEF TypeOK, RunTyped, RunRecord, HistoryTyped, File, BranchesGrow, PullsGrow, PullRequest
<1>2. Bounded'
  BY BranchStep, PullStep DEF Bounded, BranchesGrow, PullsGrow
<1> QED
  BY <1>1, <1>2, PhaseOfStepHolds, PullsKnownHolds, AttemptsSavedHolds, WorkAwaitsReviewHolds,
     ReviewsKnownHolds, MergeIsSoundHolds, CleanupIsSoundHolds, RemoteHasWorkHolds DEF IInv

\* The invariant holds in every state of a behaviour.
THEOREM Invariance == Spec => []IInv
  BY InitIInv, StepIInv, PTL DEF Spec

\* The state file, the run, the branches, the remote and the pull requests
\* keep their types.
THEOREM TypeCorrect == Spec => []TypeOK
<1>1. IInv => TypeOK
  BY DEF IInv
<1> QED
  BY <1>1, Invariance, PTL

\* Whatever the workflow merges was approved by the reviewer, with nothing
\* but reports on top, however many builders and users commit meanwhile.
THEOREM ApprovedMerged == Spec => []OnlyApprovedMerged
<1>1. IInv => OnlyApprovedMerged
  BY DEF IInv, MergeIsSound, IsApproved, OnlyApprovedMerged
<1> QED
  BY <1>1, Invariance, PTL

\* No sequence of stops, kills and repeated commands starts more builders
\* than --max-rounds.
THEOREM BudgetKept == Spec => []BudgetHolds
<1>1. IInv => BudgetHolds
  BY BoundsAssumption DEF IInv, TypeOK, AttemptsSaved, BudgetHolds
<1> QED
  BY <1>1, Invariance, PTL

\* A builder is started only if a review has ended since the last one was.
THEOREM RelaunchOnlyReviewed == Spec => NoBlindRelaunch
<1>1. ASSUME IInv, [Next]_vars, NEW t \in Task, launched'[t] # launched[t]
      PROVE  Launch(t)
  <2> USE DEF IInv, TypeOK, past
  <2>1. ASSUME NEW u \in Task, Launch(u) PROVE Launch(t)
    BY <1>1, <2>1 DEF Launch
  <2>2. ASSUME NEW u \in Task, RunStep(u) PROVE UNCHANGED launched \/ Launch(u)
    <3> HIDE DEF IInv, TypeOK
    <3>1. CASE PrepareStep(u) \/ BuildStep(u)
      BY <3>1 DEF PrepareStep, Reserve, AddWorktree, WriteSpecification, CommitSpecification,
                  Prepared, BuildStep, SaveAttempt, BuilderDone
    <3>2. CASE ReviewStep(u)
      BY <3>2 DEF ReviewStep, StartReview, ReviewerAnswers, CommitReport, SaveVerdict, Block
    <3>3. CASE MergeStep(u)
      BY <3>3 DEF MergeStep, StartPublish, Push, CreatePull, SavePull, StartChecks, ChecksFail,
                  ChecksPass, Merge, Confirm
    <3>4. CASE CleanupStep(u)
      BY <3>4 DEF CleanupStep, StartCleanup, RemoveWorktree, DeleteBranch, DeleteRemote, Finish
    <3> QED
      BY <2>2, <3>1, <3>2, <3>3, <3>4 DEF RunStep
  <2> HIDE DEF IInv, TypeOK
  <2>3. ASSUME NEW u \in Task, Owner(u) \/ Elsewhere(u) PROVE UNCHANGED launched
    BY <2>3 DEF Owner, Begin, ReviewAgain, Repair, Elsewhere, PushElsewhere, MergeElsewhere, Edit,
                CommitWork, EndSession
  <2>4. CASE Stop \/ Kill \/ RemoveStaleLock \/ UNCHANGED vars
    BY <1>1, <2>4 DEF Stop, Kill, RemoveStaleLock, vars
  <2> QED
    BY <1>1, <2>1, <2>2, <2>3, <2>4 DEF Next
<1>2. IInv /\ [Next]_vars =>
        [\A t \in Task : launched'[t] # launched[t] => ~unreviewed[t]]_vars
  BY <1>1 DEF IInv, WorkAwaitsReview, Launch
<1> QED
  BY <1>2, Invariance, PTL DEF Spec, NoBlindRelaunch

\* Cleanup deletes a branch, here or on the remote, only when a merged pull
\* request has everything on it.
THEOREM DeletionOnlyMerged == Spec => NothingDeletedUnmerged
<1> DEFINE Merged(t, tip) == \E i \in DOMAIN pulls[t] : pulls[t][i].merged /\ pulls[t][i].head = tip
           Kept(t) == /\ exists[t] /\ ~exists'[t] => Merged(t, Tip(t))
                      /\ remote[t] # 0 /\ remote'[t] = 0 => Merged(t, remote[t])
<1>1. ASSUME IInv, [Next]_vars PROVE \A t \in Task : Kept(t)
  <2>0. /\ exists \in [Task -> BOOLEAN] /\ remote \in [Task -> Commit \cup {Foreign}]
        /\ \A u \in Task : remote[u] # 0 => Tip(u) # 0
    BY <1>1 DEF IInv, TypeOK, RemoteHasWork, Tip
  <2>1. ASSUME NEW t \in Task, run.task = t, run.step \in {"branch", "remote"}
        PROVE  Merged(t, state[t].approved)
    <3>1. state[t].pr \in DOMAIN pulls[t]
      BY <1>1, <2>1, LenProperties DEF IInv, TypeOK, PhaseOfStep, PullsKnown
    <3> QED
      BY <1>1, <2>1, <3>1 DEF IInv, CleanupIsSound, PullIsApproved, Pull
  <2> DEFINE Same == UNCHANGED <<exists, remote>>
  <2>2. CASE Same BY <2>2
  <2>3. ASSUME NEW t \in Task, DeleteBranch(t) PROVE \A u \in Task : Kept(u)
    BY <2>0, <2>1, <2>3 DEF DeleteBranch, At, hub
  <2>4. ASSUME NEW t \in Task, DeleteRemote(t) PROVE \A u \in Task : Kept(u)
    BY <2>0, <2>1, <2>4 DEF DeleteRemote, At, local
  <2>5. ASSUME NEW t \in Task, AddWorktree(t) \/ Push(t) \/ PushElsewhere(t)
        PROVE  \A u \in Task : Kept(u)
    <3>1. Foreign # 0
      BY BoundsAssumption DEF Foreign
    <3> QED
      BY <2>0, <2>5, <3>1 DEF AddWorktree, Push, PushElsewhere, hub, local
  <2>6. ASSUME NEW t \in Task, RunStep(t)
        PROVE  Same \/ AddWorktree(t) \/ Push(t) \/ DeleteBranch(t) \/ DeleteRemote(t)
    <3>1. CASE PrepareStep(t) \/ BuildStep(t)
      BY <3>1 DEF PrepareStep, Reserve, WriteSpecification, CommitSpecification,
                  Prepared, BuildStep, SaveAttempt, Launch, BuilderDone, hub, local
    <3>2. CASE ReviewStep(t)
      BY <3>2 DEF ReviewStep, StartReview, ReviewerAnswers, CommitReport, SaveVerdict, Block, hub, local
    <3>3. CASE MergeStep(t)
      BY <3>3 DEF MergeStep, StartPublish, CreatePull, SavePull, StartChecks, ChecksFail,
                  ChecksPass, Merge, Confirm, hub, local
    <3>4. CASE CleanupStep(t)
      BY <3>4 DEF CleanupStep, StartCleanup, RemoveWorktree, Finish, hub, local
    <3> QED
      BY <2>6, <3>1, <3>2, <3>3, <3>4 DEF RunStep
  <2>7. ASSUME NEW t \in Task, Owner(t) \/ Elsewhere(t) PROVE Same \/ PushElsewhere(t)
    BY <2>7 DEF Owner, Begin, ReviewAgain, Repair, Elsewhere, MergeElsewhere, Edit, CommitWork,
                EndSession, hub, local
  <2>8. CASE Stop \/ Kill \/ RemoveStaleLock \/ UNCHANGED vars
    BY <2>2, <2>8 DEF Stop, Kill, RemoveStaleLock, vars, hub, local
  <2> HIDE DEF Same, Kept
  <2> QED
    BY <1>1, <2>2, <2>3, <2>4, <2>5, <2>6, <2>7, <2>8 DEF Next
<1>2. IInv /\ [Next]_vars => [\A t \in Task : Kept(t)]_vars
  BY <1>1
<1> QED
  BY <1>2, Invariance, PTL DEF Spec, NothingDeletedUnmerged

=============================================================================
