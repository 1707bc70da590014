----------------------------- MODULE MemoryJobs -----------------------------
(***************************************************************************)
(* The memory pipeline: the job rows of the state database                 *)
(* (state/src/runtime/memories.rs) and the two phases every eligible       *)
(* session runs when it starts (memories/write/src/phase1.rs, phase2.rs).  *)
(* Phase 1 leases one job per stale thread and extracts a memory from its  *)
(* rollout; phase 2 takes one global lock, copies the selected memories    *)
(* into a workspace, lets an agent consolidate them when the workspace     *)
(* differs from its git baseline, and moves the baseline.                  *)
(*                                                                         *)
(* Sessions of several processes run the pipeline at once over the same    *)
(* database and workspace.  A worker may crash at any step, and its lease  *)
(* may expire while it is alive.  Times are kept as what the queries ask   *)
(* of them: is the lease valid, is the backoff over, is the cooldown over. *)
(* A worker holds at most one token per row, so its identity stands for    *)
(* its ownership_token; a crash leaves a token nobody holds.               *)
(***************************************************************************)
EXTENDS Naturals, FiniteSets

CONSTANTS
    Threads,      \* threads with a rollout, none of them a worker's own
    Workers,      \* sessions that run the pipeline
    MaxVersion,   \* values of a thread's updated_at
    Retries,      \* DEFAULT_RETRY_REMAINING
    MaxClaimed,   \* max_rollouts_per_startup
    Suspends,     \* steps of phase 2 a live worker may sleep through its lease in
    MaxFaults,    \* crashes, errors, leases lost by live workers, and resets
    Nobody,       \* an ownership token no live worker holds
    NoBaseline    \* the workspace has no usable .git

ASSUME MemoryAssumption ==
    /\ IsFiniteSet(Threads) /\ IsFiniteSet(Workers)
    /\ MaxVersion \in Nat \ {0} /\ Retries \in Nat \ {0}
    /\ MaxClaimed \in Nat \ {0} /\ MaxFaults \in Nat
    /\ Nobody \notin Workers
    /\ \A S \in SUBSET (Threads \X (1..MaxVersion)) : S # NoBaseline

VARIABLES
    version,    \* threads.updated_at: how much of the rollout exists
    polluted,   \* threads whose memory_mode is 'polluted'
    job1,       \* the memory_stage1 rows of jobs
    output,     \* the rows of stage1_outputs
    job2,       \* the memory_consolidate_global row of jobs
    pc,         \* where each worker is
    todo,       \* the candidates its scan returned, as it read them
    claimed,    \* its stage-1 claims: the updated_at it claimed at
    read,       \* how much of the rollout its extraction has read
    sel,        \* raw_memories: the selection its phase 2 works on
    ws,         \* the inputs synced into the workspace
    edited,     \* the workspace holds edits of an agent since the baseline
    baseline,   \* the inputs in the git baseline
    digested,   \* history: the inputs an agent has consolidated
    reset,      \* the memory reset a user may ask for
    faults      \* faults so far

threadVars == <<version, polluted>>
rowVars    == <<job1, output, job2>>
stage1Vars == <<todo, claimed, read>>
wsVars     == <<ws, edited, baseline>>
mvars == <<version, polluted, job1, output, job2, pc, todo, claimed, read, sel, ws,
           edited, baseline, digested, reset, faults>>

Versions  == 1..MaxVersion
Stamps    == 0..MaxVersion          \* 0: NULL, or no such row
Snapshots == Threads \X Versions
Zero      == [t \in Threads |-> 0]

NoJob1 == [status |-> "none", owner |-> Nobody, lease |-> FALSE, backoff |-> FALSE,
           input |-> 0, lastOk |-> 0, retry |-> 0]
NoJob2 == [status |-> "none", owner |-> Nobody, lease |-> FALSE, backoff |-> FALSE,
           cooldown |-> FALSE]
NoOutput == [src |-> 0, flag |-> 0]

MInit ==
    /\ version = [t \in Threads |-> 1] /\ polluted = {}
    /\ job1 = [t \in Threads |-> NoJob1]
    /\ output = [t \in Threads |-> NoOutput]
    /\ job2 = NoJob2
    /\ pc = [w \in Workers |-> "idle"]
    /\ todo = [w \in Workers |-> Zero]
    /\ claimed = [w \in Workers |-> Zero]
    /\ read = [w \in Workers |-> Zero]
    /\ sel = [w \in Workers |-> {}]
    /\ ws = {} /\ edited = FALSE /\ baseline = NoBaseline
    /\ digested = {{}} /\ reset = "no" /\ faults = 0

Goto(w, label) == pc' = [pc EXCEPT ![w] = label]
Fault == faults < MaxFaults /\ faults' = faults + 1

-----------------------------------------------------------------------------
(* The rows of the database.                                               *)

Running(job) == job.status = "running" /\ job.lease

\* enqueue_global_consolidation_with_executor: a running row stays running, any
\* other becomes pending with its backoff lifted; finished_at stays, and with it
\* the cooldown.
Enqueued(job) ==
    IF job.status = "running" THEN job
    ELSE [job EXCEPT !.status = "pending", !.backoff = FALSE]

\* The job row knows a version at least as new as v, or the output row does.
UpToDate(t, v) == output[t].src >= v \/ job1[t].lastOk >= v

\* Mutant: a running row is never claimed again, whatever its lease.
ClaimableUnlessRunning(t, v) ==
    /\ job1[t].status # "running"
    /\ ~job1[t].backoff \/ v > job1[t].input
    /\ job1[t].status = "none" \/ job1[t].retry > 0 \/ v > job1[t].input

\* The upsert of try_claim_stage1_job applies to the row of t.
Claimable(t, v) ==
    /\ ~Running(job1[t])
    /\ ~job1[t].backoff \/ v > job1[t].input
    /\ job1[t].status = "none" \/ job1[t].retry > 0 \/ v > job1[t].input
    /\ Cardinality({u \in Threads \ {t} : Running(job1[u])}) < MaxClaimed

\* Mutant: a newer version adds to the retries instead of resetting them.
Claim1Adding(w, t, v) ==
    job1' = [job1 EXCEPT ![t] =
        [status |-> "running", owner |-> w, lease |-> TRUE, backoff |-> FALSE,
         input |-> v, lastOk |-> @.lastOk,
         retry |-> IF v > @.input THEN @.retry + Retries ELSE @.retry]]

Claim1(w, t, v) ==
    job1' = [job1 EXCEPT ![t] =
        [status |-> "running", owner |-> w, lease |-> TRUE, backoff |-> FALSE,
         input |-> v, lastOk |-> @.lastOk,
         retry |-> IF v > @.input THEN Retries ELSE @.retry]]

\* Mutant: the update that ends a job does not compare the token.
Owns1AnyToken(w, t) == job1[t].status = "running"

Owns1(w, t) == job1[t].status = "running" /\ job1[t].owner = w
Owns2(w) == job2.status = "running" /\ job2.owner = w

Succeeded1(t) ==
    job1' = [job1 EXCEPT ![t].status = "done", ![t].lease = FALSE,
                         ![t].lastOk = job1[t].input]

Failed1(t) ==
    job1' = [job1 EXCEPT ![t].status = "error", ![t].lease = FALSE,
                         ![t].backoff = TRUE, ![t].retry = @ - 1]

\* mark_global_phase2_job_failed, and the fallback for a row without a token: a
\* running row always has one, so the fallback finds no other row.
Failed2(w) ==
    job2' = IF Owns2(w)
            THEN [job2 EXCEPT !.status = "error", !.lease = FALSE,
                              !.backoff = TRUE, !.cooldown = FALSE]
            ELSE job2

\* Mutant: the selected threads are marked at whatever version they are by now.
Succeeded2AnyVersion(w) ==
    IF Owns2(w)
    THEN /\ job2' = [job2 EXCEPT !.status = "done", !.lease = FALSE, !.cooldown = TRUE]
         /\ output' = [t \in Threads |->
                [output[t] EXCEPT !.flag =
                    IF \E v \in Versions : <<t, v>> \in sel[w] THEN output[t].src ELSE 0]]
    ELSE UNCHANGED <<job2, output>>

\* mark_global_phase2_job_succeeded: the marks of the last selection are cleared,
\* and the rows still at the selected version are marked.
Succeeded2(w) ==
    IF Owns2(w)
    THEN /\ job2' = [job2 EXCEPT !.status = "done", !.lease = FALSE, !.cooldown = TRUE]
         /\ output' = [t \in Threads |->
                [output[t] EXCEPT !.flag =
                    IF <<t, output[t].src>> \in sel[w] THEN output[t].src ELSE 0]]
    ELSE UNCHANGED <<job2, output>>

-----------------------------------------------------------------------------
(* The threads the memories are taken from.                                *)

\* A thread is used again and left idle long enough to be a candidate.
TouchThread(t) ==
    /\ version[t] < MaxVersion
    /\ version' = [version EXCEPT ![t] = @ + 1]
    /\ UNCHANGED <<polluted, rowVars, pc, stage1Vars, sel, wsVars, digested, reset, faults>>

\* mark_thread_memory_mode_polluted: a thread of the last baseline asks for phase 2.
Pollute(t) ==
    /\ t \notin polluted
    /\ polluted' = polluted \cup {t}
    /\ job2' = IF output[t].flag # 0 THEN Enqueued(job2) ELSE job2
    /\ UNCHANGED <<version, job1, output, pc, stage1Vars, sel, wsVars, digested, reset, faults>>

-----------------------------------------------------------------------------
(* Phase 1.                                                                *)

\* start_memories_startup_task, and the query of claim_stage1_jobs_for_startup.  The
\* threads of the model are within its age window and its limit.
Scan(w) ==
    /\ pc[w] = "idle"
    /\ todo' = [todo EXCEPT ![w] =
           [t \in Threads |-> IF t \in polluted \/ UpToDate(t, version[t])
                              THEN 0 ELSE version[t]]]
    /\ Goto(w, "phase1")
    /\ UNCHANGED <<threadVars, rowVars, claimed, read, sel, wsVars, digested, reset, faults>>

Claims(w) == {t \in Threads : claimed[w][t] # 0}

\* try_claim_stage1_job, for the version the scan saw.  A worker stops at
\* MaxClaimed claims.
TryClaimStage1(w, t) ==
    LET v == todo[w][t] IN
    /\ pc[w] = "phase1" /\ v # 0
    /\ todo' = [todo EXCEPT ![w][t] = 0]
    /\ IF Cardinality(Claims(w)) < MaxClaimed /\ ~UpToDate(t, v) /\ Claimable(t, v)
       THEN Claim1(w, t, v) /\ claimed' = [claimed EXCEPT ![w][t] = v]
       ELSE UNCHANGED <<job1, claimed>>
    /\ UNCHANGED <<threadVars, output, job2, pc, read, sel, wsVars, digested, reset, faults>>

\* The first step of sample: load_rollout_items.
ReadRollout(w, t) ==
    /\ todo[w] = Zero /\ claimed[w][t] # 0 /\ read[w][t] = 0
    /\ read' = [read EXCEPT ![w][t] = version[t]]
    /\ UNCHANGED <<threadVars, rowVars, pc, todo, claimed, sel, wsVars, digested, reset, faults>>

EndJob(w, t) ==
    /\ claimed' = [claimed EXCEPT ![w][t] = 0]
    /\ read' = [read EXCEPT ![w][t] = 0]

\* mark_stage1_job_succeeded
Stage1Succeeds(w, t) ==
    LET v == claimed[w][t] IN
    /\ read[w][t] # 0
    /\ EndJob(w, t)
    /\ IF Owns1(w, t)
       THEN /\ Succeeded1(t)
            /\ output' = IF v >= output[t].src THEN [output EXCEPT ![t].src = v] ELSE output
            /\ job2' = Enqueued(job2)
       ELSE UNCHANGED rowVars
    /\ UNCHANGED <<threadVars, pc, todo, sel, wsVars, digested, reset, faults>>

\* mark_stage1_job_succeeded_no_output
Stage1NoOutput(w, t) ==
    /\ read[w][t] # 0
    /\ EndJob(w, t)
    /\ IF Owns1(w, t)
       THEN /\ Succeeded1(t)
            /\ output' = [output EXCEPT ![t] = NoOutput]
            /\ job2' = IF output[t].src # 0 THEN Enqueued(job2) ELSE job2
       ELSE UNCHANGED rowVars
    /\ UNCHANGED <<threadVars, pc, todo, sel, wsVars, digested, reset, faults>>

\* mark_stage1_job_failed: the rollout can not be read, or the model's answer fails.
Stage1Fails(w, t) ==
    /\ todo[w] = Zero /\ claimed[w][t] # 0
    /\ Fault
    /\ EndJob(w, t)
    /\ IF Owns1(w, t) THEN Failed1(t) ELSE UNCHANGED job1
    /\ UNCHANGED <<threadVars, output, job2, pc, todo, sel, wsVars, digested, reset>>

-----------------------------------------------------------------------------
(* Phase 2.                                                                *)

\* Mutant: the lock is only taken when there is something pending.
Claimable2IfPending ==
    /\ ~job2.backoff /\ ~Running(job2) /\ ~job2.cooldown
    /\ job2.status # "done"

\* The conditions of try_claim_global_phase2_job: the watermark and the pending
\* status play no part.
Claimable2 == ~job2.backoff /\ ~Running(job2) /\ ~job2.cooldown

\* phase2::run starts when phase 1 has ended, whatever became of its jobs.
ClaimPhase2(w) ==
    /\ pc[w] = "phase1" /\ todo[w] = Zero /\ Claims(w) = {}
    /\ IF Claimable2
       THEN /\ job2' = [status |-> "running", owner |-> w, lease |-> TRUE,
                        backoff |-> FALSE, cooldown |-> FALSE]
            /\ Goto(w, "load")
       ELSE Goto(w, "idle") /\ UNCHANGED job2
    /\ UNCHANGED <<threadVars, job1, output, stage1Vars, sel, wsVars, digested, reset, faults>>

\* get_phase2_input_selection
Selection == {<<t, output[t].src>> : t \in {u \in Threads \ polluted : output[u].src # 0}}

\* prepare_memory_workspace makes a missing or unusable .git anew from whatever the
\* workspace holds; then the selection is read.
LoadSelection(w) ==
    /\ pc[w] = "load"
    /\ IF baseline = NoBaseline THEN baseline' = ws /\ edited' = FALSE
                                ELSE UNCHANGED <<baseline, edited>>
    /\ sel' = [sel EXCEPT ![w] = Selection]
    /\ Goto(w, "sync")
    /\ UNCHANGED <<threadVars, rowVars, stage1Vars, ws, digested, reset, faults>>

\* sync_phase2_workspace_inputs
SyncInputs(w) ==
    /\ pc[w] = "sync"
    /\ ws' = sel[w]
    /\ Goto(w, "diff")
    /\ UNCHANGED <<threadVars, rowVars, stage1Vars, sel, edited, baseline, digested, reset, faults>>

Leave(w) == Goto(w, "idle") /\ sel' = [sel EXCEPT ![w] = {}]

\* memory_workspace_diff: fails without a repository, ends the run when nothing
\* changed, and hands the changes to an agent otherwise.
DiffWorkspace(w) ==
    /\ pc[w] = "diff"
    /\ \/ /\ baseline = NoBaseline
          /\ Failed2(w) /\ Leave(w)
          /\ UNCHANGED output
       \/ /\ baseline = ws /\ ~edited
          /\ Succeeded2(w) /\ Leave(w)
       \/ /\ baseline # NoBaseline /\ (baseline # ws \/ edited)
          /\ Goto(w, "agent")
          /\ UNCHANGED <<job2, output, sel>>
    /\ UNCHANGED <<threadVars, job1, stage1Vars, wsVars, digested, reset, faults>>

\* The agent edits the workspace.
AgentEdits(w) ==
    /\ pc[w] = "agent" /\ ~edited
    /\ edited' = TRUE
    /\ UNCHANGED <<threadVars, rowVars, pc, stage1Vars, sel, ws, baseline, digested, reset, faults>>

\* A tick of heartbeat_interval in loop_agent: the lease is renewed, or the lock is
\* gone and the run has failed.
Heartbeat(w) ==
    /\ pc[w] = "agent"
    /\ \/ /\ Owns2(w)
          /\ job2' = [job2 EXCEPT !.lease = TRUE]
          /\ UNCHANGED <<pc, sel>>
       \/ /\ ~Owns2(w)
          /\ Failed2(w) /\ Leave(w)
    /\ UNCHANGED <<threadVars, job1, output, stage1Vars, wsVars, digested, reset, faults>>

\* The agent completes: it has seen the inputs it was spawned for.
AgentCompletes(w) ==
    /\ pc[w] = "agent"
    /\ digested' = digested \cup {sel[w]}
    /\ Goto(w, "confirm")
    /\ UNCHANGED <<threadVars, rowVars, stage1Vars, sel, wsVars, reset, faults>>

\* Mutant: the baseline is reset without asking who owns the lock.
ConfirmUnasked(w) ==
    /\ pc[w] = "confirm"
    /\ Goto(w, "reset")
    /\ UNCHANGED <<threadVars, rowVars, stage1Vars, sel, wsVars, digested, reset, faults>>

\* The heartbeat of agent::handle before the baseline is reset.
ConfirmOwnership(w) ==
    /\ pc[w] = "confirm"
    /\ \/ /\ Owns2(w)
          /\ job2' = [job2 EXCEPT !.lease = TRUE]
          /\ Goto(w, "reset")
          /\ UNCHANGED sel
       \/ /\ ~Owns2(w)
          /\ Leave(w)
          /\ UNCHANGED job2
    /\ UNCHANGED <<threadVars, job1, output, stage1Vars, wsVars, digested, reset, faults>>

\* reset_git_repository removes .git, commits what the workspace holds and writes the
\* index; by then the baseline has moved, also if the index can not be written.
RemoveBaseline(w) ==
    /\ pc[w] = "reset"
    /\ baseline' = NoBaseline
    /\ Goto(w, "commit")
    /\ UNCHANGED <<threadVars, rowVars, stage1Vars, sel, ws, edited, digested, reset, faults>>

CommitBaseline(w) ==
    /\ pc[w] = "commit"
    /\ baseline' = ws /\ edited' = FALSE
    /\ Goto(w, "mark")
    /\ UNCHANGED <<threadVars, rowVars, stage1Vars, sel, ws, digested, reset, faults>>

MarkSucceeded(w) ==
    /\ pc[w] = "mark"
    /\ Succeeded2(w) /\ Leave(w)
    /\ UNCHANGED <<threadVars, job1, stage1Vars, wsVars, digested, reset, faults>>

\* A step of phase 2 fails, or its agent does: job::failed.
Phase2Fails(w) ==
    /\ pc[w] \in {"load", "sync", "diff", "agent", "confirm", "reset", "commit", "mark"}
    /\ Fault
    /\ Failed2(w) /\ Leave(w)
    /\ UNCHANGED <<threadVars, job1, output, stage1Vars, wsVars, digested, reset>>

-----------------------------------------------------------------------------
(* Faults, time, and the reset a user may ask for.                         *)

\* The process of a worker dies; its rows keep a token nobody holds.  A database
\* error in the update that ends a job leaves the same rows.
Crash(w) ==
    /\ pc[w] # "idle"
    /\ Fault
    /\ job1' = [t \in Threads |->
           IF job1[t].owner = w THEN [job1[t] EXCEPT !.owner = Nobody] ELSE job1[t]]
    /\ job2' = IF job2.owner = w THEN [job2 EXCEPT !.owner = Nobody] ELSE job2
    /\ todo' = [todo EXCEPT ![w] = Zero]
    /\ claimed' = [claimed EXCEPT ![w] = Zero]
    /\ read' = [read EXCEPT ![w] = Zero]
    /\ Leave(w)
    /\ UNCHANGED <<threadVars, output, wsVars, digested, reset>>

Untouched == UNCHANGED <<threadVars, output, pc, stage1Vars, sel, wsVars, digested, reset>>

\* A crashed owner's lease runs out; a live one's may, when it is slow: phase 1
\* never renews it, phase 2 does in the agent loop and before the reset.
Stage1LeaseExpires(t) ==
    /\ Running(job1[t])
    /\ IF job1[t].owner = Nobody THEN UNCHANGED faults ELSE Fault
    /\ job1' = [job1 EXCEPT ![t].lease = FALSE]
    /\ UNCHANGED job2 /\ Untouched

Phase2LeaseExpires ==
    /\ Running(job2)
    /\ IF job2.owner = Nobody THEN UNCHANGED faults
       ELSE pc[job2.owner] \in Suspends /\ Fault
    /\ job2' = [job2 EXCEPT !.lease = FALSE]
    /\ UNCHANGED job1 /\ Untouched

Stage1BackoffEnds(t) ==
    /\ job1[t].backoff
    /\ job1' = [job1 EXCEPT ![t].backoff = FALSE]
    /\ UNCHANGED <<job2, faults>> /\ Untouched

Phase2BackoffEnds ==
    /\ job2.backoff
    /\ job2' = [job2 EXCEPT !.backoff = FALSE]
    /\ UNCHANGED <<job1, faults>> /\ Untouched

CooldownEnds ==
    /\ job2.cooldown
    /\ job2' = [job2 EXCEPT !.cooldown = FALSE]
    /\ UNCHANGED <<job1, faults>> /\ Untouched

\* memory_reset_response_inner: clear_memory_data, then clear_memory_roots_contents.
ClearMemoryData ==
    /\ reset = "no"
    /\ Fault
    /\ job1' = [t \in Threads |-> NoJob1]
    /\ output' = [t \in Threads |-> NoOutput]
    /\ job2' = NoJob2
    /\ reset' = "rows"
    /\ UNCHANGED <<threadVars, pc, stage1Vars, sel, wsVars, digested>>

ClearMemoryRoots ==
    /\ reset = "rows"
    /\ ws' = {} /\ edited' = FALSE /\ baseline' = NoBaseline
    /\ reset' = "done"
    /\ UNCHANGED <<threadVars, rowVars, pc, stage1Vars, sel, digested, faults>>

-----------------------------------------------------------------------------
EndStage1(w, t) == Stage1Succeeds(w, t) \/ Stage1NoOutput(w, t)

WorkerStep(w) ==
    \/ Scan(w) \/ ClaimPhase2(w)
    \/ LoadSelection(w) \/ SyncInputs(w) \/ DiffWorkspace(w) \/ AgentCompletes(w)
    \/ ConfirmOwnership(w) \/ RemoveBaseline(w) \/ CommitBaseline(w) \/ MarkSucceeded(w)
    \/ \E t \in Threads : TryClaimStage1(w, t) \/ ReadRollout(w, t) \/ EndStage1(w, t)

MNext ==
    \/ \E w \in Workers :
           \/ WorkerStep(w) \/ AgentEdits(w) \/ Heartbeat(w) \/ Phase2Fails(w) \/ Crash(w)
           \/ \E t \in Threads : Stage1Fails(w, t)
    \/ \E t \in Threads :
           \/ TouchThread(t) \/ Pollute(t)
           \/ Stage1LeaseExpires(t) \/ Stage1BackoffEnds(t)
    \/ Phase2LeaseExpires \/ Phase2BackoffEnds \/ CooldownEnds
    \/ ClearMemoryData \/ ClearMemoryRoots

MSpec == MInit /\ [][MNext]_mvars

\* Sessions keep being started, workers and their agents run on, time passes.
MFairness ==
    /\ \A w \in Workers : WF_mvars(WorkerStep(w))
    /\ WF_mvars(Phase2BackoffEnds) /\ WF_mvars(CooldownEnds)
    /\ WF_mvars(Phase2LeaseExpires /\ job2.owner = Nobody)
    /\ \A t \in Threads :
           /\ WF_mvars(Stage1BackoffEnds(t))
           /\ WF_mvars(Stage1LeaseExpires(t) /\ job1[t].owner = Nobody)

MFairSpec == MSpec /\ MFairness

-----------------------------------------------------------------------------
(* Properties.                                                             *)

Labels == {"idle", "phase1", "load", "sync", "diff", "agent",
           "confirm", "reset", "commit", "mark"}

Jobs1 == [status : {"none", "running", "done", "error"}, owner : Workers \cup {Nobody},
          lease : BOOLEAN, backoff : BOOLEAN, input : Stamps, lastOk : Stamps,
          retry : 0..Retries]
Jobs2 == [status : {"none", "pending", "running", "done", "error"},
          owner : Workers \cup {Nobody}, lease : BOOLEAN, backoff : BOOLEAN,
          cooldown : BOOLEAN]
Outputs == [src : Stamps, flag : Stamps]

\* The rows, the workers and the workspace have the shapes the code gives them; a
\* running row always has an owner's token, and a stage-1 budget never runs below
\* zero (mark_stage1_job_failed subtracts one without a floor).
MTypeOK ==
    /\ version \in [Threads -> Versions] /\ polluted \subseteq Threads
    /\ job1 \in [Threads -> Jobs1] /\ output \in [Threads -> Outputs] /\ job2 \in Jobs2
    /\ pc \in [Workers -> Labels]
    /\ todo \in [Workers -> [Threads -> Stamps]]
    /\ claimed \in [Workers -> [Threads -> Stamps]]
    /\ read \in [Workers -> [Threads -> Stamps]]
    /\ sel \in [Workers -> SUBSET Snapshots]
    /\ ws \subseteq Snapshots /\ edited \in BOOLEAN
    /\ baseline \in {NoBaseline} \cup SUBSET Snapshots
    /\ digested \subseteq SUBSET Snapshots
    /\ reset \in {"no", "rows", "done"} /\ faults \in 0..MaxFaults

\* A worker scans when its claims are over, and what it scanned, claimed and read of
\* a thread exists.
ClaimsSound ==
    \A w \in Workers, t \in Threads :
        /\ todo[w][t] <= version[t] /\ claimed[w][t] <= version[t]
        /\ todo[w][t] # 0 => pc[w] = "phase1" /\ claimed[w][t] = 0
        /\ claimed[w][t] # 0 => pc[w] = "phase1"
        /\ read[w][t] # 0 => claimed[w][t] # 0 /\ claimed[w][t] <= read[w][t]

\* The row of a running job is at the version its owner claimed, which is new, and
\* has a retry left for mark_stage1_job_failed to take.
RowsSound ==
    \A t \in Threads :
        /\ job1[t].status = "none" => job1[t].input = 0
        /\ job1[t].status = "running" =>
               job1[t].lastOk < job1[t].input /\ job1[t].retry > 0
        /\ \A w \in Workers : Owns1(w, t) => claimed[w][t] = job1[t].input

\* The inductive invariant of phase 1: types, claims and rows agree at every step, so
\* no retry budget runs below zero and a crashed owner's row is at its claim.
MInv == MTypeOK /\ ClaimsSound /\ RowsSound

\* last_success_watermark only moves forward, and only to a version the worker that
\* ends the job has read the rollout at or after: a worker whose lease ran out and
\* whose row was claimed again for a newer version can not report that version done.
WatermarkHonest ==
    [][\A t \in Threads :
           \/ job1'[t].lastOk = job1[t].lastOk
           \/ job1'[t] = NoJob1
           \/ /\ job1'[t].lastOk > job1[t].lastOk
              /\ \E w \in Workers :
                     /\ claimed[w][t] # 0 /\ claimed'[w][t] = 0
                     /\ read[w][t] >= job1'[t].lastOk]_mvars

\* Until the memory is reset, the git baseline never holds inputs no agent has
\* consolidated: a worker that lost the lock does not move it, and one that crashes
\* while it moves it leaves a workspace that may become the baseline.
BaselineConsolidated ==
    reset = "no" => baseline = NoBaseline \/ baseline \in digested

\* Until the memory is reset, a finished consolidation leaves only such rows
\* marked as selected that the baseline really holds, at the version it holds.
MarkedIsInBaseline ==
    reset = "no" /\ job2.status = "done" =>
        \A t \in Threads : output[t].flag # 0 => <<t, output[t].flag>> \in baseline

\* A live worker loses the global lease only while its agent runs: the other steps of
\* phase 2 take less than the hour PHASE2_JOB_LEASE_SECONDS gives them.
Attentive == Suspends \subseteq {"agent"}

\* Until the memory is reset, phase 2 is done by one worker at a time but for the
\* agents of those that lost the lock; the owner's workspace holds its selection.
LockKept ==
    reset = "no" =>
        \A w \in Workers :
            /\ pc[w] \in {"load", "sync", "diff", "reset", "commit", "mark"} =>
                   Owns2(w) /\ job2.lease
            /\ pc[w] \in {"diff", "agent", "confirm", "reset", "commit", "mark"} /\ Owns2(w) =>
                   ws = sel[w]

\* What becomes the baseline has been seen by an agent, also when the next worker
\* makes it from what a crashed one left.
BaselineReady ==
    /\ \A w \in Workers :
           pc[w] \in {"confirm", "reset", "commit", "mark"} => sel[w] \in digested
    /\ reset = "no" =>
           /\ baseline = NoBaseline => ws \in digested
           /\ \A w \in Workers : pc[w] = "sync" => baseline # NoBaseline
           /\ \A w \in Workers : pc[w] = "mark" => baseline = sel[w]

\* The inductive invariant of phase 2.
WorkspaceInv ==
    LockKept /\ BaselineReady /\ BaselineConsolidated /\ MarkedIsInBaseline

InBaseline(t) == baseline # NoBaseline /\ \E v \in Versions : <<t, v>> \in baseline

\* A polluted thread leaves the baseline for good, whatever phase 2 was doing when
\* it was polluted.
PollutedForgotten == \A t \in Threads : <>[](t \in polluted => ~InBaseline(t))

\* A stale thread is extracted again in the end, or its retries are used up: a job
\* whose owner crashed or lost its lease does not stay claimed.
ThreadsExtracted ==
    \A t \in Threads :
        []<>(\/ t \in polluted \/ UpToDate(t, version[t])
             \/ /\ job1[t].status = "error" /\ job1[t].retry = 0
                /\ job1[t].input >= version[t])
=============================================================================
