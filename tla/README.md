# EvalRX: a verification project

TLA+ models of the control of EvalRX (`src/evalrx`), model-checked with TLC, and
theorems about them proved with TLAPS. EvalRX diagnoses why a vision-language
model fails on a batch of cases and proposes repairs: M1 probes the model, M2
computes statistics, M3 asks a judge for hypotheses, M4 tests them, M5 intervenes
on the model, and a fix agent searches and validates a repair. What makes its
claims worth anything is *discipline*: which cases each artifact may have read,
which gate must open before which step, and what survives a crash. That control
is what is modelled; scores, prompts and texts are not.

## 1. Inventory

| component | state it keeps | operations | talks to |
|---|---|---|---|
| `VLDiagnoseLoop` (`eval_agent/loop.py`) | switches, explorer notes, token count; a report (hypotheses, test results, stop reason, holdout status, fix proposal and outcome); the partition EXPLORE / CONFIRM / TEST, derived anew by every call | `run`, `run_analysis`, `run_confirm`, `run_m5`, `run_fix` and the stages `_do_m1`..`_do_m4`, `_m4_holdout_pass` | probe agent, M3 judge, `HypothesisTester`, `FixAgent`, run logger |
| `AgenticDiagnoseLoop` (`eval_agent/agentic/`) | evidence board, `_RunState`, `BudgetState`, invalid streak | one tool per judge turn, `ToolRegistry.dispatch`, budgets, the closing report | the stages of `VLDiagnoseLoop`, the judge |
| Observability outbox (`observability/outbox.py`, `tracer.py`) | a SQLite table shared by processes; the SDK's buffer | `enqueue`, `drain`, `flush`, `backfill_run_to_langfuse` | Langfuse SDK |
| `FixAgent` (`stages/fix_agent.py`, `fix_tiers.py`, `stats/ebh.py`) | tier attributes the loop sets and restores, candidates | tier searches, e-BH, `validate_candidate`, repair of failing code | loop, coder judge, bridge |
| Coded-fix bridge (`stages/fix_pipeline.py`) | request table and reader thread in the sandbox; pool, budgets and call records on the host | call, reply, watchdog, shutdown | sandboxed subprocess |
| `AutoDiagnoseLoop` (`legacy.py`, `checkpoint.py`, `store.py`) | checkpoint and heartbeat files, the lines of the store | `run`, `resume`, completion and end hooks | git manager, store |
| run logging, artifacts, git; M1; M2/M3 analysis; statistics; analyzers; models; agent runtime; contract and reporting; benchmark, datasets, CLI | files, tables, wrappers | formatting, numeric work, I/O | all of the above |

`PROJECT.json` lists every component with its status and, under `hazards`, each
place where the code is hard to test. The hard behaviours:

- **protocol sequences**: the five public calls may be made in any order, any
  number of times, on a loop object that keeps notes between them; a judge picks
  the agentic loop's tools freely;
- **stale state**: two views of one fact (board and run state, report and
  outcome, verdict and later refutation) and caches that outlive a call;
- **ordering**: a verdict taken before data is adjudicated, or data read before
  a candidate is frozen;
- **crashes and interleavings**: the outbox publishes outside its lock and
  transaction; the checkpoint and heartbeat are two writes; bridge calls share
  a pipe;
- **termination** of a loop whose next step a judge chooses.

What makes each part correct:

- *VLDiagnoseLoop*: mining reads EXPLORE only; holdout verdicts come from one
  pass over held-out cases; in the modes that reserve a final partition nothing
  before its gate has read it; a fix shown on a report was scored there; the
  repair proposer has evidence; the report agrees with itself.
- *AgenticDiagnoseLoop*: one test per hypothesis, on adjudicated statistics; the
  gates read off the board open exactly on what the run state supports; one
  final scoring; the run ends.
- *Outbox*: at-least-once delivery under crashes and several processes.
- *Fix ladder*: a reported fix is among the e-BH survivors of everything the call
  tried, or passed its one final test; the ceiling holds; a tier is opened only
  after the cheaper ones failed; the agent's settings survive the call.
- *Bridge*: a reply reaches its own caller; no caller waits for ever; the limits
  hold under concurrency; the guard lets through exactly what the recorded
  replies support.
- *Checkpoint and resume*: no cycle is repeated or skipped, whatever crashes; the
  store lacks no more of what the checkpoint calls complete than failed and torn
  appends account for; the heartbeat is never ahead.

## 2. Modules and how they correspond to the code

### DiagnoseLoop

One session of public calls on one loop object and one batch. `pc` is the stage
the active call is at and `op` which call it is; a call starts only when `pc =
"idle"` (the class is used from one thread). The actions are the calls and the
stages: `StartRun`, `StartAnalysis`, `StartConfirm`, `CycleHead`, `M1`, `M2`,
`M3Error` (one failed attempt of the bounded retries), `M3`, `M4`, `ConfirmTest`,
`HoldoutPass`, `RunM5`, `StartFix`, `FixSearch`, `FixGate`, `FixRaises`.

The data is abstracted to the one thing the discipline is about: `basis[a]` is
the set of cases artifact `a` (explorer notes, probe results, statistics,
hypotheses, verdicts, M5 experiment, repair candidates) has been computed from,
directly or through an artifact it was computed from. Each stage adds what the
code passes to it. `Init` ranges over every partition `_split_partitions` can
return for every `confirm_split` and `test_split`, with and without `val_data`,
including the roundings that make a requested test split vanish. Model, judge
and coder answer nondeterministically: M1 may find nothing, M3 may return any
subset of the hypotheses, M4 any verdict for each, the search any result.
`None` is Python's None; `descriptive` is the deferred e-BH flag.

### AgenticLoop

One `AgenticDiagnoseLoop.run`. A step is one turn of the `while` loop: the
budget check, the judge's answer (`valid`, or replaced by `Fallback`), the call
limit, the precondition (`Ready`), the tool and the end-of-turn streak check.
The board (`probed`, `found`, `shownConfirmatory`, `rows`) and the run state
(`stats`, `pending`, `results`, ...) are separate variables because the code keeps
them separately and they can disagree. `Refuse` is a call the dispatcher or the
stop tool turns away; it is charged and logged like any other. `Raise` is a
stage exception that leaves `run()` with no report. Tools that only add context
for M3 are the set `Gather`.

### Outbox and Delivery

`Outbox` is the SQLite table and the command that feeds and drains it, run by
several processes at once. The atomic steps are the code's transactions: one
`INSERT OR IGNORE`, one `SELECT` of the first `Limit` ready rows, one `DELETE` or
back-off `UPDATE`; `Publish` happens between them, outside the lock, and only
fills the SDK's buffer (external: uploads later, or loses the buffer when the
process dies). `DrainRaises` is a statement that fails inside a drain (`flush`
catches it and warns); a failing `enqueue` ends the command like `Crash`.
`Wake` is `next_attempt_at` passing: back-off times are abstracted to waiting and
ready. `Delivery` is the abstract promise: accepted events stay queued until
handed over at least once. `Outbox!ImplementsDelivery` instantiates it with the
table as the queue.

### FixLadder

Calls of `run_fix` one after another with one agent: what `DiagnoseLoop` takes for
one search step. `SingleCall` and `LadderCall` are the two paths (without and with
`auto_escalate`), `OpenRung` a turn of the `for tier in _LADDER` loop, `Validate`,
`NextRound` and `CloseFamily` the agent's rounds and its e-BH, `Merge` the second
e-BH over the union, `Select`, `NoneSelected` and `Confirm` the held-out path, and
`Abandon` an exception anywhere in a search. `GiveBack` is what the three `finally`
clauses do, and no more: `max_tier` is restored to the ceiling in one of them and
not at all in the other two. A validation is its tier and its statistics; `e` is
counted in units in which the gate `1/alpha` is `Gate`, -1 is a missing e-value.
`ebh` is e-BH as a set; `ebhLoop` is the code's sort and scan, and `EbhIsTheLoop`
compares the two on every family a call forms.

The correspondence the two definitions rest on is proved in `EbhProofs`.

### RemoteCall and Bridge

`Bridge` is both ends of `run_coded_pipeline`. In the sandbox: the callers
(`Call`, `Enter`, `Write`, `Return`), the request table and the reader thread
(`ReadReply`, `Route`, `ReadEOF`) under one lock. On the host: the loop over the
subprocess's output (`Dispatch`, `Refuse`, `ReadResult`, `ReadEnd`), the service of
a call inline or by the pool (`StartJob`, `Serve`, `TakeStdin`, `Send`), the watchdog
(`Timeout`), the shutdown that does not wait for calls in service (`Finish`), and
the consensus guard, one case a step (`Guard`), while those calls still add to the
records it reads. A pipe takes any number of small messages; a message in
`BigRequest` or `BigReply` is larger than a pipe and is written only while the other
end reads. The subprocess exits or is killed, and the host dies, at any moment.
`RemoteCall` is the promise: each call is served at most once and returns its own
reply, or an error when the service is down.

### Journal and Resume

`Resume` is `AutoDiagnoseLoop` over a run directory. The files (`checkpoint`,
`heartbeat`, `stored`, `ragged`, `lessons`, `committed`) survive `Crash`; the loop's
variables do not. `Fresh`, `Resume` and `Again` are the three ways a run begins; `Stop`,
`Probe`, `Diagnose`, `Operate` and `Judge` the cycle with its early ends;
`WriteCheckpoint` (an atomic replacement), `TruncateHeartbeat` and `WriteHeartbeat`
(written in place) and `EndLoop` the hooks; `Raise` an exception of an agent or of a
checkpoint or heartbeat that cannot be written, after which the instance may be run
again.

A probe's results are appended to the store one by one, in any order. `AddResult` is
an append that writes its line, `AddFails` one that raises `OSError`: `_append` only
warns, the loop goes on and the cycle will be marked complete without that result.
A failed append, or a crash inside one, may leave a broken line (`ragged`). The next
append, of whichever cycle and process, continues that line, and `_load` skips the
two as one. `stored` is the set of results a load returns (a cycle that is run again
appends its results again: a line of an earlier attempt stands for that result too);
`errors` and `tears` count the faults. A run's id is the second it was built
in, so a new loop may share it with another. `Journal` is the promise: cycles are
worked on one after the other, never again once complete, none left out.

## 3. Runs

| run | configuration | shows |
|---|---|---|
| `diagnose_loop` | 4 cases, 1 validation case, 2 hypotheses, 2 cycles, 1 retry, 1 lead, 3 calls, symmetric cases and hypotheses | the eight invariants below |
| `frozen_candidate` | 1 hypothesis, 2 calls | violation: a coded candidate is rewritten from its failure on the final partition |
| `fix_ladder` | 2 rungs and L4, 3 validations of 4 kinds, 2 rounds, ceilings none, 0 and L4, any number of calls | seven invariants and that every call ends |
| `fix_recommends` | the same | violation: a call returns neither a fix nor a recommendation |
| `agentic_loop` | 2 hypothesis objects, up to 8 actions, limits of 1 and 2 calls, streak limit 2, a token budget of 1 and a time budget | six invariants, an action property and termination |
| `agentic_false_success` | streak limit 3 | violation: success declared on a protocol-inconsistent hypothesis |
| `bridge` | 2 threads, 2 requests of 3 kinds (one larger than a pipe, with such a reply), 2 workers, budget 2, case cap 1, support 1 | five invariants, refinement of `RemoteCall`, two liveness properties |
| `bridge_serial` | 3 threads, 3 large requests, served inline | violation: caller, reader and host deadlock |
| `bridge_frozen` | frozen-model control with the guard | violation: the control never shows an answer the code computed |
| `resume` | 3 cycles, 2 results each, 2 hypotheses, a clock of 2 seconds, any number of crashes and exceptions, one failed or torn append | three invariants and refinement of `Journal` |
| `outbox` | 2 events, 2 processes, drains of 2 | refinement of `Delivery` and eventual hand-over |
| `outbox_starved` | 3 events, 1 process, drains of 1 | violation: the tail of a run larger than two drains is never delivered |

**Why the bounds are enough.** Four cases are the fewest `_split_partitions`
divides, and allow every shape of partition (two-way, three-way, absent,
test split rounded away). Two hypotheses separate "this one" from "another one";
two cycles let a verdict of the first feed the second; three calls reach
run-confirm-fix, fix-M5-fix and run-run-fix. `MaxCalls` is a bound of the model;
the theorems hold for any number. In the agentic loop eight actions fit the
longest chain that matters (probe, stats, propose, test, propose, test, fix,
stop). `calls` is counted up to each tool's limit, since the code only compares
it with that limit. In the fix ladder two rungs stand for the five (the
loop treats all rungs alike), and three validations of four kinds are the fewest
with which the union culls a winner of its family or revives a culled one; the
calls are not bounded. In the bridge two threads and two requests give every
overlap of two calls, at the limit of either counter (the case cap is also
exceeded; that the budget is never exceeded is `LimitsHold`, since a third request is
out of this run's reach); the serial deadlock needs a
third thread, because one caller must hold the lock, one reply be in the reader's
hand and one be on its way. Three cycles let a run be broken off twice and still
have a cycle to skip or repeat, and the clock lets two loops share a second or follow each other. One fault of the
store is enough to lose two results, in one cycle or in two; how several add up is
the theorem's part.
In the outbox, two events and two processes give every
overlap of two drains. A drain of two rows covers the whole table, which is the
condition under which eventual delivery holds (section 4).

**Properties of `diagnose_loop`.** `MinedOnExplore` (hypotheses read no held-out
case, over any order of calls), `VerifiedOnHoldout`, `FinalUntouched` (in every
mode that reserves a final partition), `FixedOnFinal` (also for an outcome left
over when a later call raised), `ProposerEvidence`, `ReportConsistent`,
`TestsConfirmatory`, and `TypeOK`.

**Properties of `agentic_loop`.** `TestedOnce`, `DiscoveryKept` (the board never
hides a discovery), `FixServesVerified` (the fix tool's precondition is read off
the board, which may disagree with the results), `BoardAgrees`,
`TestsAdjudicated`, `FinalScoredOnce`, `Terminates`, and `TypeOK`.

**Properties of `fix_ladder`.** `Restored` (what a call borrowed it gives back,
exceptions included), `CertifiedByFamily`, `WithinCeiling`, `EscalatesOnFailure`,
`LoggedOnce`, `EbhIsTheLoop`, `CallEnds`, and `TypeOK`.

**Properties of `bridge`.** `ImplementsRemoteCall`, `SeenIsRecorded` (what the code
was told the guard knows), `WithinLimits`, `GuardSound` and `SupportedIsKept` (the
guard is neither too lax nor too strict while late calls move its records),
`CallsReturn` (without help from the watchdog), `SessionEnds`, and `TypeOK`.

**Properties of `resume`.** `ImplementsJournal`, `LossIsBounded` (a load lacks at most
two results of complete cycles for each failed append and one for each torn by a
crash; the bound is attained), `HeartbeatFollows`, and `TypeOK`.

**Properties of `outbox`.** `NothingForgotten`, `ImplementsDelivery`,
`EventuallyHanded`, and `TypeOK`.

## 4. Fairness

- `AgenticLoop`: `WF(Next)`. The `while` loop is one thread, every judge answer is
  caught and replaced if useless, and tools have timeouts of their own; so the
  loop always comes to its next turn. `Terminates` needs no more.
- `Outbox`: weak fairness of each process's command, of its start (the caller
  re-runs the command: `drain` retries "on a later flush"), and of each row's
  `Wake` (back-off is at most 300 s); and faults (crash, failed publish, failed
  statement) happen any number of times but not for ever. `Fault` excludes the
  steps that are also a normal end of a flush. Under the same fairness eventual
  delivery fails once the run has more events than two drains select, which is
  the `outbox_starved` finding; the code's limit is 100.
- `FixLadder`: weak fairness of the rung, of ending a round and of the closing
  steps: one thread, and a round has finitely many candidates. `Validate` and
  `Abandon` need not happen.
- `Bridge`: weak fairness of each thread that can go on: a caller inside a call,
  the reader, the host's loop, each job of the pool (a model call returns). None of
  the code's own steps (calling, printing, exiting), of the watchdog or of a crash:
  `CallsReturn` must not rest on the watchdog, which fires after minutes.
- `DiagnoseLoop` and `Resume` state safety only: a session may stop after any
  call, and a process may stay dead.

## 5. Findings

Six disagreements between the code and its own words, each with its run;
`PROJECT.json` quotes the lines. TLC shows each on one instance; a theorem says for
every value of the constants how far it reaches:

- `frozen_candidate`: the winner is rewritten after the final partition was read.
  `OnlyTheFinalRunThaws`: nothing but that rewrite ever breaks the property;
- `fix_recommends`: the second e-BH leaves a call with neither a fix nor a
  recommendation, or with both. `OnlyTheMergeForgets`: every other way a call
  returns gives exactly one of the two;
- `agentic_false_success`: the board forgets inconsistency when it is rebuilt.
  `ForgottenByProposals`: only a proposal makes the board show support that is not
  verified, and success was at least tested (`SuccessRestsOnATest`);
- `bridge_serial`: with inline service and messages larger than a pipe the bridge
  deadlocks, because a request is written under the lock its reader needs.
  `NoOpenCallIsStuck`: with a pool, or with one direction's messages fitting the
  pipe, it cannot;
- `bridge_frozen`: the frozen-model control runs under a guard that hides what it
  is meant to show. `FrozenControlIsBlind`: it does so for every record, code and
  support, not just in this instance;
- `outbox_starved`: a deleted row no longer de-duplicates, so each backfill starts
  over. `ShortRunsAreDrained`: a run of at most `Limit` events is not affected.

Other disagreements met in the same models, whose runs were given up for those of
the newer modules, or which need no run to see:

- in the default two-way split M4's held-out pass reads CONFIRM before the repair
  is frozen there (`loop.py:1744`);
- the agentic tools lose the surgery verdict before the fix (`agentic/tools.py:402`
  against `loop.py:1750`), never charge the token budget (`agentic/board.py:33`
  against `loop.py:370`) and test on the mined partition although the batch was
  split (`agentic/tools.py:361` against `loop.py:333`);
- the outbox deletes a row once the SDK has buffered it, so a crash loses the
  event (`outbox.py:105` against `outbox.py:6`);
- a ladder, or an explicit `max_tier`, replaces the agent's configured tier for
  good (`loop.py:1883`; the docstring says "the agent's configured tier
  otherwise");
- a run that resolved its problem and crashed between its checkpoint and the end
  hook is, when resumed, an unresolved run, and its working tree is reset
  (`legacy.py:478`; `git_manager.py` says every successful run is committed);
- a loop built on the directory of another one in the same second has its id and
  continues its run (`legacy.py:187`, `257`); a resumed run starts again with an
  empty token count and confidence history; a `JsonlStore` holds a cycle's
  hypotheses as they were before M5;
- the store is called durable (`CHANGELOG.md:1231`, `docs/architecture.md:497`), yet a
  failed append is only logged, and the torn line it or a crash may leave takes the
  next whole one with it, as `_append` does not begin on a line of its own
  (`store.py:211`, `227`). `StoreLossesAreBounded` says how much that can cost;
- an empty prompt given to `model_generate` makes a request of its own signature,
  which the guard counts as an enhanced one; `create_experiment_branch` has no
  caller.

## 6. Proofs

All theorems are about the specifications above, for every value of the
constants under the named assumptions: `SizeAssumption`, `CaseAssumption` (the
validation cases are not in the batch), `NoneAssumption` and
`ReasonAssumption` (None is no stop reason) in `DiagnoseLoop`;
`GatherAssumption`, `LimitAssumption` in `AgenticLoop`; `SizeAssumption` in
`Outbox`; `FixAssumption`, `BridgeAssumption`, `ResumeAssumption`. Five theorems
assume more, and say so: `OneFinalScore` (one call of `run_fix`), `TurnsAreFinite`
(`MaxActions > 0`), `SplitsArePartitions` (a finite, non-empty batch),
`NoOpenCallIsStuck` (`NoWaitCycle`) and `SessionsRunOut` (a finite set of cases).

**DiagnoseLoopProofs.** `TypeCorrect`, `MiningIsConfined`,
`FinalPartitionUntouched`, `FixesScoredOnFinal`, `VerdictsFromHoldout`,
`ProposerGated`, `StatsAdjudicated`. None of these is inductive: that a candidate
never read the final partition follows from what every earlier artifact has
read, and that from where the active call is. `IInv` adds that the partitions are
disjoint (lemma `SplitDisjoint` about `_split_partitions`), that a mining stage's
artifacts lie inside EXPLORE, that every other artifact lies inside the cases the
mode allows (`Allowed`), which call owns which stage (`ControlInv`), and that a
running or confirming call holds no deferred statistics. `ReportsAgree` rests on
an invariant of its own: a held-out status is the last thing a call sets, and in
holdout mode `run()` has no verdict to stop on. `SplitsArePartitions` says that
rounding drops no case and leaves EXPLORE at least one (`SplitDisjoint` said only
that the parts do not overlap); it is about the two draws, so it is an invariant
by itself. `CallsRunOut` counts the stages ahead of a call (`StepsLeft`: what is
left of the cycle, times the cycles left, plus the end of the call) and shows each
stage lowers the count, M3's retries included.

**AgenticLoopProofs.** `TypeCorrect`, `OneTestEach`, `BoardKeepsDiscoveries`,
`FixGated`, `BoardFlagAgrees`, `TestsOnAdjudicated`. The strengthening says that
the pending hypotheses were never tested and that the streak stays below its
limit while the run goes on; the lemma `RowsShowVerified` relates the rows the
board is rebuilt from to the results. `OneFinalScore` assumes what `tools.py`
registers, one call of `run_fix`, and follows from "every scoring is a logged call".
`SuccessRestsOnATest` and `ForgottenByProposals` bound the finding: `RowsBacked`
says a row that shows support stands for a result that had it.

**OutboxProofs.** `NeverForgotten` and `Refinement` (`Spec => Queue!Spec`), for
any number of events and processes. `IInv` adds that a batch holds recorded
events only and that the event a process is about to `DELETE` was handed over:
true although another process may have deleted, re-inserted or backed off the
same row in between. `TraceIsOfTheRun` is the converse of at-least-once: nothing
arrives that the run did not record. `ShortRunsAreDrained` is an argument about
`ORDER BY ... LIMIT`: what is selected past an event is a whole batch before it.
`CommandsAreFinite` measures a command by its rows and flushes left (`Sized` keeps
a batch within the limit).

**FixLadderProofs.** The run's invariants for any ladder, gate and statistics.
`IInv` adds what a call has borrowed at each stage (`Borrowed`),
where its current family begins (`Position`), that everything tried lies below the
ceiling (`BelowCeiling`), that every rung passed had no winner (`Escalated`), and
what has been logged so far (`LoggedOnce` is then its end). Three lemmas about e-BH
are theorems of their own: the correction only takes candidates away
(`SurvivorsClearTheGate`), overwhelming evidence survives any family
(`StrongEvidenceSurvives`), and one test needs no correction
(`OneTestNeedsNoCorrection`), which is why the final partition pays nothing for the
search. `CallsAreFinite` ranks a call by its rungs, then its rounds (`RoundsCounted`).

**EbhProofs.** `ScanIsTheSet` and `ScansAreTheSet`: the sort and prefix of
`stats/ebh.py` is the set the model reasons with. It needs induction over the family,
which the library offers only for operators; `FiniteSetInduction` does it with sets
instead, from the well-foundedness of the strict-subset order. From it come the
greatest element of a finite set, the existence of a sorted order (`Sorts`, so that
`CHOOSE` means something), and that what clears the last bar fills a prefix of
it. `SurvivorsPayForAll` is the self-consistency from which e-BH's control of false
discoveries follows (that step is probability and not ours), `MoreEvidenceKeeps` its
monotonicity; `FixesPayForTheSearch` turns it into a statement about `run_fix`: a
repair is charged for everything its call tried. `ImprovementsAreConfirmed` needs
that a best candidate exists (`BestExists`: ratios compared crosswise are a
preorder) and that `Above` is one too.

**BridgeProofs.** `Typing`, `RepliesAreOnRecord`, `LimitsHold`, `BridgeIsARemoteCall`
(`Spec => RPC!Spec`), `AnswersAreSound` and `SupportedAnswersAreKept`, for any number
of threads, workers, requests and cases. `Core` says that a request id belongs to
one open call (`Ids`), that a request on its way was never seen by the host
(`Queue`), that an answer with an output is on record (`Served`), and that what lies
in a slot is the answer to its own request (`Delivered`). `GuardInv` adds that a case
already judged stays judged rightly although the records go on growing: answers are
only added, and an anchor, once it exists, is an answer somebody got.
`FrozenControlIsBlind` adds that under the control every reply is the record
(`Replied`), so no other answer ever has a vote.

**BridgeProgress.** The safety half of the two liveness properties. `Whereabouts`
says where an open call can be (registered; on its way to the host, in service, on
its way back, in the reader's hand or in its slot) and who holds the lock; from it,
`NoOpenCallIsStuck` finds a thread whose guard is true. `NoStepIsWasted` says the
rest: a call passes ten milestones in order (`InOrder`), every step of a thread
takes some call past one, and no step of anybody takes one back. So an open call
returns as soon as threads that can go on do, which is what `Fairness` says.
`NoSessionIsStuck` and `SessionsRunOut` are the same two halves for a host whose
subprocess has ended: it always has a step, and each lowers `EndLeft` (the jobs'
milestones, the pipe, the phases of the shutdown and the guard's cases).

**ResumeProofs.** `Typing`, `StoreLossesAreBounded`, `HeartbeatNeverLeads` and
`CheckpointIsAJournal` (`Spec => J!Spec`), for any number of cycles, analyzers and
faults, any clock and any crashes. `IInv` adds that the cycle at hand is the one
after the checkpoint's (`InTurn`), and that runs come in the order of their ids: a
live process is of the checkpoint's run or a later one, the heartbeat of it or an
earlier one (`RunsInOrder`). The store's losses rest on a second invariant, the
account `PaidFor`: what the store was handed of the run (`Handed`: the results of
its complete cycles and those of the cycle at hand that are no longer pending) and
a load lacks, plus one if the file ends in a broken line, is at most two for each
append that failed and one for each that a crash cut short. `MarkedWereHanded` ties
it to the checkpoint: nothing is marked complete that was not handed over.
`CheckpointAdvances` and `RunsAreFinite` follow from `IInv`.

**Only model-checked.** The five liveness properties, `Terminates`, `EventuallyHanded`,
`CallEnds`, `CallsReturn` and `SessionEnds`: liveness under fairness is out of the
prover's reach, and so is ENABLED (guards stand for it above). What is proved of
them is the part that is safety: the run, call, command or session takes finitely
many steps (`TurnsAreFinite`, `CallsAreFinite`, `CommandsAreFinite`,
`NoStepIsWasted`, `SessionsRunOut`), and the bridge is never stuck. Every other property of a passing
run is a theorem.

## 7. Not modelled

- In `DiagnoseLoop`: exceptions that escape M1 or M2 of a call, custom agents
  whose results the loop cannot read, an `explore_report` handed to the
  constructor, logging and emitted events.
- In `AgenticLoop`: custom tool registries, the repair of malformed judge
  answers, evidence texts.
- In `Outbox`: spans, scores and exports of the tracer; the clock and the order
  between rows of different traces (a command drains one run).
- In `FixLadder`: how a tier proposes candidates (prompts, coder, GPU runs) and how
  code that fails is repaired; `fixed` is the gate on the statistics.
- In `Bridge`: image operations, the matching of answers beyond equality, the
  sandbox's start-up and import checks, and what attention requests return.
- In `Resume`: git beyond "committed or not", evolution of lessons, stores other
  than `JsonlStore`, and that store's file of hypotheses, which the same `_append`
  writes. A checkpoint that is there is taken to be readable: `read_checkpoint`
  answers an `OSError` as it does a missing file (`checkpoint.py:56`), and a run that
  met one would start over.
- Components marked `not_modelled` in `PROJECT.json`: M1 probing (independent
  analyzers in a pool, whose results are merged), M2/M3 analysis, statistics,
  analyzers, model wrappers, agent runtime, contract and reporting, benchmark and
  CLI. They are numeric code, wrappers, formatting and I/O without control state
  that outlives a call; where the models need their outcome it is a
  nondeterministic choice.

The model covers a small share of the repository's lines, because most of them are
of that second kind: of 135,000 lines a quarter is one notebook, and most of the
rest are reports, dashboards, prompts, analyzers and dataset scripts.

## 8. What could follow

1. An abstract agentic run (probe, test, decide once) that `AgenticLoop` implements,
   in place of one of its invariants.
2. `FixLadder` as a refinement of `DiagnoseLoop`'s `FixSearch`: the two share no
   variable but the outcome, and their partitions would have to be joined.
3. The repair of failing code inside a candidate (`_run_coded`), whose attempts
   share a work directory.
4. M1's pool: analyzers that time out while their results are merged.
5. `label_quarantine` and the artifact store, if their control turns out to be
   worth a module.
