---------------------------- MODULE SFTCollection ----------------------------
(***************************************************************************)
(* collect_sft_data.py: a pool of threads collects the teacher's rollouts  *)
(* task by task, each task leaving a file of successes, a file of          *)
(* contaminated rollouts and, last, a meta file that commits them; main()  *)
(* then merges the committed files into the training and held-out sets and *)
(* writes the summary.  The script may be killed at any moment and be      *)
(* launched again over what it has left.  build_grpo_parquet.py makes the  *)
(* data sets of the reinforcement learning out of the split main() wrote,  *)
(* at any time, even while main() runs.                                    *)
(*                                                                         *)
(* Data.  A file of rows is the number of its lines; a file that was       *)
(* opened for writing and not closed is Partial: what of it is on disk is  *)
(* up to the buffers.  split.json and collect_config.json hold arguments   *)
(* of the launch, and are written with the summary.                        *)
(***************************************************************************)
EXTENDS Integers, Sequences, FiniteSetsExt, Functions

CONSTANTS TaskIds,        \* parse_task_ids, in order
          HoldoutSizes,   \* values of --holdout-size the launches are given
          BestOfN,        \* rollouts of a task
          NumWorkers,     \* threads of the pool
          OverwriteFlags, \* values of --overwrite the launches are given
          MaxLaunches,    \* bound of the model
          Absent,         \* a file that does not exist
          Partial         \* a file that was opened and not closed

Tasks == {TaskIds[i] : i \in DOMAIN TaskIds}
Lines == 0 .. BestOfN
Outcomes == {o \in [succ : Lines, cont : Lines] : o.succ + o.cont <= BestOfN}

ASSUME CollectionAssumption ==
  /\ TaskIds \in Seq(Nat)
  /\ \A i, j \in DOMAIN TaskIds : TaskIds[i] = TaskIds[j] => i = j
  /\ HoldoutSizes \subseteq Int
  /\ BestOfN \in Nat /\ NumWorkers \in Nat \ {0} /\ MaxLaunches \in Nat
  /\ OverwriteFlags \subseteq BOOLEAN
  /\ {Absent, Partial} \cap (Lines \cup Outcomes) = {} /\ Absent # Partial

\* build_split: every stride-th task is held out, none if that were all of them.
\* (The stride is a float: for a few sizes, as 22 of 30, a product is rounded below a
\* whole number and the task before is taken.)
HeldOut(size) ==
  IF size <= 0 \/ Len(TaskIds) <= size THEN {}
  ELSE {TaskIds[k] : k \in {n \in DOMAIN TaskIds :
                            \E i \in 0 .. size - 1 : n = (i * Len(TaskIds)) \div size + 1}}

Holdouts == {HeldOut(size) : size \in HoldoutSizes}

VARIABLES up,       \* where main() is
          args,     \* [overwrite, holdout] of the launch
          next,     \* index of the task submitted (then: merged) next
          pc,       \* where collect_one_task(t) is
          got,      \* successes and contaminated of t, in memory
          rows,     \* task_<t>.jsonl
          cont,     \* task_<t>_contaminated.jsonl
          meta,     \* task_<t>.meta.json
          merged,   \* [train, holdout, eval] files: lines of each; tasks: those in train
          summary,  \* summary.json and split.json
          launches, \* launches so far
          given,    \* history: the args of these launches
          parquet,  \* tasks of train.parquet and val.parquet, and of val's rows labelled unseen;
                    \* history: one process wrote both (paired), of one split (agreed)
          preparing \* where build_grpo_parquet.py is: the next of ids, train, val; what it
                    \* has read, and the tasks its first read held out

disk == <<rows, cont, meta>>
grpo == <<parquet, preparing>>
vars == <<up, args, next, pc, got, rows, cont, meta, merged, summary, launches, given, parquet, preparing>>

NoOutcome == [succ |-> 0, cont |-> 0]

Phases == {"queued", "started", "collecting", "rows", "cont", "meta", "settled", "raised"}
Working == {"started", "collecting", "rows", "cont", "meta"}

\* A meta file that was closed; meta_file.exists() is true of a Partial one too.
Whole(t) == meta[t] \notin {Absent, Partial}

NothingMerged == [train |-> 0, holdout |-> 0, eval |-> 0, tasks |-> {}]

Init ==
  /\ up = "down"
  /\ args = [overwrite |-> FALSE, holdout |-> {}]
  /\ next = 1
  /\ pc = [t \in Tasks |-> "queued"]
  /\ got = [t \in Tasks |-> NoOutcome]
  /\ rows = [t \in Tasks |-> Absent]
  /\ cont = [t \in Tasks |-> Absent]
  /\ meta = [t \in Tasks |-> Absent]
  /\ merged = NothingMerged
  /\ summary = Absent
  /\ launches = 0
  /\ given = {}
  /\ parquet = [train |-> {}, val |-> {}, unseen |-> {}, paired |-> FALSE, agreed |-> FALSE]
  /\ preparing = Absent

\* The script is started; every task is submitted to the executor.
Launch ==
  /\ up \in {"down", "finished"} /\ launches < MaxLaunches
  /\ up' = "collecting"
  /\ args' \in [overwrite : OverwriteFlags, holdout : Holdouts]
  /\ next' = 1
  /\ pc' = [t \in Tasks |-> "queued"]
  /\ got' = [t \in Tasks |-> NoOutcome]
  /\ launches' = launches + 1
  /\ given' = given \cup {args'}
  /\ UNCHANGED <<rows, cont, meta, merged, summary, grpo>>

-----------------------------------------------------------------------------
(* collect_one_task, in a thread of the pool                               *)

Worker == up = "collecting" /\ UNCHANGED <<up, args, merged, summary, launches, given, grpo>>

Goto(t, at) == pc' = [pc EXCEPT ![t] = at]

\* A free thread takes the next task.
Start(t) ==
  /\ up = "collecting" /\ next \in DOMAIN TaskIds /\ t = TaskIds[next]
  /\ Cardinality({u \in Tasks : pc[u] \in Working}) < NumWorkers
  /\ Goto(t, "started") /\ next' = next + 1
  /\ UNCHANGED <<got, disk>> /\ Worker

\* Wrong variant: the meta of an earlier launch is not looked at.
TrustsMetaNever(t) == FALSE

\* meta_file.exists() and not args.overwrite
TrustsMeta(t) == meta[t] # Absent /\ ~args.overwrite

\* The meta of an earlier launch is whole, and is returned.
LoadMeta(t) ==
  /\ pc[t] = "started" /\ TrustsMeta(t) /\ Whole(t)
  /\ got' = [got EXCEPT ![t] = meta[t]]
  /\ Goto(t, "settled")
  /\ UNCHANGED <<next, disk>> /\ Worker

\* An earlier launch was killed while it wrote the meta: json.load raises.
MetaUnreadable(t) ==
  /\ pc[t] = "started" /\ TrustsMeta(t) /\ ~Whole(t)
  /\ Goto(t, "raised")
  /\ UNCHANGED <<next, got, disk>> /\ Worker

BeginRollouts(t) ==
  /\ pc[t] = "started" /\ ~TrustsMeta(t)
  /\ Goto(t, "collecting")
  /\ UNCHANGED <<next, got, disk>> /\ Worker

\* Wrong variant: a contaminated rollout that succeeded is a success as well.
OpenRowsTwice(t) ==
  /\ pc[t] = "collecting"
  /\ \E succ, bad \in Lines : got' = [got EXCEPT ![t] = [succ |-> succ, cont |-> bad]]
  /\ rows' = [rows EXCEPT ![t] = Partial]
  /\ Goto(t, "rows")
  /\ UNCHANGED <<next, cont, meta>> /\ Worker

\* All rollouts are over: a contaminated one counts as such even if it succeeded,
\* one that failed or raised counts for nothing.  out_file is opened.
OpenRows(t) ==
  /\ pc[t] = "collecting"
  /\ \E o \in Outcomes : got' = [got EXCEPT ![t] = o]
  /\ rows' = [rows EXCEPT ![t] = Partial]
  /\ Goto(t, "rows")
  /\ UNCHANGED <<next, cont, meta>> /\ Worker

\* The environment cannot be built or reset (in a rollout, whatever raises after
\* that is caught).
RolloutsRaise(t) ==
  /\ pc[t] = "collecting"
  /\ Goto(t, "raised")
  /\ UNCHANGED <<next, got, disk>> /\ Worker

\* Wrong variant: the meta is written before the contaminated rows.
OpenContaminatedLast(t) ==
  /\ pc[t] = "rows"
  /\ rows' = [rows EXCEPT ![t] = got[t].succ]
  /\ meta' = [meta EXCEPT ![t] = got[t]]
  /\ cont' = [cont EXCEPT ![t] = Partial]
  /\ Goto(t, "cont")
  /\ UNCHANGED <<next, got>> /\ Worker

\* out_file is closed, contaminated_file opened.
OpenContaminated(t) ==
  /\ pc[t] = "rows"
  /\ rows' = [rows EXCEPT ![t] = got[t].succ]
  /\ cont' = [cont EXCEPT ![t] = Partial]
  /\ Goto(t, "cont")
  /\ UNCHANGED <<next, got, meta>> /\ Worker

\* contaminated_file is closed, meta_file opened.
OpenMeta(t) ==
  /\ pc[t] = "cont"
  /\ cont' = [cont EXCEPT ![t] = got[t].cont]
  /\ meta' = [meta EXCEPT ![t] = Partial]
  /\ Goto(t, "meta")
  /\ UNCHANGED <<next, got, rows>> /\ Worker

CloseMeta(t) ==
  /\ pc[t] = "meta"
  /\ meta' = [meta EXCEPT ![t] = got[t]]
  /\ Goto(t, "settled")
  /\ UNCHANGED <<next, got, rows, cont>> /\ Worker

\* A write fails (the disk is full, ...): the file stays as it is.
WriteFails(t) ==
  /\ pc[t] \in {"rows", "cont", "meta"}
  /\ Goto(t, "raised")
  /\ UNCHANGED <<next, got, disk>> /\ Worker

-----------------------------------------------------------------------------
(* main()                                                                  *)

\* Wrong variant: a failed future is waited for.
AllSettled == \A t \in Tasks : pc[t] = "settled"

\* Every future is done.  A failed one makes main() raise, but only after the
\* executor has waited for all the others.
AllDone == \A t \in Tasks : pc[t] \in {"settled", "raised"}

CollectionFails ==
  /\ up = "collecting" /\ AllDone /\ \E t \in Tasks : pc[t] = "raised"
  /\ up' = "down"
  /\ UNCHANGED <<args, next, pc, got, disk, merged, summary, launches, given, grpo>>

\* Wrong variant: the targets are opened for appending.
OpenMergeAppending ==
  /\ up = "collecting" /\ AllDone /\ \A t \in Tasks : pc[t] = "settled"
  /\ up' = "merging"
  /\ next' = 1
  /\ UNCHANGED <<args, pc, got, disk, merged, summary, launches, given, grpo>>

\* merge_success_files empties its three targets.
OpenMerge ==
  /\ up = "collecting" /\ AllDone /\ \A t \in Tasks : pc[t] = "settled"
  /\ up' = "merging"
  /\ next' = 1
  /\ merged' = NothingMerged
  /\ UNCHANGED <<args, pc, got, disk, summary, launches, given, grpo>>

\* Lines a reader finds in a file of rows.
Readable(file) == CASE file = Absent -> {0}
                    [] file = Partial -> Lines
                    [] OTHER -> {file}

\* Wrong variant: every success is trained on.
MergeTaskIntoAll(t, n) ==
  [merged EXCEPT !.train = @ + n, !.tasks = @ \cup {t},
                 !.holdout = @ + (IF t \in args.holdout THEN n ELSE 0),
                 !.eval = @ + (IF t \in args.holdout THEN n ELSE 0)]

\* One pass of the loop over the tasks: n lines go to train.jsonl, or to
\* holdout_train.jsonl and eval.jsonl.
MergedWith(t, n) ==
  IF t \in args.holdout
  THEN [merged EXCEPT !.holdout = @ + n, !.eval = @ + n]
  ELSE [merged EXCEPT !.train = @ + n, !.tasks = @ \cup {t}]

MergeTask ==
  /\ up = "merging" /\ next \in DOMAIN TaskIds
  /\ \E n \in Readable(rows[TaskIds[next]]) : merged' = MergedWith(TaskIds[next], n)
  /\ next' = next + 1
  /\ UNCHANGED <<up, args, pc, got, disk, summary, launches, given, grpo>>

Total(field, over) == SumFunctionOnSet([t \in Tasks |-> got[t][field]], over)

\* The targets are closed; summary.json and split.json are written.
OpenSummary ==
  /\ up = "merging" /\ next \notin DOMAIN TaskIds
  /\ up' = "summarising"
  /\ summary' = Partial
  /\ UNCHANGED <<args, next, pc, got, disk, merged, launches, given, grpo>>

\* Wrong variant: every task that succeeded counts as seen.
CoveredOfAll == {t \in Tasks : got[t].succ > 0}

\* covered_seen_task_ids
CoveredSeen == {t \in Tasks \ args.holdout : got[t].succ > 0}

CloseSummary ==
  /\ up = "summarising"
  /\ up' = "finished"
  /\ summary' = [successes |-> Total("succ", Tasks), contaminated |-> Total("cont", Tasks),
                 train |-> merged.train, holdout |-> merged.holdout, covered |-> CoveredSeen, unseen |-> args.holdout]
  /\ UNCHANGED <<args, next, pc, got, disk, merged, launches, given, grpo>>

\* The process is killed, or main() fails to write: what was closed stays.
Crash ==
  /\ up \in {"collecting", "merging", "summarising"}
  /\ up' = "down"
  /\ UNCHANGED <<args, next, pc, got, disk, merged, summary, launches, given, grpo>>

-----------------------------------------------------------------------------
(* build_grpo_parquet.py, run by prepare_grpo_data.sh on split.json         *)

Split == summary \notin {Absent, Partial}

\* The tasks to train on: the covered ones, or all that are seen if the curriculum is
\* on or nothing is covered.
TrainIds(curriculum) ==
  IF curriculum \/ summary.covered = {} THEN Tasks \ summary.unseen ELSE summary.covered

Preparation == UNCHANGED <<up, args, next, pc, got, disk, merged, summary, launches, given>>

\* The split is read for the tasks to train on; one that has none is refused.
ReadTrainIds ==
  /\ preparing = Absent /\ Split
  /\ \E curriculum \in BOOLEAN :
       /\ TrainIds(curriculum) # {}
       /\ preparing' = [at |-> "ids", train |-> TrainIds(curriculum), val |-> {},
                        held |-> summary.unseen]
  /\ UNCHANGED parquet /\ Preparation

\* The split is read again, as it is by now, for the tasks to validate on.
ReadValIds ==
  /\ preparing # Absent /\ preparing.at = "ids"
  /\ Split /\ summary.unseen # {}
  /\ preparing' = [preparing EXCEPT !.at = "train", !.val = summary.unseen]
  /\ UNCHANGED parquet /\ Preparation

WriteTrain ==
  /\ preparing # Absent /\ preparing.at = "train"
  /\ parquet' = [parquet EXCEPT !.train = preparing.train, !.paired = FALSE, !.agreed = FALSE]
  /\ preparing' = [preparing EXCEPT !.at = "val"]
  /\ Preparation

\* Wrong variant: what the split lists as unseen is labelled so.
LabelledBySplit ==
  /\ preparing # Absent /\ preparing.at = "val"
  /\ parquet' = [parquet EXCEPT !.val = preparing.val, !.unseen = preparing.val,
                                !.paired = TRUE, !.agreed = preparing.held = preparing.val]
  /\ preparing' = Absent
  /\ Preparation

\* A row of val.parquet is labelled seen if its task is one this process trains on.
WriteVal ==
  /\ preparing # Absent /\ preparing.at = "val"
  /\ parquet' = [parquet EXCEPT !.val = preparing.val, !.unseen = preparing.val \ preparing.train,
                                !.paired = TRUE, !.agreed = preparing.held = preparing.val]
  /\ preparing' = Absent
  /\ Preparation

\* The script is killed, or raises over a split that is torn or holds nothing out.  A
\* parquet file it was writing has no footer, and no row of it is read.
PrepareStops ==
  /\ preparing # Absent
  /\ \/ UNCHANGED parquet
     \/ /\ preparing.at = "train"
        /\ parquet' = [parquet EXCEPT !.train = {}, !.paired = FALSE, !.agreed = FALSE]
     \/ /\ preparing.at = "val"
        /\ parquet' = [parquet EXCEPT !.val = {}, !.unseen = {}]
  /\ preparing' = Absent
  /\ Preparation

Prepare == ReadTrainIds \/ ReadValIds \/ WriteTrain \/ WriteVal \/ PrepareStops

-----------------------------------------------------------------------------
Collect(t) ==
  \/ Start(t) \/ LoadMeta(t) \/ MetaUnreadable(t) \/ BeginRollouts(t) \/ OpenRows(t)
  \/ RolloutsRaise(t) \/ OpenContaminated(t) \/ OpenMeta(t) \/ CloseMeta(t) \/ WriteFails(t)

Main == CollectionFails \/ OpenMerge \/ MergeTask \/ OpenSummary \/ CloseSummary

Next == \/ Launch
        \/ \E t \in Tasks : Collect(t)
        \/ Main
        \/ Crash
        \/ Prepare

Spec == Init /\ [][Next]_vars

\* A submitted task runs when a thread is free, and main() goes on when it can.
FairSpec == Spec /\ WF_vars(Main) /\ \A t \in Tasks : WF_vars(Collect(t))

-----------------------------------------------------------------------------
(* Properties                                                              *)

RowFile == {Absent, Partial} \cup Lines

\* Type invariant: the places of main() and of the threads, the outcomes in
\* memory and the files.
TypeOK ==
  /\ up \in {"down", "collecting", "merging", "summarising", "finished"}
  /\ args \in [overwrite : BOOLEAN, holdout : SUBSET Tasks]
  /\ next \in 1 .. Len(TaskIds) + 1
  /\ pc \in [Tasks -> Phases]
  /\ got \in [Tasks -> Outcomes]
  /\ rows \in [Tasks -> RowFile]
  /\ cont \in [Tasks -> RowFile]
  /\ meta \in [Tasks -> {Absent, Partial} \cup Outcomes]
  /\ merged \in [train : Nat, holdout : Nat, eval : Nat, tasks : SUBSET Tasks]
  /\ \/ summary \in {Absent, Partial}
     \/ /\ summary.unseen \subseteq Tasks /\ summary.covered \subseteq Tasks
        /\ {summary.train, summary.holdout} \subseteq Nat
  /\ launches \in 0 .. MaxLaunches
  /\ given \subseteq [overwrite : BOOLEAN, holdout : SUBSET Tasks]
  /\ parquet \in [train : SUBSET Tasks, val : SUBSET Tasks, unseen : SUBSET Tasks,
                  paired : BOOLEAN, agreed : BOOLEAN]
  /\ preparing \in {Absent} \cup [at : {"ids", "train", "val"}, train : SUBSET Tasks,
                                  val : SUBSET Tasks, held : SUBSET Tasks]

\* No launch so far was given --overwrite.
NeverOverwritten == \A a \in given : ~a.overwrite

\* This launch need not trust a meta file that an overwriting one may have left standing.
NoStaleMeta == args.overwrite \/ NeverOverwritten

\* The launches so far hold out the same tasks.
OneHoldout == \A a, b \in given : a.holdout = b.holdout

\* What main() merges and sums up is what was committed: from the merge on, the
\* files of every task are closed and hold what its meta and the memory say,
\* however many launches were killed before this one; only a launch without --overwrite
\* after one with it may find old metas beside new rows.  (The order of the three files of
\* collect_one_task, and the test of the meta file that skips a task.)
MergeReadsCommitted ==
  NoStaleMeta /\ up \in {"merging", "summarising", "finished"} =>
    \A t \in Tasks : /\ meta[t] = got[t]
                     /\ rows[t] = got[t].succ
                     /\ cont[t] = got[t].cont

\* summary.json agrees with the data sets: the rows of train.jsonl and of
\* holdout_train.jsonl are the successes it counts, each once, and eval.jsonl
\* is the held-out set.  (merge_success_files after any number of launches.)
SummaryTrue ==
  NoStaleMeta /\ up = "finished" =>
    /\ summary.train = merged.train /\ summary.holdout = merged.holdout
    /\ summary.successes = merged.train + merged.holdout
    /\ merged.train = Total("succ", Tasks \ args.holdout)
    /\ merged.eval = merged.holdout

\* When main() has ended, train.jsonl has no row of a task split.json lists as unseen,
\* whatever earlier launches held out; and while they all hold out the same tasks, it has
\* none at any moment at which there is a split to read, not even while it is being
\* rewritten or after a launch was killed.  (merge_success_files; the evaluation and the
\* GRPO data preparation read split.json.)
UnseenStaysUnseen ==
  Split /\ (OneHoldout \/ up = "finished") => merged.tasks \cap summary.unseen = {}

\* No task the policy is validated on is trained on in the reinforcement learning, if one
\* process wrote both files out of splits with one hold-out set, whatever was held out
\* before or since; and while all launches hold out the same tasks, none is in a data set of
\* the distillation either, whichever launches and preparations were killed.
\* (build_grpo_parquet.py reads twice a split that launches rewrite.)
ValidatedOnUnseen ==
  /\ parquet.agreed => parquet.val \cap parquet.train = {}
  /\ OneHoldout => parquet.val \cap (merged.tasks \cup parquet.train) = {}

\* A row of val.parquet labelled unseen is of a task train.parquet beside it does not
\* have, and only such rows are labelled so, also when a launch with another hold-out set
\* rewrote the split between the two reads.  (The rows of val.parquet in
\* build_grpo_parquet.py, which compares with the ids of the first read.)
LabelsTrue == parquet.paired => parquet.unseen = parquet.val \ parquet.train

\* Without --overwrite no launch changes a file of a task an earlier launch has
\* committed.
CommittedStays ==
  [][\A t \in Tasks : Whole(t) /\ ~args.overwrite =>
       rows'[t] = rows[t] /\ cont'[t] = cont[t] /\ meta'[t] = meta[t]]_vars

\* A launch ends, finished or failed, whatever its tasks raise: main() is never
\* left waiting for a thread.
EveryLaunchEnds == up = "collecting" ~> up \in {"finished", "down"}
=============================================================================
