------------------------ MODULE SFTCollection_proofs ------------------------
(***************************************************************************)
(* Proofs about SFTCollection for any tasks, any number of threads and any *)
(* number of launches.  The inductive invariant behind MergeReadsCommitted *)
(* is Protocol: what is on disk at each place of collect_one_task, and     *)
(* what a meta file that was closed promises.  That holds until a launch   *)
(* with --overwrite: killed half way it leaves old meta files beside new   *)
(* rows, and a launch without it trusts them.                              *)
(***************************************************************************)
EXTENDS SFTCollection, SumTheorems, TLAPS

\* The task a thread or the merge takes next is a task.
LEMMA NextIsTask ==
  ASSUME TypeOK, next \in DOMAIN TaskIds
  PROVE  TaskIds[next] \in Tasks /\ next + 1 \in 1 .. Len(TaskIds) + 1
<1>1. TaskIds[next] \in Tasks BY DEF Tasks
<1>2. DOMAIN TaskIds = 1 .. Len(TaskIds) /\ Len(TaskIds) \in Nat BY CollectionAssumption
<1>. QED BY <1>1, <1>2

\* Every step of a thread keeps the types.
LEMMA TypeCollect ==
  ASSUME TypeOK, NEW t \in Tasks, Collect(t)
  PROVE  TypeOK'
<1>. USE CollectionAssumption DEF TypeOK, Worker, Goto, Phases, disk, grpo, RowFile
<1>0. \A o \in Outcomes : o.succ \in Lines /\ o.cont \in Lines BY DEF Outcomes
<1>1. CASE Start(t) BY <1>1, NextIsTask DEF Start
<1>2. CASE LoadMeta(t)
  <2>1. meta[t] \in Outcomes BY <1>2 DEF LoadMeta, Whole
  <2>. QED BY <1>2, <2>1 DEF LoadMeta
<1>3. CASE MetaUnreadable(t) BY <1>3 DEF MetaUnreadable
<1>4. CASE BeginRollouts(t) BY <1>4 DEF BeginRollouts
<1>5. CASE OpenRows(t) BY <1>5 DEF OpenRows
<1>6. CASE RolloutsRaise(t) BY <1>6 DEF RolloutsRaise
<1>7. CASE OpenContaminated(t) BY <1>0, <1>7 DEF OpenContaminated
<1>8. CASE OpenMeta(t) BY <1>0, <1>8 DEF OpenMeta
<1>9. CASE CloseMeta(t) BY <1>9 DEF CloseMeta
<1>10. CASE WriteFails(t) BY <1>10 DEF WriteFails
<1>. QED BY <1>1, <1>2, <1>3, <1>4, <1>5, <1>6, <1>7, <1>8, <1>9, <1>10 DEF Collect

\* Only tasks are held out.
LEMMA HoldoutsOfTasks == Holdouts \subseteq SUBSET Tasks
BY DEF Holdouts, HeldOut, Tasks

\* Every step of main(), a launch, a crash and the preparation keep the types.
LEMMA TypeMain ==
  ASSUME TypeOK, Launch \/ Main \/ Crash \/ Prepare
  PROVE  TypeOK'
<1>. USE CollectionAssumption DEF TypeOK, Phases, disk, grpo
<1>0. NoOutcome \in Outcomes BY DEF NoOutcome, Outcomes, Lines
<1>1. CASE Launch
  <2>1. args' \in [overwrite : BOOLEAN, holdout : SUBSET Tasks]
    BY <1>1, HoldoutsOfTasks DEF Launch
  <2>. QED BY <1>0, <1>1, <2>1 DEF Launch
<1>2. CASE CollectionFails BY <1>2 DEF CollectionFails
<1>3. CASE OpenMerge BY <1>3 DEF OpenMerge, NothingMerged
<1>4. CASE MergeTask
  <2>1. TaskIds[next] \in Tasks /\ next + 1 \in 1 .. Len(TaskIds) + 1
    BY <1>4, NextIsTask DEF MergeTask
  <2>2. PICK n \in Readable(rows[TaskIds[next]]) : merged' = MergedWith(TaskIds[next], n)
    BY <1>4 DEF MergeTask
  <2>3. n \in Nat BY <2>1, <2>2 DEF Readable, RowFile, Lines
  <2>4. merged' \in [train : Nat, holdout : Nat, eval : Nat, tasks : SUBSET Tasks]
    <3>1. CASE TaskIds[next] \in args.holdout
      <4>1. merged' = [merged EXCEPT !.holdout = @ + n, !.eval = @ + n]
        BY <2>2, <3>1 DEF MergedWith
      <4>2. merged.holdout + n \in Nat /\ merged.eval + n \in Nat BY <2>3
      <4>. QED BY <4>1, <4>2
    <3>2. CASE TaskIds[next] \notin args.holdout
      <4>1. merged' = [merged EXCEPT !.train = @ + n, !.tasks = @ \cup {TaskIds[next]}]
        BY <2>2, <3>2 DEF MergedWith
      <4>2. merged.train + n \in Nat /\ merged.tasks \cup {TaskIds[next]} \in SUBSET Tasks
        BY <2>1, <2>3
      <4>. QED BY <4>1, <4>2
    <3>. QED BY <3>1, <3>2
  <2>. QED BY <1>4, <2>1, <2>4 DEF MergeTask
<1>5. CASE OpenSummary BY <1>5 DEF OpenSummary
<1>6. CASE CloseSummary BY <1>6 DEF CloseSummary, CoveredSeen
<1>7. CASE Crash BY <1>7 DEF Crash
<1>8. CASE Prepare
  <2>. USE DEF Preparation
  <2>1. Split => summary.unseen \subseteq Tasks /\ summary.covered \subseteq Tasks
    BY DEF Split
  <2>2. CASE ReadTrainIds
    <3>1. PICK curriculum \in BOOLEAN :
            preparing' = [at |-> "ids", train |-> TrainIds(curriculum), val |-> {},
                          held |-> summary.unseen]
      BY <2>2 DEF ReadTrainIds
    <3>2. TrainIds(curriculum) \subseteq Tasks BY <2>1, <2>2 DEF ReadTrainIds, TrainIds
    <3>. QED BY <2>1, <2>2, <3>1, <3>2 DEF ReadTrainIds
  <2>3. CASE ReadValIds BY <2>1, <2>3 DEF ReadValIds
  <2>4. CASE WriteTrain BY <2>4 DEF WriteTrain
  <2>5. CASE WriteVal BY <2>5 DEF WriteVal
  <2>6. CASE PrepareStops
    <3>1. parquet' \in [train : SUBSET Tasks, val : SUBSET Tasks, unseen : SUBSET Tasks,
                        paired : BOOLEAN, agreed : BOOLEAN]
      <4>1. CASE UNCHANGED parquet BY <4>1
      <4>2. CASE parquet' = [parquet EXCEPT !.train = {}, !.paired = FALSE, !.agreed = FALSE]
        BY <4>2
      <4>3. CASE parquet' = [parquet EXCEPT !.val = {}, !.unseen = {}] BY <4>3
      <4>. QED BY <2>6, <4>1, <4>2, <4>3 DEF PrepareStops
    <3>2. preparing' = Absent /\ Preparation
      BY <2>6 DEF PrepareStops
    <3>. QED BY <3>1, <3>2 DEF Preparation
  <2>. QED BY <1>8, <2>2, <2>3, <2>4, <2>5, <2>6 DEF Prepare
<1>. QED BY <1>1, <1>2, <1>3, <1>4, <1>5, <1>6, <1>7, <1>8 DEF Main

\* The types hold in every state, for any tasks and any number of launches.
THEOREM CollectionTypes == Spec => []TypeOK
<1>1. Init => TypeOK
  BY CollectionAssumption
  DEF Init, TypeOK, NoOutcome, Outcomes, Lines, RowFile, Phases, NothingMerged
<1>2. TypeOK /\ [Next]_vars => TypeOK'
  <2>1. CASE UNCHANGED vars BY <2>1 DEF vars, TypeOK
  <2>. QED BY <2>1, TypeCollect, TypeMain DEF Next
<1>. QED BY <1>1, <1>2, PTL DEF Spec

-----------------------------------------------------------------------------
(* A task that was committed is skipped                                    *)

\* A launch without --overwrite does not collect a task whose meta is whole.
Skips(t) ==
  up = "collecting" /\ ~args.overwrite /\ pc[t] \in {"collecting", "rows", "cont", "meta"}
    => ~Whole(t)

Skipping == \A t \in Tasks : Skips(t)

\* A step of one thread leaves what is said of the other tasks.
LEMMA OtherTasks ==
  ASSUME TypeOK, NEW t \in Tasks, Collect(t), NEW u \in Tasks, u # t
  PROVE  /\ pc'[u] = pc[u] /\ got'[u] = got[u]
         /\ rows'[u] = rows[u] /\ cont'[u] = cont[u] /\ meta'[u] = meta[u]
<1>. USE DEF TypeOK, Goto, Worker, disk
<1>1. CASE Start(t) \/ LoadMeta(t) \/ MetaUnreadable(t) \/ BeginRollouts(t) \/ OpenRows(t)
  BY <1>1 DEF Start, LoadMeta, MetaUnreadable, BeginRollouts, OpenRows
<1>2. CASE RolloutsRaise(t) \/ OpenContaminated(t) \/ OpenMeta(t) \/ CloseMeta(t) \/ WriteFails(t)
  BY <1>2 DEF RolloutsRaise, OpenContaminated, OpenMeta, CloseMeta, WriteFails
<1>. QED BY <1>1, <1>2 DEF Collect

\* Threads run while main() collects, and leave it alone.
LEMMA ThreadsLeaveMain ==
  ASSUME NEW t \in Tasks, Collect(t)
  PROVE  up = "collecting" /\ UNCHANGED <<up, args, given, merged, summary, parquet, preparing>>
BY DEF Collect, Worker, grpo, Start, LoadMeta, MetaUnreadable, BeginRollouts, OpenRows,
       RolloutsRaise, OpenContaminated, OpenMeta, CloseMeta, WriteFails

\* The preparation of the parquet files reads the split and nothing else, and leaves
\* the collection alone.
LEMMA PreparationLeavesDisk ==
  Prepare => UNCHANGED <<up, args, next, pc, got, rows, cont, meta, merged, summary, launches, given>>
BY DEF Prepare, Preparation, ReadTrainIds, ReadValIds, WriteTrain, WriteVal, PrepareStops, disk

\* A step of a thread keeps its own task out of what is skipped, and changes no
\* file of a task that is committed.
LEMMA SkipsStep ==
  ASSUME TypeOK, Skipping, NEW t \in Tasks, Collect(t)
  PROVE  /\ Skips(t)'
         /\ Whole(t) /\ ~args.overwrite => rows'[t] = rows[t] /\ cont'[t] = cont[t] /\ meta'[t] = meta[t]
<1>0. up = "collecting" /\ up' = up /\ args' = args /\ Skips(t)
  BY ThreadsLeaveMain DEF Skipping
<1>. USE <1>0 DEF TypeOK, Worker, Goto, Skips, Whole, disk
<1>1. CASE Start(t) BY <1>1 DEF Start
<1>2. CASE LoadMeta(t) BY <1>2 DEF LoadMeta
<1>3. CASE MetaUnreadable(t) BY <1>3 DEF MetaUnreadable
<1>4. CASE BeginRollouts(t) BY <1>4 DEF BeginRollouts, TrustsMeta
<1>5. CASE OpenRows(t) BY <1>5 DEF OpenRows
<1>6. CASE RolloutsRaise(t) BY <1>6 DEF RolloutsRaise
<1>7. CASE OpenContaminated(t) BY <1>7 DEF OpenContaminated
<1>8. CASE OpenMeta(t) BY <1>8 DEF OpenMeta
<1>9. CASE CloseMeta(t) BY <1>9 DEF CloseMeta
<1>10. CASE WriteFails(t) BY <1>10 DEF WriteFails
<1>. QED BY <1>1, <1>2, <1>3, <1>4, <1>5, <1>6, <1>7, <1>8, <1>9, <1>10 DEF Collect

\* Every step keeps skipping the committed tasks.
LEMMA SkippingStep ==
  ASSUME TypeOK, Skipping, [Next]_vars
  PROVE  Skipping'
<1>1. ASSUME NEW t \in Tasks, Collect(t), NEW u \in Tasks PROVE Skips(u)'
  <2>1. CASE u = t BY <1>1, <2>1, SkipsStep
  <2>2. CASE u # t
    BY <1>1, <2>2, ThreadsLeaveMain, OtherTasks DEF Skipping, Skips, Whole
  <2>. QED BY <2>1, <2>2
<1>2. CASE Launch
  <2>1. \A t \in Tasks : pc'[t] = "queued" BY <1>2 DEF Launch
  <2>. QED BY <2>1 DEF Skipping, Skips
<1>3. CASE Main \/ Crash
  BY <1>3 DEF Main, CollectionFails, OpenMerge, MergeTask, OpenSummary, CloseSummary, Crash,
              Skipping, Skips
<1>4. CASE Prepare \/ UNCHANGED vars
  BY <1>4, PreparationLeavesDisk DEF vars, Skipping, Skips, Whole
<1>. QED BY <1>1, <1>2, <1>3, <1>4 DEF Next, Skipping

\* Skipping holds in every state.
LEMMA AlwaysSkipping == Spec => []Skipping
<1>1. Init => Skipping
  BY DEF Init, Skipping, Skips
<1>2. TypeOK /\ Skipping /\ [Next]_vars => Skipping'
  BY SkippingStep
<1>. QED BY <1>1, <1>2, CollectionTypes, PTL DEF Spec

\* Whatever flags the other launches were given, a launch without --overwrite
\* changes no file of a task that is committed.
THEOREM CommittedFilesStay == Spec => CommittedStays
<1>1. TypeOK /\ Skipping /\ [Next]_vars =>
        [\A t \in Tasks : Whole(t) /\ ~args.overwrite =>
           rows'[t] = rows[t] /\ cont'[t] = cont[t] /\ meta'[t] = meta[t]]_vars
  <2>. SUFFICES ASSUME TypeOK, Skipping, Next, NEW t \in Tasks, Whole(t), ~args.overwrite
                PROVE  rows'[t] = rows[t] /\ cont'[t] = cont[t] /\ meta'[t] = meta[t]
    OBVIOUS
  <2>1. ASSUME NEW u \in Tasks, Collect(u)
        PROVE  rows'[t] = rows[t] /\ cont'[t] = cont[t] /\ meta'[t] = meta[t]
    <3>1. CASE u = t BY <2>1, <3>1, SkipsStep
    <3>2. CASE u # t BY <2>1, <3>2, OtherTasks
    <3>. QED BY <3>1, <3>2
  <2>2. CASE Launch \/ Main \/ Crash
    BY <2>2 DEF Launch, Main, CollectionFails, OpenMerge, MergeTask, OpenSummary, CloseSummary,
                Crash, disk
  <2>3. CASE Prepare BY <2>3, PreparationLeavesDisk
  <2>. QED BY <2>1, <2>2, <2>3 DEF Next
<1>. QED BY <1>1, CollectionTypes, AlwaysSkipping, PTL DEF Spec, CommittedStays

-----------------------------------------------------------------------------
(* The protocol                                                            *)

\* The files of t hold what o says.
Holds(t, o) == rows[t] = o.succ /\ cont[t] = o.cont

\* What of a task is on disk at each place of collect_one_task.
Placed(t) ==
  /\ pc[t] = "cont" => rows[t] = got[t].succ
  /\ pc[t] = "meta" => Holds(t, got[t])
  /\ pc[t] = "settled" => meta[t] = got[t] /\ Holds(t, got[t])

\* While no launch overwrites, a whole meta tells what the files hold.
Kept(t) == Whole(t) => Holds(t, meta[t])

Protocol ==
  /\ up # "down" => args \in given
  /\ up # "down" /\ NoStaleMeta => \A t \in Tasks : Placed(t)
  /\ up \in {"merging", "summarising", "finished"} => \A t \in Tasks : pc[t] = "settled"
  /\ NeverOverwritten => \A t \in Tasks : Kept(t)

\* A step of a thread keeps its own task in place.
LEMMA PlacedStep ==
  ASSUME TypeOK, Protocol, NoStaleMeta, NEW t \in Tasks, Collect(t)
  PROVE  Placed(t)'
<1>0. Placed(t)
  BY ThreadsLeaveMain DEF Protocol
<1>. USE <1>0 DEF TypeOK, Worker, Goto, Placed, Holds, disk
<1>1. CASE Start(t) BY <1>1 DEF Start
<1>2. CASE LoadMeta(t)
  <2>1. NeverOverwritten BY <1>2 DEF LoadMeta, TrustsMeta, NoStaleMeta
  <2>2. Holds(t, meta[t]) BY <1>2, <2>1 DEF LoadMeta, Protocol, Kept
  <2>. QED BY <1>2, <2>2 DEF LoadMeta
<1>3. CASE MetaUnreadable(t) BY <1>3 DEF MetaUnreadable
<1>4. CASE BeginRollouts(t) BY <1>4 DEF BeginRollouts
<1>5. CASE OpenRows(t) BY <1>5 DEF OpenRows
<1>6. CASE RolloutsRaise(t) BY <1>6 DEF RolloutsRaise
<1>7. CASE OpenContaminated(t) BY <1>7 DEF OpenContaminated
<1>8. CASE OpenMeta(t) BY <1>8 DEF OpenMeta
<1>9. CASE CloseMeta(t) BY <1>9 DEF CloseMeta
<1>10. CASE WriteFails(t) BY <1>10 DEF WriteFails
<1>. QED BY <1>1, <1>2, <1>3, <1>4, <1>5, <1>6, <1>7, <1>8, <1>9, <1>10 DEF Collect

\* A step of a thread keeps the promise of its task's meta file: a committed
\* task is left alone, and one that commits has closed its files before.
LEMMA KeptStep ==
  ASSUME TypeOK, Protocol, Skipping, NeverOverwritten, NEW t \in Tasks, Collect(t)
  PROVE  Kept(t)'
<1>0. args.overwrite = FALSE /\ Placed(t) /\ Kept(t)
  BY ThreadsLeaveMain DEF Protocol, TypeOK, NoStaleMeta, NeverOverwritten
<1>1. CASE Whole(t)
  BY <1>0, <1>1, SkipsStep DEF Kept, Whole, Holds
<1>2. CASE CloseMeta(t)
  BY <1>0, <1>2 DEF CloseMeta, Worker, Goto, Placed, Kept, Holds, TypeOK
<1>3. CASE ~Whole(t) /\ ~CloseMeta(t)
  <2>1. ~Whole(t)'
    BY <1>3 DEF TypeOK, disk, Goto, Worker, Whole, Collect, Start, LoadMeta, MetaUnreadable,
                BeginRollouts, OpenRows, RolloutsRaise, OpenContaminated, OpenMeta, WriteFails
  <2>. QED BY <2>1 DEF Kept
<1>. QED BY <1>1, <1>2, <1>3

\* Every step keeps the protocol.
LEMMA ProtocolStep ==
  ASSUME TypeOK, Skipping, Protocol, [Next]_vars
  PROVE  Protocol'
<1>. USE DEF NoStaleMeta, NeverOverwritten
<1>1. ASSUME NEW t \in Tasks, Collect(t) PROVE Protocol'
  <2>1. up = "collecting" /\ up' = up /\ args' = args /\ given' = given
    BY <1>1, ThreadsLeaveMain
  <2>2. ASSUME NoStaleMeta, NEW u \in Tasks PROVE Placed(u)'
    <3>1. CASE u = t BY <1>1, <2>2, <3>1, PlacedStep
    <3>2. CASE u # t
      <4>1. Placed(u) BY <2>1, <2>2 DEF Protocol
      <4>. QED BY <1>1, <3>2, <4>1, OtherTasks DEF Placed, Holds
    <3>. QED BY <3>1, <3>2
  <2>3. ASSUME NeverOverwritten, NEW u \in Tasks PROVE Kept(u)'
    <3>1. CASE u = t BY <1>1, <2>3, <3>1, KeptStep
    <3>2. CASE u # t
      <4>1. Kept(u) BY <2>3 DEF Protocol
      <4>. QED BY <1>1, <2>1, <3>2, <4>1, OtherTasks DEF Kept, Holds, Whole
    <3>. QED BY <3>1, <3>2
  <2>4. args \in given BY <2>1 DEF Protocol
  <2>5. (NoStaleMeta' <=> NoStaleMeta) /\ (NeverOverwritten' <=> NeverOverwritten) BY <2>1
  <2>. HIDE DEF NoStaleMeta, NeverOverwritten
  <2>. QED BY <2>1, <2>2, <2>3, <2>4, <2>5 DEF Protocol
<1>2. CASE Launch
  <2>1. \A t \in Tasks : pc'[t] = "queued" BY <1>2 DEF Launch
  <2>2. args' \in given' /\ up' = "collecting" BY <1>2 DEF Launch
  <2>3. NeverOverwritten' => \A t \in Tasks : Kept(t)'
    BY <1>2, <2>1 DEF Launch, Protocol, Kept, Holds, Whole
  <2>. QED BY <2>1, <2>2, <2>3 DEF Protocol, Placed
<1>3. CASE CollectionFails \/ Crash
  BY <1>3 DEF CollectionFails, Crash, Protocol, Kept, Holds, Whole, disk
<1>4. CASE OpenMerge
  BY <1>4 DEF OpenMerge, Protocol, Placed, Kept, Holds, Whole, disk
<1>5. CASE MergeTask
  BY <1>5 DEF MergeTask, Protocol, Placed, Kept, Holds, Whole, disk
<1>6. CASE OpenSummary \/ CloseSummary
  BY <1>6 DEF OpenSummary, CloseSummary, Protocol, Placed, Kept, Holds, Whole, disk
<1>7. CASE Prepare \/ UNCHANGED vars
  BY <1>7, PreparationLeavesDisk DEF vars, Protocol, Placed, Kept, Holds, Whole
<1>. QED BY <1>1, <1>2, <1>3, <1>4, <1>5, <1>6, <1>7 DEF Next, Main

\* What is merged is what was committed, after any number of killed launches, with any
\* number of tasks and threads, by every launch that overwrites and by every other that
\* has none that overwrites before it.
THEOREM MergeCommitted == Spec => []MergeReadsCommitted
<1>1. Init => Protocol
  BY DEF Init, Protocol, Kept, Whole
<1>2. Protocol => MergeReadsCommitted
  BY DEF Protocol, MergeReadsCommitted, Placed, Holds
<1>3. TypeOK /\ Skipping /\ Protocol /\ [Next]_vars => Protocol'
  BY ProtocolStep
<1>. QED BY <1>1, <1>2, <1>3, CollectionTypes, AlwaysSkipping, PTL DEF Spec

-----------------------------------------------------------------------------
(* What is merged is what the summary counts                               *)

\* The tasks the loop of merge_success_files has gone through.
Passed == {TaskIds[i] : i \in 1 .. next - 1}

\* The data sets hold the successes of the tasks that were passed, and the summary
\* is that of all tasks.
Tally ==
  /\ up \in {"merging", "summarising", "finished"} =>
       /\ merged.train = Total("succ", Passed \ args.holdout)
       /\ merged.holdout = Total("succ", Passed \cap args.holdout)
       /\ merged.eval = merged.holdout
  /\ up \in {"summarising", "finished"} => next \notin DOMAIN TaskIds
  /\ up = "finished" =>
       /\ summary.train = merged.train /\ summary.holdout = merged.holdout
       /\ summary.successes = Total("succ", Tasks)

\* There are finitely many tasks, and their successes are numbers.
LEMMA FiniteTasks == IsFiniteSet(Tasks)
<1>. DEFINE D == DOMAIN TaskIds
<1>1. IsFiniteSet(D)
  <2>1. D = 1 .. Len(TaskIds) /\ Len(TaskIds) \in Int BY CollectionAssumption
  <2>. QED BY <2>1, FS_Interval
<1>. HIDE DEF D
<1>2. IsFiniteSet({TaskIds[i] : i \in D}) BY <1>1, FiniteImage
<1>. QED BY <1>2 DEF Tasks, D

\* The successes of a task are a number.
LEMMA SuccessesAreNumbers ==
  ASSUME TypeOK, NEW t \in Tasks
  PROVE  /\ got[t].succ \in Int
         /\ [u \in Tasks |-> got[u]["succ"]][t] = got[t].succ
BY CollectionAssumption DEF TypeOK, Outcomes, Lines

\* The sums are taken over disjoint sets of tasks.
LEMMA TotalOfUnion ==
  ASSUME TypeOK, NEW S \in SUBSET Tasks, NEW T \in SUBSET Tasks, S \cap T = {}
  PROVE  Total("succ", S \cup T) = Total("succ", S) + Total("succ", T)
<1>1. IsFiniteSet(S) /\ IsFiniteSet(T) BY FiniteTasks, FS_Subset
<1>. DEFINE f == [u \in Tasks |-> got[u]["succ"]]
<1>2. \A t \in S \cup T : f[t] \in Int BY SuccessesAreNumbers
<1>. HIDE DEF f
<1>3. SumFunctionOnSet(f, S \cup T) = SumFunctionOnSet(f, S) + SumFunctionOnSet(f, T)
  BY <1>1, <1>2, SumOfUnion
<1>. QED BY <1>3 DEF Total, f

\* One task more.
LEMMA TotalTakesIn ==
  ASSUME TypeOK, NEW S \in SUBSET Tasks, NEW t \in Tasks, t \notin S
  PROVE  Total("succ", S \cup {t}) = Total("succ", S) + got[t].succ
<1>1. IsFiniteSet(S) BY FiniteTasks, FS_Subset
<1>. DEFINE f == [u \in Tasks |-> got[u]["succ"]]
<1>2. \A u \in S \cup {t} : f[u] \in Int BY SuccessesAreNumbers
<1>3. f[t] = got[t].succ /\ got[t].succ \in Int BY SuccessesAreNumbers
<1>. HIDE DEF f
<1>4. SumFunctionOnSet(f, S \cup {t}) = f[t] + SumFunctionOnSet(f, S)
  BY <1>1, <1>2, SumTakesIn
<1>5. SumFunctionOnSet(f, S) \in Int BY <1>1, <1>2, SumIsInt
<1>. QED BY <1>3, <1>4, <1>5 DEF Total, f

\* The task merged next has not been passed; it has once the loop goes on.
LEMMA PassesOne ==
  ASSUME TypeOK, next \in DOMAIN TaskIds
  PROVE  /\ TaskIds[next] \in Tasks /\ TaskIds[next] \notin Passed
         /\ next' = next + 1 => Passed' = Passed \cup {TaskIds[next]}
<1>1. /\ next \in 1 .. Len(TaskIds) /\ Len(TaskIds) \in Nat
      /\ \A i, j \in 1 .. Len(TaskIds) : TaskIds[i] = TaskIds[j] => i = j
  BY CollectionAssumption
<1>2. TaskIds[next] \in Tasks BY DEF Tasks
<1>3. \A i \in 1 .. next - 1 : i \in 1 .. Len(TaskIds) /\ i # next BY <1>1
<1>4. TaskIds[next] \notin Passed BY <1>1, <1>3 DEF Passed
<1>5. ASSUME next' = next + 1 PROVE Passed' = Passed \cup {TaskIds[next]}
  <2>1. 1 .. next' - 1 = (1 .. next - 1) \cup {next} BY <1>1, <1>5
  <2>. QED BY <2>1 DEF Passed
<1>. QED BY <1>2, <1>4, <1>5

\* When the loop has ended, every task was passed.
LEMMA PassesAll ==
  ASSUME TypeOK
  PROVE  /\ Passed \subseteq Tasks
         /\ next \notin DOMAIN TaskIds => Passed = Tasks
<1>1. next \in 1 .. Len(TaskIds) + 1 /\ Len(TaskIds) \in Nat /\ DOMAIN TaskIds = 1 .. Len(TaskIds)
  BY CollectionAssumption DEF TypeOK
<1>2. \A i \in 1 .. next - 1 : i \in DOMAIN TaskIds BY <1>1
<1>3. next \notin DOMAIN TaskIds => 1 .. next - 1 = DOMAIN TaskIds BY <1>1
<1>. QED BY <1>2, <1>3 DEF Passed, Tasks

\* One pass of the loop adds the successes of its task to the tally.
LEMMA TallyMerge ==
  ASSUME TypeOK, Tally, NoStaleMeta, MergeReadsCommitted, MergeTask
  PROVE  Tally'
<1>. DEFINE t == TaskIds[next]
<1>1. t \in Tasks /\ t \notin Passed /\ Passed' = Passed \cup {t} /\ Passed \in SUBSET Tasks
  BY PassesOne, PassesAll DEF MergeTask
<1>2. up = "merging" /\ UNCHANGED <<up, args, got>> /\ up' = "merging"
  BY DEF MergeTask
<1>3. merged' = MergedWith(t, got[t].succ)
  <2>1. rows[t] = got[t].succ /\ got[t].succ \in Lines
    BY <1>1, <1>2 DEF MergeReadsCommitted, TypeOK, Outcomes
  <2>2. Readable(rows[t]) = {got[t].succ}
    BY <2>1, CollectionAssumption DEF Readable
  <2>. QED BY <2>2 DEF MergeTask
<1>4. /\ merged.train = Total("succ", Passed \ args.holdout)
      /\ merged.holdout = Total("succ", Passed \cap args.holdout)
      /\ merged.eval = merged.holdout
  BY <1>2 DEF Tally
<1>5. \A over : Total("succ", over)' = Total("succ", over)
  BY <1>2 DEF Total
<1>. HIDE DEF t
<1>6. CASE t \in args.holdout
  <2>1. Passed' \ args'.holdout = Passed \ args.holdout
    BY <1>1, <1>2, <1>6
  <2>2. Passed' \cap args'.holdout = (Passed \cap args.holdout) \cup {t}
    BY <1>1, <1>2, <1>6
  <2>3. merged' = [merged EXCEPT !.holdout = @ + got[t].succ, !.eval = @ + got[t].succ]
    BY <1>3, <1>6 DEF MergedWith
  <2>4. /\ merged'.train = merged.train /\ merged'.holdout = merged.holdout + got[t].succ
        /\ merged'.eval = merged.eval + got[t].succ
    BY <2>3 DEF TypeOK
  <2>5. Total("succ", (Passed \cap args.holdout) \cup {t}) =
          Total("succ", Passed \cap args.holdout) + got[t].succ
    BY <1>1, TotalTakesIn
  <2>. QED BY <1>2, <1>4, <1>5, <2>1, <2>2, <2>4, <2>5 DEF Tally
<1>7. CASE t \notin args.holdout
  <2>1. Passed' \ args'.holdout = (Passed \ args.holdout) \cup {t}
    BY <1>1, <1>2, <1>7
  <2>2. Passed' \cap args'.holdout = Passed \cap args.holdout
    BY <1>1, <1>2, <1>7
  <2>3. merged' = [merged EXCEPT !.train = @ + got[t].succ, !.tasks = @ \cup {t}]
    BY <1>3, <1>7 DEF MergedWith
  <2>4. /\ merged'.train = merged.train + got[t].succ /\ merged'.holdout = merged.holdout
        /\ merged'.eval = merged.eval
    BY <2>3 DEF TypeOK
  <2>5. Total("succ", (Passed \ args.holdout) \cup {t}) =
          Total("succ", Passed \ args.holdout) + got[t].succ
    BY <1>1, TotalTakesIn
  <2>. QED BY <1>2, <1>4, <1>5, <2>1, <2>2, <2>4, <2>5 DEF Tally
<1>. QED BY <1>6, <1>7

\* Only a launch is given arguments.
LEMMA ArgsStay ==
  ASSUME [Next]_vars, ~Launch
  PROVE  args' = args /\ given' = given
<1>1. CASE \E t \in Tasks : Collect(t) BY <1>1, ThreadsLeaveMain
<1>2. CASE Main \/ Crash
  BY <1>2 DEF Main, CollectionFails, OpenMerge, MergeTask, OpenSummary, CloseSummary, Crash
<1>3. CASE Prepare \/ UNCHANGED vars BY <1>3, PreparationLeavesDisk DEF vars
<1>. QED BY <1>1, <1>2, <1>3 DEF Next

\* Every step keeps the tally.
LEMMA TallyStep ==
  ASSUME TypeOK, Tally, NoStaleMeta, MergeReadsCommitted, [Next]_vars
  PROVE  Tally'
<1>1. ASSUME \/ \E t \in Tasks : Collect(t)
             \/ Launch \/ CollectionFails \/ Crash
      PROVE  Tally'
  <2>1. up' \in {"collecting", "down"}
    BY <1>1, ThreadsLeaveMain DEF Launch, CollectionFails, Crash
  <2>. QED BY <2>1 DEF Tally
<1>2. CASE OpenMerge
  <2>1. Passed' = {}
    BY <1>2 DEF OpenMerge, Passed
  <2>2. Total("succ", Passed \ args.holdout)' = 0 /\ Total("succ", Passed \cap args.holdout)' = 0
    BY <2>1, SumOfNone DEF Total
  <2>. QED BY <1>2, <2>2 DEF OpenMerge, NothingMerged, Tally
<1>3. CASE MergeTask BY <1>3, TallyMerge
<1>4. CASE OpenSummary
  BY <1>4 DEF OpenSummary, Tally, Total, Passed
<1>5. CASE CloseSummary
  <2>1. /\ summary'.train = merged.train /\ summary'.holdout = merged.holdout
        /\ summary'.successes = Total("succ", Tasks)
    BY <1>5 DEF CloseSummary
  <2>2. Total("succ", Tasks)' = Total("succ", Tasks)
    BY <1>5 DEF CloseSummary, Total
  <2>3. /\ Total("succ", Passed \ args.holdout)' = Total("succ", Passed \ args.holdout)
        /\ Total("succ", Passed \cap args.holdout)' = Total("succ", Passed \cap args.holdout)
    BY <1>5 DEF CloseSummary, Total, Passed
  <2>. QED BY <1>5, <2>1, <2>2, <2>3 DEF CloseSummary, Tally
<1>6. CASE Prepare \/ UNCHANGED vars
  BY <1>6, PreparationLeavesDisk DEF vars, Tally, Total, Passed
<1>. QED BY <1>1, <1>2, <1>3, <1>4, <1>5, <1>6 DEF Next, Main

\* summary.json counts the rows of the data sets, each once, after any number of killed
\* launches and with any tasks, whenever what is merged is what was committed.
THEOREM SummaryIsTrue == Spec => []SummaryTrue
<1>1. Init => (NoStaleMeta => Tally)
  BY DEF Init, Tally
<1>2. TypeOK /\ (NoStaleMeta => Tally) => SummaryTrue
  <2>. SUFFICES ASSUME TypeOK, Tally, up = "finished" PROVE SummaryTrue
    BY DEF SummaryTrue
  <2>1. Passed = Tasks BY PassesAll DEF Tally
  <2>. DEFINE A == Tasks \ args.holdout
              B == Tasks \cap args.holdout
  <2>2. A \in SUBSET Tasks /\ B \in SUBSET Tasks /\ A \cap B = {} /\ A \cup B = Tasks
    OBVIOUS
  <2>3. Total("succ", Tasks) = Total("succ", A) + Total("succ", B)
    BY <2>2, TotalOfUnion
  <2>. QED BY <2>1, <2>3 DEF Tally, SummaryTrue
<1>3. TypeOK /\ (NoStaleMeta => Tally) /\ MergeReadsCommitted /\ [Next]_vars =>
         (NoStaleMeta => Tally)'
  <2>. SUFFICES ASSUME TypeOK, NoStaleMeta => Tally, MergeReadsCommitted, [Next]_vars
                PROVE  (NoStaleMeta => Tally)'
    OBVIOUS
  <2>1. CASE Launch
    BY <2>1 DEF Launch, Tally
  <2>2. CASE ~Launch
    <3>1. args' = args /\ given' = given BY <2>2, ArgsStay
    <3>. QED BY <3>1, TallyStep DEF NoStaleMeta, NeverOverwritten
  <2>. QED BY <2>1, <2>2
<1>. QED BY <1>1, <1>2, <1>3, CollectionTypes, MergeCommitted, PTL DEF Spec

-----------------------------------------------------------------------------
(* What is held out                                                        *)

\* Whatever the launches hold out: a split keeps its own tasks apart, main() merges by the
\* split it will write, and a preparation labels by the tasks it writes.
HeldApart ==
  /\ Split => summary.covered \cap summary.unseen = {}
  /\ up \in {"merging", "summarising", "finished"} => merged.tasks \cap args.holdout = {}
  /\ up = "finished" => summary.unseen = args.holdout
  /\ preparing # Absent => preparing.train \cap preparing.held = {}
  /\ preparing # Absent /\ preparing.at = "val" => parquet.train = preparing.train
  /\ parquet.paired => parquet.unseen = parquet.val \ parquet.train
  /\ parquet.agreed => parquet.val \cap parquet.train = {}

\* One pass of the loop takes no task of the launch's hold-out set into train.jsonl.
LEMMA MergeHoldsOut ==
  ASSUME TypeOK, MergeTask
  PROVE  \/ merged'.tasks = merged.tasks
         \/ TaskIds[next] \notin args.holdout /\ merged'.tasks = merged.tasks \cup {TaskIds[next]}
<1>1. PICK n \in Readable(rows[TaskIds[next]]) : merged' = MergedWith(TaskIds[next], n)
  BY DEF MergeTask
<1>. QED BY <1>1 DEF MergedWith, TypeOK

\* Every step of a launch keeps the sets apart.
LEMMA HeldApartLaunches ==
  ASSUME TypeOK, HeldApart, Launch \/ Main \/ Crash \/ \E t \in Tasks : Collect(t)
  PROVE  HeldApart'
<1>. USE DEF grpo, Split
<1>1. ASSUME NEW t \in Tasks, Collect(t) PROVE HeldApart'
  BY <1>1, ThreadsLeaveMain DEF HeldApart
<1>2. CASE Launch BY <1>2 DEF Launch, HeldApart
<1>3. CASE CollectionFails \/ Crash \/ OpenSummary
  BY <1>3 DEF CollectionFails, Crash, OpenSummary, HeldApart
<1>4. CASE OpenMerge
  BY <1>4 DEF OpenMerge, NothingMerged, HeldApart
<1>5. CASE MergeTask
  BY <1>5, MergeHoldsOut DEF MergeTask, HeldApart
<1>6. CASE CloseSummary
  <2>1. summary'.unseen = args.holdout /\ summary'.covered = CoveredSeen
    BY <1>6 DEF CloseSummary
  <2>2. CoveredSeen \cap args.holdout = {} BY DEF CoveredSeen
  <2>. QED BY <1>6, <2>1, <2>2 DEF CloseSummary, HeldApart
<1>. QED BY <1>1, <1>2, <1>3, <1>4, <1>5, <1>6 DEF Main

\* Every step of the preparation keeps them apart, whatever was made of the split between
\* its two reads.
LEMMA HeldApartPreparation ==
  ASSUME TypeOK, HeldApart, Prepare
  PROVE  HeldApart'
<1>1. UNCHANGED <<up, args, merged, summary>> BY PreparationLeavesDisk
<1>. USE DEF Split, TypeOK
<1>2. CASE ReadTrainIds
  <2>1. PICK curriculum \in BOOLEAN :
          preparing' = [at |-> "ids", train |-> TrainIds(curriculum), val |-> {},
                        held |-> summary.unseen]
    BY <1>2 DEF ReadTrainIds
  <2>2. TrainIds(curriculum) \cap summary.unseen = {}
    BY <1>2 DEF ReadTrainIds, TrainIds, HeldApart
  <2>. QED BY <1>1, <1>2, <2>1, <2>2 DEF ReadTrainIds, HeldApart
<1>3. CASE ReadValIds BY <1>1, <1>3 DEF ReadValIds, HeldApart
<1>4. CASE WriteTrain BY <1>1, <1>4 DEF WriteTrain, HeldApart
<1>5. CASE WriteVal
  <2>1. /\ parquet'.train = preparing.train /\ parquet'.val = preparing.val
        /\ parquet'.unseen = preparing.val \ preparing.train
        /\ parquet'.agreed => preparing.held = preparing.val
    BY <1>5 DEF WriteVal, HeldApart
  <2>2. preparing.train \cap preparing.held = {} BY <1>5 DEF WriteVal, HeldApart
  <2>. QED BY <1>1, <1>5, <2>1, <2>2 DEF WriteVal, HeldApart
<1>6. CASE PrepareStops BY <1>1, <1>6 DEF PrepareStops, HeldApart
<1>. QED BY <1>2, <1>3, <1>4, <1>5, <1>6 DEF Prepare

\* HeldApart holds in every state.
LEMMA AlwaysHeldApart == Spec => []HeldApart
<1>1. Init => HeldApart
  BY DEF Init, HeldApart, Split
<1>2. TypeOK /\ HeldApart /\ [Next]_vars => HeldApart'
  <2>1. UNCHANGED vars /\ HeldApart => HeldApart'
    BY DEF vars, HeldApart, Split
  <2>. QED BY <2>1, HeldApartLaunches, HeldApartPreparation DEF Next
<1>. QED BY <1>1, <1>2, CollectionTypes, PTL DEF Spec

\* While the launches hold out the same tasks none of these is trained on, whatever
\* happens on the way; every split they leave holds out these tasks, and so does every
\* read of a preparation.
Separate ==
  /\ up # "down" => args \in given
  /\ merged.tasks # {} \/ parquet.train # {} => given # {}
  /\ \A a \in given : (merged.tasks \cup parquet.train) \cap a.holdout = {}
  /\ Split => \E a \in given : summary.unseen = a.holdout
  /\ parquet.val # {} => \E a \in given : parquet.val = a.holdout
  /\ preparing # Absent => \E a \in given :
       /\ preparing.held = a.holdout
       /\ preparing.at # "ids" => preparing.val = a.holdout

\* Every step of a launch keeps the one hold-out set apart.
LEMMA SeparateLaunches ==
  ASSUME TypeOK, Separate, OneHoldout', Launch \/ Main \/ Crash \/ \E t \in Tasks : Collect(t)
  PROVE  Separate'
<1>. USE DEF grpo, Split, OneHoldout
<1>1. ASSUME NEW t \in Tasks, Collect(t) PROVE Separate'
  BY <1>1, ThreadsLeaveMain DEF Separate
<1>2. CASE Launch
  <2>1. /\ given' = given \cup {args'} /\ args' \in given'
        /\ UNCHANGED <<merged, summary, parquet, preparing>>
    BY <1>2 DEF Launch
  <2>2. \A a \in given : a.holdout = args'.holdout BY <2>1
  <2>3. (merged.tasks \cup parquet.train) \cap args'.holdout = {}
    BY <2>2 DEF Separate
  <2>. QED BY <2>1, <2>3 DEF Separate
<1>3. CASE CollectionFails \/ Crash \/ OpenSummary
  BY <1>3 DEF CollectionFails, Crash, OpenSummary, Separate
<1>4. CASE OpenMerge
  BY <1>4 DEF OpenMerge, NothingMerged, Separate
<1>5. CASE MergeTask
  <2>1. /\ args \in given /\ UNCHANGED <<up, args, given, summary, parquet, preparing>>
        /\ \A a \in given : a.holdout = args.holdout
    BY <1>5 DEF MergeTask, Separate
  <2>. QED BY <1>5, <2>1, MergeHoldsOut DEF Separate
<1>6. CASE CloseSummary
  <2>1. summary'.unseen = args.holdout /\ args \in given
    BY <1>6 DEF CloseSummary, Separate
  <2>. QED BY <1>6, <2>1 DEF CloseSummary, Separate
<1>. QED BY <1>1, <1>2, <1>3, <1>4, <1>5, <1>6 DEF Main

\* Every step of the preparation keeps the one hold-out set apart.
LEMMA SeparatePreparation ==
  ASSUME TypeOK, HeldApart, Separate, OneHoldout, Prepare
  PROVE  Separate'
<1>1. UNCHANGED <<up, args, given, merged, summary>> BY PreparationLeavesDisk
<1>. USE DEF Split, TypeOK
<1>2. CASE ReadTrainIds BY <1>1, <1>2 DEF ReadTrainIds, Separate
<1>3. CASE ReadValIds
  <2>1. PICK a \in given : preparing.held = a.holdout BY <1>3 DEF ReadValIds, Separate
  <2>2. summary.unseen = a.holdout BY <1>3, <2>1 DEF ReadValIds, Separate, OneHoldout
  <2>. QED BY <1>1, <1>3, <2>1, <2>2 DEF ReadValIds, Separate
<1>4. CASE WriteTrain
  <2>1. parquet'.train = preparing.train /\ preparing.train \cap preparing.held = {}
    BY <1>4 DEF WriteTrain, HeldApart
  <2>2. PICK a \in given : preparing.held = a.holdout /\ preparing.val = a.holdout
    BY <1>4 DEF WriteTrain, Separate
  <2>3. \A b \in given : b.holdout = preparing.held BY <2>2 DEF OneHoldout
  <2>4. /\ preparing'.at = "val" /\ preparing'.held = preparing.held
        /\ preparing'.val = preparing.val /\ parquet'.val = parquet.val
    BY <1>4 DEF WriteTrain
  <2>. QED BY <1>1, <2>1, <2>2, <2>3, <2>4 DEF Separate
<1>5. CASE WriteVal BY <1>1, <1>5 DEF WriteVal, Separate
<1>6. CASE PrepareStops BY <1>1, <1>6 DEF PrepareStops, Separate
<1>. QED BY <1>2, <1>3, <1>4, <1>5, <1>6 DEF Prepare

\* Separate holds in every state in which all launches so far hold out the same tasks.
LEMMA AlwaysSeparate == Spec => [](OneHoldout => Separate)
<1>1. Init => (OneHoldout => Separate)
  BY DEF Init, Separate, Split, NothingMerged
<1>2. TypeOK /\ HeldApart /\ (OneHoldout => Separate) /\ [Next]_vars => (OneHoldout => Separate)'
  <2>1. SUFFICES ASSUME TypeOK, HeldApart, OneHoldout => Separate, [Next]_vars, OneHoldout'
                 PROVE  Separate'
    OBVIOUS
  <2>2. given \subseteq given'
    BY <2>1, ArgsStay DEF Launch
  <2>3. OneHoldout /\ Separate BY <2>1, <2>2 DEF OneHoldout
  <2>4. UNCHANGED vars => Separate'
    BY <2>3 DEF vars, Separate, Split
  <2>. QED BY <2>1, <2>3, <2>4, SeparateLaunches, SeparatePreparation DEF Next
<1>. QED BY <1>1, <1>2, CollectionTypes, AlwaysHeldApart, PTL DEF Spec

\* With any hold-out sets, no row of a task that split.json lists as unseen is in
\* train.jsonl once main() has ended; with one set so far, none is in any state.
THEOREM UnseenStay == Spec => []UnseenStaysUnseen
<1>1. HeldApart /\ (OneHoldout => Separate) => UnseenStaysUnseen
  BY DEF HeldApart, Separate, Split, UnseenStaysUnseen
<1>. QED BY <1>1, AlwaysHeldApart, AlwaysSeparate, PTL

\* With any hold-out sets and any launches between the two reads of the split, what was
\* read of splits that agree is validated on and not trained on; with one set so far, no task of
\* val.parquet is in train.jsonl or in train.parquet in any state.
THEOREM ValidationUnseen == Spec => []ValidatedOnUnseen
<1>1. HeldApart /\ (OneHoldout => Separate) => ValidatedOnUnseen
  BY DEF HeldApart, Separate, ValidatedOnUnseen
<1>. QED BY <1>1, AlwaysHeldApart, AlwaysSeparate, PTL

\* With any hold-out sets, and whatever launches make of the split between its two reads,
\* the rows of val.parquet labelled unseen are those of tasks train.parquet does not have.
THEOREM LabelsAreTrue == Spec => []LabelsTrue
<1>1. HeldApart => LabelsTrue
  BY DEF HeldApart, LabelsTrue
<1>. QED BY <1>1, AlwaysHeldApart, PTL
=============================================================================
