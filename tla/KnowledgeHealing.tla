-------------------------- MODULE KnowledgeHealing ---------------------------
(***************************************************************************)
(* The two background tasks of the leader that follow the parsing of the    *)
(* files of KnowledgeBase.  The refresher copies the state of RAGFlow to    *)
(* parse_status; the healer asks for another parse of what failed, stopped  *)
(* or hangs, up to a number of attempts counted in Redis.  Each works on a  *)
(* copy of the row that it scanned, across calls that take seconds, and     *)
(* writes by the row's id alone; between two writes anyone may have parsed, *)
(* overwritten or deleted the file.                                         *)
(***************************************************************************)
EXTENDS KnowledgeBase

CONSTANT MaxAttempts  \* SelfHeal.MaxAttempts, 3

ASSUME HealingConstants == MaxAttempts \in Nat \ {0}

VARIABLES
    refresh,  \* the refresher: what it does next, the id and remote document it scanned,
              \* the status it scanned or is about to write
    heal      \* the healer: what it does next, the id and remote document it scanned,
              \* whether the parse was accepted

tasks == <<refresh, heal>>
vars == <<base, tasks>>

RefreshIdle == [pc |-> "idle", id |-> None, remote |-> None, st |-> "none"]
HealIdle == [pc |-> "idle", id |-> None, remote |-> None, queue |-> FALSE]

Init == BaseInit /\ refresh = RefreshIdle /\ heal = HealIdle

\* normalizeRAGFlowRun; a document that the listing does not have counts as failed.
StatusOf(d) ==
    CASE run[d] = "unstart" -> "queued"
      [] Busy(d) -> "running"
      [] run[d] = "done" -> "completed"
      [] run[d] = "cancel" -> "stopped"
      [] OTHER -> "failed"

------------------------------------------------------------------------------
\* ListRAGFlowDocumentsNeedingRefresh.
RefreshScan ==
    /\ refresh.pc = "idle" /\ row.st \in {"queued", "running"}
    /\ refresh' = [pc |-> "list", id |-> row.id, remote |-> row.remote, st |-> row.st]
    /\ UNCHANGED <<base, heal>>

\* ListDocuments: an unchanged status is not written; when the listing fails, the scanned
\* status is written back.
RefreshList ==
    /\ refresh.pc = "list"
    /\ \/ /\ StatusOf(refresh.remote) = refresh.st
          /\ refresh' = RefreshIdle /\ UNCHANGED faults
       \/ /\ StatusOf(refresh.remote) # refresh.st /\ UNCHANGED faults
          /\ refresh' = [refresh EXCEPT !.pc = "write", !.st = StatusOf(refresh.remote)]
       \/ /\ Faulty
          /\ refresh' = [refresh EXCEPT !.pc = "write"]
    /\ UNCHANGED <<dataset, files, req, heal>>

\* A plausible mistake: a document that is missing in RAGFlow is left alone.
RefreshWriteFound ==
    /\ refresh.pc = "write" /\ refresh' = RefreshIdle
    /\ row' = IF row.id = refresh.id /\ run[refresh.remote] # "gone"
              THEN Written(refresh.st) ELSE row
    /\ UNCHANGED <<dataset, run, crossed, req, faults, heal>>

\* UpdateRAGFlowDocumentParseStatus, by the id alone: what it says may be out of date.
RefreshWrite ==
    /\ refresh.pc = "write" /\ refresh' = RefreshIdle
    /\ row' = IF row.id = refresh.id
              THEN [Written(refresh.st) EXCEPT
                        !.wrong = refresh.st = "completed" /\ run[row.remote] # "done"]
              ELSE row
    /\ UNCHANGED <<dataset, run, crossed, req, faults, heal>>

Refresh == RefreshScan \/ RefreshList \/ RefreshWrite

\* A running row has not been written for StuckThreshold: only a parse that hangs takes
\* so long.
RowAges ==
    /\ row.st = "running" /\ ~row.aged /\ run[row.remote] = "hung"
    /\ row' = [row EXCEPT !.aged = TRUE]
    /\ UNCHANGED <<dataset, run, crossed, req, faults, tasks>>

------------------------------------------------------------------------------
Failed == row.st \in {"failed", "stopped"}
Stuck == row.st = "running" /\ row.aged
HealBegins == heal' = [HealIdle EXCEPT !.pc = IF Stuck THEN "stop" ELSE "parse",
                                       !.id = row.id, !.remote = row.remote]

\* A plausible mistake: the mark is not looked at.
HealScanUnmarked ==
    /\ heal.pc = "idle" /\ (Failed \/ Stuck)
    /\ HealBegins
    /\ UNCHANGED <<base, refresh>>

\* The lists of Tick, and GivenUp, which counts as no when Redis fails.
HealScan ==
    /\ heal.pc = "idle" /\ (Failed \/ Stuck)
    /\ IF row.gaveUp THEN Faulty ELSE UNCHANGED faults
    /\ HealBegins
    /\ UNCHANGED <<dataset, files, req, refresh>>

\* StopParsing, its error ignored.
HealStop ==
    /\ heal.pc = "stop"
    /\ heal' = [heal EXCEPT !.pc = "parse"]
    /\ \/ (IF Busy(heal.remote) THEN SetRun(heal.remote, "cancel") ELSE UNCHANGED run)
          /\ UNCHANGED faults
       \/ Faulty /\ UNCHANGED run
    /\ UNCHANGED <<dataset, row, crossed, req, refresh>>

\* ParseDocuments: a document in process counts as accepted.
HealParse ==
    /\ heal.pc = "parse"
    /\ row' = IF row.id = heal.id THEN [row EXCEPT !.spent = @ + 1] ELSE row
    /\ \E accepted \in BOOLEAN :
        /\ heal' = [heal EXCEPT !.pc = "record", !.remote = None, !.queue = accepted]
        /\ IF accepted THEN Exists(heal.remote) /\ UNCHANGED faults
           ELSE IF Exists(heal.remote) THEN Faulty ELSE UNCHANGED faults
        /\ IF accepted /\ ~Busy(heal.remote) THEN SetRun(heal.remote, "running")
           ELSE UNCHANGED run
    /\ UNCHANGED <<dataset, crossed, req, refresh>>

\* RecordAttempt (INCR, then EXPIRE; when either fails the number is unknown),
\* MarkRAGFlowDocumentManualReparseQueued, and MarkGivenUp, whose error is ignored.
HealRecord ==
    /\ heal.pc = "record" /\ heal' = HealIdle
    /\ \E counted, told \in BOOLEAN :
        /\ told => counted
        /\ IF told THEN UNCHANGED faults ELSE Faulty
        /\ row' = IF row.id # heal.id THEN row
                  ELSE [(IF heal.queue THEN Written("queued") ELSE row) EXCEPT
                            !.attempts = IF counted THEN @ + 1 ELSE @,
                            !.gaveUp = @ \/ (told /\ row.attempts + 1 >= MaxAttempts)]
    /\ UNCHANGED <<dataset, run, crossed, req, refresh>>

Heal == HealScan \/ HealStop \/ HealParse \/ HealRecord

\* Both keys in Redis have a TTL, that of the count renewed by every attempt (six hours and
\* seven days); an INCR without its EXPIRE leaves a count that need not expire.  When the
\* mark goes, or the count before there is a mark, the healer starts over.
Resting == row.st = "completed" \/ row.gaveUp \/ run[row.remote] = "unstart"

\* While the healer has something to do for the file, only a leader that is away, or stops
\* ticking, lets so much time pass after an attempt.
CountExpires ==
    /\ row.attempts > 0
    /\ IF Resting THEN UNCHANGED faults ELSE Faulty
    /\ row' = [row EXCEPT !.attempts = 0, !.spent = IF row.gaveUp THEN @ ELSE 0]
    /\ UNCHANGED <<dataset, run, crossed, req, tasks>>

\* The count that led to the mark has gone before: a mark that goes first is lost by Redis.
MarkExpires ==
    /\ row.gaveUp
    /\ IF row.attempts < MaxAttempts THEN UNCHANGED faults ELSE Faulty
    /\ row' = [row EXCEPT !.gaveUp = FALSE, !.spent = 0]
    /\ UNCHANGED <<dataset, run, crossed, req, tasks>>

KeyExpires == CountExpires \/ MarkExpires

\* The leader dies, or a write fails.
TasksDie ==
    /\ Faulty /\ tasks # <<RefreshIdle, HealIdle>>
    /\ refresh' = RefreshIdle /\ heal' = HealIdle
    /\ \E counted \in BOOLEAN :
        row' = IF heal.pc = "record" /\ row.id = heal.id
               THEN [row EXCEPT !.wrong = @ \/ heal.queue,
                                !.attempts = IF counted THEN @ + 1 ELSE @]
               ELSE row
    /\ UNCHANGED <<dataset, run, crossed, req>>

------------------------------------------------------------------------------
Next ==
    \/ BaseNext /\ UNCHANGED tasks
    \/ Refresh \/ RowAges \/ Heal \/ KeyExpires \/ TasksDie

Spec == Init /\ [][Next]_vars

\* The reconcilers tick on some leader (each step of a task changes what it does next).
Fairness ==
    /\ BaseFairness
    /\ WF_refresh(Refresh) /\ WF_row(RowAges) /\ WF_heal(Heal)

FairSpec == Spec /\ Fairness

------------------------------------------------------------------------------
\* The type invariant.
TypeOK ==
    /\ BaseTypeOK
    /\ refresh \in [pc : {"idle", "list", "write"}, id : Names, remote : Names,
                    st : Statuses \cup {"none"}]
    /\ heal \in [pc : {"idle", "stop", "parse", "record"}, id : Names,
                 remote : Names, queue : BOOLEAN]

\* Every dataset in RAGFlow is the one the row of a live base names, or in the hands of a
\* request that will put it there or delete it, save one per fault and one per request
\* whose base was deleted under it: the claim and the id read back decide between requests
\* that create at once, however often a slow one is taken over (createRemoteDataset).
InHand == {req[r].set : r \in {q \in Requests : req[q].pc \in {"activate", "discard", "dropset"}}}
DatasetsManaged ==
    Cardinality(sets \ (InHand \cup (IF live THEN {ds.set} ELSE {}))) <= faults + caught

\* Every document in RAGFlow is the one the file's row names, or in the hands of a request
\* that will put it there or delete it, save one per fault and one per crossing: an
\* overwrite that finds its row gone or renamed before it has read it back, or a delete of a
\* row that was renamed (uploadToDataset, overwriteIndustryFile, deleteDocument).
Uploading == {r \in Requests : req[r].pc \in {"save", "undo", "parsenew", "replace", "readback"}}
Retiring == {req[r].old : r \in {q \in Requests : req[q].pc \in {"readback", "retire"}}}
FilesManaged ==
    live => Cardinality({d \in Docs : Exists(d)} \ ({row.remote} \cup Uploading \cup Retiring))
            <= faults + crossed

\* A file of a base, shown as completed, is parsed, whoever parses it again or overwrites
\* it, unless a request or the healer is about to write that it is not, was cut before, or the
\* refresher wrote what was no longer so (UpdateKnowledgeEmbeddingModel, reparseDocument,
\* ReplaceRAGFlowIndustryDocument, healOne).
CompletedIsParsed ==
    live /\ row.st = "completed" =>
        \/ run[row.remote] = "done" \/ row.wrong
        \/ heal.queue /\ heal.id = row.id
        \/ \E r \in Requests : Owes(r)

\* From one start of the healer to the next, when the mark, or the count before there is a
\* mark, has expired, it asks for at most MaxAttempts parses of one file, and one more for
\* each fault, whatever replaces, deletes or parses the file meanwhile, and although the
\* count expires under the mark (healOne, RecordAttempt, MarkGivenUp).
HealBudget == row.spent <= MaxAttempts + faults

\* Every file ends as completed, given up or deleted, whatever parses fail or hang and
\* whichever writes are late, unless its parse was never asked for; and again each time that
\* the mark expires (Tick of both tasks).
Settled == row.id = None \/ Resting
EveryFileSettles == ~Settled ~> Settled
=============================================================================
