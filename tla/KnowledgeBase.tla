---------------------------- MODULE KnowledgeBase ----------------------------
(***************************************************************************)
(* One industry knowledge base with files of one name.  manager keeps a row *)
(* for the base, a row that maps it to a dataset of RAGFlow, and a row for  *)
(* the file; RAGFlow keeps the datasets and the documents.  Two stores and  *)
(* no transaction: whatever a request leaves in RAGFlow that no row names   *)
(* can no longer be managed.                                                *)
(*                                                                          *)
(* A request is one action per statement or call that others can see, and   *)
(* its pc names what it does next.  A dataset is created by whichever       *)
(* request finds none, under a claim that another may take over after a     *)
(* while; a file is uploaded, overwritten, deleted, parsed again, or parsed *)
(* with the whole dataset.  RAGFlow is what the calls of its client tell.   *)
(* The background tasks that follow the parsing are module                  *)
(* KnowledgeHealing.                                                        *)
(***************************************************************************)
EXTENDS Naturals, FiniteSets

CONSTANTS
    Requests,      \* HTTP requests; a row, a claim and a document carry the name of theirs
    Founder,       \* the request that made what there is at the start
    None,
    MaxEvents,     \* bound: requests, and failed calls, lost answers, crashes, parses that hang
    MaxTakeovers   \* bound: claims taken over after the timeout

ASSUME BaseConstants ==
    /\ IsFiniteSet(Requests) /\ Founder \notin Requests
    /\ None \notin Requests \cup {Founder}
    /\ MaxEvents \in Nat /\ MaxTakeovers \in Nat

VARIABLES
    live,      \* the base is not deleted
    ds,        \* the row of ragflow_datasets: id, status, create_claim_token, remote dataset
    row,       \* the row of ragflow_documents: id, remote document, parse_status; aged: a
               \* running row not written for the threshold; wrong: the status was written
               \* late, or not written, by a step that was overtaken or cut; what Redis
               \* holds of it: attempts, given up; spent: the parses the healer asked for
               \* since it last started over
    sets,      \* the datasets in RAGFlow
    run,       \* for each document in RAGFlow, its run
    req,       \* what each request does and what it has read
    born,      \* the datasets ever created
    faults,
    takeovers,
    caught,    \* history: requests that made a dataset for a base deleted under them
    crossed    \* history: requests on one file that crossed

dataset == <<live, ds, sets, born, takeovers, caught>>
files == <<row, run, crossed>>
base == <<dataset, files, req, faults>>

Docs == Requests \cup {Founder}
Unmapped == [id |-> None, status |-> "none", claim |-> None, set |-> 0]
NoRow == [id |-> None, remote |-> None, st |-> "none", aged |-> FALSE, wrong |-> FALSE,
          attempts |-> 0, gaveUp |-> FALSE, spent |-> 0]
NewRow(d) == [NoRow EXCEPT !.id = d, !.remote = d, !.st = "queued"]
Fresh == [pc |-> "idle", op |-> "none", ds |-> None, set |-> 0, file |-> None, old |-> None]

\* A new base, or one with a file that RAGFlow is parsing.
BaseInit ==
    /\ live = TRUE
    /\ \/ /\ ds = Unmapped /\ row = NoRow /\ sets = {} /\ born = 0
          /\ run = [d \in Docs |-> "none"]
       \/ /\ ds = [id |-> Founder, status |-> "active", claim |-> None, set |-> 1]
          /\ row = NewRow(Founder) /\ sets = {1} /\ born = 1
          /\ run = [d \in Docs |-> IF d = Founder THEN "running" ELSE "none"]
    /\ req = [r \in Requests |-> Fresh]
    /\ faults = 0 /\ takeovers = 0 /\ caught = 0 /\ crossed = 0

At(r, pc) == req[r].pc = pc
Room == Cardinality({r \in Requests : ~At(r, "idle")}) + faults < MaxEvents
Faulty == Room /\ faults' = faults + 1
Go(r, pc) == req' = [req EXCEPT ![r].pc = pc]
\* Of a request that has ended only the dataset of its document matters.
End(r) == req' = [req EXCEPT ![r] = [Fresh EXCEPT !.pc = "done",
                                       !.set = IF run[r] = "none" THEN 0 ELSE req[r].set]]

\* The dataset in which a document is, and the documents that RAGFlow has of a dataset.
Home(d) == IF d = Founder THEN 1 ELSE req[d].set
Exists(d) == run[d] \notin {"none", "gone"}
Busy(d) == run[d] \in {"running", "hung"}
\* What ParseDocuments accepts: RAGFlow refuses a document in process, or unknown.
Parseable(d) == Exists(d) /\ ~Busy(d)
SetRun(d, to) == run' = [run EXCEPT ![d] = to]

\* A write of parse_status; updated_at starts again.
Written(st) == [row EXCEPT !.st = st, !.aged = FALSE, !.wrong = FALSE]

------------------------------------------------------------------------------
\* The dataset: ensureDataset, ensureExistingDataset, createRemoteDataset.

After(r) == CASE req[r].op = "upload" -> "lookup"
              [] req[r].op = "delete" -> "deleteremote"
              [] OTHER -> "reparse"
\* The request goes on with the dataset that the row names.
Have(r) == req' = [req EXCEPT ![r].ds = ds.id, ![r].set = ds.set, ![r].pc = After(r)]
\* The mapping row that the request has in hand is still there; it still has the claim.
Own(r) == ds.id = req[r].ds /\ ds.id # None
Claims(r) == Own(r) /\ ds.status = "creating" /\ ds.claim = r

\* A request finds the base live; those on a file, the row, too.
Begin(r, op) ==
    /\ At(r, "idle") /\ live /\ Room
    /\ \/ /\ op = "upload"
          /\ req' = [req EXCEPT ![r].op = op, ![r].pc = "resolve"]
       \/ /\ op \in {"delete", "reparse"} /\ row # NoRow
          /\ op = "reparse" => row.st \in {"failed", "stopped"}
          /\ req' = [req EXCEPT ![r].op = op, ![r].pc = "resolve",
                                ![r].file = row.id, ![r].old = row.remote]
       \/ /\ op = "embed" /\ ds.status = "active"
          /\ req' = [req EXCEPT ![r].op = op, ![r].pc = "embed",
                                ![r].ds = ds.id, ![r].set = ds.set]
    /\ UNCHANGED <<dataset, files, faults>>

\* getIndustryDataset.
Resolve(r) ==
    /\ At(r, "resolve")
    /\ \/ ds.status = "none" /\ Go(r, "insert")
       \/ ds.status = "active" /\ Have(r)
       \/ ds.status \in {"creating", "failed"}
          /\ req' = [req EXCEPT ![r].ds = ds.id, ![r].pc = "claim"]
    /\ UNCHANGED <<dataset, files, faults>>

\* INSERT IGNORE, and the row that is read back, which may be another request's: the
\* deleted base still has its row, so the foreign key holds.
InsertMapping(r) ==
    /\ At(r, "insert")
    /\ \/ /\ ds.status = "none"
          /\ ds' = [id |-> r, status |-> "creating", claim |-> r, set |-> 0]
          /\ req' = [req EXCEPT ![r].ds = r, ![r].pc = "create"]
       \/ ds.status = "active" /\ Have(r) /\ UNCHANGED ds
       \/ /\ ds.status \in {"creating", "failed"}
          /\ req' = [req EXCEPT ![r].ds = ds.id, ![r].pc = "create"]
          /\ UNCHANGED ds
    /\ UNCHANGED <<live, sets, born, takeovers, caught, files, faults>>

\* ClaimRAGFlowDatasetCreation: a failed row, or one claimed too long ago.
Claim(r) ==
    /\ At(r, "claim")
    /\ \/ /\ Own(r)
          /\ \/ ds.status = "failed" /\ UNCHANGED takeovers
             \/ /\ ds.status = "creating" /\ takeovers < MaxTakeovers
                /\ takeovers' = takeovers + 1
          /\ ds' = [ds EXCEPT !.status = "creating", !.claim = r]
          /\ Go(r, "create")
       \/ /\ ~(Own(r) /\ ds.status = "failed")
          /\ End(r)
          /\ UNCHANGED <<ds, takeovers>>
    /\ UNCHANGED <<live, sets, born, caught, files, faults>>

\* CreateDataset; when it fails, or its answer is lost, the row is marked failed.
CreateRemote(r) ==
    /\ At(r, "create")
    /\ \/ /\ born' = born + 1 /\ sets' = sets \cup {born + 1}
          /\ req' = [req EXCEPT ![r].set = born + 1, ![r].pc = "activate"]
          /\ UNCHANGED <<ds, faults>>
       \/ /\ End(r)
          /\ \/ UNCHANGED <<born, sets, faults>>
             \/ Faulty /\ born' = born + 1 /\ sets' = sets \cup {born + 1}
          /\ ds' = IF Claims(r) THEN [ds EXCEPT !.status = "failed", !.claim = None] ELSE ds
    /\ UNCHANGED <<live, takeovers, caught, files>>

\* A plausible mistake: the loser does not look at what it reads back.
ActivateUnread(r) ==
    /\ At(r, "activate")
    /\ ds' = IF Claims(r) THEN [ds EXCEPT !.status = "active", !.claim = None,
                                          !.set = req[r].set] ELSE ds
    /\ req' = [req EXCEPT ![r].pc = After(r)]
    /\ caught' = IF Own(r) /\ live THEN caught ELSE caught + 1
    /\ UNCHANGED <<live, sets, born, takeovers, files, faults>>

\* SetRAGFlowDatasetActive, and the row read back: whoever lost its claim is told by the
\* id there; whoever lost the row, by an error.
Activate(r) ==
    /\ At(r, "activate")
    /\ \/ /\ Claims(r)
          /\ ds' = [ds EXCEPT !.status = "active", !.claim = None, !.set = req[r].set]
          /\ Go(r, After(r))
       \/ Own(r) /\ ~Claims(r) /\ Go(r, "discard") /\ UNCHANGED ds
       \/ ~Own(r) /\ End(r) /\ UNCHANGED ds
    /\ caught' = IF ~Own(r) \/ (Claims(r) /\ ~live) THEN caught + 1 ELSE caught
    /\ UNCHANGED <<live, sets, born, takeovers, files, faults>>

\* The loser deletes its dataset, once, and reads the row again.
Discard(r) ==
    /\ At(r, "discard") /\ Go(r, "reread")
    /\ \/ sets' = sets \ {req[r].set} /\ UNCHANGED faults
       \/ Faulty /\ UNCHANGED sets
    /\ UNCHANGED <<live, ds, born, takeovers, caught, files>>

\* datasetAfterCreateConflict.
Reread(r) ==
    /\ At(r, "reread")
    /\ \/ ds.status = "none" /\ End(r)
       \/ ds.status = "active" /\ Have(r)
       \/ ds.status \in {"creating", "failed"}
          /\ req' = [req EXCEPT ![r].ds = ds.id, ![r].pc = "claim"]
    /\ UNCHANGED <<dataset, files, faults>>

Dataset(r) ==
    \/ Resolve(r) \/ InsertMapping(r) \/ Claim(r) \/ CreateRemote(r) \/ Activate(r)
    \/ Discard(r) \/ Reread(r)

------------------------------------------------------------------------------
\* A file: uploadToDataset, and overwriteIndustryFile when there is one of its name.

\* GetRAGFlowIndustryDocumentByName.
Lookup(r) ==
    /\ At(r, "lookup")
    /\ req' = [req EXCEPT ![r].file = row.id, ![r].old = row.remote, ![r].pc = "push"]
    /\ UNCHANGED <<dataset, files, faults>>

\* UploadDocument.  Its answer may be lost.
Push(r) ==
    /\ At(r, "push")
    /\ \/ req[r].set \notin sets /\ End(r) /\ UNCHANGED <<run, faults>>
       \/ /\ req[r].set \in sets /\ SetRun(r, "unstart")
          /\ \/ Go(r, IF req[r].file = None THEN "save" ELSE "parsenew") /\ UNCHANGED faults
             \/ Faulty /\ Go(r, "done")
    /\ UNCHANGED <<dataset, row, crossed>>

\* The row is inserted, unless one of this name is there or the dataset's row is not.
Save(r) ==
    /\ At(r, "save")
    /\ \/ row = NoRow /\ Own(r) /\ row' = NewRow(r) /\ Go(r, "parse") /\ UNCHANGED faults
       \/ ~(row = NoRow /\ Own(r)) /\ Go(r, "undo") /\ UNCHANGED <<row, faults>>
       \/ Faulty /\ Go(r, "undo") /\ UNCHANGED row
    /\ UNCHANGED <<dataset, run, crossed>>

\* The row is read back and the document parsed; nothing follows when that fails.  The row
\* was inserted as queued and is taken to be so still.
Parse(r) ==
    /\ At(r, "parse") /\ End(r)
    /\ IF row.id = r /\ Parseable(r)
       THEN SetRun(r, "running") /\ row' = [row EXCEPT !.wrong = @ \/ row.st = "completed"]
       ELSE UNCHANGED <<run, row>>
    /\ UNCHANGED <<dataset, crossed, faults>>

\* DeleteDocuments for the request's own document.
Undo(r) ==
    /\ At(r, "undo") /\ End(r)
    /\ SetRun(r, "gone")
    /\ UNCHANGED <<dataset, row, crossed, faults>>

ParseNew(r) ==
    /\ At(r, "parsenew")
    /\ \/ Parseable(r) /\ SetRun(r, "running") /\ Go(r, "replace") /\ UNCHANGED faults
       \/ ~Parseable(r) /\ Go(r, "undo") /\ UNCHANGED <<run, faults>>
       \/ Faulty /\ Go(r, "undo") /\ UNCHANGED run
    /\ UNCHANGED <<dataset, row, crossed>>

\* The row that the request would overwrite, as long as it names the old document.
Overwritten(r) == [Written("queued") EXCEPT !.remote = r]

\* A plausible mistake: the UPDATE does not ask for the old document.
ReplaceBlindly(r) ==
    /\ At(r, "replace") /\ Go(r, "readback")
    /\ row' = IF row.id = req[r].file THEN Overwritten(r) ELSE row
    /\ UNCHANGED <<dataset, run, crossed, faults>>

\* ReplaceRAGFlowIndustryDocument: a miss is no error.
Replace(r) ==
    /\ At(r, "replace")
    /\ \/ /\ row' = IF row.id = req[r].file /\ row.remote = req[r].old THEN Overwritten(r) ELSE row
          /\ Go(r, "readback") /\ UNCHANGED faults
       \/ Faulty /\ Go(r, "undo") /\ UNCHANGED row
    /\ UNCHANGED <<dataset, run, crossed>>

\* The row read back: gone, of another document, or the request's own.
ReadBack(r) ==
    /\ At(r, "readback")
    /\ \/ row.id # req[r].file /\ End(r)
       \/ row.id = req[r].file /\ Go(r, IF row.remote = r THEN "retire" ELSE "undo")
    /\ crossed' = IF row.remote # r THEN crossed + 1 ELSE crossed
    /\ UNCHANGED <<dataset, row, run, faults>>

\* DeleteDocuments for the old document.
Retire(r) ==
    /\ At(r, "retire") /\ End(r)
    /\ SetRun(req[r].old, "gone")
    /\ UNCHANGED <<dataset, row, crossed, faults>>

Upload(r) ==
    \/ Lookup(r) \/ Push(r) \/ Save(r) \/ Parse(r) \/ Undo(r)
    \/ ParseNew(r) \/ Replace(r) \/ ReadBack(r) \/ Retire(r)

------------------------------------------------------------------------------
\* deleteDocument (or clearDocuments, of a base with one file): RAGFlow first, which may
\* object that the document is not there, then the row.
DeleteRemote(r) ==
    /\ At(r, "deleteremote")
    /\ \/ req[r].set \in sets /\ SetRun(req[r].old, "gone") /\ Go(r, "droprow")
       \/ (req[r].set \notin sets \/ ~Exists(req[r].old)) /\ End(r) /\ UNCHANGED run
    /\ UNCHANGED <<dataset, row, crossed, faults>>

DropRow(r) ==
    /\ At(r, "droprow") /\ End(r)
    /\ row' = IF row.id = req[r].file THEN NoRow ELSE row
    /\ crossed' = IF row.id = req[r].file /\ row.remote # req[r].old THEN crossed + 1 ELSE crossed
    /\ UNCHANGED <<dataset, run, faults>>

\* reparseDocument.
Reparse(r) ==
    /\ At(r, "reparse")
    /\ \/ Parseable(req[r].old) /\ SetRun(req[r].old, "running") /\ Go(r, "requeue")
       \/ ~Parseable(req[r].old) /\ End(r) /\ UNCHANGED run
    /\ UNCHANGED <<dataset, row, crossed, faults>>

\* MarkRAGFlowDocumentManualReparseQueued.
Requeue(r) ==
    /\ At(r, "requeue") /\ End(r)
    /\ row' = IF row.id = req[r].file THEN Written("queued") ELSE row
    /\ UNCHANGED <<dataset, run, crossed, faults>>

\* UpdateKnowledgeEmbeddingModel: RunDatasetEmbedding parses every document of the dataset,
\* and RAGFlow refuses when one is in process.
Members(set) == {d \in Docs : Exists(d) /\ Home(d) = set}
Embed(r) ==
    /\ At(r, "embed")
    /\ \/ /\ req[r].set \in sets /\ \A d \in Members(req[r].set) : ~Busy(d)
          /\ run' = [d \in Docs |-> IF d \in Members(req[r].set) THEN "running" ELSE run[d]]
          /\ Go(r, "reset")
       \/ /\ req[r].set \notin sets \/ \E d \in Members(req[r].set) : Busy(d)
          /\ End(r) /\ UNCHANGED run
    /\ UNCHANGED <<dataset, row, crossed, faults>>

\* A plausible mistake: only the files whose parse had failed are queued again.
EmbedResetFailed(r) ==
    /\ At(r, "reset") /\ End(r)
    /\ row' = IF row.st \in {"failed", "stopped"} /\ Own(r) THEN Written("queued") ELSE row
    /\ UNCHANGED <<dataset, run, crossed, faults>>

\* ResetRAGFlowDocumentsParseStatusByDataset.
EmbedReset(r) ==
    /\ At(r, "reset") /\ End(r)
    /\ row' = IF row # NoRow /\ Own(r) THEN Written("queued") ELSE row
    /\ UNCHANGED <<dataset, run, crossed, faults>>

------------------------------------------------------------------------------
\* DeleteIndustryKnowledgeBase: a transaction that marks the base and deletes the mapping,
\* and the file's row with it; then the dataset.
DropBase(r) ==
    /\ At(r, "idle") /\ live /\ Room
    /\ live' = FALSE /\ ds' = Unmapped /\ row' = NoRow
    /\ IF ds.set = 0 THEN End(r)
       ELSE req' = [req EXCEPT ![r].op = "drop", ![r].set = ds.set, ![r].pc = "dropset"]
    /\ UNCHANGED <<sets, run, born, takeovers, caught, crossed, faults>>

DropSet(r) ==
    /\ At(r, "dropset") /\ End(r)
    /\ sets' = sets \ {req[r].set}
    /\ run' = [d \in Docs |-> IF d \in Members(req[r].set) THEN "gone" ELSE run[d]]
    /\ UNCHANGED <<live, ds, born, takeovers, caught, row, crossed, faults>>

\* The request is cut: a crash, a client that hangs up, a call that fails and is not
\* handled.  A status that it was about to write stays as it was.
Owes(r) == /\ row # NoRow
           /\ \/ req[r].pc \in {"droprow", "requeue"} /\ row.id = req[r].file
              \/ At(r, "reset") /\ Own(r)
Cut(r) ==
    /\ req[r].pc \notin {"idle", "done"} /\ Faulty /\ End(r)
    /\ row' = IF Owes(r) THEN [row EXCEPT !.wrong = TRUE] ELSE row
    /\ UNCHANGED <<dataset, run, crossed>>

\* RAGFlow.  A parse ends; or it hangs, and may yet end.
RemoteEnds(d) ==
    /\ Busy(d) /\ \E to \in {"done", "fail"} : SetRun(d, to)
    /\ UNCHANGED <<dataset, row, crossed, req, faults>>
RemoteHangs(d) ==
    /\ run[d] = "running" /\ Faulty /\ SetRun(d, "hung")
    /\ UNCHANGED <<dataset, row, crossed, req>>

------------------------------------------------------------------------------
Goes(r) ==
    \/ Dataset(r) \/ Upload(r) \/ DeleteRemote(r) \/ DropRow(r) \/ Reparse(r) \/ Requeue(r)
    \/ Embed(r) \/ EmbedReset(r) \/ DropSet(r)

BaseNext ==
    \/ \E r \in Requests : \/ \E op \in {"upload", "delete", "reparse", "embed"} : Begin(r, op)
                          \/ DropBase(r) \/ Goes(r) \/ Cut(r)
    \/ \E d \in Docs : RemoteEnds(d) \/ RemoteHangs(d)

\* A request under way goes on (each of its steps changes what it does next), and a parse
\* that does not hang ends.
BaseFairness ==
    /\ \A r \in Requests : WF_<<req[r]>>(~At(r, "idle") /\ ~At(r, "done") /\ Goes(r))
    /\ \A d \in Docs : WF_<<run[d]>>(run[d] = "running" /\ RemoteEnds(d))

Statuses == {"queued", "running", "completed", "failed", "stopped"}
Runs == {"none", "unstart", "running", "hung", "done", "fail", "cancel", "gone"}
Names == Docs \cup {None}
Steps == {"idle", "resolve", "insert", "claim", "create", "activate", "discard", "reread",
          "lookup", "push", "save", "parse", "undo", "parsenew", "replace", "readback",
          "retire", "deleteremote", "droprow", "reparse", "requeue", "embed", "reset",
          "dropset", "done"}
Request ==
    [pc : Steps,
     op : {"none", "upload", "delete", "reparse", "embed", "drop"},
     ds : Names, set : Nat, file : Names, old : Names]
Row == [id : Names, remote : Names, st : Statuses \cup {"none"}, aged : BOOLEAN,
        wrong : BOOLEAN, attempts : Nat, gaveUp : BOOLEAN, spent : Nat]
BaseTypeOK ==
    /\ live \in BOOLEAN /\ sets \in SUBSET Nat
    /\ ds \in [id : Names, status : {"none", "creating", "failed", "active"},
               claim : Names, set : Nat]
    /\ row \in Row /\ run \in [Docs -> Runs] /\ req \in [Requests -> Request]
    /\ born \in Nat /\ faults \in Nat /\ takeovers \in Nat /\ caught \in Nat
    /\ crossed \in Nat
=============================================================================
