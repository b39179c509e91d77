--------------------------- MODULE KnowledgeProofs ---------------------------
(***************************************************************************)
(* Proofs about a knowledge base, for any number of requests, faults,       *)
(* takeovers and attempts: the healer's budget, the datasets and documents  *)
(* that nobody manages, and what a file shown as completed means.           *)
(***************************************************************************)
EXTENDS KnowledgeHealing, FiniteSetTheorems, TLAPS

USE BaseConstants, HealingConstants

------------------------------------------------------------------------------
(* Types: the row of the file.                                              *)

LEMMA RowTyped ==
    ASSUME TypeOK
    PROVE  /\ row \in Row /\ NoRow \in Row /\ \A d \in Docs : NewRow(d) \in Row
           /\ \A st \in Statuses \cup {"none"} : Written(st) \in Row
           /\ \A st \in Statuses \cup {"none"}, w \in BOOLEAN :
                 [Written(st) EXCEPT !.wrong = w] \in Row
           /\ \A r \in Requests : Overwritten(r) \in Row
           /\ \A w \in BOOLEAN : [row EXCEPT !.wrong = w] \in Row
           /\ row.wrong \in BOOLEAN
<1>1. row \in Row /\ row.wrong \in BOOLEAN
      BY DEF TypeOK, BaseTypeOK, Row
<1>2. NoRow \in Row
      BY DEF NoRow, Row, Names
<1>3. \A d \in Docs : NewRow(d) \in Row
      BY <1>2 DEF NewRow, Row, Names, Statuses
<1>4. \A st \in Statuses \cup {"none"} : Written(st) \in Row
      BY <1>1 DEF Written, Row
<1>5. \A st \in Statuses \cup {"none"}, w \in BOOLEAN : [Written(st) EXCEPT !.wrong = w] \in Row
      BY <1>4 DEF Row
<1>6. \A r \in Requests : Overwritten(r) \in Row
  <2>1. Written("queued") \in Row /\ \A r \in Requests : r \in Names
        BY <1>4 DEF Statuses, Names, Docs
  <2> QED BY <2>1 DEF Overwritten, Row
<1>7. \A w \in BOOLEAN : [row EXCEPT !.wrong = w] \in Row
      BY <1>1 DEF Row
<1> QED BY <1>1, <1>2, <1>3, <1>4, <1>5, <1>6, <1>7

(* The requests.                                                            *)

LEMMA RequestTyped ==
    ASSUME TypeOK, NEW r \in Requests
    PROVE  /\ req[r] \in Request /\ req \in [Requests -> Request]
           /\ \A pc \in Steps : Go(r, pc) => req' \in [Requests -> Request]
           /\ End(r) => req' \in [Requests -> Request]
           /\ Have(r) => req' \in [Requests -> Request]
           /\ After(r) \in Steps
<1>1. req[r] \in Request /\ req \in [Requests -> Request]
      BY DEF TypeOK, BaseTypeOK
<1>2. ASSUME NEW pc \in Steps, Go(r, pc)
      PROVE  req' \in [Requests -> Request]
  <2>1. req' = [req EXCEPT ![r] = [req[r] EXCEPT !.pc = pc]]
        BY <1>1, <1>2 DEF Go
  <2>2. [req[r] EXCEPT !.pc = pc] \in Request
        BY <1>1 DEF Request
  <2> QED BY <1>1, <2>1, <2>2
<1>3. ASSUME End(r)
      PROVE  req' \in [Requests -> Request]
  <2> DEFINE set == IF run[r] = "none" THEN 0 ELSE req[r].set
  <2>1. set \in Nat
        BY <1>1 DEF Request
  <2>2. req' = [req EXCEPT ![r] = [Fresh EXCEPT !.pc = "done", !.set = set]]
        BY <1>3 DEF End
  <2> HIDE DEF set
  <2>3. Fresh \in Request
        BY DEF Fresh, Request, Steps, Names
  <2>4. [Fresh EXCEPT !.pc = "done", !.set = set] \in Request
        BY <2>1, <2>3 DEF Request, Steps
  <2> QED BY <1>1, <2>2, <2>4
<1>4. After(r) \in Steps
      BY DEF After, Steps
<1>5. ASSUME Have(r)
      PROVE  req' \in [Requests -> Request]
  <2> DEFINE to == After(r)
  <2>1. ds.id \in Names /\ ds.set \in Nat
        BY DEF TypeOK, BaseTypeOK
  <2>2. req' = [req EXCEPT ![r] = [req[r] EXCEPT !.ds = ds.id, !.set = ds.set, !.pc = to]]
        BY <1>1, <1>5 DEF Have
  <2>3. to \in Steps
        BY <1>4
  <2> HIDE DEF to
  <2>4. [req[r] EXCEPT !.ds = ds.id, !.set = ds.set, !.pc = to] \in Request
        BY <1>1, <2>1, <2>3 DEF Request
  <2> QED BY <1>1, <2>2, <2>4
<1> QED BY <1>1, <1>2, <1>3, <1>4, <1>5

LEMMA RunTyped ==
    ASSUME TypeOK, NEW d, NEW to \in Runs, SetRun(d, to)
    PROVE  run' \in [Docs -> Runs]
<1> QED BY DEF TypeOK, BaseTypeOK, SetRun

LEMMA FaultyTyped == TypeOK /\ (Faulty \/ UNCHANGED faults) => faults' \in Nat
<1> QED BY DEF TypeOK, BaseTypeOK, Faulty

(* The part of the state that a step of a request on its dataset leaves.    *)
FilesTyped == row \in Row /\ run \in [Docs -> Runs] /\ crossed \in Nat
DatasetTyped ==
    /\ live \in BOOLEAN /\ sets \in SUBSET Nat
    /\ ds \in [id : Names, status : {"none", "creating", "failed", "active"},
               claim : Names, set : Nat]
    /\ born \in Nat /\ takeovers \in Nat /\ caught \in Nat
TasksTyped ==
    /\ refresh \in [pc : {"idle", "list", "write"}, id : Names, remote : Names,
                    st : Statuses \cup {"none"}]
    /\ heal \in [pc : {"idle", "stop", "parse", "record"}, id : Names,
                 remote : Names, queue : BOOLEAN]

LEMMA TypeParts ==
    TypeOK <=> /\ FilesTyped /\ DatasetTyped /\ TasksTyped
               /\ req \in [Requests -> Request] /\ faults \in Nat
<1> QED BY DEF TypeOK, BaseTypeOK, FilesTyped, DatasetTyped, TasksTyped

LEMMA PartsKept ==
    ASSUME TypeOK
    PROVE  /\ UNCHANGED files => FilesTyped'
           /\ UNCHANGED dataset => DatasetTyped'
           /\ UNCHANGED tasks => TasksTyped'
<1> QED BY DEF TypeOK, BaseTypeOK, FilesTyped, DatasetTyped, TasksTyped, files, dataset, tasks

(* The steps of the requests.                                               *)

LEMMA BeginTyped ==
    ASSUME TypeOK, NEW r \in Requests, NEW op \in {"upload", "delete", "reparse", "embed"},
           Begin(r, op)
    PROVE  req' \in [Requests -> Request]
<1>1. req[r] \in Request /\ req \in [Requests -> Request]
      BY RequestTyped
<1>2. row.id \in Names /\ row.remote \in Names /\ ds.id \in Names /\ ds.set \in Nat
      BY DEF TypeOK, BaseTypeOK, Row
<1>3. CASE req' = [req EXCEPT ![r].op = op, ![r].pc = "resolve"]
  <2>1. req' = [req EXCEPT ![r] = [req[r] EXCEPT !.op = op, !.pc = "resolve"]]
        BY <1>1, <1>3
  <2>2. [req[r] EXCEPT !.op = op, !.pc = "resolve"] \in Request
        BY <1>1 DEF Request, Steps
  <2> QED BY <1>1, <2>1, <2>2
<1>4. CASE req' = [req EXCEPT ![r].op = op, ![r].pc = "resolve",
                              ![r].file = row.id, ![r].old = row.remote]
  <2>1. req' = [req EXCEPT ![r] = [req[r] EXCEPT !.op = op, !.pc = "resolve",
                                                 !.file = row.id, !.old = row.remote]]
        BY <1>1, <1>4
  <2>2. [req[r] EXCEPT !.op = op, !.pc = "resolve", !.file = row.id, !.old = row.remote] \in Request
        BY <1>1, <1>2 DEF Request, Steps
  <2> QED BY <1>1, <2>1, <2>2
<1>5. CASE req' = [req EXCEPT ![r].op = op, ![r].pc = "embed", ![r].ds = ds.id,
                              ![r].set = ds.set]
  <2>1. req' = [req EXCEPT ![r] = [req[r] EXCEPT !.op = op, !.pc = "embed", !.ds = ds.id,
                                                 !.set = ds.set]]
        BY <1>1, <1>5
  <2>2. [req[r] EXCEPT !.op = op, !.pc = "embed", !.ds = ds.id, !.set = ds.set] \in Request
        BY <1>1, <1>2 DEF Request, Steps
  <2> QED BY <1>1, <2>1, <2>2
<1> QED BY <1>3, <1>4, <1>5 DEF Begin

LEMMA FoundTyped ==
    ASSUME TypeOK, NEW r \in Requests
    PROVE  /\ \A d \in Names, pc \in Steps :
                 req' = [req EXCEPT ![r].ds = d, ![r].pc = pc] => req' \in [Requests -> Request]
           /\ \A n \in Nat, pc \in Steps :
                 req' = [req EXCEPT ![r].set = n, ![r].pc = pc] => req' \in [Requests -> Request]
           /\ \A n \in Nat, pc \in Steps :
                 req' = [req EXCEPT ![r].op = "drop", ![r].set = n, ![r].pc = pc]
                   => req' \in [Requests -> Request]
           /\ \A pc \in Steps :
                 req' = [req EXCEPT ![r].file = row.id, ![r].old = row.remote, ![r].pc = pc]
                   => req' \in [Requests -> Request]
<1>1. req[r] \in Request /\ req \in [Requests -> Request]
      BY RequestTyped
<1>2. row.id \in Names /\ row.remote \in Names
      BY DEF TypeOK, BaseTypeOK, Row
<1>3. ASSUME NEW d \in Names, NEW pc \in Steps
      PROVE  req' = [req EXCEPT ![r].ds = d, ![r].pc = pc] => req' \in [Requests -> Request]
  <2>1. [req[r] EXCEPT !.ds = d, !.pc = pc] \in Request
        BY <1>1 DEF Request
  <2> QED BY <1>1, <2>1
<1>4. ASSUME NEW n \in Nat, NEW pc \in Steps
      PROVE  req' = [req EXCEPT ![r].set = n, ![r].pc = pc] => req' \in [Requests -> Request]
  <2>1. [req[r] EXCEPT !.set = n, !.pc = pc] \in Request
        BY <1>1 DEF Request
  <2> QED BY <1>1, <2>1
<1>5. ASSUME NEW n \in Nat, NEW pc \in Steps
      PROVE  req' = [req EXCEPT ![r].op = "drop", ![r].set = n, ![r].pc = pc]
               => req' \in [Requests -> Request]
  <2>1. [req[r] EXCEPT !.op = "drop", !.set = n, !.pc = pc] \in Request
        BY <1>1 DEF Request
  <2> QED BY <1>1, <2>1
<1>6. ASSUME NEW pc \in Steps
      PROVE  req' = [req EXCEPT ![r].file = row.id, ![r].old = row.remote, ![r].pc = pc]
               => req' \in [Requests -> Request]
  <2>1. [req[r] EXCEPT !.file = row.id, !.old = row.remote, !.pc = pc] \in Request
        BY <1>1, <1>2 DEF Request
  <2> QED BY <1>1, <2>1
<1> QED BY <1>3, <1>4, <1>5, <1>6

LEMMA DatasetStepTyped ==
    ASSUME TypeOK, NEW r \in Requests, Dataset(r)
    PROVE  /\ UNCHANGED files /\ req' \in [Requests -> Request]
           /\ DatasetTyped' /\ faults' \in Nat
<1>1. DatasetTyped /\ ds.id \in Names /\ r \in Names /\ None \in Names
      BY TypeParts DEF DatasetTyped, Names, Docs
<1>2. req[r] \in Request /\ req[r].set \in Nat /\ After(r) \in Steps /\ born + 1 \in Nat
      BY <1>1, RequestTyped DEF Request, DatasetTyped
<1> USE DEF files, DatasetTyped, dataset
<1>3. CASE Resolve(r)
  <2>1. req' = [req EXCEPT ![r].ds = ds.id, ![r].pc = "claim"] => req' \in [Requests -> Request]
        BY <1>1, FoundTyped DEF Steps
  <2>2. req' \in [Requests -> Request]
        BY <1>3, <2>1, RequestTyped DEF Resolve, Steps
  <2> QED BY <1>1, <1>3, <2>2, TypeParts DEF Resolve
<1>4. CASE InsertMapping(r)
  <2>1. /\ req' = [req EXCEPT ![r].ds = r, ![r].pc = "create"] => req' \in [Requests -> Request]
        /\ req' = [req EXCEPT ![r].ds = ds.id, ![r].pc = "create"] => req' \in [Requests -> Request]
        BY <1>1, FoundTyped DEF Steps
  <2>2. req' \in [Requests -> Request]
        BY <1>4, <2>1, RequestTyped DEF InsertMapping, Steps
  <2>3. DatasetTyped'
        BY <1>1, <1>4 DEF InsertMapping
  <2> QED BY <1>4, <2>2, <2>3, TypeParts DEF InsertMapping
<1>5. CASE Claim(r)
  <2>1. req' \in [Requests -> Request]
        BY <1>5, RequestTyped DEF Claim, Steps
  <2>2. [ds EXCEPT !.status = "creating", !.claim = r] \in
          [id : Names, status : {"none", "creating", "failed", "active"}, claim : Names, set : Nat]
        BY <1>1
  <2>3. DatasetTyped'
    <3>1. takeovers' \in Nat
          BY <1>1, <1>5 DEF Claim
    <3> QED BY <1>1, <1>5, <2>2, <3>1 DEF Claim
  <2> QED BY <1>5, <2>1, <2>3, TypeParts DEF Claim
<1>6. CASE CreateRemote(r)
  <2>1. req' \in [Requests -> Request]
    <3>1. req' = [req EXCEPT ![r].set = born + 1, ![r].pc = "activate"]
            => req' \in [Requests -> Request]
          BY <1>2, FoundTyped DEF Steps
    <3> QED BY <1>6, <3>1, RequestTyped DEF CreateRemote
  <2>2. [ds EXCEPT !.status = "failed", !.claim = None] \in
          [id : Names, status : {"none", "creating", "failed", "active"}, claim : Names, set : Nat]
        BY <1>1
  <2>3. faults' \in Nat
        BY <1>6, FaultyTyped DEF CreateRemote
  <2> QED BY <1>1, <1>2, <1>6, <2>1, <2>2, <2>3 DEF CreateRemote
<1>7. CASE Activate(r)
  <2>1. req' \in [Requests -> Request]
        BY <1>2, <1>7, RequestTyped DEF Activate, Steps
  <2>2. [ds EXCEPT !.status = "active", !.claim = None, !.set = req[r].set] \in
          [id : Names, status : {"none", "creating", "failed", "active"}, claim : Names, set : Nat]
        BY <1>1, <1>2
  <2>3. DatasetTyped'
    <3>1. caught' \in Nat
          BY <1>1, <1>7 DEF Activate
    <3>2. ds' \in [id : Names, status : {"none", "creating", "failed", "active"},
                   claim : Names, set : Nat]
          BY <1>1, <1>7, <2>2 DEF Activate
    <3> QED BY <1>1, <1>7, <3>1, <3>2 DEF Activate
  <2> QED BY <1>7, <2>1, <2>3, TypeParts DEF Activate
<1>8. CASE Discard(r)
  <2>1. req' \in [Requests -> Request]
        BY <1>8, RequestTyped DEF Discard, Steps
  <2> QED BY <1>1, <1>8, <2>1, FaultyTyped DEF Discard
<1>9. CASE Reread(r)
  <2>1. req' = [req EXCEPT ![r].ds = ds.id, ![r].pc = "claim"] => req' \in [Requests -> Request]
        BY <1>1, FoundTyped DEF Steps
  <2>2. req' \in [Requests -> Request]
        BY <1>9, <2>1, RequestTyped DEF Reread, Steps
  <2> QED BY <1>1, <1>9, <2>2, TypeParts DEF Reread
<1> QED BY <1>3, <1>4, <1>5, <1>6, <1>7, <1>8, <1>9 DEF Dataset

LEMMA FileStepTyped ==
    ASSUME TypeOK, NEW r \in Requests,
           \/ Upload(r) \/ DeleteRemote(r) \/ DropRow(r) \/ Reparse(r) \/ Requeue(r)
           \/ Embed(r) \/ EmbedReset(r)
    PROVE  /\ UNCHANGED dataset /\ req' \in [Requests -> Request]
           /\ FilesTyped' /\ faults' \in Nat
<1>1. /\ FilesTyped /\ req \in [Requests -> Request] /\ faults \in Nat /\ r \in Docs
      /\ crossed + 1 \in Nat
      BY TypeParts DEF FilesTyped, Docs
<1>2. \A d : \A to \in Runs : SetRun(d, to) => run' \in [Docs -> Runs]
      BY RunTyped
<1> USE DEF FilesTyped
<1>3. CASE Lookup(r)
  <2>1. req' \in [Requests -> Request]
        BY <1>3, FoundTyped, TypeParts DEF Lookup, Steps, Names
  <2> QED BY <1>1, <1>3, <2>1 DEF Lookup, files
<1>4. CASE Push(r)
  <2>1. req' \in [Requests -> Request]
        BY <1>4, RequestTyped DEF Push, Steps
  <2> QED BY <1>1, <1>2, <1>4, <2>1, FaultyTyped DEF Push, Runs
<1>5. CASE Save(r)
  <2>1. req' \in [Requests -> Request]
        BY <1>5, RequestTyped DEF Save, Steps
  <2> QED BY <1>1, <1>5, <2>1, RowTyped, FaultyTyped DEF Save
<1>6. CASE Parse(r)
  <2>1. req' \in [Requests -> Request]
        BY <1>6, RequestTyped DEF Parse
  <2>2. row' \in Row
        BY <1>1, <1>6, RowTyped DEF Parse
  <2> QED BY <1>1, <1>2, <1>6, <2>1, <2>2 DEF Parse, Runs
<1>7. CASE Undo(r)
  <2>1. req' \in [Requests -> Request]
        BY <1>7, RequestTyped DEF Undo
  <2> QED BY <1>1, <1>2, <1>7, <2>1 DEF Undo, Runs
<1>8. CASE ParseNew(r)
  <2>1. req' \in [Requests -> Request]
        BY <1>8, RequestTyped DEF ParseNew, Steps
  <2> QED BY <1>1, <1>2, <1>8, <2>1, FaultyTyped DEF ParseNew, Runs
<1>9. CASE Replace(r)
  <2>1. req' \in [Requests -> Request]
        BY <1>9, RequestTyped DEF Replace, Steps
  <2> QED BY <1>1, <1>9, <2>1, RowTyped, FaultyTyped DEF Replace
<1>10. CASE ReadBack(r)
  <2>1. req' \in [Requests -> Request]
        BY <1>10, RequestTyped DEF ReadBack, Steps
  <2> QED BY <1>1, <1>10, <2>1 DEF ReadBack
<1>11. CASE Retire(r)
  <2>1. req' \in [Requests -> Request]
        BY <1>11, RequestTyped DEF Retire
  <2> QED BY <1>1, <1>2, <1>11, <2>1 DEF Retire, Runs
<1>12. CASE DeleteRemote(r)
  <2>1. req' \in [Requests -> Request]
        BY <1>12, RequestTyped DEF DeleteRemote, Steps
  <2> QED BY <1>1, <1>2, <1>12, <2>1 DEF DeleteRemote, Runs
<1>13. CASE DropRow(r)
  <2>1. req' \in [Requests -> Request]
        BY <1>13, RequestTyped DEF DropRow
  <2> QED BY <1>1, <1>13, <2>1, RowTyped DEF DropRow
<1>14. CASE Reparse(r)
  <2>1. req' \in [Requests -> Request]
        BY <1>14, RequestTyped DEF Reparse, Steps
  <2> QED BY <1>1, <1>2, <1>14, <2>1 DEF Reparse, Runs
<1>15. CASE Requeue(r)
  <2>1. req' \in [Requests -> Request]
        BY <1>15, RequestTyped DEF Requeue
  <2> QED BY <1>1, <1>15, <2>1, RowTyped DEF Requeue, Statuses
<1>16. CASE Embed(r)
  <2>1. req' \in [Requests -> Request]
        BY <1>16, RequestTyped DEF Embed, Steps
  <2> QED BY <1>1, <1>16, <2>1 DEF Embed, Runs
<1>17. CASE EmbedReset(r)
  <2>1. req' \in [Requests -> Request]
        BY <1>17, RequestTyped DEF EmbedReset
  <2> QED BY <1>1, <1>17, <2>1, RowTyped DEF EmbedReset, Statuses
<1> QED BY <1>3, <1>4, <1>5, <1>6, <1>7, <1>8, <1>9, <1>10, <1>11, <1>12, <1>13, <1>14,
           <1>15, <1>16, <1>17 DEF Upload

LEMMA BaseStepTyped ==
    ASSUME TypeOK, BaseNext
    PROVE  FilesTyped' /\ DatasetTyped' /\ req' \in [Requests -> Request] /\ faults' \in Nat
<1>1. FilesTyped /\ DatasetTyped /\ req \in [Requests -> Request] /\ faults \in Nat
      BY TypeParts
<1>2. ASSUME NEW r \in Requests, NEW op \in {"upload", "delete", "reparse", "embed"},
             Begin(r, op)
      PROVE  FilesTyped' /\ DatasetTyped' /\ req' \in [Requests -> Request] /\ faults' \in Nat
      BY <1>1, <1>2, BeginTyped, PartsKept DEF Begin
<1>3. ASSUME NEW r \in Requests, DropBase(r)
      PROVE  FilesTyped' /\ DatasetTyped' /\ req' \in [Requests -> Request] /\ faults' \in Nat
  <2>1. req' \in [Requests -> Request]
    <3>1. ds.set \in Nat /\ None \in Names
          BY <1>1 DEF DatasetTyped, Names
    <3>2. req' = [req EXCEPT ![r].op = "drop", ![r].set = ds.set, ![r].pc = "dropset"]
            => req' \in [Requests -> Request]
          BY <3>1, FoundTyped DEF Steps
    <3> QED BY <1>3, <3>2, RequestTyped DEF DropBase
  <2> QED BY <1>1, <1>3, <2>1, RowTyped
          DEF DropBase, FilesTyped, DatasetTyped, Unmapped, Names
<1>4. ASSUME NEW r \in Requests, Goes(r)
      PROVE  FilesTyped' /\ DatasetTyped' /\ req' \in [Requests -> Request] /\ faults' \in Nat
  <2>1. CASE Dataset(r)
        BY <2>1, DatasetStepTyped, PartsKept
  <2>2. CASE DropSet(r)
    <3>1. req' \in [Requests -> Request]
          BY <2>2, RequestTyped DEF DropSet
    <3> QED BY <1>1, <2>2, <3>1 DEF DropSet, FilesTyped, DatasetTyped, Runs
  <2>3. CASE ~Dataset(r) /\ ~DropSet(r)
        BY <1>4, <2>3, FileStepTyped, PartsKept DEF Goes
  <2> QED BY <2>1, <2>2, <2>3
<1>5. ASSUME NEW r \in Requests, Cut(r)
      PROVE  FilesTyped' /\ DatasetTyped' /\ req' \in [Requests -> Request] /\ faults' \in Nat
      BY <1>1, <1>5, RequestTyped, RowTyped, FaultyTyped, PartsKept DEF Cut, FilesTyped
<1>6. ASSUME NEW d \in Docs, RemoteEnds(d) \/ RemoteHangs(d)
      PROVE  FilesTyped' /\ DatasetTyped' /\ req' \in [Requests -> Request] /\ faults' \in Nat
  <2>1. run' \in [Docs -> Runs]
        BY <1>6, RunTyped DEF RemoteEnds, RemoteHangs, Runs
  <2> QED BY <1>1, <1>6, <2>1, FaultyTyped, PartsKept DEF RemoteEnds, RemoteHangs, FilesTyped
<1> QED BY <1>2, <1>3, <1>4, <1>5, <1>6 DEF BaseNext

(* The tasks.                                                               *)

LEMMA Expiry ==
    ASSUME TypeOK, KeyExpires
    PROVE  /\ UNCHANGED <<dataset, run, crossed, req, tasks>> /\ (Faulty \/ UNCHANGED faults)
           /\ row' \in Row /\ row # NoRow
           /\ row'.id = row.id /\ row'.remote = row.remote /\ row'.st = row.st
           /\ row'.wrong = row.wrong
<1>1. row \in Row
      BY RowTyped
<1>2. CASE CountExpires
  <2> DEFINE n == IF row.gaveUp THEN row.spent ELSE 0
  <2>1. n \in Nat /\ row' = [row EXCEPT !.attempts = 0, !.spent = n] /\ row # NoRow
        BY <1>1, <1>2 DEF CountExpires, Row, NoRow
  <2>2. UNCHANGED <<dataset, run, crossed, req, tasks>> /\ (Faulty \/ UNCHANGED faults)
        BY <1>2, Zenon DEF CountExpires
  <2> HIDE DEF n
  <2> QED BY <1>1, <2>1, <2>2 DEF Row
<1>3. CASE MarkExpires
  <2>1. row' = [row EXCEPT !.gaveUp = FALSE, !.spent = 0] /\ row # NoRow
        BY <1>3 DEF MarkExpires, NoRow
  <2>2. UNCHANGED <<dataset, run, crossed, req, tasks>> /\ (Faulty \/ UNCHANGED faults)
        BY <1>3, Zenon DEF MarkExpires
  <2> QED BY <1>1, <2>1, <2>2 DEF Row
<1> QED BY <1>2, <1>3 DEF KeyExpires

LEMMA TasksStepTyped ==
    ASSUME TypeOK, Refresh \/ RowAges \/ Heal \/ KeyExpires \/ TasksDie
    PROVE  /\ UNCHANGED dataset /\ UNCHANGED req
           /\ FilesTyped' /\ TasksTyped' /\ faults' \in Nat
<1>1. /\ FilesTyped /\ TasksTyped /\ faults \in Nat
      /\ row.id \in Names /\ row.remote \in Names /\ row.st \in Statuses \cup {"none"}
      BY TypeParts DEF FilesTyped, Row
<1>2. \A d : StatusOf(d) \in Statuses
      BY DEF StatusOf, Statuses
<1> USE DEF FilesTyped, TasksTyped
<1>3. CASE RefreshScan
      BY <1>1, <1>3 DEF RefreshScan, base, files
<1>4. CASE RefreshList
  <2>1. faults' \in Nat /\ RefreshIdle \in [pc : {"idle", "list", "write"}, id : Names,
                                            remote : Names, st : Statuses \cup {"none"}]
        BY <1>4, FaultyTyped DEF RefreshList, RefreshIdle, Names
  <2>2. CASE refresh' = RefreshIdle
        BY <1>1, <1>4, <2>1, <2>2 DEF RefreshList, files
  <2>3. CASE refresh' # RefreshIdle
    <3>1. \/ refresh' = [refresh EXCEPT !.pc = "write", !.st = StatusOf(refresh.remote)]
          \/ refresh' = [refresh EXCEPT !.pc = "write"]
          BY <1>4, <2>3 DEF RefreshList
    <3>2. StatusOf(refresh.remote) \in Statuses
          BY <1>2
    <3>3. refresh' \in [pc : {"idle", "list", "write"}, id : Names, remote : Names,
                        st : Statuses \cup {"none"}]
          BY <1>1, <3>1, <3>2
    <3> QED BY <1>1, <1>4, <2>1, <3>3 DEF RefreshList, files
  <2> QED BY <2>2, <2>3
<1>5. CASE RefreshWrite
  <2>1. RefreshIdle \in [pc : {"idle", "list", "write"}, id : Names, remote : Names,
                         st : Statuses \cup {"none"}]
        BY DEF RefreshIdle, Names
  <2>2. row' \in Row
        BY <1>1, <1>5, RowTyped DEF RefreshWrite
  <2> QED BY <1>1, <1>5, <2>1, <2>2 DEF RefreshWrite
<1>6. CASE RowAges
  <2>1. row' \in Row
        BY <1>1, <1>6 DEF RowAges, Row
  <2> QED BY <1>1, <1>6, <2>1 DEF RowAges, tasks
<1>7. HealIdle \in [pc : {"idle", "stop", "parse", "record"}, id : Names, remote : Names,
                    queue : BOOLEAN]
      BY DEF HealIdle, Names
<1>8. CASE HealScan
  <2>1. faults' \in Nat /\ UNCHANGED <<dataset, files, req, refresh>>
        BY <1>8, FaultyTyped DEF HealScan
  <2>2. HealBegins
        BY <1>8 DEF HealScan
  <2>3. heal' \in [pc : {"idle", "stop", "parse", "record"}, id : Names, remote : Names,
                   queue : BOOLEAN]
        BY <1>1, <1>7, <2>2 DEF HealBegins
  <2> QED BY <1>1, <2>1, <2>3 DEF files
<1>9. CASE HealStop
  <2>1. faults' \in Nat
        BY <1>9, FaultyTyped DEF HealStop
  <2>2. run' \in [Docs -> Runs]
        BY <1>1, <1>9, RunTyped DEF HealStop, Runs
  <2> QED BY <1>1, <1>9, <2>1, <2>2 DEF HealStop
<1>10. CASE HealParse
  <2>1. faults' \in Nat
        BY <1>10, FaultyTyped DEF HealParse
  <2>2. run' \in [Docs -> Runs]
        BY <1>1, <1>10, RunTyped DEF HealParse, Runs
  <2>3. row' \in Row
        BY <1>1, <1>10 DEF HealParse, Row
  <2>4. heal' \in [pc : {"idle", "stop", "parse", "record"}, id : Names, remote : Names,
                   queue : BOOLEAN]
        BY <1>1, <1>10 DEF HealParse, Names
  <2> QED BY <1>1, <1>10, <2>1, <2>2, <2>3, <2>4 DEF HealParse
<1>11. CASE HealRecord
  <2>1. faults' \in Nat
        BY <1>11, FaultyTyped DEF HealRecord
  <2>2. row' \in Row
    <3>1. PICK counted \in BOOLEAN, told \in BOOLEAN :
            row' = IF row.id # heal.id THEN row
                   ELSE [(IF heal.queue THEN Written("queued") ELSE row) EXCEPT
                             !.attempts = IF counted THEN @ + 1 ELSE @,
                             !.gaveUp = @ \/ (told /\ row.attempts + 1 >= MaxAttempts)]
          BY <1>11 DEF HealRecord
    <3> DEFINE w == IF heal.queue THEN Written("queued") ELSE row
               n == IF counted THEN w.attempts + 1 ELSE w.attempts
               g == w.gaveUp \/ (told /\ row.attempts + 1 >= MaxAttempts)
    <3>2. w \in Row
          BY RowTyped DEF Statuses
    <3>3. row' = IF row.id # heal.id THEN row ELSE [w EXCEPT !.attempts = n, !.gaveUp = g]
          BY <3>1
    <3>4. n \in Nat /\ g \in BOOLEAN
      <4> HIDE DEF w
      <4> QED BY <3>2 DEF Row
    <3> HIDE DEF w, n, g
    <3> QED BY <1>1, <3>2, <3>3, <3>4 DEF Row
  <2> QED BY <1>1, <1>7, <1>11, <2>1, <2>2 DEF HealRecord
<1>12. CASE TasksDie
  <2>1. faults' \in Nat
        BY <1>12, FaultyTyped DEF TasksDie
  <2>2. row' \in Row
    <3>1. PICK counted \in BOOLEAN :
            row' = IF heal.pc = "record" /\ row.id = heal.id
                   THEN [row EXCEPT !.wrong = @ \/ heal.queue,
                                    !.attempts = IF counted THEN @ + 1 ELSE @]
                   ELSE row
          BY <1>12 DEF TasksDie
    <3> DEFINE n == IF counted THEN row.attempts + 1 ELSE row.attempts
               w == row.wrong \/ heal.queue
    <3>2. n \in Nat /\ w \in BOOLEAN
          BY <1>1 DEF Row
    <3>3. row' = IF heal.pc = "record" /\ row.id = heal.id
                 THEN [row EXCEPT !.wrong = w, !.attempts = n] ELSE row
          BY <3>1
    <3> HIDE DEF n, w
    <3> QED BY <1>1, <3>2, <3>3 DEF Row
  <2>3. RefreshIdle \in [pc : {"idle", "list", "write"}, id : Names, remote : Names,
                         st : Statuses \cup {"none"}]
        BY DEF RefreshIdle, Names
  <2> QED BY <1>1, <1>7, <1>12, <2>1, <2>2, <2>3 DEF TasksDie
<1>13. CASE KeyExpires
  <2>1. /\ UNCHANGED <<dataset, run, crossed, req, tasks>> /\ row' \in Row
        /\ Faulty \/ UNCHANGED faults
        BY <1>13, Expiry
  <2> QED BY <1>1, <2>1, FaultyTyped DEF tasks
<1> QED BY <1>3, <1>4, <1>5, <1>6, <1>8, <1>9, <1>10, <1>11, <1>12, <1>13 DEF Refresh, Heal

LEMMA InitTyped == Init => TypeOK
<1> SUFFICES ASSUME Init
             PROVE  TypeOK
    OBVIOUS
<1>1. BaseInit /\ TasksTyped
      BY DEF Init, RefreshIdle, HealIdle, TasksTyped, Names
<1>2. req \in [Requests -> Request]
  <2>1. Fresh \in Request
        BY DEF Fresh, Request, Steps, Names
  <2> QED BY <1>1, <2>1 DEF BaseInit
<1>3. NoRow \in Row /\ NewRow(Founder) \in Row
      BY DEF NewRow, NoRow, Row, Names, Docs, Statuses
<1>4. FilesTyped
      BY <1>1, <1>3 DEF BaseInit, FilesTyped, Runs
<1>5. DatasetTyped
      BY <1>1 DEF BaseInit, DatasetTyped, Unmapped, Names, Docs
<1> QED BY <1>1, <1>2, <1>4, <1>5, TypeParts DEF BaseInit

LEMMA NextTyped == TypeOK /\ [Next]_vars => TypeOK'
<1> SUFFICES ASSUME TypeOK, [Next]_vars
             PROVE  TypeOK'
    OBVIOUS
<1>1. FilesTyped' /\ DatasetTyped' /\ TasksTyped' /\ req' \in [Requests -> Request]
        /\ faults' \in Nat
      => TypeOK'
      BY DEF TypeOK, BaseTypeOK, FilesTyped, DatasetTyped, TasksTyped
<1>2. FilesTyped /\ DatasetTyped /\ TasksTyped /\ req \in [Requests -> Request] /\ faults \in Nat
      BY TypeParts
<1>3. CASE BaseNext /\ UNCHANGED tasks
      BY <1>1, <1>3, BaseStepTyped, PartsKept
<1>4. CASE Refresh \/ RowAges \/ Heal \/ KeyExpires \/ TasksDie
      BY <1>1, <1>2, <1>4, TasksStepTyped, PartsKept
<1>5. CASE UNCHANGED vars
      BY <1>1, <1>2, <1>5, PartsKept DEF vars, base
<1> QED BY <1>3, <1>4, <1>5 DEF Next

(* Every variable keeps its type (module KnowledgeHealing).                 *)
THEOREM TypeCorrect == Spec => []TypeOK
<1>1. Init => TypeOK
      BY InitTyped
<1>2. TypeOK /\ [Next]_vars => TypeOK'
      BY NextTyped
<1> QED BY <1>1, <1>2, PTL DEF Spec

------------------------------------------------------------------------------
(* The healer.  A parse that was asked for is counted by the step after it, *)
(* or by a fault; and whoever is about to ask for one has found no mark.    *)
(* Once the mark is there, the count may expire: what was spent stays.      *)

Unrecorded == heal.pc = "record" /\ heal.id = row.id
Allowed == ~row.gaveUp \/ (heal.pc \in {"stop", "parse"} /\ heal.id = row.id)

BudgetInv ==
    /\ TypeOK
    /\ ~row.gaveUp => row.spent <= row.attempts + faults + (IF Unrecorded THEN 1 ELSE 0)
    /\ Allowed /\ ~Unrecorded => row.spent < MaxAttempts + faults
    /\ HealBudget

LEMMA BudgetNumbers ==
    ASSUME TypeOK
    PROVE  /\ row.spent \in Nat /\ row.attempts \in Nat /\ faults \in Nat
           /\ row.gaveUp \in BOOLEAN
<1> QED BY DEF TypeOK, BaseTypeOK, Row

(* A new row, or none, and a row on which only the status is written.       *)
Counts == <<row.id, row.spent, row.attempts, row.gaveUp>>
LEMMA BudgetKept ==
    ASSUME BudgetInv, TypeOK', UNCHANGED heal, faults' = faults \/ faults' = faults + 1,
           UNCHANGED Counts \/ row'.spent = 0
    PROVE  BudgetInv'
<1>1. /\ row.spent \in Nat /\ row.attempts \in Nat /\ faults \in Nat
      /\ row'.spent \in Nat /\ row'.attempts \in Nat /\ faults' \in Nat
      BY BudgetNumbers DEF BudgetInv, TypeOK, BaseTypeOK, Row
<1>2. CASE UNCHANGED Counts
  <2>1. /\ row'.spent = row.spent /\ row'.attempts = row.attempts /\ row'.gaveUp = row.gaveUp
        /\ Unrecorded' = Unrecorded /\ Allowed' = Allowed
        BY <1>2 DEF Counts, Unrecorded, Allowed
  <2> QED BY <1>1, <2>1 DEF BudgetInv, HealBudget
<1>3. CASE row'.spent = 0
  <2>1. row'.spent < MaxAttempts + faults'
    <3>1. \A n \in Nat : 0 < MaxAttempts + n
          OBVIOUS
    <3> QED BY <1>1, <1>3, <3>1
  <2>2. row'.spent <= row'.attempts + faults' + (IF Unrecorded' THEN 1 ELSE 0)
    <3>1. \A m, n \in Nat : 0 <= m + n + 1 /\ 0 <= m + n + 0
          OBVIOUS
    <3>2. CASE Unrecorded'
          BY <1>1, <1>3, <3>1, <3>2
    <3>3. CASE ~Unrecorded'
          BY <1>1, <1>3, <3>1, <3>3
    <3> QED BY <3>2, <3>3
  <2> QED BY <1>1, <2>1, <2>2 DEF BudgetInv, HealBudget
<1> QED BY <1>2, <1>3

LEMMA CountsOf ==
    ASSUME TypeOK
    PROVE  /\ \A st : LET w == Written(st)
                      IN  <<w.id, w.spent, w.attempts, w.gaveUp>> = Counts
           /\ \A r : LET w == Overwritten(r)
                     IN  <<w.id, w.spent, w.attempts, w.gaveUp>> = Counts
           /\ \A b : LET w == [row EXCEPT !.wrong = b]
                     IN  <<w.id, w.spent, w.attempts, w.gaveUp>> = Counts
           /\ NoRow.spent = 0 /\ NoRow.attempts = 0
           /\ \A d : NewRow(d).spent = 0 /\ NewRow(d).attempts = 0
<1>1. row \in Row
      BY RowTyped
<1> QED BY <1>1 DEF Written, Overwritten, Counts, NoRow, NewRow, Row

LEMMA BudgetBase ==
    ASSUME BudgetInv, TypeOK', BaseNext, UNCHANGED tasks
    PROVE  BudgetInv'
<1>1. TypeOK /\ UNCHANGED heal
      BY DEF BudgetInv, tasks
<1> DEFINE Kept == /\ faults' = faults \/ faults' = faults + 1
                   /\ UNCHANGED Counts \/ (row'.spent = 0 /\ row'.attempts = 0)
<1>2. UNCHANGED row => UNCHANGED Counts
      BY DEF Counts
<1>3. ASSUME NEW r \in Requests, Goes(r)
      PROVE  Kept
  <2>1. faults' = faults \/ faults' = faults + 1
        BY <1>3 DEF Goes, Dataset, Upload, Resolve, InsertMapping, Claim, CreateRemote,
           Activate, Discard, Reread, Lookup, Push, Save, Parse, Undo, ParseNew, Replace,
           ReadBack, Retire, DeleteRemote, DropRow, Reparse, Requeue, Embed, EmbedReset,
           DropSet, files, Faulty
  <2>2. CASE Save(r) \/ Parse(r) \/ Replace(r) \/ DropRow(r) \/ Requeue(r) \/ EmbedReset(r)
    <3>1. \/ row' = row \/ row' = NewRow(r) \/ row' = NoRow \/ row' = Overwritten(r)
          \/ row' = Written("queued") \/ \E b : row' = [row EXCEPT !.wrong = b]
          BY <2>2 DEF Save, Parse, Replace, DropRow, Requeue, EmbedReset
    <3>2. CASE row' = row
          BY <1>2, <2>1, <3>2
    <3>3. CASE row' = NewRow(r)
      <4>1. r \in Docs /\ NewRow(r).spent = 0 /\ NewRow(r).attempts = 0
            BY <1>1, CountsOf DEF Docs
      <4> QED BY <2>1, <3>3, <4>1
    <3>4. CASE row' = NoRow
      <4>1. NoRow.spent = 0 /\ NoRow.attempts = 0
            BY <1>1, CountsOf
      <4> QED BY <2>1, <3>4, <4>1
    <3>5. CASE row' = Overwritten(r)
      <4>1. <<row'.id, row'.spent, row'.attempts, row'.gaveUp>> = Counts
            BY <1>1, <3>5, CountsOf
      <4> QED BY <2>1, <4>1 DEF Counts
    <3>6. CASE row' = Written("queued")
      <4>1. <<row'.id, row'.spent, row'.attempts, row'.gaveUp>> = Counts
            BY <1>1, <3>6, CountsOf
      <4> QED BY <2>1, <4>1 DEF Counts
    <3>7. CASE \E b : row' = [row EXCEPT !.wrong = b]
      <4>1. <<row'.id, row'.spent, row'.attempts, row'.gaveUp>> = Counts
            BY <1>1, <3>7, CountsOf
      <4> QED BY <2>1, <4>1 DEF Counts
    <3> QED BY <3>1, <3>2, <3>3, <3>4, <3>5, <3>6, <3>7
  <2>3. CASE ~(Save(r) \/ Parse(r) \/ Replace(r) \/ DropRow(r) \/ Requeue(r) \/ EmbedReset(r))
    <3>1. UNCHANGED row
          BY <1>3, <2>3 DEF Goes, Dataset, Upload, Resolve, InsertMapping, Claim,
             CreateRemote, Activate, Discard, Reread, Lookup, Push, Undo, ParseNew, ReadBack,
             Retire, DeleteRemote, Reparse, Embed, DropSet, files
    <3> QED BY <1>2, <2>1, <3>1
  <2> QED BY <2>2, <2>3
<1>4. ASSUME NEW r \in Requests, \/ \E op \in {"upload", "delete", "reparse", "embed"} : Begin(r, op)
                                 \/ DropBase(r)
      PROVE  Kept
      BY <1>1, <1>2, <1>4, CountsOf DEF Begin, DropBase, files
<1>5. ASSUME NEW r \in Requests, Cut(r)
      PROVE  Kept
      BY <1>1, <1>2, <1>5, CountsOf DEF Cut, Faulty, Counts
<1>6. ASSUME NEW d \in Docs, RemoteEnds(d) \/ RemoteHangs(d)
      PROVE  Kept
      BY <1>2, <1>6 DEF RemoteEnds, RemoteHangs, Faulty
<1>7. Kept
      BY <1>3, <1>4, <1>5, <1>6 DEF BaseNext
<1> QED BY <1>1, <1>7, BudgetKept

LEMMA BudgetTasks ==
    ASSUME BudgetInv, TypeOK', Refresh \/ RowAges \/ Heal \/ KeyExpires \/ TasksDie
    PROVE  BudgetInv'
<1>1. TypeOK /\ row \in Row
      BY RowTyped DEF BudgetInv
<1>2. UNCHANGED row => UNCHANGED Counts
      BY DEF Counts
<1>3. /\ row.spent \in Nat /\ row.attempts \in Nat /\ faults \in Nat /\ row.gaveUp \in BOOLEAN
      /\ row'.spent \in Nat /\ row'.attempts \in Nat /\ faults' \in Nat
      BY <1>1, BudgetNumbers DEF TypeOK, BaseTypeOK, Row
<1>4. CASE Refresh
  <2>1. UNCHANGED heal /\ (faults' = faults \/ faults' = faults + 1)
        BY <1>4 DEF Refresh, RefreshScan, RefreshList, RefreshWrite, base, Faulty
  <2>2. UNCHANGED Counts
    <3>1. CASE RefreshWrite
      <4>1. \/ row' = row
            \/ \E b : row' = [Written(refresh.st) EXCEPT !.wrong = b]
            BY <3>1 DEF RefreshWrite
      <4> QED BY <1>1, <1>2, <4>1 DEF Written, Counts, Row
    <3>2. CASE RefreshScan \/ RefreshList
          BY <1>2, <3>2 DEF RefreshScan, RefreshList, base, files
    <3> QED BY <1>4, <3>1, <3>2 DEF Refresh
  <2> QED BY <2>1, <2>2, BudgetKept
<1>5. CASE RowAges
  <2>1. UNCHANGED heal /\ faults' = faults /\ UNCHANGED Counts
        BY <1>1, <1>5 DEF RowAges, tasks, Counts, Row
  <2> QED BY <2>1, BudgetKept
<1>6. CASE HealScan
  <2>1. /\ row' = row /\ heal.pc = "idle" /\ heal'.pc \in {"stop", "parse"}
        /\ faults' = IF row.gaveUp THEN faults + 1 ELSE faults
        BY <1>3, <1>6 DEF HealScan, HealBegins, HealIdle, files, Faulty
  <2>2. ~Unrecorded /\ ~Unrecorded'
        BY <2>1 DEF Unrecorded
  <2>3. ~row.gaveUp => row.spent < MaxAttempts + faults
        BY <2>2 DEF BudgetInv, Allowed
  <2> QED BY <1>3, <2>1, <2>2, <2>3 DEF BudgetInv, HealBudget
<1>7. CASE HealStop
  <2>1. /\ row' = row /\ heal.pc = "stop" /\ heal'.pc = "parse" /\ heal'.id = heal.id
        /\ faults' = faults \/ faults' = faults + 1
    <3>1. heal' = [heal EXCEPT !.pc = "parse"]
          BY <1>7 DEF HealStop
    <3>2. heal'.pc = "parse" /\ heal'.id = heal.id
          BY <1>1, <3>1 DEF TypeOK
    <3> QED BY <1>7, <3>2 DEF HealStop, Faulty
  <2>2. ~Unrecorded /\ ~Unrecorded' /\ Allowed' = Allowed
        BY <2>1 DEF Unrecorded, Allowed
  <2> QED BY <1>3, <2>1, <2>2 DEF BudgetInv, HealBudget
<1>8. CASE HealParse
  <2>1. /\ heal.pc = "parse" /\ heal'.pc = "record" /\ heal'.id = heal.id
        /\ faults' = faults \/ faults' = faults + 1
    <3>1. PICK accepted \in BOOLEAN :
            heal' = [heal EXCEPT !.pc = "record", !.remote = None, !.queue = accepted]
          BY <1>8 DEF HealParse
    <3>2. heal'.pc = "record" /\ heal'.id = heal.id
          BY <1>1, <3>1 DEF TypeOK
    <3> QED BY <1>8, <3>2 DEF HealParse, Faulty
  <2>2. ~Unrecorded
        BY <2>1 DEF Unrecorded
  <2>3. CASE row.id = heal.id
    <3>1. /\ row'.spent = row.spent + 1 /\ row'.attempts = row.attempts
          /\ row'.id = row.id /\ row'.gaveUp = row.gaveUp
          BY <1>1, <1>8, <2>3 DEF HealParse, Row
    <3>2. Unrecorded' /\ Allowed
          BY <2>1, <2>3, <3>1 DEF Unrecorded, Allowed
    <3>3. row.spent < MaxAttempts + faults
          BY <2>2, <3>2 DEF BudgetInv
    <3> QED BY <1>3, <2>1, <2>2, <3>1, <3>2, <3>3 DEF BudgetInv, HealBudget
  <2>4. CASE row.id # heal.id
    <3>1. row' = row
          BY <1>8, <2>4 DEF HealParse
    <3>2. ~Unrecorded' /\ (Allowed' => Allowed)
          BY <2>1, <2>4, <3>1 DEF Unrecorded, Allowed
    <3> QED BY <1>3, <2>1, <2>2, <3>1, <3>2 DEF BudgetInv, HealBudget
  <2> QED BY <2>3, <2>4
<1>9. CASE HealRecord
  <2>1. PICK counted \in BOOLEAN, told \in BOOLEAN :
          /\ told => counted
          /\ IF told THEN UNCHANGED faults ELSE Faulty
          /\ row' = IF row.id # heal.id THEN row
                    ELSE [(IF heal.queue THEN Written("queued") ELSE row) EXCEPT
                              !.attempts = IF counted THEN @ + 1 ELSE @,
                              !.gaveUp = @ \/ (told /\ row.attempts + 1 >= MaxAttempts)]
        BY <1>9 DEF HealRecord
  <2>2. heal.pc = "record" /\ heal' = HealIdle
        BY <1>9 DEF HealRecord
  <2>3. ~Unrecorded' /\ (Allowed' => ~row'.gaveUp)
        BY <2>2 DEF Unrecorded, Allowed, HealIdle
  <2>4. faults' = IF told THEN faults ELSE faults + 1
        BY <2>1 DEF Faulty
  <2>5. CASE row.id # heal.id
    <3>1. row' = row /\ ~Unrecorded
          BY <2>1, <2>5 DEF Unrecorded
    <3> QED BY <1>3, <2>3, <2>4, <3>1 DEF BudgetInv, HealBudget, Allowed
  <2>6. CASE row.id = heal.id
    <3>1. /\ row'.spent = row.spent
          /\ row'.attempts = IF counted THEN row.attempts + 1 ELSE row.attempts
          /\ ~row'.gaveUp => ~row.gaveUp /\ ~(told /\ row.attempts + 1 >= MaxAttempts)
      <4> DEFINE w == IF heal.queue THEN Written("queued") ELSE row
      <4>1. /\ w \in Row /\ w.spent = row.spent /\ w.attempts = row.attempts
                    /\ w.gaveUp = row.gaveUp
            BY <1>1, RowTyped, CountsOf DEF Counts, Statuses
      <4>2. row' = [w EXCEPT !.attempts = IF counted THEN w.attempts + 1 ELSE w.attempts,
                             !.gaveUp = w.gaveUp \/ (told /\ row.attempts + 1 >= MaxAttempts)]
            BY <2>1, <2>6
      <4> HIDE DEF w
      <4> QED BY <4>1, <4>2 DEF Row
    <3>2. Unrecorded
          BY <2>2, <2>6 DEF Unrecorded
    <3>3. /\ ~row.gaveUp => row.spent <= row.attempts + faults + 1
          /\ row.spent <= MaxAttempts + faults
          BY <3>2 DEF BudgetInv, HealBudget
    <3> HIDE DEF Unrecorded, Allowed
    <3> QED BY <1>3, <2>1, <2>3, <2>4, <3>1, <3>3 DEF BudgetInv, HealBudget
  <2> QED BY <2>5, <2>6
<1>10. CASE TasksDie
  <2>1. /\ row'.spent = row.spent /\ row'.gaveUp = row.gaveUp
        /\ row'.attempts = row.attempts \/ row'.attempts = row.attempts + 1
    <3>1. PICK counted \in BOOLEAN :
            row' = IF heal.pc = "record" /\ row.id = heal.id
                   THEN [row EXCEPT !.wrong = @ \/ heal.queue,
                                    !.attempts = IF counted THEN @ + 1 ELSE @]
                   ELSE row
          BY <1>10 DEF TasksDie
    <3> QED BY <1>1, <3>1 DEF Row
  <2>2. heal' = HealIdle /\ faults' = faults + 1
        BY <1>10 DEF TasksDie, Faulty
  <2>3. ~Unrecorded'
        BY <2>2 DEF Unrecorded, HealIdle
  <2>4. /\ ~row.gaveUp => row.spent <= row.attempts + faults + 1
        /\ row.spent <= MaxAttempts + faults
        BY <1>3 DEF BudgetInv, HealBudget
  <2> QED BY <1>3, <2>1, <2>2, <2>3, <2>4 DEF BudgetInv, HealBudget
<1>11. CASE CountExpires
  <2>1. /\ UNCHANGED heal /\ row'.id = row.id /\ row'.gaveUp = row.gaveUp
        /\ row'.attempts = 0 /\ row'.spent = IF row.gaveUp THEN row.spent ELSE 0
        /\ faults' = faults \/ faults' = faults + 1
    <3> DEFINE n == IF row.gaveUp THEN row.spent ELSE 0
    <3>1. n \in Nat /\ row' = [row EXCEPT !.attempts = 0, !.spent = n]
          BY <1>3, <1>11 DEF CountExpires
    <3> HIDE DEF n
    <3>2. row'.id = row.id /\ row'.gaveUp = row.gaveUp /\ row'.attempts = 0 /\ row'.spent = n
          BY <1>1, <3>1 DEF Row
    <3> QED BY <1>11, <3>2 DEF CountExpires, tasks, Faulty, n
  <2>2. Unrecorded' = Unrecorded /\ Allowed' = Allowed
        BY <2>1 DEF Unrecorded, Allowed
  <2> QED BY <1>3, <2>1, <2>2 DEF BudgetInv, HealBudget
<1>12. CASE MarkExpires
  <2>1. /\ row'.spent = 0 /\ UNCHANGED heal /\ (faults' = faults \/ faults' = faults + 1)
        BY <1>1, <1>12 DEF MarkExpires, tasks, Faulty, Row
  <2> QED BY <2>1, BudgetKept
<1> QED BY <1>4, <1>5, <1>6, <1>7, <1>8, <1>9, <1>10, <1>11, <1>12 DEF Heal, KeyExpires

(* From one start of the healer to the next, when what Redis holds of a     *)
(* file has expired, it asks for at most MaxAttempts parses of the file,    *)
(* and one more for each fault; a count that expires under the mark gives   *)
(* it no more (healOne of ragflow_anomaly_healer.go, RecordAttempt and      *)
(* MarkGivenUp of ragflow_heal_state.go).                                   *)
THEOREM Budget == Spec => []HealBudget
<1>1. Init => BudgetInv
  <2> SUFFICES ASSUME Init
               PROVE  BudgetInv
      OBVIOUS
  <2>1. TypeOK /\ faults = 0 /\ heal.pc = "idle"
        BY InitTyped DEF Init, BaseInit, HealIdle
  <2>2. row = NoRow \/ row = NewRow(Founder)
        BY DEF Init, BaseInit
  <2>3. row.spent = 0 /\ row.attempts = 0
        BY <2>1, <2>2, CountsOf
  <2> QED BY <2>1, <2>3 DEF BudgetInv, HealBudget, Unrecorded
<1>2. BudgetInv /\ [Next]_vars => BudgetInv'
  <2> SUFFICES ASSUME BudgetInv, [Next]_vars
               PROVE  BudgetInv'
      OBVIOUS
  <2>1. TypeOK'
        BY NextTyped DEF BudgetInv
  <2>2. CASE UNCHANGED vars
    <3>1. UNCHANGED heal /\ faults' = faults /\ UNCHANGED Counts
          BY <2>2 DEF vars, base, tasks, files, Counts
    <3> QED BY <2>1, <3>1, BudgetKept
  <2> QED BY <2>1, <2>2, BudgetBase, BudgetTasks DEF Next
<1>3. BudgetInv => HealBudget
      BY DEF BudgetInv
<1> QED BY <1>1, <1>2, <1>3, PTL DEF Spec

------------------------------------------------------------------------------
(* The datasets.  Each step leaves at most one more that nobody manages,    *)
(* and then counts a fault or a request whose base was deleted under it.    *)

HandPc == {"activate", "discard", "dropset"}
Managed == InHand \cup (IF live THEN {ds.set} ELSE {})
Stray == sets \ Managed

DatasetsInv ==
    /\ TypeOK
    /\ IsFiniteSet(sets) /\ 0 \notin sets
    /\ ds.status # "active" => ds.set = 0
    /\ DatasetsManaged

LEMMA Handed ==
    /\ \A x : x \in InHand <=> \E q \in Requests : req[q].pc \in HandPc /\ req[q].set = x
    /\ \A x : x \in InHand' <=> \E q \in Requests : req'[q].pc \in HandPc /\ req'[q].set = x
<1> QED BY DEF InHand, HandPc

(* The pc of the request that moves, and everything of the others.          *)
LEMMA Moved ==
    ASSUME TypeOK, NEW r \in Requests
    PROVE  /\ \A pc \in Steps : Go(r, pc) => /\ req'[r].pc = pc /\ req'[r].set = req[r].set
                                             /\ \A q \in Requests \ {r} : req'[q] = req[q]
           /\ End(r) => /\ req'[r].pc = "done"
                        /\ \A q \in Requests \ {r} : req'[q] = req[q]
           /\ Have(r) => /\ req'[r].pc = After(r)
                         /\ \A q \in Requests \ {r} : req'[q] = req[q]
           /\ After(r) \notin HandPc
<1>1. req[r] \in Request /\ req \in [Requests -> Request]
      BY RequestTyped
<1>2. ASSUME NEW pc \in Steps, Go(r, pc)
      PROVE  /\ req'[r].pc = pc /\ req'[r].set = req[r].set
             /\ \A q \in Requests \ {r} : req'[q] = req[q]
  <2>1. req' = [req EXCEPT ![r] = [req[r] EXCEPT !.pc = pc]]
        BY <1>1, <1>2 DEF Go
  <2> QED BY <1>1, <2>1 DEF Request
<1>3. ASSUME End(r)
      PROVE  req'[r].pc = "done" /\ \A q \in Requests \ {r} : req'[q] = req[q]
  <2> DEFINE set == IF run[r] = "none" THEN 0 ELSE req[r].set
  <2>1. req' = [req EXCEPT ![r] = [Fresh EXCEPT !.pc = "done", !.set = set]]
        BY <1>3 DEF End
  <2> HIDE DEF set
  <2> QED BY <1>1, <2>1 DEF Fresh
<1>4. ASSUME Have(r)
      PROVE  req'[r].pc = After(r) /\ \A q \in Requests \ {r} : req'[q] = req[q]
  <2> DEFINE to == After(r)
  <2>1. req' = [req EXCEPT ![r] = [req[r] EXCEPT !.ds = ds.id, !.set = ds.set, !.pc = to]]
        BY <1>1, <1>4 DEF Have
  <2> HIDE DEF to
  <2>2. req'[r].pc = to /\ \A q \in Requests \ {r} : req'[q] = req[q]
        BY <1>1, <2>1 DEF Request
  <2> QED BY <2>2 DEF to
<1>5. After(r) \notin HandPc
      BY DEF After, HandPc
<1> QED BY <1>2, <1>3, <1>4, <1>5

(* A set that grows by one element at most.                                 *)
LEMMA OneMore ==
    ASSUME NEW S, IsFiniteSet(S), NEW T, NEW x, T \subseteq S \cup {x}
    PROVE  /\ Cardinality(T) \in Nat /\ Cardinality(S) \in Nat
           /\ Cardinality(T) <= Cardinality(S) + 1
           /\ T \subseteq S => Cardinality(T) <= Cardinality(S)
<1>1. IsFiniteSet(S \cup {x}) /\ Cardinality(S \cup {x}) <= Cardinality(S) + 1
  <2>1. /\ IsFiniteSet(S \cup {x})
        /\ \/ Cardinality(S \cup {x}) = Cardinality(S)
           \/ Cardinality(S \cup {x}) = Cardinality(S) + 1
        BY FS_AddElement
  <2>2. Cardinality(S) \in Nat
        BY FS_CardinalityType
  <2> QED BY <2>1, <2>2
<1>2. IsFiniteSet(T) /\ Cardinality(T) <= Cardinality(S \cup {x})
      BY <1>1, FS_Subset
<1>3. /\ Cardinality(T) \in Nat /\ Cardinality(S) \in Nat /\ Cardinality(S \cup {x}) \in Nat
      BY <1>1, <1>2, FS_CardinalityType
<1>4. T \subseteq S => Cardinality(T) <= Cardinality(S)
      BY FS_Subset
<1> QED BY <1>1, <1>2, <1>3, <1>4

LEMMA DatasetsKept ==
    ASSUME DatasetsInv, TypeOK', IsFiniteSet(sets'), 0 \notin sets',
           ds'.status # "active" => ds'.set = 0,
           faults <= faults', caught <= caught',
           \/ Stray' \subseteq Stray
           \/ /\ faults + caught < faults' + caught'
              /\ \E x : Stray' \subseteq Stray \cup {x}
    PROVE  DatasetsInv'
<1>1. /\ faults \in Nat /\ caught \in Nat /\ faults' \in Nat /\ caught' \in Nat
      BY DEF DatasetsInv, TypeOK, BaseTypeOK
<1>2. IsFiniteSet(Stray) /\ Cardinality(Stray) <= faults + caught
      BY FS_Difference DEF DatasetsInv, Stray, DatasetsManaged, Managed
<1>3. Cardinality(Stray) \in Nat
      BY <1>2, FS_CardinalityType
<1>4. CASE Stray' \subseteq Stray
  <2>1. Cardinality(Stray') <= Cardinality(Stray) /\ Cardinality(Stray') \in Nat
    <3>1. Stray' \subseteq Stray \cup {0}
          BY <1>4
    <3> QED BY <1>2, <1>4, <3>1, OneMore
  <2>2. Cardinality(Stray') <= faults' + caught'
        BY <1>1, <1>2, <1>3, <2>1
  <2> QED BY <2>2 DEF DatasetsInv, DatasetsManaged, Stray, Managed
<1>5. CASE /\ faults + caught < faults' + caught'
           /\ \E x : Stray' \subseteq Stray \cup {x}
  <2>1. PICK x : Stray' \subseteq Stray \cup {x}
        BY <1>5
  <2>2. Cardinality(Stray') <= Cardinality(Stray) + 1 /\ Cardinality(Stray') \in Nat
        BY <1>2, <2>1, OneMore
  <2>3. \A c, d, n, m \in Nat : c <= n /\ n < m /\ d <= c + 1 => d <= m
        OBVIOUS
  <2>4. faults + caught \in Nat /\ faults' + caught' \in Nat
    <3>1. \A n, m \in Nat : n + m \in Nat
          OBVIOUS
    <3> QED BY <1>1, <3>1
  <2>5. Cardinality(Stray') <= faults' + caught'
        BY <1>2, <1>3, <1>5, <2>2, <2>3, <2>4
  <2> QED BY <2>5 DEF DatasetsInv, DatasetsManaged, Stray, Managed
<1> QED BY <1>4, <1>5

(* A step that leaves the datasets and the hands on them as they were.      *)
LEMMA HandsKept ==
    ASSUME DatasetsInv, TypeOK', UNCHANGED <<live, ds, sets, caught>>, faults <= faults',
           InHand \subseteq InHand'
    PROVE  DatasetsInv'
<1>1. Stray' \subseteq Stray
      BY DEF Stray, Managed
<1>2. caught \in Nat
      BY DEF DatasetsInv, TypeOK, BaseTypeOK
<1> QED BY <1>1, <1>2, DatasetsKept DEF DatasetsInv

LEMMA FaultyMore ==
    ASSUME TypeOK, Faulty \/ UNCHANGED faults
    PROVE  faults <= faults' /\ (Faulty => faults < faults')
<1> QED BY DEF Faulty, TypeOK, BaseTypeOK

(* A request that has no dataset in hand moves.                             *)
LEMMA OthersHands ==
    ASSUME TypeOK, NEW r \in Requests, req[r].pc \notin HandPc,
           \A q \in Requests \ {r} : req'[q] = req[q]
    PROVE  InHand \subseteq InHand'
<1> SUFFICES ASSUME NEW x \in InHand
             PROVE  x \in InHand'
    OBVIOUS
<1>1. PICK q \in Requests : req[q].pc \in HandPc /\ req[q].set = x
      BY Handed
<1>2. q # r
      BY <1>1
<1> QED BY <1>1, <1>2, Handed

LEMMA FilesHands ==
    ASSUME DatasetsInv, TypeOK', NEW r \in Requests,
           \/ Upload(r) \/ DeleteRemote(r) \/ DropRow(r) \/ Reparse(r) \/ Requeue(r)
           \/ Embed(r) \/ EmbedReset(r)
    PROVE  DatasetsInv'
<1>1. TypeOK /\ req[r] \in Request /\ req \in [Requests -> Request]
      BY RequestTyped DEF DatasetsInv
<1>2. req[r].pc \notin HandPc /\ UNCHANGED dataset /\ (Faulty \/ UNCHANGED faults)
      BY DEF Upload, Lookup, Push, Save, Parse, Undo, ParseNew, Replace, ReadBack, Retire,
         DeleteRemote, DropRow, Reparse, Requeue, Embed, EmbedReset, HandPc, At, files
<1>3. \A q \in Requests \ {r} : req'[q] = req[q]
  <2>1. CASE Lookup(r)
        BY <1>1, <2>1 DEF Lookup
  <2>2. CASE ~Lookup(r)
    <3>1. End(r) \/ \E pc \in Steps : Go(r, pc)
          BY <2>2 DEF Upload, Push, Save, Parse, Undo, ParseNew, Replace, ReadBack, Retire,
             DeleteRemote, DropRow, Reparse, Requeue, Embed, EmbedReset, Steps
    <3> QED BY <1>1, <3>1, Moved
  <2> QED BY <2>1, <2>2
<1> QED BY <1>1, <1>2, <1>3, OthersHands, FaultyMore, HandsKept DEF dataset

LEMMA DatasetsHands ==
    ASSUME DatasetsInv, TypeOK', NEW r \in Requests, Dataset(r)
    PROVE  DatasetsInv'
<1>1. /\ TypeOK /\ req[r] \in Request /\ req \in [Requests -> Request] /\ req[r].set \in Nat
      /\ born \in Nat /\ caught \in Nat /\ sets \subseteq Nat
      BY RequestTyped DEF DatasetsInv, TypeOK, BaseTypeOK, Request
<1>2. /\ IsFiniteSet(sets) /\ 0 \notin sets /\ (ds.status # "active" => ds.set = 0)
      BY DEF DatasetsInv
<1>3. ASSUME req[r].pc \notin HandPc, UNCHANGED dataset, UNCHANGED faults,
             \A q \in Requests \ {r} : req'[q] = req[q]
      PROVE  DatasetsInv'
      BY <1>1, <1>3, OthersHands, FaultyMore, HandsKept DEF dataset
<1>4. CASE Resolve(r)
  <2>1. \A q \in Requests \ {r} : req'[q] = req[q]
    <3>1. CASE req' = [req EXCEPT ![r].ds = ds.id, ![r].pc = "claim"]
          BY <1>1, <3>1
    <3> QED BY <1>1, <1>4, <3>1, Moved DEF Resolve, Steps
  <2> QED BY <1>3, <1>4, <2>1 DEF Resolve, At, HandPc
<1>5. CASE Reread(r)
  <2>1. \A q \in Requests \ {r} : req'[q] = req[q]
    <3>1. CASE req' = [req EXCEPT ![r].ds = ds.id, ![r].pc = "claim"]
          BY <1>1, <3>1
    <3> QED BY <1>1, <1>5, <3>1, Moved DEF Reread
  <2> QED BY <1>3, <1>5, <2>1 DEF Reread, At, HandPc
<1>6. CASE InsertMapping(r)
  <2>1. \A q \in Requests \ {r} : req'[q] = req[q]
    <3>1. CASE \E d : req' = [req EXCEPT ![r].ds = d, ![r].pc = "create"]
          BY <1>1, <3>1
    <3> QED BY <1>1, <1>6, <3>1, Moved DEF InsertMapping
  <2>2. InHand \subseteq InHand'
        BY <1>1, <1>6, <2>1, OthersHands DEF InsertMapping, At, HandPc
  <2>3. ds' = ds \/ (ds.set = 0 /\ ds'.set = 0)
        BY <1>2, <1>6 DEF InsertMapping
  <2>4. UNCHANGED <<live, sets, caught, faults>>
        BY <1>6 DEF InsertMapping
  <2>5. Stray' \subseteq Stray
        BY <1>2, <2>2, <2>3, <2>4 DEF Stray, Managed
  <2> QED BY <1>1, <1>2, <2>3, <2>4, <2>5, FaultyMore, DatasetsKept
<1>7. CASE Claim(r)
  <2>1. \A q \in Requests \ {r} : req'[q] = req[q]
        BY <1>1, <1>7, Moved DEF Claim, Steps
  <2>2. InHand \subseteq InHand'
        BY <1>1, <1>7, <2>1, OthersHands DEF Claim, At, HandPc
  <2>3. /\ ds'.set = ds.set /\ (ds'.status # "active" => ds'.set = 0)
        /\ UNCHANGED <<live, sets, caught, faults>>
        BY <1>1, <1>2, <1>7 DEF Claim, TypeOK, BaseTypeOK
  <2>4. Stray' \subseteq Stray
        BY <2>2, <2>3 DEF Stray, Managed
  <2> QED BY <1>1, <1>2, <2>3, <2>4, FaultyMore, DatasetsKept
<1>8. CASE CreateRemote(r)
  <2>1. UNCHANGED <<live, caught>> /\ req[r].pc \notin HandPc /\ (Faulty \/ UNCHANGED faults)
        BY <1>8 DEF CreateRemote, At, HandPc
  <2>2. \A q \in Requests \ {r} : req'[q] = req[q]
    <3>1. CASE req' = [req EXCEPT ![r].set = born + 1, ![r].pc = "activate"]
          BY <1>1, <3>1
    <3> QED BY <1>1, <1>8, <3>1, Moved DEF CreateRemote
  <2>3. InHand \subseteq InHand'
        BY <1>1, <2>1, <2>2, OthersHands
  <2>4. /\ ds'.set = ds.set /\ (ds'.status # "active" => ds'.set = 0)
        BY <1>1, <1>2, <1>8 DEF CreateRemote, TypeOK, BaseTypeOK, Claims
  <2>5. CASE sets' = sets
    <3>1. Stray' \subseteq Stray
          BY <2>1, <2>3, <2>4, <2>5 DEF Stray, Managed
    <3> QED BY <1>1, <1>2, <2>1, <2>4, <2>5, <3>1, FaultyMore, DatasetsKept
  <2>6. CASE sets' = sets \cup {born + 1}
    <3>1. IsFiniteSet(sets') /\ 0 \notin sets'
          BY <1>1, <1>2, <2>6, FS_AddElement
    <3>2. CASE Faulty
      <4>1. Stray' \subseteq Stray \cup {born + 1}
            BY <2>1, <2>3, <2>4, <2>6 DEF Stray, Managed
      <4>2. faults + caught < faults' + caught'
            BY <1>1, <2>1, <3>2 DEF Faulty, TypeOK, BaseTypeOK
      <4> QED BY <1>1, <2>1, <2>4, <3>1, <4>1, <4>2, FaultyMore, DatasetsKept
    <3>3. CASE req' = [req EXCEPT ![r].set = born + 1, ![r].pc = "activate"]
      <4>1. req'[r].pc = "activate" /\ req'[r].set = born + 1
            BY <1>1, <3>3 DEF Request
      <4>2. born + 1 \in InHand'
            BY <4>1, Handed DEF HandPc
      <4>3. Stray' \subseteq Stray
            BY <2>1, <2>3, <2>4, <2>6, <4>2 DEF Stray, Managed
      <4> QED BY <1>1, <2>1, <2>4, <3>1, <4>3, FaultyMore, DatasetsKept
    <3>4. CASE UNCHANGED sets
          BY <2>5, <3>4
    <3> QED BY <1>8, <3>2, <3>3, <3>4 DEF CreateRemote
  <2> QED BY <1>8, <2>5, <2>6 DEF CreateRemote
<1>9. CASE Activate(r)
  <2>1. UNCHANGED <<live, sets, faults>> /\ req[r].pc = "activate"
        BY <1>9 DEF Activate, At
  <2>2. \A q \in Requests \ {r} : req'[q] = req[q]
    <3>1. End(r) \/ Go(r, "discard") \/ Go(r, After(r))
          BY <1>9 DEF Activate
    <3> QED BY <1>1, <3>1, Moved, RequestTyped DEF Steps
  <2>3. InHand \subseteq InHand' \cup {req[r].set}
    <3> SUFFICES ASSUME NEW x \in InHand, x # req[r].set
                 PROVE  x \in InHand'
        OBVIOUS
    <3>1. PICK q \in Requests : req[q].pc \in HandPc /\ req[q].set = x
          BY Handed
    <3>2. q # r
          BY <3>1
    <3> QED BY <2>2, <3>1, <3>2, Handed
  <2>4. CASE Claims(r)
    <3>1. ds' = [ds EXCEPT !.status = "active", !.claim = None, !.set = req[r].set]
          BY <1>9, <2>4 DEF Activate, Claims
    <3>2. ds'.set = req[r].set /\ ds'.status = "active" /\ ds.set = 0
          BY <1>1, <1>2, <2>4, <3>1 DEF TypeOK, BaseTypeOK, Claims
    <3>3. CASE live
      <4>1. Stray' \subseteq Stray /\ caught' = caught
            BY <1>2, <1>9, <2>1, <2>3, <2>4, <3>2, <3>3 DEF Stray, Managed, Activate, Claims
      <4> QED BY <1>1, <1>2, <2>1, <3>2, <4>1, FaultyMore, DatasetsKept
    <3>4. CASE ~live
      <4>1. Stray' \subseteq Stray \cup {req[r].set} /\ caught' = caught + 1
            BY <1>2, <1>9, <2>1, <2>3, <2>4, <3>2, <3>4 DEF Stray, Managed, Activate
      <4>2. faults + caught < faults' + caught' /\ caught <= caught'
            BY <1>1, <2>1, <4>1 DEF TypeOK, BaseTypeOK
      <4> QED BY <1>1, <1>2, <2>1, <3>2, <4>1, <4>2, FaultyMore, DatasetsKept
    <3> QED BY <3>3, <3>4
  <2>5. CASE Own(r) /\ ~Claims(r)
    <3>1. Go(r, "discard") /\ ds' = ds /\ caught' = caught
          BY <1>9, <2>5 DEF Activate
    <3>2. req'[r].pc = "discard" /\ req'[r].set = req[r].set
          BY <1>1, <3>1, Moved DEF Steps
    <3>3. InHand \subseteq InHand'
          BY <2>3, <3>2, Handed DEF HandPc
    <3> QED BY <1>1, <2>1, <3>1, <3>3, FaultyMore, HandsKept
  <2>6. CASE ~Own(r)
    <3>1. ds' = ds /\ caught' = caught + 1
          BY <1>9, <2>6 DEF Activate, Claims
    <3>2. Stray' \subseteq Stray \cup {req[r].set}
          BY <2>1, <2>3, <3>1 DEF Stray, Managed
    <3>3. faults + caught < faults' + caught' /\ caught <= caught'
          BY <1>1, <2>1, <3>1 DEF TypeOK, BaseTypeOK
    <3> QED BY <1>1, <1>2, <2>1, <3>1, <3>2, <3>3, FaultyMore, DatasetsKept
  <2> QED BY <2>4, <2>5, <2>6
<1>10. CASE Discard(r)
  <2>1. /\ UNCHANGED <<live, ds, caught>> /\ req[r].pc = "discard" /\ Go(r, "reread")
        /\ Faulty \/ UNCHANGED faults
        BY <1>10 DEF Discard, At
  <2>2. \A q \in Requests \ {r} : req'[q] = req[q]
        BY <1>1, <2>1, Moved DEF Steps
  <2>3. InHand \subseteq InHand' \cup {req[r].set}
    <3> SUFFICES ASSUME NEW x \in InHand, x # req[r].set
                 PROVE  x \in InHand'
        OBVIOUS
    <3>1. PICK q \in Requests : req[q].pc \in HandPc /\ req[q].set = x
          BY Handed
    <3>2. q # r
          BY <3>1
    <3> QED BY <2>2, <3>1, <3>2, Handed
  <2>4. CASE sets' = sets \ {req[r].set}
    <3>1. IsFiniteSet(sets') /\ 0 \notin sets'
          BY <1>2, <2>4, FS_RemoveElement
    <3>2. Stray' \subseteq Stray
          BY <2>1, <2>3, <2>4 DEF Stray, Managed
    <3> QED BY <1>1, <1>2, <2>1, <3>1, <3>2, FaultyMore, DatasetsKept
  <2>5. CASE Faulty /\ UNCHANGED sets
    <3>1. Stray' \subseteq Stray \cup {req[r].set}
          BY <2>1, <2>3, <2>5 DEF Stray, Managed
    <3>2. faults + caught < faults' + caught'
          BY <1>1, <2>1, <2>5 DEF Faulty, TypeOK, BaseTypeOK
    <3> QED BY <1>1, <1>2, <2>1, <2>5, <3>1, <3>2, FaultyMore, DatasetsKept
  <2> QED BY <1>10, <2>4, <2>5 DEF Discard
<1> QED BY <1>4, <1>5, <1>6, <1>7, <1>8, <1>9, <1>10 DEF Dataset

LEMMA DropsHands ==
    ASSUME DatasetsInv, TypeOK', NEW r \in Requests, DropBase(r) \/ DropSet(r) \/ Cut(r)
    PROVE  DatasetsInv'
<1>1. /\ TypeOK /\ req[r] \in Request /\ req \in [Requests -> Request] /\ caught \in Nat
      BY RequestTyped DEF DatasetsInv, TypeOK, BaseTypeOK
<1>2. /\ IsFiniteSet(sets) /\ 0 \notin sets /\ (ds.status # "active" => ds.set = 0)
      BY DEF DatasetsInv
<1>3. \A q \in Requests \ {r} : req'[q] = req[q]
  <2>1. CASE req' = [req EXCEPT ![r].op = "drop", ![r].set = ds.set, ![r].pc = "dropset"]
        BY <1>1, <2>1
  <2> QED BY <1>1, <2>1, Moved DEF DropBase, DropSet, Cut
<1>4. InHand \subseteq InHand' \cup {req[r].set}
  <2> SUFFICES ASSUME NEW x \in InHand, x # req[r].set
               PROVE  x \in InHand'
      OBVIOUS
  <2>1. PICK q \in Requests : req[q].pc \in HandPc /\ req[q].set = x
        BY Handed
  <2>2. q # r
        BY <2>1
  <2> QED BY <1>3, <2>1, <2>2, Handed
<1>5. CASE DropBase(r)
  <2>1. /\ live /\ ~live' /\ ds' = Unmapped /\ UNCHANGED <<sets, caught, faults>>
        /\ req[r].pc = "idle"
        BY <1>5 DEF DropBase, At
  <2>2. InHand \subseteq InHand'
        BY <1>1, <1>3, <2>1, OthersHands DEF HandPc
  <2>3. ds.set = 0 \/ ds.set \in InHand'
    <3> SUFFICES ASSUME ds.set # 0
                 PROVE  ds.set \in InHand'
        OBVIOUS
    <3>1. req' = [req EXCEPT ![r].op = "drop", ![r].set = ds.set, ![r].pc = "dropset"]
          BY <1>5 DEF DropBase
    <3>2. req' = [req EXCEPT ![r] = [req[r] EXCEPT !.op = "drop", !.set = ds.set,
                                                   !.pc = "dropset"]]
          BY <1>1, <3>1
    <3>3. req'[r].pc = "dropset" /\ req'[r].set = ds.set
          BY <1>1, <3>2 DEF Request
    <3> QED BY <3>3, Handed DEF HandPc
  <2>4. Stray' \subseteq Stray
        BY <1>2, <2>1, <2>2, <2>3 DEF Stray, Managed
  <2>5. ds'.set = 0
        BY <2>1 DEF Unmapped
  <2> QED BY <1>1, <1>2, <2>1, <2>4, <2>5, FaultyMore, DatasetsKept
<1>6. CASE DropSet(r)
  <2>1. sets' = sets \ {req[r].set} /\ UNCHANGED <<live, ds, caught, faults>>
        BY <1>6 DEF DropSet
  <2>2. IsFiniteSet(sets') /\ 0 \notin sets'
        BY <1>2, <2>1, FS_RemoveElement
  <2>3. Stray' \subseteq Stray
        BY <1>4, <2>1 DEF Stray, Managed
  <2> QED BY <1>1, <1>2, <2>1, <2>2, <2>3, FaultyMore, DatasetsKept
<1>7. CASE Cut(r)
  <2>1. UNCHANGED <<live, ds, sets, caught>> /\ Faulty
        BY <1>7 DEF Cut, dataset
  <2>2. Stray' \subseteq Stray \cup {req[r].set}
        BY <1>4, <2>1 DEF Stray, Managed
  <2>3. faults + caught < faults' + caught'
        BY <1>1, <2>1 DEF Faulty, TypeOK, BaseTypeOK
  <2> QED BY <1>1, <1>2, <2>1, <2>2, <2>3, FaultyMore, DatasetsKept
<1> QED BY <1>5, <1>6, <1>7

LEMMA DatasetsStep == DatasetsInv /\ [Next]_vars => DatasetsInv'
<1> SUFFICES ASSUME DatasetsInv, [Next]_vars
             PROVE  DatasetsInv'
    OBVIOUS
<1>1. TypeOK /\ TypeOK'
      BY NextTyped DEF DatasetsInv
<1>2. ASSUME UNCHANGED <<dataset, req>>, Faulty \/ UNCHANGED faults
      PROVE  DatasetsInv'
  <2>1. InHand' = InHand
        BY <1>2 DEF InHand
  <2> QED BY <1>1, <1>2, <2>1, FaultyMore, HandsKept DEF dataset
<1>3. CASE Refresh \/ RowAges \/ Heal \/ KeyExpires \/ TasksDie
  <2>1. UNCHANGED dataset /\ UNCHANGED req
        BY <1>1, <1>3, TasksStepTyped
  <2>2. Faulty \/ UNCHANGED faults
    <3>1. CASE HealParse
          BY <3>1 DEF HealParse
    <3>2. CASE HealRecord
          BY <3>2 DEF HealRecord
    <3> QED BY <1>1, <1>3, <3>1, <3>2, Expiry DEF Refresh, RefreshScan, RefreshList, RefreshWrite,
               RowAges, Heal, HealScan, HealStop, TasksDie, base
  <2> QED BY <1>2, <2>1, <2>2
<1>4. ASSUME NEW r \in Requests, NEW op \in {"upload", "delete", "reparse", "embed"},
             Begin(r, op)
      PROVE  DatasetsInv'
  <2>1. /\ UNCHANGED dataset /\ UNCHANGED faults /\ req[r].pc = "idle"
        BY <1>4 DEF Begin, At
  <2>2. \A q \in Requests \ {r} : req'[q] = req[q]
        BY <1>1, <1>4 DEF Begin, TypeOK, BaseTypeOK
  <2>3. InHand \subseteq InHand'
        BY <1>1, <2>1, <2>2, OthersHands DEF HandPc
  <2> QED BY <1>1, <2>1, <2>3, FaultyMore, HandsKept DEF dataset
<1>5. ASSUME NEW r \in Requests, Goes(r)
      PROVE  DatasetsInv'
      BY <1>1, <1>5, DatasetsHands, FilesHands, DropsHands DEF Goes
<1>6. ASSUME NEW d \in Docs, RemoteEnds(d) \/ RemoteHangs(d)
      PROVE  DatasetsInv'
      BY <1>2, <1>6 DEF RemoteEnds, RemoteHangs
<1>7. CASE UNCHANGED vars
      BY <1>2, <1>7 DEF vars, base
<1> QED BY <1>1, <1>3, <1>4, <1>5, <1>6, <1>7, DropsHands DEF Next, BaseNext

(* However many requests create the dataset at once and take each other's   *)
(* claims over, every dataset in RAGFlow but one per fault, and one per     *)
(* request whose base was deleted under it, is named by the row of the base *)
(* or in the hands of a request that will settle it (createRemoteDataset    *)
(* and datasetAfterCreateConflict of knowledge_service.go,                  *)
(* DeleteIndustryKnowledgeBase of industry_knowledge_service.go).           *)
THEOREM DatasetsAccounted == Spec => []DatasetsManaged
<1>1. Init => DatasetsInv
  <2> SUFFICES ASSUME Init
               PROVE  DatasetsInv
      OBVIOUS
  <2>1. TypeOK /\ faults = 0 /\ caught = 0 /\ live
        BY InitTyped DEF Init, BaseInit
  <2>2. /\ IsFiniteSet(sets) /\ 0 \notin sets /\ sets \subseteq {ds.set}
        /\ ds.status # "active" => ds.set = 0
    <3>1. \/ ds = Unmapped /\ sets = {}
          \/ ds = [id |-> Founder, status |-> "active", claim |-> None, set |-> 1] /\ sets = {1}
          BY DEF Init, BaseInit
    <3>2. IsFiniteSet({}) /\ IsFiniteSet({1})
          BY FS_EmptySet, FS_Singleton
    <3> QED BY <3>1, <3>2 DEF Unmapped
  <2>3. sets \ Managed = {}
        BY <2>1, <2>2 DEF Managed
  <2>4. Cardinality(sets \ Managed) = 0
        BY <2>3, FS_EmptySet
  <2> QED BY <2>1, <2>2, <2>4 DEF DatasetsInv, DatasetsManaged, Managed
<1>2. DatasetsInv /\ [Next]_vars => DatasetsInv'
      BY DatasetsStep
<1>3. DatasetsInv => DatasetsManaged
      BY DEF DatasetsInv
<1> QED BY <1>1, <1>2, <1>3, PTL DEF Spec

------------------------------------------------------------------------------
(* Completed is parsed.  A document is attached to the row once, by the     *)
(* request that brought it, and no request parses or deletes the document   *)
(* that the row names unless it is about to write so.                       *)

Post == {"parse", "undo", "readback", "retire", "done"}
MappingPc == {"resolve", "insert", "claim", "create", "activate", "discard", "reread"}
Attached(d) == row.remote = d \/ heal.remote = d \/ \E q \in Requests : req[q].old = d

RowNamed == row = NoRow \/ (row.id # None /\ row.remote \in Docs)
Later == \A r \in Requests : Attached(r) => req[r].pc \in Post
Distinct ==
    \A r \in Requests :
        /\ req[r].old # r
        /\ req[r].pc = "undo" => row.remote # r
        /\ req[r].pc = "retire" => row = NoRow \/ row.remote # req[r].old
SameFile ==
    row # NoRow =>
        /\ \A r \in Requests : req[r].old = row.remote => req[r].file = row.id
        /\ heal.remote = row.remote => heal.id = row.id
FileKnown ==
    \A r \in Requests :
        (\/ req[r].pc \in {"reparse", "requeue", "parsenew", "replace"}
         \/ req[r].pc \in MappingPc /\ req[r].op \notin {"upload", "delete"})
        => req[r].file # None
MappingKnown ==
    /\ ds.status = "none" <=> ds.id = None
    /\ \A r \in Requests : /\ req[r].pc = "dropset" => ~live
                           /\ req[r].pc \in {"embed", "reset"} /\ live => Own(r)
TasksKnown ==
    /\ heal.pc # "idle" => heal.id # None
    /\ refresh.pc # "idle" => refresh.id # None
    /\ heal.queue => heal.pc = "record"

AttachInv == RowNamed /\ Later /\ Distinct /\ SameFile
KnownInv == FileKnown /\ MappingKnown
FileInv == TypeOK /\ AttachInv /\ KnownInv /\ TasksKnown

LEMMA NamesApart ==
    /\ \A r \in Requests : r \in Docs /\ r # None
    /\ Founder \in Docs /\ None \notin Docs
    /\ NoRow.id = None /\ NoRow.remote = None /\ NoRow.st = "none"
<1> QED BY DEF Docs, NoRow

(* What a request is after its step.                                        *)
LEMMA Became ==
    ASSUME TypeOK, NEW r \in Requests
    PROVE  /\ \A pc \in Steps : Go(r, pc) =>
                /\ req'[r].pc = pc /\ req'[r].op = req[r].op /\ req'[r].ds = req[r].ds
                /\ req'[r].file = req[r].file /\ req'[r].old = req[r].old
           /\ End(r) => /\ req'[r].pc = "done" /\ req'[r].file = None /\ req'[r].old = None
           /\ Have(r) =>
                /\ req'[r].pc = After(r) /\ req'[r].op = req[r].op /\ req'[r].ds = ds.id
                /\ req'[r].file = req[r].file /\ req'[r].old = req[r].old
<1>1. req[r] \in Request /\ req \in [Requests -> Request]
      BY RequestTyped
<1>2. ASSUME NEW pc \in Steps, Go(r, pc)
      PROVE  /\ req'[r].pc = pc /\ req'[r].op = req[r].op /\ req'[r].ds = req[r].ds
             /\ req'[r].file = req[r].file /\ req'[r].old = req[r].old
  <2>1. req' = [req EXCEPT ![r] = [req[r] EXCEPT !.pc = pc]]
        BY <1>1, <1>2 DEF Go
  <2> QED BY <1>1, <2>1 DEF Request
<1>3. ASSUME End(r)
      PROVE  req'[r].pc = "done" /\ req'[r].file = None /\ req'[r].old = None
  <2> DEFINE set == IF run[r] = "none" THEN 0 ELSE req[r].set
  <2>1. req' = [req EXCEPT ![r] = [Fresh EXCEPT !.pc = "done", !.set = set]]
        BY <1>3 DEF End
  <2> HIDE DEF set
  <2> QED BY <1>1, <2>1 DEF Fresh
<1>4. ASSUME Have(r)
      PROVE  /\ req'[r].pc = After(r) /\ req'[r].op = req[r].op /\ req'[r].ds = ds.id
             /\ req'[r].file = req[r].file /\ req'[r].old = req[r].old
  <2> DEFINE to == After(r)
  <2>1. req' = [req EXCEPT ![r] = [req[r] EXCEPT !.ds = ds.id, !.set = ds.set, !.pc = to]]
        BY <1>1, <1>4 DEF Have
  <2> HIDE DEF to
  <2>2. /\ req'[r].pc = to /\ req'[r].op = req[r].op /\ req'[r].ds = ds.id
        /\ req'[r].file = req[r].file /\ req'[r].old = req[r].old
        BY <1>1, <2>1 DEF Request
  <2> QED BY <2>2 DEF to
<1> QED BY <1>2, <1>3, <1>4

(* The row is left, rewritten under its names, or deleted.                  *)
RowWeaker ==
    \/ row' = NoRow \/ row' = row
    \/ row # NoRow /\ row'.id = row.id /\ row'.remote = row.remote
(* The request keeps the document that it has read, drops it, or reads it.  *)
OldKept(r) ==
    \/ req'[r].old = req[r].old /\ req'[r].file = req[r].file
    \/ req'[r].old = None /\ req'[r].file = None /\ req'[r].pc = "done"
    \/ /\ req'[r].old = row.remote /\ req'[r].file = row.id
       /\ req[r].pc \notin Post /\ req'[r].pc \notin Post

LEMMA AttachKept ==
    ASSUME FileInv, NEW r \in Requests, RowWeaker, UNCHANGED heal, OldKept(r),
           \A q \in Requests \ {r} : req'[q] = req[q],
           req[r].pc \in Post => req'[r].pc \in Post,
           req'[r].pc = "undo" => row'.remote # r,
           req'[r].pc = "retire" => row' = NoRow \/ row'.remote # req'[r].old
    PROVE  AttachInv'
<1>1. /\ NoRow.id = None /\ NoRow.remote = None /\ None \notin Requests /\ None \notin Docs
      BY NamesApart
<1>2. RowNamed /\ Later /\ Distinct /\ SameFile
      BY DEF FileInv, AttachInv
<1>3. RowNamed'
      BY <1>1, <1>2 DEF RowNamed, RowWeaker
<1>4. row'.remote = None \/ row'.remote = row.remote
      BY <1>1 DEF RowWeaker
<1>5. Later'
  <2> SUFFICES ASSUME NEW s \in Requests, Attached(s)'
               PROVE  req'[s].pc \in Post
      BY DEF Later
  <2>1. Attached(s)
    <3>1. CASE row'.remote = s \/ heal'.remote = s
          BY <1>1, <1>4, <3>1 DEF Attached
    <3>2. CASE \E q \in Requests : req'[q].old = s
      <4>1. PICK q \in Requests : req'[q].old = s
            BY <3>2
      <4>2. CASE q = r
            BY <1>1, <4>1, <4>2 DEF Attached, OldKept
      <4>3. CASE q # r
            BY <4>1, <4>3 DEF Attached
      <4> QED BY <4>2, <4>3
    <3> QED BY <3>1, <3>2 DEF Attached
  <2>2. req[s].pc \in Post
        BY <1>2, <2>1 DEF Later
  <2> QED BY <2>2
<1>6. Distinct'
  <2> SUFFICES ASSUME NEW q \in Requests
               PROVE  /\ req'[q].old # q
                      /\ req'[q].pc = "undo" => row'.remote # q
                      /\ req'[q].pc = "retire" => row' = NoRow \/ row'.remote # req'[q].old
      BY DEF Distinct
  <2>1. /\ req[q].old # q /\ (req[q].pc = "undo" => row.remote # q)
        /\ req[q].pc = "retire" => row = NoRow \/ row.remote # req[q].old
        /\ row.remote = q => req[q].pc \in Post
        BY <1>2 DEF Distinct, Later, Attached
  <2>2. CASE q # r
        BY <1>1, <1>4, <2>1, <2>2 DEF RowWeaker
  <2>3. CASE q = r
        BY <1>1, <2>1, <2>3 DEF OldKept
  <2> QED BY <2>2, <2>3
<1>7. SameFile'
  <2> SUFFICES ASSUME row' # NoRow
               PROVE  /\ \A q \in Requests : req'[q].old = row'.remote => req'[q].file = row'.id
                      /\ heal'.remote = row'.remote => heal'.id = row'.id
      BY DEF SameFile
  <2>1. row # NoRow /\ row'.id = row.id /\ row'.remote = row.remote /\ row.remote # None
        BY <1>1, <1>2 DEF RowWeaker, RowNamed
  <2> QED BY <1>2, <2>1 DEF SameFile, OldKept
<1> QED BY <1>3, <1>5, <1>6, <1>7 DEF AttachInv

(* The request puts its own document on the row.                            *)
LEMMA AttachOwn ==
    ASSUME FileInv, NEW r \in Requests, UNCHANGED heal,
           \A q \in Requests \ {r} : req'[q] = req[q],
           req[r].pc \notin Post, req'[r].pc \in {"parse", "readback"},
           req'[r].old = req[r].old, row'.remote = r, row'.id # None
    PROVE  AttachInv'
<1>1. RowNamed /\ Later /\ Distinct /\ SameFile /\ r \in Docs
      BY NamesApart DEF FileInv, AttachInv
<1>2. ~Attached(r) /\ req[r].old # r
      BY <1>1 DEF Later, Distinct
<1>3. RowNamed'
      BY <1>1 DEF RowNamed
<1>4. \A q \in Requests : req'[q].old = req[q].old /\ req'[q].old # r
      BY <1>2 DEF Attached
<1>5. Later'
      BY <1>1, <1>4 DEF Later, Attached, Post
<1>6. Distinct'
      BY <1>1, <1>4 DEF Distinct
<1>7. SameFile'
      BY <1>2, <1>4 DEF SameFile, Attached
<1> QED BY <1>3, <1>5, <1>6, <1>7 DEF AttachInv

LEMMA KnownKept ==
    ASSUME FileInv, NEW r \in Requests, \A q \in Requests \ {r} : req'[q] = req[q],
           live' => live, ds'.status = "none" <=> ds'.id = None,
           live' /\ ds.id # None => ds'.id = ds.id,
           (\/ req'[r].pc \in {"reparse", "requeue", "parsenew", "replace"}
            \/ req'[r].pc \in MappingPc /\ req'[r].op \notin {"upload", "delete"})
           => req'[r].file # None,
           req'[r].pc = "dropset" => ~live',
           req'[r].pc \in {"embed", "reset"} /\ live' => req'[r].ds = ds'.id /\ ds'.id # None
    PROVE  KnownInv'
<1>1. FileKnown /\ MappingKnown
      BY DEF FileInv, KnownInv
<1>2. FileKnown'
  <2> SUFFICES ASSUME NEW q \in Requests,
                      \/ req'[q].pc \in {"reparse", "requeue", "parsenew", "replace"}
                      \/ req'[q].pc \in MappingPc /\ req'[q].op \notin {"upload", "delete"}
               PROVE  req'[q].file # None
      BY DEF FileKnown
  <2>1. CASE q = r
        BY <2>1
  <2>2. CASE q # r
        BY <1>1, <2>2 DEF FileKnown
  <2> QED BY <2>1, <2>2
<1>3. MappingKnown'
  <2> SUFFICES ASSUME NEW q \in Requests
               PROVE  /\ req'[q].pc = "dropset" => ~live'
                      /\ req'[q].pc \in {"embed", "reset"} /\ live' => Own(q)'
      BY DEF MappingKnown
  <2>1. CASE q = r
        BY <2>1 DEF Own
  <2>2. CASE q # r
        BY <1>1, <2>2 DEF MappingKnown, Own
  <2> QED BY <2>1, <2>2
<1> QED BY <1>2, <1>3 DEF KnownInv

LEMMA FilesNamed ==
    ASSUME FileInv, TypeOK', NEW r \in Requests, UNCHANGED tasks,
           \/ Upload(r) \/ DeleteRemote(r) \/ DropRow(r) \/ Reparse(r) \/ Requeue(r)
           \/ Embed(r) \/ EmbedReset(r)
    PROVE  FileInv'
<1>1. /\ TypeOK /\ req[r] \in Request /\ req \in [Requests -> Request] /\ row \in Row
      /\ UNCHANGED heal /\ TasksKnown'
      BY RequestTyped, RowTyped DEF FileInv, tasks, TasksKnown
<1>2. UNCHANGED <<live, ds>> /\ (ds.status = "none" <=> ds.id = None)
      BY <1>1, FileStepTyped DEF dataset, FileInv, KnownInv, MappingKnown
<1>3. RowNamed /\ Later /\ Distinct /\ SameFile /\ FileKnown /\ MappingKnown
      BY DEF FileInv, AttachInv, KnownInv
<1>4. /\ r \in Docs /\ r # None /\ NoRow.id = None
      BY NamesApart
<1>5. ASSUME AttachInv', KnownInv'
      PROVE  FileInv'
      BY <1>1, <1>5 DEF FileInv
<1> USE DEF At, Post, MappingPc, OldKept, RowWeaker
<1>6. CASE Lookup(r)
  <2>1. /\ req' = [req EXCEPT ![r] = [req[r] EXCEPT !.file = row.id, !.old = row.remote,
                                                    !.pc = "push"]]
        /\ req[r].pc = "lookup" /\ row' = row
        BY <1>1, <1>6 DEF Lookup, files
  <2>2. /\ req'[r].pc = "push" /\ req'[r].file = row.id /\ req'[r].old = row.remote
        /\ \A q \in Requests \ {r} : req'[q] = req[q]
        BY <1>1, <2>1 DEF Request
  <2>3. AttachInv'
        BY <1>1, <2>1, <2>2, AttachKept
  <2>4. KnownInv'
        BY <1>2, <2>2, KnownKept
  <2> QED BY <1>5, <2>3, <2>4
<1>7. ASSUME NEW pc \in Steps, Go(r, pc), RowWeaker,
             req[r].pc \in Post => pc \in Post,
             pc = "undo" => row'.remote # r,
             pc = "retire" => row' = NoRow \/ row'.remote # req[r].old,
             pc \in {"reparse", "requeue", "parsenew", "replace"} => req[r].file # None,
             pc \notin MappingPc \cup {"embed", "dropset"},
             pc = "reset" /\ live => Own(r)
      PROVE  FileInv'
  <2>1. /\ req'[r].pc = pc /\ req'[r].file = req[r].file /\ req'[r].old = req[r].old
        /\ req'[r].ds = req[r].ds /\ \A q \in Requests \ {r} : req'[q] = req[q]
        BY <1>1, <1>7, Became, Moved
  <2>2. AttachInv'
        BY <1>1, <1>7, <2>1, AttachKept
  <2>3. KnownInv'
        BY <1>2, <1>7, <2>1, KnownKept DEF Own
  <2> QED BY <1>5, <2>2, <2>3
<1>8. ASSUME End(r), RowWeaker
      PROVE  FileInv'
  <2>1. /\ req'[r].pc = "done" /\ req'[r].file = None /\ req'[r].old = None
        /\ \A q \in Requests \ {r} : req'[q] = req[q]
        BY <1>1, <1>8, Became, Moved
  <2>2. AttachInv'
        BY <1>1, <1>8, <2>1, AttachKept
  <2>3. KnownInv'
        BY <1>2, <2>1, KnownKept
  <2> QED BY <1>5, <2>2, <2>3
<1>9. ASSUME NEW pc \in {"parse", "readback"}, Go(r, pc), req[r].pc \notin Post,
             row'.remote = r, row'.id # None
      PROVE  FileInv'
  <2>1. /\ req'[r].pc = pc /\ req'[r].file = req[r].file /\ req'[r].old = req[r].old
        /\ \A q \in Requests \ {r} : req'[q] = req[q]
        BY <1>1, <1>9, Became, Moved DEF Steps
  <2>2. AttachInv'
        BY <1>1, <1>9, <2>1, AttachOwn
  <2>3. KnownInv'
        BY <1>2, <2>1, KnownKept
  <2> QED BY <1>5, <2>2, <2>3
<1>10. \/ row.remote # r \/ req[r].pc \in Post
       BY <1>3 DEF Later, Attached
<1>11. CASE Push(r)
  <2>1. row' = row /\ req[r].pc = "push"
        BY <1>11 DEF Push
  <2>2. \/ End(r) \/ Go(r, "done")
        \/ Go(r, "save") \/ (req[r].file # None /\ Go(r, "parsenew"))
        BY <1>11 DEF Push
  <2> QED BY <1>7, <1>8, <2>1, <2>2 DEF Steps
<1>12. CASE Save(r)
  <2>1. req[r].pc = "save"
        BY <1>12 DEF Save
  <2>2. CASE row' = NewRow(r) /\ Go(r, "parse")
    <3>1. row'.remote = r /\ row'.id = r
          BY <2>2 DEF NewRow, NoRow
    <3> QED BY <1>4, <1>9, <2>1, <2>2, <3>1
  <2>3. CASE row' = row /\ Go(r, "undo")
        BY <1>7, <1>10, <2>1, <2>3 DEF Steps
  <2> QED BY <1>12, <2>2, <2>3 DEF Save
<1>13. CASE Parse(r)
  <2>1. End(r) /\ RowWeaker
    <3>1. CASE row.id = r
      <4>1. row # NoRow
            BY <1>4, <3>1
      <4>2. row' = row \/ \E b : row' = [row EXCEPT !.wrong = b]
            BY <1>13 DEF Parse
      <4> QED BY <1>1, <1>13, <4>1, <4>2 DEF Parse, Row
    <3> QED BY <1>13, <3>1 DEF Parse
  <2> QED BY <1>8, <2>1
<1>14. CASE Undo(r) \/ Retire(r)
  <2>1. End(r) /\ row' = row
        BY <1>14 DEF Undo, Retire
  <2> QED BY <1>8, <2>1
<1>15. CASE ParseNew(r)
  <2>1. row' = row /\ req[r].pc = "parsenew" /\ req[r].file # None
        BY <1>3, <1>15 DEF ParseNew, FileKnown
  <2>2. Go(r, "replace") \/ Go(r, "undo")
        BY <1>15 DEF ParseNew
  <2> QED BY <1>7, <1>10, <2>1, <2>2 DEF Steps
<1>16. CASE Replace(r)
  <2>1. req[r].pc = "replace" /\ req[r].file # None
        BY <1>3, <1>16 DEF Replace, FileKnown
  <2>2. CASE row.id = req[r].file /\ row' = Overwritten(r) /\ Go(r, "readback")
    <3>1. row'.remote = r /\ row'.id = row.id
          BY <1>1, <2>2 DEF Overwritten, Written, Row
    <3> QED BY <1>9, <2>1, <2>2, <3>1
  <2>3. CASE row' = row /\ (Go(r, "readback") \/ Go(r, "undo"))
        BY <1>7, <1>10, <2>1, <2>3 DEF Steps
  <2> QED BY <1>16, <2>2, <2>3 DEF Replace
<1>17. CASE ReadBack(r)
  <2>1. row' = row /\ req[r].pc = "readback" /\ req[r].old # r
        BY <1>3, <1>17 DEF ReadBack, Distinct
  <2>2. \/ End(r)
        \/ row.remote = r /\ Go(r, "retire")
        \/ row.remote # r /\ Go(r, "undo")
        BY <1>17 DEF ReadBack
  <2> QED BY <1>7, <1>8, <2>1, <2>2 DEF Steps
<1>18. CASE DeleteRemote(r)
  <2>1. row' = row /\ req[r].pc = "deleteremote" /\ (End(r) \/ Go(r, "droprow"))
        BY <1>18 DEF DeleteRemote
  <2> QED BY <1>7, <1>8, <2>1 DEF Steps
<1>19. CASE DropRow(r)
  <2>1. End(r) /\ RowWeaker
        BY <1>19 DEF DropRow
  <2> QED BY <1>8, <2>1
<1>20. CASE Reparse(r)
  <2>1. row' = row /\ req[r].pc = "reparse" /\ req[r].file # None
        BY <1>3, <1>20 DEF Reparse, FileKnown
  <2>2. End(r) \/ Go(r, "requeue")
        BY <1>20 DEF Reparse
  <2> QED BY <1>7, <1>8, <2>1, <2>2 DEF Steps
<1>21. CASE Requeue(r)
  <2>1. End(r) /\ req[r].file # None
        BY <1>3, <1>21 DEF Requeue, FileKnown
  <2>2. RowWeaker
    <3>1. CASE row.id = req[r].file
      <4>1. row' = Written("queued") /\ row # NoRow
            BY <1>4, <1>21, <2>1, <3>1 DEF Requeue
      <4> QED BY <1>1, <4>1 DEF Written, Row
    <3>2. CASE row.id # req[r].file
          BY <1>21, <3>2 DEF Requeue
    <3> QED BY <3>1, <3>2
  <2> QED BY <1>8, <2>1, <2>2
<1>22. CASE Embed(r)
  <2>1. row' = row /\ req[r].pc = "embed" /\ (End(r) \/ Go(r, "reset"))
        BY <1>22 DEF Embed
  <2>2. live => Own(r)
        BY <1>3, <2>1 DEF MappingKnown
  <2> QED BY <1>7, <1>8, <2>1, <2>2 DEF Steps
<1>23. CASE EmbedReset(r)
  <2>1. End(r)
        BY <1>23 DEF EmbedReset
  <2>2. RowWeaker
    <3>1. CASE row # NoRow /\ row' = Written("queued")
          BY <1>1, <3>1 DEF Written, Row
    <3> QED BY <1>23, <3>1 DEF EmbedReset
  <2> QED BY <1>8, <2>1, <2>2
<1> QED BY <1>6, <1>11, <1>12, <1>13, <1>14, <1>15, <1>16, <1>17, <1>18, <1>19, <1>20,
           <1>21, <1>22, <1>23 DEF Upload

LEMMA MappingNamed ==
    ASSUME FileInv, TypeOK', NEW r \in Requests, UNCHANGED tasks, Dataset(r)
    PROVE  FileInv'
<1>1. /\ TypeOK /\ req[r] \in Request /\ req \in [Requests -> Request] /\ UNCHANGED row
      /\ UNCHANGED heal /\ TasksKnown' /\ After(r) \in Steps
      BY RequestTyped, DatasetStepTyped DEF FileInv, tasks, TasksKnown, files
<1>2. /\ UNCHANGED live /\ (ds.status = "none" <=> ds.id = None)
      /\ FileKnown
      BY DEF FileInv, KnownInv, MappingKnown, Dataset, Resolve, InsertMapping, Claim,
             CreateRemote, Activate, Discard, Reread, dataset
<1>3. req[r].pc \in MappingPc
      BY DEF Dataset, Resolve, InsertMapping, Claim, CreateRemote, Activate, Discard, Reread,
             At, MappingPc
<1>4. req[r].op \notin {"upload", "delete"} => req[r].file # None
      BY <1>2, <1>3 DEF FileKnown
<1>5. \/ ds' = ds
      \/ ds.status = "none" /\ ds'.id = r /\ ds'.status = "creating"
      \/ ds.status # "none" /\ ds'.id = ds.id /\ ds'.status # "none"
  <2>1. ds \in [id : Names, status : {"none", "creating", "failed", "active"},
                claim : Names, set : Nat]
        BY <1>1 DEF TypeOK, BaseTypeOK
  <2>2. CASE Resolve(r) \/ Discard(r) \/ Reread(r)
        BY <2>2 DEF Resolve, Discard, Reread, dataset
  <2>3. CASE InsertMapping(r)
        BY <2>3 DEF InsertMapping
  <2>4. CASE Claim(r)
        BY <1>2, <2>1, <2>4 DEF Claim, Own
  <2>5. CASE CreateRemote(r)
        BY <2>1, <2>5 DEF CreateRemote, Claims
  <2>6. CASE Activate(r)
        BY <2>1, <2>6 DEF Activate, Claims
  <2> QED BY <2>2, <2>3, <2>4, <2>5, <2>6 DEF Dataset
<1>6. /\ ds'.status = "none" <=> ds'.id = None
      /\ ds.id # None => ds'.id = ds.id
      BY <1>2, <1>5, NamesApart
<1> DEFINE Ends == /\ \A q \in Requests \ {r} : req'[q] = req[q]
                   /\ OldKept(r)
                   /\ req'[r].pc \notin {"undo", "retire", "embed", "reset", "dropset"}
                   /\ (\/ req'[r].pc \in {"reparse", "requeue", "parsenew", "replace"}
                       \/ req'[r].pc \in MappingPc /\ req'[r].op \notin {"upload", "delete"})
                      => req'[r].file # None
<1>7. Ends
  <2> DEFINE Kept(pc) == /\ \A q \in Requests \ {r} : req'[q] = req[q]
                         /\ req'[r].pc = pc /\ req'[r].op = req[r].op
                         /\ req'[r].file = req[r].file /\ req'[r].old = req[r].old
  <2>1. \/ End(r)
        \/ \E pc \in MappingPc \cup {After(r)} : Kept(pc)
    <3>1. MappingPc \subseteq Steps
          BY DEF MappingPc, Steps
    <3>2. \/ End(r) \/ Have(r) \/ \E pc \in MappingPc \cup {After(r)} : Go(r, pc)
          \/ \E d : \E pc \in MappingPc : req' = [req EXCEPT ![r].ds = d, ![r].pc = pc]
          \/ \E n : \E pc \in MappingPc : req' = [req EXCEPT ![r].set = n, ![r].pc = pc]
          BY DEF Dataset, Resolve, InsertMapping, Claim, CreateRemote, Activate, Discard,
                 Reread, MappingPc
    <3>3. CASE Have(r) \/ \E pc \in MappingPc \cup {After(r)} : Go(r, pc)
          BY <1>1, <3>1, <3>3, Became, Moved
    <3>4. CASE \/ \E d : \E pc \in MappingPc : req' = [req EXCEPT ![r].ds = d, ![r].pc = pc]
               \/ \E n : \E pc \in MappingPc : req' = [req EXCEPT ![r].set = n, ![r].pc = pc]
      <4>1. ASSUME NEW d, NEW pc \in MappingPc, req' = [req EXCEPT ![r].ds = d, ![r].pc = pc]
            PROVE  Kept(pc)
        <5>1. req' = [req EXCEPT ![r] = [req[r] EXCEPT !.ds = d, !.pc = pc]]
              BY <1>1, <4>1
        <5> QED BY <1>1, <5>1 DEF Request
      <4>2. ASSUME NEW n, NEW pc \in MappingPc, req' = [req EXCEPT ![r].set = n, ![r].pc = pc]
            PROVE  Kept(pc)
        <5>1. req' = [req EXCEPT ![r] = [req[r] EXCEPT !.set = n, !.pc = pc]]
              BY <1>1, <4>2
        <5> QED BY <1>1, <5>1 DEF Request
      <4> QED BY <3>4, <4>1, <4>2
    <3> QED BY <3>2, <3>3, <3>4
  <2>2. CASE End(r)
        BY <1>1, <2>2, Became, Moved DEF OldKept, MappingPc
  <2>3. ASSUME NEW pc \in MappingPc, Kept(pc)
        PROVE  Ends
        BY <1>4, <2>3 DEF OldKept, MappingPc
  <2>4. CASE Kept(After(r))
    <3>1. After(r) = IF req[r].op = "upload" THEN "lookup"
                     ELSE IF req[r].op = "delete" THEN "deleteremote" ELSE "reparse"
          BY DEF After
    <3> QED BY <1>4, <2>4, <3>1 DEF OldKept, MappingPc
  <2> QED BY <2>1, <2>2, <2>3, <2>4
<1>8. AttachInv'
      BY <1>1, <1>3, <1>7, AttachKept DEF RowWeaker, MappingPc, Post
<1>9. KnownInv'
      BY <1>2, <1>6, <1>7, KnownKept
<1> QED BY <1>1, <1>8, <1>9 DEF FileInv

LEMMA BeginNamed ==
    ASSUME FileInv, TypeOK', NEW r \in Requests, UNCHANGED tasks,
           NEW op \in {"upload", "delete", "reparse", "embed"}, Begin(r, op)
    PROVE  FileInv'
<1>1. /\ TypeOK /\ req[r] \in Request /\ req \in [Requests -> Request]
      /\ UNCHANGED <<row, live, ds>> /\ UNCHANGED heal /\ TasksKnown'
      BY RequestTyped DEF FileInv, tasks, TasksKnown, Begin, files, dataset
<1>2. /\ ds.status = "none" <=> ds.id = None
      /\ RowNamed /\ req[r].pc = "idle"
      BY DEF FileInv, AttachInv, KnownInv, MappingKnown, Begin, At
<1>3. \A q \in Requests \ {r} : req'[q] = req[q]
      BY <1>1 DEF Begin
<1>4. CASE op = "upload"
  <2>1. req' = [req EXCEPT ![r] = [req[r] EXCEPT !.op = op, !.pc = "resolve"]]
        BY <1>1, <1>4 DEF Begin
  <2>2. /\ req'[r].pc = "resolve" /\ req'[r].op = "upload"
        /\ req'[r].file = req[r].file /\ req'[r].old = req[r].old
        BY <1>1, <1>4, <2>1 DEF Request
  <2>3. AttachInv'
        BY <1>1, <1>2, <1>3, <2>2, AttachKept DEF OldKept, RowWeaker, Post
  <2>4. KnownInv'
        BY <1>1, <1>2, <1>3, <2>2, KnownKept
  <2> QED BY <1>1, <2>3, <2>4 DEF FileInv
<1>5. CASE op \in {"delete", "reparse"}
  <2>1. /\ req' = [req EXCEPT ![r] = [req[r] EXCEPT !.op = op, !.pc = "resolve",
                                                    !.file = row.id, !.old = row.remote]]
        /\ row # NoRow
        BY <1>1, <1>5 DEF Begin
  <2>2. /\ req'[r].pc = "resolve" /\ req'[r].op = op
        /\ req'[r].file = row.id /\ req'[r].old = row.remote /\ row.id # None
        BY <1>1, <1>2, <2>1 DEF Request, RowNamed
  <2>3. AttachInv'
        BY <1>1, <1>2, <1>3, <2>2, AttachKept DEF OldKept, RowWeaker, Post
  <2>4. KnownInv'
        BY <1>1, <1>2, <1>3, <2>2, KnownKept
  <2> QED BY <1>1, <2>3, <2>4 DEF FileInv
<1>6. CASE op = "embed"
  <2>1. /\ req' = [req EXCEPT ![r] = [req[r] EXCEPT !.op = op, !.pc = "embed",
                                                    !.ds = ds.id, !.set = ds.set]]
        /\ ds.status = "active"
        BY <1>1, <1>6 DEF Begin
  <2>2. /\ req'[r].pc = "embed" /\ req'[r].ds = ds.id
        /\ req'[r].file = req[r].file /\ req'[r].old = req[r].old /\ ds.id # None
        BY <1>1, <1>2, <2>1 DEF Request
  <2>3. AttachInv'
        BY <1>1, <1>2, <1>3, <2>2, AttachKept DEF OldKept, RowWeaker, Post
  <2>4. KnownInv'
        BY <1>1, <1>2, <1>3, <2>2, KnownKept DEF MappingPc
  <2> QED BY <1>1, <2>3, <2>4 DEF FileInv
<1> QED BY <1>4, <1>5, <1>6

LEMMA DropsNamed ==
    ASSUME FileInv, TypeOK', NEW r \in Requests, UNCHANGED tasks,
           DropBase(r) \/ DropSet(r) \/ Cut(r)
    PROVE  FileInv'
<1>1. /\ TypeOK /\ req[r] \in Request /\ req \in [Requests -> Request] /\ row \in Row
      /\ UNCHANGED heal /\ TasksKnown'
      /\ ds.status = "none" <=> ds.id = None
      BY RequestTyped, RowTyped DEF FileInv, tasks, TasksKnown, KnownInv, MappingKnown
<1>2. /\ RowWeaker /\ (live' => live) /\ (ds'.status = "none" <=> ds'.id = None)
      /\ live' /\ ds.id # None => ds'.id = ds.id
  <2>1. CASE DropBase(r)
        BY <2>1 DEF DropBase, RowWeaker, Unmapped
  <2>2. CASE DropSet(r)
        BY <1>1, <2>2 DEF DropSet, RowWeaker
  <2>3. CASE Cut(r)
    <3>1. RowWeaker
      <4>1. CASE Owes(r)
        <5>1. row # NoRow /\ row' = [row EXCEPT !.wrong = TRUE]
              BY <2>3, <4>1 DEF Cut, Owes
        <5> QED BY <1>1, <5>1 DEF RowWeaker, Row
      <4>2. CASE ~Owes(r)
            BY <2>3, <4>2 DEF Cut, RowWeaker
      <4> QED BY <4>1, <4>2
    <3> QED BY <1>1, <2>3, <3>1 DEF Cut, dataset
  <2> QED BY <2>1, <2>2, <2>3
<1>3. CASE End(r)
  <2>1. /\ req'[r].pc = "done" /\ req'[r].file = None /\ req'[r].old = None
        /\ \A q \in Requests \ {r} : req'[q] = req[q]
        BY <1>1, <1>3, Became, Moved
  <2>2. AttachInv'
        BY <1>1, <1>2, <2>1, AttachKept DEF OldKept, Post
  <2>3. KnownInv'
        BY <1>2, <2>1, KnownKept DEF MappingPc
  <2> QED BY <1>1, <2>2, <2>3 DEF FileInv
<1>4. CASE ~End(r)
  <2>1. /\ req' = [req EXCEPT ![r] = [req[r] EXCEPT !.op = "drop", !.set = ds.set,
                                                    !.pc = "dropset"]]
        /\ ~live' /\ req[r].pc = "idle"
        BY <1>1, <1>4 DEF DropBase, DropSet, Cut, At
  <2>2. /\ req'[r].pc = "dropset" /\ req'[r].file = req[r].file /\ req'[r].old = req[r].old
        /\ \A q \in Requests \ {r} : req'[q] = req[q]
        BY <1>1, <2>1 DEF Request
  <2>3. AttachInv'
        BY <1>1, <1>2, <2>1, <2>2, AttachKept DEF OldKept, Post
  <2>4. KnownInv'
        BY <1>2, <2>1, <2>2, KnownKept DEF MappingPc
  <2> QED BY <1>1, <2>3, <2>4 DEF FileInv
<1> QED BY <1>3, <1>4

(* The tasks write the row under its names, and scan it.                    *)
LEMMA TasksNamed ==
    ASSUME FileInv, TypeOK', UNCHANGED dataset, UNCHANGED req, RowWeaker, TasksKnown',
           \/ heal'.remote = heal.remote /\ heal'.id = heal.id
           \/ heal'.remote = None
           \/ heal'.remote = row.remote /\ heal'.id = row.id
    PROVE  FileInv'
<1>1. RowNamed /\ Later /\ Distinct /\ SameFile
      BY DEF FileInv, AttachInv
<1>2. /\ NoRow.id = None /\ NoRow.remote = None /\ None \notin Requests /\ None \notin Docs
      BY NamesApart
<1>3. row'.remote = None \/ row'.remote = row.remote
      BY <1>2 DEF RowWeaker
<1>4. RowNamed'
      BY <1>1, <1>2 DEF RowNamed, RowWeaker
<1>5. Later'
      BY <1>1, <1>2, <1>3 DEF Later, Attached
<1>6. Distinct'
      BY <1>1, <1>2, <1>3 DEF Distinct, RowWeaker
<1>7. SameFile'
  <2> SUFFICES ASSUME row' # NoRow
               PROVE  /\ \A q \in Requests : req'[q].old = row'.remote => req'[q].file = row'.id
                      /\ heal'.remote = row'.remote => heal'.id = row'.id
      BY DEF SameFile
  <2>1. row # NoRow /\ row'.id = row.id /\ row'.remote = row.remote /\ row.remote # None
        BY <1>1, <1>2 DEF RowWeaker, RowNamed
  <2> QED BY <1>1, <2>1 DEF SameFile
<1>8. KnownInv'
      BY DEF FileInv, KnownInv, FileKnown, MappingKnown, Own, dataset
<1> QED BY <1>4, <1>5, <1>6, <1>7, <1>8 DEF FileInv, AttachInv

LEMMA TasksStepNamed ==
    ASSUME FileInv, TypeOK', Refresh \/ RowAges \/ Heal \/ KeyExpires \/ TasksDie
    PROVE  FileInv'
<1>1. /\ TypeOK /\ row \in Row /\ RowNamed /\ TasksKnown /\ UNCHANGED dataset /\ UNCHANGED req
      /\ NoRow.id = None /\ NoRow.st = "none"
      BY RowTyped, TasksStepTyped, NamesApart DEF FileInv, AttachInv
<1>2. row.id # None => row # NoRow
      BY <1>1
<1>3. row.st # "none" => row # NoRow /\ row.id # None
      BY <1>1 DEF RowNamed
<1> USE DEF TasksKnown
<1>4. CASE RefreshScan
  <2>1. /\ refresh' = [pc |-> "list", id |-> row.id, remote |-> row.remote, st |-> row.st]
        /\ row' = row /\ UNCHANGED heal /\ row.st # "none"
        BY <1>4 DEF RefreshScan, base, files
  <2> QED BY <1>1, <1>3, <2>1, TasksNamed DEF RowWeaker
<1>5. CASE RefreshList
  <2>1. row' = row /\ UNCHANGED heal /\ refresh.pc = "list"
        BY <1>5 DEF RefreshList, files
  <2>2. TasksKnown'
    <3>1. \/ refresh' = RefreshIdle
          \/ \E st : refresh' = [refresh EXCEPT !.pc = "write", !.st = st]
          \/ refresh' = [refresh EXCEPT !.pc = "write"]
          BY <1>5 DEF RefreshList
    <3>2. refresh'.pc = "idle" \/ refresh'.id = refresh.id
      <4>1. refresh \in [pc : {"idle", "list", "write"}, id : Names, remote : Names,
                         st : Statuses \cup {"none"}]
            BY <1>1 DEF TypeOK
      <4>2. ASSUME NEW st, refresh' = [refresh EXCEPT !.pc = "write", !.st = st]
            PROVE  refresh'.id = refresh.id
            BY <4>1, <4>2
      <4>3. CASE refresh' = [refresh EXCEPT !.pc = "write"]
            BY <4>1, <4>3
      <4>4. CASE refresh' = RefreshIdle
            BY <4>4 DEF RefreshIdle
      <4> QED BY <3>1, <4>2, <4>3, <4>4
    <3> QED BY <1>1, <2>1, <3>2
  <2> QED BY <1>1, <2>1, <2>2, TasksNamed DEF RowWeaker
<1>6. CASE RefreshWrite
  <2>1. refresh' = RefreshIdle /\ UNCHANGED heal /\ refresh.pc = "write"
        BY <1>6 DEF RefreshWrite
  <2>2. RowWeaker
    <3>1. CASE row.id = refresh.id
      <4>1. row # NoRow /\ \E b : row' = [Written(refresh.st) EXCEPT !.wrong = b]
            BY <1>1, <1>2, <1>6, <2>1, <3>1 DEF RefreshWrite
      <4> QED BY <1>1, <4>1 DEF RowWeaker, Written, Row
    <3>2. CASE row.id # refresh.id
          BY <1>6, <3>2 DEF RefreshWrite, RowWeaker
    <3> QED BY <3>1, <3>2
  <2> QED BY <1>1, <2>1, <2>2, TasksNamed DEF RefreshIdle
<1>7. CASE RowAges
  <2>1. UNCHANGED heal /\ UNCHANGED refresh /\ row.st # "none"
        /\ row' = [row EXCEPT !.aged = TRUE]
        BY <1>7 DEF RowAges, tasks
  <2>2. RowWeaker
        BY <1>1, <1>3, <2>1 DEF RowWeaker, Row
  <2> QED BY <1>1, <2>1, <2>2, TasksNamed
<1>8. CASE HealScan
  <2>1. /\ row' = row /\ UNCHANGED refresh /\ row.st # "none"
        /\ HealBegins
        BY <1>8 DEF HealScan, files, Failed, Stuck
  <2>2. /\ heal'.id = row.id /\ heal'.remote = row.remote /\ heal'.queue = FALSE
        BY <2>1 DEF HealBegins, HealIdle
  <2> QED BY <1>1, <1>3, <2>1, <2>2, TasksNamed DEF RowWeaker
<1>9. CASE HealStop
  <2>1. heal' = [heal EXCEPT !.pc = "parse"] /\ row' = row /\ UNCHANGED refresh
        /\ heal.pc = "stop"
        BY <1>9 DEF HealStop
  <2>2. /\ heal'.id = heal.id /\ heal'.remote = heal.remote /\ heal'.queue = heal.queue
        BY <1>1, <2>1 DEF TypeOK
  <2> QED BY <1>1, <2>1, <2>2, TasksNamed DEF RowWeaker
<1>10. CASE HealParse
  <2>1. heal.pc = "parse" /\ UNCHANGED refresh
        BY <1>10 DEF HealParse
  <2>2. heal'.pc = "record" /\ heal'.id = heal.id /\ heal'.remote = None
    <3>1. PICK accepted \in BOOLEAN :
            heal' = [heal EXCEPT !.pc = "record", !.remote = None, !.queue = accepted]
          BY <1>10 DEF HealParse
    <3> QED BY <1>1, <3>1 DEF TypeOK
  <2>3. RowWeaker
    <3>1. CASE row.id = heal.id
      <4>1. row # NoRow /\ row' = [row EXCEPT !.spent = row.spent + 1]
            BY <1>1, <1>2, <1>10, <2>1, <3>1 DEF HealParse
      <4> QED BY <1>1, <4>1 DEF RowWeaker, Row
    <3>2. CASE row.id # heal.id
          BY <1>10, <3>2 DEF HealParse, RowWeaker
    <3> QED BY <3>1, <3>2
  <2> QED BY <1>1, <2>1, <2>2, <2>3, TasksNamed
<1>11. CASE HealRecord
  <2>1. heal.pc = "record" /\ heal' = HealIdle /\ UNCHANGED refresh
        BY <1>11 DEF HealRecord
  <2>2. RowWeaker
    <3>1. CASE row.id = heal.id
      <4> DEFINE w == IF heal.queue THEN Written("queued") ELSE row
      <4>1. w \in Row /\ w.id = row.id /\ w.remote = row.remote
        <5>1. Written("queued") \in Row /\ Written("queued").id = row.id
              /\ Written("queued").remote = row.remote
              BY <1>1, RowTyped DEF Written, Statuses, Row
        <5> QED BY <1>1, <5>1
      <4>2. row # NoRow /\ \E n, g : row' = [w EXCEPT !.attempts = n, !.gaveUp = g]
            BY <1>1, <1>2, <1>11, <2>1, <3>1 DEF HealRecord
      <4> HIDE DEF w
      <4> QED BY <4>1, <4>2 DEF RowWeaker, Row
    <3>2. CASE row.id # heal.id
          BY <1>11, <3>2 DEF HealRecord, RowWeaker
    <3> QED BY <3>1, <3>2
  <2> QED BY <1>1, <2>1, <2>2, TasksNamed DEF HealIdle
<1>12. CASE TasksDie
  <2>1. heal' = HealIdle /\ refresh' = RefreshIdle
        BY <1>12 DEF TasksDie
  <2>2. RowWeaker
    <3>1. CASE heal.pc = "record" /\ row.id = heal.id
      <4>1. row # NoRow /\ \E n, b : row' = [row EXCEPT !.wrong = b, !.attempts = n]
            BY <1>1, <1>2, <1>12, <3>1 DEF TasksDie
      <4> QED BY <1>1, <4>1 DEF RowWeaker, Row
    <3>2. CASE ~(heal.pc = "record" /\ row.id = heal.id)
          BY <1>12, <3>2 DEF TasksDie, RowWeaker
    <3> QED BY <3>1, <3>2
  <2> QED BY <1>1, <2>1, <2>2, TasksNamed DEF HealIdle, RefreshIdle
<1>13. CASE KeyExpires
  <2>1. /\ UNCHANGED <<heal, refresh>> /\ row' \in Row /\ row # NoRow
        /\ row'.id = row.id /\ row'.remote = row.remote /\ row'.st = row.st
        BY <1>1, <1>13, Expiry DEF tasks
  <2> QED BY <1>1, <2>1, TasksNamed DEF RowWeaker
<1> QED BY <1>4, <1>5, <1>6, <1>7, <1>8, <1>9, <1>10, <1>11, <1>12, <1>13 DEF Refresh, Heal

LEMMA FileStep == FileInv /\ [Next]_vars => FileInv'
<1> SUFFICES ASSUME FileInv, [Next]_vars
             PROVE  FileInv'
    OBVIOUS
<1>1. TypeOK /\ TypeOK' /\ TasksKnown
      BY NextTyped DEF FileInv
<1>2. ASSUME UNCHANGED <<dataset, row, req, tasks>>
      PROVE  FileInv'
      BY <1>1, <1>2, TasksNamed DEF RowWeaker, tasks, TasksKnown
<1>3. ASSUME NEW r \in Requests, Goes(r), UNCHANGED tasks
      PROVE  FileInv'
      BY <1>1, <1>3, MappingNamed, FilesNamed, DropsNamed DEF Goes
<1>4. ASSUME NEW d \in Docs, RemoteEnds(d) \/ RemoteHangs(d), UNCHANGED tasks
      PROVE  FileInv'
      BY <1>2, <1>4 DEF RemoteEnds, RemoteHangs
<1>5. CASE BaseNext /\ UNCHANGED tasks
      BY <1>1, <1>3, <1>4, <1>5, BeginNamed, DropsNamed DEF BaseNext
<1>6. CASE Refresh \/ RowAges \/ Heal \/ KeyExpires \/ TasksDie
      BY <1>1, <1>6, TasksStepNamed
<1>7. CASE UNCHANGED vars
      BY <1>2, <1>7 DEF vars, base, files
<1> QED BY <1>5, <1>6, <1>7 DEF Next

(* The promise itself, step by step.                                        *)
Promised ==
    \/ run[row.remote] = "done" \/ row.wrong
    \/ heal.queue /\ heal.id = row.id
    \/ \E r \in Requests : Owes(r)

LEMMA OwedByOthers ==
    ASSUME FileInv, FileInv', NEW r \in Requests, \A q \in Requests \ {r} : req'[q] = req[q],
           row' # NoRow, row'.id = row.id, live', NEW q \in Requests, q # r, Owes(q)
    PROVE  Owes(q)'
<1>1. req'[q] = req[q]
      BY DEF FileInv
<1>2. CASE req[q].pc \in {"droprow", "requeue"} /\ row.id = req[q].file
      BY <1>1, <1>2 DEF Owes, At
<1>3. CASE At(q, "reset") /\ Own(q)
  <2>1. Own(q)'
        BY <1>1, <1>3 DEF At, FileInv, KnownInv, MappingKnown
  <2> QED BY <1>1, <1>3, <2>1 DEF Owes, At
<1> QED BY <1>2, <1>3 DEF Owes

(* The row keeps what it says, and the document that it names its run.      *)
LEMMA PromiseKept ==
    ASSUME FileInv, FileInv', CompletedIsParsed, NEW r \in Requests,
           \A q \in Requests \ {r} : req'[q] = req[q], UNCHANGED heal, live' => live,
           row' = row, run[row.remote] = "done" => run'[row.remote] = "done",
           Owes(r) => Owes(r)'
    PROVE  CompletedIsParsed'
<1> SUFFICES ASSUME live', row.st = "completed"
             PROVE  Promised'
    BY DEF CompletedIsParsed, Promised
<1>1. Promised /\ row # NoRow
      BY NamesApart DEF CompletedIsParsed, Promised
<1>2. CASE \E q \in Requests : Owes(q)
  <2>1. PICK q \in Requests : Owes(q)
        BY <1>2
  <2>2. Owes(q)'
        BY <1>1, <2>1, OwedByOthers
  <2> QED BY <2>2 DEF Promised
<1>3. CASE ~\E q \in Requests : Owes(q)
      BY <1>1, <1>3 DEF Promised
<1> QED BY <1>2, <1>3

LEMMA RunElsewhere ==
    ASSUME TypeOK, NEW d, NEW to, SetRun(d, to), d # row.remote \/ run[d] # "done"
    PROVE  run[row.remote] = "done" => run'[row.remote] = "done"
<1>1. CASE d # row.remote
      BY <1>1 DEF SetRun, TypeOK, BaseTypeOK
<1>2. CASE d = row.remote
      BY <1>2
<1> QED BY <1>1, <1>2

LEMMA FilesPromise ==
    ASSUME FileInv, FileInv', CompletedIsParsed, NEW r \in Requests, UNCHANGED tasks,
           \/ Upload(r) \/ DeleteRemote(r) \/ DropRow(r) \/ Reparse(r) \/ Requeue(r)
           \/ Embed(r) \/ EmbedReset(r)
    PROVE  CompletedIsParsed'
<1>1. /\ TypeOK /\ row \in Row /\ UNCHANGED heal /\ UNCHANGED <<live, ds>>
      /\ NoRow.st = "none"
      BY RowTyped, FileStepTyped, NamesApart DEF FileInv, tasks, dataset
<1>2. RowNamed /\ Later /\ Distinct /\ SameFile
      BY DEF FileInv, AttachInv
<1>3. row.remote # r \/ req[r].pc \in Post
      BY <1>2 DEF Later, Attached
<1>4. ~Owes(r) \/ req[r].pc \in {"droprow", "requeue", "reset"}
      BY DEF Owes, At
<1>5. \A q \in Requests \ {r} : req'[q] = req[q]
  <2>1. CASE Lookup(r)
        BY <1>1, <2>1 DEF Lookup, TypeOK, BaseTypeOK
  <2>2. CASE ~Lookup(r)
    <3>1. End(r) \/ \E pc \in Steps : Go(r, pc)
          BY <2>2 DEF Upload, Push, Save, Parse, Undo, ParseNew, Replace, ReadBack, Retire,
             DeleteRemote, DropRow, Reparse, Requeue, Embed, EmbedReset, Steps
    <3> QED BY <1>1, <3>1, Moved
  <2> QED BY <2>1, <2>2
<1>6. ASSUME row' = row, run[row.remote] = "done" => run'[row.remote] = "done",
             Owes(r) => Owes(r)'
      PROVE  CompletedIsParsed'
      BY <1>1, <1>5, <1>6, PromiseKept
<1>7. ASSUME row'.st # "completed"
      PROVE  CompletedIsParsed'
      BY <1>7 DEF CompletedIsParsed
<1> USE DEF At, Post
<1>8. CASE Lookup(r) \/ ReadBack(r)
  <2>1. row' = row /\ run' = run /\ ~Owes(r)
        BY <1>4, <1>8 DEF Lookup, ReadBack, files
  <2> QED BY <1>6, <2>1
<1>9. CASE Push(r) \/ ParseNew(r)
  <2>1. row' = row /\ ~Owes(r) /\ row.remote # r
        BY <1>3, <1>4, <1>9 DEF Push, ParseNew
  <2>2. run' = run \/ \E to : SetRun(r, to)
        BY <1>9 DEF Push, ParseNew
  <2> QED BY <1>1, <1>6, <2>1, <2>2, RunElsewhere
<1>10. CASE Save(r)
  <2>1. CASE row' = NewRow(r)
        BY <1>7, <2>1 DEF NewRow, NoRow
  <2>2. CASE row' = row
        BY <1>4, <1>6, <1>10, <2>2 DEF Save
  <2> QED BY <1>10, <2>1, <2>2 DEF Save
<1>11. CASE Parse(r)
  <2>1. CASE row' = row /\ run' = run
        BY <1>4, <1>6, <1>11, <2>1 DEF Parse
  <2>2. CASE row' = [row EXCEPT !.wrong = row.wrong \/ row.st = "completed"]
    <3>1. row'.st = "completed" => row'.wrong
          BY <1>1, <2>2 DEF Row
    <3> QED BY <3>1 DEF CompletedIsParsed
  <2> QED BY <1>1, <1>11, <2>1, <2>2 DEF Parse
<1>12. CASE Undo(r)
  <2>1. row' = row /\ ~Owes(r) /\ row.remote # r /\ SetRun(r, "gone")
        BY <1>2, <1>4, <1>12 DEF Undo, Distinct
  <2> QED BY <1>1, <1>6, <2>1, RunElsewhere
<1>13. CASE Retire(r)
  <2>1. row' = row /\ ~Owes(r) /\ SetRun(req[r].old, "gone")
        BY <1>4, <1>13 DEF Retire
  <2>2. row = NoRow \/ row.remote # req[r].old
        BY <1>2, <1>13 DEF Retire, Distinct
  <2> QED BY <1>1, <1>6, <1>7, <2>1, <2>2, RunElsewhere
<1>14. CASE Replace(r)
  <2>1. CASE row' = Overwritten(r)
    <3>1. Written("queued") \in Row /\ Written("queued").st = "queued"
          BY <1>1, RowTyped DEF Written, Statuses, Row
    <3>2. row'.st = "queued"
          BY <2>1, <3>1 DEF Overwritten, Row
    <3> QED BY <1>7, <3>2
  <2>2. CASE row' = row
        BY <1>4, <1>6, <1>14, <2>2 DEF Replace
  <2> QED BY <1>14, <2>1, <2>2 DEF Replace
<1>15. CASE DeleteRemote(r) \/ Reparse(r)
  <2>1. row' = row /\ ~Owes(r)
        BY <1>4, <1>15 DEF DeleteRemote, Reparse
  <2>2. CASE run' = run
        BY <1>6, <2>1, <2>2
  <2>3. CASE /\ \E to : SetRun(req[r].old, to)
             /\ Go(r, "droprow") \/ Go(r, "requeue")
    <3>1. CASE row.remote # req[r].old
          BY <1>1, <1>6, <2>1, <2>3, <3>1, RunElsewhere
    <3>2. CASE row = NoRow
          BY <1>1, <1>7, <2>1, <3>2
    <3>3. CASE row # NoRow /\ row.remote = req[r].old
      <4>1. req[r].file = row.id
            BY <1>2, <3>3 DEF SameFile
      <4>2. req'[r].pc \in {"droprow", "requeue"} /\ req'[r].file = row'.id
            BY <1>1, <2>1, <2>3, <4>1, Became DEF Steps
      <4>3. Owes(r)'
            BY <2>1, <3>3, <4>2 DEF Owes
      <4> QED BY <4>3 DEF CompletedIsParsed
    <3> QED BY <3>1, <3>2, <3>3
  <2> QED BY <1>15, <2>2, <2>3 DEF DeleteRemote, Reparse
<1>16. CASE DropRow(r) \/ Requeue(r)
  <2>1. CASE row.id = req[r].file
    <3>1. row' = NoRow \/ row' = Written("queued")
          BY <1>16, <2>1 DEF DropRow, Requeue
    <3> QED BY <1>1, <1>7, <3>1 DEF Written, Row
  <2>2. CASE row.id # req[r].file
    <3>1. row' = row /\ run' = run /\ ~Owes(r)
          BY <1>16, <2>2 DEF DropRow, Requeue, Owes
    <3> QED BY <1>6, <3>1
  <2> QED BY <2>1, <2>2
<1>17. CASE Embed(r)
  <2>1. row' = row /\ ~Owes(r)
        BY <1>4, <1>17 DEF Embed
  <2>2. CASE Go(r, "reset")
    <3>1. req'[r].pc = "reset"
          BY <1>1, <2>2, Became DEF Steps
    <3>2. live' => Own(r)'
          BY <3>1 DEF FileInv, KnownInv, MappingKnown
    <3>3. CASE row = NoRow
          BY <1>1, <1>7, <2>1, <3>3
    <3>4. CASE row # NoRow
      <4>1. live' => Owes(r)'
            BY <2>1, <3>1, <3>2, <3>4 DEF Owes
      <4> QED BY <4>1 DEF CompletedIsParsed
    <3> QED BY <3>3, <3>4
  <2>3. CASE run' = run
        BY <1>6, <2>1, <2>3
  <2> QED BY <1>17, <2>2, <2>3 DEF Embed
<1>18. CASE EmbedReset(r)
  <2>1. CASE row # NoRow /\ Own(r)
    <3>1. row' = Written("queued")
          BY <1>18, <2>1 DEF EmbedReset
    <3> QED BY <1>1, <1>7, <3>1 DEF Written, Row
  <2>2. CASE ~(row # NoRow /\ Own(r))
    <3>1. row' = row /\ run' = run
          BY <1>18, <2>2 DEF EmbedReset
    <3>2. ~Owes(r)
          BY <1>18, <2>2 DEF EmbedReset, Owes
    <3> QED BY <1>6, <3>1, <3>2
  <2> QED BY <2>1, <2>2
<1> QED BY <1>8, <1>9, <1>10, <1>11, <1>12, <1>13, <1>14, <1>15, <1>16, <1>17, <1>18
        DEF Upload

LEMMA OthersPromise ==
    ASSUME FileInv, FileInv', CompletedIsParsed, NEW r \in Requests, UNCHANGED tasks,
           \/ \E op \in {"upload", "delete", "reparse", "embed"} : Begin(r, op)
           \/ DropBase(r) \/ Dataset(r) \/ DropSet(r) \/ Cut(r)
    PROVE  CompletedIsParsed'
<1>1. /\ TypeOK /\ row \in Row /\ UNCHANGED heal /\ NoRow.st = "none"
      BY RowTyped, NamesApart DEF FileInv, tasks
<1>2. CASE \/ \E op \in {"upload", "delete", "reparse", "embed"} : Begin(r, op)
           \/ Dataset(r)
  <2>1. UNCHANGED live /\ row' = row /\ run' = run
        BY <1>2 DEF Begin, Dataset, Resolve, InsertMapping, Claim, CreateRemote, Activate,
           Discard, Reread, dataset, files
  <2>2. ~Owes(r)
        BY <1>2 DEF Begin, Dataset, Resolve, InsertMapping, Claim, CreateRemote, Activate,
           Discard, Reread, Owes, At
  <2>3. \A q \in Requests \ {r} : req'[q] = req[q]
    <3>1. CASE \E op \in {"upload", "delete", "reparse", "embed"} : Begin(r, op)
          BY <1>1, <3>1 DEF Begin, TypeOK, BaseTypeOK
    <3>2. CASE Dataset(r)
      <4>1. \/ End(r) \/ Have(r) \/ \E pc \in Steps : Go(r, pc)
            \/ \E d, pc : req' = [req EXCEPT ![r].ds = d, ![r].pc = pc]
            \/ \E n, pc : req' = [req EXCEPT ![r].set = n, ![r].pc = pc]
            BY <1>1, <3>2, RequestTyped DEF Dataset, Resolve, InsertMapping, Claim,
               CreateRemote, Activate, Discard, Reread, Steps
      <4>2. req \in [Requests -> Request]
            BY <1>1 DEF TypeOK, BaseTypeOK
      <4> QED BY <1>1, <4>1, <4>2, Moved
    <3> QED BY <1>2, <3>1, <3>2
  <2> QED BY <1>1, <2>1, <2>2, <2>3, PromiseKept
<1>3. CASE DropBase(r)
      BY <1>3 DEF DropBase, CompletedIsParsed
<1>4. CASE DropSet(r)
  <2>1. ~live /\ live' = live
        BY <1>4 DEF DropSet, At, FileInv, KnownInv, MappingKnown
  <2> QED BY <2>1 DEF CompletedIsParsed
<1>5. CASE Cut(r)
  <2>1. CASE Owes(r)
    <3>1. row'.wrong
          BY <1>1, <1>5, <2>1 DEF Cut, Row
    <3> QED BY <3>1 DEF CompletedIsParsed
  <2>2. CASE ~Owes(r)
    <3>1. row' = row /\ run' = run /\ live' = live
          BY <1>5, <2>2 DEF Cut, dataset
    <3>2. \A q \in Requests \ {r} : req'[q] = req[q]
          BY <1>1, <1>5, Moved DEF Cut
    <3> QED BY <1>1, <2>2, <3>1, <3>2, PromiseKept
  <2> QED BY <2>1, <2>2
<1> QED BY <1>2, <1>3, <1>4, <1>5

(* No request moves.                                                        *)
LEMMA PromiseTasks ==
    ASSUME FileInv, FileInv', CompletedIsParsed, UNCHANGED <<dataset, req>>,
           row'.st = "completed" => row.st = "completed",
           row' # NoRow /\ row'.id = row.id,
           Promised => Promised' \/ \E q \in Requests : Owes(q)
    PROVE  CompletedIsParsed'
<1> SUFFICES ASSUME live', row'.st = "completed"
             PROVE  Promised'
    BY DEF CompletedIsParsed, Promised
<1>1. live /\ row # NoRow
      BY NamesApart DEF dataset
<1>2. Promised
      BY <1>1 DEF CompletedIsParsed, Promised
<1>3. ASSUME NEW q \in Requests, Owes(q)
      PROVE  Promised'
  <2>1. Owes(q)'
        BY <1>3 DEF Owes, At, Own, dataset
  <2> QED BY <2>1 DEF Promised
<1> QED BY <1>2, <1>3

LEMMA TasksPromise ==
    ASSUME FileInv, FileInv', CompletedIsParsed, Refresh \/ RowAges \/ Heal \/ KeyExpires \/ TasksDie
    PROVE  CompletedIsParsed'
<1>1. /\ TypeOK /\ row \in Row /\ RowNamed /\ TasksKnown /\ UNCHANGED <<dataset, req>>
      /\ NoRow.id = None /\ NoRow.st = "none" /\ SameFile
      /\ heal \in [pc : {"idle", "stop", "parse", "record"}, id : Names,
                   remote : Names, queue : BOOLEAN]
      BY RowTyped, TasksStepTyped, NamesApart DEF FileInv, AttachInv, TypeOK
<1>2. ASSUME row'.st # "completed"
      PROVE  CompletedIsParsed'
      BY <1>2 DEF CompletedIsParsed
<1>3. ASSUME row' = row, run[row.remote] = "done" => run'[row.remote] = "done",
             heal.queue => heal'.queue /\ heal'.id = heal.id
      PROVE  CompletedIsParsed'
  <2>1. CASE row = NoRow
        BY <1>1, <1>2, <1>3, <2>1
  <2>2. CASE row # NoRow
        BY <1>1, <1>3, <2>2, PromiseTasks DEF Promised
  <2> QED BY <2>1, <2>2
<1>4. CASE RefreshScan \/ RefreshList
      BY <1>3, <1>4 DEF RefreshScan, RefreshList, base, files
<1>5. CASE RefreshWrite
  <2>1. UNCHANGED heal /\ run' = run
        BY <1>5 DEF RefreshWrite
  <2>2. CASE row.id = refresh.id
    <3> DEFINE late == refresh.st = "completed" /\ run[row.remote] # "done"
    <3>1. row' = [Written(refresh.st) EXCEPT !.wrong = late]
          BY <1>5, <2>2 DEF RefreshWrite
    <3>2. row'.st = refresh.st /\ row'.wrong = late /\ row'.remote = row.remote
      <4> HIDE DEF late
      <4> QED BY <1>1, <3>1 DEF Written, Row
    <3> QED BY <2>1, <3>2 DEF CompletedIsParsed
  <2>3. CASE row.id # refresh.id
    <3>1. row' = row
          BY <1>5, <2>3 DEF RefreshWrite
    <3> QED BY <1>3, <2>1, <3>1
  <2> QED BY <2>2, <2>3
<1>6. CASE RowAges
  <2>1. row'.st = "running"
        BY <1>1, <1>6 DEF RowAges, Row
  <2> QED BY <1>2, <2>1
<1>7. CASE HealScan
  <2>1. row' = row /\ run' = run /\ ~heal.queue
        BY <1>1, <1>7 DEF HealScan, files, TasksKnown
  <2> QED BY <1>3, <2>1
<1>8. CASE HealStop
  <2>1. row' = row /\ ~heal.queue
        BY <1>1, <1>8 DEF HealStop, TasksKnown
  <2>2. run' = run \/ (Busy(heal.remote) /\ SetRun(heal.remote, "cancel"))
        BY <1>8 DEF HealStop
  <2>3. run[row.remote] = "done" => run'[row.remote] = "done"
        BY <1>1, <2>2, RunElsewhere DEF Busy
  <2> QED BY <1>3, <2>1, <2>3
<1>9. CASE HealParse
  <2>1. PICK accepted \in BOOLEAN :
          /\ heal' = [heal EXCEPT !.pc = "record", !.remote = None, !.queue = accepted]
          /\ IF accepted /\ ~Busy(heal.remote) THEN SetRun(heal.remote, "running")
             ELSE UNCHANGED run
        BY <1>9 DEF HealParse
  <2>2. heal'.queue = accepted /\ heal'.id = heal.id /\ ~heal.queue
        BY <1>1, <1>9, <2>1 DEF HealParse, TasksKnown
  <2>3. /\ row'.st = row.st /\ row'.id = row.id /\ row'.remote = row.remote
        /\ row'.wrong = row.wrong
        BY <1>1, <1>9 DEF HealParse, Row
  <2>4. CASE row = NoRow
        BY <1>1, <1>2, <2>3, <2>4
  <2>5. CASE row # NoRow
    <3>1. row.id # None /\ row' # NoRow
          BY <1>1, <2>3, <2>5 DEF RowNamed
    <3>2. CASE heal.id = row.id /\ accepted
          BY <2>2, <2>3, <3>2 DEF CompletedIsParsed
    <3>3. CASE ~(heal.id = row.id /\ accepted)
      <4>1. heal.remote # row.remote \/ run' = run
            BY <1>1, <2>1, <2>5, <3>3 DEF SameFile
      <4>2. run[row.remote] = "done" => run'[row.remote] = "done"
            BY <1>1, <2>1, <4>1, RunElsewhere
      <4>3. Promised => Promised' \/ \E q \in Requests : Owes(q)
            BY <2>2, <2>3, <4>2 DEF Promised
      <4> QED BY <1>1, <2>3, <3>1, <4>3, PromiseTasks
    <3> QED BY <3>2, <3>3
  <2> QED BY <2>4, <2>5
<1>10. CASE HealRecord
  <2>1. PICK counted \in BOOLEAN, told \in BOOLEAN :
          row' = IF row.id # heal.id THEN row
                 ELSE [(IF heal.queue THEN Written("queued") ELSE row) EXCEPT
                           !.attempts = IF counted THEN @ + 1 ELSE @,
                           !.gaveUp = @ \/ (told /\ row.attempts + 1 >= MaxAttempts)]
        BY <1>10 DEF HealRecord
  <2>2. run' = run /\ heal.pc = "record"
        BY <1>10 DEF HealRecord
  <2>3. CASE row = NoRow
    <3>1. row' = row
          BY <1>1, <2>1, <2>2, <2>3 DEF TasksKnown
    <3> QED BY <1>1, <1>2, <2>3, <3>1
  <2>4. CASE row # NoRow /\ row.id = heal.id /\ heal.queue
    <3>1. Written("queued") \in Row /\ Written("queued").st = "queued"
          BY <1>1, RowTyped DEF Written, Statuses, Row
    <3>2. \E n, g : row' = [Written("queued") EXCEPT !.attempts = n, !.gaveUp = g]
          BY <2>1, <2>4
    <3>3. row'.st = "queued"
          BY <3>1, <3>2 DEF Row
    <3> QED BY <1>2, <3>3
  <2>5. CASE row # NoRow /\ row.id = heal.id /\ ~heal.queue
    <3>1. \E n, g : row' = [row EXCEPT !.attempts = n, !.gaveUp = g]
          BY <2>1, <2>5
    <3>2. /\ row'.st = row.st /\ row'.id = row.id /\ row'.remote = row.remote
          /\ row'.wrong = row.wrong
          BY <1>1, <3>1 DEF Row
    <3>3. row' # NoRow
          BY <1>1, <2>5, <3>2 DEF RowNamed
    <3>4. Promised => Promised' \/ \E q \in Requests : Owes(q)
          BY <2>2, <2>5, <3>2 DEF Promised
    <3> QED BY <1>1, <3>2, <3>3, <3>4, PromiseTasks
  <2>6. CASE row # NoRow /\ row.id # heal.id
    <3>1. row' = row
          BY <2>1, <2>6
    <3>2. Promised => Promised' \/ \E q \in Requests : Owes(q)
          BY <2>2, <2>6, <3>1 DEF Promised
    <3> QED BY <1>1, <2>6, <3>1, <3>2, PromiseTasks
  <2> QED BY <2>3, <2>4, <2>5, <2>6
<1>11. CASE TasksDie
  <2>1. run' = run /\ heal' = HealIdle
        BY <1>11 DEF TasksDie
  <2>2. CASE heal.pc = "record" /\ row.id = heal.id
    <3>1. \E n : row' = [row EXCEPT !.wrong = row.wrong \/ heal.queue, !.attempts = n]
          BY <1>1, <1>11, <2>2 DEF TasksDie
    <3>2. /\ row'.st = row.st /\ row'.id = row.id /\ row'.remote = row.remote
          /\ row'.wrong = (row.wrong \/ heal.queue)
          BY <1>1, <3>1 DEF Row
    <3>3. row' # NoRow /\ row # NoRow
          BY <1>1, <2>2, <3>2 DEF TasksKnown
    <3>4. Promised => Promised' \/ \E q \in Requests : Owes(q)
          BY <2>1, <3>2 DEF Promised
    <3> QED BY <1>1, <3>2, <3>3, <3>4, PromiseTasks
  <2>3. CASE ~(heal.pc = "record" /\ row.id = heal.id)
    <3>1. row' = row
          BY <1>11, <2>3 DEF TasksDie
    <3>2. Promised => Promised' \/ \E q \in Requests : Owes(q)
          BY <1>1, <2>1, <2>3, <3>1 DEF Promised, TasksKnown
    <3>3. CASE row = NoRow
          BY <1>1, <1>2, <3>1, <3>3
    <3>4. CASE row # NoRow
          BY <1>1, <3>1, <3>2, <3>4, PromiseTasks
    <3> QED BY <3>3, <3>4
  <2> QED BY <2>2, <2>3
<1>12. CASE KeyExpires
  <2>1. /\ run' = run /\ heal' = heal /\ row # NoRow
        /\ row'.id = row.id /\ row'.remote = row.remote /\ row'.st = row.st
        /\ row'.wrong = row.wrong
        BY <1>1, <1>12, Expiry DEF tasks
  <2>2. row' # NoRow
        BY <1>1, <2>1 DEF RowNamed
  <2>3. Promised => Promised' \/ \E q \in Requests : Owes(q)
        BY <2>1 DEF Promised
  <2> QED BY <1>1, <2>1, <2>2, <2>3, PromiseTasks
<1> QED BY <1>4, <1>5, <1>6, <1>7, <1>8, <1>9, <1>10, <1>11, <1>12 DEF Refresh, Heal

LEMMA PromiseStep == FileInv /\ CompletedIsParsed /\ [Next]_vars => CompletedIsParsed'
<1> SUFFICES ASSUME FileInv, CompletedIsParsed, [Next]_vars
             PROVE  CompletedIsParsed'
    OBVIOUS
<1>1. FileInv' /\ TypeOK
      BY FileStep DEF FileInv
<1>2. ASSUME UNCHANGED <<dataset, row, req, heal>>,
             run[row.remote] = "done" => run'[row.remote] = "done"
      PROVE  CompletedIsParsed'
  <2>1. CASE row = NoRow
        BY <1>2, <2>1, NamesApart DEF CompletedIsParsed
  <2>2. CASE row # NoRow
        BY <1>1, <1>2, <2>2, PromiseTasks DEF Promised
  <2> QED BY <2>1, <2>2
<1>3. ASSUME NEW d \in Docs, RemoteEnds(d) \/ RemoteHangs(d), UNCHANGED tasks
      PROVE  CompletedIsParsed'
  <2>1. /\ UNCHANGED <<dataset, row, req, heal>> /\ run[d] # "done"
        /\ \E to : SetRun(d, to)
        BY <1>3 DEF RemoteEnds, RemoteHangs, Busy, tasks
  <2> QED BY <1>1, <1>2, <2>1, RunElsewhere
<1>4. ASSUME NEW r \in Requests, Goes(r), UNCHANGED tasks
      PROVE  CompletedIsParsed'
      BY <1>1, <1>4, FilesPromise, OthersPromise DEF Goes
<1>5. CASE BaseNext /\ UNCHANGED tasks
      BY <1>1, <1>3, <1>4, <1>5, OthersPromise DEF BaseNext
<1>6. CASE Refresh \/ RowAges \/ Heal \/ KeyExpires \/ TasksDie
      BY <1>1, <1>6, TasksPromise
<1>7. CASE UNCHANGED vars
      BY <1>2, <1>7 DEF vars, base, files, tasks
<1> QED BY <1>5, <1>6, <1>7 DEF Next

LEMMA InitFiles == Init => FileInv /\ row.st # "completed"
<1> SUFFICES ASSUME Init
             PROVE  FileInv /\ row.st # "completed"
    OBVIOUS
<1>1. TypeOK /\ NoRow.id = None /\ NoRow.remote = None /\ NoRow.st = "none"
      BY InitTyped, NamesApart
<1>2. /\ \A r \in Requests : req[r] = Fresh
      /\ heal = HealIdle /\ refresh = RefreshIdle
      BY DEF Init, BaseInit
<1>3. /\ Fresh.pc = "idle" /\ Fresh.file = None /\ Fresh.old = None
      /\ HealIdle.pc = "idle" /\ HealIdle.remote = None /\ ~HealIdle.queue
      /\ RefreshIdle.pc = "idle"
      BY DEF Fresh, HealIdle, RefreshIdle
<1>4. \/ row = NoRow /\ ds = Unmapped
      \/ /\ row = NewRow(Founder)
         /\ ds = [id |-> Founder, status |-> "active", claim |-> None, set |-> 1]
      BY DEF Init, BaseInit
<1>5. /\ NewRow(Founder).id = Founder /\ NewRow(Founder).remote = Founder
      /\ NewRow(Founder).st = "queued"
      BY DEF NewRow, NoRow
<1>6. RowNamed /\ row.remote \notin Requests /\ row.st # "completed"
      BY <1>1, <1>4, <1>5, NamesApart DEF RowNamed
<1>7. Later /\ Distinct
      BY <1>2, <1>3, <1>6, NamesApart DEF Later, Attached, Distinct
<1>8. SameFile
      BY <1>2, <1>3, <1>4, <1>5, NamesApart DEF SameFile
<1>9. FileKnown
      BY <1>2, <1>3 DEF FileKnown, MappingPc
<1>10. MappingKnown
      BY <1>2, <1>3, <1>4, NamesApart DEF MappingKnown, Unmapped
<1>11. TasksKnown
      BY <1>2, <1>3 DEF TasksKnown
<1> QED BY <1>1, <1>6, <1>7, <1>8, <1>9, <1>10, <1>11
        DEF FileInv, AttachInv, KnownInv

(* A file of a base is shown as completed only when RAGFlow has parsed the  *)
(* document that its row names, unless a write that says otherwise is due,  *)
(* was cut, or came late: in whatever order files are uploaded, overwritten *)
(* and deleted, parsed again by a user, with the dataset or by the healer   *)
(* (overwriteIndustryFile, reparseDocument, UpdateKnowledgeEmbeddingModel,  *)
(* healOne).                                                                *)
THEOREM CompletedParsed == Spec => []CompletedIsParsed
<1>1. Init => FileInv /\ CompletedIsParsed
      BY InitFiles DEF CompletedIsParsed
<1>2. FileInv /\ CompletedIsParsed /\ [Next]_vars => (FileInv /\ CompletedIsParsed)'
      BY FileStep, PromiseStep
<1> QED BY <1>1, <1>2, PTL DEF Spec

------------------------------------------------------------------------------
(* The documents.  A request holds the one that it brought until a row      *)
(* names it or it is deleted, and from a replacement that hit, the old one. *)
(* At most one document is loose for each fault and each crossing.  H are   *)
(* the requests whose replacement hit.                                      *)

Holds(H, q, d) ==
    \/ d = q /\ req[q].pc \in {"save", "undo", "parsenew", "replace"}
    \/ d = q /\ req[q].pc = "readback" /\ q \notin H
    \/ d = req[q].old /\ req[q].pc = "readback" /\ q \in H
    \/ d = req[q].old /\ req[q].pc = "retire"
Loose(H) ==
    {d \in Docs : Exists(d) /\ row.remote # d /\ \A q \in Requests : ~Holds(H, q, d)}

FilesCounted == live => \E H \in SUBSET Requests : Cardinality(Loose(H)) <= faults + crossed
Emptied ==
    \A q \in Requests : req[q].pc = "droprow" /\ req[q].old \in Docs => run[req[q].old] = "gone"
TookOver ==
    \A q \in Requests : req[q].pc = "readback" /\ row.remote = q => row.id = req[q].file
CountInv == FilesCounted /\ Emptied /\ TookOver

LEMMA DocsFinite ==
    ASSUME NEW T, T \subseteq Docs
    PROVE  IsFiniteSet(T) /\ Cardinality(T) \in Nat
<1>1. IsFiniteSet(Docs)
      BY FS_AddElement DEF Docs
<1> QED BY <1>1, FS_Subset, FS_CardinalityType

(* The promise follows: what is held is uploading or retiring.              *)
LEMMA CountedManaged ==
    ASSUME TypeOK, FilesCounted
    PROVE  FilesManaged
<1> DEFINE Left == {d \in Docs : Exists(d)} \ ({row.remote} \cup Uploading \cup Retiring)
<1> SUFFICES ASSUME live
             PROVE  Cardinality(Left) <= faults + crossed
    BY DEF FilesManaged
<1>1. PICK H \in SUBSET Requests : Cardinality(Loose(H)) <= faults + crossed
      BY DEF FilesCounted
<1>2. Left \subseteq Loose(H)
  <2> SUFFICES ASSUME NEW d \in Left, NEW q \in Requests, Holds(H, q, d)
               PROVE  FALSE
      BY DEF Loose
  <2>1. d \notin Uploading /\ d \notin Retiring
        OBVIOUS
  <2> HIDE DEF Left
  <2> QED BY <2>1 DEF Holds, Uploading, Retiring
<1>3. /\ Loose(H) \subseteq Docs /\ Left \subseteq Docs
      BY DEF Loose
<1> HIDE DEF Left
<1>4. IsFiniteSet(Loose(H)) /\ Cardinality(Loose(H)) \in Nat /\ Cardinality(Left) \in Nat
      BY <1>3, DocsFinite
<1>5. Cardinality(Left) <= Cardinality(Loose(H))
      BY <1>2, <1>4, FS_Subset
<1>6. faults \in Nat /\ crossed \in Nat
      BY DEF TypeOK, BaseTypeOK
<1> QED BY <1>1, <1>4, <1>5, <1>6

(* What the step of one request leaves loose.                               *)
LEMMA LooseMoved ==
    ASSUME NEW r \in Requests, \A q \in Requests \ {r} : req'[q] = req[q],
           NEW H \in SUBSET Requests, NEW G \in SUBSET Requests, H \ {r} = G \ {r}, NEW X,
           \A d \in Docs : Exists(d)' /\ row'.remote # d /\ ~Holds(G, r, d)'
                           => d \in X \/ (Exists(d) /\ row.remote # d /\ ~Holds(H, r, d))
    PROVE  Loose(G)' \subseteq Loose(H) \cup X
<1> SUFFICES ASSUME NEW d \in Docs, d \in Loose(G)', d \notin X
             PROVE  d \in Loose(H)
    BY DEF Loose
<1>1. Exists(d)' /\ row'.remote # d /\ \A q \in Requests : ~Holds(G, q, d)'
      BY DEF Loose
<1>2. Exists(d) /\ row.remote # d /\ ~Holds(H, r, d)
      BY <1>1
<1>3. ASSUME NEW q \in Requests \ {r}
      PROVE  ~Holds(H, q, d)
  <2>1. req'[q] = req[q] /\ (q \in H <=> q \in G) /\ ~Holds(G, q, d)'
        BY <1>1
  <2> QED BY <2>1 DEF Holds
<1> QED BY <1>2, <1>3 DEF Loose

(* The step is paid for.                                                    *)
LEMMA CountKept ==
    ASSUME TypeOK, TypeOK', FilesCounted, live' => live,
           faults <= faults', crossed <= crossed',
           \A H \in SUBSET Requests : \E G \in SUBSET Requests :
               \/ Loose(G)' \subseteq Loose(H)
               \/ /\ faults < faults' \/ crossed < crossed'
                  /\ \E x : Loose(G)' \subseteq Loose(H) \cup {x}
    PROVE  FilesCounted'
<1> SUFFICES ASSUME live'
             PROVE  \E G \in SUBSET Requests : Cardinality(Loose(G)') <= faults' + crossed'
    BY DEF FilesCounted
<1>1. PICK H \in SUBSET Requests : Cardinality(Loose(H)) <= faults + crossed
      BY DEF FilesCounted
<1>2. PICK G \in SUBSET Requests :
               \/ Loose(G)' \subseteq Loose(H)
               \/ /\ faults < faults' \/ crossed < crossed'
                  /\ \E x : Loose(G)' \subseteq Loose(H) \cup {x}
      OBVIOUS
<1>3. /\ faults \in Nat /\ crossed \in Nat /\ faults' \in Nat /\ crossed' \in Nat
      BY DEF TypeOK, BaseTypeOK
<1>4. IsFiniteSet(Loose(H)) /\ Cardinality(Loose(H)) \in Nat /\ Cardinality(Loose(G)') \in Nat
  <2>1. Loose(H) \subseteq Docs /\ Loose(G)' \subseteq Docs
        BY DEF Loose
  <2> QED BY <2>1, DocsFinite
<1>5. CASE Loose(G)' \subseteq Loose(H)
  <2>1. Cardinality(Loose(G)') <= Cardinality(Loose(H))
        BY <1>4, <1>5, FS_Subset
  <2> QED BY <1>1, <1>3, <1>4, <2>1
<1>6. CASE /\ faults < faults' \/ crossed < crossed'
           /\ \E x : Loose(G)' \subseteq Loose(H) \cup {x}
  <2>1. PICK x : Loose(G)' \subseteq Loose(H) \cup {x}
        BY <1>6
  <2>2. Cardinality(Loose(G)') <= Cardinality(Loose(H)) + 1
        BY <1>4, <2>1, OneMore
  <2>3. Cardinality(Loose(H)) + 1 <= faults' + crossed'
        BY <1>1, <1>3, <1>4, <1>6
  <2> QED BY <1>3, <1>4, <2>2, <2>3
<1> QED BY <1>2, <1>5, <1>6

(* A step that brings no document back and leaves the row's, of a request   *)
(* that holds none.                                                         *)
LEMMA CountQuiet ==
    ASSUME TypeOK, TypeOK', FilesCounted, NEW r \in Requests,
           \A q \in Requests \ {r} : req'[q] = req[q], live' => live,
           faults <= faults', crossed <= crossed', row'.remote = row.remote,
           \A d \in Docs : Exists(d)' => Exists(d),
           req[r].pc \notin {"save", "undo", "parsenew", "replace", "readback", "retire"}
    PROVE  FilesCounted'
<1>1. ASSUME NEW H \in SUBSET Requests
      PROVE  Loose(H)' \subseteq Loose(H) \cup {}
  <2>1. \A d : ~Holds(H, r, d)
        BY DEF Holds
  <2> QED BY <2>1, LooseMoved
<1>2. \A H \in SUBSET Requests : Loose(H)' \subseteq Loose(H)
      BY <1>1
<1> QED BY <1>2, CountKept

(* The same when no request moves.                                          *)
LEMMA CountTasks ==
    ASSUME TypeOK, TypeOK', FilesCounted, UNCHANGED req, live' => live,
           faults <= faults', crossed <= crossed', row'.remote = row.remote,
           \A d \in Docs : Exists(d)' => Exists(d)
    PROVE  FilesCounted'
<1>1. \A H \in SUBSET Requests : Loose(H)' \subseteq Loose(H)
      BY DEF Loose, Holds
<1> QED BY <1>1, CountKept

LEMMA EmptiedKept ==
    ASSUME FileInv, Emptied, NEW r \in Requests, \A q \in Requests \ {r} : req'[q] = req[q],
           \A d \in Docs \ {r} : run[d] = "gone" => run'[d] = "gone",
           run[r] = "gone" => run'[r] = "gone" \/ req[r].pc = "push",
           req'[r].pc = "droprow" /\ req'[r].old \in Docs => run'[req'[r].old] = "gone"
    PROVE  Emptied'
<1> SUFFICES ASSUME NEW q \in Requests, q # r, req[q].pc = "droprow", req[q].old \in Docs
             PROVE  run'[req[q].old] = "gone"
    BY DEF Emptied
<1>1. run[req[q].old] = "gone"
      BY DEF Emptied
<1>2. req[q].old = r => req[r].pc \in Post
      BY DEF FileInv, AttachInv, Later, Attached
<1> QED BY <1>1, <1>2 DEF Post

LEMMA TookOverKept ==
    ASSUME FileInv, TookOver, NEW r \in Requests, \A q \in Requests \ {r} : req'[q] = req[q],
           RowWeaker, req'[r].pc = "readback" => row'.remote # r
    PROVE  TookOver'
<1> SUFFICES ASSUME NEW q \in Requests, req'[q].pc = "readback", row'.remote = q
             PROVE  row'.id = req'[q].file
    BY DEF TookOver
<1>1. q # r /\ req[q] = req'[q] /\ NoRow.remote # q
      BY NamesApart
<1>2. row'.id = row.id /\ row.remote = q
      BY <1>1 DEF RowWeaker
<1> QED BY <1>1, <1>2 DEF TookOver

(* The runs that a step sets.                                               *)
LEMMA RunSet ==
    ASSUME TypeOK, NEW d, NEW to \in Runs, SetRun(d, to)
    PROVE  /\ \A e \in Docs : e # d => run'[e] = run[e]
           /\ d \in Docs => run'[d] = to
           /\ to = "gone" \/ (d \in Docs => Exists(d))
              => \A e \in Docs : /\ Exists(e)' => Exists(e)
                                 /\ run[e] = "gone" => run'[e] = "gone"
<1>1. /\ \A e \in Docs : e # d => run'[e] = run[e]
      /\ d \in Docs => run'[d] = to
      BY DEF SetRun, TypeOK, BaseTypeOK
<1> QED BY <1>1 DEF Exists

LEMMA CountFiles ==
    ASSUME FileInv, FileInv', CountInv, NEW r \in Requests,
           \/ Upload(r) \/ DeleteRemote(r) \/ DropRow(r) \/ Reparse(r) \/ Requeue(r)
           \/ Embed(r) \/ EmbedReset(r)
    PROVE  CountInv'
<1>1. /\ TypeOK /\ TypeOK' /\ live' = live /\ FilesCounted /\ Emptied /\ TookOver
      /\ crossed \in Nat /\ None \notin Docs /\ r \in Docs /\ NoRow.remote = None
      BY FileStepTyped, NamesApart DEF FileInv, CountInv, dataset, TypeOK, BaseTypeOK
<1>2. RowNamed /\ Later /\ Distinct
      BY DEF FileInv, AttachInv
<1>3. req[r].pc = "push" \/ req[r].pc = "save" \/ req[r].pc = "replace" => row.remote # r
      BY <1>2 DEF Later, Attached, Post
<1>4. faults <= faults' /\ (Faulty => faults < faults')
  <2>1. Faulty \/ UNCHANGED faults
        BY DEF Upload, Lookup, Push, Save, Parse, Undo, ParseNew, Replace, ReadBack, Retire,
           DeleteRemote, DropRow, Reparse, Requeue, Embed, EmbedReset
  <2> QED BY <1>1, <2>1, FaultyMore
<1>5. \A q \in Requests \ {r} : req'[q] = req[q]
  <2>1. CASE Lookup(r)
        BY <1>1, <2>1 DEF Lookup, TypeOK, BaseTypeOK
  <2>2. CASE ~Lookup(r)
    <3>1. End(r) \/ \E pc \in Steps : Go(r, pc)
          BY <2>2 DEF Upload, Push, Save, Parse, Undo, ParseNew, Replace, ReadBack, Retire,
             DeleteRemote, DropRow, Reparse, Requeue, Embed, EmbedReset, Steps
    <3> QED BY <1>1, <3>1, Moved
  <2> QED BY <2>1, <2>2
<1>6. crossed <= crossed'
      BY <1>1 DEF Upload, Lookup, Push, Save, Parse, Undo, ParseNew, Replace, ReadBack, Retire,
         DeleteRemote, DropRow, Reparse, Requeue, Embed, EmbedReset, files
(* The three parts, and what is left of each for the actions below.         *)
<1>7. ASSUME row'.remote = row.remote, \A d \in Docs : Exists(d)' => Exists(d),
             req[r].pc \notin {"save", "undo", "parsenew", "replace", "readback", "retire"}
      PROVE  FilesCounted'
      BY <1>1, <1>4, <1>5, <1>6, <1>7, CountQuiet
<1>8. ASSUME \A H \in SUBSET Requests : \E G \in SUBSET Requests :
                 /\ H \ {r} = G \ {r}
                 /\ \A d \in Docs : Exists(d)' /\ row'.remote # d /\ ~Holds(G, r, d)'
                                    => (Exists(d) /\ row.remote # d /\ ~Holds(H, r, d))
      PROVE  FilesCounted'
  <2>1. ASSUME NEW H \in SUBSET Requests
        PROVE  \E G \in SUBSET Requests : Loose(G)' \subseteq Loose(H)
    <3>1. PICK G \in SUBSET Requests :
                 /\ H \ {r} = G \ {r}
                 /\ \A d \in Docs : Exists(d)' /\ row'.remote # d /\ ~Holds(G, r, d)'
                                    => (Exists(d) /\ row.remote # d /\ ~Holds(H, r, d))
          BY <1>8
    <3>2. Loose(G)' \subseteq Loose(H) \cup {}
          BY <1>5, <3>1, LooseMoved
    <3> QED BY <3>1, <3>2
  <2> QED BY <1>1, <1>4, <1>6, <2>1, CountKept
<1>9. ASSUME \A H \in SUBSET Requests : \A d \in Docs :
                 Exists(d)' /\ row'.remote # d /\ ~Holds(H, r, d)'
                 => Exists(d) /\ row.remote # d /\ ~Holds(H, r, d)
      PROVE  FilesCounted'
  <2>1. \A H \in SUBSET Requests : \E G \in SUBSET Requests :
                 /\ H \ {r} = G \ {r}
                 /\ \A d \in Docs : Exists(d)' /\ row'.remote # d /\ ~Holds(G, r, d)'
                                    => (Exists(d) /\ row.remote # d /\ ~Holds(H, r, d))
        BY <1>9
  <2> QED BY <1>8, <2>1
<1>10. ASSUME faults < faults' \/ crossed < crossed',
              \A H \in SUBSET Requests : \E x : \A d \in Docs :
                 Exists(d)' /\ row'.remote # d /\ ~Holds(H, r, d)'
                 => d \in {x} \/ (Exists(d) /\ row.remote # d /\ ~Holds(H, r, d))
       PROVE  FilesCounted'
  <2>1. ASSUME NEW H \in SUBSET Requests
        PROVE  \E G \in SUBSET Requests :
                   /\ faults < faults' \/ crossed < crossed'
                   /\ \E x : Loose(G)' \subseteq Loose(H) \cup {x}
    <3>1. PICK x : \A d \in Docs :
                 Exists(d)' /\ row'.remote # d /\ ~Holds(H, r, d)'
                 => d \in {x} \/ (Exists(d) /\ row.remote # d /\ ~Holds(H, r, d))
          BY <1>10
    <3>2. Loose(H)' \subseteq Loose(H) \cup {x}
          BY <1>5, <3>1, LooseMoved
    <3> WITNESS H \in SUBSET Requests
    <3> QED BY <1>10, <3>2
  <2> QED BY <1>1, <1>4, <1>6, <2>1, CountKept
<1>11. ASSUME \A d \in Docs : run[d] = "gone" => run'[d] = "gone", req'[r].pc # "droprow"
      PROVE  Emptied'
      BY <1>1, <1>5, <1>11, EmptiedKept
<1>12. ASSUME RowWeaker, req'[r].pc # "readback"
       PROVE  TookOver'
       BY <1>1, <1>5, <1>12, TookOverKept
<1> USE DEF At
<1>13. CASE Lookup(r)
  <2>1. row' = row /\ run' = run /\ req[r].pc = "lookup"
        BY <1>13 DEF Lookup, files
  <2>2. req'[r].pc = "push"
        BY <1>1, <1>13 DEF Lookup, TypeOK, BaseTypeOK
  <2>3. FilesCounted'
        BY <1>7, <2>1 DEF Exists
  <2>4. Emptied' /\ TookOver'
        BY <1>11, <1>12, <2>1, <2>2 DEF RowWeaker
  <2> QED BY <2>3, <2>4 DEF CountInv
<1>14. CASE Push(r)
  <2>1. row' = row /\ req[r].pc = "push"
        BY <1>14 DEF Push
  <2>2. req'[r].pc \in {"done", "save", "parsenew"}
        BY <1>1, <1>14, Became DEF Push, Steps
  <2>3. Emptied'
    <3>1. \A d \in Docs \ {r} : run'[d] = run[d]
          BY <1>1, <1>14, RunSet DEF Push, Runs
    <3> QED BY <1>1, <1>5, <2>1, <2>2, <3>1, EmptiedKept
  <2>4. TookOver'
        BY <1>12, <2>1, <2>2 DEF RowWeaker
  <2>5. CASE End(r) /\ run' = run
        BY <1>7, <2>1, <2>3, <2>4, <2>5 DEF Exists, CountInv
  <2>6. CASE /\ SetRun(r, "unstart")
             /\ (Go(r, "done") /\ Faulty) \/ \E pc \in {"save", "parsenew"} : Go(r, pc)
    <3>1. \A d \in Docs : Exists(d)' /\ d # r => Exists(d)
          BY <1>1, <2>6, RunSet DEF Exists, Runs
    <3>2. \A H, d : ~Holds(H, r, d)
          BY <2>1 DEF Holds
    <3>3. CASE Go(r, "done") /\ Faulty
      <4>1. faults < faults'
            BY <1>4, <3>3
      <4>2. \A H \in SUBSET Requests : \A d \in Docs :
                Exists(d)' /\ row'.remote # d /\ ~Holds(H, r, d)'
                => d \in {r} \/ (Exists(d) /\ row.remote # d /\ ~Holds(H, r, d))
            BY <2>1, <3>1, <3>2
      <4>3. FilesCounted'
            BY <1>10, <4>1, <4>2
      <4> QED BY <2>3, <2>4, <4>3 DEF CountInv
    <3>4. CASE req'[r].pc \in {"save", "parsenew"}
      <4>1. \A H : Holds(H, r, r)'
            BY <3>4 DEF Holds
      <4>2. FilesCounted'
            BY <1>9, <2>1, <3>1, <3>2, <4>1
      <4> QED BY <2>3, <2>4, <4>2 DEF CountInv
    <3>5. (Go(r, "done") /\ Faulty) \/ req'[r].pc \in {"save", "parsenew"}
          BY <1>1, <2>6, Became DEF Steps
    <3> QED BY <3>3, <3>4, <3>5
  <2> QED BY <1>14, <2>5, <2>6 DEF Push
<1>15. CASE Save(r)
  <2>1. /\ run' = run /\ req[r].pc = "save" /\ req'[r].pc \in {"parse", "undo"}
        /\ req'[r].pc = "parse" => row = NoRow /\ row' = NewRow(r)
        /\ req'[r].pc = "undo" => row' = row
        BY <1>1, <1>15, Became DEF Save, Steps
  <2>2. \A H, d : Holds(H, r, d) <=> d = r
        BY <2>1 DEF Holds
  <2>3. CASE req'[r].pc = "parse"
    <3>1. row'.remote = r /\ \A d \in Docs : row.remote # d
          BY <1>1, <2>1, <2>3 DEF NewRow, NoRow
    <3>2. FilesCounted'
          BY <1>9, <2>1, <2>2, <3>1 DEF Exists
    <3>3. TookOver'
          BY <1>5, <2>3, <3>1 DEF TookOver
    <3> QED BY <1>11, <2>1, <3>2, <3>3 DEF CountInv
  <2>4. CASE req'[r].pc = "undo"
    <3>1. \A H : Holds(H, r, r)'
          BY <2>4 DEF Holds
    <3>2. FilesCounted'
          BY <1>9, <2>1, <2>2, <2>4, <3>1 DEF Exists
    <3> QED BY <1>11, <1>12, <2>1, <2>4, <3>2 DEF CountInv, RowWeaker
  <2> QED BY <2>1, <2>3, <2>4
<1>16. CASE Parse(r)
  <2>1. req[r].pc = "parse" /\ req'[r].pc = "done"
        BY <1>1, <1>16, Became DEF Parse
  <2>2. row'.remote = row.remote /\ RowWeaker
    <3>1. row' = row \/ \E w \in BOOLEAN : row' = [row EXCEPT !.wrong = w]
          BY <1>1, <1>16, RowTyped DEF Parse
    <3>2. row \in Row
          BY <1>1, RowTyped
    <3> QED BY <1>1, <1>16, <3>1, <3>2 DEF RowWeaker, Row, Parse, NoRow
  <2>3. \A d \in Docs : (Exists(d)' => Exists(d)) /\ (run[d] = "gone" => run'[d] = "gone")
    <3>1. CASE run' = run
          BY <3>1 DEF Exists
    <3>2. CASE SetRun(r, "running") /\ Exists(r)
          BY <1>1, <3>2, RunSet DEF Runs
    <3> QED BY <1>16, <3>1, <3>2 DEF Parse, Parseable
  <2> QED BY <1>7, <1>11, <1>12, <2>1, <2>2, <2>3 DEF CountInv
<1>17. CASE Undo(r)
  <2>1. /\ row' = row /\ req[r].pc = "undo" /\ req'[r].pc = "done"
        /\ SetRun(r, "gone")
        BY <1>1, <1>17, Became DEF Undo
  <2>2. /\ \A d \in Docs : (Exists(d)' => Exists(d)) /\ (run[d] = "gone" => run'[d] = "gone")
        /\ run'[r] = "gone"
        BY <1>1, <2>1, RunSet DEF Runs
  <2>3. \A H, d : Holds(H, r, d) <=> d = r
        BY <2>1 DEF Holds
  <2>4. FilesCounted'
        BY <1>9, <2>1, <2>2, <2>3 DEF Exists
  <2> QED BY <1>11, <1>12, <2>1, <2>2, <2>4 DEF CountInv, RowWeaker
<1>18. CASE ParseNew(r)
  <2>1. /\ row' = row /\ req[r].pc = "parsenew" /\ req'[r].pc \in {"replace", "undo"}
        BY <1>1, <1>18, Became DEF ParseNew, Steps
  <2>2. \A d \in Docs : (Exists(d)' => Exists(d)) /\ (run[d] = "gone" => run'[d] = "gone")
    <3>1. CASE run' = run
          BY <3>1 DEF Exists
    <3>2. CASE SetRun(r, "running") /\ Exists(r)
          BY <1>1, <3>2, RunSet DEF Runs
    <3> QED BY <1>18, <3>1, <3>2 DEF ParseNew, Parseable
  <2>3. \A H, d : (Holds(H, r, d) <=> d = r) /\ (Holds(H, r, d)' <=> d = r)
        BY <2>1 DEF Holds
  <2>4. FilesCounted'
        BY <1>9, <2>1, <2>2, <2>3
  <2> QED BY <1>11, <1>12, <2>1, <2>2, <2>4 DEF CountInv, RowWeaker
<1>19. CASE Replace(r)
  <2>1. /\ run' = run /\ req[r].pc = "replace" /\ req'[r].pc \in {"readback", "undo"}
        /\ req'[r].old = req[r].old /\ req'[r].file = req[r].file
        /\ req'[r].pc = "undo" => row' = row
        /\ \/ row' = row
           \/ /\ row' = Overwritten(r) /\ row.id = req[r].file /\ row.remote = req[r].old
              /\ req'[r].pc = "readback"
        BY <1>1, <1>19, Became DEF Replace, Steps
  <2>2. \A H, d : Holds(H, r, d) <=> d = r
        BY <2>1 DEF Holds
  <2>3. Emptied'
        BY <1>11, <2>1
  <2>4. CASE /\ row' = Overwritten(r) /\ row.id = req[r].file /\ row.remote = req[r].old
             /\ req'[r].pc = "readback"
    <3>1. row'.remote = r /\ row'.id = row.id
      <4>1. Written("queued") \in Row /\ Written("queued").id = row.id
            BY <1>1, RowTyped DEF Written, Statuses, Row
      <4> QED BY <2>4, <4>1 DEF Overwritten, Row
    <3>2. TookOver'
          BY <1>5, <2>1, <2>4, <3>1 DEF TookOver
    <3>3. ASSUME NEW H \in SUBSET Requests
          PROVE  LET G == H \cup {r}
                 IN  /\ G \in SUBSET Requests /\ H \ {r} = G \ {r}
                     /\ \A d : Holds(G, r, d)' <=> d = req[r].old
          BY <2>1, <2>4 DEF Holds
    <3>4. ASSUME NEW H \in SUBSET Requests
          PROVE  \E G \in SUBSET Requests :
                 /\ H \ {r} = G \ {r}
                 /\ \A d \in Docs : Exists(d)' /\ row'.remote # d /\ ~Holds(G, r, d)'
                                    => (Exists(d) /\ row.remote # d /\ ~Holds(H, r, d))
      <4> DEFINE G == H \cup {r}
      <4>1. /\ G \in SUBSET Requests /\ H \ {r} = G \ {r}
            /\ \A d : Holds(G, r, d)' <=> d = req[r].old
            BY <3>3
      <4>2. \A d \in Docs : Exists(d)' /\ row'.remote # d /\ ~Holds(G, r, d)'
                            => (Exists(d) /\ row.remote # d /\ ~Holds(H, r, d))
            BY <2>1, <2>2, <2>4, <3>1, <4>1 DEF Exists
      <4> HIDE DEF G
      <4> QED BY <4>1, <4>2
    <3>5. FilesCounted'
          BY <1>8, <3>4
    <3> QED BY <2>3, <3>2, <3>5 DEF CountInv
  <2>5. CASE row' = row
    <3>1. ASSUME NEW H \in SUBSET Requests
          PROVE  \E G \in SUBSET Requests :
                 /\ H \ {r} = G \ {r}
                 /\ \A d \in Docs : Exists(d)' /\ row'.remote # d /\ ~Holds(G, r, d)'
                                    => (Exists(d) /\ row.remote # d /\ ~Holds(H, r, d))
      <4> DEFINE G == H \ {r}
      <4>1. G \in SUBSET Requests /\ H \ {r} = G \ {r} /\ Holds(G, r, r)'
            BY <2>1 DEF Holds
      <4>2. \A d \in Docs : Exists(d)' /\ row'.remote # d /\ ~Holds(G, r, d)'
                            => (Exists(d) /\ row.remote # d /\ ~Holds(H, r, d))
            BY <2>1, <2>2, <2>5, <4>1 DEF Exists
      <4> HIDE DEF G
      <4> QED BY <4>1, <4>2
    <3>2. FilesCounted'
          BY <1>8, <3>1
    <3>3. TookOver'
          BY <1>1, <1>3, <1>5, <2>1, <2>5, TookOverKept DEF RowWeaker
    <3> QED BY <2>3, <3>2, <3>3 DEF CountInv
  <2> QED BY <2>1, <2>4, <2>5
<1>20. CASE ReadBack(r)
  <2>1. /\ run' = run /\ row' = row /\ req[r].pc = "readback"
        /\ req'[r].pc \in {"done", "retire", "undo"}
        BY <1>1, <1>20, Became DEF ReadBack, Steps
  <2>2. Emptied' /\ TookOver'
        BY <1>11, <1>12, <2>1 DEF RowWeaker
  <2>3. CASE row.remote # r
    <3>1. crossed < crossed'
          BY <1>1, <1>20, <2>3 DEF ReadBack
    <3>2. ASSUME NEW H \in SUBSET Requests
          PROVE  \E x : \A d : Holds(H, r, d) => d = x
          BY <2>1 DEF Holds
    <3>3. ASSUME NEW H \in SUBSET Requests
          PROVE  \E x : \A d \in Docs :
                    Exists(d)' /\ row'.remote # d /\ ~Holds(H, r, d)'
                    => d \in {x} \/ (Exists(d) /\ row.remote # d /\ ~Holds(H, r, d))
      <4>1. PICK x : \A d : Holds(H, r, d) => d = x
            BY <3>2
      <4> QED BY <2>1, <4>1 DEF Exists
    <3>4. FilesCounted'
          BY <1>10, <3>1, <3>3
    <3> QED BY <2>2, <3>4 DEF CountInv
  <2>4. CASE row.remote = r
    <3>1. row.id = req[r].file
          BY <1>1, <2>1, <2>4 DEF TookOver
    <3>2. req'[r].pc = "retire" /\ req'[r].old = req[r].old
          BY <1>1, <1>20, <2>4, <3>1, Became DEF ReadBack, Steps
    <3>3. \A H, d : /\ Holds(H, r, d)' <=> d = req[r].old
                    /\ Holds(H, r, d) => d \in {r, req[r].old}
          BY <2>1, <3>2 DEF Holds
    <3>4. FilesCounted'
          BY <1>9, <2>1, <2>4, <3>3 DEF Exists
    <3> QED BY <2>2, <3>4 DEF CountInv
  <2> QED BY <2>3, <2>4
<1>21. CASE Retire(r)
  <2>1. /\ row' = row /\ req[r].pc = "retire" /\ req'[r].pc = "done"
        /\ SetRun(req[r].old, "gone")
        BY <1>1, <1>21, Became DEF Retire
  <2>2. /\ \A d \in Docs : (Exists(d)' => Exists(d)) /\ (run[d] = "gone" => run'[d] = "gone")
        /\ req[r].old \in Docs => run'[req[r].old] = "gone"
        BY <1>1, <2>1, RunSet DEF Runs
  <2>3. \A H, d : Holds(H, r, d) <=> d = req[r].old
        BY <2>1 DEF Holds
  <2>4. FilesCounted'
        BY <1>9, <2>1, <2>2, <2>3 DEF Exists
  <2> QED BY <1>11, <1>12, <2>1, <2>2, <2>4 DEF CountInv, RowWeaker
<1>22. CASE DeleteRemote(r)
  <2>1. /\ row' = row /\ req[r].pc = "deleteremote" /\ req'[r].pc \in {"droprow", "done"}
        /\ run' = run \/ SetRun(req[r].old, "gone")
        /\ req'[r].pc = "droprow" => SetRun(req[r].old, "gone") /\ req'[r].old = req[r].old
        BY <1>1, <1>22, Became DEF DeleteRemote, Steps
  <2>2. \A d \in Docs : (Exists(d)' => Exists(d)) /\ (run[d] = "gone" => run'[d] = "gone")
    <3>1. CASE run' = run
          BY <3>1 DEF Exists
    <3>2. CASE SetRun(req[r].old, "gone")
          BY <1>1, <3>2, RunSet DEF Runs
    <3> QED BY <2>1, <3>1, <3>2
  <2>3. req'[r].pc = "droprow" /\ req'[r].old \in Docs => run'[req'[r].old] = "gone"
        BY <1>1, <2>1, RunSet DEF Runs
  <2>4. Emptied'
        BY <1>1, <1>5, <2>2, <2>3, EmptiedKept
  <2> QED BY <1>7, <1>12, <2>1, <2>2, <2>4 DEF CountInv, RowWeaker
<1>23. CASE DropRow(r)
  <2>1. /\ run' = run /\ req[r].pc = "droprow" /\ req'[r].pc = "done"
        /\ row' = row \/ row' = NoRow
        BY <1>1, <1>23, Became DEF DropRow
  <2>2. Emptied' /\ TookOver'
        BY <1>11, <1>12, <2>1 DEF RowWeaker
  <2>3. \A H, d : ~Holds(H, r, d)
        BY <2>1 DEF Holds
  <2>4. CASE row' = row
        BY <1>7, <2>1, <2>2, <2>4 DEF Exists, CountInv
  <2>5. CASE row' # row /\ row.remote = req[r].old
    <3>1. row.remote \in Docs => run[row.remote] = "gone"
          BY <1>1, <2>1, <2>5 DEF Emptied
    <3>2. FilesCounted'
          BY <1>9, <2>1, <2>3, <3>1 DEF Exists
    <3> QED BY <2>2, <3>2 DEF CountInv
  <2>6. CASE row' # row /\ row.remote # req[r].old
    <3>1. crossed < crossed'
          BY <1>1, <1>23, <2>6 DEF DropRow
    <3>2. \A H \in SUBSET Requests : \A d \in Docs :
              Exists(d)' /\ row'.remote # d /\ ~Holds(H, r, d)'
              => d \in {row.remote} \/ (Exists(d) /\ row.remote # d /\ ~Holds(H, r, d))
          BY <2>1, <2>3 DEF Exists
    <3>3. FilesCounted'
          BY <1>10, <3>1, <3>2
    <3> QED BY <2>2, <3>3 DEF CountInv
  <2> QED BY <2>4, <2>5, <2>6
<1>24. CASE Reparse(r) \/ Embed(r)
  <2>1. /\ row' = row /\ req[r].pc \in {"reparse", "embed"}
        /\ req'[r].pc \in {"requeue", "reset", "done"}
        BY <1>1, <1>24, Became DEF Reparse, Embed, Steps
  <2>2. \A d \in Docs : (Exists(d)' => Exists(d)) /\ (run[d] = "gone" => run'[d] = "gone")
    <3>1. CASE run' = run
          BY <3>1 DEF Exists
    <3>2. CASE SetRun(req[r].old, "running") /\ Exists(req[r].old)
          BY <1>1, <3>2, RunSet DEF Runs
    <3>3. CASE run' = [d \in Docs |-> IF d \in Members(req[r].set) THEN "running" ELSE run[d]]
          BY <3>3 DEF Members, Exists
    <3> QED BY <1>24, <3>1, <3>2, <3>3 DEF Reparse, Embed, Parseable
  <2> QED BY <1>7, <1>11, <1>12, <2>1, <2>2 DEF CountInv, RowWeaker
<1>25. CASE Requeue(r) \/ EmbedReset(r)
  <2>1. /\ run' = run /\ req[r].pc \in {"requeue", "reset"} /\ req'[r].pc = "done"
        /\ row' = row \/ row' = Written("queued")
        BY <1>1, <1>25, Became DEF Requeue, EmbedReset
  <2>2. row' # row => row # NoRow
    <3>1. row' # row /\ Requeue(r) => row.id = req[r].file /\ req[r].file # None
          BY DEF Requeue, FileInv, KnownInv, FileKnown
    <3> QED BY <1>25, <3>1, NamesApart DEF EmbedReset
  <2>3. row'.remote = row.remote /\ RowWeaker
        BY <1>1, <2>1, <2>2, RowTyped DEF Written, Row, RowWeaker
  <2> QED BY <1>7, <1>11, <1>12, <2>1, <2>3 DEF CountInv, Exists
<1> QED BY <1>13, <1>14, <1>15, <1>16, <1>17, <1>18, <1>19, <1>20, <1>21, <1>22, <1>23,
           <1>24, <1>25
        DEF Upload

LEMMA CountOthers ==
    ASSUME FileInv, FileInv', CountInv, NEW r \in Requests,
           \/ \E op \in {"upload", "delete", "reparse", "embed"} : Begin(r, op)
           \/ DropBase(r) \/ Dataset(r) \/ DropSet(r) \/ Cut(r)
    PROVE  CountInv'
<1>1. /\ TypeOK /\ TypeOK' /\ FilesCounted /\ Emptied /\ TookOver /\ crossed \in Nat
      /\ faults \in Nat /\ NoRow.remote = None /\ None \notin Docs
      BY NamesApart DEF FileInv, CountInv, TypeOK, BaseTypeOK
<1>2. CASE \/ \E op \in {"upload", "delete", "reparse", "embed"} : Begin(r, op)
           \/ Dataset(r)
  <2>1. /\ UNCHANGED live /\ row' = row /\ run' = run /\ crossed' = crossed
        /\ Faulty \/ UNCHANGED faults
        BY <1>2 DEF Begin, Dataset, Resolve, InsertMapping, Claim, CreateRemote, Activate,
           Discard, Reread, dataset, files
  <2>2. /\ \A q \in Requests \ {r} : req'[q] = req[q]
        /\ req'[r].pc \notin {"droprow", "readback"}
    <3>1. CASE \E op \in {"upload", "delete", "reparse", "embed"} : Begin(r, op)
      <4>1. PICK op \in {"upload", "delete", "reparse", "embed"} : Begin(r, op)
            BY <3>1
      <4>2. req \in [Requests -> Request] /\ req[r] \in Request
            BY <1>1, RequestTyped
      <4>3. \/ req' = [req EXCEPT ![r] = [req[r] EXCEPT !.op = op, !.pc = "resolve"]]
            \/ req' = [req EXCEPT ![r] = [req[r] EXCEPT !.op = op, !.pc = "resolve",
                                                        !.file = row.id, !.old = row.remote]]
            \/ req' = [req EXCEPT ![r] = [req[r] EXCEPT !.op = op, !.pc = "embed",
                                                        !.ds = ds.id, !.set = ds.set]]
            BY <4>1, <4>2 DEF Begin
      <4>4. CASE req' = [req EXCEPT ![r] = [req[r] EXCEPT !.op = op, !.pc = "resolve"]]
            BY <4>2, <4>4 DEF Request
      <4>5. CASE req' = [req EXCEPT ![r] = [req[r] EXCEPT !.op = op, !.pc = "resolve",
                                                          !.file = row.id, !.old = row.remote]]
            BY <4>2, <4>5 DEF Request
      <4>6. CASE req' = [req EXCEPT ![r] = [req[r] EXCEPT !.op = op, !.pc = "embed",
                                                          !.ds = ds.id, !.set = ds.set]]
            BY <4>2, <4>6 DEF Request
      <4> QED BY <4>3, <4>4, <4>5, <4>6
    <3>2. CASE Dataset(r)
      <4>1. /\ \/ End(r) \/ Have(r)
               \/ \E pc \in {"insert", "create", "discard", "reread", After(r)} : Go(r, pc)
               \/ \E d, pc : /\ req' = [req EXCEPT ![r].ds = d, ![r].pc = pc]
                             /\ pc \in {"claim", "create"}
               \/ \E n : req' = [req EXCEPT ![r].set = n, ![r].pc = "activate"]
            BY <3>2 DEF Dataset, Resolve, InsertMapping, Claim, CreateRemote, Activate,
               Discard, Reread
      <4>2. req \in [Requests -> Request] /\ req[r] \in Request
            BY <1>1, RequestTyped
      <4>3. After(r) \in Steps /\ After(r) \notin {"droprow", "readback"}
            BY DEF After, Steps
      <4>4. CASE End(r) \/ Have(r)
            BY <1>1, <4>3, <4>4, Moved
      <4>5. CASE \E pc \in {"insert", "create", "discard", "reread", After(r)} : Go(r, pc)
            BY <1>1, <4>3, <4>5, Moved DEF Steps
      <4>6. CASE \/ \E d, pc : /\ req' = [req EXCEPT ![r].ds = d, ![r].pc = pc]
                               /\ pc \in {"claim", "create"}
                 \/ \E n : req' = [req EXCEPT ![r].set = n, ![r].pc = "activate"]
        <5>1. ASSUME NEW d, NEW pc \in {"claim", "create"},
                     req' = [req EXCEPT ![r].ds = d, ![r].pc = pc]
              PROVE  req'[r].pc = pc /\ \A q \in Requests \ {r} : req'[q] = req[q]
          <6>1. req' = [req EXCEPT ![r] = [req[r] EXCEPT !.ds = d, !.pc = pc]]
                BY <4>2, <5>1
          <6> QED BY <4>2, <6>1 DEF Request
        <5>2. ASSUME NEW n, req' = [req EXCEPT ![r].set = n, ![r].pc = "activate"]
              PROVE  req'[r].pc = "activate" /\ \A q \in Requests \ {r} : req'[q] = req[q]
          <6>1. req' = [req EXCEPT ![r] = [req[r] EXCEPT !.set = n, !.pc = "activate"]]
                BY <4>2, <5>2
          <6> QED BY <4>2, <6>1 DEF Request
        <5> QED BY <4>6, <5>1, <5>2
      <4> QED BY <4>1, <4>4, <4>5, <4>6
    <3> QED BY <1>2, <3>1, <3>2
  <2>3. req[r].pc \notin {"save", "undo", "parsenew", "replace", "readback", "retire"}
        BY <1>2 DEF Begin, Dataset, Resolve, InsertMapping, Claim, CreateRemote, Activate,
           Discard, Reread, At
  <2>4. FilesCounted'
        BY <1>1, <2>1, <2>2, <2>3, CountQuiet, FaultyMore DEF Exists
  <2>5. Emptied' /\ TookOver'
        BY <1>1, <2>1, <2>2, EmptiedKept, TookOverKept DEF RowWeaker
  <2> QED BY <2>4, <2>5 DEF CountInv
<1>3. CASE DropBase(r)
  <2>1. /\ live' = FALSE /\ row' = NoRow /\ run' = run
        /\ req'[r].pc \in {"done", "dropset"} /\ \A q \in Requests \ {r} : req'[q] = req[q]
    <3>1. req \in [Requests -> Request] /\ req[r] \in Request
          BY <1>1, RequestTyped
    <3>2. CASE End(r)
          BY <1>1, <1>3, <3>2, Moved DEF DropBase
    <3>3. CASE req' = [req EXCEPT ![r].op = "drop", ![r].set = ds.set, ![r].pc = "dropset"]
      <4>1. req' = [req EXCEPT ![r] = [req[r] EXCEPT !.op = "drop", !.set = ds.set,
                                                     !.pc = "dropset"]]
            BY <3>1, <3>3
      <4> QED BY <1>3, <3>1, <4>1 DEF DropBase, Request
    <3> QED BY <1>3, <3>2, <3>3 DEF DropBase
  <2>2. Emptied' /\ TookOver'
        BY <1>1, <2>1, EmptiedKept, TookOverKept DEF RowWeaker
  <2> QED BY <2>1, <2>2 DEF CountInv, FilesCounted
<1>4. CASE DropSet(r)
  <2>1. /\ row' = row /\ live' = live /\ UNCHANGED <<crossed, faults>> /\ req[r].pc = "dropset"
        /\ req'[r].pc = "done" /\ \A q \in Requests \ {r} : req'[q] = req[q]
        BY <1>1, <1>4, Moved DEF DropSet, At
  <2>2. \A d \in Docs : (Exists(d)' => Exists(d)) /\ (run[d] = "gone" => run'[d] = "gone")
        BY <1>4 DEF DropSet, Exists
  <2>3. FilesCounted'
        BY <1>1, <2>1, <2>2, CountQuiet
  <2>4. Emptied' /\ TookOver'
        BY <1>1, <2>1, <2>2, EmptiedKept, TookOverKept, NamesApart DEF RowWeaker
  <2> QED BY <2>3, <2>4 DEF CountInv
<1>5. CASE Cut(r)
  <2>1. /\ run' = run /\ live' = live /\ crossed' = crossed /\ faults < faults'
        /\ req'[r].pc = "done" /\ \A q \in Requests \ {r} : req'[q] = req[q]
        BY <1>1, <1>5, Moved, FaultyMore DEF Cut, dataset
  <2>2. row'.remote = row.remote /\ RowWeaker
    <3>1. row \in Row
          BY <1>1, RowTyped
    <3> QED BY <1>5, <3>1 DEF Cut, Owes, RowWeaker, Row
  <2>3. ASSUME NEW H \in SUBSET Requests
        PROVE  \E G \in SUBSET Requests :
                   \/ Loose(G)' \subseteq Loose(H)
                   \/ /\ faults < faults' \/ crossed < crossed'
                      /\ \E x : Loose(G)' \subseteq Loose(H) \cup {x}
    <3>1. \E x : \A d : Holds(H, r, d) => d = x
          BY DEF Holds
    <3>2. PICK x : \A d : Holds(H, r, d) => d = x
          BY <3>1
    <3>3. \A d \in Docs : Exists(d)' /\ row'.remote # d /\ ~Holds(H, r, d)'
                          => d \in {x} \/ (Exists(d) /\ row.remote # d /\ ~Holds(H, r, d))
          BY <2>1, <2>2, <3>2 DEF Exists
    <3>4. Loose(H)' \subseteq Loose(H) \cup {x}
          BY <2>1, <3>3, LooseMoved
    <3> WITNESS H \in SUBSET Requests
    <3> QED BY <2>1, <3>4
  <2>4. FilesCounted'
    <3>1. (live' => live) /\ faults <= faults' /\ crossed <= crossed'
          BY <1>1, <2>1 DEF TypeOK, BaseTypeOK
    <3> QED BY <1>1, <2>3, <3>1, CountKept
  <2>5. Emptied' /\ TookOver'
        BY <1>1, <2>1, <2>2, EmptiedKept, TookOverKept
  <2> QED BY <2>4, <2>5 DEF CountInv
<1> QED BY <1>2, <1>3, <1>4, <1>5

(* The background tasks leave the names of the row and bring nothing back.  *)
LEMMA TasksRow ==
    ASSUME TypeOK, Refresh \/ RowAges \/ Heal \/ KeyExpires \/ TasksDie
    PROVE  row'.id = row.id /\ row'.remote = row.remote
<1>1. row \in Row
      BY RowTyped
<1>2. /\ \A st : Written(st).id = row.id /\ Written(st).remote = row.remote
      /\ Written("queued") \in Row /\ Written(refresh.st) \in Row
  <2>1. \A st : Written(st).id = row.id /\ Written(st).remote = row.remote
        BY <1>1 DEF Written, Row
  <2>2. "queued" \in Statuses /\ refresh.st \in Statuses \cup {"none"}
        BY DEF TypeOK, Statuses
  <2> QED BY <2>1, <2>2, RowTyped
<1>3. CASE RefreshScan \/ RefreshList \/ HealScan \/ HealStop
      BY <1>3 DEF RefreshScan, RefreshList, HealScan, HealStop, base, files
<1>4. CASE RefreshWrite
  <2>1. row' = row \/ \E b : row' = [Written(refresh.st) EXCEPT !.wrong = b]
        BY <1>4 DEF RefreshWrite
  <2> QED BY <1>1, <1>2, <2>1 DEF Row
<1>5. CASE RowAges
      BY <1>1, <1>5 DEF RowAges, Row
<1>6. CASE HealParse
  <2>1. row' = row \/ row' = [row EXCEPT !.spent = row.spent + 1]
        BY <1>1, <1>6 DEF HealParse
  <2> QED BY <1>1, <2>1 DEF Row
<1>7. CASE HealRecord
  <2> DEFINE w == IF heal.queue THEN Written("queued") ELSE row
  <2>1. w \in Row /\ w.id = row.id /\ w.remote = row.remote
        BY <1>1, <1>2
  <2>2. row' = row \/ \E n, g : row' = [w EXCEPT !.attempts = n, !.gaveUp = g]
        BY <1>7 DEF HealRecord
  <2> HIDE DEF w
  <2> QED BY <2>1, <2>2 DEF Row
<1>8. CASE TasksDie
  <2>1. row' = row \/ \E n, b : row' = [row EXCEPT !.wrong = b, !.attempts = n]
        BY <1>8 DEF TasksDie
  <2> QED BY <1>1, <2>1 DEF Row
<1> QED BY <1>3, <1>4, <1>5, <1>6, <1>7, <1>8, Expiry DEF Refresh, Heal

LEMMA TasksRuns ==
    ASSUME TypeOK, Refresh \/ RowAges \/ Heal \/ KeyExpires \/ TasksDie
    PROVE  /\ \A d \in Docs : (Exists(d)' => Exists(d)) /\ (run[d] = "gone" => run'[d] = "gone")
           /\ crossed' = crossed /\ (Faulty \/ UNCHANGED faults)
<1> USE Expiry
<1>1. crossed' = crossed /\ (Faulty \/ UNCHANGED faults)
      BY DEF Refresh, RefreshScan, RefreshList, RefreshWrite, RowAges, Heal, HealScan, HealStop,
         HealParse, HealRecord, TasksDie, base, files
<1>2. \/ run' = run
      \/ \E to \in {"cancel", "running"} : SetRun(heal.remote, to) /\ Exists(heal.remote)
      BY DEF Refresh, RefreshScan, RefreshList, RefreshWrite, RowAges, Heal, HealScan, HealStop,
         HealParse, HealRecord, TasksDie, base, files, Busy, Exists
<1>3. CASE run' = run
      BY <1>1, <1>3 DEF Exists
<1>4. CASE \E to \in {"cancel", "running"} : SetRun(heal.remote, to) /\ Exists(heal.remote)
  <2>1. PICK to \in {"cancel", "running"} : SetRun(heal.remote, to) /\ Exists(heal.remote)
        BY <1>4
  <2> QED BY <1>1, <2>1, RunSet DEF Runs
<1> QED BY <1>2, <1>3, <1>4

LEMMA CountStep == FileInv /\ CountInv /\ [Next]_vars => CountInv'
<1> SUFFICES ASSUME FileInv, CountInv, [Next]_vars
             PROVE  CountInv'
    OBVIOUS
<1>1. /\ FileInv' /\ TypeOK /\ TypeOK' /\ FilesCounted /\ Emptied /\ TookOver
      /\ faults \in Nat /\ crossed \in Nat
      BY FileStep DEF FileInv, CountInv, TypeOK, BaseTypeOK
<1>2. ASSUME UNCHANGED <<live, req, crossed>>, Faulty \/ UNCHANGED faults,
             row'.id = row.id, row'.remote = row.remote,
             \A d \in Docs : (Exists(d)' => Exists(d)) /\ (run[d] = "gone" => run'[d] = "gone")
      PROVE  CountInv'
  <2>1. FilesCounted'
        BY <1>1, <1>2, CountTasks, FaultyMore
  <2>2. Emptied'
        BY <1>1, <1>2 DEF Emptied
  <2>3. TookOver'
        BY <1>1, <1>2 DEF TookOver
  <2> QED BY <2>1, <2>2, <2>3 DEF CountInv
<1>3. ASSUME NEW d \in Docs, RemoteEnds(d) \/ RemoteHangs(d), UNCHANGED tasks
      PROVE  CountInv'
  <2>1. /\ UNCHANGED <<live, row, req, crossed>>
        /\ Faulty \/ UNCHANGED faults
        /\ Exists(d) /\ \E to \in Runs : SetRun(d, to)
        BY <1>3 DEF RemoteEnds, RemoteHangs, Busy, Exists, dataset, Runs
  <2>2. \A e \in Docs : (Exists(e)' => Exists(e)) /\ (run[e] = "gone" => run'[e] = "gone")
        BY <1>1, <2>1, RunSet
  <2> QED BY <1>2, <2>1, <2>2
<1>4. ASSUME NEW r \in Requests, Goes(r), UNCHANGED tasks
      PROVE  CountInv'
      BY <1>1, <1>4, CountFiles, CountOthers DEF Goes
<1>5. CASE BaseNext /\ UNCHANGED tasks
      BY <1>1, <1>3, <1>4, <1>5, CountOthers DEF BaseNext
<1>6. CASE Refresh \/ RowAges \/ Heal \/ KeyExpires \/ TasksDie
  <2>1. UNCHANGED <<live, req>>
        BY <1>1, <1>6, TasksStepTyped DEF dataset
  <2> QED BY <1>1, <1>2, <1>6, <2>1, TasksRow, TasksRuns
<1>7. CASE UNCHANGED vars
      BY <1>2, <1>7 DEF vars, base, dataset, files, Exists
<1> QED BY <1>5, <1>6, <1>7 DEF Next

(* Nothing is left in RAGFlow that no row names and no request is about to  *)
(* name or delete, save one document for each fault and for each crossing   *)
(* of requests on the file: whichever requests upload, overwrite and delete *)
(* the file at once, and wherever each of them stops (uploadToDataset,      *)
(* overwriteIndustryFile, deleteDocument).                                  *)
THEOREM FilesAccounted == Spec => []FilesManaged
<1>1. Init => FileInv /\ CountInv
  <2> SUFFICES ASSUME Init
               PROVE  FileInv /\ CountInv
      OBVIOUS
  <2>1. FileInv
        BY InitFiles
  <2>2. /\ \A r \in Requests : req[r] = Fresh
        /\ Fresh.pc = "idle" /\ faults = 0 /\ crossed = 0
    <3>1. (\A r \in Requests : req[r] = Fresh) /\ faults = 0 /\ crossed = 0
          BY DEF Init, BaseInit
    <3> QED BY <3>1 DEF Fresh
  <2>3. Loose({}) = {}
    <3>1. \/ run = [d \in Docs |-> "none"]
          \/ /\ row = NewRow(Founder)
             /\ run = [d \in Docs |-> IF d = Founder THEN "running" ELSE "none"]
          BY DEF Init, BaseInit
    <3>2. NewRow(Founder).remote = Founder
          BY DEF NewRow, NoRow
    <3>3. \A d \in Docs : Exists(d) => row.remote = d
          BY <3>1, <3>2 DEF Exists
    <3> QED BY <3>3 DEF Loose
  <2>4. FilesCounted
    <3>1. Cardinality(Loose({})) = 0 /\ {} \in SUBSET Requests
          BY <2>3, FS_EmptySet
    <3> QED BY <2>2, <3>1 DEF FilesCounted
  <2> QED BY <2>1, <2>2, <2>4 DEF CountInv, Emptied, TookOver
<1>2. FileInv /\ CountInv /\ [Next]_vars => (FileInv /\ CountInv)'
      BY FileStep, CountStep
<1>3. FileInv /\ CountInv => FilesManaged
      BY CountedManaged DEF FileInv, CountInv
<1> QED BY <1>1, <1>2, <1>3, PTL DEF Spec
=============================================================================
