--------------------------- MODULE WebCertificate ---------------------------
(***************************************************************************)
(* The web publishing capability of one organization: its row in the table  *)
(* org_web_publish_config, the provision jobs that obtain its wildcard      *)
(* certificate, and the TLS Secret and the Ingress they apply.  Enable,     *)
(* RetryProvision and the renewal checker each insert a job and nothing     *)
(* serializes them, so two handlers of one organization can run at once.    *)
(*                                                                          *)
(* A handler is one action per statement that others can see.  Time is the  *)
(* age of the certificates: fresh, within the renewal window, or lapsed.    *)
(* The job runtime is reduced to claim, retry and the end of the attempts   *)
(* (module JobRuntime has it in full).  WebPublish adds the sites.          *)
(***************************************************************************)
EXTENDS Naturals, FiniteSets

CONSTANTS
    Workers,      \* worker goroutines, of all replicas
    Domains,      \* base domains; a domain also names the Secret derived from it
    Home,         \* the base domain that is configured first
    None,         \* no domain
    MaxJobs,      \* bound: provision jobs of the organization waiting or running at once
    MaxAttempts,  \* jobs.max_attempts, 5
    MaxOps,       \* bound: requests, and times that the certificates grow older
    MaxFaults     \* bound: failed calls and crashes

ASSUME CertificateConstants ==
    /\ Home \in Domains /\ None \notin Domains
    /\ MaxJobs \in Nat \ {0} /\ MaxAttempts \in Nat \ {0}
    /\ MaxOps \in Nat /\ MaxFaults \in Nat

VARIABLES
    cfg,      \* the row: base_domain, whether there are credentials, enabled,
              \* provisioning_status, cert_status, the age that cert_not_after
              \* tells ("none" for NULL), cert_secret_name
    cluster,  \* for each name, the certificate in the Secret and the domain that the
              \* Ingress routes
    jobs,     \* the provision jobs that have not ended
    work,     \* what each worker goroutine is doing, with its copy of the row
    ops,
    faults,
    cut,      \* history: an Enable did not reach its job, or a job ended failed
    moved     \* history: the base domain changed and no handler that ran alone has
              \* provisioned the new one

certificate == <<cfg, cluster, jobs, work, cut, moved>>
budget == <<ops, faults>>

Age == {"none", "fresh", "expiring", "lapsed"}
Jobs == 1..MaxJobs
FreeRow == [status |-> "free", attempts |-> 0]
Idle == [pc |-> "idle", job |-> 0, domain |-> None, creds |-> FALSE, name |-> None,
         alone |-> FALSE]
NoCluster == [tls |-> [n \in Domains |-> [domain |-> None, age |-> "none"]],
              ingress |-> [n \in Domains |-> None]]

\* The row as Configure inserts it.
Configured(d) ==
    [domain |-> d, creds |-> TRUE, enabled |-> FALSE, provisioning |-> "disabled",
     cert |-> "none", age |-> "none", name |-> None]
\* The row, and the cluster, as the first provision leaves them.
Provisioned(d) ==
    [domain |-> d, creds |-> TRUE, enabled |-> TRUE, provisioning |-> "ready",
     cert |-> "issued", age |-> "fresh", name |-> d]
Applied(d) ==
    [tls |-> [NoCluster.tls EXCEPT ![d] = [domain |-> d, age |-> "fresh"]],
     ingress |-> [NoCluster.ingress EXCEPT ![d] = d]]

CertificateInit ==
    /\ \/ cfg = Configured(Home) /\ cluster = NoCluster
       \/ cfg = Provisioned(Home) /\ cluster = Applied(Home)
    /\ jobs = [j \in Jobs |-> FreeRow]
    /\ work = [w \in Workers |-> Idle]
    /\ ops = 0 /\ faults = 0 /\ cut = FALSE /\ moved = FALSE

Request == ops < MaxOps /\ ops' = ops + 1
Faulty == faults < MaxFaults /\ faults' = faults + 1

------------------------------------------------------------------------------
\* The administrators.

EnqueueProvision ==
    \E j \in Jobs : /\ jobs[j].status = "free"
                    /\ jobs' = [jobs EXCEPT ![j].status = "pending"]

\* The upsert writes the ciphertext even when no credentials were given: NULL.
Configure(d, creds) ==
    /\ Request
    /\ cfg' = [cfg EXCEPT !.domain = d, !.creds = creds]
    /\ moved' = (moved \/ d # cfg.domain)
    /\ UNCHANGED <<cluster, jobs, work, cut, faults>>

\* The status is written first; the job may not follow.
Enable ==
    /\ Request
    /\ cfg' = [cfg EXCEPT !.enabled = TRUE, !.provisioning = "provisioning"]
    /\ \/ EnqueueProvision /\ UNCHANGED <<cut, faults>>
       \/ Faulty /\ cut' = TRUE /\ UNCHANGED jobs
    /\ UNCHANGED <<cluster, work, moved>>

Disable ==
    /\ Request
    /\ cfg' = [cfg EXCEPT !.enabled = FALSE, !.provisioning = "disabled"]
    /\ UNCHANGED <<cluster, jobs, work, cut, moved, faults>>

RetryProvision ==
    /\ Request /\ EnqueueProvision
    /\ UNCHANGED <<cfg, cluster, work, cut, moved, faults>>

Administrator ==
    \/ \E d \in Domains, creds \in BOOLEAN : Configure(d, creds)
    \/ Enable \/ Disable \/ RetryProvision

------------------------------------------------------------------------------
\* CheckOnce, every twelve hours on one replica: whether a job is already waiting is
\* not asked.
CheckRenewal ==
    /\ cfg.enabled /\ cfg.provisioning = "ready" /\ cfg.cert = "issued"
    /\ cfg.age \in {"expiring", "lapsed"}
    /\ EnqueueProvision
    /\ UNCHANGED <<cfg, cluster, work, cut, moved, budget>>

------------------------------------------------------------------------------
\* The provision handler.

At(w, pc) == work[w].pc = pc
Go(w, pc) == work' = [work EXCEPT ![w].pc = pc]
Free(w) == work' = [work EXCEPT ![w] = Idle]
Alone(w) == \A v \in Workers \ {w} : At(v, "idle")

\* The claim of the job and the read of the row.
Start(w, j) ==
    /\ At(w, "idle") /\ jobs[j].status = "pending"
    /\ jobs' = [jobs EXCEPT ![j].status = "running", ![j].attempts = @ + 1]
    /\ work' = [v \in Workers |->
                  IF v = w
                  THEN [pc |-> "started", job |-> j, domain |-> cfg.domain,
                        creds |-> cfg.creds, alone |-> Alone(w),
                        name |-> IF cfg.name = None THEN cfg.domain ELSE cfg.name]
                  ELSE [work[v] EXCEPT !.alone = FALSE]]
    /\ UNCHANGED <<cfg, cluster, cut, moved, budget>>

\* issuing or renewing, and cert_not_after becomes NULL.
MarkInProgress(w) ==
    /\ At(w, "started")
    /\ cfg' = [cfg EXCEPT !.cert = "signing", !.age = "none"]
    /\ Go(w, "marked")
    /\ UNCHANGED <<cluster, jobs, cut, moved, budget>>

ApplyTLSSecret(w) ==
    /\ At(w, "marked") /\ work[w].creds
    /\ cluster' = [cluster EXCEPT !.tls[work[w].name] =
                                    [domain |-> work[w].domain, age |-> "fresh"]]
    /\ Go(w, "signed")
    /\ UNCHANGED <<cfg, jobs, cut, moved, budget>>

ApplyWildcardIngress(w) ==
    /\ At(w, "signed")
    /\ cluster' = [cluster EXCEPT !.ingress[work[w].name] = work[w].domain]
    /\ Go(w, "routed")
    /\ UNCHANGED <<cfg, jobs, cut, moved, budget>>

\* A plausible mistake: the new expiry is not written with the status.
RecordUndated(w) ==
    /\ At(w, "routed")
    /\ cfg' = [cfg EXCEPT !.cert = "issued"]
    /\ Go(w, "recorded")
    /\ UNCHANGED <<cluster, jobs, cut, moved, budget>>

RecordIssued(w) ==
    /\ At(w, "routed")
    /\ cfg' = [cfg EXCEPT !.cert = "issued", !.age = "fresh"]
    /\ Go(w, "recorded")
    /\ UNCHANGED <<cluster, jobs, cut, moved, budget>>

RecordReady(w) ==
    /\ At(w, "recorded")
    /\ cfg' = [cfg EXCEPT !.provisioning = "ready", !.name = work[w].name]
    /\ jobs' = [jobs EXCEPT ![work[w].job] = FreeRow]
    /\ moved' = (moved /\ ~(work[w].alone /\ work[w].domain = cfg.domain))
    /\ Free(w)
    /\ UNCHANGED <<cluster, cut, budget>>

\* The job of w is retried, or ends failed with its last attempt.
Retry(w) ==
    LET j == work[w].job
        last == jobs[j].attempts = MaxAttempts
    IN  /\ jobs' = IF last THEN [jobs EXCEPT ![j] = FreeRow]
                   ELSE [jobs EXCEPT ![j].status = "pending"]
        /\ cut' = (cut \/ last)

\* fail(): a step before the record fails, or the row had no credentials.
ProvisionFails(w) ==
    /\ \/ At(w, "marked") /\ ~work[w].creds /\ UNCHANGED faults
       \/ (At(w, "marked") \/ At(w, "signed")) /\ Faulty
    /\ cfg' = [cfg EXCEPT !.cert = "failed", !.age = "none", !.provisioning = "failed",
                          !.name = work[w].name]
    /\ Retry(w) /\ Free(w)
    /\ UNCHANGED <<cluster, moved, ops>>

\* The process dies and the lease lapses, or the database refuses a write.
ProvisionDies(w) ==
    /\ ~At(w, "idle") /\ Faulty
    /\ Retry(w) /\ Free(w)
    /\ UNCHANGED <<cfg, cluster, moved, ops>>

Provision(w) ==
    \/ MarkInProgress(w) \/ ApplyTLSSecret(w) \/ ApplyWildcardIngress(w)
    \/ RecordIssued(w) \/ RecordReady(w) \/ ProvisionFails(w)

------------------------------------------------------------------------------
\* The certificates grow older.  They live for months and a handler for minutes, so
\* none runs across a change of age.
Older(age) == CASE age = "fresh" -> "expiring"
                [] age = "expiring" -> "lapsed"
                [] OTHER -> age
GrowOld ==
    /\ \A w \in Workers : At(w, "idle")
    /\ Request
    /\ cfg' = [cfg EXCEPT !.age = Older(@)]
    /\ cluster' = [cluster EXCEPT !.tls =
                    [n \in Domains |-> [cluster.tls[n] EXCEPT !.age = Older(@)]]]
    /\ UNCHANGED <<jobs, work, cut, moved, faults>>

CertificateNext ==
    \/ Administrator \/ CheckRenewal \/ GrowOld
    \/ \E w \in Workers : Provision(w) \/ ProvisionDies(w) \/ \E j \in Jobs : Start(w, j)

CertificateFairness ==
    /\ WF_certificate(CheckRenewal)
    /\ \A w \in Workers : WF_certificate(Provision(w))
    /\ \A j \in Jobs : SF_certificate(\E w \in Workers : Start(w, j))

------------------------------------------------------------------------------
\* Some Ingress routes the domain, with a certificate for it.
Served(d, aged) ==
    \E n \in Domains : cluster.ingress[n] = d /\ cluster.tls[n].domain = d
                       /\ cluster.tls[n].age \in aged

Row == [domain : Domains, creds : BOOLEAN, enabled : BOOLEAN,
        provisioning : {"disabled", "provisioning", "ready", "failed"},
        cert : {"none", "signing", "issued", "failed"}, age : Age,
        name : Domains \cup {None}]
Cluster == [tls : [Domains -> [domain : Domains \cup {None}, age : Age]],
            ingress : [Domains -> Domains \cup {None}]]
Job == [status : {"free", "pending", "running"}, attempts : 0..MaxAttempts]
Step == {"idle", "started", "marked", "signed", "routed", "recorded"}
Work == [pc : Step, job : 0..MaxJobs, domain : Domains \cup {None}, creds : BOOLEAN,
         name : Domains \cup {None}, alone : BOOLEAN]

CertificateTypeOK ==
    /\ cfg \in Row /\ cluster \in Cluster
    /\ jobs \in [Jobs -> Job] /\ work \in [Workers -> Work]
    /\ ops \in 0..MaxOps /\ faults \in 0..MaxFaults
    /\ cut \in BOOLEAN /\ moved \in BOOLEAN
=============================================================================
