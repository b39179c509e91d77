-------------------------- MODULE WebPublishProofs --------------------------
(***************************************************************************)
(* Proofs about web publishing, for any number of workers, sites, domains,  *)
(* requests and faults.                                                     *)
(***************************************************************************)
EXTENDS WebPublish, FiniteSetTheorems, TLAPS

USE CertificateConstants, SitesAssumption

------------------------------------------------------------------------------
(* Types, one record at a time.                                             *)

LEMMA ClusterTyped ==
    ASSUME NEW c \in Cluster, NEW n \in Domains \cup {None}, NEW d \in Domains \cup {None}
    PROVE  /\ [c EXCEPT !.tls[n] = [domain |-> d, age |-> "fresh"]] \in Cluster
           /\ [c EXCEPT !.ingress[n] = d] \in Cluster
<1>1. [c EXCEPT !.tls[n] = [domain |-> d, age |-> "fresh"]] \in Cluster
      BY DEF Cluster, Age
<1>2. [c EXCEPT !.ingress[n] = d] \in Cluster
      BY DEF Cluster
<1> QED BY <1>1, <1>2

LEMMA WorkTyped ==
    /\ Idle \in Work
    /\ \A k \in Work : [k EXCEPT !.alone = FALSE] \in Work
    /\ \A k \in Work, pc \in Step : [k EXCEPT !.pc = pc] \in Work
<1>1. Idle \in Work
      BY DEF Work, Idle, Step
<1>2. \A k \in Work : [k EXCEPT !.alone = FALSE] \in Work
      BY DEF Work
<1>3. \A k \in Work, pc \in Step : [k EXCEPT !.pc = pc] \in Work
      BY DEF Work
<1> QED BY <1>1, <1>2, <1>3

\* A job that waits has an attempt left.
AttemptLeft == \A j \in Jobs : jobs[j].status \in {"free", "pending"} =>
                                 jobs[j].attempts < MaxAttempts

Typed == CertificateTypeOK /\ AttemptLeft

LEMMA InitTyped == CertificateInit => Typed
<1>1. Configured(Home) \in Row
      BY DEF Configured, Age, Row
<1>2. Provisioned(Home) \in Row
      BY DEF Provisioned, Age, Row
<1>3. NoCluster \in Cluster
      BY DEF NoCluster, Age, Cluster
<1>4. Applied(Home) \in Cluster
  <2>1. [NoCluster.tls EXCEPT ![Home] = [domain |-> Home, age |-> "fresh"]] \in
           [Domains -> [domain : Domains \cup {None}, age : Age]]
        BY DEF NoCluster, Age
  <2>2. [NoCluster.ingress EXCEPT ![Home] = Home] \in [Domains -> Domains \cup {None}]
        BY DEF NoCluster
  <2> QED BY <2>1, <2>2 DEF Applied, Cluster
<1>5. FreeRow \in Job /\ Idle \in Work
      BY DEF FreeRow, Job, Idle, Work, Step
<1>6. CertificateInit => AttemptLeft
      BY DEF CertificateInit, AttemptLeft, FreeRow
<1>7. CertificateInit => cfg \in Row /\ cluster \in Cluster
      BY <1>1, <1>2, <1>3, <1>4 DEF CertificateInit
<1>8. CertificateInit => jobs \in [Jobs -> Job] /\ work \in [Workers -> Work]
      BY <1>5 DEF CertificateInit
<1>9. CertificateInit => ops = 0 /\ faults = 0 /\ cut = FALSE /\ moved = FALSE
      BY ZenonT(20) DEF CertificateInit
<1>10. 0 \in 0..MaxOps /\ 0 \in 0..MaxFaults
      OBVIOUS
<1> QED BY <1>6, <1>7, <1>8, <1>9, <1>10 DEF Typed, CertificateTypeOK

LEMMA EnqueueTyped ==
    ASSUME Typed, EnqueueProvision
    PROVE  jobs' \in [Jobs -> Job] /\ AttemptLeft'
<1> PICK j \in Jobs : /\ jobs[j].status = "free"
                      /\ jobs' = [jobs EXCEPT ![j].status = "pending"]
    BY DEF EnqueueProvision
<1> USE DEF Typed, CertificateTypeOK
<1>1. jobs' \in [Jobs -> Job]
      BY DEF Job
<1>2. AttemptLeft'
      BY DEF AttemptLeft, Job
<1> QED BY <1>1, <1>2

LEMMA AdministratorTyped == Typed /\ (Administrator \/ CheckRenewal) => Typed'
<1> SUFFICES ASSUME Typed, Administrator \/ CheckRenewal
             PROVE  Typed'
    OBVIOUS
<1> USE DEF Typed, CertificateTypeOK
<1>1. ASSUME NEW d \in Domains, NEW creds \in BOOLEAN, Configure(d, creds)
      PROVE  Typed'
  <2>1. cfg' \in Row
        BY <1>1 DEF Configure, Row
  <2> QED BY <1>1, <2>1 DEF Configure, Request, AttemptLeft
<1>2. CASE Enable
  <2>1. cfg' \in Row
        BY <1>2 DEF Enable, Row
  <2>2. jobs' \in [Jobs -> Job] /\ AttemptLeft'
        BY <1>2, EnqueueTyped DEF Enable, AttemptLeft
  <2>3. CASE UNCHANGED <<cut, faults>>
        BY <1>2, <2>1, <2>2, <2>3 DEF Enable, Request
  <2>4. CASE Faulty /\ cut' = TRUE
        BY <1>2, <2>1, <2>2, <2>4 DEF Enable, Request, Faulty
  <2> QED BY <1>2, <2>3, <2>4 DEF Enable
<1>3. CASE Disable
  <2>1. cfg' \in Row
        BY <1>3 DEF Disable, Row
  <2> QED BY <1>3, <2>1 DEF Disable, Request, AttemptLeft
<1>4. CASE RetryProvision
      BY <1>4, EnqueueTyped DEF RetryProvision, Request
<1>5. CASE CheckRenewal
      BY <1>5, EnqueueTyped DEF CheckRenewal, budget
<1> QED BY <1>1, <1>2, <1>3, <1>4, <1>5 DEF Administrator

LEMMA RetryTyped ==
    ASSUME Typed, NEW w \in Workers, Retry(w)
    PROVE  jobs' \in [Jobs -> Job] /\ AttemptLeft' /\ cut' \in BOOLEAN
<1> DEFINE i == work[w].job
<1> USE DEF Typed, CertificateTypeOK
<1>1. \/ jobs' = [jobs EXCEPT ![i] = FreeRow]
      \/ jobs[i].attempts # MaxAttempts /\ jobs' = [jobs EXCEPT ![i].status = "pending"]
      BY DEF Retry
<1> HIDE DEF i
<1>2. jobs' \in [Jobs -> Job]
      BY <1>1 DEF FreeRow, Job
<1>3. AttemptLeft'
      BY <1>1, <1>2 DEF FreeRow, Job, AttemptLeft
<1>4. cut' \in BOOLEAN
      BY DEF Retry
<1> QED BY <1>2, <1>3, <1>4

LEMMA HandlerTyped ==
    ASSUME Typed, NEW w \in Workers,
           Provision(w) \/ ProvisionDies(w) \/ \E j \in Jobs : Start(w, j)
    PROVE  Typed'
<1> USE DEF Typed, CertificateTypeOK
<1>0. /\ work[w].name \in Domains \cup {None} /\ work[w].domain \in Domains \cup {None}
      /\ work[w] \in Work
      BY DEF Work
<1>1. ASSUME NEW j \in Jobs, Start(w, j)
      PROVE  Typed'
  <2>1. jobs' \in [Jobs -> Job]
        BY <1>1 DEF Start, AttemptLeft, Job
  <2>2. AttemptLeft'
        BY <1>1 DEF Start, AttemptLeft, Job
  <2>3. [pc |-> "started", job |-> j, domain |-> cfg.domain,
         creds |-> cfg.creds, alone |-> Alone(w),
         name |-> IF cfg.name = None THEN cfg.domain ELSE cfg.name] \in Work
    <3>1. Alone(w) \in BOOLEAN
          BY DEF Alone
    <3> QED BY <3>1 DEF Work, Row, Jobs, Step
  <2>4. work' \in [Workers -> Work]
        BY <1>1, <2>3, WorkTyped DEF Start
  <2> QED BY <1>1, <2>1, <2>2, <2>4 DEF Start, budget
<1>2. ASSUME NEW pc \in Step, Go(w, pc)
      PROVE  work' \in [Workers -> Work]
      BY <1>2, WorkTyped DEF Go
<1>3. ASSUME Free(w)
      PROVE  work' \in [Workers -> Work]
      BY <1>3, WorkTyped DEF Free
<1>4. CASE MarkInProgress(w)
  <2>1. cfg' \in Row
        BY <1>4 DEF MarkInProgress, Row, Age
  <2> QED BY <1>2, <1>4, <2>1 DEF MarkInProgress, budget, Step, AttemptLeft
<1>5. CASE ApplyTLSSecret(w)
      BY <1>0, <1>2, <1>5, ClusterTyped DEF ApplyTLSSecret, budget, Step, AttemptLeft
<1>6. CASE ApplyWildcardIngress(w)
      BY <1>0, <1>2, <1>6, ClusterTyped DEF ApplyWildcardIngress, budget, Step, AttemptLeft
<1>7. CASE RecordIssued(w)
  <2>1. cfg' \in Row
        BY <1>7 DEF RecordIssued, Row, Age
  <2> QED BY <1>2, <1>7, <2>1 DEF RecordIssued, budget, Step, AttemptLeft
<1>8. CASE RecordReady(w)
  <2>0. FreeRow \in Job
        BY DEF FreeRow, Job
  <2>1. jobs' \in [Jobs -> Job]
        BY <1>8, <2>0 DEF RecordReady
  <2>2. AttemptLeft'
        BY <1>8 DEF RecordReady, FreeRow, Job, AttemptLeft
  <2>3. cfg' \in Row
        BY <1>0, <1>8 DEF RecordReady, Row
  <2>4. moved' \in BOOLEAN
        BY <1>8 DEF RecordReady
  <2> QED BY <1>3, <1>8, <2>1, <2>2, <2>3, <2>4 DEF RecordReady, budget
<1>9. CASE ProvisionFails(w)
  <2>1. cfg' \in Row
        BY <1>0, <1>9 DEF ProvisionFails, Row, Age
  <2> QED BY <1>3, <1>9, <2>1, RetryTyped DEF ProvisionFails, Faulty
<1>10. CASE ProvisionDies(w)
      BY <1>3, <1>10, RetryTyped DEF ProvisionDies, Faulty
<1> QED BY <1>1, <1>4, <1>5, <1>6, <1>7, <1>8, <1>9, <1>10 DEF Provision

LEMMA CertificateTyped == Typed /\ CertificateNext => Typed'
<1> SUFFICES ASSUME Typed, CertificateNext
             PROVE  Typed'
    OBVIOUS
<1>1. CASE GrowOld
  <2> USE DEF Typed, CertificateTypeOK
  <2>1. \A age \in Age : Older(age) \in Age
        BY DEF Older, Age
  <2>2. cfg' \in Row
        BY <1>1, <2>1 DEF GrowOld, Row
  <2>3. cluster' \in Cluster
    <3>1. \A n \in Domains : [cluster.tls[n] EXCEPT !.age = Older(@)] \in
                               [domain : Domains \cup {None}, age : Age]
          BY <2>1 DEF Cluster
    <3>2. [n \in Domains |-> [cluster.tls[n] EXCEPT !.age = Older(@)]] \in
             [Domains -> [domain : Domains \cup {None}, age : Age]]
          BY <3>1
    <3>3. cluster' = [cluster EXCEPT !.tls =
                        [n \in Domains |-> [cluster.tls[n] EXCEPT !.age = Older(@)]]]
          BY <1>1 DEF GrowOld
    <3> QED BY <3>2, <3>3 DEF Cluster
  <2> QED BY <1>1, <2>2, <2>3 DEF GrowOld, Request, AttemptLeft
<1> QED BY <1>1, AdministratorTyped, HandlerTyped DEF CertificateNext

------------------------------------------------------------------------------
(* The sites.  What is about to be deleted belongs to a site that has ended *)
(* or that was renewed afterwards.                                          *)

SitesTyped == /\ site \in [Sites -> Site] /\ peak \in Nat
              /\ clearing \in SUBSET Sites /\ registry \in SUBSET Sites
              /\ revived \in SUBSET Sites /\ spilt \in SUBSET Sites
              /\ reaper \in [listed : SUBSET Sites, cur : SUBSET Sites]

DeletesEnded == \A s \in clearing \cup reaper.cur :
                  site[s].state \in Ended \/ (site[s].state = "active" /\ s \in revived)

Counted == (Active \cup Uploading) \ revived

Kept == SitesTyped /\ DeletesEnded /\ ActiveHasContent

SiteStep ==
    \/ \E s \in Sites : \/ CreatePublishedSite(s) \/ PublishFails(s)
                        \/ Expires(s) \/ Takedown(s) \/ Renew(s) \/ TakedownDeletes(s)
    \/ Reap \/ ReaperDies \/ SyncOnce \/ SiteServerRestarts

LEMMA SitesFinite ==
    /\ IsFiniteSet(Active) /\ Cardinality(Active) \in Nat
    /\ IsFiniteSet(Uploading) /\ Cardinality(Uploading) \in Nat
    /\ IsFiniteSet(Counted) /\ Cardinality(Counted) \in Nat
<1>1. Active \subseteq Sites /\ Uploading \subseteq Sites /\ Counted \subseteq Sites
      BY DEF Active, Uploading, Counted
<1> QED BY <1>1, FS_Subset, FS_CardinalityType

\* Beginning an upload counts one site more, when there was room for it.
LEMMA PublishKept ==
    ASSUME Typed, Kept, NEW s \in Sites, Publish(s)
    PROVE  Kept' /\ (SiteOvershootBounded => SiteOvershootBounded')
<1> USE DEF Kept, SitesTyped
<1>1. site' \in [Sites -> Site]
  <2>1. cfg.domain \in Domains
        BY DEF Typed, CertificateTypeOK, Row
  <2> QED BY <2>1 DEF Publish, BeginUpload, Site
<1>2. peak' \in Nat /\ peak' >= Cardinality(Uploading) + 1 /\ peak' >= peak
      BY SitesFinite DEF Publish, BeginUpload
<1>3. SitesTyped'
      BY <1>1, <1>2 DEF Publish, BeginUpload
<1>4. \A t \in Sites \ {s} : site'[t] = site[t]
      BY DEF Publish, BeginUpload
<1>5. site[s].state = "free" /\ site'[s].state = "uploading"
      BY DEF Publish, BeginUpload
<1>6. DeletesEnded'
      BY <1>4, <1>5 DEF Publish, BeginUpload, DeletesEnded, Ended
<1>7. ActiveHasContent'
      BY <1>4, <1>5 DEF Publish, BeginUpload, ActiveHasContent, Active
<1>8. Counted' \subseteq Active \cup (Uploading \cup {s})
      BY <1>4, <1>5 DEF Publish, BeginUpload, Counted, Active, Uploading
<1>9. Cardinality(Counted') < MaxSites + peak'
  <2>1. /\ IsFiniteSet(Uploading \cup {s})
        /\ Cardinality(Uploading \cup {s}) = Cardinality(Uploading) + 1
        BY <1>5, SitesFinite, FS_AddElement DEF Uploading
  <2>2. /\ IsFiniteSet(Active \cup (Uploading \cup {s}))
        /\ Cardinality(Active \cup (Uploading \cup {s})) <=
             Cardinality(Active) + Cardinality(Uploading) + 1
    <3>1. /\ IsFiniteSet(Active \cup (Uploading \cup {s}))
          /\ Cardinality(Active \cup (Uploading \cup {s})) =
               Cardinality(Active) + Cardinality(Uploading \cup {s})
               - Cardinality(Active \cap (Uploading \cup {s}))
          BY <2>1, SitesFinite, FS_Union
    <3>2. Cardinality(Active \cap (Uploading \cup {s})) \in Nat
          BY <2>1, SitesFinite, FS_Intersection, FS_CardinalityType
    <3> QED BY <2>1, <3>1, <3>2, SitesFinite
  <2>3. /\ Cardinality(Counted') \in Nat
        /\ Cardinality(Counted') <= Cardinality(Active \cup (Uploading \cup {s}))
        BY <1>8, <2>2, FS_Subset, FS_CardinalityType
  <2>4. Cardinality(Active) < MaxSites
        BY DEF Publish
  <2> QED BY <1>2, <2>2, <2>3, <2>4, SitesFinite, FS_CardinalityType
<1> QED BY <1>3, <1>6, <1>7, <1>9 DEF SiteOvershootBounded, Counted

\* A step that touches one site, when it is kept right about that site.
LEMMA OneSite ==
    ASSUME Kept, SitesTyped', NEW s \in Sites,
           \A t \in Sites \ {s} : site'[t] = site[t],
           revived \subseteq revived', revived' \subseteq revived \cup {s},
           clearing' \cup reaper'.cur \subseteq clearing \cup reaper.cur \cup {s},
           s \in clearing' \cup reaper'.cur =>
              site'[s].state \in Ended \/ (site'[s].state = "active" /\ s \in revived'),
           site'[s].state = "active" => site'[s].objects = "all" \/ s \in revived',
           site'[s].state \in {"active", "uploading"} =>
              (site[s].state \in {"active", "uploading"} /\ s \notin revived) \/ s \in revived'
    PROVE  Kept' /\ Counted' \subseteq Counted
<1>1. DeletesEnded'
  <2> SUFFICES ASSUME NEW t \in clearing' \cup reaper'.cur
               PROVE  site'[t].state \in Ended
                      \/ (site'[t].state = "active" /\ t \in revived')
      BY DEF DeletesEnded
  <2>1. CASE t = s
        BY <2>1
  <2>2. CASE t # s
    <3>1. t \in clearing \cup reaper.cur /\ t \in Sites
          BY <2>2 DEF Kept, SitesTyped
    <3> QED BY <2>2, <3>1 DEF Kept, DeletesEnded
  <2> QED BY <2>1, <2>2
<1>2. ActiveHasContent'
      BY DEF Kept, ActiveHasContent, Active
<1>3. Counted' \subseteq Counted
  <2> SUFFICES ASSUME NEW t \in Counted'
               PROVE  t \in Counted
      OBVIOUS
  <2>1. /\ t \in Sites /\ t \notin revived'
        /\ site'[t].state \in {"active", "uploading"}
        BY DEF Counted, Active, Uploading
  <2>2. t \notin revived /\ site[t].state \in {"active", "uploading"}
        BY <2>1
  <2> QED BY <2>1, <2>2 DEF Counted, Active, Uploading
<1> QED BY <1>1, <1>2, <1>3 DEF Kept

\* What a step of a site leaves alone, and that it counts no site more.
LEMMA SiteStepKept ==
    ASSUME Kept, SiteStep
    PROVE  Kept' /\ Counted' \subseteq Counted /\ UNCHANGED <<peak, certificate>>
<1>0. SitesTyped /\ DeletesEnded /\ ActiveHasContent
      BY DEF Kept
<1>1. ASSUME NEW s \in Sites, CreatePublishedSite(s)
      PROVE  Kept' /\ Counted' \subseteq Counted
  <2>1. s \notin clearing \cup reaper.cur
        BY <1>0, <1>1 DEF CreatePublishedSite, DeletesEnded, Ended
  <2>2. SitesTyped'
    <3>1. [site EXCEPT ![s].state = "active"] \in [Sites -> Site]
          BY <1>0 DEF SitesTyped, Site
    <3>2. [[site EXCEPT ![s].state = "active"] EXCEPT ![s].objects = "all"] \in [Sites -> Site]
          BY <3>1 DEF Site
    <3>3. site' \in [Sites -> Site]
          BY <1>0, <1>1, <3>2 DEF CreatePublishedSite, SitesTyped
    <3> QED BY <1>0, <1>1, <3>3 DEF CreatePublishedSite, SitesTyped
  <2>3. /\ \A t \in Sites \ {s} : site'[t] = site[t]
        /\ site[s].state = "uploading"
        /\ site'[s].state = "active" /\ site'[s].objects = "all"
        /\ UNCHANGED <<clearing, reaper, revived>>
        BY <1>0, <1>1 DEF CreatePublishedSite, SitesTyped, Site
  <2> QED BY <2>1, <2>2, <2>3, OneSite
<1>2. ASSUME NEW s \in Sites, PublishFails(s)
      PROVE  Kept' /\ Counted' \subseteq Counted
  <2>1. s \notin clearing \cup reaper.cur
        BY <1>0, <1>2 DEF PublishFails, DeletesEnded, Ended
  <2>2. SitesTyped'
        BY <1>0, <1>2 DEF PublishFails, SetState, SitesTyped, Site
  <2>3. /\ \A t \in Sites \ {s} : site'[t] = site[t]
        /\ site'[s].state = "abandoned"
        /\ UNCHANGED <<clearing, reaper, revived>>
        BY <1>0, <1>2 DEF PublishFails, SetState, SitesTyped, Site
  <2> QED BY <2>1, <2>2, <2>3, OneSite
<1>3. ASSUME NEW s \in Sites, Expires(s)
      PROVE  Kept' /\ Counted' \subseteq Counted
  <2>1. SitesTyped'
        BY <1>0, <1>3 DEF Expires, SitesTyped, Site
  <2>2. /\ \A t \in Sites \ {s} : site'[t] = site[t]
        /\ site'[s].state = site[s].state /\ site'[s].objects = site[s].objects
        /\ site[s].state = "active"
        /\ UNCHANGED <<clearing, reaper, revived>>
        BY <1>0, <1>3 DEF Expires, SitesTyped, Site
  <2>3. /\ s \in clearing \cup reaper.cur => s \in revived
        /\ site[s].objects = "all" \/ s \in revived
        BY <1>0, <2>2 DEF DeletesEnded, Ended, ActiveHasContent, Active
  <2> QED BY <2>1, <2>2, <2>3, OneSite
<1>4. ASSUME NEW s \in Sites, Takedown(s)
      PROVE  Kept' /\ Counted' \subseteq Counted
  <2>1. SitesTyped'
        BY <1>0, <1>4 DEF Takedown, SetState, SitesTyped, Site
  <2>2. /\ \A t \in Sites \ {s} : site'[t] = site[t]
        /\ site'[s].state = "disabled"
        /\ clearing' = clearing \cup {s} /\ UNCHANGED <<reaper, revived>>
        BY <1>0, <1>4 DEF Takedown, SetState, SitesTyped, Site
  <2>3. clearing' \cup reaper'.cur \subseteq clearing \cup reaper.cur \cup {s}
        BY <2>2
  <2>4. site'[s].state \in Ended /\ site'[s].state \notin {"active", "uploading"}
        BY <2>2 DEF Ended
  <2>5. revived \subseteq revived' /\ revived' \subseteq revived \cup {s}
        BY <2>2
  <2>6. \A t \in Sites \ {s} : site'[t] = site[t]
        BY <2>2
  <2> QED BY <2>1, <2>3, <2>4, <2>5, <2>6, OneSite
<1>5. ASSUME NEW s \in Sites, Renew(s)
      PROVE  Kept' /\ Counted' \subseteq Counted
  <2>1. SitesTyped'
    <3>1. [site EXCEPT ![s].state = "active"] \in [Sites -> Site]
          BY <1>0 DEF SitesTyped, Site
    <3>2. [[site EXCEPT ![s].state = "active"] EXCEPT ![s].due = FALSE] \in [Sites -> Site]
          BY <3>1 DEF Site
    <3>3. site' \in [Sites -> Site]
          BY <1>0, <1>5, <3>2 DEF Renew, SitesTyped
    <3> QED BY <1>0, <1>5, <3>3 DEF Renew, SitesTyped
  <2>2. /\ \A t \in Sites \ {s} : site'[t] = site[t]
        /\ site'[s].state = "active" /\ site'[s].objects = site[s].objects
        /\ UNCHANGED <<clearing, reaper>>
        BY <1>0, <1>5 DEF Renew, SitesTyped, Site
  <2>3. CASE site[s].state = "active"
    <3>1. revived' = revived
          BY <1>5, <2>3 DEF Renew
    <3>2. /\ s \in clearing \cup reaper.cur => s \in revived
          /\ site[s].objects = "all" \/ s \in revived
          BY <1>0, <2>3 DEF DeletesEnded, Ended, ActiveHasContent, Active
    <3> QED BY <2>1, <2>2, <2>3, <3>1, <3>2, OneSite
  <2>4. CASE site[s].state # "active"
    <3>1. revived' = revived \cup {s}
          BY <1>5, <2>4 DEF Renew
    <3> QED BY <2>1, <2>2, <3>1, OneSite
  <2> QED BY <2>3, <2>4
<1>6. ASSUME NEW s \in Sites, Deleted(s),
             site[s].state \in Ended \/ (site[s].state = "active" /\ s \in revived)
      PROVE  /\ site' \in [Sites -> Site] /\ spilt' \in SUBSET Sites
             /\ \A t \in Sites : /\ site'[t].state = site[t].state
                                 /\ t # s => site'[t] = site[t]
      BY <1>0, <1>6 DEF Deleted, Empty, SitesTyped, Site
<1>7. ASSUME NEW s \in Sites, TakedownDeletes(s)
      PROVE  Kept' /\ Counted' \subseteq Counted
  <2>1. site[s].state \in Ended \/ (site[s].state = "active" /\ s \in revived)
        BY <1>0, <1>7 DEF TakedownDeletes, DeletesEnded
  <2>2. SitesTyped'
        BY <1>0, <1>6, <1>7, <2>1 DEF TakedownDeletes, SitesTyped
  <2>3. /\ \A t \in Sites \ {s} : site'[t] = site[t]
        /\ site'[s].state = site[s].state
        /\ clearing' = clearing \ {s} /\ UNCHANGED <<reaper, revived>>
        BY <1>6, <1>7, <2>1 DEF TakedownDeletes
  <2> QED BY <2>1, <2>2, <2>3, OneSite DEF Ended
<1>8. ASSUME NEW s \in Sites, ReapDelete(s)
      PROVE  Kept' /\ Counted' \subseteq Counted
  <2>1. site[s].state \in Ended \/ (site[s].state = "active" /\ s \in revived)
        BY <1>0, <1>8 DEF ReapDelete, DeletesEnded
  <2>2. SitesTyped' /\ reaper'.cur = {}
        BY <1>0, <1>6, <1>8, <2>1 DEF ReapDelete, SitesTyped
  <2>3. /\ \A t \in Sites \ {s} : site'[t] = site[t]
        /\ site'[s].state = site[s].state
        /\ UNCHANGED <<clearing, revived>>
        BY <1>6, <1>8, <2>1 DEF ReapDelete
  <2> QED BY <2>1, <2>2, <2>3, OneSite DEF Ended
<1>9. ASSUME NEW s \in Sites, ReapExpire(s)
      PROVE  Kept' /\ Counted' \subseteq Counted
  <2>1. CASE UNCHANGED site
    <3>1. SitesTyped' /\ reaper'.cur \subseteq reaper.cur \cup {s}
          BY <1>0, <1>9, <2>1 DEF ReapExpire, SetState, SitesTyped
    <3>2. UNCHANGED <<site, revived, clearing>>
          BY <1>9, <2>1 DEF ReapExpire
    <3>3. reaper'.cur \subseteq reaper.cur \/ site[s].state \in Ended
      <4>1. CASE SetState(s, "expired")
        <5>1. site'[s].state = "expired"
              BY <1>0, <4>1 DEF SetState, SitesTyped, Site
        <5> QED BY <3>2, <5>1 DEF Ended
      <4>2. CASE reaper' = [reaper EXCEPT !.listed = @ \ {s}]
            BY <1>0, <4>2 DEF SitesTyped
      <4> QED BY <1>9, <4>1, <4>2 DEF ReapExpire
    <3>4. DeletesEnded'
      <4> SUFFICES ASSUME NEW t \in clearing \cup reaper'.cur
                   PROVE  site[t].state \in Ended
                          \/ (site[t].state = "active" /\ t \in revived)
          BY <3>2 DEF DeletesEnded
      <4>1. t \in clearing \cup reaper.cur \/ site[t].state \in Ended
            BY <3>1, <3>3
      <4>2. CASE t \in clearing \cup reaper.cur
            BY <1>0, <4>2, Zenon DEF DeletesEnded
      <4> QED BY <4>1, <4>2
    <3> QED BY <1>0, <3>1, <3>2, <3>4
            DEF Kept, ActiveHasContent, Active, Uploading, Counted
  <2>2. CASE /\ SetState(s, "expired")
             /\ reaper' = [listed |-> reaper.listed \ {s}, cur |-> {s}]
    <3>1. SitesTyped'
          BY <1>0, <1>9, <2>2 DEF ReapExpire, SetState, SitesTyped, Site
    <3>2. /\ \A t \in Sites \ {s} : site'[t] = site[t]
          /\ site'[s].state = "expired" /\ reaper'.cur = {s}
          /\ UNCHANGED <<clearing, revived>>
          BY <1>0, <1>9, <2>2 DEF ReapExpire, SetState, SitesTyped, Site
    <3>3. clearing' \cup reaper'.cur \subseteq clearing \cup reaper.cur \cup {s}
          BY <3>2
    <3>4. site'[s].state \in Ended /\ site'[s].state \notin {"active", "uploading"}
          BY <3>2 DEF Ended
    <3>5. revived \subseteq revived' /\ revived' \subseteq revived \cup {s}
          BY <3>2
    <3>6. \A t \in Sites \ {s} : site'[t] = site[t]
          BY <3>2
    <3> QED BY <3>1, <3>3, <3>4, <3>5, <3>6, OneSite
  <2> QED BY <1>9, <2>1, <2>2 DEF ReapExpire
<1>10. ASSUME ReapList \/ ReaperDies \/ SyncOnce \/ SiteServerRestarts
       PROVE  Kept' /\ Counted' \subseteq Counted
  <2>1. UNCHANGED <<site, revived, peak, clearing>>
        BY <1>10 DEF ReapList, ReaperDies, SyncOnce, SiteServerRestarts
  <2>2. SitesTyped' /\ reaper'.cur \subseteq reaper.cur
    <3>1. CASE ReapList
          BY <1>0, <3>1 DEF ReapList, SitesTyped
    <3>2. CASE ReaperDies
          BY <1>0, <3>2 DEF ReaperDies, SitesTyped
    <3>3. CASE SyncOnce \/ SiteServerRestarts
          BY <1>0, <3>3 DEF SyncOnce, SiteServerRestarts, SitesTyped, Active
    <3> QED BY <1>10, <3>1, <3>2, <3>3
  <2>3. DeletesEnded'
        BY <1>0, <2>1, <2>2 DEF DeletesEnded
  <2>4. ActiveHasContent' /\ Counted' = Counted
        BY <1>0, <2>1 DEF ActiveHasContent, Active, Uploading, Counted
  <2> QED BY <2>2, <2>3, <2>4 DEF Kept
<1>11. UNCHANGED <<peak, certificate>>
      BY DEF SiteStep, CreatePublishedSite, PublishFails, Expires, Takedown, Renew,
             TakedownDeletes, Reap, ReapList, ReapExpire, ReapDelete, ReaperDies,
             SyncOnce, SiteServerRestarts
<1> QED BY <1>1, <1>2, <1>3, <1>4, <1>5, <1>7, <1>8, <1>9, <1>10, <1>11 DEF SiteStep, Reap

\* What a step takes from the budget.
LEMMA BudgetTyped ==
    ASSUME Typed, SiteStep \/ \E s \in Sites : Publish(s)
    PROVE  ops' \in 0..MaxOps /\ faults' \in 0..MaxFaults
<1>1. /\ UNCHANGED ops \/ Request
      /\ UNCHANGED faults \/ Faulty
      BY DEF SiteStep, CreatePublishedSite, PublishFails, Expires, Takedown, Renew,
             TakedownDeletes, Deleted, Reap, ReapList, ReapExpire, ReapDelete, ReaperDies,
             SyncOnce, SiteServerRestarts, Publish, BeginUpload, budget
<1> QED BY <1>1 DEF Request, Faulty, Typed, CertificateTypeOK

LEMMA InitKept == Init => Typed /\ Kept /\ SiteOvershootBounded
<1> SUFFICES ASSUME Init
             PROVE  Typed /\ Kept /\ SiteOvershootBounded
    OBVIOUS
<1>1. Typed
      BY InitTyped DEF Init
<1>2. NoSite \in Site
      BY DEF NoSite, Site
<1>3. SitesTyped
      BY <1>2 DEF Init, SitesTyped
<1>4. \A s \in Sites : site[s].state = "free"
      BY DEF Init, NoSite
<1>5. Active = {} /\ Counted = {}
      BY <1>4 DEF Active, Uploading, Counted
<1>6. DeletesEnded /\ ActiveHasContent
      BY <1>5 DEF Init, DeletesEnded, ActiveHasContent
<1>7. SiteOvershootBounded
  <2>1. Cardinality(Counted) = 0 /\ peak = 0
        BY <1>5, FS_EmptySet DEF Init
  <2> QED BY <2>1 DEF SiteOvershootBounded, Counted
<1> QED BY <1>1, <1>3, <1>6, <1>7 DEF Kept

\* Every step keeps the types, what is about to be deleted, and the quota.
LEMMA StepKept ==
    ASSUME Typed, Kept, [Next]_vars
    PROVE  Typed' /\ Kept' /\ (SiteOvershootBounded => SiteOvershootBounded')
<1>1. CASE CertificateNext /\ UNCHANGED sites
  <2>1. Typed'
        BY <1>1, CertificateTyped
  <2>2. Kept' /\ (SiteOvershootBounded => SiteOvershootBounded')
        BY <1>1 DEF sites, Kept, SitesTyped, DeletesEnded, ActiveHasContent,
                    SiteOvershootBounded, Active, Uploading
  <2> QED BY <2>1, <2>2
<1>2. ASSUME NEW s \in Sites, Publish(s)
      PROVE  Typed' /\ Kept' /\ (SiteOvershootBounded => SiteOvershootBounded')
  <2>1. Typed'
    <3>1. UNCHANGED certificate
          BY <1>2 DEF Publish, BeginUpload
    <3> QED BY <1>2, <3>1, BudgetTyped DEF certificate, Typed, CertificateTypeOK, AttemptLeft
  <2> QED BY <1>2, <2>1, PublishKept
<1>3. CASE SiteStep
  <2>1. Kept' /\ Counted' \subseteq Counted /\ UNCHANGED <<peak, certificate>>
        BY <1>3, SiteStepKept
  <2>2. Typed'
        BY <1>3, <2>1, BudgetTyped DEF certificate, Typed, CertificateTypeOK, AttemptLeft
  <2>3. SiteOvershootBounded => SiteOvershootBounded'
    <3>1. Cardinality(Counted') <= Cardinality(Counted) /\ Cardinality(Counted') \in Nat
          BY <2>1, SitesFinite, FS_Subset, FS_CardinalityType
    <3> QED BY <2>1, <3>1, SitesFinite DEF SiteOvershootBounded, Counted, Kept, SitesTyped
  <2> QED BY <2>1, <2>2, <2>3
<1>4. CASE UNCHANGED vars
      BY <1>4 DEF vars, certificate, budget, sites, Typed, CertificateTypeOK, AttemptLeft,
                  Kept, SitesTyped, DeletesEnded, ActiveHasContent, SiteOvershootBounded,
                  Active, Uploading
<1> QED BY <1>1, <1>2, <1>3, <1>4 DEF Next, SiteStep

\* Every variable keeps its type (the rows, the Secret and the Ingress, the jobs, the
\* handlers' copies, the reaper and the routing table).
THEOREM TypeCorrect == Spec => []TypeOK
<1>1. Typed /\ Kept => TypeOK
      BY DEF Typed, Kept, SitesTyped, TypeOK
<1> QED BY <1>1, InitKept, StepKept, PTL DEF Spec

\* Publish: however many requests pass the quota together, no more sites exceed
\* max_sites than ran beside one another, renewed sites aside.
THEOREM QuotaBounded == Spec => []SiteOvershootBounded
<1> QED BY InitKept, StepKept, PTL DEF Spec

\* Takedown, SiteReaper.ReapOnce, Renew: no active site has lost objects, unless it
\* was renewed after it had ended.
THEOREM ContentKept == Spec => []ActiveHasContent
<1>1. Kept => ActiveHasContent
      BY DEF Kept
<1> QED BY <1>1, InitKept, StepKept, PTL DEF Spec

------------------------------------------------------------------------------
(* Reachability.  A handler that ran alone, or with the domain the others   *)
(* have, finds in the cluster what it has applied.                          *)

RightAt(w) ==
    ~At(w, "idle") =>
        /\ work[w].name \in Domains /\ work[w].domain \in Domains
        /\ work[w].alone => Alone(w)
        /\ ~moved => work[w].domain = cfg.domain
        /\ work[w].alone \/ ~moved =>
             /\ work[w].pc \in {"signed", "routed", "recorded"} =>
                  cluster.tls[work[w].name].domain = work[w].domain
             /\ work[w].pc \in {"routed", "recorded"} =>
                  cluster.ingress[work[w].name] = work[w].domain

HandlersRight == \A w \in Workers : RightAt(w)

Wanted == cfg.provisioning = "ready" \/ \E s \in Sites : site[s].domain = cfg.domain
DomainServed == ~moved /\ Wanted => Served(cfg.domain, Age)

\* A step that leaves the cluster and the handlers alone.
LEMMA QuietStep ==
    ASSUME HandlersRight, DomainServed, UNCHANGED <<cluster, work>>,
           ~moved' => /\ ~moved /\ cfg'.domain = cfg.domain
                      /\ Wanted' => Wanted
    PROVE  HandlersRight' /\ DomainServed'
<1>1. HandlersRight'
  <2> SUFFICES ASSUME NEW w \in Workers
               PROVE  RightAt(w)'
      BY DEF HandlersRight
  <2>1. RightAt(w)
        BY DEF HandlersRight
  <2> QED BY <2>1 DEF RightAt, At, Alone
<1>2. DomainServed'
      BY DEF DomainServed, Served
<1> QED BY <1>1, <1>2

LEMMA AdministratorQuiet ==
    ASSUME Typed, HandlersRight, DomainServed, Administrator \/ CheckRenewal, UNCHANGED site
    PROVE  HandlersRight' /\ DomainServed'
<1>1. UNCHANGED <<cluster, work>>
      BY DEF Administrator, Configure, Enable, Disable, RetryProvision, CheckRenewal
<1> DEFINE Settled == /\ ~moved /\ cfg'.domain = cfg.domain
                      /\ cfg'.provisioning = "ready" => cfg.provisioning = "ready"
<1>2. ~moved' => Settled
  <2> USE DEF Typed, CertificateTypeOK, Row
  <2>1. ASSUME NEW d \in Domains, NEW creds \in BOOLEAN, Configure(d, creds)
        PROVE  ~moved' => Settled
        BY <2>1 DEF Configure
  <2>2. CASE Enable
        BY <2>2 DEF Enable
  <2>3. CASE Disable
        BY <2>3 DEF Disable
  <2>4. CASE RetryProvision \/ CheckRenewal
        BY <2>4 DEF RetryProvision, CheckRenewal
  <2> QED BY <2>1, <2>2, <2>3, <2>4 DEF Administrator
<1>3. ~moved' => (Wanted' => Wanted)
      BY <1>2 DEF Wanted
<1> QED BY <1>1, <1>2, <1>3, QuietStep

LEMMA StartRight ==
    ASSUME Typed, HandlersRight, DomainServed, UNCHANGED site,
           NEW w \in Workers, NEW j \in Jobs, Start(w, j)
    PROVE  HandlersRight' /\ DomainServed'
<1>1. work \in [Workers -> Work] /\ cfg \in Row
      BY DEF Typed, CertificateTypeOK
<1>2. UNCHANGED <<cfg, cluster, moved>> /\ At(w, "idle")
      BY DEF Start
<1>3. DomainServed'
      BY <1>2 DEF DomainServed, Wanted, Served
<1>4. RightAt(w)'
  <2>1. /\ work'[w].pc = "started" /\ work'[w].domain = cfg.domain
        /\ work'[w].name = (IF cfg.name = None THEN cfg.domain ELSE cfg.name)
        /\ work'[w].alone = Alone(w)
        BY DEF Start
  <2>2. work'[w].name \in Domains /\ work'[w].domain \in Domains
        BY <1>1, <2>1 DEF Row
  <2>3. Alone(w) => Alone(w)'
    <3>1. \A v \in Workers \ {w} : work'[v].pc = work[v].pc
          BY <1>1 DEF Start, Work
    <3> QED BY <3>1 DEF Alone, At
  <2> QED BY <1>2, <2>1, <2>2, <2>3 DEF RightAt, At
<1>5. ASSUME NEW v \in Workers \ {w}
      PROVE  RightAt(v)'
  <2>1. work'[v] = [work[v] EXCEPT !.alone = FALSE] /\ work[v] \in Work
        BY <1>1 DEF Start
  <2>2. /\ work'[v].pc = work[v].pc /\ work'[v].domain = work[v].domain
        /\ work'[v].name = work[v].name /\ work'[v].alone = FALSE
        BY <2>1 DEF Work
  <2>3. RightAt(v)
        BY DEF HandlersRight
  <2> QED BY <1>2, <2>2, <2>3 DEF RightAt, At
<1> QED BY <1>3, <1>4, <1>5 DEF HandlersRight

\* A step of one handler that moves its pc and perhaps applies something.
LEMMA HandlerMoves ==
    ASSUME Typed, HandlersRight, NEW w \in Workers, NEW pc \in Step, ~At(w, "idle"),
           pc # "idle", Go(w, pc), moved' = moved, cfg'.domain = cfg.domain
    PROVE  /\ \A v \in Workers \ {w} : work'[v] = work[v]
           /\ /\ work'[w].pc = pc /\ work'[w].domain = work[w].domain
              /\ work'[w].name = work[w].name /\ work'[w].alone = work[w].alone
           /\ \A v \in Workers : Alone(v) => Alone(v)'
<1>1. work \in [Workers -> Work]
      BY DEF Typed, CertificateTypeOK
<1>2. \A v \in Workers \ {w} : work'[v] = work[v]
      BY <1>1 DEF Go
<1>3. /\ work'[w].pc = pc /\ work'[w].domain = work[w].domain
      /\ work'[w].name = work[w].name /\ work'[w].alone = work[w].alone
      BY <1>1 DEF Go, Work
<1>4. \A v \in Workers : Alone(v) => Alone(v)'
      BY <1>2 DEF Alone, At
<1> QED BY <1>2, <1>3, <1>4

\* The statements that write the row.
LEMMA RecordRight ==
    ASSUME Typed, HandlersRight, DomainServed, UNCHANGED site,
           NEW w \in Workers, MarkInProgress(w) \/ RecordIssued(w)
    PROVE  HandlersRight' /\ DomainServed'
<1>1. /\ UNCHANGED <<cluster, moved>> /\ ~At(w, "idle")
      /\ cfg'.domain = cfg.domain /\ cfg'.provisioning = cfg.provisioning
      BY DEF Typed, CertificateTypeOK, Row, MarkInProgress, RecordIssued, At
<1>2. \/ At(w, "started") /\ Go(w, "marked")
      \/ At(w, "routed") /\ Go(w, "recorded")
      BY DEF MarkInProgress, RecordIssued
<1>3. /\ \A v \in Workers \ {w} : work'[v] = work[v]
      /\ /\ work'[w].pc = (IF At(w, "routed") THEN "recorded" ELSE "marked")
         /\ work'[w].domain = work[w].domain
         /\ work'[w].name = work[w].name /\ work'[w].alone = work[w].alone
      /\ \A v \in Workers : Alone(v) => Alone(v)'
      BY <1>1, <1>2, HandlerMoves DEF At, Step
<1>4. DomainServed'
      BY <1>1 DEF DomainServed, Wanted, Served
<1>5. RightAt(w)'
  <2>1. RightAt(w)
        BY DEF HandlersRight
  <2> QED BY <1>1, <1>2, <1>3, <2>1 DEF RightAt, At
<1>6. ASSUME NEW v \in Workers \ {w}
      PROVE  RightAt(v)'
  <2>1. RightAt(v)
        BY DEF HandlersRight
  <2> QED BY <1>1, <1>3, <2>1 DEF RightAt, At
<1> QED BY <1>4, <1>5, <1>6 DEF HandlersRight

\* What the handler applies lies under its own name, and the others' too while the
\* domain has not moved.
LEMMA ApplyRight ==
    ASSUME Typed, HandlersRight, DomainServed, UNCHANGED site,
           NEW w \in Workers, ApplyTLSSecret(w) \/ ApplyWildcardIngress(w)
    PROVE  HandlersRight' /\ DomainServed'
<1> DEFINE n == work[w].name
           d == work[w].domain
<1>1. UNCHANGED <<cfg, moved>> /\ ~At(w, "idle")
      BY DEF ApplyTLSSecret, ApplyWildcardIngress, At
<1>2. /\ RightAt(w) /\ n \in Domains /\ d \in Domains
      /\ work[w].alone => Alone(w)
      /\ ~moved => d = cfg.domain
      BY <1>1 DEF HandlersRight, RightAt
<1>3. cluster \in Cluster
      BY DEF Typed, CertificateTypeOK
<1> HIDE DEF n, d
<1>4. CASE ApplyTLSSecret(w)
  <2>1. /\ \A v \in Workers \ {w} : work'[v] = work[v]
        /\ /\ work'[w].pc = "signed" /\ work'[w].domain = work[w].domain
           /\ work'[w].name = work[w].name /\ work'[w].alone = work[w].alone
        /\ \A v \in Workers : Alone(v) => Alone(v)'
        BY <1>1, <1>4, HandlerMoves DEF ApplyTLSSecret, Step
  <2>2. /\ cluster'.tls[n] = [domain |-> d, age |-> "fresh"]
        /\ \A m \in Domains \ {n} : cluster'.tls[m] = cluster.tls[m]
        /\ cluster'.ingress = cluster.ingress
        BY <1>2, <1>3, <1>4 DEF ApplyTLSSecret, Cluster, n, d
  <2>3. RightAt(w)'
        BY <1>1, <1>2, <2>1, <2>2 DEF RightAt, At, n, d
  <2>4. ASSUME NEW v \in Workers \ {w}
        PROVE  RightAt(v)'
    <3>1. RightAt(v)
          BY DEF HandlersRight
    <3>2. ~At(v, "idle") => ~work[v].alone
          BY <1>1, <3>1 DEF RightAt, Alone
    <3>3. \/ work[v].name = n
          \/ work[v].name \in Domains => cluster'.tls[work[v].name] = cluster.tls[work[v].name]
          BY <2>2
    <3> QED BY <1>1, <1>2, <2>1, <2>2, <3>1, <3>2, <3>3 DEF RightAt, At
  <2>5. DomainServed'
    <3> SUFFICES ASSUME ~moved, Wanted, Served(cfg.domain, Age)
                 PROVE  Served(cfg.domain, Age)'
        BY <1>1 DEF DomainServed, Wanted
    <3>1. PICK m \in Domains : /\ cluster.ingress[m] = cfg.domain
                               /\ cluster.tls[m].domain = cfg.domain
                               /\ cluster.tls[m].age \in Age
          BY DEF Served
    <3>2. /\ cluster'.ingress[m] = cfg.domain /\ cluster'.tls[m].domain = cfg.domain
          /\ cluster'.tls[m].age \in Age
          BY <1>2, <2>2, <3>1 DEF Age
    <3> QED BY <1>1, <3>2 DEF Served
  <2> QED BY <2>3, <2>4, <2>5 DEF HandlersRight
<1>5. CASE ApplyWildcardIngress(w)
  <2>1. /\ \A v \in Workers \ {w} : work'[v] = work[v]
        /\ /\ work'[w].pc = "routed" /\ work'[w].domain = work[w].domain
           /\ work'[w].name = work[w].name /\ work'[w].alone = work[w].alone
        /\ \A v \in Workers : Alone(v) => Alone(v)'
        BY <1>1, <1>5, HandlerMoves DEF ApplyWildcardIngress, Step
  <2>2. /\ cluster'.ingress[n] = d
        /\ \A m \in Domains \ {n} : cluster'.ingress[m] = cluster.ingress[m]
        /\ cluster'.tls = cluster.tls
        BY <1>2, <1>3, <1>5 DEF ApplyWildcardIngress, Cluster, n, d
  <2>3. RightAt(w)'
        BY <1>1, <1>2, <1>5, <2>1, <2>2 DEF RightAt, At, n, d, ApplyWildcardIngress
  <2>4. ASSUME NEW v \in Workers \ {w}
        PROVE  RightAt(v)'
    <3>1. RightAt(v)
          BY DEF HandlersRight
    <3>2. ~At(v, "idle") => ~work[v].alone
          BY <1>1, <3>1 DEF RightAt, Alone
    <3>3. \/ work[v].name = n
          \/ work[v].name \in Domains =>
               cluster'.ingress[work[v].name] = cluster.ingress[work[v].name]
          BY <2>2
    <3> QED BY <1>1, <1>2, <2>1, <2>2, <3>1, <3>2, <3>3 DEF RightAt, At
  <2>5. DomainServed'
    <3> SUFFICES ASSUME ~moved, Wanted, Served(cfg.domain, Age)
                 PROVE  Served(cfg.domain, Age)'
        BY <1>1 DEF DomainServed, Wanted
    <3>1. PICK m \in Domains : /\ cluster.ingress[m] = cfg.domain
                               /\ cluster.tls[m].domain = cfg.domain
                               /\ cluster.tls[m].age \in Age
          BY DEF Served
    <3>2. /\ cluster'.ingress[m] = cfg.domain /\ cluster'.tls[m].domain = cfg.domain
          /\ cluster'.tls[m].age \in Age
          BY <1>2, <2>2, <3>1
    <3> QED BY <1>1, <3>2 DEF Served
  <2> QED BY <2>3, <2>4, <2>5 DEF HandlersRight
<1> QED BY <1>4, <1>5

\* A handler that ends.
LEMMA HandlerEnds ==
    ASSUME Typed, HandlersRight, NEW w \in Workers, Free(w), cfg'.domain = cfg.domain,
           UNCHANGED cluster, ~moved' /\ moved => Alone(w)
    PROVE  HandlersRight'
<1>1. /\ \A v \in Workers \ {w} : work'[v] = work[v]
      /\ work'[w].pc = "idle"
      BY DEF Free, Idle, Typed, CertificateTypeOK
<1>2. RightAt(w)'
      BY <1>1 DEF RightAt, At
<1>3. ASSUME NEW v \in Workers \ {w}
      PROVE  RightAt(v)'
  <2>1. RightAt(v)
        BY DEF HandlersRight
  <2>2. ~moved' /\ moved => At(v, "idle")
        BY DEF Alone
  <2>3. Alone(v) => Alone(v)'
        BY <1>1 DEF Alone, At
  <2> QED BY <1>1, <2>1, <2>2, <2>3 DEF RightAt, At
<1> QED BY <1>2, <1>3 DEF HandlersRight

LEMMA EndRight ==
    ASSUME Typed, HandlersRight, DomainServed, UNCHANGED site,
           NEW w \in Workers, RecordReady(w) \/ ProvisionFails(w) \/ ProvisionDies(w)
    PROVE  HandlersRight' /\ DomainServed'
<1>1. Free(w) /\ UNCHANGED cluster /\ cfg'.domain = cfg.domain
      BY DEF RecordReady, ProvisionFails, ProvisionDies, Typed, CertificateTypeOK, Row
<1>2. RightAt(w)
      BY DEF HandlersRight
<1>3. CASE RecordReady(w)
  <2>1. ~At(w, "idle") /\ work[w].pc = "recorded"
        BY <1>3 DEF RecordReady, At
  <2>2. ~moved' => ~moved \/ (work[w].alone /\ work[w].domain = cfg.domain)
        BY <1>3 DEF RecordReady
  <2>3. ~moved' => /\ work[w].domain = cfg.domain /\ work[w].name \in Domains
                   /\ cluster.tls[work[w].name].domain = work[w].domain
                   /\ cluster.ingress[work[w].name] = work[w].domain
        BY <1>2, <2>1, <2>2 DEF RightAt
  <2>4. ~moved' => Served(cfg.domain, Age)
    <3>1. \A n \in Domains : cluster.tls[n].age \in Age
          BY DEF Typed, CertificateTypeOK, Cluster
    <3> QED BY <2>3, <3>1 DEF Served
  <2>5. DomainServed'
        BY <1>1, <2>4 DEF DomainServed, Served
  <2>6. HandlersRight'
        BY <1>1, <1>2, <2>1, <2>2, HandlerEnds DEF RightAt
  <2> QED BY <2>5, <2>6
<1>4. CASE ProvisionFails(w) \/ ProvisionDies(w)
  <2>1. moved' = moved /\ (cfg'.provisioning = "ready" => cfg.provisioning = "ready")
        BY <1>4 DEF ProvisionFails, ProvisionDies, Typed, CertificateTypeOK, Row
  <2>2. HandlersRight'
        BY <1>1, <2>1, HandlerEnds
  <2>3. DomainServed'
        BY <1>1, <2>1 DEF DomainServed, Wanted, Served
  <2> QED BY <2>2, <2>3
<1> QED BY <1>3, <1>4

LEMMA GrowOldRight ==
    ASSUME Typed, HandlersRight, DomainServed, UNCHANGED site, GrowOld
    PROVE  HandlersRight' /\ DomainServed'
<1>1. HandlersRight'
      BY DEF GrowOld, HandlersRight, RightAt, At
<1>2. \A age \in Age : Older(age) \in Age
      BY DEF Older, Age
<1>3. /\ \A n \in Domains : /\ cluster'.tls[n].domain = cluster.tls[n].domain
                            /\ cluster'.tls[n].age \in Age
      /\ cluster'.ingress = cluster.ingress
      BY <1>2 DEF GrowOld, Typed, CertificateTypeOK, Cluster
<1>4. cfg'.domain = cfg.domain /\ cfg'.provisioning = cfg.provisioning /\ moved' = moved
      BY DEF GrowOld, Typed, CertificateTypeOK, Row
<1>5. DomainServed'
      BY <1>3, <1>4 DEF DomainServed, Wanted, Served
<1> QED BY <1>1, <1>5

LEMMA CertificateRight ==
    ASSUME Typed, HandlersRight, DomainServed, UNCHANGED site, CertificateNext
    PROVE  HandlersRight' /\ DomainServed'
<1> QED BY AdministratorQuiet, StartRight, RecordRight, ApplyRight, EndRight, GrowOldRight
        DEF CertificateNext, Provision

\* A site that begins is under the configured domain, which is ready; no other step
\* gives a site a domain.
LEMMA SitesRight ==
    ASSUME Typed, Kept, HandlersRight, DomainServed, SiteStep \/ \E s \in Sites : Publish(s)
    PROVE  HandlersRight' /\ DomainServed'
<1>1. UNCHANGED certificate
      BY SiteStepKept DEF Publish, BeginUpload
<1>2. Wanted' => Wanted
  <2>1. CASE \E s \in Sites : Publish(s)
        BY <1>1, <2>1 DEF certificate, Publish, Wanted
  <2>2. CASE SiteStep
    <3>1. \A s \in Sites : site'[s].domain = site[s].domain
      <4> USE DEF Kept, SitesTyped, Site
      <4>1. ASSUME NEW s \in Sites, CreatePublishedSite(s) \/ Expires(s) \/ Renew(s)
            PROVE  \A t \in Sites : site'[t].domain = site[t].domain
            BY <4>1 DEF CreatePublishedSite, Expires, Renew
      <4>2. ASSUME NEW s \in Sites, PublishFails(s) \/ Takedown(s)
            PROVE  \A t \in Sites : site'[t].domain = site[t].domain
            BY <4>2 DEF PublishFails, Takedown, SetState
      <4>3. ASSUME NEW s \in Sites, TakedownDeletes(s) \/ ReapDelete(s)
            PROVE  \A t \in Sites : site'[t].domain = site[t].domain
            BY <4>3 DEF TakedownDeletes, ReapDelete, Deleted, Empty
      <4>4. ASSUME NEW s \in Sites, ReapExpire(s)
            PROVE  \A t \in Sites : site'[t].domain = site[t].domain
            BY <4>4 DEF ReapExpire, SetState
      <4>5. CASE ReapList \/ ReaperDies \/ SyncOnce \/ SiteServerRestarts
            BY <4>5 DEF ReapList, ReaperDies, SyncOnce, SiteServerRestarts
      <4> QED BY <2>2, <4>1, <4>2, <4>3, <4>4, <4>5 DEF SiteStep, Reap
    <3> QED BY <1>1, <3>1 DEF certificate, Wanted
  <2> QED BY <2>1, <2>2
<1> QED BY <1>1, <1>2, QuietStep DEF certificate

LEMMA InitRight == Init => HandlersRight /\ DomainServed
<1> SUFFICES ASSUME Init
             PROVE  HandlersRight /\ DomainServed
    OBVIOUS
<1>1. HandlersRight
      BY DEF Init, CertificateInit, Idle, HandlersRight, RightAt, At
<1>2. Wanted => cfg = Provisioned(Home) /\ cluster = Applied(Home)
      BY DEF Init, CertificateInit, NoSite, Wanted, Configured
<1>3. Wanted => Served(cfg.domain, Age)
      BY <1>2 DEF Served, Provisioned, Applied, NoCluster, Age
<1> QED BY <1>1, <1>3 DEF DomainServed

\* Handle, Publish: while the base domain has not been moved under the provision jobs,
\* every site under it has its Ingress and its certificate, whatever jobs ran together,
\* failed or died.
THEOREM Reachable == Spec => []SiteIsReachable
<1> DEFINE Inv == Typed /\ Kept /\ HandlersRight /\ DomainServed
<1>1. Init => Inv
      BY InitKept, InitRight
<1>2. Inv /\ [Next]_vars => Inv'
  <2> SUFFICES ASSUME Inv, [Next]_vars
               PROVE  Inv'
      OBVIOUS
  <2>1. Typed' /\ Kept'
        BY StepKept
  <2>2. CASE CertificateNext /\ UNCHANGED sites
        BY <2>1, <2>2, CertificateRight DEF sites
  <2>3. CASE SiteStep \/ \E s \in Sites : Publish(s)
        BY <2>1, <2>3, SitesRight
  <2>4. CASE UNCHANGED vars
        BY <2>1, <2>4, QuietStep DEF vars, certificate, sites, Wanted
  <2> QED BY <2>1, <2>2, <2>3, <2>4 DEF Next, SiteStep
<1>3. Inv => SiteIsReachable
      BY DEF DomainServed, Wanted, SiteIsReachable, Active
<1> QED BY <1>1, <1>2, <1>3, PTL DEF Spec
=============================================================================
