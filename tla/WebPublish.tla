----------------------------- MODULE WebPublish -----------------------------
(***************************************************************************)
(* The published sites of one organization: the rows of published_sites,    *)
(* the objects under each site's prefix, and the routing table that the     *)
(* site server polls from the manager.  A site is written by the request    *)
(* that publishes it, by an administrator who takes it down or renews it,   *)
(* and by the site reaper, none of which looks at the row again before it   *)
(* writes.  The wildcard certificate of the organization, without which     *)
(* nothing is published, is module WebCertificate.                          *)
(*                                                                          *)
(* A request is one action per statement that others can see: publishing    *)
(* reads the configuration and the quota before the upload and inserts the  *)
(* row after it, and a site that ends loses its row's status first and its  *)
(* objects later.  The prefix of the objects is the default one.            *)
(***************************************************************************)
EXTENDS WebCertificate

CONSTANTS
    Sites,      \* sites that can be published; each has an id and a host of its own
    MaxSites    \* max_sites of the configuration

ASSUME SitesAssumption ==
    /\ IsFiniteSet(Sites)
    /\ MaxSites \in Nat \ {0}

VARIABLES
    site,      \* state (free, uploading and abandoned have no row), expires_at in the
               \* past, the domain of the host, the objects under the prefix
    clearing,  \* sites an administrator took down, whose objects are to be deleted
    reaper,    \* the sites the reaper has listed, and the one whose objects it deletes
    registry,  \* the sites the site server routes
    revived,   \* history: sites renewed after they had been taken down or had expired
    spilt,     \* history: sites whose objects were not deleted
    peak       \* history: the most publish requests that ever ran at once

sites == <<site, clearing, reaper, registry, revived, spilt, peak>>
vars == <<certificate, budget, sites>>

NoSite == [state |-> "free", due |-> FALSE, domain |-> None, objects |-> "none"]
Active == {s \in Sites : site[s].state = "active"}
Uploading == {s \in Sites : site[s].state = "uploading"}
Ended == {"expired", "disabled"}
Due(s) == site[s].state = "active" /\ site[s].due

Init ==
    /\ CertificateInit
    /\ site = [s \in Sites |-> NoSite]
    /\ clearing = {} /\ registry = {} /\ revived = {} /\ spilt = {} /\ peak = 0
    /\ reaper = [listed |-> {}, cur |-> {}]

SetState(s, state) == site' = [site EXCEPT ![s].state = state]
Empty(s) == site' = [site EXCEPT ![s].objects = "none"]

------------------------------------------------------------------------------
\* unpackToPrefix begins: a site with an id and a host of its own.
BeginUpload(s) ==
    /\ Request /\ site[s].state = "free"
    /\ site' = [site EXCEPT ![s] = [state |-> "uploading", due |-> FALSE,
                                    domain |-> cfg.domain, objects |-> "part"]]
    /\ peak' = IF Cardinality(Uploading) < peak THEN peak ELSE Cardinality(Uploading) + 1
    /\ UNCHANGED <<certificate, faults, clearing, reaper, registry, revived, spilt>>

\* Plausible mistakes: any enabled organization publishes; the quota is off by one.
PublishWhenEnabled(s) == cfg.enabled /\ Cardinality(Active) < MaxSites /\ BeginUpload(s)
PublishOneMore(s) == /\ cfg.enabled /\ cfg.provisioning = "ready"
                     /\ Cardinality(Active) <= MaxSites
                     /\ BeginUpload(s)

\* Publish, until the upload: the capability and the quota.
Publish(s) == /\ cfg.enabled /\ cfg.provisioning = "ready"
              /\ Cardinality(Active) < MaxSites
              /\ BeginUpload(s)

\* The last object is uploaded and the row inserted.
CreatePublishedSite(s) ==
    /\ site[s].state = "uploading"
    /\ site' = [site EXCEPT ![s].state = "active", ![s].objects = "all"]
    /\ UNCHANGED <<certificate, budget, clearing, reaper, registry, revived, spilt, peak>>

\* The upload or the INSERT fails: nothing removes the objects.
PublishFails(s) ==
    /\ site[s].state = "uploading" /\ Faulty
    /\ SetState(s, "abandoned")
    /\ UNCHANGED <<certificate, ops, clearing, reaper, registry, revived, spilt, peak>>

Expires(s) ==
    /\ site[s].state = "active" /\ ~site[s].due
    /\ site' = [site EXCEPT ![s].due = TRUE]
    /\ UNCHANGED <<certificate, budget, clearing, reaper, registry, revived, spilt, peak>>

HasRow(s) == site[s].state \in {"active"} \cup Ended

\* Takedown, until the objects are deleted.
Takedown(s) ==
    /\ Request /\ HasRow(s)
    /\ SetState(s, "disabled")
    /\ clearing' = clearing \cup {s}
    /\ UNCHANGED <<certificate, faults, reaper, registry, revived, spilt, peak>>

\* Renew sets expires_at and the status whatever the status was.
Renew(s) ==
    /\ Request /\ HasRow(s)
    /\ site' = [site EXCEPT ![s].state = "active", ![s].due = FALSE]
    /\ revived' = IF site[s].state = "active" THEN revived ELSE revived \cup {s}
    /\ UNCHANGED <<certificate, faults, clearing, reaper, registry, spilt, peak>>

\* DeletePrefix is tried once.
Deleted(s) ==
    \/ Empty(s) /\ UNCHANGED <<faults, spilt>>
    \/ Faulty /\ spilt' = spilt \cup {s} /\ UNCHANGED site

TakedownDeletes(s) ==
    /\ s \in clearing
    /\ clearing' = clearing \ {s}
    /\ Deleted(s)
    /\ UNCHANGED <<certificate, ops, reaper, registry, revived, peak>>

------------------------------------------------------------------------------
\* The site reaper, on one replica: ReapOnce lists, then for each site writes the
\* status and deletes the objects.

ReapList ==
    /\ reaper.listed = {} /\ reaper.cur = {}
    /\ \E s \in Sites : Due(s)
    /\ reaper' = [reaper EXCEPT !.listed = {s \in Sites : Due(s)}]
    /\ UNCHANGED <<certificate, budget, site, clearing, registry, revived, spilt, peak>>

\* A plausible mistake: the objects are deleted whether or not the status was written.
ReapAnyway(s) ==
    /\ s \in reaper.listed /\ reaper.cur = {}
    /\ \/ SetState(s, "expired") /\ UNCHANGED faults
       \/ Faulty /\ UNCHANGED site
    /\ reaper' = [listed |-> reaper.listed \ {s}, cur |-> {s}]
    /\ UNCHANGED <<certificate, ops, clearing, registry, revived, spilt, peak>>

\* The write, unless it fails: then the site is left to the next tick.
ReapExpire(s) ==
    /\ s \in reaper.listed /\ reaper.cur = {}
    /\ \/ /\ SetState(s, "expired") /\ UNCHANGED faults
          /\ reaper' = [listed |-> reaper.listed \ {s}, cur |-> {s}]
       \/ /\ Faulty /\ UNCHANGED site
          /\ reaper' = [reaper EXCEPT !.listed = @ \ {s}]
    /\ UNCHANGED <<certificate, ops, clearing, registry, revived, spilt, peak>>

ReapDelete(s) ==
    /\ s \in reaper.cur
    /\ reaper' = [reaper EXCEPT !.cur = {}]
    /\ Deleted(s)
    /\ UNCHANGED <<certificate, ops, clearing, registry, revived, peak>>

ReaperDies ==
    /\ reaper.listed \cup reaper.cur # {} /\ Faulty
    /\ reaper' = [listed |-> {}, cur |-> {}]
    /\ spilt' = spilt \cup reaper.cur
    /\ UNCHANGED <<certificate, ops, site, clearing, registry, revived, peak>>

Reap == ReapList \/ \E s \in Sites : ReapExpire(s) \/ ReapDelete(s)

------------------------------------------------------------------------------
\* A plausible mistake: hosts are added to the table and never dropped.
SyncMerges ==
    /\ ~(Active \subseteq registry)
    /\ registry' = registry \cup Active
    /\ UNCHANGED <<certificate, budget, site, clearing, reaper, revived, spilt, peak>>

\* The site server.  A poll that fails leaves the table as it is.

SyncOnce ==
    /\ registry # Active
    /\ registry' = Active
    /\ UNCHANGED <<certificate, budget, site, clearing, reaper, revived, spilt, peak>>

SiteServerRestarts ==
    /\ registry # {} /\ Faulty
    /\ registry' = {}
    /\ UNCHANGED <<certificate, ops, site, clearing, reaper, revived, spilt, peak>>

------------------------------------------------------------------------------
Next ==
    \/ CertificateNext /\ UNCHANGED sites
    \/ \E s \in Sites : \/ Publish(s) \/ CreatePublishedSite(s) \/ PublishFails(s)
                        \/ Expires(s) \/ Takedown(s) \/ Renew(s) \/ TakedownDeletes(s)
    \/ Reap \/ ReaperDies
    \/ SyncOnce \/ SiteServerRestarts

Spec == Init /\ [][Next]_vars

\* The loops keep running, workers take jobs, and a request under way is carried out.
Fairness ==
    /\ CertificateFairness
    /\ WF_sites(Reap) /\ WF_sites(SyncOnce)
    /\ \A s \in Sites : WF_sites(CreatePublishedSite(s)) /\ WF_sites(TakedownDeletes(s))

FairSpec == Spec /\ Fairness

------------------------------------------------------------------------------
\* The type invariant.
Site == [state : {"free", "uploading", "abandoned", "active", "expired", "disabled"},
         due : BOOLEAN, domain : Domains \cup {None}, objects : {"none", "part", "all"}]
TypeOK ==
    /\ CertificateTypeOK
    /\ site \in [Sites -> Site] /\ peak \in Nat
    /\ clearing \in SUBSET Sites /\ registry \in SUBSET Sites
    /\ revived \in SUBSET Sites /\ spilt \in SUBSET Sites
    /\ reaper \in [listed : SUBSET Sites, cur : SUBSET Sites]

\* The quota is read before the upload and the row inserted after it, so requests that
\* overlap can pass max_sites together, but by no more sites than ran beside one
\* another; else only renewing a site that has ended, which asks for no quota, goes
\* past it (Publish, Renew).
SiteOvershootBounded == Cardinality((Active \cup Uploading) \ revived) < MaxSites + peak

\* An active site has all its objects, whoever is taking it down, reaping it or
\* renewing it, unless it was renewed after it had ended: status first, objects later
\* (Takedown, ReapOnce), and objects first, row later (Publish).
ActiveHasContent ==
    \A s \in Active : site[s].objects = "all" \/ s \in revived

\* A site whose host is under the configured domain has its Ingress and certificate,
\* whatever provision jobs ran, failed or were cut meanwhile, unless the domain was
\* changed under them (WebPublishProvisionHandler.Handle, Publish).
SiteIsReachable ==
    ~moved => \A s \in Active : site[s].domain = cfg.domain => Served(cfg.domain, Age)

\* A site that is taken down or whose time is up goes dark: the site server stops
\* routing it and its objects are deleted, unless it is renewed or its deletion, which
\* nobody retries, was lost (Takedown, SiteReaper.ReapOnce, Syncer.syncOnce).
EndedSiteGoesDark ==
    \A s \in Sites :
        (site[s].state \in Ended \/ Due(s)) ~>
            \/ site[s].state = "active" /\ ~site[s].due
            \/ /\ site[s].state \in Ended /\ s \notin registry
               /\ site[s].objects = "none" \/ s \in spilt

\* An enabled organization that waits for its first certificate, or whose certificate
\* is about to lapse or has lapsed, gets a fresh one, whatever attempts fail, unless a
\* job uses up its attempts or the domain is changed under it (CheckOnce, Handle).
Awaiting == /\ cfg.enabled
            /\ \/ cfg.provisioning = "provisioning"
               \/ cfg.provisioning = "ready" /\ Served(cfg.domain, {"expiring", "lapsed"})
CertificateArrives ==
    Awaiting ~> \/ cfg.provisioning = "ready" /\ Served(cfg.domain, {"fresh"})
                \/ ~cfg.enabled \/ cut \/ moved
=============================================================================
