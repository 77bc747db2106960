---------------------------- MODULE LoadBalancer ----------------------------
(***************************************************************************)
(* The load balancers of a node: several LB resources share one nginx, its *)
(* configuration files, certificates, tunnels and downloaded directories.  *)
(*                                                                         *)
(* Every apply of one LB renders the union of all of them, and every       *)
(* validation compares the files with that union.  Downloads run in        *)
(* threads, leave a temporary directory until they are complete, and are   *)
(* recorded in the meta storage.  An LB that fails its validation is left  *)
(* out of the listing, and so is created again if it is wanted.            *)
(*                                                                         *)
(* Abstractions.  What nginx is told of an LB is a value of Confs.  An LB  *)
(* has one route, which may be a download; the directory of that route has *)
(* the name of the LB, all vhosts one port, an LB one certificate and one  *)
(* tunnel.  Two unfinished jobs of a directory which are no longer tracked *)
(* and are alike are one.                                                  *)
(***************************************************************************)
EXTENDS Naturals, FiniteSets

CONSTANTS
    LBs,
    Order,          \* the order of the uuids of the LBs
    Confs, CatchAll(_), \* configurations, those with the domain "_"
    Urls,
    None,
    WantedAs(_),    \* what the control plane may want of an LB
    FirstWant,      \* what it wants at first
    MaxChanges,     \* bound: changes of the targets
    MaxFaults       \* bound: failed calls and downloads, crashes, nginx dying

OrNone(S) == S \cup {None}
View == [conf : Confs, url : OrNone(Urls)]
Text == [conf : Confs, default : BOOLEAN]
Tunnel == [script : Confs, runs : OrNone(Confs)]

\* A download, or the removal of a directory, and how far it is: "moved" and
\* "deleted" are downloads whose temporary directory was taken away.
Job == [url : OrNone(Urls),
        state : {"queued", "running", "moved", "deleted", "swapped", "cleared",
                 "done", "failed"}]

ASSUME LoadBalancerAssumption ==
    /\ IsFiniteSet(LBs) /\ Order \in [LBs -> Nat]
    /\ \A l, k \in LBs : Order[l] = Order[k] => l = k
    /\ \A c \in Confs : CatchAll(c) \in BOOLEAN
    /\ \A l \in LBs : WantedAs(l) \subseteq View
    /\ FirstWant \in [LBs -> OrNone(View)]
    /\ None \notin View \cup Text \cup Tunnel \cup Job \cup Urls \cup Confs
    /\ MaxChanges \in Nat /\ MaxFaults \in Nat

VARIABLES
    want,           \* targets
    pc, goal, todo, \* the iteration: targets it read, LBs to work on
    listed,         \* LBs that list() returned
    meta, metaFile, \* views in the meta storage, in its file
    files, certs, tunnels, \* what is on the disk and in systemd
    served,         \* what nginx has loaded, None if it is down
    reached,        \* history: what the last apply to write files got to
    dir, tmp,       \* urls whose contents a directory has, {} if it does not exist
    record, recordFile, \* _download_dirs, and in the meta file
    future,         \* _download_dirs_futures
    lostJobs,       \* jobs that run although another future took their place
    tainted,        \* history: two downloads overlapped, or a crash lost a record
    changes, faults

iterVars == <<pc, goal, todo, listed>>
metaVars == <<meta, metaFile>>
diskVars == <<files, certs, tunnels, served, reached>>
jobVars  == <<future, lostJobs>>
dirVars  == <<dir, tmp, tainted>>
vars == <<want, changes, iterVars, metaVars, diskVars, dirVars, record, recordFile,
          jobVars, faults>>

Nothing == [l \in LBs |-> None]
Absent  == [l \in LBs |-> {}]

Init ==
    /\ want = FirstWant
    /\ pc = "idle" /\ goal = Nothing /\ todo = {} /\ listed = {}
    /\ meta = Nothing /\ metaFile = Nothing
    /\ files = Nothing /\ certs = Nothing /\ tunnels = Nothing /\ served = Nothing
    /\ dir = Absent /\ tmp = Absent
    /\ record = Nothing /\ recordFile = Nothing
    /\ future = Nothing /\ lostJobs = Absent
    /\ tainted = {} /\ reached = "end"
    /\ changes = 0 /\ faults = 0

Fault == faults < MaxFaults /\ faults' = faults + 1
Unfaulted == UNCHANGED faults

ChangeTarget(l) ==
    /\ changes < MaxChanges /\ changes' = changes + 1
    /\ \E w \in OrNone(WantedAs(l)) : w # want[l] /\ want' = [want EXCEPT ![l] = w]
    /\ UNCHANGED <<iterVars, metaVars, diskVars, dirVars, record, recordFile, jobVars, faults>>

NginxDies ==
    /\ Fault
    /\ served # None /\ served' = None
    /\ UNCHANGED <<want, changes, iterVars, metaVars, files, certs, tunnels, reached,
                   dirVars, record, recordFile, jobVars>>

-----------------------------------------------------------------------------
(* Rendering *)

\* (mutant) only the LB itself.
SelfView(l, view) == [Nothing EXCEPT ![l] = view]

\* All LBs of the meta storage, with what is being applied for l.
DataplaneViews(l, view) == [meta EXCEPT ![l] = view]

Present(views) == {l \in LBs : views[l] # None}

\* (mutant) every catch-all vhost is a default server.
EachDefault(views, l) == CatchAll(views[l].conf)

\* Only the first of them is.
IsDefault(views, l) ==
    /\ CatchAll(views[l].conf)
    /\ \A k \in Present(views) : CatchAll(views[k].conf) => Order[l] <= Order[k]

Rendered(views) ==
    [l \in LBs |-> IF views[l] = None THEN None
                   ELSE [conf |-> views[l].conf, default |-> IsDefault(views, l)]]

\* nginx refuses a second default server of a port.
Accepts(texts) ==
    Cardinality({l \in LBs : texts[l] # None /\ texts[l].default}) <= 1

-----------------------------------------------------------------------------
(* Downloads *)

TargetPaths(views) == {l \in Present(views) : views[l].url # None}

Finished(j) == j # None /\ j.state \in {"done", "failed"}
Unfinished(j) == j # None /\ ~Finished(j)
Queued(url) == [url |-> url, state |-> "queued"]

\* _actualize_downloaded_dirs: a directory is downloaded unless a job is
\* tracked or it is complete.
Downloads(views, futures, records) ==
    {p \in TargetPaths(views) :
        /\ futures[p] = None
        /\ records[p] # views[p].url \/ dir[p] = {} \/ tmp[p] # {}}

\* Directories that are not of a route are removed, whatever job is tracked.
Orphans(views) == {p \in LBs : dir[p] # {}} \ TargetPaths(views)

Submitted(views, futures, records) ==
    [p \in LBs |-> IF p \in Orphans(views) THEN Queued(None)
                   ELSE IF p \in Downloads(views, futures, records) THEN Queued(views[p].url)
                   ELSE futures[p]]

Replaced(views, futures) ==
    [p \in LBs |-> IF p \in Orphans(views) /\ Unfinished(futures[p])
                   THEN lostJobs[p] \cup {futures[p]} ELSE lostJobs[p]]

Jobs(p) == (lostJobs[p] \cup {future[p]}) \ {None}

\* What a step does to the other downloads of the directory: a "running" one
\* writes to the temporary directory, a "moved" one to that of the route, a
\* "deleted" one to none.
Turned(k, turn) ==
    IF k # None /\ k.state \in DOMAIN turn THEN [k EXCEPT !.state = turn[k.state]] ELSE k

Undisturbed == [s \in {} |-> s]
Swapped     == [running |-> "moved", moved |-> "running"]
TmpRemoved  == [running |-> "deleted"]
AllRemoved  == [running |-> "deleted", moved |-> "deleted"]

\* Job j goes on to state s; one that is not tracked is forgotten at its end.
Becomes(p, j, s, turn) ==
    LET next == [j EXCEPT !.state = s]
        others(S) == {Turned(k, turn) : k \in S}
    IN  \/ /\ future[p] = j
           /\ future' = [future EXCEPT ![p] = next]
           /\ lostJobs' = [lostJobs EXCEPT ![p] = others(@)]
        \/ /\ j \in lostJobs[p]
           /\ lostJobs' = [lostJobs EXCEPT
                ![p] = others(@ \ {j}) \cup (IF Finished(next) THEN {} ELSE {next})]
           /\ future' = [future EXCEPT ![p] = Turned(@, turn)]

JobStep == UNCHANGED <<want, changes, iterVars, metaVars, diskVars, recordFile>>

\* The temporary directory is made, or emptied while others still write to it.
StartDownload(p) ==
    \E j \in Jobs(p) :
        /\ j.state = "queued" /\ j.url # None
        /\ LET writing == {k \in Jobs(p) \ {j} : k.state = "running"}
           IN  tmp' = [tmp EXCEPT ![p] = {j.url} \cup {k.url : k \in writing}]
        /\ Becomes(p, j, "running", Undisturbed)
        /\ UNCHANGED <<dir, tainted, record>> /\ Unfaulted /\ JobStep

\* wget and tar were successful: the directory takes the place of the old one.
SwapDirs(p) ==
    \E j \in Jobs(p) :
        /\ j.state \in {"running", "moved"} /\ tmp[p] # {}
        /\ dir' = [dir EXCEPT ![p] = tmp[p]]
        /\ tmp' = [tmp EXCEPT ![p] = dir[p]]
        /\ tainted' = IF tmp[p] = {j.url} THEN tainted \ {p} ELSE tainted \cup {p}
        /\ Becomes(p, j, IF dir[p] = {} THEN "cleared" ELSE "swapped", Swapped)
        /\ UNCHANGED record /\ Unfaulted /\ JobStep

RemoveTmp(p) ==
    \E j \in Jobs(p) :
        /\ j.state = "swapped"
        /\ tmp' = [tmp EXCEPT ![p] = {}]
        /\ Becomes(p, j, "cleared", TmpRemoved)
        /\ UNCHANGED <<dir, tainted, record>> /\ Unfaulted /\ JobStep

RecordDownload(p) ==
    \E j \in Jobs(p) :
        /\ j.state = "cleared"
        /\ record' = [record EXCEPT ![p] = j.url]
        /\ tainted' = IF dir[p] = {j.url} THEN tainted ELSE tainted \cup {p}
        /\ Becomes(p, j, "done", Undisturbed)
        /\ UNCHANGED <<dir, tmp>> /\ Unfaulted /\ JobStep

\* wget, tar or a call on the directories fails, which is sure to happen to
\* a download whose directory was taken away.
DownloadFails(p) ==
    \E j \in Jobs(p) :
        /\ \/ j.state \in {"queued", "running", "moved", "swapped"} /\ j.url # None /\ Fault
           \/ j.state = "deleted" /\ Unfaulted
           \/ j.state = "moved" /\ tmp[p] = {} /\ Unfaulted
        /\ Becomes(p, j, "failed", Undisturbed)
        /\ UNCHANGED <<dirVars, record>> /\ JobStep

CleanPath(p) ==
    \E j \in Jobs(p) :
        /\ j.state = "queued" /\ j.url = None
        /\ dir' = [dir EXCEPT ![p] = {}] /\ tmp' = [tmp EXCEPT ![p] = {}]
        /\ record' = [record EXCEPT ![p] = None]
        /\ tainted' = tainted \ {p}
        /\ Becomes(p, j, "done", AllRemoved)
        /\ Unfaulted /\ JobStep

Thread(p) ==
    \/ StartDownload(p) \/ SwapDirs(p) \/ RemoveTmp(p) \/ RecordDownload(p)
    \/ DownloadFails(p) \/ CleanPath(p)

-----------------------------------------------------------------------------
(* restore_from_dp *)

\* (mutant) the temporary directory is not looked at.
CompleteByRecord(p, url) == dir[p] # {} /\ record[p] = url

Complete(p, url) == dir[p] # {} /\ tmp[p] = {} /\ record[p] = url

\* Files, and for its own vhosts the certificate, are as rendered.
FilesValid(l) ==
    /\ served # None
    /\ files = Rendered(meta)
    /\ certs[l] = meta[l].conf

TunnelsValid ==
    \A k \in Present(meta) :
        tunnels[k] # None /\ tunnels[k].script = meta[k].conf /\ tunnels[k].runs # None

Popped(f, S) == [p \in LBs |-> IF p \in S THEN None ELSE f[p]]

Invalid(f, r)  == [ok |-> FALSE, future |-> f, record |-> r]
Restores(f, r) == [ok |-> TunnelsValid, future |-> f, record |-> r]

\* The outcomes of a validation: it drops the futures that are finished up to
\* the first that failed, and the record of the first directory that is not
\* complete.
Restored(l) ==
    LET done   == {p \in LBs : Finished(future[p]) /\ future[p].state = "done"}
        failed == {p \in LBs : Finished(future[p])} \ done
        drops  == {S \in SUBSET (done \cup failed) : \E p \in failed : S \ done = {p}}
        broken == {p \in TargetPaths(meta) : ~Complete(p, meta[p].url)}
    IN  IF ~FilesValid(l) THEN {Invalid(future, record)}
        ELSE IF failed # {}
        THEN {Invalid(Popped(future, S), record) : S \in drops}
        ELSE IF broken # {}
        THEN {Invalid(Popped(future, done), Popped(record, {p})) : p \in broken}
        ELSE {Restores(Popped(future, done), record)}

-----------------------------------------------------------------------------
(* dump_to_dp *)

\* The steps of dump_to_dp after the files, in order, as far as they get:
\* certificates, downloads, the reload of nginx, tunnels, and the removal of
\* tunnels that are not used.
Certificates(views, stage) ==
    certs' = IF stage < 2 THEN certs
             ELSE [l \in LBs |-> IF views[l] = None THEN None ELSE views[l].conf]

Directories(views, stage, futures, records) ==
    /\ record' = records
    /\ IF stage < 3 THEN future' = futures /\ UNCHANGED lostJobs
       ELSE /\ future' = Submitted(views, futures, records)
            /\ lostJobs' = Replaced(views, futures)

\* A reload that fails is followed by a restart, which leaves nginx down if
\* it fails too.
ReloadOrRestart(views, stage) ==
    served' = IF stage < 4 THEN served
              ELSE IF stage = 4 \/ ~Accepts(Rendered(views)) THEN None
              ELSE Rendered(views)

\* A script that is written for a tunnel leaves one that runs alone, as does
\* enable --now, which starts one that does not.
Running(l) == IF tunnels[l] = None THEN None ELSE tunnels[l].runs
Written(views, l) == [script |-> views[l].conf, runs |-> Running(l)]
Enabled(views, l) ==
    [script |-> views[l].conf, runs |-> IF Running(l) = None THEN views[l].conf ELSE Running(l)]

\* At stage 5 some tunnels are done, and one may be written and not enabled.
Tunnels(views, stage) ==
    \/ stage < 5 /\ UNCHANGED tunnels
    \/ /\ stage = 5
       /\ \E done \in SUBSET Present(views), cut \in SUBSET Present(views) :
            /\ \A l, k \in cut : l = k
            /\ tunnels' = [l \in LBs |-> IF l \in done THEN Enabled(views, l)
                                        ELSE IF l \in cut THEN Written(views, l)
                                        ELSE tunnels[l]]
    \/ /\ stage = 6
       /\ tunnels' = [l \in LBs |-> IF views[l] = None THEN None ELSE Enabled(views, l)]

Last(views) == IF Accepts(Rendered(views)) THEN 6 ELSE 4

Reached(stage) ==
    IF stage < 1 THEN reached ELSE IF stage < 4 THEN "files"
    ELSE IF stage < 6 THEN "reload" ELSE "end"

Dump(views, stage, futures, records) ==
    /\ files' = IF stage < 1 THEN files ELSE Rendered(views)
    /\ Certificates(views, stage)
    /\ Directories(views, stage, futures, records)
    /\ ReloadOrRestart(views, stage)
    /\ Tunnels(views, stage)
    /\ reached' = Reached(stage)
    /\ UNCHANGED dirVars

-----------------------------------------------------------------------------
(* The iteration of the agent *)

StartIteration ==
    /\ pc = "idle" /\ pc' = "list"
    /\ goal' = want /\ listed' = {}
    /\ todo' = Present(meta)
    /\ UNCHANGED <<want, changes, metaVars, diskVars, dirVars, record, recordFile, jobVars,
                   faults>>

\* list(): an LB that is not valid is left out.
List(l) ==
    /\ pc = "list" /\ l \in todo /\ todo' = todo \ {l}
    /\ \E r \in Restored(l) :
        /\ listed' = IF r.ok THEN listed \cup {l} ELSE listed
        /\ future' = r.future /\ record' = r.record
    /\ UNCHANGED <<want, changes, pc, goal, metaVars, diskVars, dirVars, recordFile,
                   lostJobs, faults>>

Listed ==
    /\ pc = "list" /\ todo = {}
    /\ pc' = "apply"
    /\ todo' = {l \in LBs : goal[l] # None \/ l \in listed}
    /\ UNCHANGED <<want, changes, goal, listed, metaVars, diskVars, dirVars, record,
                   recordFile, jobVars, faults>>

\* New LBs first, then those to delete, then those to update.
Rank(l) == IF l \notin listed THEN 1 ELSE IF goal[l] = None THEN 2 ELSE 3

Handle(l, rank) ==
    /\ pc = "apply" /\ l \in todo /\ Rank(l) = rank
    /\ \A k \in todo : rank <= Rank(k)
    /\ todo' = todo \ {l}
    /\ UNCHANGED <<want, changes, pc, goal, listed, metaFile, recordFile>>

\* get() of an LB that is not in the meta storage finds nothing.
Got(l) ==
    IF meta[l] = None THEN {Invalid(future, record)}
    ELSE Restored(l)

\* An LB that has become valid since it was listed is left as it is.
KeepLB(l) ==
    /\ Handle(l, 1)
    /\ \E r \in Got(l) : r.ok /\ future' = r.future /\ record' = r.record
    /\ UNCHANGED <<meta, diskVars, dirVars, lostJobs>> /\ Unfaulted

CreateLB(l) ==
    /\ Handle(l, 1)
    /\ LET views == DataplaneViews(l, goal[l])
       IN  /\ \E r \in Got(l) : ~r.ok /\ Dump(views, Last(views), r.future, r.record)
           /\ meta' = IF Accepts(Rendered(views)) THEN [meta EXCEPT ![l] = goal[l]] ELSE meta
    /\ Unfaulted

CreateFails(l) ==
    /\ Fault /\ Handle(l, 1)
    /\ \E r \in Got(l), stage \in 0..5 :
        ~r.ok /\ Dump(DataplaneViews(l, goal[l]), stage, r.future, r.record)
    /\ UNCHANGED meta

\* (mutant) the LB is still rendered when it is deleted.
DeleteLBLater(l) ==
    /\ Handle(l, 2)
    /\ \E r \in Got(l) : Dump(meta, Last(meta), r.future, r.record)
    /\ meta' = [meta EXCEPT ![l] = None]
    /\ Unfaulted

\* delete() renders the others, and takes the LB out of the meta storage.
DeleteLB(l) ==
    /\ Handle(l, 2)
    /\ LET views == DataplaneViews(l, None)
       IN  /\ \E r \in Got(l) : Dump(views, Last(views), r.future, r.record)
           /\ meta' = IF Accepts(Rendered(views)) THEN [meta EXCEPT ![l] = None] ELSE meta
    /\ Unfaulted

DeleteFails(l) ==
    /\ Fault /\ Handle(l, 2)
    /\ \E r \in Got(l), stage \in 0..5 :
        Dump(DataplaneViews(l, None), stage, r.future, r.record)
    /\ UNCHANGED meta

SkipLB(l) ==
    /\ Handle(l, 3) /\ goal[l] = meta[l]
    /\ UNCHANGED <<meta, diskVars, dirVars, record, jobVars>> /\ Unfaulted

UpdateLB(l) ==
    /\ Handle(l, 3) /\ goal[l] # meta[l]
    /\ LET views == DataplaneViews(l, goal[l])
       IN  /\ Dump(views, Last(views), future, record)
           /\ meta' = IF Accepts(Rendered(views)) THEN [meta EXCEPT ![l] = goal[l]] ELSE meta
    /\ Unfaulted

UpdateFails(l) ==
    /\ Fault /\ Handle(l, 3) /\ goal[l] # meta[l]
    /\ \E stage \in 0..5 : Dump(DataplaneViews(l, goal[l]), stage, future, record)
    /\ UNCHANGED meta

EndIteration == pc' = "idle" /\ goal' = Nothing /\ todo' = {} /\ listed' = {}

\* (mutant) the storage is not persisted.
FinalizeUnsaved ==
    /\ pc = "apply" /\ todo = {}
    /\ EndIteration
    /\ UNCHANGED <<want, changes, metaVars, diskVars, dirVars, record, recordFile, jobVars,
                   faults>>

Finalize ==
    /\ pc = "apply" /\ todo = {}
    /\ EndIteration
    /\ metaFile' = meta /\ recordFile' = record
    /\ UNCHANGED <<want, changes, meta, diskVars, dirVars, record, jobVars, faults>>

\* The agent is killed with its threads, and started again.
Crash ==
    /\ Fault
    /\ EndIteration
    /\ meta' = metaFile /\ record' = recordFile
    /\ future' = Nothing /\ lostJobs' = Absent
    /\ tainted' = tainted \cup {p \in LBs : record[p] # recordFile[p]}
                          \cup {p \in LBs : \E j \in Jobs(p) : j.state = "cleared"}
    /\ UNCHANGED <<want, changes, metaFile, diskVars, dir, tmp, recordFile>>

LBStep(l) ==
    \/ List(l) \/ KeepLB(l) \/ CreateLB(l) \/ DeleteLB(l) \/ SkipLB(l) \/ UpdateLB(l)
    \/ CreateFails(l) \/ DeleteFails(l) \/ UpdateFails(l)

Agent == StartIteration \/ Listed \/ Finalize \/ \E l \in LBs : LBStep(l)

World == NginxDies \/ \E l \in LBs : ChangeTarget(l)

Next == Agent \/ Crash \/ World \/ \E p \in LBs : Thread(p)

\* The service loops for ever, and wget, tar and the pool of threads go on.
Spec ==
    /\ Init /\ [][Next]_vars
    /\ WF_vars(Agent) /\ \A p \in LBs : WF_vars(Thread(p))

-----------------------------------------------------------------------------
(* Properties *)

\* Types of all variables.
TypeOK ==
    /\ want \in [LBs -> OrNone(View)] /\ goal \in [LBs -> OrNone(View)]
    /\ pc \in {"idle", "list", "apply"} /\ todo \subseteq LBs /\ listed \subseteq LBs
    /\ meta \in [LBs -> OrNone(View)] /\ metaFile \in [LBs -> OrNone(View)]
    /\ files \in [LBs -> OrNone(Text)] /\ certs \in [LBs -> OrNone(Confs)]
    /\ tunnels \in [LBs -> OrNone(Tunnel)]
    /\ served \in OrNone([LBs -> OrNone(Text)])
    /\ dir \in [LBs -> SUBSET Urls] /\ tmp \in [LBs -> SUBSET Urls]
    /\ record \in [LBs -> OrNone(Urls)] /\ recordFile \in [LBs -> OrNone(Urls)]
    /\ future \in [LBs -> OrNone(Job)] /\ lostJobs \in [LBs -> SUBSET Job]
    /\ tainted \subseteq LBs /\ reached \in {"files", "reload", "end"}
    /\ changes \in 0..MaxChanges /\ faults \in 0..MaxFaults
    /\ pc = "idle" => meta = metaFile

\* What an LB serves stays as it is while another LB is created, changed or
\* deleted, or an apply of it fails, as long as nginx is up.
SiblingsKept ==
    [][\A l \in LBs :
         /\ served # None /\ served' # None
         /\ served[l] # None /\ meta[l] # None /\ served[l].conf = meta[l].conf
         /\ todo \ todo' = {l} => goal[l] = meta[l]
         => served'[l] # None /\ served'[l].conf = meta[l].conf]_vars

\* The files were written by an apply that failed before it reloaded nginx.
Unloaded == reached = "files"

\* An LB that is listed is served, unless an apply failed after it wrote the
\* files and nginx was not reloaded since; and it has the contents its route
\* asks for, unless its download has just been put in place, two downloads of
\* it overlapped, or the agent was killed before it saved what it downloaded.
ListedIsServed ==
    [][\A l \in listed' \ listed :
         /\ served # None
         /\ Unloaded \/ (served[l] # None /\ served[l].conf = meta[l].conf)
         /\ \/ meta[l].url = None \/ l \in tainted
            \/ \E j \in Jobs(l) : j.state = "cleared"
            \/ dir[l] = {meta[l].url}]_vars

\* An LB that is wanted ends up valid, with nginx serving it unless the files
\* were not loaded, and its download in place: the LBs of a node do not
\* invalidate each other for ever.
Valid(l) == \E r \in Got(l) : r.ok
Served(l) ==
    /\ served # None
    /\ Unloaded \/ (served[l] # None /\ served[l].conf = want[l].conf)
    /\ tunnels[l] # None /\ tunnels[l].runs # None
    /\ want[l].url = None \/ (dir[l] # {} /\ (l \in tainted \/ dir[l] = {want[l].url}))
Settles == <>[](\A l \in LBs : want[l] # None => Valid(l) /\ Served(l))

\* An LB that is not wanted any more is gone, with its certificate and tunnel,
\* if another LB is wanted, or nothing failed and it is out of the storage, and
\* the last apply got to its end.
Gone(l) ==
    /\ meta[l] = None
    /\ served # None => served[l] = None
    /\ certs[l] = None /\ tunnels[l] = None
OthersGone ==
    <>[](\A l \in LBs :
           /\ want[l] = None
           /\ (\E k \in LBs : want[k] # None) \/ (faults = 0 /\ meta[l] = None)
           => reached # "end" \/ Gone(l))

=============================================================================
