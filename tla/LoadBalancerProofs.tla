------------------------- MODULE LoadBalancerProofs -------------------------
(***************************************************************************)
(* Proofs about LoadBalancer: its types, SiblingsKept and ListedIsServed,  *)
(* for any LBs, configurations, urls, targets and numbers of faults.       *)
(*                                                                         *)
(* SiblingsKept is a matter of the steps: whatever is rendered for an LB   *)
(* has the meta storage's view of every other.  ListedIsServed needs that  *)
(* nginx has loaded the files unless the last apply that wrote them failed *)
(* before the reload, and that a record of a download names the contents   *)
(* of the directory, unless a job is about to write the record, the        *)
(* temporary directory is there, or the history says that two downloads    *)
(* overlapped or a crash lost a record.                                    *)
(***************************************************************************)
EXTENDS LoadBalancer, TLAPS

JobState == {"queued", "running", "moved", "deleted", "swapped", "cleared",
             "done", "failed"}

\* The removal of a directory is waiting or done.
ProperJob == {j \in Job : j.url = None => j.state \in {"queued", "done"}}

Turns   == {Undisturbed, Swapped, TmpRemoved, AllRemoved}
ViewFcn == [LBs -> OrNone(View)]
TextFcn == [LBs -> OrNone(Text)]
JobFcn  == [LBs -> OrNone(ProperJob)]
LostFcn == [LBs -> SUBSET ProperJob]
UrlFcn  == [LBs -> OrNone(Urls)]

\* The LBs to work on were in the storage, or are wanted or listed.
Working ==
    /\ pc \in {"idle", "list"} => meta = metaFile
    /\ pc = "list" => todo \subseteq Present(meta)
    /\ pc = "apply" => \A l \in todo : goal[l] # None \/ l \in listed

\* What nginx has loaded is what the files say.
Loaded == served = None \/ Unloaded \/ served = files

\* A download of the directory is about to be recorded.
Clearing(p) == \E j \in Jobs(p) : j.state = "cleared"

\* A record names what the directory has.
RecordHolds(p) ==
    record[p] # None =>
      \/ p \in tainted \/ dir[p] = {} \/ tmp[p] # {} \/ Clearing(p)
      \/ dir[p] = {record[p]}
Recorded == \A p \in LBs : RecordHolds(p)

(* What the variables hold. *)
IterTyped ==
    /\ want \in ViewFcn /\ goal \in ViewFcn
    /\ pc \in {"idle", "list", "apply"} /\ todo \subseteq LBs /\ listed \subseteq LBs
    /\ changes \in 0..MaxChanges /\ faults \in 0..MaxFaults

MetaTyped == meta \in ViewFcn /\ metaFile \in ViewFcn /\ recordFile \in UrlFcn

DiskTyped ==
    /\ files \in TextFcn /\ certs \in [LBs -> OrNone(Confs)]
    /\ tunnels \in [LBs -> OrNone(Tunnel)]
    /\ served \in OrNone(TextFcn) /\ reached \in {"files", "reload", "end"}

DirTyped ==
    /\ record \in UrlFcn /\ future \in JobFcn /\ lostJobs \in LostFcn
    /\ dir \in [LBs -> SUBSET Urls] /\ tmp \in [LBs -> SUBSET Urls] /\ tainted \subseteq LBs

Typed == IterTyped /\ MetaTyped /\ DiskTyped /\ DirTyped

IInv == Typed /\ Working /\ Loaded /\ Recorded

-----------------------------------------------------------------------------
(* Views and what is rendered *)

LEMMA NoneIsNone ==
    /\ None \notin View /\ None \notin Text /\ None \notin Tunnel
    /\ None \notin Job /\ None \notin Urls /\ None \notin Confs
BY LoadBalancerAssumption

LEMMA AppliedViews ==
    ASSUME MetaTyped, NEW l \in LBs, NEW v \in OrNone(View)
    PROVE  /\ DataplaneViews(l, v) \in ViewFcn
           /\ DataplaneViews(l, v)[l] = v
           /\ \A k \in LBs \ {l} : DataplaneViews(l, v)[k] = meta[k]
BY DEF MetaTyped, DataplaneViews, ViewFcn

LEMMA RenderedViews ==
    ASSUME NEW views \in ViewFcn
    PROVE  /\ Rendered(views) \in TextFcn
           /\ \A l \in LBs : IF views[l] = None THEN Rendered(views)[l] = None
                ELSE Rendered(views)[l] # None /\ Rendered(views)[l].conf = views[l].conf
<1>1. \A l \in LBs : IsDefault(views, l) \in BOOLEAN
  BY DEF IsDefault
<1>2. \A l \in LBs : views[l] # None =>
        [conf |-> views[l].conf, default |-> IsDefault(views, l)] \in Text
  BY <1>1 DEF ViewFcn, OrNone, View, Text
<1>3. \A l \in LBs : Rendered(views)[l] =
        IF views[l] = None THEN None
        ELSE [conf |-> views[l].conf, default |-> IsDefault(views, l)]
  BY DEF Rendered
<1>4. Rendered(views) \in TextFcn
  BY <1>2 DEF Rendered, TextFcn, OrNone
<1>5. \A l \in LBs :
        [conf |-> views[l].conf, default |-> IsDefault(views, l)].conf = views[l].conf
  OBVIOUS
<1>6. \A l \in LBs : views[l] # None =>
        [conf |-> views[l].conf, default |-> IsDefault(views, l)] # None
  BY <1>2, NoneIsNone
<1>7. ASSUME NEW l \in LBs, views[l] = None PROVE Rendered(views)[l] = None
  BY <1>3, <1>7
<1>8. ASSUME NEW l \in LBs, views[l] # None
      PROVE  Rendered(views)[l] # None /\ Rendered(views)[l].conf = views[l].conf
  <2>1. Rendered(views)[l] = [conf |-> views[l].conf, default |-> IsDefault(views, l)]
    BY <1>3, <1>8
  <2> QED BY <1>5, <1>6, <1>8, <2>1, Zenon
<1> QED BY <1>4, <1>7, <1>8

-----------------------------------------------------------------------------
(* Jobs *)

\* What the other steps of a directory do to a job leaves it a job, and one
\* that is about to be recorded as it is.
LEMMA TurnedJob ==
    ASSUME NEW turn \in Turns, NEW k \in OrNone(ProperJob)
    PROVE  /\ Turned(k, turn) \in OrNone(ProperJob)
           /\ k = None <=> Turned(k, turn) = None
           /\ k # None /\ k.state = "cleared" => Turned(k, turn) = k
<1>1. CASE k = None
  BY <1>1 DEF Turned, OrNone
<1>2. CASE k # None
  <2>1. k \in ProperJob
    BY <1>2 DEF OrNone
  <2>2. \A s \in DOMAIN turn : turn[s] \in JobState /\ s \in {"running", "moved"}
    <3>1. CASE turn = Undisturbed
      BY <3>1 DEF Undisturbed
    <3>2. CASE turn = Swapped
      BY <3>2 DEF Swapped, JobState
    <3>3. CASE turn = TmpRemoved
      BY <3>3 DEF TmpRemoved, JobState
    <3>4. CASE turn = AllRemoved
      BY <3>4 DEF AllRemoved, JobState
    <3> QED BY <3>1, <3>2, <3>3, <3>4 DEF Turns
  <2>3. \A s \in JobState : k.url # None => [k EXCEPT !.state = s] \in ProperJob
    BY <2>1 DEF Job, JobState, ProperJob
  <2>4. k.state \in {"running", "moved"} => k.url # None
    BY <2>1 DEF ProperJob
  <2>5. Turned(k, turn) \in ProperJob
    BY <2>1, <2>2, <2>3, <2>4, <1>2 DEF Turned
  <2>6. Turned(k, turn) # None
    BY <2>5, NoneIsNone DEF ProperJob
  <2> QED BY <1>2, <2>2, <2>5, <2>6 DEF Turned, OrNone
<1> QED BY <1>1, <1>2

LEMMA JobsTyped ==
    ASSUME DirTyped, NEW p \in LBs
    PROVE  Jobs(p) \subseteq ProperJob
BY DEF DirTyped, Jobs, JobFcn, LostFcn, OrNone

\* A job that goes on: the others of its directory are turned, those of other
\* directories stay as they are.
LEMMA BecomesStep ==
    ASSUME DirTyped, NEW p \in LBs, NEW j \in Jobs(p), NEW s \in JobState,
           j.url # None \/ s = "done", NEW turn \in Turns, Becomes(p, j, s, turn)
    PROVE  /\ future' \in JobFcn /\ lostJobs' \in LostFcn
           /\ \A q \in LBs \ {p} : future'[q] = future[q] /\ lostJobs'[q] = lostJobs[q]
           /\ \A k \in Jobs(p) \ {j} : k.state = "cleared" => k \in Jobs(p)'
           /\ s = "cleared" => Clearing(p)'
<1> DEFINE next == [j EXCEPT !.state = s]
           others(S) == {Turned(k, turn) : k \in S}
           past == IF Finished(next) THEN {} ELSE {next}
<1>1. next \in ProperJob /\ next # None /\ next.state = s
  BY JobsTyped, NoneIsNone DEF Job, JobState, ProperJob
<1>2. \A S \in SUBSET ProperJob : others(S) \in SUBSET ProperJob
  BY TurnedJob, NoneIsNone DEF OrNone, ProperJob
<1>3. \A S \in SUBSET ProperJob : \A k \in S : k.state = "cleared" => k \in others(S)
  BY TurnedJob, NoneIsNone DEF OrNone, ProperJob
<1>4. past \subseteq {next} /\ (s = "cleared" => past = {next})
  BY <1>1 DEF Finished
<1>5. future \in JobFcn /\ lostJobs \in LostFcn /\ lostJobs[p] \in SUBSET ProperJob
  BY DEF DirTyped, LostFcn
<1>6. \/ /\ future[p] = j
         /\ future' = [future EXCEPT ![p] = next]
         /\ lostJobs' = [lostJobs EXCEPT ![p] = others(lostJobs[p])]
      \/ /\ j \in lostJobs[p]
         /\ lostJobs' = [lostJobs EXCEPT ![p] = others(lostJobs[p] \ {j}) \cup past]
         /\ future' = [future EXCEPT ![p] = Turned(future[p], turn)]
  BY <1>5 DEF Becomes, JobFcn, LostFcn
<1> HIDE DEF next, others, past
<1>7. CASE /\ future[p] = j
           /\ future' = [future EXCEPT ![p] = next]
           /\ lostJobs' = [lostJobs EXCEPT ![p] = others(lostJobs[p])]
  <2>1. future'[p] = next /\ lostJobs'[p] = others(lostJobs[p])
    BY <1>5, <1>7 DEF JobFcn, LostFcn
  <2>2. others(lostJobs[p]) \in SUBSET ProperJob
    BY <1>2, <1>5
  <2>3. future' \in JobFcn /\ lostJobs' \in LostFcn
    BY <1>1, <1>5, <1>7, <2>2 DEF JobFcn, LostFcn, OrNone
  <2>4. ASSUME NEW k \in Jobs(p) \ {j}, k.state = "cleared" PROVE k \in Jobs(p)'
    <3>1. k \in lostJobs[p] /\ k # None
      BY <1>7, <2>4 DEF Jobs
    <3> QED BY <1>3, <1>5, <2>1, <2>4, <3>1 DEF Jobs
  <2>5. s = "cleared" => Clearing(p)'
    BY <1>1, <2>1 DEF Clearing, Jobs
  <2>6. \A q \in LBs \ {p} : future'[q] = future[q] /\ lostJobs'[q] = lostJobs[q]
    BY <1>5, <1>7 DEF JobFcn, LostFcn
  <2> QED BY <2>3, <2>4, <2>5, <2>6
<1>8. CASE /\ j \in lostJobs[p]
           /\ lostJobs' = [lostJobs EXCEPT ![p] = others(lostJobs[p] \ {j}) \cup past]
           /\ future' = [future EXCEPT ![p] = Turned(future[p], turn)]
  <2>1. /\ future'[p] = Turned(future[p], turn)
        /\ lostJobs'[p] = others(lostJobs[p] \ {j}) \cup past
    BY <1>5, <1>8 DEF JobFcn, LostFcn
  <2>2. others(lostJobs[p] \ {j}) \cup past \in SUBSET ProperJob
    <3>1. lostJobs[p] \ {j} \in SUBSET ProperJob
      BY <1>5
    <3> QED BY <1>1, <1>2, <1>4, <3>1
  <2>3. future[p] \in OrNone(ProperJob)
    BY <1>5 DEF JobFcn
  <2>4. future' \in JobFcn /\ lostJobs' \in LostFcn
    BY <1>5, <1>8, <2>2, <2>3, TurnedJob DEF JobFcn, LostFcn
  <2>5. ASSUME NEW k \in Jobs(p) \ {j}, k.state = "cleared" PROVE k \in Jobs(p)'
    <3>1. CASE k = future[p]
      BY <2>1, <2>3, <2>5, <3>1, TurnedJob DEF Jobs
    <3>2. CASE k \in lostJobs[p] \ {j}
      <4>1. k \in others(lostJobs[p] \ {j})
        BY <1>3, <1>5, <2>5, <3>2
      <4> QED BY <2>1, <2>5, <4>1 DEF Jobs
    <3> QED BY <2>5, <3>1, <3>2 DEF Jobs
  <2>6. s = "cleared" => Clearing(p)'
    BY <1>1, <1>4, <2>1 DEF Clearing, Jobs
  <2>7. \A q \in LBs \ {p} : future'[q] = future[q] /\ lostJobs'[q] = lostJobs[q]
    BY <1>5, <1>8 DEF JobFcn, LostFcn
  <2> QED BY <2>4, <2>5, <2>6, <2>7
<1> QED BY <1>6, <1>7, <1>8

-----------------------------------------------------------------------------
(* restore_from_dp *)

\* The futures and the records, but for some: only futures that are finished
\* are dropped.
KeptJobs(f) ==
    f \in JobFcn /\ \A p \in LBs : f[p] = future[p] \/ (f[p] = None /\ Finished(future[p]))
KeptRecord(f) == f \in UrlFcn /\ \A p \in LBs : f[p] \in {record[p], None}

LEMMA AllKept == ASSUME DirTyped PROVE KeptJobs(future) /\ KeptRecord(record)
BY DEF DirTyped, KeptJobs, KeptRecord, JobFcn, UrlFcn

LEMMA PoppedKept ==
    ASSUME DirTyped, NEW S, \A p \in S : Finished(future[p])
    PROVE  KeptJobs(Popped(future, S))
BY DEF DirTyped, KeptJobs, JobFcn, OrNone, Popped

LEMMA PoppedRecord ==
    ASSUME DirTyped, NEW S
    PROVE  KeptRecord(Popped(record, S))
BY DEF DirTyped, KeptRecord, UrlFcn, OrNone, Popped

LEMMA OutcomeFields ==
    ASSUME NEW f, NEW g
    PROVE  /\ Invalid(f, g).future = f /\ Invalid(f, g).record = g
           /\ Restores(f, g).future = f
           /\ Restores(f, g).record = g
BY Zenon DEF Invalid, Restores

LEMMA InvalidNotOk == ASSUME NEW f, NEW g, NEW r, r.ok PROVE r # Invalid(f, g)
<1>1. Invalid(f, g).ok = FALSE
  BY Zenon DEF Invalid
<1> QED BY <1>1, Zenon

\* A validation keeps the jobs and records, but for those that it drops.
LEMMA RestoredStep ==
    ASSUME DirTyped, NEW l \in LBs, NEW r \in Restored(l)
    PROVE  KeptJobs(r.future) /\ KeptRecord(r.record)
<1> DEFINE done   == {p \in LBs : Finished(future[p]) /\ future[p].state = "done"}
           failed == {p \in LBs : Finished(future[p])} \ done
           broken == {p \in TargetPaths(meta) : ~Complete(p, meta[p].url)}
<1>1. CASE r = Invalid(future, record)
  BY <1>1, OutcomeFields, AllKept
<1>2. ASSUME NEW S \in SUBSET (done \cup failed), r = Invalid(Popped(future, S), record)
      PROVE  KeptJobs(r.future) /\ KeptRecord(r.record)
  <2>1. KeptJobs(Popped(future, S))
    BY PoppedKept
  <2> QED BY <1>2, <2>1, OutcomeFields, AllKept
<1>3. ASSUME NEW p, r = Invalid(Popped(future, done), Popped(record, {p}))
      PROVE  KeptJobs(r.future) /\ KeptRecord(r.record)
  <2>1. KeptJobs(Popped(future, done)) /\ KeptRecord(Popped(record, {p}))
    BY PoppedKept, PoppedRecord
  <2> QED BY <1>3, <2>1, OutcomeFields
<1>4. CASE r = Restores(Popped(future, done), record)
  <2>1. KeptJobs(Popped(future, done))
    BY PoppedKept
  <2>2. r.future = Popped(future, done) /\ r.record = record
    BY <1>4, OutcomeFields
  <2> QED BY <2>1, <2>2, AllKept
<1>5. \/ r = Invalid(future, record)
      \/ \E S \in SUBSET (done \cup failed) : r = Invalid(Popped(future, S), record)
      \/ \E p \in broken : r = Invalid(Popped(future, done), Popped(record, {p}))
      \/ r = Restores(Popped(future, done), record)
  BY DEF Restored
<1> QED BY <1>1, <1>2, <1>3, <1>4, <1>5

\* What a validation that succeeds has found.
LEMMA RestoredValid ==
    ASSUME NEW l \in LBs, NEW r \in Restored(l), r.ok
    PROVE  FilesValid(l) /\ \A p \in TargetPaths(meta) : Complete(p, meta[p].url)
<1> DEFINE done   == {p \in LBs : Finished(future[p]) /\ future[p].state = "done"}
           failed == {p \in LBs : Finished(future[p])} \ done
           broken == {p \in TargetPaths(meta) : ~Complete(p, meta[p].url)}
<1>1. \A f, g : r # Invalid(f, g)
  BY InvalidNotOk
<1>2. FilesValid(l)
  BY <1>1 DEF Restored
<1>3. failed = {}
  BY <1>1, <1>2 DEF Restored
<1>4. broken = {}
  BY <1>1, <1>2, <1>3 DEF Restored
<1> QED BY <1>2, <1>4

LEMMA GotStep ==
    ASSUME DirTyped, NEW l \in LBs, NEW r \in Got(l)
    PROVE  KeptJobs(r.future) /\ KeptRecord(r.record)
<1>1. CASE meta[l] = None
  BY <1>1, OutcomeFields, AllKept DEF Got
<1>2. CASE meta[l] # None
  BY <1>2, RestoredStep DEF Got
<1> QED BY <1>1, <1>2

-----------------------------------------------------------------------------
(* dump_to_dp *)

LEMMA QueuedJob == \A u \in OrNone(Urls) : Queued(u) \in ProperJob
BY DEF Queued, Job, ProperJob, OrNone

LEMMA SubmittedJobs ==
    ASSUME NEW views \in ViewFcn, NEW futures \in JobFcn, NEW records
    PROVE  Submitted(views, futures, records) \in JobFcn
<1>1. \A p \in Downloads(views, futures, records) : views[p].url \in Urls
  BY DEF Downloads, TargetPaths, Present, ViewFcn, OrNone, View
<1>2. \A p \in Downloads(views, futures, records) : Queued(views[p].url) \in ProperJob
  BY <1>1, QueuedJob DEF OrNone
<1>3. Queued(None) \in ProperJob
  BY QueuedJob DEF OrNone
<1> QED BY <1>2, <1>3 DEF Submitted, JobFcn, OrNone

LEMMA ReplacedJobs ==
    ASSUME DirTyped, NEW views, NEW futures \in JobFcn
    PROVE  Replaced(views, futures) \in LostFcn
<1>1. \A p \in LBs : Unfinished(futures[p]) => futures[p] \in ProperJob
  BY DEF Unfinished, JobFcn, OrNone
<1>2. \A p \in LBs : lostJobs[p] \in SUBSET ProperJob
  BY DEF DirTyped, LostFcn
<1> QED BY <1>1, <1>2 DEF Replaced, LostFcn

\* No apply loses a job that is about to record its download.
LEMMA ClearingKept ==
    ASSUME DirTyped, NEW views, NEW stage \in 0..6, NEW futures, KeptJobs(futures), NEW records,
           Directories(views, stage, futures, records),
           NEW p \in LBs, Clearing(p)
    PROVE  Clearing(p)'
<1>1. PICK j \in Jobs(p) : j.state = "cleared"
  BY DEF Clearing
<1>2. j # None /\ Unfinished(j)
  BY <1>1 DEF Jobs, Unfinished, Finished
<1>3. CASE j \in lostJobs[p]
  <2>1. j \in lostJobs'[p]
    BY <1>3 DEF Directories, Replaced
  <2> QED BY <1>1, <1>2, <2>1 DEF Clearing, Jobs
<1>4. CASE j = future[p]
  <2>1. futures[p] = j
    BY <1>2, <1>4 DEF KeptJobs, Unfinished
  <2>2. p \notin Downloads(views, futures, records)
    BY <1>2, <2>1 DEF Downloads
  <2>3. CASE stage >= 3 /\ p \in Orphans(views)
    <3>1. lostJobs' = Replaced(views, futures)
      BY <2>3 DEF Directories
    <3>2. j \in lostJobs'[p]
      BY <1>2, <2>1, <2>3, <3>1 DEF Replaced, LostFcn
    <3> QED BY <1>1, <1>2, <3>2 DEF Clearing, Jobs
  <2>4. CASE ~(stage >= 3 /\ p \in Orphans(views))
    <3>1. future'[p] = j
      BY <2>1, <2>2, <2>4 DEF Directories, Submitted
    <3> QED BY <1>1, <1>2, <3>1 DEF Clearing, Jobs
  <2> QED BY <2>3, <2>4
<1> QED BY <1>1, <1>3, <1>4 DEF Jobs

\* However far an apply gets, the types stay, nginx has loaded the files if it
\* was reloaded, and the records hold.
LEMMA DumpTunnels ==
    ASSUME DiskTyped, NEW views \in ViewFcn, NEW stage \in 0..6, Tunnels(views, stage)
    PROVE  tunnels' \in [LBs -> OrNone(Tunnel)]
<1>1. tunnels \in [LBs -> OrNone(Tunnel)]
  BY DEF DiskTyped
<1>2. ASSUME NEW l \in LBs
      PROVE  tunnels[l] \in OrNone(Tunnel) /\ Running(l) \in OrNone(Confs)
  BY <1>1 DEF Running, Tunnel, OrNone
<1>3. ASSUME NEW l \in LBs, views[l] # None
      PROVE  Enabled(views, l) \in Tunnel /\ Written(views, l) \in Tunnel
  BY <1>2, <1>3 DEF Enabled, Written, Tunnel, View, ViewFcn, OrNone
<1>4. CASE stage < 5
  BY <1>1, <1>4 DEF Tunnels
<1>5. CASE stage = 5
  <2>1. PICK done \in SUBSET Present(views), cut \in SUBSET Present(views) :
          tunnels' = [l \in LBs |-> IF l \in done THEN Enabled(views, l)
                                   ELSE IF l \in cut THEN Written(views, l)
                                   ELSE tunnels[l]]
    BY <1>5 DEF Tunnels
  <2>2. \A l \in done \cup cut : l \in LBs /\ views[l] # None
    BY DEF Present
  <2> QED BY <1>2, <1>3, <2>1, <2>2 DEF OrNone
<1>6. CASE stage = 6
  BY <1>3, <1>6 DEF Tunnels, OrNone
<1> QED BY <1>4, <1>5, <1>6

LEMMA DumpStep ==
    ASSUME DirTyped, DiskTyped, Loaded, Recorded,
           NEW views \in ViewFcn, NEW stage \in 0..6,
           NEW futures, KeptJobs(futures), NEW records, KeptRecord(records),
           Dump(views, stage, futures, records)
    PROVE  DirTyped' /\ DiskTyped' /\ Loaded' /\ Recorded'
<1>1. Rendered(views) \in TextFcn
  BY RenderedViews
<1>2. files' = (IF stage < 1 THEN files ELSE Rendered(views))
  BY DEF Dump
<1>3. served' \in {served, None, Rendered(views)}
  BY DEF Dump, ReloadOrRestart
<1>4. stage >= 4 => served' \in {None, Rendered(views)}
  BY DEF Dump, ReloadOrRestart
<1>5. stage < 4 => served' = served
  BY DEF Dump, ReloadOrRestart
<1>6. reached' = Reached(stage)
  BY DEF Dump
<1>7. DiskTyped'
  <2>1. certs' \in [LBs -> OrNone(Confs)]
    BY DEF Dump, Certificates, DiskTyped, ViewFcn, OrNone, View
  <2>2. tunnels' \in [LBs -> OrNone(Tunnel)]
    BY DumpTunnels DEF Dump
  <2>3. files' \in TextFcn
    BY <1>1, <1>2 DEF DiskTyped
  <2>4. served' \in OrNone(TextFcn)
    BY <1>1, <1>3 DEF DiskTyped, OrNone
  <2>5. reached' \in {"files", "reload", "end"}
    BY <1>6 DEF DiskTyped, Reached
  <2> QED BY <2>1, <2>2, <2>3, <2>4, <2>5 DEF DiskTyped
<1>8. Loaded'
  <2>1. CASE stage < 1
    <3>1. files' = files /\ served' = served /\ reached' = reached
      BY <1>2, <1>5, <1>6, <2>1 DEF Reached
    <3> QED BY <3>1 DEF Loaded, Unloaded
  <2>2. CASE stage >= 1 /\ stage < 4
    <3>1. reached' = "files"
      BY <1>6, <2>2 DEF Reached
    <3> QED BY <3>1 DEF Loaded, Unloaded
  <2>3. CASE stage >= 4
    <3>1. files' = Rendered(views) /\ served' \in {None, Rendered(views)}
      BY <1>2, <1>4, <2>3
    <3> QED BY <3>1 DEF Loaded
  <2> QED BY <2>1, <2>2, <2>3
<1>9. Directories(views, stage, futures, records) /\ UNCHANGED dirVars
  BY DEF Dump
<1>10. record' = records
  BY <1>9 DEF Directories
<1>11. DirTyped'
  <2>1. futures \in JobFcn
    BY DEF KeptJobs
  <2>2. future' \in JobFcn
    BY <1>9, <2>1, SubmittedJobs DEF Directories
  <2>3. lostJobs' \in LostFcn
    BY <1>9, <2>1, ReplacedJobs DEF Directories, DirTyped
  <2> QED BY <1>9, <1>10, <2>2, <2>3 DEF KeptRecord, DirTyped, dirVars
<1>12. Recorded'
  <2> SUFFICES ASSUME NEW p \in LBs, record'[p] # None PROVE RecordHolds(p)'
    BY DEF Recorded, RecordHolds
  <2>1. record'[p] = record[p]
    BY <1>10 DEF KeptRecord
  <2>2. Clearing(p) => Clearing(p)'
    BY <1>9, ClearingKept
  <2>3. RecordHolds(p)
    BY DEF Recorded
  <2> QED BY <1>9, <2>1, <2>2, <2>3 DEF RecordHolds, dirVars
<1> QED BY <1>7, <1>8, <1>11, <1>12

-----------------------------------------------------------------------------
(* The threads of the downloads *)

LEMMA FaultBound == ASSUME IterTyped, Fault \/ Unfaulted PROVE faults' \in 0..MaxFaults
BY LoadBalancerAssumption DEF IterTyped, Fault, Unfaulted

\* The records of the other directories hold after a step of one.
LEMMA OthersRecorded ==
    ASSUME Recorded, NEW p \in LBs,
           \A q \in LBs \ {p} :
             /\ record'[q] = record[q] /\ dir'[q] = dir[q] /\ tmp'[q] = tmp[q]
             /\ future'[q] = future[q] /\ lostJobs'[q] = lostJobs[q]
             /\ q \in tainted => q \in tainted',
           RecordHolds(p)'
    PROVE  Recorded'
<1> SUFFICES ASSUME NEW q \in LBs \ {p} PROVE RecordHolds(q)'
  BY DEF Recorded
<1>1. RecordHolds(q)
  BY DEF Recorded
<1>2. Clearing(q) => Clearing(q)'
  BY DEF Clearing, Jobs
<1> QED BY <1>1, <1>2 DEF RecordHolds

LEMMA StartDownloadStep ==
    ASSUME DirTyped, Recorded, NEW p \in LBs, StartDownload(p)
    PROVE  DirTyped' /\ Recorded'
<1>1. PICK j \in Jobs(p) :
        /\ j.state = "queued" /\ j.url # None
        /\ LET writing == {k \in Jobs(p) \ {j} : k.state = "running"}
           IN  tmp' = [tmp EXCEPT ![p] = {j.url} \cup {k.url : k \in writing}]
        /\ Becomes(p, j, "running", Undisturbed)
        /\ UNCHANGED <<dir, tainted, record>>
  BY DEF StartDownload
<1> DEFINE writing == {k \in Jobs(p) \ {j} : k.state = "running"}
           urls == {j.url} \cup {k.url : k \in writing}
<1>2. Jobs(p) \subseteq ProperJob
  BY JobsTyped
<1>3. urls \subseteq Urls /\ urls # {}
  BY <1>1, <1>2 DEF ProperJob, Job, OrNone
<1>4. tmp' = [tmp EXCEPT ![p] = urls]
  BY <1>1
<1> HIDE DEF urls
<1>5. /\ future' \in JobFcn /\ lostJobs' \in LostFcn
      /\ \A q \in LBs \ {p} : future'[q] = future[q] /\ lostJobs'[q] = lostJobs[q]
  BY <1>1, BecomesStep DEF Turns, JobState
<1>6. DirTyped'
  BY <1>1, <1>3, <1>4, <1>5 DEF DirTyped
<1>7. tmp'[p] # {} /\ \A q \in LBs \ {p} : tmp'[q] = tmp[q]
  BY <1>3, <1>4 DEF DirTyped
<1>8. RecordHolds(p)'
  BY <1>7 DEF RecordHolds
<1>9. Recorded'
  BY <1>1, <1>5, <1>7, <1>8, OthersRecorded
<1> QED BY <1>6, <1>9

LEMMA SwapDirsStep ==
    ASSUME DirTyped, Recorded, NEW p \in LBs, SwapDirs(p)
    PROVE  DirTyped' /\ Recorded'
<1>1. PICK j \in Jobs(p) :
        /\ j.state \in {"running", "moved"}
        /\ dir' = [dir EXCEPT ![p] = tmp[p]]
        /\ tmp' = [tmp EXCEPT ![p] = dir[p]]
        /\ tainted' = IF tmp[p] = {j.url} THEN tainted \ {p} ELSE tainted \cup {p}
        /\ Becomes(p, j, IF dir[p] = {} THEN "cleared" ELSE "swapped", Swapped)
        /\ UNCHANGED record
  BY DEF SwapDirs
<1> DEFINE s == IF dir[p] = {} THEN "cleared" ELSE "swapped"
<1>2. j.url # None
  BY <1>1, JobsTyped DEF ProperJob
<1>3. s \in JobState /\ Becomes(p, j, s, Swapped)
  BY <1>1 DEF JobState
<1>4. dir[p] = {} => s = "cleared"
  OBVIOUS
<1> HIDE DEF s
<1>5. /\ future' \in JobFcn /\ lostJobs' \in LostFcn
      /\ \A q \in LBs \ {p} : future'[q] = future[q] /\ lostJobs'[q] = lostJobs[q]
      /\ s = "cleared" => Clearing(p)'
  BY <1>2, <1>3, BecomesStep DEF Turns
<1>6. /\ tmp'[p] = dir[p]
      /\ \A q \in LBs \ {p} : tmp'[q] = tmp[q] /\ dir'[q] = dir[q]
  BY <1>1 DEF DirTyped
<1>7. DirTyped'
  BY <1>1, <1>5 DEF DirTyped
<1>8. RecordHolds(p)'
  BY <1>4, <1>5, <1>6 DEF RecordHolds
<1>9. \A q \in LBs \ {p} : q \in tainted => q \in tainted'
  BY <1>1
<1>10. Recorded'
  BY <1>1, <1>5, <1>6, <1>8, <1>9, OthersRecorded
<1> QED BY <1>7, <1>10

LEMMA RemoveTmpStep ==
    ASSUME DirTyped, Recorded, NEW p \in LBs, RemoveTmp(p)
    PROVE  DirTyped' /\ Recorded'
<1>1. PICK j \in Jobs(p) :
        /\ j.state = "swapped"
        /\ tmp' = [tmp EXCEPT ![p] = {}]
        /\ Becomes(p, j, "cleared", TmpRemoved)
        /\ UNCHANGED <<dir, tainted, record>>
  BY DEF RemoveTmp
<1>2. j.url # None
  BY <1>1, JobsTyped DEF ProperJob
<1>3. /\ future' \in JobFcn /\ lostJobs' \in LostFcn
      /\ \A q \in LBs \ {p} : future'[q] = future[q] /\ lostJobs'[q] = lostJobs[q]
      /\ Clearing(p)'
  BY <1>1, <1>2, BecomesStep DEF Turns, JobState
<1>4. DirTyped'
  BY <1>1, <1>3 DEF DirTyped
<1>5. \A q \in LBs \ {p} : tmp'[q] = tmp[q]
  BY <1>1 DEF DirTyped
<1>6. RecordHolds(p)'
  BY <1>3 DEF RecordHolds
<1>7. Recorded'
  BY <1>1, <1>3, <1>5, <1>6, OthersRecorded
<1> QED BY <1>4, <1>7

LEMMA RecordDownloadStep ==
    ASSUME DirTyped, Recorded, NEW p \in LBs, RecordDownload(p)
    PROVE  DirTyped' /\ Recorded'
<1>1. PICK j \in Jobs(p) :
        /\ j.state = "cleared"
        /\ record' = [record EXCEPT ![p] = j.url]
        /\ tainted' = IF dir[p] = {j.url} THEN tainted ELSE tainted \cup {p}
        /\ Becomes(p, j, "done", Undisturbed)
        /\ UNCHANGED <<dir, tmp>>
  BY DEF RecordDownload
<1>2. j.url \in OrNone(Urls)
  BY JobsTyped DEF ProperJob, Job
<1>3. /\ future' \in JobFcn /\ lostJobs' \in LostFcn
      /\ \A q \in LBs \ {p} : future'[q] = future[q] /\ lostJobs'[q] = lostJobs[q]
  BY <1>1, BecomesStep DEF Turns, JobState
<1>4. DirTyped'
  BY <1>1, <1>2, <1>3 DEF DirTyped, UrlFcn
<1>5. record'[p] = j.url /\ \A q \in LBs \ {p} : record'[q] = record[q]
  BY <1>1 DEF DirTyped, UrlFcn
<1>6. RecordHolds(p)'
  BY <1>1, <1>5 DEF RecordHolds
<1>7. Recorded'
  BY <1>1, <1>3, <1>5, <1>6, OthersRecorded
<1> QED BY <1>4, <1>7

\* A download that is about to be recorded does not fail.
LEMMA DownloadFailsStep ==
    ASSUME DirTyped, Recorded, NEW p \in LBs, DownloadFails(p)
    PROVE  DirTyped' /\ Recorded'
<1>1. PICK j \in Jobs(p) :
        /\ j.state \in {"queued", "running", "moved", "swapped", "deleted"}
        /\ j.state = "queued" => j.url # None
        /\ Becomes(p, j, "failed", Undisturbed)
        /\ UNCHANGED <<dir, tmp, tainted, record>>
  BY DEF DownloadFails, dirVars
<1>2. j.url # None
  BY <1>1, JobsTyped DEF ProperJob
<1>3. /\ future' \in JobFcn /\ lostJobs' \in LostFcn
      /\ \A q \in LBs \ {p} : future'[q] = future[q] /\ lostJobs'[q] = lostJobs[q]
      /\ \A k \in Jobs(p) \ {j} : k.state = "cleared" => k \in Jobs(p)'
  BY <1>1, <1>2, BecomesStep DEF Turns, JobState
<1>4. DirTyped'
  BY <1>1, <1>3 DEF DirTyped
<1>5. Clearing(p) => Clearing(p)'
  BY <1>1, <1>3 DEF Clearing
<1>6. RecordHolds(p)'
  BY <1>1, <1>5 DEF RecordHolds, Recorded
<1>7. Recorded'
  BY <1>1, <1>3, <1>6, OthersRecorded
<1> QED BY <1>4, <1>7

LEMMA CleanPathStep ==
    ASSUME DirTyped, Recorded, NEW p \in LBs, CleanPath(p)
    PROVE  DirTyped' /\ Recorded'
<1>1. PICK j \in Jobs(p) :
        /\ dir' = [dir EXCEPT ![p] = {}] /\ tmp' = [tmp EXCEPT ![p] = {}]
        /\ record' = [record EXCEPT ![p] = None]
        /\ tainted' = tainted \ {p}
        /\ Becomes(p, j, "done", AllRemoved)
  BY DEF CleanPath
<1>2. /\ future' \in JobFcn /\ lostJobs' \in LostFcn
      /\ \A q \in LBs \ {p} : future'[q] = future[q] /\ lostJobs'[q] = lostJobs[q]
  BY <1>1, BecomesStep DEF Turns, JobState
<1>3. DirTyped'
  BY <1>1, <1>2 DEF DirTyped, UrlFcn, OrNone
<1>4. /\ record'[p] = None
      /\ \A q \in LBs \ {p} :
           record'[q] = record[q] /\ tmp'[q] = tmp[q] /\ dir'[q] = dir[q]
  BY <1>1 DEF DirTyped, UrlFcn
<1>5. RecordHolds(p)'
  BY <1>4 DEF RecordHolds
<1>6. Recorded'
  BY <1>1, <1>2, <1>4, <1>5, OthersRecorded
<1> QED BY <1>3, <1>6

LEMMA ThreadStep ==
    ASSUME IInv, NEW p \in LBs, Thread(p)
    PROVE  IInv'
<1>1. DirTyped /\ Recorded /\ IterTyped /\ MetaTyped /\ DiskTyped
  BY DEF IInv, Typed
<1>2. DirTyped' /\ Recorded'
  BY <1>1, StartDownloadStep, SwapDirsStep, RemoveTmpStep, RecordDownloadStep,
     DownloadFailsStep, CleanPathStep DEF Thread
<1>3. JobStep /\ (Fault \/ Unfaulted)
  BY DEF Thread, StartDownload, SwapDirs, RemoveTmp, RecordDownload, DownloadFails, CleanPath
<1>4. faults' \in 0..MaxFaults
  BY <1>1, <1>3, FaultBound
<1>5. IterTyped' /\ MetaTyped' /\ DiskTyped'
  BY <1>1, <1>3, <1>4
     DEF JobStep, iterVars, metaVars, diskVars, IterTyped, MetaTyped, DiskTyped
<1>6. Working'
  BY <1>3 DEF JobStep, iterVars, metaVars, IInv, Working, Present
<1>7. Loaded'
  BY <1>3 DEF JobStep, diskVars, IInv, Loaded, Unloaded
<1> QED BY <1>2, <1>5, <1>6, <1>7 DEF IInv, Typed

-----------------------------------------------------------------------------
(* The iteration of the agent *)

LEMMA LastStage == ASSUME NEW views PROVE Last(views) \in 0..6
BY DEF Last

\* An LB is handled once, and it is wanted if it is created or updated.
LEMMA HandleStep ==
    ASSUME IInv, NEW l \in LBs, NEW rank \in {1, 2, 3}, Handle(l, rank),
           Fault \/ Unfaulted
    PROVE  /\ Working' /\ IterTyped' /\ l \in todo /\ todo' = todo \ {l}
           /\ rank = 2 <=> (l \in listed /\ goal[l] = None)
           /\ rank # 2 => goal[l] \in View
<1>1. IterTyped /\ Working
  BY DEF IInv, Typed
<1>2. faults' \in 0..MaxFaults
  BY <1>1, FaultBound
<1>3. IterTyped' /\ Working'
  BY <1>1, <1>2 DEF Handle, IterTyped, Working
<1>4. rank = 2 <=> (l \in listed /\ goal[l] = None)
  BY DEF Handle, Rank
<1>5. goal[l] \in OrNone(View) /\ (goal[l] # None \/ l \in listed)
  BY <1>1 DEF IterTyped, ViewFcn, Working, Handle
<1> QED BY <1>3, <1>4, <1>5 DEF Handle, OrNone

LEMMA RestoreRecorded ==
    ASSUME DirTyped, Recorded, KeptJobs(future'), KeptRecord(record'),
           UNCHANGED <<dirVars, lostJobs>>
    PROVE  DirTyped' /\ Recorded'
<1>1. DirTyped'
  BY DEF DirTyped, KeptJobs, KeptRecord, dirVars
<1>2. ASSUME NEW p \in LBs PROVE RecordHolds(p)'
  <2>1. RecordHolds(p)
    BY DEF Recorded
  <2>2. record'[p] \in {record[p], None}
    BY DEF KeptRecord
  <2>3. future'[p] = future[p] \/ Finished(future[p])
    BY DEF KeptJobs
  <2>4. Clearing(p) => Clearing(p)'
    BY <2>3 DEF Clearing, Jobs, Finished
  <2> QED BY <2>1, <2>2, <2>4 DEF RecordHolds, dirVars
<1> QED BY <1>1, <1>2 DEF Recorded

\* An apply, as far as it got: the view of the LB becomes v or stays.
LEMMA ApplyStep ==
    ASSUME IInv, NEW l \in LBs, NEW rank \in {1, 2, 3}, Handle(l, rank),
           Fault \/ Unfaulted,
           NEW v \in OrNone(View), NEW stage \in 0..6,
           NEW f, KeptJobs(f), NEW g, KeptRecord(g),
           Dump(DataplaneViews(l, v), stage, f, g),
           meta' \in {meta, [meta EXCEPT ![l] = v]}
    PROVE  IInv'
<1>1. DirTyped /\ DiskTyped /\ MetaTyped /\ Loaded /\ Recorded
  BY DEF IInv, Typed
<1>2. DataplaneViews(l, v) \in ViewFcn
  BY <1>1, AppliedViews
<1>3. DirTyped' /\ DiskTyped' /\ Loaded' /\ Recorded'
  BY <1>1, <1>2, DumpStep
<1>4. MetaTyped'
  BY <1>1, <1>2 DEF MetaTyped, DataplaneViews, Handle
<1>5. Working' /\ IterTyped'
  BY HandleStep
<1> QED BY <1>3, <1>4, <1>5 DEF IInv, Typed

LEMMA ListStep == ASSUME IInv, NEW l \in LBs, List(l) PROVE IInv'
<1>1. DirTyped /\ Recorded /\ IterTyped /\ MetaTyped /\ DiskTyped /\ Working /\ Loaded
  BY DEF IInv, Typed
<1>2. PICK r \in Restored(l) :
        /\ listed' \in {listed, listed \cup {l}}
        /\ future' = r.future /\ record' = r.record
  BY DEF List
<1>3. KeptJobs(future') /\ KeptRecord(record')
  BY <1>1, <1>2, RestoredStep
<1>4. DirTyped' /\ Recorded'
  BY <1>1, <1>3, RestoreRecorded DEF List
<1>5. IterTyped' /\ MetaTyped' /\ DiskTyped'
  BY <1>1, <1>2 DEF List, IterTyped, MetaTyped, DiskTyped, metaVars, diskVars
<1>6. Working' /\ Loaded'
  BY <1>1 DEF List, Working, Loaded, Unloaded, metaVars, diskVars, Present
<1> QED BY <1>4, <1>5, <1>6 DEF IInv, Typed

LEMMA KeepStep == ASSUME IInv, NEW l \in LBs, KeepLB(l) \/ SkipLB(l) PROVE IInv'
<1>1. DirTyped /\ Recorded /\ MetaTyped /\ DiskTyped /\ Loaded
  BY DEF IInv, Typed
<1>2. KeptJobs(future') /\ KeptRecord(record')
  <2>1. CASE KeepLB(l)
    BY <1>1, <2>1, GotStep DEF KeepLB
  <2>2. CASE SkipLB(l)
    BY <1>1, <2>2, AllKept DEF SkipLB, jobVars
  <2> QED BY <2>1, <2>2
<1>3. DirTyped' /\ Recorded'
  BY <1>1, <1>2, RestoreRecorded DEF KeepLB, SkipLB, jobVars
<1>4. Working' /\ IterTyped'
  BY HandleStep DEF KeepLB, SkipLB
<1>5. MetaTyped' /\ DiskTyped' /\ Loaded'
  BY <1>1 DEF KeepLB, SkipLB, Handle, MetaTyped, DiskTyped, Loaded, Unloaded, diskVars
<1> QED BY <1>3, <1>4, <1>5 DEF IInv, Typed

LEMMA CreateStep == ASSUME IInv, NEW l \in LBs, CreateLB(l) \/ CreateFails(l) PROVE IInv'
<1>1. Handle(l, 1) /\ (Fault \/ Unfaulted)
  BY DEF CreateLB, CreateFails
<1>2. goal[l] \in OrNone(View)
  BY <1>1, HandleStep DEF OrNone
<1>3. PICK r \in Got(l), stage \in 0..6 :
        /\ Dump(DataplaneViews(l, goal[l]), stage, r.future, r.record)
        /\ meta' \in {meta, [meta EXCEPT ![l] = goal[l]]}
  BY LastStage DEF CreateLB, CreateFails
<1>4. KeptJobs(r.future) /\ KeptRecord(r.record)
  BY GotStep DEF IInv, Typed
<1> QED BY <1>1, <1>2, <1>3, <1>4, ApplyStep

LEMMA DeleteStep == ASSUME IInv, NEW l \in LBs, DeleteLB(l) \/ DeleteFails(l) PROVE IInv'
<1>1. Handle(l, 2) /\ (Fault \/ Unfaulted)
  BY DEF DeleteLB, DeleteFails
<1>2. None \in OrNone(View)
  BY DEF OrNone
<1>3. PICK r \in Got(l), stage \in 0..6 :
        /\ Dump(DataplaneViews(l, None), stage, r.future, r.record)
        /\ meta' \in {meta, [meta EXCEPT ![l] = None]}
  BY LastStage DEF DeleteLB, DeleteFails
<1>4. KeptJobs(r.future) /\ KeptRecord(r.record)
  BY GotStep DEF IInv, Typed
<1> QED BY <1>1, <1>2, <1>3, <1>4, ApplyStep

LEMMA UpdateStep == ASSUME IInv, NEW l \in LBs, UpdateLB(l) \/ UpdateFails(l) PROVE IInv'
<1>1. Handle(l, 3) /\ (Fault \/ Unfaulted)
  BY DEF UpdateLB, UpdateFails
<1>2. goal[l] \in OrNone(View)
  BY <1>1, HandleStep DEF OrNone
<1>3. PICK stage \in 0..6 :
        /\ Dump(DataplaneViews(l, goal[l]), stage, future, record)
        /\ meta' \in {meta, [meta EXCEPT ![l] = goal[l]]}
  BY LastStage DEF UpdateLB, UpdateFails
<1>4. KeptJobs(future) /\ KeptRecord(record)
  BY AllKept DEF IInv, Typed
<1> QED BY <1>1, <1>2, <1>3, <1>4, ApplyStep

\* The steps that do not touch the disk: an iteration starts, has listed, ends.
LEMMA IterationStep ==
    ASSUME IInv, StartIteration \/ Listed \/ Finalize
    PROVE  IInv'
<1>1. IterTyped /\ MetaTyped /\ DiskTyped /\ DirTyped /\ Working /\ Loaded /\ Recorded
  BY DEF IInv, Typed
<1>2. UNCHANGED <<diskVars, dirVars, record, jobVars, faults, want, changes, meta>>
  BY DEF StartIteration, Listed, Finalize, metaVars
<1>3. DiskTyped' /\ DirTyped' /\ Loaded' /\ Recorded'
  BY <1>1, <1>2 DEF diskVars, dirVars, jobVars, DiskTyped, DirTyped, Loaded, Unloaded,
     Recorded, RecordHolds, Clearing, Jobs
<1>4. CASE StartIteration
  BY <1>1, <1>2, <1>3, <1>4 DEF StartIteration, metaVars, IInv, Typed, IterTyped, MetaTyped,
     Working, Present
<1>5. CASE Listed
  BY <1>1, <1>2, <1>3, <1>5 DEF Listed, metaVars, IInv, Typed, IterTyped, MetaTyped, Working
<1>6. CASE Finalize
  <2>1. goal' \in ViewFcn
    BY <1>6 DEF Finalize, EndIteration, Nothing, ViewFcn, OrNone
  <2> QED BY <1>1, <1>2, <1>3, <1>6, <2>1 DEF Finalize, EndIteration, IInv, Typed, IterTyped,
          MetaTyped, DirTyped, Working
<1> QED BY <1>4, <1>5, <1>6

\* A crash: a record that differs from the file, or that a job was about to
\* write, is named in the history.
LEMMA CrashStep == ASSUME IInv, Crash PROVE IInv'
<1>1. IterTyped /\ MetaTyped /\ DiskTyped /\ DirTyped /\ Working /\ Loaded /\ Recorded
  BY DEF IInv, Typed
<1>2. goal' \in ViewFcn /\ future' \in JobFcn /\ lostJobs' \in LostFcn
  BY DEF Crash, EndIteration, Nothing, Absent, ViewFcn, JobFcn, LostFcn, OrNone
<1>3. faults' \in 0..MaxFaults
  BY <1>1, FaultBound DEF Crash
<1>4. IterTyped' /\ MetaTyped' /\ Working'
  BY <1>1, <1>2, <1>3 DEF Crash, EndIteration, IterTyped, MetaTyped, Working
<1>5. DiskTyped' /\ Loaded'
  BY <1>1 DEF Crash, diskVars, DiskTyped, Loaded, Unloaded
<1>6. DirTyped'
  BY <1>1, <1>2 DEF Crash, DirTyped, MetaTyped
<1>7. ASSUME NEW p \in LBs, p \notin tainted' PROVE RecordHolds(p)'
  <2>1. p \notin tainted /\ record[p] = recordFile[p] /\ ~Clearing(p)
    BY <1>7 DEF Crash, Clearing
  <2>2. RecordHolds(p)
    BY <1>1 DEF Recorded
  <2> QED BY <2>1, <2>2 DEF RecordHolds, Crash
<1>8. Recorded'
  BY <1>7 DEF Recorded, RecordHolds
<1> QED BY <1>4, <1>5, <1>6, <1>8 DEF IInv, Typed

LEMMA WorldStep == ASSUME IInv, World PROVE IInv'
<1>1. IterTyped /\ MetaTyped /\ DiskTyped /\ DirTyped /\ Working /\ Loaded /\ Recorded
  BY DEF IInv, Typed
<1>2. UNCHANGED <<iterVars, metaVars, files, certs, tunnels, reached, dirVars, record,
                  recordFile, jobVars>>
  BY DEF World, NginxDies, ChangeTarget, diskVars
<1>3. MetaTyped' /\ DirTyped' /\ Recorded' /\ Working'
  BY <1>1, <1>2 DEF iterVars, metaVars, dirVars, jobVars, MetaTyped, DirTyped, Working,
     Present, Recorded, RecordHolds, Clearing, Jobs
<1>4. CASE NginxDies
  <2>1. faults' \in 0..MaxFaults
    BY <1>1, <1>4, FaultBound DEF NginxDies
  <2> QED BY <1>1, <1>2, <1>3, <1>4, <2>1 DEF NginxDies, iterVars, IInv, Typed, IterTyped,
          DiskTyped, Loaded, OrNone
<1>5. ASSUME NEW l \in LBs, ChangeTarget(l) PROVE IInv'
  <2>1. PICK w \in OrNone(WantedAs(l)) : want' = [want EXCEPT ![l] = w]
    BY <1>5 DEF ChangeTarget
  <2>2. want' \in ViewFcn
    BY <1>1, <2>1, LoadBalancerAssumption DEF IterTyped, ViewFcn, OrNone
  <2>3. changes' \in 0..MaxChanges
    BY <1>1, <1>5, LoadBalancerAssumption DEF ChangeTarget, IterTyped
  <2> QED BY <1>1, <1>2, <1>3, <1>5, <2>2, <2>3 DEF ChangeTarget, diskVars, iterVars, IInv,
          Typed, IterTyped, DiskTyped, Loaded, Unloaded
<1> QED BY <1>4, <1>5 DEF World

LEMMA InitInvariant == Init => IInv
<1> SUFFICES ASSUME Init PROVE IInv
  OBVIOUS
<1>1. /\ Nothing \in ViewFcn /\ Nothing \in TextFcn /\ Nothing \in UrlFcn
      /\ Nothing \in JobFcn /\ Nothing \in [LBs -> OrNone(Confs)]
      /\ Nothing \in [LBs -> OrNone(Tunnel)]
      /\ Absent \in LostFcn /\ Absent \in [LBs -> SUBSET Urls]
  BY DEF Nothing, Absent, ViewFcn, TextFcn, UrlFcn, JobFcn, LostFcn, OrNone
<1>2. IterTyped
  BY <1>1, LoadBalancerAssumption DEF Init, IterTyped, ViewFcn
<1>3. MetaTyped /\ DirTyped
  BY <1>1 DEF Init, MetaTyped, DirTyped
<1>4. DiskTyped
  BY <1>1 DEF Init, DiskTyped, OrNone
<1>5. Working /\ Loaded /\ Recorded
  BY DEF Init, Working, Loaded, Recorded, RecordHolds, Absent
<1> QED BY <1>2, <1>3, <1>4, <1>5 DEF IInv, Typed

LEMMA IndInvariance == Spec => []IInv
<1>1. IInv /\ [Next]_vars => IInv'
  <2> SUFFICES ASSUME IInv, [Next]_vars PROVE IInv'
    OBVIOUS
  <2>1. ASSUME NEW l \in LBs, LBStep(l) PROVE IInv'
    BY <2>1, ListStep, KeepStep, CreateStep, DeleteStep, UpdateStep DEF LBStep
  <2>2. CASE StartIteration \/ Listed \/ Finalize
    BY <2>2, IterationStep
  <2>3. CASE Crash
    BY <2>3, CrashStep
  <2>4. CASE World
    BY <2>4, WorldStep
  <2>5. ASSUME NEW p \in LBs, Thread(p) PROVE IInv'
    BY <2>5, ThreadStep
  <2>6. CASE UNCHANGED vars
    BY <2>6 DEF vars, iterVars, metaVars, diskVars, dirVars, jobVars, IInv, Typed, IterTyped,
       MetaTyped, DiskTyped, DirTyped, Working, Loaded, Unloaded, Recorded, RecordHolds,
       Clearing, Jobs, Present
  <2> QED BY <2>1, <2>2, <2>3, <2>4, <2>5, <2>6 DEF Next, Agent
<1> QED BY <1>1, InitInvariant, PTL DEF Spec

-----------------------------------------------------------------------------
(* The theorems *)

(* All variables have their types, and between iterations the storage is   *)
(* what its file says (finalize of the driver).                            *)
THEOREM LoadBalancerTypeCorrect == Spec => []TypeOK
<1>1. IInv => TypeOK
  BY DEF IInv, Typed, IterTyped, MetaTyped, DiskTyped, DirTyped, Working, TypeOK,
     ViewFcn, TextFcn, JobFcn, LostFcn, UrlFcn, ProperJob, OrNone
<1> QED BY <1>1, IndInvariance, PTL

\* What an apply of an LB leaves nginx with, if nginx is up: what it had
\* loaded, or every other LB as the storage has it.
LEMMA AppliedServed ==
    ASSUME MetaTyped, NEW l \in LBs, NEW v \in OrNone(View),
           NEW stage, NEW f, NEW g, Dump(DataplaneViews(l, v), stage, f, g),
           served' # None, served' # served, NEW k \in LBs, meta[k] # None,
           k = l => v = meta[k]
    PROVE  served'[k] # None /\ served'[k].conf = meta[k].conf
<1>1. DataplaneViews(l, v) \in ViewFcn /\ DataplaneViews(l, v)[k] = meta[k]
  BY AppliedViews
<1>2. served' = Rendered(DataplaneViews(l, v))
  BY DEF Dump, ReloadOrRestart
<1> QED BY <1>1, <1>2, RenderedViews

\* Only an apply of an LB loads the files, and it is of its target, or of none.
LEMMA OnlyAppliesLoad ==
    ASSUME IInv, [Next]_vars, served' # None, served' # served
    PROVE  \E l \in LBs, v \in OrNone(View), stage \in 0..6 : \E f, g :
             /\ Dump(DataplaneViews(l, v), stage, f, g)
             /\ todo \ todo' = {l} /\ v = goal[l]
<1>1. ASSUME NEW l \in LBs, LBStep(l) PROVE
        \E k \in LBs, v \in OrNone(View), stage \in 0..6 : \E f, g :
          /\ Dump(DataplaneViews(k, v), stage, f, g)
          /\ todo \ todo' = {k} /\ v = goal[k]
  <2>1. CASE List(l) \/ KeepLB(l) \/ SkipLB(l)
    BY <2>1 DEF List, KeepLB, SkipLB, diskVars
  <2>2. CASE CreateLB(l) \/ CreateFails(l)
    <3>1. Handle(l, 1) /\ (Fault \/ Unfaulted)
      BY <2>2 DEF CreateLB, CreateFails
    <3>2. goal[l] \in OrNone(View) /\ todo \ todo' = {l}
      BY <3>1, HandleStep DEF OrNone
    <3>3. PICK r \in Got(l), stage \in 0..6 :
            Dump(DataplaneViews(l, goal[l]), stage, r.future, r.record)
      BY <2>2, LastStage DEF CreateLB, CreateFails
    <3> QED BY <3>2, <3>3
  <2>3. CASE DeleteLB(l) \/ DeleteFails(l)
    <3>1. Handle(l, 2) /\ (Fault \/ Unfaulted)
      BY <2>3 DEF DeleteLB, DeleteFails
    <3>2. goal[l] = None /\ goal[l] \in OrNone(View) /\ todo \ todo' = {l}
      BY <3>1, HandleStep DEF OrNone
    <3>3. PICK r \in Got(l), stage \in 0..6 :
            Dump(DataplaneViews(l, None), stage, r.future, r.record)
      BY <2>3, LastStage DEF DeleteLB, DeleteFails
    <3> QED BY <3>2, <3>3
  <2>4. CASE UpdateLB(l) \/ UpdateFails(l)
    <3>1. Handle(l, 3) /\ (Fault \/ Unfaulted)
      BY <2>4 DEF UpdateLB, UpdateFails
    <3>2. goal[l] \in OrNone(View) /\ todo \ todo' = {l}
      BY <3>1, HandleStep DEF OrNone
    <3>3. PICK stage \in 0..6 : Dump(DataplaneViews(l, goal[l]), stage, future, record)
      BY <2>4, LastStage DEF UpdateLB, UpdateFails
    <3> QED BY <3>2, <3>3
  <2> QED BY <1>1, <2>1, <2>2, <2>3, <2>4 DEF LBStep
<1>2. CASE StartIteration \/ Listed \/ Finalize \/ Crash \/ UNCHANGED vars
  BY <1>2 DEF StartIteration, Listed, Finalize, Crash, vars, diskVars
<1>3. CASE World
  BY <1>3 DEF World, NginxDies, ChangeTarget, diskVars
<1>4. ASSUME NEW p \in LBs, Thread(p) PROVE FALSE
  <2>1. JobStep
    BY <1>4 DEF Thread, StartDownload, SwapDirs, RemoveTmp, RecordDownload, DownloadFails,
       CleanPath
  <2> QED BY <2>1 DEF JobStep, diskVars
<1> QED BY <1>1, <1>2, <1>3, <1>4 DEF Next, Agent

(* What an LB serves stays as it is while another LB is created, changed   *)
(* or deleted, or an apply of it fails, as long as nginx is up: every      *)
(* apply renders the union of the LBs (_dataplane_views).                  *)
THEOREM SiblingsStay == Spec => SiblingsKept
<1>1. IInv /\ [Next]_vars =>
        \A l \in LBs :
          /\ served # None /\ served' # None
          /\ served[l] # None /\ meta[l] # None /\ served[l].conf = meta[l].conf
          /\ todo \ todo' = {l} => goal[l] = meta[l]
          => served'[l] # None /\ served'[l].conf = meta[l].conf
  <2> SUFFICES ASSUME IInv, [Next]_vars, NEW l \in LBs, served' # None, served' # served,
                      meta[l] # None, todo \ todo' = {l} => goal[l] = meta[l]
               PROVE  served'[l] # None /\ served'[l].conf = meta[l].conf
    OBVIOUS
  <2>1. PICK k \in LBs, v \in OrNone(View), stage \in 0..6 : \E f, g :
          /\ Dump(DataplaneViews(k, v), stage, f, g)
          /\ todo \ todo' = {k} /\ v = goal[k]
    BY OnlyAppliesLoad
  <2>2. l = k => v = meta[l]
    BY <2>1
  <2> QED BY <2>1, <2>2, AppliedServed DEF IInv, Typed
<1> QED BY <1>1, IndInvariance, PTL DEF Spec, SiblingsKept

(* An LB that is listed is served with the contents its route asks for, up *)
(* to the exemptions that ListedIsServed names (restore_from_dp).          *)
THEOREM ListedServed == Spec => ListedIsServed
<1>1. IInv /\ [Next]_vars =>
        \A l \in listed' \ listed :
          /\ served # None
          /\ Unloaded \/ (served[l] # None /\ served[l].conf = meta[l].conf)
          /\ \/ meta[l].url = None \/ l \in tainted
             \/ \E j \in Jobs(l) : j.state = "cleared"
             \/ dir[l] = {meta[l].url}
  <2> SUFFICES ASSUME IInv, [Next]_vars, NEW l \in listed' \ listed
               PROVE  /\ served # None
                      /\ Unloaded \/ (served[l] # None /\ served[l].conf = meta[l].conf)
                      /\ \/ meta[l].url = None \/ l \in tainted
                         \/ \E j \in Jobs(l) : j.state = "cleared"
                         \/ dir[l] = {meta[l].url}
    OBVIOUS
  <2>1. PICK k \in LBs : List(k)
    <3>1. CASE \E k \in LBs : LBStep(k)
      BY <3>1 DEF LBStep, KeepLB, SkipLB, CreateLB, CreateFails, DeleteLB, DeleteFails,
         UpdateLB, UpdateFails, Handle
    <3>2. ASSUME NEW p \in LBs, Thread(p) PROVE FALSE
      <4>1. JobStep
        BY <3>2 DEF Thread, StartDownload, SwapDirs, RemoveTmp, RecordDownload, DownloadFails,
           CleanPath
      <4> QED BY <4>1 DEF JobStep, iterVars
    <3> QED BY <3>1, <3>2 DEF Next, Agent, World, NginxDies, ChangeTarget, Crash, Finalize,
            EndIteration, StartIteration, Listed, vars, iterVars
  <2>2. PICK r \in Restored(k) : listed' = IF r.ok THEN listed \cup {k} ELSE listed
    BY <2>1 DEF List
  <2>3. r.ok /\ l = k
    BY <2>2
  <2>4. FilesValid(l) /\ \A p \in TargetPaths(meta) : Complete(p, meta[p].url)
    BY <2>2, <2>3, RestoredValid
  <2>5. l \in LBs /\ meta[l] # None /\ meta \in ViewFcn
    BY <2>1, <2>3 DEF List, IInv, Working, Typed, MetaTyped, Present
  <2>6. Unloaded \/ (served[l] # None /\ served[l].conf = meta[l].conf)
    <3>1. Unloaded \/ served = Rendered(meta)
      BY <2>4 DEF IInv, Loaded, FilesValid
    <3> QED BY <2>5, <3>1, RenderedViews
  <2>7. ASSUME meta[l].url # None
        PROVE  l \in tainted \/ Clearing(l) \/ dir[l] = {meta[l].url}
    <3>1. Complete(l, meta[l].url)
      BY <2>4, <2>5, <2>7 DEF TargetPaths, Present
    <3>2. RecordHolds(l)
      BY <2>5 DEF IInv, Recorded
    <3> QED BY <2>7, <3>1, <3>2 DEF Complete, RecordHolds
  <2> QED BY <2>4, <2>6, <2>7 DEF FilesValid, Clearing
<1> QED BY <1>1, IndInvariance, PTL DEF Spec, ListedIsServed

=============================================================================
