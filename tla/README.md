# Formal models of the Exordos SDK (gcl_sdk)

TLA+ models of the parts of `src/gcl_sdk` whose correctness depends on the
order of things: agents that reconcile a data plane with a control plane, the
builder that turns instances into target resources and derivatives, the audit
outbox and the event sender, the machines and volumes of a pool, the load
balancers of a node, and the drivers that keep a meta file. Every module is
translated from the source; `PROJECT.json` maps each definition to the lines it
stands for.

## 1. The system

The SDK follows the pattern *instance → target resource → data plane object →
actual resource → instance*:

| Part | State | Operations | Talks to |
|---|---|---|---|
| Universal builder (`services/builder.py`) | instance rows, `ua_target_resources` (`tracked_at`, `hash`, `full_hash`, `status`) | one transaction per iteration: new, deleted, updated, outdated instances, masters, tracked resources, derivatives | users (API), agents (through the rows) |
| Scheduler (`services/scheduler.py`) | `agent` and `node` of target resources | first agent with the capability | builder, agents |
| Control plane APIs (`orch_api`, `status_api`, `clients/backend`) | agent rows, target rows, actual rows | payload by hash; register, create, update, delete of reported resources | agents |
| Universal agent (`services/agent.py`) | payload file, target fields file or meta file, drivers in memory | register, fetch payload, actualize every capability, list facts, report, save | APIs, drivers |
| Drivers (`drivers/*`) | direct storage, meta file, operation catalog | list, create, update, delete of one kind | hypervisor, files, systemd, backends |
| Volumes of a pool (`drivers/pool.py`, `drivers/libvirt.py`) | listing of the pool with its charged capacity, coordinator and meta storage | choose a storage pool; create, grow, attach, detach, delete; machines with root volumes | libvirt |
| Load balancer (`drivers/lb.py`) | meta file with views and download records, configuration files, certificates, tunnels, directories | render all, reload, download in threads, validate | nginx, systemd, downloads |
| Meta file drivers (`drivers/ssh_key.py`, `render.py`, `service.py`, `border.py` on `drivers/meta.py`) | one meta file each; lines, files, units, NAT tables and chains of the node | list, create, update by recreating, delete, finalize | the node |
| Power of machines (`operations.py`, `drivers/pool.py`) | catalog of operations with journals, in memory | run, sweep, clear; shutdown, start, recreate | libvirt, guests |
| Audit (`audit/`) | outbox rows, central log | write with the change, send in order | central Audit |
| Events (`events/`) | event rows with a status | send, poll status | event service |
| Secrets (`secret/`, `api/crypto.py`) | keys and secret rows | provision, encrypt, decrypt | builder, agents |

All long-running parts are services of `gcl_looper`: one iteration after the
other, for ever; an exception ends the iteration and the next one starts anew.
Concurrency is between processes: users, builder, sender, agents and the data
plane all act between any two calls of an iteration.

### What is hard, part by part, and what makes the part correct

- **Agent.** Calls fail with or without their effect; the payload is read once
  and grows old; an unchanged payload is answered without resources; the agent
  dies before its files are written. Correct: it destroys only what is
  unwanted, never loses track of what it made, withdraws only true absences,
  converges.
- **Builder.** Rows are read once per vector while users and agents commit;
  savepoints undo one instance and exceptions undo the iteration; one
  timestamp says whether an edit has been built. Correct: no edit is passed
  over, none is undone, everything is built in the end.
- **Audit.** `created_at` is given long before the commit; answers get lost;
  operators waive rows. Correct: nothing is lost, order per resource, drained.
- **Power.** One operation takes many iterations; guests and people interfere;
  the catalog dies with the process; recreations and failed listings come in
  between. Correct: an operation is continued only by a journal that still
  means something, a reboot is done once, the power settles.
- **Derivatives and masters.** An instance, its target resource and its
  derivatives change together or not at all; a vector is read by several queries
  and one bad instance can end it; the hash of the master is read before the
  parts are built and saved after. Correct: agents see the derivatives of one
  build, and of the master state that is committed with them.
- **Pool volumes.** One listing per iteration is charged by hand for what is
  created, before or after a call that may fail; a domain that is off refuses
  changes. Correct: no pool is overdrawn, the best pool is taken, all settles.
- **Load balancer.** Each LB renders and validates the files of all; downloads
  outlive the iteration, the record and even the future they were started by.
  Correct: siblings are left alone, what is reported ACTIVE is served.
- **Meta file drivers.** A call is cut short in the middle, the record is only
  saved at the end, resources share a file. Correct: what is wanted comes into
  effect, what is not leaves nothing, and the lines and rules of others survive.
- **Events.** Sent, then saved; the service may forget. No loss, no second
  notification without need.
- **Scheduler.** Assigned once to an agent that may go. Every schedulable
  resource is assigned in the end.
- **Keys.** Two callers provision one node. One key wins for all.

The full list with lines is under `hazards` in `PROJECT.json`.

## 2. The modules

| Module | What it is |
|---|---|
| `UniversalAgent` | one agent, its direct driver, the CP rows, the DP |
| `UniversalBuilder` | the builder without derivatives, users, agents' reports |
| `BuilderDerivatives` | the same rows and vectors, with derivatives and a master |
| `AuditLog` | what the outbox promises |
| `AuditOutbox` | transactions, outbox rows, the sender; implements `AuditLog` |
| `EventSender` | event rows, the sender, the notification service |
| `MachinePower` | one pool machine: iteration, catalog, meta file, hypervisor, guest |
| `PoolVolumes` | volumes and machines of a pool: placement, capacity, attachment |
| `LoadBalancer` | the LBs of a node, their one nginx, the download threads |
| `MetaDrivers` | ssh keys, rendered files, services and the border of a node |
| `*Proofs` | the theorems about each; `BuilderProofs` has those of both builder modules |
| `MC*` | the small instances TLC runs |

`BuilderDerivatives` EXTENDS `UniversalBuilder` and adds to each of its steps
what the code does to the derivatives, and so `BuilderProofs` proves about both.
`AuditOutbox` INSTANCEs `AuditLog` for the refinement.
`MachinePower`, `PoolVolumes`, `LoadBalancer` and `MetaDrivers` each contain the
iteration of the agent as their driver sees it; `UniversalAgent` has it in full,
with an abstract driver.

### UniversalAgent

`pc` walks through `UniversalAgentService._iteration`: `idle`, `caps`, `facts`,
`report`. `FetchPayload` is the call and its three answers (full, light, error);
with the HTTP client a light answer is replaced by the payload file, with the DB
client it has no basket at all. `ListKind` / `ListKindFails` is
`driver.list`; then `CreateResource`, `UpdateResource`, `DeleteResource`,
`KeepResource` and their failures take the resources of the kind in any order,
as the code walks over sets. The direct driver stores target fields before it
creates and drops them after it deleted; `Finalize` writes them to disk.
`Report` and `Save` end the iteration. `Crash` forgets what is not on disk.
`SetTarget`, `RemoveAgent`, `Drift` are the rest of the world, and may happen
between any two of these steps.

A value is a pair of what the CP declares and what the DP owns, because `hash`
covers only the first and `full_hash` both; hashes are injective.

### UniversalBuilder

An iteration is one database transaction (read committed) over four vectors.
`FetchNew`, `FetchDeleted`, `FetchUpdated` and `FetchOutdated` read the rows of
a vector once; the handlers (`CreateTarget`, `DeleteTarget`, `UpdateTarget`,
`Actualize` and their `NotFound`, `Hold` and `Raise` outcomes) take them one by
one. `target` is what the transaction sees, `shown` what is committed; `undo`
restores on `Rollback`. Users edit and remove instances and agents report at any
time; the rows the transaction wrote are locked until it ends. `tracked` is the
question `tracked_at = updated_at`, the only one the code asks of the two.

### BuilderDerivatives

`CreateInstance`, `DeleteInstance`, `UpdateInstance` are the handlers of
`UniversalBuilder` with `_actualize_derivative_target_resources` (`Rebuild`).
The vector of outdated instances is another one: `FetchOutdatedInstances` reads
outdated parts, then their instances, and gives up (`FetchOutdatedFails`) when
one of these is gone. `ActualizeChanged` and `ActualizeAll` are the two kinds of
hooks: those that see the changed parts, and those that build all parts anew.
`FetchOutdatedMasters`, `ActualizeMaster` and `MasterWithoutParts` (the
`KeyError` that ends the vector) are the last vector; a hook of it that raises
(`MasterRaises`) leaves its instance to the next iteration. `part`/`shownPart` and
`built`/`shownBuilt` are the rows as the transaction and as everybody else sees
them. The master is the number of its last hash; `Wanted(value, master)` are the
parts the hooks ask for.

### AuditOutbox and AuditLog

`AuditOutbox` has the sessions that write a resource and its event in one
transaction, the time an event is created at, and the sender: it fetches a batch
by `created_at`, sends, and deletes the row; a conflict or a lost answer is
settled by the idempotence of the central Audit; an error blocks the rows
behind it until an operator retries or drops it. `AuditLog` knows
only recorded, delivered and waived events. The refinement mapping takes the
committed rows as recorded, the central log as delivered, the dropped rows as
waived.

### EventSender

One iteration: `FetchNew`, for each row `SendEvent` (arrives), `SendRefused`
(the notification service has that uuid), `SendFails` (with or without having
arrived), then `Save`; `FetchInProgress`, `GetEventStatus`, `Save`. Every save is
a transaction of its own, so that `Abort` (a failed save, a lost database, the
death of the process) may fall between a call and its save. The notification
service is external: it `Process`es records and may `Forget` one.

### MachinePower

An iteration is `Begin` (target and pool are read, the listing restores the
machine and sweeps the catalog), one action for what the agent does with the
machine, and `Finalize` (the meta file is written). `CreateMachine`, `Adopt`,
`DeleteMachine`, `Keep`, the three operation steps, `Refresh`, `Recreate` and
their failures are the branches of `_actualize_capability` and
`MetaMachine.update_on_dp`. `Sweep`, `DropConflicts`, `Running` and `Ran` are
`OperationCatalog`. Cores, RAM, image and boot mode are one `conf`, since all of
them are applied by deleting and defining the domain again, which starts it.
`Tick` lets the ages of journal records grow up to the 60 seconds both timeouts
wait for. `Crash` may fall between the deletion and the definition of the domain.

`signal`, `offListed`, `booted`, `done` and the `stale` mark of an operation are
history: no guard reads them.

### PoolVolumes

`StartIteration` lists the pool once; `listed`, `domListed` and `charged` are
that listing, which the driver charges itself. Volumes come first
(`VolumeStep`), then machines (`MachineStep`), in any order, as the agent walks
over sets; `Finalize` writes the meta file, `Crash` forgets it.
`SelectStoragePool` is the placement: tier, durability and room first, then
without the tier (`SelectStoragePoolSoft`, which drops the durability as well, is a
mutant). `UpdateVolume` is grow, charge, detach and attach in the order of the code, `UpdateStep` the
early returns before it. `DetachOld` and `Detached` model the driver: a domain
that is off refuses a change of its disks, which the driver takes for already
detached. `CreateVolumeFails` and the like fail before or after their effect.

A domain (`dom`) is on or off and names for each of its volumes the pool in which
it looks for the disk (`at`), for its configuration holds paths and the disk may
not be there. `CreateMachine` defines the domain and then starts it, as
`_create_domain` does (`libvirt.py:573`): when a disk is missing the start raises,
and the domain stays, off and in no meta storage; the next iteration adopts it
(`AdoptMachine`). `StartMachine` is the power operation for a machine that was
listed as off (`offListed`), which can start only if it is `Startable`. The target
power is ON for every machine here; the other targets, and the journal that spaces
the starts, are in `MachinePower`, where the disks are not.

### LoadBalancer

`Rendered` is the text of the configuration for the union of all LBs, `Accepts`
what `nginx -t` says of it (one default server per port). `ReloadOrRestart`,
`Certificates`, `Tunnels`, `Directories` and `Downloads` are the stages of an
apply, and `CreateFails`, `UpdateFails` stop after each of them, or between two
tunnels: one may be written that systemd did not enable (`Written`). `List` validates
one LB against the disk; what is not valid is not listed, and so is created
again. `Thread(p)` is the worker of the directory p: `StartDownload`, `SwapDirs`,
`RemoveTmp`, `RecordDownload`, `CleanPath`, `DownloadFails`. `lostJobs` are the
threads whose future was replaced; they go on. `reached` is a history variable:
how far the last apply that wrote files got, before the reload of nginx, after
it, or to its end.

### MetaDrivers

The four drivers share `DataPlaneMetaModel`'s life: `ListDriver` (restore every
record, keep those found on the node), then `CreateResource`, `UpdateResource`,
`DeleteResource`, `KeepResource`, then `Finalize`. `Operate` is one such call:
clean, or one of the `…Faulty` outcomes, in which the operation is cut short at
any command (`Cut`, `Partly`). What a view does to the node is one operator for
each driver: `AddKey`, `SaveFile`, `DumpService`, `ApplyBorder` and so on.
`Intervene`, `OneshotEnds`, `Reboot` and `Crash` are what happens to the node.

## 3. What is checked

Bounds are in the configurations by name: `MaxEnv`, `MaxEdits`, `MaxReports`,
`MaxTargets`, `MaxEvents` count what users, agents, guests and people do,
`MaxFaults` failed calls and crashes, `MaxMissed` failed listings. Between those
the services run as long as they like, so the state graphs are finite and
complete.

| Run | Question and bounds |
|---|---|
| `AgentHttp` | one managed resource with two values and one fact, three changes and a fault, HTTP client: nothing made is forgotten, no true report is withdrawn, DP and reports converge |
| `AgentDb` | two resources of a kind, one fails beside the other, two faults, DB client: nothing wanted is destroyed although light answers carry no basket, and everything converges |
| `Outbox` | two writers, two resources, three events, a batch of two, two faults: order, no loss, refinement of `AuditLog`; everything drains |
| `EventSender` | three events, a batch of two, two faults, a forgotten record: no loss, no needless second notification, delivery |
| `Builder` | two instances in one transaction, vectors of two rows, three edits, three reports, a fault: no edit passed over or undone, everything is built, edits and reports arrive |
| `Derivatives` | one instance with two parts, three edits (one wants no part), two reports, a change of the master, a fault: parts of one build and one master state, ACTIVE only when reported, reports and masters arrive |
| `Power` | one machine, two targets, a move of the guest, a crash or failed call, a failed listing: exclusion, journals, reboots, and it settles |
| `Volumes` | two machines with root volumes, a data volume that moves, grows and is pinned, four storage pools (two tiers, both durabilities, one name that is not unique), two changes, a stop, a fault: capacity, placement, and it settles, with domains left defined and off by a start that failed |
| `LoadBalancer` | two LBs, both catch-all, one with a download whose url changes, two changes, two faults: siblings, what is listed is served, both settle, the deleted one is gone |
| `MetaDrivers` | two ssh keys of one user, a rendered file, a service that is changed, disabled and renamed, the border; two changes and a fault: in effect, gone, rules and lines kept |
| `VolumesOff`, `MetaDriversKey` | the two disagreements with a comment of the code (below); they expect a violation |

Why the bounds are enough: the properties are about one resource, instance,
machine or LB at a time; a second one matters where code handles several
together (a kind, a vector, a batch, one nginx, one authorized_keys, one pool),
and there a run has two. Two changes are needed to make a value old, a third to
return to it; one fault reaches every single failure and two (`AgentDb`,
`Outbox`, `EventSender`, `LoadBalancer`) a failure of the recovery. `Grace = 1` is the shortest
timeout that has both sides, and the machine's properties compare ages only with
it. What must hold for every bound is proved (section 4).

### Fairness

`WF` of the steps of the agents, the senders and the builder: the looper starts
the next iteration for ever, and an iteration is a finite loop. Nothing is
assumed of users, guests, operators or faults; they are bounded, so that
"eventually" is about the quiet time after them. Beyond that:

- `MachinePower`: `WF` of `Tick`, for the clock goes on.
- `LoadBalancer`: `WF` of each thread, for a download has a timeout and ends.
- `EventSender`: `WF` of the notification service, for it is done with what it
  has accepted, one way or the other.

`Builder` and `Derivatives` speak of instances whose hooks say yes (`ready`),
and `Drains` of rows no older `ERROR` row blocks, since both wait for people.

### Disagreements

Two are runs that are expected to find a violation of a comment of the code; the
findings in `PROJECT.json` quote it.

| Run | What happens |
|---|---|
| `VolumesOff` | a volume is detached from a machine that is off: the driver takes the refusal for "already detached", the disk stays in the domain, and is deleted with it |
| `MetaDriversKey` | an ssh key whose line changes: the update deletes the *new* line before it adds it, and the old one stays |

The others were met while modelling. The models have these behaviours, but for
those of code that is left out, marked so; the properties
name them as exceptions or do not forbid them:

- **Agent.** A fact of a kind that was empty is not listed while the payload is
  unchanged. After a light answer the hash reported covers the fields of the DP
  too. An object whose create call lost its answer, and which the CP gives up
  before the next iteration, is never deleted.
- **Outbox.** An event of a transaction that commits late is overtaken by a
  younger event of another resource.
- **Events.** When a post arrives and its answer is lost, the second post is
  refused, and the event stays NEW for ever; an event that ended in ERROR is
  asked for for ever (`Refused`, `Failed` in `EventsDelivered`, which says that
  every event is in the end ACTIVE for good, or in one of these two states for
  good, or kept out of the batch by them).
- **Builder.** A report of an old value makes a target resource without
  derivatives ACTIVE. An update held back by a hook is forgotten when a report
  of the instance comes in the same iteration, or when the instance is saved on
  top of an edit it was not read with (`missed`). `tracked_at` is taken from the
  instance when only a tracked resource changed
  (`services/builder.py:1486`; left out).
- **Derivatives.** A deleted instance that is held back, with an outdated part,
  stalls the vector of its kind (`Stalls`). An instance without parts raises a
  `KeyError` outside its savepoint, which ends the vector of masters in every
  iteration (`MasterWithoutParts`, exempt in `MasterReaches`). The vector of
  masters builds the parts from the target row (`services/builder.py:1343`),
  which a late rebuild of an outdated instance leaves behind its parts
  (`ActualizeAll`): agents may see the parts go back to the older value, though
  never behind their resource (`FamilyTogether`). Only the resource itself never
  goes back (`EditNotUndoneWithParts`).
- **Queries with a limit and no order** (builder, scheduler, events). Rows that
  never succeed may fill the limit and starve the others. The runs of the
  builder have vectors as long as there are instances; `EventsDelivered` has
  `Starved` as an exception.
- **Power.** A pool that cannot be listed once makes the agent reboot a machine
  again that it has rebooted (`FinishedRebootKept` is about listings that work).
  A machine off in the read right after its shutdown, and started by hand
  before the next listing, is forced off by the old journal.
- **Volumes.** An answer that is lost leaves a pool overdrawn or a volume in no
  file (`lost`, `meta`). A machine is created even if one of its volumes found no
  room: its domain is defined with the path of a disk that is not there, and stays
  off (`libvirt.py:573`). If the disk is created later in another pool than that
  path says, the driver takes the name in the configuration for "already attached"
  (`libvirt.py:1125`), and nothing repairs the path; the path of a disk that is
  deleted while its machine is off stays as well. Such a machine never starts
  (`StaysOff` in `IsAttached`, `Startable` in `MachinesSettle`).
- **Load balancer.** An LB that is invalid when it is no longer wanted is not
  listed, hence not deleted unless another LB is wanted (`OthersGone`). A tunnel
  keeps running its old script (`lb.py:858`, `Tunnels`). Two downloads that overlap, or one
  whose record a crash lost, leave contents of either (`tainted`). An apply that
  fails or crashes leaves the files ahead of the meta storage; if the next one
  writes files that fit it again and then fails before it reloads nginx
  (`lb.py:785`, `lb.py:824`), the validation, which compares files, finds nothing
  wrong (`lb.py:873`): the LB is reported ACTIVE and never served. In the same
  way an apply that is cut short may leave certificates, tunnels or the record of
  a deleted LB (`reached` in `ListedIsServed`, `Settles`, `OthersGone`). The status
  ERROR is never reported (`lb.py:914`; left out).
- **Meta file drivers.** A service that gets another name, or that is disabled
  and was never found, is never listed and so never deleted (`Renamed`, `Gone`).
  A rendered file whose path changes is left behind, as is the line of a key.
- **Keys.** Two callers that provision one node insert two rows; the loser fails
  on the primary key (`dm/models.py:504`; left out), and asks again.

Each of them is a statement about the model; section 5 says what the model
assumes.

## 4. What is proved

TLAPS proves for every value of the constants (any number of resources, kinds,
instances, parts, machines' targets, events, faults):

| Theorem | Module | Says |
|---|---|---|
| `TypeCorrect`, `NeverForgets`, `NeverDestroysWanted`, `WithdrawsOnlyGone` | `UniversalAgentProofs` | types; an object the agent made is never forgotten but by a crash; a wanted object is never destroyed; a report is withdrawn only of what was absent |
| `OutboxTypeCorrect`, `OrderPerResource`, `DeletedOnlyDelivered`, `ImplementsLog` | `AuditOutboxProofs` | types; order; no loss; the outbox implements the log |
| `SenderTypeCorrect`, `NoEventLost`, `NeverSentAgain` | `EventSenderProofs` | types; no event is lost; none is posted again that the service has not forgotten |
| `BuilderTypeCorrect`, `NoEditPassedOver`, `NoEditUndone` | `BuilderProofs` | types; an edit is built or still found; no edit is undone |
| `DerivativesTypeCorrect`, `FamilyNeverTorn`, `MasterAlwaysBuilt`, `ActiveOnlyIfBuilt` | `BuilderProofs` | types; the parts agents see have a resource and are not behind it; they are those of the committed master; they become ACTIVE only by a report of what is seen |
| `EditNotPassedOverWithParts`, `EditNotUndoneWithParts` | `BuilderProofs` | what `NoEditPassedOver` and `NoEditUndone` say of the builder holds of the builder with derivatives and masters |
| `PowerTypeCorrect`, `JournalNeverStale`, `RebootedMachineBooted`, `FinishedRebootStays`, `ForceAsksFirst` | `MachinePowerProofs` | types and exclusion; no stale journal; REBOOTED means booted; a reboot is done once while listings work; no machine is forced off by the journal of a power off that is over |
| `VolumesTypeCorrect`, `CapacityKept`, `BestPlacement` | `PoolVolumesProofs` | types; no pool is overdrawn unless an answer was lost; a disk goes to the best pool by what is really on them |
| `LoadBalancerTypeCorrect`, `SiblingsStay`, `ListedServed` | `LoadBalancerProofs` | types; an apply of one LB leaves the others served; what is listed is served with its contents |
| `MetaTypeCorrect`, `ForeignKeysKept`, `BorderAcceptsKept` | `MetaDriversProofs` | types; lines of others stay in authorized_keys; a forward that is still wanted stays accepted |

Assumptions are the named `ASSUME`s of the modules: finite numbers as bounds,
`None` different from everything else, disjoint sets of resources and kinds, one
border on a node (`OneBorder`: the table is owned by its agent, and two borders
would replace it for each other); TLC evaluates them on every run.

**Agent.** `WantedNeverDestroyed` is not inductive: a delete reads
`payload`, `actual` and `cur`, which earlier steps filled. `LightInv` says what
a light payload is, `BasketInv` that the kind being actualized has a basket in
the payload and that a light HTTP payload is the payload file, whose hash
matches; `AbsentInv` that what is missing in `collected` although its kind was
processed has been absent in this iteration.

**Outbox.** The clock gives each event its own time (`ClockInv`); the row
lock keeps two open transactions off one resource (`LockInv`), hence the commits
of a resource follow its times; the batch is a prefix of what was pending
(`BatchInv`), so that what is sent next has nothing of its resource before it.

**Builder.** Per instance: `BatchOK` (what the vector read is a version
the instance had), `Known` (no value is newer than the last edit), `TrackedOK`
(a row that tracks the instance in the transaction has its value) and
`ForwardOK` (the transaction's row is not older than the committed one).
`Handled`, `SaveRow` and `Frame` say that one handler disturbs one instance.

**Derivatives.** `Version` says that an instance row, its target row, its parts
and the hash of its master fit together: parts are not behind the target row nor
ahead of the instance, and are those wanted if the target has the value of the
instance and the hash is that of the master. `FamilyOK` says it twice, of the
rows of the transaction and of the committed ones, for a rollback goes back to
the second and a commit publishes the first; a user's edit clears `tracked` in
both. `ReadOK` bounds what a vector read between target row and instance, which
is what makes a build from an old read harmless. That the value of the target is
the instance's, and not only that it is tracked, is the condition under which
the parts are the wanted ones: a late `ActualizeAll` builds them for a newer
value than the target has, and then marks the instance `missed`. `ActiveOK`
adds that a part is ACTIVE in the transaction because it is so for everybody,
or by a report of its value taken over in this transaction (`Late`): a part that
is ACTIVE stays so on a late report of an older value, so that each instance
must be actualized once per transaction. The vectors of outdated parts and of
outdated masters are not those of `UniversalBuilder`, so that `DSpec` does not
imply `Spec`; that they hide no edit and undo none is proved again:
`TrackedIsBuilt` follows from `Version`, and `BuildsForward` from `Ahead`, that
the target row of the transaction is not behind the committed one, and that what
the vector of new instances holds had none (`AheadInv`). The runs check the two
properties under `Spec` only.

**Events.** `Records` says what the notification service has had, is done with
and has lost; `BatchOK` that fetched rows have the status they were fetched by;
`StatusOK` that what is about to be saved is as true as what is in the rows.

**Power.** `Journal` says that after a listing no operation is touched, so
that what other changes recreate under is untouched or finished, and the next
sweep drops it; `MetaOps` that a machine without meta entry has no operation,
for `Begin` does not sweep it; `Boot` that a reboot that sent a start has booted
the machine, and that a machine the iteration saw off and that is not off any
more has booted.

**Power, one time only.** `Kept` says that a finished reboot was touched by the
iteration before, so that the sweep does not take it, and that the iteration
remembers it only for a target that asks for it; its hypothesis is that no
listing failed (`missed = 0`), for with one that fails it is false. `OffListed`
says that a power off that asked the guest before the machine was listed off is
left untouched until it is swept, and that the iteration which lists the machine
off does not step it.

**Volumes.** `Charged`: while volumes are worked on, each pool that lost no
answer is charged with what is on it plus what was listed and is deleted
(`Held`). It needs `AsListed`, that volumes still to be worked on are as listed
and listed domains are there, for the types `OffThere`, that a domain listed as
off is there until its machine is worked on, and that the sums of two lists of volumes differ by
the size of the volume in which they differ (`ProvisionedChange`). The sum is a
recursive function over sets, about which there is no induction rule the provers
could instantiate; but `MinimalSet` gives a least set for which a claim fails.
With it `SumIsUnits` shows that the sum is the number of units of size, and
`ProvisionedLess`, `ProvisionedAlike` and `ProvisionedChange` are then about
cardinalities. `CapacityKept` follows because the disks of a pool are at most
`Held`, and `BestPlacement` because what the driver takes for the room of a pool
is then the room it has.

**Load balancer.** `SiblingsStay` is a matter of the steps: what is rendered for
one LB has the meta storage's view of every other (`DataplaneViews`), whatever
stage it gets to. `ListedServed` needs `Loaded` (nginx has loaded the files,
unless the last apply stopped before the reload) and `Recorded`: a record of a
download names the contents of its directory, unless a thread has swapped it in
and not recorded it yet (`Clearing`), a temporary directory is there, two
downloads overlapped, or a crash lost the record. That no job of a removal
(`ProperJob`) is ever found half-way is part of it. The first version of
`ListedIsServed` had no exemption for a failed apply and TLC found it true with
one fault; `Loaded` could not be proved, and two faults, with which the run is
now made, show why (Disagreements).

**Meta file drivers.** `Persisted` says that only the driver whose iteration
runs has what its file has not; `Working` that the resources still to be worked
on are of that driver, so that nothing touches the rules while the border waits;
`Typed` that a record names the user and line of a target there was (`Named`),
so that a key removes no other line. Every command of a driver is shown to leave
alone what it does not name (`Apart`, `BorderKept`, `KeysWhole`), also when it is
cut short.

Only model-checked: every liveness property (`WantedConverges`,
`ReportsConverge`, `Drains`, `EventsDelivered`, `BuilderSettles`,
`PartReportsTaken`, `MasterReaches`, `PowerSettles`, `VolumesSettle`,
`MachinesSettle`, `Settles`, `OthersGone`, `Gone`), for fairness is beyond the
prover; and the two properties expected to be violated. Every invariant and every action property
of a passing run is a theorem.

## 5. Abstractions and what is not modelled

- Hashes are injective; a value is an element of a small set or the number of
  its edit. Times are compared, never computed with; two events or two edits
  have different times.
- The audit sender is a single process, as deployed; the row lock of a
  changed resource is held from its update to the end of the transaction.
- The power of a machine comes back as libvirt maps it: on, off, or anything
  else. A guest may ignore a shutdown for ever; a start works unless the
  machine is paused for an outer reason, which is bounded.
- `LIMIT` picks any rows: the code has no `ORDER BY`.
- A machine created before a crash and unwanted after it is in no file and is
  never deleted; no document promises otherwise, so no property is stated. The
  same holds of a volume (`VolumesSettle` speaks of those in the meta storage).
- The master of `BuilderDerivatives` has one hash; the `hash` and `full_hash`
  trackers differ only in which of the two columns they compare. Derivatives
  have no derivatives of their own.
- `PoolVolumes` leaves out CPU and RAM and indexes above 0, and of the power all
  but that machines are wanted on, are started, and refuse changes while they are
  off; `MachinePower` has the other targets.
- The text of the nginx configuration is what tells two LBs apart; what nginx
  checks is the one conflict the driver causes itself, two default servers.
- The event sender with `enabled = False` does nothing, and is left out.

Partly modelled: tracked resources of the builder (they only set the readiness
of other instances, which is arbitrary in the model); the control plane APIs, as
far as agents rely on them; the transaction file of the direct storage.

Not modelled: the scheduler (one query, one assignment, never revised); the hooks
of the PaaS and infra builders, which decide what `Wanted` is; secrets and node
keys (conversion of data, one insert); the guest image update (system tools in
sequence, ending in a reboot); REST plumbing, commands, configuration and
migrations but for the views the builder reads. They keep no state that several
steps share.

## 6. Plan

Done, in this order: `UniversalAgent`, `AuditLog` and `AuditOutbox` with the
refinement, `UniversalBuilder`, `MachinePower`, `BuilderDerivatives`,
`EventSender`, `PoolVolumes`, `LoadBalancer`, `MetaDrivers`. The safety of each
is proved.

Left:

1. Safety halves of the liveness properties as theorems: what an iteration that
   meets no fault has done when it ends (nothing wanted is missing, nothing
   unwanted is left), from any state, for the agent and for `MetaDrivers`.
2. An abstract reconciler that the agent implements, step by step.
3. The direct storage with its transaction file; the scheduler with agents that
   come and go.
4. The agent composed with the builder: an edit of a user reaches the data plane.
