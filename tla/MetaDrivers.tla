----------------------------- MODULE MetaDrivers -----------------------------
(***************************************************************************)
(* The drivers of a node that keep what they manage in a meta file: ssh    *)
(* keys, rendered files, systemd services and the border.                  *)
(*                                                                         *)
(* The agent lists what the meta storage names, as far as it is found on   *)
(* the node, compares it with the targets, and creates, deletes or updates *)
(* the rest.  The storage is persisted when the iteration of the driver    *)
(* ends.  A call may fail, and the agent may be killed, in the middle of   *)
(* an operation on the node.                                               *)
(*                                                                         *)
(* Abstractions.  A text stands for the contents of a file with its mode,  *)
(* owner and hook, for a unit file, or for the NAT rules of the border.    *)
(* "more" says that a target has a field the agent does not know.          *)
(***************************************************************************)
EXTENDS Naturals, FiniteSets, Sequences

CONSTANTS
    Res, Kind(_),   \* resources, and the driver that manages them
    Drivers,        \* the drivers, in the order the agent calls them
    Users, Lines, ManualLines, \* lines of authorized_keys, those put in by people
    Paths, Units, Texts, Oneshot(_),
    Forwards,       \* forwards of the border: rules of the chain FORWARD
    None,
    WantedAs(_),    \* what the control plane may want of a resource
    FirstWant,
    MaxChanges,     \* bound: changes of the targets
    MaxFaults       \* bound: failed calls, crashes, reboots, interventions

OrNone(S) == {None} \cup S

SSHKeyView  == [user : Users, line : Lines, more : BOOLEAN]
RenderView  == [path : Paths, text : Texts, more : BOOLEAN]
ServiceView == [unit : Units, text : Texts, enabled : BOOLEAN, more : BOOLEAN]
BorderView  == [nat : Texts, forwards : SUBSET Forwards, more : BOOLEAN]

ViewsOf(kind) ==
    CASE kind = "ssh_key" -> SSHKeyView
      [] kind = "render"  -> RenderView
      [] kind = "service" -> ServiceView
      [] kind = "border"  -> BorderView

\* What is on the node.  "hooked" is the text a hook has last seen, "runs" the
\* unit file a service was started with, and "accepts" counts the rules of a
\* forward.
Node == [keys : [Users -> OrNone(SUBSET Lines)],
         files : [Paths -> OrNone(Texts)], hooked : [Paths -> OrNone(Texts)],
         units : [Units -> OrNone(Texts)], runs : [Units -> OrNone(Texts)],
         nat : OrNone(Texts), accepts : [Forwards -> Nat]]

ASSUME MetaDriversAssumption ==
    /\ IsFiniteSet(Res) /\ IsFiniteSet(Forwards)
    /\ Drivers \in Seq({"ssh_key", "render", "service", "border"}) /\ Drivers # <<>>
    /\ FirstWant = [r \in Res |-> FirstWant[r]]
    /\ \A r \in Res : /\ \E i \in 1..Len(Drivers) : Drivers[i] = Kind(r)
                      /\ WantedAs(r) \subseteq ViewsOf(Kind(r))
                      /\ FirstWant[r] \in OrNone(WantedAs(r))
                      /\ None \notin ViewsOf(Kind(r))
    /\ \A t \in Texts : Oneshot(t) \in BOOLEAN
    /\ ManualLines \subseteq Lines /\ None \notin Texts /\ \A S \in SUBSET Lines : S # None
    /\ MaxChanges \in Nat /\ MaxFaults \in Nat

\* "Dedicated nftables table fully owned by the agent": a second border would
\* replace the table and the rules of the first.
ASSUME OneBorder ==
    \A r, k \in Res : Kind(r) = "border" /\ Kind(k) = "border" => r = k

VARIABLES
    want,           \* targets
    turn,           \* the driver whose iteration runs, 0 between iterations
    goal,           \* the targets that the iteration has read
    seen,           \* what list() has returned
    todo,           \* resources of the driver to work on
    meta, metaFile, \* views in the meta storages, in their files
    node,
    tainted,        \* history: resources of which a call was cut short, a part of
                    \* it failed, the record was lost, or the name changed
    changes, faults

iterVars == <<turn, goal, seen, todo>>
vars == <<want, changes, iterVars, meta, metaFile, node, tainted, faults>>

Nothing == [r \in Res |-> None]

Init ==
    /\ want = FirstWant
    /\ turn = 0 /\ goal = Nothing /\ seen = Nothing /\ todo = {}
    /\ meta = Nothing /\ metaFile = Nothing
    /\ node = [keys |-> [u \in Users |-> IF ManualLines = {} THEN None ELSE ManualLines],
               files |-> [p \in Paths |-> None], hooked |-> [p \in Paths |-> None],
               units |-> [u \in Units |-> None], runs |-> [u \in Units |-> None],
               nat |-> None, accepts |-> [f \in Forwards |-> 0]]
    /\ tainted = {}
    /\ changes = 0 /\ faults = 0

Fault == faults < MaxFaults /\ faults' = faults + 1
Unfaulted == UNCHANGED faults

\* An operation on the node ends with Applied... or Removed..., or is cut short
\* by an exception or a crash, or ends although a part of it failed.
Cut(n) == [node |-> n, ok |-> FALSE]
Partly(n) == [node |-> n, ok |-> TRUE]
Cuts(S) == {Cut(n) : n \in S}

-----------------------------------------------------------------------------
(* SSH keys: lines of the authorized_keys of a user *)

KeysOf(n, u) == IF n.keys[u] = None THEN {} ELSE n.keys[u]

SSHKeyFound(v, n) == v.line \in KeysOf(n, v.user)

AddKey(v, n) == [n EXCEPT !.keys[v.user] = KeysOf(n, v.user) \cup {v.line}]
AddKeyCut(v, n) == {n, [n EXCEPT !.keys[v.user] = KeysOf(n, v.user)]}

\* (mutant) the file is removed with the key.
RemoveKeyFile(v, n) == [n EXCEPT !.keys[v.user] = None]

\* The file is written anew without the line.
RemoveKey(v, n) == [n EXCEPT !.keys[v.user] = IF @ = None THEN None ELSE @ \ {v.line}]
RemoveKeyCut(v, n) ==
    {n} \cup {[n EXCEPT !.keys[v.user] = IF @ = None THEN None ELSE S] :
                S \in SUBSET (KeysOf(n, v.user) \ {v.line})}

\* The new key is deleted, and added.
ReplaceKey(v, n) == AddKey(v, RemoveKey(v, n))
ReplaceKeyCut(v, n) == RemoveKeyCut(v, n) \cup AddKeyCut(v, RemoveKey(v, n))

-----------------------------------------------------------------------------
(* Rendered files, with a hook that is called after every change *)

RenderFound(v, n) == n.files[v.path] # None

SaveFile(v, n) == [n EXCEPT !.files[v.path] = v.text]
SaveRender(v, n) == [SaveFile(v, n) EXCEPT !.hooked[v.path] = v.text]
SaveRenderCut(v, n) == {n, SaveFile(v, n)}
RemoveRender(v, n) == [n EXCEPT !.files[v.path] = None]

-----------------------------------------------------------------------------
(* Services *)

\* (mutant) the unit file is not compared.
ServiceRuns(v, n) == n.runs[v.unit] # None \/ Oneshot(v.text)

ServiceFound(v, n) ==
    /\ n.runs[v.unit] # None \/ Oneshot(v.text)
    /\ n.units[v.unit] = v.text

\* enable --now starts a service, and leaves one that runs alone.
SaveUnit(v, n) == [n EXCEPT !.units[v.unit] = v.text]
DumpService(v, n) ==
    [SaveUnit(v, n) EXCEPT
        !.runs[v.unit] = IF ~v.enabled THEN None ELSE IF @ = None THEN v.text ELSE @]
DumpServiceCut(v, n) == {n, SaveUnit(v, n)}

StopService(v, n) == [n EXCEPT !.runs[v.unit] = None]
RemoveService(v, n) == [StopService(v, n) EXCEPT !.units[v.unit] = None]
RemoveServiceCut(v, n) == {n, StopService(v, n), RemoveService(v, n)}

-----------------------------------------------------------------------------
(* The border: a table of nftables, and rules of the shared chain FORWARD *)

BorderFound(v, n) == n.nat # None

\* The rules of S were inserted, and of what was there before those of gone
\* removed.
Synced(n, S, gone) ==
    [f \in Forwards |-> (IF f \in gone THEN 0 ELSE n.accepts[f]) + (IF f \in S THEN 1 ELSE 0)]

ApplyBorder(v, n) ==
    [n EXCEPT !.nat = v.nat, !.accepts = Synced(n, v.forwards, Forwards)]

\* (mutant) what is there is removed before the rules are inserted.
ApplyBorderClearing(v, n) ==
    Cuts({n} \cup {[n EXCEPT !.nat = v.nat, !.accepts = Synced(n, {}, gone)] :
                     gone \in SUBSET Forwards}
             \cup {[n EXCEPT !.nat = v.nat, !.accepts = Synced(n, S, Forwards)] :
                     S \in SUBSET v.forwards})

\* Rules are inserted first; one that cannot be removed is left.
ApplyBorderFaulty(v, n) ==
    Cuts({n} \cup {[n EXCEPT !.nat = v.nat, !.accepts = Synced(n, S, {})] :
                     S \in SUBSET v.forwards})
    \cup UNION {LET m == [n EXCEPT !.nat = v.nat, !.accepts = Synced(n, v.forwards, gone)]
                IN  {Cut(m), Partly(m)} : gone \in SUBSET Forwards}

\* (mutant) the rules of FORWARD are left.
RemoveTable(v, n) == [n EXCEPT !.nat = None]

RemoveBorder(v, n) == [n EXCEPT !.nat = None, !.accepts = Synced(n, {}, Forwards)]
RemoveBorderFaulty(v, n) ==
    {Cut(n)} \cup UNION {LET m == [n EXCEPT !.nat = None, !.accepts = Synced(n, {}, gone)]
                         IN  {Cut(m), Partly(m)} : gone \in SUBSET Forwards}

-----------------------------------------------------------------------------
(* The operations of a driver *)

Found(kind, v, n) ==
    CASE kind = "ssh_key" -> SSHKeyFound(v, n)
      [] kind = "render"  -> RenderFound(v, n)
      [] kind = "service" -> ServiceFound(v, n)
      [] kind = "border"  -> BorderFound(v, n)

\* restore_from_dp reads the text of a file, and nothing of the others.
Restored(kind, v, n) == IF kind = "render" THEN [v EXCEPT !.text = n.files[v.path]] ELSE v

Dumped(kind, v, n) ==
    CASE kind = "ssh_key" -> AddKey(v, n)
      [] kind = "render"  -> SaveRender(v, n)
      [] kind = "service" -> DumpService(v, n)
      [] kind = "border"  -> ApplyBorder(v, n)

DumpedFaulty(kind, v, n) ==
    CASE kind = "ssh_key" -> Cuts(AddKeyCut(v, n))
      [] kind = "render"  -> Cuts(SaveRenderCut(v, n))
      [] kind = "service" -> Cuts(DumpServiceCut(v, n))
      [] kind = "border"  -> ApplyBorderFaulty(v, n)

Removed(kind, v, n) ==
    CASE kind = "ssh_key" -> RemoveKey(v, n)
      [] kind = "render"  -> RemoveRender(v, n)
      [] kind = "service" -> RemoveService(v, n)
      [] kind = "border"  -> RemoveBorder(v, n)

RemovedFaulty(kind, v, n) ==
    CASE kind = "ssh_key" -> Cuts(RemoveKeyCut(v, n))
      [] kind = "render"  -> {Cut(n)}
      [] kind = "service" -> Cuts(RemoveServiceCut(v, n))
      [] kind = "border"  -> RemoveBorderFaulty(v, n)

\* A file is replaced in place and the border applied anew, the others are
\* removed as the new target names them, and dumped.
Updated(kind, v, n) ==
    CASE kind \in {"render", "border"} -> Dumped(kind, v, n)
      [] kind = "ssh_key" -> ReplaceKey(v, n)
      [] kind = "service" -> DumpService(v, RemoveService(v, n))

UpdatedFaulty(kind, v, n) ==
    CASE kind \in {"render", "border"} -> DumpedFaulty(kind, v, n)
      [] kind = "ssh_key" -> Cuts(ReplaceKeyCut(v, n))
      [] kind = "service" ->
           Cuts(RemoveServiceCut(v, n) \cup DumpServiceCut(v, RemoveService(v, n)))

\* disable --now fails for a unit that does not exist: a service that has got
\* another name is not updated.
Updatable(kind, v, n) == kind = "service" => n.units[v.unit] # None

-----------------------------------------------------------------------------
(* The world *)

ChangeTarget(r) ==
    /\ changes < MaxChanges /\ changes' = changes + 1
    /\ \E w \in OrNone(WantedAs(r)) : w # want[r] /\ want' = [want EXCEPT ![r] = w]
    /\ UNCHANGED <<iterVars, meta, metaFile, node, tainted, faults>>

NodeChange(n) ==
    /\ node' = n
    /\ UNCHANGED <<want, changes, iterVars, meta, metaFile, tainted>>

\* People remove a file, a line or the table, or a service stops.
Intervene ==
    /\ Fault
    /\ \/ \E p \in Paths : node.files[p] # None /\ NodeChange([node EXCEPT !.files[p] = None])
       \/ \E u \in Users, l \in Lines \ ManualLines :
            l \in KeysOf(node, u) /\ NodeChange([node EXCEPT !.keys[u] = @ \ {l}])
       \/ \E u \in Units : node.runs[u] # None /\ NodeChange([node EXCEPT !.runs[u] = None])
       \/ node.nat # None /\ NodeChange([node EXCEPT !.nat = None])

OneshotEnds ==
    \E u \in Units :
        /\ node.runs[u] # None /\ Oneshot(node.runs[u])
        /\ NodeChange([node EXCEPT !.runs[u] = None]) /\ Unfaulted

EndIteration == turn' = 0 /\ goal' = Nothing /\ seen' = Nothing /\ todo' = {}

\* The agent is killed, and started again.
Restart(n, lost) ==
    /\ EndIteration
    /\ node' = n /\ meta' = metaFile
    /\ tainted' = tainted \cup lost \cup {r \in Res : meta[r] # metaFile[r]}
    /\ UNCHANGED <<want, changes, metaFile>>

Crash == Fault /\ Restart(node, {})

\* With the node: the rules of the kernel are lost, and services start anew.
Reboot ==
    /\ Fault
    /\ Restart([node EXCEPT
                  !.nat = None, !.accepts = [f \in Forwards |-> 0],
                  !.runs = [u \in Units |-> IF @[u] = None THEN None ELSE node.units[u]]], {})

-----------------------------------------------------------------------------
(* The iteration of the agent *)

Of(i) == {r \in Res : Kind(r) = Drivers[i]}

\* list() of driver i, and the resources there are to work on.
ListDriver(i, targets) ==
    LET found == {r \in Of(i) : meta[r] # None /\ Found(Kind(r), meta[r], node)}
    IN  /\ turn' = i
        /\ seen' = [r \in Res |-> IF r \in found THEN Restored(Kind(r), meta[r], node)
                                  ELSE None]
        /\ todo' = {r \in Of(i) : targets[r] # None \/ r \in found}

StartIteration ==
    /\ turn = 0
    /\ goal' = want /\ ListDriver(1, want)
    /\ UNCHANGED <<want, changes, meta, metaFile, node, tainted, faults>>

\* New resources first, then those to delete, then those to update.
Rank(r) == IF seen[r] = None THEN 1 ELSE IF goal[r] = None THEN 2 ELSE 3

Handle(r, rank) ==
    /\ r \in todo /\ Rank(r) = rank
    /\ \A k \in todo : rank <= Rank(k)

Call(r) ==
    /\ todo' = todo \ {r}
    /\ UNCHANGED <<want, changes, turn, goal, seen, metaFile>>

Record(r, v) == meta' = [meta EXCEPT ![r] = v]

\* The operation ends, or is cut short by an exception, or by a crash.
Operate(r, v, clean, faulty, healed) ==
    \/ /\ node' = clean /\ Record(r, v) /\ Call(r) /\ Unfaulted
       /\ tainted' = healed
    \/ \E o \in faulty :
         /\ Fault
         /\ \/ o.ok /\ node' = o.node /\ Record(r, v) /\ Call(r)
               /\ tainted' = tainted \cup {r}
            \/ ~o.ok /\ node' = o.node /\ UNCHANGED meta /\ Call(r)
               /\ tainted' = tainted \cup {r}
            \/ ~o.ok /\ Restart(o.node, {r})

Refused(r) == Call(r) /\ UNCHANGED <<meta, node, tainted>> /\ Unfaulted

\* A resource that is found after all exists already.
KeepResource(r) ==
    /\ Handle(r, 1)
    /\ meta[r] # None /\ Found(Kind(r), meta[r], node)
    /\ Refused(r)

\* What from_ua_resource takes of a target.
Known(v) == [v EXCEPT !.more = FALSE]

\* (history) A service that runs, though its record was lost, is not started
\* anew, and what it has under another name is never removed.
Renamed(r, views) ==
    Kind(r) = "service" /\ meta[r] # None /\ views[r] # None /\ meta[r].unit # views[r].unit
Healed(r) ==
    IF Kind(r) # "service" THEN tainted \ {r}
    ELSE IF Renamed(r, goal) THEN tainted \cup {r} ELSE tainted

CreateResource(r) ==
    /\ Handle(r, 1)
    /\ ~(meta[r] # None /\ Found(Kind(r), meta[r], node))
    /\ LET v == Known(goal[r])
       IN  Operate(r, v, Dumped(Kind(r), v, node), DumpedFaulty(Kind(r), v, node),
                   Healed(r))

DeleteResource(r) ==
    /\ Handle(r, 2)
    /\ LET v == seen[r]
       IN  Operate(r, None, Removed(Kind(r), v, node), RemovedFaulty(Kind(r), v, node),
                   Healed(r))

\* The hash of the target counts every field the control plane has sent.
SameHash(r) == seen[r] = goal[r]

SkipResource(r) == Handle(r, 3) /\ SameHash(r) /\ Refused(r)

UpdateResource(r) ==
    /\ Handle(r, 3) /\ ~SameHash(r) /\ Updatable(Kind(r), goal[r], node)
    /\ LET v == Known(goal[r])
       IN  Operate(r, v, Updated(Kind(r), v, node), UpdatedFaulty(Kind(r), v, node),
                   tainted \ {r})

RefuseUpdate(r) ==
    /\ Handle(r, 3) /\ ~SameHash(r) /\ ~Updatable(Kind(r), goal[r], node)
    /\ Refused(r)

\* (mutant) the storage is not persisted.
FinalizeUnsaved ==
    /\ turn # 0 /\ todo = {}
    /\ IF turn < Len(Drivers) THEN ListDriver(turn + 1, goal) /\ UNCHANGED goal
       ELSE EndIteration
    /\ UNCHANGED <<want, changes, meta, metaFile, node, tainted, faults>>

\* finalize() of the driver, and list() of the next one.
Finalize ==
    /\ turn # 0 /\ todo = {}
    /\ metaFile' = [r \in Res |-> IF r \in Of(turn) THEN meta[r] ELSE metaFile[r]]
    /\ IF turn < Len(Drivers) THEN ListDriver(turn + 1, goal) /\ UNCHANGED goal
       ELSE EndIteration
    /\ UNCHANGED <<want, changes, meta, node, tainted, faults>>

ResourceStep(r) ==
    \/ KeepResource(r) \/ CreateResource(r) \/ DeleteResource(r)
    \/ SkipResource(r) \/ UpdateResource(r) \/ RefuseUpdate(r)

Agent == StartIteration \/ Finalize \/ \E r \in Res : ResourceStep(r)

World == Intervene \/ OneshotEnds \/ Crash \/ Reboot \/ \E r \in Res : ChangeTarget(r)

Next == Agent \/ World

\* The service loops for ever.
Spec == Init /\ [][Next]_vars /\ WF_vars(Agent)

-----------------------------------------------------------------------------
(* Properties *)

Views(r) == OrNone(ViewsOf(Kind(r)))

\* Types, and that what a driver manages is in its file between iterations.
TypeOK ==
    /\ \A r \in Res : {want[r], goal[r], seen[r], meta[r], metaFile[r]} \subseteq Views(r)
    /\ turn \in 0..Len(Drivers) /\ todo \subseteq Res
    /\ node \in Node
    /\ tainted \subseteq Res
    /\ changes \in 0..MaxChanges /\ faults \in 0..MaxFaults
    /\ turn = 0 => meta = metaFile

\* What the control plane wants of a resource is so on the node.
InEffect(r, v) ==
    CASE Kind(r) = "ssh_key" -> SSHKeyFound(v, node)
      [] Kind(r) = "render"  -> node.files[v.path] = v.text
      [] Kind(r) = "service" -> /\ node.units[v.unit] = v.text
                                /\ v.enabled /\ ~Oneshot(v.text) => node.runs[v.unit] # None
                                /\ ~v.enabled => node.runs[v.unit] = None
      [] Kind(r) = "border"  -> node.nat # None

\* So is what no driver looks at, unless a call was cut short or its record
\* was lost: that the hook has run, the service runs the unit file of its
\* target, and the border lets through what it forwards and nothing else.
WhollyInEffect(r, v) ==
    CASE Kind(r) = "ssh_key" -> TRUE
      [] Kind(r) = "render"  -> node.hooked[v.path] = v.text
      [] Kind(r) = "service" -> node.runs[v.unit] \in {None, v.text}
      [] Kind(r) = "border"  ->
           /\ node.nat = v.nat
           /\ \A f \in Forwards : node.accepts[f] > 0 <=> f \in v.forwards

\* Whatever failed, once the world is quiet every resource that is wanted comes
\* into effect: resources of one driver do not undo each other, and what was
\* half done is done again.  A service that gets another name does not.
Settles ==
    <>[](\A r \in Res : want[r] # None /\ ~Renamed(r, want) =>
           /\ InEffect(r, want[r])
           /\ r \notin tainted => WhollyInEffect(r, want[r]))

\* A resource that is not wanted any more leaves nothing on the node, unless
\* it was not found there when it should be deleted.
Trace(v, kind) ==
    CASE kind = "ssh_key" -> SSHKeyFound(v, node)
      [] kind = "render"  -> node.files[v.path] # None
      [] kind = "service" -> node.units[v.unit] # None \/ node.runs[v.unit] # None
      [] kind = "border"  -> node.nat # None \/ \E f \in Forwards : node.accepts[f] > 0
Shared(v, r) ==
    Kind(r) = "ssh_key" /\ \E k \in Res \ {r} :
        Kind(k) = "ssh_key" /\ \E w \in WantedAs(k) : w.user = v.user /\ w.line = v.line
Gone ==
    <>[](\A r \in Res : want[r] = None =>
           IF meta[r] # None THEN ~Found(Kind(r), meta[r], node)
           ELSE r \notin tainted =>
                  \A v \in WantedAs(r) : Trace(v, Kind(r)) => Shared(v, r))

\* "a still-wanted rule (unchanged, or being replaced) is never briefly absent
\* from the chain", not even when the call that replaces it fails.
AcceptsKept ==
    [][\A r \in todo \ todo' : Kind(r) = "border" =>
         \A f \in Forwards :
            /\ node'.nat # None
            /\ node.accepts[f] > 0 /\ goal[r] # None /\ f \in goal[r].forwards
            => node'.accepts[f] > 0]_vars

\* A line of authorized_keys that no resource names that is worked on, above
\* all one that people have put in, is left alone, unless the call is cut short.
KeysKept ==
    [][\A u \in Users : \A l \in KeysOf(node, u) \ KeysOf(node', u) :
         \/ faults' # faults
         \/ \E r \in todo \ todo' :
              Kind(r) = "ssh_key" /\ \E v \in WantedAs(r) : v.user = u /\ v.line = l]_vars

\* "The simplest implementation, just recreate": a line that no resource wants
\* any more is not left behind.
KeyReplaced ==
    <>[](\A u \in Users : \A l \in KeysOf(node, u) :
           \/ l \in ManualLines
           \/ \E r \in Res : /\ Kind(r) = "ssh_key" /\ want[r] # None
                             /\ want[r].user = u /\ want[r].line = l)

=============================================================================
