-------------------------- MODULE MetaDriversProofs --------------------------
(***************************************************************************)
(* Proofs about MetaDrivers: its types with what is in the meta files      *)
(* between iterations, KeysKept and AcceptsKept, for any resources, texts, *)
(* targets and numbers of faults.                                          *)
(*                                                                         *)
(* The types need that only the driver whose iteration runs has what its   *)
(* file has not.  KeysKept needs that a record names the line and the user *)
(* of a target there was.  AcceptsKept needs that the resources to work on *)
(* are of the driver that runs, so that nothing but the border is changed  *)
(* while the border waits.                                                 *)
(***************************************************************************)
EXTENDS MetaDrivers, TLAPS

KindSet == {"ssh_key", "render", "service", "border"}

\* One view, or None, for every resource.
ViewFcn == {f \in [Res -> UNION {Views(r) : r \in Res}] : \A r \in Res : f[r] \in Views(r)}

\* Targets, and views that name the line of a target if they are of a key.
WantFcn == {f \in ViewFcn : \A r \in Res : f[r] \in OrNone(WantedAs(r))}
Named(r, v) ==
    Kind(r) = "ssh_key" /\ v # None =>
      \E w \in WantedAs(r) : w.user = v.user /\ w.line = v.line
RecordFcn == {f \in ViewFcn : \A r \in Res : Named(r, f[r])}

(* What the variables hold, the resources to work on being of the driver   *)
(* whose iteration runs, and wanted or listed.                             *)
Typed ==
    /\ want \in WantFcn /\ goal \in WantFcn
    /\ seen \in RecordFcn /\ meta \in RecordFcn /\ metaFile \in RecordFcn
    /\ turn \in 0..Len(Drivers)
    /\ node \in Node /\ tainted \subseteq Res
    /\ changes \in 0..MaxChanges /\ faults \in 0..MaxFaults

Working ==
    /\ turn = 0 => todo = {}
    /\ todo \subseteq Of(turn)
    /\ \A r \in todo : goal[r] # None \/ seen[r] # None

(* A driver has persisted its storage when the next one is listed. *)
Persisted == \A r \in Res : meta[r] # metaFile[r] => turn # 0 /\ r \in Of(turn)

IInv == Typed /\ Working /\ Persisted

-----------------------------------------------------------------------------
(* The node: what one assignment to it leaves alone *)

LEMMA KeysAssigned ==
    ASSUME NEW n \in Node, NEW u \in Users, NEW S \in OrNone(SUBSET Lines)
    PROVE  /\ [n EXCEPT !.keys[u] = S] \in Node
           /\ [n EXCEPT !.keys[u] = S].keys = [n.keys EXCEPT ![u] = S]
           /\ [n EXCEPT !.keys[u] = S].accepts = n.accepts
BY DEF Node

LEMMA FilesAssigned ==
    ASSUME NEW n \in Node, NEW p \in Paths, NEW t \in OrNone(Texts)
    PROVE  /\ [n EXCEPT !.files[p] = t] \in Node /\ [n EXCEPT !.hooked[p] = t] \in Node
           /\ [n EXCEPT !.files[p] = t].keys = n.keys
           /\ [n EXCEPT !.hooked[p] = t].keys = n.keys
           /\ [n EXCEPT !.files[p] = t].accepts = n.accepts
           /\ [n EXCEPT !.hooked[p] = t].accepts = n.accepts
BY DEF Node

LEMMA UnitsAssigned ==
    ASSUME NEW n \in Node, NEW u \in Units, NEW t \in OrNone(Texts)
    PROVE  /\ [n EXCEPT !.units[u] = t] \in Node /\ [n EXCEPT !.runs[u] = t] \in Node
           /\ [n EXCEPT !.units[u] = t].keys = n.keys
           /\ [n EXCEPT !.runs[u] = t].keys = n.keys
           /\ [n EXCEPT !.units[u] = t].accepts = n.accepts
           /\ [n EXCEPT !.runs[u] = t].accepts = n.accepts
BY DEF Node

LEMMA NatAssigned ==
    ASSUME NEW n \in Node, NEW t \in OrNone(Texts)
    PROVE  /\ [n EXCEPT !.nat = t] \in Node
           /\ [n EXCEPT !.nat = t].keys = n.keys
           /\ [n EXCEPT !.nat = t].accepts = n.accepts
BY DEF Node

(* The lines of a user's file, of none if there is no file (_read_keys).   *)
LEMMA KeysOfNode ==
    ASSUME NEW n \in Node, NEW u \in Users
    PROVE  /\ KeysOf(n, u) \in SUBSET Lines
           /\ n.keys[u] \in OrNone(SUBSET Lines)
           /\ n.keys[u] # None => KeysOf(n, u) = n.keys[u]
BY DEF Node, KeysOf, OrNone

(* What an assignment makes of the lines. *)
LEMMA KeysOfAssigned ==
    ASSUME NEW n \in Node, NEW u \in Users, NEW S \in SUBSET Lines, NEW w \in Users
    PROVE  KeysOf([n EXCEPT !.keys[u] = S], w) = IF w = u THEN S ELSE KeysOf(n, w)
<1>1. S \in OrNone(SUBSET Lines) /\ S # None
  BY MetaDriversAssumption DEF OrNone
<1>2. [n EXCEPT !.keys[u] = S].keys = [n.keys EXCEPT ![u] = S]
  BY <1>1, KeysAssigned
<1>3. n.keys \in [Users -> OrNone(SUBSET Lines)]
  BY DEF Node
<1> QED BY <1>1, <1>2, <1>3 DEF KeysOf

-----------------------------------------------------------------------------
(* The operations on the node *)

(* SSH keys: no operation takes a line of another user, or any line but    *)
(* that of the key (_add_key, _remove_key).                                *)
LEMMA AddKeyNode ==
    ASSUME NEW v \in SSHKeyView, NEW n \in Node
    PROVE  /\ AddKey(v, n) \in Node /\ AddKeyCut(v, n) \subseteq Node
           /\ \A u \in Users : KeysOf(n, u) \subseteq KeysOf(AddKey(v, n), u)
           /\ v.line \in KeysOf(AddKey(v, n), v.user)
<1>1. v.user \in Users /\ v.line \in Lines
  BY DEF SSHKeyView
<1> DEFINE S == KeysOf(n, v.user) \cup {v.line}
<1>2. S \in SUBSET Lines /\ KeysOf(n, v.user) \in SUBSET Lines
  BY <1>1, KeysOfNode
<1>3. AddKey(v, n) \in Node
  BY <1>1, <1>2, KeysAssigned DEF AddKey, OrNone
<1>4. AddKeyCut(v, n) \subseteq Node
  BY <1>1, <1>2, KeysAssigned DEF AddKeyCut, OrNone
<1>5. \A u \in Users : KeysOf(AddKey(v, n), u) = IF u = v.user THEN S ELSE KeysOf(n, u)
  <2>1. AddKey(v, n) = [n EXCEPT !.keys[v.user] = S]
    BY DEF AddKey
  <2> HIDE DEF S
  <2>2. \A u \in Users : KeysOf([n EXCEPT !.keys[v.user] = S], u)
                         = IF u = v.user THEN S ELSE KeysOf(n, u)
    BY <1>1, <1>2, KeysOfAssigned
  <2> QED BY <2>1, <2>2
<1> QED BY <1>1, <1>3, <1>4, <1>5

LEMMA RemoveKeyNode ==
    ASSUME NEW v \in SSHKeyView, NEW n \in Node
    PROVE  /\ RemoveKey(v, n) \in Node /\ RemoveKeyCut(v, n) \subseteq Node
           /\ \A u \in Users : \A l \in KeysOf(n, u) \ KeysOf(RemoveKey(v, n), u) :
                 u = v.user /\ l = v.line
<1>1. v.user \in Users /\ v.line \in Lines
  BY DEF SSHKeyView
<1>2. n.keys[v.user] \in OrNone(SUBSET Lines) /\ None \in OrNone(SUBSET Lines)
  BY <1>1, KeysOfNode DEF OrNone
<1>3. CASE n.keys[v.user] = None
  <2>1. /\ RemoveKey(v, n) = [n EXCEPT !.keys[v.user] = None]
        /\ KeysOf(n, v.user) = {}
        /\ RemoveKeyCut(v, n) \subseteq {n, [n EXCEPT !.keys[v.user] = None]}
    BY <1>3 DEF RemoveKey, KeysOf, RemoveKeyCut
  <2>2. [n EXCEPT !.keys[v.user] = None] \in Node
        /\ [n EXCEPT !.keys[v.user] = None].keys = [n.keys EXCEPT ![v.user] = None]
    BY <1>1, <1>2, KeysAssigned
  <2>3. \A u \in Users \ {v.user} : KeysOf([n EXCEPT !.keys[v.user] = None], u) = KeysOf(n, u)
    BY <2>2 DEF KeysOf, Node
  <2> QED BY <2>1, <2>2, <2>3
<1>4. CASE n.keys[v.user] # None
  <2> DEFINE S == n.keys[v.user] \ {v.line}
  <2>1. KeysOf(n, v.user) = n.keys[v.user] /\ S \in SUBSET Lines
    BY <1>1, <1>2, <1>4, KeysOfNode DEF OrNone
  <2>2. RemoveKey(v, n) = [n EXCEPT !.keys[v.user] = S]
    BY <1>4 DEF RemoveKey
  <2>3. RemoveKeyCut(v, n) =
          {n} \cup {[n EXCEPT !.keys[v.user] = T] : T \in SUBSET S}
    BY <1>4, <2>1 DEF RemoveKeyCut
  <2>4. \A T \in SUBSET S : T \in SUBSET Lines /\ [n EXCEPT !.keys[v.user] = T] \in Node
    BY <1>1, <2>1, KeysAssigned DEF OrNone
  <2>5. \A u \in Users : KeysOf(RemoveKey(v, n), u) = IF u = v.user THEN S ELSE KeysOf(n, u)
    <3> HIDE DEF S
    <3>1. \A u \in Users : KeysOf([n EXCEPT !.keys[v.user] = S], u)
                           = IF u = v.user THEN S ELSE KeysOf(n, u)
      BY <1>1, <2>1, KeysOfAssigned
    <3> QED BY <2>2, <3>1
  <2>6. S \in SUBSET S
    OBVIOUS
  <2> QED BY <2>1, <2>2, <2>3, <2>4, <2>5, <2>6
<1> QED BY <1>3, <1>4

LEMMA ReplaceKeyNode ==
    ASSUME NEW v \in SSHKeyView, NEW n \in Node
    PROVE  /\ ReplaceKey(v, n) \in Node /\ ReplaceKeyCut(v, n) \subseteq Node
           /\ \A u \in Users : KeysOf(n, u) \subseteq KeysOf(ReplaceKey(v, n), u)
<1> DEFINE m == RemoveKey(v, n)
<1>1. /\ m \in Node /\ RemoveKeyCut(v, n) \subseteq Node
      /\ \A u \in Users : \A l \in KeysOf(n, u) \ KeysOf(m, u) : u = v.user /\ l = v.line
  BY RemoveKeyNode
<1> HIDE DEF m
<1>2. /\ AddKey(v, m) \in Node /\ AddKeyCut(v, m) \subseteq Node
      /\ \A u \in Users : KeysOf(m, u) \subseteq KeysOf(AddKey(v, m), u)
      /\ v.line \in KeysOf(AddKey(v, m), v.user)
  BY <1>1, AddKeyNode
<1>3. ReplaceKey(v, n) = AddKey(v, m)
      /\ ReplaceKeyCut(v, n) = RemoveKeyCut(v, n) \cup AddKeyCut(v, m)
  BY DEF ReplaceKey, ReplaceKeyCut, m
<1> QED BY <1>1, <1>2, <1>3

(* Files and services have no lines and no rules of FORWARD. *)
Apart(n, m) == m \in Node /\ m.keys = n.keys /\ m.accepts = n.accepts

LEMMA RenderNode ==
    ASSUME NEW v \in RenderView, NEW n \in Node
    PROVE  /\ Apart(n, SaveRender(v, n)) /\ Apart(n, RemoveRender(v, n))
           /\ \A m \in SaveRenderCut(v, n) : Apart(n, m)
<1>1. v.path \in Paths /\ v.text \in OrNone(Texts) /\ None \in OrNone(Texts)
  BY DEF RenderView, OrNone
<1>2. Apart(n, SaveFile(v, n)) /\ Apart(n, RemoveRender(v, n))
  BY <1>1, FilesAssigned DEF SaveFile, RemoveRender, Apart
<1> DEFINE m == SaveFile(v, n)
<1>3. Apart(n, m)
  BY <1>2
<1>4. Apart(n, [m EXCEPT !.hooked[v.path] = v.text])
  <2> HIDE DEF m
  <2> QED BY <1>1, <1>3, FilesAssigned DEF Apart
<1> QED BY <1>2, <1>4 DEF SaveRender, SaveRenderCut, Apart

LEMMA RunsAssigned ==
    ASSUME NEW n \in Node, NEW m, Apart(n, m), NEW u \in Units, NEW t \in OrNone(Texts)
    PROVE  Apart(n, [m EXCEPT !.runs[u] = t]) /\ Apart(n, [m EXCEPT !.units[u] = t])
BY UnitsAssigned DEF Apart

LEMMA StopServiceNode ==
    ASSUME NEW v \in ServiceView, NEW n \in Node
    PROVE  /\ Apart(n, StopService(v, n)) /\ Apart(n, RemoveService(v, n))
           /\ \A m \in RemoveServiceCut(v, n) : Apart(n, m)
<1>1. v.unit \in Units /\ v.text \in OrNone(Texts) /\ None \in OrNone(Texts)
  BY DEF ServiceView, OrNone
<1>2. Apart(n, n)
  BY DEF Apart
<1>3. Apart(n, StopService(v, n))
  BY <1>1, <1>2, RunsAssigned DEF StopService
<1>4. Apart(n, RemoveService(v, n))
  BY <1>1, <1>3, RunsAssigned DEF RemoveService
<1> QED BY <1>2, <1>3, <1>4 DEF RemoveServiceCut

LEMMA DumpServiceNode ==
    ASSUME NEW v \in ServiceView, NEW n \in Node
    PROVE  /\ Apart(n, DumpService(v, n))
           /\ \A m \in DumpServiceCut(v, n) : Apart(n, m)
<1>1. v.unit \in Units /\ v.text \in OrNone(Texts) /\ None \in OrNone(Texts)
  BY DEF ServiceView, OrNone
<1>2. Apart(n, n)
  BY DEF Apart
<1>3. Apart(n, SaveUnit(v, n))
  BY <1>1, <1>2, RunsAssigned DEF SaveUnit
<1> DEFINE m == SaveUnit(v, n)
           t == IF ~v.enabled THEN None ELSE IF m.runs[v.unit] = None THEN v.text
                ELSE m.runs[v.unit]
<1>4. t \in OrNone(Texts)
  BY <1>1, <1>3 DEF Apart, Node
<1>5. DumpService(v, n) = [m EXCEPT !.runs[v.unit] = t]
  BY DEF DumpService
<1>6. Apart(n, DumpService(v, n))
  <2>1. Apart(n, m)
    BY <1>3
  <2> HIDE DEF m, t
  <2>2. Apart(n, [m EXCEPT !.runs[v.unit] = t])
    BY <1>1, <1>4, <2>1, RunsAssigned
  <2> QED BY <1>5, <2>2
<1> QED BY <1>2, <1>3, <1>6 DEF DumpServiceCut

LEMMA UpdateServiceNode ==
    ASSUME NEW v \in ServiceView, NEW n \in Node
    PROVE  /\ Apart(n, DumpService(v, RemoveService(v, n)))
           /\ \A m \in RemoveServiceCut(v, n) \cup DumpServiceCut(v, RemoveService(v, n)) :
                 Apart(n, m)
<1> DEFINE k == RemoveService(v, n)
<1>1. Apart(n, k) /\ \A m \in RemoveServiceCut(v, n) : Apart(n, m)
  BY StopServiceNode
<1> HIDE DEF k
<1>2. Apart(k, DumpService(v, k)) /\ \A m \in DumpServiceCut(v, k) : Apart(k, m)
  BY <1>1, DumpServiceNode DEF Apart
<1> QED BY <1>1, <1>2 DEF Apart, k

(* An outcome says how far a call has got, and whether it ended well. *)
LEMMA CutOutcome ==
    ASSUME NEW n
    PROVE  /\ Cut(n).node = n /\ Cut(n).ok \in BOOLEAN
           /\ Partly(n).node = n /\ Partly(n).ok \in BOOLEAN
<1>1. Cut(n).node = n /\ Cut(n).ok = FALSE
  BY Zenon DEF Cut
<1>2. Partly(n).node = n /\ Partly(n).ok = TRUE
  BY Zenon DEF Partly
<1> QED BY <1>1, <1>2

(* The rules of the chain FORWARD after an apply: those that are inserted  *)
(* are there, and those that are not removed still are.                    *)
LEMMA SyncedRules ==
    ASSUME NEW n \in Node, NEW S, NEW gone
    PROVE  /\ Synced(n, S, gone) \in [Forwards -> Nat]
           /\ \A f \in Forwards : f \in S => Synced(n, S, gone)[f] > 0
           /\ \A f \in Forwards : n.accepts[f] > 0 /\ f \notin gone => Synced(n, S, gone)[f] > 0
<1>1. \A f \in Forwards : n.accepts[f] \in Nat
  BY DEF Node
<1> QED BY <1>1 DEF Synced

\* The table and the rules after a call that may have been cut short.
RulesSet(n, t, S, gone) == [n EXCEPT !.nat = t, !.accepts = Synced(n, S, gone)]

(* What an apply of the border never does: touch the keys, or drop a rule  *)
(* of the new target (_apply_forward_accepts).                             *)
BorderKept(v, n, m) ==
    /\ m \in Node /\ m.keys = n.keys
    /\ \A f \in Forwards : n.accepts[f] > 0 /\ f \in v.forwards => m.accepts[f] > 0

LEMMA BorderSynced ==
    ASSUME NEW v \in BorderView, NEW n \in Node, NEW t \in OrNone(Texts), NEW S, NEW gone
    PROVE  v.forwards \subseteq S \/ gone = {} => BorderKept(v, n, RulesSet(n, t, S, gone))
<1> DEFINE a == Synced(n, S, gone)
           m == [n EXCEPT !.nat = t, !.accepts = a]
<1>1. /\ a \in [Forwards -> Nat]
      /\ \A f \in Forwards : f \in S => a[f] > 0
      /\ \A f \in Forwards : n.accepts[f] > 0 /\ f \notin gone => a[f] > 0
  BY SyncedRules
<1>2. m \in Node /\ m.keys = n.keys /\ m.accepts = a
  <2> HIDE DEF a
  <2> QED BY <1>1 DEF Node
<1>3. v.forwards \subseteq S \/ gone = {} => BorderKept(v, n, m)
  <2> HIDE DEF a, m
  <2> QED BY <1>1, <1>2 DEF BorderKept
<1> QED BY <1>3 DEF RulesSet

LEMMA ApplyBorderNode ==
    ASSUME NEW v \in BorderView, NEW n \in Node
    PROVE  /\ BorderKept(v, n, ApplyBorder(v, n))
           /\ \A o \in ApplyBorderFaulty(v, n) : o.ok \in BOOLEAN /\ BorderKept(v, n, o.node)
<1>1. v.nat \in OrNone(Texts)
  BY DEF BorderView, OrNone
<1>2. \A S, gone : v.forwards \subseteq S \/ gone = {} =>
        BorderKept(v, n, RulesSet(n, v.nat, S, gone))
  BY <1>1, BorderSynced
<1>3. BorderKept(v, n, n)
  BY DEF BorderKept
<1>4. BorderKept(v, n, ApplyBorder(v, n))
  BY <1>2 DEF ApplyBorder, RulesSet
<1>5. ASSUME NEW o \in ApplyBorderFaulty(v, n)
      PROVE  o.ok \in BOOLEAN /\ BorderKept(v, n, o.node)
  <2>1. CASE o \in Cuts({n})
    BY <2>1, <1>3, CutOutcome DEF Cuts
  <2>2. CASE \E S \in SUBSET v.forwards :
               o = Cut(RulesSet(n, v.nat, S, {}))
    BY <2>2, <1>2, CutOutcome
  <2>3. CASE \E gone \in SUBSET Forwards :
               \/ o = Cut(RulesSet(n, v.nat, v.forwards, gone))
               \/ o = Partly(RulesSet(n, v.nat, v.forwards, gone))
    BY <2>3, <1>2, CutOutcome
  <2> QED BY <2>1, <2>2, <2>3 DEF ApplyBorderFaulty, Cuts, RulesSet
<1> QED BY <1>4, <1>5

LEMMA RemoveBorderNode ==
    ASSUME NEW v, NEW n \in Node
    PROVE  /\ RemoveBorder(v, n) \in Node /\ RemoveBorder(v, n).keys = n.keys
           /\ \A o \in RemoveBorderFaulty(v, n) : o.ok \in BOOLEAN /\ o.node \in Node
<1>1. ASSUME NEW gone
      PROVE  RulesSet(n, None, {}, gone) \in Node /\ RulesSet(n, None, {}, gone).keys = n.keys
  <2> DEFINE a == Synced(n, {}, gone)
  <2>1. a \in [Forwards -> Nat] /\ None \in OrNone(Texts)
    BY SyncedRules DEF OrNone
  <2> HIDE DEF a
  <2>2. /\ [n EXCEPT !.nat = None, !.accepts = a] \in Node
        /\ [n EXCEPT !.nat = None, !.accepts = a].keys = n.keys
    BY <2>1 DEF Node
  <2> QED BY <2>2 DEF a, RulesSet
<1>2. ASSUME NEW o \in RemoveBorderFaulty(v, n)
      PROVE  o.ok \in BOOLEAN /\ o.node \in Node
  <2>1. CASE o = Cut(n)
    BY <2>1, CutOutcome
  <2>2. CASE \E gone \in SUBSET Forwards :
               \/ o = Cut(RulesSet(n, None, {}, gone))
               \/ o = Partly(RulesSet(n, None, {}, gone))
    BY <2>2, <1>1, CutOutcome
  <2> QED BY <2>1, <2>2 DEF RemoveBorderFaulty, RulesSet
<1> QED BY <1>1, <1>2 DEF RemoveBorder, RulesSet

-----------------------------------------------------------------------------
(* The operations of a driver, whatever kind it manages *)

LEMMA CutOutcomes ==
    ASSUME NEW S \in SUBSET Node, NEW o \in Cuts(S)
    PROVE  o.ok \in BOOLEAN /\ o.node \in S
BY CutOutcome DEF Cuts

\* What may be left of the lines: all but that of v.
KeysLeft(kind, v, n, m) ==
    \A u \in Users : \A l \in KeysOf(n, u) \ KeysOf(m, u) :
        kind = "ssh_key" /\ u = v.user /\ l = v.line
KeysWhole(n, m) == \A u \in Users : KeysOf(n, u) \subseteq KeysOf(m, u)

LEMMA DumpedNode ==
    ASSUME NEW kind \in KindSet, NEW v \in ViewsOf(kind), NEW n \in Node
    PROVE  /\ Dumped(kind, v, n) \in Node /\ KeysWhole(n, Dumped(kind, v, n))
           /\ kind = "border" => BorderKept(v, n, Dumped(kind, v, n))
           /\ \A o \in DumpedFaulty(kind, v, n) :
                 /\ o.ok \in BOOLEAN /\ o.node \in Node
                 /\ kind = "border" => BorderKept(v, n, o.node)
<1>1. CASE kind = "ssh_key"
  <2>1. v \in SSHKeyView
    BY <1>1 DEF ViewsOf
  <2>2. Dumped(kind, v, n) = AddKey(v, n) /\ DumpedFaulty(kind, v, n) = Cuts(AddKeyCut(v, n))
    BY <1>1 DEF Dumped, DumpedFaulty
  <2> QED BY <1>1, <2>1, <2>2, AddKeyNode, CutOutcomes DEF KeysWhole
<1>2. CASE kind = "render"
  <2>1. v \in RenderView
    BY <1>2 DEF ViewsOf
  <2>2. Dumped(kind, v, n) = SaveRender(v, n)
        /\ DumpedFaulty(kind, v, n) = Cuts(SaveRenderCut(v, n))
    BY <1>2 DEF Dumped, DumpedFaulty
  <2>3. Apart(n, SaveRender(v, n)) /\ SaveRenderCut(v, n) \in SUBSET Node
    BY <2>1, RenderNode DEF Apart
  <2> QED BY <1>2, <2>2, <2>3, CutOutcomes DEF KeysWhole, KeysOf, Apart
<1>3. CASE kind = "service"
  <2>1. v \in ServiceView
    BY <1>3 DEF ViewsOf
  <2>2. Dumped(kind, v, n) = DumpService(v, n)
        /\ DumpedFaulty(kind, v, n) = Cuts(DumpServiceCut(v, n))
    BY <1>3 DEF Dumped, DumpedFaulty
  <2>3. Apart(n, DumpService(v, n)) /\ DumpServiceCut(v, n) \in SUBSET Node
    BY <2>1, DumpServiceNode DEF Apart
  <2> QED BY <1>3, <2>2, <2>3, CutOutcomes DEF KeysWhole, KeysOf, Apart
<1>4. CASE kind = "border"
  <2>1. v \in BorderView
    BY <1>4 DEF ViewsOf
  <2>2. Dumped(kind, v, n) = ApplyBorder(v, n)
        /\ DumpedFaulty(kind, v, n) = ApplyBorderFaulty(v, n)
    BY <1>4 DEF Dumped, DumpedFaulty
  <2> QED BY <1>4, <2>1, <2>2, ApplyBorderNode DEF KeysWhole, KeysOf, BorderKept
<1> QED BY <1>1, <1>2, <1>3, <1>4 DEF KindSet

LEMMA UpdatedNode ==
    ASSUME NEW kind \in KindSet, NEW v \in ViewsOf(kind), NEW n \in Node
    PROVE  /\ Updated(kind, v, n) \in Node /\ KeysWhole(n, Updated(kind, v, n))
           /\ kind = "border" => BorderKept(v, n, Updated(kind, v, n))
           /\ \A o \in UpdatedFaulty(kind, v, n) :
                 /\ o.ok \in BOOLEAN /\ o.node \in Node
                 /\ kind = "border" => BorderKept(v, n, o.node)
<1>1. CASE kind = "ssh_key"
  <2>1. v \in SSHKeyView
    BY <1>1 DEF ViewsOf
  <2>2. Updated(kind, v, n) = ReplaceKey(v, n)
        /\ UpdatedFaulty(kind, v, n) = Cuts(ReplaceKeyCut(v, n))
    BY <1>1 DEF Updated, UpdatedFaulty
  <2> QED BY <1>1, <2>1, <2>2, ReplaceKeyNode, CutOutcomes DEF KeysWhole
<1>2. CASE kind \in {"render", "border"}
  <2>1. Updated(kind, v, n) = Dumped(kind, v, n)
        /\ UpdatedFaulty(kind, v, n) = DumpedFaulty(kind, v, n)
    BY <1>2 DEF Updated, UpdatedFaulty
  <2> QED BY <2>1, DumpedNode
<1>3. CASE kind = "service"
  <2>1. v \in ServiceView
    BY <1>3 DEF ViewsOf
  <2> DEFINE S == RemoveServiceCut(v, n) \cup DumpServiceCut(v, RemoveService(v, n))
  <2>2. Updated(kind, v, n) = DumpService(v, RemoveService(v, n))
        /\ UpdatedFaulty(kind, v, n) = Cuts(S)
    BY <1>3 DEF Updated, UpdatedFaulty
  <2>3. Apart(n, DumpService(v, RemoveService(v, n))) /\ S \in SUBSET Node
    BY <2>1, UpdateServiceNode DEF Apart
  <2> HIDE DEF S
  <2> QED BY <1>3, <2>2, <2>3, CutOutcomes DEF KeysWhole, KeysOf, Apart
<1> QED BY <1>1, <1>2, <1>3 DEF KindSet

LEMMA RemovedNode ==
    ASSUME NEW kind \in KindSet, NEW v \in ViewsOf(kind), NEW n \in Node
    PROVE  /\ Removed(kind, v, n) \in Node /\ KeysLeft(kind, v, n, Removed(kind, v, n))
           /\ \A o \in RemovedFaulty(kind, v, n) : o.ok \in BOOLEAN /\ o.node \in Node
<1>1. CASE kind = "ssh_key"
  <2>1. v \in SSHKeyView
    BY <1>1 DEF ViewsOf
  <2>2. Removed(kind, v, n) = RemoveKey(v, n)
        /\ RemovedFaulty(kind, v, n) = Cuts(RemoveKeyCut(v, n))
    BY <1>1 DEF Removed, RemovedFaulty
  <2> QED BY <1>1, <2>1, <2>2, RemoveKeyNode, CutOutcomes DEF KeysLeft
<1>2. CASE kind = "render"
  <2>1. v \in RenderView
    BY <1>2 DEF ViewsOf
  <2>2. Removed(kind, v, n) = RemoveRender(v, n) /\ RemovedFaulty(kind, v, n) = {Cut(n)}
    BY <1>2 DEF Removed, RemovedFaulty
  <2>3. Apart(n, RemoveRender(v, n))
    BY <2>1, RenderNode
  <2>4. \A o \in RemovedFaulty(kind, v, n) : o.ok \in BOOLEAN /\ o.node \in Node
    BY <2>2, CutOutcome
  <2> QED BY <1>2, <2>2, <2>3, <2>4 DEF KeysLeft, KeysOf, Apart
<1>3. CASE kind = "service"
  <2>1. v \in ServiceView
    BY <1>3 DEF ViewsOf
  <2>2. Removed(kind, v, n) = RemoveService(v, n)
        /\ RemovedFaulty(kind, v, n) = Cuts(RemoveServiceCut(v, n))
    BY <1>3 DEF Removed, RemovedFaulty
  <2>3. Apart(n, RemoveService(v, n)) /\ RemoveServiceCut(v, n) \in SUBSET Node
    BY <2>1, StopServiceNode DEF Apart
  <2> QED BY <1>3, <2>2, <2>3, CutOutcomes DEF KeysLeft, KeysOf, Apart
<1>4. CASE kind = "border"
  <2>1. Removed(kind, v, n) = RemoveBorder(v, n)
        /\ RemovedFaulty(kind, v, n) = RemoveBorderFaulty(v, n)
    BY <1>4 DEF Removed, RemovedFaulty
  <2> QED BY <1>4, <2>1, RemoveBorderNode DEF KeysLeft, KeysOf
<1> QED BY <1>1, <1>2, <1>3, <1>4 DEF KindSet

-----------------------------------------------------------------------------
(* Views *)

LEMMA DriverKinds ==
    /\ \A r \in Res : Kind(r) \in KindSet
    /\ Len(Drivers) \in Nat /\ 1 \in 1..Len(Drivers)
<1>1. Drivers \in Seq(KindSet) /\ Drivers # <<>>
  BY MetaDriversAssumption DEF KindSet
<1>2. Len(Drivers) \in Nat /\ Len(Drivers) # 0
  BY <1>1
<1>3. \A i \in 1..Len(Drivers) : Drivers[i] \in KindSet
  BY <1>1
<1> QED BY <1>2, <1>3, MetaDriversAssumption

LEMMA WantsAreRecords == WantFcn \subseteq RecordFcn
BY DEF WantFcn, RecordFcn, Named, OrNone

LEMMA WantedView ==
    ASSUME NEW f \in WantFcn, NEW r \in Res, f[r] # None
    PROVE  f[r] \in WantedAs(r) /\ f[r] \in ViewsOf(Kind(r))
BY MetaDriversAssumption DEF WantFcn, OrNone

LEMMA RecordedView ==
    ASSUME NEW f \in RecordFcn, NEW r \in Res, f[r] # None
    PROVE  f[r] \in ViewsOf(Kind(r)) /\ Named(r, f[r])
BY DEF RecordFcn, ViewFcn, Views, OrNone

LEMMA NothingIsWanted == Nothing \in WantFcn
BY DEF Nothing, WantFcn, ViewFcn, Views, OrNone

LEMMA WantAssigned ==
    ASSUME NEW f \in WantFcn, NEW r \in Res, NEW w \in OrNone(WantedAs(r))
    PROVE  [f EXCEPT ![r] = w] \in WantFcn
<1> DEFINE g == [f EXCEPT ![r] = w]
<1>1. w \in Views(r)
  BY MetaDriversAssumption DEF Views, OrNone
<1>2. \A k \in Res : g[k] = IF k = r THEN w ELSE f[k]
  BY DEF WantFcn, ViewFcn
<1>3. \A k \in Res : g[k] \in Views(k) /\ g[k] \in OrNone(WantedAs(k))
  BY <1>1, <1>2 DEF WantFcn, ViewFcn
<1>4. g \in [Res -> UNION {Views(k) : k \in Res}]
  BY <1>1 DEF WantFcn, ViewFcn
<1> QED BY <1>3, <1>4 DEF WantFcn, ViewFcn

(* What the agent takes of a target is a view of the same line, and of the *)
(* same forwards.                                                          *)
LEMMA KnownView ==
    ASSUME NEW r \in Res, NEW w \in WantedAs(r)
    PROVE  /\ Known(w) \in ViewsOf(Kind(r)) /\ Known(w) # None /\ Named(r, Known(w))
           /\ Kind(r) = "border" => Known(w).forwards = w.forwards
<1>1. w \in ViewsOf(Kind(r)) /\ Kind(r) \in KindSet
  BY MetaDriversAssumption, DriverKinds
<1>2. CASE Kind(r) = "ssh_key"
  <2>1. w \in SSHKeyView
    BY <1>1, <1>2 DEF ViewsOf
  <2>2. Known(w) \in SSHKeyView /\ Known(w).user = w.user /\ Known(w).line = w.line
    BY <2>1 DEF SSHKeyView, Known
  <2>3. Known(w) \in ViewsOf(Kind(r))
    BY <1>2, <2>2 DEF ViewsOf
  <2> QED BY <1>2, <2>2, <2>3, MetaDriversAssumption DEF Named
<1>3. CASE Kind(r) = "render"
  <2>1. Known(w) \in RenderView
    BY <1>1, <1>3 DEF ViewsOf, RenderView, Known
  <2>2. Known(w) \in ViewsOf(Kind(r))
    BY <1>3, <2>1 DEF ViewsOf
  <2> QED BY <1>3, <2>2, MetaDriversAssumption DEF Named
<1>4. CASE Kind(r) = "service"
  <2>1. Known(w) \in ServiceView
    BY <1>1, <1>4 DEF ViewsOf, ServiceView, Known
  <2>2. Known(w) \in ViewsOf(Kind(r))
    BY <1>4, <2>1 DEF ViewsOf
  <2> QED BY <1>4, <2>2, MetaDriversAssumption DEF Named
<1>5. CASE Kind(r) = "border"
  <2>1. w \in BorderView
    BY <1>1, <1>5 DEF ViewsOf
  <2>2. Known(w) \in BorderView /\ Known(w).forwards = w.forwards
    BY <2>1 DEF BorderView, Known
  <2>3. Known(w) \in ViewsOf(Kind(r))
    BY <1>5, <2>2 DEF ViewsOf
  <2> QED BY <1>5, <2>2, <2>3, MetaDriversAssumption DEF Named
<1> QED BY <1>1, <1>2, <1>3, <1>4, <1>5 DEF KindSet

(* What a listing restores of a record is a view of the same line          *)
(* (restore_from_dp).                                                      *)
LEMMA RestoredView ==
    ASSUME NEW r \in Res, NEW v \in ViewsOf(Kind(r)), Named(r, v), NEW n \in Node,
           Found(Kind(r), v, n)
    PROVE  /\ Restored(Kind(r), v, n) \in ViewsOf(Kind(r))
           /\ Restored(Kind(r), v, n) # None /\ Named(r, Restored(Kind(r), v, n))
<1>1. CASE Kind(r) = "render"
  <2>1. v \in RenderView /\ RenderFound(v, n)
    BY <1>1 DEF ViewsOf, Found
  <2>2. v.path \in Paths /\ n.files[v.path] \in Texts
    BY <2>1 DEF RenderView, RenderFound, Node, OrNone
  <2>3. Restored(Kind(r), v, n) \in RenderView
    BY <1>1, <2>1, <2>2 DEF Restored, RenderView
  <2>4. Restored(Kind(r), v, n) \in ViewsOf(Kind(r))
    BY <1>1, <2>3 DEF ViewsOf
  <2> QED BY <1>1, <2>4, MetaDriversAssumption DEF Named
<1>2. CASE Kind(r) # "render"
  BY <1>2, MetaDriversAssumption DEF Restored
<1> QED BY <1>1, <1>2

-----------------------------------------------------------------------------
(* The iteration *)

(* A listing finds resources of its driver that are wanted or recorded.    *)
LEMMA ListDriverStep ==
    ASSUME Typed, NEW i \in 1..Len(Drivers), NEW targets \in WantFcn, ListDriver(i, targets)
    PROVE  /\ turn' = i /\ seen' \in RecordFcn
           /\ todo' \subseteq Of(i)
           /\ \A r \in todo' : targets[r] # None \/ seen'[r] # None
<1> DEFINE found == {r \in Of(i) : meta[r] # None /\ Found(Kind(r), meta[r], node)}
           restored(r) == Restored(Kind(r), meta[r], node)
<1>1. turn' = i /\ seen' = [r \in Res |-> IF r \in found THEN restored(r) ELSE None]
      /\ todo' = {r \in Of(i) : targets[r] # None \/ r \in found}
  BY DEF ListDriver
<1>2. \A r \in found : r \in Res
  BY DEF Of
<1>3. ASSUME NEW r \in found
      PROVE  restored(r) \in ViewsOf(Kind(r)) /\ restored(r) # None /\ Named(r, restored(r))
  <2>1. r \in Res /\ meta \in RecordFcn /\ node \in Node /\ meta[r] # None
        /\ Found(Kind(r), meta[r], node)
    BY <1>2 DEF Typed
  <2>2. meta[r] \in ViewsOf(Kind(r)) /\ Named(r, meta[r])
    BY <2>1, RecordedView
  <2> QED BY <2>1, <2>2, RestoredView
<1> HIDE DEF found, restored
<1>4. \A r \in Res : seen'[r] = (IF r \in found THEN restored(r) ELSE None)
  BY <1>1
<1>5. \A r \in Res : seen'[r] \in Views(r) /\ Named(r, seen'[r])
  BY <1>3, <1>4 DEF Views, OrNone, Named
<1>6. seen' \in [Res -> UNION {Views(r) : r \in Res}]
  BY <1>1, <1>5
<1>7. seen' \in RecordFcn
  BY <1>5, <1>6 DEF RecordFcn, ViewFcn
<1> QED BY <1>1, <1>3, <1>4, <1>7 DEF Of

(* The agent that starts again has nothing but the meta files.             *)
LEMMA RestartStep ==
    ASSUME Typed, NEW n \in Node, NEW lost \in SUBSET Res, Restart(n, lost),
           faults' \in 0..MaxFaults
    PROVE  IInv'
<1>1. turn' = 0 /\ goal' = Nothing /\ seen' = Nothing /\ todo' = {}
  BY DEF Restart, EndIteration
<1>2. node' = n /\ meta' = metaFile /\ metaFile' = metaFile /\ want' = want /\ changes' = changes
  BY DEF Restart
<1>3. tainted' \subseteq Res
  BY DEF Restart, Typed
<1>4. 0 \in 0..Len(Drivers) /\ Nothing \in WantFcn /\ Nothing \in RecordFcn
  BY DriverKinds, NothingIsWanted, WantsAreRecords
<1>5. Typed'
  BY <1>1, <1>2, <1>3, <1>4 DEF Typed
<1> QED BY <1>1, <1>2, <1>5 DEF IInv, Working, Persisted

(* The next resource of the driver is worked on. *)
LEMMA HandledResource ==
    ASSUME Working, NEW r, NEW k, Handle(r, k)
    PROVE  r \in todo /\ r \in Res /\ turn # 0 /\ r \in Of(turn)
BY DEF Working, Handle, Of

LEMMA CallStep ==
    ASSUME IInv, NEW r \in todo, Call(r), NEW n \in Node, node' = n,
           NEW v, v \in Views(r) /\ Named(r, v),
           Record(r, v) \/ UNCHANGED meta,
           tainted' \subseteq Res, faults' \in 0..MaxFaults
    PROVE  IInv'
<1>1. Typed /\ Working /\ Persisted /\ r \in Res /\ turn # 0 /\ r \in Of(turn)
  BY DEF IInv, Working, Of
<1>2. todo' = todo \ {r} /\ UNCHANGED <<want, changes, turn, goal, seen, metaFile>>
  BY DEF Call
<1>3. meta' \in RecordFcn /\ \A k \in Res : k # r => meta'[k] = meta[k]
  <2>1. CASE Record(r, v)
    <3>1. meta' = [meta EXCEPT ![r] = v] /\ meta \in RecordFcn
      BY <1>1, <2>1 DEF Record, Typed
    <3>2. \A k \in Res : meta'[k] = IF k = r THEN v ELSE meta[k]
      BY <3>1 DEF RecordFcn, ViewFcn
    <3>3. \A k \in Res : meta'[k] \in Views(k) /\ Named(k, meta'[k])
      BY <3>1, <3>2 DEF RecordFcn, ViewFcn
    <3>4. meta' \in [Res -> UNION {Views(k) : k \in Res}]
      BY <1>1, <3>1 DEF RecordFcn, ViewFcn
    <3> QED BY <3>2, <3>3, <3>4 DEF RecordFcn, ViewFcn
  <2>2. CASE UNCHANGED meta
    BY <1>1, <2>2 DEF Typed
  <2> QED BY <2>1, <2>2
<1>4. Typed'
  BY <1>1, <1>2, <1>3 DEF Typed
<1>5. Working'
  BY <1>1, <1>2 DEF Working, Of
<1>6. Persisted'
  BY <1>1, <1>2, <1>3 DEF Persisted, Of
<1> QED BY <1>4, <1>5, <1>6 DEF IInv

LEMMA FaultBound == Typed => /\ Fault => faults' \in 0..MaxFaults /\ faults' # faults
                             /\ Unfaulted => faults' \in 0..MaxFaults
BY MetaDriversAssumption DEF Typed, Fault, Unfaulted

(* An operation that ends, or that is cut short by a failure or a crash. *)
LEMMA OperateStep ==
    ASSUME IInv, NEW r \in todo, NEW v, v \in Views(r) /\ Named(r, v),
           NEW clean \in Node, NEW faulty, \A o \in faulty : o.node \in Node,
           NEW healed \in SUBSET Res, Operate(r, v, clean, faulty, healed)
    PROVE  IInv'
<1>1. Typed /\ r \in Res
  BY DEF IInv, Working, Of
<1>2. CASE /\ node' = clean /\ Record(r, v) /\ Call(r) /\ Unfaulted
           /\ tainted' = healed
  BY <1>1, <1>2, CallStep, FaultBound
<1>3. CASE \E o \in faulty :
         /\ Fault
         /\ \/ o.ok /\ node' = o.node /\ Record(r, v) /\ Call(r)
               /\ tainted' = tainted \cup {r}
            \/ ~o.ok /\ node' = o.node /\ UNCHANGED meta /\ Call(r)
               /\ tainted' = tainted \cup {r}
            \/ ~o.ok /\ Restart(o.node, {r})
  <2>1. PICK o \in faulty :
         /\ Fault
         /\ \/ node' = o.node /\ (Record(r, v) \/ UNCHANGED meta) /\ Call(r)
               /\ tainted' = tainted \cup {r}
            \/ Restart(o.node, {r})
    BY <1>3
  <2>2. o.node \in Node /\ faults' \in 0..MaxFaults
    BY <1>1, <2>1, FaultBound
  <2>3. CASE Restart(o.node, {r})
    BY <1>1, <2>2, <2>3, RestartStep
  <2>4. CASE node' = o.node /\ (Record(r, v) \/ UNCHANGED meta) /\ Call(r)
             /\ tainted' = tainted \cup {r}
    <3>1. tainted' \subseteq Res
      BY <1>1, <2>4 DEF Typed
    <3> QED BY <2>2, <2>4, <3>1, CallStep
  <2> QED BY <2>1, <2>3, <2>4
<1> QED BY <1>2, <1>3 DEF Operate

-----------------------------------------------------------------------------
(* Every step keeps the invariant *)

LEMMA InitInvariant == Init => IInv
<1> SUFFICES ASSUME Init PROVE IInv
  OBVIOUS
<1>1. want \in WantFcn
  <2>1. want = [r \in Res |-> FirstWant[r]]
    BY MetaDriversAssumption DEF Init
  <2>2. \A r \in Res : want[r] \in OrNone(WantedAs(r)) /\ want[r] \in Views(r)
    BY <2>1, MetaDriversAssumption DEF Views, OrNone
  <2> QED BY <2>1, <2>2 DEF WantFcn, ViewFcn
<1>2. Nothing \in WantFcn /\ Nothing \in RecordFcn
  BY NothingIsWanted, WantsAreRecords
<1>3. node \in Node
  <2>1. ManualLines \in SUBSET Lines
    BY MetaDriversAssumption
  <2> QED BY <2>1 DEF Init, Node, OrNone
<1>4. 0 \in 0..Len(Drivers) /\ 0 \in 0..MaxChanges /\ 0 \in 0..MaxFaults
  BY DriverKinds, MetaDriversAssumption
<1>5. Typed
  BY <1>1, <1>2, <1>3, <1>4 DEF Init, Typed
<1> QED BY <1>5 DEF Init, IInv, Working, Persisted

(* The view that a step on a resource records, and that it works with.     *)
LEMMA GoalView ==
    ASSUME IInv, NEW r \in Res, goal[r] # None
    PROVE  /\ goal[r] \in WantedAs(r)
           /\ Known(goal[r]) \in ViewsOf(Kind(r)) /\ Known(goal[r]) \in Views(r)
           /\ Named(r, Known(goal[r]))
BY WantedView, KnownView DEF IInv, Typed, Views, OrNone

LEMMA NoneView == \A r \in Res : None \in Views(r) /\ Named(r, None)
BY DEF Views, OrNone, Named

LEMMA HealedSet == ASSUME IInv, NEW r \in Res PROVE Healed(r) \in SUBSET Res
BY DEF IInv, Typed, Healed

LEMMA ResourceInvariant == ASSUME IInv, NEW r \in Res, ResourceStep(r) PROVE IInv'
<1>0. Typed /\ Working /\ node \in Node /\ Kind(r) \in KindSet
  BY DriverKinds DEF IInv, Typed
<1>1. CASE KeepResource(r) \/ SkipResource(r) \/ RefuseUpdate(r)
  <2>1. PICK k \in {1, 3} : Handle(r, k) /\ Refused(r)
    BY <1>1 DEF KeepResource, SkipResource, RefuseUpdate
  <2>2. r \in todo
    BY <2>1, <1>0, HandledResource
  <2>3. Call(r) /\ node' = node /\ UNCHANGED meta /\ tainted' \subseteq Res
        /\ faults' \in 0..MaxFaults
    BY <2>1, <1>0, FaultBound DEF Refused, Typed
  <2> QED BY <1>0, <2>2, <2>3, NoneView, CallStep
<1>2. CASE CreateResource(r)
  <2> DEFINE v == Known(goal[r])
             clean == Dumped(Kind(r), v, node)
             faulty == DumpedFaulty(Kind(r), v, node)
  <2>1. r \in todo /\ seen[r] = None
    BY <1>0, <1>2, HandledResource DEF CreateResource, Handle, Rank
  <2>2. goal[r] # None
    BY <1>0, <2>1 DEF Working
  <2>3. v \in ViewsOf(Kind(r)) /\ v \in Views(r) /\ Named(r, v)
    BY <2>2, GoalView
  <2>4. clean \in Node /\ \A o \in faulty : o.node \in Node
    <3> HIDE DEF v
    <3> QED BY <1>0, <2>3, DumpedNode
  <2>5. Operate(r, v, clean, faulty, Healed(r)) /\ Healed(r) \in SUBSET Res
    BY <1>2, HealedSet DEF CreateResource
  <2> HIDE DEF v, clean, faulty
  <2> QED BY <2>1, <2>3, <2>4, <2>5, OperateStep
<1>3. CASE DeleteResource(r)
  <2> DEFINE v == seen[r]
             clean == Removed(Kind(r), v, node)
             faulty == RemovedFaulty(Kind(r), v, node)
  <2>1. r \in todo /\ seen[r] # None
    BY <1>0, <1>3, HandledResource DEF DeleteResource, Handle, Rank
  <2>2. v \in ViewsOf(Kind(r))
    BY <1>0, <2>1, RecordedView DEF Typed
  <2>3. clean \in Node /\ \A o \in faulty : o.node \in Node
    <3> HIDE DEF v
    <3> QED BY <1>0, <2>2, RemovedNode
  <2>4. Operate(r, None, clean, faulty, Healed(r)) /\ Healed(r) \in SUBSET Res
    BY <1>3, HealedSet DEF DeleteResource
  <2>5. None \in Views(r) /\ Named(r, None)
    BY NoneView
  <2> HIDE DEF v, clean, faulty
  <2> QED BY <2>1, <2>3, <2>4, <2>5, OperateStep
<1>4. CASE UpdateResource(r)
  <2> DEFINE v == Known(goal[r])
             clean == Updated(Kind(r), v, node)
             faulty == UpdatedFaulty(Kind(r), v, node)
  <2>1. r \in todo /\ goal[r] # None
    BY <1>0, <1>4, HandledResource DEF UpdateResource, Handle, Rank
  <2>2. v \in ViewsOf(Kind(r)) /\ v \in Views(r) /\ Named(r, v)
    BY <2>1, GoalView
  <2>3. clean \in Node /\ \A o \in faulty : o.node \in Node
    <3> HIDE DEF v
    <3> QED BY <1>0, <2>2, UpdatedNode
  <2>4. Operate(r, v, clean, faulty, tainted \ {r}) /\ tainted \ {r} \in SUBSET Res
    BY <1>0, <1>4 DEF UpdateResource, Typed
  <2> HIDE DEF v, clean, faulty
  <2> QED BY <2>1, <2>2, <2>3, <2>4, OperateStep
<1> QED BY <1>1, <1>2, <1>3, <1>4 DEF ResourceStep

(* People, and services that end, leave a node that is well typed. *)
LEMMA WorldNode ==
    ASSUME Typed, Intervene \/ OneshotEnds
    PROVE  node' \in Node
<1> USE DEF Typed
<1>0. None \in OrNone(Texts) /\ node \in Node
  BY DEF OrNone
<1>1. CASE \E p \in Paths : NodeChange([node EXCEPT !.files[p] = None])
  <2>1. PICK p \in Paths : node' = [node EXCEPT !.files[p] = None]
    BY <1>1 DEF NodeChange
  <2> QED BY <1>0, <2>1 DEF Node
<1>2. CASE \E u \in Users, l \in Lines \ ManualLines :
             l \in KeysOf(node, u) /\ NodeChange([node EXCEPT !.keys[u] = @ \ {l}])
  <2>1. PICK u \in Users, l \in Lines \ ManualLines :
           l \in KeysOf(node, u) /\ NodeChange([node EXCEPT !.keys[u] = node.keys[u] \ {l}])
    BY <1>2
  <2>2. node.keys[u] \ {l} \in OrNone(SUBSET Lines)
    BY <1>0, <2>1, KeysOfNode DEF OrNone, KeysOf
  <2> QED BY <1>0, <2>1, <2>2, KeysAssigned DEF NodeChange
<1>3. CASE \E u \in Units : NodeChange([node EXCEPT !.runs[u] = None])
  <2>1. PICK u \in Units : node' = [node EXCEPT !.runs[u] = None]
    BY <1>3 DEF NodeChange
  <2> QED BY <1>0, <2>1 DEF Node
<1>4. CASE NodeChange([node EXCEPT !.nat = None])
  BY <1>0, <1>4, NatAssigned DEF NodeChange
<1> QED BY <1>1, <1>2, <1>3, <1>4 DEF Intervene, OneshotEnds

\* The node after it was started again.
Restarted == [node EXCEPT
                 !.nat = None, !.accepts = [f \in Forwards |-> 0],
                 !.runs = [u \in Units |-> IF @[u] = None THEN None ELSE node.units[u]]]

LEMMA RebootNode ==
    ASSUME node \in Node
    PROVE  /\ Restarted \in Node /\ Restarted.nat = None
           /\ Reboot => Fault /\ Restart(Restarted, {})
BY DEF Node, OrNone, Reboot, Restarted

LEMMA WorldInvariant == ASSUME IInv, World PROVE IInv'
<1>0. Typed /\ Working /\ Persisted /\ node \in Node /\ {} \in SUBSET Res
  BY DEF IInv, Typed
<1>1. CASE Intervene \/ OneshotEnds
  <2>1. node' \in Node
    BY <1>0, <1>1, WorldNode
  <2>2. faults' \in 0..MaxFaults
    BY <1>0, <1>1, FaultBound DEF Intervene, OneshotEnds
  <2>3. UNCHANGED <<want, changes, turn, goal, seen, todo, meta, metaFile, tainted>>
    BY <1>1 DEF Intervene, OneshotEnds, NodeChange, iterVars
  <2>4. Typed'
    BY <1>0, <2>1, <2>2, <2>3 DEF Typed
  <2> QED BY <1>0, <2>3, <2>4 DEF IInv, Working, Persisted, Of
<1>2. CASE Crash
  BY <1>0, <1>2, RestartStep, FaultBound DEF Crash
<1>3. CASE Reboot
  <2>1. Restart(Restarted, {}) /\ faults' \in 0..MaxFaults /\ Restarted \in Node
    BY <1>0, <1>3, RebootNode, FaultBound
  <2> HIDE DEF Restarted
  <2> QED BY <1>0, <2>1, RestartStep
<1>4. CASE \E r \in Res : ChangeTarget(r)
  <2>1. PICK r \in Res : ChangeTarget(r)
    BY <1>4
  <2>2. PICK w \in OrNone(WantedAs(r)) : want' = [want EXCEPT ![r] = w]
    BY <2>1 DEF ChangeTarget
  <2>3. want' \in WantFcn
    BY <1>0, <2>2, WantAssigned DEF Typed
  <2>4. changes' \in 0..MaxChanges
    BY <1>0, <2>1, MetaDriversAssumption DEF ChangeTarget, Typed
  <2>5. UNCHANGED <<turn, goal, seen, todo, meta, metaFile, node, tainted, faults>>
    BY <2>1 DEF ChangeTarget, iterVars
  <2>6. Typed'
    BY <1>0, <2>3, <2>4, <2>5 DEF Typed
  <2> QED BY <1>0, <2>5, <2>6 DEF IInv, Working, Persisted, Of
<1> QED BY <1>1, <1>2, <1>3, <1>4 DEF World

LEMMA StartInvariant == ASSUME IInv, StartIteration PROVE IInv'
<1>1. Typed /\ Persisted /\ turn = 0 /\ goal' = want /\ ListDriver(1, want)
      /\ UNCHANGED <<want, changes, meta, metaFile, node, tainted, faults>>
  BY DEF IInv, StartIteration
<1>2. 1 \in 1..Len(Drivers) /\ 1 \in 0..Len(Drivers) /\ want \in WantFcn
  BY <1>1, DriverKinds DEF Typed
<1>3. /\ turn' = 1 /\ seen' \in RecordFcn
      /\ todo' \subseteq Of(1)
      /\ \A r \in todo' : want[r] # None \/ seen'[r] # None
  BY <1>1, <1>2, ListDriverStep
<1>4. Typed'
  BY <1>1, <1>2, <1>3 DEF Typed
<1>5. Working'
  BY <1>1, <1>3 DEF Working, Of
<1> QED BY <1>1, <1>4, <1>5 DEF IInv, Persisted

LEMMA FinalizeInvariant == ASSUME IInv, Finalize PROVE IInv'
<1>1. Typed /\ Working /\ Persisted /\ turn # 0 /\ todo = {}
      /\ metaFile' = [r \in Res |-> IF r \in Of(turn) THEN meta[r] ELSE metaFile[r]]
      /\ UNCHANGED <<want, changes, meta, node, tainted, faults>>
  BY DEF IInv, Finalize
<1>2. \A r \in Res : metaFile'[r] = meta[r]
  BY <1>1 DEF Persisted
<1>3. metaFile' \in RecordFcn
  <2>1. \A r \in Res : metaFile'[r] \in Views(r) /\ Named(r, metaFile'[r])
    BY <1>1, <1>2 DEF Typed, RecordFcn, ViewFcn
  <2>2. metaFile' \in [Res -> UNION {Views(r) : r \in Res}]
    BY <1>1, <2>1
  <2> QED BY <2>1, <2>2 DEF RecordFcn, ViewFcn
<1>4. Persisted'
  BY <1>1, <1>2 DEF Persisted
<1>5. CASE turn < Len(Drivers)
  <2>1. ListDriver(turn + 1, goal) /\ goal' = goal
    BY <1>5 DEF Finalize
  <2>2. turn + 1 \in 1..Len(Drivers) /\ turn + 1 \in 0..Len(Drivers) /\ turn + 1 # 0
        /\ goal \in WantFcn
    BY <1>1, <1>5, DriverKinds DEF Typed
  <2>3. /\ turn' = turn + 1 /\ seen' \in RecordFcn
        /\ todo' \subseteq Of(turn + 1)
        /\ \A r \in todo' : goal[r] # None \/ seen'[r] # None
    BY <1>1, <2>1, <2>2, ListDriverStep
  <2>4. Typed'
    BY <1>1, <1>3, <2>1, <2>2, <2>3 DEF Typed
  <2>5. Working'
    BY <2>1, <2>2, <2>3 DEF Working, Of
  <2> QED BY <1>4, <2>4, <2>5 DEF IInv
<1>6. CASE ~(turn < Len(Drivers))
  <2>1. turn' = 0 /\ goal' = Nothing /\ seen' = Nothing /\ todo' = {}
    BY <1>6 DEF Finalize, EndIteration
  <2>2. 0 \in 0..Len(Drivers) /\ Nothing \in WantFcn /\ Nothing \in RecordFcn
    BY DriverKinds, NothingIsWanted, WantsAreRecords
  <2>3. Typed'
    BY <1>1, <1>3, <2>1, <2>2 DEF Typed
  <2> QED BY <1>4, <2>1, <2>3 DEF IInv, Working
<1> QED BY <1>5, <1>6

LEMMA IndInvariance == Spec => []IInv
<1>1. IInv /\ [Next]_vars => IInv'
  <2> SUFFICES ASSUME IInv, [Next]_vars PROVE IInv'
    OBVIOUS
  <2>1. CASE StartIteration
    BY <2>1, StartInvariant
  <2>2. CASE Finalize
    BY <2>2, FinalizeInvariant
  <2>3. CASE \E r \in Res : ResourceStep(r)
    BY <2>3, ResourceInvariant
  <2>4. CASE World
    BY <2>4, WorldInvariant
  <2>5. CASE UNCHANGED vars
    BY <2>5 DEF vars, iterVars, IInv, Typed, Working, Persisted, Of
  <2> QED BY <2>1, <2>2, <2>3, <2>4, <2>5 DEF Next, Agent
<1> QED BY <1>1, InitInvariant, PTL DEF Spec

(* The targets and records are views of their kind, the node holds what    *)
(* its kinds may put there, and between iterations every storage is what   *)
(* its file says (finalize of the drivers).                                *)
THEOREM MetaTypeCorrect == Spec => []TypeOK
<1>1. IInv => TypeOK
  <2> SUFFICES ASSUME IInv PROVE TypeOK
    OBVIOUS
  <2>1. \A r \in Res : {want[r], goal[r], seen[r], meta[r], metaFile[r]} \subseteq Views(r)
    BY DEF IInv, Typed, WantFcn, RecordFcn, ViewFcn
  <2>2. turn = 0 => meta = metaFile
    BY DEF IInv, Typed, Persisted, RecordFcn, ViewFcn
  <2>3. todo \subseteq Res
    BY DEF IInv, Working, Of
  <2> QED BY <2>1, <2>2, <2>3 DEF IInv, Typed, TypeOK
<1> QED BY <1>1, IndInvariance, PTL

-----------------------------------------------------------------------------
(* Lines that the agent does not own *)

LEMMA FaultStep == ASSUME Typed, Fault PROVE faults' # faults
BY FaultBound

(* An operation that is not cut short is one call. *)
LEMMA OperateClean ==
    ASSUME NEW r, NEW v, NEW clean, NEW faulty, NEW healed,
           Operate(r, v, clean, faulty, healed)
    PROVE  Fault \/ (node' = clean /\ todo' = todo \ {r})
BY DEF Operate, Call

(* What a clean step on a resource takes from a file of keys: the line of  *)
(* its key, for the one deleted.                                           *)
LEMMA ResourceKeys ==
    ASSUME IInv, NEW r \in Res, ResourceStep(r), NEW u \in Users,
           NEW l \in KeysOf(node, u) \ KeysOf(node', u)
    PROVE  \/ faults' # faults
           \/ /\ r \in todo \ todo' /\ Kind(r) = "ssh_key"
              /\ \E v \in WantedAs(r) : v.user = u /\ v.line = l
<1>0. Typed /\ Working /\ node \in Node /\ Kind(r) \in KindSet
  BY DriverKinds DEF IInv, Typed
<1>1. CASE KeepResource(r) \/ SkipResource(r) \/ RefuseUpdate(r)
  BY <1>1 DEF KeepResource, SkipResource, RefuseUpdate, Refused
<1>2. CASE CreateResource(r)
  <2> DEFINE v == Known(goal[r])
  <2>1. r \in todo /\ seen[r] = None
    BY <1>0, <1>2, HandledResource DEF CreateResource, Handle, Rank
  <2>2. goal[r] # None
    BY <1>0, <2>1 DEF Working
  <2>3. v \in ViewsOf(Kind(r))
    BY <2>2, GoalView
  <2>4. Fault \/ node' = Dumped(Kind(r), v, node)
    BY <1>2, OperateClean DEF CreateResource
  <2> HIDE DEF v
  <2>5. KeysWhole(node, Dumped(Kind(r), v, node))
    BY <1>0, <2>3, DumpedNode
  <2>6. Fault
    BY <2>4, <2>5 DEF KeysWhole
  <2> QED BY <1>0, <2>6, FaultStep
<1>3. CASE DeleteResource(r)
  <2> DEFINE v == seen[r]
  <2>1. r \in todo /\ seen[r] # None
    BY <1>0, <1>3, HandledResource DEF DeleteResource, Handle, Rank
  <2>2. v \in ViewsOf(Kind(r)) /\ Named(r, v) /\ v # None
    BY <1>0, <2>1, RecordedView DEF Typed
  <2>3. Fault \/ (node' = Removed(Kind(r), v, node) /\ todo' = todo \ {r})
    BY <1>3, OperateClean DEF DeleteResource
  <2> HIDE DEF v
  <2>4. KeysLeft(Kind(r), v, node, Removed(Kind(r), v, node))
    BY <1>0, <2>2, RemovedNode
  <2>5. Fault \/ (Kind(r) = "ssh_key" /\ u = v.user /\ l = v.line)
    BY <2>3, <2>4 DEF KeysLeft
  <2> QED BY <1>0, <2>1, <2>2, <2>3, <2>5, FaultStep DEF Named
<1>4. CASE UpdateResource(r)
  <2> DEFINE v == Known(goal[r])
  <2>1. r \in todo /\ goal[r] # None
    BY <1>0, <1>4, HandledResource DEF UpdateResource, Handle, Rank
  <2>2. v \in ViewsOf(Kind(r))
    BY <2>1, GoalView
  <2>3. Fault \/ node' = Updated(Kind(r), v, node)
    BY <1>4, OperateClean DEF UpdateResource
  <2> HIDE DEF v
  <2>4. KeysWhole(node, Updated(Kind(r), v, node))
    BY <1>0, <2>2, UpdatedNode
  <2>5. Fault
    BY <2>3, <2>4 DEF KeysWhole
  <2> QED BY <1>0, <2>5, FaultStep
<1> QED BY <1>1, <1>2, <1>3, <1>4 DEF ResourceStep

(* A line of authorized_keys that no resource at work names, above all one *)
(* that people have put in, is left alone by every call that is not cut    *)
(* short (the file is written anew by each of them).                       *)
THEOREM ForeignKeysKept == Spec => KeysKept
<1>1. IInv /\ [Next]_vars =>
        [\A u \in Users : \A l \in KeysOf(node, u) \ KeysOf(node', u) :
           \/ faults' # faults
           \/ \E r \in todo \ todo' :
                Kind(r) = "ssh_key" /\ \E v \in WantedAs(r) : v.user = u /\ v.line = l]_vars
  <2> SUFFICES ASSUME IInv, [Next]_vars, NEW u \in Users,
                      NEW l \in KeysOf(node, u) \ KeysOf(node', u)
               PROVE  \/ faults' # faults
                      \/ \E r \in todo \ todo' :
                           /\ Kind(r) = "ssh_key"
                           /\ \E v \in WantedAs(r) : v.user = u /\ v.line = l
    OBVIOUS
  <2>0. Typed /\ node \in Node
    BY DEF IInv, Typed
  <2>1. CASE \E r \in Res : ResourceStep(r)
    BY <2>1, ResourceKeys
  <2>2. CASE StartIteration \/ Finalize \/ (\E r \in Res : ChangeTarget(r)) \/ UNCHANGED vars
    BY <2>2 DEF StartIteration, Finalize, ChangeTarget, vars
  <2>3. CASE Intervene \/ Crash \/ Reboot
    BY <2>0, <2>3, FaultStep DEF Intervene, Crash, Reboot
  <2>4. CASE OneshotEnds
    <3>1. PICK u1 \in Units : node' = [node EXCEPT !.runs[u1] = None]
      BY <2>4 DEF OneshotEnds, NodeChange
    <3>2. node'.keys = node.keys
      BY <2>0, <3>1 DEF Node
    <3> QED BY <3>2 DEF KeysOf
  <2> QED BY <2>1, <2>2, <2>3, <2>4 DEF Next, Agent, World
<1> QED BY <1>1, IndInvariance, PTL DEF Spec, KeysKept

-----------------------------------------------------------------------------
(* Rules of the border *)

(* While the border waits or is worked on, the node is what it was, or     *)
(* what a call of the border has left.                                     *)
LEMMA OperateNodes ==
    ASSUME NEW r, NEW v, NEW clean, NEW faulty, NEW healed,
           Operate(r, v, clean, faulty, healed)
    PROVE  node' = clean \/ \E o \in faulty : node' = o.node
BY DEF Operate, Restart

LEMMA BorderStep ==
    ASSUME IInv, NEW r \in Res, Kind(r) = "border", ResourceStep(r), goal[r] # None
    PROVE  BorderKept(goal[r], node, node')
<1>0. Typed /\ Working /\ node \in Node /\ "border" \in KindSet
  BY DEF IInv, Typed, KindSet
<1>g. goal[r] \in WantedAs(r) /\ Known(goal[r]) \in ViewsOf("border")
  BY GoalView
<1>f. Known(goal[r]).forwards = goal[r].forwards
  BY <1>g, KnownView
<1> DEFINE v == Known(goal[r])
<1>k. \A m : BorderKept(v, node, m) => BorderKept(goal[r], node, m)
  BY <1>f DEF BorderKept
<1>1. CASE KeepResource(r) \/ SkipResource(r) \/ RefuseUpdate(r)
  <2>1. node' = node
    BY <1>1 DEF KeepResource, SkipResource, RefuseUpdate, Refused
  <2> QED BY <1>0, <2>1 DEF BorderKept
<1>2. CASE CreateResource(r)
  <2>1. \/ node' = Dumped("border", v, node)
        \/ \E o \in DumpedFaulty("border", v, node) : node' = o.node
    BY <1>2, OperateNodes DEF CreateResource
  <2> HIDE DEF v
  <2>2. /\ BorderKept(v, node, Dumped("border", v, node))
        /\ \A o \in DumpedFaulty("border", v, node) : BorderKept(v, node, o.node)
    <3>1. v \in ViewsOf("border")
      BY <1>g DEF v
    <3> QED BY <1>0, <3>1, DumpedNode
  <2> QED BY <1>k, <2>1, <2>2
<1>3. CASE DeleteResource(r)
  BY <1>3 DEF DeleteResource, Handle, Rank
<1>4. CASE UpdateResource(r)
  <2>1. \/ node' = Updated("border", v, node)
        \/ \E o \in UpdatedFaulty("border", v, node) : node' = o.node
    BY <1>4, OperateNodes DEF UpdateResource
  <2> HIDE DEF v
  <2>2. /\ BorderKept(v, node, Updated("border", v, node))
        /\ \A o \in UpdatedFaulty("border", v, node) : BorderKept(v, node, o.node)
    <3>1. v \in ViewsOf("border")
      BY <1>g DEF v
    <3> QED BY <1>0, <3>1, UpdatedNode
  <2> QED BY <1>k, <2>1, <2>2
<1> QED BY <1>1, <1>2, <1>3, <1>4 DEF ResourceStep

(* No call of the border, even one that fails or is interrupted, takes     *)
(* away a rule that its new target has: the new rules are inserted before  *)
(* the old ones are removed (_apply_forward_accepts).                      *)
THEOREM BorderAcceptsKept == Spec => AcceptsKept
<1>1. IInv /\ [Next]_vars =>
        [\A r \in todo \ todo' : Kind(r) = "border" =>
           \A f \in Forwards :
              /\ node'.nat # None
              /\ node.accepts[f] > 0 /\ goal[r] # None /\ f \in goal[r].forwards
              => node'.accepts[f] > 0]_vars
  <2> SUFFICES ASSUME IInv, [Next]_vars, NEW r \in todo \ todo', Kind(r) = "border",
                      NEW f \in Forwards, node'.nat # None, node.accepts[f] > 0,
                      goal[r] # None, f \in goal[r].forwards
               PROVE  node'.accepts[f] > 0
    OBVIOUS
  <2>0. Typed /\ Working /\ node \in Node /\ r \in Res /\ turn # 0 /\ r \in Of(turn)
    BY DEF IInv, Typed, Working, Of
  <2>1. CASE \E k \in Res : ResourceStep(k)
    <3>1. PICK k \in Res : ResourceStep(k)
      BY <2>1
    <3>2. PICK n : Handle(k, n)
      BY <3>1 DEF ResourceStep, KeepResource, CreateResource, DeleteResource, SkipResource,
                  UpdateResource, RefuseUpdate
    <3>3. k \in Of(turn)
      BY <2>0, <3>2, HandledResource
    <3>4. k = r
      BY <2>0, <3>3, OneBorder DEF Of
    <3>5. BorderKept(goal[r], node, node')
      BY <2>0, <3>1, <3>4, BorderStep
    <3> QED BY <3>5 DEF BorderKept
  <2>2. CASE StartIteration \/ Finalize
    BY <2>0, <2>2 DEF StartIteration, Finalize
  <2>3. CASE Intervene \/ OneshotEnds \/ (\E k \in Res : ChangeTarget(k)) \/ UNCHANGED vars
    BY <2>3 DEF Intervene, OneshotEnds, NodeChange, ChangeTarget, vars, iterVars
  <2>4. CASE Crash
    BY <2>4 DEF Crash, Restart
  <2>5. CASE Reboot
    <3>1. node' = Restarted /\ Restarted.nat = None
      BY <2>0, <2>5, RebootNode DEF Restart
    <3> QED BY <3>1
  <2> QED BY <2>1, <2>2, <2>3, <2>4, <2>5 DEF Next, Agent, World
<1> QED BY <1>1, IndInvariance, PTL DEF Spec, AcceptsKept
=============================================================================
