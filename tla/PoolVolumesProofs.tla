-------------------------- MODULE PoolVolumesProofs --------------------------
(***************************************************************************)
(* Proofs about PoolVolumes: its types, WithinCapacity and PlacedBest, for *)
(* any volumes, machines, storage pools, targets and numbers of faults.    *)
(*                                                                         *)
(* Both properties need that the storage pools are charged with what is on *)
(* them, as of the listing and of what the iteration did since, unless an  *)
(* answer was lost.  That needs that the volumes still to be worked on are *)
(* as they were listed, and that a sum over volumes which differ in one    *)
(* volume differs in its size.  The sum is a recursive function on sets;   *)
(* it is shown to be the number of units of size of the volumes, by the    *)
(* least set for which it is not, so that cardinalities do the rest.       *)
(***************************************************************************)
EXTENDS PoolVolumes, FiniteSetTheorems, TLAPS

-----------------------------------------------------------------------------
(* The space that volumes take of a pool *)

\* A set of sets has a least one.
LEMMA MinimalSet ==
    ASSUME NEW S, IsFiniteSet(S), NEW T \in SUBSET (SUBSET S), T # {}
    PROVE  \E s \in T : \A u \in T : u \subseteq s => u = s
<1>1. IsWellFoundedOn(StrictSubsetOrdering(S), SUBSET S)
  BY FS_StrictSubsetOrderingWellFounded, FS_FiniteSubsetsOfFinite
<1>2. \E s \in T : \A u \in T : ~(<<u, s>> \in StrictSubsetOrdering(S))
  BY <1>1, WFMin
<1>3. \A s, u \in SUBSET S : u \subseteq s /\ u # s => <<u, s>> \in StrictSubsetOrdering(S)
  BY DEF StrictSubsetOrdering
<1> QED BY <1>2, <1>3

Pick(s) == CHOOSE x \in s : TRUE

LEMMA PickOf == ASSUME NEW s, s # {} PROVE Pick(s) \in s
BY DEF Pick

\* The recursion of MapThenSumSet, for the sizes of the volumes of S.
IsSum(vols, S, f) ==
    f = [s \in SUBSET S |-> IF s = {} THEN 0 ELSE vols[Pick(s)].size + f[s \ {Pick(s)}]]
Sum(vols, S) == CHOOSE f : IsSum(vols, S, f)

LEMMA OneSum ==
    ASSUME NEW S, IsFiniteSet(S), NEW vols, NEW f, IsSum(vols, S, f),
           NEW g, IsSum(vols, S, g)
    PROVE  f = g
<1> DEFINE Wrong == {s \in SUBSET S : f[s] # g[s]}
<1>1. SUFFICES Wrong = {}
  <2>1. \A s \in SUBSET S : f[s] = g[s]
    BY <1>1
  <2>2. DOMAIN f = SUBSET S /\ DOMAIN g = SUBSET S
    BY DEF IsSum
  <2>3. f = [s \in SUBSET S |-> f[s]] /\ g = [s \in SUBSET S |-> g[s]]
    BY <2>2 DEF IsSum
  <2> QED BY <2>1, <2>3
<1>2. SUFFICES ASSUME Wrong # {} PROVE FALSE
  OBVIOUS
<1>3. Wrong \in SUBSET (SUBSET S)
  OBVIOUS
<1>4. PICK s \in Wrong : \A u \in Wrong : u \subseteq s => u = s
  <2> HIDE DEF Wrong
  <2> QED BY <1>2, <1>3, MinimalSet
<1>5. s # {}
  BY DEF IsSum
<1>6. Pick(s) \in s
  BY <1>5, PickOf
<1>7. s \ {Pick(s)} \in SUBSET S /\ s \ {Pick(s)} # s
  BY <1>6
<1>8. f[s \ {Pick(s)}] = g[s \ {Pick(s)}]
  BY <1>4, <1>7
<1>9. f[s] = vols[Pick(s)].size + f[s \ {Pick(s)}] /\ g[s] = vols[Pick(s)].size + g[s \ {Pick(s)}]
  BY <1>5 DEF IsSum
<1> QED BY <1>4, <1>8, <1>9

Column(v, n) == {v} \X (1..n)

\* A unit of size of a volume is the volume with a number.
Units(vols, s) == {c \in s \X (Nat \ {0}) : c[2] <= vols[c[1]].size}

LEMMA ColumnCount ==
    ASSUME NEW v, NEW n \in Nat
    PROVE  IsFiniteSet(Column(v, n)) /\ Cardinality(Column(v, n)) = n
<1>1. IsFiniteSet(1..n) /\ Cardinality(1..n) = n
  BY FS_Interval
<1>2. IsFiniteSet({v}) /\ Cardinality({v}) = 1
  BY FS_Singleton
<1>3. /\ IsFiniteSet({v} \X (1..n))
      /\ Cardinality({v} \X (1..n)) = Cardinality({v}) * Cardinality(1..n)
  BY <1>1, <1>2, FS_Product
<1> QED BY <1>1, <1>2, <1>3 DEF Column

LEMMA UnitsOf ==
    ASSUME NEW vols, NEW s, NEW v \in s, vols[v].size \in Nat
    PROVE  /\ Units(vols, s) = Units(vols, s \ {v}) \cup Column(v, vols[v].size)
           /\ Units(vols, s \ {v}) \cap Column(v, vols[v].size) = {}
BY DEF Units, Column

LEMMA UnitsFinite ==
    ASSUME NEW S, IsFiniteSet(S), NEW vols, \A v \in S : vols[v].size \in Nat
    PROVE  \A s \in SUBSET S : IsFiniteSet(Units(vols, s))
<1> DEFINE Wrong == {s \in SUBSET S : ~IsFiniteSet(Units(vols, s))}
<1>1. SUFFICES ASSUME Wrong # {} PROVE FALSE
  OBVIOUS
<1>2. Wrong \in SUBSET (SUBSET S)
  OBVIOUS
<1>3. PICK s \in Wrong : \A u \in Wrong : u \subseteq s => u = s
  <2> HIDE DEF Wrong
  <2> QED BY <1>1, <1>2, MinimalSet
<1>4. s # {}
  <2>1. Units(vols, {}) = {}
    BY DEF Units
  <2> QED BY <2>1, FS_EmptySet
<1>5. PICK v \in s : TRUE
  BY <1>4
<1>6. IsFiniteSet(Units(vols, s \ {v}))
  BY <1>3, <1>5
<1>7. IsFiniteSet(Column(v, vols[v].size))
  BY <1>5, ColumnCount
<1>8. Units(vols, s) = Units(vols, s \ {v}) \cup Column(v, vols[v].size)
  BY <1>5, UnitsOf
<1> QED BY <1>3, <1>6, <1>7, <1>8, FS_Union

\* One volume more takes its size more.
LEMMA UnitsCount ==
    ASSUME NEW S, IsFiniteSet(S), NEW vols, \A v \in S : vols[v].size \in Nat, NEW v \in S
    PROVE  Cardinality(Units(vols, S)) = vols[v].size + Cardinality(Units(vols, S \ {v}))
<1>1. IsFiniteSet(Units(vols, S \ {v})) /\ Cardinality(Units(vols, S \ {v})) \in Nat
  BY UnitsFinite, FS_CardinalityType
<1>2. /\ IsFiniteSet(Column(v, vols[v].size))
      /\ Cardinality(Column(v, vols[v].size)) = vols[v].size
  BY ColumnCount
<1>3. /\ Units(vols, S) = Units(vols, S \ {v}) \cup Column(v, vols[v].size)
      /\ Units(vols, S \ {v}) \cap Column(v, vols[v].size) = {}
  BY UnitsOf
<1>4. Cardinality(Units(vols, S)) =
        Cardinality(Units(vols, S \ {v})) + Cardinality(Column(v, vols[v].size))
          - Cardinality(Units(vols, S \ {v}) \cap Column(v, vols[v].size))
  BY <1>1, <1>2, <1>3, FS_Union
<1>5. Cardinality(Units(vols, S \ {v}) \cap Column(v, vols[v].size)) = 0
  BY <1>3, FS_EmptySet
<1> QED BY <1>1, <1>2, <1>4, <1>5

LEMMA SumIsUnits ==
    ASSUME NEW S, IsFiniteSet(S), NEW vols, \A v \in S : vols[v].size \in Nat
    PROVE  Sum(vols, S)[S] = Cardinality(Units(vols, S))
<1> DEFINE count == [s \in SUBSET S |-> Cardinality(Units(vols, s))]
<1>1. ASSUME NEW s \in SUBSET S PROVE
        count[s] = IF s = {} THEN 0 ELSE vols[Pick(s)].size + count[s \ {Pick(s)}]
  <2>1. CASE s = {}
    <3>1. Units(vols, {}) = {}
      BY DEF Units
    <3> QED BY <2>1, <3>1, FS_EmptySet
  <2>2. CASE s # {}
    <3>1. Pick(s) \in s
      BY <2>2, PickOf
    <3>2. IsFiniteSet(s) /\ \A v \in s : vols[v].size \in Nat
      BY FS_Subset
    <3>3. Cardinality(Units(vols, s)) =
            vols[Pick(s)].size + Cardinality(Units(vols, s \ {Pick(s)}))
      BY <3>1, <3>2, UnitsCount
    <3> QED BY <2>2, <3>3
  <2> QED BY <2>1, <2>2
<1>2. IsSum(vols, S, count)
  <2>1. count = [s \in SUBSET S |-> count[s]]
    OBVIOUS
  <2> HIDE DEF count
  <2> QED BY <1>1, <2>1 DEF IsSum
<1> HIDE DEF count
<1>3. IsSum(vols, S, Sum(vols, S))
  BY <1>2 DEF Sum
<1>4. Sum(vols, S) = count
  BY <1>2, <1>3, OneSum
<1> QED BY <1>4 DEF count

On(vols, p) == {v \in Volumes : vols[v] # None /\ vols[v].pool = p}

LEMMA ProvisionedSum ==
    ASSUME NEW vols, NEW p
    PROVE  Provisioned(vols, p) = Sum(vols, On(vols, p))[On(vols, p)]
BY DEF Provisioned, MapThenSumSet, MapThenFoldSet, Sum, IsSum, On, Pick

\* Rows of volumes: nothing, or something with a size and a pool.
Rows == [Volumes -> OrNone(Disk \cup Seen)]

LEMMA SizesNumbers == \A x \in Sizes : x \in Nat /\ x \in Int
BY VolumesAssumption

LEMMA RowSize ==
    ASSUME NEW vols \in Rows, NEW v \in Volumes, vols[v] # None
    PROVE  vols[v].size \in Nat /\ vols[v].size \in Int /\ vols[v].pool \in Pools
<1>1. vols[v] \in Disk \cup Seen
  BY DEF Rows, OrNone
<1>2. vols[v].size \in Sizes /\ vols[v].pool \in Pools
  BY <1>1 DEF Disk, Seen
<1>3. vols[v].size \in Nat /\ vols[v].size \in Int
  BY <1>2, SizesNumbers
<1> QED BY <1>2, <1>3

\* What the volumes take of a pool is the number of their units.
LEMMA ProvisionedUnits ==
    ASSUME NEW vols \in Rows, NEW p
    PROVE  /\ IsFiniteSet(On(vols, p))
           /\ \A v \in On(vols, p) : vols[v].size \in Nat
           /\ IsFiniteSet(Units(vols, On(vols, p)))
           /\ Provisioned(vols, p) = Cardinality(Units(vols, On(vols, p)))
           /\ Provisioned(vols, p) \in Nat
<1>1. IsFiniteSet(On(vols, p))
  BY VolumesAssumption, FS_Subset DEF On
<1>2. \A v \in On(vols, p) : vols[v].size \in Nat
  BY RowSize DEF On
<1>3. Provisioned(vols, p) = Cardinality(Units(vols, On(vols, p)))
  BY <1>1, <1>2, SumIsUnits, ProvisionedSum
<1>4. IsFiniteSet(Units(vols, On(vols, p)))
  BY <1>1, <1>2, UnitsFinite
<1> QED BY <1>1, <1>2, <1>3, <1>4, FS_CardinalityType

\* Fewer or smaller volumes of a pool take no more of it.
LEMMA ProvisionedLess ==
    ASSUME NEW a \in Rows, NEW b \in Rows, NEW p,
           \A v \in On(a, p) : v \in On(b, p) /\ a[v].size <= b[v].size
    PROVE  Provisioned(a, p) <= Provisioned(b, p)
<1>1. Units(a, On(a, p)) \subseteq Units(b, On(b, p))
  <2> SUFFICES ASSUME NEW c \in Units(a, On(a, p)) PROVE c \in Units(b, On(b, p))
    OBVIOUS
  <2>1. /\ c \in On(a, p) \X (Nat \ {0}) /\ c[2] <= a[c[1]].size
    BY DEF Units
  <2>2. c[1] \in On(a, p) /\ c[2] \in Nat
    BY <2>1
  <2>3. c[1] \in On(b, p) /\ a[c[1]].size \in Nat /\ b[c[1]].size \in Nat
    BY <2>2, ProvisionedUnits
  <2>4. a[c[1]].size <= b[c[1]].size
    BY <2>2
  <2>5. c[2] <= b[c[1]].size
    BY <2>1, <2>2, <2>3, <2>4
  <2>6. c \in On(b, p) \X (Nat \ {0})
    BY <2>1, <2>3
  <2> QED BY <2>5, <2>6 DEF Units
<1> QED BY <1>1, ProvisionedUnits, FS_Subset

\* Two rows that take the same of every pool.
Alike(x, y) == (x = None <=> y = None) /\ (x # None => x.size = y.size /\ x.pool = y.pool)

LEMMA ProvisionedAlike ==
    ASSUME NEW a \in Rows, NEW b \in Rows, NEW p, \A v \in Volumes : Alike(a[v], b[v])
    PROVE  Provisioned(a, p) = Provisioned(b, p)
<1>1. \A v \in On(a, p) : v \in On(b, p) /\ a[v].size <= b[v].size
  BY RowSize DEF Alike, On
<1>2. \A v \in On(b, p) : v \in On(a, p) /\ b[v].size <= a[v].size
  BY RowSize DEF Alike, On
<1>3. Provisioned(a, p) <= Provisioned(b, p) /\ Provisioned(b, p) <= Provisioned(a, p)
  BY <1>1, <1>2, ProvisionedLess
<1> QED BY <1>3, ProvisionedUnits

Weight(x, p) == IF x # None /\ x.pool = p THEN x.size ELSE 0

\* Volumes without one of them.
Without(vols, v) == [vols EXCEPT ![v] = None]

LEMMA ProvisionedWithout ==
    ASSUME NEW vols \in Rows, NEW v \in Volumes, NEW p
    PROVE  Provisioned(vols, p) = Provisioned(Without(vols, v), p) + Weight(vols[v], p)
<1>1. Without(vols, v) \in Rows
  BY DEF Without, Rows, OrNone
<1>2. On(Without(vols, v), p) = On(vols, p) \ {v}
  BY DEF Without, On, Rows
<1>3. Units(Without(vols, v), On(vols, p) \ {v}) = Units(vols, On(vols, p) \ {v})
  <2>1. \A u \in On(vols, p) \ {v} : Without(vols, v)[u] = vols[u]
    BY DEF Without, On, Rows
  <2> QED BY <2>1 DEF Units
<1>4. Provisioned(Without(vols, v), p) = Cardinality(Units(vols, On(vols, p) \ {v}))
  BY <1>1, <1>2, <1>3, ProvisionedUnits
<1>5. CASE v \in On(vols, p)
  <2>1. Provisioned(vols, p) = vols[v].size + Provisioned(Without(vols, v), p)
    BY <1>4, <1>5, ProvisionedUnits, UnitsCount
  <2>2. Weight(vols[v], p) = vols[v].size /\ vols[v].size \in Nat
    BY <1>5, RowSize DEF Weight, On
  <2>3. Provisioned(Without(vols, v), p) \in Nat
    BY <1>1, ProvisionedUnits
  <2> QED BY <2>1, <2>2, <2>3
<1>6. CASE v \notin On(vols, p)
  <2>1. On(vols, p) \ {v} = On(vols, p) /\ Weight(vols[v], p) = 0
    BY <1>6 DEF On, Weight
  <2>2. Provisioned(vols, p) \in Nat /\ Provisioned(vols, p) = Provisioned(Without(vols, v), p)
    BY <1>4, <2>1, ProvisionedUnits
  <2> QED BY <2>1, <2>2
<1> QED BY <1>5, <1>6

\* Volumes that differ in one take as much more as it does.
LEMMA ProvisionedChange ==
    ASSUME NEW a \in Rows, NEW b \in Rows, NEW v \in Volumes, NEW p,
           \A u \in Volumes \ {v} : Alike(a[u], b[u])
    PROVE  Provisioned(b, p) = Provisioned(a, p) + (Weight(b[v], p) - Weight(a[v], p))
<1>1. Without(a, v) \in Rows /\ Without(b, v) \in Rows
  BY DEF Without, Rows, OrNone
<1>2. \A u \in Volumes : Alike(Without(a, v)[u], Without(b, v)[u])
  BY DEF Without, Rows, Alike
<1>3. Provisioned(Without(a, v), p) = Provisioned(Without(b, v), p)
  BY <1>1, <1>2, ProvisionedAlike
<1>4. Weight(a[v], p) \in Nat /\ Weight(b[v], p) \in Nat
  BY RowSize DEF Weight
<1>5. Provisioned(Without(a, v), p) \in Nat
  BY <1>1, ProvisionedUnits
<1>6. /\ Provisioned(a, p) = Provisioned(Without(a, v), p) + Weight(a[v], p)
      /\ Provisioned(b, p) = Provisioned(Without(b, v), p) + Weight(b[v], p)
  BY ProvisionedWithout
<1> QED BY <1>3, <1>4, <1>5, <1>6


-----------------------------------------------------------------------------
(* The inductive invariant *)

\* What the iteration charges for: the disks, and those it listed and deleted.
Held == [v \in Volumes |-> IF disk[v] # None THEN disk[v] ELSE listed[v]]

Working ==
    /\ pc = "idle" => todo = {}
    /\ pc = "volumes" => todo \subseteq Volumes
    /\ pc = "machines" => todo \subseteq Machines

\* Until a volume is worked on it is as it was listed, and while volumes are,
\* the domains that were listed are there.
AsListed ==
    pc = "volumes" =>
      /\ \A v \in todo : Alike(disk[v], listed[v])
      /\ \A m \in domListed : dom[m] # None
      /\ \A v \in Volumes : listed[v] # None => listed[v].machine \in domListed \cup {None}

Charged ==
    pc = "volumes" => \A p \in Pools \ lost : charged[p] = Provisioned(Held, p)

\* A domain that was listed as off is there until its machine is worked on.
OffThere == \A m \in offListed : pc = "volumes" \/ m \in todo => dom[m] # None

IInv == TypeOK /\ Working /\ AsListed /\ OffThere /\ Charged

LEMMA HeldRows == ASSUME TypeOK PROVE Held \in Rows /\ disk \in Rows
BY DEF TypeOK, Held, Rows, OrNone

\* A volume that is worked on.
LEMMA Handled ==
    ASSUME IInv, NEW v \in Volumes, NEW r, Handle(v, r)
    PROVE  /\ pc = "volumes" /\ pc' = pc
           /\ v \in todo /\ todo' = todo \ {v}
           /\ listed' = listed /\ domListed' = domListed /\ goal' = goal
           /\ Alike(disk[v], listed[v])
           /\ \A p \in Pools \ lost : charged[p] = Provisioned(Held, p)
           /\ Rank(v) = r
<1>1. v \in todo /\ todo' = todo \ {v} /\ Rank(v) = r
  BY DEF Handle
<1>2. UNCHANGED <<readVars, pc, listed, domListed>>
  BY DEF Handle
<1>3. pc = "volumes"
  BY <1>1, VolumesAssumption DEF IInv, Working, TypeOK
<1> QED BY <1>1, <1>2, <1>3 DEF readVars, IInv, AsListed, Charged

LEMMA NewRank ==
    ASSUME NEW v \in Volumes, Rank(v) = 1
    PROVE  goal[v] # None
BY DEF Rank, Wanted

LEMMA ManagedRank ==
    ASSUME NEW v \in Volumes, Managed(v)
    PROVE  listed[v] # None
BY DEF Managed

LEMMA UpdateRank ==
    ASSUME NEW v \in Volumes, Rank(v) = 3
    PROVE  goal[v] # None
BY DEF Rank, Wanted

-----------------------------------------------------------------------------
(* Domains and the disks they name *)

Domains == [Machines -> OrNone(Domain)]

\* A domain that names a volume in another place, or is on or off.
LEMMA Placed ==
    ASSUME NEW d \in Domain, NEW v \in Volumes, NEW p \in OrNone(Pools)
    PROVE  [d EXCEPT !.at[v] = p] \in Domain
<1>1. [d EXCEPT !.at[v] = p] = [on |-> d.on, at |-> [d.at EXCEPT ![v] = p]]
  BY DEF Domain
<1>2. d.on \in BOOLEAN /\ [d.at EXCEPT ![v] = p] \in [Volumes -> OrNone(Pools)]
  BY Zenon DEF Domain
<1>3. [on |-> d.on, at |-> [d.at EXCEPT ![v] = p]] \in Domain
  BY <1>2, Zenon DEF Domain
<1> QED BY <1>1, <1>3, Zenon

LEMMA Switched ==
    ASSUME NEW d \in Domain, NEW b \in BOOLEAN
    PROVE  [d EXCEPT !.on = b] \in Domain
<1>1. [d EXCEPT !.on = b] = [on |-> b, at |-> d.at]
  BY DEF Domain
<1>2. [on |-> b, at |-> d.at] \in Domain
  BY Zenon DEF Domain
<1> QED BY <1>1, <1>2, Zenon

LEMMA Replaced ==
    ASSUME NEW d \in Domains, NEW m \in Machines, NEW e \in Domain
    PROVE  /\ [d EXCEPT ![m] = e] \in Domains
           /\ \A x \in Machines : d[x] # None => [d EXCEPT ![m] = e][x] # None
BY VolumesAssumption DEF Domains, OrNone

LEMMA Renamed ==
    ASSUME NEW d \in Domains, NEW m \in Machines, d[m] # None, NEW v \in Volumes, NEW p \in Pools
    PROVE  /\ Attached(d, m, v, p) \in Domains /\ Detached(d, m, v) \in Domains
           /\ \A x \in Machines : d[x] # None => /\ Attached(d, m, v, p)[x] # None
                                                 /\ Detached(d, m, v)[x] # None
<1>1. d[m] \in Domain
  BY DEF Domains, OrNone
<1> DEFINE with    == [d[m] EXCEPT !.at[v] = p]
           without == [d[m] EXCEPT !.at[v] = None]
<1>2. with \in Domain /\ without \in Domain
  BY <1>1, Placed DEF OrNone
<1>3. Attached(d, m, v, p) \in {d, [d EXCEPT ![m] = with]}
  BY DEF Attached, Domains
<1>4. Detached(d, m, v) \in {d, [d EXCEPT ![m] = without]}
  BY DEF Detached, Domains
<1> HIDE DEF with, without
<1>5. ASSUME NEW e \in Domain, NEW f, f = d \/ f = [d EXCEPT ![m] = e]
      PROVE  f \in Domains /\ \A x \in Machines : d[x] # None => f[x] # None
  <2> DEFINE g == [d EXCEPT ![m] = e]
  <2>1. g \in Domains /\ \A x \in Machines : d[x] # None => g[x] # None
    BY Replaced
  <2> HIDE DEF g
  <2>2. f = d \/ f = g
    BY <1>5 DEF g
  <2> QED BY <2>1, <2>2
<1>6. /\ Attached(d, m, v, p) \in Domains
      /\ \A x \in Machines : d[x] # None => Attached(d, m, v, p)[x] # None
  BY <1>2, <1>3, <1>5
<1>7. /\ Detached(d, m, v) \in Domains
      /\ \A x \in Machines : d[x] # None => Detached(d, m, v)[x] # None
  BY <1>2, <1>4, <1>5
<1> QED BY <1>6, <1>7

\* While a volume is worked on, no domain appears or disappears.
DomainsKept(d) == d \in Domains /\ \A m \in Machines : dom[m] # None => d[m] # None

LEMMA DomainSteps ==
    ASSUME IInv, pc = "volumes", NEW v \in Volumes, listed[v] # None
    PROVE  /\ DomainsKept(DetachOld(v)) /\ DomainsKept(dom)
           /\ goal[v] # None => DomainsKept(ActualizeAttachment(v))
<1>1. dom \in Domains /\ DomainsKept(dom)
  BY DEF IInv, TypeOK, Domains, DomainsKept
<1>2. ASSUME listed[v].machine # None PROVE listed[v].machine \in Machines /\ dom[listed[v].machine] # None
  BY <1>2 DEF IInv, AsListed, TypeOK
<1>3. DomainsKept(DetachOld(v))
  <2>1. listed[v].pool \in Pools
    BY DEF IInv, TypeOK, OrNone, Seen
  <2> QED BY <1>1, <1>2, <2>1, Renamed DEF DetachOld, DomainsKept
<1>4. ASSUME goal[v] # None PROVE DomainsKept(ActualizeAttachment(v))
  <2> DEFINE d == IF listed[v].machine # goal[v].machine THEN DetachOld(v) ELSE dom
             n == goal[v].machine
  <2>1. DomainsKept(d)
    BY <1>1, <1>3
  <2>2. CASE listed[v].machine # n /\ n # None /\ dom[n] # None
    <3>1. n \in Machines /\ listed[v].pool \in Pools
      BY <1>4, <2>2 DEF IInv, TypeOK, OrNone, Want, Seen
    <3> QED BY <2>1, <2>2, <3>1, Renamed DEF ActualizeAttachment, DomainsKept
  <2>3. CASE ~(listed[v].machine # n /\ n # None /\ dom[n] # None)
    BY <2>1, <2>3 DEF ActualizeAttachment
  <2> QED BY <2>2, <2>3
<1> QED BY <1>1, <1>3, <1>4

-----------------------------------------------------------------------------
(* The steps on volumes *)

Entries == [Volumes -> OrNone(Entry)]

\* A step on a volume keeps the invariant if it keeps the types, changes no
\* other disk, and charges for what it changes.
LEMMA VolumeDone ==
    ASSUME IInv, NEW v \in Volumes, NEW r, Handle(v, r), UNCHANGED <<changes, flips>>,
           disk' \in [Volumes -> OrNone(Disk)],
           \A u \in Volumes \ {v} : disk'[u] = disk[u],
           DomainsKept(dom'), meta' \subseteq Volumes \cup Machines,
           charged' \in [Pools -> Int], coord' \in Entries,
           lost' \subseteq Pools, faults' \in 0..MaxFaults,
           \A p \in Pools \ lost' : charged'[p] = Provisioned(Held', p)
    PROVE  IInv'
<1>1. /\ pc = "volumes" /\ pc' = pc /\ todo' = todo \ {v}
      /\ listed' = listed /\ domListed' = domListed /\ goal' = goal
      /\ offListed' = offListed
  BY Handled DEF Handle
<1>2. /\ want' = want /\ wantDom' = wantDom /\ changes' = changes /\ flips' = flips
      /\ goalDom' = goalDom /\ metaFile' = metaFile
  BY DEF Handle, worldVars, readVars
<1>3. TypeOK'
  BY <1>1, <1>2 DEF IInv, TypeOK, DomainsKept, Domains, Entries
<1>4. Working'
  BY <1>1 DEF IInv, Working
<1>5. AsListed'
  <2>1. \A u \in todo' : u \in Volumes \ {v} /\ Alike(disk'[u], listed'[u])
    BY <1>1 DEF IInv, AsListed, Working
  <2>2. \A m \in domListed' : dom'[m] # None
    BY <1>1 DEF IInv, AsListed, TypeOK, DomainsKept
  <2> QED BY <1>1, <2>1, <2>2 DEF IInv, AsListed
<1>6. Charged'
  BY DEF Charged
<1>7. OffThere'
  BY <1>1 DEF IInv, TypeOK, OffThere, DomainsKept
<1> QED BY <1>3, <1>4, <1>5, <1>6, <1>7 DEF IInv

\* A step that leaves the disk alone charges nothing.
LEMMA ChargedKept ==
    ASSUME IInv, NEW v \in Volumes, NEW r, Handle(v, r),
           disk' = disk, charged' = charged, lost \subseteq lost'
    PROVE  \A p \in Pools \ lost' : charged'[p] = Provisioned(Held', p)
<1>1. listed' = listed
  BY Handled
<1>2. Held' = Held
  BY <1>1 DEF Held
<1> QED BY <1>2, Handled

\* Nor does one that deletes it, until the next listing.
LEMMA ChargedGone ==
    ASSUME IInv, NEW v \in Volumes, NEW r, Handle(v, r),
           disk' = [disk EXCEPT ![v] = None], charged' = charged, lost' = lost
    PROVE  \A p \in Pools \ lost' : charged'[p] = Provisioned(Held', p)
<1>1. listed' = listed /\ Alike(disk[v], listed[v])
  BY Handled
<1>2. disk \in [Volumes -> OrNone(Disk)] /\ listed \in [Volumes -> OrNone(Seen)]
  BY DEF IInv, TypeOK
<1>3. Held' \in Rows /\ Held \in Rows
  BY <1>1, <1>2 DEF Held, Rows, OrNone
<1>4. \A u \in Volumes : Alike(Held[u], Held'[u])
  BY <1>1, <1>2 DEF Held, Alike
<1>5. \A p : Provisioned(Held, p) = Provisioned(Held', p)
  BY <1>3, <1>4, ProvisionedAlike
<1> QED BY <1>5, Handled

\* The pool of a new disk is charged with its size.
LEMMA ChargedPlaced ==
    ASSUME IInv, NEW v \in Volumes, Handle(v, 1), listed[v] = None,
           NEW p \in Pools, disk' = NewDisk(v, p),
           \/ charged' = [charged EXCEPT ![p] = @ + goal[v].size] /\ lost' = lost
           \/ charged' = charged /\ lost' = lost \cup {p}
    PROVE  /\ disk' \in [Volumes -> OrNone(Disk)] /\ charged' \in [Pools -> Int]
           /\ lost' \subseteq Pools
           /\ \A q \in Pools \ lost' : charged'[q] = Provisioned(Held', q)
<1>1. listed' = listed /\ Alike(disk[v], listed[v]) /\ goal[v] # None
  BY Handled, NewRank
<1>2. /\ disk \in [Volumes -> OrNone(Disk)] /\ listed \in [Volumes -> OrNone(Seen)]
      /\ charged \in [Pools -> Int] /\ lost \subseteq Pools
  BY DEF IInv, TypeOK
<1>3. goal[v].size \in Sizes /\ goal[v].size \in Int
  <2>1. goal[v].size \in Sizes
    BY <1>1 DEF IInv, TypeOK, Want, OrNone
  <2> QED BY <2>1, SizesNumbers
<1>4. disk'[v] = [size |-> goal[v].size, pool |-> p] /\ disk'[v] \in Disk /\ disk'[v] # None
  BY <1>2, <1>3, VolumesAssumption DEF NewDisk, Disk
<1>5. disk' \in [Volumes -> OrNone(Disk)] /\ \A u \in Volumes \ {v} : disk'[u] = disk[u]
  BY <1>2, <1>3, <1>4 DEF NewDisk, OrNone, Disk
<1>6. charged' \in [Pools -> Int] /\ lost' \subseteq Pools
  BY <1>2, <1>3
<1>7. ASSUME NEW q \in Pools \ lost' PROVE charged'[q] = Provisioned(Held', q)
  <2>1. Held \in Rows /\ Held' \in Rows
    BY <1>1, <1>2, <1>5 DEF Held, Rows, OrNone
  <2>2. \A u \in Volumes \ {v} : Alike(Held[u], Held'[u])
    BY <1>1, <1>5 DEF Held, Alike
  <2>3. Held[v] = None /\ Held'[v] = disk'[v]
    BY <1>1, <1>4 DEF Held, Alike
  <2>4. Weight(Held[v], q) = 0 /\ Weight(Held'[v], q) = IF q = p THEN goal[v].size ELSE 0
    BY <1>4, <2>3 DEF Weight
  <2>5. Provisioned(Held', q) = Provisioned(Held, q) + (Weight(Held'[v], q) - Weight(Held[v], q))
    BY <2>1, <2>2, ProvisionedChange
  <2>6. charged[q] = Provisioned(Held, q) /\ charged[q] \in Int
    BY <1>2, <1>7, Handled
  <2>7. charged'[q] = charged[q] + IF q = p THEN goal[v].size ELSE 0
    BY <1>2, <1>3, <1>7, <2>6
  <2> QED BY <1>3, <2>4, <2>5, <2>6, <2>7
<1> QED BY <1>5, <1>6, <1>7

\* The pool of a disk that grows is charged with its growth.
LEMMA ChargedGrown ==
    ASSUME IInv, NEW v \in Volumes, Handle(v, 3), listed[v] # None,
           disk' = Grown(v),
           \/ charged' = Charge(v) /\ lost' = lost
           \/ charged' = charged /\ lost' = lost \cup {listed[v].pool}
    PROVE  /\ disk' \in [Volumes -> OrNone(Disk)] /\ charged' \in [Pools -> Int]
           /\ lost' \subseteq Pools
           /\ \A u \in Volumes \ {v} : disk'[u] = disk[u]
           /\ \A q \in Pools \ lost' : charged'[q] = Provisioned(Held', q)
<1> DEFINE p == listed[v].pool
<1>1. listed' = listed /\ Alike(disk[v], listed[v]) /\ goal[v] # None
  BY Handled, UpdateRank
<1>2. /\ disk \in [Volumes -> OrNone(Disk)] /\ listed \in [Volumes -> OrNone(Seen)]
      /\ charged \in [Pools -> Int] /\ lost \subseteq Pools
  BY DEF IInv, TypeOK
<1>3. goal[v].size \in Sizes /\ goal[v].size \in Int
  <2>1. goal[v].size \in Sizes
    BY <1>1 DEF IInv, TypeOK, Want, OrNone
  <2> QED BY <2>1, SizesNumbers
<1>4. disk[v] \in Disk /\ disk[v].size = listed[v].size /\ disk[v].pool = p /\ p \in Pools
  BY <1>1, <1>2 DEF Alike, OrNone, Disk
<1>5. listed[v].size \in Sizes /\ listed[v].size \in Int
  <2>1. listed[v].size \in Sizes
    BY <1>4 DEF Disk
  <2> QED BY <2>1, SizesNumbers
<1>6. disk'[v] = [size |-> goal[v].size, pool |-> p] /\ disk'[v] \in Disk /\ disk'[v] # None
  <2>1. disk'[v] = [disk[v] EXCEPT !.size = goal[v].size]
    BY <1>2 DEF Grown
  <2>2. disk'[v] = [size |-> goal[v].size, pool |-> p]
    BY <1>4, <2>1 DEF Disk
  <2> QED BY <1>3, <1>4, <2>2, VolumesAssumption DEF Disk
<1>7. disk' \in [Volumes -> OrNone(Disk)] /\ \A u \in Volumes \ {v} : disk'[u] = disk[u]
  <2>1. disk' = [disk EXCEPT ![v] = disk'[v]]
    BY <1>2 DEF Grown
  <2>2. ASSUME NEW e \in Disk, disk' = [disk EXCEPT ![v] = e]
        PROVE  disk' \in [Volumes -> OrNone(Disk)] /\ \A u \in Volumes \ {v} : disk'[u] = disk[u]
    BY <1>2, <2>2 DEF OrNone
  <2> QED BY <1>6, <2>1, <2>2
<1>8. charged' \in [Pools -> Int] /\ lost' \subseteq Pools
  BY <1>2, <1>3, <1>4, <1>5 DEF Charge, Growth
<1>9. ASSUME NEW q \in Pools \ lost' PROVE charged'[q] = Provisioned(Held', q)
  <2>1. Held \in Rows /\ Held' \in Rows
    BY <1>1, <1>2, <1>7 DEF Held, Rows, OrNone
  <2>2. \A u \in Volumes \ {v} : Alike(Held[u], Held'[u])
    BY <1>1, <1>7 DEF Held, Alike
  <2>3. Held[v] = disk[v] /\ Held'[v] = disk'[v]
    BY <1>1, <1>4, <1>6, VolumesAssumption DEF Held, Alike
  <2>4. /\ Weight(Held[v], q) = IF q = p THEN listed[v].size ELSE 0
        /\ Weight(Held'[v], q) = IF q = p THEN goal[v].size ELSE 0
    BY <1>4, <1>6, <2>3, VolumesAssumption DEF Weight
  <2>5. Provisioned(Held', q) = Provisioned(Held, q) + (Weight(Held'[v], q) - Weight(Held[v], q))
    BY <2>1, <2>2, ProvisionedChange
  <2>6. charged[q] = Provisioned(Held, q) /\ charged[q] \in Int
    BY <1>2, <1>9, Handled
  <2>7. charged'[q] = charged[q] + IF q = p THEN goal[v].size - listed[v].size ELSE 0
    BY <1>2, <1>3, <1>5, <1>9, <2>6 DEF Charge, Growth
  <2> QED BY <1>3, <1>5, <2>4, <2>5, <2>6, <2>7
<1> QED BY <1>7, <1>8, <1>9

\* What the coordinator storage may hold of a volume.
LEMMA EntryOf ==
    ASSUME NEW m \in OrNone(Machines), NEW v \in Volumes
    PROVE  /\ [machine |-> m, error |-> FALSE, root |-> FALSE] \in Entry
           /\ [machine |-> m, error |-> FALSE, root |-> VolumeAttr(v).root] \in Entry
           /\ [machine |-> m, error |-> TRUE, root |-> VolumeAttr(v).root] \in Entry
           /\ [machine |-> m, error |-> ~Waits(v), root |-> VolumeAttr(v).root] \in Entry
           /\ [machine |-> m, error |-> FALSE, root |-> VolumeAttr(v).root /\ m # None] \in Entry
           /\ [machine |-> m, error |-> TRUE, root |-> VolumeAttr(v).root /\ m # None] \in Entry
<1>1. /\ VolumeAttr(v).root \in BOOLEAN /\ (VolumeAttr(v).root /\ m # None) \in BOOLEAN
      /\ TRUE \in BOOLEAN /\ FALSE \in BOOLEAN /\ (~Waits(v)) \in BOOLEAN
  BY VolumesAssumption, Zenon
<1> QED BY <1>1, Zenon DEF Entry

LEMMA EntrySet ==
    ASSUME coord \in Entries, NEW v \in Volumes, NEW e \in Entry
    PROVE  [coord EXCEPT ![v] = e] \in Entries /\ [coord EXCEPT ![v] = None] \in Entries
BY DEF Entries, OrNone

\* Machines that volumes belong to, and what every state has.
LEMMA Belongs ==
    ASSUME TypeOK, NEW v \in Volumes
    PROVE  /\ listed[v] # None => listed[v].machine \in OrNone(Machines)
           /\ goal[v] # None => goal[v].machine \in OrNone(Machines)
           /\ coord \in Entries /\ disk \in [Volumes -> OrNone(Disk)]
           /\ charged \in [Pools -> Int] /\ lost \subseteq Pools
           /\ faults \in 0..MaxFaults
           /\ meta \cup {v} \subseteq Volumes \cup Machines
           /\ meta \ {v} \subseteq Volumes \cup Machines
           /\ meta \subseteq Volumes \cup Machines
BY DEF TypeOK, OrNone, Seen, Want, Entries

LEMMA FaultCount == ASSUME TypeOK, Fault PROVE faults' \in 0..MaxFaults
BY VolumesAssumption DEF TypeOK, Fault

LEMMA SkipKept ==
    ASSUME IInv, NEW x \in todo, Skip(x)
    PROVE  IInv'
<1>1. /\ todo' = todo \ {x} /\ UNCHANGED <<worldVars, readVars, metaFile, pc, listed, domListed, offListed>>
      /\ UNCHANGED <<hyperVars, meta, charged, coord>> /\ UNCHANGED <<lost, faults>>
  BY DEF Skip, Handle, Unfaulted
<1> USE <1>1 DEF worldVars, readVars, hyperVars
<1>2. TypeOK'
  BY DEF IInv, TypeOK
<1>3. Working'
  BY DEF IInv, Working
<1>4. AsListed' /\ OffThere'
  BY DEF IInv, AsListed, OffThere
<1>5. Held' = Held
  BY DEF Held
<1>6. Charged'
  BY <1>5 DEF IInv, Charged
<1> QED BY <1>2, <1>3, <1>4, <1>6 DEF IInv

LEMMA AdoptKept ==
    ASSUME IInv, NEW v \in Volumes, AdoptVolume(v)
    PROVE  IInv'
<1> DEFINE m == listed[v].machine
           e == [machine |-> m, error |-> FALSE, root |-> VolumeAttr(v).root /\ m # None]
<1>1. /\ Handle(v, 1) /\ listed[v] # None /\ meta' = meta \cup {v}
      /\ coord' = [coord EXCEPT ![v] = e]
      /\ UNCHANGED <<disk, dom, charged, lost, faults>>
  BY DEF AdoptVolume, hyperVars, Unfaulted
<1>2. coord' \in Entries
  <2>1. e \in Entry
    BY <1>1, Belongs, EntryOf DEF IInv
  <2> HIDE DEF e
  <2> QED BY <1>1, <2>1, Belongs, EntrySet DEF IInv
<1>3. pc = "volumes" /\ \A p \in Pools \ lost' : charged'[p] = Provisioned(Held', p)
  BY <1>1, Handled, ChargedKept
<1>4. DomainsKept(dom')
  BY <1>1, <1>3, DomainSteps
<1> HIDE DEF e
<1> QED BY <1>1, <1>2, <1>3, <1>4, Belongs, VolumeDone DEF IInv, Handle, worldVars

LEMMA RefuseKept ==
    ASSUME IInv, NEW v \in Volumes, RefuseVolume(v)
    PROVE  IInv'
<1> DEFINE e == [machine |-> goal[v].machine, error |-> TRUE, root |-> VolumeAttr(v).root]
<1>1. /\ Handle(v, 1) /\ meta' = meta \cup {v} /\ coord' = [coord EXCEPT ![v] = e]
      /\ UNCHANGED <<disk, dom, charged, lost, faults>>
  BY DEF RefuseVolume, hyperVars, Unfaulted
<1>2. coord' \in Entries
  <2>1. e \in Entry
    BY <1>1, Handled, NewRank, Belongs, EntryOf DEF IInv
  <2> HIDE DEF e
  <2> QED BY <1>1, <2>1, Belongs, EntrySet DEF IInv
<1>3. \A p \in Pools \ lost' : charged'[p] = Provisioned(Held', p)
  BY <1>1, ChargedKept
<1>4. DomainsKept(dom')
  BY <1>1 DEF IInv, TypeOK, DomainsKept, Domains
<1> HIDE DEF e
<1> QED BY <1>1, <1>2, <1>3, <1>4, Belongs, VolumeDone DEF IInv, Handle, worldVars

LEMMA CreateKept ==
    ASSUME IInv, NEW v \in Volumes, CreateVolume(v)
    PROVE  IInv'
<1> DEFINE e == [machine |-> goal[v].machine, error |-> FALSE, root |-> VolumeAttr(v).root]
<1>1. /\ Handle(v, 1) /\ listed[v] = None /\ meta' = meta \cup {v}
      /\ coord' = [coord EXCEPT ![v] = e]
      /\ UNCHANGED <<lost, faults>>
  BY DEF CreateVolume, Unfaulted
<1>2. PICK p \in Pools : /\ disk' = NewDisk(v, p)
                         /\ charged' = [charged EXCEPT ![p] = @ + goal[v].size]
                         /\ dom' = AttachNew(v, p)
  BY DEF CreateVolume, SelectStoragePool
<1>3. coord' \in Entries
  <2>1. e \in Entry
    BY <1>1, Handled, NewRank, Belongs, EntryOf DEF IInv
  <2> HIDE DEF e
  <2> QED BY <1>1, <2>1, Belongs, EntrySet DEF IInv
<1>4. /\ disk' \in [Volumes -> OrNone(Disk)] /\ charged' \in [Pools -> Int]
      /\ \A q \in Pools \ lost' : charged'[q] = Provisioned(Held', q)
  BY <1>1, <1>2, ChargedPlaced
<1>5. DomainsKept(dom')
  <2>1. dom \in Domains /\ domListed \subseteq Machines /\ DomainsKept(dom)
    BY DEF IInv, TypeOK, Domains, DomainsKept
  <2>2. \A m \in domListed : dom[m] # None
    BY <1>1, Handled DEF IInv, AsListed
  <2> QED BY <1>2, <2>1, <2>2, Renamed DEF AttachNew, DomainsKept
<1>6. \A u \in Volumes \ {v} : disk'[u] = disk[u]
  BY <1>2, Belongs DEF NewDisk, IInv
<1> HIDE DEF e
<1> QED BY <1>1, <1>3, <1>4, <1>5, <1>6, Belongs, VolumeDone DEF IInv, Handle, worldVars

LEMMA CreateFailsKept ==
    ASSUME IInv, NEW v \in Volumes, CreateVolumeFails(v)
    PROVE  IInv'
<1>1. Fault /\ Handle(v, 1) /\ listed[v] = None /\ UNCHANGED <<meta, coord>>
  BY DEF CreateVolumeFails
<1>2. dom' = dom /\ DomainsKept(dom')
  BY DEF CreateVolumeFails, hyperVars, IInv, TypeOK, DomainsKept, Domains
<1>3. CASE UNCHANGED <<hyperVars, charged, lost>>
  <2>1. \A p \in Pools \ lost' : charged'[p] = Provisioned(Held', p)
    BY <1>1, <1>3, ChargedKept DEF hyperVars
  <2> QED BY <1>1, <1>2, <1>3, <2>1, FaultCount, Belongs, VolumeDone
          DEF IInv, Handle, worldVars, hyperVars
<1>4. CASE ~UNCHANGED <<hyperVars, charged, lost>>
  <2>1. PICK p \in Pools :
          /\ disk' = NewDisk(v, p)
          /\ \/ charged' = [charged EXCEPT ![p] = @ + goal[v].size] /\ lost' = lost
             \/ charged' = charged /\ lost' = lost \cup {p}
    BY <1>4 DEF CreateVolumeFails, SelectStoragePool
  <2>2. /\ disk' \in [Volumes -> OrNone(Disk)] /\ charged' \in [Pools -> Int]
        /\ lost' \subseteq Pools
        /\ \A q \in Pools \ lost' : charged'[q] = Provisioned(Held', q)
    BY <1>1, <2>1, ChargedPlaced
  <2>3. \A u \in Volumes \ {v} : disk'[u] = disk[u]
    BY <2>1, Belongs DEF NewDisk, IInv
  <2> QED BY <1>1, <1>2, <2>2, <2>3, FaultCount, Belongs, VolumeDone
          DEF IInv, Handle, worldVars
<1> QED BY <1>3, <1>4

LEMMA DeleteKept ==
    ASSUME IInv, NEW v \in Volumes, DeleteVolume(v)
    PROVE  IInv'
<1>1. /\ Handle(v, 2) /\ Managed(v) /\ dom' = DetachOld(v)
      /\ disk' = [disk EXCEPT ![v] = None] /\ meta' = meta \ {v}
      /\ coord' = [coord EXCEPT ![v] = None] /\ UNCHANGED <<charged, lost, faults>>
  BY DEF DeleteVolume, Unfaulted
<1>2. coord' \in Entries
  BY <1>1, Belongs DEF IInv, Entries, OrNone
<1>3. pc = "volumes" /\ \A p \in Pools \ lost' : charged'[p] = Provisioned(Held', p)
  BY <1>1, Handled, ChargedGone
<1>4. DomainsKept(dom')
  BY <1>1, <1>3, ManagedRank, DomainSteps
<1>5. disk' \in [Volumes -> OrNone(Disk)] /\ \A u \in Volumes \ {v} : disk'[u] = disk[u]
  BY <1>1, Belongs DEF IInv, OrNone
<1> QED BY <1>1, <1>2, <1>3, <1>4, <1>5, Belongs, VolumeDone DEF IInv, Handle, worldVars

LEMMA DeleteFailsKept ==
    ASSUME IInv, NEW v \in Volumes, DeleteVolumeFails(v)
    PROVE  IInv'
<1>1. /\ Fault /\ Handle(v, 2) /\ Managed(v) /\ UNCHANGED <<meta, coord, charged, lost>>
      /\ dom' \in {dom, DetachOld(v)} /\ disk' \in {disk, [disk EXCEPT ![v] = None]}
  BY DEF DeleteVolumeFails
<1>2. pc = "volumes" /\ \A p \in Pools \ lost' : charged'[p] = Provisioned(Held', p)
  BY <1>1, Handled, ChargedGone, ChargedKept
<1>3. DomainsKept(dom')
  BY <1>1, <1>2, ManagedRank, DomainSteps
<1>4. disk' \in [Volumes -> OrNone(Disk)] /\ \A u \in Volumes \ {v} : disk'[u] = disk[u]
  BY <1>1, Belongs DEF IInv, OrNone
<1> QED BY <1>1, <1>2, <1>3, <1>4, FaultCount, Belongs, VolumeDone DEF IInv, Handle, worldVars

LEMMA LeaveKept ==
    ASSUME IInv, NEW v \in Volumes, LeaveVolume(v)
    PROVE  IInv'
<1> DEFINE m == listed[v].machine
           e == [machine |-> m, error |-> TRUE, root |-> VolumeAttr(v).root /\ m # None]
           f == [machine |-> goal[v].machine, error |-> ~Waits(v), root |-> VolumeAttr(v).root]
<1>1. /\ Handle(v, 3) /\ Managed(v) /\ coord' = [coord EXCEPT ![v] = IF Migrates(v) THEN e ELSE f]
      /\ UNCHANGED <<disk, dom, meta, charged, lost, faults>>
  BY DEF LeaveVolume, UpdateStep, hyperVars, Unfaulted
<1>2. coord' \in Entries
  <2>1. e \in Entry
    BY <1>1, ManagedRank, Belongs, EntryOf DEF IInv
  <2>2. f \in Entry
    BY <1>1, Handled, UpdateRank, Belongs, EntryOf DEF IInv
  <2> HIDE DEF e, f
  <2>3. (IF Migrates(v) THEN e ELSE f) \in Entry
    BY <2>1, <2>2
  <2> QED BY <1>1, <2>3, Belongs, EntrySet DEF IInv
<1>3. pc = "volumes" /\ \A p \in Pools \ lost' : charged'[p] = Provisioned(Held', p)
  BY <1>1, Handled, ChargedKept
<1>4. DomainsKept(dom')
  BY <1>1, <1>3, ManagedRank, DomainSteps
<1> HIDE DEF e, f
<1> QED BY <1>1, <1>2, <1>3, <1>4, Belongs, VolumeDone DEF IInv, Handle, worldVars

LEMMA ShrinkKept ==
    ASSUME IInv, NEW v \in Volumes, RefuseShrink(v)
    PROVE  IInv'
<1>1. Handle(v, 3) /\ Managed(v) /\ UNCHANGED <<disk, dom, meta, charged, coord, lost, faults>>
  BY DEF RefuseShrink, UpdateStep, hyperVars, Unfaulted
<1>2. pc = "volumes" /\ \A p \in Pools \ lost' : charged'[p] = Provisioned(Held', p)
  BY <1>1, Handled, ChargedKept
<1>3. DomainsKept(dom')
  BY <1>1, <1>2, ManagedRank, DomainSteps
<1> QED BY <1>1, <1>2, <1>3, Belongs, VolumeDone DEF IInv, Handle, worldVars

LEMMA UpdateKept ==
    ASSUME IInv, NEW v \in Volumes, UpdateVolume(v)
    PROVE  IInv'
<1> DEFINE e == [machine |-> listed[v].machine, error |-> FALSE, root |-> FALSE]
<1>1. /\ Handle(v, 3) /\ Managed(v) /\ disk' = Grown(v) /\ charged' = Charge(v)
      /\ dom' = ActualizeAttachment(v) /\ coord' \in {coord, [coord EXCEPT ![v] = e]}
      /\ UNCHANGED <<meta, lost, faults>>
  BY DEF UpdateVolume, UpdateStep, Unfaulted
<1>2. pc = "volumes" /\ goal[v] # None /\ listed[v] # None
  BY <1>1, Handled, UpdateRank, ManagedRank
<1>3. coord' \in Entries
  <2>1. e \in Entry
    BY <1>2, Belongs, EntryOf DEF IInv
  <2> HIDE DEF e
  <2> QED BY <1>1, <2>1, Belongs, EntrySet DEF IInv
<1>4. /\ disk' \in [Volumes -> OrNone(Disk)] /\ charged' \in [Pools -> Int]
      /\ \A u \in Volumes \ {v} : disk'[u] = disk[u]
      /\ \A q \in Pools \ lost' : charged'[q] = Provisioned(Held', q)
  BY <1>1, <1>2, ChargedGrown
<1>5. DomainsKept(dom')
  BY <1>1, <1>2, DomainSteps
<1> HIDE DEF e
<1> QED BY <1>1, <1>3, <1>4, <1>5, Belongs, VolumeDone DEF IInv, Handle, worldVars

LEMMA UpdateFailsKept ==
    ASSUME IInv, NEW v \in Volumes, UpdateVolumeFails(v)
    PROVE  IInv'
<1>1. Fault /\ Handle(v, 3) /\ Managed(v) /\ UNCHANGED <<meta, coord>>
  BY DEF UpdateVolumeFails, UpdateStep
<1>2. pc = "volumes" /\ goal[v] # None /\ listed[v] # None
  BY <1>1, Handled, UpdateRank, ManagedRank
<1>3. DomainsKept(dom')
  <2>1. dom' \in {dom, DetachOld(v), ActualizeAttachment(v)}
    BY DEF UpdateVolumeFails, hyperVars
  <2> QED BY <1>2, <2>1, DomainSteps
<1>4. CASE UNCHANGED <<hyperVars, charged, lost>>
  <2>1. \A p \in Pools \ lost' : charged'[p] = Provisioned(Held', p)
    BY <1>1, <1>4, ChargedKept DEF hyperVars
  <2> QED BY <1>1, <1>3, <1>4, <2>1, FaultCount, Belongs, VolumeDone
          DEF IInv, Handle, worldVars, hyperVars
<1>5. CASE ~UNCHANGED <<hyperVars, charged, lost>>
  <2>1. /\ disk' = Grown(v)
        /\ \/ charged' = Charge(v) /\ lost' = lost
           \/ charged' = charged /\ lost' = lost \cup {listed[v].pool}
    BY <1>5 DEF UpdateVolumeFails
  <2>2. /\ disk' \in [Volumes -> OrNone(Disk)] /\ charged' \in [Pools -> Int]
        /\ lost' \subseteq Pools
        /\ \A u \in Volumes \ {v} : disk'[u] = disk[u]
        /\ \A q \in Pools \ lost' : charged'[q] = Provisioned(Held', q)
    BY <1>1, <1>2, <2>1, ChargedGrown
  <2> QED BY <1>1, <1>3, <2>2, FaultCount, Belongs, VolumeDone DEF IInv, Handle, worldVars
<1> QED BY <1>4, <1>5

-----------------------------------------------------------------------------
(* The other steps *)

\* While no volume is worked on, only the types, the work and the domains
\* that were listed as off are at stake.
LEMMA Elsewhere ==
    ASSUME TypeOK', Working', OffThere', pc' # "volumes"
    PROVE  IInv'
BY DEF IInv, AsListed, Charged

LEMMA StartKept ==
    ASSUME IInv, StartIteration
    PROVE  IInv'
<1>1. PICK a \in Attributions :
        listed' = [v \in Volumes |-> IF disk[v] = None THEN None
                     ELSE [size |-> disk[v].size, pool |-> disk[v].pool, machine |-> a[v]]]
  BY DEF StartIteration
<1>2. /\ pc' = "volumes" /\ todo' = Volumes /\ lost' = {} /\ goal' = want /\ goalDom' = wantDom
      /\ domListed' = {m \in Machines : dom[m] # None} 
      /\ offListed' = {m \in Machines : dom[m] # None /\ ~dom[m].on}
      /\ charged' = [p \in Pools |-> Provisioned(disk, p)]
      /\ UNCHANGED <<want, wantDom, changes, flips, disk, dom, meta, metaFile, faults>>
  BY DEF StartIteration, worldVars, hyperVars, metaVars
<1>3. TypeOK
  BY DEF IInv
<1>4. \A v \in Volumes : a[v] \in OrNone(Machines) /\ (disk[v] # None => a[v] \in domListed' \cup {None})
  <2>1. a \in [Volumes -> OrNone(Machines)]
    BY DEF Attributions
  <2>2. ASSUME NEW v \in Volumes PROVE a[v] \in Owners(v) \cup {None}
    BY DEF Attributions
  <2>3. \A v \in Volumes : Owners(v) \subseteq domListed'
    BY <1>2 DEF Owners
  <2> QED BY <2>1, <2>2, <2>3
<1>5. ASSUME NEW v \in Volumes
      PROVE  /\ disk[v] = None => listed'[v] = None
             /\ disk[v] # None =>
                  /\ listed'[v] \in Seen /\ listed'[v] # None
                  /\ listed'[v].size = disk[v].size /\ listed'[v].pool = disk[v].pool
                  /\ listed'[v].machine = a[v]
  <2>1. disk[v] # None => disk[v].size \in Sizes /\ disk[v].pool \in Pools
    BY <1>3 DEF TypeOK, OrNone, Disk
  <2>2. ASSUME disk[v] # None
        PROVE  [size |-> disk[v].size, pool |-> disk[v].pool, machine |-> a[v]] \in Seen
    BY <1>4, <2>1, <2>2 DEF Seen
  <2>3. None \notin Seen
    BY VolumesAssumption
  <2> QED BY <1>1, <2>2, <2>3
<1>6. listed' \in [Volumes -> OrNone(Seen)]
  BY <1>1, <1>5 DEF OrNone
<1>7. charged' \in [Pools -> Int]
  BY <1>2, <1>3, HeldRows, ProvisionedUnits
<1>8. coord' \in [Volumes -> OrNone(Entry)]
  <2>1. ASSUME NEW v \in Volumes, disk[v] # None
        PROVE  [machine |-> listed'[v].machine, error |-> FALSE,
                root |-> VolumeAttr(v).root /\ listed'[v].machine # None] \in Entry
    <3>1. listed'[v].machine \in OrNone(Machines)
      BY <1>4, <1>5, <2>1
    <3>2. ASSUME NEW n \in OrNone(Machines)
          PROVE  [machine |-> n, error |-> FALSE, root |-> VolumeAttr(v).root /\ n # None] \in Entry
      BY EntryOf
    <3> QED BY <3>1, <3>2
  <2>2. \A v \in Volumes : coord'[v] \in OrNone(Entry)
    <3> SUFFICES ASSUME NEW v \in Volumes PROVE coord'[v] \in OrNone(Entry)
      OBVIOUS
    <3> DEFINE e == [machine |-> listed'[v].machine, error |-> FALSE,
                     root |-> VolumeAttr(v).root /\ listed'[v].machine # None]
    <3>1. coord'[v] = IF v \notin meta \/ disk[v] = None THEN None ELSE e
      BY DEF StartIteration
    <3>2. disk[v] # None => e \in Entry
      BY <2>1
    <3> HIDE DEF e
    <3> QED BY <3>1, <3>2 DEF OrNone
  <2>3. coord' = [v \in Volumes |-> coord'[v]]
    BY DEF StartIteration
  <2> QED BY <2>2, <2>3
<1>9. TypeOK'
  BY <1>2, <1>3, <1>6, <1>7, <1>8 DEF TypeOK
<1>10. Working'
  BY <1>2 DEF Working
<1>11. AsListed'
  <2>1. \A v \in todo' : Alike(disk'[v], listed'[v])
    BY <1>2, <1>5 DEF Alike
  <2>2. \A m \in domListed' : dom'[m] # None
    BY <1>2
  <2>3. \A v \in Volumes : listed'[v] # None => listed'[v].machine \in domListed' \cup {None}
    BY <1>4, <1>5
  <2> QED BY <2>1, <2>2, <2>3 DEF AsListed
<1>12. Charged'
  <2>1. Held' \in Rows /\ disk \in Rows
    <3>1. disk' \in [Volumes -> OrNone(Disk)] /\ listed' \in [Volumes -> OrNone(Seen)]
      BY <1>9 DEF TypeOK
    <3> QED BY <1>2, <3>1 DEF Held, Rows, OrNone
  <2>2. \A v \in Volumes : Alike(disk[v], Held'[v])
    BY <1>2, <1>5 DEF Held, Alike
  <2>3. \A p \in Pools : Provisioned(disk, p) = Provisioned(Held', p)
    BY <2>1, <2>2, ProvisionedAlike
  <2> QED BY <1>2, <2>3 DEF Charged
<1>13. OffThere'
  BY <1>2 DEF OffThere
<1> QED BY <1>9, <1>10, <1>11, <1>12, <1>13 DEF IInv

LEMMA StartMachinesKept ==
    ASSUME IInv, StartMachines
    PROVE  IInv'
<1>1. TypeOK'
  BY DEF IInv, TypeOK, StartMachines, worldVars, hyperVars, metaVars, readVars, listVars
<1>2. Working' /\ pc' # "volumes"
  BY DEF StartMachines, Working
<1>3. OffThere'
  BY DEF IInv, OffThere, StartMachines, hyperVars, listVars
<1> QED BY <1>1, <1>2, <1>3, Elsewhere

\* A step on a machine, which removes no other domain.
LEMMA MachineDone ==
    ASSUME IInv, NEW m \in Machines, NEW r, Handle(m, r), UNCHANGED <<changes, flips>>,
           disk' \in [Volumes -> OrNone(Disk)], dom' \in Domains,
           \A x \in Machines \ {m} : dom[x] # None => dom'[x] # None,
           meta' \subseteq Volumes \cup Machines, UNCHANGED <<charged, coord, lost>>,
           faults' \in 0..MaxFaults
    PROVE  IInv'
<1>1. /\ m \in todo /\ todo' = todo \ {m}
      /\ UNCHANGED <<want, wantDom, goal, goalDom, metaFile, pc, listed, domListed, offListed>>
  BY DEF Handle, worldVars, readVars
<1>2. pc = "machines"
  BY <1>1, VolumesAssumption DEF IInv, Working, TypeOK
<1>3. TypeOK'
  BY <1>1, <1>2 DEF IInv, TypeOK, Domains
<1>4. Working' /\ pc' # "volumes"
  BY <1>1, <1>2 DEF IInv, Working
<1>5. OffThere'
  BY <1>1, <1>2 DEF IInv, TypeOK, OffThere
<1> QED BY <1>3, <1>4, <1>5, Elsewhere

LEMMA MachineKept ==
    ASSUME IInv, NEW m \in Machines, MachineStep(m)
    PROVE  IInv'
<1>1. /\ disk \in [Volumes -> OrNone(Disk)] /\ dom \in Domains
      /\ meta \subseteq Volumes \cup Machines /\ faults \in 0..MaxFaults
      /\ meta \cup {m} \subseteq Volumes \cup Machines
      /\ meta \ {m} \subseteq Volumes \cup Machines
  BY DEF IInv, TypeOK, Domains
<1>2. /\ [dom EXCEPT ![m] = None] \in Domains
      /\ \A x \in Machines \ {m} : [dom EXCEPT ![m] = None][x] = dom[x]
  BY <1>1 DEF Domains, OrNone
<1>3. ASSUME NEW b \in BOOLEAN
      PROVE  /\ NewDomain(m, b) \in Domains
             /\ \A x \in Machines : dom[x] # None => NewDomain(m, b)[x] # None
  <2>1. \A v \in Volumes : PoolOf(v) \in OrNone(Pools)
    BY <1>1 DEF PoolOf, IInv, TypeOK, OrNone, Disk, Want
  <2>2. [v \in Volumes |-> IF v \in VolumesOf(m) THEN PoolOf(v) ELSE None]
          \in [Volumes -> OrNone(Pools)]
    BY <2>1 DEF OrNone
  <2> DEFINE e == [on |-> b, at |-> [v \in Volumes |-> IF v \in VolumesOf(m) THEN PoolOf(v)
                                                    ELSE None]]
  <2>3. e \in Domain
    BY <2>2, Zenon DEF Domain
  <2>4. NewDomain(m, b) = [dom EXCEPT ![m] = e]
    BY DEF NewDomain
  <2> HIDE DEF e
  <2>5. /\ [dom EXCEPT ![m] = e] \in Domains
        /\ \A x \in Machines : dom[x] # None => [dom EXCEPT ![m] = e][x] # None
    BY <1>1, <2>3, Replaced
  <2> QED BY <2>4, <2>5
<1>4. CASE AdoptMachine(m) \/ RefuseMachine(m)
  <2>1. /\ Handle(m, 1) /\ UNCHANGED <<disk, dom, charged, coord, lost, faults>>
        /\ meta' \in {meta, meta \cup {m}}
    BY <1>4 DEF AdoptMachine, RefuseMachine, NewMachine, hyperVars, Unfaulted
  <2> QED BY <1>1, <2>1, MachineDone DEF Handle, worldVars
<1>5. CASE CreateMachine(m)
  <2>1. /\ Handle(m, 1) /\ UNCHANGED <<disk, charged, coord, lost, faults>>
        /\ dom' = NewDomain(m, Complete(m)) /\ meta' \in {meta, meta \cup {m}}
    BY <1>5 DEF CreateMachine, NewMachine, Unfaulted
  <2>2. Complete(m) \in BOOLEAN
    BY Zenon DEF Complete
  <2> QED BY <1>1, <1>3, <2>1, <2>2, MachineDone DEF Handle, worldVars
<1>6. CASE CreateMachineFails(m)
  <2>1. /\ Fault /\ Handle(m, 1) /\ UNCHANGED <<disk, meta, charged, coord, lost>>
        /\ dom' \in {dom, NewDomain(m, FALSE), NewDomain(m, TRUE)}
    BY <1>6 DEF CreateMachineFails, NewMachine
  <2> QED BY <1>1, <1>3, <2>1, FaultCount, MachineDone DEF IInv, Handle, worldVars
<1>7. CASE StartMachine(m) \/ StartMachineFails(m)
  <2>1. /\ Handle(m, 3) /\ UNCHANGED <<disk, meta, charged, coord, lost>>
        /\ dom' \in {dom, [dom EXCEPT ![m].on = TRUE]}
        /\ Fault \/ faults' = faults
        /\ m \in offListed /\ m \in todo
    BY <1>7 DEF Handle, StartMachine, StartMachineFails, PowerOn, Unfaulted
  <2>2. dom[m] # None
    BY <2>1 DEF IInv, OffThere
  <2>3. /\ [dom EXCEPT ![m].on = TRUE] \in Domains
        /\ \A x \in Machines : dom[x] # None => [dom EXCEPT ![m].on = TRUE][x] # None
    <3> DEFINE e == [dom[m] EXCEPT !.on = TRUE]
    <3>1. [dom EXCEPT ![m].on = TRUE] = [dom EXCEPT ![m] = e] /\ dom[m] \in Domain
      BY <1>1, <2>2 DEF Domains, OrNone
    <3>2. e \in Domain
      BY <3>1, Switched
    <3> HIDE DEF e
    <3> QED BY <1>1, <3>1, <3>2, Replaced
  <2> QED BY <1>1, <2>1, <2>3, FaultCount, MachineDone DEF IInv, Handle, worldVars
<1>8. CASE DeleteMachine(m)
  <2>1. /\ Handle(m, 2) /\ UNCHANGED <<charged, coord, lost, faults>>
        /\ dom' = [dom EXCEPT ![m] = None] /\ meta' = meta \ {m}
    BY <1>8 DEF DeleteMachine, Unfaulted
  <2>2. PICK a \in Attributions : disk' = [v \in Volumes |-> IF a[v] = m THEN None ELSE disk[v]]
    BY <1>8 DEF DeleteMachine
  <2>3. disk' \in [Volumes -> OrNone(Disk)]
    BY <1>1, <2>2 DEF OrNone
  <2> QED BY <1>1, <1>2, <2>1, <2>3, MachineDone DEF Handle, worldVars
<1>9. CASE DeleteMachineFails(m)
  <2>1. Fault /\ Handle(m, 2) /\ UNCHANGED <<meta, charged, coord, lost>>
    BY <1>9 DEF DeleteMachineFails
  <2>2. CASE UNCHANGED hyperVars
    BY <1>1, <2>1, <2>2, FaultCount, MachineDone DEF IInv, Handle, worldVars, hyperVars
  <2>3. CASE ~UNCHANGED hyperVars
    <3>1. dom' = [dom EXCEPT ![m] = None]
      BY <1>9, <2>3 DEF DeleteMachineFails
    <3>2. PICK a \in Attributions, gone \in SUBSET Volumes :
            disk' = [v \in Volumes |-> IF a[v] = m /\ v \in gone THEN None ELSE disk[v]]
      BY <1>9, <2>3 DEF DeleteMachineFails
    <3>3. disk' \in [Volumes -> OrNone(Disk)]
      BY <1>1, <3>2 DEF OrNone
    <3> QED BY <1>1, <1>2, <2>1, <3>1, <3>3, FaultCount, MachineDone DEF IInv, Handle, worldVars
  <2> QED BY <2>2, <2>3
<1> QED BY <1>4, <1>5, <1>6, <1>7, <1>8, <1>9 DEF MachineStep

LEMMA EndKept ==
    ASSUME IInv, Finalize \/ Crash
    PROVE  IInv'
<1>1. EndIteration /\ meta' = metaFile'
  BY DEF Finalize, Crash
<1>2. /\ meta' \subseteq Volumes \cup Machines /\ metaFile' \subseteq Volumes \cup Machines
      /\ faults' \in 0..MaxFaults
  BY FaultCount DEF Finalize, Crash, IInv, TypeOK
<1>3. Absent(Volumes) \in [Volumes -> {None}] /\ NoCharge \in [Pools -> Int]
  BY DEF Absent, NoCharge
<1>4. /\ pc' = "idle" /\ todo' = {} /\ goal' = Absent(Volumes) /\ goalDom' = {}
      /\ listed' = Absent(Volumes) /\ domListed' = {} /\ offListed' = {} /\ charged' = NoCharge
      /\ coord' = Absent(Volumes) /\ lost' = {}
      /\ UNCHANGED <<want, wantDom, changes, flips, disk, dom>>
  BY <1>1 DEF EndIteration, worldVars, hyperVars
<1>5. TypeOK'
  BY <1>1, <1>2, <1>3, <1>4 DEF IInv, TypeOK, OrNone
<1>6. Working' /\ pc' # "volumes"
  BY <1>4 DEF Working
<1>7. OffThere'
  BY <1>4 DEF OffThere
<1> QED BY <1>5, <1>6, <1>7, Elsewhere

LEMMA WorldKept ==
    ASSUME IInv, World
    PROVE  IInv'
<1>1. /\ UNCHANGED <<disk, metaVars, pc, todo, readVars, listVars, lost, faults>>
      /\ changes' \in 0..MaxChanges /\ flips' \in 0..MaxFlips
      /\ wantDom' \subseteq Machines
  <2>1. CASE ChangeTarget
    BY <2>1, VolumesAssumption DEF ChangeTarget, hyperVars, IInv, TypeOK
  <2>2. ASSUME NEW m \in Machines, FlipPower(m)
        PROVE  /\ UNCHANGED <<disk, metaVars, pc, todo, readVars, listVars, lost, faults>>
               /\ changes' \in 0..MaxChanges /\ flips' \in 0..MaxFlips
               /\ wantDom' \subseteq Machines
    BY <2>2, VolumesAssumption DEF FlipPower, IInv, TypeOK
  <2> QED BY <2>1, <2>2 DEF World
<1>2. want' \in [Volumes -> OrNone(Want)]
  <2>1. want \in [Volumes -> OrNone(Want)]
    BY DEF IInv, TypeOK
  <2>2. ASSUME NEW v \in Volumes, NEW w \in OrNone(WantedAs(v)), want' = [want EXCEPT ![v] = w]
        PROVE  want' \in [Volumes -> OrNone(Want)]
    BY <2>1, <2>2, VolumesAssumption DEF OrNone
  <2> QED BY <2>1, <2>2 DEF World, ChangeTarget, FlipPower
<1>3. DomainsKept(dom')
  <2>1. dom \in Domains
    BY DEF IInv, TypeOK, Domains
  <2>2. CASE ChangeTarget
    BY <2>1, <2>2 DEF ChangeTarget, hyperVars, DomainsKept
  <2>3. ASSUME NEW m \in Machines, FlipPower(m) PROVE DomainsKept(dom')
    <3> DEFINE e == [dom[m] EXCEPT !.on = ~dom[m].on]
    <3>1. dom' = [dom EXCEPT ![m] = e] /\ dom[m] \in Domain
      BY <2>1, <2>3 DEF FlipPower, Domains, OrNone
    <3>2. (~dom[m].on) \in BOOLEAN
      BY Zenon
    <3>3. e \in Domain
      BY <3>1, <3>2, Switched
    <3> HIDE DEF e
    <3> QED BY <2>1, <3>1, <3>3, Replaced DEF DomainsKept
  <2> QED BY <2>2, <2>3 DEF World
<1> USE <1>1 DEF metaVars, readVars, listVars
<1>4. TypeOK'
  BY <1>2, <1>3 DEF IInv, TypeOK, DomainsKept, Domains
<1>5. Working'
  BY DEF IInv, Working
<1>6. AsListed' /\ OffThere'
  BY <1>3 DEF IInv, AsListed, OffThere, DomainsKept, TypeOK
<1>7. Held' = Held
  BY DEF Held
<1>8. Charged'
  BY <1>7 DEF IInv, Charged
<1> QED BY <1>4, <1>5, <1>6, <1>8 DEF IInv

LEMMA StutterKept ==
    ASSUME IInv, UNCHANGED vars
    PROVE  IInv'
<1> USE DEF vars, worldVars, hyperVars, metaVars, readVars, listVars
<1>1. TypeOK' /\ Working' /\ AsListed' /\ OffThere'
  BY DEF IInv, TypeOK, Working, AsListed, OffThere
<1>2. Held' = Held
  BY DEF Held
<1> QED BY <1>1, <1>2 DEF IInv, Charged

LEMMA InitIInv == ASSUME Init PROVE IInv
<1>1. Absent(Volumes) \in [Volumes -> {None}] /\ Absent(Machines) \in [Machines -> {None}]
      /\ NoCharge \in [Pools -> Int]
  BY DEF Absent, NoCharge
<1>2. TypeOK
  BY <1>1, VolumesAssumption DEF Init, TypeOK, OrNone
<1>3. Working /\ AsListed /\ OffThere /\ Charged
  BY DEF Init, Working, AsListed, OffThere, Charged
<1> QED BY <1>2, <1>3 DEF IInv

\* The inductive invariant is one.
THEOREM VolumesInvariant == Spec => []IInv
<1>1. Init => IInv
  BY InitIInv
<1>2. IInv /\ [Next]_vars => IInv'
  <2> SUFFICES ASSUME IInv, [Next]_vars PROVE IInv'
    OBVIOUS
  <2>1. ASSUME NEW v \in Volumes, VolumeStep(v) PROVE IInv'
    BY <2>1, AdoptKept, RefuseKept, CreateKept, DeleteKept, LeaveKept, ShrinkKept, UpdateKept,
       CreateFailsKept, DeleteFailsKept, UpdateFailsKept DEF VolumeStep
  <2>2. CASE Agent
    BY <2>1, <2>2, StartKept, StartMachinesKept, EndKept, MachineKept, SkipKept DEF Agent
  <2> QED BY <2>2, EndKept, WorldKept, StutterKept DEF Next
<1> QED BY <1>1, <1>2, PTL DEF Spec

\* Every variable stays within its type, the meta storage equals its file
\* between iterations, and a disk that is charged or grown is there.
THEOREM VolumesTypeCorrect == Spec => []TypeOK
<1>1. IInv => TypeOK
  BY DEF IInv
<1> QED BY <1>1, VolumesInvariant, PTL

-----------------------------------------------------------------------------
(* WithinCapacity *)

\* A pool is not filled beyond its capacity by this step.
Fits(p) ==
    Provisioned(disk', p) > PoolAttr(p).capacity => Provisioned(disk', p) <= Provisioned(disk, p)

\* Disks that go away fill nothing.
LEMMA GoneFits ==
    ASSUME disk \in [Volumes -> OrNone(Disk)], disk' \in [Volumes -> OrNone(Disk)],
           \A v \in Volumes : disk'[v] \in {None, disk[v]}, NEW p \in Pools
    PROVE  Fits(p)
<1>1. disk \in Rows /\ disk' \in Rows
  BY DEF Rows, OrNone
<1>2. \A v \in On(disk', p) : v \in On(disk, p) /\ disk'[v].size <= disk[v].size
  BY <1>1, RowSize DEF On
<1> QED BY <1>1, <1>2, ProvisionedLess DEF Fits

\* The disks take no more of a pool than it is charged with.
LEMMA DisksCharged ==
    ASSUME IInv', pc' = "volumes", NEW p \in Pools \ lost'
    PROVE  /\ Provisioned(disk', p) <= charged'[p]
           /\ Provisioned(disk', p) \in Nat /\ charged'[p] \in Int
<1>1. Held' \in Rows /\ disk' \in Rows
  BY DEF IInv, TypeOK, Held, Rows, OrNone
<1>2. \A v \in On(disk', p) : v \in On(Held', p) /\ disk'[v].size <= Held'[v].size
  BY <1>1, RowSize DEF On, Held
<1>3. Provisioned(disk', p) <= Provisioned(Held', p)
  BY <1>1, <1>2, ProvisionedLess
<1>4. charged'[p] = Provisioned(Held', p)
  BY DEF IInv, Charged
<1> QED BY <1>1, <1>3, <1>4, ProvisionedUnits

LEMMA PlacedFits ==
    ASSUME IInv, IInv', NEW v \in Volumes, Handle(v, 1), listed[v] = None,
           NEW p \in SelectStoragePool(v, goal[v].size, goal[v].pin), disk' = NewDisk(v, p),
           \/ charged' = [charged EXCEPT ![p] = @ + goal[v].size] /\ lost' = lost
           \/ charged' = charged /\ lost' = lost \cup {p},
           NEW q \in Pools \ lost'
    PROVE  Fits(q)
<1>1. p \in Pools /\ HasCapacity(p, goal[v].size)
  BY DEF SelectStoragePool
<1>2. pc' = "volumes" /\ Alike(disk[v], listed[v]) /\ goal[v] # None
  BY Handled, NewRank
<1>3. disk \in [Volumes -> OrNone(Disk)] /\ disk' \in [Volumes -> OrNone(Disk)]
  BY DEF IInv, TypeOK
<1>4. CASE q = p
  <2>1. charged'[p] = charged[p] + goal[v].size /\ charged[p] \in Int
    BY <1>1, <1>4 DEF IInv, TypeOK
  <2>2. PoolAttr(p).capacity - charged[p] >= goal[v].size /\ PoolAttr(p).capacity \in Int
    BY <1>1, VolumesAssumption DEF HasCapacity, Available
  <2>3. goal[v].size \in Int
    <3>1. goal[v].size \in Sizes
      BY <1>2 DEF IInv, TypeOK, Want, OrNone
    <3> QED BY <3>1, SizesNumbers
  <2>4. Provisioned(disk', p) <= charged'[p] /\ Provisioned(disk', p) \in Int
    BY <1>2, <1>4, DisksCharged
  <2>5. charged'[p] <= PoolAttr(p).capacity /\ charged'[p] \in Int
    BY <2>1, <2>2, <2>3
  <2>6. Provisioned(disk', p) <= PoolAttr(p).capacity
    BY <2>2, <2>4, <2>5
  <2> QED BY <1>4, <2>2, <2>4, <2>6 DEF Fits
<1>5. CASE q # p
  <2>1. disk \in Rows /\ disk' \in Rows
    BY <1>3 DEF Rows, OrNone
  <2>2. disk'[v].pool = p /\ \A u \in Volumes \ {v} : disk'[u] = disk[u]
    BY <1>3 DEF NewDisk
  <2>3. \A u \in On(disk', q) : u \in On(disk, q) /\ disk'[u].size <= disk[u].size
    BY <1>5, <2>1, <2>2, RowSize DEF On
  <2> QED BY <2>1, <2>3, ProvisionedLess DEF Fits
<1> QED BY <1>4, <1>5

LEMMA GrownFits ==
    ASSUME IInv, IInv', NEW v \in Volumes, Handle(v, 3), listed[v] # None,
           ~Full(v), Growth(v) >= 0, disk' = Grown(v),
           \/ charged' = Charge(v) /\ lost' = lost
           \/ charged' = charged /\ lost' = lost \cup {listed[v].pool},
           NEW q \in Pools \ lost'
    PROVE  Fits(q)
<1> DEFINE p == listed[v].pool
<1>1. pc' = "volumes" /\ Alike(disk[v], listed[v]) /\ goal[v] # None
  BY Handled, UpdateRank
<1>2. disk \in [Volumes -> OrNone(Disk)] /\ disk' \in [Volumes -> OrNone(Disk)]
  BY DEF IInv, TypeOK
<1>3. goal[v].size \in Int
  <2>1. goal[v].size \in Sizes
    BY <1>1 DEF IInv, TypeOK, Want, OrNone
  <2> QED BY <2>1, SizesNumbers
<1>4. disk[v] \in Disk /\ disk[v].size = listed[v].size /\ disk[v].pool = p /\ p \in Pools
  BY <1>1, <1>2 DEF Alike, OrNone, Disk
<1>5. listed[v].size \in Int
  <2>1. listed[v].size \in Sizes
    BY <1>4 DEF Disk
  <2> QED BY <2>1, SizesNumbers
<1>6. /\ disk'[v] = [size |-> goal[v].size, pool |-> p]
      /\ \A u \in Volumes \ {v} : disk'[u] = disk[u]
  <2>1. /\ disk'[v] = [disk[v] EXCEPT !.size = goal[v].size]
        /\ \A u \in Volumes \ {v} : disk'[u] = disk[u]
    BY <1>2 DEF Grown
  <2> QED BY <1>4, <2>1 DEF Disk
<1>7. disk \in Rows /\ disk' \in Rows
  BY <1>2 DEF Rows, OrNone
<1>8. CASE Growth(v) = 0 \/ q # p
  <2>1. disk[v].pool = q => disk'[v].size <= disk[v].size
    BY <1>3, <1>4, <1>5, <1>6, <1>8 DEF Growth
  <2>2. \A u \in On(disk', q) : u \in On(disk, q) /\ disk'[u].size <= disk[u].size
    BY <1>4, <1>6, <1>7, <2>1, RowSize, VolumesAssumption DEF On
  <2> QED BY <1>7, <2>2, ProvisionedLess DEF Fits
<1>9. CASE Growth(v) # 0 /\ q = p
  <2>1. HasCapacity(p, Growth(v))
    <3>1. SelectStoragePool(v, Growth(v), p) # {}
      BY <1>9 DEF Full
    <3>2. p # None
      BY <1>4, VolumesAssumption
    <3> QED BY <3>1, <3>2 DEF SelectStoragePool
  <2>2. charged'[p] = charged[p] + Growth(v) /\ charged[p] \in Int /\ Growth(v) \in Int
    BY <1>3, <1>4, <1>5, <1>9 DEF IInv, TypeOK, Charge, Growth
  <2>3. PoolAttr(p).capacity - charged[p] >= Growth(v) /\ PoolAttr(p).capacity \in Int
    BY <1>4, <2>1, VolumesAssumption DEF HasCapacity, Available
  <2>4. Provisioned(disk', p) <= charged'[p] /\ Provisioned(disk', p) \in Int
    BY <1>1, <1>9, DisksCharged
  <2>5. charged'[p] <= PoolAttr(p).capacity /\ charged'[p] \in Int
    BY <2>2, <2>3
  <2>6. Provisioned(disk', p) <= PoolAttr(p).capacity
    BY <2>3, <2>4, <2>5
  <2> QED BY <1>9, <2>3, <2>4, <2>6 DEF Fits
<1> QED BY <1>8, <1>9

\* How a step changes the disks.
Kept == \A v \in Volumes : disk'[v] \in {None, disk[v]}
PlacesAt(v, p) ==
    /\ Handle(v, 1) /\ listed[v] = None
    /\ p \in SelectStoragePool(v, goal[v].size, goal[v].pin) /\ disk' = NewDisk(v, p)
    /\ \/ charged' = [charged EXCEPT ![p] = @ + goal[v].size] /\ lost' = lost
       \/ charged' = charged /\ lost' = lost \cup {p}
Grows(v) ==
    /\ Handle(v, 3) /\ listed[v] # None /\ ~Full(v) /\ Growth(v) >= 0 /\ disk' = Grown(v)
    /\ \/ charged' = Charge(v) /\ lost' = lost
       \/ charged' = charged /\ lost' = lost \cup {listed[v].pool}

LEMMA DiskSteps ==
    ASSUME IInv, [Next]_vars
    PROVE  \/ Kept
           \/ \E v \in Volumes : Grows(v) \/ \E p \in Pools : PlacesAt(v, p)
<1>1. disk \in [Volumes -> OrNone(Disk)]
  BY DEF IInv, TypeOK
<1>2. ASSUME disk' = disk PROVE Kept
  BY <1>2 DEF Kept
<1>3. ASSUME NEW v \in Volumes, VolumeStep(v)
      PROVE  Kept \/ Grows(v) \/ \E p \in Pools : PlacesAt(v, p)
  <2>1. CASE AdoptVolume(v) \/ RefuseVolume(v) \/ LeaveVolume(v) \/ RefuseShrink(v)
    BY <1>2, <2>1 DEF AdoptVolume, RefuseVolume, LeaveVolume, RefuseShrink, hyperVars
  <2>2. CASE CreateVolume(v)
    BY <2>2 DEF CreateVolume, PlacesAt, SelectStoragePool, Unfaulted
  <2>3. CASE CreateVolumeFails(v)
    BY <1>2, <2>3 DEF CreateVolumeFails, PlacesAt, SelectStoragePool, hyperVars
  <2>4. CASE DeleteVolume(v) \/ DeleteVolumeFails(v)
    BY <1>1, <2>4 DEF DeleteVolume, DeleteVolumeFails, Kept
  <2>5. CASE UpdateVolume(v)
    BY <2>5, ManagedRank DEF UpdateVolume, UpdateStep, Updatable, Grows, Unfaulted
  <2>6. CASE UpdateVolumeFails(v)
    BY <1>2, <2>6, ManagedRank DEF UpdateVolumeFails, UpdateStep, Updatable, Grows, hyperVars
  <2> QED BY <1>3, <2>1, <2>2, <2>3, <2>4, <2>5, <2>6 DEF VolumeStep
<1>4. ASSUME NEW m \in Machines, MachineStep(m) PROVE Kept
  <2>1. CASE DeleteMachine(m) \/ DeleteMachineFails(m)
    BY <1>2, <2>1 DEF DeleteMachine, DeleteMachineFails, Kept, hyperVars
  <2>2. CASE ~(DeleteMachine(m) \/ DeleteMachineFails(m))
    BY <1>2, <1>4, <2>2 DEF MachineStep, AdoptMachine, RefuseMachine, CreateMachine,
       CreateMachineFails, NewMachine, StartMachine, StartMachineFails, PowerOn, hyperVars
  <2> QED BY <2>1, <2>2
<1>5. CASE Agent
  <2>1. CASE StartIteration \/ StartMachines \/ Finalize \/ \E x \in todo : Skip(x)
    BY <1>2, <2>1 DEF StartIteration, StartMachines, Finalize, EndIteration, Skip, hyperVars
  <2> QED BY <1>3, <1>4, <1>5, <2>1 DEF Agent
<1>6. CASE Crash \/ World \/ UNCHANGED vars
  BY <1>2, <1>6 DEF Crash, EndIteration, World, ChangeTarget, FlipPower, vars, hyperVars
<1> QED BY <1>5, <1>6 DEF Next

\* A pool is filled beyond its capacity, by what is on it and by a disk that
\* is created or grown, only after an answer was lost in the iteration.
THEOREM CapacityKept == Spec => WithinCapacity
<1>1. ASSUME IInv, IInv', [Next]_vars
      PROVE  \A p \in Pools \ lost' :
               Provisioned(disk', p) > PoolAttr(p).capacity
               => Provisioned(disk', p) <= Provisioned(disk, p)
  <2> SUFFICES ASSUME NEW p \in Pools \ lost' PROVE Fits(p)
    BY DEF Fits
  <2>1. disk \in [Volumes -> OrNone(Disk)] /\ disk' \in [Volumes -> OrNone(Disk)]
    BY <1>1 DEF IInv, TypeOK
  <2>2. CASE Kept
    BY <2>1, <2>2, GoneFits DEF Kept
  <2>3. ASSUME NEW v \in Volumes, Grows(v) PROVE Fits(p)
    BY <1>1, <2>3, GrownFits DEF Grows
  <2>4. ASSUME NEW v \in Volumes, NEW q \in Pools, PlacesAt(v, q) PROVE Fits(p)
    BY <1>1, <2>4, PlacedFits DEF PlacesAt
  <2> QED BY <1>1, <2>2, <2>3, <2>4, DiskSteps
<1> QED BY <1>1, VolumesInvariant, PTL DEF Spec, WithinCapacity

-----------------------------------------------------------------------------
(* PlacedBest *)

\* As long as no answer is lost the driver knows the room on the pools.
LEMMA RoomKnown ==
    ASSUME IInv, pc = "volumes", lost = {}, NEW p \in Pools
    PROVE  Available(p) = Occupied(p)
BY DEF IInv, Charged, Available, Occupied, Held

\* A disk the control plane did not pin goes to the pool with the most room,
\* of those of its durability, and of its tier if one of them has room.
THEOREM BestPlacement == Spec => PlacedBest
<1> DEFINE Unpinned(v) == disk[v] = None /\ disk'[v] # None /\ goal[v].pin = None /\ lost = {}
           Alternatives(v) == {q \in Pools : /\ PoolAttr(q).unique
                                     /\ PoolAttr(q).ephemeral = VolumeAttr(v).ephemeral
                                     /\ Occupied(q) >= goal[v].size}
           Best(v, p) == p \in Alternatives(v) /\ \A q \in Alternatives(v) : ~Better(v, q, p)
<1>1. ASSUME IInv, [Next]_vars, NEW v \in Volumes, Unpinned(v)
      PROVE  Best(v, disk'[v].pool)
  <2>1. disk \in [Volumes -> OrNone(Disk)]
    BY <1>1 DEF IInv, TypeOK
  <2>2. PICK p \in Pools : PlacesAt(v, p)
    <3>1. ~Kept
      BY <1>1 DEF Kept
    <3>2. ASSUME NEW u \in Volumes, Grows(u) PROVE FALSE
      <4>1. disk[u] # None
        BY <1>1, <3>2, Handled DEF Grows, Alike
      <4>2. u = v
        BY <1>1, <2>1, <3>2 DEF Grows, Grown
      <4> QED BY <1>1, <4>1, <4>2
    <3>3. ASSUME NEW u \in Volumes, NEW p \in Pools, PlacesAt(u, p) PROVE u = v
      BY <1>1, <2>1, <3>3 DEF PlacesAt, NewDisk
    <3> QED BY <1>1, <3>1, <3>2, <3>3, DiskSteps
  <2>3. disk'[v].pool = p
    BY <2>1, <2>2 DEF PlacesAt, NewDisk
  <2>4. pc = "volumes" /\ \A q \in Pools : Available(q) = Occupied(q)
    BY <1>1, <2>2, Handled, RoomKnown DEF PlacesAt
  <2> DEFINE exact == {q \in Alternatives(v) : PoolAttr(q).tier = VolumeAttr(v).tier}
  <2>5. /\ p \in IF exact # {} THEN exact ELSE Alternatives(v)
        /\ \A q \in IF exact # {} THEN exact ELSE Alternatives(v) : Occupied(q) <= Occupied(p)
    <3> DEFINE fits == {q \in Pools : PoolAttr(q).unique /\ HasCapacity(q, goal[v].size)}
               durable == {q \in fits : PoolAttr(q).ephemeral = VolumeAttr(v).ephemeral}
               chosen == {q \in durable : PoolAttr(q).tier = VolumeAttr(v).tier}
               matches == IF chosen # {} THEN chosen ELSE durable
    <3>1. p \in matches /\ \A q \in matches : Available(q) <= Available(p)
      BY <1>1, <2>2 DEF PlacesAt, SelectStoragePool
    <3>2. durable = Alternatives(v)
      BY <2>4 DEF HasCapacity
    <3>3. chosen = exact
      BY <3>2
    <3>4. matches = IF exact # {} THEN exact ELSE Alternatives(v)
      BY <3>2, <3>3
    <3>5. matches \subseteq Pools
      OBVIOUS
    <3> HIDE DEF matches, exact
    <3> QED BY <2>4, <3>1, <3>4, <3>5
  <2>6. p \in Alternatives(v)
    BY <2>5
  <2>7. ASSUME NEW q \in Alternatives(v), Better(v, q, p) PROVE FALSE
    <3>1. \A x \in Alternatives(v) : x \in exact <=> PoolAttr(x).tier = VolumeAttr(v).tier
      OBVIOUS
    <3>2. \A x \in Pools : Occupied(x) \in Int
      <4> SUFFICES ASSUME NEW x \in Pools PROVE Available(x) \in Int
        BY <2>4
      <4> QED BY <1>1, VolumesAssumption DEF Available, IInv, TypeOK
    <3>3. q \in Pools
      OBVIOUS
    <3> HIDE DEF exact, Alternatives
    <3> QED BY <2>5, <2>6, <2>7, <3>1, <3>2, <3>3 DEF Better
  <2> QED BY <2>3, <2>6, <2>7
<1>2. ASSUME IInv, [Next]_vars
      PROVE  \A v \in Volumes :
               disk[v] = None /\ disk'[v] # None /\ goal[v].pin = None /\ lost = {}
               => LET p == disk'[v].pool
                      same == {q \in Pools : /\ PoolAttr(q).unique
                                             /\ PoolAttr(q).ephemeral = VolumeAttr(v).ephemeral
                                             /\ Occupied(q) >= goal[v].size}
                  IN  p \in same /\ \A q \in same : ~Better(v, q, p)
  BY <1>1, <1>2
<1> QED BY <1>2, VolumesInvariant, PTL DEF Spec, PlacedBest
=============================================================================
