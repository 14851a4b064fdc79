---------------------------- MODULE LinkageProofs ----------------------------
(***************************************************************************)
(* What the linkage index makes the rules of RulesLinkage say, for any     *)
(* number of units with any declarations: units that disagree about a name *)
(* all hear of it, nobody else does, and a run over part of the units says *)
(* nothing that a run over all of them would not.                          *)
(***************************************************************************)
EXTENDS RulesLinkage, FiniteSetTheorems, WellFoundedInduction, TLAPS

-------------------------------------------------------------------------------
(* First and last nodes, more than one                                     *)

LEMMA LeastIsThere ==
  ASSUME NEW S \in SUBSET Nat, S # {}
  PROVE  \E x \in S : \A y \in S : x <= y
<1>1. PICK x \in S : \A y \in S : ~(<<y, x>> \in OpToRel(<, Nat))
  BY NatLessThanWellFounded, WFMin
<1>2. ASSUME NEW y \in S
      PROVE  x <= y
  <2>1. <<y, x>> \notin OpToRel(<, Nat)
    BY <1>1
  <2>2. ~(y < x)
    BY <2>1 DEF OpToRel
  <2> QED
    BY <2>2
<1> QED
  BY <1>2

LEMMA MinIsThere ==
  ASSUME NEW S \in SUBSET Nat, S # {}
  PROVE  Min(S) \in S
<1>1. PICK x \in S : \A y \in S : x <= y
  BY LeastIsThere
<1> QED
  BY <1>1 DEF Min

(* Of a bounded set: reflected, its greatest number is the least.          *)
LEMMA MaxIsThere ==
  ASSUME NEW n \in Nat, NEW S \in SUBSET (1 .. n), S # {}
  PROVE  Max(S) \in S
<1> DEFINE T == {n - x : x \in S}
<1>1. ASSUME NEW x \in S
      PROVE  n - x \in Nat
  OBVIOUS
<1>2. PICK d \in T : \A y \in T : d <= y
  <2>1. T \in SUBSET Nat /\ T # {}
    BY <1>1
  <2> QED
    BY <2>1, LeastIsThere
<1>3. PICK x \in S : d = n - x
  BY <1>2
<1>4. ASSUME NEW y \in S
      PROVE  x >= y
  <2>1. n - x <= n - y
    BY <1>2, <1>3
  <2> QED
    BY <2>1
<1> QED
  BY <1>4 DEF Max

LEMMA FirstNodeIsThere ==
  ASSUME NEW S \in SUBSET Nat, S # {}
  PROVE  FirstNode(S) # {} /\ FirstNode(S) \subseteq S
BY MinIsThere DEF FirstNode

LEMMA FirstNodeIsOne ==
  ASSUME NEW S \in SUBSET Nat
  PROVE  FirstNode(S) \subseteq S
BY MinIsThere DEF FirstNode

LEMMA MoreThanOne ==
  ASSUME NEW S, IsFiniteSet(S)
  PROVE  Cardinality(S) > 1 <=> \E x, y \in S : x # y
<1>1. ASSUME NEW x \in S, NEW y \in S, x # y
      PROVE  Cardinality(S) > 1
  <2>1. IsFiniteSet({x}) /\ Cardinality({x}) = 1
    BY FS_Singleton
  <2>2. Cardinality({x} \cup {y}) = 2 /\ IsFiniteSet({x} \cup {y})
    BY <1>1, <2>1, FS_AddElement
  <2>3. Cardinality({x} \cup {y}) <= Cardinality(S)
    BY <2>2, FS_Subset
  <2>4. Cardinality(S) \in Nat
    BY FS_CardinalityType
  <2> QED
    BY <2>2, <2>3, <2>4
<1>2. ASSUME Cardinality(S) > 1
      PROVE  \E x, y \in S : x # y
  <2>1. S # {}
    BY <1>2, FS_EmptySet
  <2>2. PICK x \in S : TRUE
    BY <2>1
  <2>3. S # {x}
    BY <1>2, FS_Singleton
  <2> QED
    BY <2>2, <2>3
<1> QED
  BY <1>1, <1>2


-------------------------------------------------------------------------------
(* What the index knows of a run's units                                   *)

(* A unit has an identifier and a graph, that is a sequence of nodes.      *)
UnitsOf(Ids, Nodes) == [tu : Ids, g : Seq(Nodes)]

IsName(n) == n # ""

AllSpellings(units, n) == UNION {Spellings(units[k].g, n) : k \in DOMAIN units}
TwoSpellings(units, n) == \E s, t \in AllSpellings(units, n) : s # t
UnitsThat(units, K) == {units[k].tu : k \in K}

LEMMA OccurrenceOfUse ==
  ASSUME NEW u, NEW i
  PROVE  /\ Occurrence(u, i).name = Name(u.g, i)
         /\ Occurrence(u, i).tu = u.tu
         /\ Occurrence(u, i).storage = "static" <=> Prop(u.g, i, "storage_class") = "static"
         /\ Occurrence(u, i).body <=> FunctionHasBody(u.g, i)
         /\ Occurrence(u, i).spelling = Type(u.g, i, "spelling")
BY DEF Occurrence, StorageClass, Flag

LEMMA UseIsNamed ==
  ASSUME NEW g, NEW n, NEW i \in FileScopeUses(g, n)
  PROVE  Name(g, i) = n
BY DEF FileScopeUses, DeclarationsOf

LEMMA UsesAreOccurrences ==
  ASSUME NEW units, NEW k \in DOMAIN units, NEW n,
         NEW i \in FileScopeUses(units[k].g, n), IsName(n)
  PROVE  Occurrence(units[k], i) \in Occurrences(units)
<1>1. /\ i \in NodesOfKinds(units[k].g, LinkageKinds)
      /\ Name(units[k].g, i) # "" /\ IsFileScope(units[k].g, i)
  BY DEF FileScopeUses, DeclarationsOf, IsName
<1>2. Occurrence(units[k], i) \in
        {Occurrence(units[k], j) : j \in {j \in NodesOfKinds(units[k].g, LinkageKinds) :
                                            Name(units[k].g, j) # "" /\ IsFileScope(units[k].g, j)}}
  BY <1>1
<1> QED
  BY <1>2 DEF Occurrences

LEMMA OccurrencesAreUses ==
  ASSUME NEW units, NEW o \in Occurrences(units)
  PROVE  /\ IsName(o.name)
         /\ \E k \in DOMAIN units : \E i \in FileScopeUses(units[k].g, o.name) : o = Occurrence(units[k], i)
<1>1. PICK k \in DOMAIN units :
        \E i \in NodesOfKinds(units[k].g, LinkageKinds) :
          Name(units[k].g, i) # "" /\ IsFileScope(units[k].g, i) /\ o = Occurrence(units[k], i)
  BY DEF Occurrences
<1>2. PICK i \in NodesOfKinds(units[k].g, LinkageKinds) :
        Name(units[k].g, i) # "" /\ IsFileScope(units[k].g, i) /\ o = Occurrence(units[k], i)
  BY <1>1
<1>3. o.name = Name(units[k].g, i)
  BY <1>2, OccurrenceOfUse
<1>4. i \in FileScopeUses(units[k].g, o.name)
  BY <1>2, <1>3 DEF FileScopeUses, DeclarationsOf
<1> QED
  BY <1>2, <1>3, <1>4 DEF IsName

LEMMA NamesOfTheIndex ==
  ASSUME NEW units, NEW L, L.symbols = Occurrences(units), NEW n
  PROVE  n \in LinkageNames(L) <=>
           IsName(n) /\ \E k \in DOMAIN units : FileScopeUses(units[k].g, n) # {}
<1>1. ASSUME n \in LinkageNames(L)
      PROVE  IsName(n) /\ \E k \in DOMAIN units : FileScopeUses(units[k].g, n) # {}
  BY <1>1, OccurrencesAreUses DEF LinkageNames
<1>2. ASSUME NEW k \in DOMAIN units, NEW i \in FileScopeUses(units[k].g, n), IsName(n)
      PROVE  n \in LinkageNames(L)
  <2>1. Occurrence(units[k], i) \in L.symbols
    BY <1>2, UsesAreOccurrences
  <2>2. Occurrence(units[k], i).name = n
    BY OccurrenceOfUse, UseIsNamed
  <2> QED
    BY <2>1, <2>2 DEF LinkageNames
<1> QED
  BY <1>1, <1>2

(* An occurrence with external linkage is an external use in some unit.    *)
LEMMA ExternalOccurrencesAreUses ==
  ASSUME NEW units, NEW L, L.symbols = Occurrences(units), NEW n,
         NEW o \in ExternalOccurrences(L, n)
  PROVE  IsName(n) /\ \E k \in DOMAIN units : \E i \in ExternalUses(units[k].g, n) : o = Occurrence(units[k], i)
<1>1. o \in Occurrences(units) /\ o.name = n /\ o.storage # "static"
  BY DEF ExternalOccurrences
<1>2. IsName(n) /\ \E k \in DOMAIN units : \E i \in FileScopeUses(units[k].g, n) : o = Occurrence(units[k], i)
  BY <1>1, OccurrencesAreUses
<1>3. PICK k \in DOMAIN units : \E i \in FileScopeUses(units[k].g, n) : o = Occurrence(units[k], i)
  BY <1>2
<1>4. PICK i \in FileScopeUses(units[k].g, n) : o = Occurrence(units[k], i)
  BY <1>3
<1>5. Prop(units[k].g, i, "storage_class") # "static"
  BY <1>1, <1>4, OccurrenceOfUse
<1> QED
  BY <1>2, <1>4, <1>5 DEF ExternalUses

LEMMA ExternalUsesAreOccurrences ==
  ASSUME NEW units, NEW L, L.symbols = Occurrences(units), NEW n,
         NEW k \in DOMAIN units, NEW i \in ExternalUses(units[k].g, n), IsName(n)
  PROVE  Occurrence(units[k], i) \in ExternalOccurrences(L, n)
<1>1. i \in FileScopeUses(units[k].g, n) /\ Prop(units[k].g, i, "storage_class") # "static"
  BY DEF ExternalUses
<1>2. Occurrence(units[k], i) \in L.symbols
  BY <1>1, UsesAreOccurrences
<1>3. Occurrence(units[k], i).name = n
  BY <1>1, UseIsNamed, OccurrenceOfUse
<1>4. Occurrence(units[k], i).storage # "static"
  BY <1>1, OccurrenceOfUse
<1> QED
  BY <1>2, <1>3, <1>4 DEF ExternalOccurrences

LEMMA DefiningUnits ==
  ASSUME NEW units, NEW L, L.symbols = Occurrences(units), NEW n, IsName(n)
  PROVE  {o.tu : o \in Definitions(L, n)} = UnitsThat(units, {k \in DOMAIN units : Defines(units[k].g, n)})
<1>1. ASSUME NEW o \in Definitions(L, n)
      PROVE  \E k \in DOMAIN units : Defines(units[k].g, n) /\ o.tu = units[k].tu
  <2>1. o \in ExternalOccurrences(L, n) /\ o.body
    BY DEF Definitions
  <2>2. PICK k \in DOMAIN units : \E i \in ExternalUses(units[k].g, n) : o = Occurrence(units[k], i)
    BY <2>1, ExternalOccurrencesAreUses
  <2>3. PICK i \in ExternalUses(units[k].g, n) : o = Occurrence(units[k], i)
    BY <2>2
  <2>4. o.tu = units[k].tu
    BY <2>3, OccurrenceOfUse
  <2>5. FunctionHasBody(units[k].g, i)
    BY <2>1, <2>3, OccurrenceOfUse
  <2> QED
    BY <2>4, <2>5 DEF Defines
<1>2. ASSUME NEW k \in DOMAIN units, Defines(units[k].g, n)
      PROVE  \E o \in Definitions(L, n) : o.tu = units[k].tu
  <2>1. PICK i \in ExternalUses(units[k].g, n) : FunctionHasBody(units[k].g, i)
    BY <1>2 DEF Defines
  <2>2. Occurrence(units[k], i) \in ExternalOccurrences(L, n)
    BY ExternalUsesAreOccurrences
  <2>3. Occurrence(units[k], i).body
    BY <2>1, OccurrenceOfUse
  <2>4. Occurrence(units[k], i).tu = units[k].tu
    BY OccurrenceOfUse
  <2> QED
    BY <2>2, <2>3, <2>4 DEF Definitions
<1>3. {o.tu : o \in Definitions(L, n)} \subseteq
        UnitsThat(units, {k \in DOMAIN units : Defines(units[k].g, n)})
  BY <1>1 DEF UnitsThat
<1>4. UnitsThat(units, {k \in DOMAIN units : Defines(units[k].g, n)}) \subseteq
        {o.tu : o \in Definitions(L, n)}
  BY <1>2 DEF UnitsThat
<1> QED
  BY <1>3, <1>4

LEMMA DeclaringUnits ==
  ASSUME NEW units, NEW L, L.symbols = Occurrences(units), NEW n, IsName(n)
  PROVE  NonDefiningExternalUnits(L, n)
           = UnitsThat(units, {k \in DOMAIN units : DeclaresOnly(units[k].g, n)})
<1>1. ASSUME NEW o \in ExternalOccurrences(L, n), ~o.body
      PROVE  \E k \in DOMAIN units : DeclaresOnly(units[k].g, n) /\ o.tu = units[k].tu
  <2>1. PICK k \in DOMAIN units : \E i \in ExternalUses(units[k].g, n) : o = Occurrence(units[k], i)
    BY ExternalOccurrencesAreUses
  <2>2. PICK i \in ExternalUses(units[k].g, n) : o = Occurrence(units[k], i)
    BY <2>1
  <2>3. o.tu = units[k].tu
    BY <2>2, OccurrenceOfUse
  <2>4. ~FunctionHasBody(units[k].g, i)
    BY <1>1, <2>2, OccurrenceOfUse
  <2> QED
    BY <2>3, <2>4 DEF DeclaresOnly
<1>2. ASSUME NEW k \in DOMAIN units, DeclaresOnly(units[k].g, n)
      PROVE  \E o \in ExternalOccurrences(L, n) : ~o.body /\ o.tu = units[k].tu
  <2>1. PICK i \in ExternalUses(units[k].g, n) : ~FunctionHasBody(units[k].g, i)
    BY <1>2 DEF DeclaresOnly
  <2>2. Occurrence(units[k], i) \in ExternalOccurrences(L, n)
    BY ExternalUsesAreOccurrences
  <2>3. ~Occurrence(units[k], i).body
    BY <2>1, OccurrenceOfUse
  <2>4. Occurrence(units[k], i).tu = units[k].tu
    BY OccurrenceOfUse
  <2> QED
    BY <2>2, <2>3, <2>4
<1> QED
  BY <1>1, <1>2 DEF UnitsThat, NonDefiningExternalUnits

LEMMA InternalUnits ==
  ASSUME NEW units, NEW L, L.symbols = Occurrences(units), NEW n, IsName(n)
  PROVE  InternalLinkageUnits(L, n)
           = UnitsThat(units, {k \in DOMAIN units : IsInternal(units[k].g, n)})
<1>1. ASSUME NEW o \in L.symbols, o.name = n, o.storage = "static"
      PROVE  \E k \in DOMAIN units : IsInternal(units[k].g, n) /\ o.tu = units[k].tu
  <2>1. PICK k \in DOMAIN units : \E i \in FileScopeUses(units[k].g, n) : o = Occurrence(units[k], i)
    BY <1>1, OccurrencesAreUses
  <2>2. PICK i \in FileScopeUses(units[k].g, n) : o = Occurrence(units[k], i)
    BY <2>1
  <2>3. o.tu = units[k].tu
    BY <2>2, OccurrenceOfUse
  <2>4. Prop(units[k].g, i, "storage_class") = "static"
    BY <1>1, <2>2, OccurrenceOfUse
  <2> QED
    BY <2>3, <2>4 DEF IsInternal
<1>2. ASSUME NEW k \in DOMAIN units, IsInternal(units[k].g, n)
      PROVE  \E o \in L.symbols : o.name = n /\ o.storage = "static" /\ o.tu = units[k].tu
  <2>1. PICK i \in FileScopeUses(units[k].g, n) : Prop(units[k].g, i, "storage_class") = "static"
    BY <1>2 DEF IsInternal
  <2>2. Occurrence(units[k], i) \in L.symbols
    BY UsesAreOccurrences
  <2>3. Occurrence(units[k], i).name = n
    BY UseIsNamed, OccurrenceOfUse
  <2>4. Occurrence(units[k], i).storage = "static"
    BY <2>1, OccurrenceOfUse
  <2>5. Occurrence(units[k], i).tu = units[k].tu
    BY OccurrenceOfUse
  <2> QED
    BY <2>2, <2>3, <2>4, <2>5
<1> QED
  BY <1>1, <1>2 DEF UnitsThat, InternalLinkageUnits

LEMMA SpellingsOfUnits ==
  ASSUME NEW units, NEW L, L.symbols = Occurrences(units), NEW n, IsName(n)
  PROVE  {o.spelling : o \in ExternalOccurrences(L, n)} \ {""} = AllSpellings(units, n)
<1>1. ASSUME NEW o \in ExternalOccurrences(L, n), o.spelling # ""
      PROVE  \E k \in DOMAIN units : o.spelling \in Spellings(units[k].g, n)
  <2>1. PICK k \in DOMAIN units : \E i \in ExternalUses(units[k].g, n) : o = Occurrence(units[k], i)
    BY ExternalOccurrencesAreUses
  <2>2. PICK i \in ExternalUses(units[k].g, n) : o = Occurrence(units[k], i)
    BY <2>1
  <2>3. o.spelling = Type(units[k].g, i, "spelling")
    BY <2>2, OccurrenceOfUse
  <2> QED
    BY <1>1, <2>3 DEF Spellings
<1>2. ASSUME NEW k \in DOMAIN units, NEW s \in Spellings(units[k].g, n)
      PROVE  s # "" /\ \E o \in ExternalOccurrences(L, n) : o.spelling = s
  <2>1. PICK i \in ExternalUses(units[k].g, n) : s = Type(units[k].g, i, "spelling") /\ s # ""
    BY DEF Spellings
  <2>2. Occurrence(units[k], i) \in ExternalOccurrences(L, n)
    BY ExternalUsesAreOccurrences
  <2>3. Occurrence(units[k], i).spelling = s
    BY <2>1, OccurrenceOfUse
  <2> QED
    BY <2>1, <2>2, <2>3
<1>3. {o.spelling : o \in ExternalOccurrences(L, n)} \ {""}
        \subseteq AllSpellings(units, n)
  BY <1>1 DEF AllSpellings
<1>4. AllSpellings(units, n)
        \subseteq {o.spelling : o \in ExternalOccurrences(L, n)} \ {""}
  BY <1>2 DEF AllSpellings
<1> QED
  BY <1>3, <1>4

LEMMA UsingUnits ==
  ASSUME NEW units, NEW L, L.symbols = Occurrences(units), NEW n, IsName(n)
  PROVE  OccurrenceUnits(L, n)
           = UnitsThat(units, {k \in DOMAIN units : FileScopeUses(units[k].g, n) # {}})
<1>1. ASSUME NEW o \in L.symbols, o.name = n
      PROVE  \E k \in DOMAIN units : FileScopeUses(units[k].g, n) # {} /\ o.tu = units[k].tu
  <2>1. PICK k \in DOMAIN units : \E i \in FileScopeUses(units[k].g, n) : o = Occurrence(units[k], i)
    BY <1>1, OccurrencesAreUses
  <2> QED
    BY <2>1, OccurrenceOfUse
<1>2. ASSUME NEW k \in DOMAIN units, NEW i \in FileScopeUses(units[k].g, n)
      PROVE  \E o \in L.symbols : o.name = n /\ o.tu = units[k].tu
  <2>1. Occurrence(units[k], i) \in L.symbols
    BY UsesAreOccurrences
  <2>2. Occurrence(units[k], i).name = n
    BY UseIsNamed, OccurrenceOfUse
  <2>3. Occurrence(units[k], i).tu = units[k].tu
    BY OccurrenceOfUse
  <2> QED
    BY <2>1, <2>2, <2>3
<1>3. {o.tu : o \in {o \in L.symbols : o.name = n}} =
        {units[k].tu : k \in {k \in DOMAIN units : FileScopeUses(units[k].g, n) # {}}}
  BY <1>1, <1>2
<1> QED
  BY <1>3 DEF UnitsThat, OccurrenceUnits

-------------------------------------------------------------------------------
(* Counting the units                                                      *)

LEMMA ImageIsFinite ==
  ASSUME NEW f, IsFiniteSet(DOMAIN f), f = [x \in DOMAIN f |-> f[x]]
  PROVE  IsFiniteSet({f[x] : x \in DOMAIN f})
<1>1. f \in Surjection(DOMAIN f, {f[x] : x \in DOMAIN f})
  BY DEF Surjection
<1> QED
  BY <1>1, FS_Surjection

LEMMA NodesAreNumbers ==
  ASSUME NEW Nodes, NEW g \in Seq(Nodes), NEW n
  PROVE  DeclarationsOf(g, n) \in SUBSET (1 .. Len(g)) /\ Len(g) \in Nat
BY DEF DeclarationsOf, NodesOfKinds

LEMMA UnitsAreFinite ==
  ASSUME NEW Units, NEW units \in Seq(Units), NEW K \in SUBSET (DOMAIN units)
  PROVE  IsFiniteSet(UnitsThat(units, K))
<1>1. IsFiniteSet(DOMAIN units)
  BY FS_Interval
<1>2. IsFiniteSet(K)
  BY <1>1, FS_Subset
<1> DEFINE f == [k \in K |-> units[k].tu]
<1>3. IsFiniteSet({f[k] : k \in DOMAIN f})
  BY <1>2, ImageIsFinite
<1> QED
  BY <1>3 DEF UnitsThat

LEMMA MoreThanOneUnit ==
  ASSUME NEW Units, NEW units \in Seq(Units), NEW K \in SUBSET (DOMAIN units)
  PROVE  Cardinality(UnitsThat(units, K)) > 1 <=> \E j, k \in K : units[j].tu # units[k].tu
<1>1. Cardinality(UnitsThat(units, K)) > 1 <=> \E x, y \in UnitsThat(units, K) : x # y
  BY UnitsAreFinite, MoreThanOne
<1> QED
  BY <1>1 DEF UnitsThat

LEMMA SpellingsAreFinite ==
  ASSUME NEW Nodes, NEW g \in Seq(Nodes), NEW n
  PROVE  IsFiniteSet(Spellings(g, n))
<1>1. IsFiniteSet(DeclarationsOf(g, n))
  <2>1. IsFiniteSet(1 .. Len(g))
    BY FS_Interval
  <2> QED
    BY <2>1, FS_Subset, NodesAreNumbers
<1>2. IsFiniteSet(ExternalUses(g, n))
  BY <1>1, FS_Subset DEF ExternalUses, FileScopeUses
<1> DEFINE f == [i \in ExternalUses(g, n) |-> Type(g, i, "spelling")]
<1>3. IsFiniteSet({f[i] : i \in DOMAIN f})
  BY <1>2, ImageIsFinite
<1>4. Spellings(g, n) \subseteq {f[i] : i \in DOMAIN f}
  BY DEF Spellings
<1> QED
  BY <1>3, <1>4, FS_Subset

LEMMA UnitsHaveGraphs ==
  ASSUME NEW Ids, NEW Nodes, NEW units \in Seq(UnitsOf(Ids, Nodes)), NEW k \in DOMAIN units
  PROVE  units[k].g \in Seq(Nodes)
<1>1. units[k] \in UnitsOf(Ids, Nodes)
  OBVIOUS
<1> QED
  BY <1>1 DEF UnitsOf

LEMMA AllSpellingsAreFinite ==
  ASSUME NEW Ids, NEW Nodes, NEW units \in Seq(UnitsOf(Ids, Nodes)), NEW n
  PROVE  IsFiniteSet(AllSpellings(units, n))
<1> DEFINE f == [k \in DOMAIN units |-> Spellings(units[k].g, n)]
           S == {f[k] : k \in DOMAIN f}
<1>1. IsFiniteSet(S)
  <2>1. IsFiniteSet(DOMAIN units)
    BY FS_Interval
  <2> QED
    BY <2>1, ImageIsFinite
<1>2. \A T \in S : IsFiniteSet(T)
  BY UnitsHaveGraphs, SpellingsAreFinite
<1>3. IsFiniteSet(UNION S)
  BY <1>1, <1>2, FS_UNION
<1>4. AllSpellings(units, n) = UNION S
  BY DEF AllSpellings
<1> QED
  BY <1>3, <1>4

LEMMA MoreThanOneSpelling ==
  ASSUME NEW Ids, NEW Nodes, NEW units \in Seq(UnitsOf(Ids, Nodes)),
         NEW L, L.symbols = Occurrences(units), NEW n, IsName(n)
  PROVE  HasIncompatibleTypes(L, n) <=> TwoSpellings(units, n)
<1>1. HasIncompatibleTypes(L, n) <=> Cardinality(AllSpellings(units, n)) > 1
  BY SpellingsOfUnits DEF HasIncompatibleTypes
<1>2. IsFiniteSet(AllSpellings(units, n))
  BY AllSpellingsAreFinite
<1>3. Cardinality(AllSpellings(units, n)) > 1 <=> TwoSpellings(units, n)
  BY <1>2, MoreThanOne DEF TwoSpellings
<1> QED
  BY <1>1, <1>3

-------------------------------------------------------------------------------
(* Who is told                                                             *)

(* One of the reported nodes is shown under the name.                      *)
Tells(g, nodes, n) == \E i \in nodes : OffendingText(g, i)[3] = n

LEMMA NamedNodesTell ==
  ASSUME NEW g, NEW n, IsName(n), NEW nodes, NEW i \in nodes, Name(g, i) = n
  PROVE  Tells(g, nodes, n)
<1>1. OffendingText(g, i)[3] = n
  BY DEF OffendingText, IsName
<1> QED
  BY <1>1 DEF Tells

LEMMA FirstDeclarationTells ==
  ASSUME NEW Nodes, NEW g \in Seq(Nodes), NEW n, IsName(n),
         NEW D \in SUBSET DeclarationsOf(g, n), D # {}, NEW nodes, FirstNode(D) \subseteq nodes
  PROVE  Tells(g, nodes, n)
<1>1. D \in SUBSET Nat
  BY NodesAreNumbers
<1>2. PICK i \in FirstNode(D) : i \in D
  BY <1>1, FirstNodeIsThere
<1>3. Name(g, i) = n
  BY <1>2 DEF DeclarationsOf
<1>4. i \in nodes
  BY <1>2
<1> QED
  BY <1>3, <1>4, NamedNodesTell

(* Two units that define the name.                                         *)
LEMMA DefinersAreSeveral ==
  ASSUME NEW Ids, NEW Nodes, NEW units \in Seq(UnitsOf(Ids, Nodes)),
         NEW L, L.symbols = Occurrences(units), NEW n, IsName(n)
  PROVE  HasMultipleDefinitions(L, n) <=>
           \E j, k \in DOMAIN units : /\ Defines(units[j].g, n) /\ Defines(units[k].g, n)
                                      /\ units[j].tu # units[k].tu
<1> DEFINE K == {k \in DOMAIN units : Defines(units[k].g, n)}
<1>1. HasMultipleDefinitions(L, n) <=> Cardinality(UnitsThat(units, K)) > 1
  BY DefiningUnits DEF HasMultipleDefinitions
<1>2. Cardinality(UnitsThat(units, K)) > 1 <=> \E j, k \in K : units[j].tu # units[k].tu
  BY MoreThanOneUnit
<1> QED
  BY <1>1, <1>2

LEMMA DeclarersAreSeveral ==
  ASSUME NEW Ids, NEW Nodes, NEW units \in Seq(UnitsOf(Ids, Nodes)),
         NEW L, L.symbols = Occurrences(units), NEW n, IsName(n)
  PROVE  Cardinality(NonDefiningExternalUnits(L, n)) > 1 <=>
           \E j, k \in DOMAIN units : /\ DeclaresOnly(units[j].g, n) /\ DeclaresOnly(units[k].g, n)
                                      /\ units[j].tu # units[k].tu
<1> DEFINE K == {k \in DOMAIN units : DeclaresOnly(units[k].g, n)}
<1>1. NonDefiningExternalUnits(L, n) = UnitsThat(units, K)
  BY DeclaringUnits
<1>2. Cardinality(UnitsThat(units, K)) > 1 <=> \E j, k \in K : units[j].tu # units[k].tu
  BY MoreThanOneUnit
<1> QED
  BY <1>1, <1>2

LEMMA InternalUsersAreSeveral ==
  ASSUME NEW Ids, NEW Nodes, NEW units \in Seq(UnitsOf(Ids, Nodes)),
         NEW L, L.symbols = Occurrences(units), NEW n, IsName(n)
  PROVE  Cardinality(InternalLinkageUnits(L, n)) > 1 <=>
           \E j, k \in DOMAIN units : /\ IsInternal(units[j].g, n) /\ IsInternal(units[k].g, n)
                                      /\ units[j].tu # units[k].tu
<1> DEFINE K == {k \in DOMAIN units : IsInternal(units[k].g, n)}
<1>1. InternalLinkageUnits(L, n) = UnitsThat(units, K)
  BY InternalUnits
<1>2. Cardinality(UnitsThat(units, K)) > 1 <=> \E j, k \in K : units[j].tu # units[k].tu
  BY MoreThanOneUnit
<1> QED
  BY <1>1, <1>2

LEMMA LastDeclarationIsThere ==
  ASSUME NEW Nodes, NEW g \in Seq(Nodes), NEW n, DeclarationsOf(g, n) # {}
  PROVE  LastDeclaration(g, n) \in DeclarationsOf(g, n)
<1> DEFINE V == {i \in DeclarationsOf(g, n) : Kind(g, i) = "VarDecl"}
<1>1. Len(g) \in Nat /\ DeclarationsOf(g, n) \in SUBSET (1 .. Len(g))
  BY NodesAreNumbers
<1>2. CASE V # {}
  <2>1. Max(V) \in V
    BY <1>1, <1>2, MaxIsThere
  <2> QED
    BY <1>2, <2>1 DEF LastDeclaration
<1>3. CASE V = {}
  <2>1. Max(DeclarationsOf(g, n)) \in DeclarationsOf(g, n)
    BY <1>1, MaxIsThere
  <2> QED
    BY <1>3, <2>1 DEF LastDeclaration
<1> QED
  BY <1>2, <1>3


LEMMA UsesAreDeclarations ==
  ASSUME NEW g, NEW n
  PROVE  /\ Defines(g, n) => FileScopeUses(g, n) # {}
         /\ DeclaresOnly(g, n) => FileScopeUses(g, n) # {}
         /\ IsInternal(g, n) => FileScopeUses(g, n) # {}
         /\ FileScopeUses(g, n) \subseteq DeclarationsOf(g, n)
BY DEF Defines, DeclaresOnly, IsInternal, ExternalUses, FileScopeUses

LEMMA ManyDefinitionsAreTold ==
  ASSUME NEW Nodes, NEW g \in Seq(Nodes), NEW L, NEW n \in LinkageNames(L), IsName(n),
         HasMultipleDefinitions(L, n), Defines(g, n)
  PROVE  Tells(g, Rule5_8(g, L), n) /\ Tells(g, Rule8_6(g, L), n)
<1> DEFINE F == {i \in NodesByKind(g, "FunctionDecl") : IsFileScope(g, i) /\ Name(g, i) = n}
<1>1. Tells(g, Rule5_8(g, L), n)
  <2>1. DeclarationsOf(g, n) # {}
    BY UsesAreDeclarations
  <2>2. FirstNode(DeclarationsOf(g, n)) \subseteq Rule5_8(g, L)
    BY DEF Rule5_8
  <2> QED
    BY <2>1, <2>2, FirstDeclarationTells
<1>2. PICK i \in ExternalUses(g, n) : FunctionHasBody(g, i)
  BY DEF Defines
<1>3. F # {} /\ F \subseteq DeclarationsOf(g, n)
  <2>1. i \in F
    BY <1>2 DEF ExternalUses, FileScopeUses, DeclarationsOf, FunctionHasBody, NodesOfKinds,
                NodesByKind, Kind
  <2> QED
    BY <2>1 DEF DeclarationsOf, NodesByKind, NodesOfKinds, LinkageKinds
<1>4. FirstNode(F) \subseteq Rule8_6(g, L)
  BY <1>3 DEF Rule8_6
<1>5. Tells(g, Rule8_6(g, L), n)
  BY <1>3, <1>4, FirstDeclarationTells
<1> QED
  BY <1>1, <1>5

LEMMA InternalUseIsTold ==
  ASSUME NEW Nodes, NEW g \in Seq(Nodes), NEW tu, NEW L, NEW n \in LinkageNames(L), IsName(n),
         Cardinality(InternalLinkageUnits(L, n)) > 1, tu \in InternalLinkageUnits(L, n),
         IsInternal(g, n)
  PROVE  Tells(g, Rule5_9(g, tu, L), n)
<1> DEFINE D == {i \in DeclarationsOf(g, n) : Prop(g, i, "storage_class") = "static"}
<1>1. D # {}
  BY UsesAreDeclarations DEF IsInternal
<1>2. FirstNode(D) \subseteq Rule5_9(g, tu, L)
  BY DEF Rule5_9
<1> QED
  BY <1>1, <1>2, FirstDeclarationTells

LEMMA DeclarationIsTold ==
  ASSUME NEW Nodes, NEW g \in Seq(Nodes), NEW tu, NEW L, NEW n \in LinkageNames(L), IsName(n),
         Cardinality(NonDefiningExternalUnits(L, n)) > 1, tu \in NonDefiningExternalUnits(L, n),
         DeclaresOnly(g, n)
  PROVE  Tells(g, Rule8_5(g, tu, L), n)
<1>1. DeclarationsOf(g, n) # {}
  BY UsesAreDeclarations
<1>2. FirstNode(DeclarationsOf(g, n)) \subseteq Rule8_5(g, tu, L)
  BY DEF Rule8_5
<1> QED
  BY <1>1, <1>2, FirstDeclarationTells

LEMMA DifferentTypesAreTold ==
  ASSUME NEW Nodes, NEW g \in Seq(Nodes), NEW L, NEW n \in LinkageNames(L), IsName(n),
         HasIncompatibleTypes(L, n), DeclarationsOf(g, n) # {}
  PROVE  Tells(g, Rule8_4(g, L), n)
<1>1. LastDeclaration(g, n) \in DeclarationsOf(g, n)
  BY LastDeclarationIsThere
<1>2. Name(g, LastDeclaration(g, n)) = n
  BY <1>1 DEF DeclarationsOf
<1>3. n \in {Name(g, i) : i \in NodesOfKinds(g, LinkageKinds)} \ {""}
  BY <1>1 DEF DeclarationsOf, IsName
<1>4. LastDeclaration(g, n) \in Rule8_4(g, L)
  BY <1>3 DEF Rule8_4
<1> QED
  BY <1>2, <1>4, NamedNodesTell

(* Units that disagree about a name all hear of it, whatever else the run  *)
(* holds: two definitions are reported in either unit under 5.8 and 8.6,   *)
(* two internal names under 5.9, two declarations without a definition     *)
(* under 8.5 and two spellings of the type under 8.4.  The index is built  *)
(* over all the units (LinkageIndex.build) before the rules judge the      *)
(* first, so the order of the units does not decide who is told.           *)
THEOREM EveryPartyHears ==
  ASSUME NEW Ids, NEW Nodes, NEW units \in Seq(UnitsOf(Ids, Nodes)),
         NEW L, L.symbols = Occurrences(units),
         NEW a \in DOMAIN units, NEW b \in DOMAIN units, units[a].tu # units[b].tu,
         NEW n, IsName(n)
  PROVE  LET g == units[a].g
             tu == units[a].tu
             Both(Uses(_, _)) == Uses(g, n) /\ Uses(units[b].g, n)
         IN  /\ Both(Defines) => Tells(g, Rule5_8(g, L), n) /\ Tells(g, Rule8_6(g, L), n)
             /\ Both(IsInternal) => Tells(g, Rule5_9(g, tu, L), n)
             /\ Both(DeclaresOnly) => Tells(g, Rule8_5(g, tu, L), n)
             /\ (/\ DeclarationsOf(g, n) # {}
                 /\ \E s, t \in Spellings(g, n) \cup Spellings(units[b].g, n) : s # t)
                  => Tells(g, Rule8_4(g, L), n)
<1> DEFINE g == units[a].g
           tu == units[a].tu
<1>1. g \in Seq(Nodes)
  BY UnitsHaveGraphs
<1>2. ASSUME Defines(g, n), Defines(units[b].g, n)
      PROVE  Tells(g, Rule5_8(g, L), n) /\ Tells(g, Rule8_6(g, L), n)
  <2>1. n \in LinkageNames(L)
    BY <1>2, NamesOfTheIndex, UsesAreDeclarations
  <2>2. HasMultipleDefinitions(L, n)
    BY <1>2, DefinersAreSeveral
  <2> QED
    BY <1>1, <1>2, <2>1, <2>2, ManyDefinitionsAreTold
<1>3. ASSUME IsInternal(g, n), IsInternal(units[b].g, n)
      PROVE  Tells(g, Rule5_9(g, tu, L), n)
  <2>1. n \in LinkageNames(L)
    BY <1>3, NamesOfTheIndex, UsesAreDeclarations
  <2>2. Cardinality(InternalLinkageUnits(L, n)) > 1
    BY <1>3, InternalUsersAreSeveral
  <2>3. tu \in InternalLinkageUnits(L, n)
    BY <1>3, InternalUnits DEF UnitsThat
  <2> QED
    BY <1>1, <1>3, <2>1, <2>2, <2>3, InternalUseIsTold
<1>4. ASSUME DeclaresOnly(g, n), DeclaresOnly(units[b].g, n)
      PROVE  Tells(g, Rule8_5(g, tu, L), n)
  <2>1. n \in LinkageNames(L)
    BY <1>4, NamesOfTheIndex, UsesAreDeclarations
  <2>2. Cardinality(NonDefiningExternalUnits(L, n)) > 1
    BY <1>4, DeclarersAreSeveral
  <2>3. tu \in NonDefiningExternalUnits(L, n)
    BY <1>4, DeclaringUnits DEF UnitsThat
  <2> QED
    BY <1>1, <1>4, <2>1, <2>2, <2>3, DeclarationIsTold
<1>5. ASSUME DeclarationsOf(g, n) # {},
             NEW s \in Spellings(g, n) \cup Spellings(units[b].g, n),
             NEW t \in Spellings(g, n) \cup Spellings(units[b].g, n), s # t
      PROVE  Tells(g, Rule8_4(g, L), n)
  <2>1. FileScopeUses(g, n) # {} \/ FileScopeUses(units[b].g, n) # {}
    BY DEF Spellings, ExternalUses
  <2>2. n \in LinkageNames(L)
    BY <2>1, NamesOfTheIndex
  <2>3. s \in AllSpellings(units, n) /\ t \in AllSpellings(units, n)
    BY DEF AllSpellings
  <2>4. TwoSpellings(units, n)
    BY <1>5, <2>3 DEF TwoSpellings
  <2>5. HasIncompatibleTypes(L, n)
    BY <2>4, MoreThanOneSpelling
  <2> QED
    BY <1>1, <1>5, <2>2, <2>5, DifferentTypesAreTold
<1> QED
  BY <1>2, <1>3, <1>4, <1>5


(* What a rule reports, it reports for a name.                             *)
LEMMA OneNameAtATime ==
  ASSUME NEW Nodes, NEW g \in Seq(Nodes), NEW n, NEW D \in SUBSET DeclarationsOf(g, n)
  PROVE  \A i \in FirstNode(D) : Name(g, i) = n /\ i \in D
<1>1. FirstNode(D) \subseteq D
  <2>1. D \in SUBSET Nat
    BY NodesAreNumbers
  <2> QED
    BY <2>1, FirstNodeIsOne
<1> QED
  BY <1>1 DEF DeclarationsOf

LEMMA ReportsOfDefinitions ==
  ASSUME NEW Nodes, NEW g \in Seq(Nodes), NEW L, NEW i \in Rule5_8(g, L) \cup Rule8_6(g, L)
  PROVE  Name(g, i) \in LinkageNames(L) /\ HasMultipleDefinitions(L, Name(g, i))
<1> DEFINE Many == {n \in LinkageNames(L) : HasMultipleDefinitions(L, n)}
           F(n) == {j \in NodesByKind(g, "FunctionDecl") : IsFileScope(g, j) /\ Name(g, j) = n}
           V(n) == {j \in NodesByKind(g, "VarDecl") : IsFileScope(g, j) /\ Name(g, j) = n}
<1>1. CASE i \in Rule5_8(g, L)
  <2>1. PICK n \in Many : i \in FirstNode(DeclarationsOf(g, n))
    BY <1>1 DEF Rule5_8
  <2>2. Name(g, i) = n
    BY <2>1, OneNameAtATime
  <2> QED
    BY <2>1, <2>2
<1>2. CASE i \in Rule8_6(g, L)
  <2>1. PICK n \in Many : i \in FirstNode(F(n)) \/ i \in FirstNode(V(n))
    BY <1>2 DEF Rule8_6
  <2>2. F(n) \in SUBSET DeclarationsOf(g, n)
    BY DEF DeclarationsOf, NodesByKind, NodesOfKinds, LinkageKinds
  <2>3. V(n) \in SUBSET DeclarationsOf(g, n)
    BY DEF DeclarationsOf, NodesByKind, NodesOfKinds, LinkageKinds
  <2> HIDE DEF F, V
  <2>4. Name(g, i) = n
    BY <2>1, <2>2, <2>3, OneNameAtATime
  <2> QED
    BY <2>1, <2>4
<1> QED
  BY <1>1, <1>2

LEMMA ReportsOfInternalNames ==
  ASSUME NEW Nodes, NEW g \in Seq(Nodes), NEW tu, NEW L, NEW i \in Rule5_9(g, tu, L)
  PROVE  /\ Name(g, i) \in LinkageNames(L)
         /\ Cardinality(InternalLinkageUnits(L, Name(g, i))) > 1
         /\ tu \in InternalLinkageUnits(L, Name(g, i))
<1> DEFINE Shared == {n \in LinkageNames(L) : /\ Cardinality(InternalLinkageUnits(L, n)) > 1
                                              /\ tu \in InternalLinkageUnits(L, n)}
<1>1. PICK n \in Shared :
        i \in FirstNode({j \in DeclarationsOf(g, n) : Prop(g, j, "storage_class") = "static"})
  BY DEF Rule5_9
<1>2. Name(g, i) = n
  BY <1>1, OneNameAtATime
<1> QED
  BY <1>1, <1>2

LEMMA ReportsOfDeclarations ==
  ASSUME NEW Nodes, NEW g \in Seq(Nodes), NEW tu, NEW L, NEW i \in Rule8_5(g, tu, L)
  PROVE  /\ Name(g, i) \in LinkageNames(L)
         /\ Cardinality(NonDefiningExternalUnits(L, Name(g, i))) > 1
         /\ tu \in NonDefiningExternalUnits(L, Name(g, i))
<1> DEFINE Shared == {n \in LinkageNames(L) : /\ Cardinality(NonDefiningExternalUnits(L, n)) > 1
                                              /\ tu \in NonDefiningExternalUnits(L, n)}
<1>1. PICK n \in Shared : i \in FirstNode(DeclarationsOf(g, n))
  BY DEF Rule8_5
<1>2. Name(g, i) = n
  BY <1>1, OneNameAtATime
<1> QED
  BY <1>1, <1>2

(* Rule 8.4 has two reasons to report a declaration.                       *)
Unannounced(g, n) ==
  LET last == LastDeclaration(g, n)
  IN  /\ IsFileScope(g, last) /\ Prop(g, last, "storage_class") # "static"
      /\ DeclarationsOf(g, n) = {last} /\ HasBody(g, last)

LEMMA OneDeclaration ==
  ASSUME NEW Nodes, NEW g \in Seq(Nodes), NEW n, Cardinality(DeclarationsOf(g, n)) = 1
  PROVE  DeclarationsOf(g, n) = {LastDeclaration(g, n)}
<1> DEFINE D == DeclarationsOf(g, n)
<1>1. IsFiniteSet(D)
  <2>1. IsFiniteSet(1 .. Len(g))
    BY FS_Interval
  <2> QED
    BY <2>1, FS_Subset, NodesAreNumbers
<1>2. D # {}
  BY <1>1, FS_EmptySet
<1>3. \A x, y \in D : x = y
  BY <1>1, MoreThanOne
<1>4. LastDeclaration(g, n) \in D
  BY <1>2, LastDeclarationIsThere
<1> QED
  BY <1>3, <1>4

LEMMA ReportsOfTypes ==
  ASSUME NEW Nodes, NEW g \in Seq(Nodes), NEW L, NEW i \in Rule8_4(g, L)
  PROVE  /\ IsName(Name(g, i)) /\ i = LastDeclaration(g, Name(g, i))
         /\ \/ Unannounced(g, Name(g, i))
            \/ Name(g, i) \in LinkageNames(L) /\ HasIncompatibleTypes(L, Name(g, i))
<1>1. PICK n \in {Name(g, j) : j \in NodesOfKinds(g, LinkageKinds)} \ {""} :
        /\ i = LastDeclaration(g, n)
        /\ \/ /\ IsFileScope(g, i) /\ StorageClass(g, i, "external") # "static"
              /\ Cardinality(DeclarationsOf(g, n)) = 1
              /\ ChildrenOfKind(g, i, {"CompoundStmt"}) # <<>>
           \/ n \in LinkageNames(L) /\ HasIncompatibleTypes(L, n)
  BY DEF Rule8_4
<1>2. DeclarationsOf(g, n) # {}
  BY <1>1 DEF DeclarationsOf
<1>3. Name(g, i) = n
  BY <1>1, <1>2, LastDeclarationIsThere DEF DeclarationsOf
<1>4. IsName(n)
  BY <1>1 DEF IsName
<1>5. ASSUME IsFileScope(g, i), StorageClass(g, i, "external") # "static",
             Cardinality(DeclarationsOf(g, n)) = 1, ChildrenOfKind(g, i, {"CompoundStmt"}) # <<>>
      PROVE  Unannounced(g, n)
  <2>1. DeclarationsOf(g, n) = {i}
    BY <1>1, <1>5, OneDeclaration
  <2>2. Prop(g, i, "storage_class") # "static"
    BY <1>5 DEF StorageClass, Flag
  <2> QED
    BY <1>1, <1>5, <2>1, <2>2 DEF Unannounced, HasBody
<1> QED
  BY <1>1, <1>3, <1>4, <1>5


(* Nobody else hears of a name: a report of 5.8 or 8.6 means that two      *)
(* units define it, a report of 5.9 or 8.5 that this unit and another one  *)
(* each have an internal or a body-less declaration of it, and a report of *)
(* 8.4 that it is the unit's only declaration and has a body, or that two  *)
(* spellings of the type are about.  8.7, the other way round, is reported *)
(* only when no other unit has the name in its file scope.  The index      *)
(* counts the units of the occurrences and not the occurrences, so what a  *)
(* header repeats within one unit is no disagreement.                      *)
THEOREM OnlyPartiesHear ==
  ASSUME NEW Ids, NEW Nodes, NEW units \in Seq(UnitsOf(Ids, Nodes)),
         \A j, k \in DOMAIN units : units[j].tu = units[k].tu => j = k,
         NEW L, L.symbols = Occurrences(units), NEW a \in DOMAIN units
  PROVE  LET g == units[a].g
             tu == units[a].tu
             others == DOMAIN units \ {a}
         IN  /\ \A i \in Rule5_8(g, L) \cup Rule8_6(g, L) :
                  \E j, k \in DOMAIN units : /\ j # k /\ Defines(units[j].g, Name(g, i))
                                             /\ Defines(units[k].g, Name(g, i))
             /\ \A i \in Rule5_9(g, tu, L) :
                  IsInternal(g, Name(g, i)) /\ \E k \in others : IsInternal(units[k].g, Name(g, i))
             /\ \A i \in Rule8_5(g, tu, L) :
                  DeclaresOnly(g, Name(g, i)) /\ \E k \in others : DeclaresOnly(units[k].g, Name(g, i))
             /\ \A i \in Rule8_4(g, L) :
                  Unannounced(g, Name(g, i)) \/ TwoSpellings(units, Name(g, i))
             /\ \A i \in Rule8_7(g, tu, L) :
                  \A k \in others : FileScopeUses(units[k].g, Name(g, i)) = {}
<1> DEFINE g == units[a].g
           tu == units[a].tu
           others == DOMAIN units \ {a}
<1>1. g \in Seq(Nodes)
  BY UnitsHaveGraphs
<1>2. ASSUME NEW n \in LinkageNames(L)
      PROVE  IsName(n)
  BY NamesOfTheIndex
<1>3. ASSUME NEW i \in Rule5_8(g, L) \cup Rule8_6(g, L)
      PROVE  \E j, k \in DOMAIN units : /\ j # k /\ Defines(units[j].g, Name(g, i))
                                        /\ Defines(units[k].g, Name(g, i))
  <2>1. Name(g, i) \in LinkageNames(L) /\ HasMultipleDefinitions(L, Name(g, i))
    BY <1>1, ReportsOfDefinitions
  <2> QED
    BY <1>2, <2>1, DefinersAreSeveral
<1>4. ASSUME NEW i \in Rule5_9(g, tu, L)
      PROVE  IsInternal(g, Name(g, i)) /\ \E k \in others : IsInternal(units[k].g, Name(g, i))
  <2> DEFINE n == Name(g, i)
  <2>1. /\ IsName(n) /\ Cardinality(InternalLinkageUnits(L, n)) > 1
        /\ tu \in InternalLinkageUnits(L, n)
    BY <1>1, <1>2, ReportsOfInternalNames
  <2>2. PICK j \in DOMAIN units : IsInternal(units[j].g, n) /\ units[j].tu = tu
    BY <2>1, InternalUnits DEF UnitsThat
  <2>3. \E k, l \in DOMAIN units : /\ IsInternal(units[k].g, n) /\ IsInternal(units[l].g, n)
                                   /\ units[k].tu # units[l].tu
    BY <2>1, InternalUsersAreSeveral
  <2> QED
    BY <2>2, <2>3
<1>5. ASSUME NEW i \in Rule8_5(g, tu, L)
      PROVE  DeclaresOnly(g, Name(g, i)) /\ \E k \in others : DeclaresOnly(units[k].g, Name(g, i))
  <2> DEFINE n == Name(g, i)
  <2>1. /\ IsName(n) /\ Cardinality(NonDefiningExternalUnits(L, n)) > 1
        /\ tu \in NonDefiningExternalUnits(L, n)
    BY <1>1, <1>2, ReportsOfDeclarations
  <2>2. PICK j \in DOMAIN units : DeclaresOnly(units[j].g, n) /\ units[j].tu = tu
    BY <2>1, DeclaringUnits DEF UnitsThat
  <2>3. \E k, l \in DOMAIN units : /\ DeclaresOnly(units[k].g, n) /\ DeclaresOnly(units[l].g, n)
                                   /\ units[k].tu # units[l].tu
    BY <2>1, DeclarersAreSeveral
  <2> QED
    BY <2>2, <2>3
<1>6. ASSUME NEW i \in Rule8_4(g, L), ~Unannounced(g, Name(g, i))
      PROVE  TwoSpellings(units, Name(g, i))
  <2>1. IsName(Name(g, i)) /\ HasIncompatibleTypes(L, Name(g, i))
    BY <1>1, <1>2, <1>6, ReportsOfTypes
  <2> QED
    BY <2>1, MoreThanOneSpelling
<1>7. ASSUME NEW i \in Rule8_7(g, tu, L), NEW k \in others
      PROVE  FileScopeUses(units[k].g, Name(g, i)) = {}
  <2> DEFINE n == Name(g, i)
  <2>1. IsName(n) /\ OccurrenceUnits(L, n) = {tu}
    BY DEF Rule8_7, IsName, SingleTranslationUnit
  <2>2. units[k].tu # tu
    OBVIOUS
  <2>3. units[k].tu \notin UnitsThat(units, {j \in DOMAIN units : FileScopeUses(units[j].g, n) # {}})
    BY <2>1, <2>2, UsingUnits
  <2> QED
    BY <2>3 DEF UnitsThat
<1> QED
  BY <1>3, <1>4, <1>5, <1>6, <1>7


-------------------------------------------------------------------------------
(* A run over part of the units                                            *)

PartOf(part, units) == \A j \in DOMAIN part : \E k \in DOMAIN units : part[j] = units[k]

LEMMA PartsHaveTheirOccurrences ==
  ASSUME NEW part, NEW units, PartOf(part, units)
  PROVE  Occurrences(part) \subseteq Occurrences(units)
<1>1. ASSUME NEW o \in Occurrences(part)
      PROVE  o \in Occurrences(units)
  <2>1. IsName(o.name)
    BY OccurrencesAreUses
  <2>2. PICK j \in DOMAIN part : \E i \in FileScopeUses(part[j].g, o.name) : o = Occurrence(part[j], i)
    BY OccurrencesAreUses
  <2>3. PICK k \in DOMAIN units : part[j] = units[k]
    BY DEF PartOf
  <2>4. PICK i \in FileScopeUses(units[k].g, o.name) : o = Occurrence(units[k], i)
    BY <2>2, <2>3
  <2> QED
    BY <2>1, <2>4, UsesAreOccurrences
<1> QED
  BY <1>1

(* What the index of the part holds against a name, that of the whole does.*)
LEMMA PartsKnowLess ==
  ASSUME NEW Ids, NEW Nodes, NEW units \in Seq(UnitsOf(Ids, Nodes)),
         NEW part \in Seq(UnitsOf(Ids, Nodes)), PartOf(part, units),
         NEW Lp, Lp.symbols = Occurrences(part), NEW L, L.symbols = Occurrences(units),
         NEW n \in LinkageNames(Lp)
  PROVE  /\ n \in LinkageNames(L)
         /\ HasMultipleDefinitions(Lp, n) => HasMultipleDefinitions(L, n)
         /\ HasIncompatibleTypes(Lp, n) => HasIncompatibleTypes(L, n)
         /\ Cardinality(InternalLinkageUnits(Lp, n)) > 1 => Cardinality(InternalLinkageUnits(L, n)) > 1
         /\ Cardinality(NonDefiningExternalUnits(Lp, n)) > 1
              => Cardinality(NonDefiningExternalUnits(L, n)) > 1
         /\ InternalLinkageUnits(Lp, n) \subseteq InternalLinkageUnits(L, n)
         /\ NonDefiningExternalUnits(Lp, n) \subseteq NonDefiningExternalUnits(L, n)
         /\ OccurrenceUnits(Lp, n) \subseteq OccurrenceUnits(L, n)
<1>1. IsName(n)
  BY NamesOfTheIndex
<1>2. Lp.symbols \subseteq L.symbols
  BY PartsHaveTheirOccurrences
<1>3. \A j \in DOMAIN part : \E k \in DOMAIN units : part[j] = units[k]
  BY DEF PartOf
<1>4. n \in LinkageNames(L)
  BY <1>2 DEF LinkageNames
<1>5. HasMultipleDefinitions(Lp, n) => HasMultipleDefinitions(L, n)
  <2>1. ASSUME NEW i \in DOMAIN part, NEW j \in DOMAIN part, Defines(part[i].g, n), Defines(part[j].g, n),
               part[i].tu # part[j].tu
        PROVE  \E k, l \in DOMAIN units : /\ Defines(units[k].g, n) /\ Defines(units[l].g, n)
                                          /\ units[k].tu # units[l].tu
    BY <1>3, <2>1
  <2> QED
    BY <1>1, <2>1, DefinersAreSeveral
<1>6. HasIncompatibleTypes(Lp, n) => HasIncompatibleTypes(L, n)
  <2>1. AllSpellings(part, n) \subseteq AllSpellings(units, n)
    BY <1>3 DEF AllSpellings
  <2>2. TwoSpellings(part, n) => TwoSpellings(units, n)
    BY <2>1 DEF TwoSpellings
  <2>3. HasIncompatibleTypes(Lp, n) <=> TwoSpellings(part, n)
    BY <1>1, MoreThanOneSpelling
  <2>4. HasIncompatibleTypes(L, n) <=> TwoSpellings(units, n)
    BY <1>1, MoreThanOneSpelling
  <2> QED
    BY <2>2, <2>3, <2>4
<1>7. Cardinality(InternalLinkageUnits(Lp, n)) > 1 => Cardinality(InternalLinkageUnits(L, n)) > 1
  <2>1. ASSUME NEW i \in DOMAIN part, NEW j \in DOMAIN part, IsInternal(part[i].g, n),
               IsInternal(part[j].g, n), part[i].tu # part[j].tu
        PROVE  \E k, l \in DOMAIN units : /\ IsInternal(units[k].g, n) /\ IsInternal(units[l].g, n)
                                          /\ units[k].tu # units[l].tu
    BY <1>3, <2>1
  <2> QED
    BY <1>1, <2>1, InternalUsersAreSeveral
<1>8. Cardinality(NonDefiningExternalUnits(Lp, n)) > 1
        => Cardinality(NonDefiningExternalUnits(L, n)) > 1
  <2>1. ASSUME NEW i \in DOMAIN part, NEW j \in DOMAIN part, DeclaresOnly(part[i].g, n),
               DeclaresOnly(part[j].g, n), part[i].tu # part[j].tu
        PROVE  \E k, l \in DOMAIN units : /\ DeclaresOnly(units[k].g, n) /\ DeclaresOnly(units[l].g, n)
                                          /\ units[k].tu # units[l].tu
    BY <1>3, <2>1
  <2> QED
    BY <1>1, <2>1, DeclarersAreSeveral
<1>9. InternalLinkageUnits(Lp, n) \subseteq InternalLinkageUnits(L, n)
  BY <1>2 DEF InternalLinkageUnits
<1>10. NonDefiningExternalUnits(Lp, n) \subseteq NonDefiningExternalUnits(L, n)
  BY <1>2 DEF NonDefiningExternalUnits, ExternalOccurrences
<1>11. OccurrenceUnits(Lp, n) \subseteq OccurrenceUnits(L, n)
  BY <1>2 DEF OccurrenceUnits
<1> QED
  BY <1>4, <1>5, <1>6, <1>7, <1>8, <1>9, <1>10, <1>11

LEMMA FewerNamesFewerPairs ==
  ASSUME NEW M, NEW N, M \subseteq N
  PROVE  DuplicateNamesWithin(M) \subseteq DuplicateNamesWithin(N)
BY DEF DuplicateNamesWithin

(* An incremental run, or any run over part of a project's units, builds   *)
(* its index from that part alone.  It reports nothing under 5.1, 5.8,     *)
(* 5.9, 8.4, 8.5 and 8.6 that a run over all the units would not report on *)
(* the same node of the same unit: what it costs to leave units out is     *)
(* silence, never a false report.  8.7 (a name that no other unit has) is  *)
(* the exception and goes the other way: the part may report what the      *)
(* whole would not, and misses nothing.                                    *)
THEOREM PartsInventNothing ==
  ASSUME NEW Ids, NEW Nodes, NEW units \in Seq(UnitsOf(Ids, Nodes)),
         NEW part \in Seq(UnitsOf(Ids, Nodes)), PartOf(part, units),
         NEW Lp, Lp.symbols = Occurrences(part), NEW L, L.symbols = Occurrences(units),
         NEW a \in DOMAIN part
  PROVE  LET g == part[a].g
             tu == part[a].tu
         IN  /\ Rule5_1(g, Lp) \subseteq Rule5_1(g, L)
             /\ Rule5_8(g, Lp) \subseteq Rule5_8(g, L)
             /\ Rule5_9(g, tu, Lp) \subseteq Rule5_9(g, tu, L)
             /\ Rule8_4(g, Lp) \subseteq Rule8_4(g, L)
             /\ Rule8_5(g, tu, Lp) \subseteq Rule8_5(g, tu, L)
             /\ Rule8_6(g, Lp) \subseteq Rule8_6(g, L)
             /\ Rule8_7(g, tu, L) \subseteq Rule8_7(g, tu, Lp)
<1> DEFINE g == part[a].g
           tu == part[a].tu
<1>1. \A n \in LinkageNames(Lp) : n \in LinkageNames(L)
  BY PartsKnowLess
<1>2. \A n \in LinkageNames(Lp) : HasMultipleDefinitions(Lp, n) => HasMultipleDefinitions(L, n)
  BY PartsKnowLess
<1>3. Rule5_1(g, Lp) \subseteq Rule5_1(g, L)
  <2>1. DuplicateNamesWithin(LinkageNames(Lp)) \subseteq DuplicateNamesWithin(LinkageNames(L))
    BY <1>1, FewerNamesFewerPairs
  <2> QED
    BY <2>1 DEF Rule5_1
<1>4. Rule5_8(g, Lp) \subseteq Rule5_8(g, L)
  BY <1>1, <1>2 DEF Rule5_8
<1>5. Rule8_6(g, Lp) \subseteq Rule8_6(g, L)
  BY <1>1, <1>2 DEF Rule8_6
<1>6. Rule5_9(g, tu, Lp) \subseteq Rule5_9(g, tu, L)
  <2>1. ASSUME NEW n \in LinkageNames(Lp), Cardinality(InternalLinkageUnits(Lp, n)) > 1,
               tu \in InternalLinkageUnits(Lp, n)
        PROVE  /\ n \in LinkageNames(L) /\ Cardinality(InternalLinkageUnits(L, n)) > 1
               /\ tu \in InternalLinkageUnits(L, n)
    BY <2>1, PartsKnowLess
  <2> QED
    BY <2>1 DEF Rule5_9
<1>7. Rule8_5(g, tu, Lp) \subseteq Rule8_5(g, tu, L)
  <2>1. ASSUME NEW n \in LinkageNames(Lp), Cardinality(NonDefiningExternalUnits(Lp, n)) > 1,
               tu \in NonDefiningExternalUnits(Lp, n)
        PROVE  /\ n \in LinkageNames(L) /\ Cardinality(NonDefiningExternalUnits(L, n)) > 1
               /\ tu \in NonDefiningExternalUnits(L, n)
    BY <2>1, PartsKnowLess
  <2> QED
    BY <2>1 DEF Rule8_5
<1>8. Rule8_4(g, Lp) \subseteq Rule8_4(g, L)
  <2>1. \A n \in LinkageNames(Lp) : HasIncompatibleTypes(Lp, n) => HasIncompatibleTypes(L, n)
    BY PartsKnowLess
  <2> QED
    BY <1>1, <2>1 DEF Rule8_4
<1>9. Rule8_7(g, tu, L) \subseteq Rule8_7(g, tu, Lp)
  <2>1. ASSUME NEW i \in Rule8_7(g, tu, L)
        PROVE  OccurrenceUnits(Lp, Name(g, i)) = {tu}
    <3> DEFINE n == Name(g, i)
    <3>1. IsName(n) /\ OccurrenceUnits(L, n) = {tu}
      BY DEF Rule8_7, IsName, SingleTranslationUnit
    <3>2. i \in FileScopeUses(g, n)
      BY DEF Rule8_7, FileScopeUses, DeclarationsOf
    <3>3. tu \in OccurrenceUnits(Lp, n)
      <4>1. OccurrenceUnits(Lp, n) =
              UnitsThat(part, {k \in DOMAIN part : FileScopeUses(part[k].g, n) # {}})
        BY <3>1, UsingUnits
      <4>2. a \in {k \in DOMAIN part : FileScopeUses(part[k].g, n) # {}}
        BY <3>2
      <4> QED
        BY <4>1, <4>2 DEF UnitsThat
    <3>4. n \in LinkageNames(Lp)
      BY <3>1, <3>2, NamesOfTheIndex
    <3>5. OccurrenceUnits(Lp, n) \subseteq OccurrenceUnits(L, n)
      BY <3>4, PartsKnowLess
    <3> QED
      BY <3>1, <3>3, <3>5
  <2> QED
    BY <2>1 DEF Rule8_7, SingleTranslationUnit
<1> QED
  BY <1>3, <1>4, <1>5, <1>6, <1>7, <1>8, <1>9
===============================================================================
