---------------------------- MODULE DemandProofs ----------------------------
(***************************************************************************)
(* The load of a set of bindings behaves like a sum: it is a natural       *)
(* number, grows with the set, and a new binding adds what it requests.    *)
(***************************************************************************)
EXTENDS Demand, FiniteSetTheorems, TLAPS

\* A single binding has Req[k] units.
LEMMA UnitsOfOne ==
    ASSUME NEW k \in Keys
    PROVE  /\ IsFiniteSet({k} \X (1..Req[k]))
           /\ Cardinality({k} \X (1..Req[k])) = Req[k]
<1>1. Req[k] \in Nat
  BY DemandAssumption
<1>2. IsFiniteSet(1..Req[k]) /\ Cardinality(1..Req[k]) = Req[k]
  <2>1. 1 \in Int /\ Req[k] \in Int
    BY <1>1
  <2>2. /\ IsFiniteSet(1..Req[k])
        /\ Cardinality(1..Req[k]) = IF 1 > Req[k] THEN 0 ELSE Req[k] - 1 + 1
    BY <2>1, FS_Interval
  <2> QED
    BY <1>1, <2>2
<1>3. IsFiniteSet({k}) /\ Cardinality({k}) = 1
  BY FS_Singleton
<1>4. /\ IsFiniteSet({k} \X (1..Req[k]))
      /\ Cardinality({k} \X (1..Req[k])) = Cardinality({k}) * Cardinality(1..Req[k])
  BY <1>2, <1>3, FS_Product
<1> QED
  BY <1>1, <1>2, <1>3, <1>4

\* A set of bindings has finitely many units.
LEMMA UnitsFinite ==
    ASSUME NEW S \in SUBSET Keys
    PROVE  IsFiniteSet(Units(S))
<1> DEFINE of == [k \in S |-> {k} \X (1..Req[k])]
           T == {{k} \X (1..Req[k]) : k \in S}
<1>1. IsFiniteSet(S)
  BY DemandAssumption, FS_Subset
<1>2. of \in Surjection(S, T)
  BY DEF Surjection
<1>3. IsFiniteSet(T)
  BY <1>1, <1>2, FS_Surjection
<1>4. \A U \in T : IsFiniteSet(U)
  BY UnitsOfOne
<1>5. IsFiniteSet(UNION T)
  BY <1>3, <1>4, FS_UNION
<1> QED
  BY <1>5 DEF Units

LEMMA LoadType ==
    ASSUME NEW S \in SUBSET Keys
    PROVE  Load(S) \in Nat
BY UnitsFinite, FS_CardinalityType DEF Load

\* Fewer bindings do not ask for more.
LEMMA LoadMonotone ==
    ASSUME NEW T \in SUBSET Keys, NEW S \in SUBSET T
    PROVE  Load(S) <= Load(T)
<1>1. Units(S) \in SUBSET Units(T)
  BY DEF Units
<1>2. IsFiniteSet(Units(T))
  BY UnitsFinite
<1> QED
  BY <1>1, <1>2, FS_Subset DEF Load

\* A binding that joins a set adds its request to the load.
LEMMA LoadAdd ==
    ASSUME NEW S \in SUBSET Keys, NEW k \in Keys, k \notin S
    PROVE  Load(S \cup {k}) = Load(S) + Req[k]
<1> DEFINE own == {k} \X (1..Req[k])
<1>1. Units(S \cup {k}) = Units(S) \cup own
  BY DEF Units
<1>2. Units(S) \cap own = {}
  BY DEF Units
<1>3. IsFiniteSet(Units(S)) /\ IsFiniteSet(own) /\ Cardinality(own) = Req[k]
  BY UnitsFinite, UnitsOfOne
<1>4. Cardinality(Units(S) \cup own)
        = Cardinality(Units(S)) + Cardinality(own) - Cardinality(Units(S) \cap own)
  BY <1>3, FS_Union
<1>5. Cardinality(Units(S) \cap own) = 0
  BY <1>2, FS_EmptySet
<1>6. Cardinality(Units(S)) \in Nat /\ Req[k] \in Nat
  BY <1>3, FS_CardinalityType, DemandAssumption
<1> HIDE DEF own
<1>7. Load(S \cup {k}) = Cardinality(Units(S) \cup own)
  BY <1>1 DEF Load
<1> QED
  BY <1>3, <1>4, <1>5, <1>6, <1>7 DEF Load
=============================================================================
