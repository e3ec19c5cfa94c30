--------------------------- MODULE ServicesProofs ---------------------------
(***************************************************************************)
(* CollectFaithful for every set of descriptions, answer names, instances *)
(* and vector length: what collect returns is exactly what was answered   *)
(* for a listed service.                                                  *)
(***************************************************************************)
EXTENDS Services, TLAPS

USE ServicesAssumption

\* The names to_services has put in the table so far.
BuiltNames == {ToName(descs[j]) : j \in 1..built}

\* The inductive invariant: the table holds an entry for each description
\* added so far, and no other; no answer arrives before the loop is done,
\* so an entry added again by add_service loses nothing; every entry holds
\* exactly the instances answered for its name; and collect returned the
\* union of the entries.
SInv ==
  /\ TypeOK
  /\ map = [n \in DOMAIN map |-> map[n]]
  /\ DOMAIN map = BuiltNames
  /\ built < Len(descs) => answered = {} /\ phase = "query"
  /\ \A n \in DOMAIN map : map[n] = {i \in Inst : <<n, i>> \in answered}
  /\ phase = "collected" => result = UNION {map[n] : n \in DOMAIN map}

-----------------------------------------------------------------------------
(* Lemmas                                                                  *)

\* A services vector is a sequence of at most MaxDesc descriptions.
LEMMA DescSeqFacts ==
  ASSUME NEW ds \in DescSeq
  PROVE  /\ ds \in Seq(Desc)
         /\ Len(ds) \in 0..MaxDesc
         /\ DOMAIN ds = 1..Len(ds)
<1>1. PICK n \in 0..MaxDesc : ds \in [1..n -> Desc]
  BY DEF DescSeq
<1>2. ds \in Seq(Desc) /\ Len(ds) = n
  BY <1>1
<1>3. QED
  BY <1>1, <1>2

\* add_service of a name gives the table that name with no instance, and
\* keeps every other entry.
LEMMA AddServiceFacts ==
  ASSUME NEW m, NEW s
  PROVE  LET m2 == AddService(m, s) IN
         /\ m2 = [n \in DOMAIN m2 |-> m2[n]]
         /\ DOMAIN m2 = DOMAIN m \cup {s}
         /\ m2[s] = {}
         /\ \A n \in DOMAIN m \ {s} : m2[n] = m[n]
BY DEF AddService

-----------------------------------------------------------------------------
(* The invariant is inductive                                              *)

LEMMA InitSInv == Init => SInv
<1> SUFFICES ASSUME Init PROVE SInv
  OBVIOUS
<1>1. Len(descs) \in 0..MaxDesc
  BY DescSeqFacts DEF Init
<1>2. DOMAIN map = {} /\ BuiltNames = {}
  BY DEF Init, BuiltNames
<1>3. QED
  BY <1>1, <1>2 DEF Init, SInv, TypeOK

\* One iteration of to_services: the new entry is empty, and so is the set
\* of answers, since none arrives before the table is returned.
LEMMA ToServicesSInv ==
  ASSUME SInv, ToServices
  PROVE  SInv'
<1> DEFINE nm == ToName(descs[built + 1])
<1>1. Len(descs) \in 0..MaxDesc /\ built \in 0..Len(descs) /\ built < Len(descs)
  BY DescSeqFacts DEF SInv, TypeOK, ToServices
<1>2. answered = {} /\ phase = "query"
  BY <1>1 DEF SInv
<1>3. /\ map' = [n \in DOMAIN map' |-> map'[n]]
      /\ DOMAIN map' = DOMAIN map \cup {nm}
      /\ map'[nm] = {}
      /\ \A n \in DOMAIN map \ {nm} : map'[n] = map[n]
  BY DEF ToServices, AddService
<1>4. BuiltNames' = BuiltNames \cup {nm}
  <2>1. built' = built + 1 /\ descs' = descs
    BY DEF ToServices
  <2>2. 1..built + 1 = (1..built) \cup {built + 1}
    BY <1>1
  <2>3. QED
    BY <2>1, <2>2 DEF BuiltNames
<1>5. \A n \in DOMAIN map' : map'[n] = {i \in Inst : <<n, i>> \in answered'}
  BY <1>2, <1>3 DEF SInv, ToServices
<1>6. TypeOK'
  BY <1>1, <1>3, <1>5 DEF SInv, TypeOK, ToServices
<1>7. QED
  BY <1>1, <1>2, <1>3, <1>4, <1>5, <1>6 DEF SInv, ToServices

\* An answer is added to the entry of its name, or dropped.
LEMMA AddInstanceSInv ==
  ASSUME SInv, NEW name \in Answer, NEW i \in Inst, AddInstance(name, i)
  PROVE  SInv'
<1>1. DOMAIN map' = DOMAIN map /\ map' = [n \in DOMAIN map' |-> map'[n]]
  BY DEF SInv, AddInstance
<1>2. \A n \in DOMAIN map' : map'[n] = {j \in Inst : <<n, j>> \in answered'}
  <2> SUFFICES ASSUME NEW n \in DOMAIN map
               PROVE  map'[n] = {j \in Inst : <<n, j>> \in answered'}
    BY <1>1
  <2>1. CASE n = name
    BY <2>1 DEF SInv, AddInstance
  <2>2. CASE n # name
    BY <2>2 DEF SInv, AddInstance
  <2>3. QED
    BY <2>1, <2>2
<1>3. TypeOK'
  BY <1>1, <1>2 DEF SInv, TypeOK, AddInstance
<1>4. QED
  BY <1>1, <1>2, <1>3 DEF SInv, AddInstance, BuiltNames

\* collect returns the union of the entries.
LEMMA CollectSInv ==
  ASSUME SInv, Collect
  PROVE  SInv'
<1>1. TypeOK'
  BY DEF SInv, TypeOK, Collect
<1>2. QED
  BY <1>1 DEF SInv, Collect, BuiltNames

LEMMA SInvInductive == SInv /\ [Next]_vars => SInv'
<1> SUFFICES ASSUME SInv, [Next]_vars PROVE SInv'
  OBVIOUS
<1>1. CASE ToServices
  BY <1>1, ToServicesSInv
<1>2. CASE \E name \in Answer, i \in Inst : AddInstance(name, i)
  BY <1>2, AddInstanceSInv
<1>3. CASE Collect
  BY <1>3, CollectSInv
<1>4. CASE UNCHANGED vars
  BY <1>4 DEF SInv, TypeOK, vars, BuiltNames
<1>5. QED
  BY <1>1, <1>2, <1>3, <1>4 DEF Next

\* The table is complete once collect has run, and every entry holds what
\* was answered for its name, so collect returns exactly the instances
\* answered for a listed service.
LEMMA SInvCollectFaithful == SInv => CollectFaithful
<1> SUFFICES ASSUME SInv, phase = "collected"
             PROVE  result = {i \in Inst : \E d \in ToSet(descs) :
                                             <<ToName(d), i>> \in answered}
  BY DEF CollectFaithful
<1>1. built = Len(descs) /\ DOMAIN descs = 1..Len(descs)
  BY DescSeqFacts DEF SInv, TypeOK
<1>2. DOMAIN map = {ToName(d) : d \in ToSet(descs)}
  BY <1>1 DEF SInv, BuiltNames, ToSet
<1>3. \A n \in DOMAIN map : map[n] = {i \in Inst : <<n, i>> \in answered}
  BY DEF SInv
<1>4. result = UNION {map[n] : n \in DOMAIN map}
  BY DEF SInv
<1>5. ASSUME NEW x
      PROVE  x \in result <=>
               x \in {i \in Inst : \E d \in ToSet(descs) :
                                     <<ToName(d), i>> \in answered}
  <2>1. x \in result <=> \E n \in DOMAIN map : x \in map[n]
    BY <1>4
  <2>2. x \in result <=> \E n \in DOMAIN map : x \in Inst /\ <<n, x>> \in answered
    BY <1>3, <2>1
  <2>3. QED
    BY <1>2, <2>2
<1>6. QED
  BY <1>5

\* collect returns exactly the instances answered for one of the services
\* the query listed, for every services vector, whatever the order of the
\* answers and however often a description is repeated (to_services,
\* add_instance and collect of service.rs).
THEOREM CollectFaithfulHolds == Spec => []CollectFaithful
<1>1. Init => SInv
  BY InitSInv
<1>2. SInv /\ [Next]_vars => SInv'
  BY SInvInductive
<1>3. SInv => CollectFaithful
  BY SInvCollectFaithful
<1>4. QED
  BY <1>1, <1>2, <1>3, PTL DEF Spec

=============================================================================
