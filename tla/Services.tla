------------------------------ MODULE Services ------------------------------
(***************************************************************************)
(* The table of an mDNS service query, gu-lan/src/service.rs: a            *)
(* ServicesDescription is turned into a Services map by to_services, the   *)
(* answers that arrive are added with add_instance, and collect returns    *)
(* the union of the instances found.                                       *)
(*                                                                         *)
(* A name is the sequence of its DNS labels, so the dotted string          *)
(* "<instance>.<service>.local" of to_string is the concatenation of the   *)
(* instance's labels, the service's labels and "local".  A ServiceInstance *)
(* (host, TXT records, addresses, ports) is a model value: HashSet equality *)
(* of two instances is equality of the values.                            *)
(*                                                                         *)
(* The loop of to_services is one step per iteration; the query's answers *)
(* and collect come after it has returned the table.                       *)
(***************************************************************************)
EXTENDS Naturals, SequencesExt

CONSTANTS
  Desc,       \* the ServiceDescriptions a query may list
  Answer,     \* names the mDNS answers may carry (queried or not)
  Inst,       \* ServiceInstances the network may answer with
  MaxDesc     \* longest services vector of a ServicesDescription

ASSUME ServicesAssumption ==
  /\ \A d \in Desc : DOMAIN d = {"instance", "service"}
  /\ MaxDesc \in Nat \ {0}

\* ServiceDescription::to_string: format!("{}.{}.local", instance, service).
ToName(d) == d.instance \o d.service \o <<"local">>

\* Services::add_service: map.insert(s, HashSet::new()), which replaces an
\* entry already there by an empty one.
AddService(m, s) == [n \in DOMAIN m \cup {s} |-> IF n = s THEN {} ELSE m[n]]

VARIABLES
  descs,     \* the services vector of the query
  built,     \* how many descriptions to_services has added so far
  map,       \* Services.map: queried name -> instances found
  answered,  \* the <<name, instance>> answers received (history)
  result,    \* what collect returned, or {} before
  phase      \* "query" while answers arrive, "collected" after collect

vars == <<descs, built, map, answered, result, phase>>

DescSeq == UNION {[1..n -> Desc] : n \in 0..MaxDesc}

TypeOK ==
  /\ descs \in DescSeq
  /\ built \in 0..Len(descs)
  /\ \A n \in DOMAIN map : map[n] \subseteq Inst
  /\ answered \subseteq Answer \X Inst
  /\ result \subseteq Inst
  /\ phase \in {"query", "collected"}

\* A query starts from Services::new(), an empty table, with the services
\* vector of its ServicesDescription.
Init ==
  /\ descs \in DescSeq
  /\ built = 0
  /\ map = [n \in {} |-> {}]
  /\ answered = {}
  /\ result = {}
  /\ phase = "query"

\* One iteration of the loop of ServicesDescription::to_services: the
\* next description is added with add_service.
ToServices ==
  /\ built < Len(descs)
  /\ map' = AddService(map, ToName(descs[built + 1]))
  /\ built' = built + 1
  /\ UNCHANGED <<descs, answered, result, phase>>

\* Mutant: add_instance creates the entry of a name that was not queried.
AddInstanceUpsert(name, i) ==
  /\ built = Len(descs)
  /\ phase = "query"
  /\ map' = IF name \in DOMAIN map THEN [map EXCEPT ![name] = @ \cup {i}]
            ELSE map @@ (name :> {i})
  /\ answered' = answered \cup {<<name, i>>}
  /\ UNCHANGED <<descs, built, result, phase>>

\* Services::add_instance, once to_services has returned the table: an
\* answer for a name in the map is added to its set; an answer for any
\* other name is dropped (get_mut returns None).
AddInstance(name, i) ==
  /\ built = Len(descs)
  /\ phase = "query"
  /\ map' = IF name \in DOMAIN map THEN [map EXCEPT ![name] = @ \cup {i}]
            ELSE map
  /\ answered' = answered \cup {<<name, i>>}
  /\ UNCHANGED <<descs, built, result, phase>>

\* Services::collect consumes the table and returns the union of its sets.
Collect ==
  /\ built = Len(descs)
  /\ phase = "query"
  /\ result' = UNION {map[n] : n \in DOMAIN map}
  /\ phase' = "collected"
  /\ UNCHANGED <<descs, built, map, answered>>

Next ==
  \/ ToServices
  \/ \E name \in Answer, i \in Inst : AddInstance(name, i)
  \/ Collect

Spec == Init /\ [][Next]_vars

-----------------------------------------------------------------------------
(* Properties                                                              *)

\* The instances a query returns are exactly those answered for one of the
\* services it listed: none is lost, whatever the order of the answers and
\* however often a description is repeated, and an answer for a service the
\* query did not ask for is never returned.
CollectFaithful ==
  phase = "collected" =>
    result = {i \in Inst : \E d \in ToSet(descs) : <<ToName(d), i>> \in answered}
=============================================================================
