------------------------------- MODULE HashRing -------------------------------
(***************************************************************************)
(* The consistent hashing ring and the cluster of stores it routes to: a   *)
(* node is at several positions of the ring, a key belongs to the first    *)
(* one clockwise of its hash; a node that joins has all keys placed anew,  *)
(* the keys of one that leaves go to who owns them then.  It is sequential.*)
(* A hash of 64 bits is a position of a small ring, and no two are equal.  *)
(***************************************************************************)
EXTENDS Naturals, FiniteSetsExt

CONSTANTS
  Nodes, Keys, Values,
  Positions,        \* of each node, its virtual nodes
  Hash,             \* of each key
  Absent

VARIABLES
  nodes,            \* ConsistentHashRing._nodes
  stores,           \* SimulatedCluster._stores; one without a node is empty
  written, lost,    \* history: the last write of each key; keys gone with the last node
  change, moves     \* history: the node of the last change, and who gave keys to whom

vars == <<nodes, stores, written, lost, change, moves>>

\* What a placement of the nodes has to satisfy: no two have a position in common, as
\* hashes do not collide, and each has one.
WellPlaced ==
  /\ Positions \in [Nodes -> (SUBSET Nat) \ {{}}]
  /\ \A m, n \in Nodes : m # n => Positions[m] \cap Positions[n] = {}
  /\ Hash \in [Keys -> Nat]
  /\ Absent \notin Values /\ Absent \notin Nodes

Empty == [k \in Keys |-> Absent]

TypeOK ==
  /\ nodes \subseteq Nodes
  /\ stores \in [Nodes -> [Keys -> Values \cup {Absent}]]
  /\ written \in [Keys -> Values \cup {Absent}] /\ lost \subseteq Keys
  /\ change \in Nodes \cup {Absent} /\ moves \subseteq Nodes \X Nodes

Init ==
  /\ nodes = {} /\ stores = [n \in Nodes |-> Empty]
  /\ written = Empty /\ lost = {}
  /\ change = Absent /\ moves = {}

-----------------------------------------------------------------------------
\* node_for, in a ring of some members: bisect_right, and around the end.
Points(members) == UNION {Positions[n] : n \in members}
Later(k, members) == {p \in Points(members) : p > Hash[k]}
Point(k, members) == Min(IF Later(k, members) = {} THEN Points(members) ELSE Later(k, members))
Owner(k, members) == CHOOSE n \in members : Point(k, members) \in Positions[n]

Stored(n) == {k \in Keys : stores[n][k] # Absent}
Holders(k) == {n \in nodes : k \in Stored(n)}
Holder(k) == CHOOSE n \in Holders(k) : TRUE

\* _rebalance clears the stores and puts every key to its owner.  Faulty variant: it
\* copies, and leaves the stores as they are.
RebalancedCopies(members) ==
  [n \in Nodes |-> [k \in Keys |->
    IF Holders(k) # {} /\ Owner(k, members) = n THEN stores[Holder(k)][k] ELSE stores[n][k]]]
Rebalanced(members) ==
  [n \in Nodes |-> [k \in Keys |->
    IF Holders(k) # {} /\ Owner(k, members) = n THEN stores[Holder(k)][k] ELSE Absent]]

AddNode(n) ==
  LET members == nodes \cup {n} IN
  /\ nodes' = members
  /\ stores' = Rebalanced(members)
  /\ change' = n
  /\ moves' = {<<Holder(k), Owner(k, members)>> :
                 k \in {x \in Keys : Holders(x) # {} /\ Owner(x, members) # Holder(x)}}
  /\ UNCHANGED <<written, lost>>

\* The store of a node that left is popped, its keys are put to their owners.
Orphaned(n, members) ==
  [m \in Nodes |-> [k \in Keys |->
    IF m = n THEN Absent
    ELSE IF k \in Stored(n) /\ Owner(k, members) = m THEN stores[n][k] ELSE stores[m][k]]]

\* remove_node; with no node left it raises, when the store is gone.
RemoveNode(n) ==
  LET members == nodes \ {n} IN
  /\ n \in nodes
  /\ nodes' = members
  /\ change' = n
  /\ IF members = {}
       THEN /\ stores' = [stores EXCEPT ![n] = Empty]
            /\ lost' = lost \cup Stored(n) /\ moves' = {}
       ELSE /\ stores' = Orphaned(n, members)
            /\ moves' = {<<n, Owner(k, members)>> : k \in Stored(n)} /\ UNCHANGED lost
  /\ UNCHANGED written

\* An empty ring raises.
Put(k, v) ==
  /\ nodes # {}
  /\ stores' = [stores EXCEPT ![Owner(k, nodes)][k] = v]
  /\ written' = [written EXCEPT ![k] = v] /\ lost' = lost \ {k}
  /\ UNCHANGED <<nodes, change, moves>>

Get(k) == stores[Owner(k, nodes)][k]

Next ==
  \/ \E n \in Nodes : AddNode(n) \/ RemoveNode(n)
  \/ \E k \in Keys, v \in Values : Put(k, v)

Spec == Init /\ [][Next]_vars
-----------------------------------------------------------------------------
\* A read finds the last write, through any sequence of nodes that join and leave, and
\* no store keeps a copy of what it does not own, which a later change would bring
\* back.  Keys move only to the node that joined or from the one that left: "reassigns
\* only the keys between the changed node and its neighbour" (ring.py).  A cluster
\* whose last node leaves loses its keys.
RoutedToLastWrite ==
  /\ nodes # {} => \A k \in Keys : Get(k) = IF k \in lost THEN Absent ELSE written[k]
  /\ \A n \in Nodes : \A k \in Stored(n) : n \in nodes /\ n = Owner(k, nodes)
  /\ \A m \in moves : change = IF change \in nodes THEN m[2] ELSE m[1]
=============================================================================
