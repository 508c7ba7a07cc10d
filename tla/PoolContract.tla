---------------------------- MODULE PoolContract ----------------------------
(***************************************************************************)
(* What a connection pool promises its callers, whatever its lists, locks  *)
(* and counters: the life cycle of every connection object, the number of  *)
(* objects alive and the number kept idle.  ConnectionPool implements it.  *)
(***************************************************************************)
EXTENDS Integers, FiniteSets

CONSTANTS
  Block,    \* the memory connection objects are built in
  Limit,    \* how many objects may be alive at once
  MaxIdle   \* how many may be idle at once; <= 0 is no limit

\* "none": no object.  "call": in the hands of a Get, Put or Gc in progress.
\* "idle": kept for the next Get.  "app": lent to the application.
VARIABLE owner

Owner == {"none", "call", "idle", "app"}

Init == owner = [b \in Block |-> "none"]

In(place) == {b \in Block : owner[b] = place}
Alive == Block \ In("none")

Move(b, from, to) == owner[b] = from /\ owner' = [owner EXCEPT ![b] = to]

\* A Get builds a new object, if the limit lets it.
Create(b) == Cardinality(Alive) < Limit /\ Move(b, "none", "call")

\* A Get hands out the object it built, or an idle one.
Lend(b) == Move(b, "call", "app") \/ Move(b, "idle", "app")

\* The application gives an object back.
Return(b) == Move(b, "app", "call")

\* A Put keeps the object given back, if the limit lets it.
Keep(b) ==
  /\ MaxIdle > 0 => Cardinality(In("idle")) < MaxIdle
  /\ Move(b, "call", "idle")

\* A Put keeps the object given back and takes another out in its place.
Replace(b, v) ==
  /\ owner[b] = "call" /\ owner[v] = "idle"
  /\ owner' = [owner EXCEPT ![b] = "idle", ![v] = "call"]

\* A Get takes out an idle object that has expired.
Retire(b) == Move(b, "idle", "call")

\* A call in progress destroys the object in its hands.
Destroy(b) == Move(b, "call", "none")

Next ==
  \E b \in Block :
    \/ Create(b) \/ Lend(b) \/ Return(b) \/ Keep(b) \/ Retire(b) \/ Destroy(b)
    \/ \E v \in Block : Replace(b, v)

Spec == Init /\ [][Next]_owner
=============================================================================
