----------------------------- MODULE Publication -----------------------------
(***************************************************************************)
(* What the controller promises about a GameServer's way to the outside,   *)
(* without caches, events, failures or instances: nothing is published     *)
(* that the GameServer did not ask for, a route only once there is a       *)
(* Service for it to lead to, and a GameServer is announced as reachable   *)
(* only once its name has a Service and a route.                           *)
(***************************************************************************)
CONSTANTS
  Names,       \* GameServer names
  Uids,        \* incarnations of a name
  Backend,     \* the kind of object a route leads to
  Routes       \* the kinds of object that are routes

VARIABLES
  asked,       \* <<k, n, u>>: incarnation u of n asked for an object of kind k
  published,   \* <<k, n, u>>: it was created, owned by incarnation u
  announced    \* <<n, u>>: incarnation u of n was announced as reachable

vars == <<asked, published, announced>>

Published(k, n) == \E u \in Uids : <<k, n, u>> \in published

Init ==
  /\ asked = {}
  /\ published = {}
  /\ announced = {}

(* The GameServer enters a state, or gets annotations, that ask for a      *)
(* Service and one kind of route.                                          *)
Ask(n, u) ==
  /\ \E r \in Routes : asked' = asked \cup {<<Backend, n, u>>, <<r, n, u>>}
  /\ UNCHANGED <<published, announced>>

Publish(k, n, u) ==
  /\ <<k, n, u>> \in asked
  /\ k \in Routes => Published(Backend, n)
  /\ published' = published \cup {<<k, n, u>>}
  /\ UNCHANGED <<asked, announced>>

Announce(n, u) ==
  /\ Published(Backend, n)
  /\ \E r \in Routes : Published(r, n)
  /\ announced' = announced \cup {<<n, u>>}
  /\ UNCHANGED <<asked, published>>

Next ==
  \E n \in Names, u \in Uids :
    \/ Ask(n, u)
    \/ \E k \in {Backend} \cup Routes : Publish(k, n, u)
    \/ Announce(n, u)

Spec == Init /\ [][Next]_vars
=============================================================================
