----------------------------- MODULE EventStream -----------------------------
(***************************************************************************)
(* What a DNARS graph promises its observers, without the threads, the     *)
(* monitors and the pauses of GraphEvents: events are numbered as they     *)
(* happen and given out in batches, each of which follows on the one       *)
(* before; every observer that is registered when a batch is given out is  *)
(* called with it once, unless one of them throws and the rest miss it.    *)
(***************************************************************************)
EXTENDS Naturals, Sequences

CONSTANTS
  Observers,  \* observers of the graph
  MayThrow    \* TRUE: an observer may throw

VARIABLES
  emitted,     \* number of events so far
  given,       \* number of events given out so far
  registered,  \* the observers that are registered
  giving,      \* TRUE while a batch is given out
  batch,       \* that batch
  pending,     \* the observers that are still to be called with it
  delivered    \* the events each observer was called with

vars == <<emitted, given, registered, giving, batch, pending, delivered>>

Init ==
  /\ emitted = 0
  /\ given = 0
  /\ registered = {}
  /\ giving = FALSE
  /\ batch = <<>>
  /\ pending = {}
  /\ delivered = [o \in Observers |-> <<>>]

\* The events m+1 .. n.
Interval(m, n) == [i \in 1..(n - m) |-> m + i]

Emit ==
  /\ emitted' = emitted + 1
  /\ UNCHANGED <<given, registered, giving, batch, pending, delivered>>

\* Observers come and go between two batches.
Register(o) ==
  /\ ~giving
  /\ registered' = registered \union {o}
  /\ UNCHANGED <<emitted, given, giving, batch, pending, delivered>>

Unregister(o) ==
  /\ ~giving
  /\ registered' = registered \ {o}
  /\ UNCHANGED <<emitted, given, giving, batch, pending, delivered>>

\* The next events, as far as the n-th, are given out.
GiveOut(n) ==
  /\ ~giving
  /\ giving' = TRUE
  /\ n \in (given + 1)..emitted
  /\ batch' = Interval(given, n)
  /\ given' = n
  /\ pending' = registered
  /\ UNCHANGED <<emitted, registered, delivered>>

Call(o) ==
  /\ o \in pending
  /\ delivered' = [delivered EXCEPT ![o] = @ \o batch]
  /\ pending' = pending \ {o}
  /\ UNCHANGED <<emitted, given, registered, giving, batch>>

\* Everybody was called, or somebody threw.
Finish ==
  /\ giving
  /\ pending = {} \/ MayThrow
  /\ giving' = FALSE
  /\ batch' = <<>>
  /\ pending' = {}
  /\ UNCHANGED <<emitted, given, registered, delivered>>

Next ==
  \/ Emit
  \/ \E o \in Observers : Register(o) \/ Unregister(o) \/ Call(o)
  \/ \E n \in 1..emitted : GiveOut(n)
  \/ Finish

Spec == Init /\ [][Next]_vars
=============================================================================
