-------------------------- MODULE GraphEventsProofs --------------------------
(* What holds of GraphEvents for any number of writers, observers and       *)
(* events: no wake-up is missed, and GraphEvents implements EventStream.    *)
EXTENDS GraphEvents, SequenceTheorems, FiniteSetTheorems, TLAPS

\* The steps that only a writer of a whole list takes.
ListSteps == {"pause", "resume", "resuming"}

WritersOK ==
  /\ writer \in [Writers -> [pc : Steps, list : BOOLEAN]]
  /\ \A w \in Writers : writer[w].pc \in ListSteps => writer[w].list

\* Who paused the events, or a later one who paused them again, is still to
\* end the pause.
PauseEnds ==
  paused => \E w \in Writers : writer[w].list /\ writer[w].pc \in {"write", "queue", "queued", "resume"}

Inv == WritersOK /\ PauseEnds /\ NoMissedWakeup

\* A step of a writer moves this writer only.
LEMMA Moved ==
  ASSUME WritersOK, NEW w \in Writers, NEW s \in Steps, Goto(w, s)
  PROVE  /\ writer' \in [Writers -> [pc : Steps, list : BOOLEAN]]
         /\ writer'[w].pc = s /\ writer'[w].list = writer[w].list
         /\ \A v \in Writers \ {w} : writer'[v] = writer[v]
BY DEF WritersOK, Goto

\* ... and keeps WritersOK unless it sends a single add to a list step.
LEMMA MovedOK ==
  ASSUME WritersOK, NEW w \in Writers, NEW s \in Steps, Goto(w, s),
         s \in ListSteps => writer[w].list
  PROVE  WritersOK'
BY Moved DEF WritersOK

\* A notification leaves the dispatch thread awake.
LEMMA NotifyWakes == Notify => edt' # "waiting"
BY DEF Notify

\* Steps of the dispatch thread and of the observers do not touch the writers,
\* and the dispatch thread goes to sleep only when there are no events.
LEMMA OtherSteps ==
  ASSUME Inv,
         \/ \E o \in Observers : AddObserver(o) \/ RemoveObserver(o)
         \/ EDTStep
         \/ ObserverThrows
         \/ UNCHANGED vars
  PROVE  Inv'
<1>1. UNCHANGED <<writer, paused>>
  BY DEF AddObserver, RemoveObserver, EDTStep, Wait, Take, Dispatch, CallObserver,
         EndDispatch, ObserverThrows, vars
<1>2. edt' = "waiting" /\ events' # <<>> => edt = "waiting" /\ events # <<>>
  BY DEF AddObserver, RemoveObserver, EDTStep, Wait, Take, Dispatch, CallObserver,
         EndDispatch, ObserverThrows, vars
<1> QED
  BY <1>1, <1>2 DEF Inv, WritersOK, PauseEnds, NoMissedWakeup, At

\* A writer begins.
LEMMA AddStep ==
  ASSUME Inv, NEW w \in Writers, NEW list \in BOOLEAN, Add(w, list)
  PROVE  Inv'
<1>1. /\ writer' = [writer EXCEPT ![w] = [pc |-> IF list THEN "pause" ELSE "write", list |-> list]]
      /\ writer[w].pc = "idle"
      /\ UNCHANGED <<events, paused, edt>>
  BY DEF Add, At
<1>2. WritersOK'
  BY <1>1 DEF Inv, WritersOK, ListSteps, Steps
<1>3. \A v \in Writers \ {w} : writer'[v] = writer[v]
  BY <1>1 DEF Inv, WritersOK
<1>4. PauseEnds'
  BY <1>1, <1>3 DEF Inv, PauseEnds
<1>5. NoMissedWakeup'
  BY <1>1, <1>3 DEF Inv, NoMissedWakeup, At
<1> QED
  BY <1>2, <1>4, <1>5 DEF Inv

\* Whatever a writer does, whoever is needed to wake the dispatch thread is
\* still on the way, or has woken it.
LEMMA WriterSteps ==
  ASSUME Inv, NEW w \in Writers, WriterStep(w)
  PROVE  Inv'
<1>1. CASE Pause(w)
  <2>1. Goto(w, "write") /\ writer[w].list /\ UNCHANGED <<events, edt>>
    BY <1>1 DEF Pause, At, Inv, WritersOK, ListSteps
  <2>2. WritersOK'
    BY <2>1, MovedOK DEF Inv, Steps, ListSteps
  <2>3. writer'[w].list /\ writer'[w].pc = "write"
    BY <2>1, Moved DEF Inv, Steps
  <2> QED
    BY <2>1, <2>2, <2>3 DEF Inv, PauseEnds, NoMissedWakeup, At
<1>2. CASE Write(w)
  <2>1. PICK s \in {"queue", Done(w)} : Goto(w, s)
    BY <1>2 DEF Write
  <2>2. UNCHANGED <<events, edt, paused>> /\ writer[w].pc = "write"
    BY <1>2 DEF Write, At
  <2>3. s \in Steps /\ (s \in ListSteps => writer[w].list)
        /\ (writer[w].list => s \in {"queue", "resume"})
    BY DEF Done, Steps, ListSteps, Inv, WritersOK
  <2>4. WritersOK'
    BY <2>1, <2>3, MovedOK DEF Inv
  <2>5. /\ writer'[w].pc = s /\ writer'[w].list = writer[w].list
        /\ \A v \in Writers \ {w} : writer'[v] = writer[v]
    BY <2>1, <2>3, Moved DEF Inv
  <2> QED
    BY <2>2, <2>3, <2>4, <2>5 DEF Inv, PauseEnds, NoMissedWakeup, At
<1>3. CASE Queue(w)
  <2>1. Goto(w, "queued") /\ UNCHANGED <<edt, paused>> /\ writer[w].pc = "queue"
    BY <1>3 DEF Queue, At
  <2>2. WritersOK'
    BY <2>1, MovedOK DEF Inv, Steps, ListSteps
  <2>3. /\ writer'[w].pc = "queued" /\ writer'[w].list = writer[w].list
        /\ \A v \in Writers \ {w} : writer'[v] = writer[v]
    BY <2>1, Moved DEF Inv, Steps
  <2> QED
    BY <2>1, <2>2, <2>3 DEF Inv, PauseEnds, NoMissedWakeup, At
<1>4. CASE ReadPaused(w)
  <2>1. PICK s \in {"write", "idle"} : Goto(w, s) /\ (writer[w].list => s = "write")
    BY <1>4 DEF ReadPaused
  <2>2. UNCHANGED <<events, paused>> /\ (paused \/ edt' # "waiting")
    BY <1>4, NotifyWakes DEF ReadPaused
  <2>3. WritersOK'
    BY <2>1, MovedOK DEF Inv, Steps, ListSteps
  <2>4. /\ writer'[w].pc = s /\ writer'[w].list = writer[w].list
        /\ \A v \in Writers \ {w} : writer'[v] = writer[v]
    BY <2>1, Moved DEF Inv, Steps
  <2>5. PauseEnds'
    BY <2>1, <2>2, <2>4 DEF Inv, PauseEnds
  <2>6. NoMissedWakeup'
    BY <2>2, <2>5 DEF PauseEnds, NoMissedWakeup, At
  <2> QED
    BY <2>3, <2>5, <2>6 DEF Inv
<1>5. CASE Resume(w)
  <2>1. Goto(w, "resuming") /\ paused' = FALSE /\ writer[w].list
    BY <1>5 DEF Resume, At, Inv, WritersOK, ListSteps
  <2>2. WritersOK'
    BY <2>1, MovedOK DEF Inv, Steps, ListSteps
  <2>3. writer'[w].list /\ writer'[w].pc = "resuming"
    BY <2>1, Moved DEF Inv, Steps
  <2> QED
    BY <2>1, <2>2, <2>3 DEF Inv, PauseEnds, NoMissedWakeup, At
<1>6. CASE Resumed(w)
  <2>1. Goto(w, "idle") /\ UNCHANGED <<events, paused>> /\ writer[w].pc = "resuming"
    BY <1>6 DEF Resumed, At
  <2>2. events' = <<>> \/ edt' # "waiting"
    BY <1>6, NotifyWakes DEF Resumed
  <2>3. WritersOK'
    BY <2>1, MovedOK DEF Inv, Steps, ListSteps
  <2>4. \A v \in Writers \ {w} : writer'[v] = writer[v]
    BY <2>1, Moved DEF Inv, Steps
  <2>5. PauseEnds'
    BY <2>1, <2>4 DEF Inv, PauseEnds
  <2> QED
    BY <2>2, <2>3, <2>5 DEF Inv, NoMissedWakeup
<1> QED
  BY <1>1, <1>2, <1>3, <1>4, <1>5, <1>6 DEF WriterStep

\* For any number of writers that add single statements or lists of them: the
\* dispatch thread never sleeps through events that nobody will announce.
THEOREM WakeupsNotMissed == Spec => []NoMissedWakeup
<1>1. Init => Inv
  BY DEF Init, Inv, WritersOK, PauseEnds, NoMissedWakeup, Steps, ListSteps
<1>2. Inv /\ [Next]_vars => Inv'
  BY OtherSteps, AddStep, WriterSteps DEF Next
<1>3. Inv => NoMissedWakeup
  BY DEF Inv
<1> QED
  BY <1>1, <1>2, <1>3, PTL DEF Spec

-----------------------------------------------------------------------------
(* GraphEvents implements EventStream *)

Distinct(s) == \A i, j \in 1..Len(s) : s[i] = s[j] => i = j

\* The events in the list are the last ones, in order.
QueueOK ==
  /\ emitted \in Nat
  /\ events \in Seq(Nat)
  /\ Len(events) <= emitted
  /\ \A i \in 1..Len(events) : events[i] = emitted - Len(events) + i

\* A batch that was taken has those before them.
BatchOK ==
  /\ edt \in {"check", "waiting", "taken", "dispatch"}
  /\ batch \in Seq(Nat)
  /\ edt \in {"check", "waiting"} => batch = <<>>
  /\ edt = "taken" => Len(batch) > 0
  /\ Len(events) + Len(batch) <= emitted
  /\ \A i \in 1..Len(batch) : batch[i] = emitted - Len(events) - Len(batch) + i

\* Nobody is registered, or to be called, twice.
ObserversOK ==
  /\ observers \in Seq(Observers) /\ Distinct(observers)
  /\ todo \in Seq(Observers) /\ Distinct(todo)
  /\ edt # "dispatch" => todo = <<>>

StreamInv == QueueOK /\ BatchOK /\ ObserversOK

givenBar == emitted - Len(events) - (IF edt = "taken" THEN Len(batch) ELSE 0)
batchBar == IF edt = "dispatch" THEN batch ELSE <<>>

-----------------------------------------------------------------------------
(* Sequences without duplicates *)

LEMMA InSeqAppend ==
  ASSUME NEW S, NEW s \in Seq(S), NEW x \in S
  PROVE  InSeq(Append(s, x)) = InSeq(s) \union {x}
<1>1. /\ Len(Append(s, x)) = Len(s) + 1
      /\ Append(s, x)[Len(s) + 1] = x
      /\ \A i \in 1..Len(s) : Append(s, x)[i] = s[i]
      /\ Len(s) \in Nat
  OBVIOUS
<1> DEFINE t == Append(s, x)
<1>2. \A i \in 1..(Len(s) + 1) : i \in 1..Len(s) \/ i = Len(s) + 1
  BY <1>1
<1>3. \A i \in 1..Len(s) : i \in 1..(Len(s) + 1)
  BY <1>1
<1>4. Len(s) + 1 \in 1..(Len(s) + 1)
  BY <1>1
<1>5. Len(t) = Len(s) + 1 /\ t[Len(s) + 1] = x /\ \A i \in 1..Len(s) : t[i] = s[i]
  BY <1>1
<1> HIDE DEF t
<1>6. ASSUME NEW e \in InSeq(t)
      PROVE  e \in InSeq(s) \union {x}
  <2>1. PICK i \in 1..Len(t) : e = t[i]
    BY <1>6 DEF InSeq
  <2> QED
    BY <2>1, <1>2, <1>5 DEF InSeq
<1>7. ASSUME NEW e \in InSeq(s) \union {x}
      PROVE  e \in InSeq(t)
  BY <1>7, <1>3, <1>4, <1>5 DEF InSeq
<1> QED
  BY <1>6, <1>7 DEF t

LEMMA DistinctAppend ==
  ASSUME NEW S, NEW s \in Seq(S), NEW x \in S, Distinct(s), x \notin InSeq(s)
  PROVE  Append(s, x) \in Seq(S) /\ Distinct(Append(s, x))
BY DEF Distinct, InSeq

LEMMA DistinctTail ==
  ASSUME NEW S, NEW s \in Seq(S), s # <<>>, Distinct(s)
  PROVE  /\ Head(s) \in S /\ Head(s) \in InSeq(s)
         /\ Tail(s) \in Seq(S) /\ Distinct(Tail(s))
         /\ InSeq(Tail(s)) = InSeq(s) \ {Head(s)}
<1>1. /\ Len(s) \in Nat /\ Len(s) > 0
      /\ Head(s) = s[1]
      /\ Tail(s) \in Seq(S) /\ Len(Tail(s)) = Len(s) - 1
      /\ \A i \in 1..(Len(s) - 1) : Tail(s)[i] = s[i + 1]
  OBVIOUS
<1>2. Distinct(Tail(s))
  BY <1>1 DEF Distinct
<1>3. Head(s) \in S /\ Head(s) \in InSeq(s)
  BY <1>1 DEF InSeq
<1>4. ASSUME NEW e \in InSeq(Tail(s))
      PROVE  e \in InSeq(s) \ {Head(s)}
  <2>1. PICK i \in 1..(Len(s) - 1) : e = s[i + 1]
    BY <1>1, <1>4 DEF InSeq
  <2>2. i + 1 \in 1..Len(s) /\ i + 1 # 1
    BY <1>1
  <2> QED
    BY <2>1, <2>2, <1>1 DEF InSeq, Distinct
<1>5. ASSUME NEW e \in InSeq(s) \ {Head(s)}
      PROVE  e \in InSeq(Tail(s))
  <2>1. PICK i \in 1..Len(s) : e = s[i]
    BY <1>5 DEF InSeq
  <2>2. i - 1 \in 1..(Len(s) - 1) /\ Tail(s)[i - 1] = s[i]
    BY <2>1, <1>1, <1>5
  <2> QED
    BY <2>1, <2>2, <1>1 DEF InSeq
<1> QED
  BY <1>1, <1>2, <1>3, <1>4, <1>5

\* observers -= obs.
LEMMA DistinctRemoved ==
  ASSUME NEW S, NEW s \in Seq(S), Distinct(s), NEW k \in 1..Len(s), NEW t, t = Without(s, k)
  PROVE  t \in Seq(S) /\ Distinct(t) /\ InSeq(t) = InSeq(s) \ {s[k]}
<1>1. Len(s) \in Nat /\ k \in Nat /\ 1 <= k /\ k <= Len(s)
  OBVIOUS
<1>2. /\ t \in Seq(S) /\ Len(t) = Len(s) - 1
      /\ \A i \in 1..(Len(s) - 1) : t[i] = IF i < k THEN s[i] ELSE s[i + 1]
  <2>1. \A i \in 1..(Len(s) - 1) : i \in 1..Len(s) /\ i + 1 \in 1..Len(s)
    BY <1>1
  <2>2. \A i \in 1..(Len(s) - 1) : (IF i < k THEN s[i] ELSE s[i + 1]) \in S
    BY <2>1
  <2>3. Len(s) - 1 \in Nat
    BY <1>1
  <2> QED
    BY <2>2, <2>3 DEF Without
<1>3. \A i \in 1..Len(t) :
        \E j \in 1..Len(s) : j # k /\ t[i] = s[j] /\ j = IF i < k THEN i ELSE i + 1
  BY <1>1, <1>2
<1>4. Distinct(t)
  BY <1>1, <1>3 DEF Distinct
<1>5. \A j \in 1..Len(s) : j # k => \E i \in 1..Len(t) : t[i] = s[j]
  <2> SUFFICES ASSUME NEW j \in 1..Len(s), j # k
               PROVE  \E i \in 1..Len(t) : t[i] = s[j]
    OBVIOUS
  <2>1. CASE j < k
    BY <2>1, <1>1, <1>2
  <2>2. CASE j > k
    <3>1. j - 1 \in 1..(Len(s) - 1) /\ ~(j - 1 < k) /\ (j - 1) + 1 = j
      BY <2>2, <1>1
    <3> QED
      BY <3>1, <1>2
  <2> QED
    BY <2>1, <2>2, <1>1
<1>6. ASSUME NEW e \in InSeq(t)
      PROVE  e \in InSeq(s) \ {s[k]}
  BY <1>3, <1>6 DEF InSeq, Distinct
<1>7. ASSUME NEW e \in InSeq(s) \ {s[k]}
      PROVE  e \in InSeq(t)
  BY <1>5, <1>7 DEF InSeq
<1> QED
  BY <1>2, <1>4, <1>6, <1>7

-----------------------------------------------------------------------------
(* The invariant *)

LEMMA InitStream == Init => StreamInv
BY DEF Init, StreamInv, QueueOK, BatchOK, ObserversOK, Distinct

\* A writer appends the next event to the list, and a batch stays before it.
LEMMA QueueStep ==
  ASSUME StreamInv, NEW w \in Writers, Queue(w)
  PROVE  StreamInv'
<1>1. /\ emitted' = emitted + 1 /\ events' = Append(events, emitted + 1)
      /\ UNCHANGED <<observers, edt, batch, todo>>
  BY DEF Queue
<1>2. Len(events') = Len(events) + 1
      /\ \A i \in 1..Len(events') :
           events'[i] = IF i = Len(events) + 1 THEN emitted + 1 ELSE events[i]
  BY <1>1 DEF StreamInv, QueueOK
<1>3. QueueOK'
  <2>1. emitted' \in Nat /\ events' \in Seq(Nat)
    BY <1>1 DEF StreamInv, QueueOK
  <2>2. Len(events') <= emitted'
    BY <1>1, <1>2 DEF StreamInv, QueueOK
  <2>3. ASSUME NEW i \in 1..Len(events')
        PROVE  events'[i] = emitted' - Len(events') + i
    <3>1. CASE i = Len(events) + 1
      BY <3>1, <1>1, <1>2 DEF StreamInv, QueueOK
    <3>2. CASE i # Len(events) + 1
      <4>1. i \in 1..Len(events)
        BY <3>2, <1>2 DEF StreamInv, QueueOK
      <4>2. events'[i] = emitted - Len(events) + i
        BY <4>1, <3>2, <1>2 DEF StreamInv, QueueOK
      <4> QED
        BY <4>2, <1>1, <1>2 DEF StreamInv, QueueOK
    <3> QED
      BY <3>1, <3>2
  <2> QED
    BY <2>1, <2>2, <2>3 DEF QueueOK
<1>4. BatchOK'
  BY <1>1, <1>2 DEF StreamInv, QueueOK, BatchOK
<1> QED
  BY <1>1, <1>3, <1>4 DEF StreamInv, ObserversOK, Distinct

\* The steps of a writer that do not touch the list of events.
QuietWriterStep(w) == Pause(w) \/ Write(w) \/ ReadPaused(w) \/ Resume(w) \/ Resumed(w)

LEMMA QuietStep ==
  ASSUME StreamInv,
         \/ \E w \in Writers : QuietWriterStep(w) \/ \E list \in BOOLEAN : Add(w, list)
         \/ Wait
         \/ UNCHANGED vars
  PROVE  /\ StreamInv'
         /\ UNCHANGED <<emitted, events, observers, batch, todo, delivered>>
         /\ edt = "taken" <=> edt' = "taken"
         /\ edt = "dispatch" <=> edt' = "dispatch"
<1>1. /\ UNCHANGED <<emitted, events, observers, batch, todo, delivered>>
      /\ \/ edt' = edt
         \/ edt \in {"check", "waiting"} /\ edt' \in {"check", "waiting"}
  BY DEF QuietWriterStep, Add, Pause, Write, ReadPaused, Resume, Resumed, Notify, Wait, vars,
         historyVars
<1>2. StreamInv'
  BY <1>1 DEF StreamInv, QueueOK, BatchOK, ObserversOK, Distinct
<1> QED
  BY <1>1, <1>2

LEMMA ObserverStep ==
  ASSUME StreamInv, NEW o \in Observers, AddObserver(o) \/ RemoveObserver(o)
  PROVE  /\ StreamInv'
         /\ edt # "dispatch"
         /\ InSeq(observers') \in {InSeq(observers) \union {o}, InSeq(observers) \ {o}}
         /\ UNCHANGED <<emitted, events, edt, batch, todo, delivered>>
<1>1. /\ UNCHANGED <<emitted, events, edt, batch, todo, delivered>>
      /\ edt # "dispatch"
  BY DEF AddObserver, RemoveObserver, ObserversFree, historyVars
<1>2. /\ observers' \in Seq(Observers) /\ Distinct(observers')
      /\ InSeq(observers') \in {InSeq(observers) \union {o}, InSeq(observers) \ {o}}
  <2>1. observers \in Seq(Observers) /\ Distinct(observers)
    BY DEF StreamInv, ObserversOK
  <2>2. CASE AddObserver(o)
    BY <2>1, <2>2, InSeqAppend, DistinctAppend DEF AddObserver
  <2>3. CASE RemoveObserver(o)
    <3>1. PICK i \in 1..Len(observers) :
            /\ observers[i] = o
            /\ observers' = Without(observers, i)
      BY <2>3 DEF RemoveObserver
    <3> QED
      BY <2>1, <3>1, DistinctRemoved
  <2> QED
    BY <2>2, <2>3
<1>3. StreamInv'
  BY <1>1, <1>2 DEF StreamInv, QueueOK, BatchOK, ObserversOK, Distinct
<1> QED
  BY <1>1, <1>2, <1>3

LEMMA TakeStep ==
  ASSUME StreamInv, Take
  PROVE  /\ StreamInv'
         /\ givenBar' = givenBar /\ edt = "check" /\ edt' = "taken"
         /\ UNCHANGED <<emitted, observers, todo, delivered>>
<1>1. /\ batch' = events /\ events' = <<>> /\ events # <<>> /\ edt = "check" /\ edt' = "taken"
      /\ UNCHANGED <<emitted, observers, todo, delivered>>
  BY DEF Take, historyVars
<1>2. QueueOK' /\ BatchOK'
  BY <1>1 DEF StreamInv, QueueOK, BatchOK
<1>3. givenBar' = givenBar
  BY <1>1 DEF givenBar, StreamInv, QueueOK
<1> QED
  BY <1>1, <1>2, <1>3 DEF StreamInv, ObserversOK, Distinct

LEMMA DispatchStep ==
  ASSUME StreamInv, Dispatch
  PROVE  /\ StreamInv'
         /\ edt = "taken" /\ edt' = "dispatch" /\ todo' = observers
         /\ UNCHANGED <<emitted, events, observers, batch, delivered>>
<1>1. /\ edt = "taken" /\ edt' = "dispatch" /\ todo' = observers
      /\ UNCHANGED <<emitted, events, observers, batch, delivered>>
  BY DEF Dispatch, historyVars
<1> QED
  BY <1>1 DEF StreamInv, QueueOK, BatchOK, ObserversOK, Distinct

LEMMA CallStep ==
  ASSUME StreamInv, CallObserver
  PROVE  /\ StreamInv'
         /\ edt = "dispatch" /\ edt' = "dispatch"
         /\ Head(todo) \in Observers /\ Head(todo) \in InSeq(todo)
         /\ InSeq(todo') = InSeq(todo) \ {Head(todo)}
         /\ delivered' = [delivered EXCEPT ![Head(todo)] = @ \o batch]
         /\ UNCHANGED <<emitted, events, observers, batch>>
<1>1. /\ edt = "dispatch" /\ todo # <<>> /\ todo' = Tail(todo)
      /\ delivered' = [delivered EXCEPT ![Head(todo)] = @ \o batch]
      /\ UNCHANGED <<emitted, events, observers, batch, edt>>
  BY DEF CallObserver
<1>2. todo \in Seq(Observers) /\ Distinct(todo)
  BY DEF StreamInv, ObserversOK
<1>3. /\ Head(todo) \in Observers /\ Head(todo) \in InSeq(todo)
      /\ todo' \in Seq(Observers) /\ Distinct(todo')
      /\ InSeq(todo') = InSeq(todo) \ {Head(todo)}
  BY <1>1, <1>2, DistinctTail
<1>4. StreamInv'
  BY <1>1, <1>3 DEF StreamInv, QueueOK, BatchOK, ObserversOK, Distinct
<1> QED
  BY <1>1, <1>3, <1>4

LEMMA EndStep ==
  ASSUME StreamInv, EndDispatch \/ ObserverThrows
  PROVE  /\ StreamInv'
         /\ edt = "dispatch" /\ edt' = "check" /\ batch' = <<>>
         /\ InSeq(todo) = {} \/ MayThrow
         /\ InSeq(todo') = {}
         /\ UNCHANGED <<emitted, events, observers, delivered>>
<1>1. /\ edt = "dispatch" /\ edt' = "check" /\ batch' = <<>> /\ todo' = <<>>
      /\ todo = <<>> \/ MayThrow
      /\ UNCHANGED <<emitted, events, observers, delivered>>
  BY DEF EndDispatch, ObserverThrows, historyVars
<1>2. \A s : s = <<>> => InSeq(s) = {}
  BY DEF InSeq
<1>3. StreamInv'
  BY <1>1 DEF StreamInv, QueueOK, BatchOK, ObserversOK, Distinct
<1> QED
  BY <1>1, <1>2, <1>3

-----------------------------------------------------------------------------
(* The refinement *)

\* Every step of GraphEvents is a step of EventStream, or shows nothing.
LEMMA StepImplements ==
  ASSUME StreamInv, [Next]_vars
  PROVE  StreamInv' /\ [Stream!Next]_(Stream!vars)
<1> USE DEF Stream!vars, givenBar
<1>1. ASSUME NEW w \in Writers, Queue(w)
      PROVE  StreamInv' /\ Stream!Emit
  <2>1. /\ emitted' = emitted + 1 /\ events' = Append(events, emitted + 1)
        /\ UNCHANGED <<observers, edt, batch, todo, delivered>>
    BY <1>1 DEF Queue
  <2>2. Len(events') = Len(events) + 1
    BY <2>1 DEF StreamInv, QueueOK
  <2>3. Len(batch) \in Nat /\ Len(events) \in Nat /\ emitted \in Nat
    BY DEF StreamInv, QueueOK, BatchOK
  <2> QED
    BY <1>1, <2>1, <2>2, <2>3, QueueStep DEF Stream!Emit, InSeq
<1>2. CASE \/ \E w \in Writers : QuietWriterStep(w) \/ \E list \in BOOLEAN : Add(w, list)
           \/ Wait
           \/ UNCHANGED vars
  BY <1>2, QuietStep DEF InSeq
<1>3. ASSUME NEW o \in Observers, AddObserver(o) \/ RemoveObserver(o)
      PROVE  StreamInv' /\ (Stream!Register(o) \/ Stream!Unregister(o))
  BY <1>3, ObserverStep DEF Stream!Register, Stream!Unregister, InSeq
<1>4. CASE Take
  BY <1>4, TakeStep DEF InSeq
<1>5. CASE Dispatch
  <2>1. /\ StreamInv' /\ edt = "taken" /\ edt' = "dispatch" /\ todo' = observers
        /\ UNCHANGED <<emitted, events, observers, batch, delivered>>
    BY <1>5, DispatchStep
  <2> DEFINE n == emitted - Len(events)
  <2>2. n \in (givenBar + 1)..emitted /\ n \in 1..emitted /\ givenBar' = n
    BY <2>1 DEF StreamInv, QueueOK, BatchOK
  <2>3. batch = Stream!Interval(givenBar, n)
    <3>1. n - givenBar = Len(batch)
      BY <2>1 DEF StreamInv, QueueOK, BatchOK
    <3>2. \A i \in 1..Len(batch) : batch[i] = givenBar + i
      BY <2>1 DEF StreamInv, QueueOK, BatchOK
    <3>3. batch = [i \in 1..Len(batch) |-> batch[i]]
      BY DEF StreamInv, BatchOK
    <3> QED
      BY <3>1, <3>2, <3>3 DEF Stream!Interval
  <2>4. Stream!GiveOut(n)
    BY <2>1, <2>2, <2>3 DEF Stream!GiveOut, InSeq
  <2> QED
    BY <2>1, <2>2, <2>4 DEF Stream!Next
<1>6. CASE CallObserver
  <2>1. StreamInv' /\ Stream!Call(Head(todo)) /\ Head(todo) \in Observers
    BY <1>6, CallStep DEF Stream!Call, InSeq
  <2> QED
    BY <2>1 DEF Stream!Next
<1>7. CASE EndDispatch \/ ObserverThrows
  BY <1>7, EndStep DEF Stream!Finish, Stream!Next, InSeq
<1> QED
  BY <1>1, <1>2, <1>3, <1>4, <1>5, <1>6, <1>7
     DEF Next, WriterStep, QuietWriterStep, EDTStep, Stream!Next

\* For every set of writers and observers, whatever the threads do: the
\* observers see the one stream of events that EventStream describes.
THEOREM StreamImplemented == Spec => ImplementsStream
<1>1. Init => Stream!Init
  <2> SUFFICES ASSUME Init
               PROVE  Stream!Init
    OBVIOUS
  <2>1. Len(events) = 0 /\ Len(observers) = 0 /\ Len(todo) = 0 /\ edt = "check" /\ emitted = 0
    BY DEF Init
  <2>2. InSeq(observers) = {} /\ InSeq(todo) = {}
    BY <2>1 DEF InSeq
  <2>3. emitted - Len(events) - (IF edt = "taken" THEN Len(batch) ELSE 0) = 0
    BY <2>1
  <2>4. (edt = "dispatch") = FALSE /\ (IF edt = "dispatch" THEN batch ELSE <<>>) = <<>>
    BY <2>1
  <2>5. emitted = 0 /\ delivered = [o \in Observers |-> <<>>]
    BY DEF Init
  <2> QED
    BY <2>2, <2>3, <2>4, <2>5 DEF Stream!Init
<1>2. StreamInv /\ [Next]_vars => StreamInv' /\ [Stream!Next]_(Stream!vars)
  BY StepImplements
<1> QED
  BY InitStream, <1>1, <1>2, PTL DEF Spec, ImplementsStream, Stream!Spec

-----------------------------------------------------------------------------
(* The order of events *)

Ordered(s) == \A i, j \in 1..Len(s) : i < j => s[i] < s[j]

\* The events before the batch, and the last one an observer can know.
Before == emitted - Len(events) - Len(batch)
KnownTo(o) == IF edt = "taken" \/ o \in InSeq(todo) THEN Before ELSE Before + Len(batch)

DeliveredOK ==
  /\ delivered \in [Observers -> Seq(Nat)]
  /\ \A o \in Observers :
       /\ Ordered(delivered[o])
       /\ \A i \in 1..Len(delivered[o]) : delivered[o][i] <= KnownTo(o)

\* A batch goes on where the events that were delivered end.
LEMMA BatchFollows ==
  ASSUME NEW s \in Seq(Nat), NEW b \in Seq(Nat), NEW n \in Nat,
         Ordered(s), \A i \in 1..Len(s) : s[i] <= n, \A i \in 1..Len(b) : b[i] = n + i
  PROVE  /\ s \o b \in Seq(Nat) /\ Ordered(s \o b)
         /\ \A i \in 1..Len(s \o b) : (s \o b)[i] <= n + Len(b)
         /\ InSeq(s \o b) = InSeq(s) \union InSeq(b)
<1> DEFINE t == s \o b
<1>1. /\ t \in Seq(Nat) /\ Len(t) = Len(s) + Len(b)
      /\ \A i \in 1..(Len(s) + Len(b)) : t[i] = IF i <= Len(s) THEN s[i] ELSE b[i - Len(s)]
  BY ConcatProperties
<1> HIDE DEF t
<1>2. Len(s) \in Nat /\ Len(b) \in Nat
  OBVIOUS
<1>3. \A i \in 1..Len(s) : i \in 1..Len(t) /\ t[i] = s[i]
  BY <1>1, <1>2
<1>4. ASSUME NEW i \in 1..Len(b)
      PROVE  i + Len(s) \in 1..Len(t) /\ t[i + Len(s)] = b[i]
  <2>1. i + Len(s) \in 1..(Len(s) + Len(b)) /\ ~(i + Len(s) <= Len(s)) /\ (i + Len(s)) - Len(s) = i
    BY <1>2
  <2> QED
    BY <2>1, <1>1
<1>5. ASSUME NEW i \in 1..Len(t), ~(i <= Len(s))
      PROVE  t[i] = n + (i - Len(s)) /\ t[i] = b[i - Len(s)] /\ i - Len(s) \in 1..Len(b)
  <2>1. i - Len(s) \in 1..Len(b)
    BY <1>1, <1>2, <1>5
  <2> QED
    BY <2>1, <1>1, <1>5
<1>6. ASSUME NEW i \in 1..Len(t)
      PROVE  t[i] <= n + Len(b)
  <2>1. CASE i <= Len(s)
    <3>1. i \in 1..Len(s)
      BY <2>1, <1>2
    <3>2. t[i] = s[i] /\ s[i] \in Nat /\ s[i] <= n
      BY <3>1, <1>3
    <3> QED
      BY <3>2, <1>2
  <2>2. CASE ~(i <= Len(s))
    <3>1. t[i] = n + (i - Len(s)) /\ i - Len(s) \in 1..Len(b)
      BY <2>2, <1>5
    <3> QED
      BY <3>1, <1>2
  <2> QED
    BY <2>1, <2>2
<1>7. ASSUME NEW i \in 1..Len(t), NEW j \in 1..Len(t), i < j
      PROVE  t[i] < t[j]
  <2>1. CASE j <= Len(s)
    BY <2>1, <1>2, <1>3, <1>7 DEF Ordered
  <2>2. CASE i <= Len(s) /\ ~(j <= Len(s))
    <3>1. t[i] <= n /\ t[i] \in Nat
      BY <2>2, <1>2, <1>3
    <3>2. t[j] = n + (j - Len(s)) /\ j - Len(s) \in Nat /\ j - Len(s) > 0
      BY <2>2, <1>2, <1>5
    <3> QED
      BY <3>1, <3>2
  <2>3. CASE ~(i <= Len(s))
    <3>1. ~(j <= Len(s))
      BY <2>3, <1>2, <1>7
    <3> QED
      BY <2>3, <3>1, <1>2, <1>5, <1>7
  <2> QED
    BY <2>1, <2>2, <2>3
<1>8. ASSUME NEW e \in InSeq(t)
      PROVE  e \in InSeq(s) \union InSeq(b)
  <2>1. PICK i \in 1..Len(t) : e = t[i]
    BY <1>8 DEF InSeq
  <2>2. CASE i <= Len(s)
    BY <2>1, <2>2, <1>2, <1>3 DEF InSeq
  <2>3. CASE ~(i <= Len(s))
    BY <2>1, <2>3, <1>5 DEF InSeq
  <2> QED
    BY <2>2, <2>3
<1>9. ASSUME NEW e \in InSeq(s) \union InSeq(b)
      PROVE  e \in InSeq(t)
  BY <1>9, <1>3, <1>4 DEF InSeq
<1> QED
  BY <1>1, <1>6, <1>7, <1>8, <1>9 DEF Ordered, t

\* A step that calls nobody takes no knowledge back.
LEMMA KnownToGrows ==
  ASSUME DeliveredOK, UNCHANGED delivered, \A o \in Observers : KnownTo(o)' >= KnownTo(o),
         \A o \in Observers : KnownTo(o) \in Int /\ KnownTo(o)' \in Int
  PROVE  DeliveredOK'
BY DEF DeliveredOK, Ordered

LEMMA CallKeepsOrder ==
  ASSUME StreamInv, DeliveredOK, CallObserver
  PROVE  DeliveredOK'
<1>0. PICK h \in Observers : h = Head(todo)
  BY CallStep
<1>1. /\ h \in Observers /\ h \in InSeq(todo)
      /\ InSeq(todo') = InSeq(todo) \ {h}
      /\ delivered' = [delivered EXCEPT ![h] = @ \o batch]
      /\ UNCHANGED <<emitted, events, batch>>
      /\ edt = "dispatch" /\ edt' = "dispatch"
  BY <1>0, CallStep
<1>2. Before \in Nat /\ batch \in Seq(Nat) /\ \A i \in 1..Len(batch) : batch[i] = Before + i
  BY DEF StreamInv, QueueOK, BatchOK, Before
<1>3. Before' = Before /\ Len(batch') = Len(batch)
  BY <1>1 DEF Before
<1>4. /\ delivered[h] \in Seq(Nat) /\ Ordered(delivered[h])
      /\ \A i \in 1..Len(delivered[h]) : delivered[h][i] <= Before
  BY <1>1 DEF DeliveredOK, KnownTo
<1> DEFINE t == delivered[h] \o batch
<1>5. /\ t \in Seq(Nat) /\ Ordered(t)
      /\ \A i \in 1..Len(t) : t[i] <= Before + Len(batch)
  BY <1>2, <1>4, BatchFollows
<1> HIDE DEF t
<1>6. KnownTo(h)' = Before + Len(batch)
  <2>1. h \notin InSeq(todo') /\ edt' # "taken"
    BY <1>1
  <2>2. KnownTo(h)' = IF edt' = "taken" \/ h \in InSeq(todo') THEN Before' ELSE Before' + Len(batch')
    BY DEF KnownTo
  <2> QED
    BY <2>1, <2>2, <1>3
<1>7. \A o \in Observers \ {h} : KnownTo(o)' = KnownTo(o) /\ delivered'[o] = delivered[o]
  BY <1>1, <1>3 DEF KnownTo, DeliveredOK
<1>8. delivered'[h] = t /\ delivered' \in [Observers -> Seq(Nat)]
  BY <1>1, <1>5 DEF DeliveredOK, t
<1>9. ASSUME NEW o \in Observers
      PROVE  /\ Ordered(delivered'[o])
             /\ \A i \in 1..Len(delivered'[o]) : delivered'[o][i] <= KnownTo(o)'
  <2>1. CASE o = h
    BY <2>1, <1>5, <1>6, <1>8
  <2>2. CASE o # h
    BY <2>2, <1>7 DEF DeliveredOK
  <2> QED
    BY <2>1, <2>2
<1> QED
  BY <1>8, <1>9 DEF DeliveredOK

LEMMA OrderKept ==
  ASSUME StreamInv, DeliveredOK, [Next]_vars
  PROVE  DeliveredOK'
<1>1. ASSUME NEW w \in Writers, Queue(w)
      PROVE  DeliveredOK'
  <2>1. /\ emitted' = emitted + 1 /\ events' = Append(events, emitted + 1)
        /\ UNCHANGED <<edt, batch, todo, delivered>>
    BY <1>1 DEF Queue
  <2>2. Before' = Before /\ Before \in Int /\ Len(batch) \in Int
    BY <2>1 DEF StreamInv, QueueOK, BatchOK, Before
  <2> QED
    BY <2>1, <2>2, KnownToGrows DEF KnownTo, InSeq
<1>2. CASE \/ \E w \in Writers : QuietWriterStep(w) \/ \E list \in BOOLEAN : Add(w, list)
           \/ Wait
           \/ UNCHANGED vars
           \/ \E o \in Observers : AddObserver(o) \/ RemoveObserver(o)
  <2>1. /\ UNCHANGED <<emitted, events, batch, todo, delivered>>
        /\ edt = "taken" <=> edt' = "taken"
    BY <1>2, QuietStep, ObserverStep
  <2>2. Before' = Before /\ Before \in Int /\ Len(batch) \in Int
    BY <2>1 DEF StreamInv, QueueOK, BatchOK, Before
  <2> QED
    BY <2>1, <2>2, KnownToGrows DEF KnownTo, InSeq
<1>3. CASE Take
  <2>1. /\ batch' = events /\ events' = <<>> /\ edt = "check" /\ edt' = "taken"
        /\ batch = <<>> /\ todo = <<>> /\ UNCHANGED <<emitted, todo, delivered>>
    BY <1>3 DEF Take, historyVars, StreamInv, BatchOK, ObserversOK
  <2>2. Before' = Before /\ Before \in Int /\ Len(batch) = 0
    BY <2>1 DEF StreamInv, QueueOK, BatchOK, Before
  <2>3. \A o \in Observers : KnownTo(o) = Before /\ KnownTo(o)' = Before
    BY <2>1, <2>2 DEF KnownTo
  <2> QED
    BY <2>1, <2>2, <2>3, KnownToGrows
<1>4. CASE Dispatch
  <2>1. /\ edt = "taken" /\ edt' = "dispatch"
        /\ UNCHANGED <<emitted, events, batch, delivered>>
    BY <1>4, DispatchStep
  <2>2. Before' = Before /\ Before \in Int /\ Len(batch) \in Nat
    BY <2>1 DEF StreamInv, QueueOK, BatchOK, Before
  <2> QED
    BY <2>1, <2>2, KnownToGrows DEF KnownTo
<1>5. CASE EndDispatch \/ ObserverThrows
  <2>1. /\ edt = "dispatch" /\ edt' = "check" /\ batch' = <<>> /\ InSeq(todo') = {}
        /\ UNCHANGED <<emitted, events, delivered>>
    BY <1>5, EndStep
  <2>2. /\ Before \in Int /\ Len(batch) \in Nat /\ Before' = Before + Len(batch)
        /\ Len(batch') = 0
    BY <2>1 DEF StreamInv, QueueOK, BatchOK, Before
  <2> QED
    BY <2>1, <2>2, KnownToGrows DEF KnownTo
<1> QED
  BY <1>1, <1>2, <1>3, <1>4, <1>5, CallKeepsOrder
     DEF Next, WriterStep, QuietWriterStep, EDTStep

-----------------------------------------------------------------------------
(* No event gets lost *)

LostInv == since \in [Observers -> Nat] /\ skipped \in [Observers -> SUBSET Nat] /\ NothingLost

LEMMA LostKept ==
  ASSUME StreamInv, DeliveredOK, LostInv, [Next]_vars
  PROVE  LostInv'
<1>1. ASSUME NEW w \in Writers, Queue(w)
      PROVE  LostInv'
  <2>1. /\ emitted' = emitted + 1 /\ events' = Append(events, emitted + 1)
        /\ UNCHANGED <<observers, edt, batch, todo, delivered, since, skipped>>
    BY <1>1 DEF Queue
  <2>2. InSeq(events') = InSeq(events) \union {emitted + 1}
    BY <2>1, InSeqAppend DEF StreamInv, QueueOK
  <2>3. \A o \in InSeq(observers) : since[o] \in Nat
    BY DEF StreamInv, ObserversOK, LostInv, InSeq
  <2>4. ASSUME NEW o \in InSeq(observers), NEW e \in (since[o] + 1)..(emitted + 1)
        PROVE  e \in (since[o] + 1)..emitted \/ e = emitted + 1
    BY <2>3 DEF StreamInv, QueueOK
  <2> QED
    BY <2>1, <2>2, <2>4 DEF LostInv, NothingLost
<1>2. CASE \/ \E w \in Writers : QuietWriterStep(w) \/ \E list \in BOOLEAN : Add(w, list)
           \/ Wait
           \/ UNCHANGED vars
  <2>1. /\ UNCHANGED <<emitted, events, observers, batch, todo, delivered>>
        /\ edt = "taken" <=> edt' = "taken"
    BY <1>2, QuietStep
  <2>2. UNCHANGED <<since, skipped>>
    BY <1>2 DEF QuietWriterStep, Add, Pause, Write, ReadPaused, Resume, Resumed, Wait, vars,
                historyVars
  <2> QED
    BY <2>1, <2>2 DEF LostInv, NothingLost
<1>3. ASSUME NEW o \in Observers, AddObserver(o)
      PROVE  LostInv'
  <2>1. /\ since' = [since EXCEPT ![o] = emitted] /\ skipped' = [skipped EXCEPT ![o] = {}]
        /\ o \notin InSeq(observers) /\ observers' = Append(observers, o)
        /\ UNCHANGED <<events, edt, batch, todo, emitted, delivered>>
    BY <1>3 DEF AddObserver
  <2>2. InSeq(observers') = InSeq(observers) \union {o} /\ InSeq(observers) \subseteq Observers
    <3>1. observers \in Seq(Observers)
      BY DEF StreamInv, ObserversOK
    <3>2. InSeq(Append(observers, o)) = InSeq(observers) \union {o}
      BY <3>1, InSeqAppend
    <3>3. InSeq(observers) \subseteq Observers
      BY <3>1, ElementOfSeq DEF InSeq
    <3> QED
      BY <2>1, <3>2, <3>3
  <2>3. since' \in [Observers -> Nat] /\ skipped' \in [Observers -> SUBSET Nat] /\ emitted \in Nat
    BY <2>1 DEF LostInv, StreamInv, QueueOK
  <2>4. (since'[o] + 1)..emitted = {}
    BY <2>1, <2>3 DEF LostInv
  <2>5. \A p \in InSeq(observers) : since'[p] = since[p] /\ skipped'[p] = skipped[p]
    BY <2>1, <2>2 DEF LostInv
  <2> QED
    BY <2>1, <2>2, <2>3, <2>4, <2>5 DEF LostInv, NothingLost
<1>4. ASSUME NEW o \in Observers, RemoveObserver(o)
      PROVE  LostInv'
  <2>1. UNCHANGED <<events, edt, batch, todo, emitted, delivered, since, skipped>>
    BY <1>4 DEF RemoveObserver, historyVars
  <2>2. InSeq(observers') \subseteq InSeq(observers)
    <3>1. PICK i \in 1..Len(observers) : observers' = Without(observers, i)
      BY <1>4 DEF RemoveObserver
    <3>2. observers \in Seq(Observers) /\ Distinct(observers)
      BY DEF StreamInv, ObserversOK
    <3> QED
      BY <3>1, <3>2, DistinctRemoved
  <2> QED
    BY <2>1, <2>2 DEF LostInv, NothingLost
<1>5. CASE Take
  <2>1. /\ batch' = events /\ edt = "check" /\ edt' = "taken" /\ batch = <<>>
        /\ UNCHANGED <<emitted, observers, todo, delivered, since, skipped>>
    BY <1>5 DEF Take, historyVars, StreamInv, BatchOK
  <2>2. InSeq(batch') = InSeq(events) /\ InSeq(batch) = {}
    BY <2>1 DEF InSeq
  <2> QED
    BY <2>1, <2>2 DEF LostInv, NothingLost
<1>6. CASE Dispatch
  <2>1. /\ edt = "taken" /\ todo' = observers
        /\ UNCHANGED <<emitted, events, observers, batch, delivered, since, skipped>>
    BY <1>6 DEF Dispatch, historyVars
  <2> QED
    BY <2>1 DEF LostInv, NothingLost
<1>7. CASE CallObserver
  <2> DEFINE h == Head(todo)
  <2>1. /\ h \in Observers /\ InSeq(todo') = InSeq(todo) \ {h}
        /\ delivered' = [delivered EXCEPT ![h] = @ \o batch]
        /\ UNCHANGED <<emitted, events, observers, batch>>
        /\ edt = "dispatch" /\ edt' = "dispatch" /\ h \in InSeq(todo)
    BY <1>7, CallStep
  <2>2. UNCHANGED <<since, skipped>>
    BY <1>7 DEF CallObserver
  <2>3. InSeq(delivered'[h]) = InSeq(delivered[h]) \union InSeq(batch)
    <3>1. Before \in Nat /\ batch \in Seq(Nat) /\ \A i \in 1..Len(batch) : batch[i] = Before + i
      BY DEF StreamInv, QueueOK, BatchOK, Before
    <3>2. /\ delivered[h] \in Seq(Nat) /\ Ordered(delivered[h])
          /\ \A i \in 1..Len(delivered[h]) : delivered[h][i] <= Before
      BY <2>1 DEF DeliveredOK, KnownTo
    <3>3. delivered'[h] = delivered[h] \o batch
      BY <2>1 DEF DeliveredOK
    <3> QED
      BY <3>1, <3>2, <3>3, BatchFollows
  <2>4. \A o \in Observers \ {h} : delivered'[o] = delivered[o]
    BY <2>1 DEF DeliveredOK
  <2>5. InSeq(observers) \subseteq Observers
    BY DEF StreamInv, ObserversOK, InSeq
  <2> HIDE DEF h
  <2>6. ASSUME NEW o \in InSeq(observers), NEW e \in (since[o] + 1)..emitted
        PROVE  \/ e \in InSeq(delivered'[o]) \union InSeq(events) \union skipped[o]
               \/ e \in InSeq(batch) /\ o \in InSeq(todo')
    <3>1. \/ e \in InSeq(delivered[o]) \union InSeq(events) \union skipped[o]
          \/ e \in InSeq(batch) /\ o \in InSeq(todo)
      BY <2>1, <2>6 DEF LostInv, NothingLost
    <3> QED
      BY <3>1, <2>1, <2>3, <2>4, <2>5
  <2> QED
    BY <2>1, <2>2, <2>6 DEF LostInv, NothingLost
<1>8. CASE EndDispatch
  <2>1. /\ edt = "dispatch" /\ todo = <<>>
        /\ UNCHANGED <<emitted, events, observers, todo, delivered, since, skipped>>
    BY <1>8 DEF EndDispatch, historyVars
  <2>2. InSeq(todo) = {}
    BY <2>1 DEF InSeq
  <2> QED
    BY <2>1, <2>2 DEF LostInv, NothingLost
<1>9. CASE ObserverThrows
  <2>1. /\ edt = "dispatch"
        /\ skipped' = [o \in Observers |-> IF o \in InSeq(todo) THEN skipped[o] \union InSeq(batch)
                                                                ELSE skipped[o]]
        /\ UNCHANGED <<emitted, events, observers, delivered, since>>
    BY <1>9 DEF ObserverThrows
  <2>2. InSeq(batch) \subseteq Nat /\ InSeq(observers) \subseteq Observers
    BY DEF StreamInv, BatchOK, ObserversOK, InSeq
  <2>3. skipped' \in [Observers -> SUBSET Nat]
    BY <2>1, <2>2 DEF LostInv
  <2> QED
    BY <2>1, <2>2, <2>3 DEF LostInv, NothingLost
<1> QED
  BY <1>1, <1>2, <1>3, <1>4, <1>5, <1>6, <1>7, <1>8, <1>9
     DEF Next, WriterStep, QuietWriterStep, EDTStep

LEMMA InitDelivered == Init => DeliveredOK /\ LostInv
<1> SUFFICES ASSUME Init
             PROVE  DeliveredOK /\ LostInv
  OBVIOUS
<1>1. \A o \in Observers : delivered[o] = <<>> /\ Len(delivered[o]) = 0
  BY DEF Init
<1>2. Len(observers) = 0
  BY DEF Init
<1> QED
  BY <1>1, <1>2 DEF Init, DeliveredOK, LostInv, NothingLost, Ordered, InSeq

\* For any number of writers and observers: an observer is told of every event
\* at most once and in the order in which they happened.
THEOREM EventsInOrder == Spec => []OnceInOrder
<1>1. StreamInv /\ DeliveredOK /\ [Next]_vars => (StreamInv /\ DeliveredOK)'
  BY StepImplements, OrderKept
<1>2. DeliveredOK => OnceInOrder
  BY DEF DeliveredOK, OnceInOrder, Ordered
<1> QED
  BY InitStream, InitDelivered, <1>1, <1>2, PTL DEF Spec

\* For any number of writers and observers: no event gets lost between the
\* writers and an observer, unless an observer threw.
THEOREM EventsNotLost == Spec => []NothingLost
<1>1. /\ StreamInv /\ DeliveredOK /\ LostInv /\ [Next]_vars
      => (StreamInv /\ DeliveredOK /\ LostInv)'
  BY StepImplements, OrderKept, LostKept
<1>2. LostInv => NothingLost
  BY DEF LostInv
<1> QED
  BY InitStream, InitDelivered, <1>1, <1>2, PTL DEF Spec

-----------------------------------------------------------------------------
(* Types *)

\* The writers that are to queue an event.
Queueing == {v \in Writers : At(v, "queue")}

\* There is room for their events within the bound.
Room == emitted + Cardinality(Queueing) <= MaxEvents

Typed == TypeOK /\ Room

LEMMA QueueingFinite == IsFiniteSet(Queueing) /\ Cardinality(Queueing) \in Nat
<1>1. Queueing \subseteq Writers
  BY DEF Queueing
<1> QED
  BY <1>1, WritersFinite, FS_Subset, FS_CardinalityType

\* The writers that are to queue an event after w moved to s.
LEMMA QueueingMoves ==
  ASSUME Typed, NEW w \in Writers, NEW s \in Steps, Goto(w, s)
  PROVE  /\ writer' \in [Writers -> [pc : Steps, list : BOOLEAN]]
         /\ Queueing' = IF s = "queue" THEN Queueing \union {w} ELSE Queueing \ {w}
<1>1. writer \in [Writers -> [pc : Steps, list : BOOLEAN]]
  BY DEF Typed, TypeOK
<1>2. writer' = [writer EXCEPT ![w].pc = s]
  BY DEF Goto
<1>3. /\ writer' \in [Writers -> [pc : Steps, list : BOOLEAN]]
      /\ writer'[w].pc = s
      /\ \A v \in Writers \ {w} : writer'[v] = writer[v]
  BY <1>1, <1>2
<1> QED
  BY <1>3 DEF Queueing, At

LEMMA TypedAdd ==
  ASSUME Typed, NEW w \in Writers, NEW list \in BOOLEAN, Add(w, list)
  PROVE  Typed'
<1>1. /\ writer' = [writer EXCEPT ![w] = [pc |-> IF list THEN "pause" ELSE "write", list |-> list]]
      /\ writer[w].pc = "idle"
      /\ UNCHANGED <<events, paused, observers, edt, batch, todo, historyVars>>
  BY DEF Add, At
<1>2. writer' \in [Writers -> [pc : Steps, list : BOOLEAN]]
  BY <1>1 DEF Typed, TypeOK, Steps
<1>3. Queueing' = Queueing
  BY <1>1 DEF Queueing, At, Typed, TypeOK
<1> QED
  BY <1>1, <1>2, <1>3 DEF Typed, TypeOK, Room, historyVars

LEMMA TypedWriter ==
  ASSUME Typed, NEW w \in Writers, WriterStep(w)
  PROVE  Typed'
<1>0. {"write", "queue", "queued", "resume", "resuming", "idle"} \subseteq Steps
  BY DEF Steps
<1>1. CASE Write(w)
  <2>1. PICK s \in {"queue", Done(w)} :
          /\ Goto(w, s)
          /\ s = "queue" => emitted + Cardinality(Queueing) < MaxEvents
    BY <1>1 DEF Write, Queueing, Done
  <2>2. s \in Steps
    BY <1>0 DEF Done
  <2>3. UNCHANGED <<events, paused, observers, edt, batch, todo, historyVars>> /\ w \notin Queueing
    BY <1>1 DEF Write, At, Queueing
  <2>4. /\ writer' \in [Writers -> [pc : Steps, list : BOOLEAN]]
        /\ Queueing' = IF s = "queue" THEN Queueing \union {w} ELSE Queueing \ {w}
    BY <2>1, <2>2, QueueingMoves
  <2>5. Room'
    <3>1. CASE s = "queue"
      <4>1. Cardinality(Queueing') = Cardinality(Queueing) + 1
        BY <2>3, <2>4, <3>1, QueueingFinite, FS_AddElement
      <4> QED
        BY <2>1, <2>3, <3>1, <4>1, QueueingFinite, MaxEventsNat DEF Room, Typed, TypeOK, historyVars
    <3>2. CASE s # "queue"
      <4>1. Queueing' = Queueing
        BY <2>3, <2>4, <3>2
      <4> QED
        BY <2>3, <4>1 DEF Room, Typed, historyVars
    <3> QED
      BY <3>1, <3>2
  <2> QED
    BY <2>3, <2>4, <2>5 DEF Typed, TypeOK, historyVars
<1>2. CASE Queue(w)
  <2>1. /\ Goto(w, "queued") /\ w \in Queueing
        /\ emitted' = emitted + 1 /\ events' = Append(events, emitted + 1)
        /\ UNCHANGED <<paused, observers, edt, batch, todo, delivered, since, skipped>>
    BY <1>2 DEF Queue, At, Queueing
  <2>2. writer' \in [Writers -> [pc : Steps, list : BOOLEAN]] /\ Queueing' = Queueing \ {w}
    BY <1>0, <2>1, QueueingMoves
  <2>3. Cardinality(Queueing') = Cardinality(Queueing) - 1 /\ Cardinality(Queueing') \in Nat
    <3>1. IsFiniteSet(Queueing')
      BY <2>2, QueueingFinite, FS_Subset
    <3> QED
      BY <2>1, <2>2, <3>1, QueueingFinite, FS_RemoveElement, FS_CardinalityType
  <2>4. emitted \in 0..MaxEvents /\ emitted + Cardinality(Queueing) <= MaxEvents
    BY DEF Typed, TypeOK, Room
  <2>5. emitted + 1 \in Events /\ emitted + 1 \in 0..MaxEvents
    BY <2>3, <2>4, QueueingFinite, MaxEventsNat DEF Events
  <2>6. Room'
    BY <2>1, <2>3, <2>4, QueueingFinite, MaxEventsNat DEF Room
  <2>7. events' \in Seq(Events)
    BY <2>1, <2>5 DEF Typed, TypeOK
  <2> QED
    BY <2>1, <2>2, <2>5, <2>6, <2>7 DEF Typed, TypeOK
<1>3. CASE Pause(w) \/ ReadPaused(w) \/ Resume(w) \/ Resumed(w)
  <2>1. PICK s \in {"write", "idle", "resuming"} : Goto(w, s)
    BY <1>3 DEF Pause, ReadPaused, Resume, Resumed
  <2>2. w \notin Queueing
    BY <1>3 DEF Pause, ReadPaused, Resume, Resumed, At, Queueing
  <2>3. writer' \in [Writers -> [pc : Steps, list : BOOLEAN]] /\ Queueing' = Queueing
    BY <1>0, <2>1, <2>2, QueueingMoves
  <2>4. UNCHANGED <<events, observers, batch, todo, historyVars>> /\ paused' \in BOOLEAN
    BY <1>3 DEF Pause, ReadPaused, Resume, Resumed, Typed, TypeOK
  <2>5. edt' = edt \/ (edt = "waiting" /\ edt' = "check")
    BY <1>3 DEF Pause, ReadPaused, Resume, Resumed, Notify
  <2>6. Room'
    BY <2>3, <2>4 DEF Typed, Room, historyVars
  <2> QED
    BY <2>3, <2>4, <2>5, <2>6 DEF Typed, TypeOK, historyVars
<1> QED
  BY <1>1, <1>2, <1>3 DEF WriterStep

\* The observers and the dispatch thread leave the writers alone.
LEMMA TypedOther ==
  ASSUME Typed,
         \/ \E o \in Observers : AddObserver(o) \/ RemoveObserver(o)
         \/ EDTStep
         \/ ObserverThrows
         \/ UNCHANGED vars
  PROVE  Typed'
<1>1. UNCHANGED <<writer, emitted, paused>>
  BY DEF AddObserver, RemoveObserver, EDTStep, Wait, Take, Dispatch, CallObserver,
         EndDispatch, ObserverThrows, vars, historyVars
<1>2. Room'
  BY <1>1 DEF Typed, Room, Queueing, At
<1>3. CASE \E o \in Observers : AddObserver(o)
  <2>1. PICK o \in Observers : AddObserver(o)
    BY <1>3
  <2>2. observers' \in Seq(Observers)
    BY <2>1 DEF AddObserver, Typed, TypeOK
  <2>3. since' \in [Observers -> 0..MaxEvents] /\ skipped' \in [Observers -> SUBSET Events]
    BY <2>1 DEF AddObserver, Typed, TypeOK
  <2> QED
    BY <1>1, <1>2, <2>1, <2>2, <2>3 DEF AddObserver, Typed, TypeOK
<1>4. CASE \E o \in Observers : RemoveObserver(o)
  <2>1. PICK o \in Observers : RemoveObserver(o)
    BY <1>4
  <2>2. PICK i \in 1..Len(observers) : observers' = Without(observers, i)
    BY <2>1 DEF RemoveObserver
  <2>3. observers' \in Seq(Observers)
    <3>1. Len(observers) - 1 \in Nat /\ observers \in Seq(Observers)
      BY <2>2 DEF Typed, TypeOK
    <3>2. \A j \in 1..Len(observers) - 1 : j \in 1..Len(observers) /\ j + 1 \in 1..Len(observers)
      BY <3>1
    <3>3. \A j \in 1..Len(observers) - 1 :
            (IF j < i THEN observers[j] ELSE observers[j + 1]) \in Observers
      BY <3>1, <3>2
    <3> QED
      BY <2>2, <3>1, <3>3 DEF Without
  <2> QED
    BY <1>1, <1>2, <2>1, <2>3 DEF RemoveObserver, Typed, TypeOK, historyVars
<1>5. CASE EDTStep
  <2>1. CASE Wait \/ Take \/ Dispatch \/ EndDispatch
    <3>1. /\ edt' \in {"check", "waiting", "taken", "dispatch"}
          /\ edt' \in {"check", "waiting"} => batch' = <<>> /\ todo' = <<>>
      BY <2>1 DEF Wait, Take, Dispatch, EndDispatch, Typed, TypeOK
    <3>2. /\ events' \in Seq(Events) /\ batch' \in Seq(Events)
          /\ observers' \in Seq(Observers) /\ todo' \in Seq(Observers)
      BY <2>1 DEF Wait, Take, Dispatch, EndDispatch, Typed, TypeOK
    <3>3. UNCHANGED historyVars
      BY <2>1 DEF Wait, Take, Dispatch, EndDispatch
    <3> QED
      BY <1>1, <1>2, <3>1, <3>2, <3>3 DEF Typed, TypeOK, historyVars
  <2>2. CASE CallObserver
    <3>1. Head(todo) \in Observers /\ Tail(todo) \in Seq(Observers)
      BY <2>2 DEF CallObserver, Typed, TypeOK
    <3>2. delivered[Head(todo)] \o batch \in Seq(Events)
      BY <3>1 DEF Typed, TypeOK
    <3>3. delivered' \in [Observers -> Seq(Events)] /\ todo' \in Seq(Observers)
      BY <2>2, <3>1, <3>2 DEF CallObserver, Typed, TypeOK
    <3> QED
      BY <1>1, <1>2, <2>2, <3>3 DEF CallObserver, Typed, TypeOK
  <2> QED
    BY <1>5, <2>1, <2>2 DEF EDTStep
<1>6. CASE ObserverThrows
  <2>1. InSeq(batch) \subseteq Events
    BY DEF InSeq, Typed, TypeOK
  <2>2. skipped' \in [Observers -> SUBSET Events]
    BY <1>6, <2>1 DEF ObserverThrows, Typed, TypeOK
  <2> QED
    BY <1>1, <1>2, <1>6, <2>2 DEF ObserverThrows, Typed, TypeOK
<1>7. CASE UNCHANGED vars
  BY <1>2, <1>7 DEF vars, historyVars, Typed, TypeOK
<1> QED
  BY <1>3, <1>4, <1>5, <1>6, <1>7

\* For any number of writers, observers and events: the lists and the threads
\* keep their types, no more events are queued than the bound admits, and the
\* dispatch thread waits or looks for events with an empty batch.
THEOREM TypeCorrect == Spec => []TypeOK
<1>1. Init => Typed
  <2> SUFFICES ASSUME Init
               PROVE  Typed
    OBVIOUS
  <2>1. Queueing = {} /\ Cardinality(Queueing) = 0
    <3>1. Queueing = {}
      BY DEF Init, Queueing, At
    <3> QED
      BY <3>1, FS_EmptySet
  <2>2. TypeOK
    <3>1. 0 \in 0..MaxEvents /\ {} \in SUBSET Events
      BY MaxEventsNat
    <3>2. /\ events \in Seq(Events) /\ batch \in Seq(Events)
          /\ observers \in Seq(Observers) /\ todo \in Seq(Observers)
          /\ writer \in [Writers -> [pc : Steps, list : BOOLEAN]]
      BY DEF Init, Steps
    <3>3. /\ delivered \in [Observers -> Seq(Events)]
          /\ since \in [Observers -> 0..MaxEvents]
          /\ skipped \in [Observers -> SUBSET Events]
      BY <3>1 DEF Init
    <3> QED
      BY <3>1, <3>2, <3>3 DEF Init, TypeOK
  <2>3. Room
    BY <2>1, MaxEventsNat DEF Init, Room
  <2> QED
    BY <2>2, <2>3 DEF Typed
<1>2. Typed /\ [Next]_vars => Typed'
  BY TypedOther, TypedAdd, TypedWriter DEF Next
<1>3. Typed => TypeOK
  BY DEF Typed
<1> QED
  BY <1>1, <1>2, <1>3, PTL DEF Spec
=============================================================================
