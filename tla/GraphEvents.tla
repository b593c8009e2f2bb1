----------------------------- MODULE GraphEvents -----------------------------
(***************************************************************************)
(* The events of a DNARS graph: threads that add statements queue events   *)
(* (EventManager, StatementAPI), the event dispatch thread (EDT) takes all *)
(* of them at once and calls the observers in turn.  Three Java monitors   *)
(* are involved: the graph itself (for paused), the list of events and the *)
(* list of observers.                                                      *)
(***************************************************************************)
EXTENDS Naturals, Sequences, FiniteSets

CONSTANTS
  Writers,    \* threads that add statements to the graph
  Batching,   \* the writers that may add a list of statements at once
  Observers,  \* observers of the graph
  MaxEvents,  \* bound: events queued
  MayThrow    \* TRUE: an observer or a revision may throw

ASSUME WritersFinite == IsFiniteSet(Writers)
ASSUME WritersBatch == Batching \subseteq Writers
ASSUME MaxEventsNat == MaxEvents \in Nat
ASSUME MayThrowBoolean == MayThrow \in BOOLEAN

Events == 1..MaxEvents   \* numbered in the order in which they are queued

VARIABLES
  events,     \* EventManager.list
  paused,     \* EventManager._paused
  observers,  \* EventManager.observers
  writer,     \* what each writer is doing, and whether it adds a whole list
  edt,        \* what the dispatch thread is doing
  batch,      \* EDT.eventsToDispatch
  todo,       \* the observers that dispatch has not called yet
  emitted,    \* history: number of events queued so far
  delivered,  \* history: the events each observer was called with, in order
  since,      \* history: what was emitted when the observer was last added
  skipped     \* history: events an observer missed as another one threw

historyVars == <<emitted, delivered, since, skipped>>
vars == <<events, paused, observers, writer, edt, batch, todo, historyVars>>

Steps == {"idle", "pause", "write", "queue", "queued", "resume", "resuming"}

Init ==
  /\ events = <<>>
  /\ paused = FALSE
  /\ observers = <<>>
  /\ writer = [w \in Writers |-> [pc |-> "idle", list |-> FALSE]]
  /\ edt = "check"
  /\ batch = <<>>
  /\ todo = <<>>
  /\ emitted = 0
  /\ delivered = [o \in Observers |-> <<>>]
  /\ since = [o \in Observers |-> 0]
  /\ skipped = [o \in Observers |-> {}]

\* The monitors.  The dispatch thread holds the list of events in one step
\* only, and the list of observers while it calls them.
GraphFree == \A w \in Writers : writer[w].pc # "resuming"
EventsFree == \A w \in Writers : writer[w].pc # "queued"
ObserversFree == edt # "dispatch"

At(w, pc) == writer[w].pc = pc
Goto(w, pc) == writer' = [writer EXCEPT ![w].pc = pc]
InSeq(s) == {s[i] : i \in 1..Len(s)}
Without(s, i) == [j \in 1..(Len(s) - 1) |-> IF j < i THEN s[j] ELSE s[j + 1]]

-----------------------------------------------------------------------------
(* StatementAPI and EventManager, on a writer's thread *)

\* list.notify wakes the dispatch thread if it waits.
Notify == edt' = IF edt = "waiting" THEN "check" ELSE edt

\* add(statement), or add(statements) which pauses the events meanwhile.
Add(w, list) ==
  /\ At(w, "idle")
  /\ list => w \in Batching
  /\ writer' = [writer EXCEPT ![w] = [pc |-> IF list THEN "pause" ELSE "write", list |-> list]]
  /\ UNCHANGED <<events, paused, observers, edt, batch, todo, historyVars>>

Pause(w) ==
  /\ At(w, "pause")
  /\ GraphFree
  /\ paused' = TRUE
  /\ Goto(w, "write")
  /\ UNCHANGED <<events, observers, edt, batch, todo, historyVars>>

\* Where the writer goes after a statement, and at the end of them.
Done(w) == IF writer[w].list THEN "resume" ELSE "idle"

\* The statement is written to the graph; or it is not valid; or its revision
\* throws, or the list is finished, which leads to the finally block.
Write(w) ==
  /\ At(w, "write")
  /\ \/ /\ emitted + Cardinality({v \in Writers : At(v, "queue")}) < MaxEvents  \* the bound
        /\ Goto(w, "queue")
     \/ Goto(w, Done(w))
  /\ UNCHANGED <<events, paused, observers, edt, batch, todo, historyVars>>

\* addEvent takes the list of events and appends to it.
Queue(w) ==
  /\ At(w, "queue")
  /\ EventsFree
  /\ emitted' = emitted + 1
  /\ events' = Append(events, emitted + 1)
  /\ Goto(w, "queued")
  /\ UNCHANGED <<paused, observers, edt, batch, todo, delivered, since, skipped>>

\* Mutant: addEvent does not notify.
MutQuiet(w) ==
  /\ At(w, "queued")
  /\ GraphFree
  /\ Goto(w, IF writer[w].list THEN "write" ELSE "idle")
  /\ UNCHANGED <<events, paused, observers, edt, batch, todo, historyVars>>

\* Holding it, it reads paused, for which it needs the graph's monitor.
ReadPaused(w) ==
  /\ At(w, "queued")
  /\ GraphFree
  /\ IF paused THEN UNCHANGED edt ELSE Notify
  /\ Goto(w, IF writer[w].list THEN "write" ELSE "idle")
  /\ UNCHANGED <<events, paused, observers, batch, todo, historyVars>>

\* paused = false takes the graph's monitor ...
Resume(w) ==
  /\ At(w, "resume")
  /\ GraphFree
  /\ paused' = FALSE
  /\ Goto(w, "resuming")
  /\ UNCHANGED <<events, observers, edt, batch, todo, historyVars>>

\* Mutant: the events that came meanwhile are not announced.
MutResumed(w) ==
  /\ At(w, "resuming")
  /\ EventsFree
  /\ Goto(w, "idle")
  /\ UNCHANGED <<events, paused, observers, edt, batch, todo, historyVars>>

\* ... and, holding it, the list of events.
Resumed(w) ==
  /\ At(w, "resuming")
  /\ EventsFree
  /\ IF events # <<>> THEN Notify ELSE UNCHANGED edt
  /\ Goto(w, "idle")
  /\ UNCHANGED <<events, paused, observers, batch, todo, historyVars>>

-----------------------------------------------------------------------------
(* The observers *)

AddObserver(o) ==
  /\ ObserversFree
  /\ o \notin InSeq(observers)   \* DNarsAgent adds itself once per graph
  /\ observers' = Append(observers, o)
  /\ since' = [since EXCEPT ![o] = emitted]
  /\ skipped' = [skipped EXCEPT ![o] = {}]
  /\ UNCHANGED <<events, paused, writer, edt, batch, todo, emitted, delivered>>

RemoveObserver(o) ==
  /\ ObserversFree
  /\ \E i \in 1..Len(observers) :
       /\ observers[i] = o
       /\ observers' = Without(observers, i)
  /\ UNCHANGED <<events, paused, writer, edt, batch, todo, historyVars>>

-----------------------------------------------------------------------------
(* EDT *)

\* waitForEvents: the wait gives up the list of events.
Wait ==
  /\ edt = "check"
  /\ EventsFree
  /\ events = <<>>
  /\ edt' = "waiting"
  /\ UNCHANGED <<events, paused, observers, writer, batch, todo, historyVars>>

\* Mutant: the list is copied and not emptied.
MutKeepsEvents ==
  /\ edt = "check"
  /\ EventsFree
  /\ events # <<>>
  /\ batch' = events
  /\ edt' = "taken"
  /\ UNCHANGED <<events, paused, observers, writer, todo, historyVars>>

\* Mutant: the list is emptied before it is copied.
MutClearsFirst ==
  /\ edt = "check"
  /\ EventsFree
  /\ events # <<>>
  /\ batch' = <<>>
  /\ events' = <<>>
  /\ edt' = "taken"
  /\ UNCHANGED <<paused, observers, writer, todo, historyVars>>

\* cloneOfPendingEvents.
Take ==
  /\ edt = "check"
  /\ EventsFree
  /\ events # <<>>
  /\ batch' = events
  /\ events' = <<>>
  /\ edt' = "taken"
  /\ UNCHANGED <<paused, observers, writer, todo, historyVars>>

\* dispatch takes the list of observers ...
Dispatch ==
  /\ edt = "taken"
  /\ edt' = "dispatch"
  /\ todo' = observers
  /\ UNCHANGED <<events, paused, observers, writer, batch, historyVars>>

\* ... and calls one after the other.
CallObserver ==
  /\ edt = "dispatch"
  /\ todo # <<>>
  /\ delivered' = [delivered EXCEPT ![Head(todo)] = @ \o batch]
  /\ todo' = Tail(todo)
  /\ UNCHANGED <<events, paused, observers, writer, edt, batch, emitted, since, skipped>>

EndDispatch ==
  /\ edt = "dispatch"
  /\ todo = <<>>
  /\ edt' = "check"
  /\ batch' = <<>>
  /\ UNCHANGED <<events, paused, observers, writer, todo, historyVars>>

\* Mutant: the observers that were not called stay to be called.
MutThrows ==
  /\ MayThrow
  /\ edt = "dispatch"
  /\ todo # <<>>
  /\ edt' = "check"
  /\ batch' = <<>>
  /\ UNCHANGED <<events, paused, observers, writer, todo, historyVars>>

\* An observer throws: processEvents logs it, and the rest is not called.
ObserverThrows ==
  /\ MayThrow
  /\ edt = "dispatch"
  /\ todo # <<>>
  /\ skipped' = [o \in Observers |-> IF o \in InSeq(todo) THEN skipped[o] \union InSeq(batch)
                                                          ELSE skipped[o]]
  /\ edt' = "check"
  /\ batch' = <<>>
  /\ todo' = <<>>
  /\ UNCHANGED <<events, paused, observers, writer, emitted, delivered, since>>

-----------------------------------------------------------------------------
WriterStep(w) == Pause(w) \/ Write(w) \/ Queue(w) \/ ReadPaused(w) \/ Resume(w) \/ Resumed(w)
EDTStep == Wait \/ Take \/ Dispatch \/ CallObserver \/ EndDispatch

Next ==
  \/ \E w \in Writers, list \in BOOLEAN : Add(w, list)
  \/ \E w \in Writers : WriterStep(w)
  \/ \E o \in Observers : AddObserver(o) \/ RemoveObserver(o)
  \/ EDTStep
  \/ ObserverThrows

Spec == Init /\ [][Next]_vars

\* The threads run, and a list of statements comes to its end.
Fairness == WF_vars(EDTStep \/ ObserverThrows) /\ \A w \in Writers : WF_vars(WriterStep(w))

FairSpec == Spec /\ Fairness

-----------------------------------------------------------------------------
(* Properties *)

\* The lists and the threads keep their types; the dispatch thread waits or
\* looks for events with an empty batch.
TypeOK ==
  /\ events \in Seq(Events)
  /\ paused \in BOOLEAN
  /\ observers \in Seq(Observers)
  /\ writer \in [Writers -> [pc : Steps, list : BOOLEAN]]
  /\ edt \in {"check", "waiting", "taken", "dispatch"}
  /\ batch \in Seq(Events)
  /\ todo \in Seq(Observers)
  /\ emitted \in 0..MaxEvents
  /\ delivered \in [Observers -> Seq(Events)]
  /\ since \in [Observers -> 0..MaxEvents]
  /\ skipped \in [Observers -> SUBSET Events]
  /\ edt \in {"check", "waiting"} => batch = <<>> /\ todo = <<>>

\* An observer is told of every event at most once and in the order in which
\* they happened (addEvent appends, cloneOfPendingEvents copies and clears).
OnceInOrder ==
  \A o \in Observers : \A i, j \in DOMAIN delivered[o] : i < j => delivered[o][i] < delivered[o][j]

\* No event gets lost between the writers and an observer: one that was
\* queued while the observer was registered has been delivered, or is still
\* in the list or in the batch, unless the dispatch was cut short by an
\* observer that threw.
NothingLost ==
  \A o \in InSeq(observers) : \A e \in (since[o] + 1)..emitted :
    \/ e \in InSeq(delivered[o]) \union InSeq(events) \union skipped[o]
    \/ e \in InSeq(batch) /\ (edt = "taken" \/ o \in InSeq(todo))

\* The dispatch thread never sleeps through events: when it waits although
\* there are some, a writer is on the way to wake it, at the latest when it
\* ends the pause (addEvent, paused_=).
NoMissedWakeup ==
  edt = "waiting" /\ events # <<>> =>
    \E w \in Writers : At(w, "queued") \/ (writer[w].list /\ ~At(w, "idle") /\ ~At(w, "pause"))

\* One writer holds the list of events and needs the graph, another one holds
\* the graph and needs the list: neither goes on.
Blocked == (\E w \in Writers : At(w, "queued")) /\ (\E w \in Writers : At(w, "resuming"))

\* Every event is taken for dispatch in the end, also those that were queued
\* while the events were paused, unless two writers block each other, which
\* takes two threads that add statements to one graph.
AllDispatched == \A e \in Events : e \in InSeq(events) ~> e \notin InSeq(events) \/ Blocked

-----------------------------------------------------------------------------
(* The stream of events that all of this implements. *)

Stream == INSTANCE EventStream WITH
  given <- emitted - Len(events) - (IF edt = "taken" THEN Len(batch) ELSE 0),
  registered <- InSeq(observers),
  giving <- edt = "dispatch",
  batch <- IF edt = "dispatch" THEN batch ELSE <<>>,
  pending <- InSeq(todo)

\* Whatever the threads do, the observers see one stream of events in batches
\* that follow on each other (EventManager, EDT): writing, pausing, waiting,
\* and taking the events out of the list, show nowhere else.
ImplementsStream == Stream!Spec
=============================================================================
