----------------------------- MODULE ContractNet -----------------------------
(***************************************************************************)
(* The contract net protocol of Siebog: one Initiator, asked once to have  *)
(* a task done, and the agents that run when it calls for proposals.  Both *)
(* sides are agents whose handlers run one message at a time; an exception *)
(* in a handler is caught by XjafAgent and what was done before it stays.  *)
(* The delayed messages to itself are the initiator's two timeouts.        *)
(***************************************************************************)
EXTENDS Integers, FiniteSets

CONSTANTS
  Participants,  \* the other agents that are running at the call
  NoOptimal,     \* what getOptimalProposal may do without proposals: "throws", "null"
  MaxLosses      \* bound: failed sends (postToReceiver swallows them)

None == "none"

ASSUME ParticipantsFinite == IsFiniteSet(Participants) /\ None \notin Participants
ASSUME NoOptimalKnown == NoOptimal \subseteq {"throws", "null"} /\ NoOptimal # {}
ASSUME MaxLossesNat == MaxLosses \in Nat

VARIABLES
  status,            \* Initiator.status
  pendingProposals,  \* Initiator.pendingProposals
  bestProposal,      \* the participant of Initiator.bestProposal, or None
  proposals,         \* the participants of Initiator.proposals
  rejectedAID,       \* Initiator.rejectedAID
  requested,         \* the REQUEST was handled
  cfps,              \* CALL_FOR_PROPOSAL messages, by receiver
  accepts,           \* ACCEPT_PROPOSAL messages, by receiver
  replies,           \* messages to the initiator: kind and sender
  replyBy,           \* the delayed "replyBy" message is on its way
  waiting,           \* delayed "waiting" messages, by the participant they name
  losses,            \* failed sends so far
  deadlineLost,      \* history: the "replyBy" message was one of them
  awarded,           \* history: who was sent an ACCEPT_PROPOSAL
  turnedDown,        \* history: who was sent a REJECT_PROPOSAL
  successes,         \* history: how often success() was called
  failed,            \* history: a participant has failed
  late               \* history: a participant was given up that was still at work

initiatorVars == <<status, pendingProposals, bestProposal, proposals, rejectedAID>>
historyVars == <<awarded, turnedDown, successes, failed, late>>
vars == <<initiatorVars, requested, cfps, accepts, replies, replyBy, waiting, losses, deadlineLost, historyVars>>

Kinds == {"propose", "refuse", "inform", "failure"}
Reply(kind, p) == [kind |-> kind, from |-> p]

Init ==
  /\ status = 0
  /\ pendingProposals = 0
  /\ bestProposal = None
  /\ proposals = {}
  /\ rejectedAID = {}
  /\ requested = FALSE
  /\ cfps = {}
  /\ accepts = {}
  /\ replies = {}
  /\ replyBy = FALSE
  /\ waiting = {}
  /\ losses = 0
  /\ deadlineLost = FALSE
  /\ awarded = {}
  /\ turnedDown = {}
  /\ successes = 0
  /\ failed = FALSE
  /\ late = FALSE

-----------------------------------------------------------------------------
(* Initiator *)

\* cfp(): everyone who runs is called, and so many answers are expected.
Cfp ==
  /\ ~requested
  /\ requested' = TRUE
  /\ status' = 0
  /\ cfps' = Participants
  /\ pendingProposals' = Cardinality(Participants)
  /\ replyBy' = TRUE
  /\ UNCHANGED <<bestProposal, proposals, rejectedAID, accepts, replies, waiting, losses, deadlineLost, historyVars>>

\* Mutant: the participant that is accepted stays among the rejected.
MutAccept(p, props, rej) ==
  /\ bestProposal' = p
  /\ proposals' = props \ {p}
  /\ rejectedAID' = rej
  /\ status' = 2
  /\ accepts' = accepts \union {p}
  /\ awarded' = awarded \union {p}

\* The rest of acceptProposal, once a proposal is chosen.
Accept(p, props, rej) ==
  /\ bestProposal' = p
  /\ proposals' = props \ {p}
  /\ rejectedAID' = rej \ {p}
  /\ status' = 2
  /\ accepts' = accepts \union {p}
  /\ awarded' = awarded \union {p}

\* Mutant: the acceptance goes out without a look at whether there is a proposal.
MutAcceptProposal(props, rej, best, timers) ==
  \/ \E p \in props : Accept(p, props, rej) /\ waiting' = timers \union {p}
  \/ props = {} /\ Accept(None, props, rej) /\ waiting' = timers

\* acceptProposal().  Without a proposal getOptimalProposal throws, as the one
\* of InitiatorExample does, or returns null, and the next line but one throws.
AcceptProposal(props, rej, best, timers) ==
  \/ \E p \in props : Accept(p, props, rej) /\ waiting' = timers \union {p}
  \/ /\ props = {}
     /\ \/ "throws" \in NoOptimal /\ bestProposal' = best
        \/ "null" \in NoOptimal /\ bestProposal' = None
     /\ proposals' = {}
     /\ rejectedAID' = rej
     /\ waiting' = timers
     /\ UNCHANGED <<status, accepts, awarded>>

\* The end of handlePropose and handleRefuse.
CountDown(props, rej) ==
  /\ pendingProposals' = pendingProposals - 1
  /\ \/ /\ pendingProposals = 1
        /\ AcceptProposal(props, rej, bestProposal, waiting)
     \/ /\ pendingProposals # 1
        /\ proposals' = props
        /\ rejectedAID' = rej
        /\ UNCHANGED <<status, bestProposal, accepts, waiting, awarded>>

Receive(kind, p) ==
  /\ Reply(kind, p) \in replies
  /\ replies' = replies \ {Reply(kind, p)}
  /\ UNCHANGED <<requested, cfps, replyBy, losses, deadlineLost>>

HandlePropose(p) ==
  /\ Receive("propose", p)
  /\ CountDown(proposals \union {p}, rejectedAID \union {p})
  /\ UNCHANGED <<turnedDown, successes, failed, late>>

HandleRefuse(p) ==
  /\ Receive("refuse", p)
  /\ CountDown(proposals, rejectedAID)
  /\ UNCHANGED <<turnedDown, successes, failed, late>>

\* handleFailure(): the best of the remaining proposals is taken out, and then
\* acceptProposal chooses again among the others.
Failed(timers) ==
  /\ \/ \E p \in proposals : AcceptProposal(proposals \ {p}, rejectedAID \ {p}, p, timers)
     \/ /\ proposals = {}
        /\ waiting' = timers
        /\ \/ "throws" \in NoOptimal /\ UNCHANGED <<status, bestProposal>>
           \/ "null" \in NoOptimal /\ status' = 3 /\ bestProposal' = None  \* and failure()
        /\ UNCHANGED <<proposals, rejectedAID, accepts, awarded>>
  /\ UNCHANGED <<pendingProposals, turnedDown, successes, failed>>

HandleFailure(p) ==
  /\ Receive("failure", p)
  /\ Failed(waiting)
  /\ UNCHANGED late

\* handleDone(): the others are turned down.
HandleDone(p) ==
  /\ Receive("inform", p)
  /\ status' = 3
  /\ turnedDown' = turnedDown \union rejectedAID
  /\ rejectedAID' = {}
  /\ bestProposal' = None
  /\ successes' = successes + 1
  /\ UNCHANGED <<pendingProposals, proposals, accepts, waiting, awarded, failed, late>>

\* Mutant: the deadline is not checked against an acceptance already sent.
MutReplyBy ==
  /\ replyBy
  /\ replyBy' = FALSE
  /\ pendingProposals' = 0
  /\ AcceptProposal(proposals, rejectedAID, bestProposal, waiting)
  /\ UNCHANGED <<requested, cfps, replies, losses, deadlineLost, turnedDown, successes, failed, late>>

\* Mutant: the deadline closes the call and leaves the choice to the last answer.
MutReplyByCloses ==
  /\ replyBy
  /\ replyBy' = FALSE
  /\ pendingProposals' = IF status < 1 THEN 0 ELSE pendingProposals
  /\ UNCHANGED <<status, bestProposal, proposals, rejectedAID, requested, cfps, accepts,
                 replies, waiting, losses, deadlineLost, historyVars>>

\* The delayed "replyBy" message.
ReplyByPassed ==
  /\ replyBy
  /\ replyBy' = FALSE
  /\ \/ /\ status < 1
        /\ pendingProposals' = 0
        /\ AcceptProposal(proposals, rejectedAID, bestProposal, waiting)
     \/ /\ status >= 1
        /\ UNCHANGED <<initiatorVars, accepts, waiting, awarded>>
  /\ UNCHANGED <<requested, cfps, replies, losses, deadlineLost, turnedDown, successes, failed, late>>

\* The participant has its acceptance, or its answer is on the way.
Responding(p) == p \in accepts \/ \E kind \in {"inform", "failure"} : Reply(kind, p) \in replies

\* The delayed "waiting" message for participant p.
WaitingPassed(p) ==
  /\ p \in waiting
  /\ \/ /\ status > 1 /\ bestProposal = p
        /\ Failed(waiting \ {p})
        /\ late' = (late \/ Responding(p))
     \/ /\ ~(status > 1 /\ bestProposal = p)
        /\ waiting' = waiting \ {p}
        /\ UNCHANGED <<initiatorVars, accepts, historyVars>>
  /\ UNCHANGED <<requested, cfps, replies, replyBy, losses, deadlineLost>>

-----------------------------------------------------------------------------
(* Participant *)

\* handleCfp: a proposal, a refusal, or nothing, when the deadline has passed
\* or the agent is not a participant at all.
HandleCfp(p) ==
  /\ p \in cfps
  /\ cfps' = cfps \ {p}
  /\ replies' \in {replies, replies \union {Reply("propose", p)}, replies \union {Reply("refuse", p)}}
  /\ UNCHANGED <<initiatorVars, requested, accepts, replyBy, waiting, losses, deadlineLost, historyVars>>

\* handleAcceptProposal.
PerformTask(p) ==
  /\ p \in accepts
  /\ accepts' = accepts \ {p}
  /\ \/ replies' = replies \union {Reply("inform", p)} /\ UNCHANGED failed
     \/ replies' = replies \union {Reply("failure", p)} /\ failed' = TRUE
  /\ UNCHANGED <<initiatorVars, requested, cfps, replyBy, waiting, losses, deadlineLost,
                 awarded, turnedDown, successes, late>>

-----------------------------------------------------------------------------
(* A send fails, or the receiver is gone.  A call for proposals that is not *)
(* sent is one that the participant says nothing to.                        *)
Lose ==
  /\ losses < MaxLosses
  /\ losses' = losses + 1
  /\ UNCHANGED <<initiatorVars, requested, cfps, historyVars>>

LoseAccept(p) ==
  /\ p \in accepts
  /\ Lose
  /\ accepts' = accepts \ {p}
  /\ UNCHANGED <<replies, replyBy, waiting, deadlineLost>>

LoseReply(r) ==
  /\ r \in replies
  /\ Lose
  /\ replies' = replies \ {r}
  /\ UNCHANGED <<accepts, replyBy, waiting, deadlineLost>>

\* The initiator's delayed messages to itself are posted like any others.
LoseReplyBy ==
  /\ replyBy
  /\ Lose
  /\ replyBy' = FALSE
  /\ deadlineLost' = TRUE
  /\ UNCHANGED <<accepts, replies, waiting>>

LoseWaiting(p) ==
  /\ p \in waiting
  /\ Lose
  /\ waiting' = waiting \ {p}
  /\ UNCHANGED <<accepts, replies, replyBy, deadlineLost>>

-----------------------------------------------------------------------------
InitiatorStep(p) ==
  \/ HandlePropose(p) \/ HandleRefuse(p) \/ HandleFailure(p) \/ HandleDone(p) \/ WaitingPassed(p)
ParticipantStep(p) == HandleCfp(p) \/ PerformTask(p)

Next ==
  \/ Cfp
  \/ ReplyByPassed
  \/ \E p \in Participants : InitiatorStep(p) \/ ParticipantStep(p)
  \/ \E p \in Participants : LoseAccept(p) \/ LoseWaiting(p)
  \/ \E r \in replies : LoseReply(r)
  \/ LoseReplyBy

Spec == Init /\ [][Next]_vars

\* Messages are delivered, the delayed ones when their time has come.
Fairness ==
  /\ WF_vars(ReplyByPassed)
  /\ \A p \in Participants : /\ WF_vars(HandlePropose(p)) /\ WF_vars(HandleRefuse(p))
                             /\ WF_vars(HandleFailure(p)) /\ WF_vars(HandleDone(p))
                             /\ WF_vars(WaitingPassed(p)) /\ WF_vars(ParticipantStep(p))

FairSpec == Spec /\ Fairness

-----------------------------------------------------------------------------
(* Properties *)

\* The initiator's fields and the messages keep their types: what is awarded,
\* timed or turned down is always one of the participants (acceptProposal).
TypeOK ==
  /\ status \in {0, 2, 3}
  /\ pendingProposals \in Int
  /\ bestProposal \in Participants \union {None}
  /\ proposals \subseteq Participants
  /\ rejectedAID \subseteq Participants
  /\ requested \in BOOLEAN
  /\ cfps \subseteq Participants
  /\ accepts \subseteq Participants
  /\ replies \subseteq [kind : Kinds, from : Participants]
  /\ replyBy \in BOOLEAN
  /\ waiting \subseteq Participants
  /\ losses \in Nat
  /\ awarded \subseteq Participants
  /\ turnedDown \subseteq Participants
  /\ successes \in Nat
  /\ {deadlineLost, failed, late} \subseteq BOOLEAN

\* A participant that is given up while it is at work may still answer, and
\* then the call goes on with somebody else although it is done: the next
\* three are about the calls in which that does not happen.

\* Nobody is given the task and turned down as well, whatever fails, is lost
\* or comes after the deadline (acceptProposal, rejectProposal).
NoMixedAnswers == ~late => awarded \intersect turnedDown = {}

\* The task is given to one participant at a time (the two timeouts,
\* handleFailure).
OneAtATime == ~late => \A p, q \in Participants : Responding(p) /\ Responding(q) => p = q

\* The result is reported once (handleDone).
SuccessOnce == ~late => successes <= 1

\* The call does not come to a standstill: who was accepted is at work or its
\* answer is on the way, unless something fails, is lost or is given up, and the
\* deadline, unless it is itself lost, finds every proposal that is in by then.
\* Only what comes after a deadline without proposals is left lying
\* (acceptProposal, the two timeouts).
TaskInHand ==
  /\ status = 2 /\ losses = 0 /\ ~failed /\ ~late => Responding(bestProposal)
  /\ status = 0 /\ proposals # {} => replyBy \/ pendingProposals < 0 \/ deadlineLost

\* A proposal in time leads to the end of the call, unless a message is lost
\* or a participant fails or is given up while it is at work.
TaskDone == (replyBy /\ proposals # {}) ~> (status = 3 \/ losses > 0 \/ failed \/ late)

\* "2 - acceptance sent, waiting for response": somebody has the task, or the
\* response or a timeout for it is still to come.
AwaitsResponse ==
  status = 2 => \E p \in Participants : Responding(p) \/ (p \in waiting /\ bestProposal = p)
=============================================================================
