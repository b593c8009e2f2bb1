-------------------------- MODULE ContractNetProofs ---------------------------
(***************************************************************************)
(* Proofs about the contract net: as long as no participant is given up    *)
(* while it is at work, one participant at a time has the task, success is *)
(* reported once and nobody who was given the task is turned down; and the *)
(* call does not come to a standstill.                                     *)
(***************************************************************************)
EXTENDS ContractNet, FiniteSetTheorems, TLAPS

\* What is needed of the types.
Types ==
  /\ status \in {0, 2, 3}
  /\ pendingProposals \in Int
  /\ proposals \subseteq Participants
  /\ rejectedAID \subseteq Participants
  /\ awarded \subseteq Participants
  /\ successes \in Nat
  /\ late \in BOOLEAN /\ requested \in BOOLEAN

\* A participant is called once, proposes once, and is given the task once.
Proposing(p) == p \in cfps \/ Reply("propose", p) \in replies

Fresh ==
  /\ ~requested => /\ cfps = {} /\ replies = {} /\ accepts = {}
                   /\ proposals = {} /\ rejectedAID = {} /\ awarded = {}
                   /\ status = 0 /\ pendingProposals = 0 /\ turnedDown = {}
                   /\ ~replyBy
  /\ \A p \in Participants :
       /\ p \in cfps => Reply("propose", p) \notin replies
       /\ Proposing(p) => p \notin proposals \union rejectedAID \union awarded
       /\ p \in awarded => p \notin proposals \union rejectedAID

\* Before the first award no answer to one is possible, and after it the
\* count of expected proposals does not start another one.
BeforeAward ==
  /\ status = 0 => awarded = {} /\ turnedDown = {} /\ successes = 0
  /\ status # 0 => pendingProposals <= 0
  /\ \A p \in Participants : Responding(p) => p \in awarded

\* The messages that stand for the task of p: at most one at any time.
OneToken ==
  \A p \in Participants :
    /\ ~(p \in accepts /\ Reply("inform", p) \in replies)
    /\ ~(p \in accepts /\ Reply("failure", p) \in replies)
    /\ ~(Reply("inform", p) \in replies /\ Reply("failure", p) \in replies)

\* Who has the task is the best proposal; nothing more happens once it is done.
InStep ==
  ~late => /\ \A p \in Participants : Responding(p) => bestProposal = p /\ status = 2
           /\ turnedDown # {} \/ successes > 0 => status = 3 /\ bestProposal = None

Inv == Types /\ Fresh /\ BeforeAward /\ OneToken /\ InStep
       /\ NoMixedAnswers /\ SuccessOnce

-----------------------------------------------------------------------------
(* Messages *)

\* Replies differ if their kinds or their senders do.
LEMMA ReplyInjective ==
  ASSUME NEW k, NEW j, NEW p, NEW q, Reply(k, p) = Reply(j, q)
  PROVE  k = j /\ p = q
  BY DEF Reply

\* What a message that is handled leaves behind.
LEMMA Received ==
  ASSUME NEW k, NEW p, Receive(k, p)
  PROVE  /\ Reply(k, p) \in replies /\ Reply(k, p) \notin replies'
         /\ replies' \subseteq replies
         /\ UNCHANGED <<requested, cfps>>
  BY DEF Receive

\* Nobody has an acceptance, and no answer to one is on its way, afterwards.
Settled ==
  \A q \in Participants : /\ q \notin accepts
                          /\ Reply("inform", q) \notin replies'
                          /\ Reply("failure", q) \notin replies'

\* The agents in s were not given the task and will not propose again.
Spent(s) == \A q \in s : q \notin awarded /\ q \notin cfps /\ Reply("propose", q) \notin replies'

-----------------------------------------------------------------------------
(* An award *)

\* acceptProposal sends an acceptance: nobody else has one unless somebody
\* was given up at work.
LEMMA AwardInv ==
  ASSUME Inv, NEW props \in SUBSET Participants, NEW rej \in SUBSET Participants,
         NEW p \in props, Accept(p, props, rej),
         requested, replies' \subseteq replies,
         UNCHANGED <<cfps, requested, turnedDown, successes>>,
         Spent(props \union rej), late' \in BOOLEAN,
         ~late' => ~late /\ Settled /\ turnedDown = {} /\ successes = 0,
         pendingProposals' \in Int, pendingProposals' <= 0
  PROVE  Inv'
<1>1. Types'
  BY DEF Accept, Inv, Types
<1>2. Fresh'
  BY DEF Accept, Inv, Types, Fresh, Spent, Proposing
<1>3. p \notin awarded /\ ~Responding(p)
  BY DEF Spent, Inv, BeforeAward
<1>4. \A q \in Participants : Responding(q)' => Responding(q) \/ q = p
  BY DEF Responding, Accept
<1>5. BeforeAward'
  BY <1>4 DEF Accept, Inv, BeforeAward
<1>6. OneToken'
  BY <1>3 DEF Accept, Inv, OneToken, Responding
<1>7. InStep'
  <2>1. ASSUME ~late', NEW q \in Participants, Responding(q)' PROVE q = p
    BY <2>1 DEF Settled, Responding, Accept
  <2>2. QED
    BY <2>1 DEF InStep, Accept
<1>8. NoMixedAnswers' /\ SuccessOnce'
  BY DEF NoMixedAnswers, SuccessOnce, Inv, Types
<1>9. QED
  BY <1>1, <1>2, <1>5, <1>6, <1>7, <1>8 DEF Inv

\* A handler that sends no acceptance.
LEMMA NoAwardInv ==
  ASSUME Inv, NEW props \in SUBSET Participants, NEW rej \in SUBSET Participants,
         requested, proposals' = props, rejectedAID' = rej,
         replies' \subseteq replies,
         UNCHANGED <<cfps, requested, accepts, awarded, turnedDown, successes>>,
         Spent(props \union rej), late' \in BOOLEAN, ~late' => ~late,
         pendingProposals' \in Int, pendingProposals' <= pendingProposals,
         status' = status \/ (status # 0 /\ status' = 3),
         \A q \in Participants : ~late' /\ Responding(q)' => bestProposal' = q /\ status' = 2,
         ~late' /\ (turnedDown # {} \/ successes > 0) => status' = 3 /\ bestProposal' = None
  PROVE  Inv'
<1>1. Types'
  BY DEF Inv, Types
<1>2. Fresh'
  BY DEF Inv, Types, Fresh, Spent, Proposing
<1>3. \A q \in Participants : Responding(q)' => Responding(q)
  BY DEF Responding
<1>4. BeforeAward'
  BY <1>3 DEF Inv, Types, BeforeAward
<1>5. OneToken'
  BY DEF Inv, OneToken
<1>6. InStep'
  BY DEF InStep
<1>7. NoMixedAnswers' /\ SuccessOnce'
  BY DEF NoMixedAnswers, SuccessOnce, Inv
<1>8. QED
  BY <1>1, <1>2, <1>4, <1>5, <1>6, <1>7 DEF Inv

-----------------------------------------------------------------------------
(* The handlers *)

LEMMA InitInv == Init => Inv
<1> SUFFICES ASSUME Init PROVE Inv
  OBVIOUS
<1>1. Types
  <2>1. status \in {0, 2, 3} /\ pendingProposals \in Int /\ successes \in Nat
    BY DEF Init
  <2>2. late \in BOOLEAN /\ requested \in BOOLEAN
    BY Zenon DEF Init
  <2>3. proposals \subseteq Participants /\ rejectedAID \subseteq Participants
        /\ awarded \subseteq Participants
    BY DEF Init
  <2>4. QED
    BY <2>1, <2>2, <2>3 DEF Types
<1>2. Fresh
  BY DEF Init, Fresh, Proposing
<1>3. \A p \in Participants : ~Responding(p)
  BY DEF Init, Responding
<1>4. BeforeAward /\ OneToken /\ InStep
  BY <1>3 DEF Init, BeforeAward, OneToken, InStep
<1>5. NoMixedAnswers /\ SuccessOnce
  BY DEF Init, NoMixedAnswers, SuccessOnce
<1>6. QED
  BY <1>1, <1>2, <1>4, <1>5 DEF Inv

\* Only an initiator that was asked has messages, proposals or timeouts.
LEMMA ReplyMeansRequested ==
  ASSUME Inv, replies # {} PROVE requested
  BY DEF Inv, Types, Fresh

\* Those who proposed and were not chosen.
LEMMA ProposersSpent ==
  ASSUME Inv, replies' \subseteq replies
  PROVE  Spent(proposals \union rejectedAID)
  BY DEF Inv, Types, Fresh, Spent, Proposing

\* A proposal or a refusal: the last one that is expected leads to an award.
LEMMA CountDownInv ==
  ASSUME Inv, NEW k, NEW q \in Participants, Receive(k, q),
         NEW props \in SUBSET Participants, NEW rej \in SUBSET Participants,
         Spent(props \union rej), CountDown(props, rej),
         UNCHANGED <<turnedDown, successes, late>>
  PROVE  Inv'
<1>1. /\ requested /\ replies' \subseteq replies /\ UNCHANGED <<requested, cfps>>
      /\ late' \in BOOLEAN
  BY Received, ReplyMeansRequested DEF Inv, Types
<1>2. pendingProposals' = pendingProposals - 1 /\ pendingProposals \in Int
  BY DEF CountDown, Inv, Types
<1>3. CASE pendingProposals = 1
  <2>1. status = 0 /\ awarded = {} /\ turnedDown = {} /\ successes = 0
    BY <1>3 DEF Inv, BeforeAward
  <2>2. Settled
    BY <1>1, <2>1 DEF Settled, Inv, BeforeAward, Responding
  <2>3. AcceptProposal(props, rej, bestProposal, waiting)
    BY <1>3 DEF CountDown
  <2>4. ASSUME NEW p \in props, Accept(p, props, rej) PROVE Inv'
    BY <1>1, <1>2, <1>3, <2>1, <2>2, <2>4, AwardInv
  <2>5. CASE /\ props = {} /\ proposals' = {} /\ rejectedAID' = rej
             /\ UNCHANGED <<status, accepts, awarded>>
    <3>1. \A r \in Participants : ~Responding(r)'
      BY <2>2, <2>5 DEF Settled, Responding
    <3>2. QED
      BY <1>1, <1>2, <2>1, <2>5, <3>1, NoAwardInv
  <2>6. QED
    BY <2>3, <2>4, <2>5 DEF AcceptProposal
<1>4. CASE pendingProposals # 1
  <2>1. /\ proposals' = props /\ rejectedAID' = rej
        /\ UNCHANGED <<status, bestProposal, accepts, awarded>>
    BY <1>4 DEF CountDown
  <2>2. \A r \in Participants : Responding(r)' => Responding(r)
    BY <1>1, <2>1 DEF Responding
  <2>3. /\ \A r \in Participants : ~late' /\ Responding(r)' => bestProposal' = r /\ status' = 2
        /\ ~late' /\ (turnedDown # {} \/ successes > 0) => status' = 3 /\ bestProposal' = None
    BY <2>1, <2>2 DEF Inv, InStep
  <2>4. QED
    BY <1>1, <1>2, <2>1, <2>3, NoAwardInv
<1>5. QED
  BY <1>3, <1>4

\* The participant that has the task failed or was given up: another one may
\* be chosen among those who proposed.
LEMMA FailedInv ==
  ASSUME Inv, requested, status # 0, NEW timers, Failed(timers),
         replies' \subseteq replies, UNCHANGED <<requested, cfps>>, late' \in BOOLEAN,
         ~late' => ~late /\ Settled /\ turnedDown = {} /\ successes = 0
  PROVE  Inv'
<1>1. /\ pendingProposals' = pendingProposals /\ pendingProposals \in Int
      /\ pendingProposals <= 0 /\ UNCHANGED <<turnedDown, successes>>
      /\ proposals \subseteq Participants /\ rejectedAID \subseteq Participants
  BY DEF Failed, Inv, Types, BeforeAward
<1>2. Spent(proposals \union rejectedAID)
  BY ProposersSpent DEF Spent
<1>3. ASSUME UNCHANGED accepts, NEW r \in Participants, ~late' PROVE ~Responding(r)'
  BY <1>3 DEF Settled, Responding
<1>4. ASSUME NEW p \in proposals,
             AcceptProposal(proposals \ {p}, rejectedAID \ {p}, p, timers)
      PROVE  Inv'
  <2>1. Spent((proposals \ {p}) \union (rejectedAID \ {p}))
    BY <1>2 DEF Spent
  <2>2. ASSUME NEW q \in proposals \ {p}, Accept(q, proposals \ {p}, rejectedAID \ {p}) PROVE Inv'
    BY <1>1, <2>1, <2>2, AwardInv
  <2>3. CASE /\ proposals' = {} /\ rejectedAID' = rejectedAID \ {p} /\ proposals \ {p} = {}
             /\ UNCHANGED <<status, accepts, awarded>>
    <3>1. Spent({} \union (rejectedAID \ {p}))
      BY <1>2 DEF Spent
    <3>2. QED
      BY <1>1, <1>3, <2>3, <3>1, NoAwardInv
  <2>4. QED
    BY <1>4, <2>2, <2>3 DEF AcceptProposal
<1>5. CASE /\ UNCHANGED <<proposals, rejectedAID, accepts, awarded>>
           /\ status' = status \/ status' = 3
  BY <1>1, <1>2, <1>3, <1>5, NoAwardInv
<1>6. QED
  BY <1>4, <1>5 DEF Failed

\* Everyone who runs is called, once.
LEMMA CfpInv ==
  ASSUME Inv, Cfp PROVE Inv'
<1>1. /\ ~requested /\ requested' = TRUE /\ cfps' = Participants /\ status' = 0
      /\ pendingProposals' = Cardinality(Participants)
      /\ UNCHANGED <<bestProposal, proposals, rejectedAID, accepts, replies>>
      /\ UNCHANGED <<awarded, turnedDown, successes, late>>
  BY DEF Cfp, historyVars
<1>2. Cardinality(Participants) \in Int
  BY ParticipantsFinite, FS_CardinalityType
<1>3. Types'
  BY <1>1, <1>2 DEF Inv, Types
<1>4. Fresh'
  BY <1>1 DEF Inv, Fresh, Proposing
<1>5. \A p \in Participants : Responding(p)' <=> Responding(p)
  BY <1>1 DEF Responding
<1>6. BeforeAward' /\ OneToken'
  BY <1>1, <1>5 DEF Inv, Fresh, BeforeAward, OneToken
<1>7. InStep'
  BY <1>1, <1>5 DEF Inv, Fresh, InStep
<1>8. NoMixedAnswers' /\ SuccessOnce'
  BY <1>1 DEF Inv, NoMixedAnswers, SuccessOnce
<1>9. QED
  BY <1>3, <1>4, <1>6, <1>7, <1>8 DEF Inv

LEMMA ProposeInv ==
  ASSUME Inv, NEW p \in Participants, HandlePropose(p) PROVE Inv'
<1>1. /\ Receive("propose", p) /\ CountDown(proposals \union {p}, rejectedAID \union {p})
      /\ UNCHANGED <<turnedDown, successes, late>>
  BY DEF HandlePropose
<1>2. /\ Reply("propose", p) \in replies /\ Reply("propose", p) \notin replies'
      /\ replies' \subseteq replies
  BY <1>1, Received
<1>3. p \notin cfps /\ p \notin awarded
  BY <1>2 DEF Inv, Fresh, Proposing
<1>4. Spent((proposals \union {p}) \union (rejectedAID \union {p}))
  BY <1>2, <1>3, ProposersSpent DEF Spent
<1>5. proposals \union {p} \in SUBSET Participants /\ rejectedAID \union {p} \in SUBSET Participants
  BY DEF Inv, Types
<1>6. QED
  BY <1>1, <1>4, <1>5, CountDownInv

LEMMA RefuseInv ==
  ASSUME Inv, NEW p \in Participants, HandleRefuse(p) PROVE Inv'
<1>1. /\ Receive("refuse", p) /\ CountDown(proposals, rejectedAID)
      /\ UNCHANGED <<turnedDown, successes, late>>
  BY DEF HandleRefuse
<1>2. Spent(proposals \union rejectedAID)
  BY <1>1, Received, ProposersSpent
<1>3. proposals \in SUBSET Participants /\ rejectedAID \in SUBSET Participants
  BY DEF Inv, Types
<1>4. QED
  BY <1>1, <1>2, <1>3, CountDownInv

\* The answer of the participant that has the task: afterwards nobody has it.
LEMMA AnswerSettles ==
  ASSUME Inv, NEW k \in {"inform", "failure"}, NEW p \in Participants, Receive(k, p),
         ~late
  PROVE  Settled /\ status = 2 /\ turnedDown = {} /\ successes = 0
<1>1. Reply(k, p) \in replies /\ Reply(k, p) \notin replies' /\ replies' \subseteq replies
  BY Received
<1>2. Responding(p)
  BY <1>1 DEF Responding
<1>3. bestProposal = p /\ status = 2
  BY <1>2 DEF Inv, InStep
<1>4. turnedDown = {} /\ successes = 0
  BY <1>3 DEF Inv, InStep, Types
<1>5. ASSUME NEW q \in Participants
      PROVE  /\ q \notin accepts
             /\ Reply("inform", q) \notin replies'
             /\ Reply("failure", q) \notin replies'
  <2>1. CASE q = p
    BY <1>1, <2>1 DEF Inv, OneToken
  <2>2. CASE q # p
    <3>1. ~Responding(q)
      BY <1>3, <2>2 DEF Inv, InStep
    <3>2. QED
      BY <1>1, <3>1 DEF Responding
  <2>3. QED
    BY <2>1, <2>2
<1>6. QED
  BY <1>3, <1>4, <1>5 DEF Settled

LEMMA FailureInv ==
  ASSUME Inv, NEW p \in Participants, HandleFailure(p) PROVE Inv'
<1>1. Receive("failure", p) /\ Failed(waiting) /\ UNCHANGED late
  BY DEF HandleFailure
<1>2. /\ Reply("failure", p) \in replies /\ replies' \subseteq replies
      /\ UNCHANGED <<requested, cfps>>
  BY <1>1, Received
<1>3. requested
  BY <1>2, ReplyMeansRequested
<1>4. status # 0
  BY <1>2 DEF Inv, BeforeAward, Responding
<1>5. ~late' => ~late /\ Settled /\ turnedDown = {} /\ successes = 0
  BY <1>1, AnswerSettles
<1>6. late' \in BOOLEAN
  BY <1>1 DEF Inv, Types
<1>7. QED
  BY <1>1, <1>2, <1>3, <1>4, <1>5, <1>6, FailedInv

\* The task is done: those that were not chosen are turned down.
LEMMA DoneInv ==
  ASSUME Inv, NEW p \in Participants, HandleDone(p) PROVE Inv'
<1>1. /\ status' = 3 /\ turnedDown' = turnedDown \union rejectedAID /\ rejectedAID' = {}
      /\ bestProposal' = None /\ successes' = successes + 1
      /\ UNCHANGED <<pendingProposals, proposals, accepts, awarded, late>>
      /\ Receive("inform", p)
  BY DEF HandleDone
<1>2. /\ Reply("inform", p) \in replies /\ replies' \subseteq replies
      /\ UNCHANGED <<requested, cfps>>
  BY <1>1, Received
<1>3. requested
  BY <1>2, ReplyMeansRequested
<1>4. status # 0
  BY <1>2 DEF Inv, BeforeAward, Responding
<1>5. ~late => Settled /\ turnedDown = {} /\ successes = 0
  BY <1>1, AnswerSettles
<1>6. Types'
  BY <1>1, <1>2 DEF Inv, Types
<1>7. Fresh'
  BY <1>1, <1>2, <1>3 DEF Inv, Fresh, Proposing
<1>8. \A q \in Participants : Responding(q)' => Responding(q)
  BY <1>1, <1>2 DEF Responding
<1>9. BeforeAward' /\ OneToken'
  BY <1>1, <1>2, <1>4, <1>8 DEF Inv, BeforeAward, OneToken
<1>10. InStep'
  BY <1>1, <1>5 DEF InStep, Settled, Responding
<1>11. NoMixedAnswers' /\ SuccessOnce'
  BY <1>1, <1>5 DEF Inv, Types, Fresh, NoMixedAnswers, SuccessOnce
<1>12. QED
  BY <1>6, <1>7, <1>9, <1>10, <1>11 DEF Inv

\* The deadline: an award, unless there has been one or nobody proposed.
LEMMA ReplyByInv ==
  ASSUME Inv, ReplyByPassed PROVE Inv'
<1>1. /\ requested /\ UNCHANGED <<requested, cfps, replies, turnedDown, successes, late>>
      /\ late' \in BOOLEAN
  BY DEF ReplyByPassed, Inv, Types, Fresh
<1>2. /\ Spent(proposals \union rejectedAID)
      /\ proposals \in SUBSET Participants /\ rejectedAID \in SUBSET Participants
  BY <1>1, ProposersSpent DEF Inv, Types
<1>3. CASE status < 1
  <2>1. status = 0 /\ awarded = {} /\ turnedDown = {} /\ successes = 0
    BY <1>3 DEF Inv, Types, BeforeAward
  <2>2. Settled
    BY <1>1, <2>1 DEF Settled, Inv, BeforeAward, Responding
  <2>3. pendingProposals' = 0 /\ AcceptProposal(proposals, rejectedAID, bestProposal, waiting)
    BY <1>3, <2>1 DEF ReplyByPassed
  <2>4. ASSUME NEW p \in proposals, Accept(p, proposals, rejectedAID) PROVE Inv'
    BY <1>1, <1>2, <2>1, <2>2, <2>3, <2>4, AwardInv
  <2>5. CASE /\ proposals = {} /\ proposals' = {} /\ rejectedAID' = rejectedAID
             /\ UNCHANGED <<status, accepts, awarded>>
    <3>1. Types' /\ Fresh'
      BY <1>1, <2>3, <2>5 DEF Inv, Types, Fresh, Proposing
    <3>2. \A r \in Participants : ~Responding(r)'
      BY <1>1, <2>2, <2>5 DEF Settled, Responding
    <3>3. BeforeAward' /\ OneToken' /\ InStep'
      BY <1>1, <2>1, <2>3, <2>5, <3>2 DEF Inv, BeforeAward, OneToken, InStep
    <3>4. NoMixedAnswers' /\ SuccessOnce'
      BY <1>1, <2>5 DEF Inv, NoMixedAnswers, SuccessOnce
    <3>5. QED
      BY <3>1, <3>3, <3>4 DEF Inv
  <2>6. QED
    BY <2>3, <2>4, <2>5 DEF AcceptProposal
<1>4. CASE ~(status < 1)
  <2>1. /\ UNCHANGED <<initiatorVars, accepts, awarded>>
        /\ UNCHANGED <<requested, cfps, replies, turnedDown, successes, late>>
    BY <1>1, <1>4 DEF ReplyByPassed, Inv, Types
  <2>2. \A r \in Participants : Responding(r)' <=> Responding(r)
    BY <2>1 DEF Responding
  <2>3. Types' /\ Fresh'
    BY <1>1, <2>1 DEF initiatorVars, Inv, Types, Fresh, Proposing
  <2>4. BeforeAward' /\ OneToken' /\ InStep' /\ NoMixedAnswers' /\ SuccessOnce'
    BY <2>1, <2>2 DEF initiatorVars, Inv, BeforeAward, OneToken, InStep, NoMixedAnswers, SuccessOnce
  <2>5. QED
    BY <2>3, <2>4 DEF Inv
<1>5. QED
  BY <1>3, <1>4

\* A step that changes nothing the invariant is about, or takes messages away.
LEMMA FewerMessagesInv ==
  ASSUME Inv, UNCHANGED <<initiatorVars, requested, cfps>>, replyBy' => replyBy,
         UNCHANGED <<awarded, turnedDown, successes, late>>,
         accepts' \subseteq accepts, replies' \subseteq replies
  PROVE  Inv'
<1>1. \A r \in Participants : Responding(r)' => Responding(r)
  BY DEF Responding
<1>2. Types' /\ Fresh'
  BY DEF initiatorVars, Inv, Types, Fresh, Proposing
<1>3. BeforeAward' /\ OneToken' /\ InStep' /\ NoMixedAnswers' /\ SuccessOnce'
  BY <1>1 DEF initiatorVars, Inv, BeforeAward, OneToken, InStep, NoMixedAnswers, SuccessOnce
<1>4. QED
  BY <1>2, <1>3 DEF Inv

\* The timeout of the participant that has the task.
LEMMA WaitingInv ==
  ASSUME Inv, NEW p \in Participants, WaitingPassed(p) PROVE Inv'
<1>1. UNCHANGED <<requested, cfps, replies, replyBy>>
  BY DEF WaitingPassed
<1>2. CASE status > 1 /\ bestProposal = p
  <2>1. Failed(waiting \ {p}) /\ late' = (late \/ Responding(p))
    BY <1>2 DEF WaitingPassed
  <2>2. requested /\ status # 0 /\ late' \in BOOLEAN
    BY <1>2, <2>1 DEF Inv, Types, Fresh
  <2>3. ASSUME ~late' PROVE ~late /\ Settled /\ turnedDown = {} /\ successes = 0
    <3>1. ~late /\ ~Responding(p)
      BY <2>1, <2>3
    <3>2. \A r \in Participants : ~Responding(r)
      BY <1>2, <3>1 DEF Inv, InStep
    <3>3. bestProposal # None
      BY <1>2, ParticipantsFinite
    <3>4. turnedDown = {} /\ successes = 0
      BY <3>1, <3>3 DEF Inv, InStep, Types
    <3>5. Settled
      BY <1>1, <3>2 DEF Settled, Responding
    <3>6. QED
      BY <3>1, <3>4, <3>5
  <2>4. QED
    BY <1>1, <2>1, <2>2, <2>3, FailedInv
<1>3. CASE ~(status > 1 /\ bestProposal = p)
  <2>1. UNCHANGED <<initiatorVars, accepts, historyVars>>
    BY <1>3 DEF WaitingPassed
  <2>2. QED
    BY <1>1, <2>1, FewerMessagesInv DEF historyVars
<1>4. QED
  BY <1>2, <1>3

\* A participant proposes, refuses or says nothing, once.
LEMMA HandleCfpInv ==
  ASSUME Inv, NEW p \in Participants, HandleCfp(p) PROVE Inv'
<1>1. /\ p \in cfps /\ cfps' = cfps \ {p}
      /\ replies' \in {replies, replies \union {Reply("propose", p)}, replies \union {Reply("refuse", p)}}
      /\ UNCHANGED <<initiatorVars, requested, accepts, replyBy>>
      /\ UNCHANGED <<awarded, turnedDown, successes, late>>
  BY DEF HandleCfp, historyVars
<1>2. \A q \in Participants :
        /\ Reply("inform", q) \in replies' <=> Reply("inform", q) \in replies
        /\ Reply("failure", q) \in replies' <=> Reply("failure", q) \in replies
        /\ q # p => (Reply("propose", q) \in replies' <=> Reply("propose", q) \in replies)
  BY <1>1, ReplyInjective
<1>3. requested
  BY <1>1 DEF Inv, Types, Fresh
<1>4. Types'
  BY <1>1 DEF initiatorVars, Inv, Types
<1>5. \A q \in Participants : Proposing(q)' => Proposing(q)
  BY <1>1, <1>2 DEF Proposing
<1>6. Fresh'
  BY <1>1, <1>2, <1>3, <1>5 DEF initiatorVars, Inv, Fresh
<1>7. \A r \in Participants : Responding(r)' <=> Responding(r)
  BY <1>1, <1>2 DEF Responding
<1>8. BeforeAward' /\ OneToken' /\ InStep' /\ NoMixedAnswers' /\ SuccessOnce'
  BY <1>1, <1>2, <1>7 DEF initiatorVars, Inv, BeforeAward, OneToken, InStep, NoMixedAnswers, SuccessOnce
<1>9. QED
  BY <1>4, <1>6, <1>8 DEF Inv

\* The acceptance becomes a result or a failure.
LEMMA PerformTaskInv ==
  ASSUME Inv, NEW p \in Participants, PerformTask(p) PROVE Inv'
<1>1. /\ p \in accepts /\ accepts' = accepts \ {p}
      /\ \/ replies' = replies \union {Reply("inform", p)}
         \/ replies' = replies \union {Reply("failure", p)}
      /\ UNCHANGED <<initiatorVars, requested, cfps, replyBy>>
      /\ UNCHANGED <<awarded, turnedDown, successes, late>>
  BY DEF PerformTask
<1>2. \A q \in Participants :
        /\ Reply("propose", q) \in replies' <=> Reply("propose", q) \in replies
        /\ q # p => /\ Reply("inform", q) \in replies' <=> Reply("inform", q) \in replies
                    /\ Reply("failure", q) \in replies' <=> Reply("failure", q) \in replies
  BY <1>1, ReplyInjective
<1>3. requested
  BY <1>1 DEF Inv, Types, Fresh
<1>4. Types'
  BY <1>1 DEF initiatorVars, Inv, Types
<1>5. Fresh'
  BY <1>1, <1>2, <1>3 DEF initiatorVars, Inv, Fresh, Proposing
<1>6. \A r \in Participants : Responding(r)' => Responding(r)
  BY <1>1, <1>2 DEF Responding
<1>7. BeforeAward' /\ InStep' /\ NoMixedAnswers' /\ SuccessOnce'
  BY <1>1, <1>6 DEF initiatorVars, Inv, BeforeAward, InStep, NoMixedAnswers, SuccessOnce
<1>8. OneToken'
  <2>1. Reply("inform", p) \notin replies /\ Reply("failure", p) \notin replies
    BY <1>1 DEF Inv, OneToken
  <2>2. ~(Reply("inform", p) \in replies' /\ Reply("failure", p) \in replies')
    BY <1>1, <2>1, ReplyInjective
  <2>3. QED
    BY <1>1, <1>2, <2>2 DEF Inv, OneToken
<1>9. QED
  BY <1>4, <1>5, <1>7, <1>8 DEF Inv

-----------------------------------------------------------------------------
(* The theorem *)

LEMMA NextInv == Inv /\ [Next]_vars => Inv'
<1> SUFFICES ASSUME Inv, [Next]_vars PROVE Inv'
  OBVIOUS
<1>1. ASSUME NEW p \in Participants, InitiatorStep(p) PROVE Inv'
  BY <1>1, ProposeInv, RefuseInv, FailureInv, DoneInv, WaitingInv DEF InitiatorStep
<1>2. ASSUME NEW p \in Participants, ParticipantStep(p) PROVE Inv'
  BY <1>2, HandleCfpInv, PerformTaskInv DEF ParticipantStep
<1>3. ASSUME NEW p \in Participants, LoseAccept(p) PROVE Inv'
  BY <1>3, FewerMessagesInv DEF LoseAccept, Lose, historyVars
<1>4. ASSUME NEW r \in replies, LoseReply(r) PROVE Inv'
  BY <1>4, FewerMessagesInv DEF LoseReply, Lose, historyVars
<1>5. ASSUME LoseReplyBy \/ \E p \in Participants : LoseWaiting(p) PROVE Inv'
  BY <1>5, FewerMessagesInv DEF LoseReplyBy, LoseWaiting, Lose, historyVars
<1>6. CASE UNCHANGED vars
  BY <1>6, FewerMessagesInv DEF vars, historyVars
<1>7. QED
  BY <1>1, <1>2, <1>3, <1>4, <1>5, <1>6, CfpInv, ReplyByInv DEF Next

\* What is promised follows from the invariant.
LEMMA InvImplies == Inv => NoMixedAnswers /\ OneAtATime /\ SuccessOnce
  BY DEF Inv, InStep, OneAtATime

\* Unless somebody is given up while at work: nobody is given the task and
\* turned down as well, for any number of participants, losses and failures
\* (Initiator.acceptProposal).
THEOREM OneWinner == Spec => []NoMixedAnswers
<1>1. QED
  BY InitInv, NextInv, InvImplies, PTL DEF Spec

\* In the same cases one participant has the task at a time, whichever of the
\* two timeouts and whichever failure comes first (handleFailure).
THEOREM OneWorker == Spec => []OneAtATime
<1>1. QED
  BY InitInv, NextInv, InvImplies, PTL DEF Spec

\* In the same cases the initiator's success() is called at most once
\* (handleDone).
THEOREM OneSuccess == Spec => []SuccessOnce
<1>1. QED
  BY InitInv, NextInv, InvImplies, PTL DEF Spec

-----------------------------------------------------------------------------
(* Types *)

InitiatorTypes ==
  /\ status \in {0, 2, 3}
  /\ pendingProposals \in Int
  /\ bestProposal \in Participants \union {None}
  /\ proposals \subseteq Participants
  /\ rejectedAID \subseteq Participants

MessageTypes ==
  /\ requested \in BOOLEAN /\ replyBy \in BOOLEAN
  /\ cfps \subseteq Participants
  /\ accepts \subseteq Participants
  /\ replies \subseteq [kind : Kinds, from : Participants]
  /\ waiting \subseteq Participants
  /\ losses \in Nat

HistoryTypes ==
  /\ awarded \subseteq Participants
  /\ turnedDown \subseteq Participants
  /\ successes \in Nat
  /\ deadlineLost \in BOOLEAN /\ failed \in BOOLEAN /\ late \in BOOLEAN

Typed == InitiatorTypes /\ MessageTypes /\ HistoryTypes

LEMMA ReplyType ==
  ASSUME NEW p \in Participants, NEW k \in Kinds
  PROVE  Reply(k, p) \in [kind : Kinds, from : Participants]
  BY DEF Reply

LEMMA TypedInit == Init => Typed
<1> SUFFICES ASSUME Init PROVE Typed
  OBVIOUS
<1>1. InitiatorTypes
  BY DEF Init, InitiatorTypes
<1>2. /\ requested \in BOOLEAN /\ replyBy \in BOOLEAN
      /\ deadlineLost \in BOOLEAN /\ failed \in BOOLEAN /\ late \in BOOLEAN
  BY Zenon DEF Init
<1>3. MessageTypes
  BY <1>2 DEF Init, MessageTypes
<1>4. HistoryTypes
  BY <1>2 DEF Init, HistoryTypes
<1> QED
  BY <1>1, <1>3, <1>4 DEF Typed

\* What acceptProposal writes.
LEMMA AcceptTypes ==
  ASSUME Typed, NEW props \in SUBSET Participants, NEW rej \in SUBSET Participants,
         NEW best \in Participants \union {None}, NEW timers \in SUBSET Participants,
         AcceptProposal(props, rej, best, timers)
  PROVE  /\ status' \in {0, 2, 3} /\ bestProposal' \in Participants \union {None}
         /\ {proposals', rejectedAID', accepts', awarded', waiting'} \subseteq SUBSET Participants
<1>1. CASE \E p \in props : Accept(p, props, rej) /\ waiting' = timers \union {p}
  BY <1>1 DEF Accept, Typed, InitiatorTypes, MessageTypes, HistoryTypes
<1>2. CASE ~\E p \in props : Accept(p, props, rej) /\ waiting' = timers \union {p}
  BY <1>2 DEF AcceptProposal, Typed, InitiatorTypes, MessageTypes, HistoryTypes
<1> QED
  BY <1>1, <1>2

LEMMA CountDownTypes ==
  ASSUME Typed, NEW k, NEW p \in Participants, Receive(k, p),
         NEW props \in SUBSET Participants, NEW rej \in SUBSET Participants,
         CountDown(props, rej), UNCHANGED <<turnedDown, successes, failed, late>>
  PROVE  Typed'
<1>1. /\ status' \in {0, 2, 3} /\ bestProposal' \in Participants \union {None}
      /\ {proposals', rejectedAID', accepts', awarded', waiting'} \subseteq SUBSET Participants
  <2>1. CASE pendingProposals = 1
    BY <2>1, AcceptTypes DEF CountDown, Typed, InitiatorTypes, MessageTypes
  <2>2. CASE pendingProposals # 1
    BY <2>2 DEF CountDown, Typed, InitiatorTypes, MessageTypes, HistoryTypes
  <2> QED
    BY <2>1, <2>2
<1>2. pendingProposals' \in Int
  BY DEF CountDown, Typed, InitiatorTypes
<1> QED
  BY <1>1, <1>2 DEF Receive, Typed, InitiatorTypes, MessageTypes, HistoryTypes

LEMMA FailedTypes ==
  ASSUME Typed, NEW timers \in SUBSET Participants, Failed(timers)
  PROVE  InitiatorTypes' /\ {accepts', awarded', waiting'} \subseteq SUBSET Participants
<1>1. CASE \E p \in proposals : AcceptProposal(proposals \ {p}, rejectedAID \ {p}, p, timers)
  <2>1. PICK p \in proposals : AcceptProposal(proposals \ {p}, rejectedAID \ {p}, p, timers)
    BY <1>1
  <2>2. /\ proposals \ {p} \in SUBSET Participants /\ rejectedAID \ {p} \in SUBSET Participants
        /\ p \in Participants \union {None}
    BY DEF Typed, InitiatorTypes
  <2> QED
    BY <2>1, <2>2, AcceptTypes DEF Failed, Typed, InitiatorTypes
<1>2. CASE ~\E p \in proposals : AcceptProposal(proposals \ {p}, rejectedAID \ {p}, p, timers)
  BY <1>2 DEF Failed, Typed, InitiatorTypes, MessageTypes, HistoryTypes
<1> QED
  BY <1>1, <1>2

LEMMA TypedStep == Typed /\ [Next]_vars => Typed'
<1> SUFFICES ASSUME Typed, [Next]_vars PROVE Typed'
  OBVIOUS
<1> USE DEF Typed
<1>1. CASE Cfp
  <2>1. pendingProposals' \in Int
    BY <1>1, ParticipantsFinite, FS_CardinalityType DEF Cfp
  <2>2. requested' \in BOOLEAN /\ replyBy' \in BOOLEAN
    BY <1>1, Zenon DEF Cfp
  <2> QED
    BY <1>1, <2>1, <2>2 DEF Cfp, historyVars, InitiatorTypes, MessageTypes, HistoryTypes
<1>2. CASE ReplyByPassed
  <2>1. /\ replyBy' \in BOOLEAN
        /\ UNCHANGED <<requested, cfps, replies, losses, deadlineLost, turnedDown, successes, failed, late>>
    BY <1>2, Zenon DEF ReplyByPassed
  <2>2. CASE status < 1
    <3>1. AcceptProposal(proposals, rejectedAID, bestProposal, waiting) /\ pendingProposals' = 0
      BY <1>2, <2>2 DEF ReplyByPassed, InitiatorTypes
    <3> QED
      BY <2>1, <3>1, AcceptTypes DEF InitiatorTypes, MessageTypes, HistoryTypes
  <2>3. CASE ~(status < 1)
    <3>1. UNCHANGED <<initiatorVars, accepts, waiting, awarded>>
      BY <1>2, <2>3 DEF ReplyByPassed
    <3> QED
      BY <2>1, <3>1 DEF initiatorVars, InitiatorTypes, MessageTypes, HistoryTypes
  <2> QED
    BY <2>2, <2>3
<1>3. ASSUME NEW p \in Participants, InitiatorStep(p)
      PROVE  Typed'
  <2>1. CASE HandlePropose(p)
    BY <2>1, CountDownTypes DEF HandlePropose, InitiatorTypes
  <2>2. CASE HandleRefuse(p)
    BY <2>2, CountDownTypes DEF HandleRefuse, InitiatorTypes
  <2>3. CASE HandleFailure(p)
    <3>1. InitiatorTypes' /\ {accepts', awarded', waiting'} \subseteq SUBSET Participants
      BY <2>3, FailedTypes DEF HandleFailure, MessageTypes
    <3> QED
      BY <2>3, <3>1 DEF HandleFailure, Receive, Failed, MessageTypes, HistoryTypes
  <2>4. CASE HandleDone(p)
    BY <2>4 DEF HandleDone, Receive, InitiatorTypes, MessageTypes, HistoryTypes
  <2>5. CASE WaitingPassed(p) /\ status > 1 /\ bestProposal = p
    <3>1. Failed(waiting \ {p}) /\ late' \in BOOLEAN
      BY <2>5, Zenon DEF WaitingPassed
    <3>2. InitiatorTypes' /\ {accepts', awarded', waiting'} \subseteq SUBSET Participants
      BY <3>1, FailedTypes DEF MessageTypes
    <3> QED
      BY <2>5, <3>1, <3>2 DEF WaitingPassed, Failed, MessageTypes, HistoryTypes
  <2>6. CASE WaitingPassed(p) /\ ~(status > 1 /\ bestProposal = p)
    BY <2>6 DEF WaitingPassed, initiatorVars, historyVars, InitiatorTypes, MessageTypes,
                HistoryTypes
  <2> QED
    BY <1>3, <2>1, <2>2, <2>3, <2>4, <2>5, <2>6 DEF InitiatorStep
<1>4. ASSUME NEW p \in Participants, HandleCfp(p)
      PROVE  Typed'
  <2>1. replies' \subseteq [kind : Kinds, from : Participants]
    BY <1>4, ReplyType DEF HandleCfp, MessageTypes, Kinds
  <2> QED
    BY <1>4, <2>1 DEF HandleCfp, initiatorVars, historyVars, InitiatorTypes, MessageTypes,
                      HistoryTypes
<1>5. ASSUME NEW p \in Participants, PerformTask(p)
      PROVE  Typed'
  <2>1. replies' \subseteq [kind : Kinds, from : Participants]
    BY <1>5, ReplyType DEF PerformTask, MessageTypes, Kinds
  <2>2. failed' \in BOOLEAN
    BY <1>5, Zenon DEF PerformTask, HistoryTypes
  <2> QED
    BY <1>5, <2>1, <2>2 DEF PerformTask, initiatorVars, InitiatorTypes, MessageTypes, HistoryTypes
<1>6. ASSUME NEW p \in Participants, LoseAccept(p)
      PROVE  Typed'
  BY <1>6 DEF LoseAccept, Lose, initiatorVars, historyVars, InitiatorTypes, MessageTypes,
              HistoryTypes
<1>7. ASSUME NEW r \in replies, LoseReply(r)
      PROVE  Typed'
  BY <1>7 DEF LoseReply, Lose, initiatorVars, historyVars, InitiatorTypes, MessageTypes,
              HistoryTypes
<1>8. CASE LoseReplyBy
  <2>1. replyBy' \in BOOLEAN /\ deadlineLost' \in BOOLEAN
    BY <1>8, Zenon DEF LoseReplyBy
  <2> QED
    BY <1>8, <2>1 DEF LoseReplyBy, Lose, initiatorVars, historyVars, InitiatorTypes, MessageTypes,
                      HistoryTypes
<1>9. ASSUME NEW p \in Participants, LoseWaiting(p)
      PROVE  Typed'
  BY <1>9 DEF LoseWaiting, Lose, initiatorVars, historyVars, InitiatorTypes, MessageTypes,
              HistoryTypes
<1>10. CASE UNCHANGED vars
  BY <1>10 DEF vars, initiatorVars, historyVars, InitiatorTypes, MessageTypes, HistoryTypes
<1> QED
  BY <1>1, <1>2, <1>3, <1>4, <1>5, <1>6, <1>7, <1>8, <1>9, <1>10 DEF Next, ParticipantStep

\* For any participants and any number of losses: the initiator's fields, the
\* messages of both sides and the histories keep their types (Initiator,
\* Participant).
THEOREM TypeCorrect == Spec => []TypeOK
<1>1. Typed => TypeOK
  BY DEF Typed, InitiatorTypes, MessageTypes, HistoryTypes, TypeOK
<1> QED
  BY TypedInit, TypedStep, <1>1, PTL DEF Spec

-----------------------------------------------------------------------------
(* The call does not come to a standstill. *)

Faultless == losses = 0 /\ ~failed /\ ~late

\* Without faults the best proposal of status 2 is the one that has the task.
AtTask ==
  Faultless => /\ status = 2 => Responding(bestProposal)
               /\ status = 3 => bestProposal = None
               /\ \A p \in Participants : Reply("failure", p) \notin replies

\* After the deadline nobody counts down to a choice any more, unless it is lost.
NotOverlooked ==
  /\ status = 0 /\ proposals # {} => replyBy \/ pendingProposals < 0 \/ deadlineLost
  /\ status = 0 /\ requested /\ ~replyBy => pendingProposals <= 0 \/ deadlineLost

HandInv == Inv /\ Typed /\ AtTask /\ NotOverlooked

LEMMA RespondingKept ==
  ASSUME accepts \subseteq accepts', NEW p,
         \A k \in {"inform", "failure"} : Reply(k, p) \in replies => Reply(k, p) \in replies',
         Responding(p)
  PROVE  Responding(p)'
BY DEF Responding

\* An acceptance that is sent is a task given.
LEMMA AcceptResponding ==
  ASSUME NEW p, NEW props, NEW rej, Accept(p, props, rej)
  PROVE  status' = 2 /\ Responding(bestProposal)'
BY DEF Accept, Responding

LEMMA FaultlessBefore ==
  ASSUME HandInv, [Next]_vars, Faultless'
  PROVE  Faultless
<1>1. losses \in Nat /\ failed \in BOOLEAN /\ late \in BOOLEAN
  BY DEF HandInv, Typed, MessageTypes, HistoryTypes
<1>2. losses' = losses \/ losses' = losses + 1
  BY DEF Next, InitiatorStep, ParticipantStep, HandlePropose, HandleRefuse, HandleFailure, HandleDone,
         WaitingPassed, Receive, HandleCfp, PerformTask, Cfp, ReplyByPassed, LoseAccept, LoseReply,
         LoseReplyBy, LoseWaiting, Lose, vars
<1>3. (failed => failed') /\ (late => late')
  <2>1. UNCHANGED <<failed, late>> => (failed => failed') /\ (late => late')
    OBVIOUS
  <2>2. ASSUME NEW p \in Participants, InitiatorStep(p)
        PROVE  failed' = failed /\ (late' = late \/ late' = (late \/ Responding(p)))
    <3>1. CASE HandlePropose(p) \/ HandleRefuse(p) \/ HandleFailure(p) \/ HandleDone(p)
      BY <3>1, Zenon DEF HandlePropose, HandleRefuse, HandleFailure, HandleDone, Failed
    <3>2. CASE WaitingPassed(p)
      BY <3>2, Zenon DEF WaitingPassed, Failed, historyVars
    <3> QED
      BY <2>2, <3>1, <3>2, Zenon DEF InitiatorStep
  <2>3. ASSUME NEW p \in Participants, ParticipantStep(p)
        PROVE  late' = late /\ (failed' = failed \/ failed' = TRUE)
    BY <2>3, Zenon DEF ParticipantStep, HandleCfp, PerformTask, historyVars
  <2>4. ASSUME \/ Cfp
               \/ ReplyByPassed
               \/ \E p \in Participants : LoseAccept(p) \/ LoseWaiting(p)
               \/ \E r \in replies : LoseReply(r)
               \/ LoseReplyBy
               \/ UNCHANGED vars
        PROVE  UNCHANGED <<failed, late>>
    BY <2>4, Zenon DEF Cfp, ReplyByPassed, LoseAccept, LoseReply, LoseReplyBy, LoseWaiting, Lose,
                       historyVars, vars
  <2> QED
    BY <2>1, <2>2, <2>3, <2>4, Zenon DEF Next
<1>4. losses = 0
  BY <1>1, <1>2 DEF Faultless
<1>5. ~failed /\ ~late
  BY <1>3 DEF Faultless
<1> QED
  BY <1>4, <1>5 DEF Faultless

\* A proposal or a refusal.
LEMMA CountDownHand ==
  ASSUME HandInv, NEW k \in {"propose", "refuse"}, NEW q \in Participants, Receive(k, q),
         NEW props, NEW rej, CountDown(props, rej), Faultless' => Faultless
  PROVE  AtTask' /\ NotOverlooked'
<1>1. /\ replies' = replies \ {Reply(k, q)} /\ Reply(k, q) \in replies
      /\ UNCHANGED <<requested, replyBy, deadlineLost>>
      /\ pendingProposals' = pendingProposals - 1 /\ pendingProposals \in Int
  BY DEF Receive, CountDown, HandInv, Inv, Types
<1>2. requested /\ (pendingProposals = 1 => status = 0)
  BY <1>1, ReplyMeansRequested DEF HandInv, Inv, BeforeAward
<1>3. \A p : \A j \in {"inform", "failure"} : Reply(j, p) \in replies => Reply(j, p) \in replies'
  BY <1>1, ReplyInjective
<1>4. CASE \E p \in props : Accept(p, props, rej)
  BY <1>1, <1>4, AcceptResponding DEF HandInv, AtTask, NotOverlooked
<1>5. CASE pendingProposals = 1 /\ props = {} /\ proposals' = {} /\ status' = status
  <2>1. status' = 0 /\ (replyBy' \/ deadlineLost')
    BY <1>1, <1>2, <1>5 DEF HandInv, NotOverlooked
  <2> QED
    BY <1>1, <2>1 DEF HandInv, AtTask, NotOverlooked
<1>6. CASE pendingProposals # 1 /\ UNCHANGED <<status, bestProposal, accepts>>
  <2>1. Responding(bestProposal) => Responding(bestProposal)'
    BY <1>3, <1>6, RespondingKept
  <2>2. AtTask'
    BY <1>1, <1>6, <2>1 DEF HandInv, AtTask
  <2>3. NotOverlooked'
    BY <1>1, <1>2, <1>6 DEF HandInv, NotOverlooked
  <2> QED
    BY <2>2, <2>3
<1> QED
  BY <1>4, <1>5, <1>6 DEF CountDown, AcceptProposal

\* What failed() leaves: a call that is not open any more.
LEMMA FailedHand ==
  ASSUME HandInv, NEW timers, Failed(timers), status # 0, ~Faultless'
  PROVE  AtTask' /\ NotOverlooked'
<1>1. status' # 0
  BY DEF Failed, AcceptProposal, Accept
<1> QED
  BY <1>1 DEF AtTask, NotOverlooked

LEMMA InitiatorHand ==
  ASSUME HandInv, NEW p \in Participants, InitiatorStep(p), Faultless' => Faultless
  PROVE  AtTask' /\ NotOverlooked'
<1>1. CASE HandlePropose(p) \/ HandleRefuse(p)
  BY <1>1, CountDownHand DEF HandlePropose, HandleRefuse
<1>2. CASE HandleFailure(p)
  <2>1. Reply("failure", p) \in replies /\ Failed(waiting)
    BY <1>2 DEF HandleFailure, Receive
  <2>2. status # 0
    BY <2>1 DEF HandInv, Inv, BeforeAward, Responding
  <2>3. ~Faultless'
    BY <2>1 DEF HandInv, AtTask
  <2> QED
    BY <2>1, <2>2, <2>3, FailedHand
<1>3. CASE HandleDone(p)
  <2>1. status' = 3 /\ bestProposal' = None /\ replies' \subseteq replies
    BY <1>3 DEF HandleDone, Receive
  <2> QED
    BY <2>1 DEF HandInv, AtTask, NotOverlooked
<1>4. CASE WaitingPassed(p) /\ status > 1 /\ bestProposal = p
  <2>1. Failed(waiting \ {p}) /\ late' = (late \/ Responding(p))
    BY <1>4 DEF WaitingPassed
  <2>2. p # None /\ status \in {2, 3}
    BY <1>4, ParticipantsFinite DEF HandInv, Inv, Types
  <2>3. ~Faultless'
    <3> SUFFICES ASSUME Faultless' PROVE FALSE
      OBVIOUS
    <3>1. Faultless /\ ~Responding(p)
      BY <2>1 DEF Faultless
    <3>2. status = 2
      BY <1>4, <2>2, <3>1 DEF HandInv, AtTask
    <3> QED
      BY <1>4, <3>1, <3>2 DEF HandInv, AtTask
  <2> QED
    BY <1>4, <2>1, <2>2, <2>3, FailedHand
<1>5. CASE WaitingPassed(p) /\ ~(status > 1 /\ bestProposal = p)
  <2>1. UNCHANGED <<initiatorVars, accepts, replies, requested, replyBy, deadlineLost>>
    BY <1>5 DEF WaitingPassed
  <2>2. Responding(bestProposal)' = Responding(bestProposal)
    BY <2>1 DEF initiatorVars, Responding
  <2> QED
    BY <2>1, <2>2 DEF initiatorVars, HandInv, AtTask, NotOverlooked
<1> QED
  BY <1>1, <1>2, <1>3, <1>4, <1>5 DEF InitiatorStep

\* The deadline takes the proposals that are in.
LEMMA ReplyByHand ==
  ASSUME HandInv, ReplyByPassed, Faultless' => Faultless
  PROVE  AtTask' /\ NotOverlooked'
<1>1. UNCHANGED <<requested, replies, deadlineLost>>
  BY DEF ReplyByPassed
<1>2. CASE status < 1 /\ pendingProposals' = 0
           /\ AcceptProposal(proposals, rejectedAID, bestProposal, waiting)
  <2>1. CASE \E p \in proposals : Accept(p, proposals, rejectedAID)
    BY <1>1, <2>1, AcceptResponding DEF HandInv, AtTask, NotOverlooked
  <2>2. CASE proposals' = {} /\ status' = status
    BY <1>1, <1>2, <2>2 DEF HandInv, AtTask, NotOverlooked, Inv, Types
  <2> QED
    BY <1>2, <2>1, <2>2 DEF AcceptProposal
<1>3. CASE status >= 1 /\ UNCHANGED <<initiatorVars, accepts>>
  <2>1. Responding(bestProposal)' = Responding(bestProposal)
    BY <1>1, <1>3 DEF initiatorVars, Responding
  <2>2. status # 0 /\ status' = status
    BY <1>3 DEF initiatorVars
  <2> QED
    BY <1>1, <1>3, <2>1, <2>2 DEF initiatorVars, HandInv, AtTask, NotOverlooked
<1> QED
  BY <1>2, <1>3 DEF ReplyByPassed

\* Who has the task ends with an answer to it.
LEMMA ParticipantHand ==
  ASSUME HandInv, NEW p \in Participants, ParticipantStep(p), Faultless' => Faultless
  PROVE  AtTask' /\ NotOverlooked'
<1>1. UNCHANGED <<initiatorVars, requested, replyBy, deadlineLost>> /\ replies \subseteq replies'
  BY DEF ParticipantStep, HandleCfp, PerformTask
<1>2. NotOverlooked'
  BY <1>1 DEF initiatorVars, HandInv, NotOverlooked
<1>3. Responding(bestProposal) => Responding(bestProposal)'
  BY <1>1 DEF ParticipantStep, HandleCfp, PerformTask, Responding, initiatorVars
<1>4. ASSUME Faultless', NEW q \in Participants, Reply("failure", q) \in replies'
      PROVE  Reply("failure", q) \in replies
  <2>1. CASE HandleCfp(p)
    <3>1. replies' \in {replies, replies \union {Reply("propose", p)}, replies \union {Reply("refuse", p)}}
      BY <2>1 DEF HandleCfp
    <3> QED
      BY <1>4, <3>1, ReplyInjective
  <2>2. CASE PerformTask(p)
    <3>1. replies' = replies \union {Reply("inform", p)}
      BY <1>4, <2>2 DEF PerformTask, Faultless
    <3> QED
      BY <1>4, <3>1, ReplyInjective
  <2> QED
    BY <2>1, <2>2 DEF ParticipantStep
<1> QED
  BY <1>1, <1>2, <1>3, <1>4 DEF initiatorVars, HandInv, AtTask

LEMMA NextHand == HandInv /\ [Next]_vars => AtTask' /\ NotOverlooked'
<1> SUFFICES ASSUME HandInv, [Next]_vars PROVE AtTask' /\ NotOverlooked'
  OBVIOUS
<1>1. Faultless' => Faultless
  BY FaultlessBefore
<1>2. CASE Cfp
  <2>1. status' = 0 /\ replyBy' /\ replies' = replies
    BY <1>2 DEF Cfp
  <2>2. NotOverlooked'
    BY <2>1 DEF NotOverlooked
  <2>3. AtTask'
    BY <1>1, <2>1 DEF HandInv, AtTask
  <2> QED
    BY <2>2, <2>3
<1>3. CASE \/ \E p \in Participants : LoseAccept(p) \/ LoseWaiting(p)
           \/ \E r \in replies : LoseReply(r)
           \/ LoseReplyBy
  <2>1. losses' = losses + 1 /\ losses \in Nat /\ UNCHANGED <<initiatorVars, requested>>
    BY <1>3 DEF LoseAccept, LoseWaiting, LoseReply, LoseReplyBy, Lose, HandInv, Typed, MessageTypes
  <2>2. UNCHANGED <<replyBy, deadlineLost>> \/ deadlineLost'
    BY <1>3 DEF LoseAccept, LoseWaiting, LoseReply, LoseReplyBy
  <2>3. ~Faultless'
    BY <2>1 DEF Faultless
  <2> QED
    BY <2>1, <2>2, <2>3 DEF initiatorVars, HandInv, AtTask, NotOverlooked
<1>4. CASE UNCHANGED vars
  BY <1>1, <1>4 DEF vars, initiatorVars, HandInv, AtTask, NotOverlooked, Responding
<1> QED
  BY <1>1, <1>2, <1>3, <1>4, InitiatorHand, ParticipantHand, ReplyByHand DEF Next

\* The call does not come to a standstill, for any number of participants: an
\* open call has the task with somebody or the deadline to come, unless
\* something failed, was given up or was lost, the deadline included
\* (Initiator.acceptProposal).
THEOREM SomebodyHasIt == Spec => []TaskInHand
<1>1. Init => HandInv
  <2>1. Init => AtTask /\ NotOverlooked
    BY DEF Init, AtTask, NotOverlooked
  <2> QED
    BY <2>1, InitInv, TypedInit DEF HandInv
<1>2. HandInv /\ [Next]_vars => HandInv'
  BY NextInv, TypedStep, NextHand DEF HandInv
<1>3. HandInv => TaskInHand
  BY DEF HandInv, AtTask, NotOverlooked, Faultless, TaskInHand
<1> QED
  BY <1>1, <1>2, <1>3, PTL DEF Spec
=============================================================================
