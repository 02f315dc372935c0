------------------------- MODULE MasterSentinelProofs -------------------------
(***************************************************************************)
(* Proofs about MasterSentinel, for every number of masters and every      *)
(* bound on epochs, losses, starts and crashes.  Theorems that hold for    *)
(* fewer masters or under fewer faults say so.                             *)
(***************************************************************************)
EXTENDS MasterSentinel, FiniteSetTheorems, WellFoundedInduction, TLAPS

-----------------------------------------------------------------------------
(* The tally.                                                              *)

\* A set of masters that is not empty has a largest member, which is what the
\* two loops over vote_result find.
LEMMA LargestIsMember ==
    ASSUME NEW S \in SUBSET Masters, S # {}
    PROVE  Largest(S) \in S /\ \A d \in S : d <= Largest(S)
<1> DEFINE T == {N - d : d \in S}
<1>1. N \in Nat
  BY RolesAssumption
<1>2. \A d \in S : d \in Nat /\ d <= N
  BY <1>1 DEF Masters
<1>3. T \subseteq Nat /\ T # {}
  BY <1>1, <1>2
<1>4. \E x \in T : \A y \in T : ~ (<<y, x>> \in OpToRel(<, Nat))
  BY <1>3, WFMin, NatLessThanWellFounded, Zenon
<1>5. PICK x \in T : \A y \in T : ~ (<<y, x>> \in OpToRel(<, Nat))
  BY <1>4
<1>6. \A y \in T : x <= y
  <2> HIDE DEF T
  <2> SUFFICES ASSUME NEW y \in T, y < x PROVE FALSE
    BY <1>3
  <2> DEFINE pair == <<y, x>>
  <2>1. pair \in Nat \X Nat /\ pair[1] < pair[2]
    BY <1>3
  <2>2. pair \in OpToRel(<, Nat)
    BY <2>1, Zenon DEF OpToRel
  <2>3. QED
    BY <1>5, <2>2
<1>7. PICK c \in S : x = N - c
  BY <1>5
<1>8. \A d \in S : d <= c
  <2> SUFFICES ASSUME NEW d \in S PROVE d <= c
    OBVIOUS
  <2>1. N - d \in T
    OBVIOUS
  <2>2. N - c <= N - d
    BY <1>6, <1>7, <2>1
  <2>3. QED
    BY <1>1, <1>2, <2>2
<1>9. QED
  BY <1>8 DEF Largest

-----------------------------------------------------------------------------
(* The inductive invariant.                                                *)

\* A call that the server thread still has to answer is one its caller waits
\* for: no caller is answered twice, or by a master it did not ask.
CallsMatch == \A i \in Masters : LET p == srv[i].from IN
                  p # 0 => srv[i].at # "idle" /\ pc[p] = "wait" /\ target[p] = i

\* Each part needs others: an answer goes to a caller in ballot (CallsMatch), a
\* ballot that ends finds its master in Consensus (BallotIsConsensus).
IInv == /\ TypeOK
        /\ BallotIsConsensus
        /\ CallsMatch
        /\ WatchesItsLeader

USE DEF shared, roles, ballot, faults

\* The types are closed under what the actions do with their members.
LEMMA MasterFacts ==
    /\ 1 \in Masters /\ 0 \notin Masters
    /\ \A p \in Masters : p \in 0..N /\ (p # N => p + 1 \in Masters)
    /\ 0 \in 0..N /\ 0 \in Epochs
    /\ \A e \in Epochs : e < MaxEpoch => e + 1 \in Epochs
    /\ 0 \in 0..Retries
    /\ \A r \in 0..Retries : r # Retries => r + 1 \in 0..Retries
  BY RolesAssumption, SentinelAssumption DEF Masters, Epochs, Retries

\* The same for tickets and for the tables of votes.
LEMMA TicketFacts ==
    /\ NoTicket \in Tickets
    /\ \A e \in Epochs, v \in 0..N : [epoch |-> e, vote |-> v] \in Tickets
    /\ \A t \in Tickets : t.epoch \in Epochs /\ t.vote \in 0..N
    /\ NoVotes \in Tables
    /\ \A t \in Tables, i \in Masters, v \in 0..N : [t EXCEPT ![i] = v] \in Tables
  BY MasterFacts DEF NoTicket, Tickets, NoVotes, Tables

\* The same for the request of a server thread.
LEMMA RequestFacts ==
    /\ SrvIdle \in Requests
    /\ \A p \in Masters, t \in Tickets, at \in {"epoch", "reply"} :
          [at |-> at, from |-> p, ticket |-> t] \in Requests
    /\ \A r \in Requests :
          /\ r.from \in Masters \cup {0} /\ r.ticket \in Tickets
          /\ [r EXCEPT !.from = 0] \in Requests
          /\ \A at \in {"vote", "status", "reply"} : [r EXCEPT !.at = at] \in Requests
  BY TicketFacts DEF SrvIdle, Requests

\* The vote of the next round is a master.
LEMMA CandidateIsVote ==
    ASSUME NEW v, Candidates(v) # {}
    PROVE  Largest(Candidates(v)) \in Masters
  BY LargestIsMember, Candidates(v) \in SUBSET Masters DEF Candidates

\* The same for the winner of a ballot.
LEMMA WinnerIsMaster ==
    ASSUME NEW v, Elected(v) # {}
    PROVE  Largest(Elected(v)) \in Masters
  BY LargestIsMember, Elected(v) \in SUBSET Masters DEF Elected

\* The end of a call of the polling loop.
LEMMA ProceedType ==
    ASSUME TypeOK, NEW p \in Masters, Proceed(p), pc[p] # "off"
    PROVE  /\ pc' \in [Masters -> PCs] /\ target' \in [Masters -> Masters]
           /\ \A q \in Masters : pc'[q] = "off" <=> pc[q] = "off"
<1>1. target[p] \in Masters
  BY DEF TypeOK
<1>2. CASE target[p] = N
  <2>1. pc' = [pc EXCEPT ![p] = "tally"] /\ target' = [target EXCEPT ![p] = 1]
    BY <1>2 DEF Proceed
  <2>2. target' \in [Masters -> Masters]
    BY <2>1, MasterFacts DEF TypeOK
  <2>. QED
    BY <2>1, <2>2 DEF TypeOK, PCs
<1>3. CASE target[p] # N
  <2>1. target[p] + 1 \in Masters
    BY <1>1, <1>3, MasterFacts
  <2>2. pc' = [pc EXCEPT ![p] = "wait"] /\ target' = [target EXCEPT ![p] = @ + 1]
    BY <1>3 DEF Proceed
  <2>3. target' \in [Masters -> Masters]
    BY <2>1, <2>2 DEF TypeOK
  <2>4. QED
    BY <2>2, <2>3 DEF TypeOK, PCs
<1>4. QED
  BY <1>2, <1>3

\* Every action keeps the types; that an answer has a caller that runs needs
\* CallsMatch.
LEMMA TypeStep ==
    ASSUME TypeOK, CallsMatch, [Next]_vars
    PROVE  TypeOK'
<1>1. ASSUME NEW p \in Masters, Start(p) PROVE TypeOK'
  BY <1>1, MasterFacts DEF Start, NameItself, TypeOK, PCs, Statuses, Consensus
<1>2. ASSUME NEW p \in Masters, Crash(p) PROVE TypeOK'
  <2>1. pc' \in [Masters -> PCs] /\ response' \in [Masters -> SUBSET Tickets]
    BY <1>2 DEF Crash, TypeOK, PCs
  <2>2. \A q \in Masters : q = srv[p].from => pc[q] = "wait"
    BY MasterFacts DEF CallsMatch
  <2>3. \A q \in Masters : pc'[q] = "off" <=> ~up'[q]
    BY <1>2, <2>2 DEF Crash, TypeOK
  <2>4. srv' \in [Masters -> Requests]
    BY <1>2, RequestFacts DEF Crash, TypeOK
  <2>5. /\ leader' \in [Masters -> Masters \cup {NoLeader}]
        /\ target' \in [Masters -> Masters]
        /\ votes' \in [Masters -> Tables]
        /\ me_vote' \in [Masters -> Tickets]
        /\ retry' \in [Masters -> 0..Retries]
    BY <1>2, MasterFacts, TicketFacts DEF Crash, TypeOK
  <2>6. roles' \in [Masters -> Statuses] \X [Masters -> Masters]
    BY <1>2, MasterFacts DEF Crash, NameItself, TypeOK, Statuses, Consensus
  <2>7. QED
    BY <1>2, <2>1, <2>3, <2>4, <2>5, <2>6, MasterFacts DEF Crash, TypeOK
<1>3. ASSUME NEW p \in Masters, Watch(p) PROVE TypeOK'
  BY <1>3 DEF Watch, TypeOK, PCs
<1>4. ASSUME NEW p \in Masters, PingAnswered(p) PROVE TypeOK'
  BY <1>4, MasterFacts DEF PingAnswered, TypeOK, PCs
<1>5. ASSUME NEW p \in Masters, PingFailed(p) PROVE TypeOK'
  BY <1>5, MasterFacts DEF PingFailed, TypeOK, PCs
<1>6. ASSUME NEW p \in Masters, Timeout(p) PROVE TypeOK'
  BY <1>6, MasterFacts DEF Timeout, Reconsider, TypeOK, PCs, Statuses, Consensus
<1>7. ASSUME NEW p \in Masters, EnterBallot(p) PROVE TypeOK'
  BY <1>7, MasterFacts, TicketFacts DEF EnterBallot, TypeOK, PCs
<1>8. ASSUME NEW p \in Masters, NextRound(p) PROVE TypeOK'
  BY <1>8, MasterFacts, TicketFacts DEF NextRound, TypeOK, PCs
<1>9. ASSUME NEW p \in Masters, NoAnswer(p) PROVE TypeOK'
  <2>1. /\ pc' \in [Masters -> PCs] /\ target' \in [Masters -> Masters]
        /\ \A q \in Masters : pc'[q] = "off" <=> pc[q] = "off"
    BY <1>9, ProceedType DEF NoAnswer
  <2>2. srv' \in [Masters -> Requests]
    BY <1>9, RequestFacts DEF NoAnswer, HangUp, TypeOK
  <2>3. QED
    BY <1>9, <2>1, <2>2 DEF NoAnswer, TypeOK
<1>10. ASSUME NEW p \in Masters, BrokenCall(p) PROVE TypeOK'
  BY <1>10, ProceedType DEF BrokenCall, TypeOK
<1>11. ASSUME NEW p \in Masters, RecordVote(p) PROVE TypeOK'
  <2>1. /\ pc' \in [Masters -> PCs] /\ target' \in [Masters -> Masters]
        /\ \A q \in Masters : pc'[q] = "off" <=> pc[q] = "off"
    BY <1>11, ProceedType DEF RecordVote
  <2>2. PICK r \in response[p] : votes' = [votes EXCEPT ![p][target[p]] = r.vote]
    BY <1>11 DEF RecordVote
  <2>3. target[p] \in Masters /\ r.vote \in 0..N
    BY TicketFacts DEF TypeOK
  <2>4. votes' \in [Masters -> Tables]
    BY <2>2, <2>3, TicketFacts DEF TypeOK
  <2>5. response' \in [Masters -> SUBSET Tickets]
    BY <1>11 DEF RecordVote, TypeOK
  <2>6. QED
    BY <1>11, <2>1, <2>4, <2>5 DEF RecordVote, TypeOK
<1>12. ASSUME NEW p \in Masters, SeeOtherEpoch(p) PROVE TypeOK'
  BY <1>12 DEF SeeOtherEpoch, TypeOK, PCs
<1>13. ASSUME NEW p \in Masters, AdoptEpoch(p) PROVE TypeOK'
  BY <1>13, MasterFacts, TicketFacts DEF AdoptEpoch, TypeOK, PCs
<1>14. ASSUME NEW p \in Masters, TallyNothing(p) PROVE TypeOK'
  BY <1>14, TicketFacts DEF TallyNothing, EndBallot, TypeOK, PCs
<1>15. ASSUME NEW p \in Masters, TallyUndecided(p) PROVE TypeOK'
  BY <1>15, MasterFacts, CandidateIsVote DEF TallyUndecided, NextVote, TypeOK, PCs
<1>16. ASSUME NEW p \in Masters, TallyElected(p) PROVE TypeOK'
  BY <1>16, TicketFacts, WinnerIsMaster DEF TallyElected, StatusAfter, EndBallot, TypeOK, PCs, Statuses, Leader, Follower
<1>17. ASSUME NEW p \in Masters, NEW q \in Masters, SrvAnswer(p, q) PROVE TypeOK'
  BY <1>17, TicketFacts DEF SrvAnswer, TypeOK, PCs
<1>18. ASSUME NEW p \in Masters, NEW q \in Masters, SrvTake(p, q) PROVE TypeOK'
  BY <1>18, RequestFacts DEF SrvTake, TypeOK
<1>19. ASSUME NEW p \in Masters, SrvSetEpoch(p) PROVE TypeOK'
  BY <1>19, TicketFacts, RequestFacts DEF SrvSetEpoch, TypeOK
<1>20. ASSUME NEW p \in Masters, SrvSetVote(p) PROVE TypeOK'
  BY <1>20, MasterFacts, RequestFacts DEF SrvSetVote, TypeOK
<1>21. ASSUME NEW p \in Masters, SrvSetStatus(p) PROVE TypeOK'
  BY <1>21, RequestFacts DEF SrvSetStatus, Reconsider, TypeOK, PCs, Statuses, Consensus
<1>22. ASSUME NEW p \in Masters, SrvReply(p) PROVE TypeOK'
  <2>1. srv[p].from \in Masters \cup {0} /\ srv' \in [Masters -> Requests]
    BY <1>22, RequestFacts DEF SrvReply, TypeOK
  <2>2. CASE srv[p].from = 0
    BY <1>22, <2>1, <2>2 DEF SrvReply, TypeOK
  <2>3. CASE srv[p].from # 0
    <3>1. pc[srv[p].from] = "wait"
      BY <2>1, <2>3 DEF CallsMatch
    <3>2. pc' \in [Masters -> PCs]
      <4>1. pc' = [pc EXCEPT ![srv[p].from] = "got"]
        BY <1>22, <2>3 DEF SrvReply
      <4>2. pc \in [Masters -> PCs] /\ "got" \in PCs
        BY DEF TypeOK, PCs
      <4>. QED
        BY <4>1, <4>2
    <3>5. [epoch |-> m_epoch[p], vote |-> m_vote[p]] \in Tickets
      BY TicketFacts DEF TypeOK
    <3>6. response' \in [Masters -> SUBSET Tickets]
      <4> DEFINE answer == {[epoch |-> m_epoch[p], vote |-> m_vote[p]]}
      <4>1. answer \in SUBSET Tickets
        BY <3>5
      <4>2. response' = [response EXCEPT ![srv[p].from] = answer]
        BY <1>22, <2>3 DEF SrvReply
      <4>3. QED
        BY <4>1, <4>2 DEF TypeOK
    <3>3. \A q \in Masters : pc'[q] = "off" <=> pc[q] = "off"
      BY <1>22, <2>3, <3>1 DEF SrvReply, TypeOK
    <3>4. QED
      BY <1>22, <2>1, <3>2, <3>3, <3>6 DEF SrvReply, TypeOK
  <2>4. QED
    BY <2>2, <2>3
<1>23. CASE UNCHANGED vars
  BY <1>23 DEF vars, TypeOK
<1>24. QED
  BY <1>1, <1>2, <1>3, <1>4, <1>5, <1>6, <1>7, <1>8, <1>9, <1>10, <1>11, <1>12, <1>13, <1>14, <1>15, <1>16, <1>17, <1>18, <1>19, <1>20, <1>21, <1>22, <1>23 DEF Next, SyncStep, SrvStep

-----------------------------------------------------------------------------
(* The calls between the masters.                                          *)

\* Nothing happens to the calls when a master that waits for none moves.
LEMMA CallsKept ==
    ASSUME TypeOK, CallsMatch, UNCHANGED srv, NEW p \in Masters, pc[p] # "wait",
           \A q \in Masters \ {p} : pc'[q] = pc[q] /\ target'[q] = target[q]
    PROVE  CallsMatch'
<1> SUFFICES ASSUME NEW i \in Masters, srv[i].from # 0
             PROVE  /\ srv[i].at # "idle" /\ pc'[srv[i].from] = "wait"
                    /\ target'[srv[i].from] = i
  BY DEF CallsMatch
<1>1. srv[i].from \in Masters
  BY RequestFacts DEF TypeOK
<1>2. srv[i].at # "idle" /\ pc[srv[i].from] = "wait" /\ target[srv[i].from] = i
  BY DEF CallsMatch
<1>3. QED
  BY <1>1, <1>2

\* A new call is made by a master that waits for no other answer, and an answer
\* or a failure ends it on both sides.
LEMMA CallsStep ==
    ASSUME TypeOK, CallsMatch, [Next]_vars
    PROVE  CallsMatch'
<1>1. ASSUME NEW p \in Masters, Start(p) PROVE CallsMatch'
  BY <1>1, CallsKept DEF Start, NameItself, TypeOK
<1>2. ASSUME NEW p \in Masters, Crash(p) PROVE CallsMatch'
  <2> SUFFICES ASSUME NEW j \in Masters, srv'[j].from # 0
               PROVE  /\ srv'[j].at # "idle" /\ pc'[srv'[j].from] = "wait"
                      /\ target'[srv'[j].from] = j
    BY DEF CallsMatch
  <2>1. j # p /\ srv'[j] = srv[j] /\ srv[j].from # p /\ srv[j].from \in Masters
    <3>1. j # p
      BY <1>2 DEF Crash, TypeOK, SrvIdle
    <3>2. srv[j] \in Requests
      BY DEF TypeOK
    <3>3. srv[j].from # p
      BY <1>2, <3>1, <3>2 DEF Crash, TypeOK, Requests
    <3>4. srv'[j] = srv[j]
      BY <1>2, <3>1, <3>3 DEF Crash, TypeOK
    <3>5. QED
      BY <3>1, <3>2, <3>3, <3>4, RequestFacts
  <2>2. /\ srv[j].at # "idle" /\ pc[srv[j].from] = "wait" /\ target[srv[j].from] = j
    BY <2>1 DEF CallsMatch
  <2>3. srv[j].from # srv[p].from
    BY <2>1, <2>2 DEF CallsMatch
  <2>4. QED
    BY <1>2, <2>1, <2>2, <2>3 DEF Crash, TypeOK
<1>3. ASSUME NEW p \in Masters, Watch(p) PROVE CallsMatch'
  BY <1>3, CallsKept DEF Watch, TypeOK
<1>4. ASSUME NEW p \in Masters, PingAnswered(p) PROVE CallsMatch'
  BY <1>4, CallsKept DEF PingAnswered, TypeOK
<1>5. ASSUME NEW p \in Masters, PingFailed(p) PROVE CallsMatch'
  BY <1>5, CallsKept DEF PingFailed, TypeOK
<1>6. ASSUME NEW p \in Masters, Timeout(p) PROVE CallsMatch'
  BY <1>6, CallsKept DEF Timeout, Reconsider, TypeOK
<1>7. ASSUME NEW p \in Masters, EnterBallot(p) PROVE CallsMatch'
  BY <1>7, CallsKept DEF EnterBallot, LooksForLeader, TypeOK
<1>8. ASSUME NEW p \in Masters, NextRound(p) PROVE CallsMatch'
  BY <1>8, CallsKept DEF NextRound, TypeOK
<1>9. ASSUME NEW p \in Masters, NoAnswer(p) PROVE CallsMatch'
  <2> SUFFICES ASSUME NEW j \in Masters, srv'[j].from # 0
               PROVE  /\ srv'[j].at # "idle" /\ pc'[srv'[j].from] = "wait"
                      /\ target'[srv'[j].from] = j
    BY DEF CallsMatch
  <2>1. srv'[j] = srv[j] /\ srv[j].from \in Masters
    <3>1. srv[j] \in Requests
      BY DEF TypeOK
    <3>2. CASE j = target[p] /\ srv[j].from = p
      BY <1>9, <3>1, <3>2 DEF NoAnswer, HangUp, TypeOK, Requests
    <3>3. CASE ~ (j = target[p] /\ srv[j].from = p)
      BY <1>9, <3>1, <3>3, RequestFacts DEF NoAnswer, HangUp, TypeOK
    <3>4. QED
      BY <3>2, <3>3
  <2>2. /\ srv[j].at # "idle" /\ pc[srv[j].from] = "wait" /\ target[srv[j].from] = j
    BY <2>1 DEF CallsMatch
  <2>3. srv[j].from # p
    BY <1>9, <2>1, <2>2 DEF NoAnswer, HangUp, TypeOK, Requests
  <2>4. QED
    BY <1>9, <2>1, <2>2, <2>3 DEF NoAnswer, Proceed, TypeOK
<1>10. ASSUME NEW p \in Masters, BrokenCall(p) PROVE CallsMatch'
  BY <1>10, CallsKept DEF BrokenCall, Proceed, TypeOK
<1>11. ASSUME NEW p \in Masters, RecordVote(p) PROVE CallsMatch'
  BY <1>11, CallsKept DEF RecordVote, Proceed, TypeOK
<1>12. ASSUME NEW p \in Masters, SeeOtherEpoch(p) PROVE CallsMatch'
  BY <1>12, CallsKept DEF SeeOtherEpoch, TypeOK
<1>13. ASSUME NEW p \in Masters, AdoptEpoch(p) PROVE CallsMatch'
  BY <1>13, CallsKept DEF AdoptEpoch, TypeOK
<1>14. ASSUME NEW p \in Masters, TallyNothing(p) PROVE CallsMatch'
  BY <1>14, CallsKept DEF TallyNothing, TypeOK
<1>15. ASSUME NEW p \in Masters, TallyUndecided(p) PROVE CallsMatch'
  BY <1>15, CallsKept DEF TallyUndecided, TypeOK
<1>16. ASSUME NEW p \in Masters, TallyElected(p) PROVE CallsMatch'
  BY <1>16, CallsKept DEF TallyElected, TypeOK
<1>17. ASSUME NEW p \in Masters, NEW i \in Masters, SrvAnswer(i, p) PROVE CallsMatch'
  <2> SUFFICES ASSUME NEW j \in Masters, srv[j].from # 0
               PROVE  /\ srv[j].at # "idle" /\ pc'[srv[j].from] = "wait"
                      /\ target[srv[j].from] = j
    BY <1>17 DEF SrvAnswer, CallsMatch
  <2>1. /\ srv[j].at # "idle" /\ pc[srv[j].from] = "wait" /\ target[srv[j].from] = j
    BY DEF CallsMatch
  <2>2. srv[j].from # p
    BY <1>17, <2>1 DEF SrvAnswer
  <2>3. QED
    BY <1>17, <2>1, <2>2, RequestFacts DEF SrvAnswer, TypeOK
<1>18. ASSUME NEW p \in Masters, NEW i \in Masters, SrvTake(i, p) PROVE CallsMatch'
  <2> SUFFICES ASSUME NEW j \in Masters, srv'[j].from # 0
               PROVE  /\ srv'[j].at # "idle" /\ pc[srv'[j].from] = "wait"
                      /\ target[srv'[j].from] = j
    BY <1>18 DEF SrvTake, CallsMatch
  <2>1. CASE j = i
    BY <1>18, <2>1 DEF SrvTake, TypeOK
  <2>2. CASE j # i
    BY <1>18, <2>2 DEF SrvTake, CallsMatch, TypeOK
  <2>3. QED
    BY <2>1, <2>2
<1>19. ASSUME NEW p \in Masters, SrvSetEpoch(p) PROVE CallsMatch'
  <2>1. srv[p].at # "idle" /\ srv'[p].at # "idle" /\ srv'[p].from = srv[p].from
    BY <1>19 DEF SrvSetEpoch, TypeOK, Requests
  <2>2. \A j \in Masters \ {p} : srv'[j] = srv[j]
    BY <1>19 DEF SrvSetEpoch, TypeOK
  <2>3. QED
    BY <1>19, <2>1, <2>2 DEF SrvSetEpoch, CallsMatch
<1>20. ASSUME NEW p \in Masters, SrvSetVote(p) PROVE CallsMatch'
  <2>1. srv[p].at # "idle" /\ srv'[p].at # "idle" /\ srv'[p].from = srv[p].from
    BY <1>20 DEF SrvSetVote, TypeOK, Requests
  <2>2. \A j \in Masters \ {p} : srv'[j] = srv[j]
    BY <1>20 DEF SrvSetVote, TypeOK
  <2>3. QED
    BY <1>20, <2>1, <2>2 DEF SrvSetVote, CallsMatch
<1>21. ASSUME NEW p \in Masters, SrvSetStatus(p) PROVE CallsMatch'
  <2>1. srv[p].at # "idle" /\ srv'[p].at # "idle" /\ srv'[p].from = srv[p].from
    BY <1>21 DEF SrvSetStatus, Reconsider, TypeOK, Requests
  <2>2. \A j \in Masters \ {p} : srv'[j] = srv[j]
    BY <1>21 DEF SrvSetStatus, Reconsider, TypeOK
  <2>3. QED
    BY <1>21, <2>1, <2>2 DEF SrvSetStatus, Reconsider, CallsMatch
<1>22. ASSUME NEW p \in Masters, SrvReply(p) PROVE CallsMatch'
  <2> SUFFICES ASSUME NEW j \in Masters, srv'[j].from # 0
               PROVE  /\ srv'[j].at # "idle" /\ pc'[srv'[j].from] = "wait"
                      /\ target'[srv'[j].from] = j
    BY DEF CallsMatch
  <2>1. j # p /\ srv'[j] = srv[j] /\ srv[j].from \in Masters
    BY <1>22, RequestFacts DEF SrvReply, SrvIdle, TypeOK
  <2>2. /\ srv[j].at # "idle" /\ pc[srv[j].from] = "wait" /\ target[srv[j].from] = j
    BY <2>1 DEF CallsMatch
  <2>3. srv[p].from # 0 => srv[j].from # srv[p].from
    BY <2>1, <2>2 DEF CallsMatch
  <2>4. QED
    BY <1>22, <2>1, <2>2, <2>3, RequestFacts DEF SrvReply, TypeOK
<1>23. CASE UNCHANGED vars
  BY <1>23 DEF vars, CallsMatch
<1>24. QED
  BY <1>1, <1>2, <1>3, <1>4, <1>5, <1>6, <1>7, <1>8, <1>9, <1>10, <1>11,
     <1>12, <1>13, <1>14, <1>15, <1>16, <1>17, <1>18, <1>19, <1>20, <1>21,
     <1>22, <1>23 DEF Next, SyncStep, SrvStep

-----------------------------------------------------------------------------
(* The roles.                                                              *)

\* The three answers of get_status are different.
LEMMA StatusesDiffer ==
    Leader # Follower /\ Leader # Consensus /\ Follower # Consensus
  BY DEF Leader, Follower, Consensus

\* A call of the polling loop that is over leaves its master in the ballot.
LEMMA ProceedBallot ==
    ASSUME TypeOK, BallotIsConsensus, NEW p \in Masters, Proceed(p), UNCHANGED m_status,
           pc[p] \in InBallot
    PROVE  BallotIsConsensus'
<1>1. \A q \in Masters \ {p} : pc'[q] = pc[q]
  BY DEF Proceed, TypeOK
<1>2. QED
  BY <1>1 DEF BallotIsConsensus

\* A ballot is entered in Consensus, and what makes its master lead or follow
\* also ends it.
LEMMA BallotStep ==
    ASSUME TypeOK, CallsMatch, BallotIsConsensus, [Next]_vars
    PROVE  BallotIsConsensus'
<1>1. ASSUME NEW p \in Masters, Start(p) PROVE BallotIsConsensus'
  BY <1>1 DEF Start, NameItself, BallotIsConsensus, InBallot, TypeOK
<1>2. ASSUME NEW p \in Masters, Crash(p) PROVE BallotIsConsensus'
  <2>1. \A q \in Masters : q = srv[p].from => pc[q] = "wait"
    BY MasterFacts DEF CallsMatch
  <2>2. \A q \in Masters \ {p} : pc'[q] \in InBallot => pc[q] \in InBallot
    BY <1>2, <2>1 DEF Crash, InBallot, TypeOK
  <2>3. pc'[p] \notin InBallot /\ \A q \in Masters \ {p} : m_status'[q] = m_status[q]
    BY <1>2 DEF Crash, NameItself, InBallot, TypeOK
  <2>4. QED
    BY <2>2, <2>3 DEF BallotIsConsensus
<1>3. ASSUME NEW p \in Masters, Watch(p) PROVE BallotIsConsensus'
  BY <1>3 DEF Watch, BallotIsConsensus, InBallot, TypeOK
<1>4. ASSUME NEW p \in Masters, PingAnswered(p) PROVE BallotIsConsensus'
  BY <1>4 DEF PingAnswered, BallotIsConsensus, InBallot, TypeOK
<1>5. ASSUME NEW p \in Masters, PingFailed(p) PROVE BallotIsConsensus'
  BY <1>5 DEF PingFailed, BallotIsConsensus, InBallot, TypeOK
<1>6. ASSUME NEW p \in Masters, Timeout(p) PROVE BallotIsConsensus'
  BY <1>6 DEF Timeout, Reconsider, BallotIsConsensus, InBallot, TypeOK
<1>7. ASSUME NEW p \in Masters, EnterBallot(p) PROVE BallotIsConsensus'
  BY <1>7 DEF EnterBallot, LooksForLeader, BallotIsConsensus, InBallot, TypeOK
<1>8. ASSUME NEW p \in Masters, NextRound(p) PROVE BallotIsConsensus'
  BY <1>8 DEF NextRound, BallotIsConsensus, InBallot, TypeOK
<1>9. ASSUME NEW p \in Masters, NoAnswer(p) PROVE BallotIsConsensus'
  BY <1>9, ProceedBallot DEF NoAnswer, InBallot
<1>10. ASSUME NEW p \in Masters, BrokenCall(p) PROVE BallotIsConsensus'
  BY <1>10, ProceedBallot DEF BrokenCall, InBallot
<1>11. ASSUME NEW p \in Masters, RecordVote(p) PROVE BallotIsConsensus'
  BY <1>11, ProceedBallot DEF RecordVote, InBallot
<1>12. ASSUME NEW p \in Masters, SeeOtherEpoch(p) PROVE BallotIsConsensus'
  BY <1>12 DEF SeeOtherEpoch, BallotIsConsensus, InBallot, TypeOK
<1>13. ASSUME NEW p \in Masters, AdoptEpoch(p) PROVE BallotIsConsensus'
  BY <1>13 DEF AdoptEpoch, BallotIsConsensus, InBallot, TypeOK
<1>14. ASSUME NEW p \in Masters, TallyNothing(p) PROVE BallotIsConsensus'
  BY <1>14 DEF TallyNothing, BallotIsConsensus, InBallot, TypeOK
<1>15. ASSUME NEW p \in Masters, TallyUndecided(p) PROVE BallotIsConsensus'
  BY <1>15 DEF TallyUndecided, BallotIsConsensus, InBallot, TypeOK
<1>16. ASSUME NEW p \in Masters, TallyElected(p) PROVE BallotIsConsensus'
  BY <1>16 DEF TallyElected, BallotIsConsensus, InBallot, TypeOK
<1>17. ASSUME NEW p \in Masters, NEW i \in Masters, SrvAnswer(i, p) PROVE BallotIsConsensus'
  BY <1>17 DEF SrvAnswer, BallotIsConsensus, InBallot, TypeOK
<1>18. ASSUME NEW p \in Masters, NEW i \in Masters, SrvTake(i, p) PROVE BallotIsConsensus'
  BY <1>18 DEF SrvTake, BallotIsConsensus, InBallot, TypeOK
<1>19. ASSUME NEW p \in Masters, SrvSetEpoch(p) PROVE BallotIsConsensus'
  BY <1>19 DEF SrvSetEpoch, BallotIsConsensus, TypeOK
<1>20. ASSUME NEW p \in Masters, SrvSetVote(p) PROVE BallotIsConsensus'
  BY <1>20 DEF SrvSetVote, BallotIsConsensus, TypeOK
<1>21. ASSUME NEW p \in Masters, SrvSetStatus(p) PROVE BallotIsConsensus'
  BY <1>21 DEF SrvSetStatus, Reconsider, BallotIsConsensus, TypeOK
<1>22. ASSUME NEW p \in Masters, SrvReply(p) PROVE BallotIsConsensus'
  <2>1. srv[p].from # 0 => srv[p].from \in Masters /\ pc[srv[p].from] = "wait"
    BY RequestFacts DEF CallsMatch, TypeOK
  <2>2. \A q \in Masters : pc'[q] \in InBallot => pc[q] \in InBallot
    BY <1>22, <2>1 DEF SrvReply, InBallot, TypeOK
  <2>3. QED
    BY <1>22, <2>2 DEF SrvReply, BallotIsConsensus
<1>23. CASE UNCHANGED vars
  BY <1>23 DEF vars, BallotIsConsensus
<1>24. QED
  BY <1>1, <1>2, <1>3, <1>4, <1>5, <1>6, <1>7, <1>8, <1>9, <1>10, <1>11,
     <1>12, <1>13, <1>14, <1>15, <1>16, <1>17, <1>18, <1>19, <1>20, <1>21,
     <1>22, <1>23 DEF Next, SyncStep, SrvStep

\* The local leader is forgotten only in Consensus, and set with m_leader.
LEMMA WatchStep ==
    ASSUME TypeOK, BallotIsConsensus, WatchesItsLeader, [Next]_vars
    PROVE  WatchesItsLeader'
<1>1. ASSUME NEW p \in Masters, Start(p) PROVE WatchesItsLeader'
  BY <1>1 DEF Start, NameItself, WatchesItsLeader, TypeOK, Follower, Consensus
<1>2. ASSUME NEW p \in Masters, Crash(p) PROVE WatchesItsLeader'
  <2>1. \A q \in Masters \ {p} : pc'[q] \in {pc[q], "got"}
    BY <1>2 DEF Crash, TypeOK
  <2>2. pc'[p] = "off" /\ m_status'[p] = Consensus
    BY <1>2 DEF Crash, NameItself, TypeOK
  <2>3. \A q \in Masters \ {p} :
          m_status'[q] = m_status[q] /\ m_leader'[q] = m_leader[q] /\ leader'[q] = leader[q]
    BY <1>2 DEF Crash, NameItself, TypeOK
  <2>4. QED
    BY <2>1, <2>2, <2>3, StatusesDiffer DEF WatchesItsLeader
<1>3. ASSUME NEW p \in Masters, Watch(p) PROVE WatchesItsLeader'
  BY <1>3 DEF Watch, WatchesItsLeader, TypeOK
<1>4. ASSUME NEW p \in Masters, PingAnswered(p) PROVE WatchesItsLeader'
  BY <1>4 DEF PingAnswered, WatchesItsLeader, TypeOK
<1>5. ASSUME NEW p \in Masters, PingFailed(p) PROVE WatchesItsLeader'
  BY <1>5 DEF PingFailed, WatchesItsLeader, TypeOK
<1>6. ASSUME NEW p \in Masters, Timeout(p) PROVE WatchesItsLeader'
  BY <1>6 DEF Timeout, Reconsider, WatchesItsLeader, TypeOK, Follower, Consensus
<1>7. ASSUME NEW p \in Masters, EnterBallot(p) PROVE WatchesItsLeader'
  BY <1>7 DEF EnterBallot, LooksForLeader, WatchesItsLeader, TypeOK
<1>8. ASSUME NEW p \in Masters, NextRound(p) PROVE WatchesItsLeader'
  BY <1>8 DEF NextRound, WatchesItsLeader, TypeOK
<1>9. ASSUME NEW p \in Masters, NoAnswer(p) PROVE WatchesItsLeader'
  BY <1>9 DEF NoAnswer, Proceed, WatchesItsLeader, TypeOK
<1>10. ASSUME NEW p \in Masters, BrokenCall(p) PROVE WatchesItsLeader'
  BY <1>10 DEF BrokenCall, Proceed, WatchesItsLeader, TypeOK
<1>11. ASSUME NEW p \in Masters, RecordVote(p) PROVE WatchesItsLeader'
  BY <1>11 DEF RecordVote, Proceed, WatchesItsLeader, TypeOK
<1>12. ASSUME NEW p \in Masters, SeeOtherEpoch(p) PROVE WatchesItsLeader'
  BY <1>12 DEF SeeOtherEpoch, WatchesItsLeader, TypeOK
<1>13. ASSUME NEW p \in Masters, AdoptEpoch(p) PROVE WatchesItsLeader'
  BY <1>13 DEF AdoptEpoch, WatchesItsLeader, BallotIsConsensus, InBallot, TypeOK, Follower, Consensus
<1>14. ASSUME NEW p \in Masters, TallyNothing(p) PROVE WatchesItsLeader'
  BY <1>14 DEF TallyNothing, WatchesItsLeader, BallotIsConsensus, InBallot, TypeOK, Follower, Consensus
<1>15. ASSUME NEW p \in Masters, TallyUndecided(p) PROVE WatchesItsLeader'
  BY <1>15 DEF TallyUndecided, WatchesItsLeader, BallotIsConsensus, InBallot, TypeOK, Follower, Consensus
<1>16. ASSUME NEW p \in Masters, TallyElected(p) PROVE WatchesItsLeader'
  BY <1>16, WinnerIsMaster DEF TallyElected, StatusAfter, WatchesItsLeader, TypeOK, Leader, Follower
<1>17. ASSUME NEW p \in Masters, NEW i \in Masters, SrvAnswer(i, p) PROVE WatchesItsLeader'
  <2>1. \A q \in Masters : pc'[q] \in {pc[q], "got"}
    BY <1>17 DEF SrvAnswer, TypeOK
  <2>2. QED
    BY <1>17, <2>1 DEF SrvAnswer, WatchesItsLeader
<1>18. ASSUME NEW p \in Masters, NEW i \in Masters, SrvTake(i, p) PROVE WatchesItsLeader'
  BY <1>18 DEF SrvTake, WatchesItsLeader, TypeOK
<1>19. ASSUME NEW p \in Masters, SrvSetEpoch(p) PROVE WatchesItsLeader'
  BY <1>19 DEF SrvSetEpoch, WatchesItsLeader, TypeOK
<1>20. ASSUME NEW p \in Masters, SrvSetVote(p) PROVE WatchesItsLeader'
  BY <1>20 DEF SrvSetVote, WatchesItsLeader, TypeOK
<1>21. ASSUME NEW p \in Masters, SrvSetStatus(p) PROVE WatchesItsLeader'
  BY <1>21 DEF SrvSetStatus, Reconsider, WatchesItsLeader, TypeOK, Follower, Consensus
<1>22. ASSUME NEW p \in Masters, SrvReply(p) PROVE WatchesItsLeader'
  <2>1. \A q \in Masters : pc'[q] \in {pc[q], "got"}
    BY <1>22 DEF SrvReply, TypeOK
  <2>2. QED
    BY <1>22, <2>1 DEF SrvReply, WatchesItsLeader
<1>23. CASE UNCHANGED vars
  BY <1>23 DEF vars, WatchesItsLeader
<1>24. QED
  BY <1>1, <1>2, <1>3, <1>4, <1>5, <1>6, <1>7, <1>8, <1>9, <1>10, <1>11,
     <1>12, <1>13, <1>14, <1>15, <1>16, <1>17, <1>18, <1>19, <1>20, <1>21,
     <1>22, <1>23 DEF Next, SyncStep, SrvStep

\* What a step of the sentinel does to m_status and m_leader is one of the three
\* things that MasterRoles allows.
LEMMA RolesStepLemma ==
    ASSUME BallotIsConsensus, TypeOK, [Next]_vars
    PROVE  [RolesNext]_roles
<1> SUFFICES (\E p \in Masters : RolesStep(p)) \/ UNCHANGED roles
  BY DEF RolesNext
<1>1. ASSUME NEW p \in Masters, Start(p) PROVE RolesStep(p) \/ UNCHANGED roles
  <2>1. NameItself(p)
    BY <1>1 DEF Start
  <2>2. QED
    BY <2>1 DEF RolesStep
<1>2. ASSUME NEW p \in Masters, Crash(p) PROVE RolesStep(p) \/ UNCHANGED roles
  <2>1. NameItself(p)
    BY <1>2 DEF Crash
  <2>2. QED
    BY <2>1 DEF RolesStep
<1>3. ASSUME NEW p \in Masters, Watch(p) PROVE RolesStep(p) \/ UNCHANGED roles
  BY <1>3 DEF Watch, roles
<1>4. ASSUME NEW p \in Masters, PingAnswered(p) PROVE RolesStep(p) \/ UNCHANGED roles
  BY <1>4 DEF PingAnswered, roles
<1>5. ASSUME NEW p \in Masters, PingFailed(p) PROVE RolesStep(p) \/ UNCHANGED roles
  BY <1>5 DEF PingFailed, roles
<1>6. ASSUME NEW p \in Masters, Timeout(p) PROVE RolesStep(p) \/ UNCHANGED roles
  <2>1. Reconsider(p)
    BY <1>6 DEF Timeout
  <2>2. QED
    BY <2>1 DEF RolesStep
<1>7. ASSUME NEW p \in Masters, EnterBallot(p) PROVE RolesStep(p) \/ UNCHANGED roles
  BY <1>7 DEF EnterBallot, LooksForLeader, roles
<1>8. ASSUME NEW p \in Masters, NextRound(p) PROVE RolesStep(p) \/ UNCHANGED roles
  BY <1>8 DEF NextRound, roles
<1>9. ASSUME NEW p \in Masters, NoAnswer(p) PROVE RolesStep(p) \/ UNCHANGED roles
  BY <1>9 DEF NoAnswer, Proceed, roles
<1>10. ASSUME NEW p \in Masters, BrokenCall(p) PROVE RolesStep(p) \/ UNCHANGED roles
  BY <1>10 DEF BrokenCall, Proceed, roles
<1>11. ASSUME NEW p \in Masters, RecordVote(p) PROVE RolesStep(p) \/ UNCHANGED roles
  BY <1>11 DEF RecordVote, Proceed, roles
<1>12. ASSUME NEW p \in Masters, SeeOtherEpoch(p) PROVE RolesStep(p) \/ UNCHANGED roles
  BY <1>12 DEF SeeOtherEpoch, roles
<1>13. ASSUME NEW p \in Masters, AdoptEpoch(p) PROVE RolesStep(p) \/ UNCHANGED roles
  <2>1. m_status[p] = Consensus /\ m_leader' = [m_leader EXCEPT ![p] = p]
    BY <1>13 DEF AdoptEpoch, BallotIsConsensus, InBallot
  <2>2. m_status' = [m_status EXCEPT ![p] = Consensus]
    BY <1>13, <2>1 DEF AdoptEpoch, TypeOK
  <2>3. NameItself(p)
    BY <2>1, <2>2 DEF NameItself
  <2>4. QED
    BY <2>3 DEF RolesStep
<1>14. ASSUME NEW p \in Masters, TallyNothing(p) PROVE RolesStep(p) \/ UNCHANGED roles
  BY <1>14 DEF TallyNothing, roles
<1>15. ASSUME NEW p \in Masters, TallyUndecided(p) PROVE RolesStep(p) \/ UNCHANGED roles
  BY <1>15 DEF TallyUndecided, roles
<1>16. ASSUME NEW p \in Masters, TallyElected(p) PROVE RolesStep(p) \/ UNCHANGED roles
  <2> DEFINE l == Largest(Elected(votes[p]))
  <2>1. l \in Masters /\ m_status[p] = Consensus
    BY <1>16, WinnerIsMaster DEF TallyElected, BallotIsConsensus, InBallot
  <2>2. Settle(p, l)
    BY <1>16, <2>1 DEF TallyElected, StatusAfter, Settle
  <2>3. QED
    BY <2>1, <2>2 DEF RolesStep
<1>17. ASSUME NEW p \in Masters, NEW i \in Masters, SrvAnswer(i, p) PROVE RolesStep(p) \/ UNCHANGED roles
  BY <1>17 DEF SrvAnswer, roles
<1>18. ASSUME NEW p \in Masters, NEW i \in Masters, SrvTake(i, p) PROVE RolesStep(p) \/ UNCHANGED roles
  BY <1>18 DEF SrvTake, roles
<1>19. ASSUME NEW p \in Masters, SrvSetEpoch(p) PROVE RolesStep(p) \/ UNCHANGED roles
  BY <1>19 DEF SrvSetEpoch, roles
<1>20. ASSUME NEW p \in Masters, SrvSetVote(p) PROVE RolesStep(p) \/ UNCHANGED roles
  BY <1>20 DEF SrvSetVote, roles
<1>21. ASSUME NEW p \in Masters, SrvSetStatus(p) PROVE RolesStep(p) \/ UNCHANGED roles
  <2>1. Reconsider(p)
    BY <1>21 DEF SrvSetStatus
  <2>2. QED
    BY <2>1 DEF RolesStep
<1>22. ASSUME NEW p \in Masters, SrvReply(p) PROVE RolesStep(p) \/ UNCHANGED roles
  BY <1>22 DEF SrvReply, roles
<1>23. CASE UNCHANGED vars
  BY <1>23 DEF vars, roles, shared
<1>24. QED
  BY <1>1, <1>2, <1>3, <1>4, <1>5, <1>6, <1>7, <1>8, <1>9, <1>10, <1>11,
     <1>12, <1>13, <1>14, <1>15, <1>16, <1>17, <1>18, <1>19, <1>20, <1>21,
     <1>22, <1>23 DEF Next, SyncStep, SrvStep

-----------------------------------------------------------------------------
(* The theorems.                                                           *)

\* The invariant holds of masters that have not been started.
LEMMA InitIInv == Init => IInv
<1> SUFFICES ASSUME Init PROVE IInv
  OBVIOUS
<1> USE DEF Init, RolesInit
<1>1. TypeOK
  <2>1. /\ m_status \in [Masters -> Statuses]
        /\ pc \in [Masters -> PCs] /\ \A p \in Masters : pc[p] = "off" <=> ~up[p]
        /\ up \in [Masters -> BOOLEAN]
    BY DEF Statuses, PCs
  <2>2. QED
    BY <2>1, MasterFacts, TicketFacts, RequestFacts DEF TypeOK
<1>2. BallotIsConsensus
  BY DEF BallotIsConsensus, InBallot
<1>3. CallsMatch
  BY DEF CallsMatch, SrvIdle
<1>4. WatchesItsLeader
  BY StatusesDiffer DEF WatchesItsLeader
<1>5. QED
  BY <1>1, <1>2, <1>3, <1>4 DEF IInv

\* The invariant is inductive.
LEMMA NextIInv == IInv /\ [Next]_vars => IInv'
  BY TypeStep, CallsStep, BallotStep, WatchStep DEF IInv

\* Every member of the sentinel keeps its type, whatever is lost or crashes.
THEOREM TypeCorrect == Spec => []TypeOK
<1>1. IInv => TypeOK
  BY DEF IInv
<1>2. QED
  BY <1>1, InitIInv, NextIInv, PTL DEF Spec

\* While the sync thread holds a ballot, /GetStatus answers "consensus".
THEOREM BallotTheorem == Spec => []BallotIsConsensus
<1>1. IInv => BallotIsConsensus
  BY DEF IInv
<1>2. QED
  BY <1>1, InitIInv, NextIInv, PTL DEF Spec

\* The sync thread never looks up the address of master -1 or pings itself: its
\* local leader is the m_leader of a follower, another master.
THEOREM WatchTheorem == Spec => []WatchesItsLeader
<1>1. IInv => WatchesItsLeader
  BY DEF IInv
<1>2. QED
  BY <1>1, InitIInv, NextIInv, PTL DEF Spec

\* MasterSentinel implements MasterRoles, the module that the replication of the
\* oplog is built on.
THEOREM SentinelImplementsRoles == Spec => ImplementsRoles
<1>1. Init => RolesInit
  BY DEF Init
<1>2. IInv /\ [Next]_vars => [RolesNext]_roles
  BY RolesStepLemma DEF IInv
<1>3. QED
  BY <1>1, <1>2, InitIInv, NextIInv, PTL DEF Spec, ImplementsRoles, RolesSpec

\* Whatever implements the roles, a leader names itself and a follower another
\* master.
LEMMA RolesAreConsistent == RolesSpec => []RolesConsistent
<1> DEFINE RolesInv == /\ m_status \in [Masters -> Statuses]
                       /\ m_leader \in [Masters -> Masters]
                       /\ RolesConsistent
<1>1. RolesInit => RolesInv
  BY StatusesDiffer DEF RolesInit, Statuses, RolesConsistent
<1>2. RolesInv /\ [RolesNext]_roles => RolesInv'
  <2> SUFFICES ASSUME RolesInv, [RolesNext]_roles PROVE RolesInv'
    OBVIOUS
  <2>1. ASSUME NEW p \in Masters, NEW l \in Masters, Settle(p, l) PROVE RolesInv'
    BY <2>1, StatusesDiffer DEF Settle, Statuses, RolesConsistent
  <2>2. ASSUME NEW p \in Masters, Reconsider(p) PROVE RolesInv'
    BY <2>2, StatusesDiffer DEF Reconsider, Statuses, RolesConsistent
  <2>3. ASSUME NEW p \in Masters, NameItself(p) PROVE RolesInv'
    BY <2>3, StatusesDiffer DEF NameItself, Statuses, RolesConsistent
  <2>4. CASE UNCHANGED roles
    BY <2>4 DEF roles, RolesConsistent
  <2>5. QED
    BY <2>1, <2>2, <2>3, <2>4 DEF RolesNext, RolesStep
<1>3. RolesInv => RolesConsistent
  OBVIOUS
<1>4. QED
  BY <1>1, <1>2, <1>3, PTL DEF RolesSpec

\* A master that serves uploads names itself, and update_oplog of a follower
\* never fetches from the follower.
THEOREM RolesTheorem == Spec => []RolesConsistent
  BY SentinelImplementsRoles, RolesAreConsistent, PTL DEF ImplementsRoles
-----------------------------------------------------------------------------
(* While nobody crashes and no more than two calls are lost.               *)

\* Nobody has been given up, so there is one epoch, and whoever has got a vote runs.
Runs(c) == c \in Masters => up[c]
Calm ==
    /\ lost <= MaxLost /\ crashes = 0
    /\ \A p \in Masters :
         /\ ~up[p] => m_status[p] = Consensus
         /\ m_epoch[p] = 0 /\ me_vote[p].epoch = 0 /\ \A r \in response[p] : r.epoch = 0
         /\ srv[p] = SrvIdle /\ retry[p] <= lost /\ pc[p] \notin {"timeout", "adopt"}
    /\ \A p \in Masters :
         /\ Runs(m_vote[p]) /\ Runs(leader[p]) /\ \A r \in response[p] : Runs(r.vote)
         /\ \A i \in Masters : Runs(votes[p][i])

\* The same, one master at a time.
LEMMA CalmFacts ==
  ASSUME Calm, NEW p \in Masters
  PROVE  /\ ~up[p] => m_status[p] = Consensus
         /\ m_epoch[p] = 0 /\ me_vote[p].epoch = 0 /\ \A r \in response[p] : r.epoch = 0 /\ Runs(r.vote)
         /\ srv[p] = SrvIdle /\ retry[p] <= lost /\ pc[p] \notin {"timeout", "adopt"}
         /\ Runs(m_vote[p]) /\ Runs(leader[p]) /\ \A i \in Masters : Runs(votes[p][i])
BY DEF Calm

\* Where nobody crashes, whoever runs goes on running.
LEMMA RunsOn ==
  ASSUME \A p \in Masters : up[p] => up'[p]
  PROVE  \A c : Runs(c) => Runs(c)'
BY DEF Runs

\* A master has got votes in a ballot that it won, and in one without a majority.
LEMMA WinnerRuns ==
  ASSUME NEW v, \A i \in Masters : Runs(v[i])
  PROVE  /\ Candidates(v) # {} => Runs(Largest(Candidates(v)))
         /\ Elected(v) # {} => Runs(Largest(Elected(v)))
<1>1. \A c \in Candidates(v) : Runs(c)
  BY DEF Candidates, VotesFor, Runs
<1>2. Elected(v) \subseteq Candidates(v)
  <2>1. ~(Cardinality({}) >= Quorum)
    BY RolesAssumption, FS_EmptySet DEF Quorum
  <2>. QED
    BY <2>1 DEF Elected, Candidates
<1>3. Candidates(v) # {} => Largest(Candidates(v)) \in Candidates(v)
  BY LargestIsMember, Candidates(v) \in SUBSET Masters DEF Candidates
<1>4. Elected(v) # {} => Largest(Elected(v)) \in Elected(v)
  BY LargestIsMember, Elected(v) \in SUBSET Masters DEF Elected
<1>. QED
  BY <1>1, <1>2, <1>3, <1>4

\* Faults are counted and stay within their bounds.
LEMMA FaultsCount ==
  ASSUME TypeOK, [Next]_vars
  PROVE  /\ lost' = lost \/ (lost' = lost + 1 /\ lost' <= MaxLost)
         /\ crashes' = crashes \/ (crashes' = crashes + 1 /\ crashes' <= MaxCrash)
<1>1. /\ \A n \in Nat : n < MaxLost => n + 1 <= MaxLost
      /\ \A n \in Nat : n < MaxCrash => n + 1 <= MaxCrash
  BY SentinelAssumption
<1>2. lost \in Nat /\ crashes \in Nat
  BY DEF TypeOK
<1>3. ASSUME NEW p \in Masters, PingFailed(p) \/ NoAnswer(p)
      PROVE  crashes' = crashes /\ (lost' = lost \/ (lost' = lost + 1 /\ lost' <= MaxLost))
  BY <1>1, <1>2, <1>3 DEF PingFailed, NoAnswer
<1>4. ASSUME NEW p \in Masters, Crash(p)
      PROVE  lost' = lost /\ crashes' = crashes + 1 /\ crashes' <= MaxCrash
  BY <1>1, <1>2, <1>4 DEF Crash
<1>5. ASSUME NEW p \in Masters, Start(p) PROVE UNCHANGED <<lost, crashes>>
  BY <1>5 DEF Start
<1>6. ASSUME NEW p \in Masters, SyncStep(p), ~PingFailed(p), ~NoAnswer(p) PROVE UNCHANGED <<lost, crashes>>
  BY <1>6 DEF SyncStep, Watch, PingAnswered, Timeout, EnterBallot, NextRound, BrokenCall, RecordVote,
     SeeOtherEpoch, AdoptEpoch, TallyNothing, TallyUndecided, TallyElected
<1>7. ASSUME NEW p \in Masters, SrvStep(p) PROVE UNCHANGED <<lost, crashes>>
  BY <1>7 DEF SrvStep, SrvAnswer, SrvTake, SrvSetEpoch, SrvSetVote, SrvSetStatus, SrvReply
<1>8. CASE UNCHANGED vars
  BY <1>8 DEF vars
<1>. QED
  BY <1>3, <1>4, <1>5, <1>6, <1>7, <1>8 DEF Next

\* It takes three failed pings to give a leader up that runs, and so nobody asks with
\* a newer epoch: what only that brings about does not happen.
LEMMA CalmStep ==
  ASSUME lost' <= 2, crashes' = 0, IInv, Calm, [Next]_vars
  PROVE  Calm'
<1>t. TypeOK
  BY DEF IInv
<1>r. ASSUME \A p \in Masters : up[p] => up'[p]
      PROVE  \A c : Runs(c) => Runs(c)'
  BY <1>r, RunsOn
<1>u. ASSUME UNCHANGED up
      PROVE  \A c : Runs(c)' <=> Runs(c)
  BY <1>u DEF Runs
<1>n. lost \in Nat /\ lost <= 2 /\ MaxLost \in Nat
  <2>1. lost \in Nat /\ (lost' = lost \/ lost' = lost + 1)
    BY <1>t, FaultsCount DEF TypeOK
  <2>. QED
    BY <2>1, SentinelAssumption
<1>1. ASSUME NEW p \in Masters, Start(p) PROVE Calm'
  <2>1. \A q \in Masters : up[q] => up'[q]
    BY <1>1, <1>t DEF Start, TypeOK
  <2>2. \A c : Runs(c) => Runs(c)'
    BY <2>1, RunsOn
  <2>3. Runs(0)' /\ Runs(NoLeader)'
    BY MasterFacts DEF Runs, NoLeader
  <2>. QED
    BY <1>1, <1>t, <2>2, <2>3 DEF Start, NameItself, Calm, TypeOK
<1>2. ASSUME NEW p \in Masters, Crash(p) PROVE Calm'
  BY <1>2 DEF Crash, Calm
<1>3. ASSUME NEW p \in Masters, Watch(p) PROVE Calm'
  BY <1>3, <1>t, <1>u DEF Watch, Calm, TypeOK
<1>4. ASSUME NEW p \in Masters, PingAnswered(p) PROVE Calm'
  <2>1. retry[p] # Retries
    BY <1>n, CalmFacts DEF Retries
  <2>2. \A q \in Masters : retry'[q] <= lost
    BY <1>4, <1>t, <1>n, CalmFacts DEF PingAnswered, TypeOK
  <2>. QED
    BY <1>4, <1>t, <1>u, <2>1, <2>2 DEF PingAnswered, Calm, TypeOK
<1>5. ASSUME NEW p \in Masters, PingFailed(p) PROVE Calm'
  <2>1. up[leader[p]]
    BY <1>5, CalmFacts DEF PingFailed, IInv, WatchesItsLeader, Runs
  <2>2. retry[p] # Retries
    BY <1>n, CalmFacts DEF Retries
  <2>3. lost' = lost + 1 /\ lost' <= MaxLost
    BY <1>5, <1>n, <2>1, SentinelAssumption DEF PingFailed
  <2>4. \A q \in Masters : retry'[q] <= lost'
    <3>0. \A q \in Masters : retry[q] \in Nat
      BY <1>t DEF TypeOK, Retries
    <3>1. \A q \in Masters : retry[q] <= lost
      BY CalmFacts
    <3>2. retry' = [retry EXCEPT ![p] = @ + 1]
      BY <1>5, <2>2 DEF PingFailed
    <3>. QED
      BY <1>t, <1>n, <2>3, <3>0, <3>1, <3>2 DEF TypeOK
  <2>. QED
    BY <1>5, <1>u, <2>2, <2>3, <2>4 DEF PingFailed, Calm
<1>6. ASSUME NEW p \in Masters, Timeout(p) PROVE Calm'
  BY <1>6 DEF Timeout, Calm
<1>7. ASSUME NEW p \in Masters, EnterBallot(p) PROVE Calm'
  <2>1. up[p] /\ \A i \in Masters : ~(NoVotes[i] \in Masters)
    BY <1>7, <1>t DEF EnterBallot, TypeOK, NoVotes, Unheard, Masters
  <2>. QED
    BY <1>7, <1>t, <1>u, <2>1 DEF EnterBallot, LooksForLeader, Calm, TypeOK, Runs
<1>8. ASSUME NEW p \in Masters, NextRound(p) PROVE Calm'
  BY <1>8, <1>t, <1>u DEF NextRound, Calm, TypeOK
<1>9. ASSUME NEW p \in Masters, NoAnswer(p) PROVE Calm'
  <2>1. UNCHANGED srv
    BY <1>9, <1>t, MasterFacts DEF NoAnswer, HangUp, Calm, SrvIdle, TypeOK
  <2>2. lost <= lost' /\ lost' <= MaxLost
    BY <1>9, <1>n DEF NoAnswer, Calm
  <2>3. \A q \in Masters : retry'[q] <= lost'
    <3>1. lost \in Nat /\ lost' \in Nat /\ \A q \in Masters : retry[q] \in Nat
      BY <1>9, <1>t, <1>n DEF NoAnswer, TypeOK, Retries
    <3>2. \A q \in Masters : retry[q] <= lost /\ retry'[q] = retry[q]
      BY <1>9 DEF NoAnswer, Calm
    <3>. QED
      BY <1>n, <2>2, <3>1, <3>2
  <2>. QED
    BY <1>9, <1>t, <1>u, <2>1, <2>2, <2>3 DEF NoAnswer, Proceed, Calm, TypeOK
<1>10. ASSUME NEW p \in Masters, BrokenCall(p) PROVE Calm'
  BY <1>10, <1>t, <1>u DEF BrokenCall, Proceed, Calm, TypeOK
<1>11. ASSUME NEW p \in Masters, RecordVote(p) PROVE Calm'
  <2>1. PICK r \in response[p] : votes' = [votes EXCEPT ![p][target[p]] = r.vote]
    BY <1>11 DEF RecordVote
  <2>2. Runs(r.vote)
    BY CalmFacts
  <2>3. \A q, i \in Masters : votes'[q][i] = votes[q][i] \/ votes'[q][i] = r.vote
    BY <1>t, <2>1 DEF TypeOK, Tables
  <2>. QED
    BY <1>11, <1>t, <1>u, <2>2, <2>3 DEF RecordVote, Proceed, Calm, TypeOK
<1>12. ASSUME NEW p \in Masters, SeeOtherEpoch(p) PROVE Calm'
  BY <1>12 DEF SeeOtherEpoch, Calm
<1>13. ASSUME NEW p \in Masters, AdoptEpoch(p) PROVE Calm'
  BY <1>13 DEF AdoptEpoch, Calm
<1>14. ASSUME NEW p \in Masters, TallyNothing(p) PROVE Calm'
  <2>1. ~(NoLeader \in Masters) /\ \A i \in Masters : ~(NoVotes[i] \in Masters)
    BY DEF NoVotes, Unheard, NoLeader, Masters
  <2>. QED
    BY <1>14, <1>t, <1>u, <2>1 DEF TallyNothing, EndBallot, NoTicket, Calm, TypeOK, Runs
<1>15. ASSUME NEW p \in Masters, TallyUndecided(p) PROVE Calm'
  <2>1. ~(NoLeader \in Masters)
    BY DEF NoLeader, Masters
  <2>2. Runs(NextVote(p))
    BY <1>15, CalmFacts, WinnerRuns DEF TallyUndecided, NextVote
  <2>. QED
    BY <1>15, <1>t, <1>u, <2>1, <2>2 DEF TallyUndecided, Calm, TypeOK, Runs
<1>16. ASSUME NEW p \in Masters, TallyElected(p) PROVE Calm'
  <2>. DEFINE l == Largest(Elected(votes[p]))
  <2>1. \A i \in Masters : ~(NoVotes[i] \in Masters)
    BY DEF NoVotes, Unheard, Masters
  <2>2. Runs(l) /\ up[p]
    BY <1>16, <1>t, CalmFacts, WinnerRuns DEF TallyElected, TypeOK
  <2>3. /\ leader' = [leader EXCEPT ![p] = l]
        /\ \A q \in Masters \ {p} : m_status'[q] = m_status[q]
    BY <1>16, <1>t DEF TallyElected, TypeOK
  <2>. HIDE DEF l
  <2>. QED
    BY <1>16, <1>t, <1>u, <2>1, <2>2, <2>3 DEF TallyElected, EndBallot, NoTicket, Calm, TypeOK, Runs
<1>17. ASSUME NEW p \in Masters, NEW i \in Masters, SrvAnswer(i, p) PROVE Calm'
  <2>. DEFINE t == [epoch |-> m_epoch[i], vote |-> m_vote[i]]
  <2>1. t.epoch = 0 /\ Runs(t.vote)
    BY CalmFacts
  <2>2. response' = [response EXCEPT ![p] = {t}]
    BY <1>17 DEF SrvAnswer
  <2>. HIDE DEF t
  <2>3. \A q \in Masters : \A r \in response'[q] : r \in response[q] \/ r = t
    BY <1>t, <2>2 DEF TypeOK
  <2>. QED
    BY <1>17, <1>t, <1>u, <2>1, <2>3 DEF SrvAnswer, Calm, TypeOK
<1>18. ASSUME NEW p \in Masters, NEW i \in Masters, SrvTake(i, p) PROVE Calm'
  BY <1>18 DEF SrvTake, Newer, Calm
<1>19. ASSUME NEW p \in Masters, SrvSetEpoch(p) \/ SrvSetVote(p) \/ SrvSetStatus(p) \/ SrvReply(p) PROVE Calm'
  BY <1>19 DEF SrvSetEpoch, SrvSetVote, SrvSetStatus, SrvReply, SrvIdle, Calm
<1>20. CASE UNCHANGED vars
  BY <1>20, <1>u DEF vars, Calm
<1>. QED
  BY <1>1, <1>2, <1>3, <1>4, <1>5, <1>6, <1>7, <1>8, <1>9, <1>10, <1>11, <1>12, <1>13, <1>14,
     <1>15, <1>16, <1>17, <1>18, <1>19, <1>20 DEF Next, SyncStep, SrvStep

\* The same for bounds under which there are no more faults.
LEMMA CalmKept ==
  ASSUME MaxLost <= 2, MaxCrash = 0, IInv, Calm, [Next]_vars
  PROVE  Calm'
<1>1. lost \in Nat /\ crashes = 0 /\ lost <= MaxLost /\ MaxLost \in Nat
  BY SentinelAssumption DEF Calm, IInv, TypeOK
<1>2. lost' <= 2 /\ crashes' = 0
  BY <1>1, FaultsCount DEF IInv
<1>. QED
  BY <1>2, CalmStep

LEMMA InitCalm == Init => Calm
<1>. SUFFICES ASSUME Init PROVE Calm
  OBVIOUS
<1>1. /\ ~(0 \in Masters) /\ ~(NoLeader \in Masters)
      /\ \A i \in Masters : ~(NoVotes[i] \in Masters)
  BY DEF NoVotes, Unheard, NoLeader, Masters
<1>. QED
  BY <1>1, SentinelAssumption DEF Init, RolesInit, NoTicket, Calm, Runs

\* While nobody crashes and no more than two calls are lost, a leader leads for good: no
\* late starter deposes it, and no false alarm.
THEOREM LeaderIsStableTheorem ==
  ASSUME MaxLost <= 2, MaxCrash = 0
  PROVE  Spec => LeaderIsStable
<1>1. IInv /\ Calm /\ [Next]_vars
        => [\A p \in Masters : m_status[p] = Leader => m_status'[p] = Leader]_vars
  <2>. SUFFICES ASSUME IInv, Calm, Next, NEW q \in Masters, m_status[q] = Leader
                PROVE  m_status'[q] = Leader
    BY DEF vars
  <2>t. m_status \in [Masters -> Statuses] /\ Leader # Consensus
    BY StatusesDiffer DEF IInv, TypeOK
  <2>1. ASSUME NEW p \in Masters, Start(p) PROVE m_status'[q] = Leader
    BY <2>t, <2>1 DEF Start, NameItself, Calm
  <2>2. ASSUME NEW p \in Masters, Crash(p) PROVE m_status'[q] = Leader
    BY <2>2 DEF Crash, Calm
  <2>3. ASSUME NEW p \in Masters, SyncStep(p) PROVE m_status'[q] = Leader
    <3>1. CASE Timeout(p)
      BY <3>1 DEF Timeout, Calm
    <3>2. CASE TallyElected(p)
      <4>1. m_status[p] = Consensus
        BY <3>2 DEF TallyElected, IInv, BallotIsConsensus, InBallot
      <4>. QED
        BY <2>t, <3>2, <4>1 DEF TallyElected
    <3>. QED
      BY <2>3, <3>1, <3>2 DEF SyncStep, Watch, PingAnswered, PingFailed, EnterBallot, NextRound, NoAnswer,
         BrokenCall, RecordVote, SeeOtherEpoch, AdoptEpoch, TallyNothing, TallyUndecided
  <2>4. ASSUME NEW p \in Masters, SrvStep(p) PROVE m_status'[q] = Leader
    <3>1. srv[p].at = "idle"
      BY DEF Calm, SrvIdle
    <3>. QED
      BY <2>4, <3>1 DEF SrvStep, SrvAnswer, SrvTake, SrvSetEpoch, SrvSetVote, SrvSetStatus, SrvReply
  <2>. QED
    BY <2>1, <2>2, <2>3, <2>4 DEF Next
<1>2. IInv /\ Calm /\ [Next]_vars => (IInv /\ Calm)'
  BY NextIInv, CalmKept
<1>. QED
  BY <1>1, <1>2, InitIInv, InitCalm, PTL DEF Spec, LeaderIsStable
-----------------------------------------------------------------------------
(* While nothing fails at all.                                             *)

\* This round has the master's own vote.
HasOwnVote(p) == pc[p] = "tally" \/ (pc[p] \in {"wait", "got"} /\ p < target[p])

\* A master votes for itself first and then for nobody smaller, so a vote for the
\* largest is never taken back, and only who has enough masters below it can lead.
StandsBy(p) ==
    /\ m_vote[p] = 0 <=> (pc[p] \notin InBallot /\ m_status[p] = Consensus)
    /\ m_vote[p] = 0 \/ p <= m_vote[p]
    /\ HasOwnVote(p) => votes[p][p] = m_vote[p]
    /\ m_status[p] = Leader => Quorum <= p
Answer(p) ==
    /\ response[p] # {} <=> pc[p] = "got"
    /\ \A r \in response[p] :
         /\ r.vote = 0 \/ (target[p] <= r.vote /\ m_vote[target[p]] # 0)
         /\ r.vote = N => m_vote[target[p]] = N
         /\ target[p] = p => r.vote = m_vote[p]
Heard(p, i) ==
    /\ votes[p][i] \in {Unheard, 0} \/ (i <= votes[p][i] /\ m_vote[i] # 0)
    /\ votes[p][i] = N => m_vote[i] = N
Honest ==
    /\ \A p \in Masters : StandsBy(p) /\ Answer(p)
    /\ \A p, i \in Masters : Heard(p, i)

\* Of three masters, 1 votes for 2 once it has heard 2's vote, and 2 counts on it only
\* while both stay with 2.
OneHeardTwo ==
    m_vote[1] = 2 /\ pc[1] \in InBallot =>
        /\ votes[1][2] \in {2, 3}
        /\ target[1] = 2 => \A r \in response[1] : r.vote # 0
TwoCountsOnOne ==
    \/ m_status[2] = Leader
    \/ votes[2][1] = 2
    \/ target[2] = 1 /\ \E r \in response[2] : r.vote = 2
Three ==
    /\ OneHeardTwo
    /\ m_vote[2] = 2 /\ TwoCountsOnOne => m_vote[1] = 2
    /\ m_status[2] = Leader => m_vote[2] = 2
    /\ m_status[3] = Leader => 3 \in {m_vote[1], m_vote[2]}

\* What the members hold, for arithmetic.
LEMMA VoteTypes ==
  ASSUME TypeOK
  PROVE  /\ N \in Nat /\ N >= 1 /\ Quorum \in Nat /\ Quorum >= 1
         /\ \A p \in Masters : /\ p \in Nat /\ p >= 1 /\ p <= N
                               /\ m_vote[p] \in 0..N /\ target[p] \in Masters
         /\ \A p \in Masters : \A r \in response[p] : r.vote \in 0..N
         /\ \A p, i \in Masters : votes[p][i] \in (0..N) \cup {Unheard}
         /\ Unheard \notin 0..N
<1>1. N \in Nat /\ N >= 1 /\ Quorum \in Nat /\ Quorum >= 1
  BY RolesAssumption DEF Quorum
<1>2. \A p \in Masters : p \in Nat /\ p >= 1 /\ p <= N
  BY <1>1 DEF Masters
<1>5. \A p \in Masters : m_vote[p] \in 0..N /\ target[p] \in Masters
  BY DEF TypeOK
<1>3. \A p \in Masters : \A r \in response[p] : r.vote \in 0..N
  BY TicketFacts DEF TypeOK
<1>4. \A p, i \in Masters : votes[p][i] \in (0..N) \cup {Unheard}
  BY DEF TypeOK, Tables
<1>. QED
  BY <1>1, <1>2, <1>3, <1>4, <1>5 DEF Unheard

\* The steps there are while nothing fails.
Plain(p) == \/ Start(p) \/ Watch(p) \/ PingAnswered(p)
            \/ EnterBallot(p) \/ NextRound(p) \/ RecordVote(p)
            \/ TallyUndecided(p) \/ TallyElected(p)
Unheld(p) == NoAnswer(p) /\ ~up[target[p]]

LEMMA PlainSteps ==
  ASSUME MaxLost = 0, MaxCrash = 0, IInv, Calm, Honest, Next
  PROVE  \E p \in Masters : Plain(p) \/ Unheld(p) \/ \E i \in Masters : SrvAnswer(i, p)
<1>t. TypeOK
  BY DEF IInv
<1>n. lost = 0
  BY <1>t, SentinelAssumption DEF Calm, TypeOK
<1>1. ASSUME NEW p \in Masters PROVE ~Crash(p)
  BY DEF Crash, Calm
<1>2. ASSUME NEW p \in Masters PROVE ~PingFailed(p) /\ ~Timeout(p)
  <2>1. pc[p] = "ping" => up[leader[p]]
    BY CalmFacts DEF IInv, WatchesItsLeader, Runs
  <2>. QED
    BY <1>n, <2>1, CalmFacts DEF PingFailed, Timeout
<1>3. ASSUME NEW p \in Masters, NoAnswer(p) PROVE Unheld(p)
  BY <1>3, <1>n DEF NoAnswer, Unheld
<1>4. ASSUME NEW p \in Masters PROVE ~BrokenCall(p) /\ ~SeeOtherEpoch(p) /\ ~AdoptEpoch(p)
  BY CalmFacts DEF BrokenCall, SeeOtherEpoch, AdoptEpoch, Honest, Answer
<1>5. ASSUME NEW p \in Masters PROVE ~TallyNothing(p)
  <2>. SUFFICES ASSUME pc[p] = "tally" PROVE Candidates(votes[p]) # {}
    BY DEF TallyNothing
  <2>1. votes[p][p] = m_vote[p] /\ m_vote[p] # 0
    BY DEF Honest, StandsBy, HasOwnVote, InBallot
  <2>2. m_vote[p] \in Masters
    BY <1>t, <2>1, VoteTypes DEF Masters
  <2>. QED
    BY <2>1, <2>2 DEF Candidates, VotesFor
<1>6. ASSUME NEW i \in Masters
      PROVE  /\ ~SrvSetEpoch(i) /\ ~SrvSetVote(i) /\ ~SrvSetStatus(i) /\ ~SrvReply(i)
             /\ \A p \in Masters : ~SrvTake(i, p)
  <2>1. srv[i].at = "idle"
    BY CalmFacts DEF SrvIdle
  <2>2. \A p \in Masters : ~Newer(me_vote[p], m_epoch[i]) /\ pc[i] # "adopt"
    BY CalmFacts DEF Newer
  <2>. QED
    BY <2>1, <2>2 DEF SrvSetEpoch, SrvSetVote, SrvSetStatus, SrvReply, SrvTake
<1>. QED
  BY <1>1, <1>2, <1>3, <1>4, <1>5, <1>6 DEF Next, SyncStep, SrvStep, Plain

\* The tally of a table of honest votes.
LEMMA TallyFacts ==
  ASSUME IInv, Honest, NEW p \in Masters, pc[p] = "tally"
  PROVE  /\ votes[p][p] = m_vote[p] /\ m_vote[p] \in Candidates(votes[p])
         /\ NextVote(p) \in Masters /\ m_vote[p] <= NextVote(p)
         /\ \E i \in Masters : votes[p][i] = NextVote(p)
         /\ \A c \in Masters : \A i \in VotesFor(votes[p], c) : i <= c
         /\ \A c \in Elected(votes[p]) : Quorum <= c
<1>t. TypeOK
  BY DEF IInv
<1>1. votes[p][p] = m_vote[p] /\ m_vote[p] # 0
  BY DEF Honest, StandsBy, HasOwnVote, InBallot
<1>2. m_vote[p] \in Candidates(votes[p])
  <2>1. m_vote[p] \in Masters
    BY <1>t, <1>1, VoteTypes DEF Masters
  <2>. QED
    BY <1>1, <2>1 DEF Candidates, VotesFor
<1>3. NextVote(p) \in Candidates(votes[p]) /\ m_vote[p] <= NextVote(p)
  BY <1>2, LargestIsMember, Candidates(votes[p]) \in SUBSET Masters DEF NextVote, Candidates
<1>4. NextVote(p) \in Masters /\ \E i \in Masters : votes[p][i] = NextVote(p)
  BY <1>3 DEF Candidates, VotesFor
<1>5. \A c \in Masters : \A i \in VotesFor(votes[p], c) : i <= c
  BY <1>t, VoteTypes DEF Honest, Heard, VotesFor
<1>6. ASSUME NEW c \in Elected(votes[p]) PROVE Quorum <= c
  <2>1. c \in Masters /\ Cardinality(VotesFor(votes[p], c)) >= Quorum
    BY DEF Elected
  <2>2. c \in Nat /\ Quorum \in Nat
    BY <1>t, <2>1, VoteTypes
  <2>3. VotesFor(votes[p], c) \subseteq 1..c
    BY <1>5, <2>1 DEF VotesFor, Masters
  <2>4. IsFiniteSet(1..c) /\ Cardinality(1..c) = c
    BY <2>1, <2>2, FS_Interval DEF Masters
  <2>5. Cardinality(VotesFor(votes[p], c)) <= c /\ Cardinality(VotesFor(votes[p], c)) \in Nat
    BY <2>3, <2>4, FS_Subset, FS_CardinalityType
  <2>. QED
    BY <2>1, <2>2, <2>5
<1>. QED
  BY <1>1, <1>2, <1>3, <1>4, <1>5, <1>6

\* A step that leaves the votes alone.
LEMMA HonestKept ==
  ASSUME Honest, NEW p \in Masters, UNCHANGED <<m_vote, m_status, votes, response, target>>,
         \A q \in Masters \ {p} : pc'[q] = pc[q],
         pc'[p] \in InBallot <=> pc[p] \in InBallot, pc'[p] # "got", pc[p] # "got",
         HasOwnVote(p)' => HasOwnVote(p)
  PROVE  Honest'
<1>1. \A q \in Masters : /\ pc'[q] \in InBallot <=> pc[q] \in InBallot
                         /\ pc'[q] = "got" <=> pc[q] = "got"
                         /\ HasOwnVote(q)' => HasOwnVote(q)
  BY DEF HasOwnVote
<1>2. \A q \in Masters : StandsBy(q)'
  BY <1>1 DEF Honest, StandsBy
<1>3. \A q \in Masters : Answer(q)'
  BY <1>1 DEF Honest, Answer
<1>4. \A q, i \in Masters : Heard(q, i)'
  BY DEF Honest, Heard
<1>. QED
  BY <1>2, <1>3, <1>4 DEF Honest

LEMMA HonestStep ==
  ASSUME MaxLost = 0, MaxCrash = 0, IInv, Calm, Honest, [Next]_vars
  PROVE  Honest'
<1>t. TypeOK
  BY DEF IInv
<1>v. /\ N \in Nat /\ N >= 1
      /\ \A q \in Masters : /\ q \in Nat /\ q >= 1 /\ q <= N
                            /\ m_vote[q] \in 0..N /\ target[q] \in Masters
      /\ \A q \in Masters : \A r \in response[q] : r.vote \in 0..N
      /\ \A q, i \in Masters : votes[q][i] \in (0..N) \cup {Unheard}
  BY <1>t, VoteTypes
<1>p. pc \in [Masters -> PCs] /\ \A q \in Masters : pc[q] = "off" <=> ~up[q]
  BY <1>t DEF TypeOK
<1>m. /\ m_status \in [Masters -> Statuses] /\ m_vote \in [Masters -> 0..N] /\ votes \in [Masters -> Tables]
      /\ target \in [Masters -> Masters] /\ response \in [Masters -> SUBSET Tickets]
  BY <1>t DEF TypeOK
<1>h. \A q \in Masters : /\ StandsBy(q) /\ Answer(q) /\ \A i \in Masters : Heard(q, i)
  BY DEF Honest
<1>1. ASSUME NEW p \in Masters, Start(p) PROVE Honest'
  <2>1. pc[p] = "off" /\ m_status[p] = Consensus /\ m_vote[p] = 0
    BY <1>1, <1>p, <1>h, CalmFacts DEF Start, StandsBy, InBallot
  <2>2. UNCHANGED <<m_vote, m_status>>
    BY <1>1, <1>m, <2>1 DEF Start, NameItself
  <2>3. pc'[p] = "top" /\ \A q \in Masters \ {p} : pc'[q] = pc[q]
    BY <1>1, <1>p DEF Start
  <2>. QED
    BY <1>1, <2>1, <2>2, <2>3, HonestKept DEF Start, HasOwnVote, InBallot
<1>2. ASSUME NEW p \in Masters, Watch(p) PROVE Honest'
  <2>1. pc[p] = "top" /\ pc'[p] = "ping" /\ \A q \in Masters \ {p} : pc'[q] = pc[q]
    BY <1>2, <1>p DEF Watch
  <2>. QED
    BY <1>2, <2>1, HonestKept DEF Watch, HasOwnVote, InBallot
<1>3. ASSUME NEW p \in Masters, PingAnswered(p) PROVE Honest'
  <2>1. pc[p] = "ping" /\ pc'[p] \in {"timeout", "top"} /\ \A q \in Masters \ {p} : pc'[q] = pc[q]
    BY <1>3, <1>p DEF PingAnswered
  <2>. QED
    BY <1>3, <2>1, HonestKept DEF PingAnswered, HasOwnVote, InBallot
<1>4. ASSUME NEW p \in Masters, EnterBallot(p) PROVE Honest'
  <2>1. /\ pc[p] = "top" /\ pc'[p] = "wait" /\ m_status[p] = Consensus
        /\ \A q \in Masters \ {p} : pc'[q] = pc[q]
    BY <1>4, <1>p DEF EnterBallot, LooksForLeader
  <2>2. /\ m_vote[p] = 0 /\ m_vote'[p] = p /\ target'[p] = 1 /\ votes'[p] = NoVotes
        /\ \A q \in Masters \ {p} : m_vote'[q] = m_vote[q] /\ target'[q] = target[q] /\ votes'[q] = votes[q]
        /\ UNCHANGED <<m_status, response>>
    BY <1>4, <1>h, <1>m, <2>1 DEF EnterBallot, StandsBy, InBallot
  <2>3. response[p] = {} /\ ~HasOwnVote(p)' /\ p # 0
    BY <1>h, <1>v, <2>1, <2>2 DEF Answer, HasOwnVote
  <2>4. \A q \in Masters : StandsBy(q)'
    BY <1>h, <1>v, <2>1, <2>2, <2>3 DEF StandsBy, HasOwnVote, InBallot
  <2>5. \A q \in Masters : Answer(q)'
    BY <1>h, <1>v, <2>1, <2>2, <2>3 DEF Answer
  <2>6. \A q, i \in Masters : Heard(q, i)'
    BY <1>h, <1>v, <2>2, <2>3 DEF Heard, NoVotes, Unheard
  <2>. QED
    BY <2>4, <2>5, <2>6 DEF Honest
<1>5. ASSUME NEW p \in Masters, NextRound(p) PROVE Honest'
  <2>1. /\ pc[p] = "ticket" /\ pc'[p] = "wait" /\ target'[p] = 1
        /\ \A q \in Masters \ {p} : pc'[q] = pc[q] /\ target'[q] = target[q]
        /\ UNCHANGED <<m_status, m_vote, votes, response>>
    BY <1>5, <1>p, <1>m DEF NextRound
  <2>3. response[p] = {} /\ ~HasOwnVote(p)'
    BY <1>h, <1>v, <2>1 DEF Answer, HasOwnVote
  <2>4. \A q \in Masters : StandsBy(q)'
    BY <1>h, <2>1, <2>3 DEF StandsBy, HasOwnVote, InBallot
  <2>5. \A q \in Masters : Answer(q)'
    BY <1>h, <2>1, <2>3 DEF Answer
  <2>6. \A q, i \in Masters : Heard(q, i)'
    BY <1>h, <2>1 DEF Heard
  <2>. QED
    BY <2>4, <2>5, <2>6 DEF Honest
<1>6. ASSUME NEW p \in Masters, Unheld(p) PROVE Honest'
  <2>1. pc[p] = "wait" /\ target[p] # p /\ pc'[p] \in {"tally", "wait"}
    BY <1>6, <1>p DEF Unheld, NoAnswer, Proceed
  <2>2. /\ \A q \in Masters \ {p} : pc'[q] = pc[q] /\ target'[q] = target[q]
        /\ UNCHANGED <<m_status, m_vote, votes, response>>
    BY <1>6, <1>p, <1>m DEF Unheld, NoAnswer, Proceed
  <2>3. response[p] = {}
    BY <1>h, <2>1 DEF Answer
  <2>4. HasOwnVote(p)' => HasOwnVote(p)
    <3>1. CASE target[p] = N
      BY <1>v, <2>1, <3>1 DEF HasOwnVote
    <3>2. CASE target[p] # N
      <4>1. pc'[p] = "wait" /\ target'[p] = target[p] + 1
        BY <1>6, <1>p, <1>m, <3>2 DEF Unheld, NoAnswer, Proceed
      <4>. QED
        BY <1>v, <2>1, <4>1 DEF HasOwnVote
    <3>. QED
      BY <3>1, <3>2
  <2>5. \A q \in Masters : StandsBy(q)'
    BY <1>h, <2>1, <2>2, <2>4 DEF StandsBy, HasOwnVote, InBallot
  <2>6. \A q \in Masters : Answer(q)'
    BY <1>h, <2>1, <2>2, <2>3 DEF Answer
  <2>7. \A q, i \in Masters : Heard(q, i)'
    BY <1>h, <2>2 DEF Heard
  <2>. QED
    BY <2>5, <2>6, <2>7 DEF Honest
<1>7. ASSUME NEW p \in Masters, RecordVote(p) PROVE Honest'
  <2>. DEFINE i == target[p]
  <2>1. PICK r \in response[p] : votes' = [votes EXCEPT ![p][i] = r.vote]
    BY <1>7 DEF RecordVote
  <2>2. pc[p] = "got" /\ i \in Masters /\ pc'[p] \in {"tally", "wait"}
    BY <1>7, <1>p, <1>v DEF RecordVote, Proceed
  <2>3. /\ \A q \in Masters \ {p} : /\ pc'[q] = pc[q] /\ target'[q] = target[q] /\ response'[q] = response[q]
                                    /\ votes'[q] = votes[q]
        /\ UNCHANGED <<m_status, m_vote>> /\ response'[p] = {}
    BY <1>7, <1>p, <1>m, <2>1 DEF RecordVote, Proceed
  <2>4. votes'[p][i] = r.vote /\ \A j \in Masters \ {i} : votes'[p][j] = votes[p][j]
    BY <1>m, <2>1, <2>2 DEF Tables
  <2>5. HasOwnVote(p)' => votes'[p][p] = m_vote[p]
    <3>1. CASE i = p
      BY <1>h, <2>4, <3>1 DEF Answer
    <3>2. CASE i # p
      <4>1. HasOwnVote(p)' => HasOwnVote(p)
        <5>1. CASE i = N
          BY <1>v, <2>2, <3>2, <5>1 DEF HasOwnVote
        <5>2. CASE i # N
          <6>1. pc'[p] = "wait" /\ target'[p] = i + 1
            BY <1>7, <1>p, <1>m, <5>2 DEF RecordVote, Proceed
          <6>. QED
            BY <1>v, <2>2, <3>2, <6>1 DEF HasOwnVote
        <5>. QED
          BY <5>1, <5>2
      <4>. QED
        BY <1>h, <2>4, <3>2, <4>1 DEF StandsBy
    <3>. QED
      BY <3>1, <3>2
  <2>6. ASSUME NEW q \in Masters PROVE StandsBy(q)'
    <3>1. CASE q = p
      BY <1>h, <2>2, <2>3, <2>5, <3>1 DEF StandsBy, InBallot
    <3>2. CASE q # p
      BY <1>h, <2>3, <3>2 DEF StandsBy, HasOwnVote
    <3>. QED
      BY <3>1, <3>2
  <2>7. \A q \in Masters : Answer(q)'
    BY <1>h, <2>2, <2>3 DEF Answer
  <2>8. ASSUME NEW q \in Masters, NEW j \in Masters PROVE Heard(q, j)'
    <3>1. CASE q = p /\ j = i
      BY <1>h, <2>3, <2>4, <3>1 DEF Heard, Answer
    <3>2. CASE q = p /\ j # i
      BY <1>h, <2>3, <2>4, <3>2 DEF Heard
    <3>3. CASE q # p
      BY <1>h, <2>3, <3>3 DEF Heard
    <3>. QED
      BY <3>1, <3>2, <3>3
  <2>. QED
    BY <2>6, <2>7, <2>8 DEF Honest
<1>8. ASSUME NEW p \in Masters, TallyUndecided(p) PROVE Honest'
  <2>. DEFINE c == NextVote(p)
  <2>1. /\ pc[p] = "tally" /\ pc'[p] = "ticket" /\ m_vote'[p] = c
        /\ \A q \in Masters \ {p} : pc'[q] = pc[q] /\ m_vote'[q] = m_vote[q]
        /\ UNCHANGED <<m_status, target, votes, response>>
    BY <1>8, <1>p, <1>m DEF TallyUndecided
  <2>2. c \in Masters /\ m_vote[p] <= c
    BY <2>1, TallyFacts
  <2>3. c \in Nat /\ c # 0 /\ c <= N /\ m_vote[p] # 0 /\ p <= c /\ (m_vote[p] = N => c = N)
    BY <1>h, <1>v, <2>1, <2>2 DEF StandsBy, InBallot
  <2>4. response[p] = {} /\ ~HasOwnVote(p)'
    BY <1>h, <2>1 DEF Answer, HasOwnVote
  <2>. HIDE DEF c
  <2>5. \A q \in Masters : StandsBy(q)'
    BY <1>h, <2>1, <2>3, <2>4 DEF StandsBy, HasOwnVote, InBallot
  <2>6. \A q \in Masters : Answer(q)'
    BY <1>h, <1>v, <2>1, <2>3, <2>4 DEF Answer
  <2>7. \A q, i \in Masters : Heard(q, i)'
    BY <1>h, <1>v, <2>1, <2>3 DEF Heard
  <2>. QED
    BY <2>5, <2>6, <2>7 DEF Honest
<1>9. ASSUME NEW p \in Masters, TallyElected(p) PROVE Honest'
  <2>. DEFINE l == Largest(Elected(votes[p]))
  <2>1. /\ pc[p] = "tally" /\ pc'[p] = "top" /\ m_status'[p] = StatusAfter(p, l) /\ votes'[p] = NoVotes
        /\ \A q \in Masters \ {p} : pc'[q] = pc[q] /\ m_status'[q] = m_status[q] /\ votes'[q] = votes[q]
        /\ UNCHANGED <<m_vote, target, response>>
    BY <1>9, <1>p, <1>m DEF TallyElected, EndBallot
  <2>2. l \in Elected(votes[p])
    BY <1>9, LargestIsMember, Elected(votes[p]) \in SUBSET Masters DEF TallyElected, Elected
  <2>3. Quorum <= l /\ m_vote[p] # 0
    BY <1>h, <2>1, <2>2, TallyFacts DEF StandsBy, InBallot
  <2>4. m_status'[p] # Consensus /\ (m_status'[p] = Leader => Quorum <= p)
    BY <2>1, <2>3, StatusesDiffer DEF StatusAfter
  <2>. HIDE DEF l
  <2>5. \A q \in Masters : StandsBy(q)'
    BY <1>h, <2>1, <2>3, <2>4 DEF StandsBy, HasOwnVote, InBallot
  <2>6. \A q \in Masters : Answer(q)'
    BY <1>h, <2>1 DEF Answer
  <2>7. \A q, i \in Masters : Heard(q, i)'
    BY <1>h, <1>v, <2>1 DEF Heard, NoVotes, Unheard
  <2>. QED
    BY <2>5, <2>6, <2>7 DEF Honest
<1>10. ASSUME NEW p \in Masters, NEW i \in Masters, SrvAnswer(i, p) PROVE Honest'
  <2>1. /\ pc[p] = "wait" /\ target[p] = i /\ pc'[p] = "got"
        /\ \A q \in Masters \ {p} : pc'[q] = pc[q] /\ response'[q] = response[q]
        /\ response'[p] = {[epoch |-> m_epoch[i], vote |-> m_vote[i]]}
        /\ UNCHANGED <<m_status, m_vote, target, votes>>
    BY <1>10, <1>p, <1>m DEF SrvAnswer
  <2>2. response'[p] # {} /\ \A r \in response'[p] : r.vote = m_vote[i]
    BY <2>1
  <2>5. \A q \in Masters : StandsBy(q)'
    BY <1>h, <2>1 DEF StandsBy, HasOwnVote, InBallot
  <2>3. Answer(p)'
    <3>1. m_vote[i] = 0 \/ i <= m_vote[i]
      BY <1>h DEF StandsBy
    <3>. QED
      BY <2>1, <2>2, <3>1 DEF Answer
  <2>6. ASSUME NEW q \in Masters PROVE Answer(q)'
    <3>1. CASE q = p
      BY <2>3, <3>1
    <3>2. CASE q # p
      <4>1. pc'[q] = pc[q] /\ response'[q] = response[q] /\ target' = target /\ m_vote' = m_vote
        BY <2>1, <3>2
      <4>. QED
        BY <1>h, <4>1 DEF Answer
    <3>. QED
      BY <3>1, <3>2
  <2>7. \A q, j \in Masters : Heard(q, j)'
    BY <1>h, <2>1 DEF Heard
  <2>. QED
    BY <2>5, <2>6, <2>7 DEF Honest
<1>11. CASE UNCHANGED vars
  BY <1>11 DEF vars, Honest, StandsBy, Answer, Heard, HasOwnVote
<1>. QED
  BY <1>1, <1>2, <1>3, <1>4, <1>5, <1>6, <1>7, <1>8, <1>9, <1>10, <1>11, PlainSteps DEF Plain

\* Two masters are two, the count of a majority of three.
LEMMA PairCounts == Cardinality({1, 2}) = 2
<1>1. IsFiniteSet({1}) /\ Cardinality({1}) = 1
  BY FS_Singleton
<1>2. Cardinality({1} \cup {2}) = 2
  BY <1>1, FS_AddElement
<1>3. {1} \cup {2} = {1, 2}
  OBVIOUS
<1>. QED
  BY <1>2, <1>3

\* Who has a majority of three has a vote besides any one of them.
LEMMA TwoOfThree ==
  ASSUME N = 3, NEW v, NEW c \in Elected(v), NEW k \in Masters
  PROVE  \E i \in Masters \ {k} : v[i] = c
<1>1. Masters = {1, 2, 3} /\ Quorum = 2
  BY DEF Masters, Quorum
<1>2. Cardinality(VotesFor(v, c)) >= 2 /\ VotesFor(v, c) \subseteq Masters
  BY <1>1 DEF Elected, VotesFor
<1>3. ASSUME VotesFor(v, c) \subseteq {k} PROVE FALSE
  <2>1. IsFiniteSet({k}) /\ Cardinality({k}) = 1
    BY FS_Singleton
  <2>2. Cardinality(VotesFor(v, c)) <= 1 /\ Cardinality(VotesFor(v, c)) \in Nat
    BY <1>3, <2>1, FS_Subset, FS_CardinalityType
  <2>. QED
    BY <1>2, <2>2
<1>. QED
  BY <1>3 DEF VotesFor

LEMMA ThreeStep ==
  ASSUME N = 3, MaxLost = 0, MaxCrash = 0, IInv, Calm, Honest, Three, [Next]_vars
  PROVE  Three'
<1>t. TypeOK
  BY DEF IInv
<1>v. /\ \A q \in Masters : m_vote[q] \in 0..3 /\ target[q] \in Masters
      /\ \A q \in Masters : \A r \in response[q] : r.vote \in 0..3
      /\ \A q, i \in Masters : votes[q][i] \in (0..3) \cup {Unheard}
      /\ Masters = {1, 2, 3} /\ Quorum = 2
  BY <1>t, VoteTypes DEF Masters, Quorum
<1>m. /\ m_status \in [Masters -> Statuses] /\ m_vote \in [Masters -> 0..3] /\ votes \in [Masters -> Tables]
      /\ target \in [Masters -> Masters] /\ response \in [Masters -> SUBSET Tickets]
      /\ pc \in [Masters -> PCs] /\ \A q \in Masters : pc[q] = "off" <=> ~up[q]
  BY <1>t DEF TypeOK
<1>h. \A q \in Masters : /\ StandsBy(q) /\ Answer(q) /\ \A i \in Masters : Heard(q, i)
  BY DEF Honest
<1>k. ASSUME UNCHANGED <<m_vote, m_status, votes, response, target>>, pc'[1] \in InBallot => pc[1] \in InBallot
      PROVE  Three'
  BY <1>k DEF Three, OneHeardTwo, TwoCountsOnOne
<1>1. ASSUME NEW p \in Masters, Start(p) PROVE Three'
  <2>1. pc[p] = "off" /\ m_status[p] = Consensus /\ m_vote[p] = 0
    BY <1>1, <1>m, <1>h, CalmFacts DEF Start, StandsBy, InBallot
  <2>2. UNCHANGED <<m_vote, m_status>>
    BY <1>1, <1>m, <2>1 DEF Start, NameItself
  <2>3. pc'[1] \in InBallot => pc[1] \in InBallot
    BY <1>1, <1>m, <1>v DEF Start, InBallot
  <2>. QED
    BY <1>1, <1>k, <2>2, <2>3 DEF Start
<1>2. ASSUME NEW p \in Masters, Watch(p) \/ PingAnswered(p) PROVE Three'
  <2>1. pc'[1] \in InBallot => pc[1] \in InBallot
    BY <1>2, <1>m, <1>v DEF Watch, PingAnswered, InBallot
  <2>. QED
    BY <1>2, <1>k, <2>1 DEF Watch, PingAnswered
<1>4. ASSUME NEW p \in Masters, EnterBallot(p) PROVE Three'
  <2>1. /\ pc[p] = "top" /\ m_status[p] = Consensus
        /\ \A q \in Masters \ {p} : pc'[q] = pc[q]
    BY <1>4, <1>m DEF EnterBallot, LooksForLeader
  <2>2. /\ m_vote[p] = 0 /\ m_vote'[p] = p /\ votes'[p] = NoVotes
        /\ \A q \in Masters \ {p} : m_vote'[q] = m_vote[q] /\ target'[q] = target[q] /\ votes'[q] = votes[q]
        /\ UNCHANGED <<m_status, response>>
    BY <1>4, <1>h, <1>m, <2>1 DEF EnterBallot, StandsBy, InBallot
  <2>3. response[p] = {} /\ m_status[p] # Leader /\ \A i \in Masters : votes'[p][i] = Unheard /\ Unheard # 2
    BY <1>h, <2>1, <2>2, StatusesDiffer DEF Answer, NoVotes, Unheard
  <2>4. CASE p = 1
    BY <1>v, <2>1, <2>2, <2>3, <2>4 DEF Three, OneHeardTwo, TwoCountsOnOne
  <2>5. CASE p = 2
    <3>1. ~TwoCountsOnOne'
      BY <1>v, <2>2, <2>3, <2>5 DEF TwoCountsOnOne
    <3>. QED
      BY <1>v, <2>1, <2>2, <2>3, <2>5, <3>1 DEF Three, OneHeardTwo
  <2>6. CASE p = 3
    BY <1>v, <2>1, <2>2, <2>3, <2>6 DEF Three, OneHeardTwo, TwoCountsOnOne
  <2>. QED
    BY <1>v, <2>4, <2>5, <2>6
<1>5. ASSUME NEW p \in Masters, NextRound(p) \/ Unheld(p) PROVE Three'
  <2>1. /\ pc[p] \in {"ticket", "wait"}
        /\ \A q \in Masters \ {p} : pc'[q] = pc[q] /\ target'[q] = target[q]
        /\ UNCHANGED <<m_status, m_vote, votes, response>>
    BY <1>5, <1>m DEF NextRound, Unheld, NoAnswer, Proceed
  <2>2. response[p] = {} /\ pc[p] \in InBallot
    BY <1>h, <2>1 DEF Answer, InBallot
  <2>3. OneHeardTwo'
    BY <1>v, <2>1, <2>2 DEF Three, OneHeardTwo
  <2>4. TwoCountsOnOne' => TwoCountsOnOne
    BY <1>v, <2>1, <2>2 DEF TwoCountsOnOne
  <2>. QED
    BY <2>1, <2>3, <2>4 DEF Three
<1>7. ASSUME NEW p \in Masters, RecordVote(p) PROVE Three'
  <2>. DEFINE i == target[p]
  <2>1. PICK r \in response[p] : votes' = [votes EXCEPT ![p][i] = r.vote]
    BY <1>7 DEF RecordVote
  <2>2. pc[p] = "got" /\ i \in Masters
    BY <1>7, <1>v DEF RecordVote
  <2>3. /\ \A q \in Masters \ {p} : /\ pc'[q] = pc[q] /\ target'[q] = target[q] /\ response'[q] = response[q]
                                    /\ votes'[q] = votes[q]
        /\ UNCHANGED <<m_status, m_vote>> /\ response'[p] = {}
    BY <1>7, <1>m, <2>1 DEF RecordVote, Proceed
  <2>4. votes'[p][i] = r.vote /\ \A j \in Masters \ {i} : votes'[p][j] = votes[p][j]
    BY <1>m, <2>1, <2>2 DEF Tables
  <2>5. OneHeardTwo'
    <3>1. CASE p = 1
      <4>1. ASSUME m_vote[1] = 2 PROVE votes'[1][2] \in {2, 3}
        <5>1. pc[1] \in InBallot
          BY <2>2, <3>1 DEF InBallot
        <5>2. votes[1][2] \in {2, 3} /\ (i = 2 => r.vote # 0)
          BY <4>1, <5>1, <3>1 DEF Three, OneHeardTwo
        <5>3. i = 2 => r.vote \in {2, 3}
          BY <1>h, <1>v, <3>1, <5>2 DEF Answer
        <5>. QED
          BY <1>v, <2>4, <3>1, <5>2, <5>3
      <4>. QED
        BY <2>3, <3>1, <4>1 DEF OneHeardTwo
    <3>2. CASE p # 1
      BY <1>v, <2>3, <3>2 DEF Three, OneHeardTwo
    <3>. QED
      BY <3>1, <3>2
  <2>6. TwoCountsOnOne' => TwoCountsOnOne
    <3>1. CASE p = 2
      BY <1>v, <2>3, <2>4, <3>1 DEF TwoCountsOnOne
    <3>2. CASE p # 2
      BY <1>v, <2>3, <3>2 DEF TwoCountsOnOne
    <3>. QED
      BY <3>1, <3>2
  <2>. QED
    BY <2>3, <2>5, <2>6 DEF Three
<1>8. ASSUME NEW p \in Masters, TallyUndecided(p) PROVE Three'
  <2>. DEFINE c == NextVote(p)
  <2>1. /\ pc[p] = "tally" /\ pc'[p] = "ticket" /\ m_vote'[p] = c
        /\ \A q \in Masters \ {p} : pc'[q] = pc[q] /\ m_vote'[q] = m_vote[q]
        /\ UNCHANGED <<m_status, target, votes, response>>
        /\ Elected(votes[p]) = {}
    BY <1>8, <1>m DEF TallyUndecided
  <2>2. /\ c \in {1, 2, 3} /\ m_vote[p] <= c /\ votes[p][p] = m_vote[p]
        /\ \E i \in Masters : votes[p][i] = c
    BY <1>v, <2>1, TallyFacts
  <2>3. p <= c /\ m_vote[p] \in {1, 2, 3} /\ p <= m_vote[p] /\ m_status[p] # Leader /\ response[p] = {}
    <3>1. m_status[p] = Consensus
      BY <2>1 DEF IInv, BallotIsConsensus, InBallot
    <3>. QED
      BY <1>h, <1>v, <2>1, <2>2, <3>1, StatusesDiffer DEF StandsBy, Answer, InBallot
  <2>. HIDE DEF c
  <2>4. TwoCountsOnOne' <=> TwoCountsOnOne
    BY <2>1 DEF TwoCountsOnOne
  <2>5. CASE p = 1
    <3>1. c = 2 => votes[1][2] \in {2, 3}
      <4>1. CASE m_vote[1] = 2
        BY <2>1, <2>5, <4>1 DEF Three, OneHeardTwo, InBallot
      <4>2. CASE m_vote[1] # 2
        <5>1. \A i \in Masters : votes[1][i] = 2 => i <= 2
          BY <1>h, <1>v DEF Heard, Unheard
        <5>. QED
          BY <1>v, <2>2, <2>5, <4>2, <5>1
      <4>. QED
        BY <4>1, <4>2
    <3>2. OneHeardTwo'
      BY <2>1, <2>3, <2>5, <3>1 DEF OneHeardTwo
    <3>3. ASSUME m_vote[2] = 2, TwoCountsOnOne PROVE c = 2
      <4>1. m_vote[1] = 2
        BY <3>3 DEF Three
      <4>2. votes[1][2] \in {2, 3}
        BY <2>1, <2>5, <4>1 DEF Three, OneHeardTwo, InBallot
      <4>3. votes[1][2] # 3
        BY <1>h, <1>v, <3>3 DEF Heard
      <4>4. VotesFor(votes[1], 2) = {1, 2}
        <5>1. votes[1][1] = 2 /\ votes[1][2] = 2
          BY <2>2, <2>5, <4>1, <4>2, <4>3
        <5>2. votes[1][3] # 2
          BY <1>h, <1>v DEF Heard, Unheard
        <5>. QED
          BY <1>v, <5>1, <5>2 DEF VotesFor
      <4>5. Cardinality({1, 2}) = 2
        BY PairCounts
      <4>6. 2 \in Elected(votes[1])
        BY <1>v, <4>4, <4>5 DEF Elected
      <4>. QED
        BY <2>1, <2>5, <4>6
    <3>4. m_vote'[2] = m_vote[2] /\ m_vote'[1] = c /\ (m_vote[1] = 3 => c = 3)
      BY <1>v, <2>1, <2>2, <2>5
    <3>. QED
      BY <2>1, <2>4, <3>2, <3>3, <3>4 DEF Three
  <2>6. CASE p = 2
    <3>1. m_vote'[1] = m_vote[1] /\ m_vote'[2] = c /\ (c = 2 => m_vote[2] = 2) /\ (m_vote[2] = 3 => c = 3)
      BY <1>v, <2>1, <2>2, <2>3, <2>6
    <3>2. OneHeardTwo'
      BY <1>v, <2>1, <2>6 DEF Three, OneHeardTwo
    <3>. QED
      BY <2>1, <2>3, <2>4, <2>6, <3>1, <3>2 DEF Three
  <2>7. CASE p = 3
    BY <1>v, <2>1, <2>4, <2>7 DEF Three, OneHeardTwo
  <2>. QED
    BY <1>v, <2>5, <2>6, <2>7
<1>9. ASSUME NEW p \in Masters, TallyElected(p) PROVE Three'
  <2>. DEFINE l == Largest(Elected(votes[p]))
  <2>1. /\ pc[p] = "tally" /\ pc'[p] = "top" /\ m_status'[p] = StatusAfter(p, l) /\ votes'[p] = NoVotes
        /\ \A q \in Masters \ {p} : pc'[q] = pc[q] /\ m_status'[q] = m_status[q] /\ votes'[q] = votes[q]
        /\ UNCHANGED <<m_vote, target, response>>
    BY <1>9, <1>m DEF TallyElected, EndBallot
  <2>2. l \in Elected(votes[p])
    BY <1>9, LargestIsMember, Elected(votes[p]) \in SUBSET Masters DEF TallyElected, Elected
  <2>3. m_status'[p] = Leader => l = p
    BY <2>1, StatusesDiffer DEF StatusAfter
  <2>4. response[p] = {} /\ votes'[p][1] # 2
    BY <1>h, <1>v, <2>1 DEF Answer, NoVotes, Unheard
  <2>. HIDE DEF l
  <2>5. CASE p = 1
    BY <1>v, <2>1, <2>5 DEF Three, OneHeardTwo, TwoCountsOnOne, InBallot
  <2>6. CASE p = 2
    <3>1. ASSUME m_status'[2] = Leader PROVE m_vote[2] = 2 /\ m_vote[1] = 2
      <4>1. 2 \in Elected(votes[2])
        BY <2>2, <2>3, <2>6, <3>1
      <4>2. \A i \in Masters : votes[2][i] = 2 => i \in {1, 2}
        BY <1>h, <1>v DEF Heard, Unheard
      <4>3. votes[2][1] = 2 /\ votes[2][2] = 2
        BY <1>v, <4>1, <4>2, TwoOfThree
      <4>4. m_vote[2] = 2
        BY <2>1, <2>6, <4>3, TallyFacts
      <4>. QED
        BY <4>3, <4>4 DEF Three, TwoCountsOnOne
    <3>2. TwoCountsOnOne' => m_status'[2] = Leader
      BY <2>1, <2>4, <2>6 DEF TwoCountsOnOne
    <3>3. OneHeardTwo' /\ m_status'[3] = m_status[3]
      BY <1>v, <2>1, <2>6 DEF Three, OneHeardTwo
    <3>. QED
      BY <2>1, <3>1, <3>2, <3>3 DEF Three
  <2>7. CASE p = 3
    <3>1. ASSUME m_status'[3] = Leader PROVE 3 \in {m_vote[1], m_vote[2]}
      <4>1. 3 \in Elected(votes[3])
        BY <2>2, <2>3, <2>7, <3>1
      <4>2. PICK i \in Masters \ {3} : votes[3][i] = 3
        BY <1>v, <4>1, TwoOfThree
      <4>3. m_vote[i] = 3
        BY <1>h, <1>v, <4>2 DEF Heard
      <4>. QED
        BY <1>v, <4>3
    <3>2. OneHeardTwo' /\ m_status'[2] = m_status[2] /\ (TwoCountsOnOne' <=> TwoCountsOnOne)
      BY <1>v, <2>1, <2>7 DEF Three, OneHeardTwo, TwoCountsOnOne
    <3>. QED
      BY <2>1, <3>1, <3>2 DEF Three
  <2>. QED
    BY <1>v, <2>5, <2>6, <2>7
<1>10. ASSUME NEW p \in Masters, NEW i \in Masters, SrvAnswer(i, p) PROVE Three'
  <2>1. /\ pc[p] = "wait" /\ target[p] = i /\ pc'[p] = "got"
        /\ \A q \in Masters \ {p} : pc'[q] = pc[q] /\ response'[q] = response[q]
        /\ response'[p] = {[epoch |-> m_epoch[i], vote |-> m_vote[i]]}
        /\ UNCHANGED <<m_status, m_vote, target, votes>>
    BY <1>10, <1>m DEF SrvAnswer
  <2>2. \A r \in response'[p] : r.vote = m_vote[i]
    BY <2>1
  <2>3. OneHeardTwo'
    <3>1. CASE p = 1
      <4>1. ASSUME m_vote[1] = 2 PROVE votes[1][2] \in {2, 3} /\ m_vote[2] # 0
        <5>1. votes[1][2] \in {2, 3}
          BY <2>1, <3>1, <4>1 DEF Three, OneHeardTwo, InBallot
        <5>. QED
          BY <1>h, <1>v, <5>1 DEF Heard, Unheard
      <4>. QED
        BY <2>1, <2>2, <3>1, <4>1 DEF OneHeardTwo
    <3>2. CASE p # 1
      BY <1>v, <2>1, <3>2 DEF Three, OneHeardTwo
    <3>. QED
      BY <3>1, <3>2
  <2>4. TwoCountsOnOne' => TwoCountsOnOne \/ m_vote[1] = 2
    BY <1>v, <2>1, <2>2 DEF TwoCountsOnOne
  <2>. QED
    BY <2>1, <2>3, <2>4 DEF Three
<1>11. CASE UNCHANGED vars
  BY <1>11, <1>k DEF vars
<1>. QED
  BY <1>1, <1>2, <1>4, <1>5, <1>7, <1>8, <1>9, <1>10, <1>11, PlainSteps DEF Plain

LEMMA InitHonest == Init => Honest /\ (N = 3 => Three)
<1>. SUFFICES ASSUME Init PROVE Honest /\ (N = 3 => Three)
  OBVIOUS
<1>1. /\ \A p \in Masters : /\ m_vote[p] = 0 /\ pc[p] = "off" /\ m_status[p] = Consensus
                            /\ response[p] = {} /\ \A i \in Masters : votes[p][i] = Unheard
      /\ Consensus # Leader /\ N >= 1 /\ Unheard # N /\ Unheard # 2
  BY RolesAssumption, StatusesDiffer DEF Init, RolesInit, NoVotes, Unheard
<1>2. Honest
  BY <1>1 DEF Honest, StandsBy, HasOwnVote, Answer, Heard, InBallot
<1>3. N = 3 => Three
  <2>1. N = 3 => 1 \in Masters /\ 2 \in Masters /\ 3 \in Masters
    BY DEF Masters
  <2>. QED
    BY <1>1, <2>1 DEF Three, OneHeardTwo, TwoCountsOnOne
<1>. QED
  BY <1>2, <1>3

\* Up to three masters have at most one leader while nothing fails, however they are
\* started; of four two may lead, and of three once a single call is lost.
THEOREM OneLeaderTheorem ==
  ASSUME N <= 3, MaxLost = 0, MaxCrash = 0
  PROVE  Spec => []AtMostOneLeader
<1>. DEFINE AInv == IInv /\ Calm /\ Honest /\ (N = 3 => Three)
<1>1. Init => AInv
  BY InitIInv, InitCalm, InitHonest
<1>2. AInv /\ [Next]_vars => AInv'
  BY NextIInv, CalmKept, HonestStep, ThreeStep
<1>3. AInv => AtMostOneLeader
  <2>. SUFFICES ASSUME AInv, NEW p \in Masters, NEW q \in Masters,
                       m_status[p] = Leader, m_status[q] = Leader
                PROVE  p = q
    BY DEF AtMostOneLeader
  <2>1. Quorum <= p /\ Quorum <= q
    BY DEF Honest, StandsBy
  <2>2. N \in {1, 2, 3}
    BY RolesAssumption
  <2>3. CASE N = 1
    BY <2>3 DEF Masters
  <2>4. CASE N = 2
    BY <2>1, <2>4 DEF Masters, Quorum
  <2>5. CASE N = 3
    <3>1. p \in {2, 3} /\ q \in {2, 3}
      BY <2>1, <2>5 DEF Masters, Quorum
    <3>2. ~(m_status[2] = Leader /\ m_status[3] = Leader)
      BY <2>5 DEF Three, TwoCountsOnOne
    <3>. QED
      BY <3>1, <3>2
  <2>. QED
    BY <2>2, <2>3, <2>4, <2>5
<1>. QED
  BY <1>1, <1>2, <1>3, PTL DEF Spec

-----------------------------------------------------------------------------
(* Two masters, whatever crashes.                                          *)

\* Master p has received the vote c of i and not recorded it yet.
Told(p, i, c) == pc[p] = "got" /\ target[p] = i /\ \E r \in response[p] : r.vote = c

\* Master p is at its request to i, or at the answer to it.
Asks(p, i) == pc[p] \in {"wait", "got"} /\ target[p] = i

\* The ticket of p is newer than its epoch.
Ahead(p) == me_vote[p].epoch > m_epoch[p]

\* What a master knows of itself: a leader has voted for itself, one in ballot has a vote,
\* and its own server thread answers it with this vote.
Sane(p) ==
    /\ ~up[p] => m_status[p] = Consensus /\ srv[p].at = "idle"
    /\ pc[p] \in InBallot => m_vote[p] # 0
    /\ m_status[p] = Leader => m_vote[p] = p
    /\ pc[p] = "got" /\ target[p] = p => response[p] # {}
    /\ ~Told(p, p, 0) /\ (Told(p, p, p) => m_vote[p] = p)
    /\ pc[p] \in {"wait", "got"} /\ Ahead(p) => m_vote[p] = p \/ srv[p].at = "vote"
    /\ srv[p].from = p => m_vote[p] = p

\* A server thread whose caller has crashed serves a ballot that is over: the caller has
\* not heard of p since, and leads nobody.
Orphan(p, q) ==
    srv[p].at # "idle" /\ srv[p].from = 0 =>
        votes[q][p] = Unheard /\ m_status[q] # Leader /\ ~(pc[q] = "got" /\ target[q] = p)

\* The table of 1: once it asks 2 it has counted its own vote, and it has given this vote
\* up only for the vote of 2 for itself.
Table1 ==
    /\ Asks(1, 2) => votes[1][1] \in {1, 2} /\ (votes[1][1] = 1 => m_vote[1] = 1)
    /\ pc[1] \in InBallot /\ votes[1][2] # Unheard => votes[1][1] \in {1, 2}
    /\ pc[1] \in InBallot /\ votes[1][1] = 1 /\ m_vote[1] # 1 => votes[1][2] = 2

\* The table of 2: a vote it has counted for itself it still has, and with both votes it
\* does not ask 1 again.
Table2 ==
    /\ pc[2] \in InBallot /\ votes[2][2] = 2 => m_vote[2] = 2
    /\ pc[2] = "ticket" \/ Asks(2, 1) => ~(votes[2][1] = 2 /\ votes[2][2] = 2)

\* Master 1 holds the vote of 2, and 2 that of 1, in its table or in a reply.
Holds1 == votes[1][2] = 1 \/ Told(1, 2, 1)
Holds2 == \/ Asks(2, 2) /\ votes[2][1] = 2
          \/ Told(2, 1, 2)
          \/ pc[2] = "got" /\ target[2] = 1 /\ response[2] = {} /\ votes[2][1] = 2
          \/ pc[2] \in {"adopt", "tally"} /\ votes[2][1] = 2 /\ votes[2][2] = 2

\* Each of them leads, or may be elected by what it holds.
May1 == m_status[1] = Leader \/ (pc[1] \in InBallot /\ Holds1 /\ m_vote[1] = 1)
May2 == m_status[2] = Leader \/ (Holds2 /\ m_vote[2] = 2)

\* Where 1 goes on with a vote of 2 from an earlier round, 2 does not hold its vote.
Stale1 ==
    /\ pc[1] = "ticket" \/ Asks(1, 1) \/ (pc[1] = "wait" /\ target[1] = 2)
    /\ votes[1][2] = 1 /\ m_vote[1] = 1
    => ~Holds2

\* Only one of the two may be elected.
Two == /\ Sane(1) /\ Sane(2) /\ Orphan(1, 2) /\ Orphan(2, 1)
       /\ Table1 /\ Table2 /\ Stale1 /\ ~(May1 /\ May2)

\* Nobody has ever seen 2 vote for 1, and so 1 does not lead.
TwoStays ==
    /\ m_vote[2] # 1 /\ votes[1][2] # 1 /\ votes[2][2] # 1 /\ m_status[1] # Leader
    /\ ~Told(1, 2, 1) /\ ~Told(2, 2, 1)
    /\ pc[2] \in InBallot => m_vote[2] = 2
    /\ pc[2] = "got" /\ target[2] = 2 => response[2] # {} /\ ~Told(2, 2, 0)
    /\ pc[2] = "tally" => votes[2][2] = 2

\* The step does not lose a call to a master that runs, and what it then keeps.
Answered == \A p \in Masters : NoAnswer(p) => ~up[target[p]]
TwoKept == Two /\ Answered => Two'
StaysKept == TwoStays /\ Calm /\ crashes' = 0 /\ Answered => TwoStays'

\* Of two masters a majority is both.
LEMMA BothOfTwo ==
  ASSUME N = 2, NEW v, NEW c \in {1, 2}
  PROVE  c \in Elected(v) <=> (v[1] = c /\ v[2] = c)
<1>1. Masters = {1, 2} /\ Quorum = 2
  BY DEF Masters, Quorum
<1>2. CASE v[1] = c /\ v[2] = c
  <2>1. VotesFor(v, c) = {1, 2}
    BY <1>1, <1>2 DEF VotesFor
  <2>. QED
    BY <1>1, <1>2, <2>1, PairCounts DEF Elected
<1>3. CASE ~(v[1] = c /\ v[2] = c)
  <2>1. PICK k \in {1, 2} : VotesFor(v, c) \subseteq {k}
    BY <1>1, <1>3 DEF VotesFor
  <2>2. IsFiniteSet({k}) /\ Cardinality({k}) = 1
    BY FS_Singleton
  <2>3. Cardinality(VotesFor(v, c)) <= 1 /\ Cardinality(VotesFor(v, c)) \in Nat
    BY <2>1, <2>2, FS_Subset, FS_CardinalityType
  <2>. QED
    BY <1>1, <1>3, <2>3 DEF Elected
<1>. QED
  BY <1>2, <1>3

\* One step per action.  A reply carries the vote of its moment; what may make it stale is a
\* newer ticket, which a master answers with a vote for itself, and a round without majority.
LEMMA TwoStep ==
  ASSUME N = 2, IInv, [Next]_vars
  PROVE  TwoKept /\ StaysKept
<1>m. Masters = {1, 2}
  BY DEF Masters
<1>t. TypeOK
  BY DEF IInv
<1>f. /\ m_status \in [Masters -> Statuses] /\ m_vote \in [Masters -> 0..N] /\ m_epoch \in [Masters -> Epochs]
      /\ up \in [Masters -> BOOLEAN] /\ pc \in [Masters -> PCs] /\ target \in [Masters -> Masters]
      /\ votes \in [Masters -> Tables] /\ me_vote \in [Masters -> Tickets]
      /\ response \in [Masters -> SUBSET Tickets] /\ srv \in [Masters -> Requests]
      /\ \A p \in Masters : pc[p] = "off" <=> ~up[p]
  BY <1>t DEF TypeOK
<1>v. /\ \A p \in {1, 2} : m_vote[p] \in {0, 1, 2} /\ target[p] \in {1, 2} /\ srv[p].from \in {0, 1, 2}
      /\ \A p \in {1, 2} : pc[p] = "off" <=> ~up[p]
      /\ Leader # Consensus /\ Follower # Consensus /\ Leader # Follower /\ Unheard \notin {0, 1, 2}
  BY <1>f, <1>m, StatusesDiffer DEF Unheard, Requests
<1>c. \A i, p \in {1, 2} : srv[i].from = p => srv[i].at # "idle" /\ pc[p] = "wait" /\ target[p] = i
  BY <1>m DEF IInv, CallsMatch
<1>b. \A p \in {1, 2} : pc[p] \in InBallot => m_status[p] = Consensus
  BY <1>m DEF IInv, BallotIsConsensus
<1>q. Calm => \A p \in {1, 2} : srv[p].at = "idle" /\ pc[p] \notin {"timeout", "adopt"}
  BY <1>m, CalmFacts DEF SrvIdle
<1>1. ASSUME NEW p \in Masters, Start(p) PROVE TwoKept /\ StaysKept
  <2>1. /\ ~up[p] /\ up'[p] /\ m_status'[p] = Consensus /\ m_vote'[p] = 0 /\ pc[p] = "off" /\ pc'[p] = "top"
        /\ \A q \in Masters \ {p} : /\ up'[q] = up[q] /\ m_status'[q] = m_status[q] /\ m_vote'[q] = m_vote[q]
                                    /\ m_epoch'[q] = m_epoch[q] /\ pc'[q] = pc[q]
        /\ UNCHANGED <<target, votes, me_vote, response, srv>>
    BY <1>1, <1>f DEF Start, NameItself
  <2>2. ASSUME Two, Answered PROVE Two'
    <3>1. CASE p = 1
      BY <1>m, <1>v, <1>c, <1>b, <2>1, <2>2, <3>1 DEF Two, Sane, Orphan, Table1, Table2, Stale1, May1, May2, Holds1, Holds2, Told, Asks, InBallot, Ahead
    <3>2. CASE p = 2
      BY <1>m, <1>v, <1>c, <1>b, <2>1, <2>2, <3>2 DEF Two, Sane, Orphan, Table1, Table2, Stale1, May1, May2, Holds1, Holds2, Told, Asks, InBallot, Ahead
    <3>. QED
      BY <1>m, <3>1, <3>2
  <2>3. ASSUME TwoStays, Calm, Answered PROVE TwoStays'
    <3>1. CASE p = 1
      BY <1>m, <1>v, <1>c, <1>b, <2>1, <2>3, <3>1, <1>q DEF TwoStays, Told, InBallot
    <3>2. CASE p = 2
      BY <1>m, <1>v, <1>c, <1>b, <2>1, <2>3, <3>2, <1>q DEF TwoStays, Told, InBallot
    <3>. QED
      BY <1>m, <3>1, <3>2
  <2>. QED
    BY <2>2, <2>3 DEF TwoKept, StaysKept
<1>2. ASSUME NEW p \in Masters, Crash(p) PROVE TwoKept /\ StaysKept
  <2>1. /\ up[p] /\ ~up'[p] /\ m_status'[p] = Consensus /\ m_vote'[p] = 0 /\ pc'[p] = "off" /\ target'[p] = 1
        /\ votes'[p] = NoVotes /\ response'[p] = {} /\ srv'[p] = SrvIdle
        /\ \A q \in Masters \ {p} : /\ up'[q] = up[q] /\ m_status'[q] = m_status[q] /\ m_vote'[q] = m_vote[q]
                                    /\ m_epoch'[q] = m_epoch[q] /\ me_vote'[q] = me_vote[q]
                                    /\ target'[q] = target[q] /\ votes'[q] = votes[q]
    BY <1>2, <1>f DEF Crash, NameItself
  <2>2. \A q \in Masters \ {p} :
           /\ srv[p].from = q => pc'[q] = "got" /\ response'[q] = {}
           /\ srv[p].from # q => pc'[q] = pc[q] /\ response'[q] = response[q]
    BY <1>2, <1>f DEF Crash
  <2>3. \A q \in Masters \ {p} :
           /\ srv'[q].at = srv[q].at
           /\ srv[q].from = p => srv'[q].from = 0
           /\ srv[q].from # p => srv'[q].from = srv[q].from
    BY <1>2, <1>f DEF Crash, Requests
  <2>4. votes'[p][1] = Unheard /\ votes'[p][2] = Unheard /\ srv'[p].at = "idle" /\ srv'[p].from = 0
    BY <1>m, <2>1 DEF NoVotes, SrvIdle
  <2>5. ASSUME Two, Answered PROVE Two'
    <3>1. CASE p = 1
      BY <1>m, <1>v, <1>c, <1>b, <2>1, <2>2, <2>3, <2>4, <2>5, <3>1 DEF Two, Sane, Orphan, Table1, Table2, Stale1, May1, May2, Holds1, Holds2, Told, Asks, InBallot, Ahead
    <3>2. CASE p = 2
      BY <1>m, <1>v, <1>c, <1>b, <2>1, <2>2, <2>3, <2>4, <2>5, <3>2 DEF Two, Sane, Orphan, Table1, Table2, Stale1, May1, May2, Holds1, Holds2, Told, Asks, InBallot, Ahead
    <3>. QED
      BY <1>m, <3>1, <3>2
  <2>6. ASSUME Calm, crashes' = 0 PROVE FALSE
    BY <1>2, <2>6 DEF Crash, Calm
  <2>. QED
    BY <2>5, <2>6 DEF TwoKept, StaysKept
<1>3. ASSUME NEW p \in Masters, Watch(p) \/ PingAnswered(p) \/ PingFailed(p) PROVE TwoKept /\ StaysKept
  <2>1. /\ pc[p] \in {"top", "ping"} /\ pc'[p] \in {"top", "ping", "timeout"}
        /\ \A q \in Masters \ {p} : pc'[q] = pc[q]
        /\ UNCHANGED <<up, m_status, m_vote, m_epoch, target, votes, me_vote, response, srv>>
    BY <1>3, <1>f DEF Watch, PingAnswered, PingFailed
  <2>2. ASSUME Two, Answered PROVE Two'
    <3>1. CASE p = 1
      BY <1>m, <1>v, <1>c, <1>b, <2>1, <2>2, <3>1 DEF Two, Sane, Orphan, Table1, Table2, Stale1, May1, May2, Holds1, Holds2, Told, Asks, InBallot, Ahead
    <3>2. CASE p = 2
      BY <1>m, <1>v, <1>c, <1>b, <2>1, <2>2, <3>2 DEF Two, Sane, Orphan, Table1, Table2, Stale1, May1, May2, Holds1, Holds2, Told, Asks, InBallot, Ahead
    <3>. QED
      BY <1>m, <3>1, <3>2
  <2>3. ASSUME TwoStays, Calm, Answered PROVE TwoStays'
    <3>1. CASE p = 1
      BY <1>m, <1>v, <1>c, <1>b, <2>1, <2>3, <3>1, <1>q DEF TwoStays, Told, InBallot
    <3>2. CASE p = 2
      BY <1>m, <1>v, <1>c, <1>b, <2>1, <2>3, <3>2, <1>q DEF TwoStays, Told, InBallot
    <3>. QED
      BY <1>m, <3>1, <3>2
  <2>. QED
    BY <2>2, <2>3 DEF TwoKept, StaysKept
<1>4. ASSUME NEW p \in Masters, Timeout(p) PROVE TwoKept /\ StaysKept
  <2>1. /\ pc[p] = "timeout" /\ pc'[p] = "top" /\ m_status'[p] = Consensus /\ m_vote'[p] = p
        /\ \A q \in Masters \ {p} : /\ m_status'[q] = m_status[q] /\ m_vote'[q] = m_vote[q]
                                    /\ m_epoch'[q] = m_epoch[q] /\ pc'[q] = pc[q]
        /\ UNCHANGED <<up, target, votes, me_vote, response, srv>>
    BY <1>4, <1>f DEF Timeout, Reconsider
  <2>2. ASSUME Two, Answered PROVE Two'
    <3>1. CASE p = 1
      BY <1>m, <1>v, <1>c, <1>b, <2>1, <2>2, <3>1 DEF Two, Sane, Orphan, Table1, Table2, Stale1, May1, May2, Holds1, Holds2, Told, Asks, InBallot, Ahead
    <3>2. CASE p = 2
      BY <1>m, <1>v, <1>c, <1>b, <2>1, <2>2, <3>2 DEF Two, Sane, Orphan, Table1, Table2, Stale1, May1, May2, Holds1, Holds2, Told, Asks, InBallot, Ahead
    <3>. QED
      BY <1>m, <3>1, <3>2
  <2>3. ASSUME Calm, crashes' = 0 PROVE FALSE
    BY <1>m, <1>q, <2>1, <2>3
  <2>. QED
    BY <2>2, <2>3 DEF TwoKept, StaysKept
<1>5. ASSUME NEW p \in Masters, EnterBallot(p) PROVE TwoKept /\ StaysKept
  <2>1. /\ pc[p] = "top" /\ pc'[p] = "wait" /\ m_status[p] # Leader /\ m_vote'[p] = p /\ target'[p] = 1
        /\ votes'[p] = NoVotes
        /\ \A q \in Masters \ {p} : /\ m_vote'[q] = m_vote[q] /\ pc'[q] = pc[q] /\ target'[q] = target[q]
                                    /\ votes'[q] = votes[q] /\ me_vote'[q] = me_vote[q]
        /\ UNCHANGED <<up, m_status, m_epoch, response, srv>>
    BY <1>5, <1>f, <1>v DEF EnterBallot, LooksForLeader
  <2>2. votes'[p][1] = Unheard /\ votes'[p][2] = Unheard
    BY <1>m, <2>1 DEF NoVotes
  <2>3. ASSUME Two, Answered PROVE Two'
    <3>1. CASE p = 1
      BY <1>m, <1>v, <1>c, <1>b, <2>1, <2>2, <2>3, <3>1 DEF Two, Sane, Orphan, Table1, Table2, Stale1, May1, May2, Holds1, Holds2, Told, Asks, InBallot, Ahead
    <3>2. CASE p = 2
      BY <1>m, <1>v, <1>c, <1>b, <2>1, <2>2, <2>3, <3>2 DEF Two, Sane, Orphan, Table1, Table2, Stale1, May1, May2, Holds1, Holds2, Told, Asks, InBallot, Ahead
    <3>. QED
      BY <1>m, <3>1, <3>2
  <2>4. ASSUME TwoStays, Calm, Answered PROVE TwoStays'
    <3>1. CASE p = 1
      BY <1>m, <1>v, <1>c, <1>b, <2>1, <2>2, <2>4, <3>1, <1>q DEF TwoStays, Told, InBallot
    <3>2. CASE p = 2
      BY <1>m, <1>v, <1>c, <1>b, <2>1, <2>2, <2>4, <3>2, <1>q DEF TwoStays, Told, InBallot
    <3>. QED
      BY <1>m, <3>1, <3>2
  <2>. QED
    BY <2>3, <2>4 DEF TwoKept, StaysKept
<1>6. ASSUME NEW p \in Masters, NextRound(p) PROVE TwoKept /\ StaysKept
  <2>1. /\ pc[p] = "ticket" /\ pc'[p] = "wait" /\ target'[p] = 1
        /\ \A q \in Masters \ {p} : pc'[q] = pc[q] /\ target'[q] = target[q] /\ me_vote'[q] = me_vote[q]
        /\ UNCHANGED <<up, m_status, m_vote, m_epoch, votes, response, srv>>
    BY <1>6, <1>f DEF NextRound
  <2>2. ~Ahead(p)'
    <3>. DEFINE t == [epoch |-> m_epoch[p], vote |-> m_vote[p]]
    <3>1. me_vote'[p] = t
      BY <1>6, <1>f DEF NextRound
    <3>2. me_vote'[p].epoch = m_epoch[p] /\ m_epoch[p] \in Nat
      BY <1>f, <3>1 DEF Epochs
    <3>. QED
      BY <2>1, <3>2 DEF Ahead
  <2>3. ASSUME Two, Answered PROVE Two'
    <3>1. CASE p = 1
      BY <1>m, <1>v, <1>c, <1>b, <2>1, <2>2, <2>3, <3>1 DEF Two, Sane, Orphan, Table1, Table2, Stale1, May1, May2, Holds1, Holds2, Told, Asks, InBallot, Ahead
    <3>2. CASE p = 2
      BY <1>m, <1>v, <1>c, <1>b, <2>1, <2>2, <2>3, <3>2 DEF Two, Sane, Orphan, Table1, Table2, Stale1, May1, May2, Holds1, Holds2, Told, Asks, InBallot, Ahead
    <3>. QED
      BY <1>m, <3>1, <3>2
  <2>4. ASSUME TwoStays, Calm, Answered PROVE TwoStays'
    <3>1. CASE p = 1
      BY <1>m, <1>v, <1>c, <1>b, <2>1, <2>2, <2>4, <3>1, <1>q DEF TwoStays, Told, InBallot
    <3>2. CASE p = 2
      BY <1>m, <1>v, <1>c, <1>b, <2>1, <2>2, <2>4, <3>2, <1>q DEF TwoStays, Told, InBallot
    <3>. QED
      BY <1>m, <3>1, <3>2
  <2>. QED
    BY <2>3, <2>4 DEF TwoKept, StaysKept
<1>7. ASSUME NEW p \in Masters, NoAnswer(p), Answered PROVE TwoKept /\ StaysKept
  <2>1. /\ pc[p] = "wait" /\ ~up[target[p]]
        /\ UNCHANGED <<up, m_status, m_vote, m_epoch, votes, me_vote, response>>
    BY <1>7 DEF NoAnswer, Answered
  <2>2. /\ target[p] = 1 => pc'[p] = "wait" /\ target'[p] = 2
        /\ target[p] = 2 => pc'[p] = "tally" /\ target'[p] = 1
        /\ \A q \in Masters \ {p} : pc'[q] = pc[q] /\ target'[q] = target[q]
    BY <1>7, <1>f, <1>v, <1>m DEF NoAnswer, Proceed
  <2>3. target[p] # p /\ up[p]
    BY <1>f, <2>1
  <2>4. Two => srv' = srv
    <3>. SUFFICES ASSUME Two PROVE srv' = srv
      OBVIOUS
    <3>1. srv[target[p]].from # p
      BY <1>m, <1>v, <1>c, <2>1 DEF Two, Sane
    <3>. QED
      BY <1>7, <1>f, <3>1 DEF NoAnswer, HangUp
  <2>5. ASSUME Two, Answered PROVE Two'
    <3>1. CASE p = 1
      BY <1>m, <1>v, <1>c, <1>b, <2>1, <2>2, <2>3, <2>4, <2>5, <3>1 DEF Two, Sane, Orphan, Table1, Table2, Stale1, May1, May2, Holds1, Holds2, Told, Asks, InBallot, Ahead
    <3>2. CASE p = 2
      BY <1>m, <1>v, <1>c, <1>b, <2>1, <2>2, <2>3, <2>4, <2>5, <3>2 DEF Two, Sane, Orphan, Table1, Table2, Stale1, May1, May2, Holds1, Holds2, Told, Asks, InBallot, Ahead
    <3>. QED
      BY <1>m, <3>1, <3>2
  <2>6. ASSUME TwoStays, Calm, Answered PROVE TwoStays'
    <3>1. CASE p = 1
      BY <1>m, <1>v, <1>c, <1>b, <2>1, <2>2, <2>3, <2>4, <2>6, <3>1, <1>q DEF TwoStays, Told, InBallot
    <3>2. CASE p = 2
      BY <1>m, <1>v, <1>c, <1>b, <2>1, <2>2, <2>3, <2>4, <2>6, <3>2, <1>q DEF TwoStays, Told, InBallot
    <3>. QED
      BY <1>m, <3>1, <3>2
  <2>. QED
    BY <2>5, <2>6 DEF TwoKept, StaysKept
<1>8. ASSUME NEW p \in Masters, BrokenCall(p) PROVE TwoKept /\ StaysKept
  <2>1. /\ pc[p] = "got" /\ response[p] = {}
        /\ UNCHANGED <<up, m_status, m_vote, m_epoch, votes, me_vote, response, srv>>
    BY <1>8 DEF BrokenCall
  <2>2. /\ target[p] = 1 => pc'[p] = "wait" /\ target'[p] = 2
        /\ target[p] = 2 => pc'[p] = "tally" /\ target'[p] = 1
        /\ \A q \in Masters \ {p} : pc'[q] = pc[q] /\ target'[q] = target[q]
    BY <1>8, <1>f, <1>v, <1>m DEF BrokenCall, Proceed
  <2>3. ASSUME Two, Answered PROVE Two'
    <3>1. CASE p = 1
      BY <1>m, <1>v, <1>c, <1>b, <2>1, <2>2, <2>3, <3>1 DEF Two, Sane, Orphan, Table1, Table2, Stale1, May1, May2, Holds1, Holds2, Told, Asks, InBallot, Ahead
    <3>2. CASE p = 2
      BY <1>m, <1>v, <1>c, <1>b, <2>1, <2>2, <2>3, <3>2 DEF Two, Sane, Orphan, Table1, Table2, Stale1, May1, May2, Holds1, Holds2, Told, Asks, InBallot, Ahead
    <3>. QED
      BY <1>m, <3>1, <3>2
  <2>4. ASSUME TwoStays, Calm, Answered PROVE TwoStays'
    <3>1. CASE p = 1
      BY <1>m, <1>v, <1>c, <1>b, <2>1, <2>2, <2>4, <3>1, <1>q DEF TwoStays, Told, InBallot
    <3>2. CASE p = 2
      BY <1>m, <1>v, <1>c, <1>b, <2>1, <2>2, <2>4, <3>2, <1>q DEF TwoStays, Told, InBallot
    <3>. QED
      BY <1>m, <3>1, <3>2
  <2>. QED
    BY <2>3, <2>4 DEF TwoKept, StaysKept
<1>9. ASSUME NEW p \in Masters, RecordVote(p) PROVE TwoKept /\ StaysKept
  <2>1. \E r \in response[p] : votes' = [votes EXCEPT ![p][target[p]] = r.vote]
    BY <1>9 DEF RecordVote
  <2>2. PICK c : /\ Told(p, target[p], c) /\ votes'[p][target[p]] = c
                 /\ \A i \in Masters \ {target[p]} : votes'[p][i] = votes[p][i]
                 /\ \A q \in Masters \ {p} : votes'[q] = votes[q]
    <3>1. PICK r \in response[p] : votes' = [votes EXCEPT ![p][target[p]] = r.vote]
      BY <2>1
    <3>2. target[p] \in Masters /\ Told(p, target[p], r.vote)
      BY <1>9, <1>f DEF RecordVote, Told
    <3>3. votes'[p][target[p]] = r.vote /\ \A i \in Masters \ {target[p]} : votes'[p][i] = votes[p][i]
      BY <1>f, <3>1, <3>2 DEF Tables
    <3>4. \A q \in Masters \ {p} : votes'[q] = votes[q]
      BY <1>f, <3>1
    <3>. QED
      BY <3>2, <3>3, <3>4
  <2>3. /\ pc[p] = "got" /\ response[p] # {} /\ response'[p] = {}
        /\ \A q \in Masters \ {p} : response'[q] = response[q]
        /\ UNCHANGED <<up, m_status, m_vote, m_epoch, me_vote, srv>>
    BY <1>9, <1>f DEF RecordVote
  <2>4. c \in {0, 1, 2}
    <3>1. PICK r \in response[p] : r.vote = c
      BY <2>2 DEF Told
    <3>2. r.vote \in 0..N
      BY <1>f, TicketFacts
    <3>. QED
      BY <3>1, <3>2
  <2>5. /\ target[p] = 1 => pc'[p] = "wait" /\ target'[p] = 2
        /\ target[p] = 2 => pc'[p] = "tally" /\ target'[p] = 1
        /\ \A q \in Masters \ {p} : pc'[q] = pc[q] /\ target'[q] = target[q]
    BY <1>9, <1>f, <1>v, <1>m DEF RecordVote, Proceed
  <2>6. ASSUME Two, Answered PROVE Two'
    <3>1. CASE p = 1 /\ target[p] = 1
      BY <1>m, <1>v, <1>c, <1>b, <2>1, <2>2, <2>3, <2>4, <2>5, <2>6, <3>1 DEF Two, Sane, Orphan, Table1, Table2, Stale1, May1, May2, Holds1, Holds2, Told, Asks, InBallot, Ahead
    <3>2. CASE p = 1 /\ target[p] = 2
      BY <1>m, <1>v, <1>c, <1>b, <2>1, <2>2, <2>3, <2>4, <2>5, <2>6, <3>2 DEF Two, Sane, Orphan, Table1, Table2, Stale1, May1, May2, Holds1, Holds2, Told, Asks, InBallot, Ahead
    <3>3. CASE p = 2 /\ target[p] = 1
      BY <1>m, <1>v, <1>c, <1>b, <2>1, <2>2, <2>3, <2>4, <2>5, <2>6, <3>3 DEF Two, Sane, Orphan, Table1, Table2, Stale1, May1, May2, Holds1, Holds2, Told, Asks, InBallot, Ahead
    <3>4. CASE p = 2 /\ target[p] = 2
      BY <1>m, <1>v, <1>c, <1>b, <2>1, <2>2, <2>3, <2>4, <2>5, <2>6, <3>4 DEF Two, Sane, Orphan, Table1, Table2, Stale1, May1, May2, Holds1, Holds2, Told, Asks, InBallot, Ahead
    <3>. QED
      BY <1>m, <1>v, <3>1, <3>2, <3>3, <3>4
  <2>7. ASSUME TwoStays, Calm, Answered PROVE TwoStays'
    <3>1. CASE p = 1
      BY <1>m, <1>v, <1>c, <1>b, <2>1, <2>2, <2>3, <2>4, <2>5, <2>7, <3>1, <1>q DEF TwoStays, Told, InBallot
    <3>2. CASE p = 2
      BY <1>m, <1>v, <1>c, <1>b, <2>1, <2>2, <2>3, <2>4, <2>5, <2>7, <3>2, <1>q DEF TwoStays, Told, InBallot
    <3>. QED
      BY <1>m, <1>v, <3>1, <3>2
  <2>. QED
    BY <2>6, <2>7 DEF TwoKept, StaysKept
<1>10. ASSUME NEW p \in Masters, SeeOtherEpoch(p) PROVE TwoKept /\ StaysKept
  <2>1. /\ pc[p] = "got" /\ response[p] # {} /\ pc'[p] = "adopt"
        /\ \A q \in Masters \ {p} : pc'[q] = pc[q]
        /\ UNCHANGED <<up, m_status, m_vote, m_epoch, target, votes, me_vote, response, srv>>
    BY <1>10, <1>f DEF SeeOtherEpoch
  <2>2. ASSUME Two, Answered PROVE Two'
    <3>1. CASE p = 1
      BY <1>m, <1>v, <1>c, <1>b, <2>1, <2>2, <3>1 DEF Two, Sane, Orphan, Table1, Table2, Stale1, May1, May2, Holds1, Holds2, Told, Asks, InBallot, Ahead
    <3>2. CASE p = 2
      BY <1>m, <1>v, <1>c, <1>b, <2>1, <2>2, <3>2 DEF Two, Sane, Orphan, Table1, Table2, Stale1, May1, May2, Holds1, Holds2, Told, Asks, InBallot, Ahead
    <3>. QED
      BY <1>m, <3>1, <3>2
  <2>3. ASSUME Calm, crashes' = 0 PROVE FALSE
    BY <1>10, <2>3, CalmFacts DEF SeeOtherEpoch
  <2>. QED
    BY <2>2, <2>3 DEF TwoKept, StaysKept
<1>11. ASSUME NEW p \in Masters, AdoptEpoch(p) PROVE TwoKept /\ StaysKept
  <2>1. /\ pc[p] = "adopt" /\ pc'[p] = "tally" /\ target'[p] = 1 /\ response'[p] = {}
        /\ \A q \in Masters \ {p} : /\ m_epoch'[q] = m_epoch[q] /\ pc'[q] = pc[q] /\ target'[q] = target[q]
                                    /\ response'[q] = response[q]
        /\ UNCHANGED <<up, m_status, m_vote, votes, me_vote, srv>>
    BY <1>11, <1>f DEF AdoptEpoch
  <2>2. ASSUME Two, Answered PROVE Two'
    <3>1. CASE p = 1
      BY <1>m, <1>v, <1>c, <1>b, <2>1, <2>2, <3>1 DEF Two, Sane, Orphan, Table1, Table2, Stale1, May1, May2, Holds1, Holds2, Told, Asks, InBallot, Ahead
    <3>2. CASE p = 2
      BY <1>m, <1>v, <1>c, <1>b, <2>1, <2>2, <3>2 DEF Two, Sane, Orphan, Table1, Table2, Stale1, May1, May2, Holds1, Holds2, Told, Asks, InBallot, Ahead
    <3>. QED
      BY <1>m, <3>1, <3>2
  <2>3. ASSUME Calm, crashes' = 0 PROVE FALSE
    BY <1>m, <1>q, <2>1, <2>3
  <2>. QED
    BY <2>2, <2>3 DEF TwoKept, StaysKept
<1>12. ASSUME NEW p \in Masters, TallyNothing(p) PROVE TwoKept /\ StaysKept
  <2>1. /\ pc[p] = "tally" /\ pc'[p] = "top" /\ votes'[p] = NoVotes
        /\ \A q \in Masters \ {p} : /\ pc'[q] = pc[q] /\ votes'[q] = votes[q] /\ me_vote'[q] = me_vote[q]
        /\ UNCHANGED <<up, m_status, m_vote, m_epoch, target, response, srv>>
    BY <1>12, <1>f DEF TallyNothing, EndBallot
  <2>2. votes'[p][1] = Unheard /\ votes'[p][2] = Unheard
    BY <1>m, <2>1 DEF NoVotes
  <2>3. ASSUME Two, Answered PROVE Two'
    <3>1. CASE p = 1
      BY <1>m, <1>v, <1>c, <1>b, <2>1, <2>2, <2>3, <3>1 DEF Two, Sane, Orphan, Table1, Table2, Stale1, May1, May2, Holds1, Holds2, Told, Asks, InBallot, Ahead
    <3>2. CASE p = 2
      BY <1>m, <1>v, <1>c, <1>b, <2>1, <2>2, <2>3, <3>2 DEF Two, Sane, Orphan, Table1, Table2, Stale1, May1, May2, Holds1, Holds2, Told, Asks, InBallot, Ahead
    <3>. QED
      BY <1>m, <3>1, <3>2
  <2>4. ASSUME TwoStays, Calm, Answered PROVE TwoStays'
    <3>1. CASE p = 1
      BY <1>m, <1>v, <1>c, <1>b, <2>1, <2>2, <2>4, <3>1, <1>q DEF TwoStays, Told, InBallot
    <3>2. CASE p = 2
      BY <1>m, <1>v, <1>c, <1>b, <2>1, <2>2, <2>4, <3>2, <1>q DEF TwoStays, Told, InBallot
    <3>. QED
      BY <1>m, <3>1, <3>2
  <2>. QED
    BY <2>3, <2>4 DEF TwoKept, StaysKept
<1>13. ASSUME NEW p \in Masters, TallyUndecided(p) PROVE TwoKept /\ StaysKept
  <2>1. /\ pc[p] = "tally" /\ pc'[p] = "ticket" /\ m_vote'[p] = NextVote(p)
        /\ \A q \in Masters \ {p} : pc'[q] = pc[q] /\ m_vote'[q] = m_vote[q]
        /\ UNCHANGED <<up, m_status, m_epoch, target, votes, me_vote, response, srv>>
    BY <1>13, <1>f DEF TallyUndecided
  <2>2. \A c \in {1, 2} : ~(votes[p][1] = c /\ votes[p][2] = c)
    <3>1. Elected(votes[p]) = {}
      BY <1>13 DEF TallyUndecided
    <3>. QED
      BY <3>1, BothOfTwo
  <2>3. PICK c \in {1, 2} : /\ m_vote'[p] = c /\ (votes[p][1] = c \/ votes[p][2] = c)
                            /\ c = 2 \/ (votes[p][1] # 2 /\ votes[p][2] # 2)
    <3>. DEFINE S == Candidates(votes[p])
                 d0 == Largest(S)
    <3>1. S \in SUBSET Masters /\ S # {}
      BY <1>13 DEF TallyUndecided, Candidates
    <3>2. d0 \in S /\ \A d \in S : d <= d0
      BY <3>1, LargestIsMember
    <3>3. m_vote'[p] = d0
      BY <2>1 DEF NextVote
    <3>4. \A d \in {1, 2} : d \in S <=> (votes[p][1] = d \/ votes[p][2] = d)
      BY <1>m DEF Candidates, VotesFor
    <3>. HIDE DEF d0, S
    <3>5. d0 \in {1, 2} /\ (d0 = 2 \/ 2 \notin S)
      BY <1>m, <3>1, <3>2
    <3>. QED
      BY <3>2, <3>3, <3>4, <3>5
  <2>4. ASSUME Two, Answered PROVE Two'
    <3>1. CASE p = 1
      BY <1>m, <1>v, <1>c, <1>b, <2>1, <2>2, <2>3, <2>4, <3>1 DEF Two, Sane, Orphan, Table1, Table2, Stale1, May1, May2, Holds1, Holds2, Told, Asks, InBallot, Ahead
    <3>2. CASE p = 2
      BY <1>m, <1>v, <1>c, <1>b, <2>1, <2>2, <2>3, <2>4, <3>2 DEF Two, Sane, Orphan, Table1, Table2, Stale1, May1, May2, Holds1, Holds2, Told, Asks, InBallot, Ahead
    <3>. QED
      BY <1>m, <3>1, <3>2
  <2>5. ASSUME TwoStays, Calm, Answered PROVE TwoStays'
    <3>1. CASE p = 1
      BY <1>m, <1>v, <1>c, <1>b, <2>1, <2>2, <2>3, <2>5, <3>1, <1>q DEF TwoStays, Told, InBallot
    <3>2. CASE p = 2
      BY <1>m, <1>v, <1>c, <1>b, <2>1, <2>2, <2>3, <2>5, <3>2, <1>q DEF TwoStays, Told, InBallot
    <3>. QED
      BY <1>m, <3>1, <3>2
  <2>. QED
    BY <2>4, <2>5 DEF TwoKept, StaysKept
<1>14. ASSUME NEW p \in Masters, TallyElected(p) PROVE TwoKept /\ StaysKept
  <2>1. /\ pc[p] = "tally" /\ pc'[p] = "top" /\ votes'[p] = NoVotes
        /\ \A q \in Masters \ {p} : /\ m_status'[q] = m_status[q] /\ pc'[q] = pc[q] /\ votes'[q] = votes[q]
                                    /\ me_vote'[q] = me_vote[q]
        /\ UNCHANGED <<up, m_vote, m_epoch, target, response, srv>>
    BY <1>14, <1>f DEF TallyElected, EndBallot
  <2>2. votes'[p][1] = Unheard /\ votes'[p][2] = Unheard
    BY <1>m, <2>1 DEF NoVotes
  <2>3. m_status'[p] = Leader => votes[p][1] = p /\ votes[p][2] = p
    <3>. DEFINE l == Largest(Elected(votes[p]))
    <3>1. Elected(votes[p]) # {} /\ m_status'[p] = StatusAfter(p, l)
      BY <1>14, <1>f DEF TallyElected
    <3>2. l \in Elected(votes[p])
      BY <3>1, LargestIsMember, Elected(votes[p]) \in SUBSET Masters DEF Elected
    <3>. HIDE DEF l
    <3>3. m_status'[p] = Leader => l = p
      BY <1>v, <3>1 DEF StatusAfter
    <3>. QED
      BY <1>m, <3>2, <3>3, BothOfTwo
  <2>4. ASSUME Two, Answered PROVE Two'
    <3>1. CASE p = 1
      BY <1>m, <1>v, <1>c, <1>b, <2>1, <2>2, <2>3, <2>4, <3>1 DEF Two, Sane, Orphan, Table1, Table2, Stale1, May1, May2, Holds1, Holds2, Told, Asks, InBallot, Ahead
    <3>2. CASE p = 2
      BY <1>m, <1>v, <1>c, <1>b, <2>1, <2>2, <2>3, <2>4, <3>2 DEF Two, Sane, Orphan, Table1, Table2, Stale1, May1, May2, Holds1, Holds2, Told, Asks, InBallot, Ahead
    <3>. QED
      BY <1>m, <3>1, <3>2
  <2>5. ASSUME TwoStays, Calm, Answered PROVE TwoStays'
    <3>1. CASE p = 1
      BY <1>m, <1>v, <1>c, <1>b, <2>1, <2>2, <2>3, <2>5, <3>1, <1>q DEF TwoStays, Told, InBallot
    <3>2. CASE p = 2
      BY <1>m, <1>v, <1>c, <1>b, <2>1, <2>2, <2>3, <2>5, <3>2, <1>q DEF TwoStays, Told, InBallot
    <3>. QED
      BY <1>m, <3>1, <3>2
  <2>. QED
    BY <2>4, <2>5 DEF TwoKept, StaysKept
<1>15. ASSUME NEW p \in Masters, NEW i \in Masters, SrvAnswer(i, p) PROVE TwoKept /\ StaysKept
  <2>1. /\ up[i] /\ srv[i].at = "idle" /\ pc[p] = "wait" /\ target[p] = i /\ pc'[p] = "got"
        /\ \A q \in Masters \ {p} : pc'[q] = pc[q] /\ response'[q] = response[q]
        /\ UNCHANGED <<up, m_status, m_vote, m_epoch, target, votes, me_vote, srv>>
    BY <1>15, <1>f DEF SrvAnswer
  <2>2. /\ response'[p] # {}
        /\ \A r \in response'[p] : r.vote = m_vote[i]
    <3>1. response'[p] = {[epoch |-> m_epoch[i], vote |-> m_vote[i]]}
      BY <1>15, <1>f DEF SrvAnswer
    <3>. QED
      BY <3>1
  <2>3. ASSUME Two, Answered PROVE Two'
    <3>1. CASE p = 1 /\ i = 1
      BY <1>m, <1>v, <1>c, <1>b, <2>1, <2>2, <2>3, <3>1 DEF Two, Sane, Orphan, Table1, Table2, Stale1, May1, May2, Holds1, Holds2, Told, Asks, InBallot, Ahead
    <3>2. CASE p = 1 /\ i = 2
      BY <1>m, <1>v, <1>c, <1>b, <2>1, <2>2, <2>3, <3>2 DEF Two, Sane, Orphan, Table1, Table2, Stale1, May1, May2, Holds1, Holds2, Told, Asks, InBallot, Ahead
    <3>3. CASE p = 2 /\ i = 1
      BY <1>m, <1>v, <1>c, <1>b, <2>1, <2>2, <2>3, <3>3 DEF Two, Sane, Orphan, Table1, Table2, Stale1, May1, May2, Holds1, Holds2, Told, Asks, InBallot, Ahead
    <3>4. CASE p = 2 /\ i = 2
      BY <1>m, <1>v, <1>c, <1>b, <2>1, <2>2, <2>3, <3>4 DEF Two, Sane, Orphan, Table1, Table2, Stale1, May1, May2, Holds1, Holds2, Told, Asks, InBallot, Ahead
    <3>. QED
      BY <1>m, <3>1, <3>2, <3>3, <3>4
  <2>4. ASSUME TwoStays, Calm, Answered PROVE TwoStays'
    <3>1. CASE p = 1
      BY <1>m, <1>v, <1>c, <1>b, <2>1, <2>2, <2>4, <3>1, <1>q DEF TwoStays, Told, InBallot
    <3>2. CASE p = 2
      BY <1>m, <1>v, <1>c, <1>b, <2>1, <2>2, <2>4, <3>2, <1>q DEF TwoStays, Told, InBallot
    <3>. QED
      BY <1>m, <3>1, <3>2
  <2>. QED
    BY <2>3, <2>4 DEF TwoKept, StaysKept
<1>16. ASSUME NEW p \in Masters, NEW i \in Masters, SrvTake(i, p) PROVE TwoKept /\ StaysKept
  <2>1. /\ up[i] /\ srv[i].at = "idle" /\ pc[p] = "wait" /\ target[p] = i
        /\ srv'[i].at # "idle" /\ srv'[i].from = p
        /\ Newer(me_vote[p], m_epoch[i]) \/ pc[i] = "adopt"
        /\ \A q \in Masters \ {i} : srv'[q] = srv[q]
        /\ UNCHANGED <<up, m_status, m_vote, m_epoch, pc, target, votes, me_vote, response>>
    BY <1>16, <1>f DEF SrvTake
  <2>2. i = p => Ahead(p)
    BY <2>1 DEF Newer, Ahead
  <2>3. ASSUME Two, Answered PROVE Two'
    <3>1. CASE p = 1
      BY <1>m, <1>v, <1>c, <1>b, <2>1, <2>2, <2>3, <3>1 DEF Two, Sane, Orphan, Table1, Table2, Stale1, May1, May2, Holds1, Holds2, Told, Asks, InBallot, Ahead
    <3>2. CASE p = 2
      BY <1>m, <1>v, <1>c, <1>b, <2>1, <2>2, <2>3, <3>2 DEF Two, Sane, Orphan, Table1, Table2, Stale1, May1, May2, Holds1, Holds2, Told, Asks, InBallot, Ahead
    <3>. QED
      BY <1>m, <3>1, <3>2
  <2>4. ASSUME Calm, crashes' = 0 PROVE FALSE
    BY <1>m, <1>q, <2>1, <2>4, CalmFacts DEF Newer
  <2>. QED
    BY <2>3, <2>4 DEF TwoKept, StaysKept
<1>17. ASSUME NEW p \in Masters, SrvSetEpoch(p) PROVE TwoKept /\ StaysKept
  <2>1. /\ srv[p].at = "epoch" /\ srv'[p].at = "vote" /\ srv'[p].from = srv[p].from
        /\ \A q \in Masters \ {p} : m_epoch'[q] = m_epoch[q] /\ srv'[q] = srv[q]
        /\ UNCHANGED <<up, m_status, m_vote, pc, target, votes, me_vote, response>>
    BY <1>17, <1>f DEF SrvSetEpoch, Requests
  <2>2. ASSUME Two, Answered PROVE Two'
    <3>1. CASE p = 1
      BY <1>m, <1>v, <1>c, <1>b, <2>1, <2>2, <3>1 DEF Two, Sane, Orphan, Table1, Table2, Stale1, May1, May2, Holds1, Holds2, Told, Asks, InBallot, Ahead
    <3>2. CASE p = 2
      BY <1>m, <1>v, <1>c, <1>b, <2>1, <2>2, <3>2 DEF Two, Sane, Orphan, Table1, Table2, Stale1, May1, May2, Holds1, Holds2, Told, Asks, InBallot, Ahead
    <3>. QED
      BY <1>m, <3>1, <3>2
  <2>3. ASSUME Calm, crashes' = 0 PROVE FALSE
    BY <1>m, <1>q, <2>1, <2>3
  <2>. QED
    BY <2>2, <2>3 DEF TwoKept, StaysKept
<1>18. ASSUME NEW p \in Masters, SrvSetVote(p) PROVE TwoKept /\ StaysKept
  <2>1. /\ srv[p].at = "vote" /\ srv'[p].at = "status" /\ srv'[p].from = srv[p].from /\ m_vote'[p] = p
        /\ \A q \in Masters \ {p} : m_vote'[q] = m_vote[q] /\ srv'[q] = srv[q]
        /\ UNCHANGED <<up, m_status, m_epoch, pc, target, votes, me_vote, response>>
    BY <1>18, <1>f DEF SrvSetVote, Requests
  <2>2. ASSUME Two, Answered PROVE Two'
    <3>1. CASE p = 1
      BY <1>m, <1>v, <1>c, <1>b, <2>1, <2>2, <3>1 DEF Two, Sane, Orphan, Table1, Table2, Stale1, May1, May2, Holds1, Holds2, Told, Asks, InBallot, Ahead
    <3>2. CASE p = 2
      BY <1>m, <1>v, <1>c, <1>b, <2>1, <2>2, <3>2 DEF Two, Sane, Orphan, Table1, Table2, Stale1, May1, May2, Holds1, Holds2, Told, Asks, InBallot, Ahead
    <3>. QED
      BY <1>m, <3>1, <3>2
  <2>3. ASSUME Calm, crashes' = 0 PROVE FALSE
    BY <1>m, <1>q, <2>1, <2>3
  <2>. QED
    BY <2>2, <2>3 DEF TwoKept, StaysKept
<1>19. ASSUME NEW p \in Masters, SrvSetStatus(p) PROVE TwoKept /\ StaysKept
  <2>1. /\ srv[p].at = "status" /\ srv'[p].at = "reply" /\ srv'[p].from = srv[p].from /\ m_status'[p] = Consensus
        /\ \A q \in Masters \ {p} : m_status'[q] = m_status[q] /\ srv'[q] = srv[q]
        /\ UNCHANGED <<up, m_vote, m_epoch, pc, target, votes, me_vote, response>>
    BY <1>19, <1>f DEF SrvSetStatus, Reconsider, Requests
  <2>2. ASSUME Two, Answered PROVE Two'
    <3>1. CASE p = 1
      BY <1>m, <1>v, <1>c, <1>b, <2>1, <2>2, <3>1 DEF Two, Sane, Orphan, Table1, Table2, Stale1, May1, May2, Holds1, Holds2, Told, Asks, InBallot, Ahead
    <3>2. CASE p = 2
      BY <1>m, <1>v, <1>c, <1>b, <2>1, <2>2, <3>2 DEF Two, Sane, Orphan, Table1, Table2, Stale1, May1, May2, Holds1, Holds2, Told, Asks, InBallot, Ahead
    <3>. QED
      BY <1>m, <3>1, <3>2
  <2>3. ASSUME Calm, crashes' = 0 PROVE FALSE
    BY <1>m, <1>q, <2>1, <2>3
  <2>. QED
    BY <2>2, <2>3 DEF TwoKept, StaysKept
<1>20. ASSUME NEW p \in Masters, SrvReply(p) PROVE TwoKept /\ StaysKept
  <2>1. /\ srv[p].at = "reply" /\ srv'[p].at = "idle" /\ srv'[p].from = 0
        /\ \A q \in Masters \ {p} : srv'[q] = srv[q]
        /\ UNCHANGED <<up, m_status, m_vote, m_epoch, target, votes, me_vote>>
    BY <1>20, <1>f DEF SrvReply, SrvIdle
  <2>2. /\ srv[p].from = 0 => UNCHANGED <<pc, response>>
        /\ srv[p].from # 0 => /\ pc'[srv[p].from] = "got"
                              /\ response'[srv[p].from] = {[epoch |-> m_epoch[p], vote |-> m_vote[p]]}
                              /\ \A q \in Masters \ {srv[p].from} : pc'[q] = pc[q] /\ response'[q] = response[q]
    BY <1>20, <1>f, <1>v, <1>m DEF SrvReply
  <2>3. srv[p].from # 0 =>
          /\ response'[srv[p].from] # {}
          /\ \A c : (\E r \in response'[srv[p].from] : r.vote = c) <=> m_vote[p] = c
    <3>. SUFFICES ASSUME srv[p].from # 0
                  PROVE  /\ response'[srv[p].from] # {}
                         /\ \A c : (\E r \in response'[srv[p].from] : r.vote = c) <=> m_vote[p] = c
      OBVIOUS
    <3>1. response'[srv[p].from] = {[epoch |-> m_epoch[p], vote |-> m_vote[p]]}
      BY <2>2
    <3>. QED
      BY <3>1
  <2>4. ASSUME Two, Answered PROVE Two'
    <3>1. CASE p = 1
      BY <1>m, <1>v, <1>c, <1>b, <2>1, <2>2, <2>3, <2>4, <3>1 DEF Two, Sane, Orphan, Table1, Table2, Stale1, May1, May2, Holds1, Holds2, Told, Asks, InBallot, Ahead
    <3>2. CASE p = 2
      BY <1>m, <1>v, <1>c, <1>b, <2>1, <2>2, <2>3, <2>4, <3>2 DEF Two, Sane, Orphan, Table1, Table2, Stale1, May1, May2, Holds1, Holds2, Told, Asks, InBallot, Ahead
    <3>. QED
      BY <1>m, <3>1, <3>2
  <2>5. ASSUME Calm, crashes' = 0 PROVE FALSE
    BY <1>m, <1>q, <2>1, <2>5
  <2>. QED
    BY <2>4, <2>5 DEF TwoKept, StaysKept
<1>21. CASE UNCHANGED vars
  <2>1. Two => Two'
    BY <1>21 DEF vars, Two, Sane, Orphan, Table1, Table2, Stale1, May1, May2, Holds1, Holds2, Told, Asks, InBallot, Ahead
  <2>2. TwoStays => TwoStays'
    BY <1>21 DEF vars, TwoStays, Told, InBallot
  <2>. QED
    BY <2>1, <2>2 DEF TwoKept, StaysKept
<1>22. CASE ~Answered
  BY <1>22 DEF TwoKept, StaysKept
<1>. QED
  BY <1>1, <1>2, <1>3, <1>4, <1>5, <1>6, <1>7, <1>8, <1>9, <1>10, <1>11, <1>12, <1>13, <1>14, <1>15, <1>16, <1>17, <1>18, <1>19, <1>20, <1>21, <1>22 DEF Next, SyncStep, SrvStep

\* A call of 1 that is lost leaves 2 with its own vote, and one of 2 that is lost does no
\* harm while 2 has it.
LEMMA LostCall ==
  ASSUME N = 2, IInv, Calm, TwoStays, NEW p \in Masters, NoAnswer(p)
  PROVE  /\ p = 1 => TwoStays'
         /\ p = 2 => (Two => Two')
<1>m. Masters = {1, 2}
  BY DEF Masters
<1>t. TypeOK
  BY DEF IInv
<1>f. /\ pc \in [Masters -> PCs] /\ target \in [Masters -> Masters] /\ srv \in [Masters -> Requests]
      /\ \A q \in Masters : pc[q] = "off" <=> ~up[q]
  BY <1>t DEF TypeOK
<1>v. /\ \A q \in {1, 2} : m_vote[q] \in {0, 1, 2} /\ target[q] \in {1, 2}
      /\ Leader # Consensus /\ Unheard \notin {0, 1, 2}
  BY <1>t, <1>m, StatusesDiffer DEF TypeOK, Unheard
<1>b. \A q \in {1, 2} : pc[q] \in InBallot => m_status[q] = Consensus
  BY <1>m DEF IInv, BallotIsConsensus
<1>q. \A q \in {1, 2} : srv[q].at = "idle" /\ srv[q].from = 0
  BY <1>m, CalmFacts DEF SrvIdle
<1>1. /\ pc[p] = "wait"
      /\ UNCHANGED <<up, m_status, m_vote, m_epoch, votes, me_vote, response>>
  BY DEF NoAnswer
<1>2. /\ target[p] = 1 => pc'[p] = "wait" /\ target'[p] = 2
      /\ target[p] = 2 => pc'[p] = "tally" /\ target'[p] = 1
      /\ \A q \in Masters \ {p} : pc'[q] = pc[q] /\ target'[q] = target[q]
  BY <1>f, <1>v, <1>m DEF NoAnswer, Proceed
<1>3. srv' = srv
  BY <1>f, <1>m, <1>v, <1>q DEF NoAnswer, HangUp
<1>4. ASSUME p = 1 PROVE TwoStays'
  BY <1>m, <1>v, <1>1, <1>2, <1>4 DEF TwoStays, Told, InBallot
<1>5. ASSUME p = 2, Two PROVE Two'
  BY <1>m, <1>v, <1>b, <1>q, <1>1, <1>2, <1>3, <1>5 DEF TwoStays, Two, Sane, Orphan, Table1, Table2, Stale1, May1, May2, Holds1, Holds2, Told, Asks, InBallot, Ahead
<1>. QED
  BY <1>4, <1>5

\* Two masters may both lead after two faults of which one is a lost call, and not before.
\* Until the first call is lost Two holds, whatever crashes.  While nothing crashes, a first
\* lost call takes away either Two or TwoStays, and each of them alone is enough.
TwoInv ==
    /\ IInv
    /\ lost = 0 => Two
    /\ lost <= 1 /\ crashes = 0 => Calm /\ (Two \/ TwoStays)
    /\ lost = 0 /\ crashes = 0 => TwoStays

\* At first nobody runs.
LEMMA InitTwo == N = 2 /\ Init => TwoInv
<1>. SUFFICES ASSUME N = 2, Init PROVE TwoInv
  OBVIOUS
<1>1. IInv /\ Calm
  BY InitIInv, InitCalm
<1>2. /\ 1 \in Masters /\ 2 \in Masters
      /\ Unheard \notin {0, 1, 2} /\ Leader # Consensus
  BY StatusesDiffer DEF Masters, Unheard
<1>3. \A p \in Masters : /\ ~up[p] /\ m_status[p] = Consensus /\ m_vote[p] = 0 /\ pc[p] = "off"
                         /\ response[p] = {} /\ srv[p].at = "idle" /\ srv[p].from = 0
                         /\ \A i \in Masters : votes[p][i] = Unheard
  BY DEF Init, RolesInit, NoVotes, SrvIdle
<1>4. Two
  BY <1>2, <1>3 DEF Two, Sane, Orphan, Table1, Table2, Stale1, May1, May2, Holds1, Holds2, Told, Asks, InBallot, Ahead
<1>5. TwoStays
  BY <1>2, <1>3 DEF TwoStays, Told, InBallot
<1>. QED
  BY <1>1, <1>4, <1>5 DEF TwoInv

\* The first fault is a call that is lost, or it is not.
LEMMA TwoInvStep ==
  ASSUME N = 2, TwoInv, [Next]_vars
  PROVE  TwoInv'
<1>1. IInv /\ IInv' /\ TypeOK
  BY NextIInv DEF TwoInv, IInv
<1>2. /\ lost \in Nat /\ crashes \in Nat
      /\ lost' = lost \/ lost' = lost + 1
      /\ crashes' = crashes \/ crashes' = crashes + 1
  BY <1>1, FaultsCount DEF TypeOK
<1>3. TwoKept /\ StaysKept
  BY <1>1, TwoStep
<1>4. lost' = lost => Answered
  <2>. SUFFICES ASSUME lost' = lost, NEW p \in Masters, NoAnswer(p) PROVE ~up[target[p]]
    BY DEF Answered
  <2>1. lost # lost + 1
    BY <1>2
  <2>. QED
    BY <2>1 DEF NoAnswer
<1>5. lost' = 0 => Two'
  <2>. SUFFICES ASSUME lost' = 0 PROVE Two'
    OBVIOUS
  <2>1. lost = 0 /\ lost' = lost
    BY <1>2
  <2>. QED
    BY <1>3, <1>4, <2>1 DEF TwoInv, TwoKept
<1>6. ASSUME lost' <= 1, crashes' = 0
      PROVE  Calm' /\ (Two' \/ TwoStays') /\ (lost' = 0 => TwoStays')
  <2>1. lost <= 1 /\ crashes = 0 /\ lost' <= 2
    BY <1>2, <1>6
  <2>2. Calm /\ (Two \/ TwoStays) /\ (lost = 0 => Two /\ TwoStays)
    BY <2>1 DEF TwoInv
  <2>3. Calm'
    BY <1>1, <1>6, <2>1, <2>2, CalmStep
  <2>4. CASE Answered
    <3>1. (Two => Two') /\ (TwoStays => TwoStays')
      BY <1>3, <1>6, <2>2, <2>4 DEF TwoKept, StaysKept
    <3>2. lost' = 0 => lost = 0
      BY <1>2
    <3>. QED
      BY <2>2, <2>3, <3>1, <3>2
  <2>5. CASE ~Answered
    <3>1. lost' # lost
      BY <1>4, <2>5
    <3>2. lost = 0 /\ lost' = 1
      BY <1>2, <1>6, <3>1
    <3>3. PICK p \in Masters : NoAnswer(p)
      BY <2>5 DEF Answered
    <3>4. p \in {1, 2}
      BY DEF Masters
    <3>5. Two' \/ TwoStays'
      BY <1>1, <2>2, <3>2, <3>3, <3>4, LostCall
    <3>. QED
      BY <2>3, <3>2, <3>5
  <2>. QED
    BY <2>4, <2>5
<1>. QED
  BY <1>1, <1>5, <1>6 DEF TwoInv

\* Of up to two masters both lead only after two faults, one of them a lost call, whatever
\* number of crashes and restarts there are.
THEOREM TwoLeadersTheorem ==
  ASSUME N <= 2
  PROVE  Spec => []TwoLeadersTakeTwoFaults
<1>1. CASE N = 1
  <2>1. TypeOK => TwoLeadersTakeTwoFaults
    BY <1>1 DEF TwoLeadersTakeTwoFaults, AtMostOneLeader, Masters
  <2>. QED
    BY <2>1, TypeCorrect, PTL
<1>2. CASE N = 2
  <2>1. Init => TwoInv
    BY <1>2, InitTwo
  <2>2. TwoInv /\ [Next]_vars => TwoInv'
    BY <1>2, TwoInvStep
  <2>3. TwoInv => TwoLeadersTakeTwoFaults
    <3>. SUFFICES ASSUME TwoInv, ~(lost >= 1 /\ lost + crashes >= 2) PROVE AtMostOneLeader
      BY DEF TwoLeadersTakeTwoFaults
    <3>1. lost \in Nat /\ crashes \in Nat
      BY DEF TwoInv, IInv, TypeOK
    <3>2. lost = 0 \/ (lost <= 1 /\ crashes = 0)
      BY <3>1
    <3>3. Two \/ TwoStays
      BY <3>2 DEF TwoInv
    <3>4. ~(m_status[1] = Leader /\ m_status[2] = Leader)
      BY <3>3 DEF Two, TwoStays, May1, May2
    <3>. QED
      BY <1>2, <3>4 DEF AtMostOneLeader, Masters
  <2>. QED
    BY <2>1, <2>2, <2>3, PTL DEF Spec
<1>. QED
  BY <1>1, <1>2, RolesAssumption

\* Of two masters one that leads has its own vote, whatever crashes and however often
\* they vote again, until a call is lost.
THEOREM LeaderVotesTheorem ==
  ASSUME N = 2
  PROVE  Spec => []LeaderVotesForItself
<1>1. Init => TwoInv
  BY InitTwo
<1>2. TwoInv /\ [Next]_vars => TwoInv'
  BY TwoInvStep
<1>3. TwoInv => LeaderVotesForItself
  BY DEF TwoInv, Two, Sane, LeaderVotesForItself, Masters
<1>. QED
  BY <1>1, <1>2, <1>3, PTL DEF Spec
=============================================================================
