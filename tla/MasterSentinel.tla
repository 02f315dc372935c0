---------------------------- MODULE MasterSentinel ----------------------------
(***************************************************************************)
(* The sentinel of the KyrinBox masters: the election of a leader.         *)
(*                                                                         *)
(* Every master runs two threads over the four members of                  *)
(* KyrinMasterSentinel: the sync thread (sentinel_sync), which watches the *)
(* leader or holds ballots, and the server thread                          *)
(* (KyrinMasterSentinelServer), which answers /GetStatus and /GetVote.     *)
(* Each member has a mutex of its own, so the threads interleave between   *)
(* the lock sections, and that is the grain of the actions here.           *)
(***************************************************************************)
EXTENDS MasterRoles, FiniteSets

CONSTANTS MaxEpoch,     \* bound: no timeout raises an epoch beyond it
          MaxLost,      \* bound: requests or replies lost between running masters
          MaxStart,     \* bound: starts of a process
          MaxCrash      \* bound: crashes of a process
ASSUME SentinelAssumption ==
    MaxEpoch \in Nat /\ MaxLost \in Nat /\ MaxStart \in Nat /\ MaxCrash \in Nat

NoLeader == 0           \* the local leader == -1
Unheard  == -1          \* voted[i] == false
Retries  == 3
HalfQuorum == N \div 2
Quorum   == (N \div 2) + 1
Epochs   == 0..MaxEpoch
Tickets  == [epoch : Epochs, vote : 0..N]
NoTicket == [epoch |-> 0, vote |-> 0]

VARIABLES
    up,         \* the process runs
    m_vote, m_epoch,
    pc,         \* sync thread: what it does next
    leader,     \* sync thread: local leader
    target,     \* sync thread: i of the polling loop
    votes,      \* sync thread: votes[i].second, Unheard while voted[i] is false
    me_vote,    \* sync thread: the ticket of this round
    retry,      \* sync thread: failed attempts of /GetStatus
    response,   \* sync thread: the reply to /GetVote, a set of at most one ticket
    srv,        \* server thread: the /GetVote request it handles
    lost, starts, crashes   \* counters for the bounds

shared == <<m_status, m_leader, m_vote, m_epoch>>
ballot == <<leader, target, votes, me_vote, response>>
faults == <<lost, starts, crashes>>
vars == <<up, shared, pc, ballot, retry, srv, faults>>

NoVotes == [i \in Masters |-> Unheard]
SrvIdle == [at |-> "idle", from |-> 0, ticket |-> NoTicket]

-----------------------------------------------------------------------------
(* The tally of a round.                                                   *)

VotesFor(v, c) == {i \in Masters : v[i] = c}

Elected(v) == {c \in Masters : Cardinality(VotesFor(v, c)) >= Quorum}

Candidates(v) == {c \in Masters : VotesFor(v, c) # {}}

Largest(S) == CHOOSE c \in S : \A d \in S : d <= c

\* What p votes for in the next round of a ballot without a majority.
OwnVote(p) == p
NextVote(p) == Largest(Candidates(votes[p]))

\* What a ballot of p makes of its status.
AlwaysLeads(p, l) == Leader
AlwaysFollows(p, l) == Follower
StatusAfter(p, l) == IF l = p THEN Leader ELSE Follower

\* The sync thread of p takes the branch k_status_consensus.
NoLeaderYet(p) == m_status[p] # Leader
LooksForLeader(p) == m_status[p] = Consensus

\* The server thread compares a ticket with the epoch of its master.
NotOlder(ticket, e) == ticket.epoch >= e
Newer(ticket, e) == ticket.epoch > e

\* The connection from p to i is gone; what i works on for p has no caller.
HangUp(i, p) == [srv EXCEPT ![i] = IF @.from = p THEN [@ EXCEPT !.from = 0] ELSE @]

-----------------------------------------------------------------------------
Init == /\ RolesInit
        /\ up = [p \in Masters |-> FALSE]
        /\ m_vote = [p \in Masters |-> 0]
        /\ m_epoch = [p \in Masters |-> 0]
        /\ pc = [p \in Masters |-> "off"]
        /\ leader = [p \in Masters |-> NoLeader]
        /\ target = [p \in Masters |-> 1]
        /\ votes = [p \in Masters |-> NoVotes]
        /\ me_vote = [p \in Masters |-> NoTicket]
        /\ retry = [p \in Masters |-> 0]
        /\ response = [p \in Masters |-> {}]
        /\ srv = [p \in Masters |-> SrvIdle]
        /\ lost = 0 /\ starts = 0 /\ crashes = 0

\* start_sentinel.  Nothing is stored on disk, so a restart is a first start;
\* m_vote is the zero of the value-initialised object until the first ballot.
Start(p) ==
    /\ ~up[p] /\ starts < MaxStart
    /\ starts' = starts + 1
    /\ up' = [up EXCEPT ![p] = TRUE]
    /\ NameItself(p)
    /\ m_epoch' = [m_epoch EXCEPT ![p] = 0]
    /\ m_vote' = [m_vote EXCEPT ![p] = 0]
    /\ pc' = [pc EXCEPT ![p] = "top"]
    /\ leader' = [leader EXCEPT ![p] = NoLeader]
    /\ UNCHANGED <<target, votes, me_vote, retry, response, srv, lost, crashes>>

\* The process dies: its members are gone, and the call its server thread was
\* handling breaks, as does the call its own sync thread has in flight.
Crash(p) ==
    /\ up[p] /\ crashes < MaxCrash
    /\ crashes' = crashes + 1
    /\ up' = [up EXCEPT ![p] = FALSE]
    /\ pc' = [q \in Masters |-> CASE q = p -> "off"
                                  [] q # p /\ q = srv[p].from -> "got"
                                  [] OTHER -> pc[q]]
    /\ response' = [q \in Masters |->
                      IF q = p \/ q = srv[p].from THEN {} ELSE response[q]]
    /\ srv' = [q \in Masters |-> CASE q = p -> SrvIdle
                                   [] q # p /\ srv[q].from = p -> [srv[q] EXCEPT !.from = 0]
                                   [] OTHER -> srv[q]]
    /\ NameItself(p)
    /\ m_vote' = [m_vote EXCEPT ![p] = 0]
    /\ m_epoch' = [m_epoch EXCEPT ![p] = 0]
    /\ leader' = [leader EXCEPT ![p] = NoLeader]
    /\ target' = [target EXCEPT ![p] = 1]
    /\ votes' = [votes EXCEPT ![p] = NoVotes]
    /\ me_vote' = [me_vote EXCEPT ![p] = NoTicket]
    /\ retry' = [retry EXCEPT ![p] = 0]
    /\ UNCHANGED <<lost, starts>>

-----------------------------------------------------------------------------
(* The sync thread as a follower: watch the leader.                        *)

\* get_status reads Follower.  The status may change while the thread pings.
Watch(p) ==
    /\ pc[p] = "top" /\ m_status[p] = Follower
    /\ pc' = [pc EXCEPT ![p] = "ping"]
    /\ UNCHANGED <<up, shared, ballot, retry, srv, faults>>

\* One attempt of GET /GetStatus.  Any answer counts, whatever it says; a
\* fourth attempt that succeeds leaves retry at 3 and so counts as a failure.
PingAnswered(p) ==
    /\ pc[p] = "ping" /\ up[leader[p]]
    /\ pc' = [pc EXCEPT ![p] = IF retry[p] = Retries THEN "timeout" ELSE "top"]
    /\ retry' = [retry EXCEPT ![p] = 0]
    /\ UNCHANGED <<up, shared, ballot, srv, faults>>

PingFailed(p) ==
    /\ pc[p] = "ping"
    /\ \/ ~up[leader[p]] /\ UNCHANGED lost
       \/ up[leader[p]] /\ lost < MaxLost /\ lost' = lost + 1
    /\ IF retry[p] = Retries
       THEN pc' = [pc EXCEPT ![p] = "timeout"] /\ retry' = [retry EXCEPT ![p] = 0]
       ELSE retry' = [retry EXCEPT ![p] = @ + 1] /\ UNCHANGED pc
    /\ UNCHANGED <<up, shared, ballot, srv, starts, crashes>>

\* The leader is given up: a new epoch, under the locks of status, vote, epoch.
Timeout(p) ==
    /\ pc[p] = "timeout" /\ m_epoch[p] < MaxEpoch
    /\ Reconsider(p)
    /\ m_epoch' = [m_epoch EXCEPT ![p] = @ + 1]
    /\ m_vote' = [m_vote EXCEPT ![p] = p]
    /\ pc' = [pc EXCEPT ![p] = "top"]
    /\ UNCHANGED <<up, ballot, retry, srv, faults>>

-----------------------------------------------------------------------------
(* The sync thread in ballot.                                              *)

\* get_status reads Consensus: a fresh table of votes and a vote for itself.
\* The first ticket is taken in the same action: what the server thread could
\* do in between commutes with set_vote of the same value.
EnterBallot(p) ==
    /\ pc[p] = "top" /\ LooksForLeader(p)
    /\ m_vote' = [m_vote EXCEPT ![p] = p]
    /\ votes' = [votes EXCEPT ![p] = NoVotes]
    /\ me_vote' = [me_vote EXCEPT ![p] = [epoch |-> m_epoch[p], vote |-> p]]
    /\ target' = [target EXCEPT ![p] = 1]
    /\ pc' = [pc EXCEPT ![p] = "wait"]
    /\ UNCHANGED <<up, roles, m_epoch, leader, retry, response, srv, faults>>

\* A further round of the same ballot: the table of votes is not cleared.
NextRound(p) ==
    /\ pc[p] = "ticket"
    /\ me_vote' = [me_vote EXCEPT ![p] = [epoch |-> m_epoch[p], vote |-> m_vote[p]]]
    /\ target' = [target EXCEPT ![p] = 1]
    /\ pc' = [pc EXCEPT ![p] = "wait"]
    /\ UNCHANGED <<up, shared, leader, votes, retry, response, srv, faults>>

ProceedTooFar(p) ==
    IF target[p] > N
    THEN /\ pc' = [pc EXCEPT ![p] = "tally"]
         /\ target' = [target EXCEPT ![p] = 1]
    ELSE /\ pc' = [pc EXCEPT ![p] = "wait"]
         /\ target' = [target EXCEPT ![p] = @ + 1]

\* After the answer of the target, or none: ask the next one or count.
Proceed(p) ==
    IF target[p] = N
    THEN /\ pc' = [pc EXCEPT ![p] = "tally"]
         /\ target' = [target EXCEPT ![p] = 1]
    ELSE /\ pc' = [pc EXCEPT ![p] = "wait"]
         /\ target' = [target EXCEPT ![p] = @ + 1]

\* POST /GetVote ends with an empty response: nobody listens at the target, or
\* the request or its reply is lost (the target may still handle it).
NoAnswer(p) ==
    LET i == target[p] IN
    /\ pc[p] = "wait"
    /\ \/ ~up[i] /\ UNCHANGED lost
       \/ up[i] /\ lost < MaxLost /\ lost' = lost + 1
    /\ Proceed(p)
    /\ srv' = HangUp(i, p)
    /\ UNCHANGED <<up, shared, leader, votes, me_vote, retry, response, starts, crashes>>

\* The same for a call that the target was handling when it crashed.
BrokenCall(p) ==
    /\ pc[p] = "got" /\ response[p] = {}
    /\ Proceed(p)
    /\ UNCHANGED <<up, shared, leader, votes, me_vote, retry, response, srv, faults>>

\* A vote of the master's own epoch, compared with m_epoch outside of its lock.
RecordVote(p) ==
    /\ pc[p] = "got"
    /\ \E r \in response[p] :
         /\ r.epoch = m_epoch[p]
         /\ votes' = [votes EXCEPT ![p][target[p]] = r.vote]
    /\ Proceed(p)
    /\ response' = [response EXCEPT ![p] = {}]
    /\ UNCHANGED <<up, shared, leader, me_vote, retry, srv, faults>>

SeeOtherEpoch(p) ==
    /\ pc[p] = "got"
    /\ \E r \in response[p] : r.epoch # m_epoch[p]
    /\ pc' = [pc EXCEPT ![p] = "adopt"]
    /\ UNCHANGED <<up, shared, ballot, retry, srv, faults>>

\* The epoch of the reply replaces m_epoch, whatever the server thread has made
\* of it since the comparison, and the rest of the round is skipped.
AdoptEpoch(p) ==
    /\ pc[p] = "adopt"
    /\ \E r \in response[p] : m_epoch' = [m_epoch EXCEPT ![p] = r.epoch]
    /\ m_leader' = [m_leader EXCEPT ![p] = p]
    /\ response' = [response EXCEPT ![p] = {}]
    /\ pc' = [pc EXCEPT ![p] = "tally"]
    /\ target' = [target EXCEPT ![p] = 1]
    /\ UNCHANGED <<up, m_status, m_vote, leader, votes, me_vote, retry, srv, faults>>

\* The table of votes and the ticket are locals of one ballot.
EndBallot(p) == /\ votes' = [votes EXCEPT ![p] = NoVotes]
                /\ me_vote' = [me_vote EXCEPT ![p] = NoTicket]

\* No vote was heard in this ballot: start it over.
TallyNothing(p) ==
    /\ pc[p] = "tally" /\ Candidates(votes[p]) = {}
    /\ leader' = [leader EXCEPT ![p] = NoLeader]
    /\ EndBallot(p)
    /\ pc' = [pc EXCEPT ![p] = "top"]
    /\ UNCHANGED <<up, shared, target, retry, response, srv, faults>>

\* No majority: vote for the largest candidate in the next round.
TallyUndecided(p) ==
    /\ pc[p] = "tally" /\ Candidates(votes[p]) # {} /\ Elected(votes[p]) = {}
    /\ leader' = [leader EXCEPT ![p] = NoLeader]
    /\ m_vote' = [m_vote EXCEPT ![p] = NextVote(p)]
    /\ pc' = [pc EXCEPT ![p] = "ticket"]
    /\ UNCHANGED <<up, roles, m_epoch, target, votes, me_vote, retry, response, srv, faults>>

\* A majority: m_leader and m_status are set although the server thread may
\* have met a higher epoch since the votes were given.
TallyElected(p) ==
    LET l == Largest(Elected(votes[p])) IN
    /\ pc[p] = "tally" /\ Elected(votes[p]) # {}
    /\ leader' = [leader EXCEPT ![p] = l]
    /\ m_leader' = [m_leader EXCEPT ![p] = l]
    /\ m_status' = [m_status EXCEPT ![p] = StatusAfter(p, l)]
    /\ EndBallot(p)
    /\ pc' = [pc EXCEPT ![p] = "top"]
    /\ UNCHANGED <<up, m_vote, m_epoch, target, retry, response, srv, faults>>

-----------------------------------------------------------------------------
(* The server thread: get_sentinel_vote_handler, one request at a time.    *)

\* A ticket that is not newer is answered with the ticket of the moment.  The
\* lock sections of get_epoch and get_vote_ticket are one action here: what
\* happens to m_epoch between them matters only when it falls, see SrvTake.
SrvAnswer(i, p) ==
    /\ up[i] /\ srv[i].at = "idle"
    /\ pc[p] = "wait" /\ target[p] = i
    /\ ~Newer(me_vote[p], m_epoch[i])
    /\ pc' = [pc EXCEPT ![p] = "got"]
    /\ response' = [response EXCEPT ![p] = {[epoch |-> m_epoch[i], vote |-> m_vote[i]]}]
    /\ UNCHANGED <<up, shared, leader, target, votes, me_vote, retry, srv, faults>>

\* A newer ticket; or one that is not newer yet, as the sync thread is about to
\* put m_epoch back to an older one between get_epoch and get_vote_ticket.
SrvTake(i, p) ==
    /\ up[i] /\ srv[i].at = "idle"
    /\ pc[p] = "wait" /\ target[p] = i
    /\ Newer(me_vote[p], m_epoch[i]) \/ pc[i] = "adopt"
    /\ srv' = [srv EXCEPT ![i] = [at |-> IF Newer(me_vote[p], m_epoch[i])
                                         THEN "epoch" ELSE "reply",
                                  from |-> p, ticket |-> me_vote[p]]]
    /\ UNCHANGED <<up, shared, pc, ballot, retry, faults>>

SrvSetEpoch(i) ==
    /\ srv[i].at = "epoch"
    /\ m_epoch' = [m_epoch EXCEPT ![i] = srv[i].ticket.epoch]
    /\ srv' = [srv EXCEPT ![i].at = "vote"]
    /\ UNCHANGED <<up, roles, m_vote, pc, ballot, retry, faults>>

SrvSetVote(i) ==
    /\ srv[i].at = "vote"
    /\ m_vote' = [m_vote EXCEPT ![i] = i]
    /\ srv' = [srv EXCEPT ![i].at = "status"]
    /\ UNCHANGED <<up, roles, m_epoch, pc, ballot, retry, faults>>

SrvSetStatus(i) ==
    /\ srv[i].at = "status"
    /\ Reconsider(i)
    /\ srv' = [srv EXCEPT ![i].at = "reply"]
    /\ UNCHANGED <<up, m_vote, m_epoch, pc, ballot, retry, faults>>

\* The reply is the ticket of the moment; nobody reads it if the call is gone.
SrvReply(i) ==
    LET p == srv[i].from IN
    /\ srv[i].at = "reply"
    /\ IF p = 0
       THEN UNCHANGED <<pc, response>>
       ELSE /\ pc' = [pc EXCEPT ![p] = "got"]
            /\ response' = [response EXCEPT ![p] =
                              {[epoch |-> m_epoch[i], vote |-> m_vote[i]]}]
    /\ srv' = [srv EXCEPT ![i] = SrvIdle]
    /\ UNCHANGED <<up, shared, leader, target, votes, me_vote, retry, faults>>

-----------------------------------------------------------------------------
SyncStep(p) == \/ Watch(p) \/ PingAnswered(p) \/ PingFailed(p) \/ Timeout(p)
               \/ EnterBallot(p) \/ NextRound(p) \/ NoAnswer(p)
               \/ BrokenCall(p) \/ RecordVote(p) \/ SeeOtherEpoch(p) \/ AdoptEpoch(p)
               \/ TallyNothing(p) \/ TallyUndecided(p) \/ TallyElected(p)

SrvStep(i) == \/ \E p \in Masters : SrvAnswer(i, p) \/ SrvTake(i, p)
              \/ SrvSetEpoch(i) \/ SrvSetVote(i) \/ SrvSetStatus(i) \/ SrvReply(i)

Next == \E p \in Masters : Start(p) \/ Crash(p) \/ SyncStep(p) \/ SrvStep(p)

Spec == Init /\ [][Next]_vars

\* The threads keep running, a process that is down is started again, and
\* every master that waits is eventually taken by the event loop it calls.
Fairness == \A p \in Masters :
    /\ WF_vars(Start(p))
    /\ WF_vars(SyncStep(p))
    /\ WF_vars(SrvSetEpoch(p) \/ SrvSetVote(p) \/ SrvSetStatus(p) \/ SrvReply(p))
    /\ \A q \in Masters : SF_vars(SrvAnswer(p, q) \/ SrvTake(p, q))

LiveSpec == Spec /\ Fairness

-----------------------------------------------------------------------------
Tables == [Masters -> (0..N) \cup {Unheard}]
Requests == [at : {"idle", "epoch", "vote", "status", "reply"},
             from : Masters \cup {0}, ticket : Tickets]
PCs == {"off", "top", "ping", "timeout", "ticket", "wait", "got", "adopt", "tally"}

\* Every member holds a value of its type; in particular a vote is the index of
\* a slot of vote_result (0 is a vote not cast), and a process that is down has
\* no sync thread.
TypeOK ==
    /\ m_status \in [Masters -> Statuses]
    /\ m_leader \in [Masters -> Masters]
    /\ m_vote \in [Masters -> 0..N]
    /\ m_epoch \in [Masters -> Epochs]
    /\ up \in [Masters -> BOOLEAN]
    /\ pc \in [Masters -> PCs] /\ \A p \in Masters : pc[p] = "off" <=> ~up[p]
    /\ leader \in [Masters -> Masters \cup {NoLeader}]
    /\ target \in [Masters -> Masters]
    /\ votes \in [Masters -> Tables]
    /\ me_vote \in [Masters -> Tickets]
    /\ retry \in [Masters -> 0..Retries]
    /\ response \in [Masters -> SUBSET Tickets]
    /\ srv \in [Masters -> Requests]
    /\ lost \in Nat /\ starts \in Nat /\ crashes \in Nat

-----------------------------------------------------------------------------
(* Safety, in every run and whatever is lost or crashes.                   *)

\* The states of the sync thread between EnterBallot and the end of a ballot.
InBallot == {"ticket", "wait", "got", "adopt", "tally"}

\* Only the sync thread makes a master leader or follower, so while it holds a
\* ballot /GetStatus answers "consensus", whatever the server thread does.
BallotIsConsensus == \A p \in Masters : pc[p] \in InBallot => m_status[p] = Consensus

\* What get_master_ip(leader) of the follower's branch relies on.  Whenever the
\* sync thread takes that branch its local leader, which a ballot sets to -1
\* between rounds, is the kbid of another master, and it is the m_leader that
\* update_oplog fetches from: the master watched is the master relied on.
WatchesItsLeader ==
    \A p \in Masters :
        m_status[p] = Follower \/ pc[p] \in {"ping", "timeout"}
            => leader[p] \in Masters \ {p} /\ leader[p] = m_leader[p]

\* The two getters of the sentinel behave as the rest of the master assumes.
ImplementsRoles == RolesSpec

-----------------------------------------------------------------------------
(* Safety that needs a bound on the faults, see the runs.                  *)

\* At most one master serves uploads.
AtMostOneLeader ==
    \A p, q \in Masters : m_status[p] = Leader /\ m_status[q] = Leader => p = q

\* Epochs and votes are not stored, so a master that restarts may be elected in
\* an epoch that is over; and a reply that is lost leaves a vote counted at one
\* master only.  Of two masters both lead only after two faults, one of them a
\* lost call.
TwoLeadersTakeTwoFaults ==
    AtMostOneLeader \/ (lost >= 1 /\ lost + crashes >= 2)

\* The answer of a leader names it: who starts late, or gives the leader up, hears
\* from the leader itself for whom to vote.  A vote is moved in every round without a
\* majority and counted from a table that keeps the rounds before; of two masters the
\* winner has still its own vote, whatever crashes, until a call is lost.
LeaderVotesForItself ==
    lost = 0 => \A p \in Masters : m_status[p] = Leader => m_vote[p] = p

\* While nothing fails, no late starter deposes the leader there is.
LeaderIsStable ==
    [][\A p \in Masters : m_status[p] = Leader => m_status'[p] = Leader]_vars

\* FindLeaderTest.test_get_leader asks every master of a deployment for its
\* status and expects a leader: once all of them run, have ended their ballots
\* and have no request in hand, one leads.  A cluster in that state stays in it
\* for as long as every ping is answered.
Settled(p) == /\ up[p] /\ m_status[p] # Consensus /\ retry[p] = 0
              /\ pc[p] \in {"top", "ping"} /\ srv[p].at = "idle"

SettledClusterIsLed ==
    (\A p \in Masters : Settled(p)) => \E p \in Masters : m_status[p] = Leader

-----------------------------------------------------------------------------
(* Liveness, under LiveSpec.                                               *)

\* Every ballot comes to an end: the masters that run end up leader or follower.
EveryoneSettles ==
    <>[](\A p \in Masters : up[p] => m_status[p] # Consensus)

\* After a leader was given up, one of the masters leads again.
ALeaderEmerges == <>[](\E p \in Masters : m_status[p] = Leader)
=============================================================================
